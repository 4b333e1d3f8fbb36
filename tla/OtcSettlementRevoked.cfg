CONSTANTS
  FundingDeadline = 0
  RefundAvailableAt = 1
  Modes = {"preauthorized"}
  Amounts = {"on_time"}
  FeeCharged = FALSE
  Targets = {"pearl_escrow_seen", "pearl_escrow_confirmed", "usdc_escrow_pending", "usdc_escrow_confirmed", "refund_available"}
  MaxTime = 2
  MaxPresigns = 1
  ForksHappen = FALSE
  MaxFaults = 1
SPECIFICATION Spec
PROPERTY NoBroadcastAfterRevocation
CHECK_DEADLOCK FALSE
