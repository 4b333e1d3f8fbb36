CONSTANTS
  FundingDeadline = 0
  RefundAvailableAt = 1
  Modes = {"preauthorized"}
  Amounts = {"on_time"}
  FeeCharged = FALSE
  Targets = {"pearl_escrow_seen", "pearl_escrow_confirmed", "usdc_escrow_pending", "usdc_escrow_confirmed"}
  MaxTime = 2
  MaxPresigns = 1
  ForksHappen = FALSE
  MaxFaults = 1
SPECIFICATION FairSpec
PROPERTIES
  SignedIsDelivered
  RefundOffered
  DisagreementIsFlagged
CHECK_DEADLOCK FALSE
