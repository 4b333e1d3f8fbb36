CONSTANTS
  Accounts = {"admin", "a", "b"}
  Zero = "zero"
  InitialOwner = "admin"
  Holders = {"a", "b"}
  Deposits = {"d1", "d2", "d3"}
  Txids = {"p1", "p2"}
  Amounts = {1, 2}
  CapsInputs <- MCCapsInputs
  InitialCaps <- MCInitialCaps
  MaxExits = 2
  MaxAdminCalls = 3
  MaxTime = 2
SPECIFICATION Spec
INVARIANTS
  FullyBacked
  WithinPilotCap
  MintRateBounded
CHECK_DEADLOCK FALSE
