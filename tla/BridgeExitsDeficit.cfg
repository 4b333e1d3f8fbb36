CONSTANTS
  e1 = e1
  e2 = e2
  p1 = p1
  p2 = p2
  Exits = {e1, e2}
  Configs <- MCOneConfig
  Pollers = {p1}
  MaxBlockRange = 2
  MaxExitGrains = 2
  InitialReserve = 6
  InitialSupply = 6
  ClaimAmount = 2
  PilotCap = 6
  MaxFaults = 0
SPECIFICATION Spec
INVARIANT NoReleaseInDeficit
CHECK_DEADLOCK FALSE
