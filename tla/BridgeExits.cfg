CONSTANTS
  e1 = e1
  e2 = e2
  p1 = p1
  p2 = p2
  o1 = o1
  o2 = o2
  h1 = h1
  h2 = h2
  f1 = f1
  x1 = x1
  Exits = {e1, e2}
  Configs <- MCConfigs
  Pollers = {p1, p2}
  Outpoints = {o1, o2}
  WatchOf <- MCWatchOf
  Senders = {h1, h2, f1, x1}
  Relay <- MCRelay
  MinDeposit = 1
  MaxDeposit = 3
  MaxBlockRange = 2
  MaxExitGrains = 2
  InitialReserve = 4
  InitialSupply = 4
  ClaimAmount = 2
  PilotCap = 6
  MaxFaults = 1
SPECIFICATION RelayerSpec
INVARIANTS
  RowsAgreeWithChains
  NothingSkipped
  PreparedIsAttested
PROPERTIES
  MirrorCatchesUp
  PaidIsReleased
CHECK_DEADLOCK FALSE
