CONSTANTS
  Blocks <- MCBlocks
  NoBlock = "none"
  HeightOf <- MCHeightOf
  PrevOf <- MCPrevOf
  StartHeight = 0
  Outpoints = {"o1", "o2", "o3"}
  OutputsIn <- MCOutputsIn
  SpendsIn <- MCSpendsIn
  Txids = {"release", "refund", "exit"}
  Paid <- MCPaid
  AnyAddress = "any"
  LockTimeThreshold = 5
  Watches = {"w1", "w2"}
  NoWatch = "nowatch"
  EarlyWatches = {"w1"}
  Pays <- MCPays
  Amount <- MCAmount
  Expected <- MCExpected
  DeadlineHeight <- MCDeadlineHeight
  Required <- MCRequired
  Terms <- MCTerms
  MaxFaults = 1
SPECIFICATION FairSpec
INVARIANTS
  CanonicalChain
  InSyncMeansSameChain
  ObservationsOnCanonicalBlocks
  FundingObserved
  ConfirmationsAreDepth
  OnePrincipalFunding
PROPERTIES
  CatchesUp
  FollowsOneBranch
CHECK_DEADLOCK FALSE
