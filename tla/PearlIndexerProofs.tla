------------------------- MODULE PearlIndexerProofs -------------------------
(***************************************************************************)
(* Proofs about PearlIndexer for every block tree, every content of its    *)
(* blocks and any number of faults.                                        *)
(***************************************************************************)
EXTENDS PearlIndexer, EscrowPackage, DataInduction, TLAPS

\* What the canonical chain depends on: the tables and the loop's height agree
\* at every point of the loop, also where a fault may strike.
IndexType ==
  /\ rows \in [Blocks -> {"absent", "live", "detached"}]
  /\ nextHeight \in Int
  /\ height \in Int
  /\ pc \in {"sleep", "fetch", "scan", "detach", "stopped", "down"}
  /\ block \in Blocks \cup {NoBlock}
  /\ \A b \in Blocks : rows[b] = "detached" => HeightOf[b] >= StartHeight

LoopAgrees ==
  /\ StartHeight <= nextHeight
  /\ pc \in {"sleep", "fetch", "detach"} => height = nextHeight
  /\ pc = "scan" => height = nextHeight - 1

IndexInv == IndexType /\ LoopAgrees /\ CanonicalChain

-----------------------------------------------------------------------------
\* A canonical chain that ends below next_height leaves nothing to replay, so
\* the two reads of loadNextHeight agree.
LEMMA ResumeHeight == ASSUME IndexInv PROVE LoadNextHeight = nextHeight
<1> DEFINE heights == {nextHeight} \cup {HeightOf[b] : b \in Unreplaced}
<1>1. \A g \in heights : g \in Int /\ nextHeight <= g
  <2>1. SUFFICES ASSUME NEW b \in Unreplaced
                 PROVE  HeightOf[b] \in Int /\ nextHeight <= HeightOf[b]
    BY DEF IndexInv, IndexType
  <2>2. b \in Blocks /\ rows[b] = "detached" /\ HeightOf[b] \in Int
    BY BlockAssumption DEF Unreplaced
  <2>3. HeightOf[b] >= StartHeight
    BY <2>2 DEF IndexInv, IndexType
  <2>4. ~(HeightOf[b] < nextHeight)
    <3> SUFFICES ASSUME HeightOf[b] < nextHeight PROVE FALSE
      OBVIOUS
    <3>1. HeightOf[b] \in StartHeight..(nextHeight - 1)
      BY <2>2, <2>3, BlockAssumption DEF IndexInv, IndexType
    <3>2. PICK c \in LiveBlocks : HeightOf[c] = HeightOf[b]
      BY <3>1 DEF IndexInv, CanonicalChain
    <3> QED BY <3>2 DEF Unreplaced
  <2> QED BY <2>2, <2>4 DEF IndexInv, IndexType
<1>2. nextHeight \in heights /\ nextHeight \in Int
  BY DEF IndexInv, IndexType
<1>3. \A h \in heights : (\A g \in heights : h <= g) => h = nextHeight
  BY <1>1, <1>2
<1>4. LoadNextHeight = CHOOSE h \in heights : \A g \in heights : h <= g
  BY DEF LoadNextHeight
<1> QED BY <1>1, <1>2, <1>3, <1>4

\* The poll loop always fetches the first height it has not indexed, so the
\* "duplicate" answer of the sink never comes up in a single indexer.
LEMMA FetchIsNew ==
  ASSUME IndexInv, pc = "fetch", NEW b \in Blocks, HeightOf[b] = height
  PROVE  b \notin LiveBlocks /\ SaveResult(b) # "duplicate"
<1>1. height = nextHeight /\ nextHeight \in Int
  BY DEF IndexInv, LoopAgrees, IndexType
<1>2. b \notin LiveBlocks
  BY <1>1 DEF IndexInv, CanonicalChain
<1> QED BY <1>2 DEF SaveResult

-----------------------------------------------------------------------------
\* An empty database satisfies the invariant.
LEMMA IndexInit == Init => IndexInv
<1> SUFFICES ASSUME Init PROVE IndexInv
  OBVIOUS
<1>1. LiveBlocks = {}
  BY DEF Init, LiveBlocks
<1>2. IndexType
  BY BlockAssumption DEF Init, IndexType
<1>3. LoopAgrees
  BY BlockAssumption DEF Init, LoopAgrees
<1>4. CanonicalChain
  BY <1>1, BlockAssumption DEF Init, CanonicalChain
<1> QED BY <1>2, <1>3, <1>4 DEF IndexInv

\* A block on top of the canonical tip, or the very first one.
LEMMA SaveStep ==
  ASSUME IndexInv, pc = "fetch", NEW b \in Blocks, HeightOf[b] = height,
         SaveResult(b) = "saved",
         rows' = RowsAfter(b), nextHeight' = NextHeightAfter(b),
         pc' = "scan", height' = height, block' = b
  PROVE  IndexInv'
<1>1. height = nextHeight /\ nextHeight \in Int /\ StartHeight \in Int /\ StartHeight <= nextHeight
  BY BlockAssumption DEF IndexInv, LoopAgrees, IndexType
<1>2. b \notin LiveBlocks /\ StaleParents(b) = {}
  BY FetchIsNew DEF SaveResult
<1>3. rows' = [rows EXCEPT ![b] = "live"] /\ nextHeight' = nextHeight + 1
  BY <1>1 DEF RowsAfter, NextHeightAfter
<1>4. LiveBlocks' = LiveBlocks \cup {b}
  BY <1>3 DEF LiveBlocks, IndexInv, IndexType
<1>5. IndexType'
  BY <1>1, <1>3 DEF IndexInv, IndexType
<1>6. LoopAgrees'
  BY <1>1, <1>3 DEF LoopAgrees
<1>7. CanonicalChain'
  <2>0. \A c \in LiveBlocks : c \in Blocks /\ HeightOf[c] \in Int /\ HeightOf[c] < nextHeight
    BY BlockAssumption DEF IndexInv, CanonicalChain, LiveBlocks
  <2>1. \A c \in LiveBlocks' : StartHeight <= HeightOf[c] /\ HeightOf[c] < nextHeight'
    BY <1>1, <1>3, <1>4, <2>0 DEF IndexInv, CanonicalChain
  <2>2. \A h \in StartHeight..(nextHeight' - 1) : \E c \in LiveBlocks' : HeightOf[c] = h
    <3> SUFFICES ASSUME NEW h \in StartHeight..(nextHeight' - 1)
                 PROVE  \E c \in LiveBlocks' : HeightOf[c] = h
      OBVIOUS
    <3>1. CASE h = nextHeight
      BY <3>1, <1>1, <1>4
    <3>2. CASE h # nextHeight
      <4>1. h \in StartHeight..(nextHeight - 1)
        BY <3>2, <1>1, <1>3
      <4> QED BY <4>1, <1>4 DEF IndexInv, CanonicalChain
    <3> QED BY <3>1, <3>2
  <2>3. \A c, d \in LiveBlocks' : HeightOf[c] = HeightOf[d] => c = d
    BY <1>1, <1>4, <2>0 DEF IndexInv, CanonicalChain
  <2>4. \A c, d \in LiveBlocks' : HeightOf[d] = HeightOf[c] + 1 => PrevOf[d] = c
    <3> SUFFICES ASSUME NEW c \in LiveBlocks', NEW d \in LiveBlocks', HeightOf[d] = HeightOf[c] + 1
                 PROVE  PrevOf[d] = c
      OBVIOUS
    <3>1. CASE d = b
      <4>1. c \in LiveBlocks /\ HeightOf[c] = HeightOf[b] - 1
        BY <3>1, <1>1, <1>4, <2>0, BlockAssumption
      <4> QED BY <4>1, <3>1, <1>2 DEF StaleParents
    <3>2. CASE d # b /\ c = b
      BY <3>2, <1>1, <1>4, <2>0
    <3>3. CASE d # b /\ c # b
      BY <3>3, <1>4 DEF IndexInv, CanonicalChain
    <3> QED BY <3>1, <3>2, <3>3
  <2> QED BY <2>1, <2>2, <2>3, <2>4 DEF CanonicalChain
<1> QED BY <1>5, <1>6, <1>7 DEF IndexInv

\* A block that does not extend the tip takes exactly the tip away.
LEMMA ReorgStep ==
  ASSUME IndexInv, pc = "fetch", NEW b \in Blocks, HeightOf[b] = height,
         SaveResult(b) = "reorg",
         rows' = RowsAfter(b), nextHeight' = NextHeightAfter(b),
         pc' = "detach", height' = height - 1, block' \in StaleParents(b)
  PROVE  /\ IndexInv'
         /\ \A c \in LiveBlocks : HeightOf[c] <= HeightOf[block']
         /\ block' \in LiveBlocks
         /\ LiveBlocks' = LiveBlocks \ {block'}
<1>1. height = nextHeight /\ nextHeight \in Int /\ StartHeight \in Int /\ StartHeight <= nextHeight
  BY BlockAssumption DEF IndexInv, LoopAgrees, IndexType
<1>2. nextHeight' = nextHeight - 1
  BY <1>1 DEF NextHeightAfter
<1>3. block' \in LiveBlocks /\ block' \in Blocks /\ HeightOf[block'] = nextHeight - 1
  BY <1>1 DEF StaleParents, LiveBlocks
<1>4. \A c \in LiveBlocks : /\ c \in Blocks /\ HeightOf[c] \in Int
                           /\ StartHeight <= HeightOf[c] /\ HeightOf[c] < nextHeight
  BY BlockAssumption DEF IndexInv, CanonicalChain, LiveBlocks
<1>5. rows' = [c \in Blocks |-> IF c \in LiveBlocks /\ HeightOf[c] = HeightOf[b] - 1
                                THEN "detached" ELSE rows[c]]
  BY DEF RowsAfter
<1>6. \A c \in LiveBlocks : HeightOf[c] = HeightOf[b] - 1 <=> c = block'
  BY <1>1, <1>3 DEF IndexInv, CanonicalChain
<1>7. LiveBlocks' = LiveBlocks \ {block'}
  BY <1>5, <1>6 DEF LiveBlocks
<1>8. IndexType'
  BY <1>1, <1>2, <1>3, <1>4, <1>5 DEF IndexInv, IndexType
<1>9. LoopAgrees'
  BY <1>1, <1>2, <1>3, <1>4 DEF LoopAgrees
<1>10. CanonicalChain'
  <2>1. \A c \in LiveBlocks' : StartHeight <= HeightOf[c] /\ HeightOf[c] < nextHeight'
    <3> SUFFICES ASSUME NEW c \in LiveBlocks' PROVE StartHeight <= HeightOf[c] /\ HeightOf[c] < nextHeight'
      OBVIOUS
    <3>1. c \in LiveBlocks /\ c # block'
      BY <1>7
    <3>2. HeightOf[c] # HeightOf[block']
      BY <3>1, <1>3 DEF IndexInv, CanonicalChain
    <3> QED BY <3>1, <3>2, <1>1, <1>2, <1>3, <1>4
  <2>2. \A h \in StartHeight..(nextHeight' - 1) : \E c \in LiveBlocks' : HeightOf[c] = h
    <3> SUFFICES ASSUME NEW h \in StartHeight..(nextHeight' - 1)
                 PROVE  \E c \in LiveBlocks' : HeightOf[c] = h
      OBVIOUS
    <3>1. h \in StartHeight..(nextHeight - 1) /\ h # nextHeight - 1
      BY <1>1, <1>2
    <3>2. PICK c \in LiveBlocks : HeightOf[c] = h
      BY <3>1 DEF IndexInv, CanonicalChain
    <3> QED BY <3>1, <3>2, <1>3, <1>7
  <2>3. /\ \A c, d \in LiveBlocks' : HeightOf[c] = HeightOf[d] => c = d
        /\ \A c, d \in LiveBlocks' : HeightOf[d] = HeightOf[c] + 1 => PrevOf[d] = c
    BY <1>7 DEF IndexInv, CanonicalChain
  <2> QED BY <2>1, <2>2, <2>3 DEF CanonicalChain
<1> QED BY <1>1, <1>3, <1>4, <1>7, <1>8, <1>9, <1>10 DEF IndexInv

\* Steps that touch neither table of the index.
LEMMA KeepsChain ==
  ASSUME IndexInv, UNCHANGED <<rows, nextHeight>>,
         height' \in Int,
         pc' \in {"sleep", "fetch", "scan", "detach", "stopped", "down"},
         block' \in Blocks \cup {NoBlock},
         LoopAgrees'
  PROVE  IndexInv' /\ LiveBlocks' = LiveBlocks
<1>1. LiveBlocks' = LiveBlocks
  BY DEF LiveBlocks
<1>2. IndexType'
  BY DEF IndexInv, IndexType
<1>3. CanonicalChain'
  BY <1>1 DEF IndexInv, CanonicalChain
<1> QED BY <1>1, <1>2, <1>3 DEF IndexInv

\* Every step of node, indexer or fault keeps the invariant of the loop.
LEMMA IndexStep == ASSUME IndexInv, [Next]_vars PROVE IndexInv'
<1> USE DEF dbVars, loopVars, queues, scanVars, faultVars
<1>0. height \in Int /\ nextHeight \in Int
  BY DEF IndexInv, IndexType
<1>1. CASE NodeAdvances
  BY <1>1, KeepsChain DEF NodeAdvances, IndexInv, IndexType, LoopAgrees
<1>2. CASE Poll
  BY <1>2, KeepsChain DEF Poll, IndexInv, IndexType, LoopAgrees
<1>3. CASE FetchAndSave
  <2>1. PICK b \in Blocks :
          /\ HeightOf[b] = height
          /\ rows' = RowsAfter(b)
          /\ nextHeight' = NextHeightAfter(b)
          /\ IF SaveResult(b) = "duplicate" THEN Continue /\ UNCHANGED <<block, queues>>
             ELSE IF SaveResult(b) = "saved" THEN StartScan(b)
             ELSE Rewind(b)
    BY <1>3 DEF FetchAndSave, BlockAt
  <2>2. pc = "fetch"
    BY <1>3 DEF FetchAndSave, BlockAt
  <2>3. SaveResult(b) # "duplicate"
    BY <2>1, <2>2, FetchIsNew
  <2>4. CASE SaveResult(b) = "saved"
    BY <2>1, <2>2, <2>4, SaveStep DEF StartScan
  <2>5. CASE SaveResult(b) = "reorg"
    BY <2>1, <2>2, <2>5, ReorgStep DEF Rewind
  <2>6. SaveResult(b) \in {"duplicate", "reorg", "saved"}
    BY DEF SaveResult
  <2> QED BY <2>3, <2>4, <2>5, <2>6
<1>4. CASE DetachObservations
  BY <1>4, KeepsChain DEF DetachObservations, IndexInv, IndexType, LoopAgrees
<1>5. CASE ScanOutput
  BY <1>5, KeepsChain DEF ScanOutput, IndexInv, IndexType, LoopAgrees
<1>6. CASE ScanSpend
  BY <1>6, KeepsChain DEF ScanSpend, IndexInv, IndexType, LoopAgrees
<1>7. CASE AdvanceConfirmations
  BY <1>0, <1>7, KeepsChain DEF AdvanceConfirmations, Continue, IndexInv, IndexType, LoopAgrees
<1>8. ASSUME NEW w \in Watches, RegisterWatch(w) \/ CloseWatch(w) PROVE IndexInv'
  BY <1>8, KeepsChain DEF RegisterWatch, CloseWatch, IndexInv, IndexType, LoopAgrees
<1>9. CASE Crash
  BY <1>9, KeepsChain DEF Crash, LoseWork, IndexInv, IndexType, LoopAgrees
<1>10. CASE PollFails
  BY <1>10, KeepsChain DEF PollFails, LoseWork, IndexInv, IndexType, LoopAgrees
<1>11. CASE Restart
  BY <1>0, <1>11, ResumeHeight, KeepsChain DEF Restart, IndexInv, IndexType, LoopAgrees
<1>12. CASE UNCHANGED vars
  BY <1>12, KeepsChain DEF vars, IndexInv, IndexType, LoopAgrees
<1> QED
  BY <1>1, <1>2, <1>3, <1>4, <1>5, <1>6, <1>7, <1>8, <1>9, <1>10, <1>11, <1>12 DEF Next, Work, WatchApi

\* The invariant of the loop holds of every reachable state.
LEMMA IndexInvariant == Spec => []IndexInv
<1>1. Init => IndexInv
  BY IndexInit
<1>2. IndexInv /\ [Next]_vars => IndexInv'
  BY IndexStep
<1> QED BY <1>1, <1>2, PTL DEF Spec

-----------------------------------------------------------------------------
\* PgBlockSink and the poll loop keep the canonical rows one hash-linked chain
\* ending right below next_height, whatever the node does and wherever faults
\* fall.
THEOREM CanonicalChainHolds == Spec => []CanonicalChain
<1>1. IndexInv => CanonicalChain
  BY DEF IndexInv
<1> QED BY <1>1, IndexInvariant, PTL

\* loadNextHeight always names the end of the persisted chain.
THEOREM ResumesAtChainEndHolds == Spec => []ResumesAtChainEnd
<1>1. IndexInv => ResumesAtChainEnd
  BY ResumeHeight DEF ResumesAtChainEnd
<1> QED BY <1>1, IndexInvariant, PTL

-----------------------------------------------------------------------------
\* What a step of the indexer does to the canonical blocks.
LEMMA BranchStep ==
  ASSUME IndexInv, [Next]_vars
  PROVE  \/ \E b \in Blocks : Follower!Attach(b) \/ Follower!DetachTip(b)
         \/ UNCHANGED LiveBlocks
<1>1. CASE FetchAndSave
  <2>1. PICK b \in Blocks :
          /\ HeightOf[b] = height
          /\ rows' = RowsAfter(b)
          /\ nextHeight' = NextHeightAfter(b)
          /\ IF SaveResult(b) = "duplicate" THEN Continue /\ UNCHANGED <<block, queues>>
             ELSE IF SaveResult(b) = "saved" THEN StartScan(b)
             ELSE Rewind(b)
    BY <1>1 DEF FetchAndSave, BlockAt
  <2>2. pc = "fetch" /\ SaveResult(b) # "duplicate" /\ b \notin LiveBlocks
    BY <1>1, <2>1, FetchIsNew DEF FetchAndSave, BlockAt
  <2>3. CASE SaveResult(b) = "saved"
    <3>1. rows' = [rows EXCEPT ![b] = "live"] /\ StaleParents(b) = {}
      BY <2>1, <2>2, <2>3 DEF RowsAfter, SaveResult
    <3>2. LiveBlocks' = LiveBlocks \cup {b}
      BY <3>1 DEF LiveBlocks, IndexInv, IndexType
    <3>3. height = nextHeight /\ nextHeight \in Int /\ StartHeight \in Int /\ StartHeight <= nextHeight
      BY <2>2, BlockAssumption DEF IndexInv, LoopAgrees, IndexType
    <3>4. \A c \in LiveBlocks : HeightOf[c] \in Int /\ StartHeight <= HeightOf[c] /\ HeightOf[c] < nextHeight
      BY BlockAssumption DEF IndexInv, CanonicalChain, LiveBlocks
    <3>5. CASE nextHeight = StartHeight
      <4>1. LiveBlocks = {}
        BY <3>3, <3>4, <3>5
      <4> QED BY <2>1, <2>2, <3>2, <3>3, <3>5, <4>1 DEF Follower!Attach
    <3>6. CASE nextHeight # StartHeight
      <4>1. nextHeight - 1 \in StartHeight..(nextHeight - 1)
        BY <3>3, <3>6
      <4>2. PICK p \in LiveBlocks : HeightOf[p] = nextHeight - 1
        BY <4>1 DEF IndexInv, CanonicalChain
      <4>3. PrevOf[b] = p
        BY <2>1, <3>1, <3>3, <4>2 DEF StaleParents
      <4>4. Follower!IsTip(p)
        BY <3>3, <3>4, <4>2 DEF Follower!IsTip
      <4> QED BY <2>2, <3>2, <4>2, <4>3, <4>4 DEF Follower!Attach
    <3> QED BY <3>5, <3>6
  <2>4. CASE SaveResult(b) = "reorg"
    <3>1. /\ \A c \in LiveBlocks : HeightOf[c] <= HeightOf[block']
          /\ block' \in LiveBlocks
          /\ LiveBlocks' = LiveBlocks \ {block'}
      BY <2>1, <2>2, <2>4, ReorgStep DEF Rewind
    <3>2. block' \in Blocks
      BY <3>1 DEF LiveBlocks
    <3>3. Follower!DetachTip(block')
      BY <3>1 DEF Follower!DetachTip, Follower!IsTip
    <3> QED BY <3>2, <3>3
  <2>5. SaveResult(b) \in {"duplicate", "reorg", "saved"}
    BY DEF SaveResult
  <2> QED BY <2>2, <2>3, <2>4, <2>5
<1>2. CASE ~FetchAndSave
  <2>1. UNCHANGED rows
    BY <1>2 DEF Next, Work, WatchApi, vars, dbVars, NodeAdvances, Poll, DetachObservations, ScanOutput,
                ScanSpend, AdvanceConfirmations, RegisterWatch, CloseWatch, Crash, PollFails,
                LoseWork, Restart
  <2> QED BY <2>1 DEF LiveBlocks
<1> QED BY <1>1, <1>2

\* The index implements the abstract chain follower: readers of pearl_blocks
\* only ever see one branch of the block tree that grows and shrinks at its tip.
THEOREM FollowsOneBranchHolds == Spec => FollowsOneBranch
<1>1. Init => Follower!Init
  BY DEF Init, Follower!Init, LiveBlocks
<1>2. IndexInv /\ [Next]_vars => [Follower!Next]_LiveBlocks
  BY BranchStep DEF Follower!Next
<1> QED BY <1>1, <1>2, IndexInvariant, PTL DEF Spec, FollowsOneBranch, Follower!Spec

-----------------------------------------------------------------------------
\* The absent observation is a row like any other.
LEMMA NoObsType == NoObs \in ObsRows
BY DEF NoObs, ObsRows, Classes, Unspent

\* The initial tables are well typed.
LEMMA TypeInit == Init => TypeOK
<1> SUFFICES ASSUME Init PROVE TypeOK
  OBVIOUS
<1>1. \A o \in Outpoints : obs[o] = NoObs
  BY DEF Init
<1>2. obs \in [Outpoints -> ObsRows]
  BY NoObsType DEF Init
<1>3. \A o \in Outpoints :
        /\ obs[o].status = "detached" <=> obs[o].class = "reorged"
        /\ obs[o].status # "absent" => obs[o].block \in Blocks /\ obs[o].watch \in Watches
  BY <1>1 DEF NoObs
<1> QED BY <1>2, <1>3, BlockAssumption, ContentAssumption DEF Init, TypeOK

\* The part of TypeOK about address_observations.
ObsType ==
  /\ obs \in [Outpoints -> ObsRows]
  /\ \A o \in Outpoints :
       /\ obs[o].status = "detached" <=> obs[o].class = "reorged"
       /\ obs[o].status # "absent" => obs[o].block \in Blocks /\ obs[o].watch \in Watches

\* Each write of the scanner keeps the rows well formed.
LEMMA RecordType ==
  ASSUME ObsType, block \in Blocks, NEW o \in Outpoints, NEW w \in Watches,
         obs' = Recorded(o, w)
  PROVE  ObsType'
<1>1. CASE LiveObs(o)
  BY <1>1 DEF Recorded, ObsType
<1>2. CASE ~LiveObs(o)
  <2> DEFINE c == IF HasPriorLiveObservation(w, o) THEN "duplicate" ELSE ClassifyFunding(o, block, w)
             r == [status |-> "pending", block |-> block, watch |-> w, confirmations |-> 1, class |-> c]
  <2>1. c \in Classes \ {"reorged"}
    BY DEF ClassifyFunding, Classes
  <2>2. r \in ObsRows /\ r.status = "pending" /\ r.block = block /\ r.watch = w /\ r.class # "reorged"
    BY <2>1 DEF ObsRows, Unspent
  <2>3. obs' = [obs EXCEPT ![o] = r]
    BY <1>2 DEF Recorded
  <2> HIDE DEF r
  <2> QED BY <2>2, <2>3 DEF ObsType
<1> QED BY <1>1, <1>2

\* Detaching the observations of a block keeps their table well typed.
LEMMA DetachType ==
  ASSUME ObsType, obs' = DetachedObs
  PROVE  ObsType'
<1>1. \A o \in Outpoints : obs[o] \in ObsRows
  BY DEF ObsType
<1>2. \A o \in Outpoints :
        LiveObs(o) /\ obs[o].block = block =>
          /\ obs'[o] \in ObsRows
          /\ obs'[o].status = "detached" /\ obs'[o].class = "reorged"
          /\ obs'[o].block = obs[o].block /\ obs'[o].watch = obs[o].watch
          /\ obs[o].status # "absent"
  BY <1>1 DEF DetachedObs, ObsRows, Classes, LiveObs, Unspent
<1>3. \A o \in Outpoints : ~(LiveObs(o) /\ obs[o].block = block) => obs'[o] = obs[o]
  BY DEF DetachedObs
<1>4. obs' \in [Outpoints -> ObsRows]
  BY <1>1, <1>2, <1>3 DEF DetachedObs
<1> QED BY <1>2, <1>3, <1>4 DEF ObsType

\* Refreshing the confirmations keeps the observations well typed.
LEMMA AdvanceType ==
  ASSUME ObsType, block \in Blocks, obs' = AdvancedObs
  PROVE  ObsType'
<1>1. \A o \in Outpoints : obs[o] \in ObsRows
  BY DEF ObsType
<1>2. ASSUME NEW o \in Outpoints, obs[o].status \in Unspent
      PROVE  /\ obs'[o] \in ObsRows
             /\ obs'[o].status \in Unspent /\ obs'[o].class = obs[o].class
             /\ obs'[o].block = obs[o].block /\ obs'[o].watch = obs[o].watch
  <2>1. obs[o].block \in Blocks
    BY <1>2 DEF ObsType, Unspent
  <2>2. Confirmations(o) \in Int
    BY <2>1, BlockAssumption DEF Confirmations
  <2> DEFINE st == IF Confirmations(o) >= Required[obs[o].watch] THEN "confirmed" ELSE "pending"
  <2>3. obs'[o] = [obs[o] EXCEPT !.confirmations = Confirmations(o), !.status = st]
    BY <1>2 DEF AdvancedObs
  <2>4. st \in Unspent
    BY DEF Unspent
  <2> HIDE DEF st
  <2> QED BY <1>1, <2>2, <2>3, <2>4 DEF ObsRows
<1>3. \A o \in Outpoints : obs[o].status \notin Unspent => obs'[o] = obs[o]
  BY DEF AdvancedObs
<1>4. obs' \in [Outpoints -> ObsRows]
  BY <1>1, <1>2, <1>3 DEF AdvancedObs
<1>5. "detached" \notin Unspent /\ "absent" \notin Unspent
  BY DEF Unspent
<1> QED BY <1>2, <1>3, <1>4, <1>5 DEF ObsType

\* Recording a spend keeps the observations well typed.
LEMMA SpendType ==
  ASSUME ObsType, NEW o \in Outpoints, LiveObs(o),
         obs' = [obs EXCEPT ![o] = [@ EXCEPT !.status = "spent"]]
  PROVE  ObsType'
<1> DEFINE r == [obs[o] EXCEPT !.status = "spent"]
<1>1. obs' = [obs EXCEPT ![o] = r]
  OBVIOUS
<1>2. /\ r \in ObsRows /\ r.status = "spent" /\ r.class = obs[o].class
      /\ r.block = obs[o].block /\ r.watch = obs[o].watch
  BY DEF ObsType, ObsRows
<1>3. obs[o].status # "detached" /\ obs[o].status # "absent"
  BY DEF LiveObs, Unspent
<1> HIDE DEF r
<1> QED BY <1>1, <1>2, <1>3 DEF ObsType

\* How each step changes address_observations.
LEMMA ObsStep ==
  ASSUME TypeOK, Next
  PROVE  \/ obs' = obs
         \/ pc = "detach" /\ obs' = DetachedObs
         \/ pc = "scan" /\ \E o \in Outpoints, w \in Watches : obs' = Recorded(o, w)
         \/ pc = "scan" /\ obs' = AdvancedObs
         \/ \E o \in Outpoints : LiveObs(o) /\ obs' = [obs EXCEPT ![o] = [@ EXCEPT !.status = "spent"]]
<1> USE DEF scanVars
<1>1. CASE DetachObservations
  BY <1>1 DEF DetachObservations
<1>2. CASE ScanOutput
  <2>1. Head(outputs) \in Outpoints
    BY <1>2 DEF ScanOutput, TypeOK
  <2>2. \A w \in Pays[Head(outputs)] : w \in Watches
    BY <2>1, ContentAssumption
  <2> QED BY <1>2, <2>1, <2>2 DEF ScanOutput
<1>3. CASE ScanSpend
  <2>1. Head(inputs) \in SpendItems
    BY <1>3 DEF ScanSpend, TypeOK
  <2>2. Head(inputs).outpoint \in Outpoints
    BY <2>1 DEF SpendItems
  <2> QED BY <1>3, <2>2 DEF ScanSpend
<1>4. CASE AdvanceConfirmations
  BY <1>4 DEF AdvanceConfirmations
<1>5. CASE NodeAdvances \/ Poll \/ FetchAndSave \/ Crash \/ PollFails \/ Restart
  BY <1>5 DEF NodeAdvances, Poll, FetchAndSave, BlockAt, Crash, PollFails, LoseWork, Restart
<1>6. ASSUME NEW w \in Watches, RegisterWatch(w) \/ CloseWatch(w) PROVE obs' = obs
  BY <1>6 DEF RegisterWatch, CloseWatch
<1> QED BY <1>1, <1>2, <1>3, <1>4, <1>5, <1>6 DEF Next, Work, WatchApi

\* Every step keeps the observations well typed.
LEMMA ObsTypeStep ==
  ASSUME TypeOK, Next PROVE ObsType'
<1>1. ObsType
  BY DEF TypeOK, ObsType
<1>2. pc = "scan" => block \in Blocks
  BY DEF TypeOK
<1>3. CASE obs' = obs
  BY <1>1, <1>3 DEF ObsType
<1>4. CASE obs' = DetachedObs
  BY <1>1, <1>4, DetachType
<1>5. CASE pc = "scan" /\ \E o \in Outpoints, w \in Watches : obs' = Recorded(o, w)
  BY <1>1, <1>2, <1>5, RecordType
<1>6. CASE pc = "scan" /\ obs' = AdvancedObs
  BY <1>1, <1>2, <1>6, AdvanceType
<1>7. CASE \E o \in Outpoints : LiveObs(o) /\ obs' = [obs EXCEPT ![o] = [@ EXCEPT !.status = "spent"]]
  BY <1>1, <1>7, SpendType
<1> QED BY ObsStep, <1>3, <1>4, <1>5, <1>6, <1>7

\* The rest of TypeOK.
LEMMA LoopTypeStep ==
  ASSUME IndexInv, IndexInv', TypeOK, Next
  PROVE  /\ node' \in Blocks
         /\ tipSeen' \in Int
         /\ pc' \in {"scan", "detach"} => block' \in Blocks
         /\ outputs' \in Seq(Outpoints) /\ inputs' \in Seq(SpendItems)
         /\ watches' \in [Watches -> {"unregistered", "active", "closed"}]
         /\ \A s \in spends' : s.outpoint \in Outpoints /\ s.block \in Blocks
         /\ faults' \in 0..MaxFaults
         /\ cut' \subseteq Blocks
<1> USE DEF dbVars, loopVars, queues, scanVars, faultVars
<1>1. CASE NodeAdvances
  BY <1>1 DEF NodeAdvances, TypeOK
<1>2. CASE Poll
  BY <1>2, BlockAssumption DEF Poll, TypeOK
<1>3. CASE FetchAndSave
  <2>1. PICK b \in Blocks :
          IF SaveResult(b) = "duplicate" THEN Continue /\ UNCHANGED <<block, queues>>
          ELSE IF SaveResult(b) = "saved" THEN StartScan(b)
          ELSE Rewind(b)
    BY <1>3 DEF FetchAndSave, BlockAt
  <2>2. /\ UNCHANGED <<node, watches, spends, faults, cut>>
        /\ tipSeen' = tipSeen
        /\ pc' \in {"scan", "detach"} => block' \in Blocks
        /\ outputs' \in Seq(Outpoints) /\ inputs' \in Seq(SpendItems)
    BY <1>3, <2>1, ContentAssumption
       DEF FetchAndSave, BlockAt, StartScan, Rewind, Continue, StaleParents, LiveBlocks, TypeOK
  <2> QED BY <2>2 DEF TypeOK
<1>4. CASE DetachObservations
  BY <1>4 DEF DetachObservations, TypeOK
<1>5. CASE ScanOutput
  BY <1>5 DEF ScanOutput, TypeOK
<1>6. CASE ScanSpend
  <2>1. Head(inputs) \in SpendItems /\ Tail(inputs) \in Seq(SpendItems) /\ block \in Blocks
    BY <1>6 DEF ScanSpend, TypeOK
  <2>2. Head(inputs).outpoint \in Outpoints
    BY <2>1 DEF SpendItems
  <2>3. spends' = spends \/ spends' = SpendsAfter(Head(inputs))
    BY <1>6 DEF ScanSpend
  <2>4. \A s \in spends' : s.outpoint \in Outpoints /\ s.block \in Blocks
    BY <2>1, <2>2, <2>3 DEF SpendsAfter, TypeOK
  <2> QED BY <1>6, <2>1, <2>4 DEF ScanSpend, TypeOK
<1>7. CASE AdvanceConfirmations
  BY <1>7 DEF AdvanceConfirmations, Continue, TypeOK
<1>8. ASSUME NEW w \in Watches, RegisterWatch(w) \/ CloseWatch(w)
      PROVE  /\ UNCHANGED <<node, tipSeen, pc, block, outputs, inputs, spends, faults, cut>>
             /\ watches' \in [Watches -> {"unregistered", "active", "closed"}]
  BY <1>8 DEF RegisterWatch, CloseWatch, TypeOK
<1>9. CASE Crash \/ PollFails
  <2>1. /\ UNCHANGED <<node, tipSeen, watches, spends>>
        /\ pc' \in {"down", "stopped"}
        /\ outputs' = <<>> /\ inputs' = <<>>
    BY <1>9 DEF Crash, PollFails, LoseWork
  <2>2. faults' \in 0..MaxFaults
    BY <1>9, BlockAssumption DEF Crash, PollFails, LoseWork, TypeOK
  <2>3. cut' \subseteq Blocks
    BY <1>9 DEF Crash, PollFails, LoseWork, TypeOK
  <2>4. <<>> \in Seq(Outpoints) /\ <<>> \in Seq(SpendItems)
    OBVIOUS
  <2> QED BY <2>1, <2>2, <2>3, <2>4 DEF TypeOK
<1>10. CASE Restart
  BY <1>10 DEF Restart, TypeOK
<1>11. CASE \E w \in Watches : RegisterWatch(w) \/ CloseWatch(w)
  BY <1>8, <1>11 DEF TypeOK
<1> QED BY <1>1, <1>2, <1>3, <1>4, <1>5, <1>6, <1>7, <1>9, <1>10, <1>11 DEF Next, Work, WatchApi

\* Every step keeps all tables well typed.
LEMMA TypeStep ==
  ASSUME IndexInv, IndexInv', TypeOK, [Next]_vars PROVE TypeOK'
<1>1. CASE Next
  BY <1>1, ObsTypeStep, LoopTypeStep DEF IndexInv, IndexType, ObsType, TypeOK
<1>2. CASE UNCHANGED vars
  BY <1>2 DEF vars, TypeOK
<1> QED BY <1>1, <1>2

\* The tables and the loop's memory keep their shape, and a verdict of "reorged"
\* goes with a detached observation and with no other.
THEOREM TypeOKHolds == Spec => []TypeOK
<1>1. Init => TypeOK
  BY TypeInit
<1>2. IndexInv /\ IndexInv' /\ TypeOK /\ [Next]_vars => TypeOK'
  BY TypeStep
<1> QED BY <1>1, <1>2, IndexInvariant, PTL DEF Spec

-----------------------------------------------------------------------------
\* A block is scanned only while it is canonical.
ScanInv ==
  /\ pc = "scan" => rows[block] = "live"
  /\ ObservationsOnCanonicalBlocks

\* Every step keeps the scanned block canonical or freshly detached.
LEMMA ScanStep ==
  ASSUME IndexInv, TypeOK, ScanInv, [Next]_vars PROVE ScanInv'
<1> USE DEF dbVars, loopVars, queues, scanVars, faultVars
<1>0. ObsType
  BY DEF TypeOK, ObsType
<1>1. CASE FetchAndSave
  <2>1. PICK b \in Blocks :
          /\ HeightOf[b] = height
          /\ rows' = RowsAfter(b)
          /\ nextHeight' = NextHeightAfter(b)
          /\ IF SaveResult(b) = "duplicate" THEN Continue /\ UNCHANGED <<block, queues>>
             ELSE IF SaveResult(b) = "saved" THEN StartScan(b)
             ELSE Rewind(b)
    BY <1>1 DEF FetchAndSave, BlockAt
  <2>2. /\ pc = "fetch" /\ SaveResult(b) # "duplicate"
        /\ UNCHANGED <<obs, cut>>
    BY <1>1, <2>1, FetchIsNew DEF FetchAndSave, BlockAt
  <2>3. \A o \in Outpoints : LiveObs(o)' <=> LiveObs(o)
    BY <2>2 DEF LiveObs
  <2>4. \A o \in Outpoints : LiveObs(o) /\ obs[o].block \notin cut => rows[obs[o].block] = "live"
    BY <2>2 DEF ScanInv, ObservationsOnCanonicalBlocks
  <2>5. \A o \in Outpoints : LiveObs(o) => obs[o].block \in Blocks
    BY <1>0 DEF ObsType, LiveObs, Unspent
  <2>6. CASE SaveResult(b) = "saved"
    <3>1. rows' = [rows EXCEPT ![b] = "live"] /\ block' = b
      BY <2>1, <2>6 DEF RowsAfter, StartScan
    <3>2. \A c \in Blocks : rows[c] = "live" => rows'[c] = "live"
      BY <3>1 DEF IndexInv, IndexType
    <3>3. rows'[block'] = "live"
      BY <3>1 DEF IndexInv, IndexType
    <3> QED BY <2>2, <2>3, <2>4, <2>5, <3>2, <3>3 DEF ScanInv, ObservationsOnCanonicalBlocks
  <2>7. CASE SaveResult(b) = "reorg"
    <3>1. /\ LiveBlocks' = LiveBlocks \ {block'}
          /\ pc' = "detach"
      BY <2>1, <2>2, <2>7, ReorgStep DEF Rewind
    <3>2. \A c \in Blocks : rows[c] = "live" /\ c # block' => rows'[c] = "live"
      BY <3>1 DEF LiveBlocks
    <3> QED BY <2>2, <2>3, <2>4, <2>5, <3>1, <3>2 DEF ScanInv, ObservationsOnCanonicalBlocks
  <2>8. SaveResult(b) \in {"duplicate", "reorg", "saved"}
    BY DEF SaveResult
  <2> QED BY <2>2, <2>6, <2>7, <2>8
<1>2. CASE DetachObservations
  <2>1. rows' = rows /\ cut' = cut /\ pc' = "sleep" /\ pc = "detach" /\ obs' = DetachedObs
    BY <1>2 DEF DetachObservations
  <2>2. \A o \in Outpoints : LiveObs(o)' => LiveObs(o) /\ obs[o].block # block /\ obs'[o] = obs[o]
    <3> SUFFICES ASSUME NEW o \in Outpoints, LiveObs(o)'
                 PROVE  LiveObs(o) /\ obs[o].block # block /\ obs'[o] = obs[o]
      OBVIOUS
    <3>1. CASE LiveObs(o) /\ obs[o].block = block
      <4>1. obs[o] \in ObsRows
        BY <1>0 DEF ObsType
      <4>2. obs'[o].status = "detached"
        BY <2>1, <3>1, <4>1 DEF DetachedObs, ObsRows
      <4> QED BY <4>2 DEF LiveObs, Unspent
    <3>2. CASE ~(LiveObs(o) /\ obs[o].block = block)
      BY <2>1, <3>2 DEF DetachedObs, LiveObs
    <3> QED BY <3>1, <3>2
  <2> QED BY <2>1, <2>2 DEF ScanInv, ObservationsOnCanonicalBlocks
<1>3. CASE ScanOutput
  <2>1. UNCHANGED <<rows, cut, pc, block>> /\ pc = "scan" /\ Next
    BY <1>3 DEF ScanOutput, Next, Work, WatchApi
  <2>2. obs' = obs \/ \E o \in Outpoints, w \in Watches : obs' = Recorded(o, w)
    <3>1. Head(outputs) \in Outpoints
      BY <1>3 DEF ScanOutput, TypeOK
    <3>2. Pays[Head(outputs)] \subseteq Watches
      BY <3>1, ContentAssumption
    <3> QED BY <1>3, <3>1, <3>2 DEF ScanOutput
  <2>3. \A p \in Outpoints : obs'[p] = obs[p] \/ obs'[p].block = block
    BY <1>0, <2>2 DEF Recorded, ObsType
  <2> QED BY <2>1, <2>3 DEF ScanInv, ObservationsOnCanonicalBlocks, LiveObs
<1>4. CASE ScanSpend
  <2>1. UNCHANGED <<rows, cut, pc, block>>
    BY <1>4 DEF ScanSpend
  <2>2. \A p \in Outpoints : LiveObs(p)' => LiveObs(p) /\ obs'[p].block = obs[p].block
    <3>1. Head(inputs) \in SpendItems
      BY <1>4 DEF ScanSpend, TypeOK
    <3>2. Head(inputs).outpoint \in Outpoints
      BY <3>1 DEF SpendItems
    <3>3. CASE obs' = obs
      BY <3>3 DEF LiveObs
    <3>4. CASE /\ LiveObs(Head(inputs).outpoint)
               /\ obs' = [obs EXCEPT ![Head(inputs).outpoint] = [@ EXCEPT !.status = "spent"]]
      <4> DEFINE q == Head(inputs).outpoint
                 r == [obs[q] EXCEPT !.status = "spent"]
      <4>1. obs' = [obs EXCEPT ![q] = r]
        BY <3>4
      <4>2. r.block = obs[q].block
        BY <1>0, <3>2 DEF ObsType, ObsRows
      <4> HIDE DEF r, q
      <4>3. LiveObs(q)
        BY <3>4 DEF q
      <4>4. \A p \in Outpoints : p # q => obs'[p] = obs[p]
        BY <4>1 DEF ObsType
      <4>5. q \in Outpoints /\ obs'[q] = r
        BY <1>0, <3>2, <4>1 DEF ObsType, q
      <4> QED BY <4>2, <4>3, <4>4, <4>5 DEF LiveObs
    <3> QED BY <1>4, <3>3, <3>4 DEF ScanSpend
  <2> QED BY <2>1, <2>2 DEF ScanInv, ObservationsOnCanonicalBlocks
<1>5. CASE AdvanceConfirmations
  <2>1. UNCHANGED <<rows, cut>> /\ pc' # "scan" /\ pc # "detach" /\ obs' = AdvancedObs
    BY <1>5 DEF AdvanceConfirmations, Continue
  <2>2. \A p \in Outpoints : LiveObs(p)' => LiveObs(p) /\ obs'[p].block = obs[p].block
    BY <1>0, <2>1 DEF AdvancedObs, LiveObs, ObsType, ObsRows
  <2> QED BY <2>1, <2>2 DEF ScanInv, ObservationsOnCanonicalBlocks
<1>6. CASE Crash \/ PollFails
  <2>1. /\ UNCHANGED <<rows, obs, block>> /\ pc' \in {"down", "stopped"}
        /\ cut \subseteq cut'
        /\ pc = "detach" => block \in cut'
    BY <1>6 DEF Crash, PollFails, LoseWork
  <2> QED BY <2>1 DEF ScanInv, ObservationsOnCanonicalBlocks, LiveObs
<1>7. CASE NodeAdvances \/ Poll \/ Restart
  BY <1>7 DEF NodeAdvances, Poll, Restart, ScanInv, ObservationsOnCanonicalBlocks, LiveObs
<1>8. ASSUME NEW w \in Watches, RegisterWatch(w) \/ CloseWatch(w) PROVE ScanInv'
  BY <1>8 DEF RegisterWatch, CloseWatch, ScanInv, ObservationsOnCanonicalBlocks, LiveObs
<1>9. CASE UNCHANGED vars
  BY <1>9 DEF vars, ScanInv, ObservationsOnCanonicalBlocks, LiveObs
<1> QED BY <1>1, <1>2, <1>3, <1>4, <1>5, <1>6, <1>7, <1>8, <1>9 DEF Next, Work, WatchApi

\* No live observation outlives the canonical block it was seen in, unless a
\* fault fell between the transaction that detached the block and the one that
\* detaches its observations.
THEOREM ObservationsOnCanonicalBlocksHolds == Spec => []ObservationsOnCanonicalBlocks
<1>1. Init => ScanInv
  BY DEF Init, ScanInv, ObservationsOnCanonicalBlocks, LiveObs, NoObs, Unspent
<1>2. IndexInv /\ TypeOK /\ ScanInv /\ [Next]_vars => ScanInv'
  BY ScanStep
<1>3. ScanInv => ObservationsOnCanonicalBlocks
  BY DEF ScanInv
<1> QED BY <1>1, <1>2, <1>3, IndexInvariant, TypeOKHolds, PTL DEF Spec

-----------------------------------------------------------------------------
\* Every step leaves each watch with one principal funding at most.
LEMMA PrincipalStep ==
  ASSUME TypeOK, OnePrincipalFunding, Next PROVE OnePrincipalFunding'
<1>0. ObsType
  BY DEF TypeOK, ObsType
<1>1. ASSUME \A p \in Outpoints : LiveObs(p)' => /\ LiveObs(p)
                                                 /\ obs'[p].watch = obs[p].watch
                                                 /\ obs'[p].class = obs[p].class
      PROVE  OnePrincipalFunding'
  BY <1>1 DEF OnePrincipalFunding
<1>2. CASE obs' = obs
  BY <1>1, <1>2 DEF LiveObs
<1>3. CASE obs' = DetachedObs
  <2>1. ASSUME NEW p \in Outpoints, LiveObs(p)'
        PROVE  LiveObs(p) /\ obs'[p] = obs[p]
    <3>1. CASE LiveObs(p) /\ obs[p].block = block
      <4>1. obs'[p].status = "detached"
        BY <1>0, <1>3, <3>1 DEF DetachedObs, ObsRows, ObsType
      <4> QED BY <2>1, <4>1 DEF LiveObs, Unspent
    <3>2. CASE ~(LiveObs(p) /\ obs[p].block = block)
      BY <1>3, <2>1, <3>2 DEF DetachedObs, LiveObs
    <3> QED BY <3>1, <3>2
  <2> QED BY <1>1, <2>1
<1>4. ASSUME NEW o \in Outpoints, NEW w \in Watches, obs' = Recorded(o, w)
      PROVE  OnePrincipalFunding'
  <2>1. CASE LiveObs(o)
    BY <1>1, <1>4, <2>1 DEF Recorded, LiveObs
  <2>2. CASE ~LiveObs(o)
    <3> DEFINE c == IF HasPriorLiveObservation(w, o) THEN "duplicate" ELSE ClassifyFunding(o, block, w)
               r == [status |-> "pending", block |-> block, watch |-> w, confirmations |-> 1, class |-> c]
    <3>1. obs' = [obs EXCEPT ![o] = r]
      BY <1>4, <2>2 DEF Recorded
    <3>2. r.watch = w /\ r.class = c
      OBVIOUS
    <3>3. \A p \in Outpoints \ {o} : LiveObs(p) /\ obs[p].watch = w => c = "duplicate"
      BY DEF HasPriorLiveObservation
    <3> HIDE DEF r, c
    <3>4. obs'[o] = r /\ \A p \in Outpoints \ {o} : obs'[p] = obs[p] /\ (LiveObs(p)' <=> LiveObs(p))
      BY <1>0, <3>1 DEF ObsType, LiveObs
    <3> QED BY <3>2, <3>3, <3>4 DEF OnePrincipalFunding
  <2> QED BY <2>1, <2>2
<1>5. CASE obs' = AdvancedObs
  <2>1. \A p \in Outpoints : LiveObs(p)' => /\ LiveObs(p)
                                            /\ obs'[p].watch = obs[p].watch
                                            /\ obs'[p].class = obs[p].class
    BY <1>0, <1>5 DEF AdvancedObs, LiveObs, ObsType, ObsRows
  <2> QED BY <1>1, <2>1
<1>6. ASSUME NEW o \in Outpoints, LiveObs(o), obs' = [obs EXCEPT ![o] = [@ EXCEPT !.status = "spent"]]
      PROVE  OnePrincipalFunding'
  <2> DEFINE r == [obs[o] EXCEPT !.status = "spent"]
  <2>1. obs' = [obs EXCEPT ![o] = r]
    BY <1>6
  <2>2. r.class = obs[o].class /\ r.watch = obs[o].watch
    BY <1>0 DEF ObsType, ObsRows
  <2> HIDE DEF r
  <2>3. obs'[o] = r /\ \A p \in Outpoints \ {o} : obs'[p] = obs[p]
    BY <1>0, <2>1 DEF ObsType
  <2>4. \A p \in Outpoints : LiveObs(p)' => /\ LiveObs(p)
                                            /\ obs'[p].watch = obs[p].watch
                                            /\ obs'[p].class = obs[p].class
    BY <1>6, <2>2, <2>3 DEF LiveObs
  <2> QED BY <1>1, <2>4
<1> QED BY ObsStep, <1>2, <1>3, <1>4, <1>5, <1>6

\* At most one output counts as the funding of a watch, whatever forks and
\* faults replay its blocks in whatever order.
THEOREM OnePrincipalFundingHolds == Spec => []OnePrincipalFunding
<1>1. Init => OnePrincipalFunding
  BY DEF Init, OnePrincipalFunding, LiveObs, NoObs, Unspent
<1>2. TypeOK /\ OnePrincipalFunding /\ [Next]_vars => OnePrincipalFunding'
  <2>1. CASE Next
    BY <2>1, PrincipalStep
  <2>2. CASE UNCHANGED vars
    BY <2>2 DEF vars, OnePrincipalFunding, LiveObs
  <2> QED BY <2>1, <2>2
<1> QED BY <1>1, <1>2, TypeOKHolds, PTL DEF Spec

-----------------------------------------------------------------------------
(* The active chain.  ChainOf is defined by recursion over the block tree;  *)
(* that the recursion has a solution is shown with the least set closed     *)
(* under PrevOf, what it contains by induction over heights.                *)

IsChainOf(f) ==
  f = [b \in Blocks |-> IF PrevOf[b] = NoBlock THEN {b} ELSE {b} \cup f[PrevOf[b]]]

\* The recursion of ChainOf holds of every block.
LEMMA ChainUnfold ==
  ASSUME NEW b \in Blocks
  PROVE  ChainOf[b] = IF PrevOf[b] = NoBlock THEN {b} ELSE {b} \cup ChainOf[PrevOf[b]]
<1> DEFINE Closed(S) == \A x \in S : PrevOf[x] # NoBlock => PrevOf[x] \in S
           f == [x \in Blocks |-> {c \in Blocks : \A S \in SUBSET Blocks : x \in S /\ Closed(S) => c \in S}]
<1>1. ASSUME NEW x \in Blocks
      PROVE  f[x] = IF PrevOf[x] = NoBlock THEN {x} ELSE {x} \cup f[PrevOf[x]]
  <2>1. x \in f[x] /\ f[x] \subseteq Blocks
    OBVIOUS
  <2>2. CASE PrevOf[x] = NoBlock
    <3>1. {x} \in SUBSET Blocks /\ Closed({x})
      BY <2>2
    <3>2. f[x] \subseteq {x}
      BY <3>1
    <3> QED BY <2>1, <2>2, <3>2
  <2>3. CASE PrevOf[x] # NoBlock
    <3>0. PrevOf[x] \in Blocks
      BY <2>3, BlockAssumption
    <3>1. f[PrevOf[x]] \subseteq f[x]
      BY <2>3, <3>0
    <3>2. ASSUME NEW c \in f[x], c # x PROVE c \in f[PrevOf[x]]
      <4> SUFFICES ASSUME NEW S \in SUBSET Blocks, PrevOf[x] \in S, Closed(S) PROVE c \in S
        BY <3>0, <3>2
      <4>1. S \cup {x} \in SUBSET Blocks /\ Closed(S \cup {x})
        OBVIOUS
      <4>2. c \in S \cup {x}
        BY <3>2, <4>1
      <4> QED BY <3>2, <4>2
    <3> HIDE DEF f
    <3> QED BY <2>1, <2>3, <3>1, <3>2
  <2> QED BY <2>2, <2>3
<1>2. IsChainOf(f)
  <2>1. f = [x \in Blocks |-> f[x]]
    OBVIOUS
  <2> HIDE DEF f
  <2> QED BY <1>1, <2>1 DEF IsChainOf
<1>3. IsChainOf(ChainOf)
  <2> HIDE DEF f
  <2>1. \E g : IsChainOf(g)
    BY <1>2
  <2>2. ChainOf = CHOOSE g : IsChainOf(g)
    BY DEF ChainOf, IsChainOf
  <2> QED BY <2>1, <2>2
<1> QED BY <1>3 DEF IsChainOf

\* A chain goes down from its tip: its other blocks lie below.
LEMMA ChainHeights ==
  ASSUME NEW b \in Blocks
  PROVE  /\ b \in ChainOf[b]
         /\ \A c \in ChainOf[b] : c \in Blocks /\ (c = b \/ HeightOf[c] < HeightOf[b])
<1> DEFINE Good(x) == /\ x \in ChainOf[x]
                      /\ \A c \in ChainOf[x] : c \in Blocks /\ (c = x \/ HeightOf[c] < HeightOf[x])
           T == {n \in Nat : \A x \in Blocks : HeightOf[x] < n => Good(x)}
<1>0. \A x \in Blocks : HeightOf[x] \in Nat
  BY BlockAssumption
<1>1. 0 \in T
  BY <1>0
<1>2. ASSUME NEW n \in Nat, n \in T PROVE n + 1 \in T
  <2> SUFFICES ASSUME NEW x \in Blocks, HeightOf[x] < n + 1 PROVE Good(x)
    OBVIOUS
  <2>1. CASE PrevOf[x] = NoBlock
    <3>1. ChainOf[x] = {x}
      BY <2>1, ChainUnfold
    <3> QED BY <3>1
  <2>2. CASE PrevOf[x] # NoBlock
    <3>1. PrevOf[x] \in Blocks /\ HeightOf[x] = HeightOf[PrevOf[x]] + 1
      BY <2>2, BlockAssumption
    <3>2. Good(PrevOf[x])
      BY <1>0, <1>2, <3>1
    <3>3. ChainOf[x] = {x} \cup ChainOf[PrevOf[x]]
      BY <2>2, ChainUnfold
    <3> QED BY <1>0, <3>1, <3>2, <3>3
  <2> QED BY <2>1, <2>2
<1>3. T = Nat
  <2>1. T \in SUBSET Nat
    OBVIOUS
  <2> HIDE DEF T
  <2> QED BY <1>1, <1>2, <2>1, InductionOnNat
<1>4. HeightOf[b] + 1 \in T
  BY <1>0, <1>3
<1>5. Good(b)
  BY <1>0, <1>4
<1> QED BY <1>5

\* Two blocks of one chain at one height are the same.
LEMMA ChainNoFork ==
  ASSUME NEW b \in Blocks, NEW c \in ChainOf[b], HeightOf[c] = HeightOf[b]
  PROVE  c = b
BY ChainHeights, BlockAssumption

\* CanonicalChain of any set of blocks, so that it can be said of two states.
IsCanonical(live, next) ==
  /\ \A b \in live : StartHeight <= HeightOf[b] /\ HeightOf[b] < next
  /\ \A h \in StartHeight..(next - 1) : \E b \in live : HeightOf[b] = h
  /\ \A b, c \in live : HeightOf[b] = HeightOf[c] => b = c
  /\ \A b, c \in live : HeightOf[c] = HeightOf[b] + 1 => PrevOf[c] = b

\* The canonical blocks up to a canonical block are the indexed part of its
\* chain: what saveBlock compares at one height carries over to all below.
LEMMA CanonicalIsChain ==
  ASSUME NEW live \in SUBSET Blocks, NEW next \in Int, IsCanonical(live, next), NEW t \in live
  PROVE  {c \in live : HeightOf[c] <= HeightOf[t]}
           = {c \in ChainOf[t] : HeightOf[c] >= StartHeight}
<1> DEFINE Good(x) == {c \in live : HeightOf[c] <= HeightOf[x]}
                        = {c \in ChainOf[x] : HeightOf[c] >= StartHeight}
           T == {n \in Nat : \A x \in live : HeightOf[x] < n => Good(x)}
<1>0. /\ \A x \in Blocks : HeightOf[x] \in Nat
      /\ StartHeight \in Nat
      /\ \A x \in live : x \in Blocks /\ StartHeight <= HeightOf[x] /\ HeightOf[x] < next
  BY BlockAssumption DEF IsCanonical
<1>1. 0 \in T
  BY <1>0
<1>2. ASSUME NEW n \in Nat, n \in T PROVE n + 1 \in T
  <2> SUFFICES ASSUME NEW x \in live, HeightOf[x] < n + 1 PROVE Good(x)
    OBVIOUS
  <2>0. \A c \in live : HeightOf[c] = HeightOf[x] => c = x
    BY DEF IsCanonical
  <2>1. CASE HeightOf[x] = StartHeight
    <3>1. {c \in live : HeightOf[c] <= HeightOf[x]} = {x}
      BY <1>0, <2>0, <2>1
    <3>2. {c \in ChainOf[x] : HeightOf[c] >= StartHeight} = {x}
      BY <1>0, <2>1, ChainHeights
    <3> QED BY <3>1, <3>2
  <2>2. CASE HeightOf[x] # StartHeight
    <3>1. HeightOf[x] - 1 \in StartHeight..(next - 1)
      BY <1>0, <2>2
    <3>2. PICK p \in live : HeightOf[p] = HeightOf[x] - 1
      BY <3>1 DEF IsCanonical
    <3>3. PrevOf[x] = p /\ p # NoBlock
      BY <1>0, <3>2, BlockAssumption DEF IsCanonical
    <3>4. Good(p)
      BY <1>0, <1>2, <3>2
    <3>5. ChainOf[x] = {x} \cup ChainOf[p]
      BY <1>0, <3>3, ChainUnfold
    <3>6. {c \in live : HeightOf[c] <= HeightOf[x]}
            = {x} \cup {c \in live : HeightOf[c] <= HeightOf[p]}
      BY <1>0, <2>0, <3>2
    <3>7. {c \in ChainOf[x] : HeightOf[c] >= StartHeight}
            = {x} \cup {c \in ChainOf[p] : HeightOf[c] >= StartHeight}
      BY <1>0, <3>5
    <3> QED BY <3>4, <3>6, <3>7
  <2> QED BY <2>1, <2>2
<1>3. T = Nat
  <2>1. T \in SUBSET Nat
    OBVIOUS
  <2> HIDE DEF T
  <2> QED BY <1>1, <1>2, <2>1, InductionOnNat
<1>4. HeightOf[t] + 1 \in T
  BY <1>0, <1>3
<1>5. Good(t)
  BY <1>0, <1>4
<1> QED BY <1>5

\* An index that ends at a block of its own is that block's chain.
LEMMA CanonicalUpTo ==
  ASSUME NEW live \in SUBSET Blocks, NEW next \in Int, IsCanonical(live, next),
         NEW t \in live, HeightOf[t] = next - 1
  PROVE  live = {c \in ChainOf[t] : HeightOf[c] >= StartHeight}
<1>1. \A c \in live : HeightOf[c] <= HeightOf[t]
  BY BlockAssumption DEF IsCanonical
<1> QED BY <1>1, CanonicalIsChain

\* The invariant of the loop in these terms.
LEMMA IndexIsCanonical ==
  ASSUME IndexInv
  PROVE  LiveBlocks \in SUBSET Blocks /\ nextHeight \in Int /\ IsCanonical(LiveBlocks, nextHeight)
BY DEF IndexInv, IndexType, CanonicalChain, IsCanonical, LiveBlocks

-----------------------------------------------------------------------------
\* Whenever next_height has passed the node's tip, loop asleep or not, the
\* canonical rows are the node's chain.
SyncInv ==
  nextHeight > HeightOf[node] => LiveBlocks = {b \in ChainOf[node] : HeightOf[b] >= StartHeight}

\* An index that has passed the node's tip ends right there, or is empty.
LEMMA PassedTip ==
  ASSUME IndexInv, node \in Blocks, SyncInv, nextHeight > HeightOf[node]
  PROVE  nextHeight = HeightOf[node] + 1 \/ (LiveBlocks = {} /\ nextHeight = StartHeight)
<1>0. HeightOf[node] \in Nat /\ StartHeight \in Nat /\ nextHeight \in Int /\ StartHeight <= nextHeight
  BY BlockAssumption DEF IndexInv, IndexType, LoopAgrees
<1>1. CASE nextHeight = StartHeight
  <2>1. LiveBlocks = {}
    BY <1>0, <1>1, BlockAssumption DEF IndexInv, CanonicalChain, LiveBlocks
  <2> QED BY <1>1, <2>1
<1>2. CASE nextHeight # StartHeight
  <2>1. nextHeight - 1 \in StartHeight..(nextHeight - 1)
    BY <1>0, <1>2
  <2>2. PICK t \in LiveBlocks : HeightOf[t] = nextHeight - 1
    BY <2>1 DEF IndexInv, CanonicalChain
  <2>3. t \in ChainOf[node]
    BY <2>2 DEF SyncInv
  <2>4. HeightOf[t] <= HeightOf[node]
    BY <1>0, <2>3, ChainHeights, BlockAssumption
  <2> QED BY <1>0, <2>2, <2>4
<1> QED BY <1>1, <1>2

\* Every step keeps the index in step with the node: the node moves ahead of it,
\* the block that reaches the node's tip completes its chain, and a fork takes
\* next_height back below the tip.
LEMMA SyncStep ==
  ASSUME IndexInv, IndexInv', node \in Blocks, SyncInv, [Next]_vars
  PROVE  SyncInv'
<1> USE DEF dbVars, loopVars, queues, scanVars, faultVars
<1>0. /\ HeightOf[node] \in Nat /\ StartHeight \in Nat
      /\ nextHeight \in Int /\ nextHeight' \in Int
  BY BlockAssumption DEF IndexInv, IndexType
<1>1. CASE NodeAdvances
  <2>1. /\ node' \in Blocks /\ HeightOf[node'] > HeightOf[node] /\ HeightOf[node'] \in Nat
        /\ UNCHANGED <<rows, nextHeight>>
    BY <1>1, BlockAssumption DEF NodeAdvances
  <2>2. LiveBlocks' = LiveBlocks
    BY <2>1 DEF LiveBlocks
  <2> SUFFICES ASSUME nextHeight > HeightOf[node']
               PROVE  LiveBlocks = {b \in ChainOf[node'] : HeightOf[b] >= StartHeight}
    BY <2>1, <2>2 DEF SyncInv
  <2>3. nextHeight > HeightOf[node] /\ nextHeight # HeightOf[node] + 1
    BY <1>0, <2>1
  <2>4. LiveBlocks = {} /\ nextHeight = StartHeight
    BY <2>3, PassedTip
  <2>5. \A b \in ChainOf[node'] : HeightOf[b] < StartHeight
    BY <1>0, <2>1, <2>4, ChainHeights, BlockAssumption
  <2>6. \A b \in ChainOf[node'] : ~(HeightOf[b] >= StartHeight)
    BY <1>0, <2>1, <2>5, ChainHeights, BlockAssumption
  <2> QED BY <2>4, <2>6
<1>2. CASE FetchAndSave
  <2>1. PICK b \in Blocks :
          /\ b \in ChainOf[node] /\ HeightOf[b] = height
          /\ rows' = RowsAfter(b)
          /\ nextHeight' = NextHeightAfter(b)
          /\ IF SaveResult(b) = "duplicate" THEN Continue /\ UNCHANGED <<block, queues>>
             ELSE IF SaveResult(b) = "saved" THEN StartScan(b)
             ELSE Rewind(b)
    BY <1>2 DEF FetchAndSave, BlockAt
  <2>2. /\ pc = "fetch" /\ node' = node /\ SaveResult(b) # "duplicate"
        /\ HeightOf[b] = nextHeight
    BY <1>2, <2>1, FetchIsNew DEF FetchAndSave, IndexInv, LoopAgrees
  <2>3. HeightOf[b] <= HeightOf[node]
    BY <1>0, <2>1, <2>2, ChainHeights
  <2>4. CASE SaveResult(b) = "saved"
    <3>1. rows' = [rows EXCEPT ![b] = "live"] /\ nextHeight' = nextHeight + 1
      BY <1>0, <2>1, <2>2, <2>4 DEF RowsAfter, NextHeightAfter
    <3>2. b \in LiveBlocks'
      BY <3>1 DEF LiveBlocks, IndexInv, IndexType
    <3> SUFFICES ASSUME nextHeight' > HeightOf[node] PROVE SyncInv'
      BY <2>2 DEF SyncInv
    <3>3. b = node
      BY <1>0, <2>1, <2>2, <2>3, <3>1, ChainNoFork
    <3>4. LiveBlocks' \in SUBSET Blocks /\ IsCanonical(LiveBlocks', nextHeight')
      BY DEF IndexInv, CanonicalChain, IsCanonical, LiveBlocks
    <3>5. LiveBlocks' = {c \in ChainOf[b] : HeightOf[c] >= StartHeight}
      BY <1>0, <2>2, <3>1, <3>2, <3>4, CanonicalUpTo
    <3> QED BY <2>2, <3>3, <3>5 DEF SyncInv
  <2>5. CASE SaveResult(b) = "reorg"
    <3>1. nextHeight' = nextHeight - 1
      BY <2>1, <2>2, <2>5 DEF NextHeightAfter
    <3> QED BY <1>0, <2>2, <2>3, <3>1 DEF SyncInv
  <2>6. SaveResult(b) \in {"duplicate", "reorg", "saved"}
    BY DEF SaveResult
  <2> QED BY <2>2, <2>4, <2>5, <2>6
<1>3. CASE UNCHANGED <<node, rows, nextHeight>>
  BY <1>3 DEF SyncInv, LiveBlocks
<1> QED
  BY <1>1, <1>2, <1>3
     DEF Next, Work, WatchApi, vars, Poll, DetachObservations, ScanOutput, ScanSpend,
         AdvanceConfirmations, RegisterWatch, CloseWatch, Crash, PollFails, LoseWork, Restart

\* Before the first poll nothing is indexed, and nothing of a chain that ends
\* below the start height is missing.
LEMMA SyncInit == Init => SyncInv
<1> SUFFICES ASSUME Init, nextHeight > HeightOf[node]
             PROVE  LiveBlocks = {b \in ChainOf[node] : HeightOf[b] >= StartHeight}
  BY DEF SyncInv
<1>1. LiveBlocks = {} /\ nextHeight = StartHeight /\ node \in Blocks
  BY DEF Init, LiveBlocks
<1>2. \A b \in ChainOf[node] : ~(HeightOf[b] >= StartHeight)
  BY <1>1, ChainHeights, BlockAssumption
<1> QED BY <1>1, <1>2

\* The index is the node's chain whenever it has passed the node's tip.
LEMMA SyncInvariant == Spec => []SyncInv
<1>1. IndexInv /\ IndexInv' /\ TypeOK /\ SyncInv /\ [Next]_vars => SyncInv'
  BY SyncStep DEF TypeOK
<1> QED BY <1>1, SyncInit, IndexInvariant, TypeOKHolds, PTL DEF Spec

\* When the loop has nothing left to fetch, the canonical rows are exactly the
\* chain the node follows: unwinding one block per poll, by the hash at one
\* height alone, never leaves a block of another fork behind.
THEOREM InSyncMeansSameChainHolds == Spec => []InSyncMeansSameChain
<1>1. IndexInv /\ SyncInv => InSyncMeansSameChain
  BY DEF IndexInv, LoopAgrees, SyncInv, InSyncMeansSameChain, InSync
<1> QED BY <1>1, IndexInvariant, SyncInvariant, PTL

-----------------------------------------------------------------------------
\* The block at work: the scanned one is the last indexed one, a detached one
\* sat on top of all canonical rows.
BlockInv ==
  /\ pc = "scan" => HeightOf[block] = height /\ rows[block] = "live"
  /\ pc = "detach" => block \notin LiveBlocks /\ LiveBlocks \subseteq ChainOf[block]

\* Every step keeps it: only a fetch takes up another block.
LEMMA BlockStep ==
  ASSUME IndexInv, TypeOK, BlockInv, [Next]_vars PROVE BlockInv'
<1> USE DEF dbVars, loopVars, queues, scanVars, faultVars
<1>1. CASE FetchAndSave
  <2>1. PICK b \in Blocks :
          /\ HeightOf[b] = height
          /\ rows' = RowsAfter(b)
          /\ nextHeight' = NextHeightAfter(b)
          /\ IF SaveResult(b) = "duplicate" THEN Continue /\ UNCHANGED <<block, queues>>
             ELSE IF SaveResult(b) = "saved" THEN StartScan(b)
             ELSE Rewind(b)
    BY <1>1 DEF FetchAndSave, BlockAt
  <2>2. pc = "fetch" /\ SaveResult(b) # "duplicate"
    BY <1>1, <2>1, FetchIsNew DEF FetchAndSave
  <2>3. CASE SaveResult(b) = "saved"
    <3>1. /\ rows' = [rows EXCEPT ![b] = "live"]
          /\ block' = b /\ height' = height /\ pc' = "scan"
      BY <2>1, <2>3 DEF RowsAfter, StartScan
    <3> QED BY <2>1, <3>1 DEF BlockInv, IndexInv, IndexType
  <2>4. CASE SaveResult(b) = "reorg"
    <3>1. /\ \A c \in LiveBlocks : HeightOf[c] <= HeightOf[block']
          /\ block' \in LiveBlocks
          /\ LiveBlocks' = LiveBlocks \ {block'}
          /\ pc' = "detach"
      BY <2>1, <2>2, <2>4, ReorgStep DEF Rewind
    <3>2. \A c \in LiveBlocks : c \in ChainOf[block']
      BY <3>1, IndexIsCanonical, CanonicalIsChain
    <3> QED BY <3>1, <3>2 DEF BlockInv
  <2>5. SaveResult(b) \in {"duplicate", "reorg", "saved"}
    BY DEF SaveResult
  <2> QED BY <2>2, <2>3, <2>4, <2>5
<1>2. CASE rows' = rows /\ pc' \notin {"scan", "detach"}
  BY <1>2 DEF BlockInv
<1>3. CASE UNCHANGED <<rows, pc, block, height>>
  BY <1>3 DEF BlockInv, LiveBlocks
<1> QED
  BY <1>1, <1>2, <1>3
     DEF Next, Work, WatchApi, vars, NodeAdvances, Poll, DetachObservations, ScanOutput, ScanSpend,
         AdvanceConfirmations, Continue, RegisterWatch, CloseWatch, Crash, PollFails, LoseWork, Restart

\* The block at work is as BlockInv says in every reachable state.
LEMMA BlockInvariant == Spec => []BlockInv
<1>1. Init => BlockInv
  BY DEF Init, BlockInv
<1>2. IndexInv /\ TypeOK /\ BlockInv /\ [Next]_vars => BlockInv'
  BY BlockStep
<1> QED BY <1>1, <1>2, IndexInvariant, TypeOKHolds, PTL DEF Spec

-----------------------------------------------------------------------------
\* What detaching leaves live it leaves untouched.
LEMMA DetachedRow ==
  ASSUME ObsType, obs' = DetachedObs
  PROVE  \A o \in Outpoints : LiveObs(o)' => LiveObs(o) /\ obs[o].block # block /\ obs'[o] = obs[o]
<1>1. \A o \in Outpoints : ~(LiveObs(o) /\ obs[o].block = block) => obs'[o] = obs[o]
  BY Zenon DEF DetachedObs
<1>2. ASSUME NEW o \in Outpoints, LiveObs(o) /\ obs[o].block = block
      PROVE  obs'[o].status = "detached"
  <2> DEFINE row == obs[o]
  <2>1. obs'[o] = [row EXCEPT !.status = "detached", !.class = "reorged"]
    BY <1>2, Zenon DEF DetachedObs
  <2>2. row \in ObsRows
    BY DEF ObsType
  <2> HIDE DEF row
  <2>3. [row EXCEPT !.status = "detached", !.class = "reorged"].status = "detached"
    BY <2>2 DEF ObsRows
  <2> QED BY <2>1, <2>3
<1> QED BY <1>1, <1>2 DEF LiveObs, Unspent

\* The refresh counts every unspent row from the scanned block; it leaves what is
\* live live, and at its block.
LEMMA AdvancedRow ==
  ASSUME ObsType, obs' = AdvancedObs
  PROVE  \A o \in Outpoints :
           /\ LiveObs(o)' <=> LiveObs(o)
           /\ obs'[o].block = obs[o].block
           /\ obs'[o].status \in Unspent =>
                /\ obs'[o].confirmations = Confirmations(o)
                /\ obs'[o].status = "confirmed" <=> Confirmations(o) >= Required[obs[o].watch]
                /\ obs'[o].watch = obs[o].watch
<1>1. ASSUME NEW o \in Outpoints, obs[o].status \in Unspent
      PROVE  /\ obs'[o].confirmations = Confirmations(o)
             /\ obs'[o].status = "confirmed" <=> Confirmations(o) >= Required[obs[o].watch]
             /\ obs'[o].block = obs[o].block /\ obs'[o].watch = obs[o].watch
             /\ obs'[o].status \in Unspent
  <2> DEFINE st == IF Confirmations(o) >= Required[obs[o].watch] THEN "confirmed" ELSE "pending"
             row == obs[o]
             count == Confirmations(o)
  <2>1. obs'[o] = [row EXCEPT !.confirmations = count, !.status = st]
    BY <1>1, Zenon DEF AdvancedObs
  <2>2. row \in ObsRows
    BY DEF ObsType
  <2>3. /\ obs'[o].confirmations = count /\ obs'[o].status = st
        /\ obs'[o].block = row.block /\ obs'[o].watch = row.watch
    <3> HIDE DEF st, row, count
    <3> QED BY <2>1, <2>2 DEF ObsRows
  <2> QED BY <2>3 DEF Unspent
<1>2. \A o \in Outpoints : obs[o].status \notin Unspent => obs'[o] = obs[o]
  BY Zenon DEF AdvancedObs
<1> QED BY <1>1, <1>2 DEF LiveObs

\* The verdict an unspent observation should have at the node's tip.
CountedAt(o, tip) ==
  LET depth == HeightOf[tip] - HeightOf[obs[o].block] + 1
  IN  /\ obs[o].confirmations = depth
      /\ obs[o].status = "confirmed" <=> depth >= Required[obs[o].watch]

\* Once the block at the node's tip has been scanned to its end, all unspent
\* observations are counted from it, also while the loop is on its way to sleep
\* or has been stopped.
DepthInv ==
  nextHeight > HeightOf[node] /\ pc # "scan" /\ node \notin cut /\ rows[node] = "live" =>
    \A o \in Outpoints : obs[o].status \in Unspent => CountedAt(o, node)

\* Every step keeps it: the last write of a scan counts every row anew, and
\* between scans a row is only ever detached.
LEMMA DepthStep ==
  ASSUME IndexInv, IndexInv', TypeOK, SyncInv, SyncInv', BlockInv, DepthInv, [Next]_vars
  PROVE  DepthInv'
<1> USE DEF dbVars, loopVars, queues, scanVars, faultVars
<1>0. /\ node \in Blocks /\ HeightOf[node] \in Nat /\ StartHeight \in Nat
      /\ nextHeight \in Int /\ ObsType
  BY BlockAssumption DEF IndexInv, IndexType, TypeOK, ObsType
<1>1. CASE NodeAdvances
  <2>1. /\ node' \in Blocks /\ HeightOf[node'] > HeightOf[node] /\ HeightOf[node'] \in Nat
        /\ UNCHANGED <<rows, nextHeight>>
    BY <1>1, BlockAssumption DEF NodeAdvances
  <2> SUFFICES ASSUME nextHeight > HeightOf[node'], rows[node'] = "live" PROVE FALSE
    BY <2>1 DEF DepthInv
  <2>2. LiveBlocks = {}
    BY <1>0, <2>1, PassedTip
  <2> QED BY <2>1, <2>2 DEF LiveBlocks
<1>2. CASE FetchAndSave
  <2>1. PICK b \in Blocks :
          /\ b \in ChainOf[node] /\ HeightOf[b] = height
          /\ nextHeight' = NextHeightAfter(b)
          /\ IF SaveResult(b) = "duplicate" THEN Continue /\ UNCHANGED <<block, queues>>
             ELSE IF SaveResult(b) = "saved" THEN StartScan(b)
             ELSE Rewind(b)
    BY <1>2 DEF FetchAndSave, BlockAt
  <2>2. /\ node' = node /\ SaveResult(b) # "duplicate" /\ HeightOf[b] = nextHeight
    BY <1>2, <2>1, FetchIsNew DEF FetchAndSave, IndexInv, LoopAgrees
  <2>3. HeightOf[b] <= HeightOf[node]
    BY <1>0, <2>1, <2>2, ChainHeights
  <2>4. CASE SaveResult(b) = "saved"
    BY <2>1, <2>4 DEF StartScan, DepthInv
  <2>5. CASE SaveResult(b) = "reorg"
    <3>1. nextHeight' = nextHeight - 1
      BY <2>1, <2>2, <2>5 DEF NextHeightAfter
    <3> QED BY <1>0, <2>2, <2>3, <3>1 DEF DepthInv
  <2>6. SaveResult(b) \in {"duplicate", "reorg", "saved"}
    BY DEF SaveResult
  <2> QED BY <2>2, <2>4, <2>5, <2>6
<1>3. CASE AdvanceConfirmations
  <2>1. /\ pc = "scan" /\ obs' = AdvancedObs
        /\ UNCHANGED <<node, rows, nextHeight, block, cut>>
    BY <1>3 DEF AdvanceConfirmations
  <2> SUFFICES ASSUME nextHeight > HeightOf[node], rows[node] = "live",
                      NEW o \in Outpoints, obs'[o].status \in Unspent
               PROVE  CountedAt(o, node)'
    BY <2>1 DEF DepthInv
  <2>2. nextHeight = HeightOf[node] + 1
    <3>1. node \in LiveBlocks
      BY <1>0 DEF LiveBlocks
    <3> QED BY <1>0, <3>1, PassedTip
  <2>3. block \in Blocks /\ HeightOf[block] = nextHeight - 1 /\ block \in LiveBlocks /\ node \in LiveBlocks
    BY <1>0, <2>1 DEF BlockInv, IndexInv, LoopAgrees, TypeOK, LiveBlocks
  <2>4. block = node
    BY <1>0, <2>2, <2>3 DEF IndexInv, CanonicalChain
  <2>5. /\ obs'[o].confirmations = Confirmations(o)
        /\ obs'[o].status = "confirmed" <=> Confirmations(o) >= Required[obs[o].watch]
        /\ obs'[o].block = obs[o].block /\ obs'[o].watch = obs[o].watch
    BY <1>0, <2>1, AdvancedRow
  <2>6. Confirmations(o) = HeightOf[node] - HeightOf[obs[o].block] + 1
    BY <2>4 DEF Confirmations
  <2> QED BY <2>1, <2>5, <2>6 DEF CountedAt
<1>4. CASE DetachObservations
  <2>1. /\ pc = "detach" /\ obs' = DetachedObs
        /\ UNCHANGED <<node, rows, nextHeight, cut>>
    BY <1>4 DEF DetachObservations
  <2>2. ASSUME NEW o \in Outpoints, obs'[o].status \in Unspent
        PROVE  obs'[o] = obs[o]
    BY <1>0, <2>1, <2>2, DetachedRow DEF LiveObs
  <2> QED BY <2>1, <2>2 DEF DepthInv, CountedAt
<1>5. CASE ScanOutput \/ ScanSpend
  BY <1>5 DEF ScanOutput, ScanSpend, DepthInv
<1>6. CASE Crash \/ PollFails
  <2>1. /\ UNCHANGED <<node, rows, nextHeight, obs>>
        /\ cut \subseteq cut'
        /\ pc = "scan" => block \in cut'
    BY <1>6 DEF Crash, PollFails, LoseWork
  <2>2. CASE pc # "scan"
    BY <2>1, <2>2 DEF DepthInv, CountedAt
  <2>3. CASE pc = "scan"
    <3> SUFFICES ASSUME nextHeight > HeightOf[node], rows[node] = "live" PROVE node \in cut'
      BY <2>1 DEF DepthInv
    <3>1. node \in LiveBlocks
      BY <1>0 DEF LiveBlocks
    <3>2. nextHeight = HeightOf[node] + 1
      BY <1>0, <3>1, PassedTip
    <3>3. block \in Blocks /\ HeightOf[block] = nextHeight - 1 /\ block \in LiveBlocks
      BY <1>0, <2>3 DEF BlockInv, IndexInv, LoopAgrees, TypeOK, LiveBlocks
    <3>4. block = node
      BY <1>0, <3>1, <3>2, <3>3 DEF IndexInv, CanonicalChain
    <3> QED BY <2>1, <2>3, <3>4
  <2> QED BY <2>2, <2>3
<1>7. CASE UNCHANGED <<node, rows, nextHeight, obs, cut>> /\ (pc' # "scan" => pc # "scan")
  BY <1>7 DEF DepthInv, CountedAt
<1> QED
  BY <1>1, <1>2, <1>3, <1>4, <1>5, <1>6, <1>7
     DEF Next, Work, WatchApi, vars, Poll, RegisterWatch, CloseWatch, Restart

\* In sync, confirmations are depth in the node's chain and "confirmed" says the
\* depth suffices, whatever forks lengthened or shortened the chain before.
THEOREM ConfirmationsAreDepthHolds == Spec => []ConfirmationsAreDepth
<1>1. Init => DepthInv
  BY DEF Init, DepthInv
<1>2. IndexInv /\ IndexInv' /\ TypeOK /\ SyncInv /\ SyncInv' /\ BlockInv /\ DepthInv /\ [Next]_vars
        => DepthInv'
  BY DepthStep
<1>3. IndexInv /\ DepthInv => ConfirmationsAreDepth
  BY DEF IndexInv, LoopAgrees, DepthInv, CountedAt, ConfirmationsAreDepth, InSync
<1> QED BY <1>1, <1>2, <1>3, IndexInvariant, TypeOKHolds, SyncInvariant, BlockInvariant, PTL DEF Spec

-----------------------------------------------------------------------------
\* The block has an output at this outpoint.
Creates(b, o) == \E i \in 1..Len(OutputsIn[b]) : OutputsIn[b][i] = o

\* An early watch is registered; closed, it stays closed.
EarlyOnce == \A w \in EarlyWatches : watches[w] # "unregistered"

\* While a block is scanned, its outputs are observed or still to come.
ScanProgress ==
  pc = "scan" =>
    \A o \in Outpoints : Creates(block, o) /\ WatchedThroughout(o) =>
      LiveObs(o) \/ \E j \in 1..Len(outputs) : outputs[j] = o

\* FundingObserved, said of outpoints.
FullyObserved ==
  \A b \in LiveBlocks, o \in Outpoints :
    b \notin cut /\ ~(pc = "scan" /\ block = b) /\ Creates(b, o) /\ WatchedThroughout(o)
      => LiveObs(o)

\* A watched output is observed at the first block of a chain that has it: no
\* indexed and fully scanned block below an observation has its output too.
FirstSeen ==
  \A o \in Outpoints : LiveObs(o) /\ WatchedThroughout(o) =>
    \A b \in ChainOf[obs[o].block] :
      HeightOf[b] >= StartHeight /\ b \notin cut /\ Creates(b, o) => b = obs[o].block

FundingInv == EarlyOnce /\ ScanProgress /\ FullyObserved /\ FirstSeen

\* What recording an output does to the observations.
LEMMA RecordedRow ==
  ASSUME ObsType, NEW o \in Outpoints, NEW w \in Watches, obs' = Recorded(o, w)
  PROVE  /\ \A p \in Outpoints : LiveObs(p) => obs'[p] = obs[p]
         /\ \A p \in Outpoints \ {o} : obs'[p] = obs[p]
         /\ LiveObs(o)'
         /\ ~LiveObs(o) => obs'[o].block = block
<1>1. CASE LiveObs(o)
  BY <1>1 DEF Recorded, LiveObs
<1>2. CASE ~LiveObs(o)
  <2> DEFINE c == IF HasPriorLiveObservation(w, o) THEN "duplicate" ELSE ClassifyFunding(o, block, w)
             r == [status |-> "pending", block |-> block, watch |-> w, confirmations |-> 1, class |-> c]
  <2>1. obs' = [obs EXCEPT ![o] = r]
    BY <1>2 DEF Recorded
  <2>2. r.status = "pending" /\ r.block = block
    OBVIOUS
  <2> HIDE DEF r
  <2>3. obs'[o] = r /\ \A p \in Outpoints \ {o} : obs'[p] = obs[p]
    BY <2>1 DEF ObsType
  <2> QED BY <1>2, <2>2, <2>3 DEF LiveObs, Unspent
<1> QED BY <1>1, <1>2

\* A spend leaves an observation live and at its block.
LEMMA SpentRow ==
  ASSUME ObsType, NEW o \in Outpoints, LiveObs(o),
         obs' = [obs EXCEPT ![o] = [@ EXCEPT !.status = "spent"]]
  PROVE  \A p \in Outpoints : (LiveObs(p)' <=> LiveObs(p)) /\ obs'[p].block = obs[p].block
<1> DEFINE r == [obs[o] EXCEPT !.status = "spent"]
<1>1. obs' = [obs EXCEPT ![o] = r]
  OBVIOUS
<1>2. r.status = "spent" /\ r.block = obs[o].block
  BY DEF ObsType, ObsRows
<1> HIDE DEF r
<1>3. obs'[o] = r /\ \A p \in Outpoints \ {o} : obs'[p] = obs[p]
  BY <1>1 DEF ObsType
<1> QED BY <1>2, <1>3 DEF LiveObs

\* A watch that is active now was active in every earlier state.
LEMMA WatchStep ==
  ASSUME TypeOK, EarlyOnce, [Next]_vars
  PROVE  EarlyOnce' /\ \A o \in Outpoints : WatchedThroughout(o)' => WatchedThroughout(o)
<1>1. CASE watches' = watches
  BY <1>1 DEF EarlyOnce, WatchedThroughout
<1>2. ASSUME NEW w \in Watches, RegisterWatch(w) \/ CloseWatch(w)
      PROVE  EarlyOnce' /\ \A o \in Outpoints : WatchedThroughout(o)' => WatchedThroughout(o)
  <2>0. watches \in [Watches -> {"unregistered", "active", "closed"}]
    BY DEF TypeOK
  <2>1. CASE RegisterWatch(w)
    <3>1. w \notin EarlyWatches /\ watches' = [watches EXCEPT ![w] = "active"]
      BY <2>1 DEF RegisterWatch, EarlyOnce
    <3>2. \A v \in EarlyWatches : watches'[v] = watches[v]
      BY <2>0, <3>1
    <3> QED BY <3>2 DEF EarlyOnce, WatchedThroughout
  <2>2. CASE CloseWatch(w)
    <3>1. watches' = [watches EXCEPT ![w] = "closed"]
      BY <2>2 DEF CloseWatch
    <3>2. watches'[w] = "closed" /\ \A v \in Watches \ {w} : watches'[v] = watches[v]
      BY <2>0, <3>1
    <3>3. \A v \in EarlyWatches : v \in Watches
      BY ContentAssumption
    <3>4. \A o \in Outpoints : \A v \in Pays[o] : v \in Watches
      BY ContentAssumption
    <3>5. EarlyOnce'
      BY <3>2, <3>3 DEF EarlyOnce
    <3> QED BY <3>2, <3>4, <3>5 DEF WatchedThroughout
  <2> QED BY <1>2, <2>1, <2>2
<1> QED
  BY <1>1, <1>2
     DEF Next, Work, WatchApi, vars, NodeAdvances, Poll, FetchAndSave, DetachObservations, ScanOutput,
         ScanSpend, AdvanceConfirmations, Crash, PollFails, LoseWork, Restart


\* A step that touches no table of the index keeps the funding invariant when it
\* loses no live observation and cuts the block at work if it drops it.
LEMMA KeepsFunding ==
  ASSUME FundingInv, EarlyOnce',
         \A o \in Outpoints : WatchedThroughout(o)' => WatchedThroughout(o),
         LiveBlocks' = LiveBlocks, cut \subseteq cut',
         pc' = "scan" => pc = "scan" /\ UNCHANGED <<block, outputs>>,
         pc = "scan" => (pc' = "scan" /\ block' = block) \/ block \in cut' \/ outputs = <<>>,
         \A o \in Outpoints : (LiveObs(o)' <=> LiveObs(o)) /\ obs'[o].block = obs[o].block
  PROVE  FundingInv'
<1>1. ScanProgress'
  BY DEF FundingInv, ScanProgress
<1>2. FirstSeen'
  BY DEF FundingInv, FirstSeen
<1>3. FullyObserved'
  <2> SUFFICES ASSUME NEW b \in LiveBlocks, NEW o \in Outpoints, b \notin cut',
                      ~(pc' = "scan" /\ block' = b), Creates(b, o), WatchedThroughout(o)
               PROVE  LiveObs(o)
    BY DEF FullyObserved
  <2>1. CASE pc = "scan" /\ block = b
    <3>1. outputs = <<>>
      BY <2>1
    <3> QED BY <2>1, <3>1 DEF FundingInv, ScanProgress
  <2>2. CASE ~(pc = "scan" /\ block = b)
    BY <2>2 DEF FundingInv, FullyObserved
  <2> QED BY <2>1, <2>2
<1> QED BY <1>1, <1>2, <1>3 DEF FundingInv

\* Matching the next output: a watched one becomes live, and it was not live
\* only if no indexed block below has it.
LEMMA OutputKeepsFunding ==
  ASSUME IndexInv, TypeOK, BlockInv, FundingInv, EarlyOnce', ScanOutput,
         \A o \in Outpoints : WatchedThroughout(o)' => WatchedThroughout(o)
  PROVE  FundingInv'
<1>0. /\ pc = "scan" /\ pc' = "scan" /\ outputs # <<>> /\ outputs' = Tail(outputs)
      /\ UNCHANGED <<rows, block, cut, watches>> /\ ObsType
  BY DEF ScanOutput, dbVars, faultVars, TypeOK, ObsType
<1>1. outputs \in Seq(Outpoints) /\ block \in LiveBlocks
  BY <1>0 DEF TypeOK, BlockInv, LiveBlocks
<1>h. PICK h \in Outpoints : h = Head(outputs)
  BY <1>0, <1>1
<1>2. /\ \A p \in Outpoints : LiveObs(p) => obs'[p] = obs[p]
      /\ \A p \in Outpoints \ {h} : obs'[p] = obs[p]
      /\ WatchedThroughout(h) => LiveObs(h)'
      /\ ~LiveObs(h) /\ LiveObs(h)' => obs'[h].block = block
  <2> DEFINE active == {w \in Pays[h] : watches[w] = "active"}
  <2>0. IF active = {} THEN obs' = obs ELSE \E w \in active : obs' = Recorded(h, w)
    BY <1>h DEF ScanOutput
  <2>1. active \subseteq Watches
    BY ContentAssumption
  <2>2. WatchedThroughout(h) => active # {}
    BY DEF WatchedThroughout
  <2> HIDE DEF active
  <2>3. CASE active = {}
    BY <2>0, <2>2, <2>3 DEF LiveObs
  <2>4. CASE active # {}
    <3>1. PICK w \in Watches : obs' = Recorded(h, w)
      BY <2>0, <2>1, <2>4
    <3> QED BY <1>0, <3>1, RecordedRow
  <2> QED BY <2>3, <2>4
<1>3. \A p \in Outpoints : LiveObs(p) => LiveObs(p)'
  BY <1>2 DEF LiveObs
<1>4. LiveBlocks' = LiveBlocks
  BY <1>0 DEF LiveBlocks
<1>5. FullyObserved'
  BY <1>0, <1>3, <1>4 DEF FundingInv, FullyObserved
<1>6. ScanProgress'
  <2> SUFFICES ASSUME NEW o \in Outpoints, Creates(block, o), WatchedThroughout(o), ~LiveObs(o)'
               PROVE  \E k \in 1..Len(outputs') : outputs'[k] = o
    BY <1>0 DEF ScanProgress
  <2>1. PICK k \in 1..Len(outputs) : outputs[k] = o
    BY <1>0, <1>3 DEF FundingInv, ScanProgress
  <2>2. k # 1
    BY <1>h, <1>2, <2>1
  <2>3. k - 1 \in 1..Len(outputs') /\ outputs'[k - 1] = o
    BY <1>0, <1>1, <2>1, <2>2
  <2> QED BY <2>3
<1>7. FirstSeen'
  <2> SUFFICES ASSUME NEW o \in Outpoints, LiveObs(o)', WatchedThroughout(o),
                      NEW b \in ChainOf[obs'[o].block],
                      HeightOf[b] >= StartHeight, b \notin cut, Creates(b, o)
               PROVE  b = obs'[o].block
    BY <1>0 DEF FirstSeen
  <2>1. CASE LiveObs(o)
    BY <1>2, <2>1 DEF FundingInv, FirstSeen
  <2>2. CASE ~LiveObs(o)
    <3>1. o = h /\ obs'[o].block = block
      BY <1>2, <2>2 DEF LiveObs
    <3>2. b \in LiveBlocks
      BY <1>1, <3>1, IndexIsCanonical, CanonicalIsChain
    <3> QED BY <2>2, <3>1, <3>2 DEF FundingInv, FullyObserved
  <2> QED BY <2>1, <2>2
<1> QED BY <1>5, <1>6, <1>7 DEF FundingInv

\* Detaching a block's observations: no block below has one of their outputs.
LEMMA DetachKeepsFunding ==
  ASSUME IndexInv, TypeOK, BlockInv, FundingInv, EarlyOnce', DetachObservations,
         \A o \in Outpoints : WatchedThroughout(o)' => WatchedThroughout(o)
  PROVE  FundingInv'
<1>0. /\ pc = "detach" /\ pc' = "sleep" /\ obs' = DetachedObs
      /\ UNCHANGED <<rows, cut, watches>> /\ ObsType /\ LiveBlocks' = LiveBlocks
  BY DEF DetachObservations, dbVars, faultVars, TypeOK, ObsType, LiveBlocks
<1>1. \A o \in Outpoints : LiveObs(o)' => LiveObs(o) /\ obs'[o] = obs[o]
  BY <1>0, DetachedRow
<1>2. \A o \in Outpoints : LiveObs(o) /\ obs[o].block # block => LiveObs(o)'
  <2>1. \A o \in Outpoints : ~(LiveObs(o) /\ obs[o].block = block) => obs'[o] = obs[o]
    BY <1>0, Zenon DEF DetachedObs
  <2> QED BY <2>1 DEF LiveObs
<1>3. ScanProgress'
  BY <1>0 DEF ScanProgress
<1>4. FirstSeen'
  BY <1>0, <1>1 DEF FundingInv, FirstSeen
<1>5. FullyObserved'
  <2> SUFFICES ASSUME NEW b \in LiveBlocks, NEW o \in Outpoints, b \notin cut,
                      Creates(b, o), WatchedThroughout(o)
               PROVE  LiveObs(o)'
    BY <1>0 DEF FullyObserved
  <2>1. LiveObs(o)
    BY <1>0 DEF FundingInv, FullyObserved
  <2>2. obs[o].block # block
    <3>1. b \in ChainOf[block] /\ b # block /\ HeightOf[b] >= StartHeight
      BY <1>0, BlockAssumption DEF BlockInv, IndexInv, CanonicalChain, LiveBlocks
    <3> QED BY <2>1, <3>1 DEF FundingInv, FirstSeen
  <2> QED BY <1>2, <2>1, <2>2
<1> QED BY <1>3, <1>4, <1>5 DEF FundingInv

\* Taking up a block: its outputs are all to come, or it is no longer indexed.
LEMMA FetchKeepsFunding ==
  ASSUME IndexInv, TypeOK, FundingInv, FetchAndSave
  PROVE  FundingInv'
<1>1. PICK b \in Blocks :
        /\ HeightOf[b] = height
        /\ rows' = RowsAfter(b)
        /\ nextHeight' = NextHeightAfter(b)
        /\ IF SaveResult(b) = "duplicate" THEN Continue /\ UNCHANGED <<block, queues>>
           ELSE IF SaveResult(b) = "saved" THEN StartScan(b)
           ELSE Rewind(b)
  BY DEF FetchAndSave, BlockAt
<1>2. /\ pc = "fetch" /\ SaveResult(b) # "duplicate"
      /\ UNCHANGED <<obs, cut, watches>>
  BY <1>1, FetchIsNew DEF FetchAndSave, faultVars, scanVars
<1>3. \A o \in Outpoints : (LiveObs(o)' <=> LiveObs(o)) /\ (WatchedThroughout(o)' <=> WatchedThroughout(o))
  BY <1>2 DEF LiveObs, WatchedThroughout
<1>4. EarlyOnce' /\ FirstSeen'
  BY <1>2, <1>3 DEF FundingInv, EarlyOnce, FirstSeen
<1>5. CASE SaveResult(b) = "saved"
  <2>1. /\ rows' = [rows EXCEPT ![b] = "live"]
        /\ pc' = "scan" /\ block' = b /\ outputs' = OutputsIn[b]
    BY <1>1, <1>5 DEF RowsAfter, StartScan
  <2>2. LiveBlocks' = LiveBlocks \cup {b}
    BY <2>1 DEF LiveBlocks, IndexInv, IndexType
  <2>3. ScanProgress'
    BY <2>1 DEF ScanProgress, Creates
  <2>4. FullyObserved'
    BY <1>2, <1>3, <2>1, <2>2 DEF FundingInv, FullyObserved
  <2> QED BY <1>4, <2>3, <2>4 DEF FundingInv
<1>6. CASE SaveResult(b) = "reorg"
  <2>1. pc' = "detach" /\ LiveBlocks' \subseteq LiveBlocks
    BY <1>1, <1>2, <1>6, ReorgStep DEF Rewind
  <2>2. ScanProgress'
    BY <2>1 DEF ScanProgress
  <2>3. FullyObserved'
    BY <1>2, <1>3, <2>1 DEF FundingInv, FullyObserved
  <2> QED BY <1>4, <2>2, <2>3 DEF FundingInv
<1>7. SaveResult(b) \in {"duplicate", "reorg", "saved"}
  BY DEF SaveResult
<1> QED BY <1>2, <1>5, <1>6, <1>7

\* Every step keeps the funding invariant.
LEMMA FundingStep ==
  ASSUME IndexInv, TypeOK, BlockInv, FundingInv, [Next]_vars PROVE FundingInv'
<1> USE DEF dbVars, loopVars, queues, scanVars, faultVars
<1>0. /\ EarlyOnce' /\ \A o \in Outpoints : WatchedThroughout(o)' => WatchedThroughout(o)
      /\ ObsType
  BY WatchStep DEF FundingInv, TypeOK, ObsType
<1>1. CASE FetchAndSave
  BY <1>1, FetchKeepsFunding
<1>2. CASE DetachObservations
  BY <1>0, <1>2, DetachKeepsFunding
<1>3. CASE ScanOutput
  BY <1>0, <1>3, OutputKeepsFunding
<1>4. CASE ScanSpend
  <2>1. UNCHANGED <<rows, cut, pc, block, outputs>>
    BY <1>4 DEF ScanSpend
  <2>2. \A o \in Outpoints : (LiveObs(o)' <=> LiveObs(o)) /\ obs'[o].block = obs[o].block
    <3>1. Head(inputs) \in SpendItems
      BY <1>4 DEF ScanSpend, TypeOK
    <3>2. Head(inputs).outpoint \in Outpoints
      BY <3>1 DEF SpendItems
    <3>3. CASE obs' = obs
      BY <3>3 DEF LiveObs
    <3>4. CASE /\ LiveObs(Head(inputs).outpoint)
               /\ obs' = [obs EXCEPT ![Head(inputs).outpoint] = [@ EXCEPT !.status = "spent"]]
      BY <1>0, <3>2, <3>4, SpentRow
    <3> QED BY <1>4, <3>3, <3>4 DEF ScanSpend
  <2>3. LiveBlocks' = LiveBlocks
    BY <2>1 DEF LiveBlocks
  <2> QED BY <1>0, <2>1, <2>2, <2>3, KeepsFunding
<1>5. CASE AdvanceConfirmations
  <2>1. /\ UNCHANGED <<rows, cut>> /\ pc' # "scan" /\ outputs = <<>> /\ obs' = AdvancedObs
        /\ LiveBlocks' = LiveBlocks
    BY <1>5 DEF AdvanceConfirmations, Continue, LiveBlocks
  <2>2. \A o \in Outpoints : (LiveObs(o)' <=> LiveObs(o)) /\ obs'[o].block = obs[o].block
    BY <1>0, <2>1, AdvancedRow
  <2> QED BY <1>0, <2>1, <2>2, KeepsFunding
<1>6. CASE /\ UNCHANGED <<rows, obs>> /\ cut \subseteq cut' /\ pc' # "scan"
           /\ pc = "scan" => block \in cut'
  <2>1. LiveBlocks' = LiveBlocks /\ \A o \in Outpoints : (LiveObs(o)' <=> LiveObs(o)) /\ obs'[o].block = obs[o].block
    BY <1>6 DEF LiveBlocks, LiveObs
  <2> QED BY <1>0, <1>6, <2>1, KeepsFunding
<1>7. CASE UNCHANGED <<rows, obs, cut, pc, block, outputs>>
  <2>1. LiveBlocks' = LiveBlocks /\ \A o \in Outpoints : (LiveObs(o)' <=> LiveObs(o)) /\ obs'[o].block = obs[o].block
    BY <1>7 DEF LiveBlocks, LiveObs
  <2> QED BY <1>0, <1>7, <2>1, KeepsFunding
<1>8. NodeAdvances \/ (\E w \in Watches : RegisterWatch(w) \/ CloseWatch(w)) \/ UNCHANGED vars
        => UNCHANGED <<rows, obs, cut, pc, block, outputs>>
  BY DEF NodeAdvances, RegisterWatch, CloseWatch, vars
<1>9. Poll \/ Restart \/ Crash \/ PollFails
        => /\ UNCHANGED <<rows, obs>> /\ cut \subseteq cut' /\ pc' # "scan"
           /\ pc = "scan" => block \in cut'
  BY DEF Poll, Restart, Crash, PollFails, LoseWork
<1> QED
  BY <1>1, <1>2, <1>3, <1>4, <1>5, <1>6, <1>7, <1>8, <1>9 DEF Next, Work, WatchApi

\* Every output of an indexed and fully scanned block that pays a watch active
\* from the first poll on has a live observation, whatever forks detached and
\* replayed it and wherever faults cut other scans short.
THEOREM FundingObservedHolds == Spec => []FundingObserved
<1>1. Init => FundingInv
  <2> SUFFICES ASSUME Init PROVE FundingInv
    OBVIOUS
  <2>1. LiveBlocks = {} /\ pc # "scan" /\ \A o \in Outpoints : ~LiveObs(o)
    BY DEF Init, LiveBlocks, LiveObs, NoObs, Unspent
  <2>2. EarlyOnce
    BY ContentAssumption DEF Init, EarlyOnce
  <2> QED BY <2>1, <2>2 DEF FundingInv, ScanProgress, FullyObserved, FirstSeen
<1>2. IndexInv /\ TypeOK /\ BlockInv /\ FundingInv /\ [Next]_vars => FundingInv'
  BY FundingStep
<1>3. FundingInv => FundingObserved
  <2>1. \A b \in LiveBlocks : \A i \in 1..Len(OutputsIn[b]) :
          OutputsIn[b][i] \in Outpoints /\ Creates(b, OutputsIn[b][i])
    BY ContentAssumption DEF LiveBlocks, Creates
  <2> QED BY <2>1 DEF FundingInv, FullyObserved, FundingObserved
<1> QED BY <1>1, <1>2, <1>3, IndexInvariant, TypeOKHolds, BlockInvariant, PTL DEF Spec

-----------------------------------------------------------------------------
(* What a verdict on a spend of a trade's escrow means, for the terms the *)
(* trade service registers (SpendClassification).                         *)

\* A spend is named a kind exactly when its outputs match the terms of that kind
\* alone and no agreed id says otherwise (funding-scanner.ts classifySpend).
LEMMA NamedExactly ==
  ASSUME NEW terms, NEW tx, NEW paid, NEW kind \in SettleKinds
  PROVE  ClassifyEscrowSpend(terms, tx, paid) = kind
           <=> /\ {k \in SettleKinds : Matches(terms, k, paid)} = {kind}
               /\ KindOfTxid(terms, tx) \in {kind, "none"}
<1> DEFINE matching == {k \in SettleKinds : Matches(terms, k, paid)}
           named == {k \in SettleKinds : /\ matching = {k}
                                         /\ KindOfTxid(terms, tx) \in {k, "none"}}
<1>1. ClassifyEscrowSpend(terms, tx, paid) =
        IF named = {} THEN "unknown_spend" ELSE CHOOSE k \in named : TRUE
  BY DEF ClassifyEscrowSpend
<1>2. kind # "unknown_spend"
  BY DEF SettleKinds
<1>3. kind \in named <=> /\ matching = {kind}
                         /\ KindOfTxid(terms, tx) \in {kind, "none"}
  OBVIOUS
<1>4. \A j, k \in named : j = k
  OBVIOUS
<1> HIDE DEF named, matching
<1>5. named # {} => (CHOOSE k \in named : TRUE) \in named
  OBVIOUS
<1>6. ClassifyEscrowSpend(terms, tx, paid) = kind <=> kind \in named
  BY <1>1, <1>2, <1>4, <1>5
<1> QED BY <1>3, <1>6 DEF matching

\* Some output pays an address an amount within the fee tolerance.
PaysInFull(paid, address, expected, tolerance) ==
  \E output \in paid : /\ output.address = address
                       /\ output.amount \in (expected - tolerance)..expected

\* Without templates, outputs match a kind of a trade's terms exactly when they
\* pay the party of that kind
\* (pearl-watch-registrar.ts createPearlEscrowWatchRegistration).
LEMMA EscrowMatches ==
  ASSUME NEW buyer, NEW seller, NEW expected, NEW tolerance, NEW txids, NEW paid,
         buyer # AnyAddress, seller # AnyAddress
  PROVE  LET terms == EscrowTerms(buyer, seller, expected, tolerance, txids, Nothing)
         IN  /\ Matches(terms, "release", paid) <=> PaysInFull(paid, buyer, expected, tolerance)
             /\ Matches(terms, "refund", paid) <=> PaysInFull(paid, seller, expected, tolerance)
<1> DEFINE terms == EscrowTerms(buyer, seller, expected, tolerance, txids, Nothing)
           range == (expected - tolerance)..expected
<1>1. /\ ExpectedOutputs(terms, "release") = {[address |-> buyer, amounts |-> range]}
      /\ ExpectedOutputs(terms, "refund") = {[address |-> seller, amounts |-> range]}
  BY DEF ExpectedOutputs, EscrowTerms, SettleKinds, Nothing
<1>2. ASSUME NEW kind, NEW party, party # AnyAddress,
             ExpectedOutputs(terms, kind) = {[address |-> party, amounts |-> range]}
      PROVE  Matches(terms, kind, paid) <=> PaysInFull(paid, party, expected, tolerance)
  <2>1. ASSUME NEW output
        PROVE  OutputMatches(output, [address |-> party, amounts |-> range])
                 <=> /\ output.address = party
                     /\ output.amount \in range
    BY <1>2 DEF OutputMatches
  <2>2. Matches(terms, kind, paid)
          <=> \E output \in paid : OutputMatches(output, [address |-> party, amounts |-> range])
    BY <1>2 DEF Matches
  <2> QED BY <2>1, <2>2 DEF PaysInFull
<1> QED BY <1>1, <1>2

\* The verdict on a spend of a trade's escrow says who was paid: "release" that
\* the buyer got the deposit, less at most the tolerated fee, and the seller did
\* not; "refund" the reverse.  When the two have one address no spend is named
\* (funding-scanner.ts classifySpend, pearl-watch-registrar.ts).
THEOREM EscrowVerdict ==
  ASSUME NEW buyer, NEW seller, NEW expected, NEW tolerance, NEW txids, NEW tx, NEW paid,
         buyer # AnyAddress, seller # AnyAddress
  PROVE  LET terms   == EscrowTerms(buyer, seller, expected, tolerance, txids, Nothing)
             verdict == ClassifySpend(terms, tx, paid)
         IN  /\ verdict = "release" <=> /\ PaysInFull(paid, buyer, expected, tolerance)
                                        /\ ~PaysInFull(paid, seller, expected, tolerance)
                                        /\ KindOfTxid(terms, tx) \in {"release", "none"}
             /\ verdict = "refund" <=> /\ PaysInFull(paid, seller, expected, tolerance)
                                       /\ ~PaysInFull(paid, buyer, expected, tolerance)
                                       /\ KindOfTxid(terms, tx) \in {"refund", "none"}
             /\ buyer = seller => verdict = "unknown_spend"
<1> DEFINE terms == EscrowTerms(buyer, seller, expected, tolerance, txids, Nothing)
           verdict == ClassifySpend(terms, tx, paid)
           matching == {k \in SettleKinds : Matches(terms, k, paid)}
<1>1. verdict = ClassifyEscrowSpend(terms, tx, paid)
  BY DEF ClassifySpend, EscrowTerms
<1>2. /\ Matches(terms, "release", paid) <=> PaysInFull(paid, buyer, expected, tolerance)
      /\ Matches(terms, "refund", paid) <=> PaysInFull(paid, seller, expected, tolerance)
  BY EscrowMatches
<1>3. /\ matching = {"release"} <=> /\ PaysInFull(paid, buyer, expected, tolerance)
                                    /\ ~PaysInFull(paid, seller, expected, tolerance)
      /\ matching = {"refund"} <=> /\ PaysInFull(paid, seller, expected, tolerance)
                                   /\ ~PaysInFull(paid, buyer, expected, tolerance)
  BY <1>2 DEF SettleKinds
<1>4. \A kind \in SettleKinds :
        verdict = kind <=> matching = {kind} /\ KindOfTxid(terms, tx) \in {kind, "none"}
  BY <1>1, NamedExactly
<1> HIDE DEF matching, terms
<1>5. /\ verdict = "release" <=> matching = {"release"} /\ KindOfTxid(terms, tx) \in {"release", "none"}
      /\ verdict = "refund" <=> matching = {"refund"} /\ KindOfTxid(terms, tx) \in {"refund", "none"}
  BY <1>4 DEF SettleKinds
<1>6. buyer = seller => verdict = "unknown_spend"
  <2>1. verdict \in SettleKinds \cup {"unknown_spend"}
    BY <1>1 DEF ClassifyEscrowSpend
  <2> QED BY <2>1, <1>3, <1>5 DEF SettleKinds
<1> QED BY <1>3, <1>5, <1>6 DEF terms
-----------------------------------------------------------------------------
(* The escrow package of a trade, from its script to the name the indexer    *)
(* gives its spend (EscrowPackage).                                          *)

\* A single output to one party's address, less a fee, matches the terms of that
\* party alone, and only while the fee is within the tolerance of the watch.
LEMMA PaymentMatches ==
  ASSUME NEW escrow, NEW tolerance \in Nat, NEW txids, NEW fee \in Nat,
         NEW kind \in SettleKinds, NEW other \in SettleKinds,
         escrow.expected \in Nat, fee < escrow.expected,
         escrow.release.address # escrow.refund.address,
         AnyAddress \notin {escrow.release.address, escrow.refund.address}
  PROVE  Matches(WatchTerms(escrow, tolerance, txids), other,
                 Payment(TemplateFor(escrow, kind).address, escrow.expected - fee))
           <=> other = kind /\ fee <= tolerance
<1> DEFINE terms == WatchTerms(escrow, tolerance, txids)
           address(k) == TemplateFor(escrow, k).address
           output == [vout |-> 0, address |-> address(kind), amount |-> escrow.expected - fee]
           byTerms == [address |-> address(other),
                       amounts |-> (escrow.expected - tolerance)..escrow.expected]
           byTemplate == [address |-> address(other), amounts |-> {escrow.expected}]
<1>1. ExpectedOutputs(terms, other) = {byTerms, byTemplate}
  <2>1. terms.destinations[other] = {address(other)}
    BY DEF WatchTerms, EscrowTerms, TemplateFor, SettleKinds
  <2>2. terms.amounts[other] = (escrow.expected - tolerance)..escrow.expected
    BY DEF WatchTerms, EscrowTerms
  <2>3. terms.templates[other] = {byTemplate}
    BY DEF WatchTerms, EscrowTerms
  <2> QED BY <2>1, <2>2, <2>3 DEF ExpectedOutputs
<1>2. Payment(address(kind), escrow.expected - fee) = {output}
  BY DEF Payment
<1>3. address(other) # AnyAddress /\ (address(other) = address(kind) <=> other = kind)
  BY DEF TemplateFor, SettleKinds
<1>4. OutputMatches(output, byTerms) <=> other = kind /\ fee <= tolerance
  BY <1>3 DEF OutputMatches
<1>5. OutputMatches(output, byTemplate) <=> other = kind /\ fee = 0
  BY <1>3 DEF OutputMatches
<1> QED BY <1>1, <1>2, <1>4, <1>5 DEF Matches

\* What the indexer says of a transaction made from a template: its kind while the
\* fee the service is configured with is within the tolerance its watch was
\* registered with (both are pearlReleaseFeeGrains, at different times: trade-
\* service.ts:1702, 1993 and 2066), and nothing definite once it was raised.
THEOREM TemplateVerdict ==
  ASSUME NEW escrow, NEW tolerance \in Nat, NEW txids, NEW fee \in Nat, NEW txid,
         NEW kind \in SettleKinds,
         escrow.expected \in Nat, FeeInRange(escrow, fee),
         escrow.release.address # escrow.refund.address,
         AnyAddress \notin {escrow.release.address, escrow.refund.address},
         KindOfTxid(WatchTerms(escrow, tolerance, txids), txid) \in {kind, "none"}
  PROVE  ClassifySpend(WatchTerms(escrow, tolerance, txids), txid,
                       UnsignedTx(escrow, kind, fee).tx.outputs)
           = IF fee <= tolerance THEN kind ELSE "unknown_spend"
<1> DEFINE terms == WatchTerms(escrow, tolerance, txids)
           paid == Payment(TemplateFor(escrow, kind).address, escrow.expected - fee)
           matching == {k \in SettleKinds : Matches(terms, k, paid)}
<1>1. UnsignedTx(escrow, kind, fee).tx.outputs = paid
  BY DEF UnsignedTx
<1>2. \A other \in SettleKinds : Matches(terms, other, paid) <=> other = kind /\ fee <= tolerance
  <2>1. fee < escrow.expected
    BY DEF FeeInRange
  <2> SUFFICES ASSUME NEW other \in SettleKinds
               PROVE  Matches(terms, other, paid) <=> other = kind /\ fee <= tolerance
    OBVIOUS
  <2> QED BY <2>1, PaymentMatches
<1>3. matching = IF fee <= tolerance THEN {kind} ELSE {}
  BY <1>2
<1>4. ClassifySpend(terms, txid, paid) = ClassifyEscrowSpend(terms, txid, paid)
  BY DEF ClassifySpend, WatchTerms, EscrowTerms
<1>5. \A k \in SettleKinds :
        ClassifyEscrowSpend(terms, txid, paid) = k
          <=> matching = {k} /\ KindOfTxid(terms, txid) \in {k, "none"}
  BY NamedExactly
<1>6. ClassifyEscrowSpend(terms, txid, paid) \in SettleKinds \cup {"unknown_spend"}
  BY DEF ClassifyEscrowSpend
<1> HIDE DEF terms, paid, matching
<1>7. CASE fee <= tolerance
  BY <1>1, <1>3, <1>4, <1>5, <1>7 DEF terms
<1>8. CASE ~(fee <= tolerance)
  <2>1. \A k \in SettleKinds : matching # {k}
    BY <1>3, <1>8
  <2> QED BY <2>1, <1>1, <1>4, <1>5, <1>6, <1>8 DEF terms
<1> QED BY <1>7, <1>8

\* What the keys of a multisig escrow can do, and when: two of the three at any
\* time, the seller alone after the lock time, and no other (p2tr.ts: the internal
\* key spends nothing, the signers are distinct).
THEOREM NobodySpendsAlone ==
  ASSUME NEW request, BuildsMultisig(request), NEW outpoint, NEW tx, NEW signatures,
         Spends(PackageFromTrade(MultisigPackage(request), outpoint), tx, signatures)
  PROVE  \/ \E r, s \in Roles : /\ request.keys[r] # request.keys[s]
                                /\ {request.keys[r], request.keys[s]} \subseteq signatures
         \/ /\ request.keys["seller"] \in signatures
            /\ LockTimeReached(RefundLockTime(request), tx)
<1> DEFINE keys == request.keys
           lock == RefundLockTime(request)
           escrow == PackageFromTrade(MultisigPackage(request), outpoint)
<1>1. escrow.script = MultisigScript(keys, lock, request.trade)
  BY DEF PackageFromTrade, MultisigPackage
<1>2. PICK kind \in DOMAIN LeafSigners : Opens(Leaf(kind, keys, lock, request.trade), tx, signatures)
  BY <1>1 DEF Spends, MultisigScript
<1>3. DOMAIN LeafSigners = {"buyer_seller_release", "buyer_arbiter_release",
                            "seller_arbiter_release", "seller_timeout_refund"}
  BY DEF LeafSigners
<1>4. \A role \in LeafSigners[kind] : keys[role] \in signatures
  BY <1>2 DEF Opens, Leaf
<1>5. CASE kind = "seller_timeout_refund"
  <2>1. lock # 0
    BY LockTimeThresholdAssumption DEF BuildsMultisig, RefundLockTime
  <2>2. LockTimeReached(lock, tx)
    BY <1>2, <1>5, <2>1 DEF Opens, Leaf
  <2> QED BY <1>4, <1>5, <2>2 DEF LeafSigners
<1>6. CASE kind # "seller_timeout_refund"
  <2>1. \A r, s \in Roles : keys[r] = keys[s] => r = s
    BY DEF BuildsMultisig
  <2>2. PICK r \in Roles, s \in Roles : r # s /\ LeafSigners[kind] = {r, s}
    BY <1>3, <1>6 DEF LeafSigners, Roles
  <2> QED BY <1>4, <2>1, <2>2
<1> QED BY <1>5, <1>6

\* The signer sets the API tells the parties are those that open the escrow: a
\* release needs exactly one of them, a refund opens to its own
\* (trade-service.ts getTemplateSignerSets, package-builder.ts:85-110).
THEOREM SignerSetsOpenTheEscrow ==
  ASSUME NEW request, BuildsMultisig(request), NEW outpoint, NEW fee, NEW signatures
  PROVE  LET escrow == PackageFromTrade(MultisigPackage(request), outpoint)
             Signed(kind) == \E signers \in SignerSets(escrow, kind) :
                               {request.keys[role] : role \in signers} \subseteq signatures
             Opened(kind) == Spends(escrow, UnsignedTx(escrow, kind, fee).tx, signatures)
         IN  /\ Opened("release") <=> Signed("release")
             /\ Signed("refund") => Opened("refund")
<1> DEFINE keys == request.keys
           lock == RefundLockTime(request)
           escrow == PackageFromTrade(MultisigPackage(request), outpoint)
           leaf(kind) == Leaf(kind, keys, lock, request.trade)
           Signed(kind) == \E signers \in SignerSets(escrow, kind) :
                             {request.keys[role] : role \in signers} \subseteq signatures
           Opened(kind) == Spends(escrow, UnsignedTx(escrow, kind, fee).tx, signatures)
<1>1. /\ escrow.script = MultisigScript(keys, lock, request.trade)
      /\ escrow.release.lockTime = 0 /\ escrow.refund.lockTime = lock
      /\ SignerSets(escrow, "release")
           = {{"buyer", "seller"}, {"buyer", "arbiter"}, {"seller", "arbiter"}}
      /\ SignerSets(escrow, "refund") = {{"seller"}}
  BY DEF PackageFromTrade, MultisigPackage, Template, SignerSets, TemplateFor
<1>2. lock # 0
  BY LockTimeThresholdAssumption DEF BuildsMultisig, RefundLockTime
<1>3. \A kind \in SettleKinds :
        Opened(kind) <=> \E l \in DOMAIN LeafSigners :
                           Opens(leaf(l), UnsignedTx(escrow, kind, fee).tx, signatures)
  <2>1. \A kind \in SettleKinds : escrow.outpoint \in UnsignedTx(escrow, kind, fee).tx.inputs
    BY DEF UnsignedTx
  <2> QED BY <1>1, <2>1 DEF Spends, MultisigScript
<1>4. /\ UnsignedTx(escrow, "release", fee).tx.sequence = "final"
      /\ UnsignedTx(escrow, "refund", fee).tx.sequence = "locked"
      /\ UnsignedTx(escrow, "refund", fee).tx.lockTime = lock
  BY <1>1, <1>2 DEF UnsignedTx, TemplateFor
<1>5. \A l \in DOMAIN LeafSigners :
        /\ l # "seller_timeout_refund" => leaf(l).lockTime = 0
        /\ leaf("seller_timeout_refund").lockTime = lock
        /\ leaf(l).keys = {keys[role] : role \in LeafSigners[l]}
  BY DEF Leaf
<1>6. \A l \in DOMAIN LeafSigners :
        Opens(leaf(l), UnsignedTx(escrow, "release", fee).tx, signatures)
          <=> /\ l # "seller_timeout_refund"
              /\ {keys[role] : role \in LeafSigners[l]} \subseteq signatures
  BY <1>2, <1>4, <1>5 DEF Opens, LockTimeReached
<1>7. {LeafSigners[l] : l \in DOMAIN LeafSigners \ {"seller_timeout_refund"}}
        = SignerSets(escrow, "release")
  <2>1. DOMAIN LeafSigners = {"buyer_seller_release", "buyer_arbiter_release",
                              "seller_arbiter_release", "seller_timeout_refund"}
    BY DEF LeafSigners
  <2>2. /\ LeafSigners["buyer_seller_release"] = {"buyer", "seller"}
        /\ LeafSigners["buyer_arbiter_release"] = {"buyer", "arbiter"}
        /\ LeafSigners["seller_arbiter_release"] = {"seller", "arbiter"}
    BY DEF LeafSigners
  <2>3. DOMAIN LeafSigners \ {"seller_timeout_refund"}
          = {"buyer_seller_release", "buyer_arbiter_release", "seller_arbiter_release"}
    BY <2>1
  <2>4. {LeafSigners[l] : l \in {"buyer_seller_release", "buyer_arbiter_release", "seller_arbiter_release"}}
          = {{"buyer", "seller"}, {"buyer", "arbiter"}, {"seller", "arbiter"}}
    BY <2>2
  <2> QED BY <2>3, <2>4, <1>1
<1>8. Opened("release") <=> Signed("release")
  BY <1>3, <1>6, <1>7 DEF SettleKinds
<1>9. Signed("refund") => Opened("refund")
  <2> SUFFICES ASSUME Signed("refund") PROVE Opened("refund")
    OBVIOUS
  <2>1. keys["seller"] \in signatures
    BY <1>1
  <2>2. "seller_timeout_refund" \in DOMAIN LeafSigners
        /\ LeafSigners["seller_timeout_refund"] = {"seller"}
    BY DEF LeafSigners
  <2>3. lock \in Int
    BY LockTimeThresholdAssumption DEF BuildsMultisig, RefundLockTime
  <2>4. Opens(leaf("seller_timeout_refund"), UnsignedTx(escrow, "refund", fee).tx, signatures)
    BY <1>4, <1>5, <2>1, <2>2, <2>3 DEF Opens, LockTimeReached
  <2> QED BY <1>3, <2>2, <2>4 DEF SettleKinds
<1> QED BY <1>8, <1>9

\* A release the buyer has signed in advance and the API has accepted needs the
\* arbiter alone to open the escrow at once, and pays the buyer's address the
\* deposit less the fee of that moment: TemplateVerdict says what the indexer will
\* call it (presignature-validation.ts, script-path-signing.ts).
THEOREM PresignatureCompletes ==
  ASSUME NEW request, BuildsMultisig(request), NEW outpoint, NEW fee, NEW psbt,
         AcceptsPresignature(PackageFromTrade(MultisigPackage(request), outpoint),
                             request.releaseAddress, fee, psbt)
  PROVE  LET escrow    == PackageFromTrade(MultisigPackage(request), outpoint)
             completed == SignedBy(psbt, request.keys["arbiter"])
         IN  /\ WitnessComplete(completed)
             /\ Spends(escrow, completed.tx, completed.signatures)
             /\ completed.tx.outputs = UnsignedTx(escrow, "release", fee).tx.outputs
<1> DEFINE keys == request.keys
           escrow == PackageFromTrade(MultisigPackage(request), outpoint)
           completed == SignedBy(psbt, keys["arbiter"])
           leaf == Leaf("buyer_arbiter_release", keys, RefundLockTime(request), request.trade)
<1>1. /\ escrow.script = MultisigScript(keys, RefundLockTime(request), request.trade)
      /\ escrow.keys = keys /\ escrow.release.address = request.releaseAddress
  BY DEF PackageFromTrade, MultisigPackage, Template
<1>2. leaf.kind = "buyer_arbiter_release" /\ leaf.lockTime = 0
      /\ leaf.keys = {keys["buyer"], keys["arbiter"]}
  BY DEF Leaf, LeafSigners
<1>3. leaf \in escrow.script.leaves
  BY <1>1 DEF MultisigScript, LeafSigners
<1>4. leaf \in psbt.leaves
  BY <1>2, <1>3 DEF AcceptsPresignature, LeavesOfKind
<1>5. leaf.keys \subseteq completed.signatures
  BY <1>1, <1>2 DEF AcceptsPresignature, SignedBy
<1>6. WitnessComplete(completed)
  BY <1>4, <1>5 DEF WitnessComplete, SignedBy
<1>7. Spends(escrow, completed.tx, completed.signatures)
  <2>1. escrow.outpoint \in completed.tx.inputs
    BY DEF AcceptsPresignature, SignedBy
  <2>2. Opens(leaf, completed.tx, completed.signatures)
    BY <1>2, <1>5 DEF Opens
  <2> QED BY <1>3, <2>1, <2>2 DEF Spends
<1>8. completed.tx.outputs = UnsignedTx(escrow, "release", fee).tx.outputs
  <2>1. completed.tx.outputs = Payment(request.releaseAddress, escrow.expected - fee)
    BY DEF AcceptsPresignature, SignedBy
  <2>2. UnsignedTx(escrow, "release", fee).tx.outputs
          = Payment(request.releaseAddress, escrow.expected - fee)
    BY <1>1 DEF UnsignedTx, TemplateFor
  <2> QED BY <2>1, <2>2
<1> QED BY <1>6, <1>7, <1>8

\* What the API hands the buyer to sign is what it accepts back, while the
\* configured fee has not changed in between (trade-service.ts:1841, 1959).
THEOREM PresignTemplateIsAccepted ==
  ASSUME NEW request, BuildsMultisig(request), NEW outpoint,
         NEW asked \in Int, NEW configured \in Int
  PROVE  LET escrow == PackageFromTrade(MultisigPackage(request), outpoint)
         IN  AcceptsPresignature(escrow, request.releaseAddress, configured,
               SignedBy(PresignTemplate(escrow, request.releaseAddress, asked), request.keys["buyer"]))
               <=> configured = asked
<1> DEFINE escrow == PackageFromTrade(MultisigPackage(request), outpoint)
           asks == PresignTemplate(escrow, request.releaseAddress, asked)
           psbt == SignedBy(asks, request.keys["buyer"])
           leaf == Leaf("buyer_arbiter_release", request.keys, RefundLockTime(request), request.trade)
<1>1. /\ escrow.script = MultisigScript(request.keys, RefundLockTime(request), request.trade)
      /\ escrow.keys = request.keys /\ escrow.expected = request.expected
      /\ request.expected \in Int
  BY DEF PackageFromTrade, MultisigPackage, BuildsMultisig
<1>2. leaf \in LeavesOfKind(escrow, "buyer_arbiter_release")
  <2>1. leaf.kind = "buyer_arbiter_release"
    BY DEF Leaf
  <2>2. leaf \in escrow.script.leaves
    BY <1>1 DEF MultisigScript, LeafSigners
  <2> QED BY <2>1, <2>2 DEF LeavesOfKind
<1>3. /\ psbt.tx.inputs = {escrow.outpoint} /\ psbt.tx.lockTime = 0
      /\ psbt.tx.outputs = Payment(request.releaseAddress, escrow.expected - asked)
      /\ psbt.script = escrow.script /\ psbt.value = escrow.expected
      /\ psbt.leaves = LeavesOfKind(escrow, "buyer_arbiter_release")
      /\ request.keys["buyer"] \in psbt.signatures
  BY DEF SignedBy, PresignTemplate, PartialPsbt
<1>4. Payment(request.releaseAddress, escrow.expected - asked)
        = Payment(request.releaseAddress, escrow.expected - configured)
        <=> configured = asked
  <2> DEFINE output(a) == [vout |-> 0, address |-> request.releaseAddress, amount |-> a]
  <2>1. output(escrow.expected - asked) = output(escrow.expected - configured)
          => escrow.expected - asked = escrow.expected - configured
    OBVIOUS
  <2>2. escrow.expected - asked = escrow.expected - configured <=> configured = asked
    BY <1>1
  <2> QED BY <2>1, <2>2 DEF Payment
<1> HIDE DEF psbt, escrow
<1> QED BY <1>1, <1>2, <1>3, <1>4 DEF AcceptsPresignature, escrow, psbt

\* A signer is only asked for a transaction that pays its template's address the
\* deposit less at most the cap (broadcast.ts createPearlEscrowSignerRequest).
THEOREM RequestPaysTheTemplate ==
  ASSUME NEW escrow, escrow.expected \in Nat, NEW kind \in SettleKinds, NEW action \in SettleKinds,
         NEW made, FeeInRange(escrow, made), NEW destination, NEW fee, NEW cap \in Nat,
         MayRequest(escrow, action, UnsignedTx(escrow, kind, made), destination, fee, cap)
  PROVE  \E amount \in (escrow.expected - cap)..escrow.expected :
           UnsignedTx(escrow, kind, made).tx.outputs
             = Payment(TemplateFor(escrow, action).address, amount)
<1>1. kind = action /\ made = fee /\ fee \in 0..cap
  BY DEF MayRequest, UnsignedTx
<1>2. escrow.expected - made \in (escrow.expected - cap)..escrow.expected
  BY <1>1
<1>3. UnsignedTx(escrow, kind, made).tx.outputs
        = Payment(TemplateFor(escrow, action).address, escrow.expected - made)
  BY <1>1 DEF UnsignedTx
<1> QED BY <1>2, <1>3
=============================================================================
