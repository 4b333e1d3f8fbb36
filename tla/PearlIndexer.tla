---------------------------- MODULE PearlIndexer ----------------------------
(***************************************************************************)
(* The Pearl block indexer (services/pearl-indexer): a poll loop that      *)
(* copies the active chain of a pearld node into PostgreSQL one block at a *)
(* time, unwinding forks one block per poll, and a scanner that records    *)
(* which outputs fund a watched address and which transactions spend them. *)
(*                                                                         *)
(* Grain of atomicity.  PgBlockSink.saveBlock is one database transaction; *)
(* every later write of the scanner is a transaction of its own, so each   *)
(* is a step here and a fault can fall between any two of them.  The RPC   *)
(* reads of one block are taken together with its saveBlock: a block is    *)
(* named by its hash, so a node that moves on between the two is the same  *)
(* as a node that moves on right after.                                    *)
(***************************************************************************)
EXTENDS Integers, Sequences, SpendClassification

CONSTANTS
  Blocks,        \* block hashes pearld may serve
  NoBlock,       \* the previous hash of a first block
  HeightOf,      \* [Blocks -> Nat]
  PrevOf,        \* previousblockhash of a block
  StartHeight,   \* PEARL_INDEXER_START_HEIGHT
  Outpoints,     \* transaction outputs paying a watched address
  OutputsIn,     \* the outpoints a block creates, in block order
  SpendsIn,      \* the inputs a block holds that spend one: [tx, outpoint], in order
  Txids,         \* ids of the transactions that spend them
  Paid,          \* Paid[tx] : the outputs of a spending transaction
  Watches,       \* watch ids the product services register
  NoWatch,
  EarlyWatches,  \* those registered before the first poll
  Pays,          \* Pays[o] : the watches whose address the output pays
  Amount,        \* Amount[o] in grains
  Expected,      \* expected_amount_grains of a watch, 0 when not given
  DeadlineHeight,\* pearl_funding_deadline_height of a watch
  Required,      \* required_confirmations of a watch
  Terms,         \* what its metadata says of spends (SpendClassification)
  MaxFaults      \* bound on crashes and failed polls

SpendItems == [tx : Txids, outpoint : Outpoints]

ASSUME BlockAssumption ==
  /\ NoBlock \notin Blocks
  /\ HeightOf \in [Blocks -> Nat]
  /\ PrevOf \in [Blocks -> Blocks \cup {NoBlock}]
  /\ \A b \in Blocks : PrevOf[b] # NoBlock => HeightOf[b] = HeightOf[PrevOf[b]] + 1
  /\ StartHeight \in Nat
  /\ MaxFaults \in Nat

ASSUME ContentAssumption ==
  /\ OutputsIn \in [Blocks -> Seq(Outpoints)]
  /\ SpendsIn \in [Blocks -> Seq(SpendItems)]
  /\ NoWatch \notin Watches
  /\ EarlyWatches \subseteq Watches
  /\ Pays \in [Outpoints -> SUBSET Watches]
  /\ Amount \in [Outpoints -> Nat]
  /\ Expected \in [Watches -> Nat]
  /\ DeadlineHeight \in [Watches -> Nat]
  /\ Required \in [Watches -> Nat]

VARIABLES
  node,        \* tip of pearld's active chain
  rows,        \* pearl_blocks: "absent", "live" or "detached" for each hash
  nextHeight,  \* indexer_state.next_height
  height,      \* nextHeight of the poll loop, in memory
  tipSeen,     \* getblockcount at the start of the current pollOnce
  pc,          \* what the process does next
  block,       \* the block being scanned, or just detached
  outputs,     \* outputs of block still to be matched
  inputs,      \* spends of block still to be matched
  watches,     \* watched_addresses.status
  obs,         \* address_observations, one row at most per outpoint
  spends,      \* address_spends
  faults,      \* faults so far
  cut          \* history: blocks whose scan or detach was cut short

vars == <<node, rows, nextHeight, height, tipSeen, pc, block, outputs,
          inputs, watches, obs, spends, faults, cut>>
dbVars    == <<rows, nextHeight>>
queues   == <<outputs, inputs>>
loopVars == <<height, tipSeen, pc, block, queues>>
scanVars  == <<obs, spends>>
faultVars == <<faults, cut>>

NoObs == [status |-> "absent", block |-> NoBlock, watch |-> NoWatch,
          confirmations |-> 0, class |-> "none"]

-----------------------------------------------------------------------------
(* pearld: the active chain is the tip and its ancestors. *)
ChainOf[b \in Blocks] ==
  IF PrevOf[b] = NoBlock THEN {b} ELSE {b} \cup ChainOf[PrevOf[b]]

\* The node adopts a longer chain: an extension of its own or a fork.
NodeAdvances ==
  /\ \E b \in Blocks : HeightOf[b] > HeightOf[node] /\ node' = b
  /\ UNCHANGED <<dbVars, loopVars, watches, scanVars, faultVars>>

-----------------------------------------------------------------------------
(* PgBlockSink *)

LiveBlocks == {b \in Blocks : rows[b] = "live"}

\* The canonical row at H-1 whose hash is not the incoming previousHash.
StaleParents_BelowTip(b) ==
  {p \in LiveBlocks : HeightOf[p] = HeightOf[b] - 1 /\ HeightOf[b] < HeightOf[node] /\ p # PrevOf[b]}
StaleParents(b) ==
  {p \in LiveBlocks : HeightOf[p] = HeightOf[b] - 1 /\ p # PrevOf[b]}

SaveResult(b) ==
  IF b \in LiveBlocks THEN "duplicate"
  ELSE IF StaleParents(b) # {} THEN "reorg"
  ELSE "saved"

RowsAfter_KeepParent(b) ==
  IF SaveResult(b) = "saved" THEN [rows EXCEPT ![b] = "live"] ELSE rows
RowsAfter(b) ==
  IF SaveResult(b) = "duplicate" THEN rows
  ELSE IF SaveResult(b) = "reorg"
  THEN [c \in Blocks |-> IF c \in LiveBlocks /\ HeightOf[c] = HeightOf[b] - 1
                         THEN "detached" ELSE rows[c]]
  ELSE [rows EXCEPT ![b] = "live"]

\* setNextHeight on a reorg; advanceNextHeight (GREATEST) otherwise.
NextHeightAfter_NoRewind(b) ==
  IF nextHeight > HeightOf[b] + 1 THEN nextHeight ELSE HeightOf[b] + 1
NextHeightAfter(b) ==
  IF SaveResult(b) = "reorg" THEN HeightOf[b] - 1
  ELSE IF nextHeight > HeightOf[b] + 1 THEN nextHeight ELSE HeightOf[b] + 1

\* Detached rows no canonical row has replaced.
Unreplaced ==
  {b \in Blocks : /\ rows[b] = "detached"
                  /\ \A c \in LiveBlocks : HeightOf[c] # HeightOf[b]}

LoadNextHeight ==
  LET heights == {nextHeight} \cup {HeightOf[b] : b \in Unreplaced}
  IN  CHOOSE h \in heights : \A g \in heights : h <= g

-----------------------------------------------------------------------------
(* PearlBlockPoller and pollForever *)

Poll_OffByOne ==
  /\ pc = "sleep"
  /\ height < HeightOf[node]
  /\ tipSeen' = HeightOf[node]
  /\ pc' = "fetch"
  /\ UNCHANGED <<node, dbVars, height, block, queues, watches, scanVars, faultVars>>
Poll ==
  /\ pc = "sleep"
  /\ height <= HeightOf[node]
  /\ tipSeen' = HeightOf[node]
  /\ pc' = "fetch"
  /\ UNCHANGED <<node, dbVars, height, block, queues, watches, scanVars, faultVars>>

\* The loop goes on with the next height, or pollOnce returns.
Continue ==
  /\ height' = height + 1
  /\ pc' = IF height < tipSeen THEN "fetch" ELSE "sleep"
  /\ UNCHANGED tipSeen

\* What pollOnce does with the answers "saved" and "reorg".
StartScan(b) ==
  /\ pc' = "scan"
  /\ block' = b
  /\ outputs' = OutputsIn[b]
  /\ inputs' = SpendsIn[b]
  /\ UNCHANGED <<height, tipSeen>>
Rewind(b) ==
  /\ pc' = "detach"
  /\ block' \in StaleParents(b)
  /\ height' = height - 1
  /\ UNCHANGED <<tipSeen, queues>>

\* createPearldBlockSource: the block pearld has at a height, which carries its
\* outputs and inputs in order (OutputsIn, SpendsIn).
BlockAt(h) == {b \in ChainOf[node] : HeightOf[b] = h}

\* getBlockHash, getBlock and the transaction of PgBlockSink.saveBlock.
FetchAndSave ==
  /\ pc = "fetch"
  /\ \E b \in Blocks :
       /\ b \in BlockAt(height)
       /\ rows' = RowsAfter(b)
       /\ nextHeight' = NextHeightAfter(b)
       /\ IF SaveResult(b) = "duplicate" THEN Continue /\ UNCHANGED <<block, queues>>
          ELSE IF SaveResult(b) = "saved" THEN StartScan(b)
          ELSE Rewind(b)
  /\ UNCHANGED <<node, watches, scanVars, faultVars>>

-----------------------------------------------------------------------------
(* FundingScannerSink over PgWatchedAddressRepository *)

Unspent == {"pending", "confirmed"}
LiveObs(o) == obs[o].status \in Unspent \cup {"spent"}

\* detachObservationsForBlock, after the transaction that detached the block.
DetachedObs_Unspent ==
  [o \in Outpoints |-> IF obs[o].status = "pending" /\ obs[o].block = block
                       THEN [obs[o] EXCEPT !.status = "detached", !.class = "reorged"]
                       ELSE obs[o]]
DetachedObs ==
  [o \in Outpoints |-> IF LiveObs(o) /\ obs[o].block = block
                       THEN [obs[o] EXCEPT !.status = "detached", !.class = "reorged"]
                       ELSE obs[o]]

DetachObservations ==
  /\ pc = "detach"
  /\ obs' = DetachedObs
  /\ pc' = "sleep"
  /\ UNCHANGED <<node, dbVars, height, tipSeen, block, queues, watches, spends, faultVars>>

ClassifyFunding(o, b, w) ==
  IF Expected[w] = 0 THEN "unknown_funding"
  ELSE IF HeightOf[b] > DeadlineHeight[w] THEN "late"
  ELSE IF Amount[o] < Expected[w] THEN "underpaid"
  ELSE IF Amount[o] > Expected[w] THEN "overpaid"
  ELSE "on_time"

HasPriorLiveObservation_SameOutpointOnly(w, o) == LiveObs(o) /\ obs[o].watch = w
HasPriorLiveObservation(w, o) ==
  \E p \in Outpoints \ {o} : LiveObs(p) /\ obs[p].watch = w

\* recordObservation: a live row of the outpoint wins over the new one.
Recorded_LiveOnly(o, w) ==
  IF obs[o].status # "absent" THEN obs
  ELSE [obs EXCEPT ![o] = [status |-> "pending", block |-> block, watch |-> w,
                           confirmations |-> 1,
                           class |-> IF HasPriorLiveObservation(w, o) THEN "duplicate"
                                     ELSE ClassifyFunding(o, block, w)]]
Recorded(o, w) ==
  IF LiveObs(o) THEN obs
  ELSE [obs EXCEPT ![o] = [status |-> "pending", block |-> block, watch |-> w,
                           confirmations |-> 1,
                           class |-> IF HasPriorLiveObservation(w, o) THEN "duplicate"
                                     ELSE ClassifyFunding(o, block, w)]]

ScanOutput ==
  /\ pc = "scan"
  /\ outputs # <<>>
  /\ LET o == Head(outputs)
         active == {w \in Pays[o] : watches[w] = "active"}
     IN  IF active = {} THEN obs' = obs
         ELSE \E w \in active : obs' = Recorded(o, w)
  /\ outputs' = Tail(outputs)
  /\ UNCHANGED <<node, dbVars, height, tipSeen, pc, block, inputs, watches, spends, faultVars>>

\* recordSpend: a row already there for (spend_txid, spent_outpoint) keeps its
\* block and its verdict.
SpendsAfter(s) ==
  IF \E t \in spends : t.tx = s.tx /\ t.outpoint = s.outpoint
  THEN spends
  ELSE spends \cup
         {[tx |-> s.tx, outpoint |-> s.outpoint, block |-> block,
           kind |-> ClassifySpend(Terms[obs[s.outpoint].watch], s.tx, Paid[s.tx])]}

ScanSpend ==
  /\ pc = "scan"
  /\ outputs = <<>>
  /\ inputs # <<>>
  /\ LET s == Head(inputs)
     IN  IF LiveObs(s.outpoint)
         THEN /\ spends' = SpendsAfter(s)
              /\ obs' = [obs EXCEPT ![s.outpoint] = [@ EXCEPT !.status = "spent"]]
         ELSE UNCHANGED scanVars
  /\ inputs' = Tail(inputs)
  /\ UNCHANGED <<node, dbVars, height, tipSeen, pc, block, outputs, watches, faultVars>>

Confirmations(o) == HeightOf[block] - HeightOf[obs[o].block] + 1

AdvancedObs_NeverDowngrade ==
  [o \in Outpoints |->
     IF obs[o].status = "pending"
     THEN [obs[o] EXCEPT !.confirmations = Confirmations(o),
                         !.status = IF Confirmations(o) >= Required[obs[o].watch]
                                    THEN "confirmed" ELSE "pending"]
     ELSE obs[o]]
AdvancedObs ==
  [o \in Outpoints |->
     IF obs[o].status \in Unspent
     THEN [obs[o] EXCEPT !.confirmations = Confirmations(o),
                         !.status = IF Confirmations(o) >= Required[obs[o].watch]
                                    THEN "confirmed" ELSE "pending"]
     ELSE obs[o]]

AdvanceConfirmations ==
  /\ pc = "scan"
  /\ outputs = <<>> /\ inputs = <<>>
  /\ obs' = AdvancedObs
  /\ Continue
  /\ UNCHANGED <<node, dbVars, block, queues, watches, spends, faultVars>>

-----------------------------------------------------------------------------
(* The watch API and the faults *)

\* POST /watches: registering an existing watch again changes no status.
RegisterWatch(w) ==
  /\ pc # "down"
  /\ watches[w] = "unregistered"
  /\ watches' = [watches EXCEPT ![w] = "active"]
  /\ UNCHANGED <<node, dbVars, loopVars, scanVars, faultVars>>

CloseWatch(w) ==
  /\ pc # "down"
  /\ watches[w] = "active"
  /\ watches' = [watches EXCEPT ![w] = "closed"]
  /\ UNCHANGED <<node, dbVars, loopVars, scanVars, faultVars>>

\* The HTTP server answers between any two steps of the poll loop.
WatchApi == \E w \in Watches : RegisterWatch(w) \/ CloseWatch(w)

\* The work of the block at hand is lost; its saveBlock stays committed.
LoseWork(to) ==
  /\ faults < MaxFaults
  /\ faults' = faults + 1
  /\ cut' = IF pc \in {"scan", "detach"} THEN cut \cup {block} ELSE cut
  /\ pc' = to
  /\ outputs' = <<>> /\ inputs' = <<>>
  /\ UNCHANGED <<node, dbVars, height, tipSeen, block, watches, scanVars>>

Crash == pc # "down" /\ LoseWork("down")

\* An RPC or database error rejects pollForever; the HTTP server lives on.
PollFails == pc \in {"sleep", "fetch", "scan", "detach"} /\ LoseWork("stopped")

\* main.ts reads the resume height before its first poll.
Restart ==
  /\ pc \in {"down", "stopped"}
  /\ height' = LoadNextHeight
  /\ pc' = "sleep"
  /\ UNCHANGED <<node, dbVars, tipSeen, block, queues, watches, scanVars, faultVars>>

-----------------------------------------------------------------------------
Init ==
  /\ node \in Blocks
  /\ rows = [b \in Blocks |-> "absent"]
  /\ nextHeight = StartHeight
  /\ height = StartHeight
  /\ tipSeen = 0
  /\ pc = "sleep"
  /\ block = NoBlock
  /\ outputs = <<>> /\ inputs = <<>>
  /\ watches = [w \in Watches |-> IF w \in EarlyWatches THEN "active" ELSE "unregistered"]
  /\ obs = [o \in Outpoints |-> NoObs]
  /\ spends = {}
  /\ faults = 0
  /\ cut = {}

\* What the process does of its own accord, without a fault.
Work == \/ Poll \/ FetchAndSave \/ DetachObservations
        \/ ScanOutput \/ ScanSpend \/ AdvanceConfirmations

Next ==
  \/ NodeAdvances
  \/ Work
  \/ WatchApi
  \/ Crash
  \/ PollFails
  \/ Restart

Spec == Init /\ [][Next]_vars

\* The event loop runs what it has scheduled, and an operator restarts an
\* indexer that is down or no longer polls (docs/operations/otc-monitoring.md:23).
FairSpec == Spec /\ WF_vars(Work) /\ WF_vars(Restart)

-----------------------------------------------------------------------------
(* Properties *)

Classes == {"none", "reorged", "duplicate", "unknown_funding", "late",
            "underpaid", "overpaid", "on_time"}
ObsRows == [status : {"absent", "detached", "spent"} \cup Unspent,
            block : Blocks \cup {NoBlock}, watch : Watches \cup {NoWatch},
            confirmations : Int, class : Classes]

\* The shape of every table and of the loop's memory; an observation carries
\* the verdict "reorged" exactly while it is detached.
TypeOK ==
  /\ node \in Blocks
  /\ rows \in [Blocks -> {"absent", "live", "detached"}]
  /\ nextHeight \in Int /\ height \in Int /\ tipSeen \in Int
  /\ pc \in {"sleep", "fetch", "scan", "detach", "stopped", "down"}
  /\ block \in Blocks \cup {NoBlock}
  /\ pc \in {"scan", "detach"} => block \in Blocks
  /\ outputs \in Seq(Outpoints) /\ inputs \in Seq(SpendItems)
  /\ watches \in [Watches -> {"unregistered", "active", "closed"}]
  /\ obs \in [Outpoints -> ObsRows]
  /\ \A o \in Outpoints :
       /\ obs[o].status = "detached" <=> obs[o].class = "reorged"
       /\ obs[o].status # "absent" => obs[o].block \in Blocks /\ obs[o].watch \in Watches
  /\ \A s \in spends : s.outpoint \in Outpoints /\ s.block \in Blocks
  /\ faults \in 0..MaxFaults
  /\ cut \subseteq Blocks

\* The canonical rows are one hash-linked chain that ends right below
\* next_height, through every fork, crash and failed poll: next_height is never
\* ahead of what is indexed, and no height has two canonical blocks.
CanonicalChain ==
  /\ \A b \in LiveBlocks : StartHeight <= HeightOf[b] /\ HeightOf[b] < nextHeight
  /\ \A h \in StartHeight..(nextHeight - 1) : \E b \in LiveBlocks : HeightOf[b] = h
  /\ \A b, c \in LiveBlocks : HeightOf[b] = HeightOf[c] => b = c
  /\ \A b, c \in LiveBlocks : HeightOf[c] = HeightOf[b] + 1 => PrevOf[c] = b

\* A restart at any moment resumes exactly where the persisted chain ends: at
\* the fork point when it falls after a detach, and never inside indexed blocks.
ResumesAtChainEnd == LoadNextHeight = nextHeight

InSync == pc = "sleep" /\ height > HeightOf[node]

\* When the loop has nothing left to fetch, the canonical rows are the chain the
\* node follows, whatever forks it went through on the way.
InSyncMeansSameChain ==
  InSync => LiveBlocks = {b \in ChainOf[node] : HeightOf[b] >= StartHeight}

\* The rows a proof is built from lie on canonical blocks: an observation that
\* is not detached names a canonical block, unless the step that would have
\* detached it was cut short by a fault.
ObservationsOnCanonicalBlocks ==
  \A o \in Outpoints :
    LiveObs(o) /\ obs[o].block \notin cut =>
      \/ rows[obs[o].block] = "live"
      \/ pc = "detach" /\ block = obs[o].block

WatchedThroughout(o) ==
  \E w \in Pays[o] : w \in EarlyWatches /\ watches[w] = "active"

\* No funding output of a canonical block is missed, after any replay, when its
\* watch was registered before the first poll and the block's scan was not cut.
FundingObserved ==
  \A b \in LiveBlocks : b \notin cut /\ ~(pc = "scan" /\ block = b) =>
    \A i \in 1..Len(OutputsIn[b]) :
      WatchedThroughout(OutputsIn[b][i]) => LiveObs(OutputsIn[b][i])

\* In sync, the confirmation count of an unspent observation is the depth of its
\* block in the node's chain, and "confirmed" says that depth is sufficient: a
\* fork that shortens the chain above a funding takes its confirmation back.
ConfirmationsAreDepth ==
  InSync /\ node \notin cut /\ rows[node] = "live" =>
    \A o \in Outpoints :
      obs[o].status \in Unspent /\ obs[o].block \notin cut =>
        LET depth == HeightOf[node] - HeightOf[obs[o].block] + 1
        IN  /\ obs[o].confirmations = depth
            /\ obs[o].status = "confirmed" <=> depth >= Required[obs[o].watch]

\* A watch has at most one live observation that is not marked "duplicate": two
\* outputs never both count as the funding of a trade, in whatever order forks
\* detach and replay them.
OnePrincipalFunding ==
  \A o, p \in Outpoints :
    /\ LiveObs(o) /\ LiveObs(p)
    /\ obs[o].watch = obs[p].watch
    /\ obs[o].class # "duplicate" /\ obs[p].class # "duplicate"
    => o = p

\* Once the node settles on a chain and faults stop, the canonical rows become
\* that chain and stay it: unwinding one block per poll ends.
CatchesUp ==
  <>[](LiveBlocks = {b \in ChainOf[node] : HeightOf[b] >= StartHeight})

\* Every step of the indexer is a step of the abstract chain follower or leaves
\* the canonical blocks alone: readers of pearl_blocks see one branch that grows
\* and shrinks at its tip.
Follower == INSTANCE ChainFollower WITH path <- LiveBlocks
FollowsOneBranch == Follower!Spec
=============================================================================
