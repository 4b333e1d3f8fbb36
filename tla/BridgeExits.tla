----------------------------- MODULE BridgeExits -----------------------------
(***************************************************************************)
(* Exits of the Pearl bridge from the burn on Igra to the release on Pearl *)
(* (services/bridge-service/src: igra-poller.ts, igra-events.ts,           *)
(* postgres-exits.ts, reserve-spend-matcher.ts, reserve-spend-applier.ts,  *)
(* reconciliation.ts and relayer-policy.ts).                               *)
(*                                                                         *)
(* Pollers mirror the bridge's log into bridge_exit_requests, the applier  *)
(* marks the exits released whose reserve spend was indexed, and releases  *)
(* are prepared from the mirrored rows and a reconciliation of the         *)
(* reserve.  Each database statement is a step; rows and checkpoint        *)
(* survive a crash.  The operators are external: they pay an exit only     *)
(* once its release was approved, and give it back only if it was not.     *)
(* The quorum of relayers and the deposits are in BridgeRelayer.           *)
(***************************************************************************)
EXTENDS Integers, Sequences, FiniteSetsExt

CONSTANTS
  Exits,          \* exit ids
  Pollers,        \* poll loops, of one or several processes
  Configs,        \* [exits, terms, loops, claims]: the exits there are and what they ask for, the
                  \* poll loops and the applier that run, and a bound on the claims of deposits
  MaxBlockRange,
  MaxExitGrains,
  InitialReserve, \* grains in the one reserve output
  InitialSupply,  \* wPRL in circulation
  ClaimAmount,    \* of a deposit claim
  PilotCap,
  MaxFaults       \* bound on crashes and failed calls

Applier == "applier"

ASSUME ExitsAssumption ==
  /\ IsFiniteSet(Exits)
  /\ \A c \in Configs :
       /\ c.exits \subseteq Exits /\ \A e \in Exits : c.terms[e].amount \in Nat \ {0}
       /\ c.loops \subseteq Pollers \cup {Applier} /\ c.claims \in Nat
  /\ Applier \notin Pollers
  /\ MaxBlockRange \in Nat \ {0} /\ MaxExitGrains \in Nat
  /\ InitialReserve \in Nat /\ InitialSupply \in Nat
  /\ ClaimAmount \in Nat /\ PilotCap \in Nat /\ MaxFaults \in Nat

VARIABLES
  config,
  log,        \* events of PearlBridge, one a block
  approved,   \* exits with a prepared and manually approved release
  releases,   \* Pearl transactions that spend the reserve, by the exit they pay; the index is the txid
  indexed,    \* how many of them the Pearl indexer has recorded
  rows,       \* bridge_exit_requests
  events,     \* Igra events saved, by their block
  checkpoint, \* the next block of indexer_state
  poll,       \* pollOnce calls
  apply,      \* the call of applyReserveSpendMatchesToExits
  faults

chainVars == <<config, log, releases, indexed>>
vars == <<chainVars, approved, rows, events, checkpoint, poll, apply, faults>>

terms == config.terms      \* requestedAmountGrains and pearlRecipient
NoTxid == 0
NoRow == [status |-> "absent", txid |-> NoTxid]
NoExit == "none"
Idle == [pc |-> "idle"]

-----------------------------------------------------------------------------
(* PearlBridge on Igra, and the reserve on Pearl *)

Logged(type, e) == \E i \in DOMAIN log : log[i].type = type /\ log[i].exit = e
Requested(e) == Logged("exit_requested", e)
Settled(e) == Logged("exit_processed", e) \/ Logged("exit_refunded", e)

SumAmounts(S) == MapThenSumSet(LAMBDA e : terms[e].amount, S)

Claims == Cardinality({i \in DOMAIN log : log[i].type = "deposit_claimed"})
Supply ==
  InitialSupply + Claims * ClaimAmount
    - SumAmounts({e \in Exits : Requested(e) /\ ~Logged("exit_refunded", e)})
Owed == SumAmounts({e \in Exits : Requested(e) /\ ~Settled(e)})

Emit(type, e, txid) == log' = Append(log, [type |-> type, exit |-> e, txid |-> txid])

RequestExit(e) ==
  /\ e \in config.exits /\ ~Requested(e) /\ terms[e].amount <= Supply
  /\ Emit("exit_requested", e, NoTxid)
  /\ UNCHANGED <<config, releases, indexed, approved, rows, events, checkpoint, poll, apply, faults>>

ClaimDeposit ==
  /\ Claims < config.claims /\ Supply + Owed + ClaimAmount <= PilotCap
  /\ Emit("deposit_claimed", NoExit, NoTxid)
  /\ UNCHANGED <<config, releases, indexed, approved, rows, events, checkpoint, poll, apply, faults>>

\* The reserve sits in one output: each release spends it and pays the change back.
Paid(n) == FoldFunctionOnSet(+, 0, [i \in DOMAIN releases |-> terms[releases[i]].amount], 1..n)
Held(n) == InitialReserve - Paid(n)

Pays(t, e) == t \in DOMAIN releases /\ releases[t] = e

Release(e) ==
  /\ e \in approved /\ ~\E t \in DOMAIN releases : Pays(t, e)
  /\ Requested(e) /\ ~Settled(e)
  /\ terms[e].amount <= Held(Len(releases))
  /\ releases' = Append(releases, e)
  /\ UNCHANGED <<config, log, indexed, approved, rows, events, checkpoint, poll, apply, faults>>

IndexRelease ==
  /\ indexed < Len(releases)
  /\ indexed' = indexed + 1
  /\ UNCHANGED <<config, log, releases, approved, rows, events, checkpoint, poll, apply, faults>>

ProcessExit(e, t) ==
  /\ Pays(t, e) /\ Requested(e) /\ ~Settled(e)
  /\ Emit("exit_processed", e, t)
  /\ UNCHANGED <<config, releases, indexed, approved, rows, events, checkpoint, poll, apply, faults>>

RefundExit(e) ==
  /\ e \notin approved /\ Requested(e) /\ ~Settled(e)
  /\ Emit("exit_refunded", e, NoTxid)
  /\ UNCHANGED <<config, releases, indexed, approved, rows, events, checkpoint, poll, apply, faults>>

-----------------------------------------------------------------------------
(* bridge_exit_requests *)

\* The upsert keeps a final status, does not take a processed exit back to pending,
\* and never replaces a release txid.
Merged(old, new) ==
  [status |-> IF \/ old.status \in {"released", "refunded", "cancelled"}
                 \/ old.status = "processed" /\ new.status = "pending"
              THEN old.status ELSE new.status,
   txid |-> IF old.txid # NoTxid THEN old.txid ELSE new.txid]

\* "Pearl release txid already belongs to exit ...", checked by the call and by a
\* unique index.
Conflict(e, txid) == txid # NoTxid /\ \E f \in Exits \ {e} : rows[f].txid = txid

Upsert(e, new) == rows' = [rows EXCEPT ![e] = Merged(@, new)]

-----------------------------------------------------------------------------
(* IgraBridgeEventPoller.pollOnce *)

Poll(p) ==
  /\ p \in config.loops /\ poll[p] = Idle /\ checkpoint <= Len(log)
  /\ poll' = [poll EXCEPT ![p] =
       [pc |-> "save", at |-> checkpoint,
        to |-> Min({Len(log), checkpoint + MaxBlockRange - 1})]]
  /\ UNCHANGED <<chainVars, approved, rows, events, checkpoint, apply, faults>>

NextEvent(p) == [pc |-> "save", at |-> poll[p].at + 1, to |-> poll[p].to]

SaveIgraEvent_SkipsKnown(p) ==
  /\ poll[p].pc = "save" /\ poll[p].at <= poll[p].to
  /\ events' = events \cup {poll[p].at}
  /\ poll' = [poll EXCEPT ![p] = IF poll[p].at \in events THEN NextEvent(p) ELSE [@ EXCEPT !.pc = "apply"]]
  /\ UNCHANGED <<chainVars, approved, rows, checkpoint, apply, faults>>

\* saveIgraEvent is idempotent, and an event that was saved before is applied again.
SaveIgraEvent(p) ==
  /\ poll[p].pc = "save" /\ poll[p].at <= poll[p].to
  /\ events' = events \cup {poll[p].at}
  /\ poll' = [poll EXCEPT ![p] = [@ EXCEPT !.pc = "apply"]]
  /\ UNCHANGED <<chainVars, approved, rows, checkpoint, apply, faults>>

\* applyIgraBridgeEventToExitRepository: a request is upserted at once, the other
\* events of an exit are applied to the row that is read first.
ApplyRequest(p) ==
  LET event == log[poll[p].at]
  IN  /\ poll[p].pc = "apply" /\ event.type \in {"exit_requested", "deposit_claimed"}
      /\ IF event.type = "exit_requested"
         THEN Upsert(event.exit, [status |-> "pending", txid |-> NoTxid])
         ELSE UNCHANGED rows
      /\ poll' = [poll EXCEPT ![p] = NextEvent(p)]
      /\ UNCHANGED <<chainVars, approved, events, checkpoint, apply, faults>>

FindExit(p) ==
  LET event == log[poll[p].at]
  IN  /\ poll[p].pc = "apply" /\ event.type \in {"exit_processed", "exit_refunded"}
      /\ poll' = [poll EXCEPT ![p] =
           IF rows[event.exit] = NoRow THEN NextEvent(p)
           ELSE [pc |-> "write", at |-> poll[p].at, to |-> poll[p].to, row |-> rows[event.exit]]]
      /\ UNCHANGED <<chainVars, approved, rows, events, checkpoint, apply, faults>>

\* applyExitLifecycleEvent
Updated(row, event) ==
  IF event.type = "exit_processed" THEN [status |-> "processed", txid |-> event.txid]
                                   ELSE [row EXCEPT !.status = "refunded"]

WriteExit(p) ==
  LET event == log[poll[p].at]
      new == Updated(poll[p].row, event)
  IN  /\ poll[p].pc = "write"
      /\ IF Conflict(event.exit, new.txid)
         THEN poll' = [poll EXCEPT ![p] = Idle] /\ UNCHANGED rows
         ELSE poll' = [poll EXCEPT ![p] = NextEvent(p)] /\ Upsert(event.exit, new)
      /\ UNCHANGED <<chainVars, approved, events, checkpoint, apply, faults>>

SaveNextBlock(p) ==
  /\ poll[p].pc = "save" /\ poll[p].at > poll[p].to
  /\ checkpoint' = Max({checkpoint, poll[p].to + 1})
  /\ poll' = [poll EXCEPT ![p] = Idle]
  /\ UNCHANGED <<chainVars, approved, rows, events, apply, faults>>

PollFails(p) ==
  /\ poll[p] # Idle /\ faults < MaxFaults
  /\ faults' = faults + 1
  /\ poll' = [poll EXCEPT ![p] = Idle]
  /\ UNCHANGED <<chainVars, approved, rows, events, checkpoint, apply>>

-----------------------------------------------------------------------------
(* applyReserveSpendMatchesToExits *)

Candidates_NotProcessed(list, t) ==
  {e \in Exits : list[e].status \in {"pending", "released"} /\ terms[e] = terms[releases[t]]}
Candidates(list, t) ==
  {e \in Exits : /\ list[e].status \in {"pending", "processed", "released"}
                 /\ terms[e] = terms[releases[t]]}

Used(list, t) == \E e \in Exits : list[e].txid = t

Matchable_AnyOfSeveral(list, t, e) ==
  /\ e \in Candidates(list, t)
  /\ list[e].status = "processed" => list[e].txid \in {NoTxid, t}
  /\ list[e].status = "released" => list[e].txid = t
  /\ Used(list, t) => list[e].txid = t

\* matchReserveSpendToExit: one candidate with the spend's amount and recipient, whose
\* txid, if it has one, is the spend's, and a spend no other exit has.
Matchable(list, t, e) ==
  /\ Candidates(list, t) = {e}
  /\ list[e].status = "processed" => list[e].txid \in {NoTxid, t}
  /\ list[e].status = "released" => list[e].txid = t
  /\ Used(list, t) => list[e].txid = t

BeginApply ==
  /\ Applier \in config.loops /\ apply = Idle /\ indexed > 0
  /\ apply' = [pc |-> "match", list |-> rows, at |-> 1, to |-> indexed]
  /\ UNCHANGED <<chainVars, approved, rows, events, checkpoint, poll, faults>>

NextSpend == [apply EXCEPT !.at = @ + 1]

MatchSpend ==
  /\ apply.pc = "match" /\ apply.at <= apply.to
  /\ IF \E e \in Exits : Matchable(apply.list, apply.at, e)
     THEN \E e \in Exits :
       /\ Matchable(apply.list, apply.at, e)
       /\ apply' = IF rows[e] = [status |-> "released", txid |-> apply.at] THEN NextSpend
                   ELSE [pc |-> "write", list |-> apply.list, at |-> apply.at, to |-> apply.to, exit |-> e]
     ELSE apply' = NextSpend
  /\ UNCHANGED <<chainVars, approved, rows, events, checkpoint, poll, faults>>

WriteReleased ==
  LET e == apply.exit
      new == [status |-> "released", txid |-> apply.at]
  IN  /\ apply.pc = "write"
      /\ IF Conflict(e, apply.at)
         THEN apply' = Idle /\ UNCHANGED rows
         ELSE /\ Upsert(e, new)
              /\ apply' = [pc |-> "match", list |-> [apply.list EXCEPT ![e] = Merged(rows[e], new)],
                           at |-> apply.at + 1, to |-> apply.to]
      /\ UNCHANGED <<chainVars, approved, events, checkpoint, poll, faults>>

EndApply ==
  /\ apply.pc = "match" /\ apply.at > apply.to
  /\ apply' = Idle
  /\ UNCHANGED <<chainVars, approved, rows, events, checkpoint, poll, faults>>

ApplyFails ==
  /\ apply # Idle /\ faults < MaxFaults
  /\ faults' = faults + 1
  /\ apply' = Idle
  /\ UNCHANGED <<chainVars, approved, rows, events, checkpoint, poll>>

-----------------------------------------------------------------------------
(* createBridgeReconciliationSnapshot and decideExitRelease *)

\* An output that was spent stays in the confirmed reserve; its spend is subtracted.
ConfirmedReserve == FoldFunctionOnSet(+, 0, [n \in 0..indexed |-> Held(n)], 0..indexed)

Known(t) == \E e \in Exits : Matchable(rows, t, e)
KnownSpends ==
  MapThenSumSet(LAMBDA t : terms[releases[t]].amount, {t \in 1..indexed : Known(t)})

PendingExits == {e \in Exits : rows[e].status \in {"pending", "processed"}}

ReserveAvailable == ConfirmedReserve - KnownSpends - SumAmounts(PendingExits)
ReserveDeficit == ReserveAvailable < Supply
Blocked == ReserveDeficit \/ \E t \in 1..indexed : ~Known(t)

ReleasePrepared_FromIgra(e) == Requested(e) /\ ~Settled(e)

\* decideExitRelease returns prepare_exit_release: its conditions on row, reserve and
\* limits; the operator's approval is given.
ReleasePrepared(e) ==
  /\ rows[e].status = "pending" /\ ~Blocked
  /\ terms[e].amount <= MaxExitGrains
  /\ terms[e].amount <= ReserveAvailable

Approve(e) ==
  /\ e \notin approved /\ ReleasePrepared(e)
  /\ approved' = approved \cup {e}
  /\ UNCHANGED <<chainVars, rows, events, checkpoint, poll, apply, faults>>

-----------------------------------------------------------------------------
Init ==
  /\ config \in Configs
  /\ log = <<>> /\ releases = <<>> /\ indexed = 0 /\ approved = {}
  /\ rows = [e \in Exits |-> NoRow] /\ events = {} /\ checkpoint = 1
  /\ poll = [p \in Pollers |-> Idle] /\ apply = Idle /\ faults = 0

PollStep(p) ==
  \/ Poll(p) \/ SaveIgraEvent(p) \/ ApplyRequest(p) \/ FindExit(p)
  \/ WriteExit(p) \/ SaveNextBlock(p)

ApplyStep == BeginApply \/ MatchSpend \/ WriteReleased \/ EndApply

ExitStep ==
  \/ \E e \in Exits : RequestExit(e) \/ RefundExit(e) \/ Release(e)
  \/ \E e \in Exits : \E t \in DOMAIN releases : ProcessExit(e, t)
  \/ IndexRelease
  \/ \E p \in Pollers : PollStep(p) \/ PollFails(p)
  \/ ApplyStep \/ ApplyFails

Next == ExitStep \/ ClaimDeposit \/ \E e \in Exits : Approve(e)

\* The loops of an operation that goes on; nothing is assumed of users and operators.
Fairness ==
  /\ \A p \in Pollers : WF_vars(PollStep(p))
  /\ WF_vars(IndexRelease) /\ WF_vars(ApplyStep)

Spec == Init /\ [][Next]_vars /\ Fairness

-----------------------------------------------------------------------------
(* Properties *)

Statuses == {"absent", "pending", "processed", "released", "refunded"}

\* Every variable keeps its shape; a row has a release txid exactly while it is
\* processed or released, and no poller works above the log.
TypeOK ==
  /\ config \in Configs
  /\ \A i \in DOMAIN log : log[i].exit \in Exits \cup {NoExit} /\ log[i].txid \in 0..Len(releases)
  /\ approved \subseteq Exits /\ releases \in Seq(Exits) /\ indexed \in 0..Len(releases)
  /\ \A e \in Exits :
       /\ rows[e].status \in Statuses /\ rows[e].txid \in 0..Len(releases)
       /\ (rows[e].txid # NoTxid) <=> rows[e].status \in {"processed", "released"}
  /\ events \subseteq DOMAIN log /\ checkpoint \in 1..(Len(log) + 1)
  /\ \A p \in Pollers : poll[p] # Idle =>
       poll[p].pc \in {"save", "apply", "write"} /\ poll[p].at <= poll[p].to + 1 /\ poll[p].to <= Len(log)
  /\ apply # Idle => apply.pc \in {"match", "write"} /\ apply.to <= indexed
  /\ faults \in 0..MaxFaults

\* Whatever pollers, applier, replays and crashes do between their reads and writes, a
\* row never says more than the chains: refunded only after the refund, processed only
\* after ExitProcessed, released only once the indexer has a Pearl transaction that pays
\* this very exit, also when another exit asks for the same amount and recipient.  An
\* exit in between, processed or not, stays in the pending liabilities.
RowsAgreeWithChains ==
  \A e \in Exits :
    /\ rows[e] # NoRow => Requested(e)
    /\ rows[e].status = "refunded" => Logged("exit_refunded", e)
    /\ rows[e].status = "processed" => Logged("exit_processed", e)
    /\ rows[e].txid # NoTxid => Pays(rows[e].txid, e)
    /\ rows[e].status = "released" => rows[e].txid \in 1..indexed

\* No event below the checkpoint is missing in the rows, although a range is replayed
\* after a crash, pollers overlap, and an event may have been saved and not applied.
Reflected(event) ==
  /\ event.type = "exit_requested" => rows[event.exit] # NoRow
  /\ event.type = "exit_processed" =>
       rows[event.exit].status \in {"processed", "released"} /\ rows[event.exit].txid = event.txid
  /\ event.type = "exit_refunded" => rows[event.exit].status = "refunded"
NothingSkipped == \A i \in 1..(checkpoint - 1) : Reflected(log[i])

\* The mirror always catches up with the log, which is finite here: no conflict of
\* release txids, failed call or overlap of pollers stops the checkpoint for good.
MirrorCatchesUp == []<>(checkpoint > Len(log))

\* Every exit whose release was indexed ends as released, unless another exit has the
\* same amount and recipient, in spite of a run that failed or read its row too early.
Unambiguous(e) == \A f \in Exits \ {e} : terms[f] # terms[e]
PaidIsReleased ==
  []<>(\A e \in Exits :
         (Applier \in config.loops /\ Unambiguous(e) /\ \E t \in 1..indexed : Pays(t, e))
           => rows[e].status = "released")

\* A statement of the documentation that the code does not keep: "Exit releases never
\* prepare while reconciliation has reserve deficits", here in states in which mirror,
\* indexer and rows are up to date.  The reserve is in deficit if it holds less than the
\* circulating supply and the exits that Pearl has still to pay: one that Pearl has paid
\* is owed nothing, whether Igra has its ExitProcessed or not.
UpToDate ==
  /\ checkpoint > Len(log) /\ indexed = Len(releases)
  /\ \A t \in DOMAIN releases : rows[releases[t]].status = "released"
Unpaid ==
  SumAmounts({e \in Exits : Requested(e) /\ ~Settled(e) /\ ~\E t \in DOMAIN releases : Pays(t, e)})
Deficit == Held(Len(releases)) < Supply + Unpaid
NoReleaseInDeficit == \A e \in Exits : ~(UpToDate /\ Deficit /\ e \notin approved /\ ReleasePrepared(e))
=============================================================================
