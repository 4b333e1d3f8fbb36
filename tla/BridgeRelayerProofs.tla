------------------------- MODULE BridgeRelayerProofs -------------------------
(***************************************************************************)
(* Proofs about BridgeExits and BridgeRelayer, for any number of exits,    *)
(* pollers, relayers, releases and faults: the mirrored rows never say     *)
(* more than the chains, no event below the checkpoint is skipped, and     *)
(* nothing is prepared without the word of a correct relayer.              *)
(***************************************************************************)
EXTENDS BridgeRelayer, FiniteSetTheorems, TLAPS

ExitEvents == {"exit_requested", "exit_processed", "exit_refunded"}
Events == [type : ExitEvents \cup {"deposit_claimed"}, exit : Exits \cup {NoExit}, txid : Nat]
Rows == [status : Statuses, txid : Nat]

\* What the log says of an exit: it was requested before it was settled, and settled
\* in one way.
LogOK ==
  /\ log \in Seq(Events)
  /\ \A i \in 1..Len(log) : log[i].type \in ExitEvents => log[i].exit \in Exits
  /\ \A i \in 1..Len(log) : log[i].type = "exit_processed" => Pays(log[i].txid, log[i].exit)
  /\ \A i \in 1..Len(log) : log[i].type # "exit_processed" => log[i].txid = NoTxid
  /\ \A i \in 1..Len(log) : log[i].type \in {"exit_processed", "exit_refunded"} =>
       \E j \in 1..(i - 1) : log[j].type = "exit_requested" /\ log[j].exit = log[i].exit
  /\ \A i, j \in 1..Len(log) :
       log[i].type = "exit_processed" /\ log[j].type = "exit_refunded" => log[i].exit # log[j].exit

\* Each release pays another exit, which was approved and is not given back.
ReleasesOK ==
  /\ releases \in Seq(Exits) /\ indexed \in 0..Len(releases) /\ approved \subseteq Exits
  /\ \A t, u \in 1..Len(releases) : releases[t] = releases[u] => t = u
  /\ \A t \in 1..Len(releases) :
       releases[t] \in approved /\ ~Logged("exit_refunded", releases[t])
  /\ \A e \in approved : rows[e] # NoRow

RowsOK ==
  /\ rows \in [Exits -> Rows]
  /\ \A e \in Exits : rows[e].txid # NoTxid <=> rows[e].status \in {"processed", "released"}
  /\ RowsAgreeWithChains

\* A poller is within the log; a row it holds has no release txid but its exit's own.
PollerOK(r) ==
  /\ r \in {Idle} \cup [pc : {"save", "apply"}, at : Nat, to : Nat]
               \cup [pc : {"write"}, at : Nat, to : Nat, row : Rows]
  /\ r # Idle => r.at >= 1 /\ r.at <= r.to + 1 /\ r.to <= Len(log)
  /\ r.pc \in {"apply", "write"} => r.at <= r.to
  /\ r.pc = "write" =>
       /\ log[r.at].type \in {"exit_processed", "exit_refunded"}
       /\ r.row.txid # NoTxid => Pays(r.row.txid, log[r.at].exit)
PollOK == poll = [p \in Pollers |-> poll[p]] /\ \A p \in Pollers : PollerOK(poll[p])

\* In the list the applier works from, an exit that was paid is still a candidate.
ApplyOK ==
  /\ apply \in {Idle} \cup [pc : {"match"}, list : [Exits -> Rows], at : Nat, to : Nat]
                     \cup [pc : {"write"}, list : [Exits -> Rows], at : Nat, to : Nat, exit : Exits]
  /\ apply # Idle =>
       /\ apply.at >= 1 /\ apply.to <= indexed
       /\ \A t \in 1..apply.to :
            apply.list[releases[t]].status \in {"pending", "processed", "released"}
  /\ apply.pc = "write" => apply.at <= apply.to /\ releases[apply.at] = apply.exit

\* Nothing is missing below the checkpoint or below a poller.
NoneBelow(r) == r # Idle => \A i \in 1..(r.at - 1) : Reflected(log[i])
SkipOK == NothingSkipped /\ \A p \in Pollers : NoneBelow(poll[p])

Counters ==
  /\ config \in Configs /\ faults \in 0..MaxFaults
  /\ events \subseteq 1..Len(log) /\ checkpoint \in 1..(Len(log) + 1)

IInv == Counters /\ LogOK /\ ReleasesOK /\ RowsOK /\ PollOK /\ ApplyOK /\ SkipOK

-----------------------------------------------------------------------------
(* The log *)

\* An event is logged exactly if it is in the log or was just appended.
LEMMA AppendLog ==
  ASSUME log \in Seq(Events), NEW ev \in Events, log' = Append(log, ev)
  PROVE  /\ log' \in Seq(Events) /\ Len(log') = Len(log) + 1
         /\ \A i \in 1..Len(log) : log'[i] = log[i]
         /\ log'[Len(log) + 1] = ev
         /\ \A type, e : Logged(type, e)' <=> Logged(type, e) \/ (ev.type = type /\ ev.exit = e)
<1>1. log' \in Seq(Events) /\ Len(log') = Len(log) + 1
  OBVIOUS
<1>2. (\A i \in 1..Len(log) : log'[i] = log[i]) /\ log'[Len(log) + 1] = ev
  OBVIOUS
<1>3. DOMAIN log = 1..Len(log) /\ DOMAIN log' = 1..(Len(log) + 1) /\ Len(log) \in Nat
  BY <1>1
<1>4. ASSUME NEW type, NEW e
      PROVE  Logged(type, e)' <=> Logged(type, e) \/ (ev.type = type /\ ev.exit = e)
  BY <1>2, <1>3 DEF Logged
<1> QED BY <1>1, <1>2, <1>4

\* Logged, over the positions of the log.
LEMMA LoggedAt ==
  ASSUME log \in Seq(Events), NEW type, NEW e
  PROVE  Logged(type, e) <=> \E i \in 1..Len(log) : log[i].type = type /\ log[i].exit = e
BY DEF Logged

\* Pays, over the positions of the releases.
LEMMA PaysAt ==
  ASSUME releases \in Seq(Exits), NEW t, NEW e
  PROVE  Pays(t, e) <=> t \in 1..Len(releases) /\ releases[t] = e
BY DEF Pays

\* An exit is settled in one way.
LEMMA SettledOneWay ==
  ASSUME LogOK, NEW e
  PROVE  ~(Logged("exit_processed", e) /\ Logged("exit_refunded", e))
<1>1. SUFFICES ASSUME Logged("exit_processed", e), Logged("exit_refunded", e)
               PROVE  FALSE
  OBVIOUS
<1>2. PICK i \in 1..Len(log) : log[i].type = "exit_processed" /\ log[i].exit = e
  BY <1>1, LoggedAt DEF LogOK
<1>3. PICK j \in 1..Len(log) : log[j].type = "exit_refunded" /\ log[j].exit = e
  BY <1>1, LoggedAt DEF LogOK
<1> QED BY <1>2, <1>3 DEF LogOK

\* Two payments of an exit are one, and a paid exit is not given back.
LEMMA PaidOnce ==
  ASSUME ReleasesOK, NEW t, NEW e, Pays(t, e)
  PROVE  /\ t \in Nat \ {0} /\ t \in 1..Len(releases) /\ releases[t] = e
         /\ e \in approved /\ ~Logged("exit_refunded", e)
         /\ \A u : Pays(u, e) => u = t
<1>1. t \in 1..Len(releases) /\ releases[t] = e
  BY PaysAt DEF ReleasesOK
<1>2. ASSUME NEW u, Pays(u, e) PROVE u = t
  BY <1>1, <1>2, PaysAt DEF ReleasesOK
<1> QED BY <1>1, <1>2 DEF ReleasesOK

-----------------------------------------------------------------------------
(* The upsert *)

\* A row that may be written: it claims for its exit what the chains show.
Fits(e, new) ==
  /\ new \in Rows /\ new.status # "absent" /\ Requested(e)
  /\ new.status = "pending" => new.txid = NoTxid
  /\ new.status = "processed" => Logged("exit_processed", e) /\ Pays(new.txid, e)
  /\ new.status = "refunded" => Logged("exit_refunded", e) /\ new.txid = NoTxid
  /\ new.status = "released" => Pays(new.txid, e) /\ new.txid \in 1..indexed

\* What the row of an exit may be.
RowOK(e, row) ==
  /\ row \in Rows
  /\ row.txid # NoTxid <=> row.status \in {"processed", "released"}
  /\ row # NoRow => Requested(e)
  /\ row.status = "refunded" => Logged("exit_refunded", e)
  /\ row.status = "processed" => Logged("exit_processed", e)
  /\ row.txid # NoTxid => Pays(row.txid, e)
  /\ row.status = "released" => row.txid \in 1..indexed

\* RowsOK, row by row.
LEMMA RowsAre == RowsOK <=> rows \in [Exits -> Rows] /\ \A e \in Exits : RowOK(e, rows[e])
BY DEF RowsOK, RowOK, RowsAgreeWithChains

\* Merging a fitting row keeps a row well formed, and never loses what it said.
LEMMA MergedOK ==
  ASSUME LogOK, ReleasesOK, NEW e \in Exits, NEW old, RowOK(e, old), NEW new, Fits(e, new)
  PROVE  /\ RowOK(e, Merged(old, new)) /\ Merged(old, new) # NoRow
         /\ old.txid # NoTxid => Merged(old, new).txid = old.txid
         /\ old.status \in {"processed", "released"} =>
              Merged(old, new).status \in {"processed", "released"}
         /\ old.status = "refunded" => Merged(old, new).status = "refunded"
         /\ new.status \in {"processed", "released"} =>
              /\ Merged(old, new).status \in {"processed", "released"}
              /\ Merged(old, new).txid = new.txid
         /\ new.status = "released" => Merged(old, new).status = "released"
         /\ new.status = "refunded" => Merged(old, new).status = "refunded"
<1>1. ~(Logged("exit_processed", e) /\ Logged("exit_refunded", e))
  BY SettledOneWay
<1>2. \A t : Pays(t, e) => t # 0 /\ ~Logged("exit_refunded", e) /\ \A u : Pays(u, e) => u = t
  BY PaidOnce
<1>3. old \in [status : Statuses, txid : Nat] /\ new \in [status : Statuses, txid : Nat]
  BY DEF RowOK, Fits, Rows
<1>4. new.status \in {"processed", "released"} => old.status \in {"processed", "released", "pending", "absent"}
  BY <1>1, <1>2, <1>3 DEF RowOK, Fits, Statuses
<1>5. old.txid # NoTxid /\ new.txid # NoTxid => old.txid = new.txid
  BY <1>2, <1>3 DEF RowOK, Fits, Statuses, NoTxid
<1>6. new.status = "refunded" => old.status \in {"pending", "absent", "refunded"}
  BY <1>1, <1>2, <1>3 DEF RowOK, Fits, Statuses, NoTxid
<1>7. new.status \in {"processed", "released"} => new.txid # NoTxid
  BY <1>2 DEF Fits, NoTxid
<1>8. Merged(old, new) \in [status : Statuses, txid : Nat]
  BY <1>3 DEF Merged
<1>9. Merged(old, new).status # "absent"
  BY <1>3 DEF Merged, Fits
<1> QED
  BY <1>2, <1>3, <1>4, <1>5, <1>6, <1>7, <1>8, <1>9 DEF Merged, RowOK, Fits, Rows, Statuses, NoTxid, NoRow
\* An upsert of a fitting row keeps the rows true and undoes nothing they reflect.
LEMMA UpsertKeeps ==
  ASSUME LogOK, ReleasesOK, RowsOK, NEW e \in Exits, NEW new, Fits(e, new), Upsert(e, new),
         UNCHANGED <<log, releases, indexed, approved>>
  PROVE  /\ RowsOK' /\ LogOK' /\ ReleasesOK'
         /\ \A i \in 1..Len(log) : Reflected(log[i]) => Reflected(log[i])'
         /\ rows'[e] = Merged(rows[e], new)
<1>1. rows \in [Exits -> Rows] /\ \A x \in Exits : RowOK(x, rows[x])
  BY RowsAre
<1>2. /\ RowOK(e, Merged(rows[e], new)) /\ Merged(rows[e], new) # NoRow
      /\ rows[e].txid # NoTxid => Merged(rows[e], new).txid = rows[e].txid
      /\ rows[e].status \in {"processed", "released"} =>
           Merged(rows[e], new).status \in {"processed", "released"}
      /\ rows[e].status = "refunded" => Merged(rows[e], new).status = "refunded"
  BY <1>1, MergedOK
<1>3. rows' = [rows EXCEPT ![e] = Merged(rows[e], new)]
  BY DEF Upsert
<1>4. rows'[e] = Merged(rows[e], new) /\ \A x \in Exits \ {e} : rows'[x] = rows[x]
  BY <1>1, <1>3
<1>5. ASSUME NEW x, NEW row PROVE RowOK(x, row)' <=> RowOK(x, row)
  BY DEF RowOK, Requested, Logged, Pays
<1>6. rows' \in [Exits -> Rows] /\ \A x \in Exits : RowOK(x, rows[x])'
  <2>1. Merged(rows[e], new) \in Rows
    BY <1>2 DEF RowOK
  <2>2. rows' \in [Exits -> Rows]
    BY <1>1, <1>3, <2>1
  <2>3. \A x \in Exits : RowOK(x, rows'[x])
    BY <1>1, <1>2, <1>4
  <2>4. ASSUME NEW x \in Exits PROVE RowOK(x, rows[x])'
    BY <2>3 DEF RowOK, Requested, Logged, Pays
  <2> QED BY <2>2, <2>4
<1>7. RowsOK'
  BY <1>6 DEF RowsOK, RowOK, RowsAgreeWithChains
<1>8. LogOK'
  BY DEF LogOK, Pays
<1>9. ReleasesOK'
  BY <1>2, <1>4 DEF ReleasesOK, Logged
<1>10. ASSUME NEW i \in 1..Len(log), Reflected(log[i]) PROVE Reflected(log[i])'
  <2>1. log'[i] = log[i] /\ (log[i].type \in ExitEvents => log[i].exit \in Exits)
    BY DEF LogOK
  <2>2. CASE log[i].exit # e
    BY <1>4, <1>10, <2>1, <2>2 DEF Reflected, ExitEvents
  <2>3. CASE log[i].exit = e
    <3>1. log[i].type = "exit_processed" => log[i].txid # NoTxid
      BY PaidOnce DEF LogOK, NoTxid
    <3> QED BY <1>2, <1>4, <1>10, <2>1, <2>3, <3>1 DEF Reflected, ExitEvents
  <2> QED BY <2>2, <2>3
<1> QED BY <1>4, <1>7, <1>8, <1>9, <1>10
-----------------------------------------------------------------------------
(* The chains *)

\* What the bridge may emit after what it has emitted.
MayEmit(ev) ==
  /\ ev \in Events /\ (ev.type \in ExitEvents => ev.exit \in Exits)
  /\ ev.type # "exit_processed" => ev.txid = NoTxid
  /\ ev.type = "exit_processed" =>
       Pays(ev.txid, ev.exit) /\ Requested(ev.exit) /\ ~Logged("exit_refunded", ev.exit)
  /\ ev.type = "exit_refunded" =>
       ev.exit \notin approved /\ Requested(ev.exit) /\ ~Logged("exit_processed", ev.exit)

\* A log that only grows leaves every row as true as it was.
LEMMA RowsOverLongerChains ==
  ASSUME RowsOK, UNCHANGED rows, indexed' >= indexed, indexed \in Nat, indexed' \in Nat,
         \A type, e : Logged(type, e) => Logged(type, e)',
         \A t, e : Pays(t, e) => Pays(t, e)'
  PROVE  RowsOK'
<1>1. \A e \in Exits : rows[e].txid \in 1..indexed => rows[e].txid \in 1..(indexed')
  OBVIOUS
<1> QED BY <1>1 DEF RowsOK, RowsAgreeWithChains, Requested

\* An event the bridge may emit leaves rows, pollers and applier as they should be.
LEMMA EmitKeeps ==
  ASSUME IInv, NEW ev, MayEmit(ev), log' = Append(log, ev),
         UNCHANGED <<config, releases, indexed, approved, rows, events, checkpoint, poll, apply, faults>>
  PROVE  IInv'
<1>1. log \in Seq(Events) /\ ev \in Events /\ Len(log) \in Nat
  BY DEF IInv, LogOK, MayEmit
<1>2. /\ log' \in Seq(Events) /\ Len(log') = Len(log) + 1
      /\ \A i \in 1..Len(log) : log'[i] = log[i]
      /\ log'[Len(log) + 1] = ev
      /\ \A type, e : Logged(type, e)' <=> Logged(type, e) \/ (ev.type = type /\ ev.exit = e)
  BY <1>1, AppendLog
<1>3. \A t, e : Pays(t, e)' <=> Pays(t, e)
  BY DEF Pays
<1>4. LogOK'
  <2>1. \A i \in 1..Len(log') : i \in 1..Len(log) \/ i = Len(log) + 1
    BY <1>1, <1>2
  <2>2. \A i \in 1..Len(log') : log'[i].type \in ExitEvents => log'[i].exit \in Exits
    BY <1>2, <2>1 DEF IInv, LogOK, MayEmit
  <2>3. \A i \in 1..Len(log') : log'[i].type = "exit_processed" => Pays(log'[i].txid, log'[i].exit)
    BY <1>2, <2>1 DEF IInv, LogOK, MayEmit
  <2>4. ASSUME NEW i \in 1..Len(log'), log'[i].type \in {"exit_processed", "exit_refunded"}
        PROVE  \E j \in 1..(i - 1) : log'[j].type = "exit_requested" /\ log'[j].exit = log'[i].exit
    <3>1. CASE i \in 1..Len(log)
      <4>1. PICK j \in 1..(i - 1) : log[j].type = "exit_requested" /\ log[j].exit = log[i].exit
        BY <1>2, <2>4, <3>1 DEF IInv, LogOK
      <4>2. j \in 1..Len(log)
        BY <1>1, <3>1
      <4> QED BY <1>2, <3>1, <4>1, <4>2
    <3>2. CASE i = Len(log) + 1
      <4>1. Logged("exit_requested", ev.exit)
        BY <1>2, <2>4, <3>2 DEF MayEmit, Requested
      <4>2. PICK j \in 1..Len(log) : log[j].type = "exit_requested" /\ log[j].exit = ev.exit
        BY <1>1, <4>1, LoggedAt
      <4>3. j \in 1..(i - 1)
        BY <1>1, <3>2
      <4> QED BY <1>2, <3>2, <4>2, <4>3
    <3> QED BY <2>1, <3>1, <3>2
  <2>5. ASSUME NEW i \in 1..Len(log'), NEW j \in 1..Len(log'),
               log'[i].type = "exit_processed", log'[j].type = "exit_refunded", log'[i].exit = log'[j].exit
        PROVE  FALSE
    <3>1. CASE i \in 1..Len(log) /\ j \in 1..Len(log)
      BY <1>2, <2>5, <3>1 DEF IInv, LogOK
    <3>2. CASE i \in 1..Len(log) /\ j = Len(log) + 1
      <4>1. Logged("exit_processed", ev.exit)
        BY <1>1, <1>2, <2>5, <3>2, LoggedAt
      <4> QED BY <1>2, <2>5, <3>2, <4>1 DEF MayEmit
    <3>3. CASE i = Len(log) + 1 /\ j \in 1..Len(log)
      <4>1. Logged("exit_refunded", ev.exit)
        BY <1>1, <1>2, <2>5, <3>3, LoggedAt
      <4> QED BY <1>2, <2>5, <3>3, <4>1 DEF MayEmit
    <3>4. CASE i = Len(log) + 1 /\ j = Len(log) + 1
      BY <2>5, <3>4
    <3> QED BY <2>1, <3>1, <3>2, <3>3, <3>4
  <2>6. \A i \in 1..Len(log') : log'[i].type # "exit_processed" => log'[i].txid = NoTxid
    BY <1>2, <2>1 DEF IInv, LogOK, MayEmit
  <2> QED BY <1>2, <1>3, <2>2, <2>3, <2>4, <2>5, <2>6 DEF LogOK
<1>5. ReleasesOK'
  BY <1>2 DEF IInv, ReleasesOK, MayEmit
<1>6. RowsOK'
  <2>1. indexed \in Nat /\ indexed' = indexed
    BY DEF IInv, ReleasesOK
  <2> QED BY <1>2, <1>3, <2>1, RowsOverLongerChains DEF IInv
<1>7. PollOK'
  <2>1. \A p \in Pollers : poll[p].pc \in {"apply", "write"} => poll[p].at \in 1..Len(log)
    BY <1>1 DEF IInv, PollOK, PollerOK, Idle
  <2>2. \A p \in Pollers : poll[p].pc = "write" => log'[poll[p].at] = log[poll[p].at]
    BY <1>2, <2>1
  <2>3. \A p \in Pollers : poll[p] # Idle => poll[p].to <= Len(log')
    BY <1>1, <1>2 DEF IInv, PollOK, PollerOK, Idle
  <2> QED BY <1>3, <2>2, <2>3 DEF IInv, PollOK, PollerOK
<1>8. ApplyOK'
  BY DEF IInv, ApplyOK
<1>9. SkipOK'
  <2>1. \A i \in 1..Len(log) : Reflected(log[i]) => Reflected(log[i])'
    BY <1>2 DEF Reflected
  <2>2. \A i \in 1..(checkpoint - 1) : i \in 1..Len(log)
    BY <1>1 DEF IInv, Counters
  <2>3. NothingSkipped'
    BY <2>1, <2>2 DEF IInv, SkipOK, NoneBelow, NothingSkipped
  <2>4. \A p \in Pollers : poll[p] # Idle => \A i \in 1..(poll[p].at - 1) : i \in 1..Len(log)
    BY <1>1 DEF IInv, PollOK, PollerOK, Idle
  <2> QED BY <2>1, <2>3, <2>4 DEF IInv, SkipOK, NoneBelow
<1>10. Counters'
  BY <1>1, <1>2 DEF IInv, Counters
<1> QED BY <1>4, <1>5, <1>6, <1>7, <1>8, <1>9, <1>10 DEF IInv
\* The four actions that emit an event.
LEMMA EventsKeep ==
  ASSUME IInv, NEW e \in Exits,
         RequestExit(e) \/ RefundExit(e) \/ ClaimDeposit \/ \E t \in DOMAIN releases : ProcessExit(e, t)
  PROVE  IInv'
<1>1. CASE RequestExit(e)
  <2>1. MayEmit([type |-> "exit_requested", exit |-> e, txid |-> NoTxid])
    BY DEF MayEmit, Events, ExitEvents, NoTxid
  <2> QED BY <1>1, <2>1, EmitKeeps DEF RequestExit, Emit
<1>2. CASE RefundExit(e)
  <2>1. MayEmit([type |-> "exit_refunded", exit |-> e, txid |-> NoTxid])
    BY <1>2 DEF RefundExit, Settled, MayEmit, Events, ExitEvents, NoTxid
  <2> QED BY <1>2, <2>1, EmitKeeps DEF RefundExit, Emit
<1>3. CASE ClaimDeposit
  <2>1. MayEmit([type |-> "deposit_claimed", exit |-> NoExit, txid |-> NoTxid])
    BY DEF MayEmit, Events, ExitEvents, NoTxid
  <2> QED BY <1>3, <2>1, EmitKeeps DEF ClaimDeposit, Emit
<1>4. CASE \E t \in DOMAIN releases : ProcessExit(e, t)
  <2>1. PICK t \in DOMAIN releases : ProcessExit(e, t)
    BY <1>4
  <2>2. t \in Nat
    BY DEF IInv, ReleasesOK
  <2>3. MayEmit([type |-> "exit_processed", exit |-> e, txid |-> t])
    BY <2>1, <2>2 DEF ProcessExit, Settled, MayEmit, Events, ExitEvents
  <2> QED BY <2>1, <2>3, EmitKeeps DEF ProcessExit, Emit
<1> QED BY <1>1, <1>2, <1>3, <1>4

\* A reserve spend pays an approved exit that is neither paid nor settled.
LEMMA ReleaseKeeps ==
  ASSUME IInv, NEW e \in Exits, Release(e)
  PROVE  IInv'
<1>1. releases \in Seq(Exits) /\ Len(releases) \in Nat /\ releases' = Append(releases, e)
  BY DEF IInv, ReleasesOK, Release
<1>2. /\ releases' \in Seq(Exits) /\ Len(releases') = Len(releases) + 1
      /\ \A t \in 1..Len(releases) : releases'[t] = releases[t]
      /\ releases'[Len(releases) + 1] = e
  BY <1>1
<1>3. \A t \in 1..Len(releases') : t \in 1..Len(releases) \/ t = Len(releases) + 1
  BY <1>1, <1>2
<1>4. DOMAIN releases = 1..Len(releases) /\ DOMAIN releases' = 1..Len(releases')
  BY <1>1, <1>2
<1>5. \A t, x : Pays(t, x) => Pays(t, x)'
  BY <1>1, <1>2, <1>4 DEF Pays
<1>6. \A type, x : Logged(type, x)' <=> Logged(type, x)
  BY DEF Release, Logged
<1>7. LogOK'
  <2>1. UNCHANGED log
    BY DEF Release
  <2> QED BY <1>5, <2>1 DEF IInv, LogOK
<1>8. ReleasesOK'
  <2>1. ASSUME NEW t \in 1..Len(releases'), NEW u \in 1..Len(releases'), releases'[t] = releases'[u]
        PROVE  t = u
    <3>1. \A x \in 1..Len(releases) : releases[x] # e
      BY <1>4 DEF Release, Pays
    <3> QED BY <1>2, <1>3, <2>1, <3>1 DEF IInv, ReleasesOK
  <2>2. \A t \in 1..Len(releases') :
          releases'[t] \in approved' /\ ~Logged("exit_refunded", releases'[t])
    BY <1>2, <1>3 DEF IInv, ReleasesOK, Release, Settled
  <2>3. indexed' \in 0..Len(releases') /\ approved' \subseteq Exits
    BY <1>1, <1>2 DEF IInv, ReleasesOK, Release
  <2>4. \A x \in approved' : rows'[x] # NoRow
    BY DEF IInv, ReleasesOK, Release
  <2> QED BY <1>2, <1>6, <2>1, <2>2, <2>3, <2>4 DEF ReleasesOK
<1>9. RowsOK'
  <2>1. indexed \in Nat /\ indexed' = indexed /\ UNCHANGED rows
    BY DEF IInv, ReleasesOK, Release
  <2> QED BY <1>5, <1>6, <2>1, RowsOverLongerChains DEF IInv
<1>10. PollOK'
  <2>1. UNCHANGED <<log, poll>>
    BY DEF Release
  <2> QED BY <1>5, <2>1 DEF IInv, PollOK, PollerOK
<1>11. ApplyOK'
  <2>1. UNCHANGED <<apply, indexed>>
    BY DEF Release
  <2>2. apply # Idle => apply.to \in Nat /\ apply.to <= Len(releases)
    BY <1>1 DEF IInv, ApplyOK, ReleasesOK
  <2>3. apply # Idle => \A t \in 1..apply.to : releases'[t] = releases[t]
    BY <1>1, <1>2, <2>2
  <2>4. apply.pc = "write" => apply # Idle /\ apply.at \in 1..apply.to
    BY <2>2 DEF IInv, ApplyOK, Idle
  <2> QED BY <2>1, <2>3, <2>4 DEF IInv, ApplyOK
<1>12. SkipOK' /\ Counters'
  <2>1. UNCHANGED <<log, rows, poll, checkpoint, config, faults, events>>
    BY DEF Release
  <2> QED BY <2>1 DEF IInv, SkipOK, NoneBelow, NothingSkipped, Reflected, Counters
<1> QED BY <1>7, <1>8, <1>9, <1>10, <1>11, <1>12 DEF IInv

\* The indexer records one more reserve spend.
LEMMA IndexReleaseKeeps ==
  ASSUME IInv, IndexRelease
  PROVE  IInv'
<1>1. /\ UNCHANGED <<config, log, releases, approved, rows, events, checkpoint, poll, apply, faults>>
      /\ indexed \in Nat /\ indexed' = indexed + 1 /\ indexed' \in 0..Len(releases)
  BY DEF IInv, ReleasesOK, IndexRelease
<1>2. \A type, e : Logged(type, e)' <=> Logged(type, e)
  BY <1>1 DEF Logged
<1>3. \A t, e : Pays(t, e)' <=> Pays(t, e)
  BY <1>1 DEF Pays
<1>4. RowsOK'
  BY <1>1, <1>2, <1>3, RowsOverLongerChains DEF IInv
<1>5. LogOK' /\ ReleasesOK' /\ PollOK'
  BY <1>1, <1>2, <1>3 DEF IInv, LogOK, ReleasesOK, PollOK, PollerOK
<1>6. ApplyOK'
  <2>1. apply # Idle => apply.to \in Nat
    BY DEF IInv, ApplyOK
  <2> QED BY <1>1, <2>1 DEF IInv, ApplyOK
<1>7. SkipOK' /\ Counters'
  BY <1>1 DEF IInv, SkipOK, NoneBelow, NothingSkipped, Reflected, Counters
<1> QED BY <1>4, <1>5, <1>6, <1>7 DEF IInv

\* Only an exit with a pending row is approved.
LEMMA ApproveKeeps ==
  ASSUME IInv, NEW e \in Exits, Approve(e)
  PROVE  IInv'
<1>1. /\ UNCHANGED <<config, log, releases, indexed, rows, events, checkpoint, poll, apply, faults>>
      /\ approved' = approved \cup {e} /\ rows[e] # NoRow
  BY DEF Approve, ReleasePrepared, NoRow, chainVars
<1>2. (\A type, x : Logged(type, x)' <=> Logged(type, x)) /\ \A t, x : Pays(t, x)' <=> Pays(t, x)
  BY <1>1 DEF Logged, Pays
<1>3. RowsOK'
  <2>1. indexed \in Nat /\ indexed' = indexed
    BY <1>1 DEF IInv, ReleasesOK
  <2> QED BY <1>1, <1>2, <2>1, RowsOverLongerChains DEF IInv
<1>4. ReleasesOK'
  BY <1>1, <1>2 DEF IInv, ReleasesOK
<1>5. LogOK' /\ PollOK' /\ ApplyOK'
  BY <1>1, <1>2 DEF IInv, LogOK, PollOK, PollerOK, ApplyOK
<1>6. SkipOK' /\ Counters'
  BY <1>1 DEF IInv, SkipOK, NoneBelow, NothingSkipped, Reflected, Counters
<1> QED BY <1>3, <1>4, <1>5, <1>6 DEF IInv
-----------------------------------------------------------------------------
(* The pollers *)

\* The least of two numbers.
LEMMA MinOfTwo ==
  ASSUME NEW a \in Int, NEW b \in Int
  PROVE  Min({a, b}) \in {a, b} /\ Min({a, b}) <= a /\ Min({a, b}) <= b
<1>1. \E x \in {a, b} : \A y \in {a, b} : x <= y
  OBVIOUS
<1>2. Min({a, b}) \in {a, b} /\ \A y \in {a, b} : Min({a, b}) <= y
  BY <1>1 DEF Min
<1> QED BY <1>2

\* The greatest of two numbers.
LEMMA MaxOfTwo ==
  ASSUME NEW a \in Int, NEW b \in Int
  PROVE  Max({a, b}) \in {a, b} /\ a <= Max({a, b}) /\ b <= Max({a, b})
<1>1. \E x \in {a, b} : \A y \in {a, b} : x >= y
  OBVIOUS
<1>2. Max({a, b}) \in {a, b} /\ \A y \in {a, b} : Max({a, b}) >= y
  BY <1>1 DEF Max
<1> QED BY <1>2

\* A step of one poller that leaves chains and applier alone keeps the invariant if
\* what it writes is true and what it moves past is reflected.
LEMMA PollerMoves ==
  ASSUME IInv, NEW p \in Pollers, NEW r, poll' = [poll EXCEPT ![p] = r],
         PollerOK(r), NoneBelow(r)',
         UNCHANGED <<config, log, releases, indexed, approved, apply>>,
         RowsOK', ReleasesOK', \A i \in 1..Len(log) : Reflected(log[i]) => Reflected(log[i])',
         NothingSkipped', Counters'
  PROVE  IInv'
<1>1. poll'[p] = r /\ \A q \in Pollers \ {p} : poll'[q] = poll[q]
  BY DEF IInv, PollOK
<1>2. LogOK' /\ ApplyOK'
  BY DEF IInv, LogOK, ApplyOK, Pays
<1>3. PollOK'
  <2>1. poll' = [q \in Pollers |-> poll'[q]]
    BY DEF IInv, PollOK
  <2>2. \A q \in Pollers : PollerOK(poll'[q])
    BY <1>1 DEF IInv, PollOK
  <2>3. \A q \in Pollers : PollerOK(poll[q])'
    BY <2>2 DEF PollerOK, Pays
  <2> QED BY <2>1, <2>3 DEF PollOK
<1>4. SkipOK'
  <2>1. ASSUME NEW q \in Pollers, q # p PROVE NoneBelow(poll[q])'
    <3>1. NoneBelow(poll[q]) /\ PollerOK(poll[q]) /\ poll'[q] = poll[q]
      BY <1>1, <2>1 DEF IInv, SkipOK, PollOK
    <3>2. Len(log) \in Nat
      BY DEF IInv, LogOK
    <3>3. poll[q] # Idle => \A i \in 1..(poll[q].at - 1) : i \in 1..Len(log)
      BY <3>1, <3>2 DEF PollerOK
    <3> QED BY <3>1, <3>3 DEF NoneBelow
  <2>2. NoneBelow(poll[p])'
    BY <1>1 DEF NoneBelow
  <2> QED BY <2>1, <2>2 DEF SkipOK
<1> QED BY <1>2, <1>3, <1>4 DEF IInv
\* A step of one poller that writes no row.
LEMMA PollerReads ==
  ASSUME IInv, NEW p \in Pollers, NEW r, poll' = [poll EXCEPT ![p] = r],
         PollerOK(r), NoneBelow(r), UNCHANGED <<chainVars, approved, rows, apply>>,
         checkpoint' = checkpoint, events' \subseteq 1..Len(log), faults' \in 0..MaxFaults
  PROVE  IInv'
<1>1. UNCHANGED <<config, log, releases, indexed, approved, apply, rows>>
  BY DEF chainVars
<1>2. NoneBelow(r)' /\ NothingSkipped' /\ \A i \in 1..Len(log) : Reflected(log[i]) => Reflected(log[i])'
  BY <1>1 DEF NoneBelow, Reflected, IInv, SkipOK, NothingSkipped
<1>3. RowsOK'
  BY <1>1 DEF IInv, RowsOK, RowsAgreeWithChains, Requested, Logged, Pays
<1>4. ReleasesOK'
  BY <1>1 DEF IInv, ReleasesOK, Logged
<1>5. Counters'
  BY <1>1 DEF IInv, Counters
<1> QED BY <1>1, <1>2, <1>3, <1>4, <1>5, PollerMoves

\* The next event of a poller, if the rows reflect the one it is at.
LEMMA NextEventOK ==
  ASSUME IInv, NEW p \in Pollers, poll[p].pc \in {"save", "apply", "write"}, poll[p].at <= poll[p].to
  PROVE  PollerOK(NextEvent(p)) /\ (Reflected(log[poll[p].at]) => NoneBelow(NextEvent(p)))
<1>1. /\ poll[p] # Idle /\ poll[p].at \in Nat /\ poll[p].to \in Nat
      /\ poll[p].at >= 1 /\ poll[p].to <= Len(log) /\ NoneBelow(poll[p])
  BY DEF IInv, PollOK, PollerOK, SkipOK, Idle
<1>2. NextEvent(p) \in [pc : {"save", "apply"}, at : Nat, to : Nat]
  BY <1>1 DEF NextEvent
<1>3. NextEvent(p).at = poll[p].at + 1 /\ NextEvent(p).to = poll[p].to /\ NextEvent(p).pc = "save"
  BY DEF NextEvent
<1>4. PollerOK(NextEvent(p))
  BY <1>1, <1>2, <1>3 DEF PollerOK
<1>5. \A i \in 1..(NextEvent(p).at - 1) : i \in 1..(poll[p].at - 1) \/ i = poll[p].at
  BY <1>1, <1>3
<1>6. Reflected(log[poll[p].at]) => NoneBelow(NextEvent(p))
  BY <1>1, <1>5 DEF NoneBelow
<1> QED BY <1>4, <1>6

\* A poll starts at the checkpoint, below which nothing is missing.
LEMMA PollKeeps ==
  ASSUME IInv, NEW p \in Pollers, Poll(p)
  PROVE  IInv'
<1> DEFINE top == Min({Len(log), checkpoint + MaxBlockRange - 1})
           r == [pc |-> "save", at |-> checkpoint, to |-> top]
<1>1. Len(log) \in Nat /\ checkpoint \in 1..(Len(log) + 1) /\ checkpoint <= Len(log)
  BY DEF IInv, LogOK, Counters, Poll
<1>2. MaxBlockRange \in Nat \ {0}
  BY ExitsAssumption
<1>3. top \in {Len(log), checkpoint + MaxBlockRange - 1} /\ top <= Len(log)
  <2>1. Len(log) \in Int /\ checkpoint + MaxBlockRange - 1 \in Int
    BY <1>1, <1>2
  <2> QED BY <2>1, MinOfTwo
<1>4. top \in Nat /\ checkpoint <= top + 1 /\ checkpoint \in Nat
  BY <1>1, <1>2, <1>3
<1> HIDE DEF top
<1>5. PollerOK(r)
  BY <1>1, <1>3, <1>4 DEF PollerOK
<1>6. NoneBelow(r)
  BY DEF NoneBelow, IInv, SkipOK, NothingSkipped
<1>7. poll' = [poll EXCEPT ![p] = r]
  BY DEF Poll, top
<1>8. UNCHANGED <<chainVars, approved, rows, apply, checkpoint>> /\ events' \subseteq 1..Len(log)
      /\ faults' \in 0..MaxFaults
  BY DEF Poll, IInv, Counters
<1> HIDE DEF r
<1> QED BY <1>5, <1>6, <1>7, <1>8, PollerReads

\* Saving an event moves no poller past it.
LEMMA SaveIgraEventKeeps ==
  ASSUME IInv, NEW p \in Pollers, SaveIgraEvent(p)
  PROVE  IInv'
<1> DEFINE r == [poll[p] EXCEPT !.pc = "apply"]
<1>1. poll[p].pc = "save" /\ poll[p] # Idle /\ PollerOK(poll[p]) /\ NoneBelow(poll[p])
  BY DEF SaveIgraEvent, IInv, PollOK, SkipOK, Idle
<1>2. poll[p] \in [pc : {"save", "apply"}, at : Nat, to : Nat]
  BY <1>1 DEF PollerOK, Idle
<1>3. /\ r \in [pc : {"save", "apply"}, at : Nat, to : Nat]
      /\ r.pc = "apply" /\ r.at = poll[p].at /\ r.to = poll[p].to
  BY <1>2
<1>4. poll' = [poll EXCEPT ![p] = r]
  BY DEF SaveIgraEvent
<1>5. UNCHANGED <<chainVars, approved, rows, checkpoint, apply, faults>> /\ events' = events \cup {poll[p].at}
  BY DEF SaveIgraEvent
<1> HIDE DEF r
<1>6. PollerOK(r) /\ NoneBelow(r)
  BY <1>1, <1>3 DEF SaveIgraEvent, PollerOK, NoneBelow
<1>7. events' \subseteq 1..Len(log)
  <2>1. poll[p].at \in 1..Len(log)
    BY <1>1, <1>2 DEF SaveIgraEvent, PollerOK, IInv, LogOK
  <2> QED BY <1>5, <2>1 DEF IInv, Counters
<1>8. faults' \in 0..MaxFaults
  BY <1>5 DEF IInv, Counters
<1> QED BY <1>4, <1>5, <1>6, <1>7, <1>8, PollerReads
\* A poller goes past an event once its write has made the rows reflect it.
LEMMA MovedPast ==
  ASSUME IInv, NEW p \in Pollers, poll[p].pc \in {"save", "apply", "write"},
         poll[p].at <= poll[p].to, NEW event, event = log[poll[p].at], Reflected(event)',
         poll' = [poll EXCEPT ![p] = NextEvent(p)],
         UNCHANGED <<config, log, releases, indexed, approved, events, checkpoint, apply, faults>>,
         RowsOK', ReleasesOK', \A i \in 1..Len(log) : Reflected(log[i]) => Reflected(log[i])'
  PROVE  IInv'
<1>1. PICK r : r = NextEvent(p)
  OBVIOUS
<1>2. /\ poll[p] # Idle /\ poll[p].at \in Nat /\ poll[p].at >= 1 /\ poll[p].at <= Len(log)
      /\ Len(log) \in Nat /\ NoneBelow(poll[p])
  BY DEF IInv, PollOK, PollerOK, SkipOK, LogOK, Idle
<1>3. PollerOK(r) /\ r.at = poll[p].at + 1
  BY <1>1, NextEventOK DEF NextEvent
<1>4. \A i \in 1..(r.at - 1) : i \in 1..Len(log) /\ (i \in 1..(poll[p].at - 1) \/ i = poll[p].at)
  BY <1>2, <1>3
<1>5. ASSUME NEW i \in 1..(r.at - 1) PROVE Reflected(log[i])'
  <2>1. CASE i \in 1..(poll[p].at - 1)
    BY <1>2, <1>4, <2>1 DEF NoneBelow
  <2>2. CASE i = poll[p].at
    <3>1. log'[i] = event
      BY <2>2
    <3> QED BY <3>1 DEF Reflected
  <2> QED BY <1>4, <2>1, <2>2
<1>6. NoneBelow(r)'
  BY <1>5 DEF NoneBelow
<1>7. NothingSkipped'
  <2>1. \A i \in 1..(checkpoint - 1) : i \in 1..Len(log)
    BY <1>2 DEF IInv, Counters
  <2> QED BY <2>1 DEF NothingSkipped, IInv, SkipOK
<1>8. Counters'
  BY DEF IInv, Counters
<1> QED BY <1>1, <1>3, <1>6, <1>7, <1>8, PollerMoves

\* A row made of the event's own words fits its exit.
LEMMA RequestFits ==
  ASSUME LogOK, NEW i \in 1..Len(log), log[i].type = "exit_requested"
  PROVE  log[i].exit \in Exits /\ Fits(log[i].exit, [status |-> "pending", txid |-> NoTxid])
<1>1. log[i].exit \in Exits /\ Requested(log[i].exit)
  BY LoggedAt DEF LogOK, ExitEvents, Requested
<1> QED BY <1>1 DEF Fits, Rows, Statuses, NoTxid

\* A request is upserted, a claimed deposit leaves the rows alone.
LEMMA ApplyRequestKeeps ==
  ASSUME IInv, NEW p \in Pollers, ApplyRequest(p)
  PROVE  IInv'
<1>0. PICK event : event = log[poll[p].at]
  OBVIOUS
<1>1. /\ poll[p].pc = "apply" /\ poll[p] # Idle /\ poll[p].at \in 1..Len(log)
      /\ poll[p].at <= poll[p].to /\ poll[p].pc \in {"save", "apply", "write"}
  BY DEF ApplyRequest, IInv, PollOK, PollerOK, LogOK, Idle
<1>2. /\ event.type \in {"exit_requested", "deposit_claimed"}
      /\ poll' = [poll EXCEPT ![p] = NextEvent(p)]
      /\ UNCHANGED <<config, log, releases, indexed, approved, events, checkpoint, apply, faults>>
  BY <1>0 DEF ApplyRequest, chainVars
<1>3. CASE event.type = "exit_requested"
  <2>1. event.exit \in Exits /\ Fits(event.exit, [status |-> "pending", txid |-> NoTxid])
    BY <1>0, <1>1, <1>3, RequestFits DEF IInv
  <2>2. Upsert(event.exit, [status |-> "pending", txid |-> NoTxid])
    BY <1>0, <1>3 DEF ApplyRequest
  <2>3. /\ RowsOK' /\ ReleasesOK' /\ \A i \in 1..Len(log) : Reflected(log[i]) => Reflected(log[i])'
        /\ rows'[event.exit] = Merged(rows[event.exit], [status |-> "pending", txid |-> NoTxid])
    BY <1>2, <2>1, <2>2, UpsertKeeps DEF IInv
  <2>4. Reflected(event)'
    <3>1. RowOK(event.exit, rows[event.exit])
      BY <2>1, RowsAre DEF IInv
    <3>2. rows'[event.exit] # NoRow
      BY <2>1, <2>3, <3>1, MergedOK DEF IInv
    <3> QED BY <1>2, <1>3, <3>2 DEF Reflected
  <2> QED BY <1>0, <1>1, <1>2, <2>3, <2>4, MovedPast
<1>4. CASE event.type = "deposit_claimed"
  <2>1. UNCHANGED rows
    BY <1>0, <1>4 DEF ApplyRequest
  <2>2. Reflected(log[poll[p].at])
    BY <1>0, <1>4 DEF Reflected
  <2>3. PollerOK(NextEvent(p)) /\ NoneBelow(NextEvent(p))
    BY <1>1, <2>2, NextEventOK
  <2>4. PICK r : r = NextEvent(p)
    OBVIOUS
  <2>5. events' \subseteq 1..Len(log) /\ faults' \in 0..MaxFaults
    BY <1>2 DEF IInv, Counters
  <2> QED BY <1>2, <2>1, <2>3, <2>4, <2>5, PollerReads DEF chainVars
<1> QED BY <1>2, <1>3, <1>4
\* An exit that is settled in the log has a row, because its request is further down.
LEMMA FoundExit ==
  ASSUME IInv, NEW p \in Pollers, poll[p] # Idle, poll[p].at \in 1..Len(log),
         log[poll[p].at].type \in {"exit_processed", "exit_refunded"}
  PROVE  log[poll[p].at].exit \in Exits /\ rows[log[poll[p].at].exit] # NoRow
<1>1. log[poll[p].at].exit \in Exits
  BY DEF IInv, LogOK, ExitEvents
<1>2. PICK j \in 1..(poll[p].at - 1) :
        log[j].type = "exit_requested" /\ log[j].exit = log[poll[p].at].exit
  BY DEF IInv, LogOK
<1>3. Reflected(log[j])
  BY <1>2 DEF IInv, SkipOK, NoneBelow
<1> QED BY <1>1, <1>2, <1>3 DEF Reflected

\* The row of a settled exit is read.
LEMMA FindExitKeeps ==
  ASSUME IInv, NEW p \in Pollers, FindExit(p)
  PROVE  IInv'
<1>0. PICK event : event = log[poll[p].at]
  OBVIOUS
<1>1. /\ poll[p].pc = "apply" /\ poll[p] # Idle /\ poll[p].at \in 1..Len(log)
      /\ poll[p].at <= poll[p].to /\ poll[p].to <= Len(log) /\ poll[p].at >= 1
      /\ poll[p].at \in Nat /\ poll[p].to \in Nat /\ NoneBelow(poll[p])
  BY DEF FindExit, IInv, PollOK, PollerOK, LogOK, SkipOK, Idle
<1>2. /\ event.type \in {"exit_processed", "exit_refunded"}
      /\ UNCHANGED <<chainVars, approved, rows, events, checkpoint, apply, faults>>
  BY <1>0 DEF FindExit
<1>3. event.exit \in Exits /\ rows[event.exit] # NoRow
  BY <1>0, <1>1, <1>2, FoundExit
<1>4. PICK r : r = [pc |-> "write", at |-> poll[p].at, to |-> poll[p].to, row |-> rows[event.exit]]
  OBVIOUS
<1>5. poll' = [poll EXCEPT ![p] = r]
  BY <1>0, <1>3, <1>4 DEF FindExit
<1>6. RowOK(event.exit, rows[event.exit])
  BY <1>3, RowsAre DEF IInv
<1>7. PollerOK(r)
  <2>1. r \in [pc : {"write"}, at : Nat, to : Nat, row : Rows]
    BY <1>1, <1>4, <1>6 DEF RowOK
  <2>2. r.pc = "write" /\ r.at = poll[p].at /\ r.to = poll[p].to /\ r.row = rows[event.exit]
    BY <1>4
  <2> QED BY <1>0, <1>1, <1>2, <1>6, <2>1, <2>2 DEF PollerOK, RowOK
<1>8. NoneBelow(r)
  BY <1>1, <1>4 DEF NoneBelow
<1>9. events' \subseteq 1..Len(log) /\ faults' \in 0..MaxFaults
  BY <1>2 DEF IInv, Counters
<1> QED BY <1>2, <1>5, <1>7, <1>8, <1>9, PollerReads

\* What applyExitLifecycleEvent makes of the row it has read fits the exit.
LEMMA UpdatedFits ==
  ASSUME IInv, NEW i \in 1..Len(log), log[i].type \in {"exit_processed", "exit_refunded"},
         NEW row \in Rows, row.txid # NoTxid => Pays(row.txid, log[i].exit)
  PROVE  /\ log[i].exit \in Exits /\ Fits(log[i].exit, Updated(row, log[i]))
         /\ log[i].type = "exit_processed" =>
              Updated(row, log[i]).status = "processed" /\ Updated(row, log[i]).txid = log[i].txid
         /\ log[i].type = "exit_refunded" => Updated(row, log[i]).status = "refunded"
<1> DEFINE e == log[i].exit
<1>1. e \in Exits
  BY DEF IInv, LogOK, ExitEvents
<1>2. Requested(e)
  <2>1. PICK j \in 1..(i - 1) : log[j].type = "exit_requested" /\ log[j].exit = e
    BY DEF IInv, LogOK
  <2>2. j \in 1..Len(log)
    BY DEF IInv, LogOK
  <2> QED BY <2>1, <2>2, LoggedAt DEF IInv, LogOK, Requested
<1>3. CASE log[i].type = "exit_processed"
  <2>1. Logged("exit_processed", e)
    BY <1>3, LoggedAt DEF IInv, LogOK
  <2>2. Pays(log[i].txid, e) /\ log[i].txid \in Nat
    BY <1>3, PaidOnce DEF IInv, LogOK
  <2>3. Updated(row, log[i]) = [status |-> "processed", txid |-> log[i].txid]
    BY <1>3 DEF Updated
  <2> QED BY <1>1, <1>2, <1>3, <2>1, <2>2, <2>3 DEF Fits, Rows, Statuses
<1>4. CASE log[i].type = "exit_refunded"
  <2>1. Logged("exit_refunded", e)
    BY <1>4, LoggedAt DEF IInv, LogOK
  <2>2. row.txid = NoTxid
    BY <2>1, PaidOnce DEF IInv
  <2>3. Updated(row, log[i]) = [row EXCEPT !.status = "refunded"]
    BY <1>4 DEF Updated
  <2>4. /\ Updated(row, log[i]) \in Rows
        /\ Updated(row, log[i]).status = "refunded" /\ Updated(row, log[i]).txid = row.txid
    BY <2>3 DEF Rows, Statuses
  <2> QED BY <1>1, <1>2, <1>4, <2>1, <2>2, <2>4 DEF Fits
<1> QED BY <1>3, <1>4

\* A poller that gives up forgets where it was.
LEMMA PollerStops ==
  ASSUME IInv, NEW p \in Pollers, poll' = [poll EXCEPT ![p] = Idle],
         UNCHANGED <<chainVars, approved, rows, apply, checkpoint, events>>, faults' \in 0..MaxFaults
  PROVE  IInv'
<1>1. PollerOK(Idle) /\ NoneBelow(Idle)
  BY DEF PollerOK, NoneBelow, Idle
<1>2. events' \subseteq 1..Len(log)
  BY DEF IInv, Counters
<1>3. PICK r : r = Idle
  OBVIOUS
<1> QED BY <1>1, <1>2, <1>3, PollerReads

\* The row read before is written over whatever the row has become.
LEMMA WriteExitKeeps ==
  ASSUME IInv, NEW p \in Pollers, WriteExit(p)
  PROVE  IInv'
<1>0. PICK event, new : event = log[poll[p].at] /\ new = Updated(poll[p].row, event)
  OBVIOUS
<1>1. /\ poll[p].pc = "write" /\ poll[p] # Idle /\ poll[p].at \in 1..Len(log)
      /\ poll[p].at <= poll[p].to /\ poll[p].row \in Rows
      /\ event.type \in {"exit_processed", "exit_refunded"}
      /\ poll[p].row.txid # NoTxid => Pays(poll[p].row.txid, event.exit)
  <2>1. poll[p].pc = "write" /\ poll[p] # Idle /\ PollerOK(poll[p]) /\ Len(log) \in Nat
    BY DEF WriteExit, IInv, PollOK, LogOK, Idle
  <2>2. poll[p] \in [pc : {"write"}, at : Nat, to : Nat, row : Rows]
    BY <2>1 DEF PollerOK, Idle
  <2>3. poll[p].at \in 1..Len(log) /\ poll[p].at <= poll[p].to
    BY <2>1, <2>2 DEF PollerOK
  <2> QED BY <1>0, <2>1, <2>2, <2>3 DEF PollerOK
<1>2. /\ event.exit \in Exits /\ Fits(event.exit, new)
      /\ event.type = "exit_processed" => new.status = "processed" /\ new.txid = event.txid
      /\ event.type = "exit_refunded" => new.status = "refunded"
  BY <1>0, <1>1, UpdatedFits
<1>3. UNCHANGED <<config, log, releases, indexed, approved, events, checkpoint, apply, faults>>
  BY DEF WriteExit, chainVars
<1>4. CASE Conflict(event.exit, new.txid)
  <2>1. poll' = [poll EXCEPT ![p] = Idle] /\ UNCHANGED rows
    BY <1>0, <1>4 DEF WriteExit
  <2>2. faults' \in 0..MaxFaults
    BY <1>3 DEF IInv, Counters
  <2> QED BY <1>3, <2>1, <2>2, PollerStops DEF chainVars
<1>5. CASE ~Conflict(event.exit, new.txid)
  <2>1. poll' = [poll EXCEPT ![p] = NextEvent(p)] /\ Upsert(event.exit, new)
    BY <1>0, <1>5 DEF WriteExit
  <2>2. /\ RowsOK' /\ ReleasesOK' /\ \A i \in 1..Len(log) : Reflected(log[i]) => Reflected(log[i])'
        /\ rows'[event.exit] = Merged(rows[event.exit], new)
    BY <1>2, <1>3, <2>1, UpsertKeeps DEF IInv
  <2>3. RowOK(event.exit, rows[event.exit])
    BY <1>2, RowsAre DEF IInv
  <2>4. /\ new.status \in {"processed", "released"} =>
             /\ rows'[event.exit].status \in {"processed", "released"}
             /\ rows'[event.exit].txid = new.txid
        /\ new.status = "refunded" => rows'[event.exit].status = "refunded"
    BY <1>2, <2>2, <2>3, MergedOK DEF IInv
  <2>5. Reflected(event)'
    BY <1>1, <1>2, <2>4 DEF Reflected
  <2> QED BY <1>0, <1>1, <1>3, <2>1, <2>2, <2>5, MovedPast
<1> QED BY <1>4, <1>5

\* The checkpoint moves to the end of the range, all of which the rows reflect.
LEMMA SaveNextBlockKeeps ==
  ASSUME IInv, NEW p \in Pollers, SaveNextBlock(p)
  PROVE  IInv'
<1>1. /\ poll[p] # Idle /\ poll[p].to + 1 = poll[p].at /\ poll[p].to \in Nat /\ poll[p].to <= Len(log)
      /\ NoneBelow(poll[p]) /\ checkpoint \in Nat /\ checkpoint <= Len(log) + 1 /\ checkpoint >= 1
  BY DEF SaveNextBlock, IInv, PollOK, PollerOK, SkipOK, Counters, LogOK, Idle
<1>2. /\ checkpoint' = Max({checkpoint, poll[p].to + 1}) /\ poll' = [poll EXCEPT ![p] = Idle]
      /\ UNCHANGED <<config, log, releases, indexed, approved, rows, events, apply, faults>>
  BY DEF SaveNextBlock, chainVars
<1>3. checkpoint' \in {checkpoint, poll[p].at} /\ checkpoint <= checkpoint'
  <2>1. checkpoint \in Int /\ poll[p].to + 1 \in Int
    BY <1>1
  <2>2. /\ Max({checkpoint, poll[p].to + 1}) \in {checkpoint, poll[p].to + 1}
        /\ checkpoint <= Max({checkpoint, poll[p].to + 1})
    BY <2>1, MaxOfTwo
  <2> QED BY <1>1, <1>2, <2>2
<1>4. checkpoint' \in 1..(Len(log) + 1)
  BY <1>1, <1>3 DEF IInv, LogOK
<1>5. \A i \in 1..(checkpoint' - 1) : Reflected(log[i])
  BY <1>1, <1>3 DEF NoneBelow, IInv, SkipOK, NothingSkipped
<1>6. NothingSkipped' /\ \A i \in 1..Len(log) : Reflected(log[i]) => Reflected(log[i])'
  BY <1>2, <1>5 DEF NothingSkipped, Reflected
<1>7. Counters'
  BY <1>2, <1>4 DEF IInv, Counters
<1>8. RowsOK' /\ ReleasesOK'
  BY <1>2 DEF IInv, RowsOK, RowsAgreeWithChains, Requested, Logged, Pays, ReleasesOK
<1>9. PollerOK(Idle) /\ NoneBelow(Idle)'
  BY DEF PollerOK, NoneBelow, Idle
<1>10. PICK r : r = Idle
  OBVIOUS
<1>11. NoneBelow(r)'
  BY <1>10 DEF NoneBelow, Idle
<1> QED BY <1>2, <1>6, <1>7, <1>8, <1>9, <1>10, <1>11, PollerMoves

\* A call that fails is gone, its range is read again from the checkpoint.
LEMMA PollFailsKeeps ==
  ASSUME IInv, NEW p \in Pollers, PollFails(p)
  PROVE  IInv'
<1>1. faults' \in 0..MaxFaults
  BY ExitsAssumption DEF PollFails, IInv, Counters
<1> QED BY <1>1, PollerStops DEF PollFails
-----------------------------------------------------------------------------
(* The applier *)

\* A step of the applier that writes no row.
LEMMA ApplierReads ==
  ASSUME IInv, UNCHANGED <<chainVars, approved, rows, events, checkpoint, poll>>,
         faults' \in 0..MaxFaults, ApplyOK'
  PROVE  IInv'
<1>1. UNCHANGED <<config, log, releases, indexed, approved, rows, events, checkpoint, poll>>
  BY DEF chainVars
<1>2. LogOK' /\ ReleasesOK'
  BY <1>1 DEF IInv, LogOK, ReleasesOK, Logged, Pays
<1>3. RowsOK' /\ PollOK'
  BY <1>1 DEF IInv, RowsOK, RowsAgreeWithChains, Requested, Logged, PollOK, PollerOK, Pays
<1>4. SkipOK' /\ Counters'
  BY <1>1 DEF IInv, SkipOK, NoneBelow, NothingSkipped, Reflected, Counters
<1> QED BY <1>2, <1>3, <1>4 DEF IInv

\* An exit that was paid is still to be matched: it was approved on its row, and is
\* not given back.
LEMMA PaidIsCandidate ==
  ASSUME IInv, NEW t \in 1..indexed
  PROVE  /\ releases[t] \in Exits /\ rows[releases[t]].status \in {"pending", "processed", "released"}
         /\ Requested(releases[t]) /\ t \in 1..Len(releases)
<1>1. t \in 1..Len(releases)
  BY DEF IInv, ReleasesOK
<1>2. releases[t] \in Exits /\ rows[releases[t]] # NoRow /\ ~Logged("exit_refunded", releases[t])
  BY <1>1 DEF IInv, ReleasesOK
<1>3. RowOK(releases[t], rows[releases[t]])
  BY <1>2, RowsAre DEF IInv
<1>4. rows[releases[t]] \in [status : Statuses, txid : Nat]
  BY <1>3 DEF RowOK, Rows
<1>5. rows[releases[t]].status # "absent"
  <2>1. SUFFICES ASSUME rows[releases[t]].status = "absent" PROVE FALSE
    OBVIOUS
  <2>2. rows[releases[t]].txid = NoTxid
    BY <1>3, <2>1 DEF RowOK
  <2>3. rows[releases[t]] = NoRow
    BY <1>4, <2>1, <2>2 DEF NoRow
  <2> QED BY <1>2, <2>3
<1>6. rows[releases[t]].status \in {"pending", "processed", "released"}
  BY <1>2, <1>3, <1>4, <1>5 DEF RowOK, Statuses
<1> QED BY <1>1, <1>2, <1>3, <1>6 DEF RowOK

\* A run of the applier starts from the rows as they are.
LEMMA BeginApplyKeeps ==
  ASSUME IInv, BeginApply
  PROVE  IInv'
<1>1. apply' = [pc |-> "match", list |-> rows, at |-> 1, to |-> indexed]
  BY DEF BeginApply
<1>2. UNCHANGED <<chainVars, approved, rows, events, checkpoint, poll, faults>>
  BY DEF BeginApply
<1>3. indexed' = indexed /\ indexed \in Nat /\ releases' = releases
  BY <1>2 DEF chainVars, IInv, ReleasesOK
<1>4. rows \in [Exits -> Rows]
  BY DEF IInv, RowsOK
<1>5. \A t \in 1..indexed : rows[releases[t]].status \in {"pending", "processed", "released"}
  BY PaidIsCandidate
<1>6. ApplyOK'
  BY <1>1, <1>3, <1>4, <1>5 DEF ApplyOK
<1>7. faults' \in 0..MaxFaults
  BY <1>2 DEF IInv, Counters
<1> QED BY <1>2, <1>6, <1>7, ApplierReads

\* A spend is matched with the exit it pays or with none.
LEMMA MatchSpendKeeps ==
  ASSUME IInv, MatchSpend
  PROVE  IInv'
<1>1. UNCHANGED <<chainVars, approved, rows, events, checkpoint, poll, faults>>
  BY DEF MatchSpend
<1>2. /\ apply # Idle /\ apply.pc = "match" /\ apply.at <= apply.to
      /\ apply \in [pc : {"match"}, list : [Exits -> Rows], at : Nat, to : Nat]
      /\ apply.at >= 1 /\ apply.to <= indexed
      /\ \A t \in 1..apply.to : apply.list[releases[t]].status \in {"pending", "processed", "released"}
  BY DEF MatchSpend, IInv, ApplyOK, Idle
<1>3. indexed' = indexed /\ releases' = releases /\ indexed \in Nat
  BY <1>1 DEF chainVars, IInv, ReleasesOK
<1>4. faults' \in 0..MaxFaults
  BY <1>1 DEF IInv, Counters
<1>5. CASE apply' = NextSpend
  <2>1. /\ apply' \in [pc : {"match"}, list : [Exits -> Rows], at : Nat, to : Nat]
        /\ apply'.pc = "match" /\ apply'.at = apply.at + 1 /\ apply'.to = apply.to
        /\ apply'.list = apply.list
    BY <1>2, <1>5 DEF NextSpend
  <2>2. ApplyOK'
    BY <1>2, <1>3, <2>1 DEF ApplyOK
  <2> QED BY <1>1, <1>4, <2>2, ApplierReads
<1>6. CASE apply' # NextSpend
  <2>1. PICK e \in Exits :
          /\ Matchable(apply.list, apply.at, e)
          /\ apply' = [pc |-> "write", list |-> apply.list, at |-> apply.at, to |-> apply.to, exit |-> e]
    BY <1>6 DEF MatchSpend
  <2>2. apply.at \in 1..apply.to /\ apply.at \in 1..indexed
    BY <1>2, <1>3
  <2>3. releases[apply.at] \in Exits
    BY <2>2, PaidIsCandidate
  <2>4. releases[apply.at] \in Candidates(apply.list, apply.at)
    BY <1>2, <2>2, <2>3 DEF Candidates
  <2>5. releases[apply.at] = e
    BY <2>1, <2>4 DEF Matchable
  <2>6. /\ apply' \in [pc : {"write"}, list : [Exits -> Rows], at : Nat, to : Nat, exit : Exits]
        /\ apply'.pc = "write" /\ apply'.at = apply.at /\ apply'.to = apply.to
        /\ apply'.list = apply.list /\ apply'.exit = e
    BY <1>2, <2>1
  <2>7. ApplyOK'
    BY <1>2, <1>3, <2>5, <2>6 DEF ApplyOK
  <2> QED BY <1>1, <1>4, <2>7, ApplierReads
<1> QED BY <1>5, <1>6

\* The applier that ends, or fails, forgets its list.
LEMMA ApplierStops ==
  ASSUME IInv, apply' = Idle, UNCHANGED <<chainVars, approved, rows, events, checkpoint, poll>>,
         faults' \in 0..MaxFaults
  PROVE  IInv'
<1>1. ApplyOK'
  BY DEF ApplyOK, Idle
<1> QED BY <1>1, ApplierReads

\* The exit the applier marks released is the one its spend pays.
LEMMA WriteReleasedKeeps ==
  ASSUME IInv, WriteReleased
  PROVE  IInv'
<1>0. PICK e, t, new : e = apply.exit /\ t = apply.at /\ new = [status |-> "released", txid |-> t]
  OBVIOUS
<1>1. /\ apply # Idle /\ apply.pc = "write" /\ t \in 1..apply.to /\ t \in Nat /\ apply.to \in Nat
      /\ apply.list \in [Exits -> Rows] /\ e \in Exits /\ apply.to <= indexed /\ releases[t] = e
      /\ \A u \in 1..apply.to : apply.list[releases[u]].status \in {"pending", "processed", "released"}
  BY <1>0 DEF WriteReleased, IInv, ApplyOK, Idle
<1>2. UNCHANGED <<config, log, releases, indexed, approved, events, checkpoint, poll, faults>>
  BY DEF WriteReleased, chainVars
<1>3. t \in 1..indexed
  BY <1>1 DEF IInv, ReleasesOK
<1>4. faults' \in 0..MaxFaults
  BY <1>2 DEF IInv, Counters
<1>5. Fits(e, new)
  <2>1. Requested(e) /\ t \in 1..Len(releases)
    BY <1>1, <1>3, PaidIsCandidate
  <2>2. Pays(t, e)
    BY <1>1, <2>1, PaysAt DEF IInv, ReleasesOK
  <2> QED BY <1>0, <1>1, <1>3, <2>1, <2>2 DEF Fits, Rows, Statuses
<1>6. CASE Conflict(e, t)
  <2>1. apply' = Idle /\ UNCHANGED rows
    BY <1>0, <1>6 DEF WriteReleased
  <2> QED BY <1>2, <1>4, <2>1, ApplierStops DEF chainVars
<1>7. CASE ~Conflict(e, t)
  <2>1. /\ Upsert(e, new)
        /\ apply' = [pc |-> "match", list |-> [apply.list EXCEPT ![e] = Merged(rows[e], new)],
                     at |-> t + 1, to |-> apply.to]
    BY <1>0, <1>7 DEF WriteReleased
  <2>2. /\ RowsOK' /\ LogOK' /\ ReleasesOK'
        /\ \A i \in 1..Len(log) : Reflected(log[i]) => Reflected(log[i])'
    BY <1>1, <1>2, <1>5, <2>1, UpsertKeeps DEF IInv
  <2>3. RowOK(e, rows[e])
    BY <1>1, RowsAre DEF IInv
  <2>4. Merged(rows[e], new) \in Rows /\ Merged(rows[e], new).status \in {"processed", "released"}
    BY <1>0, <1>1, <1>5, <2>3, MergedOK DEF IInv, RowOK
  <2>5. PICK list : list = [apply.list EXCEPT ![e] = Merged(rows[e], new)]
    OBVIOUS
  <2>6. /\ list \in [Exits -> Rows]
        /\ \A x \in Exits : list[x] = IF x = e THEN Merged(rows[e], new) ELSE apply.list[x]
    BY <1>1, <2>4, <2>5
  <2>7. \A u \in 1..apply.to :
          releases[u] \in Exits /\ list[releases[u]].status \in {"pending", "processed", "released"}
    <3>1. \A u \in 1..apply.to : u \in 1..indexed
      BY <1>1 DEF IInv, ReleasesOK
    <3>2. \A u \in 1..apply.to : releases[u] \in Exits
      BY <3>1, PaidIsCandidate
    <3> QED BY <1>1, <2>4, <2>6, <3>2
  <2>8. apply' = [pc |-> "match", list |-> list, at |-> t + 1, to |-> apply.to]
    BY <2>1, <2>5
  <2>9. ApplyOK'
    BY <1>1, <1>2, <2>6, <2>7, <2>8 DEF ApplyOK
  <2>10. PollOK'
    BY <1>2 DEF IInv, PollOK, PollerOK, Pays
  <2>11. Counters'
    BY <1>2 DEF IInv, Counters
  <2>12. SkipOK'
    <3>1. \A i \in 1..(checkpoint - 1) : i \in 1..Len(log)
      BY DEF IInv, Counters, LogOK
    <3>2. NothingSkipped'
      BY <1>2, <2>2, <3>1 DEF NothingSkipped, IInv, SkipOK
    <3>3. \A p \in Pollers : poll[p] # Idle => \A i \in 1..(poll[p].at - 1) : i \in 1..Len(log)
      BY DEF IInv, PollOK, PollerOK, LogOK, Idle
    <3>4. \A p \in Pollers : NoneBelow(poll[p])'
      BY <1>2, <2>2, <3>3 DEF NoneBelow, IInv, SkipOK
    <3> QED BY <3>2, <3>4 DEF SkipOK
  <2> QED BY <2>2, <2>9, <2>10, <2>11, <2>12 DEF IInv
<1> QED BY <1>6, <1>7

\* The last step of a run, and a run that fails.
LEMMA ApplyEndsKeeps ==
  ASSUME IInv, EndApply \/ ApplyFails
  PROVE  IInv'
<1>1. faults' \in 0..MaxFaults
  BY ExitsAssumption DEF EndApply, ApplyFails, IInv, Counters
<1> QED BY <1>1, ApplierStops DEF EndApply, ApplyFails
-----------------------------------------------------------------------------
(* BridgeExits *)

\* Nothing is wrong in the beginning.
LEMMA InitIInv ==
  ASSUME Init
  PROVE  IInv
<1>1. /\ log = <<>> /\ releases = <<>> /\ Len(log) = 0 /\ Len(releases) = 0
      /\ log \in Seq(Events) /\ releases \in Seq(Exits)
  BY DEF Init
<1>2. LogOK
  BY <1>1 DEF LogOK
<1>3. ReleasesOK
  BY <1>1 DEF Init, ReleasesOK
<1>4. RowsOK
  <2>1. NoRow \in Rows /\ NoRow.txid = NoTxid /\ NoRow.status = "absent"
    BY DEF NoRow, Rows, Statuses, NoTxid
  <2> QED BY <2>1 DEF Init, RowsOK, RowsAgreeWithChains
<1>5. PollOK
  BY DEF Init, PollOK, PollerOK, Idle
<1>6. ApplyOK
  BY DEF Init, ApplyOK, Idle
<1>7. SkipOK
  BY DEF Init, SkipOK, NothingSkipped, NoneBelow
<1>8. Counters
  BY <1>1, ExitsAssumption DEF Init, Counters
<1> QED BY <1>2, <1>3, <1>4, <1>5, <1>6, <1>7, <1>8 DEF IInv

\* Every action keeps the invariant.
LEMMA NextIInv ==
  ASSUME IInv, [Next]_vars
  PROVE  IInv'
<1>1. CASE UNCHANGED vars
  <2>1. UNCHANGED <<config, log, releases, indexed, approved, rows, events, checkpoint, poll, apply, faults>>
    BY <1>1 DEF vars, chainVars
  <2>2. ApplyOK'
    BY <2>1 DEF IInv, ApplyOK
  <2>3. faults' \in 0..MaxFaults
    BY <2>1 DEF IInv, Counters
  <2> QED BY <2>1, <2>2, <2>3, ApplierReads DEF chainVars
<1>2. ASSUME NEW e \in Exits, RequestExit(e) \/ RefundExit(e) PROVE IInv'
  BY <1>2, EventsKeep
<1>3. ASSUME NEW e \in Exits, NEW t \in DOMAIN releases, ProcessExit(e, t) PROVE IInv'
  BY <1>3, EventsKeep
<1>4. CASE ClaimDeposit
  <2>1. MayEmit([type |-> "deposit_claimed", exit |-> NoExit, txid |-> NoTxid])
    BY DEF MayEmit, Events, ExitEvents, NoTxid
  <2> QED BY <1>4, <2>1, EmitKeeps DEF ClaimDeposit, Emit
<1>5. ASSUME NEW e \in Exits, Release(e) PROVE IInv'
  BY <1>5, ReleaseKeeps
<1>6. CASE IndexRelease
  BY <1>6, IndexReleaseKeeps
<1>7. ASSUME NEW p \in Pollers, PollStep(p) PROVE IInv'
  BY <1>7, PollKeeps, SaveIgraEventKeeps, ApplyRequestKeeps, FindExitKeeps, WriteExitKeeps,
     SaveNextBlockKeeps DEF PollStep
<1>8. ASSUME NEW p \in Pollers, PollFails(p) PROVE IInv'
  BY <1>8, PollFailsKeeps
<1>9. CASE ApplyStep \/ ApplyFails
  BY <1>9, BeginApplyKeeps, MatchSpendKeeps, WriteReleasedKeeps, ApplyEndsKeeps DEF ApplyStep
<1>10. ASSUME NEW e \in Exits, Approve(e) PROVE IInv'
  BY <1>10, ApproveKeeps
<1> QED BY <1>1, <1>2, <1>3, <1>4, <1>5, <1>6, <1>7, <1>8, <1>9, <1>10 DEF Next, ExitStep

\* IInv is an invariant of every behaviour of BridgeExits.
THEOREM IInvHolds == Spec => []IInv
BY InitIInv, NextIInv, PTL DEF Spec

\* Whatever pollers, the applier, replays and failures do between reads and writes, the
\* mirrored row of an exit never says more than the chains.
THEOREM RowsAgreeWithChainsHolds == Spec => []RowsAgreeWithChains
<1>1. IInv => RowsAgreeWithChains
  BY DEF IInv, RowsOK
<1> QED BY <1>1, IInvHolds, PTL

\* No event below the checkpoint is missing in the rows.
THEOREM NothingSkippedHolds == Spec => []NothingSkipped
<1>1. IInv => NothingSkipped
  BY DEF IInv, SkipOK
<1> QED BY <1>1, IInvHolds, PTL

\* Every variable of BridgeExits keeps its shape.
THEOREM TypeOKHolds == Spec => []TypeOK
<1>1. IInv => TypeOK
  <2>1. SUFFICES ASSUME IInv PROVE TypeOK
    OBVIOUS
  <2>2. Len(log) \in Nat /\ Len(releases) \in Nat /\ DOMAIN log = 1..Len(log)
    BY <2>1 DEF IInv, LogOK, ReleasesOK
  <2>3. \A t, e : Pays(t, e) => t \in 0..Len(releases)
    BY <2>1, <2>2, PaysAt DEF IInv, ReleasesOK
  <2>4. \A i \in DOMAIN log : log[i].exit \in Exits \cup {NoExit} /\ log[i].txid \in 0..Len(releases)
    <3>1. ASSUME NEW i \in 1..Len(log) PROVE log[i].txid \in 0..Len(releases)
      <4>1. CASE log[i].type = "exit_processed"
        BY <2>1, <2>3, <4>1 DEF IInv, LogOK
      <4>2. CASE log[i].type # "exit_processed"
        BY <2>1, <2>2, <4>2 DEF IInv, LogOK, NoTxid
      <4> QED BY <4>1, <4>2
    <3>2. \A i \in 1..Len(log) : log[i] \in Events
      BY <2>1 DEF IInv, LogOK
    <3> QED BY <2>2, <3>1, <3>2 DEF Events
  <2>5. \A e \in Exits :
          /\ rows[e].status \in Statuses /\ rows[e].txid \in 0..Len(releases)
          /\ (rows[e].txid # NoTxid) <=> rows[e].status \in {"processed", "released"}
    BY <2>1, <2>2, <2>3 DEF IInv, RowsOK, RowsAgreeWithChains, Rows, NoTxid
  <2>6. \A p \in Pollers : poll[p] # Idle =>
          poll[p].pc \in {"save", "apply", "write"} /\ poll[p].at <= poll[p].to + 1 /\ poll[p].to <= Len(log)
    BY <2>1 DEF IInv, PollOK, PollerOK
  <2>7. apply # Idle => apply.pc \in {"match", "write"} /\ apply.to <= indexed
    BY <2>1 DEF IInv, ApplyOK
  <2> QED BY <2>1, <2>2, <2>4, <2>5, <2>6, <2>7 DEF TypeOK, IInv, Counters, ReleasesOK
<1> QED BY <1>1, IInvHolds, PTL

-----------------------------------------------------------------------------
(* BridgeRelayer *)

\* A step of the relayers is one of the exits or leaves them alone.
LEMMA RelayerStep ==
  ASSUME RelayerNext \/ UNCHANGED relayerVars
  PROVE  [Next]_vars
<1>1. CASE UNCHANGED relayerVars
  BY <1>1 DEF relayerVars
<1>2. CASE ExitStep
  BY <1>2 DEF Next
<1>3. CASE DepositStep
  BY <1>3 DEF DepositStep, IndexDeposit, ConfirmDeposit, DetachDeposit, SpendDeposit, DepositTurns,
     PrepareMint
<1>4. CASE ClaimPrepared
  BY <1>4 DEF ClaimPrepared, Next
<1>5. CASE \E e \in Exits : ApproveAttested(e)
  BY <1>5 DEF ApproveAttested, Next
<1>6. CASE \E x \in relay.events \cap (Exits \cup Outpoints) :
             \E r \in Senders, id \in Senders, payload \in {True, Forged} : Attest(r, id, x, payload)
  BY <1>6 DEF Attest
<1> QED BY <1>1, <1>2, <1>3, <1>4, <1>5, <1>6 DEF RelayerNext

\* With quorums and deposits the exits behave as they do without: BridgeRelayer implements
\* BridgeExits, fairness included.
THEOREM RelayerRefinesExits == RelayerSpec => Spec
<1>1. RelayerInit => Init
  BY DEF RelayerInit
<1>2. [RelayerNext]_relayerVars => [Next]_vars
  BY RelayerStep
<1> QED BY <1>1, <1>2, PTL DEF RelayerSpec, Spec

\* What the collector of attestations answers for: nobody speaks under an id but its own,
\* if it is correct, or those it may speak under, if it lies.
SpeaksForItself(m) ==
  /\ m.sender \in Senders
  /\ m.sender \in Honest => m.relayer = m.sender
  /\ m.sender \in relay.faulty => m.relayer \in relay.under[m.sender]
SendersOK == \A m \in attestations : SpeaksForItself(m)

\* A quorum has one id more than liars may speak under, and a correct relayer stands
\* behind it.
LEMMA QuorumHasHonest ==
  ASSUME config \in Configs, SendersOK, NEW x, NEW final, x \in relay.events, Attested(x, final)
  PROVE  \E m \in attestations :
           m.event = x /\ m.sender \in Honest \cap relay.policy.relayers /\ m.payload = True
<1> DEFINE voices == {m.relayer : m \in {n \in About(x) : Matches(n, relay.policy, x, True)}}
           liars == Spoken(config)
<1>1. QuorumStatus(About(x), relay.policy, x, True, final) = "approved"
  BY DEF Attested
<1>2. /\ PolicyValid(relay.policy)
      /\ ~(ValidCount(About(x), relay.policy, x, True) < relay.policy.required)
  BY <1>1 DEF QuorumStatus, ManualReview
<1>3. relay.policy.required \in Nat /\ ~(Cardinality(voices) < relay.policy.required)
  BY <1>2 DEF PolicyValid, ValidCount
<1>4. /\ relay.policy.relayers \subseteq Senders /\ IsFiniteSet(Senders)
      /\ Cardinality(liars) < relay.policy.required
  BY RelayerAssumption DEF relay
<1>5. voices \subseteq relay.policy.relayers
  BY DEF Matches
<1>6. IsFiniteSet(liars) /\ Cardinality(liars) \in Nat
  <2>1. liars \subseteq Senders
    BY <1>4 DEF Spoken, relay
  <2> QED BY <1>4, <2>1, FS_Subset, FS_CardinalityType
<1>7. ~(voices \subseteq liars)
  <2>1. SUFFICES ASSUME voices \subseteq liars PROVE FALSE
    OBVIOUS
  <2>2. IsFiniteSet(voices) /\ Cardinality(voices) <= Cardinality(liars)
    BY <1>6, <2>1, FS_Subset
  <2>3. Cardinality(voices) \in Nat
    BY <2>2, FS_CardinalityType
  <2> HIDE DEF voices, liars
  <2> QED BY <1>3, <1>4, <1>6, <2>2, <2>3
<1>8. PICK m \in About(x) : Matches(m, relay.policy, x, True) /\ m.relayer \notin liars
  BY <1>7
<1>9. m \in attestations /\ SpeaksForItself(m)
  BY <1>8 DEF About, SendersOK
<1>10. m.relayer \in relay.policy.relayers
  BY <1>8 DEF Matches
<1>11. m.sender \notin relay.faulty
  BY <1>8, <1>9, <1>10 DEF SpeaksForItself, Spoken, relay
<1>12. m.sender \in Honest \cap relay.policy.relayers
  BY <1>9, <1>10, <1>11 DEF SpeaksForItself, Honest
<1> QED BY <1>8, <1>9, <1>12 DEF About, Matches

LEMMA OthersLeaveAttestations ==
  ASSUME RelayerNext \/ UNCHANGED relayerVars
  PROVE  \/ attestations' = attestations
         \/ \E x \in relay.events \cap (Exits \cup Outpoints) :
              \E r \in Senders, id \in Senders, payload \in {True, Forged} : Attest(r, id, x, payload)
  BY DEF RelayerNext, relayerVars, relayVars, DepositStep, IndexDeposit, ConfirmDeposit, DetachDeposit,
     SpendDeposit, DepositTurns, PrepareMint, ClaimPrepared, ApproveAttested

LEMMA SendersKeep ==
  ASSUME SendersOK, relay' = relay, Honest' = Honest, RelayerNext \/ UNCHANGED relayerVars
  PROVE  SendersOK'
<1>1. CASE attestations' = attestations
  BY <1>1, Zenon DEF SendersOK, SpeaksForItself
<1>2. ASSUME NEW r \in Senders, NEW id \in Senders, NEW x, NEW payload, Attest(r, id, x, payload)
      PROVE  SendersOK'
  <2>1. PICK copy \in {1, 2} :
          attestations' = attestations \cup
            {[sender |-> r, relayer |-> id, event |-> x, payload |-> payload, copy |-> copy]}
    BY <1>2 DEF Attest
  <2>2. (r \in Honest => id = r) /\ (r \in relay.faulty => id \in relay.under[r])
    BY <1>2 DEF Attest
  <2> QED BY <2>1, <2>2 DEF SendersOK, SpeaksForItself
<1> QED BY <1>1, <1>2, OthersLeaveAttestations

\* Attestations are never taken back, and releases and mints are prepared on a quorum.
LEMMA PreparedKeeps ==
  ASSUME config \in Configs, SendersOK, PreparedIsAttested, RelayerNext \/ UNCHANGED relayerVars
  PROVE  SendersOK' /\ PreparedIsAttested'
<1>1. config' = config
  BY RelayerStep DEF Next, ExitStep, RequestExit, RefundExit, Release, ProcessExit, IndexRelease, PollStep,
     Poll, SaveIgraEvent, ApplyRequest, FindExit, WriteExit, SaveNextBlock, PollFails, ApplyStep,
     BeginApply, MatchSpend, WriteReleased, EndApply, ApplyFails, ClaimDeposit, Approve, vars, chainVars
<1>2. relay' = relay /\ Honest' = Honest
  BY <1>1 DEF relay, Honest
<1>3. attestations \subseteq attestations'
  <2>1. ASSUME NEW r \in Senders, NEW id \in Senders, NEW x, NEW payload, Attest(r, id, x, payload)
        PROVE  attestations \subseteq attestations'
    BY <2>1 DEF Attest
  <2> QED BY <2>1, OthersLeaveAttestations
<1>4. \A y \in (approved \cup mints)' :
        y \in approved \cup mints \/ \E final \in BOOLEAN : Attested(y, final)
  <2>1. CASE UNCHANGED relayerVars
    BY <2>1 DEF relayerVars, relayVars, vars
  <2>2. CASE ExitStep /\ UNCHANGED relayVars
    <3>1. approved' = approved
      BY <2>2 DEF ExitStep, RequestExit, RefundExit, Release, ProcessExit, IndexRelease, PollStep,
         Poll, SaveIgraEvent, ApplyRequest, FindExit, WriteExit, SaveNextBlock, PollFails, ApplyStep,
         BeginApply, MatchSpend, WriteReleased, EndApply, ApplyFails
    <3> QED BY <2>2, <3>1 DEF relayVars
  <2>3. CASE DepositStep
    BY <2>3 DEF DepositStep, IndexDeposit, ConfirmDeposit, DetachDeposit, SpendDeposit, DepositTurns,
       PrepareMint, vars
  <2>4. CASE ClaimPrepared
    BY <2>4 DEF ClaimPrepared, ClaimDeposit, relayVars
  <2>5. ASSUME NEW e \in Exits, ApproveAttested(e)
        PROVE  \A y \in (approved \cup mints)' :
                 y \in approved \cup mints \/ \E final \in BOOLEAN : Attested(y, final)
    BY <2>5 DEF ApproveAttested, Approve, relayVars
  <2>6. CASE \E x \in relay.events \cap (Exits \cup Outpoints) :
               \E r \in Senders, id \in Senders, payload \in {True, Forged} : Attest(r, id, x, payload)
    BY <2>6 DEF Attest, vars
  <2> QED BY <2>1, <2>2, <2>3, <2>4, <2>5, <2>6 DEF RelayerNext
<1>5. ASSUME NEW y \in (approved \cup mints)', y \in relay.events
      PROVE  \E m \in attestations :
               m.event = y /\ m.sender \in Honest \cap relay.policy.relayers /\ m.payload = True
  <2>1. CASE y \in approved \cup mints
    BY <1>5, <2>1 DEF PreparedIsAttested
  <2>2. CASE \E final \in BOOLEAN : Attested(y, final)
    BY <1>5, <2>2, QuorumHasHonest
  <2> QED BY <1>4, <2>1, <2>2
<1>6. PreparedIsAttested'
  BY <1>2, <1>3, <1>5 DEF PreparedIsAttested
<1> QED BY <1>2, <1>6, SendersKeep

\* No release and no mint is prepared without a correct relayer's word for the very event,
\* whatever liars send, in their own name or in that of correct relayers, as often as they
\* like, as long as the ids of the policy they may speak under are too few for a quorum
\* (RelayerAssumption).
THEOREM PreparedIsAttestedHolds == RelayerSpec => []PreparedIsAttested
<1>1. RelayerInit => SendersOK /\ PreparedIsAttested
  BY DEF RelayerInit, Init, SendersOK, PreparedIsAttested
<1>2. IInv => config \in Configs
  BY DEF IInv, Counters
<1>3. IInv /\ SendersOK /\ PreparedIsAttested /\ [RelayerNext]_relayerVars
        => SendersOK' /\ PreparedIsAttested'
  BY <1>2, PreparedKeeps
<1> QED BY <1>1, <1>3, IInvHolds, RelayerRefinesExits, PTL DEF RelayerSpec
=============================================================================
