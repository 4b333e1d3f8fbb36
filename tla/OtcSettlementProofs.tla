------------------------- MODULE OtcSettlementProofs -------------------------
(***************************************************************************)
(* Proofs about OtcSettlement for any deadlines, signing modes, amounts    *)
(* and bounds.                                                             *)
(***************************************************************************)
EXTENDS OtcSettlement, FiniteSetTheorems, SequenceTheorems, TLAPS

States == OpenStates \cup TerminalStates
Attempts == {"signed", "submitted", "failed"}
Pending == {i \in DOMAIN attempts : attempts[i] # "submitted"}

-----------------------------------------------------------------------------
(* The decision engine *)

Actions == {"manual_review", "prepare_usdc_release", "mark_released", "mark_refunded",
            "prepare_prl_release", "prepare_prl_refund", "wait"}

\* The first rule that applies exists, and what it asks for held of the snapshot.
LEMMA DecisionRule ==
  ASSUME NEW s
  PROVE  /\ Decision(s) \in Actions
         /\ Decision(s) = "prepare_prl_release" => ReleaseAllowed(s)
         /\ Decision(s) = "mark_released" => s.pearl = "released" /\ s.base = "released"
         /\ Decision(s) = "mark_refunded" => s.pearl = "refunded"
<1> DEFINE r == Rules(s)
           first(i) == r[i][1] /\ \A j \in 1..(i - 1) : ~r[j][1]
<1>1. DOMAIN r = 1..7
  BY DEF Rules
<1>2. /\ r[3][1] = (s.pearl = "released" /\ s.base = "released")
      /\ r[4][1] = (s.pearl = "refunded")
      /\ r[5][1] = ReleaseAllowed(s)
      /\ r[7][1]
  BY DEF Rules
<1>3. /\ r[1][2] = "manual_review" /\ r[2][2] = "prepare_usdc_release"
      /\ r[3][2] = "mark_released" /\ r[4][2] = "mark_refunded"
      /\ r[5][2] = "prepare_prl_release" /\ r[6][2] = "prepare_prl_refund"
      /\ r[7][2] = "wait"
  BY DEF Rules
<1>4. Decision(s) = r[CHOOSE i \in DOMAIN r : first(i)][2]
  BY DEF Decision
<1> HIDE DEF r
<1>5. \E i \in 1..7 : first(i)
  <2>1. r[7][1]
    BY <1>2
  <2>2. CASE r[1][1]
    BY <2>2
  <2>3. CASE ~r[1][1] /\ r[2][1]
    BY <2>3
  <2>4. CASE ~r[1][1] /\ ~r[2][1] /\ r[3][1]
    BY <2>4
  <2>5. CASE ~r[1][1] /\ ~r[2][1] /\ ~r[3][1] /\ r[4][1]
    BY <2>5
  <2>6. CASE ~r[1][1] /\ ~r[2][1] /\ ~r[3][1] /\ ~r[4][1] /\ r[5][1]
    BY <2>6
  <2>7. CASE ~r[1][1] /\ ~r[2][1] /\ ~r[3][1] /\ ~r[4][1] /\ ~r[5][1] /\ r[6][1]
    BY <2>7
  <2>8. CASE ~r[1][1] /\ ~r[2][1] /\ ~r[3][1] /\ ~r[4][1] /\ ~r[5][1] /\ ~r[6][1]
    BY <2>1, <2>8
  <2> QED BY <2>2, <2>3, <2>4, <2>5, <2>6, <2>7, <2>8
<1>6. PICK i \in 1..7 : r[i][1] /\ Decision(s) = r[i][2]
  BY <1>1, <1>4, <1>5
<1>7. i = 1 \/ i = 2 \/ i = 3 \/ i = 4 \/ i = 5 \/ i = 6 \/ i = 7
  OBVIOUS
<1>8. CASE i = 1
  BY <1>2, <1>3, <1>6, <1>8 DEF Actions
<1>9. CASE i = 2
  BY <1>2, <1>3, <1>6, <1>9 DEF Actions
<1>10. CASE i = 3
  BY <1>2, <1>3, <1>6, <1>10 DEF Actions
<1>11. CASE i = 4
  BY <1>2, <1>3, <1>6, <1>11 DEF Actions
<1>12. CASE i = 5
  BY <1>2, <1>3, <1>6, <1>12 DEF Actions
<1>13. CASE i = 6
  BY <1>2, <1>3, <1>6, <1>13 DEF Actions
<1>14. CASE i = 7
  BY <1>2, <1>3, <1>6, <1>14 DEF Actions
<1> QED BY <1>7, <1>8, <1>9, <1>10, <1>11, <1>12, <1>13, <1>14

-----------------------------------------------------------------------------
(* Types, by owner of the state *)

WorkerRec ==
  [pc : {"idle", "read", "write", "sign", "send", "sent"}, row : Rows \cup {NoRow},
   pearl : PearlViews \cup {""}, late : BOOLEAN, base : Statuses \cup {"", "stale"},
   due : BOOLEAN, action : Actions \cup {""}, todo : SUBSET Nat]

WorkerType ==
  /\ worker \in WorkerRec
  /\ attempts \in Seq(Attempts)
  /\ worker.pc \in {"read", "write"} => worker.row \in Rows
  /\ worker.pc = "write" => worker.action \in DOMAIN ToState
  /\ worker.todo \subseteq Pending

ApiRec == [op : {"none", "presign", "revoke", "review", "transition", "release", "refund"},
           row : Rows \cup {NoRow}, to : States \cup {""}]

RowType ==
  /\ trade \in Rows
  /\ api \in ApiRec
  /\ api.op # "none" => api.row \in Rows /\ api.to \in States

ProofRec == [match : {"none", "pending", "confirmed", "spent", "detached"}, late : BOOLEAN,
             spends : SUBSET {"release", "refund"}]

LedgerType ==
  /\ chain \in {"unfunded", "funded", "released", "refunded"}
  /\ mempool \in {{}, {"release"}, {"refund"}}
  /\ proof \in ProofRec
  /\ Observed => chain # "unfunded"
  /\ base \in Statuses

RestType == now \in 0..MaxTime /\ reserved \in BOOLEAN

TypeInv == WorkerType /\ RowType /\ LedgerType /\ RestType

\* The typed invariant implies the one the runs check.
LEMMA TypeInvIsType == TypeInv => TypeOK
<1>1. Cardinality({}) = 0
  BY FS_EmptySet
<1>2. Cardinality({"release"}) = 1
  BY FS_Singleton
<1>3. Cardinality({"refund"}) = 1
  BY FS_Singleton
<1>4. ASSUME TypeInv PROVE Cardinality(mempool) <= 1
  <2>1. mempool = {} \/ mempool = {"release"} \/ mempool = {"refund"}
    BY <1>4 DEF TypeInv, LedgerType
  <2> QED BY <2>1, <1>1, <1>2, <1>3
<1> QED BY <1>4 DEF TypeInv, WorkerType, RowType, LedgerType, RestType, TypeOK, WorkerRec,
            ProofRec, Pending, Attempts, States, ApiRec

\* The worker's variables are its own.
LEMMA WorkerFrame ==
  ASSUME ApiStep \/ PearlStep \/ BaseStep \/ Tick \/ UNCHANGED vars
  PROVE  UNCHANGED <<worker, decided, attempts>>
BY DEF ApiStep, BeginPresign, BeginRevoke, BeginReview, BeginTransition, Begin, WriteRow,
       BeginSubmit, SubmitSpend, PearlStep, Fund, IndexFunding, IndexConfirmations,
       SellerRefunds, Mine, IndexSpend, Reorg, BaseStep, BaseCreate, BaseDeposit, BaseCancel,
       BaseRefund, BaseRelease, SetBase, Tick, Elsewhere, vars, workerVars, apiVars, ledgers

\* Apart from the API, only WriteState of the worker touches the row.
LEMMA RowFrame ==
  ASSUME WorkerStep \/ WorkerFault \/ PearlStep \/ BaseStep \/ Tick \/ UNCHANGED vars
  PROVE  UNCHANGED <<trade, api>> \/ WriteState
BY DEF WorkerStep, ListTrades, ReadPearl, ReadBase, Decide, Sign, Send, MarkSubmitted,
       WorkerFault, Crash, Throw, SendFails, PearlStep, Fund, IndexFunding,
       IndexConfirmations, SellerRefunds, Mine, IndexSpend, Reorg, BaseStep, BaseCreate,
       BaseDeposit, BaseCancel, BaseRefund, BaseRelease, SetBase, Tick, Elsewhere,
       vars, apiVars

\* Of the worker and the API, only a send changes the two chains.
LEMMA LedgerFrame ==
  ASSUME WorkerStep \/ WorkerFault \/ ApiStep \/ Tick \/ UNCHANGED vars
  PROVE  UNCHANGED ledgers \/ (\E i \in DOMAIN attempts : Send(i)) \/ SubmitSpend
BY DEF WorkerStep, ListTrades, ReadPearl, ReadBase, Decide, WriteState, Sign, MarkSubmitted,
       WorkerFault, Crash, Throw, SendFails, ApiStep, BeginPresign, BeginRevoke, BeginReview,
       BeginTransition, Begin, WriteRow, BeginSubmit, Tick, vars, ledgers

\* Time advances only by Tick, a side effect is reserved only by a submission.
LEMMA ClockFrame ==
  ASSUME WorkerStep \/ WorkerFault \/ ApiStep \/ PearlStep \/ BaseStep \/ Tick
         \/ UNCHANGED vars
  PROVE  /\ now' = now \/ Tick
         /\ reserved' = reserved \/ \E kind \in DOMAIN SubmitState : BeginSubmit(kind)
<1>1. CASE WorkerStep \/ WorkerFault
  BY <1>1 DEF WorkerStep, ListTrades, ReadPearl, ReadBase, Decide, WriteState, Sign, Send,
              MarkSubmitted, WorkerFault, Crash, Throw, SendFails
<1>2. CASE ApiStep
  BY <1>2 DEF ApiStep, BeginPresign, BeginRevoke, BeginReview, BeginTransition, Begin,
              WriteRow, BeginSubmit, SubmitSpend
<1>3. CASE PearlStep
  BY <1>3 DEF PearlStep, Fund, IndexFunding, IndexConfirmations, SellerRefunds, Mine,
              IndexSpend, Reorg, Elsewhere
<1>4. CASE BaseStep
  BY <1>4 DEF BaseStep, BaseCreate, BaseDeposit, BaseCancel, BaseRefund, BaseRelease, SetBase
<1>5. CASE Tick \/ UNCHANGED vars
  BY <1>5 DEF Tick, vars
<1> QED BY <1>1, <1>2, <1>3, <1>4, <1>5

\* Only the users and the operator of Base change its escrow.
LEMMA BaseFrame ==
  ASSUME WorkerStep \/ WorkerFault \/ ApiStep \/ PearlStep \/ Tick \/ UNCHANGED vars
  PROVE  base' = base
<1>1. CASE WorkerStep \/ WorkerFault
  BY <1>1 DEF WorkerStep, ListTrades, ReadPearl, ReadBase, Decide, WriteState, Sign, Send,
              MarkSubmitted, WorkerFault, Crash, Throw, SendFails, ledgers
<1>2. CASE ApiStep
  BY <1>2 DEF ApiStep, BeginPresign, BeginRevoke, BeginReview, BeginTransition, Begin,
              WriteRow, BeginSubmit, SubmitSpend, ledgers
<1>3. CASE PearlStep
  BY <1>3 DEF PearlStep, Fund, IndexFunding, IndexConfirmations, SellerRefunds, Mine,
              IndexSpend, Reorg, Elsewhere
<1>4. CASE Tick \/ UNCHANGED vars
  BY <1>4 DEF Tick, vars, ledgers
<1> QED BY <1>1, <1>2, <1>3, <1>4

-----------------------------------------------------------------------------
(* Type correctness: one lemma for each group of variables *)

\* A freshly accepted trade is well formed.
LEMMA InitTypeInv == Init => TypeInv
<1> SUFFICES ASSUME Init PROVE TypeInv
  OBVIOUS
<1>1. WorkerType
  <2>1. worker = Idle /\ attempts = <<>>
    BY DEF Init
  <2>2. Idle \in WorkerRec /\ Idle.pc = "idle" /\ Idle.todo = {}
    BY DEF Idle, NoRow, WorkerRec
  <2>3. attempts \in Seq(Attempts)
    BY <2>1
  <2> QED BY <2>1, <2>2, <2>3 DEF WorkerType
<1>2. RowType
  BY DEF Init, RowType, Rows, ApiRec, NoCall, NoRow, OpenStates, States
<1>3. LedgerType
  BY DEF Init, LedgerType, ProofRec, Observed, Statuses
<1>4. RestType
  <2>1. now = 0 /\ reserved = FALSE
    BY DEF Init
  <2>2. now \in 0..MaxTime
    BY <2>1, SettlementAssumption DEF SettlementAssumption
  <2>3. reserved \in BOOLEAN
    BY <2>1
  <2> QED BY <2>2, <2>3 DEF RestType
<1> QED BY <1>1, <1>2, <1>3, <1>4 DEF TypeInv

\* What is left to send is a well-formed iteration.
LEMMA SendingType ==
  ASSUME NEW todo \in SUBSET Nat
  PROVE  /\ Sending(todo) \in WorkerRec
         /\ Sending(todo).pc \in {"idle", "send"}
         /\ Sending(todo).todo = todo
BY DEF Sending, Idle, NoRow, WorkerRec

\* What is ready to be sent has not been submitted.
LEMMA ReadyType ==
  ASSUME NEW list \in Seq(Attempts)
  PROVE  /\ Ready(list) \subseteq {i \in DOMAIN list : list[i] # "submitted"}
         /\ Ready(list) \in SUBSET Nat
BY DEF Ready, Attempts

\* Every step of the worker, or around it, keeps its record and its attempts well formed.
LEMMA WorkerTypeStep == TypeInv /\ [Next]_vars => WorkerType'
<1> SUFFICES ASSUME TypeInv, [Next]_vars PROVE WorkerType'
  OBVIOUS
<1> USE DEF TypeInv
<1>1. /\ Ready(attempts) \subseteq Pending
      /\ Ready(attempts) \in SUBSET Nat
  BY ReadyType DEF WorkerType, Pending
<1>2. /\ Sending(Ready(attempts)) \in WorkerRec
      /\ Sending(Ready(attempts)).pc \in {"idle", "send"}
      /\ Sending(Ready(attempts)).todo = Ready(attempts)
  BY <1>1, SendingType
<1>3. ASSUME attempts' = attempts, worker' = Sending(Ready(attempts)) PROVE WorkerType'
  BY <1>1, <1>2, <1>3 DEF WorkerType, Pending
<1>4. ASSUME attempts' = attempts, worker' = Idle PROVE WorkerType'
  BY <1>4 DEF WorkerType, WorkerRec, Idle, NoRow, Pending
<1>5. CASE UNCHANGED <<worker, attempts>>
  BY <1>5 DEF WorkerType, Pending
<1>6. CASE ListTrades
  <2>1. CASE trade.state \in TerminalStates
    BY <1>3, <1>6, <2>1 DEF ListTrades
  <2>2. CASE trade.state \notin TerminalStates
    <3>1. worker' = [Idle EXCEPT !.row = trade, !.due = now >= RefundAvailableAt, !.pc = "read"]
      BY <1>6, <2>2 DEF ListTrades
    <3>2. trade \in Rows /\ (now >= RefundAvailableAt) \in BOOLEAN
      BY DEF RowType
    <3>3. attempts' = attempts
      BY <1>6 DEF ListTrades
    <3> QED BY <3>1, <3>2, <3>3 DEF WorkerType, WorkerRec, Idle, NoRow, Pending
  <2> QED BY <2>1, <2>2
<1>7. CASE ReadPearl
  <2>1. PearlView \in PearlViews /\ proof.late \in BOOLEAN
    BY DEF PearlView, PearlViews, LedgerType, ProofRec
  <2> QED BY <1>7, <2>1 DEF ReadPearl, WorkerType, WorkerRec, Pending
<1>8. CASE ReadBase
  <2>1. BaseView \in Statuses \cup {"", "stale"}
    BY DEF BaseView, LedgerType
  <2> QED BY <1>8, <2>1 DEF ReadBase, WorkerType, WorkerRec, Pending
<1>9. CASE Decide
  <2>1. \/ /\ worker' = [Idle EXCEPT !.pc = "write", !.row = trade,
                                     !.action = Decision(Snapshot)]
           /\ Decision(Snapshot) \in DOMAIN ToState
        \/ worker' = Sending(Ready(attempts))
    BY <1>9 DEF Decide
  <2>2. attempts' = attempts
    BY <1>9 DEF Decide
  <2>3. trade \in Rows /\ Decision(Snapshot) \in Actions
    BY DecisionRule DEF RowType
  <2>4. CASE /\ worker' = [Idle EXCEPT !.pc = "write", !.row = trade,
                                      !.action = Decision(Snapshot)]
             /\ Decision(Snapshot) \in DOMAIN ToState
    BY <2>2, <2>3, <2>4 DEF WorkerType, WorkerRec, Idle, NoRow, Pending
  <2> QED BY <1>3, <2>1, <2>2, <2>4
<1>10. CASE WriteState
  <2>1. CASE worker' = [Idle EXCEPT !.pc = "sign"]
    BY <1>10, <2>1 DEF WriteState, WorkerType, WorkerRec, Idle, NoRow, Pending
  <2> QED BY <1>3, <1>10, <2>1 DEF WriteState
<1>11. CASE Sign
  <2>1. attempts' \in Seq(Attempts) /\ worker' = Sending(Ready(attempts'))
    BY <1>11 DEF Sign, WorkerType, Attempts
  <2>2. /\ Ready(attempts') \subseteq {i \in DOMAIN attempts' : attempts'[i] # "submitted"}
        /\ Ready(attempts') \in SUBSET Nat
    BY <2>1, ReadyType
  <2>3. /\ worker' \in WorkerRec /\ worker'.pc \in {"idle", "send"}
        /\ worker'.todo = Ready(attempts')
    BY <2>1, <2>2, SendingType
  <2> QED BY <2>1, <2>2, <2>3 DEF WorkerType, Pending
\* An attempt leaves the list of those to send and changes its status.
<1>12. ASSUME NEW i \in worker.todo, NEW status \in Attempts,
              attempts' = [attempts EXCEPT ![i] = status],
              worker' = Sending(worker.todo \ {i})
       PROVE  WorkerType'
  <2>1. worker.todo \ {i} \in SUBSET Nat
    BY DEF WorkerType, WorkerRec
  <2>2. /\ worker' \in WorkerRec /\ worker'.pc \in {"idle", "send"}
        /\ worker'.todo = worker.todo \ {i}
    BY <1>12, <2>1, SendingType
  <2>3. attempts' \in Seq(Attempts) /\ DOMAIN attempts' = DOMAIN attempts
    BY <1>12, ExceptSeq DEF WorkerType, Pending
  <2>4. \A j \in DOMAIN attempts : j # i => attempts'[j] = attempts[j]
    BY <1>12 DEF WorkerType
  <2>5. worker'.todo \subseteq Pending'
    BY <2>2, <2>3, <2>4 DEF WorkerType, Pending
  <2> QED BY <2>2, <2>3, <2>5 DEF WorkerType
<1>13. ASSUME NEW i \in DOMAIN attempts, Send(i) \/ MarkSubmitted(i) \/ SendFails(i)
       PROVE  WorkerType'
  <2>1. CASE attempts' = attempts /\ worker' = [worker EXCEPT !.pc = "sent"]
    BY <2>1 DEF WorkerType, WorkerRec, Pending
  <2>2. \/ attempts' = attempts /\ worker' = [worker EXCEPT !.pc = "sent"]
        \/ /\ i \in worker.todo
           /\ worker' = Sending(worker.todo \ {i})
           /\ \/ attempts' = [attempts EXCEPT ![i] = "failed"]
              \/ attempts' = [attempts EXCEPT ![i] = "submitted"]
    BY <1>13 DEF Send, MarkSubmitted, SendFails
  <2> QED BY <1>12, <2>1, <2>2 DEF Attempts
<1>14. CASE Crash \/ Throw
  BY <1>4, <1>14 DEF Crash, Throw
<1>15. UNCHANGED <<worker, attempts>> \/ ListTrades \/ ReadPearl \/ ReadBase \/ Decide
       \/ WriteState \/ Sign \/ Crash \/ Throw
       \/ \E i \in DOMAIN attempts : Send(i) \/ MarkSubmitted(i) \/ SendFails(i)
  BY WorkerFrame DEF Next, WorkerStep, WorkerFault
<1> QED BY <1>5, <1>6, <1>7, <1>8, <1>9, <1>10, <1>11, <1>13, <1>14, <1>15

\* A row is written only by the worker, from one it has read, and by an API call.
LEMMA RowTypeStep == TypeInv /\ [Next]_vars => RowType'
<1> SUFFICES ASSUME TypeInv, [Next]_vars PROVE RowType'
  OBVIOUS
<1>1. WorkerType /\ RowType
  BY DEF TypeInv
<1>2. CASE UNCHANGED <<trade, api>>
  BY <1>1, <1>2 DEF RowType
<1>3. CASE WriteState
  <2>1. worker.row \in Rows /\ worker.action \in DOMAIN ToState
    BY <1>1, <1>3 DEF WriteState, WorkerType
  <2>2. ToState[worker.action] \in OpenStates \cup TerminalStates
    BY <2>1 DEF ToState, OpenStates, TerminalStates
  <2>3. trade' = [worker.row EXCEPT !.state = ToState[worker.action]] /\ api' = api
    BY <1>3 DEF WriteState, apiVars
  <2>4. trade' \in Rows
    BY <2>1, <2>2, <2>3 DEF Rows
  <2> QED BY <1>1, <2>3, <2>4 DEF RowType
<1>4. CASE WriteRow
  <2>1. api.row \in Rows /\ api.to \in States
    BY <1>1, <1>4 DEF WriteRow, RowType, Presig
  <2>2. api.op \in DOMAIN Presig
    BY <1>4 DEF WriteRow
  <2>3. Presig[api.op] \in {"none", "active", "revoked"}
    BY <2>1, <2>2 DEF Presig, Rows
  <2>4. /\ trade' = [api.row EXCEPT !.state = api.to, !.presig = Presig[api.op]]
        /\ api' = NoCall
    BY <1>4 DEF WriteRow
  <2>5. trade' \in Rows
    BY <2>1, <2>3, <2>4 DEF Rows, States
  <2>6. api' \in ApiRec /\ api'.op = "none"
    BY <2>4 DEF ApiRec, NoCall, NoRow
  <2> QED BY <2>5, <2>6 DEF RowType
<1>5. ASSUME trade' = trade, NEW op \in {"presign", "revoke", "review", "transition",
              "release", "refund"}, NEW to \in States,
             api' = [op |-> op, row |-> trade, to |-> to]
      PROVE  RowType'
  BY <1>1, <1>5 DEF RowType, ApiRec
<1>6. trade.state \in States
  BY <1>1 DEF RowType, Rows, States
<1>7. CASE BeginPresign \/ BeginRevoke
  BY <1>5, <1>6, <1>7 DEF BeginPresign, BeginRevoke, Begin
<1>8. CASE BeginReview
  BY <1>5, <1>8 DEF BeginReview, Begin, States, TerminalStates
<1>9. ASSUME NEW to \in Targets, BeginTransition(to) PROVE RowType'
  <2>1. to \in States
    BY <1>9 DEF BeginTransition, Evidence, States, OpenStates
  <2> QED BY <1>5, <1>9, <2>1 DEF BeginTransition, Begin
<1>10. ASSUME NEW kind \in DOMAIN SubmitState, BeginSubmit(kind) PROVE RowType'
  <2>1. kind \in {"release", "refund"}
    BY DEF SubmitState
  <2> QED BY <1>5, <1>6, <1>10, <2>1 DEF BeginSubmit
<1>11. CASE SubmitSpend
  BY <1>1, <1>11 DEF SubmitSpend, RowType, ApiRec, NoCall, NoRow
<1>12. UNCHANGED <<trade, api>> \/ WriteState \/ ApiStep
  BY RowFrame DEF Next
<1> QED BY <1>2, <1>3, <1>4, <1>7, <1>8, <1>9, <1>10, <1>11, <1>12 DEF ApiStep

\* Pearl and Base steps, and sends, keep the ledgers well formed.
LEMMA LedgerTypeStep == TypeInv /\ [Next]_vars => LedgerType'
<1> SUFFICES ASSUME TypeInv, [Next]_vars PROVE LedgerType'
  OBVIOUS
<1>1. LedgerType
  BY DEF TypeInv
<1>2. CASE UNCHANGED ledgers
  BY <1>1, <1>2 DEF ledgers, LedgerType, Observed
<1>3. ASSUME NEW kind \in {"release", "refund"}, mempool' = {kind},
             UNCHANGED <<chain, proof, base>>
      PROVE  LedgerType'
  BY <1>1, <1>3 DEF LedgerType, Observed
<1>4. ASSUME NEW i, Send(i) PROVE LedgerType'
  BY <1>2, <1>3, <1>4 DEF Send, ledgers
<1>5. CASE SubmitSpend
  BY <1>2, <1>3, <1>5 DEF SubmitSpend, SubmitState, ledgers
<1>6. CASE PearlStep
  <2>1. base' = base
    BY <1>6 DEF PearlStep, Fund, IndexFunding, IndexConfirmations, SellerRefunds, Mine,
                IndexSpend, Reorg, Elsewhere
  <2> USE <1>1, <2>1 DEF LedgerType, ProofRec, Observed, Pearl
  <2>2. ASSUME NEW amount, Fund(amount) PROVE LedgerType'
    BY <2>2 DEF Fund
  <2>3. CASE IndexFunding
    <3> DEFINE late == now > FundingDeadline
    <3>1. late \in BOOLEAN
      OBVIOUS
    <3>2. /\ chain = "funded"
          /\ chain' = chain /\ mempool' = mempool
          /\ proof' = [proof EXCEPT !.match = "pending", !.late = late]
      BY <2>3 DEF IndexFunding
    <3> HIDE DEF late
    <3> QED BY <3>1, <3>2
  <2>4. CASE IndexConfirmations
    BY <2>4 DEF IndexConfirmations
  <2>5. CASE SellerRefunds
    BY <2>5 DEF SellerRefunds
  <2>6. CASE Mine
    BY <2>6 DEF Mine, Mined
  <2>7. ASSUME NEW kind \in DOMAIN Mined, IndexSpend(kind) PROVE LedgerType'
    BY <2>7 DEF IndexSpend, Mined
  <2>8. CASE Reorg
    BY <2>8 DEF Reorg, Detached, Mined
  <2> QED BY <1>6, <2>2, <2>3, <2>4, <2>5, <2>6, <2>7, <2>8 DEF PearlStep
<1>7. CASE BaseStep
  <2>1. ASSUME NEW from, NEW to \in Statuses, SetBase(from, to) PROVE LedgerType'
    BY <1>1, <2>1 DEF SetBase, LedgerType, Observed
  <2> QED BY <1>7, <2>1 DEF BaseStep, BaseCreate, BaseDeposit, BaseCancel, BaseRefund,
                       BaseRelease, Statuses
<1>8. UNCHANGED ledgers \/ (\E i \in DOMAIN attempts : Send(i)) \/ SubmitSpend
      \/ PearlStep \/ BaseStep
  BY LedgerFrame DEF Next
<1> QED BY <1>2, <1>4, <1>5, <1>6, <1>7, <1>8

\* The clock stays within its bound.
LEMMA RestTypeStep == TypeInv /\ [Next]_vars => RestType'
<1> SUFFICES ASSUME TypeInv, [Next]_vars PROVE RestType'
  OBVIOUS
<1>1. now \in 0..MaxTime /\ reserved \in BOOLEAN
  BY DEF TypeInv, RestType
<1>2. now' \in 0..MaxTime
  <2>1. now' = now \/ Tick
    BY ClockFrame DEF Next
  <2>2. CASE Tick
    BY <1>1, <2>2, SettlementAssumption DEF Tick, SettlementAssumption
  <2> QED BY <1>1, <2>1, <2>2
<1>3. reserved' \in BOOLEAN
  <2>1. reserved' = reserved \/ \E kind \in DOMAIN SubmitState : BeginSubmit(kind)
    BY ClockFrame DEF Next
  <2> QED BY <1>1, <2>1 DEF BeginSubmit
<1> QED BY <1>2, <1>3 DEF RestType

\* The typed invariant holds of every reachable state.
THEOREM TypeInvHolds == Spec => []TypeInv
<1>1. TypeInv /\ [Next]_vars => TypeInv'
  BY WorkerTypeStep, RowTypeStep, LedgerTypeStep, RestTypeStep DEF TypeInv
<1> QED BY InitTypeInv, <1>1, PTL DEF Spec

\* In every reachable state the row, the two ledgers, the worker and the call in
\* flight are well formed, a row about to be written was read, no submitted
\* attempt is sent again and no live observation outlives its output.
THEOREM TypeOKHolds == Spec => []TypeOK
BY TypeInvHolds, TypeInvIsType, PTL

-----------------------------------------------------------------------------
(* PRL goes to the buyer only after the buyer's deposit.  The stale rows and  *)
(* reads in flight count as well: the invariant follows each of them back to  *)
(* a read of the Base escrow that found the deposit.                          *)

Lock == base \in {"deposited", "released", "refunded"}

WorkerCommitted ==
  \/ attempts # <<>>
  \/ worker.base = "deposited"
  \/ worker.pc = "write" /\ worker.action = "prepare_prl_release"
  \/ worker.pc = "sign"
RowCommitted ==
  \/ trade.state = "release_pending"
  \/ api.op # "none" /\ api.to = "release_pending"
  \/ api.op = "release"
PearlCommitted == "release" \in mempool \/ chain = "released"

LockInv == WorkerCommitted \/ RowCommitted \/ PearlCommitted => Lock

\* A deposit made is not unmade: the Base escrow only goes on to release or refund.
LEMMA LockStable == Lock /\ [Next]_vars => Lock'
<1>1. ASSUME [Next]_vars PROVE UNCHANGED base \/ BaseStep
  BY <1>1, BaseFrame DEF Next
<1>2. ASSUME Lock, BaseStep PROVE Lock'
  BY <1>2 DEF Lock, BaseStep, BaseCreate, BaseDeposit, BaseCancel, BaseRefund, BaseRelease,
              SetBase
<1> QED BY <1>1, <1>2 DEF Lock

\* Nothing is committed before the trade starts.
LEMMA InitLockInv == Init => LockInv
<1>1. ASSUME Init PROVE ~WorkerCommitted
  BY <1>1 DEF Init, WorkerCommitted, Idle
<1>2. ASSUME Init PROVE ~RowCommitted
  BY <1>2 DEF Init, RowCommitted, NoCall
<1>3. ASSUME Init PROVE ~PearlCommitted
  BY <1>3 DEF Init, PearlCommitted
<1> QED BY <1>1, <1>2, <1>3 DEF LockInv

\* The worker heads for a release only from a read of Base that found the deposit.
LEMMA WorkerCommits ==
  TypeInv /\ LockInv /\ [Next]_vars /\ WorkerCommitted' => Lock \/ Lock'
<1> SUFFICES ASSUME TypeInv, LockInv, [Next]_vars, ~Lock PROVE ~WorkerCommitted'
  OBVIOUS
<1>1. ~WorkerCommitted /\ ~RowCommitted
  BY DEF LockInv
<1>2. /\ attempts = <<>> /\ worker.base # "deposited" /\ worker.pc # "sign"
      /\ worker.pc = "write" => worker.action # "prepare_prl_release"
  BY <1>1 DEF WorkerCommitted
<1>3. ASSUME attempts' = attempts, NEW todo, worker' = Sending(todo) PROVE ~WorkerCommitted'
  BY <1>2, <1>3 DEF WorkerCommitted, Sending, Idle
<1>4. CASE UNCHANGED <<worker, decided, attempts>>
  BY <1>1, <1>4 DEF WorkerCommitted
<1>5. CASE ListTrades
  <2>1. CASE trade.state \in TerminalStates
    BY <1>3, <1>5, <2>1 DEF ListTrades
  <2>2. CASE trade.state \notin TerminalStates
    BY <1>2, <1>5, <2>2 DEF ListTrades, WorkerCommitted, Idle
  <2> QED BY <2>1, <2>2
<1>6. CASE ReadPearl
  BY <1>2, <1>6 DEF ReadPearl, WorkerCommitted, TypeInv, WorkerType, WorkerRec
<1>7. CASE ReadBase
  <2>1. BaseView # "deposited"
    BY DEF BaseView, Lock
  <2> QED BY <1>2, <1>7, <2>1 DEF ReadBase, WorkerCommitted, TypeInv, WorkerType, WorkerRec
<1>8. CASE Decide
  <2>1. Decision(Snapshot) # "prepare_prl_release"
    BY <1>2, DecisionRule DEF ReleaseAllowed, Snapshot
  <2> QED BY <1>2, <1>3, <1>8, <2>1 DEF Decide, WorkerCommitted, Idle
<1>9. CASE WriteState
  BY <1>2, <1>3, <1>9 DEF WriteState
<1>10. CASE Crash \/ Throw
  <2>1. attempts' = attempts /\ worker' = Idle
    BY <1>10 DEF Crash, Throw
  <2> QED BY <1>2, <2>1 DEF WorkerCommitted, Idle
<1>11. ~Sign /\ ~\E i \in DOMAIN attempts : Send(i) \/ MarkSubmitted(i) \/ SendFails(i)
  BY <1>2 DEF Sign
<1> QED BY <1>4, <1>5, <1>6, <1>7, <1>8, <1>9, <1>10, <1>11, WorkerFrame
        DEF Next, WorkerStep, WorkerFault

\* Only the worker moves the row to release_pending, so a release call finds a deposit too.
LEMMA RowCommits ==
  TypeInv /\ LockInv /\ [Next]_vars /\ RowCommitted' => Lock \/ Lock'
<1> SUFFICES ASSUME TypeInv, LockInv, [Next]_vars, ~Lock PROVE ~RowCommitted'
  OBVIOUS
<1>1. ~WorkerCommitted /\ ~RowCommitted
  BY DEF LockInv
<1>2. CASE UNCHANGED <<trade, api>>
  BY <1>1, <1>2 DEF RowCommitted
<1>3. CASE WriteState
  <2>1. worker.row \in Rows /\ worker.action \in DOMAIN ToState
    BY <1>3 DEF WriteState, TypeInv, WorkerType
  <2>2. worker.action # "prepare_prl_release"
    BY <1>1, <1>3 DEF WorkerCommitted, WriteState
  <2>3. ToState[worker.action] # "release_pending"
    BY <2>1, <2>2 DEF ToState
  <2>4. trade'.state # "release_pending" /\ api' = api
    BY <1>3, <2>1, <2>3 DEF WriteState, apiVars, Rows
  <2> QED BY <1>1, <2>4 DEF RowCommitted
<1>4. CASE WriteRow
  <2>1. api.row \in Rows /\ api.to # "release_pending"
    BY <1>1, <1>4 DEF WriteRow, Presig, RowCommitted, TypeInv, RowType
  <2>2. trade'.state = api.to /\ api' = NoCall
    BY <1>4, <2>1 DEF WriteRow, Rows
  <2> QED BY <2>1, <2>2 DEF RowCommitted, NoCall
<1>5. CASE SubmitSpend
  BY <1>1, <1>5 DEF SubmitSpend, RowCommitted, NoCall
<1>6. ASSUME NEW op, NEW to, trade' = trade, api' = [op |-> op, row |-> trade, to |-> to],
             op # "release", to # "release_pending"
      PROVE  ~RowCommitted'
  BY <1>1, <1>6 DEF RowCommitted
<1>7. trade.state # "release_pending"
  BY <1>1 DEF RowCommitted
<1>8. CASE BeginPresign \/ BeginRevoke \/ BeginReview
  BY <1>6, <1>7, <1>8 DEF BeginPresign, BeginRevoke, BeginReview, Begin
<1>9. ASSUME NEW to \in Targets, BeginTransition(to) PROVE ~RowCommitted'
  <2>1. to # "release_pending"
    BY <1>9 DEF BeginTransition, Evidence
  <2> QED BY <1>6, <1>9, <2>1 DEF BeginTransition, Begin
<1>10. ASSUME NEW kind \in DOMAIN SubmitState, BeginSubmit(kind) PROVE ~RowCommitted'
  <2>1. kind # "release"
    BY <1>7, <1>10 DEF BeginSubmit, SubmitState
  <2> QED BY <1>6, <1>7, <1>10, <2>1 DEF BeginSubmit
<1> QED BY <1>2, <1>3, <1>4, <1>5, <1>8, <1>9, <1>10, RowFrame DEF Next, ApiStep

\* A release reaches the mempool only from an attempt or a release call.
LEMMA PearlCommits ==
  TypeInv /\ LockInv /\ [Next]_vars /\ PearlCommitted' => Lock \/ Lock'
<1> SUFFICES ASSUME TypeInv, LockInv, [Next]_vars, ~Lock PROVE ~PearlCommitted'
  OBVIOUS
<1>1. ~WorkerCommitted /\ ~RowCommitted /\ ~PearlCommitted
  BY DEF LockInv
<1>2. CASE UNCHANGED <<mempool, chain>>
  BY <1>1, <1>2 DEF PearlCommitted
<1>3. ~\E i \in DOMAIN attempts : Send(i)
  BY <1>1 DEF WorkerCommitted
<1>4. CASE SubmitSpend
  <2>1. api.op # "release" /\ chain' = chain
    BY <1>1, <1>4 DEF SubmitSpend, RowCommitted
  <2> QED BY <1>1, <1>4, <2>1 DEF SubmitSpend, PearlCommitted
<1>5. CASE PearlStep
  <2> USE <1>1 DEF PearlCommitted, Pearl
  <2>1. ASSUME NEW amount, Fund(amount) PROVE ~PearlCommitted'
    BY <2>1 DEF Fund
  <2>2. CASE IndexFunding \/ IndexConfirmations
    BY <2>2 DEF IndexFunding, IndexConfirmations
  <2>3. CASE SellerRefunds
    BY <2>3 DEF SellerRefunds
  <2>4. CASE Mine
    <3>1. \A kind \in mempool : Mined[kind] # "released"
      BY DEF TypeInv, LedgerType, Mined
    <3> QED BY <2>4, <3>1 DEF Mine
  <2>5. ASSUME NEW kind, IndexSpend(kind) PROVE ~PearlCommitted'
    BY <2>5 DEF IndexSpend
  <2>6. CASE Reorg
    BY <2>6 DEF Reorg, Mined
  <2> QED BY <1>5, <2>1, <2>2, <2>3, <2>4, <2>5, <2>6 DEF PearlStep
<1>6. CASE BaseStep
  BY <1>2, <1>6 DEF BaseStep, BaseCreate, BaseDeposit, BaseCancel, BaseRefund, BaseRelease,
                    SetBase
<1> QED BY <1>2, <1>3, <1>4, <1>5, <1>6, LedgerFrame DEF Next, ledgers

\* Every commitment to a release, in flight or done, follows a deposit.
THEOREM LockInvHolds == Spec => []LockInv
<1>1. TypeInv /\ LockInv /\ [Next]_vars => LockInv'
  BY LockStable, WorkerCommits, RowCommits, PearlCommits DEF LockInv
<1> QED BY InitLockInv, TypeInvHolds, <1>1, PTL DEF Spec

\* The PRL leaves for the buyer, or is signed for it, only once the Base escrow
\* has held the buyer's USDC, however stale the row the worker or a call writes.
THEOREM ReleaseNeedsDepositHolds == Spec => []ReleaseNeedsDeposit
<1>1. LockInv => ReleaseNeedsDeposit
  BY DEF LockInv, WorkerCommitted, PearlCommitted, Lock, ReleaseNeedsDeposit
<1> QED BY <1>1, LockInvHolds, PTL

-----------------------------------------------------------------------------
(* A recorded end was observed.  Spends are never forgotten by the indexer and *)
(* a released Base escrow stays released, so what a stale read of them claims  *)
(* is still true when the row is written.                                      *)

BaseReleased == base = "released"
Spent(kind) == kind \in proof.spends
EndSeen(state) ==
  /\ state = "released" => BaseReleased /\ Spent("release")
  /\ state = "refunded" => Spent("refund")

WorkerEnds ==
  /\ worker.base = "released" => BaseReleased
  /\ worker.pearl = "released" => Spent("release")
  /\ worker.pearl = "refunded" => Spent("refund")
  /\ worker.pc = "write" => EndSeen(ToState[worker.action])
RowEnds ==
  /\ EndSeen(trade.state)
  /\ api.op # "none" => EndSeen(api.to)
EndInv == WorkerEnds /\ RowEnds

\* What ends a trade on either chain stays true.
LEMMA EndStable ==
  TypeInv /\ [Next]_vars =>
    /\ BaseReleased => BaseReleased'
    /\ \A kind : Spent(kind) => Spent(kind)'
    /\ \A state : EndSeen(state) => EndSeen(state)'
<1> SUFFICES ASSUME TypeInv, [Next]_vars
             PROVE  /\ BaseReleased => BaseReleased'
                    /\ \A kind : Spent(kind) => Spent(kind)'
  BY DEF EndSeen
<1>1. BaseReleased => BaseReleased'
  <2>1. base' = base \/ BaseStep
    BY BaseFrame DEF Next
  <2> QED BY <2>1 DEF BaseReleased, BaseStep, BaseCreate, BaseDeposit, BaseCancel,
                      BaseRefund, BaseRelease, SetBase
<1>2. ASSUME NEW kind, Spent(kind) PROVE Spent(kind)'
  <2>1. CASE proof' = proof
    BY <1>2, <2>1 DEF Spent
  <2>2. CASE PearlStep
    <3>1. proof \in ProofRec
      BY DEF TypeInv, LedgerType
    <3>2. CASE IndexFunding
      BY <1>2, <3>1, <3>2 DEF IndexFunding, Pearl, Spent, ProofRec
    <3>3. CASE IndexConfirmations
      BY <1>2, <3>1, <3>3 DEF IndexConfirmations, Pearl, Spent, ProofRec
    <3>4. ASSUME NEW k, IndexSpend(k) PROVE Spent(kind)'
      BY <1>2, <3>1, <3>4 DEF IndexSpend, Pearl, Spent, ProofRec
    <3>5. CASE Reorg
      BY <1>2, <3>1, <3>5 DEF Reorg, Pearl, Spent, ProofRec
    <3>6. CASE (\E amount \in Amounts : Fund(amount)) \/ SellerRefunds \/ Mine
      BY <2>1, <3>6 DEF Fund, SellerRefunds, Mine, Pearl
    <3> QED BY <2>2, <3>2, <3>3, <3>4, <3>5, <3>6 DEF PearlStep
  <2>3. proof' = proof \/ PearlStep
    <3>1. ASSUME UNCHANGED ledgers PROVE proof' = proof
      BY <3>1 DEF ledgers
    <3>2. ASSUME BaseStep PROVE proof' = proof
      BY <3>2 DEF BaseStep, BaseCreate, BaseDeposit, BaseCancel, BaseRefund, BaseRelease,
                  SetBase
    <3>3. ASSUME (\E i \in DOMAIN attempts : Send(i)) \/ SubmitSpend PROVE proof' = proof
      BY <3>3 DEF Send, SubmitSpend
    <3> QED BY <3>1, <3>2, <3>3, LedgerFrame DEF Next
  <2> QED BY <2>1, <2>2, <2>3
<1> QED BY <1>1, <1>2

\* A freshly accepted trade has not ended.
LEMMA InitEndInv == Init => EndInv
<1> SUFFICES ASSUME Init PROVE EndInv
  OBVIOUS
<1>1. worker = Idle /\ trade.state = "pearl_escrow_pending" /\ api = NoCall
  BY DEF Init
<1> QED BY <1>1 DEF EndInv, WorkerEnds, RowEnds, EndSeen, Idle, NoCall

\* The worker writes an end only after its snapshot has shown it.
LEMMA WorkerEndsStep == TypeInv /\ EndInv /\ [Next]_vars => WorkerEnds'
<1> SUFFICES ASSUME TypeInv, EndInv, [Next]_vars PROVE WorkerEnds'
  OBVIOUS
<1>1. WorkerEnds
  BY DEF EndInv
<1>2. ASSUME NEW pc \in {"idle", "sign", "send"}, worker'.pc = pc,
             worker'.base = "", worker'.pearl = ""
      PROVE  WorkerEnds'
  BY <1>2 DEF WorkerEnds
<1>3. ASSUME NEW todo, worker' = Sending(todo) PROVE WorkerEnds'
  BY <1>2, <1>3 DEF Sending, Idle
<1>4. CASE UNCHANGED <<worker, decided, attempts>>
  BY <1>1, <1>4, EndStable DEF WorkerEnds
<1>5. CASE ListTrades
  <2>1. CASE trade.state \in TerminalStates
    BY <1>3, <1>5, <2>1 DEF ListTrades
  <2>2. CASE trade.state \notin TerminalStates
    BY <1>5, <2>2 DEF ListTrades, WorkerEnds, Idle
  <2> QED BY <2>1, <2>2
<1>6. CASE ReadPearl
  <2>1. /\ PearlView = "released" => Spent("release")
        /\ PearlView = "refunded" => Spent("refund")
    BY DEF PearlView, Spent
  <2>2. /\ worker'.pc = "read" /\ worker'.pearl = PearlView
        /\ worker'.base = worker.base
    BY <1>6 DEF ReadPearl, TypeInv, WorkerType, WorkerRec
  <2> QED BY <1>1, <2>1, <2>2, EndStable DEF WorkerEnds
<1>7. CASE ReadBase
  <2>1. BaseView = "released" => BaseReleased
    BY DEF BaseView, BaseReleased
  <2>2. /\ worker'.pc = "read" /\ worker'.base = BaseView
        /\ worker'.pearl = worker.pearl
    BY <1>7 DEF ReadBase, TypeInv, WorkerType, WorkerRec
  <2> QED BY <1>1, <2>1, <2>2, EndStable DEF WorkerEnds
<1>8. CASE Decide
  <2>1. CASE worker' = Sending(Ready(attempts))
    BY <1>3, <2>1
  <2>2. CASE /\ worker' = [Idle EXCEPT !.pc = "write", !.row = trade,
                                      !.action = Decision(Snapshot)]
             /\ Decision(Snapshot) \in DOMAIN ToState
    <3>1. /\ Decision(Snapshot) = "mark_released" => BaseReleased /\ Spent("release")
          /\ Decision(Snapshot) = "mark_refunded" => Spent("refund")
      BY <1>1, DecisionRule DEF WorkerEnds, Snapshot
    <3>2. EndSeen(ToState[Decision(Snapshot)])
      BY <2>2, <3>1 DEF ToState, EndSeen
    <3>3. /\ worker'.pearl = "" /\ worker'.base = ""
          /\ worker'.action = Decision(Snapshot)
      BY <2>2 DEF Idle
    <3> QED BY <3>2, <3>3, EndStable DEF WorkerEnds
  <2> QED BY <1>8, <2>1, <2>2 DEF Decide
<1>9. CASE WriteState
  <2>1. CASE worker' = [Idle EXCEPT !.pc = "sign"]
    BY <1>2, <2>1 DEF Idle
  <2> QED BY <1>3, <1>9, <2>1 DEF WriteState
<1>10. CASE Sign
  BY <1>3, <1>10 DEF Sign
<1>11. CASE Crash \/ Throw
  <2>1. worker' = Idle
    BY <1>11 DEF Crash, Throw
  <2> QED BY <1>2, <2>1 DEF Idle
<1>12. ASSUME NEW i \in DOMAIN attempts, Send(i) \/ MarkSubmitted(i) \/ SendFails(i)
       PROVE  WorkerEnds'
  <2>1. CASE worker' = [worker EXCEPT !.pc = "sent"]
    <3>1. /\ worker'.pc = "sent" /\ worker'.base = worker.base
          /\ worker'.pearl = worker.pearl
      BY <2>1 DEF TypeInv, WorkerType, WorkerRec
    <3> QED BY <1>1, <3>1, EndStable DEF WorkerEnds
  <2> QED BY <1>3, <1>12, <2>1 DEF Send, MarkSubmitted, SendFails
<1> QED BY <1>4, <1>5, <1>6, <1>7, <1>8, <1>9, <1>10, <1>11, <1>12, WorkerFrame
        DEF Next, WorkerStep, WorkerFault

\* Rows written by the worker or by a call carry only ends that were seen.
LEMMA RowEndsStep == TypeInv /\ EndInv /\ [Next]_vars => RowEnds'
<1> SUFFICES ASSUME TypeInv, EndInv, [Next]_vars PROVE RowEnds'
  OBVIOUS
<1>1. RowEnds /\ WorkerEnds
  BY DEF EndInv
<1>2. CASE UNCHANGED <<trade, api>>
  BY <1>1, <1>2, EndStable DEF RowEnds
<1>3. CASE WriteState
  <2>1. worker.row \in Rows /\ worker.action \in DOMAIN ToState
    BY <1>3 DEF WriteState, TypeInv, WorkerType
  <2>2. EndSeen(ToState[worker.action])
    BY <1>1, <1>3 DEF WorkerEnds, WriteState
  <2>3. trade'.state = ToState[worker.action] /\ api' = api
    BY <1>3, <2>1 DEF WriteState, apiVars, Rows
  <2> QED BY <1>1, <2>2, <2>3, EndStable DEF RowEnds
<1>4. CASE WriteRow
  <2>1. api.row \in Rows /\ EndSeen(api.to)
    BY <1>1, <1>4 DEF WriteRow, Presig, RowEnds, TypeInv, RowType
  <2>2. trade'.state = api.to /\ api' = NoCall
    BY <1>4, <2>1 DEF WriteRow, Rows
  <2> QED BY <2>1, <2>2, EndStable DEF RowEnds, NoCall
<1>5. CASE SubmitSpend
  BY <1>1, <1>5, EndStable DEF SubmitSpend, RowEnds, NoCall
<1>6. ASSUME NEW op, NEW to, trade' = trade, api' = [op |-> op, row |-> trade, to |-> to],
             EndSeen(to)
      PROVE  RowEnds'
  BY <1>1, <1>6, EndStable DEF RowEnds
<1>7. EndSeen(trade.state)
  BY <1>1 DEF RowEnds
<1>8. CASE BeginPresign \/ BeginRevoke
  BY <1>6, <1>7, <1>8 DEF BeginPresign, BeginRevoke, Begin
<1>9. CASE BeginReview
  BY <1>6, <1>9 DEF BeginReview, Begin, EndSeen
<1>10. ASSUME NEW to \in Targets, BeginTransition(to) PROVE RowEnds'
  <2>1. EndSeen(to)
    BY <1>10 DEF BeginTransition, Evidence, EndSeen
  <2> QED BY <1>6, <1>10, <2>1 DEF BeginTransition, Begin
<1>11. ASSUME NEW kind \in DOMAIN SubmitState, BeginSubmit(kind) PROVE RowEnds'
  BY <1>6, <1>7, <1>11 DEF BeginSubmit
<1> QED BY <1>2, <1>3, <1>4, <1>5, <1>8, <1>9, <1>10, <1>11, RowFrame DEF Next, ApiStep

\* Every recorded end, and every end about to be recorded, was seen on the chains.
THEOREM EndInvHolds == Spec => []EndInv
<1>1. TypeInv /\ EndInv /\ [Next]_vars => EndInv'
  BY WorkerEndsStep, RowEndsStep DEF EndInv
<1> QED BY InitEndInv, TypeInvHolds, <1>1, PTL DEF Spec

\* Neither a crash nor a stale row records an end the two chains do not show: a
\* released trade has both legs paid, a refunded one the refund of the PRL.
THEOREM SettledAgreeHolds == Spec => []SettledAgree
<1>1. EndInv => SettledAgree
  BY DEF EndInv, RowEnds, EndSeen, BaseReleased, Spent, SettledAgree
<1> QED BY <1>1, EndInvHolds, PTL

-----------------------------------------------------------------------------
(* The Base leg: what PrlUsdcEscrow is proved to do for each of its trades  *)
(* (BaseEscrow) is what this module lets the escrow of its trade do.        *)

Base == INSTANCE BaseEscrow WITH expiry <- RefundAvailableAt, status <- base

\* The escrow of the trade takes every step BaseEscrow allows, whoever makes it; of a
\* release it is assumed that the operator waits until the indexer has shown the PRL
\* release (base in OtcSettlement against the functions of PrlUsdcEscrow.sol).
THEOREM BaseIsItsEscrow ==
  ASSUME TypeOK
  PROVE  BaseStep <=>
           /\ Base!Create \/ Base!Deposit \/ Base!Cancel \/ Base!Release \/ Base!Refund
           /\ base' = "released" => "release" \in proof.spends
           /\ UNCHANGED <<trade, reserved, chain, paid, mempool, proof, workerVars, apiVars, faults>>
<1>1. RefundAvailableAt \in Nat /\ now \in Nat
  <2>1. now \in 0..MaxTime
    BY Zenon DEF TypeOK
  <2> QED BY <2>1, SettlementAssumption
<1>2. BaseCreate <=> /\ Base!Create
                     /\ UNCHANGED <<trade, reserved, chain, paid, mempool, proof, workerVars, apiVars, faults>>
  BY <1>1 DEF BaseCreate, SetBase, Base!Create
<1>3. BaseDeposit <=> /\ Base!Deposit
                      /\ UNCHANGED <<trade, reserved, chain, paid, mempool, proof, workerVars, apiVars, faults>>
  BY DEF BaseDeposit, SetBase, Base!Deposit, Base!Becomes
<1>4. BaseCancel <=> /\ Base!Cancel
                     /\ UNCHANGED <<trade, reserved, chain, paid, mempool, proof, workerVars, apiVars, faults>>
  BY DEF BaseCancel, SetBase, Base!Cancel, Base!Becomes
<1>5. BaseRefund <=> /\ Base!Refund
                     /\ UNCHANGED <<trade, reserved, chain, paid, mempool, proof, workerVars, apiVars, faults>>
  BY DEF BaseRefund, SetBase, Base!Refund, Base!Becomes
<1>6. BaseRelease <=> /\ Base!Release /\ "release" \in proof.spends
                      /\ UNCHANGED <<trade, reserved, chain, paid, mempool, proof, workerVars, apiVars, faults>>
  BY DEF BaseRelease, SetBase, Base!Release, Base!Becomes
<1>7. /\ Base!Create => base' # "released"
      /\ Base!Deposit => base' # "released"
      /\ Base!Cancel => base' # "released"
      /\ Base!Refund => base' # "released"
      /\ Base!Release => base' = "released"
  BY DEF Base!Create, Base!Deposit, Base!Cancel, Base!Refund, Base!Release, Base!Becomes
<1> QED BY <1>2, <1>3, <1>4, <1>5, <1>6, <1>7 DEF BaseStep

\* Nothing else in the settlement of a trade touches its escrow: the whole system,
\* worker, API and Pearl included, implements BaseEscrow (no service signs for Base).
THEOREM SettlementRefinesEscrow == Spec => Base!Spec
<1>1. Init => Base!Init
  BY SettlementAssumption DEF Init, Base!Init
<1>2. TypeOK /\ [Next]_vars => [Base!Next]_<<now, RefundAvailableAt, base>>
  <2> SUFFICES ASSUME TypeOK, [Next]_vars PROVE [Base!Next]_<<now, RefundAvailableAt, base>>
    OBVIOUS
  <2>1. CASE BaseStep
    BY <2>1, BaseIsItsEscrow DEF Base!Next
  <2>2. CASE Tick
    BY <2>2 DEF Tick, ledgers, Base!Next, Base!Tick
  <2>3. CASE WorkerStep \/ WorkerFault \/ ApiStep \/ PearlStep \/ UNCHANGED vars
    <3>1. now' = now \/ Tick
      BY <2>3, ClockFrame
    <3>2. base' = base
      BY <2>3, BaseFrame
    <3>3. CASE now' = now
      BY <3>2, <3>3
    <3> QED BY <2>2, <3>1, <3>3
  <2> QED BY <2>1, <2>2, <2>3 DEF Next
<1> QED BY <1>1, <1>2, TypeOKHolds, PTL DEF Spec, Base!Spec
=============================================================================
