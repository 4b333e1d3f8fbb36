---------------------------- MODULE OtcSettlement ----------------------------
(***************************************************************************)
(* The settlement of one trade: the settlement worker                      *)
(* (services/settlement-worker/src), the calls of the trade API that write *)
(* the same row (services/otc-api/src/trade-service.ts), the Pearl escrow  *)
(* output as the chain and the indexer show it, and the Base escrow.       *)
(*                                                                         *)
(* The worker and the API share the trade row without a lock or a version: *)
(* each reads it, waits for other reads, and writes the whole row back.    *)
(* The worker reads the two chains at different moments and acts on what   *)
(* it read.  One API call is in flight at a time.                          *)
(***************************************************************************)
EXTENDS Integers, Sequences, FiniteSets

CONSTANTS
  FundingDeadline,   \* deadlines.pearlFundingDeadline
  RefundAvailableAt, \* deadlines.refundAvailableAt, also the Base expiry and the CLTV
  Modes,             \* signing modes a trade may be accepted with
  Amounts,           \* what the escrow output may hold: verdicts of the indexer
  FeeCharged,        \* the trade has a USDC fee (OTC_FEE_BPS > 0)
  Targets,           \* states an operator moves the trade to
  MaxTime,           \* bound on the clock
  MaxPresigns,       \* bound on presignatures the buyer submits
  ForksHappen,       \* whether the Pearl chain may reorganise
  MaxFaults          \* bound on crashes, exceptions, failed sends and reorganisations

ASSUME SettlementAssumption ==
  /\ FundingDeadline \in Nat /\ RefundAvailableAt \in Nat
  /\ FundingDeadline <= RefundAvailableAt
  /\ Modes \subseteq {"preauthorized", "manual", "coordinator"}
  /\ Amounts \subseteq {"on_time", "underpaid", "overpaid"}
  /\ FeeCharged \in BOOLEAN /\ ForksHappen \in BOOLEAN
  /\ MaxTime \in Nat /\ MaxPresigns \in Nat /\ MaxFaults \in Nat

VARIABLES
  now,
  trade,     \* the row of otc_trades: state, mode, buyer presignature
  reserved,  \* a pearl_release side effect of the API exists
  chain,     \* the escrow output: unfunded, funded, released or refunded
  paid,      \* what the escrow output holds
  mempool,   \* spends of the escrow output the node has accepted
  proof,     \* the indexer's rows of the watch: match, late (observedAt), spends
  base,      \* status of the Base escrow
  worker,    \* pc and what the iteration still needs of what it has read
  decided,   \* InMemorySettlementDecisionRepository
  attempts,  \* the broadcast attempt file: a sequence of statuses
  api,       \* the API call in flight: op, row read, target state
  presigns, faults

ledgers == <<chain, paid, mempool, proof, base>>
workerVars == <<worker, decided, attempts>>
apiVars == <<api, presigns>>
vars == <<now, trade, reserved, ledgers, workerVars, apiVars, faults>>

-----------------------------------------------------------------------------
(* Trade states (packages/pearl-sdk/src/otc.ts) *)

EdgeStates == {"amount_mismatch", "reorged", "stale_indexer", "unknown_spend"}
ReviewStates == EdgeStates \cup {"late_prl_funding", "usdc_refunded", "prl_release_failed"}
TerminalStates == {"released", "refunded", "cancelled", "failed_manual_review", "quote_expired"}
OpenStates == ReviewStates \cup
  {"pearl_escrow_pending", "pearl_escrow_seen", "pearl_escrow_confirmed",
   "usdc_escrow_pending", "usdc_escrow_confirmed", "release_pending",
   "refund_available", "refund_pending", "disputed"}

\* ALLOWED_TRANSITIONS; every open state may go to manual review.
Forward(from) ==
  LET next == [pearl_escrow_pending |-> {"pearl_escrow_seen", "late_prl_funding", "cancelled"},
               pearl_escrow_seen |-> {"pearl_escrow_confirmed", "pearl_escrow_pending", "late_prl_funding"},
               pearl_escrow_confirmed |-> {"usdc_escrow_pending", "refund_available"},
               usdc_escrow_pending |-> {"usdc_escrow_confirmed", "refund_available", "usdc_refunded"},
               usdc_escrow_confirmed |-> {"release_pending", "usdc_refunded"},
               release_pending |-> {"released", "prl_release_failed"},
               refund_available |-> {"refund_pending", "usdc_refunded"},
               refund_pending |-> {"refunded", "usdc_refunded"},
               disputed |-> {"release_pending", "refund_available"}]
  IN  IF from \in DOMAIN next THEN next[from] ELSE {}

CanTransition(from, to) ==
  \/ to \in Forward(from)
  \/ to = "failed_manual_review" /\ from \in OpenStates
  \/ to = "disputed" /\ from \in OpenStates \ (ReviewStates \cup {"disputed"})
  \/ /\ to \in EdgeStates
     /\ from \in OpenStates \ (ReviewStates \cup {"refund_available", "refund_pending", "disputed"})

-----------------------------------------------------------------------------
(* What the worker sees of the two chains *)

Observed == proof.match \notin {"none", "detached"}

\* projectPearlIndexedProof and projectIndexedProofToState: the classification
\* and the match status of the observation play no part.
PearlView ==
  IF "release" \in proof.spends THEN "released"
  ELSE IF "refund" \in proof.spends THEN "refunded"
  ELSE IF ~Observed THEN "missing"
  ELSE IF proof.match = "pending" THEN "seen" ELSE "confirmed"

\* findBaseEscrowStateMismatch compares the amount of the contract's row, which
\* excludes the fee, with expectedAmountMicros, which includes it.
Mismatch == FeeCharged /\ base \in {"deposited", "released", "refunded"}
BaseView == IF Mismatch THEN "stale" ELSE base

-----------------------------------------------------------------------------
(* decision-engine.ts: s is the snapshot, with the row and the time of reading *)

Funded == {"seen", "confirmed"}

NeedsReview_BaseRefundAccepted(s) ==
  \/ s.state \in ReviewStates
  \/ s.pearl \in Funded /\ s.late
  \/ s.base = "stale"
  \/ s.base = "released" /\ s.pearl # "released"

NeedsReview(s) ==
  \/ s.state \in ReviewStates
  \/ s.pearl \in Funded /\ s.late
  \/ s.base = "stale"
  \/ s.base = "released" /\ s.pearl # "released"
  \/ s.base = "refunded" /\ s.pearl \notin {"refunded", "missing"}

Authorized(s) == s.mode = "coordinator" \/ (s.mode = "preauthorized" /\ s.presig = "active")

ReleaseAllowed_PresignedOnly(s) ==
  /\ s.pearl = "confirmed"
  /\ ~s.late
  /\ Authorized(s)

ReleaseAllowed(s) ==
  /\ s.state = "usdc_escrow_confirmed"
  /\ s.pearl = "confirmed" /\ s.base = "deposited"
  /\ ~s.late
  /\ Authorized(s)

RefundDue_NoneOnly(s) ==
  /\ s.pearl \in Funded
  /\ s.base = "none"
  /\ s.due
RefundDue(s) ==
  /\ s.pearl \in Funded
  /\ s.base \in {"none", "created", "cancelled"}
  /\ s.due

\* evaluateSettlementSnapshot: the first rule that applies decides.
Rules(s) ==
  <<<<NeedsReview(s), "manual_review">>,
    <<s.pearl = "released" /\ s.base = "deposited", "prepare_usdc_release">>,
    <<s.pearl = "released" /\ s.base = "released", "mark_released">>,
    <<s.pearl = "refunded", "mark_refunded">>,
    <<ReleaseAllowed(s), "prepare_prl_release">>,
    <<RefundDue(s), "prepare_prl_refund">>,
    <<TRUE, "wait">>>>

Decision(s) ==
  LET first == CHOOSE i \in DOMAIN Rules(s) :
                 Rules(s)[i][1] /\ \A j \in 1..(i - 1) : ~Rules(s)[j][1]
  IN  Rules(s)[first][2]

ToState_DoneWhenPrepared ==
  [manual_review |-> "failed_manual_review", mark_released |-> "released",
   mark_refunded |-> "refunded", prepare_prl_release |-> "release_pending",
   prepare_prl_refund |-> "refunded"]
ToState == [manual_review |-> "failed_manual_review", mark_released |-> "released",
            mark_refunded |-> "refunded", prepare_prl_release |-> "release_pending",
            prepare_prl_refund |-> "refund_pending"]

\* The idempotency key holds every field read, with the confirmations (which
\* grow while the output is unspent) and the time Base was read (unless it is
\* none): only a snapshot with neither is ever seen twice.
Repeats(s) == s.base = "none" /\ s.pearl \notin Funded

-----------------------------------------------------------------------------
(* The worker (settlement-loop.ts, main.ts) *)

\* One budget for whatever goes wrong, forks of the Pearl chain included.
Fault == faults < MaxFaults /\ faults' = faults + 1

NoRow == [state |-> "", mode |-> "", presig |-> ""]
Idle == [pc |-> "idle", row |-> NoRow, pearl |-> "", late |-> FALSE, base |-> "",
         due |-> FALSE, action |-> "", todo |-> {}]

\* isReadyToBroadcast
Ready_SignedOnly(list) == {i \in DOMAIN list : list[i] = "signed"}
Ready(list) == {i \in DOMAIN list : list[i] \in {"signed", "failed"}}

\* The attempts left to send; with none left the iteration is over.
Sending(todo) == IF todo = {} THEN Idle ELSE [Idle EXCEPT !.pc = "send", !.todo = todo]

\* listOpenTrades; "" stands for a chain that has not been read.
ListTrades ==
  /\ worker.pc = "idle"
  /\ LET read == [Idle EXCEPT !.row = trade, !.due = now >= RefundAvailableAt, !.pc = "read"]
     IN  worker' = IF trade.state \in TerminalStates THEN Sending(Ready(attempts)) ELSE read
  /\ UNCHANGED <<now, trade, reserved, ledgers, decided, attempts, apiVars, faults>>

\* The two reads of Promise.all finish in either order.
ReadPearl ==
  /\ worker.pc = "read" /\ worker.pearl = ""
  /\ worker' = [worker EXCEPT !.pearl = PearlView, !.late = proof.late]
  /\ UNCHANGED <<now, trade, reserved, ledgers, decided, attempts, apiVars, faults>>

ReadBase ==
  /\ worker.pc = "read" /\ worker.base = ""
  /\ worker' = [worker EXCEPT !.base = BaseView]
  /\ UNCHANGED <<now, trade, reserved, ledgers, decided, attempts, apiVars, faults>>

Snapshot == [state |-> worker.row.state, mode |-> worker.row.mode, presig |-> worker.row.presig,
             pearl |-> worker.pearl, late |-> worker.late,
             base |-> worker.base, due |-> worker.due]
Key(s) == <<s.state, s.pearl, s.base>>

\* recordSettlementDecision, then the first read of applyTradeState or of
\* flagManualReview; prepare_usdc_release only reports to the operator.  A decision
\* that changes nothing may as well be taken again: it is not kept.
Decide ==
  /\ worker.pc = "read" /\ worker.pearl # "" /\ worker.base # ""
  /\ LET s == Snapshot
         acts == Key(s) \notin decided /\ Decision(s) \in DOMAIN ToState
     IN  /\ worker' = IF acts
                      THEN [Idle EXCEPT !.pc = "write", !.row = trade, !.action = Decision(s)]
                      ELSE Sending(Ready(attempts))
         /\ decided' = IF acts /\ Repeats(s) THEN decided \cup {Key(s)} ELSE decided
  /\ UNCHANGED <<now, trade, reserved, ledgers, attempts, apiVars, faults>>

\* updateTrade writes the row back whole, with its new state.
WriteState ==
  /\ worker.pc = "write"
  /\ trade' = [worker.row EXCEPT !.state = ToState[worker.action]]
  /\ worker' = IF worker.action = "prepare_prl_release"
               THEN [Idle EXCEPT !.pc = "sign"] ELSE Sending(Ready(attempts))
  /\ UNCHANGED <<now, reserved, ledgers, decided, attempts, apiVars, faults>>

\* preparePrlRelease: the row is read once more; without a live presignature
\* of a preauthorized trade nothing is signed.
MaySign == trade.mode = "preauthorized" /\ trade.presig = "active"

Sign ==
  /\ worker.pc = "sign"
  /\ LET kept == IF MaySign THEN Append(attempts, "signed") ELSE attempts
     IN  /\ attempts' = kept
         /\ worker' = Sending(Ready(kept))
  /\ UNCHANGED <<now, trade, reserved, ledgers, decided, apiVars, faults>>

\* The node takes a spend of the output that has no other spend in the mempool;
\* the presigned transaction spends the full expected amount.
Accepts == chain = "funded" /\ mempool = {} /\ paid # "underpaid"

Send(i) ==
  /\ worker.pc = "send" /\ i \in worker.todo
  /\ \A j \in worker.todo : i <= j
  /\ IF Accepts
     THEN /\ mempool' = {"release"}
          /\ worker' = [worker EXCEPT !.pc = "sent"]
          /\ UNCHANGED attempts
     ELSE /\ attempts' = [attempts EXCEPT ![i] = "failed"]
          /\ worker' = Sending(worker.todo \ {i})
          /\ UNCHANGED mempool
  /\ UNCHANGED <<now, trade, reserved, chain, paid, proof, base, decided, apiVars, faults>>

MarkSubmitted(i) ==
  /\ worker.pc = "sent" /\ i \in worker.todo
  /\ \A j \in worker.todo : i <= j
  /\ attempts' = [attempts EXCEPT ![i] = "submitted"]
  /\ worker' = Sending(worker.todo \ {i})
  /\ UNCHANGED <<now, trade, reserved, ledgers, decided, apiVars, faults>>

-----------------------------------------------------------------------------
(* Faults of the worker *)

\* The process dies and restarts: decisions are lost, the attempt file is kept.
Crash ==
  /\ Fault
  /\ worker.pc # "idle"
  /\ worker' = Idle
  /\ decided' = {}
  /\ UNCHANGED <<now, trade, reserved, ledgers, attempts, apiVars>>

\* A read or a write of the iteration throws: the loop goes on with the next
\* iteration, the decision stays recorded.
Throw ==
  /\ Fault
  /\ worker.pc \in {"read", "write", "sign"}
  /\ worker' = Idle
  /\ UNCHANGED <<now, trade, reserved, ledgers, decided, attempts, apiVars>>

\* sendrawtransaction fails although the node would accept the transaction.
SendFails(i) ==
  /\ Fault
  /\ worker.pc = "send" /\ i \in worker.todo
  /\ attempts' = [attempts EXCEPT ![i] = "failed"]
  /\ worker' = Sending(worker.todo \ {i})
  /\ UNCHANGED <<now, trade, reserved, ledgers, decided, apiVars>>

-----------------------------------------------------------------------------
(* The trade API: a call reads the row, then writes it back whole *)

NoCall == [op |-> "none", row |-> NoRow, to |-> ""]
PresigStates == {"pearl_escrow_confirmed", "usdc_escrow_pending", "usdc_escrow_confirmed"}

Begin(op, to) ==
  /\ api.op = "none"
  /\ api' = [op |-> op, row |-> trade, to |-> to]
  /\ UNCHANGED <<now, trade, reserved, ledgers, workerVars, faults>>

BeginPresign ==
  /\ presigns < MaxPresigns
  /\ trade.mode = "preauthorized" /\ trade.state \in PresigStates
  /\ Observed /\ trade.presig # "active"
  /\ presigns' = presigns + 1
  /\ Begin("presign", trade.state)

BeginRevoke ==
  /\ trade.presig = "active" /\ ~reserved
  /\ Begin("revoke", trade.state)
  /\ UNCHANGED presigns

BeginReview ==
  /\ CanTransition(trade.state, "failed_manual_review")
  /\ Begin("review", "failed_manual_review")
  /\ UNCHANGED presigns

\* What the operator who calls transitionTrade has seen.
Evidence(to) ==
  LET seen == [pearl_escrow_seen |-> Observed,
               pearl_escrow_confirmed |-> proof.match = "confirmed",
               usdc_escrow_pending |-> base = "created",
               usdc_escrow_confirmed |-> base = "deposited",
               refund_available |-> now >= RefundAvailableAt]
  IN  to \in DOMAIN seen /\ seen[to]

BeginTransition(to) ==
  /\ CanTransition(trade.state, to) /\ Evidence(to)
  /\ Begin("transition", to)
  /\ UNCHANGED presigns

Presig == [presign |-> "active", revoke |-> "revoked",
           review |-> api.row.presig, transition |-> api.row.presig]

WriteRow ==
  /\ api.op \in DOMAIN Presig
  /\ trade' = [api.row EXCEPT !.state = api.to, !.presig = Presig[api.op]]
  /\ api' = NoCall
  /\ UNCHANGED <<now, reserved, ledgers, workerVars, presigns, faults>>

\* submitPearlSignedTransaction: check the state, reserve the side effect, send.
SubmitState == [release |-> "release_pending", refund |-> "refund_pending"]

BeginSubmit(kind) ==
  /\ trade.state = SubmitState[kind]
  /\ trade.mode # "coordinator" /\ Observed
  /\ api.op = "none"
  /\ api' = [op |-> kind, row |-> trade, to |-> trade.state]
  /\ reserved' = (reserved \/ kind = "release")
  /\ UNCHANGED <<now, trade, ledgers, workerVars, presigns, faults>>

\* A signed refund is valid from the CLTV of its leaf on.
SubmitSpend ==
  /\ api.op \in DOMAIN SubmitState
  /\ mempool' = IF Accepts /\ (api.op = "refund" => now >= RefundAvailableAt)
                THEN {api.op} ELSE mempool
  /\ api' = NoCall
  /\ UNCHANGED <<now, trade, reserved, chain, paid, proof, base, workerVars, presigns, faults>>

-----------------------------------------------------------------------------
(* The Pearl escrow output and the indexer's rows about it *)

Pearl(c, p, m, r) == chain' = c /\ paid' = p /\ mempool' = m /\ proof' = r
Elsewhere == <<now, trade, reserved, base, workerVars, apiVars>>

Fund(amount) ==
  /\ chain = "unfunded"
  /\ Pearl("funded", amount, mempool, proof)
  /\ UNCHANGED <<Elsewhere, faults>>

IndexFunding ==
  /\ chain = "funded" /\ ~Observed
  /\ Pearl(chain, paid, mempool, [proof EXCEPT !.match = "pending", !.late = now > FundingDeadline])
  /\ UNCHANGED <<Elsewhere, faults>>

IndexConfirmations ==
  /\ chain = "funded" /\ proof.match = "pending"
  /\ Pearl(chain, paid, mempool, [proof EXCEPT !.match = "confirmed"])
  /\ UNCHANGED <<Elsewhere, faults>>

\* The seller, or anyone with the signed refund, once the CLTV has passed.
SellerRefunds ==
  /\ now >= RefundAvailableAt /\ chain = "funded" /\ mempool = {}
  /\ Pearl(chain, paid, {"refund"}, proof)
  /\ UNCHANGED <<Elsewhere, faults>>

Mined == [release |-> "released", refund |-> "refunded"]

Mine ==
  /\ chain = "funded" /\ mempool # {}
  /\ \E kind \in mempool : Pearl(Mined[kind], paid, {}, proof)
  /\ UNCHANGED <<Elsewhere, faults>>

IndexSpend(kind) ==
  /\ chain = Mined[kind] /\ kind \notin proof.spends /\ Observed
  /\ Pearl(chain, paid, mempool, [proof EXCEPT !.match = "spent", !.spends = @ \cup {kind}])
  /\ UNCHANGED <<Elsewhere, faults>>

\* detachObservationsForBlock, whatever the observation has become.
Detached(match) == IF match = "none" THEN match ELSE "detached"

\* The funding block, or the block of the spend, leaves the chain.
Reorg ==
  /\ ForksHappen /\ Fault
  /\ \/ /\ chain = "funded"
        /\ Pearl("unfunded", paid, {}, [proof EXCEPT !.match = Detached(@)])
     \/ /\ chain \in {"released", "refunded"}
        /\ Pearl("funded", paid, {kind \in DOMAIN Mined : Mined[kind] = chain}, proof)
  /\ UNCHANGED Elsewhere

-----------------------------------------------------------------------------
(* The Base escrow (PrlUsdcEscrow), for the one trade *)

SetBase(from, to) ==
  /\ base = from
  /\ base' = to
  /\ UNCHANGED <<now, trade, reserved, chain, paid, mempool, proof, workerVars, apiVars, faults>>

BaseCreate == now < RefundAvailableAt /\ SetBase("none", "created")
BaseDeposit == now <= RefundAvailableAt /\ SetBase("created", "deposited")
BaseCancel == now > RefundAvailableAt /\ SetBase("created", "cancelled")
\* The owner at any time, the buyer after the expiry.
BaseRefund == SetBase("deposited", "refunded")
\* The operator releases after the indexer has shown the PRL release.
BaseRelease == "release" \in proof.spends /\ SetBase("deposited", "released")

Tick ==
  /\ now < MaxTime
  /\ now' = now + 1
  /\ UNCHANGED <<trade, reserved, ledgers, workerVars, apiVars, faults>>

-----------------------------------------------------------------------------
\* acceptQuote has stored the trade and registered its watch.
Init ==
  /\ now = 0
  /\ trade \in [state : {"pearl_escrow_pending"}, mode : Modes, presig : {"none"}]
  /\ reserved = FALSE
  /\ chain = "unfunded" /\ paid = "on_time" /\ mempool = {}
  /\ proof = [match |-> "none", late |-> FALSE, spends |-> {}]
  /\ base = "none"
  /\ worker = Idle /\ decided = {} /\ attempts = <<>>
  /\ api = NoCall /\ presigns = 0
  /\ faults = 0

WorkerStep ==
  \/ ListTrades \/ ReadPearl \/ ReadBase \/ Decide \/ WriteState \/ Sign
  \/ \E i \in DOMAIN attempts : Send(i) \/ MarkSubmitted(i)

ApiStep ==
  \/ BeginPresign \/ BeginRevoke \/ BeginReview
  \/ \E to \in Targets : BeginTransition(to)
  \/ WriteRow
  \/ \E kind \in DOMAIN SubmitState : BeginSubmit(kind)
  \/ SubmitSpend

PearlStep ==
  \/ \E amount \in Amounts : Fund(amount)
  \/ IndexFunding \/ IndexConfirmations \/ SellerRefunds \/ Mine
  \/ \E kind \in DOMAIN Mined : IndexSpend(kind)
  \/ Reorg

BaseStep == BaseCreate \/ BaseDeposit \/ BaseCancel \/ BaseRefund \/ BaseRelease

WorkerFault == Crash \/ Throw \/ \E i \in DOMAIN attempts : SendFails(i)

Next == WorkerStep \/ ApiStep \/ PearlStep \/ BaseStep \/ WorkerFault \/ Tick

Spec == Init /\ [][Next]_vars

\* The loop reschedules itself after every iteration, failed ones included
\* (main.ts), so the worker goes on unless its iterations have nothing left to do:
\* weak fairness of WorkerStep, with its ENABLED spelled out.  Nothing is assumed
\* of the users, the operator or the chains.
WorkerDone == worker.pc = "idle" /\ trade.state \in TerminalStates /\ Ready(attempts) = {}
FairSpec == Spec /\ ([]<>WorkerDone \/ []<><<WorkerStep>>_vars)

-----------------------------------------------------------------------------
(* Properties *)

Rows == [state : OpenStates \cup TerminalStates, mode : Modes,
         presig : {"none", "active", "revoked"}]
Statuses == {"none", "created", "deposited", "released", "refunded", "cancelled"}
PearlViews == {"missing", "seen", "confirmed", "released", "refunded"}

\* What the worker is about to write is a row it has read, it never comes back to
\* an attempt it has already submitted, and the indexer shows no live observation
\* of an output that has left the chain.
TypeOK ==
  /\ now \in 0..MaxTime
  /\ trade \in Rows /\ reserved \in BOOLEAN
  /\ chain \in {"unfunded", "funded", "released", "refunded"}
  /\ mempool \in SUBSET {"release", "refund"} /\ Cardinality(mempool) <= 1
  /\ proof.match \in {"none", "pending", "confirmed", "spent", "detached"}
  /\ proof.late \in BOOLEAN /\ proof.spends \in SUBSET {"release", "refund"}
  /\ Observed => chain # "unfunded"
  /\ base \in Statuses
  /\ worker.pc \in {"idle", "read", "write", "sign", "send", "sent"}
  /\ worker.pc \in {"read", "write"} => worker.row \in Rows
  /\ worker.pearl \in PearlViews \cup {""}
  /\ worker.base \in Statuses \cup {"", "stale"}
  /\ worker.todo \subseteq {i \in DOMAIN attempts : attempts[i] # "submitted"}
  /\ attempts \in Seq({"signed", "submitted", "failed"})
  /\ api.op # "none" => api.row \in Rows

\* PRL leaves for the buyer only after the buyer has locked the USDC, whatever
\* stale rows are written back and however the reads interleave.
ReleaseNeedsDeposit ==
  (attempts # <<>> \/ "release" \in mempool \/ chain = "released")
    => base \in {"deposited", "released", "refunded"}

\* A trade recorded as released has both legs paid, and one recorded as refunded
\* has the PRL refund on the indexer: no crash, retry or stale write back records
\* an end that was not observed.
SettledAgree ==
  /\ trade.state = "released" => base = "released" /\ "release" \in proof.spends
  /\ trade.state = "refunded" => "refund" \in proof.spends

\* A release the worker has signed reaches the node in spite of crashes and failed
\* sends, unless the output is gone (an underpaid output cannot pay for it).
SignedIsDelivered ==
  (attempts # <<>> /\ "signed" \in {attempts[i] : i \in DOMAIN attempts} /\ paid # "underpaid")
    ~> (mempool # {} \/ chain # "funded")

Stalled == /\ trade.state \notin TerminalStates /\ PearlView \in Funded
           /\ base \in {"none", "created", "cancelled"} /\ now >= RefundAvailableAt

\* A seller whose buyer did not deposit in time is offered the refund: the trade
\* reaches refund_pending, or it stops being stalled.
RefundOffered == Stalled ~> (trade.state = "refund_pending" \/ ~Stalled)

Disagree == /\ trade.state \notin TerminalStates
            /\ base = "refunded" /\ PearlView \in {"seen", "confirmed", "released"}

\* USDC back with the buyer while the PRL is locked or released: the open trade
\* goes to manual review.
DisagreementIsFlagged == Disagree ~> ~Disagree

\* A statement of the documentation that the code does not keep: "After revocation,
\* the worker's next iteration should keep the trade in wait and not broadcast".
WorkerSends == worker.pc = "send" /\ worker'.pc = "sent"
NoBroadcastAfterRevocation == [][WorkerSends => trade.presig # "revoked"]_vars
=============================================================================
