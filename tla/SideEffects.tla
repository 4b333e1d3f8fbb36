----------------------------- MODULE SideEffects -----------------------------
(***************************************************************************)
(* otc_side_effects: the ledger of what the API did outside of its         *)
(* database, or noted about a trade (services/otc-api/src:                 *)
(* trade-service.ts, repository.ts, support-alert-notifier.ts, http.ts).   *)
(*                                                                         *)
(* A request carries an idempotency key.  Its row is inserted once and is  *)
(* what tells a repeated request from a new one; the effect itself - a     *)
(* message to every sink, a transaction sent to the Pearl node - is a step *)
(* of its own, before or after the row.  Each database statement, message  *)
(* and node call is a step of the request that awaits it.                  *)
(***************************************************************************)
EXTENDS Naturals, FiniteSets

CONSTANTS
  Trades, Txs,
  Keys,          \* idempotency keys that requests carry
  Clients,       \* rate limit keys of the public route: client addresses
  Sinks,         \* where support alerts may be sent
  Posted,        \* the origin of a row an operator stored by hand
  Handlers,      \* requests that may overlap
  Limit,         \* supportAlertRateLimitMax
  MaxForgotten,  \* bound: timestamps that leave one rate limit bucket
  Scenarios      \* [requests, trade, written, txs, sinks, faults]: what clients may send,
                 \* where the trades stand, what other calls write into their rows, their
                 \* intents, the configured notifiers, and a bound on statements that fail
                 \* and crashes

Roles == {"support_read", "support_write", "operator", "admin"}
Severities == {"info", "warning", "critical"}
Outcomes == {"released", "refunded"}
SubmitState == [pearl_release |-> "release_pending", pearl_refund |-> "refund_pending"]

NoStatus == "none"
PostedStatuses == {"prepared", "submitted", "confirmed", "failed"}
PostedTypes ==
  {"usdc_create_trade", "usdc_deposit_observed", "usdc_release", "usdc_refund",
   "pearl_watch_register", "pearl_release", "pearl_refund", "support_alert",
   "support_alert_delivery", "manual_review_note"}
PostedBodies == Keys \cup Txs \cup STRING

\* What clients may send.  The body of an alert is its severity, of a replay the alert,
\* of a submission the signed transaction, of evidence the expected status; the generic
\* route, "post", also takes the status from the body.  The caller is a client of the
\* public route or the role of an admin token.
RequestsOf(kind, types, bodies, statuses) ==
  [kind : {kind}, trade : Trades, key : Keys, type : types, body : bodies, status : statuses,
   caller : Clients \cup Roles]

Requests ==
  RequestsOf("alert", {"support_alert"}, Severities, {NoStatus})
    \cup RequestsOf("replay", {"support_alert_delivery"}, Keys, {NoStatus})
    \cup RequestsOf("submit", DOMAIN SubmitState, Txs, {NoStatus})
    \cup RequestsOf("record", {"live_proof_evidence"}, Outcomes, {NoStatus})
    \cup RequestsOf("record", {"manual_review_note", "usdc_create_trade"}, STRING, {NoStatus})
    \cup RequestsOf("post", PostedTypes, PostedBodies, PostedStatuses)

ASSUME SideEffectsAssumption ==
  /\ IsFiniteSet(Keys) /\ IsFiniteSet(Handlers) /\ Posted \notin Clients
  /\ Limit \in Nat \ {0} /\ MaxForgotten \in Nat
  /\ \A s \in Scenarios :
       s.requests \subseteq Requests /\ s.faults \in Nat /\ s.txs \subseteq Txs
         /\ s.trade \in [Trades -> STRING] /\ s.written \subseteq STRING /\ s.sinks \subseteq Sinks

VARIABLES
  scenario,
  trade,      \* state of each trade row
  intent,     \* the unsigned transaction of the trade's signing intent
  effects,    \* otc_side_effects, by key
  handler,    \* requests in flight
  recent,     \* supportAlertRateLimitBuckets: timestamps inside the window, in memory
  forgotten,  \* timestamps that left a bucket
  reached,    \* <<alert, sink>>: messages that arrived
  sends,      \* calls of sendRawTransaction made for a key
  accepted,   \* transactions the node took
  lost,       \* alerts whose delivery a fault cut short
  faultsLeft

worldVars == <<trade, intent, accepted>>
limitVars == <<recent, forgotten>>
effectVars == <<scenario, worldVars, effects, handler, limitVars, reached, sends, lost, faultsLeft>>

-----------------------------------------------------------------------------
(* Requests and rows *)

Expanded(role) ==
  {role} \cup (IF role = "admin" THEN {"operator"} ELSE {})
         \cup (IF role \in {"admin", "operator"} THEN {"support_write"} ELSE {})
         \cup {"support_read"}

\* The routes of a trade that need no token.
PublicKinds == {"alert", "submit"}
RequiredRole(q) == IF q.kind = "alert" THEN "support_write" ELSE "operator"

Authorized(q) ==
  IF q.caller \in Clients THEN q.kind \in PublicKinds
                        ELSE q.kind # "submit" /\ RequiredRole(q) \in Expanded(q.caller)

FinalStates == {"released", "refunded", "failed_manual_review"}
Notifier == scenario.sinks # {}

\* The checks that precede the first write, on the trade row as it is then.
EvidenceFits(q) == trade[q.trade] = q.body
CreatesEscrow(q) == trade[q.trade] \notin FinalStates
InReview(q) == trade[q.trade] = "failed_manual_review"
NotesReview(q) == InReview(q) \/ trade[q.trade] \notin FinalStates
BroadcastAllowed(q) == trade[q.trade] = SubmitState[q.type]

TradeAllows(q) ==
  /\ q.type = "live_proof_evidence" => EvidenceFits(q)
  /\ q.kind = "record" /\ q.type = "usdc_create_trade" => CreatesEscrow(q)
  /\ q.kind = "record" /\ q.type = "manual_review_note" => NotesReview(q)
  /\ q.kind = "replay" => Notifier
  /\ q.kind = "submit" => BroadcastAllowed(q)

InitialStatus(q) ==
  IF q.kind = "post" THEN q.status
  ELSE IF q.kind = "alert" /\ q.body = "critical" THEN "failed"
  ELSE IF q.kind \in {"alert", "submit"} \/ q.type = "usdc_create_trade" THEN "prepared"
  ELSE "confirmed"

\* What the request hash covers.
Payload(q, status) == [trade |-> q.trade, type |-> q.type, body |-> q.body, status |-> status]

Delivery(q, alert, status) ==
  [trade |-> q.trade, type |-> "support_alert_delivery", body |-> alert, status |-> status]

DeliveryKey(alert) == <<"delivery", alert>>
AllKeys == Keys \cup {DeliveryKey(alert) : alert \in Keys}

NoEffect == [status |-> "absent"]
\* "by", who sent the request that made the row, is no column: the properties tell the
\* rows of the generic route, which say what an operator claims, and a client's by it.
By(q) == IF q.kind = "post" THEN Posted ELSE q.caller
RowOf(payload, by) == [hash |-> payload, status |-> payload.status, by |-> by]

\* INSERT ... ON CONFLICT DO NOTHING; a row found instead must have the same hash.
\* Rows are never deleted and keep their hash, so both statements are one step.
Free(k) == effects[k] = NoEffect
Stored(k, payload, by) ==
  IF Free(k) THEN [effects EXCEPT ![k] = RowOf(payload, by)] ELSE effects
Conflicts(k, payload) == ~Free(k) /\ effects[k].hash # payload

IsAlert(k) == ~Free(k) /\ effects[k].hash.type = "support_alert"

-----------------------------------------------------------------------------
(* A request *)

NoRequest == [pc |-> "idle"]
Handling(pc, q) == [pc |-> pc, request |-> q]
Goes(c, pc) ==
  handler' = [handler EXCEPT ![c] = IF pc = "idle" THEN NoRequest ELSE Handling(pc, handler[c].request)]
Returns(c) == Goes(c, "idle")

\* markManualReview writes the trade row first, unless it read a trade in review.
FirstStep(q) ==
  IF q.kind = "replay" THEN "list"
  ELSE IF q.kind = "submit" THEN "intent"
  ELSE IF q.kind = "record" /\ q.type = "manual_review_note" /\ ~InReview(q) THEN "review"
  ELSE "save"

\* Only the public route is limited; the timestamp counts whatever becomes of the call.
Bucket(q) == <<q.trade, q.body, q.caller>>
Limited(q) == q.kind = "alert" /\ q.caller \in Clients

Buckets == Trades \X Severities \X Clients

BelowLimit_OneMore(q) == recent[Bucket(q)] <= Limit
BelowLimit(q) == recent[Bucket(q)] < Limit

Begin(c, q) ==
  /\ handler[c].pc = "idle"
  /\ Authorized(q) /\ TradeAllows(q)
  /\ Limited(q) => BelowLimit(q)
  /\ recent' = IF Limited(q) THEN [recent EXCEPT ![Bucket(q)] = @ + 1] ELSE recent
  /\ handler' = [handler EXCEPT ![c] = Handling(FirstStep(q), q)]
  /\ UNCHANGED <<scenario, worldVars, effects, forgotten, reached, sends, lost, faultsLeft>>

Untouched == <<scenario, worldVars, limitVars, faultsLeft>>

\* getPearlEscrowSigningIntent, and the signed transaction compared with it.
CheckIntent(c) ==
  LET q == handler[c].request IN
  /\ handler[c].pc = "intent"
  /\ IF q.body = intent[q.trade] THEN Goes(c, "save") ELSE Returns(c)
  /\ UNCHANGED <<Untouched, effects, reached, sends, lost>>

\* The row as it was read goes back with its new state, whatever it has become.
Reviewed(c) == [trade EXCEPT ![handler[c].request.trade] = "failed_manual_review"]

Review(c) ==
  /\ handler[c].pc = "review"
  /\ trade' = Reviewed(c)
  /\ Goes(c, "save")
  /\ UNCHANGED <<scenario, intent, accepted, limitVars, faultsLeft, effects, reached, sends, lost>>

\* Without a notifier an alert is stored and no more.
NextStep(q) ==
  IF q.kind = "submit" THEN "send"
  ELSE IF q.kind = "alert" /\ Notifier THEN "list"
  ELSE "idle"

Creates_OrRepeats(q) == Free(q.key) \/ ~Conflicts(q.key, Payload(q, InitialStatus(q)))

\* A request that does not create its row has no effect: it was made before, or its
\* key belongs to something else.
Creates(q) == Free(q.key)

Save(c) ==
  LET q == handler[c].request IN
  /\ handler[c].pc = "save"
  /\ effects' = Stored(q.key, Payload(q, InitialStatus(q)), By(q))
  /\ IF Creates(q) THEN Goes(c, NextStep(q)) ELSE Returns(c)
  /\ UNCHANGED <<Untouched, reached, sends, lost>>

-----------------------------------------------------------------------------
(* Delivery of an alert, and its replay by an operator *)

AlertOf(q) == IF q.kind = "alert" THEN q.key ELSE q.body
DeliveryRowKey(q) == IF q.kind = "alert" THEN DeliveryKey(q.key) ELSE q.key
DeliveryStatus == [confirm |-> "confirmed", deny |-> "failed"]

\* deliverSupportAlert lists the trade's rows for its summary before anything else.
ListSideEffects(c) ==
  /\ handler[c].pc = "list" /\ handler[c].request.kind = "alert"
  /\ Goes(c, "notify")
  /\ UNCHANGED <<Untouched, effects, reached, sends, lost>>

FindAlert(c) ==
  LET q == handler[c].request IN
  /\ handler[c].pc = "list" /\ q.kind = "replay"
  /\ IF IsAlert(q.body) /\ effects[q.body].hash.trade = q.trade THEN Goes(c, "notify") ELSE Returns(c)
  /\ UNCHANGED <<Untouched, effects, reached, sends, lost>>

AllReached_ButOne(got) == got # {}
AfterNotify_Ignored(ok) == IF ok THEN "confirm" ELSE "idle"

\* All sinks at once: one that fails fails the whole, whatever the others received.
AllReached(got) == got = scenario.sinks
AfterNotify(ok) == IF ok THEN "confirm" ELSE "deny"

Notify(c) ==
  /\ handler[c].pc = "notify"
  /\ \E got \in SUBSET scenario.sinks, ok \in BOOLEAN :
       /\ ok => AllReached(got)
       /\ reached' = reached \cup ({AlertOf(handler[c].request)} \X got)
       /\ Goes(c, AfterNotify(ok))
  /\ UNCHANGED <<Untouched, effects, sends, lost>>

DeliveryRow(c) ==
  LET q == handler[c].request IN
  Delivery(q, AlertOf(q), DeliveryStatus[handler[c].pc])

\* Only deliverSupportAlert awaits its row inside the try block.
Caught(c) == handler[c].pc = "confirm" /\ handler[c].request.kind = "alert"

SaveAlertDelivery(c) ==
  LET key == DeliveryKey(handler[c].request.key) IN
  /\ handler[c].pc \in DOMAIN DeliveryStatus /\ handler[c].request.kind = "alert"
  /\ effects' = Stored(key, DeliveryRow(c), By(handler[c].request))
  /\ Goes(c, IF Conflicts(key, DeliveryRow(c)) /\ Caught(c) THEN "deny" ELSE "idle")
  /\ UNCHANGED <<Untouched, reached, sends, lost>>

\* A replay has sent its message before it looks at its key: repeated, it sends another,
\* and ends with the row it finds or an error.
SaveReplay(c) ==
  /\ handler[c].pc \in DOMAIN DeliveryStatus /\ handler[c].request.kind = "replay"
  /\ effects' = Stored(handler[c].request.key, DeliveryRow(c), By(handler[c].request))
  /\ Returns(c)
  /\ UNCHANGED <<Untouched, reached, sends, lost>>

-----------------------------------------------------------------------------
(* A transaction a user signed *)

\* The node answers with the txid, or the call fails, whether or not it took it.
SendRawTransaction(c) ==
  LET q == handler[c].request IN
  /\ handler[c].pc = "send"
  /\ sends' = [sends EXCEPT ![q.key] = @ + 1]
  /\ \E took \in BOOLEAN, answered \in BOOLEAN :
       /\ answered => took
       /\ accepted' = accepted \cup (IF took THEN {q.body} ELSE {})
       /\ IF answered THEN Goes(c, "submitted") ELSE Returns(c)
  /\ UNCHANGED <<scenario, trade, intent, effects, limitVars, reached, lost, faultsLeft>>

UpdateSideEffect(c) ==
  /\ handler[c].pc = "submitted"
  /\ effects' = [effects EXCEPT ![handler[c].request.key] = [@ EXCEPT !.status = "submitted"]]
  /\ Returns(c)
  /\ UNCHANGED <<Untouched, reached, sends, lost>>

-----------------------------------------------------------------------------
(* Faults, and what happens around the requests *)

\* The row the statement that fails may have written all the same.
Pending(c) ==
  LET q == handler[c].request IN
  IF handler[c].pc = "save" THEN Stored(q.key, Payload(q, InitialStatus(q)), By(q))
  ELSE IF handler[c].pc \in DOMAIN DeliveryStatus THEN Stored(DeliveryRowKey(q), DeliveryRow(c), By(q))
  ELSE effects

Delivering(c, states) ==
  IF handler[c].pc \in states /\ handler[c].request.kind = "alert" THEN {handler[c].request.key} ELSE {}

StatementFails(c) ==
  /\ faultsLeft > 0 /\ faultsLeft' = faultsLeft - 1
  /\ handler[c].pc \in {"review", "intent", "save", "list", "confirm", "deny", "submitted"}
  /\ trade' \in {trade} \cup (IF handler[c].pc = "review" THEN {Reviewed(c)} ELSE {})
  /\ effects' \in {effects, Pending(c)}
  /\ IF Caught(c) THEN Goes(c, "deny") ELSE Returns(c)
  /\ lost' = lost \cup Delivering(c, {"list", "deny"})
                  \cup (IF effects' = effects THEN {} ELSE Delivering(c, {"save"}))
  /\ UNCHANGED <<scenario, intent, accepted, limitVars, reached, sends>>

Crash ==
  /\ faultsLeft > 0 /\ faultsLeft' = faultsLeft - 1
  /\ handler' = [c \in Handlers |-> NoRequest]
  /\ lost' = lost \cup UNION {Delivering(c, {"list", "notify", "confirm", "deny"}) : c \in Handlers}
  /\ forgotten' = [b \in Buckets |-> forgotten[b] + recent[b]]
  /\ recent' = [b \in Buckets |-> 0]
  /\ UNCHANGED <<scenario, worldVars, effects, reached, sends>>

\* The oldest timestamp of a bucket falls out of the window.
TimestampExpires(b) ==
  /\ recent[b] > 0 /\ forgotten[b] < MaxForgotten
  /\ recent' = [recent EXCEPT ![b] = @ - 1]
  /\ forgotten' = [forgotten EXCEPT ![b] = @ + 1]
  /\ UNCHANGED <<scenario, worldVars, effects, handler, reached, sends, lost, faultsLeft>>

\* transitionTrade and the presignatures read the row, check it and write all of it back
\* without a condition: an end that was recorded in between is lost.
TradeRowWritten(t) ==
  /\ \E state \in scenario.written : trade' = [trade EXCEPT ![t] = state]
  /\ UNCHANGED <<scenario, intent, accepted, effects, handler, limitVars, reached, sends, lost, faultsLeft>>

\* The escrow is observed in another output, or the fee is configured anew.
IntentChanges(t) ==
  /\ \E tx \in scenario.txs \ {intent[t]} : intent' = [intent EXCEPT ![t] = tx]
  /\ UNCHANGED <<scenario, trade, accepted, effects, handler, limitVars, reached, sends, lost, faultsLeft>>

-----------------------------------------------------------------------------
EffectsInit ==
  /\ scenario \in Scenarios
  /\ trade = scenario.trade /\ faultsLeft = scenario.faults
  /\ intent \in [Trades -> scenario.txs]
  /\ effects = [k \in AllKeys |-> NoEffect]
  /\ handler = [c \in Handlers |-> NoRequest]
  /\ recent = [b \in Buckets |-> 0] /\ forgotten = [b \in Buckets |-> 0]
  /\ reached = {} /\ sends = [k \in Keys |-> 0] /\ accepted = {} /\ lost = {}

HandlerStep(c) ==
  \/ Review(c) \/ CheckIntent(c) \/ Save(c) \/ SendRawTransaction(c) \/ UpdateSideEffect(c)
  \/ ListSideEffects(c) \/ FindAlert(c) \/ Notify(c) \/ SaveAlertDelivery(c) \/ SaveReplay(c)

Environment ==
  \/ \E b \in Buckets : TimestampExpires(b)
  \/ \E t \in Trades : TradeRowWritten(t) \/ IntentChanges(t)

EffectsNext ==
  \/ \E c \in Handlers : HandlerStep(c) \/ StatementFails(c) \/ \E q \in scenario.requests : Begin(c, q)
  \/ Crash
  \/ Environment

\* Promises settle: a request in flight goes on.  Clients need not send any.
EffectsSpec == EffectsInit /\ [][EffectsNext]_effectVars /\ \A c \in Handlers : WF_effectVars(HandlerStep(c))

-----------------------------------------------------------------------------
(* Properties *)

\* Shape of the state: a row says what its key was used for, and a key is sent for
\* while its request holds it.
EffectsTypeOK ==
  /\ DOMAIN effects = AllKeys
  /\ \A k \in AllKeys : effects[k] = NoEffect \/ effects[k].status \in {effects[k].hash.status, "submitted"}
  /\ \A c \in Handlers : handler[c] = NoRequest \/ handler[c].request \in scenario.requests
  /\ recent \in [Buckets -> 0..Limit] /\ forgotten \in [Buckets -> Nat]
  /\ sends \in [Keys -> Nat] /\ reached \subseteq Keys \X Sinks
  /\ accepted \subseteq Txs /\ lost \subseteq Keys /\ faultsLeft \in Nat

\* However requests overlap, fail and are repeated, the node is asked once at most
\* for the transaction of an idempotency key.
SentOncePerKey == \A k \in Keys : sends[k] <= 1

\* What the program itself recorded as done was done: a confirmed delivery reached every
\* sink and a submitted transaction is at the node, whatever operators store by hand
\* under the keys and types of others.
LedgerIsTrue ==
  \A k \in {j \in AllKeys : ~Free(j) /\ effects[j].by # Posted} :
    LET row == effects[k] IN
    /\ row.hash.type = "support_alert_delivery" /\ row.status = "confirmed"
         => {row.hash.body} \X scenario.sinks \subseteq reached
    /\ row.status = "submitted" => row.hash.body \in accepted

\* A client gets at most Limit alerts of a severity on a trade into the ledger, and one
\* more for each timestamp that left its bucket: overlapping requests cannot slip
\* through together.
SavedAlerts(b) ==
  {k \in Keys : IsAlert(k) /\ <<effects[k].hash.trade, effects[k].hash.body, effects[k].by>> = b}
AlertRateBounded == \A b \in Buckets : Cardinality(SavedAlerts(b)) <= Limit + forgotten[b]

\* Where notifiers are configured, an alert that came in as one is delivered, or its
\* failure is on record, unless a crash or a failing statement cut its own request
\* short: nothing else tries again.
Reported(k) == IsAlert(k) /\ effects[k].by # Posted
AlertsAreAnswered ==
  \A k \in Keys : Notifier /\ Reported(k) ~> (~Free(DeliveryKey(k)) \/ k \in lost)
=============================================================================
