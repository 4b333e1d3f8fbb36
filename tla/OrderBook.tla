------------------------------ MODULE OrderBook ------------------------------
(***************************************************************************)
(* Orders, quotes and their acceptance, and the prefunded sell orders of   *)
(* the trade API (services/otc-api/src: trade-service.ts, repository.ts,   *)
(* pearl-escrow-allocator.ts and pearl-watch-registrar.ts).                *)
(*                                                                         *)
(* On the Postgres repository every statement is a step of its own and the *)
(* calls of several clients interleave between them; rows survive a crash. *)
(* On the in-memory repository a call runs to its next outside I/O without *)
(* interruption, and a restart begins again from Init.  A prefunded order  *)
(* can only exist there: the Postgres schema refuses its allocation.       *)
(***************************************************************************)
EXTENDS Integers, Sequences, Functions, FiniteSetsExt, SignerProofs

CONSTANTS
  Orders, Quotes, Clients, \* ids of orders and quotes, clientRequestIds of acceptances
  Callers,                 \* HTTP requests handled at a time
  Configs,                 \* [store, allocator, side, sweeps]: deployments to consider, the side
                           \* of the orders placed there, and what callers ask to be swept
  Signed,                  \* what the owners of keys have signed
  Offers, Requests,        \* the orders that clients send, and their acceptances by quote
  Derive,                  \* deriveTradeIndex: the indexes tried for the trade of a quote
  Amount,                  \* amountPrl of an order
  QuoteTtl, RefundDelay,   \* quoteTtlMs, PEARL_PREFUND_REFUND_DELAY_HOURS
  MaxTime                  \* bound on the clock

None == "none"

ASSUME OrderBookAssumption ==
  /\ Configs \subseteq [store : {"postgres", "memory"}, allocator : {"multisig", "p2tr_xpub"},
                        side : {"buy_prl", "sell_prl"}, sweeps : {"of_trades", "any"}]
  /\ \A d \in Configs : d.store = "memory" => d.allocator = "multisig"
  /\ \A offer \in Offers : offer.proof \in Signed
  /\ \A q \in Quotes : \A request \in Requests[q], role \in Roles : request.proof[role] \in Signed
  /\ Derive \in [Quotes -> Seq(Nat) \ {<<>>}]
  /\ None \notin Orders \cup Clients
  /\ Amount \in Nat \ {0}
  /\ QuoteTtl \in Nat /\ RefundDelay \in Nat /\ MaxTime \in Nat

VARIABLES
  now,
  config,
  orders,     \* otc_orders
  refused,    \* orders whose creation ended in a database error
  quotes,     \* otc_quotes
  linking,    \* createOrderQuote calls between saveQuote and saveOrderQuoteLink
  links,      \* otc_order_quote_links
  trades,     \* otc_trades, by quote
  allocs,     \* pearl_escrow_allocations
  calls,      \* acceptQuote calls in flight
  watches,    \* the indexer's watch of a trade's escrow, by quote
  answers,    \* escrows of the trades a client was answered with
  sweeps,     \* otc_order_sweeps, by trade
  sweeping,   \* order rows the callers of initiateOrderSweep hold, by trade
  coins       \* what the prefund address holds on chain, and what has spent it

bookVars == <<orders, refused, quotes, linking, links>>
acceptVars == <<trades, allocs, calls, watches, answers>>
prefundVars == <<sweeps, sweeping, coins>>
vars == <<now, config, bookVars, acceptVars, prefundVars>>

Postgres == config.store = "postgres"
Multisig == config.allocator = "multisig"
Never == MaxTime + 1       \* the expiry of what has none

NoOrder == [status |-> None]
NoQuote == [amount |-> 0, expires |-> 0]
NoTrade == [client |-> None]
NoCall == [pc |-> "idle"]
NoSweep == [status |-> None]
NoRow == [order |-> None]
NoEscrow == <<>>

-----------------------------------------------------------------------------
(* Orders and quotes *)

\* reserveOrderPrefundAllocation inserts the allocation of a prefunded order before
\* the order its row references, which Postgres refuses.
PrefundReserved(prefunded) == prefunded => ~Postgres

\* allocatePrefundEscrow: the lock time of the maker's refund leaf
RefundEligibleAfter == now + RefundDelay

\* saveOrder
Inserted(o, terms, prefunded) ==
  [orders EXCEPT ![o] =
     [status |-> "open", remaining |-> Amount, terms |-> terms,
      prefund |-> IF prefunded THEN "pending_funding" ELSE None,
      until |-> IF prefunded THEN RefundEligibleAfter ELSE Never,
      funded |-> 0, left |-> 0]]

CreateOrder(o, terms, proof, prefunded) ==
  /\ orders[o] = NoOrder /\ o \notin refused
  /\ OrderProofVerifies(terms, proof)
  /\ prefunded => terms.side = "sell_prl"
  /\ IF PrefundReserved(prefunded)
     THEN orders' = Inserted(o, terms, prefunded) /\ UNCHANGED refused
     ELSE refused' = refused \cup {o} /\ UNCHANGED orders
  /\ UNCHANGED <<now, config, quotes, linking, links, acceptVars, prefundVars>>

Matchable(o) == orders[o].status \in {"open", "partially_filled"}

Fillable_Unlimited(o, amount) == Matchable(o) /\ now < orders[o].terms.expires

\* assertOrderFillable; the amounts of quotes respect the minimum fill.
Fillable(o, amount) ==
  Matchable(o) /\ now < orders[o].terms.expires /\ amount <= orders[o].remaining

\* saveQuote
SaveQuote(q, quote) == [quotes EXCEPT ![q] = quote]

\* createQuoteWithPrice: a repeated clientRequestId gets the first quote back.
QuoteSaved(q, amount) ==
  \/ quotes[q] # NoQuote /\ quotes[q].amount = amount /\ UNCHANGED quotes
  \/ /\ quotes[q] = NoQuote
     /\ quotes' = SaveQuote(q, [amount |-> amount, expires |-> Min({now + QuoteTtl, Never})])

CreateQuote(q, amount) ==
  /\ quotes[q] = NoQuote
  /\ QuoteSaved(q, amount)
  /\ UNCHANGED <<now, config, orders, refused, linking, links, acceptVars, prefundVars>>

\* saveOrderQuoteLink: ON CONFLICT DO NOTHING on Postgres, an overwrite in memory.
Linked(q, o) == [links EXCEPT ![q] = IF Postgres /\ @ # None THEN @ ELSE o]

CreateOrderQuote(q, o, amount) ==
  /\ orders[o] # NoOrder /\ Fillable(o, amount)
  /\ QuoteSaved(q, amount)
  /\ IF Postgres THEN linking' = linking \cup {<<q, o>>} /\ UNCHANGED links
                 ELSE links' = Linked(q, o) /\ UNCHANGED linking
  /\ UNCHANGED <<now, config, orders, refused, acceptVars, prefundVars>>

SaveLink(q, o) ==
  /\ <<q, o>> \in linking
  /\ links' = Linked(q, o)
  /\ linking' = linking \ {<<q, o>>}
  /\ UNCHANGED <<now, config, orders, refused, quotes, acceptVars, prefundVars>>

-----------------------------------------------------------------------------
(* acceptQuote *)

AcceptedBy(r) == {q \in Quotes : trades[q].client = r}

\* assertEscrowModeMatchesAllocator
EscrowAvailable(request) == (request.escrow = "multisig") = Multisig

MakerRoles(o) == IF o = None THEN {} ELSE {MakerRole(orders[o].terms)}

Acceptable(q, request) ==
  /\ quotes[q] # NoQuote /\ now < quotes[q].expires
  /\ trades[q] = NoTrade /\ Valid(request)
  /\ links[q] # None => MatchesMaker(orders[links[q]].terms, request)
                        /\ Fillable(links[q], quotes[q].amount)
  /\ EscrowAvailable(request)
  /\ MultisigProofs(q, request, MakerRoles(links[q]))

\* The multisig escrow address commits to the refund time of the trade's
\* deadlines, which count from the moment the call was accepted.
MultisigEscrow(q, r) == <<q, r, now>>

\* assertRequestHashMatches
SameRequest(q, request) == trades[q].request = request

Watching(q, r, escrow) == [pc |-> "watch", quote |-> q, client |-> r, escrow |-> escrow]

BeginAccept_NoSecondWatch(c, q, r, request) ==
  /\ calls[c] = NoCall /\ q \in AcceptedBy(r) /\ SameRequest(q, request)
  /\ answers' = [answers EXCEPT ![r] = @ \cup {trades[q].escrow}]
  /\ UNCHANGED <<now, config, bookVars, trades, allocs, calls, watches, prefundVars>>

\* The row findTradeIdempotencyByClientRequestId returns, or the checks.
BeginAccept(c, q, r, request) ==
  /\ calls[c] = NoCall
  /\ \/ /\ q \in AcceptedBy(r) /\ SameRequest(q, request)
        /\ calls' = [calls EXCEPT ![c] = Watching(q, r, trades[q].escrow)]
     \/ /\ AcceptedBy(r) = {} /\ Acceptable(q, request) /\ Postgres
        /\ calls' = [calls EXCEPT ![c] =
             [pc |-> IF Multisig THEN "save" ELSE "allocate",
              quote |-> q, client |-> r, request |-> request, order |-> links[q], at |-> now, try |-> 1,
              escrow |-> IF Multisig THEN MultisigEscrow(q, r) ELSE NoEscrow]]
  /\ UNCHANGED <<now, config, bookVars, trades, allocs, watches, answers, prefundVars>>

Allocated(q, r) == {a \in allocs : a.quote = q /\ a.client = r}

\* reservePearlEscrowAllocation: unique on the trade and on the derivation.
DerivationTaken(q, r, index) ==
  \E a \in allocs : a.index = index /\ <<a.quote, a.client>> # <<q, r>>

\* One attempt of XpubPearlEscrowAllocator.allocateEscrow.  A derivation taken
\* by another trade moves on to the next index, until none is left to try.
Allocate(c) ==
  LET k == calls[c]
      index == Derive[k.quote][k.try]
  IN  /\ k.pc = "allocate"
      /\ IF Allocated(k.quote, k.client) # {}
         THEN /\ \E a \in Allocated(k.quote, k.client) :
                   calls' = [calls EXCEPT ![c].pc = "save", ![c].escrow = <<a.index>>]
              /\ UNCHANGED allocs
         ELSE IF DerivationTaken(k.quote, k.client, index)
         THEN /\ calls' = [calls EXCEPT ![c] =
                   IF k.try < Len(Derive[k.quote]) THEN [k EXCEPT !.try = @ + 1] ELSE NoCall]
              /\ UNCHANGED allocs
         ELSE /\ allocs' = allocs \cup {[quote |-> k.quote, client |-> k.client, index |-> index]}
              /\ calls' = [calls EXCEPT ![c].pc = "save", ![c].escrow = <<index>>]
      /\ UNCHANGED <<now, config, bookVars, trades, watches, answers, prefundVars>>

\* The UPDATE of the order compares its expiry with the time of the acceptance.
MayFill_CheckedBefore(o, amount, at) == TRUE
MayFill(o, amount, at) ==
  Matchable(o) /\ at < orders[o].terms.expires /\ amount <= orders[o].remaining

Filled(o, amount) ==
  LET nextRemaining == orders[o].remaining - amount
      status == IF nextRemaining = 0 THEN "filled" ELSE "partially_filled"
  IN  [orders EXCEPT ![o] = [@ EXCEPT !.remaining = nextRemaining, !.status = status]]

\* UNIQUE quote_id and client_request_id.
NoConflict_QuoteOnly(q, r) == trades[q] = NoTrade
NoConflict(q, r) == trades[q] = NoTrade /\ AcceptedBy(r) = {}

TradeOf(k) ==
  [client |-> k.client, request |-> k.request, order |-> k.order,
   amount |-> quotes[k.quote].amount, escrow |-> k.escrow]

SaveTrade_FillOutsideTransaction(c) ==
  LET k == calls[c]
      amount == quotes[k.quote].amount
  IN  /\ k.pc = "save" /\ (k.order # None => MayFill(k.order, amount, k.at))
      /\ orders' = IF k.order = None THEN orders ELSE Filled(k.order, amount)
      /\ trades' = IF NoConflict(k.quote, k.client)
                   THEN [trades EXCEPT ![k.quote] = TradeOf(k)] ELSE trades
      /\ calls' = [calls EXCEPT ![c] = Watching(k.quote, k.client, k.escrow)]
      /\ UNCHANGED <<now, config, refused, quotes, linking, links, allocs, watches, answers, prefundVars>>

\* saveAcceptedTrade: trade, fill and event in one transaction.  A conflict on
\* the same request is taken for success, and the call goes on with the trade
\* it has built itself.
SaveTrade(c) ==
  LET k == calls[c]
      amount == quotes[k.quote].amount
      inserts == NoConflict(k.quote, k.client)
      fills == k.order = None \/ MayFill(k.order, amount, k.at)
      repeated == k.quote \in AcceptedBy(k.client) /\ SameRequest(k.quote, k.request)
      succeeds == IF inserts THEN fills ELSE repeated
  IN  /\ k.pc = "save"
      /\ IF inserts /\ fills
         THEN /\ trades' = [trades EXCEPT ![k.quote] = TradeOf(k)]
              /\ orders' = IF k.order = None THEN orders ELSE Filled(k.order, amount)
         ELSE UNCHANGED <<trades, orders>>
      /\ calls' = [calls EXCEPT ![c] =
           IF succeeds THEN Watching(k.quote, k.client, k.escrow) ELSE NoCall]
      /\ UNCHANGED <<now, config, refused, quotes, linking, links, allocs, watches, answers,
                     prefundVars>>

\* In memory the checks, the fill and the trade are not interrupted.
AcceptInMemory(c, q, r, request) ==
  /\ ~Postgres /\ calls[c] = NoCall /\ AcceptedBy(r) = {} /\ Acceptable(q, request)
  /\ trades' = [trades EXCEPT ![q] =
       [client |-> r, request |-> request, order |-> links[q], amount |-> quotes[q].amount,
        escrow |-> MultisigEscrow(q, r)]]
  /\ orders' = IF links[q] = None THEN orders ELSE Filled(links[q], quotes[q].amount)
  /\ calls' = [calls EXCEPT ![c] = Watching(q, r, MultisigEscrow(q, r))]
  /\ UNCHANGED <<now, config, refused, quotes, linking, links, allocs, watches, answers,
                 prefundVars>>

\* registerPearlEscrowWatch: the indexer stores a new watch, repeats an equal
\* one, and answers 409 to one with another address.
Registered(k) == [watches EXCEPT ![k.quote] = IF @ = NoEscrow THEN k.escrow ELSE @]

EnsureWatch(c) ==
  LET k == calls[c]
  IN  /\ k.pc = "watch"
      /\ watches' = Registered(k)
      /\ calls' = [calls EXCEPT ![c] = NoCall]
      /\ answers' = IF watches[k.quote] \in {NoEscrow, k.escrow}
                    THEN [answers EXCEPT ![k.client] = @ \cup {k.escrow}] ELSE answers
      /\ UNCHANGED <<now, config, bookVars, trades, allocs, prefundVars>>

\* The request to the indexer fails or times out, before or after it was served.
WatchFails(c) ==
  /\ calls[c].pc = "watch"
  /\ watches' \in {watches, Registered(calls[c])}
  /\ calls' = [calls EXCEPT ![c] = NoCall]
  /\ UNCHANGED <<now, config, bookVars, trades, allocs, answers, prefundVars>>

Crash ==
  /\ Postgres
  /\ calls' = [c \in Callers |-> NoCall]
  /\ linking' = {}
  /\ UNCHANGED <<now, config, orders, refused, quotes, links, trades, allocs, watches, answers,
                 prefundVars>>

-----------------------------------------------------------------------------
(* Prefunded orders *)

Sweepable == {"funded", "partially_swept"}

Prefunded(o) == orders[o] # NoOrder /\ orders[o].prefund # None

Deposited(o) == coins[o].amount > 0 /\ coins[o].spent = None

\* External: the maker pays the prefund address, once.
DepositPrefund(o, amount) ==
  /\ Prefunded(o) /\ coins[o].amount = 0
  /\ coins' = [coins EXCEPT ![o] = [amount |-> amount, spent |-> None]]
  /\ UNCHANGED <<now, config, bookVars, acceptVars, sweeps, sweeping>>

\* listOrdersByPrefundState for one of the states
InPrefundState(o, states) == Prefunded(o) /\ orders[o].prefund \in states

\* The writes of the repository, each of which compares the state it finds.
FundedBy(o, amount) ==
  [orders EXCEPT ![o] = [@ EXCEPT !.prefund = "funded", !.funded = amount, !.left = amount]]
PrefundExpired(o) ==
  [orders EXCEPT ![o] = [@ EXCEPT !.prefund = "expired", !.status = "expired"]]
CancelledForCltv(o) == [orders EXCEPT ![o] = [@ EXCEPT !.status = "cancelled"]]
RefundPending(o) == [orders EXCEPT ![o] = [@ EXCEPT !.prefund = "refund_pending"]]
PrefundRefunded(o) ==
  [orders EXCEPT ![o] = [@ EXCEPT !.prefund = "refunded", !.status = "cancelled"]]

\* runPrefundFundingObserverIteration for one order.  An underfunded deposit is
\* left alone, also after the refund time; a failed observation counts as none
\* once that time has come.
ObservePrefund(o, reachable) ==
  /\ InPrefundState(o, {"pending_funding"})
  /\ \/ /\ reachable /\ Deposited(o) /\ coins[o].amount >= Amount
        /\ orders' = FundedBy(o, coins[o].amount)
     \/ /\ ~(reachable /\ Deposited(o)) /\ now >= orders[o].until
        /\ orders' = PrefundExpired(o)
  /\ UNCHANGED <<now, config, refused, quotes, linking, links, acceptVars, prefundVars>>

\* runPrefundCltvCutoffIteration for one order.
Cutoff(o) ==
  /\ InPrefundState(o, Sweepable) /\ orders[o].status # "cancelled" /\ now >= orders[o].until
  /\ orders' = CancelledForCltv(o)
  /\ UNCHANGED <<now, config, refused, quotes, linking, links, acceptVars, prefundVars>>

\* requestPrefundRefund: the order stays in the book.
RequestRefund(o) ==
  /\ InPrefundState(o, Sweepable) /\ now >= orders[o].until /\ orders[o].left > 0
  /\ orders' = RefundPending(o)
  /\ UNCHANGED <<now, config, refused, quotes, linking, links, acceptVars, prefundVars>>

\* External: the maker spends the deposit through the CLTV leaf.
MakerRefunds(o) ==
  /\ Deposited(o) /\ now >= orders[o].until
  /\ coins' = [coins EXCEPT ![o].spent = "refund"]
  /\ UNCHANGED <<now, config, bookVars, acceptVars, sweeps, sweeping>>

RecordRefunded(o) ==
  /\ InPrefundState(o, {"refund_pending"}) /\ coins[o].spent = "refund"
  /\ orders' = PrefundRefunded(o)
  /\ UNCHANGED <<now, config, refused, quotes, linking, links, acceptVars, prefundVars>>

\* initiateOrderSweep takes the order, the trade and the amount from its caller and
\* relates none of them to another; nothing in the repository calls it yet.  A
\* deployment's callers sweep for the trades of orders what these have sold, or
\* pass any order, trade id and amount.
OfTrades == config.sweeps = "of_trades"

MaySweep(q, o) == OfTrades => trades[q] # NoTrade /\ trades[q].order = o

Asked(q, grains) == OfTrades => grains = trades[q].amount

\* The caller of initiateOrderSweep reads the order; a row in another state would be
\* refused.
ReadForSweep(q, o) ==
  /\ sweeping[q] = NoRow /\ InPrefundState(o, Sweepable) /\ MaySweep(q, o)
  /\ sweeping' = [sweeping EXCEPT ![q] = [order |-> o, left |-> orders[o].left]]
  /\ UNCHANGED <<now, config, bookVars, acceptVars, sweeps, coins>>

\* applyOrderPrefundSweepProgress writes what was computed from the row the
\* caller holds, if the order is still sweepable.
SweepProgress(o, left) ==
  [orders EXCEPT ![o] =
     IF @.prefund \in Sweepable
     THEN [@ EXCEPT !.left = left, !.prefund = IF left = 0 THEN "fully_swept" ELSE "partially_swept"]
     ELSE @]

\* saveOrderSweep: one sweep a trade.
SweepSaved(q, o, grains) ==
  [sweeps EXCEPT ![q] = [status |-> "unsigned", order |-> o, grains |-> grains]]
SweepUpdated(q, status) == [sweeps EXCEPT ![q].status = status]

InitiateSweep(q, grains) ==
  LET row == sweeping[q]
  IN  /\ row # NoRow /\ Asked(q, grains)
      /\ IF grains <= row.left /\ sweeps[q] = NoSweep
         THEN /\ sweeps' = SweepSaved(q, row.order, grains)
              /\ orders' = SweepProgress(row.order, row.left - grains)
         ELSE UNCHANGED <<sweeps, orders>>
      /\ sweeping' = [sweeping EXCEPT ![q] = NoRow]
      /\ UNCHANGED <<now, config, refused, quotes, linking, links, acceptVars, coins>>

\* "unsigned" stands for pending and awaiting_maker_signature.
\* autoSignAndBroadcastSweep and applyMakerSweepSignature: every sweep spends the
\* output that funded the order, so the node accepts the first one.
BroadcastSweep(q) ==
  /\ sweeps[q].status = "unsigned"
  /\ Deposited(sweeps[q].order)
  /\ sweeps' = SweepUpdated(q, "broadcast")
  /\ coins' = [coins EXCEPT ![sweeps[q].order].spent = "sweep"]
  /\ UNCHANGED <<now, config, bookVars, acceptVars, sweeping>>

RecordSweepConfirmed(q) ==
  /\ sweeps[q].status = "broadcast"
  /\ sweeps' = SweepUpdated(q, "confirmed")
  /\ UNCHANGED <<now, config, bookVars, acceptVars, sweeping, coins>>

-----------------------------------------------------------------------------
Tick ==
  /\ now < MaxTime
  /\ now' = now + 1
  /\ UNCHANGED <<config, bookVars, acceptVars, prefundVars>>

Init ==
  /\ now = 0 /\ config \in Configs
  /\ orders = [o \in Orders |-> NoOrder] /\ refused = {}
  /\ quotes = [q \in Quotes |-> NoQuote] /\ linking = {}
  /\ links = [q \in Quotes |-> None]
  /\ trades = [q \in Quotes |-> NoTrade] /\ allocs = {}
  /\ calls = [c \in Callers |-> NoCall]
  /\ watches = [q \in Quotes |-> NoEscrow]
  /\ answers = [r \in Clients |-> {}]
  /\ sweeps = [q \in Quotes |-> NoSweep]
  /\ sweeping = [q \in Quotes |-> NoRow]
  /\ coins = [o \in Orders |-> [amount |-> 0, spent |-> None]]

Book ==
  \/ \E o \in Orders, offer \in Offers, prefunded \in BOOLEAN :
       offer.terms.side = config.side /\ CreateOrder(o, offer.terms, offer.proof, prefunded)
  \/ \E q \in Quotes : CreateQuote(q, Amount)
  \/ \E q \in Quotes, o \in Orders, amount \in 1..Amount : CreateOrderQuote(q, o, amount)
  \/ \E q \in Quotes, o \in Orders : SaveLink(q, o)

Acceptance ==
  \E c \in Callers :
    \/ \E q \in Quotes, r \in Clients : \E request \in Requests[q] :
         BeginAccept(c, q, r, request) \/ AcceptInMemory(c, q, r, request)
    \/ Allocate(c) \/ SaveTrade(c) \/ EnsureWatch(c) \/ WatchFails(c)

Prefund ==
  \/ \E o \in Orders :
       \/ \E amount \in 1..Amount : DepositPrefund(o, amount)
       \/ \E reachable \in BOOLEAN : ObservePrefund(o, reachable)
       \/ Cutoff(o) \/ RequestRefund(o) \/ MakerRefunds(o) \/ RecordRefunded(o)
  \/ \E q \in Quotes :
       \/ \E o \in Orders : ReadForSweep(q, o)
       \/ \E grains \in 1..Amount : InitiateSweep(q, grains)
       \/ BroadcastSweep(q) \/ RecordSweepConfirmed(q)

Next == Book \/ Acceptance \/ Prefund \/ Crash \/ Tick

Spec == Init /\ [][Next]_vars

-----------------------------------------------------------------------------
(* Properties *)

Statuses == {"open", "partially_filled", "filled", "cancelled", "expired"}
PrefundStates == {"pending_funding", "funded", "partially_swept", "fully_swept",
                  "refund_pending", "refunded", "expired"}
Escrows == {NoEscrow} \cup {<<i>> : i \in UNION {{Derive[q][k] : k \in DOMAIN Derive[q]} : q \in Quotes}}
                  \cup (Quotes \X Clients \X (0..MaxTime))

OrderRows ==
  [status : Statuses, remaining : 0..Amount, terms : {offer.terms : offer \in Offers},
   prefund : PrefundStates \cup {None},
   until : Nat, funded : 0..Amount, left : 0..Amount]

SweepRows ==
  [status : {"unsigned", "broadcast", "confirmed"}, order : Orders, grains : 1..Amount]

\* Rows keep their shape; an order is filled exactly while nothing remains of it,
\* unless it was closed since; the book-keeping of a prefund agrees with its state,
\* and only the in-memory repository holds one.
TypeOK ==
  /\ now \in 0..MaxTime /\ config \in Configs
  /\ \A o \in Orders :
       \/ orders[o] = NoOrder
       \/ /\ orders[o] \in OrderRows
          /\ orders[o].status = "filled" => orders[o].remaining = 0
          /\ Matchable(o) => orders[o].remaining > 0
          /\ orders[o].prefund = "fully_swept" => orders[o].left = 0
          /\ orders[o].prefund \in Sweepable \cup {"refund_pending", "refunded"} => orders[o].left > 0
          /\ orders[o].prefund = "refunded" => orders[o].status = "cancelled"
          /\ orders[o].prefund = "expired" => orders[o].status = "expired"
          /\ Postgres => orders[o].prefund = None
  /\ refused \subseteq Orders /\ linking \subseteq Quotes \X Orders
  /\ links \in [Quotes -> Orders \cup {None}]
  /\ \A q \in Quotes : quotes[q].amount \in 0..Amount
  /\ \A q \in Quotes : trades[q] # NoTrade =>
       /\ trades[q] \in [client : Clients, request : Requests[q], order : Orders \cup {None},
                         amount : 1..Amount, escrow : Escrows]
       /\ quotes[q].amount = trades[q].amount
  /\ \A a \in allocs : a.quote \in Quotes /\ a.client \in Clients
  /\ \A c \in Callers : calls[c].pc \in {"idle", "allocate", "save", "watch"}
  /\ \A q \in Quotes : watches[q] \in Escrows /\ sweeps[q] \in SweepRows \cup {NoSweep}

Fills(o) == {q \in Quotes : trades[q].client # None /\ trades[q].order = o}

Taken(o) == SumFunctionOnSet([q \in Fills(o) |-> trades[q].amount], Fills(o))

\* What remains of an order and what its trades have taken add up to its amount:
\* concurrent acceptances, rollbacks and crashes neither overfill it nor lose a fill.
FillsConserved ==
  \A o \in Orders : orders[o] # NoOrder => orders[o].remaining + Taken(o) = Amount

\* A clientRequestId gets at most one trade and two trades never share an escrow,
\* whichever calls race and whatever earlier attempts have left allocated.
AcceptanceIsUnique ==
  \A p, q \in Quotes : (p # q /\ trades[p] # NoTrade /\ trades[q] # NoTrade) =>
    trades[p].client # trades[q].client /\ trades[p].escrow # trades[q].escrow

\* The owners of both signer keys of a multisig trade have signed for the role they
\* have in it, with the addresses and the release signing mode it was stored with: for
\* this quote, or as the maker of the order it fills.
BothHaveSigned ==
  Multisig => \A q \in Quotes : trades[q] # NoTrade =>
    LET t == trades[q]
        party == t.request.party
    IN  \A role \in Roles :
          \/ <<party[role].key, <<"accept", q, role, party[role], t.request.mode>>>> \in Signed
          \/ /\ t.order # None
             /\ \E terms \in {offer.terms : offer \in Offers} :
                  /\ <<party[role].key, <<"order", terms, role>>>> \in Signed
                  /\ terms = orders[t.order].terms
                  /\ terms.maker = party[role] /\ terms.mode = t.request.mode

\* Every escrow address a client was answered with is watched, under a trade of its
\* request: also after a crash or a failed call of the indexer, a repeated request, or
\* two calls of one request that built different escrows.
AnsweredIsWatched ==
  \A r \in Clients : \A e \in answers[r] : \E q \in AcceptedBy(r) : watches[q] = e

Sweeps(o) == {q \in Quotes : sweeps[q].status # None /\ sweeps[q].order = o}
Swept(o) == SumFunctionOnSet([q \in Sweeps(o) |-> sweeps[q].grains], Sweeps(o))

\* While callers sweep for the trades of an order what these have sold, the sweeps of
\* an order never take more than was deposited for it, although each compares its
\* amount with a row that was read before the last one was saved.
SweptWithinPrefund ==
  OfTrades => \A o \in Orders : orders[o] # NoOrder => Swept(o) <= orders[o].funded

\* A cancelled, expired or filled order never takes a fill again, from calls that
\* have read it before it was closed, nor comes back to the book; a stored trade
\* never changes.
ClosedStaysClosed ==
  [][/\ \A o \in Orders : (orders[o] # NoOrder /\ ~Matchable(o)) =>
          ~Matchable(o)' /\ orders'[o].remaining = orders[o].remaining
     /\ \A q \in Quotes : trades[q] # NoTrade => trades'[q] = trades[q]]_vars
=============================================================================
