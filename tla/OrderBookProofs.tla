---------------------------- MODULE OrderBookProofs ----------------------------
(***************************************************************************)
(* Proofs about OrderBook, for any number of orders, quotes, clients and   *)
(* overlapping calls: nobody is bound to terms it has not signed, a client *)
(* request has one trade with an escrow of its own, an answered escrow is  *)
(* watched, and what is closed stays closed.                               *)
(***************************************************************************)
EXTENDS OrderBook, DataInduction, TLAPS

AgreedTerms == {offer.terms : offer \in Offers}
OrderRecs ==
  [status : Statuses, remaining : Int, terms : AgreedTerms, prefund : PrefundStates \cup {None},
   until : Int, funded : Int, left : Int]

AllRequests == UNION {Requests[q] : q \in Quotes}
Places == {NoEscrow} \cup {<<i>> : i \in Nat} \cup (Quotes \X Clients \X Nat)
TradeRecs ==
  [client : Clients, request : AllRequests, order : Orders \cup {None}, amount : Int, escrow : Places]
CallRecs ==
  {NoCall} \cup [pc : {"watch"}, quote : Quotes, client : Clients, escrow : Places]
    \cup [pc : {"save", "allocate"}, quote : Quotes, client : Clients, request : AllRequests,
          order : Orders \cup {None}, at : Int, try : Nat, escrow : Places]

Types ==
  /\ now \in Nat /\ config \in Configs
  /\ orders \in [Orders -> {NoOrder} \cup OrderRecs]
  /\ quotes \in [Quotes -> [amount : Int, expires : Int]]
  /\ linking \subseteq Quotes \X Orders /\ links \in [Quotes -> Orders \cup {None}]
  /\ trades \in [Quotes -> {NoTrade} \cup TradeRecs]
  /\ allocs \subseteq [quote : Quotes, client : Clients, index : Nat]
  /\ calls \in [Callers -> CallRecs]
  /\ watches \in [Quotes -> Places] /\ answers \in [Clients -> SUBSET Places]
  /\ sweeping \in [Quotes -> {NoRow} \cup [order : Orders, left : Int]]
  /\ coins \in [Orders -> [amount : Int, spent : {None, "sweep", "refund"}]]

\* Makers have signed the orders in the book, and a link names one of them.
BookOK ==
  /\ \A o \in Orders : orders[o] # NoOrder =>
       <<orders[o].terms.maker.key, OrderMessage(orders[o].terms)>> \in Signed
  /\ \A q \in Quotes : links[q] # None => orders[links[q]] # NoOrder
  /\ \A l \in linking : orders[l[2]] # NoOrder

\* The owner of each key has signed for this quote, or is the maker of the order.
Agreed(q, request, o) ==
  \A role \in Roles :
    \/ <<request.party[role].key, SignerMessage(q, role, request.party[role], request.mode)>> \in Signed
    \/ /\ o \in Orders /\ orders[o] # NoOrder /\ role = MakerRole(orders[o].terms)
       /\ request.party[role] = orders[o].terms.maker /\ request.mode = orders[o].terms.mode

\* An escrow belongs to a quote: its address commits to it, or its derivation is
\* reserved for it.
EscrowOK(q, r, e) ==
  /\ e # NoEscrow
  /\ Multisig => \E n \in Nat : e = <<q, r, n>>
  /\ ~Multisig => \E a \in allocs : a.quote = q /\ a.client = r /\ e = <<a.index>>

TradeOK(q, t) ==
  t # NoTrade => EscrowOK(q, t.client, t.escrow) /\ (Multisig => Agreed(q, t.request, t.order))

CallOK(k) ==
  /\ k.pc = "allocate" => ~Multisig /\ k.try \in 1..Len(Derive[k.quote])
  /\ k.pc \in {"save", "watch"} => EscrowOK(k.quote, k.client, k.escrow)
  /\ k.pc = "save" /\ Multisig => Agreed(k.quote, k.request, k.order)
  /\ k.pc = "watch" => trades[k.quote] # NoTrade /\ trades[k.quote].client = k.client

AllocsOK == \A a, b \in allocs : a.index = b.index => a.quote = b.quote

ClientsDiffer ==
  \A p, q \in Quotes : (p # q /\ trades[p] # NoTrade /\ trades[q] # NoTrade) =>
    trades[p].client # trades[q].client

AnswersOK ==
  \A r \in Clients : \A e \in answers[r] :
    e # NoEscrow /\ \E q \in Quotes : trades[q] # NoTrade /\ trades[q].client = r /\ watches[q] = e

\* The rows that callers hold are of orders that exist.
SweepingOK == \A q \in Quotes : sweeping[q] # NoRow => orders[sweeping[q].order] # NoOrder

\* The steps of one sweep.
SweepSteps(q) ==
  \/ \E o \in Orders : ReadForSweep(q, o)
  \/ \E grains \in 1..Amount : InitiateSweep(q, grains)
  \/ BroadcastSweep(q) \/ RecordSweepConfirmed(q)

IInv ==
  /\ Types /\ BookOK /\ AllocsOK /\ ClientsDiffer /\ AnswersOK /\ SweepingOK
  /\ \A c \in Callers : CallOK(calls[c])
  /\ \A q \in Quotes : TradeOK(q, trades[q])

\* What every step leaves as it is.
Kept ==
  /\ config' = config /\ allocs \subseteq allocs'
  /\ \A o \in Orders : orders[o] # NoOrder => orders'[o] # NoOrder /\ orders'[o].terms = orders[o].terms
  /\ \A q \in Quotes : trades[q] # NoTrade => trades'[q] = trades[q]

-----------------------------------------------------------------------------
(* What holds of a call or a trade goes on holding *)

\* An agreement stays one, since orders keep their terms.
LEMMA AgreedStays ==
  ASSUME Kept, NEW q, NEW request, NEW o, Agreed(q, request, o)
  PROVE  Agreed(q, request, o)'
BY DEF Kept, Agreed

\* A reserved derivation stays reserved.
LEMMA EscrowStays ==
  ASSUME Kept, NEW q, NEW r, NEW e, EscrowOK(q, r, e)
  PROVE  EscrowOK(q, r, e)'
BY DEF Kept, EscrowOK, Multisig

\* A call that was in order is, whatever others do.
LEMMA CallStays ==
  ASSUME Kept, NEW k \in CallRecs, CallOK(k)
  PROVE  CallOK(k)'
<1>1. Multisig' <=> Multisig
  BY DEF Kept, Multisig
<1>2. k.pc = "watch" => k.quote \in Quotes
  BY DEF CallRecs, NoCall
<1>3. k.pc = "watch" => trades'[k.quote] # NoTrade /\ trades'[k.quote].client = k.client
  BY <1>2 DEF Kept, CallOK
<1> QED BY <1>1, <1>3, AgreedStays, EscrowStays DEF CallOK

\* A trade that was in order is.
LEMMA TradeStays ==
  ASSUME Kept, NEW q, NEW t, TradeOK(q, t)
  PROVE  TradeOK(q, t)'
<1>1. Multisig' <=> Multisig
  BY DEF Kept, Multisig
<1> QED BY <1>1, AgreedStays, EscrowStays DEF TradeOK

\* The orders of sweeps stay.
LEMMA SweepingStays ==
  ASSUME IInv, Kept,
         \A q \in Quotes : sweeping'[q] # NoRow =>
           \/ sweeping'[q] = sweeping[q]
           \/ sweeping'[q].order \in Orders /\ orders[sweeping'[q].order] # NoOrder
  PROVE  SweepingOK'
<1>1. \A q \in Quotes : sweeping[q] # NoRow => sweeping[q].order \in Orders
  BY DEF IInv, Types
<1> QED BY <1>1 DEF IInv, Kept, SweepingOK

\* A step outside the acceptance of quotes.
LEMMA BookMoves ==
  ASSUME IInv, Kept, Types', BookOK', SweepingOK', UNCHANGED acceptVars
  PROVE  IInv'
<1>1. UNCHANGED <<trades, allocs, calls, watches, answers>>
  BY DEF acceptVars
<1>2. \A c \in Callers : CallOK(calls[c])'
  <2>1. ASSUME NEW c \in Callers PROVE CallOK(calls[c])'
    <3>1. PICK k \in CallRecs : k = calls[c]
      BY DEF IInv, Types
    <3>2. CallOK(k)'
      BY <3>1, CallStays DEF IInv
    <3> QED BY <1>1, <3>1, <3>2 DEF CallOK
  <2> QED BY <2>1
<1>3. \A q \in Quotes : TradeOK(q, trades[q])'
  <2>1. ASSUME NEW q \in Quotes PROVE TradeOK(q, trades[q])'
    <3>1. PICK t : t = trades[q]
      OBVIOUS
    <3>2. TradeOK(q, t)'
      BY <3>1, TradeStays DEF IInv
    <3> QED BY <1>1, <3>1, <3>2 DEF TradeOK
  <2> QED BY <2>1
<1>4. AllocsOK' /\ ClientsDiffer' /\ AnswersOK'
  BY <1>1 DEF IInv, AllocsOK, ClientsDiffer, AnswersOK
<1> QED BY <1>2, <1>3, <1>4 DEF IInv

\* A step of one call: the others and the stored trades stay in order.
LEMMA CallMoves ==
  ASSUME IInv, Kept, NEW c \in Callers, NEW k \in CallRecs, calls' = [calls EXCEPT ![c] = k],
         CallOK(k)', Types', BookOK', AllocsOK', ClientsDiffer', AnswersOK', UNCHANGED sweeping,
         \A q \in Quotes : trades'[q] # trades[q] => TradeOK(q, trades[q])'
  PROVE  IInv'
<1>1. calls \in [Callers -> CallRecs]
  BY DEF IInv, Types
<1>2. ASSUME NEW d \in Callers PROVE CallOK(calls[d])'
  <2>1. CASE d = c
    <3>1. calls'[d] = k
      BY <1>1, <2>1
    <3> QED BY <3>1 DEF CallOK
  <2>2. CASE d # c
    <3>1. PICK l \in CallRecs : l = calls[d]
      BY <1>1
    <3>2. CallOK(l)'
      BY <3>1, CallStays DEF IInv
    <3>3. calls'[d] = l
      BY <1>1, <2>2, <3>1
    <3> QED BY <3>2, <3>3 DEF CallOK
  <2> QED BY <2>1, <2>2
<1>3. ASSUME NEW q \in Quotes PROVE TradeOK(q, trades[q])'
  <2>1. CASE trades'[q] = trades[q]
    <3>1. PICK t : t = trades[q]
      OBVIOUS
    <3>2. TradeOK(q, t)'
      BY <3>1, TradeStays DEF IInv
    <3> QED BY <2>1, <3>1, <3>2 DEF TradeOK
  <2> QED BY <2>1
<1>4. SweepingOK'
  BY SweepingStays
<1> QED BY <1>2, <1>3, <1>4 DEF IInv

-----------------------------------------------------------------------------
(* Writes of an order's row *)

\* A row written over another one keeps the order's terms.
LEMMA OrderWritten ==
  ASSUME orders \in [Orders -> {NoOrder} \cup OrderRecs], NEW o \in Orders, orders[o] # NoOrder,
         NEW row \in OrderRecs, row.terms = orders[o].terms, orders' = [orders EXCEPT ![o] = row]
  PROVE  /\ orders' \in [Orders -> {NoOrder} \cup OrderRecs]
         /\ \A x \in Orders : orders[x] # NoOrder =>
              orders'[x] # NoOrder /\ orders'[x].terms = orders[x].terms
         /\ \A x \in Orders : orders'[x] # NoOrder => orders[x] # NoOrder
<1>1. row # NoOrder
  BY DEF OrderRecs, NoOrder, Statuses, None
<1> QED BY <1>1

\* Orders that keep their terms are still signed, and links still name them.
LEMMA BookStays ==
  ASSUME IInv, orders' \in [Orders -> {NoOrder} \cup OrderRecs],
         \A x \in Orders : orders[x] # NoOrder => orders'[x] # NoOrder /\ orders'[x].terms = orders[x].terms,
         \A x \in Orders : orders'[x] # NoOrder => orders[x] # NoOrder, UNCHANGED <<linking, links>>
  PROVE  BookOK'
<1>1. \A l \in linking : l[2] \in Orders
  BY DEF IInv, Types
<1>2. \A q \in Quotes : links[q] # None => links[q] \in Orders
  BY DEF IInv, Types
<1> QED BY <1>1, <1>2 DEF IInv, BookOK, OrderMessage

SweepingRows == [Quotes -> {NoRow} \cup [order : Orders, left : Int]]
Coins == [Orders -> [amount : Int, spent : {None, "sweep", "refund"}]]

\* A step that may write one order's row, and touches no quote, link or trade.
LEMMA RowMoves ==
  ASSUME IInv, NEW o \in Orders,
         \/ UNCHANGED orders
         \/ /\ orders[o] # NoOrder
            /\ \E row \in OrderRecs : row.terms = orders[o].terms /\ orders' = [orders EXCEPT ![o] = row],
         UNCHANGED <<config, quotes, linking, links, acceptVars>>,
         now' \in Nat, sweeping' \in SweepingRows, coins' \in Coins,
         \A q \in Quotes : sweeping'[q] # NoRow =>
           \/ sweeping'[q] = sweeping[q]
           \/ sweeping'[q].order \in Orders /\ orders[sweeping'[q].order] # NoOrder
  PROVE  IInv'
<1>1. UNCHANGED <<trades, allocs, calls, watches, answers>>
  BY DEF acceptVars
<1>2. /\ orders' \in [Orders -> {NoOrder} \cup OrderRecs]
      /\ \A x \in Orders : orders[x] # NoOrder => orders'[x] # NoOrder /\ orders'[x].terms = orders[x].terms
      /\ \A x \in Orders : orders'[x] # NoOrder => orders[x] # NoOrder
  BY OrderWritten DEF IInv, Types
<1>3. BookOK'
  BY <1>2, BookStays
<1>4. Types'
  BY <1>1, <1>2 DEF IInv, Types, SweepingRows, Coins
<1>5. Kept
  BY <1>1, <1>2 DEF Kept
<1>6. SweepingOK'
  BY <1>5, SweepingStays
<1> QED BY <1>3, <1>4, <1>5, <1>6, BookMoves

\* A step that writes no order, quote, link or trade.
LEMMA NoRowMoves ==
  ASSUME IInv, UNCHANGED <<orders, config, quotes, linking, links, acceptVars, sweeping>>,
         now' \in Nat, coins' \in Coins
  PROVE  IInv'
<1>1. UNCHANGED <<trades, allocs, calls, watches, answers>>
  BY DEF acceptVars
<1>2. Kept /\ BookOK'
  BY <1>1 DEF Kept, IInv, BookOK
<1>3. Types'
  BY <1>1 DEF IInv, Types, Coins
<1>4. SweepingOK'
  BY <1>2, SweepingStays
<1> QED BY <1>2, <1>3, <1>4, BookMoves

\* The rows the prefund's loops and the maker's refund write.
LEMMA PrefundRows ==
  ASSUME IInv, NEW o \in Orders, orders[o] # NoOrder, NEW amount \in Int, NEW left \in Int
  PROVE  \A next \in {FundedBy(o, amount), PrefundExpired(o), CancelledForCltv(o), RefundPending(o),
                      PrefundRefunded(o), SweepProgress(o, left)} :
           \E row \in OrderRecs : row.terms = orders[o].terms /\ next = [orders EXCEPT ![o] = row]
<1> DEFINE old == orders[o]
<1>1. old \in [status : Statuses, remaining : Int, terms : AgreedTerms, prefund : PrefundStates \cup {None},
               until : Int, funded : Int, left : Int]
  BY DEF IInv, Types, OrderRecs
<1>2. orders \in [Orders -> {NoOrder} \cup OrderRecs]
  BY DEF IInv, Types
<1> DEFINE a == [old EXCEPT !.prefund = "funded", !.funded = amount, !.left = amount]
           b == [old EXCEPT !.prefund = "expired", !.status = "expired"]
           d == [old EXCEPT !.status = "cancelled"]
           f == [old EXCEPT !.prefund = "refund_pending"]
           g == [old EXCEPT !.prefund = "refunded", !.status = "cancelled"]
           s == IF old.prefund \in Sweepable
                THEN [old EXCEPT !.left = left, !.prefund = IF left = 0 THEN "fully_swept" ELSE "partially_swept"]
                ELSE old
<1>3. a \in OrderRecs /\ a.terms = old.terms /\ b \in OrderRecs /\ b.terms = old.terms
  BY <1>1 DEF OrderRecs, Statuses, PrefundStates
<1>4. d \in OrderRecs /\ d.terms = old.terms /\ f \in OrderRecs /\ f.terms = old.terms
  BY <1>1 DEF OrderRecs, Statuses, PrefundStates
<1>5. g \in OrderRecs /\ g.terms = old.terms
  BY <1>1 DEF OrderRecs, Statuses, PrefundStates
<1>6. s \in OrderRecs /\ s.terms = old.terms
  BY <1>1 DEF OrderRecs, PrefundStates
<1>7. /\ FundedBy(o, amount) = [orders EXCEPT ![o] = a]
      /\ PrefundExpired(o) = [orders EXCEPT ![o] = b]
  BY <1>2 DEF FundedBy, PrefundExpired
<1>8. /\ CancelledForCltv(o) = [orders EXCEPT ![o] = d] /\ RefundPending(o) = [orders EXCEPT ![o] = f]
      /\ PrefundRefunded(o) = [orders EXCEPT ![o] = g]
  BY <1>2 DEF CancelledForCltv, RefundPending, PrefundRefunded
<1>9. SweepProgress(o, left) = [orders EXCEPT ![o] = s]
  BY <1>2 DEF SweepProgress
<1> HIDE DEF a, b, d, f, g, s
<1> QED BY <1>3, <1>4, <1>5, <1>6, <1>7, <1>8, <1>9

\* The steps of prefunded orders, the clock and a crash.
LEMMA PrefundKeeps ==
  ASSUME IInv, NEW o \in Orders,
         \/ \E amount \in 1..Amount : DepositPrefund(o, amount)
         \/ \E reachable \in BOOLEAN : ObservePrefund(o, reachable)
         \/ Cutoff(o) \/ RequestRefund(o) \/ MakerRefunds(o) \/ RecordRefunded(o)
  PROVE  IInv'
<1>1. now \in Nat /\ sweeping \in SweepingRows /\ coins \in Coins /\ \A x \in Orders : coins[x].amount \in Int
  BY DEF IInv, Types, SweepingRows, Coins
<1>2. ASSUME NEW amount \in 1..Amount, DepositPrefund(o, amount) PROVE IInv'
  <2>1. coins' \in Coins
    BY <1>1, <1>2, OrderBookAssumption DEF DepositPrefund, Coins
  <2>2. UNCHANGED <<orders, config, quotes, linking, links, acceptVars, now, sweeping>>
    BY <1>2 DEF DepositPrefund, bookVars
  <2> QED BY <1>1, <2>1, <2>2, RowMoves
<1>3. ASSUME NEW reachable \in BOOLEAN, ObservePrefund(o, reachable) PROVE IInv'
  <2>1. orders' \in {FundedBy(o, coins[o].amount), PrefundExpired(o)} /\ orders[o] # NoOrder
    BY <1>3 DEF ObservePrefund, InPrefundState, Prefunded
  <2>2. \E row \in OrderRecs : row.terms = orders[o].terms /\ orders' = [orders EXCEPT ![o] = row]
    BY <1>1, <2>1, PrefundRows
  <2>3. UNCHANGED <<config, quotes, linking, links, acceptVars, now, sweeping, coins>>
    BY <1>3 DEF ObservePrefund, prefundVars
  <2> QED BY <1>1, <2>1, <2>2, <2>3, RowMoves
<1>4. CASE Cutoff(o) \/ RequestRefund(o) \/ RecordRefunded(o)
  <2>1. orders' \in {CancelledForCltv(o), RefundPending(o), PrefundRefunded(o)} /\ orders[o] # NoOrder
    BY <1>4 DEF Cutoff, RequestRefund, RecordRefunded, InPrefundState, Prefunded
  <2>2. \E row \in OrderRecs : row.terms = orders[o].terms /\ orders' = [orders EXCEPT ![o] = row]
    BY <1>1, <2>1, PrefundRows
  <2>3. UNCHANGED <<config, quotes, linking, links, acceptVars, now, sweeping, coins>>
    BY <1>4 DEF Cutoff, RequestRefund, RecordRefunded, prefundVars
  <2> QED BY <1>1, <2>1, <2>2, <2>3, RowMoves
<1>5. CASE MakerRefunds(o)
  <2>1. coins' \in Coins
    BY <1>1, <1>5 DEF MakerRefunds, Coins
  <2>2. UNCHANGED <<orders, config, quotes, linking, links, acceptVars, now, sweeping>>
    BY <1>5 DEF MakerRefunds, bookVars
  <2> QED BY <1>1, <2>1, <2>2, RowMoves
<1> QED BY <1>2, <1>3, <1>4, <1>5

\* The steps of sweeps.
LEMMA SweepKeeps ==
  ASSUME IInv, NEW q \in Quotes,
         SweepSteps(q)
  PROVE  IInv'
<1>1. now \in Nat /\ sweeping \in SweepingRows /\ coins \in Coins
  BY DEF IInv, Types, SweepingRows, Coins
<1>2. ASSUME NEW o \in Orders, ReadForSweep(q, o) PROVE IInv'
  <2>1. orders[o] # NoOrder /\ orders[o] \in OrderRecs
    BY <1>2 DEF ReadForSweep, InPrefundState, Prefunded, IInv, Types
  <2>2. PICK row : row = [order |-> o, left |-> orders[o].left]
    OBVIOUS
  <2>3. row \in [order : Orders, left : Int] /\ row.order = o
    BY <2>1, <2>2 DEF OrderRecs
  <2>4. sweeping' = [sweeping EXCEPT ![q] = row]
    BY <1>2, <2>2 DEF ReadForSweep
  <2>5. sweeping' \in SweepingRows /\ sweeping'[q] = row /\ \A p \in Quotes \ {q} : sweeping'[p] = sweeping[p]
    BY <1>1, <2>3, <2>4 DEF SweepingRows
  <2>6. UNCHANGED <<orders, config, quotes, linking, links, acceptVars, now, coins>>
    BY <1>2 DEF ReadForSweep, bookVars
  <2>7. \A p \in Quotes : sweeping'[p] # NoRow =>
          \/ sweeping'[p] = sweeping[p]
          \/ sweeping'[p].order \in Orders /\ orders[sweeping'[p].order] # NoOrder
    BY <2>1, <2>3, <2>5
  <2> QED BY <1>1, <2>5, <2>6, <2>7, RowMoves
<1>3. ASSUME NEW grains \in 1..Amount, InitiateSweep(q, grains) PROVE IInv'
  <2>1. /\ UNCHANGED <<config, quotes, linking, links, acceptVars, now, coins>>
        /\ sweeping' = [sweeping EXCEPT ![q] = NoRow] /\ sweeping[q] # NoRow
    BY <1>3 DEF InitiateSweep
  <2>2. /\ sweeping' \in SweepingRows
        /\ \A p \in Quotes : sweeping'[p] # NoRow => sweeping'[p] = sweeping[p]
    BY <1>1, <2>1 DEF SweepingRows
  <2>3. PICK o, left : o = sweeping[q].order /\ left = sweeping[q].left - grains
    OBVIOUS
  <2>4. o \in Orders /\ orders[o] # NoOrder /\ left \in Int
    BY <1>1, <2>1, <2>3 DEF IInv, SweepingOK, SweepingRows
  <2>5. UNCHANGED orders \/ orders' = SweepProgress(o, left)
    BY <1>3, <2>3 DEF InitiateSweep
  <2>6. \/ UNCHANGED orders
        \/ \E row \in OrderRecs : row.terms = orders[o].terms /\ orders' = [orders EXCEPT ![o] = row]
    BY <2>4, <2>5, PrefundRows
  <2> QED BY <1>1, <2>1, <2>2, <2>4, <2>6, RowMoves
<1>4. CASE BroadcastSweep(q)
  <2>1. UNCHANGED <<orders, linking, links, quotes, sweeping, config, now, acceptVars>>
    BY <1>4 DEF BroadcastSweep, bookVars
  <2>2. coins' \in Coins
    BY <1>1, <1>4 DEF BroadcastSweep, Coins
  <2> QED BY <1>1, <2>1, <2>2, NoRowMoves
<1>5. CASE RecordSweepConfirmed(q)
  <2>1. UNCHANGED <<orders, linking, links, quotes, sweeping, config, now, coins, acceptVars>>
    BY <1>5 DEF RecordSweepConfirmed, bookVars
  <2> QED BY <1>1, <2>1, NoRowMoves
<1> QED BY <1>2, <1>3, <1>4, <1>5 DEF SweepSteps
-----------------------------------------------------------------------------
(* Orders, quotes and links *)

\* The smaller of two numbers is a number.
LEMMA MinIsInt ==
  ASSUME NEW a \in Int, NEW b \in Int
  PROVE  Min({a, b}) \in Int
<1>1. \E x \in {a, b} : \A y \in {a, b} : x <= y
  OBVIOUS
<1>2. Min({a, b}) \in {a, b}
  BY <1>1 DEF Min
<1> QED BY <1>2

\* An order that enters the book was signed by its maker.
LEMMA CreateOrderKeeps ==
  ASSUME IInv, NEW o \in Orders, NEW offer \in Offers, NEW prefunded \in BOOLEAN,
         CreateOrder(o, offer.terms, offer.proof, prefunded)
  PROVE  IInv'
<1>1. UNCHANGED <<now, config, quotes, linking, links, acceptVars, prefundVars>> /\ orders[o] = NoOrder
  BY DEF CreateOrder
<1>2. UNCHANGED <<trades, allocs, calls, watches, answers, sweeps, sweeping, coins>>
  BY <1>1 DEF acceptVars, prefundVars
<1>3. orders \in [Orders -> {NoOrder} \cup OrderRecs] /\ now \in Nat /\ links \in [Quotes -> Orders \cup {None}]
  BY DEF IInv, Types
<1>4. CASE UNCHANGED orders
  BY <1>1, <1>2, <1>3, <1>4, NoRowMoves DEF IInv, Types, Coins
<1>5. CASE orders' = Inserted(o, offer.terms, prefunded)
  <2> DEFINE row == [status |-> "open", remaining |-> Amount, terms |-> offer.terms,
                     prefund |-> IF prefunded THEN "pending_funding" ELSE None,
                     until |-> IF prefunded THEN RefundEligibleAfter ELSE Never,
                     funded |-> 0, left |-> 0]
  <2>1. offer.terms \in AgreedTerms
    BY DEF AgreedTerms
  <2>2. row \in OrderRecs /\ row.terms = offer.terms /\ row # NoOrder
    <3>1. RefundEligibleAfter \in Int /\ Never \in Int /\ Amount \in Int
      BY <1>3, OrderBookAssumption DEF RefundEligibleAfter, Never
    <3>2. row \in OrderRecs /\ row.terms = offer.terms /\ row.status = "open"
      BY <2>1, <3>1 DEF OrderRecs, Statuses, PrefundStates
    <3> HIDE DEF row
    <3> QED BY <3>2 DEF NoOrder, None
  <2>3. orders' = [orders EXCEPT ![o] = row]
    BY <1>5 DEF Inserted
  <2> HIDE DEF row
  <2>4. /\ orders' \in [Orders -> {NoOrder} \cup OrderRecs] /\ orders'[o] = row
        /\ \A x \in Orders \ {o} : orders'[x] = orders[x]
    BY <1>3, <2>2, <2>3
  <2>5. Kept
    BY <1>1, <1>2, <2>4 DEF Kept
  <2>6. <<offer.terms.maker.key, OrderMessage(offer.terms)>> \in Signed
    BY OrderBookAssumption DEF CreateOrder, OrderProofVerifies
  <2>7. BookOK'
    <3>1. \A x \in Orders : orders'[x] # NoOrder =>
            <<orders'[x].terms.maker.key, OrderMessage(orders'[x].terms)>> \in Signed
      BY <2>2, <2>4, <2>6 DEF IInv, BookOK
    <3>2. \A q \in Quotes : links[q] # None => orders'[links[q]] # NoOrder
      BY <1>1, <1>3, <2>4 DEF IInv, BookOK
    <3>3. \A l \in linking : orders'[l[2]] # NoOrder
      BY <1>1, <2>4 DEF IInv, BookOK, Types
    <3> QED BY <1>1, <3>1, <3>2, <3>3 DEF BookOK, OrderMessage
  <2>8. Types'
    BY <1>1, <1>2, <2>4 DEF IInv, Types
  <2>9. SweepingOK'
    BY <1>2, <2>5, SweepingStays
  <2> QED BY <1>1, <2>5, <2>7, <2>8, <2>9, BookMoves
<1> QED BY <1>4, <1>5 DEF CreateOrder

\* Quotes of any amount; a link names an order that exists.
LEMMA QuoteKeeps ==
  ASSUME IInv, NEW q \in Quotes, NEW amount \in Int,
         \/ CreateQuote(q, amount)
         \/ \E o \in Orders : CreateOrderQuote(q, o, amount) \/ SaveLink(q, o)
  PROVE  IInv'
<1>1. UNCHANGED <<now, config, orders, acceptVars, prefundVars>>
  BY DEF CreateQuote, CreateOrderQuote, SaveLink
<1>2. UNCHANGED <<trades, allocs, calls, watches, answers, sweeps, sweeping, coins>>
  BY <1>1 DEF acceptVars, prefundVars
<1>3. /\ quotes \in [Quotes -> [amount : Int, expires : Int]] /\ now \in Nat
      /\ linking \subseteq Quotes \X Orders /\ links \in [Quotes -> Orders \cup {None}]
  BY DEF IInv, Types
<1>4. quotes' \in [Quotes -> [amount : Int, expires : Int]]
  <2>1. CASE UNCHANGED quotes
    BY <1>3, <2>1
  <2>2. CASE quotes' = SaveQuote(q, [amount |-> amount, expires |-> Min({now + QuoteTtl, Never})])
    <3>1. now + QuoteTtl \in Int /\ Never \in Int
      BY <1>3, OrderBookAssumption DEF Never
    <3>2. [amount |-> amount, expires |-> Min({now + QuoteTtl, Never})] \in [amount : Int, expires : Int]
      BY <3>1, MinIsInt
    <3> QED BY <1>3, <2>2, <3>2 DEF SaveQuote
  <2> QED BY <2>1, <2>2 DEF CreateQuote, CreateOrderQuote, SaveLink, QuoteSaved
<1>5. /\ linking' \subseteq Quotes \X Orders /\ links' \in [Quotes -> Orders \cup {None}]
      /\ \A l \in linking' : orders[l[2]] # NoOrder
      /\ \A p \in Quotes : links'[p] # None => orders[links'[p]] # NoOrder
  <2>1. /\ \A l \in linking : orders[l[2]] # NoOrder
        /\ \A p \in Quotes : links[p] # None => orders[links[p]] # NoOrder
    BY DEF IInv, BookOK
  <2>2. CASE UNCHANGED <<linking, links>>
    BY <1>3, <2>1, <2>2
  <2>3. CASE CreateQuote(q, amount)
    BY <2>2, <2>3 DEF CreateQuote
  <2>4. ASSUME NEW o \in Orders, CreateOrderQuote(q, o, amount) \/ SaveLink(q, o)
        PROVE  /\ linking' \subseteq Quotes \X Orders /\ links' \in [Quotes -> Orders \cup {None}]
               /\ \A l \in linking' : orders[l[2]] # NoOrder
               /\ \A p \in Quotes : links'[p] # None => orders[links'[p]] # NoOrder
    <3>1. orders[o] # NoOrder
      BY <2>1, <2>4 DEF SaveLink, CreateOrderQuote
    <3>2. \/ linking' = linking \cup {<<q, o>>} /\ UNCHANGED links
          \/ linking' \subseteq linking /\ links' = Linked(q, o)
      BY <2>4 DEF SaveLink, CreateOrderQuote
    <3>3. CASE linking' = linking \cup {<<q, o>>} /\ UNCHANGED links
      BY <1>3, <2>1, <3>1, <3>3
    <3>4. CASE linking' \subseteq linking /\ links' = Linked(q, o)
      <4>1. \A p \in Quotes : links'[p] \in {links[p], o}
        BY <1>3, <3>4 DEF Linked
      <4>2. links' \in [Quotes -> Orders \cup {None}]
        BY <1>3, <3>4 DEF Linked
      <4> QED BY <1>3, <2>1, <3>1, <3>4, <4>1, <4>2
    <3> QED BY <3>2, <3>3, <3>4
  <2> QED BY <2>3, <2>4
<1>6. Kept
  BY <1>1, <1>2 DEF Kept
<1>7. BookOK'
  <2>1. \A x \in Orders : orders[x] # NoOrder =>
          <<orders[x].terms.maker.key, OrderMessage(orders[x].terms)>> \in Signed
    BY DEF IInv, BookOK
  <2> QED BY <1>1, <1>5, <2>1 DEF BookOK, OrderMessage
<1>8. Types'
  BY <1>1, <1>2, <1>4, <1>5 DEF IInv, Types
<1>9. SweepingOK'
  BY <1>2, <1>6, SweepingStays
<1> QED BY <1>1, <1>6, <1>7, <1>8, <1>9, BookMoves

-----------------------------------------------------------------------------
(* The acceptance of quotes *)

\* A step of one call that stores no trade.
LEMMA CallSteps ==
  ASSUME IInv, NEW c \in Callers, NEW k \in CallRecs, calls' = [calls EXCEPT ![c] = k],
         CallOK(k) \/ CallOK(k)', UNCHANGED <<now, config, bookVars, trades, prefundVars>>,
         allocs \subseteq allocs', allocs' \subseteq [quote : Quotes, client : Clients, index : Nat], AllocsOK',
         watches' \in [Quotes -> Places], answers' \in [Clients -> SUBSET Places], AnswersOK'
  PROVE  IInv'
<1>1. UNCHANGED <<now, config, orders, refused, quotes, linking, links, trades, sweeps, sweeping, coins>>
  BY DEF bookVars, prefundVars
<1>2. Kept
  BY <1>1 DEF Kept
<1>3. CallOK(k)'
  BY <1>2, CallStays
<1>4. calls' \in [Callers -> CallRecs]
  BY DEF IInv, Types
<1>5. Types'
  BY <1>1, <1>4 DEF IInv, Types
<1>6. BookOK' /\ ClientsDiffer'
  BY <1>1 DEF IInv, BookOK, ClientsDiffer
<1> QED BY <1>1, <1>2, <1>3, <1>5, <1>6, CallMoves

\* A call that ends, or goes on, without writing anything.
LEMMA CallReads ==
  ASSUME IInv, NEW c \in Callers, NEW k \in CallRecs, calls' = [calls EXCEPT ![c] = k], CallOK(k),
         UNCHANGED <<now, config, bookVars, trades, allocs, watches, answers, prefundVars>>
  PROVE  IInv'
<1>1. /\ allocs' \subseteq [quote : Quotes, client : Clients, index : Nat]
      /\ watches' \in [Quotes -> Places] /\ answers' \in [Clients -> SUBSET Places]
  BY DEF IInv, Types
<1>2. AllocsOK' /\ AnswersOK'
  BY DEF IInv, AllocsOK, AnswersOK
<1> QED BY <1>1, <1>2, CallSteps

\* No call is in order.
LEMMA NoCallOK == NoCall \in CallRecs /\ CallOK(NoCall)
BY DEF CallRecs, CallOK, NoCall

\* What assertMultisigSignerProofs and assertOrderAcceptMatchesMaker let pass was agreed.
LEMMA AcceptableIsAgreed ==
  ASSUME IInv, NEW q \in Quotes, NEW request \in Requests[q], Acceptable(q, request), Multisig
  PROVE  Agreed(q, request, links[q])
<1>1. request.escrow = "multisig"
  BY DEF Acceptable, EscrowAvailable
<1>2. links[q] # None => links[q] \in Orders /\ orders[links[q]] # NoOrder
  BY DEF IInv, Types, BookOK
<1>3. ASSUME NEW role \in Roles, role \notin MakerRoles(links[q])
      PROVE  <<request.party[role].key, SignerMessage(q, role, request.party[role], request.mode)>> \in Signed
  <2>1. SignerProofVerifies(q, role, request)
    BY <1>1, <1>3 DEF Acceptable, MultisigProofs
  <2>2. request.proof[role] \in Signed
    BY OrderBookAssumption
  <2> QED BY <2>1, <2>2 DEF SignerProofVerifies
<1>4. ASSUME NEW role \in MakerRoles(links[q])
      PROVE  /\ links[q] \in Orders /\ orders[links[q]] # NoOrder /\ role = MakerRole(orders[links[q]].terms)
             /\ request.party[role] = orders[links[q]].terms.maker
             /\ request.mode = orders[links[q]].terms.mode
  BY <1>2, <1>4 DEF MakerRoles, Acceptable, MatchesMaker
<1> QED BY <1>3, <1>4 DEF Agreed

\* An address that commits to its quote and to the client's trade.
LEMMA MultisigEscrowOK ==
  ASSUME IInv, NEW q \in Quotes, NEW r \in Clients, Multisig
  PROVE  MultisigEscrow(q, r) \in Places /\ EscrowOK(q, r, MultisigEscrow(q, r))
<1>1. now \in Nat
  BY DEF IInv, Types
<1>2. <<q, r, now>> # <<>>
  OBVIOUS
<1> QED BY <1>1, <1>2 DEF MultisigEscrow, EscrowOK, Places, NoEscrow

\* A stored trade knows its client, which is not None.
LEMMA AcceptedIsStored ==
  ASSUME IInv, NEW r \in Clients, NEW q \in AcceptedBy(r)
  PROVE  /\ q \in Quotes /\ trades[q] # NoTrade /\ trades[q] \in TradeRecs /\ trades[q].client = r
         /\ EscrowOK(q, r, trades[q].escrow) /\ trades[q].escrow \in Places
<1>1. q \in Quotes /\ trades[q].client = r /\ r # None
  BY OrderBookAssumption DEF AcceptedBy
<1>2. trades[q] # NoTrade
  BY <1>1 DEF NoTrade
<1>3. trades[q] \in TradeRecs
  BY <1>1, <1>2 DEF IInv, Types
<1>4. EscrowOK(q, r, trades[q].escrow)
  BY <1>1, <1>2 DEF IInv, TradeOK
<1> QED BY <1>1, <1>2, <1>3, <1>4 DEF TradeRecs

\* A call that goes on to the watch of a stored trade.
LEMMA WatchingOK ==
  ASSUME NEW q \in Quotes, NEW r \in Clients, NEW e \in Places, EscrowOK(q, r, e),
         trades[q] # NoTrade, trades[q].client = r
  PROVE  Watching(q, r, e) \in CallRecs /\ CallOK(Watching(q, r, e))
<1>1. Watching(q, r, e) = [pc |-> "watch", quote |-> q, client |-> r, escrow |-> e]
  BY DEF Watching
<1>2. Watching(q, r, e) \in [pc : {"watch"}, quote : Quotes, client : Clients, escrow : Places]
  BY <1>1
<1>3. Watching(q, r, e) \in CallRecs
  BY <1>2 DEF CallRecs
<1> QED BY <1>1, <1>3 DEF CallOK

\* A call begins with the row of its request, or with what was agreed.
LEMMA BeginAcceptKeeps ==
  ASSUME IInv, NEW c \in Callers, NEW q \in Quotes, NEW r \in Clients, NEW request \in Requests[q],
         BeginAccept(c, q, r, request)
  PROVE  IInv'
<1>1. UNCHANGED <<now, config, bookVars, trades, allocs, watches, answers, prefundVars>>
  BY DEF BeginAccept
<1>2. CASE q \in AcceptedBy(r) /\ calls' = [calls EXCEPT ![c] = Watching(q, r, trades[q].escrow)]
  <2>1. PICK k : k = Watching(q, r, trades[q].escrow)
    OBVIOUS
  <2>2. k \in CallRecs /\ CallOK(k)
    BY <1>2, <2>1, AcceptedIsStored, WatchingOK
  <2> QED BY <1>1, <1>2, <2>1, <2>2, CallReads
<1>3. CASE /\ AcceptedBy(r) = {} /\ Acceptable(q, request) /\ Postgres
           /\ calls' = [calls EXCEPT ![c] =
                [pc |-> IF Multisig THEN "save" ELSE "allocate",
                 quote |-> q, client |-> r, request |-> request, order |-> links[q], at |-> now, try |-> 1,
                 escrow |-> IF Multisig THEN MultisigEscrow(q, r) ELSE NoEscrow]]
  <2>1. PICK k : k = [pc |-> IF Multisig THEN "save" ELSE "allocate",
                 quote |-> q, client |-> r, request |-> request, order |-> links[q], at |-> now, try |-> 1,
                 escrow |-> IF Multisig THEN MultisigEscrow(q, r) ELSE NoEscrow]
    OBVIOUS
  <2>2. /\ request \in AllRequests /\ links[q] \in Orders \cup {None} /\ now \in Int
        /\ (IF Multisig THEN MultisigEscrow(q, r) ELSE NoEscrow) \in Places
    BY MultisigEscrowOK DEF AllRequests, IInv, Types, Places
  <2>3. k \in [pc : {"save", "allocate"}, quote : Quotes, client : Clients, request : AllRequests,
               order : Orders \cup {None}, at : Int, try : Nat, escrow : Places]
    BY <2>1, <2>2
  <2>4. k \in CallRecs
    BY <2>3 DEF CallRecs
  <2>5. CASE Multisig
    <3>1. Agreed(q, request, links[q]) /\ EscrowOK(q, r, MultisigEscrow(q, r))
      BY <1>3, <2>5, AcceptableIsAgreed, MultisigEscrowOK
    <3>2. /\ k.pc = "save" /\ k.quote = q /\ k.client = r /\ k.request = request /\ k.order = links[q]
          /\ k.escrow = MultisigEscrow(q, r)
      BY <2>1, <2>5
    <3>3. CallOK(k)
      BY <3>1, <3>2 DEF CallOK
    <3> QED BY <1>1, <1>3, <2>1, <2>4, <3>3, CallReads
  <2>6. CASE ~Multisig
    <3>1. k.pc = "allocate" /\ k.quote = q /\ k.try = 1
      BY <2>1, <2>6
    <3>2. 1 \in 1..Len(Derive[q])
      BY OrderBookAssumption
    <3>3. CallOK(k)
      BY <2>6, <3>1, <3>2 DEF CallOK
    <3> QED BY <1>1, <1>3, <2>1, <2>4, <3>3, CallReads
  <2> QED BY <2>5, <2>6
<1> QED BY <1>2, <1>3 DEF BeginAccept

\* An index is reserved for one trade.
LEMMA AllocateKeeps ==
  ASSUME IInv, NEW c \in Callers, Allocate(c)
  PROVE  IInv'
<1>1. PICK k, index : k = calls[c] /\ index = Derive[k.quote][k.try]
  OBVIOUS
<1>2. k.pc = "allocate" /\ k \in CallRecs /\ CallOK(k)
  BY <1>1 DEF Allocate, IInv, Types
<1>3. k \in [pc : {"save", "allocate"}, quote : Quotes, client : Clients, request : AllRequests,
             order : Orders \cup {None}, at : Int, try : Nat, escrow : Places]
  BY <1>2 DEF CallRecs, NoCall
<1>4. ~Multisig /\ k.try \in 1..Len(Derive[k.quote]) /\ index \in Nat /\ Len(Derive[k.quote]) \in Nat
  <2>1. Derive[k.quote] \in Seq(Nat)
    BY <1>3, OrderBookAssumption
  <2> QED BY <1>1, <1>2, <2>1 DEF CallOK
<1>5. UNCHANGED <<now, config, bookVars, trades, watches, answers, prefundVars>>
  BY DEF Allocate
<1>6. ASSUME NEW i \in Nat, NEW s, s = [k EXCEPT !.pc = "save", !.escrow = <<i>>]
      PROVE  /\ s \in CallRecs /\ s.pc = "save" /\ s.quote = k.quote /\ s.client = k.client /\ s.escrow = <<i>>
             /\ <<i>> # NoEscrow
  <2>1. <<i>> \in Places /\ <<i>> # <<>>
    BY DEF Places
  <2>2. s \in [pc : {"save", "allocate"}, quote : Quotes, client : Clients, request : AllRequests,
               order : Orders \cup {None}, at : Int, try : Nat, escrow : Places]
    BY <1>3, <1>6, <2>1
  <2> QED BY <1>3, <1>6, <2>1, <2>2 DEF CallRecs, NoEscrow
<1>7. /\ calls \in [Callers -> CallRecs] /\ AllocsOK
      /\ allocs \subseteq [quote : Quotes, client : Clients, index : Nat]
      /\ watches \in [Quotes -> Places] /\ answers \in [Clients -> SUBSET Places]
  BY DEF IInv, Types
<1>8. CASE Allocated(k.quote, k.client) # {}
  <2>1. PICK a \in Allocated(k.quote, k.client) :
          calls' = [calls EXCEPT ![c].pc = "save", ![c].escrow = <<a.index>>] /\ UNCHANGED allocs
    BY <1>1, <1>8 DEF Allocate
  <2>2. a \in allocs /\ a.quote = k.quote /\ a.client = k.client /\ a.index \in Nat
    BY <1>7 DEF Allocated
  <2>3. PICK s : s = [k EXCEPT !.pc = "save", !.escrow = <<a.index>>]
    OBVIOUS
  <2>4. calls' = [calls EXCEPT ![c] = s]
    BY <1>1, <1>7, <2>1, <2>3
  <2>5. /\ s \in CallRecs /\ s.pc = "save" /\ s.quote = k.quote /\ s.client = k.client /\ s.escrow = <<a.index>>
        /\ <<a.index>> # NoEscrow
    BY <1>6, <2>2, <2>3
  <2>6. CallOK(s)
    BY <1>4, <2>2, <2>5 DEF CallOK, EscrowOK
  <2> QED BY <1>5, <2>1, <2>4, <2>5, <2>6, CallReads
<1>9. CASE Allocated(k.quote, k.client) = {} /\ DerivationTaken(k.quote, k.client, index)
  <2>1. PICK s : s = IF k.try < Len(Derive[k.quote]) THEN [k EXCEPT !.try = @ + 1] ELSE NoCall
    OBVIOUS
  <2>2. calls' = [calls EXCEPT ![c] = s] /\ UNCHANGED allocs
    BY <1>1, <1>9, <2>1 DEF Allocate
  <2>3. CASE k.try < Len(Derive[k.quote])
    <3>1. s = [k EXCEPT !.try = @ + 1]
      BY <2>1, <2>3
    <3>2. s \in [pc : {"save", "allocate"}, quote : Quotes, client : Clients, request : AllRequests,
                 order : Orders \cup {None}, at : Int, try : Nat, escrow : Places]
      BY <1>3, <3>1
    <3>3. s \in CallRecs /\ s.pc = "allocate" /\ s.quote = k.quote /\ s.try = k.try + 1
      BY <1>2, <1>3, <3>1, <3>2 DEF CallRecs
    <3>4. CallOK(s)
      BY <1>4, <2>3, <3>3 DEF CallOK
    <3> QED BY <1>5, <2>2, <3>3, <3>4, CallReads
  <2>4. CASE ~(k.try < Len(Derive[k.quote]))
    <3>1. s = NoCall
      BY <2>1, <2>4
    <3> QED BY <1>5, <2>2, <3>1, NoCallOK, CallReads
  <2> QED BY <2>3, <2>4
<1>10. CASE Allocated(k.quote, k.client) = {} /\ ~DerivationTaken(k.quote, k.client, index)
  <2>1. PICK a : a = [quote |-> k.quote, client |-> k.client, index |-> index]
    OBVIOUS
  <2>2. /\ allocs' = allocs \cup {a}
        /\ calls' = [calls EXCEPT ![c].pc = "save", ![c].escrow = <<index>>]
    BY <1>1, <1>10, <2>1 DEF Allocate
  <2>3. PICK s : s = [k EXCEPT !.pc = "save", !.escrow = <<index>>]
    OBVIOUS
  <2>4. calls' = [calls EXCEPT ![c] = s]
    BY <1>1, <1>7, <2>2, <2>3
  <2>5. /\ s \in CallRecs /\ s.pc = "save" /\ s.quote = k.quote /\ s.client = k.client /\ s.escrow = <<index>>
        /\ <<index>> # NoEscrow
    BY <1>4, <1>6, <2>3
  <2>6. a \in [quote : Quotes, client : Clients, index : Nat] /\ a.quote = k.quote /\ a.client = k.client
        /\ a.index = index
    BY <1>3, <1>4, <2>1
  <2>7. ~Multisig'
    BY <1>4, <1>5 DEF Multisig
  <2>8. CallOK(s)'
    BY <2>2, <2>5, <2>6, <2>7 DEF CallOK, EscrowOK
  <2>9. \A b \in allocs : b.index = index => b.quote = k.quote
    BY <1>10 DEF DerivationTaken
  <2>10. AllocsOK'
    BY <1>7, <2>2, <2>6, <2>9 DEF AllocsOK
  <2>11. AnswersOK'
    BY <1>5 DEF IInv, AnswersOK
  <2>12. allocs \subseteq allocs' /\ allocs' \subseteq [quote : Quotes, client : Clients, index : Nat]
    BY <1>7, <2>2, <2>6
  <2> QED BY <1>5, <1>7, <2>4, <2>5, <2>8, <2>10, <2>11, <2>12, CallSteps
<1> QED BY <1>8, <1>9, <1>10
\* A fill keeps the terms of the order.
LEMMA FilledRow ==
  ASSUME IInv, NEW o \in Orders, orders[o] # NoOrder, NEW amount \in Int
  PROVE  \E row \in OrderRecs : row.terms = orders[o].terms /\ Filled(o, amount) = [orders EXCEPT ![o] = row]
<1>1. orders \in [Orders -> {NoOrder} \cup OrderRecs]
  BY DEF IInv, Types
<1>2. orders[o] \in [status : Statuses, remaining : Int, terms : AgreedTerms, prefund : PrefundStates \cup {None},
                     until : Int, funded : Int, left : Int]
  BY <1>1 DEF OrderRecs
<1> DEFINE nextRemaining == orders[o].remaining - amount
           status == IF nextRemaining = 0 THEN "filled" ELSE "partially_filled"
           row == [orders[o] EXCEPT !.remaining = nextRemaining, !.status = status]
<1>3. nextRemaining \in Int /\ status \in Statuses
  BY <1>2 DEF Statuses
<1>4. Filled(o, amount) = [orders EXCEPT ![o] = row]
  BY <1>1 DEF Filled
<1> HIDE DEF nextRemaining, status
<1>5. row \in OrderRecs /\ row.terms = orders[o].terms
  BY <1>2, <1>3 DEF OrderRecs
<1> QED BY <1>4, <1>5

\* A trade is stored for a quote and a client that have none.
LEMMA TradeStored ==
  ASSUME IInv, NEW c \in Callers, NEW q \in Quotes, NEW r \in Clients, NEW request \in AllRequests,
         NEW o \in Orders \cup {None}, NEW e \in Places,
         EscrowOK(q, r, e), Multisig => Agreed(q, request, o),
         trades[q] = NoTrade, AcceptedBy(r) = {},
         trades' = [trades EXCEPT ![q] =
           [client |-> r, request |-> request, order |-> o, amount |-> quotes[q].amount, escrow |-> e]],
         orders' = IF o = None THEN orders ELSE Filled(o, quotes[q].amount),
         o # None => orders[o] # NoOrder,
         calls' = [calls EXCEPT ![c] = Watching(q, r, e)],
         UNCHANGED <<now, config, refused, quotes, linking, links, allocs, watches, answers, prefundVars>>
  PROVE  IInv'
<1>1. UNCHANGED <<now, config, refused, quotes, linking, links, allocs, watches, answers, sweeps, sweeping, coins>>
  BY DEF prefundVars
<1>2. PICK t : t = [client |-> r, request |-> request, order |-> o, amount |-> quotes[q].amount, escrow |-> e]
  OBVIOUS
<1>3. /\ trades \in [Quotes -> {NoTrade} \cup TradeRecs] /\ quotes[q].amount \in Int
      /\ orders \in [Orders -> {NoOrder} \cup OrderRecs] /\ calls \in [Callers -> CallRecs]
  BY DEF IInv, Types
<1>4. t \in TradeRecs /\ t.client = r /\ t.escrow = e /\ t.request = request /\ t.order = o
  BY <1>2, <1>3 DEF TradeRecs
<1>5. t # NoTrade
  BY <1>4, OrderBookAssumption DEF NoTrade
<1>6. /\ trades' \in [Quotes -> {NoTrade} \cup TradeRecs] /\ trades'[q] = t
      /\ \A p \in Quotes \ {q} : trades'[p] = trades[p]
  BY <1>2, <1>3, <1>4
<1>7. /\ orders' \in [Orders -> {NoOrder} \cup OrderRecs]
      /\ \A x \in Orders : orders[x] # NoOrder => orders'[x] # NoOrder /\ orders'[x].terms = orders[x].terms
      /\ \A x \in Orders : orders'[x] # NoOrder => orders[x] # NoOrder
  <2>1. CASE o = None
    BY <1>3, <2>1
  <2>2. CASE o # None
    <3>1. o \in Orders /\ orders[o] # NoOrder /\ orders' = Filled(o, quotes[q].amount)
      BY <2>2
    <3>2. \E row \in OrderRecs : row.terms = orders[o].terms /\ orders' = [orders EXCEPT ![o] = row]
      BY <1>3, <3>1, FilledRow
    <3> QED BY <1>3, <3>1, <3>2, OrderWritten
  <2> QED BY <2>1, <2>2
<1>8. Kept
  BY <1>1, <1>6, <1>7 DEF Kept
<1>9. BookOK'
  BY <1>1, <1>7, BookStays
<1>10. PICK k : k = Watching(q, r, e)
  OBVIOUS
<1>11. /\ k = [pc |-> "watch", quote |-> q, client |-> r, escrow |-> e]
       /\ k \in [pc : {"watch"}, quote : Quotes, client : Clients, escrow : Places]
  BY <1>10 DEF Watching
<1>12. k \in CallRecs
  BY <1>11 DEF CallRecs
<1>13. EscrowOK(q, r, e)' /\ (Multisig' => Agreed(q, request, o)')
  <2>1. Multisig' <=> Multisig
    BY <1>1 DEF Multisig
  <2> QED BY <1>8, <2>1, EscrowStays, AgreedStays
<1>14. CallOK(k)'
  BY <1>4, <1>5, <1>6, <1>11, <1>13 DEF CallOK
<1>15. TradeOK(q, trades[q])'
  BY <1>4, <1>6, <1>13 DEF TradeOK
<1>16. Types'
  <2>1. calls' \in [Callers -> CallRecs]
    BY <1>3, <1>10, <1>12
  <2> QED BY <1>1, <1>6, <1>7, <2>1 DEF IInv, Types
<1>17. AllocsOK'
  BY <1>1 DEF IInv, AllocsOK
<1>18. ClientsDiffer'
  <2>1. \A p \in Quotes : trades[p].client # r
    BY DEF AcceptedBy
  <2> QED BY <1>4, <1>6, <2>1 DEF IInv, ClientsDiffer
<1>19. AnswersOK'
  BY <1>1, <1>6, <1>8 DEF IInv, AnswersOK, Kept
<1> QED BY <1>1, <1>6, <1>8, <1>9, <1>10, <1>12, <1>14, <1>15, <1>16, <1>17, <1>18, <1>19, CallMoves

\* The transaction of saveAcceptedTrade.
LEMMA SaveTradeKeeps ==
  ASSUME IInv, NEW c \in Callers, SaveTrade(c)
  PROVE  IInv'
<1>1. PICK k : k = calls[c]
  OBVIOUS
<1>2. k.pc = "save" /\ k \in CallRecs /\ CallOK(k)
  BY <1>1 DEF SaveTrade, IInv, Types
<1>3. k \in [pc : {"save", "allocate"}, quote : Quotes, client : Clients, request : AllRequests,
             order : Orders \cup {None}, at : Int, try : Nat, escrow : Places]
  BY <1>2 DEF CallRecs, NoCall
<1>4. EscrowOK(k.quote, k.client, k.escrow) /\ (Multisig => Agreed(k.quote, k.request, k.order))
  BY <1>2 DEF CallOK
<1> DEFINE inserts == NoConflict(k.quote, k.client)
           fills == k.order = None \/ MayFill(k.order, quotes[k.quote].amount, k.at)
           repeated == k.quote \in AcceptedBy(k.client) /\ SameRequest(k.quote, k.request)
<1>5. UNCHANGED <<now, config, refused, quotes, linking, links, allocs, watches, answers, prefundVars>>
  BY DEF SaveTrade
<1>6. CASE inserts /\ fills
  <2>1. /\ trades' = [trades EXCEPT ![k.quote] = TradeOf(k)]
        /\ orders' = IF k.order = None THEN orders ELSE Filled(k.order, quotes[k.quote].amount)
        /\ calls' = [calls EXCEPT ![c] = Watching(k.quote, k.client, k.escrow)]
    BY <1>1, <1>6 DEF SaveTrade
  <2>2. trades[k.quote] = NoTrade /\ AcceptedBy(k.client) = {}
    BY <1>6 DEF NoConflict
  <2>3. k.order # None => orders[k.order] # NoOrder
    BY <1>6 DEF MayFill, Matchable, NoOrder, None
  <2>4. TradeOf(k) = [client |-> k.client, request |-> k.request, order |-> k.order,
                      amount |-> quotes[k.quote].amount, escrow |-> k.escrow]
    BY DEF TradeOf
  <2> QED BY <1>3, <1>4, <1>5, <2>1, <2>2, <2>3, <2>4, TradeStored
<1>7. CASE ~(inserts /\ fills)
  <2>1. UNCHANGED <<trades, orders>>
    BY <1>1, <1>7 DEF SaveTrade
  <2>2. UNCHANGED <<now, config, bookVars, trades, allocs, watches, answers, prefundVars>>
    BY <1>5, <2>1 DEF bookVars
  <2>3. CASE ~inserts /\ repeated
    <3>1. calls' = [calls EXCEPT ![c] = Watching(k.quote, k.client, k.escrow)]
      BY <1>1, <2>3 DEF SaveTrade
    <3>2. PICK w : w = Watching(k.quote, k.client, k.escrow)
      OBVIOUS
    <3>3. trades[k.quote] # NoTrade /\ trades[k.quote].client = k.client
      BY <1>3, <2>3, AcceptedIsStored
    <3>4. w \in CallRecs /\ CallOK(w)
      BY <1>3, <1>4, <3>2, <3>3, WatchingOK
    <3> QED BY <2>2, <3>1, <3>2, <3>4, CallReads
  <2>4. CASE ~(~inserts /\ repeated)
    <3>1. calls' = [calls EXCEPT ![c] = NoCall]
      BY <1>1, <1>7, <2>4 DEF SaveTrade
    <3> QED BY <2>2, <3>1, NoCallOK, CallReads
  <2> QED BY <2>3, <2>4
<1> QED BY <1>6, <1>7

\* The in-memory repository checks and stores without a break.
LEMMA AcceptInMemoryKeeps ==
  ASSUME IInv, NEW c \in Callers, NEW q \in Quotes, NEW r \in Clients, NEW request \in Requests[q],
         AcceptInMemory(c, q, r, request)
  PROVE  IInv'
<1>1. Multisig
  BY OrderBookAssumption DEF AcceptInMemory, Postgres, Multisig, IInv, Types
<1>2. Acceptable(q, request) /\ AcceptedBy(r) = {} /\ trades[q] = NoTrade
  BY DEF AcceptInMemory, Acceptable
<1>3. Agreed(q, request, links[q])
  BY <1>1, <1>2, AcceptableIsAgreed
<1>4. PICK e : e = MultisigEscrow(q, r)
  OBVIOUS
<1>5. e \in Places /\ EscrowOK(q, r, e)
  BY <1>1, <1>4, MultisigEscrowOK
<1>6. request \in AllRequests /\ links[q] \in Orders \cup {None} /\ (links[q] # None => orders[links[q]] # NoOrder)
  BY DEF AllRequests, IInv, Types, BookOK
<1>7. /\ trades' = [trades EXCEPT ![q] =
           [client |-> r, request |-> request, order |-> links[q], amount |-> quotes[q].amount, escrow |-> e]]
      /\ orders' = IF links[q] = None THEN orders ELSE Filled(links[q], quotes[q].amount)
      /\ calls' = [calls EXCEPT ![c] = Watching(q, r, e)]
      /\ UNCHANGED <<now, config, refused, quotes, linking, links, allocs, watches, answers, prefundVars>>
  BY <1>4 DEF AcceptInMemory
<1> QED BY <1>2, <1>3, <1>5, <1>6, <1>7, TradeStored

\* The indexer keeps the first escrow it was given, and the client is answered with it.
LEMMA WatchKeeps ==
  ASSUME IInv, NEW c \in Callers, EnsureWatch(c) \/ WatchFails(c)
  PROVE  IInv'
<1>1. PICK k : k = calls[c]
  OBVIOUS
<1>2. k.pc = "watch" /\ k \in CallRecs /\ CallOK(k)
  BY <1>1 DEF EnsureWatch, WatchFails, IInv, Types
<1>3. /\ k.quote \in Quotes /\ k.client \in Clients /\ k.escrow \in Places /\ k.escrow # NoEscrow
      /\ trades[k.quote] # NoTrade /\ trades[k.quote].client = k.client
  BY <1>2 DEF CallRecs, CallOK, NoCall, EscrowOK
<1>4. /\ watches \in [Quotes -> Places] /\ answers \in [Clients -> SUBSET Places]
      /\ allocs \subseteq [quote : Quotes, client : Clients, index : Nat] /\ AllocsOK /\ AnswersOK
  BY DEF IInv, Types
<1>5. /\ calls' = [calls EXCEPT ![c] = NoCall] /\ watches' \in {watches, Registered(k)}
      /\ UNCHANGED <<now, config, bookVars, trades, allocs, prefundVars>>
  BY <1>1 DEF EnsureWatch, WatchFails
<1>6. /\ watches' \in [Quotes -> Places]
      /\ \A q \in Quotes : watches[q] # NoEscrow => watches'[q] = watches[q]
  BY <1>3, <1>4, <1>5 DEF Registered
<1>7. \A r \in Clients : \A e \in answers[r] :
        e # NoEscrow /\ \E q \in Quotes : trades[q] # NoTrade /\ trades[q].client = r /\ watches'[q] = e
  BY <1>4, <1>6 DEF AnswersOK
<1>8. answers' \in [Clients -> SUBSET Places] /\ AnswersOK'
  <2>1. CASE UNCHANGED answers
    BY <1>4, <1>5, <1>7, <2>1 DEF AnswersOK
  <2>2. CASE /\ watches[k.quote] \in {NoEscrow, k.escrow} /\ watches' = Registered(k)
             /\ answers' = [answers EXCEPT ![k.client] = @ \cup {k.escrow}]
    <3>1. answers' \in [Clients -> SUBSET Places]
      BY <1>3, <1>4, <2>2
    <3>2. watches'[k.quote] = k.escrow
      BY <1>3, <1>4, <2>2 DEF Registered
    <3>3. \A r \in Clients : \A e \in answers'[r] : e \in answers[r] \/ (r = k.client /\ e = k.escrow)
      BY <1>4, <2>2
    <3>4. \A r \in Clients : \A e \in answers'[r] :
            e # NoEscrow /\ \E q \in Quotes : trades[q] # NoTrade /\ trades[q].client = r /\ watches'[q] = e
      BY <1>3, <1>7, <3>2, <3>3
    <3> QED BY <1>5, <3>1, <3>4 DEF AnswersOK
  <2> QED BY <1>1, <2>1, <2>2 DEF EnsureWatch, WatchFails
<1>9. AllocsOK'
  BY <1>4, <1>5 DEF AllocsOK
<1> QED BY <1>4, <1>5, <1>6, <1>8, <1>9, NoCallOK, CallSteps

\* A crash forgets the calls in flight.
LEMMA CrashKeeps ==
  ASSUME IInv, Crash
  PROVE  IInv'
<1>1. /\ calls' = [c \in Callers |-> NoCall] /\ linking' = {}
      /\ UNCHANGED <<now, config, orders, refused, quotes, links, trades, allocs, watches, answers,
                     sweeps, sweeping, coins>>
  BY DEF Crash, prefundVars
<1>2. Kept
  BY <1>1 DEF Kept
<1>3. Types'
  BY <1>1, NoCallOK DEF IInv, Types
<1>4. BookOK' /\ AllocsOK' /\ ClientsDiffer' /\ AnswersOK'
  BY <1>1 DEF IInv, BookOK, AllocsOK, ClientsDiffer, AnswersOK
<1>5. \A c \in Callers : CallOK(calls[c])'
  BY <1>1 DEF CallOK, NoCall
<1>6. ASSUME NEW q \in Quotes PROVE TradeOK(q, trades[q])'
  <2>1. PICK t : t = trades[q]
    OBVIOUS
  <2>2. TradeOK(q, t)'
    BY <1>2, <2>1, TradeStays DEF IInv
  <2> QED BY <1>1, <2>1, <2>2 DEF TradeOK
<1>7. SweepingOK'
  BY <1>1, <1>2, SweepingStays
<1> QED BY <1>3, <1>4, <1>5, <1>6, <1>7 DEF IInv
-----------------------------------------------------------------------------
(* The specification *)

\* Nothing is stored in the beginning.
LEMMA InitIInv ==
  ASSUME Init
  PROVE  IInv
<1>1. /\ now = 0 /\ config \in Configs /\ orders = [o \in Orders |-> NoOrder]
      /\ quotes = [q \in Quotes |-> NoQuote] /\ linking = {} /\ links = [q \in Quotes |-> None]
      /\ trades = [q \in Quotes |-> NoTrade] /\ allocs = {} /\ calls = [c \in Callers |-> NoCall]
      /\ watches = [q \in Quotes |-> NoEscrow] /\ answers = [r \in Clients |-> {}]
      /\ sweeping = [q \in Quotes |-> NoRow] /\ coins = [o \in Orders |-> [amount |-> 0, spent |-> None]]
  BY DEF Init
<1>2. Types
  BY <1>1, NoCallOK DEF Types, NoQuote, Places
<1>3. BookOK /\ AllocsOK /\ ClientsDiffer /\ AnswersOK /\ SweepingOK
  BY <1>1 DEF BookOK, AllocsOK, ClientsDiffer, AnswersOK, SweepingOK
<1>4. \A c \in Callers : CallOK(calls[c])
  BY <1>1, NoCallOK
<1>5. \A q \in Quotes : TradeOK(q, trades[q])
  BY <1>1 DEF TradeOK
<1> QED BY <1>2, <1>3, <1>4, <1>5 DEF IInv

\* Every action keeps the invariant.
LEMMA NextIInv ==
  ASSUME IInv, [Next]_vars
  PROVE  IInv'
<1>1. now \in Nat /\ coins \in Coins
  BY DEF IInv, Types, Coins
<1>2. CASE UNCHANGED vars \/ Tick
  <2>1. UNCHANGED <<orders, config, quotes, linking, links, acceptVars, sweeping, coins>>
    BY <1>2 DEF vars, bookVars, prefundVars, Tick
  <2>2. now' \in Nat
    BY <1>1, <1>2 DEF vars, Tick
  <2> QED BY <1>1, <2>1, <2>2, NoRowMoves
<1>3. CASE Book
  <2>1. ASSUME NEW o \in Orders, NEW offer \in Offers, NEW prefunded \in BOOLEAN,
               CreateOrder(o, offer.terms, offer.proof, prefunded)
        PROVE  IInv'
    BY <2>1, CreateOrderKeeps
  <2>2. Amount \in Int
    BY OrderBookAssumption
  <2>3. ASSUME NEW q \in Quotes, CreateQuote(q, Amount) PROVE IInv'
    BY <2>2, <2>3, QuoteKeeps
  <2>4. ASSUME NEW q \in Quotes, NEW o \in Orders, NEW amount \in 1..Amount, CreateOrderQuote(q, o, amount)
        PROVE  IInv'
    BY <2>2, <2>4, QuoteKeeps
  <2>5. ASSUME NEW q \in Quotes, NEW o \in Orders, SaveLink(q, o) PROVE IInv'
    BY <2>2, <2>5, QuoteKeeps
  <2> QED BY <1>3, <2>1, <2>3, <2>4, <2>5 DEF Book
<1>4. CASE Acceptance
  <2>1. ASSUME NEW c \in Callers, NEW q \in Quotes, NEW r \in Clients, NEW request \in Requests[q],
               BeginAccept(c, q, r, request) \/ AcceptInMemory(c, q, r, request)
        PROVE  IInv'
    BY <2>1, BeginAcceptKeeps, AcceptInMemoryKeeps
  <2>2. ASSUME NEW c \in Callers, Allocate(c) \/ SaveTrade(c) \/ EnsureWatch(c) \/ WatchFails(c)
        PROVE  IInv'
    BY <2>2, AllocateKeeps, SaveTradeKeeps, WatchKeeps
  <2> QED BY <1>4, <2>1, <2>2 DEF Acceptance
<1>5. CASE Prefund
  <2>1. ASSUME NEW o \in Orders,
               \/ \E amount \in 1..Amount : DepositPrefund(o, amount)
               \/ \E reachable \in BOOLEAN : ObservePrefund(o, reachable)
               \/ Cutoff(o) \/ RequestRefund(o) \/ MakerRefunds(o) \/ RecordRefunded(o)
        PROVE  IInv'
    BY <2>1, PrefundKeeps
  <2>2. ASSUME NEW q \in Quotes,
               SweepSteps(q)
        PROVE  IInv'
    BY <2>2, SweepKeeps
  <2> QED BY <1>5, <2>1, <2>2 DEF Prefund, SweepSteps
<1>6. CASE Crash
  BY <1>6, CrashKeeps
<1> QED BY <1>2, <1>3, <1>4, <1>5, <1>6 DEF Next

\* IInv is an invariant of every behaviour of OrderBook.
THEOREM IInvHolds == Spec => []IInv
BY InitIInv, NextIInv, PTL DEF Spec

\* The owners of both signer keys of a multisig trade have signed the terms it is stored
\* with, for the quote or as the maker of the order it fills.
THEOREM BothHaveSignedHolds == Spec => []BothHaveSigned
<1>1. IInv => BothHaveSigned
  <2>1. SUFFICES ASSUME IInv, Multisig, NEW q \in Quotes, trades[q] # NoTrade, NEW role \in Roles
                 PROVE  \/ <<trades[q].request.party[role].key,
                             <<"accept", q, role, trades[q].request.party[role], trades[q].request.mode>>>> \in Signed
                        \/ /\ trades[q].order # None
                           /\ \E terms \in {offer.terms : offer \in Offers} :
                                /\ <<trades[q].request.party[role].key, <<"order", terms, role>>>> \in Signed
                                /\ terms = orders[trades[q].order].terms
                                /\ terms.maker = trades[q].request.party[role]
                                /\ terms.mode = trades[q].request.mode
    BY DEF BothHaveSigned
  <2>2. PICK t : t = trades[q]
    OBVIOUS
  <2>3. Agreed(q, t.request, t.order)
    BY <2>1, <2>2 DEF IInv, TradeOK
  <2>4. CASE <<t.request.party[role].key, SignerMessage(q, role, t.request.party[role], t.request.mode)>> \in Signed
    BY <2>2, <2>4 DEF SignerMessage
  <2>5. CASE /\ t.order \in Orders /\ orders[t.order] # NoOrder /\ role = MakerRole(orders[t.order].terms)
             /\ t.request.party[role] = orders[t.order].terms.maker
             /\ t.request.mode = orders[t.order].terms.mode
    <3>1. PICK terms : terms = orders[t.order].terms
      OBVIOUS
    <3>2. terms \in AgreedTerms
      BY <2>1, <2>5, <3>1 DEF IInv, Types, OrderRecs
    <3>3. <<terms.maker.key, <<"order", terms, role>>>> \in Signed
      BY <2>1, <2>5, <3>1 DEF IInv, BookOK, OrderMessage
    <3>4. t.order # None
      BY <2>5, OrderBookAssumption
    <3> QED BY <2>2, <2>5, <3>1, <3>2, <3>3, <3>4 DEF AgreedTerms
  <2> QED BY <2>3, <2>4, <2>5 DEF Agreed
<1> QED BY <1>1, IInvHolds, PTL

\* A clientRequestId has at most one trade, and no two trades share an escrow.
THEOREM AcceptanceIsUniqueHolds == Spec => []AcceptanceIsUnique
<1>1. IInv => AcceptanceIsUnique
  <2>1. SUFFICES ASSUME IInv, NEW p \in Quotes, NEW q \in Quotes, p # q, trades[p] # NoTrade, trades[q] # NoTrade
                 PROVE  trades[p].client # trades[q].client /\ trades[p].escrow # trades[q].escrow
    BY DEF AcceptanceIsUnique
  <2>2. trades[p].client # trades[q].client
    BY <2>1 DEF IInv, ClientsDiffer
  <2>3. PICK d, e : d = trades[p].escrow /\ e = trades[q].escrow
    OBVIOUS
  <2>4. EscrowOK(p, trades[p].client, d) /\ EscrowOK(q, trades[q].client, e)
    BY <2>1, <2>3 DEF IInv, TradeOK
  <2>5. CASE Multisig
    <3>1. d[1] = p /\ e[1] = q
      BY <2>4, <2>5 DEF EscrowOK
    <3> QED BY <2>1, <2>2, <2>3, <3>1
  <2>6. CASE ~Multisig
    <3>1. PICK a \in allocs : a.quote = p /\ d = <<a.index>>
      BY <2>4, <2>6 DEF EscrowOK
    <3>2. PICK b \in allocs : b.quote = q /\ e = <<b.index>>
      BY <2>4, <2>6 DEF EscrowOK
    <3>3. a.index # b.index
      BY <2>1, <3>1, <3>2 DEF IInv, AllocsOK
    <3>4. d[1] = a.index /\ e[1] = b.index
      BY <3>1, <3>2
    <3> QED BY <2>2, <2>3, <3>3, <3>4
  <2> QED BY <2>5, <2>6
<1> QED BY <1>1, IInvHolds, PTL

\* Every escrow a client was answered with is watched, under a trade of its request.
THEOREM AnsweredIsWatchedHolds == Spec => []AnsweredIsWatched
<1>1. IInv => AnsweredIsWatched
  BY DEF IInv, AnswersOK, AnsweredIsWatched, AcceptedBy
<1> QED BY <1>1, IInvHolds, PTL

-----------------------------------------------------------------------------
(* What is closed stays closed *)

StaysClosed ==
  /\ \A o \in Orders : (orders[o] # NoOrder /\ ~Matchable(o)) =>
       ~Matchable(o)' /\ orders'[o].remaining = orders[o].remaining
  /\ \A q \in Quotes : trades[q] # NoTrade => trades'[q] = trades[q]

\* The row of one order is written, a closed one without opening or filling it.
LEMMA RowStaysClosed ==
  ASSUME orders \in [Orders -> {NoOrder} \cup OrderRecs], NEW o \in Orders, UNCHANGED trades,
         orders[o] # NoOrder,
         \E row \in OrderRecs :
           /\ orders' = [orders EXCEPT ![o] = row]
           /\ ~Matchable(o) => /\ row.status \in {orders[o].status, "cancelled", "expired"}
                               /\ row.remaining = orders[o].remaining
  PROVE  StaysClosed
<1>1. ASSUME NEW x \in Orders, orders[x] # NoOrder, ~Matchable(x)
      PROVE  ~Matchable(x)' /\ orders'[x].remaining = orders[x].remaining
  BY <1>1 DEF Matchable
<1> QED BY <1>1 DEF StaysClosed

\* The writes of prefunds: whatever they close, they fill and open nothing.
LEMMA PrefundRowsClose ==
  ASSUME IInv, NEW o \in Orders, orders[o] # NoOrder, NEW amount \in Int, NEW left \in Int
  PROVE  \A next \in {FundedBy(o, amount), PrefundExpired(o), CancelledForCltv(o), RefundPending(o),
                      PrefundRefunded(o), SweepProgress(o, left)} :
           /\ next \in [Orders -> {NoOrder} \cup OrderRecs]
           /\ next = [orders EXCEPT ![o] = next[o]]
           /\ next[o] \in OrderRecs
           /\ next[o].status \in {orders[o].status, "cancelled", "expired"}
           /\ next[o].remaining = orders[o].remaining
<1>1. orders \in [Orders -> {NoOrder} \cup OrderRecs]
  BY DEF IInv, Types
<1>2. orders[o] \in [status : Statuses, remaining : Int, terms : AgreedTerms, prefund : PrefundStates \cup {None},
                     until : Int, funded : Int, left : Int]
  BY <1>1 DEF OrderRecs
<1>3. ASSUME NEW next \in {FundedBy(o, amount), PrefundExpired(o), CancelledForCltv(o), RefundPending(o),
                           PrefundRefunded(o), SweepProgress(o, left)}
      PROVE  /\ next[o].status \in {orders[o].status, "cancelled", "expired"}
             /\ next[o].remaining = orders[o].remaining
  <2>1. CASE next \in {FundedBy(o, amount), PrefundExpired(o)}
    BY <1>1, <1>2, <2>1 DEF FundedBy, PrefundExpired
  <2>2. CASE next \in {CancelledForCltv(o), RefundPending(o)}
    BY <1>1, <1>2, <2>2 DEF CancelledForCltv, RefundPending
  <2>3. CASE next = PrefundRefunded(o)
    BY <1>1, <1>2, <2>3 DEF PrefundRefunded
  <2>4. CASE next = SweepProgress(o, left)
    BY <1>1, <1>2, <2>4 DEF SweepProgress
  <2> QED BY <1>3, <2>1, <2>2, <2>3, <2>4
<1>4. ASSUME NEW next \in {FundedBy(o, amount), PrefundExpired(o), CancelledForCltv(o), RefundPending(o),
                           PrefundRefunded(o), SweepProgress(o, left)}
      PROVE  /\ next \in [Orders -> {NoOrder} \cup OrderRecs] /\ next[o] \in OrderRecs
             /\ next = [orders EXCEPT ![o] = next[o]]
  <2>1. PICK row \in OrderRecs : next = [orders EXCEPT ![o] = row]
    BY <1>4, PrefundRows
  <2> QED BY <1>1, <2>1
<1> QED BY <1>3, <1>4

\* A fill is given to an order of the book only.
LEMMA FillStaysClosed ==
  ASSUME IInv, NEW o \in Orders \cup {None}, NEW amount, o # None => orders[o] # NoOrder /\ Matchable(o),
         orders' = IF o = None THEN orders ELSE Filled(o, amount)
  PROVE  \A x \in Orders : (orders[x] # NoOrder /\ ~Matchable(x)) =>
           ~Matchable(x)' /\ orders'[x].remaining = orders[x].remaining
<1>1. orders \in [Orders -> {NoOrder} \cup OrderRecs]
  BY DEF IInv, Types
<1>2. ASSUME NEW x \in Orders, orders[x] # NoOrder, ~Matchable(x) PROVE orders'[x] = orders[x]
  BY <1>1, <1>2 DEF Filled
<1> QED BY <1>2 DEF Matchable

\* No step opens a closed order, fills it, or changes a stored trade.
LEMMA NextStaysClosed ==
  ASSUME IInv, [Next]_vars
  PROVE  StaysClosed
<1>1. /\ orders \in [Orders -> {NoOrder} \cup OrderRecs] /\ calls \in [Callers -> CallRecs]
      /\ trades \in [Quotes -> {NoTrade} \cup TradeRecs] /\ links \in [Quotes -> Orders \cup {None}]
      /\ \A o \in Orders : coins[o].amount \in Int
  BY DEF IInv, Types
<1>2. CASE UNCHANGED <<orders, trades>>
  BY <1>2 DEF StaysClosed, Matchable
<1>3. ASSUME NEW o \in Orders, NEW offer \in Offers, NEW prefunded \in BOOLEAN,
             CreateOrder(o, offer.terms, offer.proof, prefunded)
      PROVE  StaysClosed
  <2>1. UNCHANGED trades /\ orders[o] = NoOrder
    BY <1>3 DEF CreateOrder, acceptVars
  <2>2. \A x \in Orders \ {o} : orders'[x] = orders[x]
    BY <1>1, <1>3 DEF CreateOrder, Inserted
  <2> QED BY <2>1, <2>2 DEF StaysClosed, Matchable
<1>4. ASSUME NEW o \in Orders, orders[o] # NoOrder, UNCHANGED trades, NEW amount \in Int, NEW left \in Int,
             orders' \in {FundedBy(o, amount), PrefundExpired(o), CancelledForCltv(o), RefundPending(o),
                          PrefundRefunded(o), SweepProgress(o, left)}
      PROVE  StaysClosed
  <2>1. PICK next : next = orders'
    OBVIOUS
  <2>2. /\ orders' = [orders EXCEPT ![o] = next[o]] /\ next[o] \in OrderRecs
        /\ next[o].status \in {orders[o].status, "cancelled", "expired"}
        /\ next[o].remaining = orders[o].remaining
    BY <1>4, <2>1, PrefundRowsClose
  <2> QED BY <1>1, <1>4, <2>2, RowStaysClosed
<1>5. ASSUME NEW q \in Quotes, NEW o \in Orders \cup {None}, NEW t,
             trades[q] = NoTrade, trades' = [trades EXCEPT ![q] = t],
             o # None => orders[o] # NoOrder /\ Matchable(o),
             orders' = IF o = None THEN orders ELSE Filled(o, quotes[q].amount)
      PROVE  StaysClosed
  <2>1. \A p \in Quotes : trades[p] # NoTrade => trades'[p] = trades[p]
    BY <1>1, <1>5
  <2>2. \A x \in Orders : (orders[x] # NoOrder /\ ~Matchable(x)) =>
           ~Matchable(x)' /\ orders'[x].remaining = orders[x].remaining
    BY <1>5, FillStaysClosed
  <2> QED BY <2>1, <2>2 DEF StaysClosed
<1>6. CASE Book
  <2>1. ASSUME NEW q \in Quotes, NEW o, NEW amount,
               CreateQuote(q, amount) \/ CreateOrderQuote(q, o, amount) \/ SaveLink(q, o)
        PROVE  UNCHANGED <<orders, trades>>
    BY <2>1 DEF CreateQuote, CreateOrderQuote, SaveLink, acceptVars
  <2> QED BY <1>2, <1>3, <1>6, <2>1 DEF Book
<1>7. ASSUME NEW c \in Callers, SaveTrade(c) PROVE StaysClosed
  <2>1. PICK k : k = calls[c]
    OBVIOUS
  <2>2. k.quote \in Quotes /\ k.order \in Orders \cup {None}
    <3>1. k.pc = "save" /\ k \in CallRecs
      BY <1>1, <1>7, <2>1 DEF SaveTrade
    <3> QED BY <3>1 DEF CallRecs, NoCall
  <2>3. CASE UNCHANGED <<orders, trades>>
    BY <1>2, <2>3
  <2>4. CASE /\ trades[k.quote] = NoTrade /\ trades' = [trades EXCEPT ![k.quote] = TradeOf(k)]
             /\ k.order = None \/ MayFill(k.order, quotes[k.quote].amount, k.at)
             /\ orders' = IF k.order = None THEN orders ELSE Filled(k.order, quotes[k.quote].amount)
    <3>1. k.order # None => orders[k.order] # NoOrder /\ Matchable(k.order)
      BY <2>4 DEF MayFill, Matchable, NoOrder, None
    <3> QED BY <1>5, <2>2, <2>4, <3>1
  <2> QED BY <1>7, <2>1, <2>3, <2>4 DEF SaveTrade, NoConflict
<1>8. ASSUME NEW c \in Callers, NEW q \in Quotes, NEW r \in Clients, NEW request \in Requests[q],
             AcceptInMemory(c, q, r, request)
      PROVE  StaysClosed
  <2>1. /\ Acceptable(q, request) /\ trades[q] = NoTrade
        /\ orders' = IF links[q] = None THEN orders ELSE Filled(links[q], quotes[q].amount)
        /\ \E t : trades' = [trades EXCEPT ![q] = t]
    BY <1>8 DEF AcceptInMemory, Acceptable
  <2>2. links[q] # None => orders[links[q]] # NoOrder /\ Matchable(links[q])
    BY <2>1 DEF Acceptable, Fillable, Matchable, NoOrder, None
  <2> QED BY <1>1, <1>5, <2>1, <2>2
<1>9. CASE Acceptance
  <2>1. ASSUME NEW c \in Callers, NEW q, NEW r, NEW request,
               BeginAccept(c, q, r, request) \/ Allocate(c) \/ EnsureWatch(c) \/ WatchFails(c)
        PROVE  UNCHANGED <<orders, trades>>
    BY <2>1 DEF BeginAccept, Allocate, EnsureWatch, WatchFails, bookVars
  <2> QED BY <1>2, <1>7, <1>8, <1>9, <2>1 DEF Acceptance
<1>10. ASSUME NEW o \in Orders,
              \/ \E amount \in 1..Amount : DepositPrefund(o, amount)
              \/ \E reachable \in BOOLEAN : ObservePrefund(o, reachable)
              \/ Cutoff(o) \/ RequestRefund(o) \/ MakerRefunds(o) \/ RecordRefunded(o)
       PROVE  StaysClosed
  <2>1. CASE (\E amount \in 1..Amount : DepositPrefund(o, amount)) \/ MakerRefunds(o)
    BY <1>2, <2>1 DEF DepositPrefund, MakerRefunds, bookVars, acceptVars
  <2>2. CASE \E reachable \in BOOLEAN : ObservePrefund(o, reachable)
    <3>1. /\ orders' \in {FundedBy(o, coins[o].amount), PrefundExpired(o)}
          /\ orders[o] # NoOrder /\ UNCHANGED trades
      BY <2>2 DEF ObservePrefund, InPrefundState, Prefunded, acceptVars
    <3> QED BY <1>1, <1>4, <3>1
  <2>3. CASE Cutoff(o) \/ RequestRefund(o) \/ RecordRefunded(o)
    <3>1. /\ orders' \in {CancelledForCltv(o), RefundPending(o), PrefundRefunded(o)}
          /\ orders[o] # NoOrder /\ UNCHANGED trades
      BY <2>3 DEF Cutoff, RequestRefund, RecordRefunded, InPrefundState, Prefunded, acceptVars
    <3> QED BY <1>1, <1>4, <3>1
  <2> QED BY <1>10, <2>1, <2>2, <2>3
<1>11. ASSUME NEW q \in Quotes,
              SweepSteps(q)
       PROVE  StaysClosed
  <2>1. CASE UNCHANGED <<orders, trades>>
    BY <1>2, <2>1
  <2>2. ASSUME NEW grains \in 1..Amount, sweeping[q] # NoRow, UNCHANGED trades,
               orders' = SweepProgress(sweeping[q].order, sweeping[q].left - grains)
        PROVE  StaysClosed
    <3>1. PICK o, left : o = sweeping[q].order /\ left = sweeping[q].left - grains
      OBVIOUS
    <3>2. o \in Orders /\ orders[o] # NoOrder /\ left \in Int
      BY <2>2, <3>1 DEF IInv, Types, SweepingOK
    <3> QED BY <1>1, <1>4, <2>2, <3>1, <3>2
  <2>3. \A grains : InitiateSweep(q, grains) =>
          \/ UNCHANGED <<orders, trades>>
          \/ /\ sweeping[q] # NoRow /\ UNCHANGED trades
             /\ orders' = SweepProgress(sweeping[q].order, sweeping[q].left - grains)
    BY DEF InitiateSweep, acceptVars
  <2>4. (\E o \in Orders : ReadForSweep(q, o)) \/ BroadcastSweep(q) \/ RecordSweepConfirmed(q)
          => UNCHANGED <<orders, trades>>
    BY DEF ReadForSweep, BroadcastSweep, RecordSweepConfirmed, bookVars, acceptVars
  <2> QED BY <1>11, <2>1, <2>2, <2>3, <2>4 DEF SweepSteps
<1>12. CASE UNCHANGED vars \/ Tick \/ Crash
  BY <1>2, <1>12 DEF vars, bookVars, acceptVars, Tick, Crash
<1> QED BY <1>6, <1>9, <1>10, <1>11, <1>12 DEF Next, Prefund, SweepSteps

\* A cancelled, expired or filled order never comes back to the book nor takes a fill,
\* also from a call that has read it before it was closed; a stored trade never changes.
THEOREM ClosedStaysClosedHolds == Spec => ClosedStaysClosed
<1>1. IInv /\ [Next]_vars =>
        [/\ \A o \in Orders : (orders[o] # NoOrder /\ ~Matchable(o)) =>
               ~Matchable(o)' /\ orders'[o].remaining = orders[o].remaining
         /\ \A q \in Quotes : trades[q] # NoTrade => trades'[q] = trades[q]]_vars
  BY NextStaysClosed DEF StaysClosed
<1> QED BY <1>1, IInvHolds, PTL DEF Spec, ClosedStaysClosed
-----------------------------------------------------------------------------
(* The books balance: what is written of orders, quotes, trades and sweeps.  *)
(* The second invariant holds of the states that satisfy the first one.      *)

Indexes == UNION {{Derive[q][k] : k \in DOMAIN Derive[q]} : q \in Quotes}
NeverFunded == {None, "pending_funding", "expired"}

\* A prefund that was ever funded holds the whole amount of its order.
RowOK(row) ==
  /\ row \in OrderRows
  /\ row.status = "filled" => row.remaining = 0
  /\ row.status \in {"open", "partially_filled"} => row.remaining > 0
  /\ row.prefund = "fully_swept" => row.left = 0
  /\ row.prefund \in Sweepable \cup {"refund_pending", "refunded"} => row.left > 0
  /\ row.prefund = "refunded" => row.status = "cancelled"
  /\ row.prefund = "expired" => row.status = "expired"
  /\ row.prefund \notin NeverFunded => row.funded = Amount

RowsOK == \A o \in Orders : orders[o] # NoOrder =>
            RowOK(orders[o]) /\ (Postgres => orders[o].prefund = None)
QuotesOK == \A q \in Quotes : quotes[q] # NoQuote => quotes[q].amount \in 1..Amount

\* A trade keeps the amount of its quote, and the order it fills exists.
TradeFits(q, t) ==
  t # NoTrade =>
    /\ t.request \in Requests[q] /\ t.escrow \in Escrows
    /\ quotes[q] # NoQuote /\ t.amount = quotes[q].amount
    /\ t.order # None => orders[t.order] # NoOrder
TradesOK == \A q \in Quotes : TradeFits(q, trades[q])

CallFits(k) ==
  /\ k.pc # "idle" => k.escrow \in Escrows
  /\ k.pc \in {"save", "allocate"} => k.request \in Requests[k.quote] /\ quotes[k.quote] # NoQuote
CallsOK == \A c \in Callers : CallFits(calls[c])

PlacesOK == (\A a \in allocs : a.index \in Indexes) /\ \A q \in Quotes : watches[q] \in Escrows

\* A sweep is of a prefund that was funded, and takes the amount of its trade out of
\* it if its caller sweeps for trades; so does a call that is about to write one.
SweepFits(q, o) == orders[o] # NoOrder /\ orders[o].funded = Amount /\ MaySweep(q, o)

SweepsOK ==
  /\ sweeps \in [Quotes -> {NoSweep} \cup SweepRows]
  /\ \A q \in Quotes :
       /\ sweeps[q] # NoSweep => SweepFits(q, sweeps[q].order) /\ Asked(q, sweeps[q].grains)
       /\ sweeping[q] # NoRow => SweepFits(q, sweeping[q].order) /\ sweeping[q].left \in 0..Amount

StoredQuotes == {q \in Quotes : trades[q] # NoTrade}
FillsOK == IsFiniteSet(StoredQuotes) /\ FillsConserved

BookInv ==
  /\ now <= MaxTime /\ refused \subseteq Orders /\ \A o \in Orders : coins[o].amount \in 0..Amount
  /\ RowsOK /\ QuotesOK /\ TradesOK /\ CallsOK /\ PlacesOK /\ SweepsOK /\ FillsOK

\* What all steps leave of the amounts of quotes and of the funds of orders, and what
\* all but fills leave of the amounts of orders.
QuotesKept == \A q \in Quotes : quotes[q] # NoQuote => quotes'[q] = quotes[q]
FundsKept ==
  \A o \in Orders : orders[o] # NoOrder =>
    orders'[o] # NoOrder /\ (orders[o].funded = Amount => orders'[o].funded = Amount)
RemainingKept ==
  \A o \in Orders : orders'[o] # NoOrder =>
    orders'[o].remaining = IF orders[o] = NoOrder THEN Amount ELSE orders[o].remaining

\* A row of an order is one.
LEMMA RowIsRow == ASSUME NEW row, RowOK(row) PROVE row # NoOrder
BY DEF RowOK, OrderRows, NoOrder, Statuses, None

\* A stored trade fits wherever quotes and orders are kept.
LEMMA TradeGoesOn ==
  ASSUME IInv, QuotesKept, FundsKept, NEW q \in Quotes, NEW t \in {NoTrade} \cup TradeRecs, TradeFits(q, t)
  PROVE  TradeFits(q, t)'
BY DEF QuotesKept, FundsKept, TradeFits, TradeRecs, NoQuote

\* A call does.
LEMMA CallGoesOn ==
  ASSUME QuotesKept, NEW k \in CallRecs, CallFits(k)
  PROVE  CallFits(k)'
<1>1. k.pc \in {"save", "allocate"} => k.quote \in Quotes
  BY DEF CallRecs, NoCall
<1> QED BY <1>1 DEF QuotesKept, CallFits

\* The trades of all quotes fit if they are left alone.
LEMMA TradesGoOn ==
  ASSUME IInv, BookInv, QuotesKept, FundsKept, UNCHANGED trades
  PROVE  TradesOK'
<1>1. ASSUME NEW q \in Quotes PROVE TradeFits(q, trades[q])'
  <2>1. PICK t \in {NoTrade} \cup TradeRecs : t = trades[q]
    BY DEF IInv, Types
  <2>2. TradeFits(q, t)
    BY <2>1 DEF BookInv, TradesOK
  <2>3. TradeFits(q, t)'
    BY <2>2, TradeGoesOn
  <2> QED BY <2>1, <2>3 DEF TradeFits
<1> QED BY <1>1 DEF TradesOK

\* So do the calls, all but the one that makes the step.
LEMMA CallsGoOn ==
  ASSUME IInv, BookInv, QuotesKept,
         \/ UNCHANGED calls
         \/ \E c \in Callers, k \in CallRecs : CallFits(k)' /\ calls' = [calls EXCEPT ![c] = k]
  PROVE  CallsOK'
<1>1. calls \in [Callers -> CallRecs]
  BY DEF IInv, Types
<1>2. ASSUME NEW d \in Callers, calls'[d] = calls[d] PROVE CallFits(calls[d])'
  <2>1. PICK k \in CallRecs : k = calls[d]
    BY <1>1
  <2>2. CallFits(k)
    BY <2>1 DEF BookInv, CallsOK
  <2>3. CallFits(k)'
    BY <2>2, CallGoesOn
  <2> QED BY <1>2, <2>1, <2>3 DEF CallFits
<1>3. ASSUME NEW c \in Callers, NEW k \in CallRecs, CallFits(k)', calls' = [calls EXCEPT ![c] = k]
      PROVE  CallsOK'
  <2>1. \A d \in Callers \ {c} : calls'[d] = calls[d]
    BY <1>1, <1>3
  <2>2. calls'[c] = k
    BY <1>1, <1>3
  <2>3. CallFits(calls[c])'
    BY <1>3, <2>2 DEF CallFits
  <2> QED BY <1>2, <2>1, <2>3 DEF CallsOK
<1> QED BY <1>2, <1>3 DEF CallsOK

\* A sweep goes on fitting while orders keep their funds.
LEMMA SweepFitsStill ==
  ASSUME FundsKept, UNCHANGED config, NEW q \in Quotes, NEW o \in Orders, SweepFits(q, o),
         trades[q] # NoTrade => trades'[q] = trades[q]
  PROVE  SweepFits(q, o)'
BY DEF FundsKept, SweepFits, MaySweep, OfTrades

\* Sweeps and the rows held for them agree with orders whose funds are kept.
LEMMA SweepsGoOn ==
  ASSUME IInv, BookInv, FundsKept, UNCHANGED <<config, sweeps, sweeping>>,
         \A q \in Quotes : trades[q] # NoTrade => trades'[q] = trades[q]
  PROVE  SweepsOK'
<1>1. SweepsOK
  BY DEF BookInv
<1>2. ASSUME NEW q \in Quotes, sweeps[q] # NoSweep
      PROVE  SweepFits(q, sweeps[q].order)' /\ Asked(q, sweeps[q].grains)'
  <2>1. PICK o \in Orders : o = sweeps[q].order
    BY <1>1, <1>2 DEF SweepsOK, SweepRows
  <2>2. SweepFits(q, o) /\ Asked(q, sweeps[q].grains)
    BY <1>1, <1>2, <2>1 DEF SweepsOK
  <2>3. SweepFits(q, o)'
    BY <2>2, SweepFitsStill
  <2> QED BY <2>1, <2>2, <2>3 DEF SweepFits, MaySweep, Asked, OfTrades
<1>3. ASSUME NEW q \in Quotes, sweeping[q] # NoRow
      PROVE  SweepFits(q, sweeping[q].order)' /\ sweeping'[q].left \in 0..Amount
  <2>1. PICK o \in Orders : o = sweeping[q].order
    BY <1>3 DEF IInv, Types
  <2>2. SweepFits(q, o) /\ sweeping[q].left \in 0..Amount
    BY <1>1, <1>3, <2>1 DEF SweepsOK
  <2>3. SweepFits(q, o)'
    BY <2>2, SweepFitsStill
  <2> QED BY <2>1, <2>2, <2>3 DEF SweepFits, MaySweep, OfTrades
<1> QED BY <1>1, <1>2, <1>3 DEF SweepsOK

\* The trades that fill an order are stored ones.
LEMMA FillsAreStored ==
  ASSUME BookInv, NEW o \in Orders
  PROVE  Fills(o) \subseteq StoredQuotes /\ IsFiniteSet(Fills(o)) /\ (orders[o] = NoOrder => Fills(o) = {})
<1>1. Fills(o) \subseteq StoredQuotes
  BY DEF Fills, StoredQuotes, NoTrade
<1>2. orders[o] = NoOrder => Fills(o) = {}
  BY <1>1, OrderBookAssumption DEF Fills, StoredQuotes, BookInv, TradesOK, TradeFits
<1> QED BY <1>1, <1>2, FS_Subset DEF BookInv, FillsOK

\* Amounts that are kept still add up.
LEMMA FillsGoOn ==
  ASSUME BookInv, RemainingKept, UNCHANGED trades
  PROVE  FillsOK'
<1>1. ASSUME NEW o \in Orders, orders'[o] # NoOrder
      PROVE  orders'[o].remaining + Taken(o) = Amount
  <2>1. CASE orders[o] = NoOrder
    <3>1. Fills(o) = {}
      BY <2>1, FillsAreStored
    <3>2. Taken(o) = 0
      BY <3>1, SumOfNone DEF Taken
    <3> QED BY <1>1, <2>1, <3>2, OrderBookAssumption DEF RemainingKept
  <2>2. CASE orders[o] # NoOrder
    BY <1>1, <2>2 DEF RemainingKept, BookInv, FillsOK, FillsConserved
  <2> QED BY <2>1, <2>2
<1>2. \A o \in Orders : Taken(o)' = Taken(o)
  BY DEF Taken, Fills
<1>3. FillsConserved'
  BY <1>1, <1>2 DEF FillsConserved
<1>4. IsFiniteSet(StoredQuotes)'
  BY DEF BookInv, FillsOK, StoredQuotes
<1> QED BY <1>3, <1>4 DEF FillsOK

\* A step that leaves the trades alone keeps the books balanced.
LEMMA Balanced ==
  ASSUME IInv, BookInv, RowsOK', FundsKept, RemainingKept, QuotesOK', QuotesKept, PlacesOK',
         now' <= MaxTime, refused' \subseteq Orders, \A o \in Orders : coins'[o].amount \in 0..Amount,
         UNCHANGED <<config, trades>>, UNCHANGED <<sweeps, sweeping>> \/ SweepsOK',
         \/ UNCHANGED calls
         \/ \E c \in Callers, k \in CallRecs : CallFits(k)' /\ calls' = [calls EXCEPT ![c] = k]
  PROVE  BookInv'
<1>1. TradesOK' /\ CallsOK' /\ FillsOK'
  BY TradesGoOn, CallsGoOn, FillsGoOn
<1>2. SweepsOK'
  BY SweepsGoOn
<1> QED BY <1>1, <1>2 DEF BookInv

\* A step that leaves orders or quotes alone.
LEMMA OrdersAlone ==
  ASSUME BookInv, UNCHANGED <<orders, config>>
  PROVE  RowsOK' /\ FundsKept /\ RemainingKept
BY DEF BookInv, RowsOK, RowOK, Postgres, FundsKept, RemainingKept

LEMMA QuotesAlone ==
  ASSUME BookInv, UNCHANGED quotes
  PROVE  QuotesOK' /\ QuotesKept
BY DEF BookInv, QuotesOK, QuotesKept

LEMMA PlacesAlone ==
  ASSUME BookInv, UNCHANGED <<allocs, watches>>
  PROVE  PlacesOK'
BY DEF BookInv, PlacesOK

\* A write of one order's row that fills nothing.
LEMMA RowBalanced ==
  ASSUME IInv, BookInv, NEW o \in Orders, orders[o] # NoOrder, UNCHANGED config,
         NEW row, RowOK(row), row.prefund = None <=> orders[o].prefund = None,
         row.remaining = orders[o].remaining, orders[o].funded = Amount => row.funded = Amount,
         orders' = [orders EXCEPT ![o] = row]
  PROVE  RowsOK' /\ FundsKept /\ RemainingKept
<1>1. row # NoOrder
  BY RowIsRow
<1>2. orders'[o] = row /\ \A x \in Orders \ {o} : orders'[x] = orders[x]
  BY DEF IInv, Types
<1>3. RowsOK'
  BY <1>2 DEF BookInv, RowsOK, RowOK, Postgres
<1>4. FundsKept /\ RemainingKept
  BY <1>1, <1>2 DEF FundsKept, RemainingKept
<1> QED BY <1>3, <1>4

\* A step of a prefund that touches neither trades nor calls.
LEMMA PrefundBalanced ==
  ASSUME IInv, BookInv, UNCHANGED <<now, config, refused, quotes, acceptVars>>,
         RowsOK', FundsKept, RemainingKept, UNCHANGED <<sweeps, sweeping>> \/ SweepsOK',
         \A o \in Orders : coins'[o].amount \in 0..Amount
  PROVE  BookInv'
<1>1. UNCHANGED <<trades, allocs, calls, watches>>
  BY DEF acceptVars
<1>2. QuotesOK' /\ QuotesKept /\ PlacesOK'
  BY <1>1, QuotesAlone, PlacesAlone
<1>3. now' <= MaxTime /\ refused' \subseteq Orders
  BY DEF BookInv
<1> QED BY <1>1, <1>2, <1>3, Balanced

\* The parts of a row.
LEMMA RowParts ==
  ASSUME IInv, BookInv, NEW o \in Orders, orders[o] # NoOrder
  PROVE  /\ orders[o] \in [status : Statuses, remaining : 0..Amount, terms : {offer.terms : offer \in Offers},
                           prefund : PrefundStates \cup {None},
                           until : Nat, funded : 0..Amount, left : 0..Amount]
         /\ RowOK(orders[o]) /\ orders \in [Orders -> {NoOrder} \cup OrderRecs]
BY DEF IInv, Types, BookInv, RowsOK, RowOK, OrderRows

\* The loops and the refunds of prefunds.
LEMMA PrefundLoopsBalance ==
  ASSUME IInv, BookInv, NEW o \in Orders,
         \/ \E reachable \in BOOLEAN : ObservePrefund(o, reachable)
         \/ Cutoff(o) \/ RequestRefund(o) \/ RecordRefunded(o)
  PROVE  BookInv'
<1>1. /\ orders[o] # NoOrder /\ orders[o].prefund # None
      /\ UNCHANGED <<now, config, refused, quotes, acceptVars, sweeps, sweeping, coins>>
  BY DEF ObservePrefund, Cutoff, RequestRefund, RecordRefunded, InPrefundState, Prefunded, prefundVars
<1>2. /\ orders[o] \in [status : Statuses, remaining : 0..Amount, terms : {offer.terms : offer \in Offers},
                        prefund : PrefundStates \cup {None},
                        until : Nat, funded : 0..Amount, left : 0..Amount]
      /\ RowOK(orders[o]) /\ orders \in [Orders -> {NoOrder} \cup OrderRecs]
  BY <1>1, RowParts
<1>3. \A x \in Orders : coins'[x].amount \in 0..Amount
  BY <1>1 DEF BookInv
<1>4. ASSUME NEW row, RowOK(row), row.prefund # None, row.remaining = orders[o].remaining,
             orders[o].funded = Amount => row.funded = Amount, orders' = [orders EXCEPT ![o] = row]
      PROVE  BookInv'
  <2>1. RowsOK' /\ FundsKept /\ RemainingKept
    BY <1>1, <1>4, RowBalanced
  <2> QED BY <1>1, <1>3, <2>1, PrefundBalanced
<1>5. CASE orders[o].prefund = "pending_funding" /\ coins[o].amount >= Amount /\ orders' = FundedBy(o, coins[o].amount)
  <2>1. PICK row : row = [orders[o] EXCEPT !.prefund = "funded", !.funded = coins[o].amount, !.left = coins[o].amount]
    OBVIOUS
  <2>2. coins[o].amount = Amount /\ Amount > 0 /\ Amount \in 0..Amount
    BY <1>5, OrderBookAssumption DEF BookInv
  <2>3. RowOK(row) /\ row.prefund # None /\ row.remaining = orders[o].remaining /\ row.funded = Amount
    BY <1>2, <1>5, <2>1, <2>2 DEF RowOK, OrderRows, PrefundStates, Sweepable, None
  <2>4. orders' = [orders EXCEPT ![o] = row]
    BY <1>2, <1>5, <2>1 DEF FundedBy
  <2> QED BY <1>4, <2>3, <2>4
<1>6. CASE orders[o].prefund = "pending_funding" /\ orders' = PrefundExpired(o)
  <2>1. PICK row : row = [orders[o] EXCEPT !.prefund = "expired", !.status = "expired"]
    OBVIOUS
  <2>2. RowOK(row) /\ row.prefund # None /\ row.remaining = orders[o].remaining /\ row.funded = orders[o].funded
    BY <1>2, <1>6, <2>1 DEF RowOK, OrderRows, Statuses, PrefundStates, Sweepable, NeverFunded, None
  <2>3. orders' = [orders EXCEPT ![o] = row]
    BY <1>2, <1>6, <2>1 DEF PrefundExpired
  <2> QED BY <1>4, <2>2, <2>3
<1>7. CASE orders[o].prefund \in Sweepable /\ orders' = CancelledForCltv(o)
  <2>1. PICK row : row = [orders[o] EXCEPT !.status = "cancelled"]
    OBVIOUS
  <2>2. RowOK(row) /\ row.prefund # None /\ row.remaining = orders[o].remaining /\ row.funded = orders[o].funded
    BY <1>1, <1>2, <1>7, <2>1 DEF RowOK, OrderRows, Statuses, PrefundStates, Sweepable, NeverFunded
  <2>3. orders' = [orders EXCEPT ![o] = row]
    BY <1>2, <1>7, <2>1 DEF CancelledForCltv
  <2> QED BY <1>4, <2>2, <2>3
<1>8. CASE orders[o].prefund \in Sweepable /\ orders[o].left > 0 /\ orders' = RefundPending(o)
  <2>1. PICK row : row = [orders[o] EXCEPT !.prefund = "refund_pending"]
    OBVIOUS
  <2>2. RowOK(row) /\ row.prefund # None /\ row.remaining = orders[o].remaining /\ row.funded = orders[o].funded
    BY <1>2, <1>8, <2>1 DEF RowOK, OrderRows, Statuses, PrefundStates, Sweepable, NeverFunded, None
  <2>3. orders' = [orders EXCEPT ![o] = row]
    BY <1>2, <1>8, <2>1 DEF RefundPending
  <2> QED BY <1>4, <2>2, <2>3
<1>9. CASE orders[o].prefund = "refund_pending" /\ orders' = PrefundRefunded(o)
  <2>1. PICK row : row = [orders[o] EXCEPT !.prefund = "refunded", !.status = "cancelled"]
    OBVIOUS
  <2>2. RowOK(row) /\ row.prefund # None /\ row.remaining = orders[o].remaining /\ row.funded = orders[o].funded
    BY <1>2, <1>9, <2>1 DEF RowOK, OrderRows, Statuses, PrefundStates, Sweepable, NeverFunded, None
  <2>3. orders' = [orders EXCEPT ![o] = row]
    BY <1>2, <1>9, <2>1 DEF PrefundRefunded
  <2> QED BY <1>4, <2>2, <2>3
<1>10. CASE \E reachable \in BOOLEAN : ObservePrefund(o, reachable)
  BY <1>5, <1>6, <1>10 DEF ObservePrefund, InPrefundState
<1>11. CASE Cutoff(o) \/ RequestRefund(o) \/ RecordRefunded(o)
  BY <1>7, <1>8, <1>9, <1>11 DEF Cutoff, RequestRefund, RecordRefunded, InPrefundState
<1> QED BY <1>10, <1>11

\* The deposit and what spends it.
LEMMA CoinsBalance ==
  ASSUME IInv, BookInv, NEW o \in Orders,
         (\E amount \in 1..Amount : DepositPrefund(o, amount)) \/ MakerRefunds(o)
  PROVE  BookInv'
<1>1. UNCHANGED <<now, config, orders, refused, quotes, acceptVars, sweeps, sweeping>>
  BY DEF DepositPrefund, MakerRefunds, bookVars
<1>2. coins \in Coins /\ \A x \in Orders : coins[x].amount \in 0..Amount
  BY DEF IInv, Types, Coins, BookInv
<1>3. \A x \in Orders : coins'[x].amount \in 0..Amount
  <2>1. ASSUME NEW amount \in 1..Amount, DepositPrefund(o, amount)
        PROVE  \A x \in Orders : coins'[x].amount \in 0..Amount
    <3>1. coins' = [coins EXCEPT ![o] = [amount |-> amount, spent |-> None]]
      BY <2>1 DEF DepositPrefund
    <3>2. \A x \in Orders : coins'[x].amount \in {coins[x].amount, amount}
      BY <1>2, <3>1 DEF Coins
    <3> QED BY <1>2, <3>2, OrderBookAssumption
  <2>2. CASE MakerRefunds(o)
    <3>1. coins' = [coins EXCEPT ![o].spent = "refund"]
      BY <2>2 DEF MakerRefunds
    <3>2. \A x \in Orders : coins'[x].amount = coins[x].amount
      BY <1>2, <3>1 DEF Coins
    <3> QED BY <1>2, <3>2
  <2> QED BY <2>1, <2>2
<1>4. RowsOK' /\ FundsKept /\ RemainingKept
  BY <1>1, OrdersAlone
<1> QED BY <1>1, <1>3, <1>4, PrefundBalanced

\* What decides whether a sweep fits stays as it is.
OrderKept == UNCHANGED <<orders, trades, config>>

\* A sweep is only written for a prefund that was funded, and out of what the row read
\* for it holds.
LEMMA SweepsBalance ==
  ASSUME IInv, BookInv, NEW q \in Quotes,
         SweepSteps(q)
  PROVE  BookInv'
<1>1. UNCHANGED <<now, config, refused, quotes, acceptVars, trades>>
  BY DEF SweepSteps, ReadForSweep, InitiateSweep, BroadcastSweep, RecordSweepConfirmed, bookVars, acceptVars
<1>2. /\ coins \in Coins /\ \A x \in Orders : coins[x].amount \in 0..Amount
      /\ sweeping \in SweepingRows /\ SweepingOK /\ SweepsOK
      /\ trades \in [Quotes -> {NoTrade} \cup TradeRecs]
  BY DEF IInv, Types, Coins, SweepingRows, BookInv
<1>3. ASSUME NEW o \in Orders, ReadForSweep(q, o) PROVE BookInv'
  <2>1. orders[o] # NoOrder /\ orders[o].prefund \in Sweepable /\ MaySweep(q, o)
    BY <1>3 DEF ReadForSweep, InPrefundState, Prefunded
  <2>2. RowOK(orders[o])
    BY <2>1, RowParts
  <2>3. orders[o].left \in 0..Amount /\ SweepFits(q, o)
    BY <2>1, <2>2 DEF RowOK, OrderRows, Sweepable, NeverFunded, None, SweepFits
  <2>4. PICK row : row = [order |-> o, left |-> orders[o].left]
    OBVIOUS
  <2>5. sweeping' = [sweeping EXCEPT ![q] = row] /\ UNCHANGED <<orders, sweeps, coins>>
    BY <1>3, <2>4 DEF ReadForSweep, bookVars
  <2>6. /\ sweeping'[q] = row /\ row.order = o /\ row.left = orders[o].left
        /\ \A p \in Quotes \ {q} : sweeping'[p] = sweeping[p]
    BY <1>2, <2>4, <2>5 DEF SweepingRows
  <2>7. OrderKept
    BY <1>1, <2>5 DEF OrderKept, acceptVars
  <2>8. SweepsOK'
    BY <1>2, <2>3, <2>5, <2>6, <2>7 DEF SweepsOK, OrderKept, SweepFits, MaySweep, Asked, OfTrades
  <2> QED BY <1>1, <1>2, <2>5, <2>8, OrdersAlone, PrefundBalanced
<1>4. ASSUME NEW grains \in 1..Amount, InitiateSweep(q, grains) PROVE BookInv'
  <2>1. PICK row, o : row = sweeping[q] /\ o = row.order
    OBVIOUS
  <2>2. sweeping' = [sweeping EXCEPT ![q] = NoRow] /\ UNCHANGED coins /\ row # NoRow /\ Asked(q, grains)
    BY <1>4, <2>1 DEF InitiateSweep
  <2>3. o \in Orders /\ orders[o] # NoOrder /\ row.left \in 0..Amount /\ SweepFits(q, o)
    BY <1>2, <2>1, <2>2 DEF SweepingRows, SweepFits, SweepsOK
  <2>4. sweeping'[q] = NoRow /\ \A p \in Quotes \ {q} : sweeping'[p] = sweeping[p]
    BY <1>2, <2>2 DEF SweepingRows
  <2>5. CASE UNCHANGED <<sweeps, orders>>
    <3>1. OrderKept
      BY <1>1, <2>5 DEF OrderKept, acceptVars
    <3>2. SweepsOK'
      BY <1>2, <2>4, <2>5, <3>1 DEF SweepsOK, OrderKept, SweepFits, MaySweep, Asked, OfTrades
    <3> QED BY <1>1, <1>2, <2>2, <2>5, <3>2, OrdersAlone, PrefundBalanced
  <2>6. CASE /\ grains <= row.left /\ sweeps[q] = NoSweep
             /\ sweeps' = SweepSaved(q, o, grains) /\ orders' = SweepProgress(o, row.left - grains)
    <3>2. PICK left : left = row.left - grains
      OBVIOUS
    <3>3. left \in 0..Amount
      BY <2>3, <2>6, <3>2, OrderBookAssumption
    <3>4. /\ orders[o] \in [status : Statuses, remaining : 0..Amount, terms : {offer.terms : offer \in Offers},
                            prefund : PrefundStates \cup {None},
                            until : Nat, funded : 0..Amount, left : 0..Amount]
          /\ RowOK(orders[o]) /\ orders \in [Orders -> {NoOrder} \cup OrderRecs]
      BY <2>3, RowParts
    <3>5. orders[o].funded = Amount
      BY <2>3 DEF SweepFits
    <3>6. PICK next : next = IF orders[o].prefund \in Sweepable
                 THEN [orders[o] EXCEPT !.left = left, !.prefund = IF left = 0 THEN "fully_swept" ELSE "partially_swept"]
                 ELSE orders[o]
      OBVIOUS
    <3>7. orders' = [orders EXCEPT ![o] = next]
      BY <2>6, <3>2, <3>4, <3>6 DEF SweepProgress
    <3>8. /\ RowOK(next) /\ (next.prefund = None <=> orders[o].prefund = None)
          /\ next.remaining = orders[o].remaining /\ next.funded = orders[o].funded
      <4>1. CASE orders[o].prefund \in Sweepable /\ left = 0
        <5>1. next = [orders[o] EXCEPT !.left = 0, !.prefund = "fully_swept"]
          BY <3>6, <4>1
        <5>2. next \in OrderRows
          BY <3>3, <3>4, <4>1, <5>1 DEF OrderRows, PrefundStates
        <5> QED BY <3>4, <3>5, <4>1, <5>1, <5>2 DEF RowOK, Sweepable, None
      <4>2. CASE orders[o].prefund \in Sweepable /\ left # 0
        <5>1. next = [orders[o] EXCEPT !.left = left, !.prefund = "partially_swept"]
          BY <3>6, <4>2
        <5>2. next \in OrderRows
          BY <3>3, <3>4, <4>2, <5>1 DEF OrderRows, PrefundStates
        <5>3. left > 0
          BY <3>3, <4>2
        <5> QED BY <3>4, <3>5, <4>2, <5>1, <5>2, <5>3 DEF RowOK, Sweepable, None
      <4>3. CASE orders[o].prefund \notin Sweepable
        BY <3>4, <3>6, <4>3
      <4> QED BY <4>1, <4>2, <4>3
    <3>9. RowsOK' /\ FundsKept /\ RemainingKept
      BY <1>1, <2>3, <3>7, <3>8, RowBalanced
    <3>10. PICK sweep : sweep = [status |-> "unsigned", order |-> o, grains |-> grains]
      OBVIOUS
    <3>11. sweep \in SweepRows /\ sweep.grains = grains /\ sweep.order = o
      BY <2>3, <3>10 DEF SweepRows
    <3>12. sweeps' = [sweeps EXCEPT ![q] = sweep]
      BY <2>6, <3>10 DEF SweepSaved
    <3>13. /\ sweeps' \in [Quotes -> {NoSweep} \cup SweepRows] /\ sweeps'[q] = sweep
           /\ \A p \in Quotes \ {q} : sweeps'[p] = sweeps[p]
      BY <1>2, <3>11, <3>12 DEF SweepsOK
    <3>14. SweepsOK'
      <4>1. ASSUME NEW p \in Quotes, NEW x \in Orders, SweepFits(p, x) PROVE SweepFits(p, x)'
        BY <1>1, <3>9, <4>1, SweepFitsStill
      <4>2. ASSUME NEW p \in Quotes, NEW n, Asked(p, n) PROVE Asked(p, n)'
        BY <1>1, <4>2 DEF Asked, OfTrades
      <4>3. ASSUME NEW p \in Quotes, sweeps'[p] # NoSweep
            PROVE  SweepFits(p, sweeps[p].order)' /\ Asked(p, sweeps[p].grains)'
        <5>1. PICK x, n : x = sweeps'[p].order /\ n = sweeps'[p].grains
          OBVIOUS
        <5>2. x \in Orders /\ SweepFits(p, x) /\ Asked(p, n)
          <6>1. CASE p = q
            BY <2>2, <2>3, <3>11, <3>13, <5>1, <6>1
          <6>2. CASE p # q
            BY <1>2, <3>13, <4>3, <5>1, <6>2 DEF SweepsOK, SweepRows
          <6> QED BY <6>1, <6>2
        <5>3. SweepFits(p, x)' /\ Asked(p, n)'
          BY <4>1, <4>2, <5>2
        <5> QED BY <5>1, <5>3 DEF SweepFits, MaySweep, Asked, OfTrades
      <4>4. ASSUME NEW p \in Quotes, sweeping'[p] # NoRow
            PROVE  SweepFits(p, sweeping[p].order)' /\ sweeping'[p].left \in 0..Amount
        <5>1. sweeping'[p] = sweeping[p]
          BY <2>4, <4>4
        <5>2. PICK x : x = sweeping[p].order
          OBVIOUS
        <5>3. x \in Orders /\ SweepFits(p, x) /\ sweeping[p].left \in 0..Amount
          BY <1>2, <4>4, <5>1, <5>2 DEF SweepsOK, SweepingRows
        <5>4. SweepFits(p, x)'
          BY <4>1, <5>3
        <5> QED BY <5>1, <5>2, <5>3, <5>4 DEF SweepFits, MaySweep, OfTrades
      <4> QED BY <3>13, <4>3, <4>4 DEF SweepsOK
    <3> QED BY <1>1, <1>2, <2>2, <3>9, <3>14, PrefundBalanced
  <2> QED BY <1>4, <2>1, <2>5, <2>6 DEF InitiateSweep
<1>5. ASSUME NEW status \in {"broadcast", "confirmed"}, sweeps[q].status \in {"unsigned", "broadcast"},
             sweeps' = SweepUpdated(q, status), UNCHANGED <<orders, sweeping>>
      PROVE  SweepsOK'
  <2>1. sweeps[q] # NoSweep
    BY <1>5 DEF NoSweep, None
  <2>2. sweeps[q] \in [status : {"unsigned", "broadcast", "confirmed"}, order : Orders, grains : 1..Amount]
    BY <1>2, <2>1 DEF SweepsOK, SweepRows
  <2>3. PICK sweep : sweep = [sweeps[q] EXCEPT !.status = status]
    OBVIOUS
  <2>4. sweep \in SweepRows /\ sweep.grains = sweeps[q].grains /\ sweep.order = sweeps[q].order
    BY <2>2, <2>3 DEF SweepRows
  <2>5. sweeps' = [sweeps EXCEPT ![q] = sweep]
    BY <1>2, <1>5, <2>3 DEF SweepUpdated, SweepsOK
  <2>6. /\ sweeps' \in [Quotes -> {NoSweep} \cup SweepRows] /\ sweeps'[q] = sweep
        /\ \A p \in Quotes \ {q} : sweeps'[p] = sweeps[p]
    BY <1>2, <2>4, <2>5 DEF SweepsOK
  <2>7. OrderKept
    BY <1>1, <1>5 DEF OrderKept, acceptVars
  <2> QED BY <1>2, <1>5, <2>1, <2>4, <2>6, <2>7
      DEF SweepsOK, OrderKept, SweepFits, MaySweep, Asked, OfTrades
<1>6. CASE BroadcastSweep(q)
  <2>1. sweeps' = SweepUpdated(q, "broadcast") /\ UNCHANGED <<orders, sweeping>> /\ sweeps[q].status = "unsigned"
    BY <1>6 DEF BroadcastSweep, bookVars
  <2>2. coins' = [coins EXCEPT ![sweeps[q].order].spent = "sweep"]
    BY <1>6 DEF BroadcastSweep
  <2>3. \A x \in Orders : coins'[x].amount = coins[x].amount
    BY <1>2, <2>2 DEF Coins
  <2>4. SweepsOK'
    BY <1>5, <2>1
  <2> QED BY <1>1, <1>2, <2>1, <2>3, <2>4, OrdersAlone, PrefundBalanced
<1>7. CASE RecordSweepConfirmed(q)
  <2>1. sweeps' = SweepUpdated(q, "confirmed") /\ UNCHANGED <<orders, sweeping, coins>> /\ sweeps[q].status = "broadcast"
    BY <1>7 DEF RecordSweepConfirmed, bookVars
  <2>2. SweepsOK'
    BY <1>5, <2>1
  <2> QED BY <1>1, <1>2, <2>1, <2>2, OrdersAlone, PrefundBalanced
<1> QED BY <1>3, <1>4, <1>6, <1>7 DEF SweepSteps

\* A new order, whose whole amount remains.
LEMMA CreateOrderBalances ==
  ASSUME IInv, BookInv, NEW o \in Orders, NEW offer \in Offers, NEW prefunded \in BOOLEAN,
         CreateOrder(o, offer.terms, offer.proof, prefunded)
  PROVE  BookInv'
<1>1. UNCHANGED <<now, config, quotes, trades, allocs, calls, watches, sweeps, sweeping, coins>> /\ orders[o] = NoOrder
  BY DEF CreateOrder, acceptVars, prefundVars
<1>2. orders \in [Orders -> {NoOrder} \cup OrderRecs] /\ now \in Nat
  BY DEF IInv, Types
<1>3. now' <= MaxTime /\ refused' \subseteq Orders /\ \A x \in Orders : coins'[x].amount \in 0..Amount
  BY <1>1 DEF CreateOrder, BookInv
<1>4. RowsOK' /\ FundsKept /\ RemainingKept
  <2>1. CASE UNCHANGED orders
    BY <1>1, <2>1, OrdersAlone
  <2>2. CASE PrefundReserved(prefunded) /\ orders' = Inserted(o, offer.terms, prefunded)
    <3>1. PICK row : row = [status |-> "open", remaining |-> Amount, terms |-> offer.terms,
                     prefund |-> IF prefunded THEN "pending_funding" ELSE None,
                     until |-> IF prefunded THEN RefundEligibleAfter ELSE Never,
                     funded |-> 0, left |-> 0]
      OBVIOUS
    <3>2. RefundEligibleAfter \in Nat /\ Never \in Nat /\ Amount \in 0..Amount /\ 0 \in 0..Amount /\ Amount > 0
      BY <1>2, OrderBookAssumption DEF RefundEligibleAfter, Never
    <3>3. RowOK(row)
      BY <3>1, <3>2 DEF RowOK, OrderRows, Statuses, PrefundStates, Sweepable, NeverFunded, None
    <3>4. row.remaining = Amount /\ (Postgres => row.prefund = None)
      BY <2>2, <3>1 DEF PrefundReserved
    <3>5. orders' = [orders EXCEPT ![o] = row]
      BY <2>2, <3>1 DEF Inserted
    <3>6. orders'[o] = row /\ \A x \in Orders \ {o} : orders'[x] = orders[x]
      BY <1>2, <3>5
    <3>7. RowsOK'
      BY <1>1, <3>3, <3>4, <3>6 DEF BookInv, RowsOK, RowOK, Postgres
    <3> QED BY <1>1, <3>4, <3>6, <3>7 DEF FundsKept, RemainingKept
  <2> QED BY <2>1, <2>2 DEF CreateOrder
<1> QED BY <1>1, <1>3, <1>4, QuotesAlone, PlacesAlone, Balanced

\* A quote is saved once, with the amount it was asked for.
LEMMA QuoteBalances ==
  ASSUME IInv, BookInv, NEW q \in Quotes, NEW amount \in 1..Amount,
         \/ CreateQuote(q, amount)
         \/ \E o \in Orders : CreateOrderQuote(q, o, amount) \/ SaveLink(q, o)
  PROVE  BookInv'
<1>1. UNCHANGED <<now, config, orders, refused, trades, allocs, calls, watches, sweeps, sweeping, coins>>
  BY DEF CreateQuote, CreateOrderQuote, SaveLink, acceptVars, prefundVars
<1>2. quotes \in [Quotes -> [amount : Int, expires : Int]]
  BY DEF IInv, Types
<1>3. QuotesOK' /\ QuotesKept
  <2>1. CASE UNCHANGED quotes
    BY <2>1, QuotesAlone
  <2>2. CASE /\ quotes[q] = NoQuote
             /\ quotes' = SaveQuote(q, [amount |-> amount, expires |-> Min({now + QuoteTtl, Never})])
    <3>1. PICK quote : quote = [amount |-> amount, expires |-> Min({now + QuoteTtl, Never})]
      OBVIOUS
    <3>2. quotes' = [quotes EXCEPT ![q] = quote] /\ quote.amount = amount
      BY <2>2, <3>1 DEF SaveQuote
    <3>3. quotes'[q] = quote /\ \A p \in Quotes \ {q} : quotes'[p] = quotes[p]
      BY <1>2, <3>2
    <3> QED BY <2>2, <3>2, <3>3 DEF BookInv, QuotesOK, QuotesKept
  <2> QED BY <2>1, <2>2 DEF CreateQuote, CreateOrderQuote, SaveLink, QuoteSaved
<1>4. now' <= MaxTime /\ refused' \subseteq Orders /\ \A x \in Orders : coins'[x].amount \in 0..Amount
  BY <1>1 DEF BookInv
<1> QED BY <1>1, <1>3, <1>4, OrdersAlone, PlacesAlone, Balanced

\* A step of one call that stores no trade.
LEMMA CallBalances ==
  ASSUME IInv, BookInv, NEW c \in Callers, NEW k \in CallRecs, calls' = [calls EXCEPT ![c] = k], CallFits(k),
         UNCHANGED <<now, config, bookVars, trades, prefundVars>>, PlacesOK'
  PROVE  BookInv'
<1>1. UNCHANGED <<orders, refused, quotes, sweeps, sweeping, coins>>
  BY DEF bookVars, prefundVars
<1>2. RowsOK' /\ FundsKept /\ RemainingKept /\ QuotesOK' /\ QuotesKept
  BY <1>1, OrdersAlone, QuotesAlone
<1>3. CallFits(k)'
  BY <1>2, CallGoesOn
<1>4. now' <= MaxTime /\ refused' \subseteq Orders /\ \A o \in Orders : coins'[o].amount \in 0..Amount
  BY <1>1 DEF BookInv
<1> QED BY <1>1, <1>2, <1>3, <1>4, Balanced

\* No call fits, and one to the watch of an escrow does.
LEMMA NoCallFits == CallFits(NoCall)
BY DEF CallFits, NoCall

LEMMA WatchingFits ==
  ASSUME NEW q, NEW r, NEW e \in Escrows
  PROVE  CallFits(Watching(q, r, e))
BY DEF CallFits, Watching

\* The escrow a multisig trade gets, within the clock's bound.
LEMMA MultisigEscrowFits ==
  ASSUME IInv, BookInv, NEW q \in Quotes, NEW r \in Clients
  PROVE  MultisigEscrow(q, r) \in Escrows
<1>1. now \in 0..MaxTime
  BY OrderBookAssumption DEF IInv, Types, BookInv
<1> QED BY <1>1 DEF MultisigEscrow, Escrows

\* The escrow of a reserved derivation.
LEMMA IndexFits ==
  ASSUME NEW i \in Indexes
  PROVE  <<i>> \in Escrows
BY DEF Indexes, Escrows

\* A call begins with a quote that exists.
LEMMA BeginAcceptBalances ==
  ASSUME IInv, BookInv, NEW c \in Callers, NEW q \in Quotes, NEW r \in Clients, NEW request \in Requests[q],
         BeginAccept(c, q, r, request)
  PROVE  BookInv'
<1>1. UNCHANGED <<now, config, bookVars, trades, allocs, watches, prefundVars>> /\ PlacesOK'
  BY PlacesAlone DEF BeginAccept
<1>2. CASE q \in AcceptedBy(r) /\ calls' = [calls EXCEPT ![c] = Watching(q, r, trades[q].escrow)]
  <2>1. PICK k : k = Watching(q, r, trades[q].escrow)
    OBVIOUS
  <2>2. trades[q] # NoTrade /\ trades[q].client = r /\ EscrowOK(q, r, trades[q].escrow) /\ trades[q].escrow \in Places
    BY <1>2, AcceptedIsStored
  <2>3. trades[q].escrow \in Escrows
    BY <2>2 DEF BookInv, TradesOK, TradeFits
  <2>4. k \in CallRecs /\ CallFits(k)
    BY <2>1, <2>2, <2>3, WatchingOK, WatchingFits
  <2> QED BY <1>1, <1>2, <2>1, <2>4, CallBalances
<1>3. CASE /\ Acceptable(q, request)
           /\ calls' = [calls EXCEPT ![c] =
                [pc |-> IF Multisig THEN "save" ELSE "allocate",
                 quote |-> q, client |-> r, request |-> request, order |-> links[q], at |-> now, try |-> 1,
                 escrow |-> IF Multisig THEN MultisigEscrow(q, r) ELSE NoEscrow]]
  <2>1. PICK k : k = [pc |-> IF Multisig THEN "save" ELSE "allocate",
                 quote |-> q, client |-> r, request |-> request, order |-> links[q], at |-> now, try |-> 1,
                 escrow |-> IF Multisig THEN MultisigEscrow(q, r) ELSE NoEscrow]
    OBVIOUS
  <2>2. /\ request \in AllRequests /\ links[q] \in Orders \cup {None} /\ now \in Int
        /\ (IF Multisig THEN MultisigEscrow(q, r) ELSE NoEscrow) \in Places
    BY MultisigEscrowOK DEF AllRequests, IInv, Types, Places
  <2>3. (IF Multisig THEN MultisigEscrow(q, r) ELSE NoEscrow) \in Escrows
    BY MultisigEscrowFits DEF Escrows
  <2>4. k \in [pc : {"save", "allocate"}, quote : Quotes, client : Clients, request : AllRequests,
               order : Orders \cup {None}, at : Int, try : Nat, escrow : Places]
    BY <2>1, <2>2
  <2>5. k \in CallRecs
    BY <2>4 DEF CallRecs
  <2>6. quotes[q] # NoQuote
    BY <1>3 DEF Acceptable
  <2>7. k.escrow \in Escrows /\ k.quote = q /\ k.request = request
    BY <2>1, <2>3
  <2>8. CallFits(k)
    BY <2>6, <2>7 DEF CallFits
  <2> QED BY <1>1, <1>3, <2>1, <2>5, <2>8, CallBalances
<1> QED BY <1>2, <1>3 DEF BeginAccept

\* An allocation reserves one of the indexes its trade derives.
LEMMA AllocateBalances ==
  ASSUME IInv, BookInv, NEW c \in Callers, Allocate(c)
  PROVE  BookInv'
<1>1. PICK k, index : k = calls[c] /\ index = Derive[k.quote][k.try]
  OBVIOUS
<1>2. k.pc = "allocate" /\ k \in CallRecs /\ CallOK(k) /\ CallFits(k)
  BY <1>1 DEF Allocate, IInv, Types, BookInv, CallsOK
<1>3. k \in [pc : {"save", "allocate"}, quote : Quotes, client : Clients, request : AllRequests,
             order : Orders \cup {None}, at : Int, try : Nat, escrow : Places]
  BY <1>2 DEF CallRecs, NoCall
<1>4. index \in Indexes /\ index \in Nat
  <2>1. Derive[k.quote] \in Seq(Nat) /\ k.try \in 1..Len(Derive[k.quote])
    BY <1>2, <1>3, OrderBookAssumption DEF CallOK
  <2>2. k.try \in DOMAIN Derive[k.quote]
    BY <2>1
  <2> QED BY <1>1, <1>3, <2>1, <2>2 DEF Indexes
<1>5. UNCHANGED <<now, config, bookVars, trades, watches, prefundVars>>
  BY DEF Allocate
<1>6. /\ calls \in [Callers -> CallRecs] /\ PlacesOK
      /\ allocs \subseteq [quote : Quotes, client : Clients, index : Nat]
  BY DEF IInv, Types, BookInv
<1>7. ASSUME NEW i \in Indexes, i \in Nat, calls' = [calls EXCEPT ![c].pc = "save", ![c].escrow = <<i>>], PlacesOK'
      PROVE  BookInv'
  <2>1. PICK s : s = [k EXCEPT !.pc = "save", !.escrow = <<i>>]
    OBVIOUS
  <2>2. <<i>> \in Places /\ <<i>> \in Escrows
    BY <1>7, IndexFits DEF Places
  <2>3. s \in [pc : {"save", "allocate"}, quote : Quotes, client : Clients, request : AllRequests,
               order : Orders \cup {None}, at : Int, try : Nat, escrow : Places]
    BY <1>3, <2>1, <2>2
  <2>4. s \in CallRecs /\ s.escrow = <<i>> /\ s.quote = k.quote /\ s.request = k.request
    BY <1>3, <2>1, <2>3 DEF CallRecs
  <2>5. CallFits(s)
    BY <1>2, <2>2, <2>4 DEF CallFits
  <2>6. calls' = [calls EXCEPT ![c] = s]
    BY <1>1, <1>6, <1>7, <2>1
  <2> QED BY <1>5, <1>7, <2>4, <2>5, <2>6, CallBalances
<1>8. CASE Allocated(k.quote, k.client) # {}
  <2>1. PICK a \in Allocated(k.quote, k.client) :
          calls' = [calls EXCEPT ![c].pc = "save", ![c].escrow = <<a.index>>] /\ UNCHANGED allocs
    BY <1>1, <1>8 DEF Allocate
  <2>2. a \in allocs /\ a.index \in Nat /\ a.index \in Indexes
    BY <1>6 DEF Allocated, PlacesOK
  <2>3. PlacesOK'
    BY <1>5, <2>1, PlacesAlone
  <2> QED BY <1>7, <2>1, <2>2, <2>3
<1>9. CASE Allocated(k.quote, k.client) = {} /\ DerivationTaken(k.quote, k.client, index)
  <2>1. PICK s : s = IF k.try < Len(Derive[k.quote]) THEN [k EXCEPT !.try = @ + 1] ELSE NoCall
    OBVIOUS
  <2>2. calls' = [calls EXCEPT ![c] = s] /\ UNCHANGED allocs
    BY <1>1, <1>9, <2>1 DEF Allocate
  <2>3. PlacesOK'
    BY <1>5, <2>2, PlacesAlone
  <2>4. CASE s = [k EXCEPT !.try = @ + 1]
    <3>1. s \in [pc : {"save", "allocate"}, quote : Quotes, client : Clients, request : AllRequests,
                 order : Orders \cup {None}, at : Int, try : Nat, escrow : Places]
      BY <1>3, <2>4
    <3>2. s \in CallRecs /\ s.pc = "allocate" /\ s.quote = k.quote /\ s.request = k.request /\ s.escrow = k.escrow
      BY <1>2, <1>3, <2>4, <3>1 DEF CallRecs
    <3>3. CallFits(s)
      BY <1>2, <3>2 DEF CallFits
    <3> QED BY <1>5, <2>2, <2>3, <3>2, <3>3, CallBalances
  <2>5. CASE s = NoCall
    BY <1>5, <2>2, <2>3, <2>5, NoCallOK, NoCallFits, CallBalances
  <2> QED BY <2>1, <2>4, <2>5
<1>10. CASE Allocated(k.quote, k.client) = {} /\ ~DerivationTaken(k.quote, k.client, index)
  <2>1. PICK a : a = [quote |-> k.quote, client |-> k.client, index |-> index]
    OBVIOUS
  <2>2. allocs' = allocs \cup {a} /\ calls' = [calls EXCEPT ![c].pc = "save", ![c].escrow = <<index>>] /\ a.index = index
    BY <1>1, <1>10, <2>1 DEF Allocate
  <2>3. PlacesOK'
    BY <1>4, <1>5, <1>6, <2>2 DEF PlacesOK
  <2> QED BY <1>4, <1>7, <2>2, <2>3
<1> QED BY <1>8, <1>9, <1>10

\* The indexer's watches hold escrows of trades.
LEMMA WatchBalances ==
  ASSUME IInv, BookInv, NEW c \in Callers, EnsureWatch(c) \/ WatchFails(c)
  PROVE  BookInv'
<1>1. PICK k : k = calls[c]
  OBVIOUS
<1>2. k.pc = "watch" /\ CallFits(k)
  BY <1>1 DEF EnsureWatch, WatchFails, BookInv, CallsOK
<1>3. /\ calls' = [calls EXCEPT ![c] = NoCall] /\ watches' \in {watches, Registered(k)}
      /\ UNCHANGED <<now, config, bookVars, trades, allocs, prefundVars>>
  BY <1>1 DEF EnsureWatch, WatchFails
<1>4. k.escrow \in Escrows
  BY <1>2 DEF CallFits
<1>5. watches \in [Quotes -> Places]
  BY DEF IInv, Types
<1>6. \A q \in Quotes : watches'[q] \in {watches[q], k.escrow}
  BY <1>3, <1>5 DEF Registered
<1>7. PlacesOK'
  BY <1>3, <1>4, <1>6 DEF BookInv, PlacesOK
<1> QED BY <1>3, <1>7, NoCallOK, NoCallFits, CallBalances

\* A fill takes its amount from what remains, and closes the order with the last of it.
LEMMA FillRow ==
  ASSUME IInv, BookInv, NEW o \in Orders, Matchable(o), NEW amount \in 1..Amount, amount <= orders[o].remaining
  PROVE  \E row : /\ RowOK(row) /\ row.prefund = orders[o].prefund /\ row.funded = orders[o].funded
                  /\ row.remaining = orders[o].remaining - amount
                  /\ Filled(o, amount) = [orders EXCEPT ![o] = row]
<1>1. orders[o] # NoOrder
  BY DEF Matchable, NoOrder, None
<1>2. /\ orders[o] \in [status : Statuses, remaining : 0..Amount, terms : {offer.terms : offer \in Offers},
                        prefund : PrefundStates \cup {None},
                        until : Nat, funded : 0..Amount, left : 0..Amount]
      /\ RowOK(orders[o]) /\ orders \in [Orders -> {NoOrder} \cup OrderRecs]
  BY <1>1, RowParts
<1>3. orders[o].status \in {"open", "partially_filled"}
  BY DEF Matchable
<1>4. orders[o].prefund # "refunded" /\ orders[o].prefund # "expired"
  BY <1>2, <1>3 DEF RowOK
<1>5. PICK remaining, status : /\ remaining = orders[o].remaining - amount
                               /\ status = IF remaining = 0 THEN "filled" ELSE "partially_filled"
  OBVIOUS
<1>6. remaining \in 0..Amount /\ orders[o].remaining \in 0..Amount
  BY <1>2, <1>5, OrderBookAssumption
<1>7. PICK row : row = [orders[o] EXCEPT !.remaining = remaining, !.status = status]
  OBVIOUS
<1>8. /\ row \in OrderRows /\ row.remaining = remaining /\ row.status = status
      /\ row.prefund = orders[o].prefund /\ row.funded = orders[o].funded /\ row.left = orders[o].left
  BY <1>2, <1>5, <1>6, <1>7 DEF OrderRows, Statuses
<1>9. RowOK(row)
  BY <1>2, <1>4, <1>5, <1>6, <1>8 DEF RowOK
<1>10. Filled(o, amount) = [orders EXCEPT ![o] = row]
  BY <1>2, <1>5, <1>7 DEF Filled
<1> QED BY <1>5, <1>8, <1>9, <1>10

\* A trade is added to those that fill its order, and to no others.
LEMMA TakenByTrade ==
  ASSUME IInv, BookInv, NEW q \in Quotes, NEW t \in TradeRecs, t.client # None, trades[q] = NoTrade,
         trades' = [trades EXCEPT ![q] = t], NEW x \in Orders
  PROVE  Taken(x)' = Taken(x) + (IF t.order = x THEN t.amount ELSE 0)
<1>1. trades'[q] = t /\ \A p \in Quotes \ {q} : trades'[p] = trades[p]
  BY DEF IInv, Types
<1>2. q \notin Fills(x) /\ Fills(x)' = IF t.order = x THEN Fills(x) \cup {q} ELSE Fills(x)
  BY <1>1 DEF Fills, NoTrade
<1>3. IsFiniteSet(Fills(x)) /\ Fills(x) \subseteq StoredQuotes
  BY FillsAreStored
<1>4. \A p \in Fills(x) : trades[p].amount \in Int /\ trades'[p] = trades[p] /\ p \in Quotes
  BY <1>1, <1>2, <1>3 DEF StoredQuotes, IInv, Types, TradeRecs
<1>5. PICK f, g : f = [p \in Fills(x) |-> trades[p].amount] /\ g = [p \in Fills(x)' |-> trades'[p].amount]
  OBVIOUS
<1>6. Taken(x) = SumFunctionOnSet(f, Fills(x)) /\ Taken(x)' = SumFunctionOnSet(g, Fills(x)')
  BY <1>5 DEF Taken
<1>7. \A p \in Fills(x) : f[p] \in Int /\ g[p] = f[p]
  BY <1>2, <1>4, <1>5
<1>8. SumFunctionOnSet(g, Fills(x)) = SumFunctionOnSet(f, Fills(x)) /\ SumFunctionOnSet(f, Fills(x)) \in Int
  BY <1>3, <1>7, SumOfEqual, SumInInt
<1>9. CASE t.order = x
  <2>1. PICK s : s = Fills(x) \cup {q}
    OBVIOUS
  <2>2. Fills(x)' = s /\ q \in s /\ s \ {q} = Fills(x) /\ IsFiniteSet(s)
    BY <1>2, <1>3, <1>9, <2>1, FS_AddElement
  <2>3. g[q] = t.amount /\ t.amount \in Int
    BY <1>1, <1>5, <2>2 DEF TradeRecs
  <2>4. \A p \in s : g[p] \in Int
    BY <1>7, <2>1, <2>3
  <2>5. SumFunctionOnSet(g, s) = g[q] + SumFunctionOnSet(g, s \ {q})
    BY <2>2, <2>4, SumWithout
  <2>6. Taken(x)' = g[q] + SumFunctionOnSet(g, s \ {q})
    BY <1>6, <2>2, <2>5
  <2>7. SumFunctionOnSet(g, s \ {q}) = Taken(x) /\ Taken(x) \in Int
    BY <1>6, <1>8, <2>2
  <2> QED BY <1>9, <2>3, <2>6, <2>7
<1>10. CASE t.order # x
  BY <1>2, <1>6, <1>8, <1>10
<1> QED BY <1>9, <1>10

\* A trade is stored together with its fill.
LEMMA TradeBalances ==
  ASSUME IInv, BookInv, NEW c \in Callers, NEW q \in Quotes, NEW r \in Clients, NEW request \in Requests[q],
         NEW o \in Orders \cup {None}, NEW e \in Escrows, e \in Places, EscrowOK(q, r, e),
         quotes[q] # NoQuote, trades[q] = NoTrade,
         trades' = [trades EXCEPT ![q] =
           [client |-> r, request |-> request, order |-> o, amount |-> quotes[q].amount, escrow |-> e]],
         orders' = IF o = None THEN orders ELSE Filled(o, quotes[q].amount),
         o # None => Matchable(o) /\ quotes[q].amount <= orders[o].remaining,
         calls' = [calls EXCEPT ![c] = Watching(q, r, e)],
         UNCHANGED <<now, config, refused, quotes, linking, links, allocs, watches, answers, prefundVars>>
  PROVE  BookInv'
<1>1. UNCHANGED <<now, config, refused, quotes, allocs, watches, sweeps, sweeping, coins>>
  BY DEF prefundVars
<1>2. PICK t : t = [client |-> r, request |-> request, order |-> o, amount |-> quotes[q].amount, escrow |-> e]
  OBVIOUS
<1>3. quotes[q].amount \in 1..Amount
  BY DEF BookInv, QuotesOK
<1>4. /\ t \in TradeRecs /\ t.client = r /\ t.client # None /\ t.escrow = e /\ t.request = request /\ t.order = o
      /\ t.amount = quotes[q].amount
  BY <1>2, <1>3, OrderBookAssumption DEF TradeRecs, AllRequests
<1>5. trades' = [trades EXCEPT ![q] = t]
  BY <1>2
<1>6. /\ trades'[q] = t /\ \A p \in Quotes \ {q} : trades'[p] = trades[p]
      /\ orders \in [Orders -> {NoOrder} \cup OrderRecs]
  BY <1>5 DEF IInv, Types
<1>7. /\ RowsOK' /\ FundsKept /\ (\A x \in Orders : orders'[x] # NoOrder => orders[x] # NoOrder)
      /\ \A x \in Orders : orders[x] # NoOrder =>
           /\ orders'[x].remaining = orders[x].remaining - (IF t.order = x THEN t.amount ELSE 0)
           /\ orders[x].remaining \in Int
  <2>1. \A x \in Orders : orders[x] # NoOrder => orders[x].remaining \in Int
    BY <1>6 DEF OrderRecs
  <2>2. CASE o = None
    <3>1. RowsOK' /\ FundsKept /\ UNCHANGED orders
      BY <1>1, <2>2, OrdersAlone
    <3> QED BY <1>4, <2>1, <2>2, <3>1, OrderBookAssumption
  <2>3. CASE o # None
    <3>1. o \in Orders /\ Matchable(o) /\ orders' = Filled(o, quotes[q].amount)
      BY <2>3
    <3>2. PICK row : /\ RowOK(row) /\ row.prefund = orders[o].prefund /\ row.funded = orders[o].funded
                     /\ row.remaining = orders[o].remaining - quotes[q].amount
                     /\ Filled(o, quotes[q].amount) = [orders EXCEPT ![o] = row]
      BY <1>3, <2>3, <3>1, FillRow
    <3>3. orders'[o] = row /\ row # NoOrder /\ \A x \in Orders \ {o} : orders'[x] = orders[x]
      BY <1>6, <3>1, <3>2, RowIsRow
    <3>4. orders[o] # NoOrder
      BY <3>1 DEF Matchable, NoOrder, None
    <3>5. RowsOK'
      BY <1>1, <3>2, <3>3, <3>4 DEF BookInv, RowsOK, RowOK, Postgres
    <3>6. FundsKept
      BY <3>2, <3>3 DEF FundsKept
    <3> QED BY <1>4, <2>1, <3>2, <3>3, <3>4, <3>5, <3>6
  <2> QED BY <2>2, <2>3
<1>8. QuotesOK' /\ QuotesKept /\ PlacesOK'
  BY <1>1, QuotesAlone, PlacesAlone
<1>9. TradesOK'
  <2>1. ASSUME NEW p \in Quotes PROVE TradeFits(p, trades[p])'
    <3>1. CASE p = q
      <4>1. t.order # None => orders[t.order] # NoOrder
        BY <1>4 DEF Matchable, NoOrder, None
      <4>2. TradeFits(q, t)
        BY <1>4, <4>1 DEF TradeFits
      <4>3. TradeFits(q, t)'
        BY <1>4, <1>7, <1>8, <4>2, TradeGoesOn
      <4> QED BY <1>6, <3>1, <4>3 DEF TradeFits
    <3>2. CASE p # q
      <4>1. PICK u \in {NoTrade} \cup TradeRecs : u = trades[p]
        BY DEF IInv, Types
      <4>2. TradeFits(p, u)
        BY <4>1 DEF BookInv, TradesOK
      <4>3. TradeFits(p, u)'
        BY <1>7, <1>8, <4>2, TradeGoesOn
      <4> QED BY <1>6, <3>2, <4>1, <4>3 DEF TradeFits
    <3> QED BY <3>1, <3>2
  <2> QED BY <2>1 DEF TradesOK
<1>10. CallsOK'
  <2>1. PICK k : k = Watching(q, r, e)
    OBVIOUS
  <2>2. k \in CallRecs
    <3>1. k \in [pc : {"watch"}, quote : Quotes, client : Clients, escrow : Places]
      BY <2>1 DEF Watching
    <3> QED BY <3>1 DEF CallRecs
  <2>3. CallFits(k)'
    BY <1>8, <2>1, <2>2, WatchingFits, CallGoesOn
  <2> QED BY <1>8, <2>1, <2>2, <2>3, CallsGoOn
<1>11. SweepsOK'
  <2>1. \A p \in Quotes : trades[p] # NoTrade => trades'[p] = trades[p]
    BY <1>6
  <2> QED BY <1>1, <1>7, <2>1, SweepsGoOn
<1>12. FillsOK'
  <2>1. IsFiniteSet(StoredQuotes)'
    <3>1. StoredQuotes' = StoredQuotes \cup {q}
      BY <1>4, <1>6 DEF StoredQuotes, NoTrade
    <3> QED BY <3>1, FS_AddElement DEF BookInv, FillsOK
  <2>2. ASSUME NEW x \in Orders, orders'[x] # NoOrder PROVE orders'[x].remaining + Taken(x)' = Amount
    <3>1. Taken(x)' = Taken(x) + (IF t.order = x THEN t.amount ELSE 0)
      BY <1>4, <1>5, TakenByTrade
    <3>2. orders[x].remaining + Taken(x) = Amount
      BY <1>7, <2>2 DEF BookInv, FillsOK, FillsConserved
    <3>3. Taken(x) \in Int
      <4>1. IsFiniteSet(Fills(x)) /\ Fills(x) \subseteq StoredQuotes
        BY FillsAreStored
      <4>2. \A p \in Fills(x) : [y \in Fills(x) |-> trades[y].amount][p] \in Int
        BY <4>1 DEF StoredQuotes, IInv, Types, TradeRecs
      <4> QED BY <4>1, <4>2, SumInInt DEF Taken
    <3>4. /\ orders'[x].remaining = orders[x].remaining - (IF t.order = x THEN t.amount ELSE 0)
          /\ orders[x].remaining \in Int /\ t.amount \in Int
      BY <1>3, <1>4, <1>7, <2>2
    <3> QED BY <3>1, <3>2, <3>3, <3>4
  <2> QED BY <2>1, <2>2 DEF FillsOK, FillsConserved
<1>13. now' <= MaxTime /\ refused' \subseteq Orders /\ \A x \in Orders : coins'[x].amount \in 0..Amount
  BY <1>1 DEF BookInv
<1> QED BY <1>7, <1>8, <1>9, <1>10, <1>11, <1>12, <1>13 DEF BookInv

\* The transaction of saveAcceptedTrade fills no more than remains.
LEMMA SaveTradeBalances ==
  ASSUME IInv, BookInv, NEW c \in Callers, SaveTrade(c)
  PROVE  BookInv'
<1>1. PICK k : k = calls[c]
  OBVIOUS
<1>2. k.pc = "save" /\ k \in CallRecs /\ CallOK(k) /\ CallFits(k)
  BY <1>1 DEF SaveTrade, IInv, Types, BookInv, CallsOK
<1>3. k \in [pc : {"save", "allocate"}, quote : Quotes, client : Clients, request : AllRequests,
             order : Orders \cup {None}, at : Int, try : Nat, escrow : Places]
  BY <1>2 DEF CallRecs, NoCall
<1>4. /\ EscrowOK(k.quote, k.client, k.escrow) /\ k.escrow \in Escrows
      /\ k.request \in Requests[k.quote] /\ quotes[k.quote] # NoQuote
  BY <1>2 DEF CallOK, CallFits
<1> DEFINE inserts == NoConflict(k.quote, k.client)
           fills == k.order = None \/ MayFill(k.order, quotes[k.quote].amount, k.at)
<1>5. UNCHANGED <<now, config, refused, quotes, linking, links, allocs, watches, answers, prefundVars>>
  BY DEF SaveTrade
<1>6. CASE inserts /\ fills
  <2>1. /\ trades' = [trades EXCEPT ![k.quote] = TradeOf(k)]
        /\ orders' = IF k.order = None THEN orders ELSE Filled(k.order, quotes[k.quote].amount)
        /\ calls' = [calls EXCEPT ![c] = Watching(k.quote, k.client, k.escrow)]
    BY <1>1, <1>6 DEF SaveTrade
  <2>2. trades[k.quote] = NoTrade
    BY <1>6 DEF NoConflict
  <2>3. k.order # None => Matchable(k.order) /\ quotes[k.quote].amount <= orders[k.order].remaining
    BY <1>6 DEF MayFill
  <2>4. TradeOf(k) = [client |-> k.client, request |-> k.request, order |-> k.order,
                      amount |-> quotes[k.quote].amount, escrow |-> k.escrow]
    BY DEF TradeOf
  <2> QED BY <1>3, <1>4, <1>5, <2>1, <2>2, <2>3, <2>4, TradeBalances
<1>7. CASE ~(inserts /\ fills)
  <2>1. UNCHANGED <<trades, orders>>
    BY <1>1, <1>7 DEF SaveTrade
  <2>2. UNCHANGED <<now, config, bookVars, trades, prefundVars>> /\ PlacesOK'
    BY <1>5, <2>1, PlacesAlone DEF bookVars
  <2>3. CASE calls' = [calls EXCEPT ![c] = NoCall]
    BY <2>2, <2>3, NoCallOK, NoCallFits, CallBalances
  <2>4. CASE calls' = [calls EXCEPT ![c] = Watching(k.quote, k.client, k.escrow)]
    <3>1. PICK w : w = Watching(k.quote, k.client, k.escrow)
      OBVIOUS
    <3>2. w \in [pc : {"watch"}, quote : Quotes, client : Clients, escrow : Places]
      BY <1>3, <3>1 DEF Watching
    <3>3. w \in CallRecs /\ CallFits(w)
      BY <1>4, <3>1, <3>2, WatchingFits DEF CallRecs
    <3> QED BY <2>2, <2>4, <3>1, <3>3, CallBalances
  <2>5. calls' = [calls EXCEPT ![c] = Watching(k.quote, k.client, k.escrow)] \/ calls' = [calls EXCEPT ![c] = NoCall]
    BY <1>1 DEF SaveTrade
  <2> QED BY <2>3, <2>4, <2>5
<1> QED BY <1>6, <1>7

\* The in-memory repository checks what remains and takes it without a break.
LEMMA AcceptInMemoryBalances ==
  ASSUME IInv, BookInv, NEW c \in Callers, NEW q \in Quotes, NEW r \in Clients, NEW request \in Requests[q],
         AcceptInMemory(c, q, r, request)
  PROVE  BookInv'
<1>1. Multisig
  BY OrderBookAssumption DEF AcceptInMemory, Postgres, Multisig, IInv, Types
<1>2. Acceptable(q, request) /\ trades[q] = NoTrade /\ quotes[q] # NoQuote
  BY DEF AcceptInMemory, Acceptable
<1>3. PICK e : e = MultisigEscrow(q, r)
  OBVIOUS
<1>4. e \in Places /\ e \in Escrows /\ EscrowOK(q, r, e)
  BY <1>1, <1>3, MultisigEscrowOK, MultisigEscrowFits
<1>5. links[q] \in Orders \cup {None}
  BY DEF IInv, Types
<1>6. links[q] # None => Matchable(links[q]) /\ quotes[q].amount <= orders[links[q]].remaining
  BY <1>2 DEF Acceptable, Fillable
<1>7. /\ trades' = [trades EXCEPT ![q] =
           [client |-> r, request |-> request, order |-> links[q], amount |-> quotes[q].amount, escrow |-> e]]
      /\ orders' = IF links[q] = None THEN orders ELSE Filled(links[q], quotes[q].amount)
      /\ calls' = [calls EXCEPT ![c] = Watching(q, r, e)]
      /\ UNCHANGED <<now, config, refused, quotes, linking, links, allocs, watches, answers, prefundVars>>
  BY <1>3 DEF AcceptInMemory
<1> QED BY <1>2, <1>4, <1>5, <1>6, <1>7, TradeBalances

\* The clock, a crash, and steps that do nothing.
LEMMA RestBalances ==
  ASSUME IInv, BookInv, UNCHANGED vars \/ Tick \/ Crash
  PROVE  BookInv'
<1>1. UNCHANGED <<config, orders, refused, quotes, trades, allocs, watches, sweeps, sweeping, coins>>
  BY DEF vars, Tick, Crash, bookVars, acceptVars, prefundVars
<1>2. RowsOK' /\ FundsKept /\ RemainingKept /\ QuotesOK' /\ QuotesKept /\ PlacesOK'
  BY <1>1, OrdersAlone, QuotesAlone, PlacesAlone
<1>3. now' <= MaxTime
  BY OrderBookAssumption DEF vars, Tick, Crash, BookInv, IInv, Types
<1>4. refused' \subseteq Orders /\ \A o \in Orders : coins'[o].amount \in 0..Amount
  BY <1>1 DEF BookInv
<1>5. TradesOK' /\ FillsOK' /\ SweepsOK'
  BY <1>1, <1>2, TradesGoOn, FillsGoOn, SweepsGoOn
<1>6. CallsOK'
  <2>1. CASE UNCHANGED calls
    BY <1>2, <2>1, CallsGoOn
  <2>2. CASE Crash
    BY <2>2 DEF Crash, CallsOK, CallFits, NoCall
  <2> QED BY <2>1, <2>2 DEF vars, Tick, acceptVars
<1> QED BY <1>2, <1>3, <1>4, <1>5, <1>6 DEF BookInv

\* In the beginning there is nothing to balance.
LEMMA InitBalances ==
  ASSUME Init
  PROVE  BookInv
<1>1. /\ now = 0 /\ orders = [o \in Orders |-> NoOrder] /\ refused = {}
      /\ quotes = [q \in Quotes |-> NoQuote] /\ trades = [q \in Quotes |-> NoTrade] /\ allocs = {}
      /\ calls = [c \in Callers |-> NoCall] /\ watches = [q \in Quotes |-> NoEscrow]
      /\ sweeps = [q \in Quotes |-> NoSweep] /\ sweeping = [q \in Quotes |-> NoRow]
      /\ coins = [o \in Orders |-> [amount |-> 0, spent |-> None]]
  BY DEF Init
<1>2. now <= MaxTime /\ refused \subseteq Orders /\ \A o \in Orders : coins[o].amount \in 0..Amount
  BY <1>1, OrderBookAssumption
<1>3. RowsOK /\ QuotesOK /\ TradesOK /\ CallsOK
  BY <1>1, NoCallFits DEF RowsOK, QuotesOK, TradesOK, TradeFits, CallsOK
<1>4. PlacesOK /\ SweepsOK
  BY <1>1 DEF PlacesOK, Escrows, SweepsOK
<1>5. FillsOK
  <2>1. StoredQuotes = {}
    BY <1>1 DEF StoredQuotes
  <2> QED BY <1>1, <2>1, FS_EmptySet DEF FillsOK, FillsConserved
<1> QED BY <1>2, <1>3, <1>4, <1>5 DEF BookInv

\* Every action keeps the books balanced.
LEMMA NextBalances ==
  ASSUME IInv, BookInv, [Next]_vars
  PROVE  BookInv'
<1>1. CASE UNCHANGED vars \/ Tick \/ Crash
  BY <1>1, RestBalances
<1>2. CASE Book
  <2>1. ASSUME NEW o \in Orders, NEW offer \in Offers, NEW prefunded \in BOOLEAN,
               CreateOrder(o, offer.terms, offer.proof, prefunded)
        PROVE  BookInv'
    BY <2>1, CreateOrderBalances
  <2>2. Amount \in 1..Amount
    BY OrderBookAssumption
  <2>3. ASSUME NEW q \in Quotes, CreateQuote(q, Amount) PROVE BookInv'
    BY <2>2, <2>3, QuoteBalances
  <2>4. ASSUME NEW q \in Quotes, NEW o \in Orders, NEW amount \in 1..Amount, CreateOrderQuote(q, o, amount)
        PROVE  BookInv'
    BY <2>4, QuoteBalances
  <2>5. ASSUME NEW q \in Quotes, NEW o \in Orders, SaveLink(q, o) PROVE BookInv'
    BY <2>2, <2>5, QuoteBalances
  <2> QED BY <1>2, <2>1, <2>3, <2>4, <2>5 DEF Book
<1>3. CASE Acceptance
  <2>1. ASSUME NEW c \in Callers, NEW q \in Quotes, NEW r \in Clients, NEW request \in Requests[q],
               BeginAccept(c, q, r, request) \/ AcceptInMemory(c, q, r, request)
        PROVE  BookInv'
    BY <2>1, BeginAcceptBalances, AcceptInMemoryBalances
  <2>2. ASSUME NEW c \in Callers, Allocate(c) \/ SaveTrade(c) \/ EnsureWatch(c) \/ WatchFails(c)
        PROVE  BookInv'
    BY <2>2, AllocateBalances, SaveTradeBalances, WatchBalances
  <2> QED BY <1>3, <2>1, <2>2 DEF Acceptance
<1>4. CASE Prefund
  <2>1. ASSUME NEW o \in Orders,
               \/ \E amount \in 1..Amount : DepositPrefund(o, amount)
               \/ \E reachable \in BOOLEAN : ObservePrefund(o, reachable)
               \/ Cutoff(o) \/ RequestRefund(o) \/ MakerRefunds(o) \/ RecordRefunded(o)
        PROVE  BookInv'
    BY <2>1, PrefundLoopsBalance, CoinsBalance
  <2>2. ASSUME NEW q \in Quotes,
               SweepSteps(q)
        PROVE  BookInv'
    BY <2>2, SweepsBalance
  <2> QED BY <1>4, <2>1, <2>2 DEF Prefund, SweepSteps
<1> QED BY <1>1, <1>2, <1>3, <1>4 DEF Next

\* BookInv is an invariant of every behaviour of OrderBook.
LEMMA BookInvHolds == Spec => []BookInv
BY IInvHolds, InitBalances, NextBalances, PTL DEF Spec

\* Rows keep their shape, and the state of a prefund agrees with its book-keeping.
THEOREM TypeOKHolds == Spec => []TypeOK
<1>1. ASSUME IInv, BookInv PROVE TypeOK
  <2>1. now \in 0..MaxTime /\ config \in Configs /\ refused \subseteq Orders /\ linking \subseteq Quotes \X Orders
    BY <1>1, OrderBookAssumption DEF IInv, Types, BookInv
  <2>2. links \in [Quotes -> Orders \cup {None}]
    BY <1>1 DEF IInv, Types
  <2>3. ASSUME NEW o \in Orders, orders[o] # NoOrder
        PROVE  /\ orders[o] \in OrderRows
               /\ orders[o].status = "filled" => orders[o].remaining = 0
               /\ Matchable(o) => orders[o].remaining > 0
               /\ orders[o].prefund = "fully_swept" => orders[o].left = 0
               /\ orders[o].prefund \in Sweepable \cup {"refund_pending", "refunded"} => orders[o].left > 0
               /\ orders[o].prefund = "refunded" => orders[o].status = "cancelled"
               /\ orders[o].prefund = "expired" => orders[o].status = "expired"
               /\ Postgres => orders[o].prefund = None
    BY <1>1, <2>3 DEF BookInv, RowsOK, RowOK, Matchable
  <2>4. ASSUME NEW q \in Quotes PROVE quotes[q].amount \in 0..Amount
    BY <1>1, OrderBookAssumption DEF BookInv, QuotesOK, NoQuote
  <2>5. ASSUME NEW q \in Quotes, trades[q] # NoTrade
        PROVE  /\ trades[q] \in [client : Clients, request : Requests[q], order : Orders \cup {None},
                                 amount : 1..Amount, escrow : Escrows]
               /\ quotes[q].amount = trades[q].amount
    <3>1. trades[q] \in [client : Clients, request : AllRequests, order : Orders \cup {None},
                         amount : Int, escrow : Places]
      BY <1>1, <2>5 DEF IInv, Types, TradeRecs
    <3>2. /\ trades[q].request \in Requests[q] /\ trades[q].escrow \in Escrows
          /\ trades[q].amount = quotes[q].amount /\ trades[q].amount \in 1..Amount
      BY <1>1, <2>5 DEF BookInv, TradesOK, TradeFits, QuotesOK
    <3> QED BY <3>1, <3>2
  <2>6. \A a \in allocs : a.quote \in Quotes /\ a.client \in Clients
    BY <1>1 DEF IInv, Types
  <2>7. \A c \in Callers : calls[c].pc \in {"idle", "allocate", "save", "watch"}
    BY <1>1 DEF IInv, Types, CallRecs, NoCall
  <2>8. \A q \in Quotes : watches[q] \in Escrows /\ sweeps[q] \in SweepRows \cup {NoSweep}
    BY <1>1 DEF BookInv, PlacesOK, SweepsOK
  <2> QED BY <2>1, <2>2, <2>3, <2>4, <2>5, <2>6, <2>7, <2>8 DEF TypeOK
<1> QED BY <1>1, IInvHolds, BookInvHolds, PTL

\* What remains of an order and what its trades have taken add up to its amount.
THEOREM FillsConservedHolds == Spec => []FillsConserved
BY BookInvHolds, PTL DEF BookInv, FillsOK

\* If callers sweep for trades what these have sold, the sweeps of an order take no
\* more than its trades have, which is no more than was deposited before the first.
THEOREM SweptWithinPrefundHolds == Spec => []SweptWithinPrefund
<1>1. ASSUME IInv, BookInv PROVE SweptWithinPrefund
  <2> SUFFICES ASSUME OfTrades, NEW o \in Orders, orders[o] # NoOrder PROVE Swept(o) <= orders[o].funded
    BY DEF SweptWithinPrefund
  <2> USE <1>1
  <2>1. orders[o].funded \in 0..Amount /\ orders[o].remaining \in 0..Amount
    BY RowParts
  <2>2. \A q \in Sweeps(o) :
          /\ q \in Quotes /\ trades[q] # NoTrade /\ trades[q].order = o
          /\ sweeps[q].grains = trades[q].amount /\ orders[o].funded = Amount
    BY DEF Sweeps, NoSweep, BookInv, SweepsOK, SweepFits, MaySweep, Asked
  <2>3. \A q \in Quotes : trades[q] # NoTrade => trades[q].client # None
    BY OrderBookAssumption DEF IInv, Types, TradeRecs
  <2>4. IsFiniteSet(Fills(o)) /\ Fills(o) \subseteq StoredQuotes /\ Sweeps(o) \subseteq Fills(o)
    BY <2>2, <2>3, FillsAreStored DEF Fills
  <2>5. CASE Sweeps(o) = {}
    <3>1. Swept(o) = 0
      BY <2>5, SumOfNone DEF Swept
    <3> QED BY <2>1, <3>1
  <2>6. CASE Sweeps(o) # {}
    <3>1. PICK f, g : f = [q \in Fills(o) |-> trades[q].amount] /\ g = [q \in Sweeps(o) |-> sweeps[q].grains]
      OBVIOUS
    <3>2. Taken(o) = SumFunctionOnSet(f, Fills(o)) /\ Swept(o) = SumFunctionOnSet(g, Sweeps(o))
      BY <3>1 DEF Taken, Swept
    <3>3. \A q \in Fills(o) : f[q] \in Nat
      BY <2>4, <3>1 DEF StoredQuotes, BookInv, TradesOK, TradeFits, QuotesOK
    <3>4. \A q \in Sweeps(o) : g[q] = f[q] /\ orders[o].funded = Amount
      BY <2>2, <2>4, <3>1
    <3>5. IsFiniteSet(Sweeps(o))
      BY <2>4, FS_Subset
    <3>6. SumFunctionOnSet(g, Sweeps(o)) = SumFunctionOnSet(f, Sweeps(o))
      BY <3>4, <3>5, SumOfEqual
    <3>7. SumFunctionOnSet(f, Sweeps(o)) <= SumFunctionOnSet(f, Fills(o))
      BY <2>4, <3>3, SumMonotone
    <3>8. Taken(o) \in Nat /\ orders[o].remaining + Taken(o) = Amount
      BY <2>4, <3>2, <3>3, SumInNat DEF BookInv, FillsOK, FillsConserved
    <3>9. Swept(o) <= Taken(o) /\ orders[o].funded = Amount
      BY <2>6, <3>2, <3>4, <3>6, <3>7
    <3>10. Swept(o) \in Nat
      BY <2>4, <3>2, <3>3, <3>4, <3>5, SumInNat
    <3> QED BY <2>1, <3>8, <3>9, <3>10, OrderBookAssumption
  <2> QED BY <2>5, <2>6
<1> QED BY <1>1, IInvHolds, BookInvHolds, PTL
=============================================================================
