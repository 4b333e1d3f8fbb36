------------------------- MODULE PrlUsdcEscrowProofs -------------------------
(***************************************************************************)
(* Proofs about PrlUsdcEscrow for any trades, accounts, amounts and times. *)
(***************************************************************************)
EXTENDS PrlUsdcEscrow, DataInduction, TLAPS

Parties == Accounts \cup {Escrow}
Balances == [Parties -> Nat]

\* A covered transfer between two accounts keeps every balance a natural number
\* (USDC, as PrlUsdcEscrow.sol calls it).
LEMMA TransferType ==
  ASSUME NEW bal \in Balances, NEW from \in Parties, NEW to \in Parties,
         NEW amount \in Nat, bal[from] >= amount
  PROVE  /\ Moved(bal, from, to, amount) \in Balances
         /\ from # to => /\ Moved(bal, from, to, amount)[from] = bal[from] - amount
                         /\ Moved(bal, from, to, amount)[to] = bal[to] + amount
         /\ \A a \in Parties \ {from, to} : Moved(bal, from, to, amount)[a] = bal[a]
<1> DEFINE taken == [bal EXCEPT ![from] = @ - amount]
<1>1. bal[from] - amount \in Nat
  BY DEF Balances
<1>2. taken \in Balances /\ taken[from] = bal[from] - amount
  BY <1>1 DEF Balances
<1>3. \A a \in Parties \ {from} : taken[a] = bal[a]
  BY DEF Balances
<1>4. Moved(bal, from, to, amount) = [taken EXCEPT ![to] = @ + amount]
  BY DEF Moved
<1> HIDE DEF taken
<1>5. taken[to] + amount \in Nat
  BY <1>2 DEF Balances
<1> QED BY <1>2, <1>3, <1>4, <1>5 DEF Balances

\* A new status leaves every row well formed, its terms as they are and the other
\* rows alone (t.status = ... in the functions of PrlUsdcEscrow.sol).
LEMMA StatusType ==
  ASSUME TypeOK, NEW id \in TradeIds, NEW s \in Statuses, trades[id].status # "None",
         SetStatus(id, s)
  PROVE  /\ trades' \in [TradeIds -> TradeRows]
         /\ \A i \in TradeIds :
              trades'[i].status # "None" => {trades'[i].buyer, trades'[i].seller} \subseteq Accounts
         /\ trades'[id] = [trades[id] EXCEPT !.status = s]
         /\ trades'[id].status = s
         /\ \A i \in TradeIds \ {id} : trades'[i] = trades[i]
<1> DEFINE r == [trades[id] EXCEPT !.status = s]
<1>1. trades[id] \in TradeRows
  BY DEF TypeOK
<1>2. /\ r \in TradeRows /\ r.status = s
      /\ r.buyer = trades[id].buyer /\ r.seller = trades[id].seller
  BY <1>1 DEF TradeRows
<1>3. trades' = [trades EXCEPT ![id] = r]
  BY DEF SetStatus
<1>4. {trades[id].buyer, trades[id].seller} \subseteq Accounts
  BY DEF TypeOK
<1> HIDE DEF r
<1>5. trades'[id] = r /\ \A i \in TradeIds \ {id} : trades'[i] = trades[i]
  BY <1>3 DEF TypeOK
<1>6. trades' \in [TradeIds -> TradeRows]
  BY <1>2, <1>3 DEF TypeOK
<1>7. ASSUME NEW i \in TradeIds, trades'[i].status # "None"
      PROVE  {trades'[i].buyer, trades'[i].seller} \subseteq Accounts
  <2>1. CASE i = id
    BY <1>2, <1>4, <1>5, <2>1
  <2>2. CASE i # id
    BY <1>5, <1>7, <2>2 DEF TypeOK
  <2> QED BY <2>1, <2>2
<1> QED BY <1>2, <1>5, <1>6, <1>7 DEF r

\* What a step does to a trade and to the balance of the contract: the terms of a
\* trade stay, a settled trade stays, and only a payout lowers the balance.
Once ==
  /\ \A id \in TradeIds :
       /\ trades[id].status # "None" =>
            trades'[id] = [trades[id] EXCEPT !.status = trades'[id].status]
       /\ trades[id].status \in Settled => trades'[id] = trades[id]
  /\ usdc'[Escrow] < usdc[Escrow] =>
       \E id \in TradeIds : trades[id].status = "Deposited" /\ trades'[id].status \in Settled

\* A status that follows None, Created or Deposited settles nothing twice.
LEMMA StatusOnce ==
  ASSUME TypeOK, NEW id \in TradeIds, NEW s \in Statuses,
         trades[id].status \in {"Created", "Deposited"}, SetStatus(id, s)
  PROVE  \A i \in TradeIds :
           /\ trades[i].status # "None" =>
                trades'[i] = [trades[i] EXCEPT !.status = trades'[i].status]
           /\ trades[i].status \in Settled => trades'[i] = trades[i]
<1>1. /\ trades'[id] = [trades[id] EXCEPT !.status = s] /\ trades'[id].status = s
      /\ \A i \in TradeIds \ {id} : trades'[i] = trades[i]
  BY StatusType
<1>2. trades[id].status \notin Settled
  BY DEF Settled
<1>3. ASSUME NEW i \in TradeIds
      PROVE  trades[i] = [trades[i] EXCEPT !.status = trades[i].status]
  <2>1. trades[i] \in TradeRows
    BY DEF TypeOK
  <2> QED BY <2>1 DEF TradeRows
<1>4. ASSUME NEW i \in TradeIds
      PROVE  /\ trades[i].status # "None" =>
                  trades'[i] = [trades[i] EXCEPT !.status = trades'[i].status]
             /\ trades[i].status \in Settled => trades'[i] = trades[i]
  <2>1. CASE i = id
    BY <1>1, <1>2, <2>1
  <2>2. CASE i # id
    <3>1. trades'[i] = trades[i]
      BY <1>1, <2>2
    <3> QED BY <1>3, <3>1
  <2> QED BY <2>1, <2>2
<1> QED BY <1>4

\* The initial state is well typed (the constructor).
LEMMA InitType == Init => TypeOK
<1> SUFFICES ASSUME Init PROVE TypeOK
  OBVIOUS
<1>1. trades \in [TradeIds -> TradeRows] /\ \A id \in TradeIds : trades[id].status = "None"
  BY DEF Init, NoTrade, TradeRows, Statuses
<1>2. usdc \in [Accounts \cup {Escrow} -> Nat]
  BY EscrowAssumption DEF Init
<1>3. now \in 0..MaxTime /\ owner \in Accounts /\ pendingOwner = Zero
  BY EscrowAssumption DEF Init
<1>4. paused \in BOOLEAN
  BY Zenon DEF Init
<1> QED BY <1>1, <1>2, <1>3, <1>4 DEF TypeOK

\* createTrade stores a row with both parties under an unused id.
LEMMA CreateKeeps ==
  ASSUME TypeOK, NEW id \in TradeIds, NEW buyer \in Buyers, NEW seller \in Sellers,
         NEW amount \in Amounts, NEW fee \in Fees, NEW expiry \in 0..(MaxTime - 1),
         CreateTrade(id, buyer, seller, amount, fee, expiry)
  PROVE  TypeOK' /\ Once
<1> DEFINE r == [buyer |-> buyer, seller |-> seller, amount |-> amount, fee |-> fee,
                 expiry |-> expiry, status |-> "Created"]
<1>1. buyer \in Accounts /\ seller \in Accounts /\ amount \in Nat /\ fee \in Nat /\ expiry \in Nat
  BY EscrowAssumption
<1>2. r \in TradeRows /\ {r.buyer, r.seller} \subseteq Accounts
  BY <1>1 DEF TradeRows, Statuses
<1>3. trades' = [trades EXCEPT ![id] = r] /\ trades[id].status = "None" /\ UNCHANGED <<now, admin, usdc>>
  BY DEF CreateTrade, Unused
<1> HIDE DEF r
<1>4. trades' \in [TradeIds -> TradeRows] /\ trades'[id] = r
      /\ \A i \in TradeIds \ {id} : trades'[i] = trades[i]
  BY <1>2, <1>3 DEF TypeOK
<1>5. TypeOK'
  BY <1>2, <1>3, <1>4 DEF TypeOK, admin
<1>6. \A i \in TradeIds \ {id} : trades[i] = [trades[i] EXCEPT !.status = trades[i].status]
  <2>1. \A i \in TradeIds : trades[i] \in TradeRows
    BY DEF TypeOK
  <2> QED BY <2>1 DEF TradeRows
<1>7. usdc'[Escrow] = usdc[Escrow] /\ usdc[Escrow] \in Nat
  BY <1>3 DEF TypeOK
<1>8. ~(usdc'[Escrow] < usdc[Escrow])
  BY <1>7
<1>9. trades[id].status \notin Settled
  BY <1>3 DEF Settled
<1> QED BY <1>3, <1>4, <1>5, <1>6, <1>8, <1>9 DEF Once

\* deposit moves the total from the buyer into the contract.
LEMMA DepositKeeps ==
  ASSUME TypeOK, NEW id \in TradeIds, Deposit(id)
  PROVE  TypeOK' /\ Once
<1>1. trades[id] \in TradeRows /\ trades[id].status = "Created" /\ trades[id].buyer \in Accounts
  BY DEF TypeOK, Deposit
<1>2. Total(id) \in Nat
  BY <1>1 DEF Total, TradeRows
<1>3. /\ usdc[trades[id].buyer] >= Total(id)
      /\ usdc' = Moved(usdc, trades[id].buyer, Escrow, Total(id))
      /\ SetStatus(id, "Deposited") /\ UNCHANGED <<now, admin>>
  BY DEF Deposit, CanPay
<1>4. usdc \in Balances /\ trades[id].buyer \in Parties /\ Escrow \in Parties
      /\ trades[id].buyer # Escrow
  BY <1>1, EscrowAssumption DEF TypeOK, Balances, Parties
<1>5. usdc' \in Balances /\ usdc'[Escrow] = usdc[Escrow] + Total(id)
  BY <1>2, <1>3, <1>4, TransferType
<1>6. "Deposited" \in Statuses
  BY DEF Statuses
<1>7. TypeOK'
  BY <1>1, <1>3, <1>5, <1>6, StatusType DEF TypeOK, admin, Balances, Parties
<1>8. usdc[Escrow] \in Nat
  BY <1>4 DEF Balances
<1>9. ~(usdc'[Escrow] < usdc[Escrow])
  BY <1>2, <1>5, <1>8
<1> QED BY <1>1, <1>3, <1>6, <1>7, <1>9, StatusOnce DEF Once

\* Paying a deposited trade out, to whom it may be, settles it once.
LEMMA PayoutKeeps ==
  ASSUME TypeOK, NEW id \in TradeIds, trades[id].status = "Deposited",
         NEW s \in {"Released", "Refunded"}, SetStatus(id, s),
         UNCHANGED <<now, admin>>, usdc' \in Balances
  PROVE  TypeOK' /\ Once
<1>1. s \in Statuses /\ s \in Settled /\ trades[id].status \in {"Created", "Deposited"}
  BY DEF Statuses, Settled
<1>2. trades'[id].status = s
  BY <1>1, StatusType
<1>3. TypeOK'
  BY <1>1, StatusType DEF TypeOK, admin, Balances, Parties
<1> QED BY <1>1, <1>2, <1>3, StatusOnce DEF Once

\* release pays the seller and the fee recipient.
LEMMA ReleaseKeeps ==
  ASSUME TypeOK, NEW id \in TradeIds, Release(id)
  PROVE  TypeOK' /\ Once
<1> DEFINE paid == Moved(usdc, Escrow, trades[id].seller, Proceeds(id))
<1>1. /\ trades[id] \in TradeRows /\ trades[id].status = "Deposited"
      /\ trades[id].seller \in Accounts
  BY DEF TypeOK, Release
<1>2. Proceeds(id) \in Nat /\ trades[id].fee \in Nat
  BY <1>1 DEF Proceeds, TradeRows
<1>3. /\ usdc[Escrow] >= Proceeds(id) + trades[id].fee
      /\ usdc' = Moved(paid, Escrow, FeeRecipient, trades[id].fee)
      /\ SetStatus(id, "Released") /\ UNCHANGED <<now, admin>>
  BY DEF Release, CanPay
<1>4. /\ usdc \in Balances /\ usdc[Escrow] \in Nat
      /\ trades[id].seller \in Parties /\ Escrow \in Parties /\ FeeRecipient \in Parties
      /\ trades[id].seller # Escrow
  BY <1>1, EscrowAssumption DEF TypeOK, Balances, Parties
<1>5. usdc[Escrow] >= Proceeds(id) /\ usdc[Escrow] - Proceeds(id) >= trades[id].fee
  BY <1>2, <1>3, <1>4
<1>6. paid \in Balances /\ paid[Escrow] = usdc[Escrow] - Proceeds(id)
  BY <1>2, <1>4, <1>5, TransferType
<1> HIDE DEF paid
<1>7. usdc' \in Balances
  BY <1>2, <1>3, <1>4, <1>5, <1>6, TransferType
<1> QED BY <1>1, <1>3, <1>7, PayoutKeeps

\* refund pays the buyer, whoever called it.
LEMMA RefundKeeps ==
  ASSUME TypeOK, NEW id \in TradeIds, NEW sender, Refund(id, sender)
  PROVE  TypeOK' /\ Once
<1>1. /\ trades[id] \in TradeRows /\ trades[id].status = "Deposited"
      /\ trades[id].buyer \in Accounts
  BY DEF TypeOK, Refund
<1>2. Total(id) \in Nat
  BY <1>1 DEF Total, TradeRows
<1>3. /\ usdc[Escrow] >= Total(id)
      /\ usdc' = Moved(usdc, Escrow, trades[id].buyer, Total(id))
      /\ SetStatus(id, "Refunded") /\ UNCHANGED <<now, admin>>
  BY DEF Refund, CanPay
<1>4. usdc \in Balances /\ trades[id].buyer \in Parties /\ Escrow \in Parties
  BY <1>1 DEF TypeOK, Balances, Parties
<1>5. usdc' \in Balances
  BY <1>2, <1>3, <1>4, TransferType
<1> QED BY <1>1, <1>3, <1>5, PayoutKeeps

\* cancelExpired moves no money.
LEMMA CancelKeeps ==
  ASSUME TypeOK, NEW id \in TradeIds, CancelExpired(id)
  PROVE  TypeOK' /\ Once
<1>1. trades[id].status = "Created" /\ SetStatus(id, "Cancelled") /\ UNCHANGED <<now, admin, usdc>>
  BY DEF CancelExpired, Cancellable
<1>2. "Cancelled" \in Statuses
  BY DEF Statuses
<1>3. TypeOK'
  BY <1>1, <1>2, StatusType DEF TypeOK, admin
<1>4. usdc[Escrow] \in Nat /\ usdc' = usdc
  BY <1>1 DEF TypeOK
<1>5. ~(usdc'[Escrow] < usdc[Escrow])
  BY <1>4
<1> QED BY <1>1, <1>2, <1>3, <1>5, StatusOnce DEF Once

\* Steps that leave trades and balances alone, and keep the rest well typed.
LEMMA FrameKeeps ==
  ASSUME TypeOK, UNCHANGED <<trades, usdc>>,
         now' \in 0..MaxTime, owner' \in Accounts, pendingOwner' \in Accounts \cup {Zero},
         paused' \in BOOLEAN
  PROVE  TypeOK' /\ Once
<1>1. TypeOK'
  BY DEF TypeOK
<1>2. \A i \in TradeIds : trades[i] = [trades[i] EXCEPT !.status = trades[i].status]
  <2>1. \A i \in TradeIds : trades[i] \in TradeRows
    BY DEF TypeOK
  <2> QED BY <2>1 DEF TradeRows
<1>3. usdc[Escrow] \in Nat
  BY DEF TypeOK
<1>4. ~(usdc'[Escrow] < usdc[Escrow])
  BY <1>3
<1> QED BY <1>1, <1>2, <1>4 DEF Once

\* Every step keeps the rows well typed and pays each trade once.
LEMMA StepKeeps == TypeOK /\ [Next]_vars => TypeOK' /\ Once
<1> SUFFICES ASSUME TypeOK, [Next]_vars PROVE TypeOK' /\ Once
  OBVIOUS
<1>1. CASE OwnerCreates
  BY <1>1, CreateKeeps DEF OwnerCreates
<1>2. ASSUME NEW id \in TradeIds, Deposit(id) \/ Release(id) \/ CancelExpired(id)
      PROVE  TypeOK' /\ Once
  BY <1>2, DepositKeeps, ReleaseKeeps, CancelKeeps
<1>3. ASSUME NEW id \in TradeIds, NEW sender \in Accounts, Refund(id, sender)
      PROVE  TypeOK' /\ Once
  BY <1>3, RefundKeeps
<1>4. CASE SetPaused
  BY <1>4, FrameKeeps DEF SetPaused, TypeOK
<1>5. ASSUME NEW to \in Accounts \cup {Zero}, TransferOwnership(to)
      PROVE  TypeOK' /\ Once
  BY <1>5, FrameKeeps DEF TransferOwnership, TypeOK
<1>6. CASE AcceptOwnership
  BY <1>6, FrameKeeps DEF AcceptOwnership, TypeOK
<1>7. CASE Tick
  <2>1. now' \in 0..MaxTime
    BY <1>7, EscrowAssumption DEF Tick, TypeOK
  <2> QED BY <1>7, <2>1, FrameKeeps DEF Tick, TypeOK, admin
<1>8. CASE UNCHANGED vars
  BY <1>8, FrameKeeps DEF vars, admin, TypeOK
<1> QED BY <1>1, <1>2, <1>3, <1>4, <1>5, <1>6, <1>7, <1>8 DEF Next

\* Balances stay natural numbers and every trade that was created has both parties:
\* no transfer of the contract goes below zero or to nobody (PrlUsdcEscrow.sol).
THEOREM TypeOKHolds == Spec => []TypeOK
<1>1. Init => TypeOK
  BY InitType
<1>2. TypeOK /\ [Next]_vars => TypeOK'
  BY StepKeeps
<1> QED BY <1>1, <1>2, PTL DEF Spec

\* The terms of a created trade never change, a settled trade stays settled, and USDC
\* leaves the contract only as a deposited trade is settled (PrlUsdcEscrow.sol).
THEOREM PaysOnceHolds == Spec => PaysOnce
<1>1. TypeOK /\ [Next]_vars => [Once]_vars
  BY StepKeeps
<1>2. Spec => [][Once]_vars
  BY <1>1, TypeOKHolds, PTL DEF Spec
<1>3. Once <=> /\ \A id \in TradeIds :
                    /\ trades[id].status # "None" =>
                         trades'[id] = [trades[id] EXCEPT !.status = trades'[id].status]
                    /\ trades[id].status \in Settled => trades'[id] = trades[id]
               /\ usdc'[Escrow] < usdc[Escrow] =>
                    \E id \in TradeIds : trades[id].status = "Deposited" /\ trades'[id].status \in Settled
  BY DEF Once
<1> QED BY <1>2, <1>3, PTL DEF PaysOnce

-----------------------------------------------------------------------------
(* Solvency.  Only finitely many trades are ever open, so what they are owed *)
(* is a sum over a finite set; a step changes it by at most one summand.     *)

SolventInv == TypeOK /\ IsFiniteSet(Deposited) /\ Solvent

\* What the open trades are owed are natural numbers.
LEMMA OwedType == ASSUME TypeOK PROVE \A id \in TradeIds : Owed[id] = Total(id) /\ Total(id) \in Nat
<1> SUFFICES ASSUME NEW id \in TradeIds PROVE Owed[id] = Total(id) /\ Total(id) \in Nat
  OBVIOUS
<1>1. trades[id] \in TradeRows
  BY DEF TypeOK
<1> QED BY <1>1 DEF TradeRows, Total, Owed

\* Rows whose trades stay open, with their terms, owe what they owed.
LEMMA OwedStays ==
  ASSUME TypeOK, Deposited' = Deposited, IsFiniteSet(Deposited),
         \A id \in Deposited : Total(id)' = Total(id)
  PROVE  SumFunctionOnSet(Owed', Deposited') = SumFunctionOnSet(Owed, Deposited)
<1>1. \A id \in Deposited : Owed'[id] = Owed[id]
  BY DEF Owed, Deposited
<1> QED BY <1>1, SumOfEqual

\* A status change keeps the amounts of every row.
LEMMA StatusKeepsTotals ==
  ASSUME TypeOK, NEW id \in TradeIds, NEW s \in Statuses, trades[id].status # "None",
         SetStatus(id, s)
  PROVE  \A i \in TradeIds : Total(i)' = Total(i)
<1>1. /\ trades'[id] = [trades[id] EXCEPT !.status = s]
      /\ \A i \in TradeIds \ {id} : trades'[i] = trades[i]
  BY StatusType
<1>2. trades[id] \in TradeRows
  BY DEF TypeOK
<1>3. trades'[id].amount = trades[id].amount /\ trades'[id].fee = trades[id].fee
  BY <1>1, <1>2 DEF TradeRows
<1> QED BY <1>1, <1>3 DEF Total

\* deposit adds one summand.
LEMMA DepositOwed ==
  ASSUME TypeOK, IsFiniteSet(Deposited), NEW id \in TradeIds, trades[id].status = "Created",
         SetStatus(id, "Deposited")
  PROVE  /\ IsFiniteSet(Deposited')
         /\ SumFunctionOnSet(Owed', Deposited') = SumFunctionOnSet(Owed, Deposited) + Total(id)
<1>0. "Deposited" \in Statuses
  BY DEF Statuses
<1>1. /\ trades'[id].status = "Deposited"
      /\ \A i \in TradeIds \ {id} : trades'[i] = trades[i]
  BY <1>0, StatusType
<1>2. Deposited' = Deposited \cup {id} /\ id \notin Deposited
  BY <1>1 DEF Deposited
<1>3. IsFiniteSet(Deposited')
  BY <1>2, FS_AddElement
<1>4. \A i \in TradeIds : Owed'[i] = Owed[i] /\ Owed[i] = Total(i) /\ Total(i) \in Nat
  BY <1>0, StatusKeepsTotals, OwedType DEF Owed
<1>5. \A i \in Deposited' : i \in TradeIds /\ Owed'[i] \in Int
  BY <1>4 DEF Deposited
<1>6. SumFunctionOnSet(Owed', Deposited')
        = Owed'[id] + SumFunctionOnSet(Owed', Deposited' \ {id})
  BY <1>2, <1>3, <1>5, SumWithout
<1>7. Deposited' \ {id} = Deposited
  BY <1>2
<1>8. SumFunctionOnSet(Owed', Deposited) = SumFunctionOnSet(Owed, Deposited)
  BY <1>2, <1>4, <1>5, SumOfEqual
<1>9. SumFunctionOnSet(Owed, Deposited) \in Nat
  BY <1>2, <1>4, <1>5, SumInNat
<1> QED BY <1>3, <1>4, <1>6, <1>7, <1>8, <1>9

\* A payout takes one summand away, and was owed no more than the whole.
LEMMA PayoutOwed ==
  ASSUME TypeOK, IsFiniteSet(Deposited), NEW id \in Deposited,
         NEW s \in Statuses \ {"Deposited"}, SetStatus(id, s)
  PROVE  /\ IsFiniteSet(Deposited')
         /\ SumFunctionOnSet(Owed', Deposited') = SumFunctionOnSet(Owed, Deposited) - Total(id)
<1>0. id \in TradeIds /\ s \in Statuses /\ trades[id].status # "None"
  BY DEF Deposited
<1>1. /\ trades'[id].status = s
      /\ \A i \in TradeIds \ {id} : trades'[i] = trades[i]
  BY <1>0, StatusType
<1>2. Deposited' = Deposited \ {id}
  BY <1>0, <1>1 DEF Deposited
<1>3. IsFiniteSet(Deposited')
  BY <1>2, FS_RemoveElement
<1>4. \A i \in TradeIds : Owed'[i] = Owed[i] /\ Owed[i] = Total(i) /\ Total(i) \in Nat
  BY <1>0, StatusKeepsTotals, OwedType DEF Owed
<1>5. \A i \in Deposited : i \in TradeIds /\ Owed[i] \in Int
  BY <1>4 DEF Deposited
<1>6. SumFunctionOnSet(Owed, Deposited) = Owed[id] + SumFunctionOnSet(Owed, Deposited')
  BY <1>2, <1>5, SumWithout
<1>7. SumFunctionOnSet(Owed', Deposited') = SumFunctionOnSet(Owed, Deposited')
  BY <1>2, <1>3, <1>4, <1>5, SumOfEqual
<1>8. SumFunctionOnSet(Owed, Deposited') \in Nat
  BY <1>2, <1>3, <1>4, <1>5, SumInNat
<1> QED BY <1>0, <1>3, <1>4, <1>6, <1>7, <1>8

\* Every step keeps the contract solvent.
LEMMA SolventStep == ASSUME SolventInv, [Next]_vars PROVE SolventInv'
<1> USE DEF SolventInv
<1>0. TypeOK' /\ usdc \in Balances /\ usdc[Escrow] \in Nat /\ Escrow \in Parties
  BY StepKeeps DEF TypeOK, Balances, Parties
<1>1. ASSUME UNCHANGED <<trades, usdc>> PROVE SolventInv'
  <2>1. Deposited' = Deposited /\ \A id \in Deposited : Total(id)' = Total(id)
    BY <1>1 DEF Deposited, Total
  <2> QED BY <1>0, <1>1, <2>1, OwedStays DEF Solvent
<1>2. CASE OwnerCreates
  <2>1. PICK id \in TradeIds : /\ trades[id].status = "None"
                               /\ \E r : r.status = "Created" /\ trades' = [trades EXCEPT ![id] = r]
                               /\ usdc' = usdc
    <3>1. PICK id \in TradeIds, buyer \in Buyers, seller \in Sellers, amount \in Amounts,
               fee \in Fees, expiry \in 0..(MaxTime - 1) :
                 CreateTrade(id, buyer, seller, amount, fee, expiry)
      BY <1>2 DEF OwnerCreates
    <3> DEFINE r == [buyer |-> buyer, seller |-> seller, amount |-> amount, fee |-> fee,
                     expiry |-> expiry, status |-> "Created"]
    <3>2. r.status = "Created" /\ trades' = [trades EXCEPT ![id] = r]
      BY <3>1 DEF CreateTrade
    <3> HIDE DEF r
    <3> QED BY <3>1, <3>2 DEF CreateTrade, Unused
  <2>2. /\ trades'[id].status = "Created"
        /\ \A i \in TradeIds \ {id} : trades'[i] = trades[i]
    BY <2>1 DEF TypeOK
  <2>3. Deposited' = Deposited /\ id \notin Deposited
    BY <2>1, <2>2 DEF Deposited
  <2>4. \A i \in Deposited : Total(i)' = Total(i)
    BY <2>2, <2>3 DEF Total, Deposited
  <2> QED BY <1>0, <2>1, <2>3, <2>4, OwedStays DEF Solvent
<1>3. ASSUME NEW id \in TradeIds, Deposit(id) PROVE SolventInv'
  <2>1. /\ trades[id].status = "Created" /\ SetStatus(id, "Deposited")
        /\ usdc[trades[id].buyer] >= Total(id)
        /\ usdc' = Moved(usdc, trades[id].buyer, Escrow, Total(id))
    BY <1>3 DEF Deposit, CanPay
  <2>2. /\ trades[id].buyer \in Parties /\ trades[id].buyer # Escrow /\ Total(id) \in Nat
    BY <2>1, OwedType, EscrowAssumption DEF TypeOK, Parties
  <2>3. usdc'[Escrow] = usdc[Escrow] + Total(id)
    BY <1>0, <2>1, <2>2, TransferType
  <2> QED BY <1>0, <2>1, <2>3, DepositOwed DEF Solvent
<1>4. ASSUME NEW id \in TradeIds, Release(id) PROVE SolventInv'
  <2> DEFINE paid == Moved(usdc, Escrow, trades[id].seller, Proceeds(id))
  <2>1. /\ id \in Deposited /\ SetStatus(id, "Released")
        /\ usdc[Escrow] >= Proceeds(id) + trades[id].fee
        /\ usdc' = Moved(paid, Escrow, FeeRecipient, trades[id].fee)
    BY <1>4 DEF Release, CanPay, Deposited
  <2>2. /\ trades[id] \in TradeRows
        /\ trades[id].seller \in Parties /\ FeeRecipient \in Parties
        /\ trades[id].seller # Escrow /\ FeeRecipient # Escrow
    BY <2>1, EscrowAssumption DEF TypeOK, Deposited, Parties
  <2>3. Proceeds(id) \in Nat /\ trades[id].fee \in Nat /\ Total(id) = Proceeds(id) + trades[id].fee
    BY <2>2 DEF TradeRows, Proceeds, Total
  <2>4. usdc[Escrow] >= Proceeds(id) /\ usdc[Escrow] - Proceeds(id) >= trades[id].fee
    BY <1>0, <2>1, <2>3
  <2>5. paid \in Balances /\ paid[Escrow] = usdc[Escrow] - Proceeds(id)
    BY <1>0, <2>2, <2>3, <2>4, TransferType
  <2> HIDE DEF paid
  <2>6. usdc'[Escrow] = usdc[Escrow] - Proceeds(id) - trades[id].fee
    BY <1>0, <2>1, <2>2, <2>3, <2>4, <2>5, TransferType
  <2>7. usdc'[Escrow] = usdc[Escrow] - Total(id)
    BY <1>0, <2>3, <2>6
  <2>8. "Released" \in Statuses \ {"Deposited"}
    BY DEF Statuses
  <2> QED BY <1>0, <2>1, <2>7, <2>8, PayoutOwed DEF Solvent
<1>5. ASSUME NEW id \in TradeIds, NEW sender \in Accounts, Refund(id, sender) PROVE SolventInv'
  <2>1. /\ id \in Deposited /\ SetStatus(id, "Refunded")
        /\ usdc[Escrow] >= Total(id)
        /\ usdc' = Moved(usdc, Escrow, trades[id].buyer, Total(id))
    BY <1>5 DEF Refund, CanPay, Deposited
  <2>2. trades[id].buyer \in Parties /\ trades[id].buyer # Escrow /\ Total(id) \in Nat
    BY <2>1, OwedType, EscrowAssumption DEF TypeOK, Deposited, Parties
  <2>3. usdc'[Escrow] = usdc[Escrow] - Total(id)
    BY <1>0, <2>1, <2>2, TransferType
  <2>4. "Refunded" \in Statuses \ {"Deposited"}
    BY DEF Statuses
  <2> QED BY <1>0, <2>1, <2>3, <2>4, PayoutOwed DEF Solvent
<1>6. ASSUME NEW id \in TradeIds, CancelExpired(id) PROVE SolventInv'
  <2>1. trades[id].status = "Created" /\ SetStatus(id, "Cancelled") /\ usdc' = usdc
    BY <1>6 DEF CancelExpired, Cancellable
  <2>2. "Cancelled" \in Statuses
    BY DEF Statuses
  <2>3. /\ trades'[id].status = "Cancelled"
        /\ \A i \in TradeIds \ {id} : trades'[i] = trades[i]
    BY <2>1, <2>2, StatusType
  <2>4. Deposited' = Deposited
    BY <2>1, <2>3 DEF Deposited
  <2>5. \A i \in Deposited : Total(i)' = Total(i)
    BY <2>1, <2>2, StatusKeepsTotals DEF Deposited
  <2> QED BY <1>0, <2>1, <2>4, <2>5, OwedStays DEF Solvent
<1>7. CASE SetPaused \/ AcceptOwnership \/ Tick \/ UNCHANGED vars
           \/ \E to \in Accounts \cup {Zero} : TransferOwnership(to)
  BY <1>1, <1>7 DEF SetPaused, AcceptOwnership, Tick, TransferOwnership, vars
<1> QED BY <1>2, <1>3, <1>4, <1>5, <1>6, <1>7 DEF Next

\* The invariant behind solvency.
LEMMA SolventInvariant == Spec => []SolventInv
<1>1. Init => SolventInv
  <2> SUFFICES ASSUME Init PROVE SolventInv
    OBVIOUS
  <2>1. Deposited = {} /\ usdc[Escrow] = 0
    BY DEF Init, NoTrade, Deposited
  <2> QED BY <2>1, InitType, FS_EmptySet, SumOfNone DEF SolventInv, Solvent
<1>2. SolventInv /\ [Next]_vars => SolventInv'
  BY SolventStep
<1> QED BY <1>1, <1>2, PTL DEF Spec

\* The contract always holds exactly what its open deposits are owed, for any
\* number of trades, whoever is paid and however parties and fee recipient
\* coincide (PrlUsdcEscrow.sol).
THEOREM SolventHolds == Spec => []Solvent
<1>1. SolventInv => Solvent
  BY DEF SolventInv
<1> QED BY <1>1, SolventInvariant, PTL

\* release and refund of an open trade never revert for lack of funds.
PayoutsCovered == \A id \in Deposited : CanPay(Escrow, Total(id)) /\ CanPay(Escrow, Proceeds(id) + trades[id].fee)

\* So no open trade can be stuck because another was paid with its deposit: the
\* balance check of safeTransfer never fails for the contract (PrlUsdcEscrow.sol).
THEOREM PayoutsCoveredHolds == Spec => []PayoutsCovered
<1>1. SolventInv => PayoutsCovered
  <2> SUFFICES ASSUME SolventInv, NEW id \in Deposited
               PROVE  CanPay(Escrow, Total(id)) /\ CanPay(Escrow, Proceeds(id) + trades[id].fee)
    BY DEF PayoutsCovered
  <2>1. \A i \in Deposited : Owed[i] = Total(i) /\ Owed[i] \in Nat
    BY OwedType DEF SolventInv, Deposited
  <2>2. SumFunctionOnSet(Owed, {id}) <= SumFunctionOnSet(Owed, Deposited)
    BY <2>1, SumMonotone DEF SolventInv
  <2>3. SumFunctionOnSet(Owed, {id}) = Total(id)
    <3>1. IsFiniteSet({id}) /\ {id} \ {id} = {}
      BY FS_Singleton
    <3>2. SumFunctionOnSet(Owed, {id}) = Owed[id] + SumFunctionOnSet(Owed, {})
      BY <2>1, <3>1, SumWithout
    <3> QED BY <2>1, <3>2, SumOfNone
  <2>4. usdc[Escrow] >= Total(id)
    BY <2>2, <2>3 DEF SolventInv, Solvent
  <2> QED BY <2>4 DEF CanPay, Total, Proceeds
<1> QED BY <1>1, SolventInvariant, PTL

-----------------------------------------------------------------------------
(* Refinement: each trade is an escrow of its own. *)

\* The statuses as the services name them.
LEMMA ClientNames ==
  /\ ClientStatus["None"] = "none" /\ ClientStatus["Created"] = "created"
  /\ ClientStatus["Deposited"] = "deposited" /\ ClientStatus["Released"] = "released"
  /\ ClientStatus["Refunded"] = "refunded" /\ ClientStatus["Cancelled"] = "cancelled"
BY DEF ClientStatus

\* A function that gives one trade another status is a step of that trade's escrow.
LEMMA StatusMoves ==
  ASSUME TypeOK, NEW i \in TradeIds, NEW s \in Statuses, SetStatus(i, s), now' = now,
         \/ trades[i].status = "Created" /\ s = "Deposited" /\ now <= trades[i].expiry
         \/ trades[i].status = "Created" /\ s = "Cancelled" /\ now > trades[i].expiry
         \/ trades[i].status = "Deposited" /\ s \in {"Released", "Refunded"},
         NEW id \in TradeIds
  PROVE  [Trade(id)!Next]_<<now, trades[id]>>
<1>1. /\ trades'[i] = [trades[i] EXCEPT !.status = s] /\ trades'[i].status = s
      /\ \A j \in TradeIds \ {i} : trades'[j] = trades[j]
  BY StatusType
<1>2. trades[i] \in TradeRows
  BY DEF TypeOK
<1>3. trades'[i].expiry = trades[i].expiry
  BY <1>1, <1>2 DEF TradeRows
<1>4. CASE id # i
  BY <1>1, <1>4
<1>5. CASE id = i
  <2>1. trades'[id].status = s /\ UNCHANGED <<now, trades[id].expiry>>
    BY <1>1, <1>3, <1>5
  <2>2. ClientStatus[trades[id].status]' = ClientStatus[s]
    BY <2>1 DEF ClientStatus
  <2>3. CASE trades[id].status = "Created" /\ s = "Deposited" /\ now <= trades[id].expiry
    BY <2>1, <2>2, <2>3, ClientNames DEF Trade!Next, Trade!Deposit, Trade!Becomes
  <2>4. CASE trades[id].status = "Created" /\ s = "Cancelled" /\ now > trades[id].expiry
    BY <2>1, <2>2, <2>4, ClientNames DEF Trade!Next, Trade!Cancel, Trade!Becomes
  <2>5. CASE trades[id].status = "Deposited" /\ s = "Released"
    BY <2>1, <2>2, <2>5, ClientNames DEF Trade!Next, Trade!Release, Trade!Becomes
  <2>6. CASE trades[id].status = "Deposited" /\ s = "Refunded"
    BY <2>1, <2>2, <2>6, ClientNames DEF Trade!Next, Trade!Refund, Trade!Becomes
  <2> QED BY <1>5, <2>3, <2>4, <2>5, <2>6
<1> QED BY <1>4, <1>5

\* createTrade begins the escrow of an unused id.
LEMMA CreateMoves ==
  ASSUME TypeOK, NEW i \in TradeIds, NEW buyer \in Buyers, NEW seller \in Sellers,
         NEW amount \in Amounts, NEW fee \in Fees, NEW expiry \in 0..(MaxTime - 1),
         CreateTrade(i, buyer, seller, amount, fee, expiry), NEW id \in TradeIds
  PROVE  [Trade(id)!Next]_<<now, trades[id]>>
<1>1. PICK r : r = [buyer |-> buyer, seller |-> seller, amount |-> amount, fee |-> fee,
                    expiry |-> expiry, status |-> "Created"]
  OBVIOUS
<1>2. trades' = [trades EXCEPT ![i] = r] /\ trades[i].status = "None" /\ now' = now /\ expiry > now
  BY <1>1 DEF CreateTrade, Unused
<1>3. trades'[i] = r /\ \A j \in TradeIds \ {i} : trades'[j] = trades[j]
  BY <1>2 DEF TypeOK
<1>4. r.status = "Created" /\ r.expiry = expiry /\ expiry \in Nat
  BY <1>1, EscrowAssumption
<1>5. CASE id # i
  BY <1>2, <1>3, <1>5
<1>6. CASE id = i
  <2>1. Trade(id)!Create
    BY <1>2, <1>3, <1>4, <1>6, ClientNames DEF Trade!Create
  <2> QED BY <2>1 DEF Trade!Next
<1> QED BY <1>5, <1>6

LEMMA StepMoves ==
  ASSUME TypeOK, [Next]_vars, NEW id \in TradeIds
  PROVE  [Trade(id)!Next]_<<now, trades[id]>>
<1>1. CASE OwnerCreates
  BY <1>1, CreateMoves DEF OwnerCreates
<1>2. ASSUME NEW i \in TradeIds, Deposit(i) PROVE [Trade(id)!Next]_<<now, trades[id]>>
  BY <1>2, StatusMoves DEF Deposit, Statuses
<1>3. ASSUME NEW i \in TradeIds, Release(i) PROVE [Trade(id)!Next]_<<now, trades[id]>>
  BY <1>3, StatusMoves DEF Release, Statuses
<1>4. ASSUME NEW i \in TradeIds, CancelExpired(i) PROVE [Trade(id)!Next]_<<now, trades[id]>>
  BY <1>4, StatusMoves DEF CancelExpired, Cancellable, Statuses
<1>5. ASSUME NEW i \in TradeIds, NEW sender \in Accounts, Refund(i, sender)
      PROVE  [Trade(id)!Next]_<<now, trades[id]>>
  BY <1>5, StatusMoves DEF Refund, Statuses
<1>6. CASE Tick
  BY <1>6 DEF Tick, Trade!Next, Trade!Tick
<1>7. CASE SetPaused \/ AcceptOwnership \/ (\E to \in Accounts \cup {Zero} : TransferOwnership(to)) \/ UNCHANGED vars
  BY <1>7 DEF SetPaused, AcceptOwnership, TransferOwnership, vars
<1> QED BY <1>1, <1>2, <1>3, <1>4, <1>5, <1>6, <1>7 DEF Next

\* The property: every step of the contract is, for each of its trades, a step of that
\* trade's own escrow or nothing (PrlUsdcEscrow.sol against usdc-escrow-reader.ts).
THEOREM EachTradeIsAnEscrowHolds == Spec => EachTradeIsAnEscrow
<1>1. Init => \A id \in TradeIds : Trade(id)!Init
  <2> SUFFICES ASSUME Init, NEW id \in TradeIds PROVE Trade(id)!Init
    OBVIOUS
  <2>1. now = 0 /\ trades[id] = NoTrade
    BY DEF Init
  <2>2. trades[id].expiry = 0 /\ trades[id].status = "None"
    BY <2>1 DEF NoTrade
  <2> QED BY <2>1, <2>2, ClientNames DEF Trade!Init
<1>2. TypeOK /\ [Next]_vars => [\A id \in TradeIds : [Trade(id)!Next]_<<now, trades[id]>>]_vars
  BY StepMoves
<1> QED BY <1>1, <1>2, TypeOKHolds, PTL DEF Spec, EachTradeIsAnEscrow
=============================================================================
