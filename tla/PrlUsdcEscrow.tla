---------------------------- MODULE PrlUsdcEscrow ----------------------------
(***************************************************************************)
(* The Base leg of a trade (contracts/usdc-escrow/src/PrlUsdcEscrow.sol):  *)
(* a contract that holds the buyer's USDC under a trade id until its owner *)
(* releases it to the seller or it goes back to the buyer.  Every external *)
(* function is one action: a require that fails reverts the transaction.   *)
(* Ownable2Step, Pausable and the USDC token are modelled from their use.  *)
(***************************************************************************)
EXTENDS Integers, Functions

CONSTANTS
  TradeIds,
  Accounts,       \* addresses, the contract's own and the zero address left out
  Escrow,         \* the address of the contract
  Zero,           \* address(0)
  Deployer,       \* msg.sender of the constructor
  FeeRecipient,
  Buyers, Sellers,\* accounts named as parties of a trade
  Amounts, Fees,  \* amounts and fees a trade is created with
  Funds,          \* USDC each account starts with
  MaxTime         \* bound on block.timestamp; every expiry lies below it

ASSUME EscrowAssumption ==
  /\ Zero \notin Accounts /\ Escrow \notin Accounts /\ Zero # Escrow
  /\ Deployer \in Accounts /\ FeeRecipient \in Accounts
  /\ Buyers \subseteq Accounts /\ Sellers \subseteq Accounts
  /\ Amounts \subseteq Nat /\ Fees \subseteq Nat
  /\ Funds \in [Accounts -> Nat]
  /\ MaxTime \in Nat

VARIABLES
  now,           \* block.timestamp
  owner, pendingOwner,
  paused,
  trades,
  usdc           \* balanceOf

vars == <<now, owner, pendingOwner, paused, trades, usdc>>
admin == <<owner, pendingOwner, paused>>

NoTrade == [buyer |-> Zero, seller |-> Zero, amount |-> 0, fee |-> 0,
            expiry |-> 0, status |-> "None"]

Total(id) == trades[id].amount + trades[id].fee

\* safeTransfer and safeTransferFrom: a transfer without the funds reverts.
CanPay(from, amount) == usdc[from] >= amount
Moved(bal, from, to, amount) ==
  LET taken == [bal EXCEPT ![from] = @ - amount]
  IN  [taken EXCEPT ![to] = @ + amount]

SetStatus(id, s) == trades' = [trades EXCEPT ![id] = [@ EXCEPT !.status = s]]

-----------------------------------------------------------------------------
Unused_Closed(id) == trades[id].status \notin {"Created", "Deposited"}
Unused(id) == trades[id].status = "None"

CreateTrade(id, buyer, seller, amount, fee, expiry) ==
  /\ ~paused
  /\ Unused(id)
  /\ amount > 0
  /\ expiry > now
  /\ trades' = [trades EXCEPT ![id] =
       [buyer |-> buyer, seller |-> seller, amount |-> amount, fee |-> fee,
        expiry |-> expiry, status |-> "Created"]]
  /\ UNCHANGED <<now, admin, usdc>>

Deposit(id) ==
  /\ ~paused
  /\ trades[id].status = "Created"
  /\ now <= trades[id].expiry
  /\ CanPay(trades[id].buyer, Total(id))
  /\ usdc' = Moved(usdc, trades[id].buyer, Escrow, Total(id))
  /\ SetStatus(id, "Deposited")
  /\ UNCHANGED <<now, admin>>

Proceeds_FeeIncluded(id) == Total(id)
Proceeds(id) == trades[id].amount

Release(id) ==
  /\ ~paused
  /\ trades[id].status = "Deposited"
  /\ CanPay(Escrow, Proceeds(id) + trades[id].fee)
  /\ LET paid == Moved(usdc, Escrow, trades[id].seller, Proceeds(id))
     IN  usdc' = Moved(paid, Escrow, FeeRecipient, trades[id].fee)
  /\ SetStatus(id, "Released")
  /\ UNCHANGED <<now, admin>>

\* refund is not whenNotPaused: the owner at any time, the buyer after expiry.
MayRefund_WhenNotPaused(id, sender) ==
  ~paused /\ (sender = owner \/ (sender = trades[id].buyer /\ now > trades[id].expiry))
MayRefund(id, sender) ==
  sender = owner \/ (sender = trades[id].buyer /\ now > trades[id].expiry)

Refund(id, sender) ==
  /\ trades[id].status = "Deposited"
  /\ MayRefund(id, sender)
  /\ CanPay(Escrow, Total(id))
  /\ usdc' = Moved(usdc, Escrow, trades[id].buyer, Total(id))
  /\ SetStatus(id, "Refunded")
  /\ UNCHANGED <<now, admin>>

Cancellable(id) == trades[id].status = "Created" /\ now > trades[id].expiry

CancelExpired(id) ==
  /\ Cancellable(id)
  /\ SetStatus(id, "Cancelled")
  /\ UNCHANGED <<now, admin, usdc>>

SetPaused ==
  /\ paused' = ~paused
  /\ UNCHANGED <<now, owner, pendingOwner, trades, usdc>>

TransferOwnership(to) ==
  /\ pendingOwner' = to
  /\ UNCHANGED <<now, owner, paused, trades, usdc>>

AcceptOwnership ==
  /\ pendingOwner # Zero
  /\ owner' = pendingOwner
  /\ pendingOwner' = Zero
  /\ UNCHANGED <<now, paused, trades, usdc>>

Tick ==
  /\ now < MaxTime
  /\ now' = now + 1
  /\ UNCHANGED <<admin, trades, usdc>>

-----------------------------------------------------------------------------
Init ==
  /\ now = 0
  /\ owner = Deployer /\ pendingOwner = Zero
  /\ paused = FALSE
  /\ trades = [id \in TradeIds |-> NoTrade]
  /\ usdc = [a \in Accounts \cup {Escrow} |-> IF a = Escrow THEN 0 ELSE Funds[a]]

OwnerCreates ==
  \E id \in TradeIds, buyer \in Buyers, seller \in Sellers, amount \in Amounts,
     fee \in Fees, expiry \in 0..(MaxTime - 1) :
    CreateTrade(id, buyer, seller, amount, fee, expiry)

BuyerRefunds(id) == Refund(id, trades[id].buyer)

Next ==
  \/ OwnerCreates
  \/ \E id \in TradeIds : Deposit(id) \/ Release(id) \/ CancelExpired(id)
  \/ \E id \in TradeIds, sender \in Accounts : Refund(id, sender)
  \/ SetPaused
  \/ \E to \in Accounts \cup {Zero} : TransferOwnership(to)
  \/ AcceptOwnership
  \/ Tick

Spec == Init /\ [][Next]_vars

\* Blocks keep coming, and a buyer whose trade expired calls refund.
FairSpec == Spec /\ WF_vars(Tick) /\ \A id \in TradeIds : WF_vars(BuyerRefunds(id))

-----------------------------------------------------------------------------
(* Properties *)

Statuses == {"None", "Created", "Deposited", "Released", "Refunded", "Cancelled"}
TradeRows == [buyer : Accounts \cup {Zero}, seller : Accounts \cup {Zero},
              amount : Nat, fee : Nat, expiry : Nat, status : Statuses]

\* Balances never go below zero, and only a trade that was never created lacks
\* its parties: every payout of the contract has a recipient.
TypeOK ==
  /\ now \in 0..MaxTime
  /\ owner \in Accounts /\ pendingOwner \in Accounts \cup {Zero}
  /\ paused \in BOOLEAN
  /\ trades \in [TradeIds -> TradeRows]
  /\ \A id \in TradeIds :
       trades[id].status # "None" => {trades[id].buyer, trades[id].seller} \subseteq Accounts
  /\ usdc \in [Accounts \cup {Escrow} -> Nat]

\* The contract holds exactly what the deposited trades are owed: no release or
\* refund of one trade is ever paid out of the deposit of another.
Deposited == {id \in TradeIds : trades[id].status = "Deposited"}
Owed == [id \in TradeIds |-> Total(id)]
Solvent == usdc[Escrow] = SumFunctionOnSet(Owed, Deposited)

Settled == {"Released", "Refunded", "Cancelled"}

\* A trade id is used once: its terms never change once created, a settled trade
\* stays settled, and USDC leaves the contract only as some trade leaves Deposited.
PaysOnce ==
  [][/\ \A id \in TradeIds :
          /\ trades[id].status # "None" =>
               trades'[id] = [trades[id] EXCEPT !.status = trades'[id].status]
          /\ trades[id].status \in Settled => trades'[id] = trades[id]
     /\ usdc'[Escrow] < usdc[Escrow] =>
          \E id \in TradeIds : trades[id].status = "Deposited" /\ trades'[id].status \in Settled]_vars

\* STATUS_BY_INDEX
ClientStatus ==
  [None |-> "none", Created |-> "created", Deposited |-> "deposited", Released |-> "released",
   Refunded |-> "refunded", Cancelled |-> "cancelled"]

Trade(id) == INSTANCE BaseEscrow WITH expiry <- trades[id].expiry, status <- ClientStatus[trades[id].status]

\* What the services read of a trade is what an escrow of its own would show: whatever
\* happens to the others, to the owner or the pause, the terms it is asked for under its
\* id stay, USDC comes by the expiry or never, and leaves once.
EachTradeIsAnEscrow ==
  /\ \A id \in TradeIds : Trade(id)!Init
  /\ [][\A id \in TradeIds : [Trade(id)!Next]_<<now, trades[id]>>]_vars

\* Pausing, a rotated key or an owner who does nothing cannot lock a deposit in:
\* every deposited trade is eventually paid out to its seller or its buyer.
DepositIsNeverLocked ==
  \A id \in TradeIds :
    trades[id].status = "Deposited" ~> trades[id].status \in {"Released", "Refunded"}
=============================================================================
