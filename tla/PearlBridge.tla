----------------------------- MODULE PearlBridge -----------------------------
(***************************************************************************)
(* The Igra side of the Pearl bridge (contracts/usdc-escrow/src/           *)
(* PearlBridge.sol and WrappedPearl.sol): relayers mint wPRL for Pearl     *)
(* deposits, holders burn it to request an exit, operators mark the exit   *)
(* processed when the PRL was released on Pearl or give the wPRL back.     *)
(* A failed require, and checked arithmetic that would overflow, reverts:  *)
(* here the action is disabled.  ERC20 and Ownable2Step are modelled from  *)
(* how the contracts use them.                                             *)
(***************************************************************************)
EXTENDS Integers, Functions

CONSTANTS
  Accounts,      \* addresses other than zero
  Zero,          \* address(0)
  InitialOwner,
  Holders,       \* the accounts that hold wPRL
  Deposits,      \* Pearl deposits: the claim ids of their (txid, vout)
  Txids,         \* ids of Pearl release transactions
  Amounts,       \* grains a call may name
  CapsInputs,    \* Caps structs setCaps is called with
  InitialCaps,
  MaxExits,      \* bound on nextExitNonce
  MaxAdminCalls, \* bound on the calls of the owner
  MaxTime        \* bound on block.timestamp

ExitIds == 1..MaxExits    \* an exit id is the hash of its nonce; 0 is bytes32(0)

CapsRows == [minDeposit : Nat, maxDeposit : Nat, minExit : Nat, maxExit : Nat,
             window : Nat, windowCap : Nat, pilotCap : Nat]

\* _validateCaps
ValidCaps(c) ==
  /\ c.minDeposit > 0 /\ c.maxDeposit >= c.minDeposit
  /\ c.minExit > 0 /\ c.maxExit >= c.minExit
  /\ c.pilotCap >= c.maxDeposit /\ c.pilotCap >= c.maxExit
  /\ c.windowCap > 0 =>
       c.window > 0 /\ c.windowCap >= c.minDeposit /\ c.windowCap <= c.pilotCap

ASSUME BridgeAssumption ==
  /\ Zero \notin Accounts /\ InitialOwner \in Accounts /\ Holders \subseteq Accounts
  /\ Amounts \subseteq Nat
  /\ CapsInputs \subseteq CapsRows
  /\ InitialCaps \in CapsRows /\ ValidCaps(InitialCaps)
  /\ MaxExits \in Nat /\ MaxTime \in Nat /\ MaxAdminCalls \in Nat

VARIABLES
  now,                 \* block.timestamp
  owner, pendingOwner,
  relayers, operators,
  caps,
  paused,              \* the subset of {"entry", "exitRequest", "exitProcessing"} that is paused
  windowStart, windowMinted,
  nonce,               \* nextExitNonce
  pendingExit,         \* pendingExitGrains
  claims,              \* claimedDeposits, with the time and amount of each mint
  exits,
  exitOf,              \* releaseTxidToExitId
  supply, balance,     \* totalSupply and balanceOf of wPRL
  adminCalls,          \* calls of the owner so far
  reserve              \* history: PRL deposited and claimed, less PRL released; a deposit counts once

roles   == <<owner, pendingOwner, relayers, operators>>
window  == <<windowStart, windowMinted>>
exitVars == <<nonce, pendingExit, exits, exitOf>>
token   == <<supply, balance>>
vars == <<now, roles, caps, paused, window, exitVars, claims, token, adminCalls, reserve>>

Switches == {"entry", "exitRequest", "exitProcessing"}
NoExit == [requester |-> Zero, amount |-> 0, status |-> "None", txid |-> Zero]

-----------------------------------------------------------------------------
(* WrappedPearl: only the bridge mints and burns *)

Mint(to, amount) ==
  /\ amount > 0
  /\ supply' = supply + amount
  /\ balance' = [balance EXCEPT ![to] = @ + amount]

Burn(from, amount) ==
  /\ amount > 0
  /\ balance[from] >= amount
  /\ supply' = supply - amount
  /\ balance' = [balance EXCEPT ![from] = @ - amount]

Transfer(from, to, amount) ==
  /\ balance[from] >= amount
  /\ balance' = [[balance EXCEPT ![from] = @ - amount] EXCEPT ![to] = @ + amount]
  /\ UNCHANGED <<now, roles, caps, paused, window, exitVars, claims, supply, reserve, adminCalls>>

-----------------------------------------------------------------------------
(* Entry *)

Liabilities_SupplyOnly == supply
Liabilities == supply + pendingExit

\* _consumeMintCapacity: the window starts over with the first mint at or after its end.
WindowLimited == caps.window # 0 /\ caps.windowCap # 0
WindowOver == now >= windowStart + caps.window
MintedInWindow_Forgotten == 0
MintedInWindow == IF WindowOver THEN 0 ELSE windowMinted

ConsumeMintCapacity(amount) ==
  /\ Liabilities + amount <= caps.pilotCap
  /\ IF WindowLimited
     THEN /\ MintedInWindow + amount <= caps.windowCap
          /\ windowStart' = IF WindowOver THEN now ELSE windowStart
          /\ windowMinted' = MintedInWindow + amount
     ELSE UNCHANGED window

Claimed(d) == \E c \in claims : c.deposit = d
Claimable_Replayed(d) == TRUE
Claimable(d) == ~Claimed(d)

ClaimDeposit(relayer, d, recipient, amount) ==
  /\ relayer \in relayers
  /\ "entry" \notin paused
  /\ caps.minDeposit <= amount /\ amount <= caps.maxDeposit
  /\ Claimable(d)
  /\ ConsumeMintCapacity(amount)
  /\ claims' = claims \cup {[deposit |-> d, at |-> now, amount |-> amount]}
  /\ Mint(recipient, amount)
  /\ reserve' = IF Claimed(d) THEN reserve ELSE reserve + amount
  /\ UNCHANGED <<now, roles, caps, paused, exitVars, adminCalls>>

-----------------------------------------------------------------------------
(* Exit *)

NextExit == nonce + 1

RequestExit(holder, amount) ==
  /\ nonce < MaxExits
  /\ "exitRequest" \notin paused
  /\ caps.minExit <= amount /\ amount <= caps.maxExit
  /\ Burn(holder, amount)
  /\ pendingExit' = pendingExit + amount
  /\ nonce' = nonce + 1
  /\ exits' = [exits EXCEPT ![NextExit] =
                 [requester |-> holder, amount |-> amount, status |-> "Requested", txid |-> Zero]]
  /\ UNCHANGED <<now, roles, caps, paused, window, exitOf, claims, reserve, adminCalls>>

PendingWithout(id) == pendingExit - exits[id].amount

\* Both ways to settle an exit; the subtraction is checked.
Settle(id, status, txid) ==
  /\ pendingExit >= exits[id].amount
  /\ exits' = [exits EXCEPT ![id] = [@ EXCEPT !.status = status, !.txid = txid]]
  /\ pendingExit' = PendingWithout(id)

TxidUnused(txid) == exitOf[txid] = 0

\* A second call with the same txid returns without an effect: a stutter.
ProcessExit(operator, id, txid) ==
  /\ operator \in operators
  /\ "exitProcessing" \notin paused
  /\ exits[id].status = "Requested"
  /\ TxidUnused(txid)
  /\ Settle(id, "Processed", txid)
  /\ exitOf' = [exitOf EXCEPT ![txid] = id]
  /\ reserve' = reserve - exits[id].amount
  /\ UNCHANGED <<now, roles, caps, paused, window, nonce, claims, token, adminCalls>>

Refundable(id) == exits[id].status = "Requested"

RefundExit(operator, id) ==
  /\ operator \in operators
  /\ Refundable(id)
  /\ Settle(id, "Refunded", exits[id].txid)
  /\ Mint(exits[id].requester, exits[id].amount)
  /\ UNCHANGED <<now, roles, caps, paused, window, nonce, exitOf, claims, reserve, adminCalls>>

-----------------------------------------------------------------------------
(* Administration *)

SetCaps(c) ==
  /\ ValidCaps(c)
  /\ Liabilities <= c.pilotCap
  /\ caps' = c
  /\ UNCHANGED <<now, roles, paused, window, exitVars, claims, token, reserve>>

SetPaused(switch, value) ==
  /\ paused' = IF value THEN paused \cup {switch} ELSE paused \ {switch}
  /\ UNCHANGED <<now, roles, caps, window, exitVars, claims, token, reserve>>

\* What setRelayer and setOperator ask of an account they enable.
NotOwner(a) == a # owner /\ a # pendingOwner

SetRelayer(a, enabled) ==
  /\ enabled => NotOwner(a) /\ a \notin operators
  /\ relayers' = IF enabled THEN relayers \cup {a} ELSE relayers \ {a}
  /\ UNCHANGED <<now, owner, pendingOwner, operators, caps, paused, window, exitVars,
                 claims, token, reserve>>

SetOperator(a, enabled) ==
  /\ enabled => NotOwner(a) /\ a \notin relayers
  /\ operators' = IF enabled THEN operators \cup {a} ELSE operators \ {a}
  /\ UNCHANGED <<now, owner, pendingOwner, relayers, caps, paused, window, exitVars,
                 claims, token, reserve>>

TransferOwnership(to) ==
  /\ to \notin relayers \cup operators
  /\ pendingOwner' = to
  /\ UNCHANGED <<now, owner, relayers, operators, caps, paused, window, exitVars,
                 claims, token, reserve>>

AcceptOwnership ==
  /\ pendingOwner # Zero
  /\ owner' = pendingOwner
  /\ pendingOwner' = Zero
  /\ UNCHANGED <<now, relayers, operators, caps, paused, window, exitVars,
                 claims, token, reserve>>

Tick ==
  /\ now < MaxTime
  /\ now' = now + 1
  /\ UNCHANGED <<roles, caps, paused, window, exitVars, claims, token, reserve, adminCalls>>

-----------------------------------------------------------------------------
Init ==
  /\ now = 0
  /\ owner = InitialOwner /\ pendingOwner = Zero
  /\ relayers = {} /\ operators = {}
  /\ caps = InitialCaps
  /\ paused = {}
  /\ windowStart = 0 /\ windowMinted = 0
  /\ nonce = 0 /\ pendingExit = 0
  /\ claims = {}
  /\ exits = [id \in ExitIds |-> NoExit]
  /\ exitOf = [t \in Txids |-> 0]
  /\ supply = 0 /\ balance = [a \in Accounts |-> 0]
  /\ adminCalls = 0
  /\ reserve = 0

Entry == \E r \in Accounts, to \in Holders, d \in Deposits, n \in Amounts : ClaimDeposit(r, d, to, n)

Exit ==
  \/ \E a \in Holders, n \in Amounts : RequestExit(a, n)
  \/ \E op \in Accounts, id \in ExitIds, t \in Txids : ProcessExit(op, id, t)
  \/ \E op \in Accounts, id \in ExitIds : RefundExit(op, id)

Administer ==
  \/ \E c \in CapsInputs : SetCaps(c)
  \/ \E s \in Switches, v \in BOOLEAN : SetPaused(s, v)
  \/ \E a \in Accounts, v \in BOOLEAN : SetRelayer(a, v)
  \/ \E a \in Accounts, v \in BOOLEAN : SetOperator(a, v)
  \/ \E to \in Accounts \cup {Zero} : TransferOwnership(to)
  \/ AcceptOwnership

Admin ==
  /\ adminCalls < MaxAdminCalls
  /\ adminCalls' = adminCalls + 1
  /\ Administer

Next ==
  \/ Entry
  \/ Exit
  \/ Admin
  \/ \E from, to \in Holders, n \in Amounts : Transfer(from, to, n)
  \/ Tick

Spec == Init /\ [][Next]_vars

-----------------------------------------------------------------------------
(* Properties *)

ExitRows == [requester : Accounts \cup {Zero}, amount : Nat,
             status : {"None", "Requested", "Processed", "Refunded"},
             txid : Txids \cup {Zero}]

\* Balances and counters never go below zero; ids up to the nonce are exits that were
\* requested, with a requester to give the wPRL back to, and no other is.
TypeOK ==
  /\ now \in Nat
  /\ owner \in Accounts /\ pendingOwner \in Accounts \cup {Zero}
  /\ relayers \subseteq Accounts /\ operators \subseteq Accounts
  /\ caps \in CapsRows /\ ValidCaps(caps)
  /\ paused \subseteq Switches
  /\ windowStart \in Nat /\ windowMinted \in Nat
  /\ nonce \in 0..MaxExits /\ pendingExit \in Nat
  /\ claims \subseteq [deposit : Deposits, at : Nat, amount : Nat]
  /\ exits \in [ExitIds -> ExitRows]
  /\ \A id \in ExitIds : (id > nonce <=> exits[id].status = "None")
  /\ \A id \in ExitIds : exits[id].status # "None" => exits[id].requester \in Accounts
  /\ exitOf \in [Txids -> 0..MaxExits]
  /\ supply \in Int /\ balance \in [Accounts -> Nat]
  /\ adminCalls \in 0..MaxAdminCalls
  /\ reserve \in Int

\* The PRL the reserve must hold covers every wPRL in circulation and every exit
\* not settled yet, through any mix of claims, exits, refunds and releases.
FullyBacked == supply + pendingExit = reserve

\* The pilot cap bounds circulating wPRL and pending exits together: an exit
\* request frees no room that its refund would overdraw, and setCaps never
\* lowers the cap below what is owed.
WithinPilotCap == supply + pendingExit <= caps.pilotCap

\* No key holds two powers: owner, nominated owner, relayers and operators stay
\* apart through every order of nominations, acceptances and role changes.
RolesSeparated ==
  /\ relayers \cap operators = {}
  /\ {owner, pendingOwner} \cap (relayers \cup operators) = {}

\* A Pearl release transaction settles one exit: the two maps mirror each other,
\* so no release is counted for two exits and no exit has two releases.
OneExitPerRelease ==
  \A t \in Txids, id \in ExitIds :
    exitOf[t] = id <=> exits[id].status = "Processed" /\ exits[id].txid = t

\* An exit is either released on Pearl or given back on Igra, once, on the terms
\* it was requested with.
ExitsSettleOnce ==
  [][\A id \in ExitIds :
       /\ exits[id].status # "None" =>
            /\ exits'[id].requester = exits[id].requester
            /\ exits'[id].amount = exits[id].amount
       /\ exits[id].status \in {"Processed", "Refunded"} => exits'[id] = exits[id]]_vars

MintedSince(t) ==
  LET since == {c \in claims : c.at > t}
  IN  SumFunctionOnSet([c \in since |-> c.amount], since)

\* The caps that can come into force.
CapsChoices == {c \in CapsInputs \cup {InitialCaps} : ValidCaps(c)}

\* None of them switches the window off; no window is shorter than w, no cap larger than m.
WindowsWithin(w, m) == \A c \in CapsChoices : c.windowCap > 0 /\ c.window >= w /\ c.windowCap <= m

\* While every caps struct limits its window, the mints within any span of the shortest
\* window never exceed twice the largest cap, also when the owner changes caps inside
\* a window.  The window is fixed, not rolling as docs/product/pearl-igra-bridge.md:73
\* has it: it starts over with the first mint after its end, so two full windows may lie
\* next to each other.
MintRateBounded ==
  \A w \in {c.window : c \in CapsChoices}, m \in {c.windowCap : c \in CapsChoices} :
    WindowsWithin(w, m) => MintedSince(now - w) <= 2 * m
=============================================================================
