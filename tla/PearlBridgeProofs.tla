-------------------------- MODULE PearlBridgeProofs --------------------------
(***************************************************************************)
(* Proofs about PearlBridge for any accounts, deposits, caps and bounds.   *)
(***************************************************************************)
EXTENDS PearlBridge, DataInduction, TLAPS

\* The part of the state the exit actions change.
ExitType ==
  /\ nonce \in 0..MaxExits /\ pendingExit \in Nat
  /\ exits \in [ExitIds -> ExitRows]
  /\ \A id \in ExitIds : (id > nonce <=> exits[id].status = "None")
  /\ \A id \in ExitIds : exits[id].status # "None" => exits[id].requester \in Accounts
  /\ exitOf \in [Txids -> 0..MaxExits]

\* A withdrawal request keeps the functions of the exits well typed.
LEMMA RequestType ==
  ASSUME TypeOK, NEW a \in Holders, NEW n \in Amounts, RequestExit(a, n)
  PROVE  ExitType'
<1> DEFINE r == [requester |-> a, amount |-> n, status |-> "Requested", txid |-> Zero]
<1>1. n \in Nat /\ a \in Accounts /\ MaxExits \in Nat
  BY BridgeAssumption
<1>2. nonce + 1 \in ExitIds /\ nonce' = nonce + 1 /\ pendingExit' = pendingExit + n
  BY <1>1 DEF RequestExit, TypeOK, ExitIds
<1>3. exits' = [exits EXCEPT ![nonce + 1] = r] /\ exitOf' = exitOf
  BY DEF RequestExit, NextExit
<1>4. r \in ExitRows /\ r.status = "Requested" /\ r.requester = a
  BY <1>1 DEF ExitRows
<1> HIDE DEF r
<1>5. exits' \in [ExitIds -> ExitRows] /\ exitOf' \in [Txids -> 0..MaxExits]
  BY <1>2, <1>3, <1>4 DEF TypeOK
<1>6. nonce' \in 0..MaxExits /\ pendingExit' \in Nat
  BY <1>1, <1>2 DEF TypeOK, ExitIds
<1>7. ASSUME NEW id \in ExitIds
      PROVE  /\ id > nonce' <=> exits'[id].status = "None"
             /\ exits'[id].status # "None" => exits'[id].requester \in Accounts
  <2>1. CASE id = nonce + 1
    BY <1>1, <1>2, <1>3, <1>4, <2>1 DEF TypeOK, ExitIds
  <2>2. CASE id # nonce + 1
    <3>1. exits'[id] = exits[id]
      BY <1>3, <2>2 DEF TypeOK
    <3>2. id \in Int /\ nonce \in Int
      BY DEF ExitIds, TypeOK
    <3> QED BY <1>2, <2>2, <3>1, <3>2 DEF TypeOK
  <2> QED BY <2>1, <2>2
<1> QED BY <1>5, <1>6, <1>7 DEF ExitType

\* Settling an exit changes its status only.
LEMMA SettleType ==
  ASSUME TypeOK, NEW id \in ExitIds, NEW s \in {"Processed", "Refunded"},
         NEW t \in Txids \cup {Zero}, exits[id].status = "Requested",
         Settle(id, s, t), nonce' = nonce, exitOf' \in [Txids -> 0..MaxExits]
  PROVE  /\ ExitType'
         /\ exits'[id].status = s /\ exits'[id].txid = t
         /\ exits'[id].requester = exits[id].requester
         /\ exits'[id].amount = exits[id].amount
         /\ exits[id].amount \in Nat
         /\ pendingExit' = pendingExit - exits[id].amount
         /\ \A j \in ExitIds : j # id => exits'[j] = exits[j]
<1> DEFINE r == [exits[id] EXCEPT !.status = s, !.txid = t]
<1>1. exits[id] \in ExitRows
  BY DEF TypeOK
<1>2. exits' = [exits EXCEPT ![id] = r]
  BY DEF Settle
<1>3. /\ r \in ExitRows /\ r.status = s /\ r.txid = t
      /\ r.requester = exits[id].requester /\ r.amount = exits[id].amount
      /\ exits[id].amount \in Nat
  BY <1>1 DEF ExitRows
<1>4. pendingExit' = pendingExit - exits[id].amount /\ pendingExit' \in Nat
  BY <1>3 DEF Settle, PendingWithout, TypeOK
<1> HIDE DEF r
<1>5. exits'[id] = r /\ \A j \in ExitIds : j # id => exits'[j] = exits[j]
  BY <1>2 DEF TypeOK
<1>6. exits' \in [ExitIds -> ExitRows]
  BY <1>2, <1>3 DEF TypeOK
<1>7. \A j \in ExitIds : /\ j > nonce' <=> exits'[j].status = "None"
                         /\ exits'[j].status # "None" => exits'[j].requester \in Accounts
  BY <1>3, <1>5 DEF TypeOK
<1> QED BY <1>3, <1>4, <1>5, <1>6, <1>7 DEF ExitType, TypeOK

\* The part of the state only a mint or a burn changes.
TokenType == supply \in Int /\ balance \in [Accounts -> Nat]

\* Minting keeps balances natural numbers.
LEMMA MintType ==
  ASSUME TypeOK, NEW a \in Accounts, NEW n \in Nat, Mint(a, n)
  PROVE  TokenType' /\ supply' = supply + n
BY DEF TypeOK, Mint, TokenType

\* Burning no more than the balance keeps it a natural number.
LEMMA BurnType ==
  ASSUME TypeOK, NEW a \in Accounts, NEW n \in Nat, Burn(a, n)
  PROVE  TokenType' /\ supply' = supply - n
BY DEF TypeOK, Burn, TokenType

\* Everything else.
RestType ==
  /\ now \in Nat
  /\ owner \in Accounts /\ pendingOwner \in Accounts \cup {Zero}
  /\ relayers \subseteq Accounts /\ operators \subseteq Accounts
  /\ caps \in CapsRows /\ ValidCaps(caps)
  /\ paused \subseteq Switches
  /\ windowStart \in Nat /\ windowMinted \in Nat
  /\ claims \subseteq [deposit : Deposits, at : Nat, amount : Nat]
  /\ adminCalls \in 0..MaxAdminCalls
  /\ reserve \in Int

\* TypeOK is the conjunction of its groups of variables.
LEMMA Parts ==
  /\ TypeOK <=> ExitType /\ TokenType /\ RestType
  /\ TypeOK' <=> ExitType' /\ TokenType' /\ RestType'
BY DEF TypeOK, ExitType, TokenType, RestType

\* An exit action moves wPRL and pending grains by x and y, never upwards together.
BooksMove(x, y) ==
  /\ supply' = supply + x
  /\ pendingExit' = pendingExit + y
  /\ reserve' = reserve + (x + y)
  /\ x + y <= 0

\* What an exit action does to the books.
LEMMA ExitStep ==
  ASSUME TypeOK, Exit
  PROVE  /\ TypeOK'
         /\ \E x, y \in Int : BooksMove(x, y)
         /\ UNCHANGED <<roles, caps>>
<1> USE DEF roles, window, token, exitVars
<1>0. RestType /\ ExitType /\ TokenType
  BY Parts
<1>1. ASSUME NEW a \in Holders, NEW n \in Amounts, RequestExit(a, n)
      PROVE  /\ TypeOK'
             /\ \E x, y \in Int : BooksMove(x, y)
             /\ UNCHANGED <<roles, caps>>
  <2>1. a \in Accounts /\ n \in Nat
    BY BridgeAssumption
  <2>2. TokenType' /\ supply' = supply - n
    BY <1>1, <2>1, BurnType DEF RequestExit
  <2>3. ExitType' /\ pendingExit' = pendingExit + n /\ UNCHANGED <<roles, caps, reserve>>
    BY <1>1, RequestType DEF RequestExit
  <2>4. RestType'
    BY <1>0, <1>1 DEF RequestExit, RestType
  <2>5. -n \in Int /\ BooksMove(-n, n)
    BY <1>0, <2>1, <2>2, <2>3 DEF BooksMove, TokenType, ExitType, RestType
  <2> QED BY <2>1, <2>2, <2>3, <2>4, <2>5, Parts
<1>2. ASSUME NEW op \in Accounts, NEW id \in ExitIds, NEW t \in Txids, ProcessExit(op, id, t)
      PROVE  /\ TypeOK'
             /\ \E x, y \in Int : BooksMove(x, y)
             /\ UNCHANGED <<roles, caps>>
  <2>1. exitOf' \in [Txids -> 0..MaxExits]
    BY <1>0, <1>2 DEF ProcessExit, ExitType, ExitIds
  <2>2. ExitType' /\ exits[id].amount \in Nat /\ pendingExit' = pendingExit - exits[id].amount
    BY <1>2, <2>1, SettleType DEF ProcessExit
  <2>3. UNCHANGED <<roles, caps, supply, balance>> /\ reserve' = reserve - exits[id].amount
    BY <1>2 DEF ProcessExit
  <2>4. TokenType' /\ RestType'
    BY <1>0, <1>2, <2>2, <2>3 DEF ProcessExit, RestType, TokenType
  <2>5. -exits[id].amount \in Int /\ BooksMove(0, -exits[id].amount)
    BY <1>0, <2>2, <2>3 DEF BooksMove, TokenType, ExitType, RestType
  <2> QED BY <2>2, <2>3, <2>4, <2>5, Parts
<1>3. ASSUME NEW op \in Accounts, NEW id \in ExitIds, RefundExit(op, id)
      PROVE  /\ TypeOK'
             /\ \E x, y \in Int : BooksMove(x, y)
             /\ UNCHANGED <<roles, caps>>
  <2>1. exitOf' = exitOf /\ exits[id].txid \in Txids \cup {Zero} /\ exits[id].status = "Requested"
    BY <1>0, <1>3 DEF RefundExit, Refundable, ExitType, ExitRows
  <2>2. ExitType' /\ exits[id].amount \in Nat /\ pendingExit' = pendingExit - exits[id].amount
    BY <1>0, <1>3, <2>1, SettleType DEF RefundExit, ExitType
  <2>3. UNCHANGED <<roles, caps, reserve>> /\ exits[id].requester \in Accounts
    BY <1>0, <1>3, <2>1 DEF RefundExit, ExitType
  <2>4. TokenType' /\ supply' = supply + exits[id].amount
    BY <1>3, <2>2, <2>3, MintType DEF RefundExit
  <2>5. RestType'
    BY <1>0, <1>3 DEF RefundExit, RestType
  <2>6. -exits[id].amount \in Int /\ BooksMove(exits[id].amount, -exits[id].amount)
    BY <1>0, <2>2, <2>3, <2>4 DEF BooksMove, TokenType, ExitType, RestType
  <2> QED BY <2>2, <2>3, <2>4, <2>5, <2>6, Parts
<1> QED BY <1>1, <1>2, <1>3 DEF Exit

\* What a claim does to the books.
LEMMA EntryStep ==
  ASSUME TypeOK, NEW r \in Accounts, NEW d \in Deposits, NEW a \in Holders, NEW n \in Amounts,
         ClaimDeposit(r, d, a, n)
  PROVE  /\ TypeOK'
         /\ supply' = supply + n /\ reserve' = reserve + n /\ n \in Nat
         /\ pendingExit' = pendingExit
         /\ supply + pendingExit + n <= caps.pilotCap
         /\ UNCHANGED <<roles, caps, exitVars>>
<1> USE DEF roles, window, exitVars
<1>0. RestType /\ ExitType /\ TokenType
  BY Parts
<1>1. n \in Nat /\ a \in Accounts
  BY BridgeAssumption
<1>2. TokenType' /\ supply' = supply + n
  BY <1>1, MintType DEF ClaimDeposit
<1>3. UNCHANGED <<now, roles, caps, paused, exitVars, adminCalls>> /\ reserve' = reserve + n
  BY DEF ClaimDeposit, Claimable
<1>4. windowStart' \in Nat /\ windowMinted' \in Nat /\ supply + pendingExit + n <= caps.pilotCap
  BY <1>0, <1>1 DEF ClaimDeposit, ConsumeMintCapacity, MintedInWindow, Liabilities, RestType
<1>5. claims' \subseteq [deposit : Deposits, at : Nat, amount : Nat]
  BY <1>0, <1>1 DEF ClaimDeposit, RestType
<1>6. RestType'
  BY <1>0, <1>1, <1>3, <1>4, <1>5 DEF RestType
<1>7. ExitType'
  BY <1>0, <1>3 DEF ExitType
<1> QED BY <1>1, <1>2, <1>3, <1>4, <1>6, <1>7, Parts

\* What the owner's calls leave alone.
LEMMA AdminStep ==
  ASSUME TypeOK, Admin
  PROVE  TypeOK' /\ UNCHANGED <<token, exitVars, reserve>>
<1> USE DEF window
<1>0. RestType /\ ExitType /\ TokenType /\ MaxAdminCalls \in Nat
  BY Parts, BridgeAssumption
<1>1. UNCHANGED <<token, exitVars, reserve>>
  BY DEF Admin, Administer, SetCaps, SetPaused, SetRelayer, SetOperator, TransferOwnership, AcceptOwnership
<1>2. adminCalls' \in 0..MaxAdminCalls
  BY <1>0 DEF Admin, RestType
<1>3. RestType'
  <2> USE <1>0, <1>1, <1>2 DEF RestType, roles
  <2>1. ASSUME NEW c \in CapsInputs, SetCaps(c) PROVE RestType'
    BY <2>1, BridgeAssumption DEF SetCaps, ValidCaps
  <2>2. ASSUME NEW s \in Switches, NEW v \in BOOLEAN, SetPaused(s, v) PROVE RestType'
    BY <2>2 DEF SetPaused, ValidCaps
  <2>3. ASSUME NEW a \in Accounts, NEW v \in BOOLEAN, SetRelayer(a, v) PROVE RestType'
    BY <2>3 DEF SetRelayer, ValidCaps
  <2>4. ASSUME NEW a \in Accounts, NEW v \in BOOLEAN, SetOperator(a, v) PROVE RestType'
    BY <2>4 DEF SetOperator, ValidCaps
  <2>5. ASSUME NEW a \in Accounts \cup {Zero}, TransferOwnership(a) PROVE RestType'
    BY <2>5 DEF TransferOwnership, ValidCaps
  <2>6. CASE AcceptOwnership
    BY <2>6 DEF AcceptOwnership, ValidCaps
  <2> QED BY <2>1, <2>2, <2>3, <2>4, <2>5, <2>6 DEF Admin, Administer
<1>4. ExitType' /\ TokenType'
  BY <1>0, <1>1 DEF ExitType, TokenType, exitVars, token
<1> QED BY <1>1, <1>3, <1>4, Parts

\* Transfers, the clock and stuttering.
LEMMA QuietStep ==
  ASSUME TypeOK,
         \/ \E from, to \in Holders, n \in Amounts : Transfer(from, to, n)
         \/ Tick \/ UNCHANGED vars
  PROVE  TypeOK' /\ UNCHANGED <<roles, caps, exitVars, supply, reserve>>
<1> USE DEF roles, window, exitVars, token
<1>0. RestType /\ ExitType /\ TokenType
  BY Parts
<1>1. UNCHANGED <<roles, caps, paused, window, exitVars, claims, supply, reserve, adminCalls>>
  BY DEF Transfer, Tick, vars
<1>2. now' \in Nat /\ balance' \in [Accounts -> Nat]
  <2>1. ASSUME NEW from \in Holders, NEW to \in Holders, NEW n \in Amounts, Transfer(from, to, n)
        PROVE  now' \in Nat /\ balance' \in [Accounts -> Nat]
    <3>1. from \in Accounts /\ to \in Accounts /\ n \in Nat
      BY BridgeAssumption
    <3> DEFINE taken == [balance EXCEPT ![from] = @ - n]
    <3>2. taken \in [Accounts -> Nat]
      BY <1>0, <2>1, <3>1 DEF Transfer, TokenType
    <3>3. balance' = [taken EXCEPT ![to] = @ + n] /\ now' = now
      BY <2>1 DEF Transfer
    <3> HIDE DEF taken
    <3> QED BY <1>0, <3>1, <3>2, <3>3 DEF RestType
  <2>2. CASE Tick \/ UNCHANGED vars
    BY <1>0, <2>2 DEF Tick, vars, RestType, TokenType
  <2> QED BY <2>1, <2>2
<1>3. RestType' /\ ExitType' /\ TokenType'
  BY <1>0, <1>1, <1>2 DEF RestType, ExitType, TokenType, ValidCaps
<1> QED BY <1>1, <1>3, Parts

\* Every step of the bridge is one of these.
LEMMA Steps ==
  [Next]_vars =>
    \/ Entry \/ Exit \/ Admin
    \/ \E from, to \in Holders, n \in Amounts : Transfer(from, to, n)
    \/ Tick \/ UNCHANGED vars
BY DEF Next

\* The deployed contract is well typed.
LEMMA TypeInit == Init => TypeOK
<1> SUFFICES ASSUME Init PROVE TypeOK
  OBVIOUS
<1>1. NoExit \in ExitRows /\ NoExit.status = "None"
  BY DEF NoExit, ExitRows
<1>2. ExitType
  BY <1>1, BridgeAssumption DEF Init, ExitType, ExitIds
<1>3. TokenType
  BY DEF Init, TokenType
<1>4. RestType
  BY BridgeAssumption DEF Init, RestType
<1> QED BY <1>2, <1>3, <1>4, Parts

\* Every call keeps the contract well typed.
LEMMA TypeStep == ASSUME TypeOK, [Next]_vars PROVE TypeOK'
BY Steps, EntryStep, ExitStep, AdminStep, QuietStep DEF Entry

\* Balances and pendingExitGrains never go below zero and the exits are exactly
\* those numbered up to the nonce, for every account, deposit and caps struct.
THEOREM TypeOKHolds == Spec => []TypeOK
BY TypeInit, TypeStep, PTL DEF Spec

-----------------------------------------------------------------------------
\* Every wPRL in circulation and every pending exit is covered by PRL that was
\* deposited, claimed once, and not released.
THEOREM FullyBackedHolds == Spec => []FullyBacked
<1>1. Init => FullyBacked
  BY DEF Init, FullyBacked
<1>2. TypeOK /\ FullyBacked /\ [Next]_vars => FullyBacked'
  <2> SUFFICES ASSUME TypeOK, FullyBacked, [Next]_vars PROVE FullyBacked'
    OBVIOUS
  <2>0. /\ supply \in Int /\ pendingExit \in Int /\ reserve \in Int
        /\ supply' \in Int /\ pendingExit' \in Int /\ reserve' \in Int
    BY TypeStep DEF TypeOK
  <2>1. CASE Entry
    <3>1. PICK n \in Amounts : /\ n \in Nat /\ supply' = supply + n /\ reserve' = reserve + n
                               /\ pendingExit' = pendingExit
      BY <2>1, EntryStep DEF Entry
    <3> QED BY <2>0, <3>1 DEF FullyBacked
  <2>2. CASE Exit
    <3>1. PICK x, y \in Int : BooksMove(x, y)
      BY <2>2, ExitStep
    <3> QED BY <2>0, <3>1 DEF BooksMove, FullyBacked
  <2>3. CASE ~Entry /\ ~Exit
    BY <2>3, Steps, AdminStep, QuietStep DEF FullyBacked, token, exitVars
  <2> QED BY <2>1, <2>2, <2>3
<1> QED BY <1>1, <1>2, TypeOKHolds, PTL DEF Spec

\* Circulating wPRL and pending exits never exceed the pilot cap in force, also
\* right after the owner lowers it.
THEOREM WithinPilotCapHolds == Spec => []WithinPilotCap
<1>1. Init => WithinPilotCap
  BY BridgeAssumption DEF Init, WithinPilotCap, CapsRows
<1>2. TypeOK /\ WithinPilotCap /\ [Next]_vars => WithinPilotCap'
  <2> SUFFICES ASSUME TypeOK, WithinPilotCap, [Next]_vars PROVE WithinPilotCap'
    OBVIOUS
  <2>0. /\ supply \in Int /\ pendingExit \in Int /\ caps.pilotCap \in Int
        /\ supply' \in Int /\ pendingExit' \in Int
    BY TypeStep DEF TypeOK, CapsRows
  <2>1. CASE Entry
    <3>1. PICK n \in Amounts : /\ n \in Nat /\ supply' = supply + n /\ pendingExit' = pendingExit
                               /\ supply + pendingExit + n <= caps.pilotCap /\ caps' = caps
      BY <2>1, EntryStep DEF Entry
    <3> QED BY <2>0, <3>1 DEF WithinPilotCap
  <2>2. CASE Exit
    <3>1. PICK x, y \in Int : BooksMove(x, y)
      BY <2>2, ExitStep
    <3>2. caps' = caps
      BY <2>2, ExitStep
    <3> QED BY <2>0, <3>1, <3>2 DEF BooksMove, WithinPilotCap
  <2>3. CASE Admin
    <3>1. UNCHANGED <<supply, pendingExit>>
      BY <2>3, AdminStep DEF token, exitVars
    <3>2. \/ caps' = caps
          \/ supply + pendingExit <= caps'.pilotCap
      BY <2>3 DEF Admin, Administer, SetCaps, Liabilities, SetPaused, SetRelayer, SetOperator,
                  TransferOwnership, AcceptOwnership
    <3> QED BY <3>1, <3>2 DEF WithinPilotCap
  <2>4. CASE ~Entry /\ ~Exit /\ ~Admin
    BY <2>4, Steps, QuietStep DEF WithinPilotCap, exitVars
  <2> QED BY <2>1, <2>2, <2>3, <2>4
<1> QED BY <1>1, <1>2, TypeOKHolds, PTL DEF Spec

\* In no order of nominations, acceptances and role changes does a key come to
\* hold two powers.
THEOREM RolesSeparatedHolds == Spec => []RolesSeparated
<1>1. Init => RolesSeparated
  BY DEF Init, RolesSeparated
<1>2. TypeOK /\ RolesSeparated /\ [Next]_vars => RolesSeparated'
  <2> SUFFICES ASSUME TypeOK, RolesSeparated, [Next]_vars PROVE RolesSeparated'
    OBVIOUS
  <2>0. /\ Zero \notin relayers \cup operators
        /\ owner # Zero
    BY BridgeAssumption DEF TypeOK
  <2>1. CASE Entry \/ Exit
    BY <2>1, EntryStep, ExitStep DEF Entry, roles, RolesSeparated
  <2>2. CASE Admin
    <3>1. ASSUME NEW a \in Accounts, NEW v \in BOOLEAN, SetRelayer(a, v) PROVE RolesSeparated'
      BY <3>1 DEF SetRelayer, NotOwner, RolesSeparated
    <3>2. ASSUME NEW a \in Accounts, NEW v \in BOOLEAN, SetOperator(a, v) PROVE RolesSeparated'
      BY <3>2 DEF SetOperator, NotOwner, RolesSeparated
    <3>3. ASSUME NEW a \in Accounts \cup {Zero}, TransferOwnership(a) PROVE RolesSeparated'
      BY <3>3 DEF TransferOwnership, RolesSeparated
    <3>4. CASE AcceptOwnership
      BY <3>4, <2>0 DEF AcceptOwnership, RolesSeparated
    <3>5. ASSUME NEW c \in CapsInputs, SetCaps(c) PROVE RolesSeparated'
      BY <3>5 DEF SetCaps, roles, RolesSeparated
    <3>6. ASSUME NEW s \in Switches, NEW v \in BOOLEAN, SetPaused(s, v) PROVE RolesSeparated'
      BY <3>6 DEF SetPaused, roles, RolesSeparated
    <3> QED BY <2>2, <3>1, <3>2, <3>3, <3>4, <3>5, <3>6 DEF Admin, Administer
  <2>3. CASE ~Entry /\ ~Exit /\ ~Admin
    BY <2>3, Steps, QuietStep DEF roles, RolesSeparated
  <2> QED BY <2>1, <2>2, <2>3
<1> QED BY <1>1, <1>2, TypeOKHolds, PTL DEF Spec

\* exits and releaseTxidToExitId mirror each other, so a Pearl transaction is the
\* release of one exit at most.
THEOREM OneExitPerReleaseHolds == Spec => []OneExitPerRelease
<1>1. Init => OneExitPerRelease
  BY DEF Init, OneExitPerRelease, NoExit, ExitIds
<1>2. TypeOK /\ OneExitPerRelease /\ [Next]_vars => OneExitPerRelease'
  <2> SUFFICES ASSUME TypeOK, OneExitPerRelease, [Next]_vars PROVE OneExitPerRelease'
    OBVIOUS
  <2>1. CASE UNCHANGED exitVars
    BY <2>1 DEF exitVars, OneExitPerRelease
  <2>2. ASSUME NEW a \in Holders, NEW n \in Amounts, RequestExit(a, n)
        PROVE  OneExitPerRelease'
    <3>1. nonce + 1 \in ExitIds /\ exits[nonce + 1].status = "None"
      BY <2>2, BridgeAssumption DEF RequestExit, TypeOK, ExitIds
    <3>2. /\ exits'[nonce + 1].status = "Requested"
          /\ \A id \in ExitIds : id # nonce + 1 => exits'[id] = exits[id]
          /\ exitOf' = exitOf
      BY <2>2, <3>1 DEF RequestExit, NextExit, TypeOK
    <3> QED BY <3>1, <3>2 DEF OneExitPerRelease
  <2>3. ASSUME NEW op \in Accounts, NEW id \in ExitIds, NEW t \in Txids, ProcessExit(op, id, t)
        PROVE  OneExitPerRelease'
    <3>1. exitOf' = [exitOf EXCEPT ![t] = id] /\ exitOf[t] = 0
      BY <2>3 DEF ProcessExit, TxidUnused
    <3>2. exitOf' \in [Txids -> 0..MaxExits] /\ 0 \notin ExitIds
      BY <3>1 DEF TypeOK, ExitIds
    <3>3. /\ exits[id].status = "Requested"
          /\ exits'[id].status = "Processed" /\ exits'[id].txid = t
          /\ \A j \in ExitIds : j # id => exits'[j] = exits[j]
      BY <2>3, <3>2, SettleType DEF ProcessExit
    <3>4. exitOf'[t] = id /\ \A u \in Txids : u # t => exitOf'[u] = exitOf[u]
      BY <3>1 DEF TypeOK
    <3> QED BY <3>1, <3>2, <3>3, <3>4 DEF OneExitPerRelease
  <2>4. ASSUME NEW op \in Accounts, NEW id \in ExitIds, RefundExit(op, id)
        PROVE  OneExitPerRelease'
    <3>1. exitOf' = exitOf /\ exits[id].status = "Requested" /\ exits[id].txid \in Txids \cup {Zero}
      BY <2>4 DEF RefundExit, Refundable, TypeOK, ExitRows
    <3>2. /\ exits'[id].status = "Refunded"
          /\ \A j \in ExitIds : j # id => exits'[j] = exits[j]
      BY <2>4, <3>1, SettleType DEF RefundExit, TypeOK
    <3> QED BY <3>1, <3>2 DEF OneExitPerRelease
  <2>5. CASE Entry
    BY <2>5, <2>1, EntryStep DEF Entry
  <2>6. CASE Exit
    BY <2>2, <2>3, <2>4, <2>6 DEF Exit
  <2>7. CASE ~Entry /\ ~Exit
    BY <2>1, <2>7, Steps, AdminStep, QuietStep
  <2> QED BY <2>5, <2>6, <2>7
<1> QED BY <1>1, <1>2, TypeOKHolds, PTL DEF Spec

\* A settled exit is final, and no step changes who requested an exit or for how
\* much: an exit cannot be both released on Pearl and refunded on Igra.
THEOREM ExitsSettleOnceHolds == Spec => ExitsSettleOnce
<1> DEFINE Kept ==
      \A id \in ExitIds :
        /\ exits[id].status # "None" =>
             /\ exits'[id].requester = exits[id].requester
             /\ exits'[id].amount = exits[id].amount
        /\ exits[id].status \in {"Processed", "Refunded"} => exits'[id] = exits[id]
<1>1. TypeOK /\ [Next]_vars => Kept
  <2> SUFFICES ASSUME TypeOK, [Next]_vars PROVE Kept
    OBVIOUS
  <2>1. CASE UNCHANGED exitVars
    BY <2>1 DEF exitVars
  <2>2. ASSUME NEW a \in Holders, NEW n \in Amounts, RequestExit(a, n)
        PROVE  Kept
    <3>1. nonce + 1 \in ExitIds /\ exits[nonce + 1].status = "None"
      BY <2>2, BridgeAssumption DEF RequestExit, TypeOK, ExitIds
    <3>2. \A id \in ExitIds : id # nonce + 1 => exits'[id] = exits[id]
      BY <2>2 DEF RequestExit, NextExit, TypeOK
    <3> QED BY <3>1, <3>2
  <2>3. ASSUME NEW op \in Accounts, NEW id \in ExitIds, NEW t \in Txids, ProcessExit(op, id, t)
        PROVE  Kept
    <3>1. exitOf' \in [Txids -> 0..MaxExits]
      BY <2>3 DEF ProcessExit, TypeOK, ExitIds
    <3> QED BY <2>3, <3>1, SettleType DEF ProcessExit
  <2>4. ASSUME NEW op \in Accounts, NEW id \in ExitIds, RefundExit(op, id)
        PROVE  Kept
    <3>1. exitOf' = exitOf /\ exits[id].status = "Requested" /\ exits[id].txid \in Txids \cup {Zero}
      BY <2>4 DEF RefundExit, Refundable, TypeOK, ExitRows
    <3> QED BY <2>4, <3>1, SettleType DEF RefundExit, TypeOK
  <2>5. CASE Entry
    BY <2>5, <2>1, EntryStep DEF Entry
  <2>6. CASE Exit
    BY <2>2, <2>3, <2>4, <2>6 DEF Exit
  <2>7. CASE ~Entry /\ ~Exit
    BY <2>1, <2>7, Steps, AdminStep, QuietStep
  <2> QED BY <2>5, <2>6, <2>7
<1>2. TypeOK /\ [Next]_vars => [Kept]_vars
  BY <1>1
<1> QED BY <1>2, TypeOKHolds, PTL DEF Spec, ExitsSettleOnce

-----------------------------------------------------------------------------
(* The rate of mints.  The claims of the current window and of the one before *)
(* it are within the cap each; all others were made before that one ended.    *)

ClaimRows == [deposit : Deposits, at : Nat, amount : Nat]
AmountOf == [c \in ClaimRows |-> c.amount]
SumOf(s) == SumFunctionOnSet(AmountOf, s)

\* Of all claims, cur are those of the window that began at start and minted that much,
\* prev those of the window before.
Windows(all, cur, prev, start, minted, w, m) ==
  /\ cur \cap prev = {}
  /\ SumOf(cur) = minted /\ minted <= m /\ SumOf(prev) <= m
  /\ \A c \in all \ cur : c.at <= start
  /\ \A c \in all \ (cur \cup prev) : c.at <= start - w

RateInv ==
  /\ caps \in CapsChoices /\ IsFiniteSet(claims) /\ windowStart <= now
  /\ \A c \in claims : c.at <= now
  /\ \A w \in Nat, m \in Nat : WindowsWithin(w, m) =>
       \E cur, prev \in SUBSET claims : Windows(claims, cur, prev, windowStart, windowMinted, w, m)

\* Claims have amounts that can be summed.
LEMMA SumsOfClaims ==
  ASSUME TypeOK, IsFiniteSet(claims), NEW s \in SUBSET claims
  PROVE  IsFiniteSet(s) /\ SumOf(s) \in Nat /\ \A c \in s : AmountOf[c] \in Nat /\ AmountOf[c] \in Int
<1>1. \A c \in s : AmountOf[c] \in Nat
  BY DEF TypeOK, AmountOf, ClaimRows
<1>2. IsFiniteSet(s)
  BY FS_Subset
<1> QED BY <1>1, <1>2, SumInNat DEF SumOf

\* Only a mint and the owner's choice of caps touch what RateInv is about.
LEMMA RateStays ==
  ASSUME RateInv, UNCHANGED <<claims, windowStart, windowMinted>>, caps' \in CapsChoices, now' >= now, now' \in Nat,
         TypeOK
  PROVE  RateInv'
<1>1. now \in Nat /\ windowStart \in Nat /\ \A c \in claims : c.at \in Nat
  BY DEF TypeOK
<1>2. windowStart' <= now' /\ \A c \in claims' : c.at <= now'
  BY <1>1 DEF RateInv
<1>3. ASSUME NEW w \in Nat, NEW m \in Nat, WindowsWithin(w, m)
      PROVE  \E cur, prev \in SUBSET claims' : Windows(claims', cur, prev, windowStart', windowMinted', w, m)
  BY <1>3 DEF RateInv
<1>4. ASSUME NEW w \in Nat, NEW m \in Nat PROVE WindowsWithin(w, m)' <=> WindowsWithin(w, m)
  BY DEF WindowsWithin, CapsChoices, ValidCaps
<1>5. IsFiniteSet(claims')
  BY DEF RateInv
<1> QED BY <1>2, <1>3, <1>4, <1>5 DEF RateInv, CapsChoices, ValidCaps

\* A mint joins the current window, or ends it and begins the next one.
LEMMA RateMint ==
  ASSUME TypeOK, RateInv, NEW r \in Accounts, NEW d \in Deposits, NEW a \in Holders, NEW n \in Amounts,
         ClaimDeposit(r, d, a, n)
  PROVE  RateInv'
<1>1. PICK new : new = [deposit |-> d, at |-> now, amount |-> n]
  OBVIOUS
<1>2. /\ now \in Nat /\ n \in Nat /\ windowStart \in Nat /\ windowMinted \in Nat /\ caps \in CapsRows
      /\ ValidCaps(caps) /\ claims \subseteq ClaimRows /\ windowStart <= now
  BY BridgeAssumption DEF TypeOK, RateInv, ClaimRows
<1>3. new \in ClaimRows /\ new.at = now /\ AmountOf[new] = n /\ new \notin claims
  <2>1. new \in ClaimRows /\ new.at = now /\ new.amount = n /\ new.deposit = d
    BY <1>1, <1>2 DEF ClaimRows
  <2>2. new \notin claims
    BY <2>1 DEF ClaimDeposit, Claimable, Claimed
  <2> QED BY <2>1, <2>2 DEF AmountOf
<1>4. claims' = claims \cup {new} /\ UNCHANGED <<now, caps>> /\ ConsumeMintCapacity(n)
  BY <1>1 DEF ClaimDeposit
<1>5. IsFiniteSet(claims) /\ IsFiniteSet(claims')
  BY <1>4, FS_AddElement DEF RateInv
<1>6. ASSUME NEW s \in SUBSET claims PROVE SumOf(s \cup {new}) = SumOf(s) + n /\ SumOf(s) \in Nat
  <2>1. IsFiniteSet(s) /\ SumOf(s) \in Nat /\ \A c \in s : AmountOf[c] \in Int
    BY <1>5, SumsOfClaims
  <2>2. PICK t : t = s \cup {new}
    OBVIOUS
  <2>3. IsFiniteSet(t) /\ new \in t /\ t \ {new} = s /\ \A c \in t : AmountOf[c] \in Int
    BY <1>2, <1>3, <2>1, <2>2, FS_AddElement
  <2>4. SumFunctionOnSet(AmountOf, t) = AmountOf[new] + SumFunctionOnSet(AmountOf, t \ {new})
    BY <2>3, SumWithout
  <2> QED BY <1>2, <1>3, <2>1, <2>2, <2>3, <2>4 DEF SumOf
<1>7. windowStart' <= now' /\ \A c \in claims' : c.at <= now'
  <2>1. windowStart' = windowStart \/ windowStart' = now
    BY <1>4 DEF ConsumeMintCapacity, window
  <2>2. \A c \in claims : c.at <= now
    BY DEF RateInv
  <2> QED BY <1>2, <1>3, <1>4, <2>1, <2>2
<1>8. ASSUME NEW w \in Nat, NEW m \in Nat, WindowsWithin(w, m)
      PROVE  \E cur, prev \in SUBSET claims' : Windows(claims', cur, prev, windowStart', windowMinted', w, m)
  <2>1. PICK cur, prev \in SUBSET claims : Windows(claims, cur, prev, windowStart, windowMinted, w, m)
    BY <1>8 DEF RateInv
  <2>2. caps.windowCap > 0 /\ caps.window >= w /\ caps.windowCap <= m
    BY <1>8 DEF WindowsWithin, RateInv
  <2>3. caps.window \in Nat /\ caps.windowCap \in Nat
    BY <1>2 DEF CapsRows
  <2>4. caps.window > 0
    BY <1>2, <2>2 DEF ValidCaps
  <2>5. WindowLimited
    BY <2>2, <2>4 DEF WindowLimited
  <2>6. /\ \A c \in claims : c.at \in Nat /\ c.at <= now
        /\ SumOf(cur) \in Nat /\ SumOf(prev) \in Nat /\ SumOf(cur) = windowMinted /\ windowMinted <= m /\ SumOf(prev) <= m
        /\ cur \cap prev = {}
        /\ \A c \in claims \ cur : c.at <= windowStart
        /\ \A c \in claims \ (cur \cup prev) : c.at <= windowStart - w
    BY <1>2, <1>5, <2>1, SumsOfClaims DEF RateInv, Windows, ClaimRows
  <2>7. CASE WindowOver
    <3>1. windowStart' = now /\ windowMinted' = n /\ n <= caps.windowCap /\ now >= windowStart + caps.window
      BY <1>2, <1>4, <2>5, <2>7 DEF ConsumeMintCapacity, MintedInWindow, WindowOver
    <3>2. SumOf({new}) = n
      <4>1. SumOf({} \cup {new}) = SumOf({}) + n
        BY <1>6
      <4>2. SumOf({}) = 0 /\ {} \cup {new} = {new}
        BY SumOfNone DEF SumOf
      <4> QED BY <1>2, <4>1, <4>2
    <3>3. \A c \in claims' \ {new} : c \in claims /\ c.at <= now
      BY <1>4, <2>6
    <3>4. \A c \in claims' \ ({new} \cup cur) : c.at <= now - w
      <4> SUFFICES ASSUME NEW c \in claims' \ ({new} \cup cur) PROVE c.at <= now - w
        OBVIOUS
      <4>1. c \in claims \ cur
        BY <1>4
      <4>2. c.at <= windowStart /\ c.at \in Nat
        BY <2>6, <4>1
      <4> QED BY <1>2, <2>2, <2>3, <3>1, <4>2
    <3>5. Windows(claims', {new}, cur, windowStart', windowMinted', w, m)
      BY <1>2, <1>3, <1>4, <2>1, <2>2, <2>3, <2>6, <3>1, <3>2, <3>3, <3>4 DEF Windows, SumOf
    <3> QED BY <1>4, <2>1, <3>5
  <2>8. CASE ~WindowOver
    <3>1. windowStart' = windowStart /\ windowMinted' = windowMinted + n /\ windowMinted + n <= caps.windowCap
      BY <1>4, <2>5, <2>8 DEF ConsumeMintCapacity, MintedInWindow
    <3>2. PICK next : next = cur \cup {new}
      OBVIOUS
    <3>3. SumOf(next) = windowMinted' /\ windowMinted' <= m
      BY <1>2, <1>6, <2>2, <2>3, <2>6, <3>1, <3>2
    <3>4. next \subseteq claims' /\ prev \subseteq claims' /\ next \cap prev = {}
      BY <1>3, <1>4, <2>1, <2>6, <3>2
    <3>5. /\ \A c \in claims' \ next : c.at <= windowStart
          /\ \A c \in claims' \ (next \cup prev) : c.at <= windowStart - w
      BY <1>4, <2>6, <3>2
    <3>6. Windows(claims', next, prev, windowStart', windowMinted', w, m)
      BY <2>6, <3>1, <3>3, <3>4, <3>5 DEF Windows, SumOf
    <3> QED BY <3>4, <3>6
  <2> QED BY <2>7, <2>8
<1>9. caps' \in CapsChoices /\ \A w \in Nat, m \in Nat : WindowsWithin(w, m)' <=> WindowsWithin(w, m)
  BY <1>4 DEF RateInv, WindowsWithin, CapsChoices
<1> QED BY <1>5, <1>7, <1>8, <1>9 DEF RateInv, WindowsWithin, CapsChoices

\* RateInv is an invariant, given that the contract is well typed.
LEMMA RateInvHolds == Spec => []RateInv
<1>1. Init => RateInv
  <2> SUFFICES ASSUME Init PROVE RateInv
    OBVIOUS
  <2>1. now = 0 /\ claims = {} /\ windowStart = 0 /\ windowMinted = 0 /\ caps = InitialCaps
    BY DEF Init
  <2>2. caps \in CapsChoices /\ IsFiniteSet(claims)
    BY <2>1, BridgeAssumption, FS_EmptySet DEF CapsChoices
  <2>3. \A w \in Nat, m \in Nat : Windows(claims, {}, {}, windowStart, windowMinted, w, m)
    BY <2>1, SumOfNone DEF Windows, SumOf
  <2> QED BY <2>1, <2>2, <2>3 DEF RateInv
<1>2. TypeOK /\ RateInv /\ [Next]_vars => RateInv'
  <2> SUFFICES ASSUME TypeOK, RateInv, [Next]_vars PROVE RateInv'
    OBVIOUS
  <2>0. now \in Nat /\ caps \in CapsChoices
    BY DEF TypeOK, RateInv
  <2>1. CASE Entry
    BY <2>1, RateMint DEF Entry
  <2>2. CASE Exit
    <3>1. UNCHANGED <<claims, windowStart, windowMinted, caps, now>>
      BY <2>2 DEF Exit, RequestExit, ProcessExit, RefundExit, window
    <3> QED BY <2>0, <3>1, RateStays
  <2>3. CASE Admin
    <3>1. UNCHANGED <<claims, windowStart, windowMinted, now>>
      BY <2>3 DEF Admin, Administer, SetCaps, SetPaused, SetRelayer, SetOperator,
                  TransferOwnership, AcceptOwnership, window
    <3>2. caps' \in CapsChoices
      BY <2>0, <2>3 DEF Admin, Administer, SetCaps, SetPaused, SetRelayer, SetOperator,
                        TransferOwnership, AcceptOwnership, CapsChoices
    <3> QED BY <2>0, <3>1, <3>2, RateStays
  <2>4. CASE (\E from, to \in Holders, n \in Amounts : Transfer(from, to, n)) \/ Tick \/ UNCHANGED vars
    <3>1. UNCHANGED <<claims, windowStart, windowMinted, caps>>
      BY <2>4 DEF Transfer, Tick, vars, window
    <3>2. now' \in Nat /\ now' >= now
      BY <2>0, <2>4 DEF Transfer, Tick, vars
    <3> QED BY <2>0, <3>1, <3>2, RateStays
  <2> QED BY <2>1, <2>2, <2>3, <2>4, Steps
<1> QED BY <1>1, <1>2, TypeOKHolds, PTL DEF Spec

\* While every caps struct limits its window, the mints within any span of the shortest
\* window stay within twice the largest cap, for any caps the owner changes between.
THEOREM MintRateBoundedHolds == Spec => []MintRateBounded
<1>1. ASSUME TypeOK, RateInv PROVE MintRateBounded
  <2> SUFFICES ASSUME NEW w \in {c.window : c \in CapsChoices}, NEW m \in {c.windowCap : c \in CapsChoices},
                      WindowsWithin(w, m)
               PROVE  MintedSince(now - w) <= 2 * m
    BY DEF MintRateBounded
  <2>1. w \in Nat /\ m \in Nat
    BY BridgeAssumption DEF CapsChoices, CapsRows
  <2>2. PICK cur, prev \in SUBSET claims : Windows(claims, cur, prev, windowStart, windowMinted, w, m)
    BY <1>1, <2>1 DEF RateInv
  <2>3. PICK since : since = {c \in claims : c.at > now - w}
    OBVIOUS
  <2>4. now \in Nat /\ windowStart \in Nat /\ windowStart <= now /\ IsFiniteSet(claims) /\ claims \subseteq ClaimRows
    BY <1>1 DEF TypeOK, RateInv, ClaimRows
  <2>5. since \subseteq cur \cup prev
    <3> SUFFICES ASSUME NEW c \in claims, c \notin cur \cup prev PROVE ~(c.at > now - w)
      BY <2>3
    <3>1. c.at \in Nat /\ c.at <= windowStart - w
      BY <2>2, <2>4 DEF Windows, ClaimRows
    <3> QED BY <2>1, <2>4, <3>1
  <2>6. MintedSince(now - w) = SumOf(since)
    <3>1. PICK f : f = [c \in since |-> c.amount]
      OBVIOUS
    <3>2. \A c \in since : f[c] = AmountOf[c]
      BY <2>3, <2>4, <3>1 DEF AmountOf
    <3>3. IsFiniteSet(since)
      BY <2>3, <2>4, FS_Subset
    <3> QED BY <2>3, <3>1, <3>2, <3>3, SumOfEqual DEF MintedSince, SumOf
  <2>7. PICK both : both = cur \cup prev
    OBVIOUS
  <2>8. both \in SUBSET claims /\ cur \in SUBSET claims /\ prev \in SUBSET claims /\ since \in SUBSET claims
    BY <2>3, <2>7
  <2>9. /\ IsFiniteSet(cur) /\ SumOf(cur) \in Nat /\ IsFiniteSet(prev) /\ SumOf(prev) \in Nat
        /\ IsFiniteSet(both) /\ SumOf(both) \in Nat /\ \A c \in both : AmountOf[c] \in Nat
        /\ SumOf(since) \in Nat
    BY <1>1, <2>4, <2>8, SumsOfClaims
  <2>10. SumOf(since) <= SumOf(both)
    BY <2>5, <2>7, <2>9, SumMonotone DEF SumOf
  <2>11. SumOf(both) = SumOf(cur) + SumOf(prev)
    <3>1. cur \cap prev = {} /\ \A c \in cur \cup prev : AmountOf[c] \in Int
      BY <2>2, <2>7, <2>9 DEF Windows
    <3> QED BY <2>7, <2>9, <3>1, SumOfUnion DEF SumOf
  <2>12. SumOf(cur) <= m /\ SumOf(prev) <= m
    BY <2>2 DEF Windows
  <2> QED BY <2>1, <2>6, <2>9, <2>10, <2>11, <2>12
<1> QED BY <1>1, TypeOKHolds, RateInvHolds, PTL
=============================================================================
