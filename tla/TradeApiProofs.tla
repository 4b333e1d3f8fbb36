---------------------------- MODULE TradeApiProofs ----------------------------
(***************************************************************************)
(* Proofs about the three ledgers the trade API keeps beside its orders    *)
(* and trades: Accounts (users, wallets, points), SideEffects and          *)
(* Notifications.  For any number of users, wallets, keys, addresses,      *)
(* overlapping calls and rounds: a challenge lets one call through, points *)
(* have their cause and no cause lacks its points, a key sends once, what  *)
(* the ledger says happened did, the alert rate limit holds, only proven   *)
(* addresses get notifications, and retries and late mails are bounded.    *)
(***************************************************************************)
EXTENDS Accounts, SideEffects, Notifications, FiniteSetTheorems, SequenceTheorems, TLAPS

\* The steps a call of each kind goes through.
PcOf(op) ==
  IF op = "register" THEN {"find", "resolve", "consume", "save", "insert", "award", "bonus"}
  ELSE IF op = "link" THEN {"other", "find", "consume", "consume_other", "save", "insert"}
  ELSE IF op = "order" THEN {"consume", "save", "award", "bonus"}
  ELSE {"update", "buyer", "seller", "award", "bonus"}

Shape ==
  call = [k \in Calls |->
            [pc |-> call[k].pc, user |-> call[k].user, points |-> call[k].points]]

\* What a registration knows: its user owns the wallet it proves, a user to come is
\* unknown until it is stored, and the referrer it will be stored with exists.
RegisterOK(k) ==
  /\ call[k].user # None => owner[Wallet(k)] = call[k].user
  /\ call[k].pc \in {"award", "bonus", "done"} => call[k].user # None
  /\ call[k].pc \in {"resolve", "save", "insert"} => call[k].user = None
  /\ call[k].pc \in {"consume", "save", "insert"} /\ call[k].user = None
       => Request(k).ref \in users \cup {None}

\* What a link knows: it acts for the user that asked for it.
LinkOK(k) ==
  /\ call[k].pc \notin {"idle", "failed"} =>
       call[k].user = Request(k).user /\ Request(k).user \in users
  /\ call[k].pc = "done" => owner[Wallet(k)] = call[k].user

CallOK(k) ==
  /\ call[k].pc \in {"idle", "done", "failed"} \cup PcOf(Request(k).op)
  /\ Request(k).op = "register" => RegisterOK(k)
  /\ Request(k).op = "link" => LinkOK(k)

Tables ==
  /\ owner \in [Wallets -> users \cup {None}]
  /\ referrer \in [Accounts -> users \cup {None}]

\* A challenge that has let a call through is consumed.
GrantedIsConsumed == \A c \in Challenges, k \in Calls : Granted(k, c) => c \in consumed
OneGrant == \A c \in Challenges, k, l \in Calls : Granted(k, c) /\ Granted(l, c) => k = l

IInv == TypeOK /\ Shape /\ Tables /\ (\A k \in Calls : CallOK(k)) /\ GrantedIsConsumed /\ OneGrant

-----------------------------------------------------------------------------
(* Facts used for every action *)

\* The request of a call is well formed and never changes.
LEMMA RequestFact ==
  ASSUME config \in Configs, NEW k \in Calls
  PROVE  RequestOK(Request(k)) /\ (Request(k).op # "release" => Wallet(k) \in Wallets)
<1>1. RequestOK(Request(k))
  BY AccountsAssumption DEF Request
<1>2. Request(k).op # "release" => Proved(k) \in Wallets
  BY <1>1, AccountsAssumption DEF RequestOK, Proved
<1>3. Request(k).op = "link" => Linked(k) \in Wallets
  BY <1>1, AccountsAssumption DEF RequestOK, Linked
<1> QED
  BY <1>1, <1>2, <1>3 DEF Wallet

\* What one call does leaves the others alone: rows only come, challenges are only used
\* up, and a wallet that has an owner keeps it.
Grows ==
  /\ config' = config
  /\ users \subseteq users' /\ consumed \subseteq consumed'
  /\ \A w \in Wallets : owner[w] # None => owner'[w] = owner[w]

OnlyCall(k) == \A l \in Calls \ {k} : call'[l] = call[l]

\* The condition of another call survives a step.
LEMMA OtherCall ==
  ASSUME IInv, Grows, NEW k \in Calls, call'[k] = call[k]
  PROVE  CallOK(k)' /\ (\A c \in Challenges : Granted(k, c)' <=> Granted(k, c))
<1> USE DEF IInv
<1>1. config \in Configs
  BY DEF TypeOK
<1>2. /\ RequestOK(Request(k)) /\ Request(k)' = Request(k) /\ Wallet(k)' = Wallet(k)
      /\ Request(k).op # "release" => Wallet(k) \in Wallets
  BY <1>1, RequestFact DEF Grows, Request, Wallet, Proved, Linked
<1>3. CallOK(k)
  OBVIOUS
<1>4. Request(k).op = "register" => RegisterOK(k)'
  BY <1>2, <1>3, AccountsAssumption DEF CallOK, RegisterOK, Grows, RequestOK
<1>5. call[k].user \in users \cup {None} /\ None \notin users
  BY AccountsAssumption DEF TypeOK
<1>6. Request(k).op = "link" => LinkOK(k)'
  BY <1>2, <1>3, <1>5 DEF CallOK, LinkOK, Grows, RequestOK
<1>7. CallOK(k)'
  BY <1>2, <1>3, <1>4, <1>6 DEF CallOK
<1>8. \A c \in Challenges : Granted(k, c)' <=> Granted(k, c)
  BY <1>2 DEF Granted
<1> QED
  BY <1>7, <1>8

\* A step of call k keeps the invariant if it keeps the tables and k's own condition, and
\* grants k only challenges that it consumes.
LEMMA CallFrame ==
  ASSUME IInv, Grows, NEW k \in Calls, OnlyCall(k), TypeOK', Shape', Tables', CallOK(k)',
         \A c \in Challenges : Granted(k, c)' =>
           c \in consumed' /\ (Granted(k, c) \/ c \notin consumed)
  PROVE  IInv'
<1> USE DEF IInv
<1>1. \A l \in Calls \ {k} : CallOK(l)' /\ (\A c \in Challenges : Granted(l, c)' <=> Granted(l, c))
  BY OtherCall DEF OnlyCall
<1>2. \A l \in Calls : CallOK(l)'
  BY <1>1
<1>3. GrantedIsConsumed'
  BY <1>1 DEF GrantedIsConsumed, Grows
<1>4. OneGrant'
  BY <1>1 DEF OneGrant, GrantedIsConsumed
<1> QED
  BY <1>2, <1>3, <1>4

\* A step that touches no table but consumed.
CallOnly ==
  /\ UNCHANGED <<config, users, owner, referrer, orders, released>>
  /\ consumed \subseteq consumed'
  /\ issued' = issued /\ expired' = expired /\ consumed' \subseteq Challenges /\ faults' \in 0..MaxFaults

\* Such a step keeps the invariant if it keeps the condition of its call.
LEMMA StepFrame ==
  ASSUME IInv, CallOnly, NEW k \in Calls, OnlyCall(k), Shape', CallOK(k)',
         call'[k].user \in users \cup {None},
         \A c \in Challenges : Granted(k, c)' =>
           c \in consumed' /\ (Granted(k, c) \/ c \notin consumed)
  PROVE  IInv'
<1>1. Grows
  BY DEF Grows, CallOnly
<1>2. TypeOK'
  BY DEF IInv, TypeOK, CallOnly, OnlyCall
<1>3. Tables'
  BY DEF IInv, Tables, CallOnly
<1> QED
  BY <1>1, <1>2, <1>3, CallFrame

\* The request and the conditions of a call at a state of the invariant.
LEMMA CallFacts ==
  ASSUME IInv, NEW k \in Calls
  PROVE  /\ Shape /\ TypeOK /\ Tables /\ CallOK(k) /\ RequestOK(Request(k))
         /\ Request(k).op # "release" => Wallet(k) \in Wallets
         /\ call[k].user \in users \cup {None} /\ None \notin users \cup Challenges
         /\ \A c \in Challenges : Granted(k, c) => c \in consumed
<1>1. config \in Configs
  BY DEF IInv, TypeOK
<1> QED
  BY <1>1, RequestFact, AccountsAssumption DEF IInv, TypeOK, GrantedIsConsumed

\* What a step of a call makes of its record.
LEMMA AtFact ==
  ASSUME Shape, NEW k \in Calls, NEW pc, NEW u, NEW points, call' = At(k, pc, u, points)
  PROVE  OnlyCall(k) /\ Shape' /\ call'[k].pc = pc /\ call'[k].user = u /\ call'[k].points = points
  BY DEF Shape, OnlyCall, At

Primed(k) == Request(k)' = Request(k) /\ Wallet(k)' = Wallet(k)
\* A request stays what it is.
LEMMA RequestStays == ASSUME config' = config, NEW k PROVE Primed(k)
  BY DEF Primed, Request, Wallet, Proved, Linked

\* A refused call gives its condition up.
LEMMA Refusal ==
  ASSUME IInv, CallOnly, UNCHANGED consumed, NEW k \in Calls, call' = Fail(k)
  PROVE  IInv'
<1>1. /\ Shape /\ CallOK(k) /\ RequestOK(Request(k)) /\ Primed(k)
      /\ call[k].user \in users \cup {None}
      /\ \A c \in Challenges : Granted(k, c) => c \in consumed
  BY CallFacts, RequestStays DEF CallOnly
<1>2. OnlyCall(k) /\ Shape' /\ call'[k].pc = "failed" /\ call'[k].user = call[k].user
  BY <1>1, AtFact DEF Fail, Step
<1>3. CallOK(k)'
  BY <1>1, <1>2 DEF CallOK, RegisterOK, LinkOK, CallOnly, Primed
<1>4. \A c \in Challenges : ~Granted(k, c)'
  BY <1>2 DEF Granted
<1> QED
  BY <1>1, <1>2, <1>3, <1>4, StepFrame DEF CallOnly

-----------------------------------------------------------------------------
(* The steps of a call *)

\* A registration begins.
LEMMA StartRegisterStep ==
  ASSUME IInv, NEW k \in Calls, StartRegister(k)
  PROVE  IInv'
<1>1. CallOnly /\ Primed(k)
  BY CallFacts, RequestStays DEF StartRegister, CallOnly, TypeOK, CallOK, PcOf, RequestOK
<1>2. /\ Shape /\ TypeOK /\ Tables /\ CallOK(k) /\ RequestOK(Request(k))
      /\ Request(k).op # "release" => Wallet(k) \in Wallets
      /\ call[k].user \in users \cup {None} /\ None \notin users \cup Challenges
      /\ \A c \in Challenges : Granted(k, c) => c \in consumed
  BY CallFacts
<1>3. CASE ~Shown(Request(k))
  BY <1>1, <1>2, <1>3, Refusal DEF StartRegister, CallOnly, TypeOK
<1>4. CASE ~(~Shown(Request(k)))
  <2>1. OnlyCall(k) /\ Shape' /\ call'[k].pc = "find" /\ call'[k].user = call[k].user
    BY <1>1, <1>2, <1>4, AtFact DEF StartRegister, Step
  <2>2. CallOK(k)'
    BY <1>1, <1>2, <1>4, <2>1 DEF StartRegister, CallOK, RegisterOK, LinkOK, PcOf, CallOnly, Primed, RequestOK, Tables
  <2>3. \A c \in Challenges : Granted(k, c)' => c \in consumed' /\ (Granted(k, c) \/ c \notin consumed)
    BY <1>1, <1>2, <1>4, <2>1 DEF StartRegister, Granted, Primed, CallOnly, CallOK, PcOf, RequestOK
  <2> QED
    BY <1>1, <1>2, <1>4, <2>1, <2>2, <2>3, StepFrame DEF CallOnly, TypeOK
<1> QED
  BY <1>3, <1>4

\* A call of a user begins.
LEMMA StartUserStep ==
  ASSUME IInv, NEW k \in Calls, StartUser(k)
  PROVE  IInv'
<1>1. CallOnly /\ Primed(k)
  BY CallFacts, RequestStays DEF StartUser, CallOnly, TypeOK, CallOK, PcOf, RequestOK
<1>2. /\ Shape /\ TypeOK /\ Tables /\ CallOK(k) /\ RequestOK(Request(k))
      /\ Request(k).op # "release" => Wallet(k) \in Wallets
      /\ call[k].user \in users \cup {None} /\ None \notin users \cup Challenges
      /\ \A c \in Challenges : Granted(k, c) => c \in consumed
  BY CallFacts
<1>3. CASE Request(k).user \notin users \/ ~Shown(Request(k)) \/ owner[Proved(k)] # Request(k).user
  BY <1>1, <1>2, <1>3, Refusal DEF StartUser, CallOnly, TypeOK
<1>4. CASE ~(Request(k).user \notin users \/ ~Shown(Request(k)) \/ owner[Proved(k)] # Request(k).user)
  <2>1. OnlyCall(k) /\ Shape' /\ call'[k].pc = (IF Request(k).op = "link" THEN "other" ELSE "consume") /\ call'[k].user = Request(k).user
    BY <1>1, <1>2, <1>4, AtFact DEF StartUser, Step
  <2>2. CallOK(k)'
    BY <1>1, <1>2, <1>4, <2>1 DEF StartUser, CallOK, RegisterOK, LinkOK, PcOf, CallOnly, Primed, RequestOK, Tables
  <2>3. \A c \in Challenges : Granted(k, c)' => c \in consumed' /\ (Granted(k, c) \/ c \notin consumed)
    BY <1>1, <1>2, <1>4, <2>1 DEF StartUser, Granted, Primed, CallOnly, CallOK, PcOf, RequestOK
  <2> QED
    BY <1>1, <1>2, <1>4, <2>1, <2>2, <2>3, StepFrame DEF CallOnly, TypeOK
<1> QED
  BY <1>3, <1>4

\* A link looks at its second challenge.
LEMMA CheckOtherStep ==
  ASSUME IInv, NEW k \in Calls, CheckOther(k)
  PROVE  IInv'
<1>1. CallOnly /\ Primed(k)
  BY CallFacts, RequestStays DEF CheckOther, CallOnly, TypeOK, CallOK, PcOf, RequestOK
<1>2. /\ Shape /\ TypeOK /\ Tables /\ CallOK(k) /\ RequestOK(Request(k))
      /\ Request(k).op # "release" => Wallet(k) \in Wallets
      /\ call[k].user \in users \cup {None} /\ None \notin users \cup Challenges
      /\ \A c \in Challenges : Granted(k, c) => c \in consumed
  BY CallFacts
<1>3. CASE ~OtherShown(Request(k))
  BY <1>1, <1>2, <1>3, Refusal DEF CheckOther, CallOnly, TypeOK
<1>4. CASE ~(~OtherShown(Request(k)))
  <2>1. OnlyCall(k) /\ Shape' /\ call'[k].pc = "find" /\ call'[k].user = call[k].user
    BY <1>1, <1>2, <1>4, AtFact DEF CheckOther, Step
  <2>2. CallOK(k)'
    BY <1>1, <1>2, <1>4, <2>1 DEF CheckOther, CallOK, RegisterOK, LinkOK, PcOf, CallOnly, Primed, RequestOK, Tables
  <2>3. \A c \in Challenges : Granted(k, c)' => c \in consumed' /\ (Granted(k, c) \/ c \notin consumed)
    BY <1>1, <1>2, <1>4, <2>1 DEF CheckOther, Granted, Primed, CallOnly, CallOK, PcOf, RequestOK
  <2> QED
    BY <1>1, <1>2, <1>4, <2>1, <2>2, <2>3, StepFrame DEF CallOnly, TypeOK
<1> QED
  BY <1>3, <1>4

\* A wallet is looked up.
LEMMA FindWalletStep ==
  ASSUME IInv, NEW k \in Calls, FindWallet(k)
  PROVE  IInv'
<1>1. CallOnly /\ Primed(k)
  BY CallFacts, RequestStays DEF FindWallet, CallOnly, TypeOK, CallOK, PcOf, RequestOK
<1>2. /\ Shape /\ TypeOK /\ Tables /\ CallOK(k) /\ RequestOK(Request(k))
      /\ Request(k).op # "release" => Wallet(k) \in Wallets
      /\ call[k].user \in users \cup {None} /\ None \notin users \cup Challenges
      /\ \A c \in Challenges : Granted(k, c) => c \in consumed
  BY CallFacts
<1>3. CASE Request(k).op = "link" /\ owner[Wallet(k)] \notin {None, call[k].user}
  BY <1>1, <1>2, <1>3, Refusal DEF FindWallet, CallOnly, TypeOK
<1>4. CASE ~(Request(k).op = "link" /\ owner[Wallet(k)] \notin {None, call[k].user})
  <2>1. /\ OnlyCall(k) /\ Shape' /\ call'[k].pc \in {"resolve", "consume"}
        /\ Request(k).op = "link" => call'[k].pc = "consume" /\ call'[k].user = call[k].user
        /\ Request(k).op # "link" =>
             /\ call'[k].user = owner[Wallet(k)]
             /\ call'[k].pc = "resolve" <=> owner[Wallet(k)] = None /\ Request(k).ref # None
    <3>1. CASE Request(k).op = "link"
      <4>1. call' = At(k, "consume", call[k].user, call[k].points)
        BY <1>4, <3>1 DEF FindWallet, Step
      <4> QED
        BY <1>2, <3>1, <4>1, AtFact
    <3>2. CASE Request(k).op # "link"
      <4> DEFINE pc == IF owner[Wallet(k)] = None /\ Request(k).ref # None THEN "resolve" ELSE "consume"
      <4>1. call' = At(k, pc, owner[Wallet(k)], <<>>)
        BY <3>2 DEF FindWallet
      <4>2. OnlyCall(k) /\ Shape' /\ call'[k].pc = pc /\ call'[k].user = owner[Wallet(k)]
        BY <1>2, <4>1, AtFact
      <4> QED
        BY <3>2, <4>2
    <3> QED
      BY <3>1, <3>2
  <2>2. CallOK(k)'
    BY <1>1, <1>2, <1>4, <2>1 DEF FindWallet, CallOK, RegisterOK, LinkOK, PcOf, CallOnly, Primed, RequestOK, Tables
  <2>3. \A c \in Challenges : Granted(k, c)' => c \in consumed' /\ (Granted(k, c) \/ c \notin consumed)
    BY <1>1, <1>2, <1>4, <2>1 DEF FindWallet, Granted, Primed, CallOnly, CallOK, PcOf, RequestOK
  <2>4. call'[k].user \in users \cup {None}
    BY <1>2, <2>1 DEF FindWallet, CallOK, PcOf, RequestOK, Tables
  <2> QED
    BY <1>1, <2>1, <2>2, <2>3, <2>4, StepFrame
<1> QED
  BY <1>3, <1>4

\* The code of a referrer is resolved.
LEMMA ResolveStep ==
  ASSUME IInv, NEW k \in Calls, Resolve(k)
  PROVE  IInv'
<1>1. CallOnly /\ Primed(k)
  BY CallFacts, RequestStays DEF Resolve, CallOnly, TypeOK, CallOK, PcOf, RequestOK
<1>2. /\ Shape /\ TypeOK /\ Tables /\ CallOK(k) /\ RequestOK(Request(k))
      /\ Request(k).op # "release" => Wallet(k) \in Wallets
      /\ call[k].user \in users \cup {None} /\ None \notin users \cup Challenges
      /\ \A c \in Challenges : Granted(k, c) => c \in consumed
  BY CallFacts
<1>3. CASE Request(k).ref \notin users
  BY <1>1, <1>2, <1>3, Refusal DEF Resolve, CallOnly, TypeOK
<1>4. CASE ~(Request(k).ref \notin users)
  <2>1. OnlyCall(k) /\ Shape' /\ call'[k].pc = "consume" /\ call'[k].user = call[k].user
    BY <1>1, <1>2, <1>4, AtFact DEF Resolve, Step
  <2>2. CallOK(k)'
    BY <1>1, <1>2, <1>4, <2>1 DEF Resolve, CallOK, RegisterOK, LinkOK, PcOf, CallOnly, Primed, RequestOK, Tables
  <2>3. \A c \in Challenges : Granted(k, c)' => c \in consumed' /\ (Granted(k, c) \/ c \notin consumed)
    BY <1>1, <1>2, <1>4, <2>1 DEF Resolve, Granted, Primed, CallOnly, CallOK, PcOf, RequestOK
  <2> QED
    BY <1>1, <1>2, <1>4, <2>1, <2>2, <2>3, StepFrame DEF CallOnly, TypeOK
<1> QED
  BY <1>3, <1>4

\* A challenge is consumed.
LEMMA ConsumeStep ==
  ASSUME IInv, NEW k \in Calls, Consume(k)
  PROVE  IInv'
<1>0. Request(k).challenge \in Challenges
  BY CallFacts DEF Consume, CallOK, PcOf, RequestOK
<1>1. CallOnly /\ Primed(k)
  <2>1. consumed \subseteq consumed' /\ consumed' \subseteq consumed \cup {Request(k).challenge}
    BY DEF Consume
  <2> QED BY <1>0, <2>1, CallFacts, RequestStays DEF Consume, CallOnly, TypeOK
<1>2. /\ Shape /\ TypeOK /\ Tables /\ CallOK(k) /\ RequestOK(Request(k))
      /\ Request(k).op # "release" => Wallet(k) \in Wallets
      /\ call[k].user \in users \cup {None} /\ None \notin users \cup Challenges
      /\ \A c \in Challenges : Granted(k, c) => c \in consumed
  BY CallFacts
<1>3. CASE ~Consumable(Request(k).challenge)
  BY <1>1, <1>2, <1>3, Refusal DEF Consume, CallOnly, TypeOK
<1>4. CASE ~(~Consumable(Request(k).challenge))
  <2>1. OnlyCall(k) /\ Shape' /\ call'[k].pc = AfterConsume(k) /\ call'[k].user = call[k].user
    BY <1>1, <1>2, <1>4, AtFact DEF Consume, Step
  <2>2. CallOK(k)'
    BY <1>1, <1>2, <1>4, <2>1 DEF Consume, CallOK, RegisterOK, LinkOK, PcOf, CallOnly, Primed, RequestOK, Tables, AfterConsume
  <2>3. \A c \in Challenges : Granted(k, c)' => c \in consumed' /\ (Granted(k, c) \/ c \notin consumed)
    BY <1>1, <1>2, <1>4, <2>1 DEF Consume, Granted, Primed, CallOnly, CallOK, PcOf, RequestOK, Consumable, AfterConsume
  <2> QED
    BY <1>1, <1>2, <1>4, <2>1, <2>2, <2>3, StepFrame DEF CallOnly, TypeOK
<1> QED
  BY <1>3, <1>4

\* The second challenge of a link is consumed.
LEMMA ConsumeOtherStep ==
  ASSUME IInv, NEW k \in Calls, ConsumeOther(k)
  PROVE  IInv'
<1>0. Request(k).other \in Challenges
  BY CallFacts DEF ConsumeOther, CallOK, PcOf, RequestOK
<1>1. CallOnly /\ Primed(k)
  <2>1. consumed \subseteq consumed' /\ consumed' \subseteq consumed \cup {Request(k).other}
    BY DEF ConsumeOther
  <2> QED BY <1>0, <2>1, CallFacts, RequestStays DEF ConsumeOther, CallOnly, TypeOK
<1>2. /\ Shape /\ TypeOK /\ Tables /\ CallOK(k) /\ RequestOK(Request(k))
      /\ Request(k).op # "release" => Wallet(k) \in Wallets
      /\ call[k].user \in users \cup {None} /\ None \notin users \cup Challenges
      /\ \A c \in Challenges : Granted(k, c) => c \in consumed
  BY CallFacts
<1>3. CASE ~Consumable(Request(k).other)
  BY <1>1, <1>2, <1>3, Refusal DEF ConsumeOther, CallOnly, TypeOK
<1>4. CASE ~(~Consumable(Request(k).other))
  <2>1. OnlyCall(k) /\ Shape' /\ call'[k].pc = "save" /\ call'[k].user = call[k].user
    BY <1>1, <1>2, <1>4, AtFact DEF ConsumeOther, Step
  <2>2. CallOK(k)'
    BY <1>1, <1>2, <1>4, <2>1 DEF ConsumeOther, CallOK, RegisterOK, LinkOK, PcOf, CallOnly, Primed, RequestOK, Tables
  <2>3. \A c \in Challenges : Granted(k, c)' => c \in consumed' /\ (Granted(k, c) \/ c \notin consumed)
    BY <1>1, <1>2, <1>4, <2>1 DEF ConsumeOther, Granted, Primed, CallOnly, CallOK, PcOf, RequestOK, Consumable
  <2> QED
    BY <1>1, <1>2, <1>4, <2>1, <2>2, <2>3, StepFrame DEF CallOnly, TypeOK
<1> QED
  BY <1>3, <1>4

\* A release of the trade begins.
LEMMA StartReleaseStep ==
  ASSUME IInv, NEW k \in Calls, StartRelease(k)
  PROVE  IInv'
<1>1. CallOnly /\ Primed(k)
  BY CallFacts, RequestStays DEF StartRelease, CallOnly, TypeOK, CallOK, PcOf, RequestOK
<1>2. /\ Shape /\ TypeOK /\ Tables /\ CallOK(k) /\ RequestOK(Request(k))
      /\ Request(k).op # "release" => Wallet(k) \in Wallets
      /\ call[k].user \in users \cup {None} /\ None \notin users \cup Challenges
      /\ \A c \in Challenges : Granted(k, c) => c \in consumed
  BY CallFacts
<1>3. CASE released
  BY <1>1, <1>2, <1>3, Refusal DEF StartRelease, CallOnly, TypeOK
<1>4. CASE ~(released)
  <2>1. OnlyCall(k) /\ Shape' /\ call'[k].pc = "update" /\ call'[k].user = call[k].user
    BY <1>1, <1>2, <1>4, AtFact DEF StartRelease, Step
  <2>2. CallOK(k)'
    BY <1>1, <1>2, <1>4, <2>1 DEF StartRelease, CallOK, RegisterOK, LinkOK, PcOf, CallOnly, Primed, RequestOK, Tables
  <2>3. \A c \in Challenges : Granted(k, c)' => c \in consumed' /\ (Granted(k, c) \/ c \notin consumed)
    BY <1>1, <1>2, <1>4, <2>1 DEF StartRelease, Granted, Primed, CallOnly, CallOK, PcOf, RequestOK
  <2> QED
    BY <1>1, <1>2, <1>4, <2>1, <2>2, <2>3, StepFrame DEF CallOnly, TypeOK
<1> QED
  BY <1>3, <1>4

\* A party of the trade is looked up.
LEMMA FindPartyStep ==
  ASSUME IInv, NEW k \in Calls, FindParty(k)
  PROVE  IInv'
<1>1. CallOnly /\ Primed(k)
  BY CallFacts, RequestStays DEF FindParty, CallOnly, TypeOK, CallOK, PcOf, RequestOK
<1>2. /\ Shape /\ TypeOK /\ Tables /\ CallOK(k) /\ RequestOK(Request(k))
      /\ Request(k).op # "release" => Wallet(k) \in Wallets
      /\ call[k].user \in users \cup {None} /\ None \notin users \cup Challenges
      /\ \A c \in Challenges : Granted(k, c) => c \in consumed
  BY CallFacts
<1>3. OnlyCall(k) /\ Shape' /\ call'[k].pc \in {"seller", "award"} /\ call'[k].user = call[k].user
  BY <1>1, <1>2, AtFact DEF FindParty, Step
<1>4. CallOK(k)'
  BY <1>1, <1>2, <1>3 DEF FindParty, CallOK, RegisterOK, LinkOK, PcOf, CallOnly, Primed, RequestOK, Tables
<1>5. \A c \in Challenges : Granted(k, c)' => c \in consumed' /\ (Granted(k, c) \/ c \notin consumed)
  BY <1>1, <1>2, <1>3 DEF FindParty, Granted, Primed, CallOnly, CallOK, PcOf, RequestOK
<1> QED
  BY <1>1, <1>2, <1>3, <1>4, <1>5, StepFrame DEF CallOnly, TypeOK

\* A point event is saved.
LEMMA SavePointsStep ==
  ASSUME IInv, NEW k \in Calls, SavePoints(k)
  PROVE  IInv'
<1>1. CallOnly /\ Primed(k)
  BY CallFacts, RequestStays DEF SavePoints, CallOnly, TypeOK, CallOK, PcOf, RequestOK
<1>2. /\ Shape /\ TypeOK /\ Tables /\ CallOK(k) /\ RequestOK(Request(k))
      /\ Request(k).op # "release" => Wallet(k) \in Wallets
      /\ call[k].user \in users \cup {None} /\ None \notin users \cup Challenges
      /\ \A c \in Challenges : Granted(k, c) => c \in consumed
  BY CallFacts
<1>3. OnlyCall(k) /\ Shape' /\ call'[k].pc \in {"bonus", "award"} /\ call'[k].user = call[k].user
  BY <1>1, <1>2, AtFact DEF SavePoints, Step
<1>4. CallOK(k)'
  BY <1>1, <1>2, <1>3 DEF SavePoints, CallOK, RegisterOK, LinkOK, PcOf, CallOnly, Primed, RequestOK, Tables
<1>5. \A c \in Challenges : Granted(k, c)' => c \in consumed' /\ (Granted(k, c) \/ c \notin consumed)
  BY <1>1, <1>2, <1>3 DEF SavePoints, Granted, Primed, CallOnly, CallOK, PcOf, RequestOK
<1> QED
  BY <1>1, <1>2, <1>3, <1>4, <1>5, StepFrame DEF CallOnly, TypeOK

\* The referrer's bonus is saved.
LEMMA SaveBonusStep ==
  ASSUME IInv, NEW k \in Calls, SaveBonus(k)
  PROVE  IInv'
<1>1. CallOnly /\ Primed(k)
  BY CallFacts, RequestStays DEF SaveBonus, CallOnly, TypeOK, CallOK, PcOf, RequestOK
<1>2. /\ Shape /\ TypeOK /\ Tables /\ CallOK(k) /\ RequestOK(Request(k))
      /\ Request(k).op # "release" => Wallet(k) \in Wallets
      /\ call[k].user \in users \cup {None} /\ None \notin users \cup Challenges
      /\ \A c \in Challenges : Granted(k, c) => c \in consumed
  BY CallFacts
<1>3. OnlyCall(k) /\ Shape' /\ call'[k].pc = "award" /\ call'[k].user = call[k].user
  BY <1>1, <1>2, AtFact DEF SaveBonus, Step
<1>4. CallOK(k)'
  BY <1>1, <1>2, <1>3 DEF SaveBonus, CallOK, RegisterOK, LinkOK, PcOf, CallOnly, Primed, RequestOK, Tables
<1>5. \A c \in Challenges : Granted(k, c)' => c \in consumed' /\ (Granted(k, c) \/ c \notin consumed)
  BY <1>1, <1>2, <1>3 DEF SaveBonus, Granted, Primed, CallOnly, CallOK, PcOf, RequestOK
<1> QED
  BY <1>1, <1>2, <1>3, <1>4, <1>5, StepFrame DEF CallOnly, TypeOK

\* All points are given.
LEMMA EndAwardStep ==
  ASSUME IInv, NEW k \in Calls, EndAward(k)
  PROVE  IInv'
<1>1. CallOnly /\ Primed(k)
  BY CallFacts, RequestStays DEF EndAward, CallOnly, TypeOK, CallOK, PcOf, RequestOK
<1>2. /\ Shape /\ TypeOK /\ Tables /\ CallOK(k) /\ RequestOK(Request(k))
      /\ Request(k).op # "release" => Wallet(k) \in Wallets
      /\ call[k].user \in users \cup {None} /\ None \notin users \cup Challenges
      /\ \A c \in Challenges : Granted(k, c) => c \in consumed
  BY CallFacts
<1>3. OnlyCall(k) /\ Shape' /\ call'[k].pc = "done" /\ call'[k].user = call[k].user
  BY <1>1, <1>2, AtFact DEF EndAward, Step
<1>4. CallOK(k)'
  BY <1>1, <1>2, <1>3 DEF EndAward, CallOK, RegisterOK, LinkOK, PcOf, CallOnly, Primed, RequestOK, Tables
<1>5. \A c \in Challenges : Granted(k, c)' => c \in consumed' /\ (Granted(k, c) \/ c \notin consumed)
  BY <1>1, <1>2, <1>3 DEF EndAward, Granted, Primed, CallOnly, CallOK, PcOf, RequestOK
<1> QED
  BY <1>1, <1>2, <1>3, <1>4, <1>5, StepFrame DEF CallOnly, TypeOK

\* saveUser finds the wallet taken and answers with its user, or goes on to insert; a
\* link finds it taken by another user and is refused.
LEMMA FindSavedStep ==
  ASSUME IInv, NEW k \in Calls, FindSaved(k)
  PROVE  IInv'
<1>1. CallOnly /\ consumed' = consumed /\ Primed(k)
  BY CallFacts, RequestStays DEF FindSaved, CallOnly, TypeOK
<1>2. /\ Shape /\ TypeOK /\ Tables /\ CallOK(k) /\ RequestOK(Request(k))
      /\ Request(k).op # "release" => Wallet(k) \in Wallets
      /\ call[k].user \in users \cup {None} /\ None \notin users \cup Challenges
      /\ \A c \in Challenges : Granted(k, c) => c \in consumed
  BY CallFacts
<1>3. \A c \in {Request(k).challenge, Request(k).other} : Granted(k, c)
  BY DEF FindSaved, Granted
<1>4. CASE call' = Fail(k)
  BY <1>1, <1>4, Refusal DEF CallOnly
<1>5. CASE call' = Step(k, "insert")
  <2>1. OnlyCall(k) /\ Shape' /\ call'[k].pc = "insert" /\ call'[k].user = call[k].user
    BY <1>2, <1>5, AtFact DEF Step
  <2>2. CallOK(k)'
    BY <1>1, <1>2, <2>1 DEF FindSaved, CallOK, RegisterOK, LinkOK, PcOf, CallOnly, Primed, RequestOK
  <2>3. \A c \in Challenges : Granted(k, c)' => Granted(k, c)
    BY <1>1, <1>3 DEF Granted, Primed
  <2> QED
    BY <1>1, <1>2, <2>1, <2>2, <2>3, StepFrame DEF CallOnly
<1>6. CASE /\ Request(k).op = "register" /\ owner[Wallet(k)] # None
           /\ call' = At(k, "award", owner[Wallet(k)], SignupPoints(k, owner[Wallet(k)], referrer[owner[Wallet(k)]]))
  <2>1. OnlyCall(k) /\ Shape' /\ call'[k].pc = "award" /\ call'[k].user = owner[Wallet(k)]
    BY <1>2, <1>6, AtFact
  <2>2. CallOK(k)'
    BY <1>1, <1>2, <1>6, <2>1 DEF CallOK, RegisterOK, PcOf, CallOnly, Primed, RequestOK, Tables
  <2>3. \A c \in Challenges : Granted(k, c)' => Granted(k, c)
    BY <1>1, <1>3 DEF Granted, Primed
  <2>4. call'[k].user \in users \cup {None}
    BY <1>2, <1>6, <2>1 DEF Tables
  <2> QED
    BY <1>1, <1>2, <2>1, <2>2, <2>3, <2>4, StepFrame DEF CallOnly
<1> QED
  BY <1>2, <1>4, <1>5, <1>6 DEF FindSaved

\* What the steps that write users, wallets or orders have in common.
LEMMA WriteFrame ==
  ASSUME IInv, NEW k \in Calls, config' = config, UNCHANGED <<issued, consumed, expired, released, faults>>,
         users \subseteq users', users' \subseteq Accounts, orders' \subseteq Calls, Tables',
         \A w \in Wallets : owner[w] # None => owner'[w] = owner[w],
         \A u \in users' : \E w \in Wallets : owner'[w] = u,
         OnlyCall(k), Shape', call'[k].user \in users' \cup {None}, CallOK(k)',
         \A c \in Challenges : Granted(k, c)' => Granted(k, c)
  PROVE  IInv'
<1>1. Grows
  BY DEF Grows
<1>2. TypeOK'
  BY DEF IInv, TypeOK, OnlyCall, Tables
<1>3. \A c \in Challenges : Granted(k, c) => c \in consumed
  BY CallFacts
<1> QED
  BY <1>1, <1>2, <1>3, CallFrame

\* A registration stores its user with the wallet it has proved, or rolls back.
LEMMA InsertUserStep ==
  ASSUME IInv, NEW k \in Calls, InsertUser(k)
  PROVE  IInv'
<1>1. Primed(k) /\ config' = config
  BY RequestStays DEF InsertUser
<1>2. /\ Shape /\ TypeOK /\ Tables /\ CallOK(k) /\ RequestOK(Request(k))
      /\ Request(k).op # "release" => Wallet(k) \in Wallets
      /\ call[k].user \in users \cup {None} /\ None \notin users \cup Challenges
      /\ \A c \in Challenges : Granted(k, c) => c \in consumed
  BY CallFacts
<1>3. CASE RolledBack(k)
  BY <1>2, <1>3, Refusal DEF InsertUser, CallOnly, TypeOK
<1>4. CASE ~RolledBack(k)
  <2>1. OnlyCall(k) /\ Shape' /\ call'[k].pc = "award" /\ call'[k].user = k
    BY <1>2, <1>4, AtFact DEF InsertUser
  <2>2. /\ users' = users \cup {k} /\ referrer' = [referrer EXCEPT ![k] = Request(k).ref]
        /\ owner' = [owner EXCEPT ![Wallet(k)] = k]
        /\ Wallet(k) \in Wallets /\ owner[Wallet(k)] = None /\ k \in Accounts
    BY <1>2, <1>4 DEF InsertUser, RolledBack, Accounts
  <2>3. Request(k).ref \in users \cup {None}
    BY <1>2 DEF InsertUser, CallOK, RegisterOK
  <2>4. Tables'
    BY <1>2, <2>2, <2>3 DEF Tables
  <2>5. /\ \A w \in Wallets : owner[w] # None => owner'[w] = owner[w]
        /\ owner'[Wallet(k)] = k
    BY <1>2, <2>2 DEF Tables
  <2>6. \A u \in users' : \E w \in Wallets : owner'[w] = u
    BY <1>2, <2>2, <2>5 DEF TypeOK
  <2>7. CallOK(k)'
    BY <1>1, <1>2, <2>1, <2>2, <2>5, AccountsAssumption DEF InsertUser, CallOK, RegisterOK, PcOf, Primed, RequestOK
  <2>8. \A c \in Challenges : Granted(k, c)' => Granted(k, c)
    BY <1>1, <1>2, <2>1 DEF InsertUser, Granted, Primed, RequestOK
  <2>9. users \subseteq users' /\ users' \subseteq Accounts /\ orders' \subseteq Calls
    BY <1>2, <2>2 DEF InsertUser, TypeOK
  <2> QED
    BY <1>1, <2>1, <2>2, <2>4, <2>5, <2>6, <2>7, <2>8, <2>9, WriteFrame DEF InsertUser
<1> QED
  BY <1>3, <1>4

\* A link inserts its wallet unless another user has it.
LEMMA InsertWalletStep ==
  ASSUME IInv, NEW k \in Calls, InsertWallet(k)
  PROVE  IInv'
<1> DEFINE saved == IF owner[Wallet(k)] = None THEN call[k].user ELSE owner[Wallet(k)]
<1>1. Primed(k) /\ config' = config
  BY RequestStays DEF InsertWallet
<1>2. /\ Shape /\ TypeOK /\ Tables /\ CallOK(k) /\ RequestOK(Request(k))
      /\ Request(k).op # "release" => Wallet(k) \in Wallets
      /\ call[k].user \in users \cup {None} /\ None \notin users \cup Challenges
      /\ \A c \in Challenges : Granted(k, c) => c \in consumed
  BY CallFacts
<1>3. CASE Refused(saved, call[k].user)
  BY <1>2, <1>3, Refusal DEF InsertWallet, CallOnly, TypeOK
<1>4. CASE ~Refused(saved, call[k].user)
  <2>1. call[k].user = Request(k).user /\ Request(k).user \in users /\ Wallet(k) \in Wallets
    BY <1>2 DEF InsertWallet, CallOK, LinkOK
  <2>2. saved = call[k].user
    BY <1>4 DEF Refused
  <2>3. OnlyCall(k) /\ Shape' /\ call'[k].pc = "done" /\ call'[k].user = call[k].user
    BY <1>2, <1>4, <2>2, AtFact DEF InsertWallet
  <2>4. owner' = [owner EXCEPT ![Wallet(k)] = call[k].user]
    BY <1>4, <2>2 DEF InsertWallet
  <2>5. UNCHANGED <<users, referrer, orders, issued, consumed, expired, released, faults>>
    BY DEF InsertWallet
  <2>6. Tables'
    BY <1>2, <2>1, <2>4, <2>5 DEF Tables
  <2>7. /\ \A w \in Wallets : owner[w] # None => owner'[w] = owner[w]
        /\ owner'[Wallet(k)] = call[k].user
    BY <1>2, <2>1, <2>2, <2>4 DEF Tables
  <2>8. \A u \in users' : \E w \in Wallets : owner'[w] = u
    <3>1. \A u \in users : \E w \in Wallets : owner[w] = u /\ u # None
      BY <1>2 DEF TypeOK
    <3> QED
      BY <2>5, <2>7, <3>1
  <2>9. CallOK(k)'
    BY <1>1, <1>2, <2>1, <2>3, <2>5, <2>7 DEF InsertWallet, CallOK, LinkOK, PcOf, Primed, RequestOK
  <2>10. \A c \in Challenges : Granted(k, c)' => Granted(k, c)
    BY <1>1, <1>2, <2>3 DEF InsertWallet, Granted, Primed, RequestOK
  <2> QED
    BY <1>1, <1>2, <2>1, <2>3, <2>5, <2>6, <2>7, <2>8, <2>9, <2>10, WriteFrame DEF TypeOK
<1> QED
  BY <1>3, <1>4

\* An order is saved for the user that was proved.
LEMMA SaveOrderStep ==
  ASSUME IInv, NEW k \in Calls, SaveOrder(k)
  PROVE  IInv'
<1>1. Primed(k) /\ config' = config
  BY RequestStays DEF SaveOrder
<1>2. /\ Shape /\ TypeOK /\ Tables /\ CallOK(k) /\ RequestOK(Request(k))
      /\ call[k].user \in users \cup {None} /\ None \notin users \cup Challenges
      /\ \A c \in Challenges : Granted(k, c) => c \in consumed
  BY CallFacts
<1>3. OnlyCall(k) /\ Shape' /\ call'[k].pc = "award" /\ call'[k].user = call[k].user
  BY <1>2, AtFact DEF SaveOrder
<1>4. UNCHANGED <<users, owner, referrer, issued, consumed, expired, released, faults>> /\ orders' = orders \cup {k}
  BY DEF SaveOrder
<1>5. CallOK(k)'
  BY <1>1, <1>2, <1>3 DEF SaveOrder, CallOK, PcOf, Primed, RequestOK
<1>6. \A c \in Challenges : Granted(k, c)' => Granted(k, c)
  BY <1>1, <1>2, <1>3 DEF SaveOrder, Granted, Primed, RequestOK
<1>7. Tables' /\ users' \subseteq Accounts /\ orders' \subseteq Calls
  BY <1>2, <1>4 DEF Tables, TypeOK
<1>8. \A u \in users' : \E w \in Wallets : owner'[w] = u
  BY <1>2, <1>4 DEF TypeOK
<1> QED
  BY <1>1, <1>2, <1>3, <1>4, <1>5, <1>6, <1>7, <1>8, WriteFrame

\* UpdateTrade changes the state of the trade only.
LEMMA UpdateTradeStep ==
  ASSUME IInv, NEW k \in Calls, UpdateTrade(k)
  PROVE  IInv'
<1>1. Primed(k)
  BY RequestStays DEF UpdateTrade
<1>2. /\ Shape /\ TypeOK /\ Tables /\ CallOK(k) /\ RequestOK(Request(k))
      /\ call[k].user \in users \cup {None} /\ None \notin users \cup Challenges
  BY CallFacts
<1>3. OnlyCall(k) /\ Shape' /\ call'[k].pc = "buyer" /\ call'[k].user = call[k].user
  BY <1>2, AtFact DEF UpdateTrade, Step
<1>4. CallOK(k)'
  BY <1>1, <1>2, <1>3 DEF UpdateTrade, CallOK, PcOf, Primed, RequestOK
<1>5. \A c \in Challenges : ~Granted(k, c)'
  BY <1>3 DEF Granted
<1>6. TypeOK' /\ Tables' /\ Grows
  BY <1>2, <1>3 DEF UpdateTrade, TypeOK, Tables, Grows, OnlyCall
<1> QED
  BY <1>3, <1>4, <1>5, <1>6, CallFrame

\* A call that ends half-way keeps nothing but what is stored.
LEMMA CallFailsStep ==
  ASSUME IInv, NEW k \in Calls, CallFails(k)
  PROVE  IInv'
<1>1. TypeOK
  BY DEF IInv
<1>2. CallOnly /\ consumed' = consumed
  BY <1>1, AccountsAssumption DEF CallFails, CallOnly, TypeOK
<1> QED
  BY <1>2, Refusal DEF CallFails

\* A new challenge lets no call through, and expiry takes nothing back.
LEMMA ChallengeStep ==
  ASSUME IInv, NEW c \in Challenges, IssueChallenge(c) \/ Expire(c)
  PROVE  IInv'
<1>1. Grows /\ call' = call
  BY DEF IssueChallenge, Expire, Grows
<1>2. TypeOK' /\ Tables' /\ Shape'
  BY DEF IInv, TypeOK, Tables, Shape, IssueChallenge, Expire
<1>3. \A k \in Calls : CallOK(k)' /\ (\A d \in Challenges : Granted(k, d)' <=> Granted(k, d))
  BY <1>1, OtherCall
<1>4. GrantedIsConsumed' /\ OneGrant'
  BY <1>1, <1>3 DEF IInv, GrantedIsConsumed, OneGrant, Grows
<1> QED
  BY <1>2, <1>3, <1>4 DEF IInv

-----------------------------------------------------------------------------
(* The invariant *)

\* The invariant holds at the start: no call has begun, and every user has a wallet.
LEMMA InitIInv == Init => IInv
<1> SUFFICES ASSUME Init PROVE IInv
  OBVIOUS
<1>1. config \in Configs /\ owner = config.owner /\ referrer = config.referrer /\ users = Users
  BY DEF Init
<1>2. \A k \in Calls : call[k].pc = "idle" /\ call[k].user = None /\ call[k].points = <<>>
  BY DEF Init
<1>3. Shape
  BY <1>2 DEF Init, Shape
<1>4. Tables
  BY <1>1, AccountsAssumption DEF Tables
<1>5. TypeOK
  <2>1. \A u \in users : \E w \in Wallets : owner[w] = u
    BY <1>1, AccountsAssumption
  <2>2. /\ \A w \in Wallets : owner[w] \in users \cup {None}
        /\ \A u \in Accounts : referrer[u] \in users \cup {None}
    BY <1>4 DEF Tables
  <2>3. faults \in 0..MaxFaults
    BY AccountsAssumption DEF Init
  <2>4. Users \subseteq users /\ users \subseteq Accounts
    BY <1>1 DEF Accounts
  <2> QED
    BY <1>1, <1>2, <2>1, <2>2, <2>3, <2>4 DEF Init, TypeOK
<1>6. \A k \in Calls : CallOK(k)
  BY <1>2 DEF CallOK, RegisterOK, LinkOK
<1>7. GrantedIsConsumed /\ OneGrant
  BY <1>2 DEF GrantedIsConsumed, OneGrant, Granted
<1> QED
  BY <1>3, <1>4, <1>5, <1>6, <1>7 DEF IInv

\* Every step keeps the invariant.
LEMMA NextIInv == IInv /\ [Next]_vars => IInv'
<1> SUFFICES ASSUME IInv, [Next]_vars PROVE IInv'
  OBVIOUS
<1>1. ASSUME NEW k \in Calls, CallStep(k) PROVE IInv'
  BY <1>1, StartRegisterStep, StartUserStep, CheckOtherStep, FindWalletStep, ResolveStep, ConsumeStep,
     ConsumeOtherStep, FindSavedStep, InsertUserStep, InsertWalletStep, SaveOrderStep,
     StartReleaseStep, UpdateTradeStep, FindPartyStep, SavePointsStep, SaveBonusStep, EndAwardStep
  DEF CallStep
<1>2. ASSUME NEW k \in Calls, CallFails(k) PROVE IInv'
  BY <1>2, CallFailsStep
<1>3. ASSUME NEW c \in Challenges, IssueChallenge(c) \/ Expire(c) PROVE IInv'
  BY <1>3, ChallengeStep
<1>4. CASE UNCHANGED vars
  <2>1. Grows /\ call' = call
    BY <1>4 DEF vars, Grows
  <2>2. TypeOK' /\ Tables' /\ Shape'
    BY <1>4 DEF IInv, TypeOK, Tables, Shape, vars
  <2>3. \A k \in Calls : CallOK(k)' /\ (\A d \in Challenges : Granted(k, d)' <=> Granted(k, d))
    BY <2>1, OtherCall
  <2>4. GrantedIsConsumed' /\ OneGrant'
    BY <2>1, <2>3 DEF IInv, GrantedIsConsumed, OneGrant, Grows
  <2> QED
    BY <2>2, <2>3, <2>4 DEF IInv
<1> QED
  BY <1>1, <1>2, <1>3, <1>4 DEF Next

\* A call that has got past the check of a challenge carries its wallet's signature
\* over its message.
Proven(c, signature) == c \in issued /\ signature = <<WalletOf[c], c>>
SignedOK(k) ==
  /\ Request(k).op # "release" /\ call[k].pc \notin {"idle", "failed"} =>
       Proven(Request(k).challenge, Request(k).signature)
  /\ Request(k).op = "link" /\ call[k].pc \notin {"idle", "failed", "other"} =>
       Proven(Request(k).other, Request(k).otherSignature)
SignedInv == \A k \in Calls : SignedOK(k)

\* What is proven stays so.
LEMMA ProvenStays ==
  ASSUME config' = config, issued \subseteq issued', NEW k \in Calls
  PROVE  /\ Request(k)' = Request(k)
         /\ Proven(Request(k).challenge, Request(k).signature)
              => Proven(Request(k).challenge, Request(k).signature)'
         /\ Proven(Request(k).other, Request(k).otherSignature)
              => Proven(Request(k).other, Request(k).otherSignature)'
BY DEF Request, Proven

\* Only the first steps of a call take it past a check; every other one follows them.
LEMMA LaterStep ==
  ASSUME TypeOK, Shape, NEW k \in Calls, CallStep(k) \/ CallFails(k)
  PROVE  /\ config' = config /\ issued' = issued /\ OnlyCall(k)
         /\ \/ StartRegister(k) \/ StartUser(k) \/ CheckOther(k) \/ StartRelease(k)
            \/ call[k].pc \notin {"idle", "failed", "other"}
            \/ call'[k].pc = "failed"
<1> USE DEF OnlyCall, Step, Fail, At
<1>1. CASE StartRegister(k) \/ StartUser(k) \/ CheckOther(k) \/ FindWallet(k) \/ Resolve(k)
  BY <1>1 DEF StartRegister, StartUser, CheckOther, FindWallet, Resolve, Shape
<1>2. CASE Consume(k) \/ ConsumeOther(k) \/ FindSaved(k) \/ InsertUser(k) \/ InsertWallet(k)
  BY <1>2 DEF Consume, ConsumeOther, FindSaved, InsertUser, InsertWallet, Shape
<1>3. CASE SaveOrder(k) \/ StartRelease(k) \/ UpdateTrade(k) \/ FindParty(k)
  BY <1>3 DEF SaveOrder, StartRelease, UpdateTrade, FindParty, Shape
<1>4. CASE SavePoints(k) \/ SaveBonus(k) \/ EndAward(k)
  BY <1>4 DEF SavePoints, SaveBonus, EndAward, Shape
<1>5. CASE CallFails(k)
  BY <1>5 DEF CallFails, Shape
<1> QED BY <1>1, <1>2, <1>3, <1>4, <1>5 DEF CallStep

\* Every step keeps the signatures of the calls in flight checked.
LEMMA NextSigned == IInv /\ SignedInv /\ [Next]_vars => SignedInv'
<1> SUFFICES ASSUME IInv, SignedInv, [Next]_vars PROVE SignedInv'
  OBVIOUS
<1>1. ASSUME NEW l \in Calls, config' = config, issued \subseteq issued', call'[l] = call[l]
      PROVE  SignedOK(l)'
  BY <1>1, ProvenStays DEF SignedInv, SignedOK
<1>2. ASSUME NEW k \in Calls, CallStep(k) \/ CallFails(k) PROVE SignedInv'
  <2>1. /\ config' = config /\ issued' = issued /\ OnlyCall(k)
        /\ \/ StartRegister(k) \/ StartUser(k) \/ CheckOther(k) \/ StartRelease(k)
           \/ call[k].pc \notin {"idle", "failed", "other"}
           \/ call'[k].pc = "failed"
    BY <1>2, LaterStep DEF IInv
  <2>2. Request(k)' = Request(k) /\ Shape /\ SignedOK(k)
    BY <2>1, ProvenStays DEF IInv, SignedInv
  <2>3. SignedOK(k)'
    <3>1. CASE call'[k].pc = "failed"
      BY <3>1, <2>2 DEF SignedOK
    <3>2. CASE call[k].pc \notin {"idle", "failed", "other"}
      BY <3>2, <2>1, <2>2, ProvenStays DEF SignedOK
    <3>3. CASE StartRegister(k)
      <4>1. Request(k).op = "register"
        BY <3>3 DEF StartRegister
      <4>2. Shown(Request(k)) \/ call'[k].pc = "failed"
        BY <3>3, <2>2 DEF StartRegister, Fail, Step, At, Shape
      <4> QED BY <4>1, <4>2, <2>1, <2>2, ProvenStays DEF SignedOK, Shown, Usable, Verifies, Proven
    <3>4. CASE StartUser(k)
      <4>1. \/ Shown(Request(k)) /\ (Request(k).op = "link" => call'[k].pc = "other")
            \/ call'[k].pc = "failed"
        BY <3>4, <2>2 DEF StartUser, Fail, Step, At, Shape
      <4> QED BY <4>1, <2>1, <2>2, ProvenStays DEF SignedOK, Shown, Usable, Verifies, Proven
    <3>5. CASE CheckOther(k)
      <4>1. call[k].pc = "other"
        BY <3>5 DEF CheckOther
      <4>2. OtherShown(Request(k)) \/ call'[k].pc = "failed"
        BY <3>5, <2>2 DEF CheckOther, Fail, Step, At, Shape
      <4> QED BY <4>1, <4>2, <2>1, <2>2, ProvenStays DEF SignedOK, OtherShown, Usable, Verifies, Proven
    <3>6. CASE StartRelease(k)
      <4>1. Request(k).op = "release"
        BY <3>6 DEF StartRelease
      <4> QED BY <4>1, <2>2 DEF SignedOK
    <3> QED BY <2>1, <3>1, <3>2, <3>3, <3>4, <3>5, <3>6
  <2> QED BY <1>1, <2>1, <2>3 DEF OnlyCall, SignedInv
<1>3. CASE \E c \in Challenges : IssueChallenge(c) \/ Expire(c)
  BY <1>1, <1>3 DEF IssueChallenge, Expire, SignedInv
<1>4. CASE UNCHANGED vars
  BY <1>1, <1>4 DEF vars, SignedInv
<1> QED BY <1>2, <1>3, <1>4 DEF Next

\* The two invariants imply that grants are proven.
LEMMA IInvGrants == IInv /\ SignedInv => GrantsAreProven
<1> SUFFICES ASSUME IInv, SignedInv PROVE GrantsAreProven
  OBVIOUS
<1>1. ASSUME NEW k \in Calls, Answered(k)
      PROVE  /\ owner[Wallet(k)] = call[k].user
             /\ Request(k).op = "link" => call[k].user = Request(k).user
  <2>1. CallOK(k)
    BY DEF IInv
  <2> QED
    BY <1>1, <2>1 DEF Answered, CallOK, RegisterOK, LinkOK, PcOf
<1>2. ASSUME NEW k \in Calls, NEW c \in Challenges, Granted(k, c)
      PROVE  /\ c \in issued
             /\ \/ c = Request(k).challenge /\ Request(k).signature = <<WalletOf[c], c>>
                \/ c = Request(k).other /\ Request(k).otherSignature = <<WalletOf[c], c>>
  <2>1. SignedOK(k) /\ RequestOK(Request(k)) /\ CallOK(k)
    BY CallFacts DEF SignedInv
  <2>2. c # None
    BY AccountsAssumption
  <2> QED BY <1>2, <2>1, <2>2 DEF Granted, SignedOK, RequestOK, Proven
<1> QED
  BY <1>1, <1>2 DEF IInv, OneGrant, GrantsAreProven

\* Tables and calls keep their shape, and every stored user has a wallet to be found by,
\* for any number of overlapping calls.
THEOREM TypeOKHolds == Spec => []TypeOK
<1>1. IInv => TypeOK
  BY DEF IInv
<1> QED
  BY InitIInv, NextIInv, <1>1, PTL DEF Spec

\* A challenge lets one call through, and only with a signature of its own wallet over
\* its own message; whoever is answered owns the wallet that was proved.  For any number
\* of overlapping calls.
THEOREM GrantsAreProvenHolds == Spec => []GrantsAreProven
<1>1. Init => SignedInv
  BY DEF Init, SignedInv, SignedOK
<1> QED
  BY InitIInv, NextIInv, <1>1, NextSigned, IInvGrants, PTL DEF Spec

-----------------------------------------------------------------------------
(* The points *)

PointSources == {"signup", "referral_signup", "order_created", "trade_completed"}
PointRecs ==
  [user : Accounts, source : PointSources, related : Accounts \cup {None},
   item : Calls \cup {None, "trade"}, bonus : Accounts \cup {None}]

\* What a call has seen of the cause of points it is about to save.
ReferralCause(k, p) ==
  /\ p.bonus = None /\ Request(k).op = "register" /\ Request(k).ref = p.user
  /\ Request(k).challenge \in consumed /\ p.related # None /\ owner[Wallet(k)] = p.related
IsParty(u) == \E party \in DOMAIN config.parties : owner[config.parties[party]] = u
Caused(k, p) ==
  /\ p.source = "referral_signup" => ReferralCause(k, p)
  /\ p.source # "referral_signup" => p.user \in users /\ p.bonus = referrer[p.user]
  /\ p.source = "order_created" => p.item \in orders /\ call[p.item].user = p.user
  /\ p.source = "trade_completed" => released /\ IsParty(p.user)

AllCaused(k, s) == s \in Seq(PointRecs) /\ \A i \in DOMAIN s : Caused(k, s[i])
PointsOK(k) == AllCaused(k, call[k].points)

\* The points a call is at.
Awards(k) == call[k].pc = "award" /\ call[k].points # <<>>
Settled(k) == call[k].pc \in {"award", "bonus", "done", "failed"}

\* A user or an order that a call stored has its points, or the call is about to save them.
SignupFor(u, e) == e.user = u /\ e.source = "signup"
UserPaid(u) == (\E e \in ledger : SignupFor(u, e)) \/ (Awards(u) /\ SignupFor(u, Head(call[u].points)))
OrderPaid(k) == (\E e \in ledger : e.item = k) \/ (Awards(k) /\ Head(call[k].points).item = k)

ProgressOK(k) ==
  /\ k \in users \cup orders => Settled(k)
  /\ Request(k).op = "order" /\ call[k].pc \notin {"idle", "failed"} => call[k].user # None
  /\ call[k].pc \in {"buyer", "seller"} => released
  /\ call[k].pc = "bonus" =>
       /\ call[k].points # <<>> /\ Head(call[k].points).bonus # None
       /\ Event(Head(call[k].points)) \in ledger
  /\ faults = 0 /\ k \in users => UserPaid(k)
  /\ faults = 0 /\ k \in orders => OrderPaid(k)

\* An event is earned, and the users it names are stored.
LedgerOK(e) ==
  /\ Earned(e)
  /\ e.source \in PointSources \cup {"referral_activity_bonus"}
  /\ e.source \notin {"referral_signup", "referral_activity_bonus"} => e.user \in users
  /\ e.source = "referral_signup" => e.related # None
  /\ e.source = "referral_activity_bonus" => e.for # None /\ e.related \in users

\* A bonus that is due is in the ledger, or a call is about to save it.
BonusComes(k, e) == call[k].pc = "bonus" /\ Event(Head(call[k].points)) = e
BonusPaid(e) == BonusFor(referrer[e.user], e) \in ledger \/ \E k \in Calls : BonusComes(k, e)

PointsInv ==
  /\ \A k \in Calls : PointsOK(k) /\ ProgressOK(k)
  /\ \A e \in ledger : LedgerOK(e)
  /\ faults = 0 => \A e \in ledger : Due(e) => BonusPaid(e)

\* The first of a list and the others.
LEMMA ListFacts ==
  ASSUME NEW S, NEW s \in Seq(S), s # <<>>
  PROVE  /\ Head(s) = s[1] /\ 1 \in DOMAIN s /\ Head(s) \in S /\ Tail(s) \in Seq(S)
         /\ \A i \in DOMAIN Tail(s) : i + 1 \in DOMAIN s /\ Tail(s)[i] = s[i + 1]
OBVIOUS

\* The empty list and the rest of a list have their causes.
LEMMA RestCaused ==
  ASSUME NEW k, NEW s, AllCaused(k, s)
  PROVE  /\ AllCaused(k, <<>>)
         /\ s # <<>> => Head(s) \in PointRecs /\ Caused(k, Head(s)) /\ AllCaused(k, Tail(s))
<1>1. AllCaused(k, <<>>)
  BY DEF AllCaused
<1>2. ASSUME s # <<>> PROVE Head(s) \in PointRecs /\ Caused(k, Head(s)) /\ AllCaused(k, Tail(s))
  <2>1. s \in Seq(PointRecs) /\ \A i \in DOMAIN s : Caused(k, s[i])
    BY DEF AllCaused
  <2>2. /\ Head(s) = s[1] /\ 1 \in DOMAIN s /\ Head(s) \in PointRecs /\ Tail(s) \in Seq(PointRecs)
        /\ \A i \in DOMAIN Tail(s) : i + 1 \in DOMAIN s /\ Tail(s)[i] = s[i + 1]
    BY <1>2, <2>1, ListFacts
  <2>3. \A i \in DOMAIN Tail(s) : Caused(k, Tail(s)[i])
    BY <2>1, <2>2
  <2> QED BY <2>1, <2>2, <2>3 DEF AllCaused
<1> QED BY <1>1, <1>2

\* What a step keeps of the causes: rows stay, and so do owners, the referrers of stored
\* users and the users of stored orders.
Keeps ==
  /\ Grows
  /\ orders \subseteq orders' /\ ledger \subseteq ledger' /\ (released => released')
  /\ \A u \in users : referrer'[u] = referrer[u]
Lasts == Keeps /\ \A k \in orders : call'[k].user = call[k].user

\* The wallets of the parties and the users are what they are assumed to be.
LEMMA PartyFact ==
  ASSUME IInv, Grows, NEW u \in users, IsParty(u)
  PROVE  IsParty(u)'
<1>1. config \in Configs /\ None \notin users
  BY AccountsAssumption DEF IInv, TypeOK
<1>2. config.parties \in [{"buyer", "seller"} -> Wallets]
  BY <1>1, AccountsAssumption
<1> QED
  BY <1>1, <1>2 DEF IsParty, Grows

\* A cause stays.
LEMMA CausedStays ==
  ASSUME IInv, Lasts, NEW k \in Calls, NEW p, Caused(k, p)
  PROVE  Caused(k, p)'
<1>1. /\ Request(k)' = Request(k) /\ Wallet(k)' = Wallet(k)
      /\ Request(k).op # "release" => Wallet(k) \in Wallets
  BY CallFacts, RequestStays DEF Lasts, Keeps, Grows, Primed
<1>2. p.source = "referral_signup" => ReferralCause(k, p)'
  BY <1>1 DEF Caused, ReferralCause, Lasts, Keeps, Grows
<1>3. p.source # "referral_signup" => p.user \in users' /\ p.bonus = referrer'[p.user]
  BY DEF Caused, Lasts, Keeps, Grows
<1>4. p.source = "order_created" => p.item \in orders' /\ call'[p.item].user = p.user
  BY DEF Caused, Lasts, Keeps
<1>5. p.source = "trade_completed" => released' /\ IsParty(p.user)'
  BY PartyFact DEF Caused, Lasts, Keeps
<1> QED
  BY <1>2, <1>3, <1>4, <1>5 DEF Caused

\* An event stays earned.
LEMMA EarnedStays ==
  ASSUME IInv, Lasts, NEW e, LedgerOK(e)
  PROVE  LedgerOK(e)'
<1>1. \A k \in Calls : /\ Request(k)' = Request(k) /\ Wallet(k)' = Wallet(k)
                       /\ Request(k).op # "release" => Wallet(k) \in Wallets
  BY CallFacts, RequestStays DEF Lasts, Keeps, Grows, Primed
<1>2. users \subseteq users' /\ ledger \subseteq ledger' /\ \A u \in users : referrer'[u] = referrer[u]
  BY DEF Lasts, Keeps, Grows
<1>3. CASE e.source = "signup"
  BY <1>2, <1>3 DEF LedgerOK, Earned
<1>4. CASE e.source = "referral_signup"
  <2>1. PICK k \in Calls : /\ Request(k).op = "register" /\ Request(k).ref = e.user
                           /\ Request(k).challenge \in consumed /\ owner[Wallet(k)] = e.related
    BY <1>4 DEF LedgerOK, Earned
  <2>2. /\ Request(k)'.op = "register" /\ Request(k)'.ref = e.user
        /\ Request(k)'.challenge \in consumed' /\ owner'[Wallet(k)'] = e.related
    BY <1>1, <1>4, <2>1 DEF LedgerOK, Lasts, Keeps, Grows
  <2>3. Earned(e)'
    BY <1>4, <2>2 DEF Earned
  <2> QED BY <1>2, <1>4, <2>3 DEF LedgerOK
<1>5. CASE e.source = "order_created"
  <2>1. e.item \in orders /\ call[e.item].user = e.user
    BY <1>5 DEF LedgerOK, Earned
  <2>2. e.item \in orders' /\ call'[e.item].user = e.user
    BY <2>1 DEF Lasts, Keeps
  <2> QED BY <1>2, <1>5, <2>2 DEF LedgerOK, Earned
<1>6. CASE e.source = "trade_completed"
  <2>1. released /\ IsParty(e.user) /\ e.user \in users
    BY <1>6 DEF LedgerOK, Earned, IsParty
  <2>2. released' /\ IsParty(e.user)'
    BY <2>1, PartyFact DEF Lasts, Keeps
  <2> QED BY <1>2, <1>6, <2>1, <2>2 DEF LedgerOK, Earned, IsParty
<1>7. CASE e.source = "referral_activity_bonus"
  <2>1. PICK base \in ledger : BonusFor(e.user, base) = e
    BY <1>7 DEF LedgerOK, Earned
  <2>2. referrer[e.related] = e.user /\ e.related \in users
    BY <1>7 DEF LedgerOK, Earned
  <2>3. Earned(e)'
    BY <1>2, <1>7, <2>1, <2>2 DEF Earned, BonusFor
  <2> QED BY <1>2, <1>7, <2>3 DEF LedgerOK
<1> QED
  BY <1>3, <1>4, <1>5, <1>6, <1>7 DEF LedgerOK, PointSources

\* A user paid stays paid when its call does not move, and so for an order.
LEMMA PaidStays ==
  ASSUME ledger \subseteq ledger', NEW k, call'[k] = call[k]
  PROVE  (UserPaid(k) => UserPaid(k)') /\ (OrderPaid(k) => OrderPaid(k)')
BY DEF UserPaid, OrderPaid, Awards

\* The points of another call survive a step.
LEMMA OtherPoints ==
  ASSUME IInv, PointsInv, Lasts, faults' = 0 => faults = 0, NEW k \in Calls, call'[k] = call[k],
         k \in users' => k \in users, k \in orders' => k \in orders
  PROVE  PointsOK(k)' /\ ProgressOK(k)'
<1>1. PointsOK(k) /\ ProgressOK(k) /\ Request(k)' = Request(k)
  BY RequestStays DEF PointsInv, Lasts, Keeps, Grows, Primed
<1>2. PointsOK(k)'
  <2>1. call[k].points \in Seq(PointRecs) /\ \A i \in DOMAIN call[k].points : Caused(k, call[k].points[i])
    BY <1>1 DEF PointsOK, AllCaused
  <2>2. \A i \in DOMAIN call[k].points : \A p : p = call[k].points[i] => Caused(k, p)'
    BY <2>1, CausedStays
  <2> QED BY <2>1, <2>2 DEF PointsOK, AllCaused
<1>3. (UserPaid(k) => UserPaid(k)') /\ (OrderPaid(k) => OrderPaid(k)')
  BY PaidStays DEF Lasts, Keeps
<1>4. ProgressOK(k)'
  BY <1>1, <1>3 DEF ProgressOK, Settled, Lasts, Keeps
<1> QED
  BY <1>2, <1>4

\* A due bonus of an event stays due, and paid if its call does not move.
LEMMA DueStays ==
  ASSUME Keeps, NEW e, LedgerOK(e), Due(e)'
  PROVE  Due(e) /\ referrer'[e.user] = referrer[e.user]
BY DEF Keeps, LedgerOK, Due

\* A step of call k keeps the points in order if its own points are, what it adds to the
\* ledger is earned, and it leaves no bonus behind.
LEMMA PointsFrame ==
  ASSUME IInv, PointsInv, Lasts, faults' = 0 => faults = 0, NEW k \in Calls, OnlyCall(k),
         users' \subseteq users \cup {k}, orders' \subseteq orders \cup {k},
         PointsOK(k)', ProgressOK(k)',
         \A e \in ledger' \ ledger : LedgerOK(e)',
         faults' = 0 => /\ \A e \in ledger : BonusComes(k, e) => BonusPaid(e)'
                        /\ \A e \in ledger' \ ledger : Due(e)' => BonusPaid(e)'
  PROVE  PointsInv'
<1>1. \A l \in Calls \ {k} : PointsOK(l)' /\ ProgressOK(l)'
  BY OtherPoints DEF OnlyCall
<1>2. \A e \in ledger : LedgerOK(e) /\ LedgerOK(e)'
  BY EarnedStays DEF PointsInv
<1>3. ASSUME faults' = 0, NEW e \in ledger, Due(e)' PROVE BonusPaid(e)'
  <2>1. Due(e) /\ referrer'[e.user] = referrer[e.user]
    BY <1>2, <1>3, DueStays DEF Lasts
  <2>2. BonusPaid(e)
    BY <1>3, <2>1 DEF PointsInv
  <2>3. CASE BonusFor(referrer[e.user], e) \in ledger
    BY <2>1, <2>3 DEF BonusPaid, BonusFor, Lasts, Keeps
  <2>4. ASSUME NEW l \in Calls, BonusComes(l, e) PROVE BonusPaid(e)'
    <3>1. CASE l = k
      BY <1>3, <2>4, <3>1
    <3>2. CASE l # k
      BY <2>4, <3>2 DEF OnlyCall, BonusComes, BonusPaid
    <3> QED BY <3>1, <3>2
  <2> QED BY <2>2, <2>3, <2>4 DEF BonusPaid
<1>4. \A l \in Calls : PointsOK(l)' /\ ProgressOK(l)'
  BY <1>1
<1>5. \A e \in ledger' : LedgerOK(e)'
  BY <1>2
<1>6. faults' = 0 => \A e \in ledger' : Due(e)' => BonusPaid(e)'
  BY <1>3
<1> QED
  BY <1>4, <1>5, <1>6 DEF PointsInv

\* A call that is not settled stored nothing yet.
LEMMA Unsettled ==
  ASSUME PointsInv, NEW k \in Calls, ~Settled(k)
  PROVE  k \notin users /\ k \notin orders
BY DEF PointsInv, ProgressOK

\* A step of a call that is not settled, and writes nothing of its own, keeps the points
\* in order.
LEMMA QuietStep ==
  ASSUME IInv, PointsInv, Keeps, UNCHANGED <<users, orders, ledger, faults>>,
         NEW k \in Calls, NEW pc, NEW u, NEW s, call' = At(k, pc, u, s), AllCaused(k, s),
         ~Settled(k), pc \notin {"award", "bonus"}, pc \in {"buyer", "seller"} => released',
         Request(k).op = "order" /\ pc # "failed" => u # None
  PROVE  PointsInv'
<1>1. k \notin users /\ k \notin orders
  BY Unsettled
<1>2. OnlyCall(k) /\ call'[k].pc = pc /\ call'[k].user = u /\ call'[k].points = s
  BY CallFacts, AtFact
<1>3. Lasts
  BY <1>1, <1>2 DEF Lasts, OnlyCall, IInv, TypeOK
<1>4. PointsOK(k)'
  <2>1. \A i \in DOMAIN s : \A p : p = s[i] => Caused(k, p)'
    BY <1>3, CausedStays DEF AllCaused
  <2> QED BY <1>2, <2>1 DEF PointsOK, AllCaused
<1>5. ProgressOK(k)'
  <2>1. Request(k)' = Request(k)
    BY RequestStays DEF Keeps, Grows, Primed
  <2> QED BY <1>1, <1>2, <2>1 DEF ProgressOK
<1>6. \A e \in ledger : ~BonusComes(k, e)
  BY DEF BonusComes, Settled
<1> QED
  BY <1>2, <1>3, <1>4, <1>5, <1>6, PointsFrame

\* So does a refusal.
LEMMA QuietRefusal ==
  ASSUME IInv, PointsInv, Keeps, UNCHANGED <<users, orders, ledger, faults>>,
         NEW k \in Calls, call' = Fail(k), ~Settled(k)
  PROVE  PointsInv'
<1>1. call' = At(k, "failed", call[k].user, call[k].points) /\ AllCaused(k, call[k].points)
  BY DEF Fail, Step, PointsInv, PointsOK
<1>2. "failed" \notin {"award", "bonus"} /\ "failed" \notin {"buyer", "seller"}
  OBVIOUS
<1> HIDE DEF At
<1> QED
  BY <1>1, <1>2, QuietStep

\* A step that touches no table but consumed keeps every cause.
LEMMA TablesKeep ==
  ASSUME UNCHANGED <<config, users, owner, referrer, orders, released, ledger>>, consumed \subseteq consumed'
  PROVE  Keeps
BY DEF Keeps, Grows

\* The checks of a call, its reads and the use of its challenges award nothing.
LEMMA ReadPoints ==
  ASSUME IInv, PointsInv, NEW k \in Calls,
         \/ StartRegister(k) \/ StartUser(k) \/ CheckOther(k) \/ FindWallet(k) \/ Resolve(k)
         \/ Consume(k) \/ ConsumeOther(k) \/ StartRelease(k)
  PROVE  PointsInv'
<1>1. /\ UNCHANGED <<config, users, owner, referrer, orders, released, ledger, faults>>
      /\ consumed \subseteq consumed'
  BY DEF StartRegister, StartUser, CheckOther, FindWallet, Resolve, Consume, ConsumeOther, StartRelease
<1>2. Keeps /\ ~Settled(k)
  BY <1>1, TablesKeep
  DEF StartRegister, StartUser, CheckOther, FindWallet, Resolve, Consume, ConsumeOther, StartRelease, Settled
<1>3. AllCaused(k, call[k].points) /\ AllCaused(k, <<>>) /\ ProgressOK(k)
  BY RestCaused DEF PointsInv, PointsOK
<1>4. CallOK(k) /\ RequestOK(Request(k)) /\ None \notin users
  BY CallFacts
<1>5. CASE call' = Fail(k)
  BY <1>1, <1>2, <1>5, QuietRefusal
<1>6. CASE StartUser(k) /\ call' # Fail(k)
  <2>1. PICK pc \in {"other", "consume"} : call' = At(k, pc, Request(k).user, <<>>)
    BY <1>6 DEF StartUser
  <2>2. Request(k).user \in users
    BY <1>6 DEF StartUser
  <2> QED BY <1>1, <1>2, <1>3, <1>4, <2>1, <2>2, QuietStep
<1>7. CASE FindWallet(k) /\ Request(k).op # "link"
  <2>1. PICK pc \in {"resolve", "consume"} : call' = At(k, pc, owner[Wallet(k)], <<>>)
    BY <1>7 DEF FindWallet
  <2>2. Request(k).op # "order"
    BY <1>4, <1>7 DEF CallOK, PcOf, FindWallet
  <2> QED BY <1>1, <1>2, <1>3, <2>1, <2>2, QuietStep
<1>8. CASE \E pc \in {"find", "consume", "consume_other", "save", "done", "update"} :
             call' = Step(k, pc) /\ (Request(k).op = "order" => call[k].user # None)
  <2>1. PICK pc \in {"find", "consume", "consume_other", "save", "done", "update"} :
          call' = At(k, pc, call[k].user, call[k].points) /\ (Request(k).op = "order" => call[k].user # None)
    BY <1>8 DEF Step
  <2> QED BY <1>1, <1>2, <1>3, <2>1, QuietStep
<1>9. CASE StartRegister(k) \/ StartRelease(k)
  BY <1>5, <1>8, <1>9 DEF StartRegister, StartRelease
<1>10. CASE CheckOther(k) \/ Resolve(k) \/ (FindWallet(k) /\ Request(k).op = "link")
  <2>1. Request(k).op # "order"
    BY <1>4, <1>10 DEF CallOK, PcOf, CheckOther, Resolve
  <2> QED BY <1>5, <1>8, <1>10, <2>1 DEF CheckOther, Resolve, FindWallet
<1>11. CASE Consume(k) \/ ConsumeOther(k)
  <2>1. Request(k).op = "order" => call[k].user # None
    BY <1>3, <1>11 DEF ProgressOK, Consume, ConsumeOther
  <2>2. call' = Fail(k) \/ call' = Step(k, "consume_other") \/ call' = Step(k, "done") \/ call' = Step(k, "save")
    BY <1>11 DEF Consume, ConsumeOther, AfterConsume
  <2> QED BY <1>5, <1>8, <2>1, <2>2
<1> QED
  BY <1>5, <1>6, <1>7, <1>9, <1>10, <1>11

\* Two lists of one are a list of two.
LEMMA PairFact == ASSUME NEW a, NEW b PROVE <<a>> \o <<b>> = <<a, b>>
<1>1. /\ <<a>> \in Seq({a, b}) /\ b \in {a, b} /\ <<a, b>> \in Seq({a, b})
      /\ Len(<<a>>) = 1 /\ Len(<<a, b>>) = 2
  OBVIOUS
<1>2. Append(<<a>>, b) = <<a, b>>
  <2>1. /\ Append(<<a>>, b) \in Seq({a, b}) /\ Len(Append(<<a>>, b)) = 2
        /\ Append(<<a>>, b)[1] = a /\ Append(<<a>>, b)[2] = b
    BY <1>1, AppendProperties
  <2>2. \A i \in 1..2 : Append(<<a>>, b)[i] = <<a, b>>[i]
    BY <2>1
  <2> QED BY <1>1, <2>1, <2>2, SeqEqual
<1> QED BY <1>1, <1>2, AppendIsConcat

\* The points of a registration.
LEMMA SignupShape ==
  ASSUME NEW k, NEW u \in Accounts, NEW ref \in Accounts \cup {None}, Request(k).ref \in Accounts \cup {None}
  PROVE  LET s == SignupPoints(k, u, ref)
             a == Points(u, ref, "signup", None, None)
             b == Points(Request(k).ref, None, "referral_signup", u, None)
         IN  /\ s \in Seq(PointRecs) /\ s # <<>> /\ Head(s) = a
             /\ \A i \in DOMAIN s : s[i] = a \/ (s[i] = b /\ Request(k).ref # None)
<1> DEFINE a == Points(u, ref, "signup", None, None)
           b == Points(Request(k).ref, None, "referral_signup", u, None)
<1>1. a \in PointRecs
  BY DEF Points, PointRecs, PointSources
<1>2. CASE Request(k).ref = None
  <2>1. SignupPoints(k, u, ref) = <<a>>
    BY <1>2 DEF SignupPoints
  <2> HIDE DEF a
  <2>2. <<a>> \in Seq(PointRecs) /\ <<a>> # <<>> /\ Head(<<a>>) = a /\ \A i \in DOMAIN <<a>> : <<a>>[i] = a
    BY <1>1
  <2> QED BY <2>1, <2>2 DEF a
<1>3. CASE Request(k).ref # None
  <2>1. b \in PointRecs
    BY <1>3 DEF Points, PointRecs, PointSources
  <2>2. SignupPoints(k, u, ref) = <<a, b>>
    <3>1. SignupPoints(k, u, ref) = <<a>> \o <<b>>
      BY <1>3 DEF SignupPoints
    <3> QED BY <3>1, PairFact
  <2> HIDE DEF a, b
  <2>3. <<a, b>> \in Seq(PointRecs) /\ Head(<<a, b>>) = a /\ <<a, b>> # <<>>
    BY <1>1, <2>1
  <2>4. \A i \in DOMAIN <<a, b>> : <<a, b>>[i] = a \/ <<a, b>>[i] = b
    OBVIOUS
  <2> QED BY <1>3, <2>2, <2>3, <2>4 DEF a, b
<1> QED BY <1>2, <1>3

\* A step of a call that is not settled keeps the points in order if what it collects and
\* stores is.
LEMMA CollectStep ==
  ASSUME IInv, PointsInv, Keeps, UNCHANGED <<ledger, faults>>,
         NEW k \in Calls, NEW pc, NEW u, NEW s, call' = At(k, pc, u, s), ~Settled(k),
         users' \subseteq users \cup {k}, orders' \subseteq orders \cup {k},
         s \in Seq(PointRecs), \A i \in DOMAIN s : \A p : p = s[i] => Caused(k, p)',
         ProgressOK(k)'
  PROVE  PointsInv'
<1>1. k \notin users /\ k \notin orders
  BY Unsettled
<1>2. OnlyCall(k) /\ call'[k].points = s
  BY CallFacts, AtFact
<1>3. Lasts
  BY <1>1, <1>2 DEF Lasts, OnlyCall, IInv, TypeOK
<1>4. PointsOK(k)'
  BY <1>2 DEF PointsOK, AllCaused
<1>5. \A e \in ledger : ~BonusComes(k, e)
  BY DEF BonusComes, Settled
<1> QED
  BY <1>2, <1>3, <1>4, <1>5, PointsFrame

\* A registration that finds the wallet taken awards its user, as stored, once more.
LEMMA FindSavedPoints ==
  ASSUME IInv, PointsInv, NEW k \in Calls, FindSaved(k)
  PROVE  PointsInv'
<1>1. /\ UNCHANGED <<config, users, owner, referrer, orders, released, ledger, faults>>
      /\ consumed' = consumed /\ call[k].pc = "save" /\ Request(k).op \in {"register", "link"}
  BY DEF FindSaved
<1>2. Keeps /\ ~Settled(k) /\ AllCaused(k, call[k].points)
  BY <1>1, TablesKeep DEF Settled, PointsInv, PointsOK
<1>3. /\ Shape /\ TypeOK /\ Tables /\ RequestOK(Request(k)) /\ Wallet(k) \in Wallets
      /\ \A c \in Challenges : Granted(k, c) => c \in consumed
  BY <1>1, CallFacts
<1>4. CASE call' = Fail(k)
  BY <1>1, <1>2, <1>4, QuietRefusal
<1>5. CASE call' = Step(k, "insert")
  BY <1>1, <1>2, <1>5, QuietStep DEF Step
<1>6. CASE /\ Request(k).op = "register" /\ owner[Wallet(k)] # None
           /\ call' = At(k, "award", owner[Wallet(k)], SignupPoints(k, owner[Wallet(k)], referrer[owner[Wallet(k)]]))
  <2>1. PICK u, ref : u = owner[Wallet(k)] /\ ref = referrer[u]
    OBVIOUS
  <2>2. u \in users /\ u \in Accounts /\ ref \in Accounts \cup {None} /\ u # None
    BY <1>3, <1>6, <2>1 DEF Tables, TypeOK
  <2>3. PICK s : s = SignupPoints(k, u, ref)
    OBVIOUS
  <2>4. PICK a, b : /\ a = Points(u, ref, "signup", None, None)
                    /\ b = Points(Request(k).ref, None, "referral_signup", u, None)
    OBVIOUS
  <2>5. /\ s \in Seq(PointRecs)
        /\ \A i \in DOMAIN s : s[i] = a \/ (s[i] = b /\ Request(k).ref # None)
    BY <1>3, <2>2, <2>3, <2>4, SignupShape DEF RequestOK
  <2>6. Request(k).challenge \in consumed
    BY <1>1, <1>3, <1>6 DEF Granted, RequestOK
  <2>7. Caused(k, a)
    BY <2>1, <2>2, <2>4 DEF Caused, Points
  <2>8. Caused(k, b)
    BY <1>6, <2>1, <2>2, <2>4, <2>6 DEF Caused, ReferralCause, Points
  <2>9. k \notin users /\ k \notin orders
    BY <1>2, Unsettled
  <2>10. OnlyCall(k) /\ call'[k].pc = "award"
    BY <1>3, <1>6, AtFact
  <2>11. Lasts
    BY <1>2, <1>3, <2>9, <2>10 DEF Lasts, OnlyCall, TypeOK
  <2>12. Caused(k, a)' /\ Caused(k, b)'
    BY <2>7, <2>8, <2>11, CausedStays
  <2>13. Request(k)' = Request(k)
    BY <1>1, RequestStays DEF Primed
  <2>14. ProgressOK(k)'
    BY <1>1, <1>6, <2>9, <2>10, <2>13 DEF ProgressOK
  <2>15. call' = At(k, "award", u, s)
    BY <1>6, <2>1, <2>3
  <2>16. \A i \in DOMAIN s : \A p : p = s[i] => Caused(k, p)'
    BY <2>5, <2>12
  <2> QED BY <1>1, <1>2, <2>5, <2>14, <2>15, <2>16, CollectStep
<1> QED
  BY <1>4, <1>5, <1>6 DEF FindSaved

\* A registration that stores its user awards that user, and its referrer.
LEMMA InsertUserPoints ==
  ASSUME IInv, PointsInv, NEW k \in Calls, InsertUser(k)
  PROVE  PointsInv'
<1>1. /\ UNCHANGED <<config, orders, released, ledger, faults>> /\ consumed' = consumed
      /\ call[k].pc = "insert" /\ Request(k).op = "register"
  BY DEF InsertUser
<1>2. ~Settled(k) /\ k \notin users /\ k \notin orders
  BY <1>1, Unsettled DEF Settled
<1>3. /\ Shape /\ TypeOK /\ Tables /\ CallOK(k) /\ RequestOK(Request(k)) /\ Wallet(k) \in Wallets
      /\ \A c \in Challenges : Granted(k, c) => c \in consumed
  BY <1>1, CallFacts
<1>4. Request(k)' = Request(k) /\ Wallet(k)' = Wallet(k)
  BY <1>1, RequestStays DEF Primed
<1>5. CASE RolledBack(k)
  <2>1. Keeps /\ UNCHANGED <<users, orders, ledger, faults>> /\ call' = Fail(k)
    BY <1>1, <1>5, TablesKeep DEF InsertUser
  <2> QED BY <1>2, <2>1, QuietRefusal
<1>6. CASE ~RolledBack(k)
  <2>1. /\ users' = users \cup {k} /\ referrer' = [referrer EXCEPT ![k] = Request(k).ref]
        /\ owner' = [owner EXCEPT ![Wallet(k)] = k] /\ owner[Wallet(k)] = None /\ k \in Accounts
        /\ call' = At(k, "award", k, SignupPoints(k, k, Request(k).ref))
    BY <1>3, <1>6 DEF InsertUser, RolledBack, Accounts
  <2>2. /\ \A w \in Wallets : owner[w] # None => owner'[w] = owner[w]
        /\ owner'[Wallet(k)] = k /\ referrer'[k] = Request(k).ref
        /\ \A u \in users : referrer'[u] = referrer[u]
    BY <1>2, <1>3, <2>1 DEF Tables
  <2>3. Keeps
    BY <1>1, <2>1, <2>2 DEF Keeps, Grows
  <2>4. PICK s, a, b : /\ s = SignupPoints(k, k, Request(k).ref)
                       /\ a = Points(k, Request(k).ref, "signup", None, None)
                       /\ b = Points(Request(k).ref, None, "referral_signup", k, None)
    OBVIOUS
  <2>5. /\ s \in Seq(PointRecs) /\ s # <<>> /\ Head(s) = a
        /\ \A i \in DOMAIN s : s[i] = a \/ (s[i] = b /\ Request(k).ref # None)
    BY <1>3, <2>1, <2>4, SignupShape DEF RequestOK
  <2>6. Request(k).challenge \in consumed /\ k # None
    BY <1>1, <1>3, <2>1, AccountsAssumption DEF Granted, RequestOK
  <2>7. Caused(k, a)'
    BY <2>1, <2>2, <2>4 DEF Caused, Points
  <2>8. Caused(k, b)'
    BY <1>1, <1>4, <2>2, <2>4, <2>6 DEF Caused, ReferralCause, Points
  <2>9. OnlyCall(k) /\ call'[k].pc = "award" /\ call'[k].points = s
    BY <1>3, <2>1, <2>4, AtFact
  <2>10. UserPaid(k)'
    BY <2>4, <2>5, <2>9 DEF UserPaid, Awards, SignupFor, Points
  <2>11. ProgressOK(k)'
    BY <1>1, <1>2, <1>4, <2>9, <2>10 DEF ProgressOK, Settled
  <2>12. \A i \in DOMAIN s : \A p : p = s[i] => Caused(k, p)'
    BY <2>5, <2>7, <2>8
  <2> QED BY <1>1, <1>2, <2>1, <2>3, <2>4, <2>5, <2>11, <2>12, CollectStep
<1> QED BY <1>5, <1>6

\* A link that stores its wallet awards nothing.
LEMMA InsertWalletPoints ==
  ASSUME IInv, PointsInv, NEW k \in Calls, InsertWallet(k)
  PROVE  PointsInv'
<1> DEFINE saved == IF owner[Wallet(k)] = None THEN call[k].user ELSE owner[Wallet(k)]
<1>1. /\ UNCHANGED <<config, users, referrer, orders, released, ledger, faults>> /\ consumed' = consumed
      /\ call[k].pc = "insert" /\ Request(k).op = "link"
  BY DEF InsertWallet
<1>2. ~Settled(k) /\ Wallet(k) \in Wallets /\ Tables /\ AllCaused(k, <<>>)
  BY <1>1, CallFacts, RestCaused DEF Settled, PointsInv, PointsOK
<1>3. CASE Refused(saved, call[k].user)
  <2>1. Keeps /\ call' = Fail(k)
    BY <1>1, <1>3, TablesKeep DEF InsertWallet
  <2> QED BY <1>1, <1>2, <2>1, QuietRefusal
<1>4. CASE ~Refused(saved, call[k].user)
  <2>1. call' = At(k, "done", saved, <<>>) /\ owner' = [owner EXCEPT ![Wallet(k)] = saved]
    BY <1>4 DEF InsertWallet
  <2>2. \A w \in Wallets : owner[w] # None => owner'[w] = owner[w]
    BY <1>2, <2>1 DEF Tables
  <2>3. Keeps
    BY <1>1, <2>2 DEF Keeps, Grows
  <2> HIDE DEF saved
  <2> QED BY <1>1, <1>2, <2>1, <2>3, QuietStep
<1> QED BY <1>3, <1>4

\* An order that is stored awards its user.
LEMMA SaveOrderPoints ==
  ASSUME IInv, PointsInv, NEW k \in Calls, SaveOrder(k)
  PROVE  PointsInv'
<1>1. /\ UNCHANGED <<config, users, owner, referrer, released, ledger, faults>> /\ consumed' = consumed
      /\ orders' = orders \cup {k} /\ call[k].pc = "save" /\ Request(k).op = "order"
  BY DEF SaveOrder
<1>2. ~Settled(k) /\ k \notin users /\ ProgressOK(k) /\ Keeps
  BY <1>1, Unsettled DEF Settled, PointsInv, Keeps, Grows
<1>3. PICK u, ref : u = call[k].user /\ ref = referrer[u]
  OBVIOUS
<1>4. /\ Shape /\ TypeOK /\ Tables /\ u # None /\ u \in users /\ u \in Accounts
      /\ ref \in Accounts \cup {None}
  BY <1>1, <1>2, <1>3, CallFacts DEF ProgressOK, Tables, TypeOK
<1>5. PICK p : p = Points(u, ref, "order_created", None, k)
  OBVIOUS
<1>6. call' = At(k, "award", u, <<p>>)
  BY <1>3, <1>5 DEF SaveOrder
<1>7. OnlyCall(k) /\ call'[k].pc = "award" /\ call'[k].user = u /\ call'[k].points = <<p>>
  BY <1>4, <1>6, AtFact
<1>8. Caused(k, p)' /\ p \in PointRecs /\ p.item = k
  BY <1>1, <1>3, <1>4, <1>5, <1>7 DEF Caused, Points, PointRecs, PointSources
<1>9. <<p>> \in Seq(PointRecs) /\ <<p>> # <<>> /\ Head(<<p>>) = p /\ \A i \in DOMAIN <<p>> : <<p>>[i] = p
  BY <1>8
<1>10. OrderPaid(k)'
  BY <1>7, <1>8, <1>9 DEF OrderPaid, Awards
<1>11. ProgressOK(k)'
  BY <1>1, <1>2, <1>4, <1>7, <1>10 DEF ProgressOK, Settled
<1>12. \A i \in DOMAIN <<p>> : \A q : q = <<p>>[i] => Caused(k, q)'
  BY <1>8, <1>9
<1> QED BY <1>1, <1>2, <1>6, <1>9, <1>11, <1>12, CollectStep

\* A release collects points once the trade is released.
LEMMA UpdateTradePoints ==
  ASSUME IInv, PointsInv, NEW k \in Calls, UpdateTrade(k)
  PROVE  PointsInv'
<1>1. /\ UNCHANGED <<config, users, owner, referrer, orders, ledger, faults>> /\ consumed' = consumed
      /\ call[k].pc = "update" /\ released' = TRUE
      /\ call' = At(k, "buyer", call[k].user, call[k].points)
  BY DEF UpdateTrade, Step
<1>2. ~Settled(k) /\ Keeps /\ AllCaused(k, call[k].points)
  BY <1>1 DEF Settled, Keeps, Grows, PointsInv, PointsOK
<1>3. Request(k).op # "order"
  BY <1>1, CallFacts DEF CallOK, PcOf
<1> QED BY <1>1, <1>2, <1>3, QuietStep

\* A release collects points for a party that is a user.
LEMMA FindPartyPoints ==
  ASSUME IInv, PointsInv, NEW k \in Calls, FindParty(k)
  PROVE  PointsInv'
<1>1. /\ UNCHANGED <<config, users, owner, referrer, orders, released, ledger, faults>>
      /\ consumed' = consumed /\ call[k].pc \in {"buyer", "seller"}
  BY DEF FindParty
<1>2. /\ ~Settled(k) /\ k \notin users /\ k \notin orders /\ Keeps /\ AllCaused(k, call[k].points)
      /\ released
  BY <1>1, Unsettled, TablesKeep DEF Settled, PointsInv, PointsOK, ProgressOK
<1>3. Shape /\ TypeOK /\ Tables /\ CallOK(k) /\ RequestOK(Request(k)) /\ Request(k).op = "release"
  BY <1>1, CallFacts DEF CallOK, PcOf, RequestOK
<1>4. PICK s, pc : /\ s = Completed(k, call[k].pc) /\ pc \in {"seller", "award"}
                   /\ call' = At(k, pc, call[k].user, s)
  <2>1. PICK s, pc : /\ s = Completed(k, call[k].pc)
                     /\ pc = IF call[k].pc = "buyer" THEN "seller" ELSE "award"
    OBVIOUS
  <2> QED BY <2>1 DEF FindParty
<1>5. OnlyCall(k) /\ call'[k].pc = pc
  BY <1>3, <1>4, AtFact
<1>6. Lasts
  BY <1>2, <1>3, <1>5 DEF Lasts, OnlyCall, TypeOK
<1>7. s \in Seq(PointRecs) /\ \A i \in DOMAIN s : Caused(k, s[i])
  <2>1. CASE s = call[k].points
    BY <1>2, <2>1 DEF AllCaused
  <2>2. CASE s # call[k].points
    <3>1. PICK u : u = owner[config.parties[call[k].pc]]
      OBVIOUS
    <3>2. u # None /\ s = Append(call[k].points, Points(u, referrer[u], "trade_completed", None, "trade"))
      BY <1>4, <2>2, <3>1 DEF Completed
    <3>3. config.parties \in [{"buyer", "seller"} -> Wallets]
      BY <1>3, AccountsAssumption DEF TypeOK
    <3>4. u \in users /\ u \in Accounts /\ IsParty(u) /\ referrer[u] \in Accounts \cup {None}
      BY <1>1, <1>3, <3>1, <3>2, <3>3 DEF Tables, TypeOK, IsParty
    <3>5. PICK p : p = Points(u, referrer[u], "trade_completed", None, "trade")
      OBVIOUS
    <3>6. p \in PointRecs /\ Caused(k, p)
      BY <1>2, <3>4, <3>5 DEF Points, PointRecs, PointSources, Caused
    <3>7. call[k].points \in Seq(PointRecs) /\ \A i \in DOMAIN call[k].points : Caused(k, call[k].points[i])
      BY <1>2 DEF AllCaused
    <3>8. /\ s \in Seq(PointRecs) /\ Len(s) = Len(call[k].points) + 1
          /\ \A i \in 1..Len(call[k].points) : s[i] = call[k].points[i]
          /\ s[Len(call[k].points) + 1] = p
      BY <3>2, <3>5, <3>6, <3>7, AppendProperties
    <3>9. \A i \in DOMAIN s : i \in DOMAIN call[k].points \/ i = Len(call[k].points) + 1
      BY <3>7, <3>8
    <3> QED BY <3>6, <3>7, <3>8, <3>9
  <2> QED BY <2>1, <2>2
<1>8. \A i \in DOMAIN s : \A p : p = s[i] => Caused(k, p)'
  BY <1>6, <1>7, CausedStays
<1>9. ProgressOK(k)'
  <2>1. Request(k)' = Request(k)
    BY <1>1, RequestStays DEF Primed
  <2>2. call'[k].pc \in {"seller", "award"} /\ released' /\ k \notin users' /\ k \notin orders'
    BY <1>1, <1>2, <1>4, <1>5
  <2>3. Request(k)'.op = "release"
    BY <1>3, <2>1
  <2> QED BY <2>2, <2>3 DEF ProgressOK
<1> QED BY <1>1, <1>2, <1>4, <1>7, <1>8, <1>9, CollectStep

\* The event of points with a cause is earned.
LEMMA EventEarned ==
  ASSUME IInv, NEW k \in Calls, NEW p \in PointRecs, Caused(k, p)
  PROVE  LedgerOK(Event(p))
<1>1. PICK e : e = Event(p)
  OBVIOUS
<1>2. /\ e.user = p.user /\ e.source = p.source /\ e.related = p.related /\ e.item = p.item
      /\ p.source \in PointSources
  BY <1>1 DEF Event, PointRecs
<1>3. Earned(e)
  <2>1. CASE p.source = "signup"
    BY <1>2, <2>1 DEF Earned, Caused
  <2>2. CASE p.source = "referral_signup"
    BY <1>2, <2>2 DEF Earned, Caused, ReferralCause
  <2>3. CASE p.source = "order_created"
    BY <1>2, <2>3 DEF Earned, Caused
  <2>4. CASE p.source = "trade_completed"
    BY <1>2, <2>4 DEF Earned, Caused, IsParty
  <2> QED BY <1>2, <2>1, <2>2, <2>3, <2>4 DEF PointSources
<1>4. LedgerOK(e)
  BY <1>2, <1>3 DEF LedgerOK, PointSources, Caused, ReferralCause
<1> QED BY <1>1, <1>4

\* The bonus for an event of a stored user goes to who referred that user.
LEMMA BonusEarned ==
  ASSUME NEW p \in PointRecs, NEW base \in ledger, base = Event(p),
         p.user \in users, p.bonus = referrer[p.user]
  PROVE  LedgerOK(BonusFor(p.bonus, base))
<1>1. PICK e : e = BonusFor(p.bonus, base)
  OBVIOUS
<1>2. /\ e.user = p.bonus /\ e.source = "referral_activity_bonus" /\ e.related = p.user
      /\ e.for = p.source /\ p.source \in PointSources
  BY <1>1 DEF BonusFor, Event, PointRecs
<1>3. Earned(e)
  BY <1>1, <1>2 DEF Earned
<1>4. e.for # None
  BY <1>2 DEF PointSources, None
<1> QED BY <1>1, <1>2, <1>3, <1>4 DEF LedgerOK

\* What the steps that save points have in common.
SaveOnly ==
  /\ UNCHANGED <<config, consumed, users, owner, referrer, orders, released, faults>>
  /\ ledger \subseteq ledger'
LEMMA SaveFrame ==
  ASSUME IInv, PointsInv, SaveOnly, NEW k \in Calls, NEW pc, NEW s,
         call' = At(k, pc, call[k].user, s), pc \in {"award", "bonus", "done"}, Settled(k),
         call[k].pc # "failed", AllCaused(k, s),
         \A e \in ledger' \ ledger : LedgerOK(e),
         faults = 0 => /\ k \in users => UserPaid(k)'
                       /\ k \in orders => OrderPaid(k)'
                       /\ \A e \in ledger : BonusComes(k, e) => BonusPaid(e)'
                       /\ \A e \in ledger' \ ledger : Due(e)' => BonusPaid(e)',
         pc = "bonus" => s # <<>> /\ Head(s).bonus # None /\ Event(Head(s)) \in ledger'
  PROVE  PointsInv'
<1>1. OnlyCall(k) /\ call'[k].pc = pc /\ call'[k].user = call[k].user /\ call'[k].points = s
  BY CallFacts, AtFact
<1>2. Lasts
  BY <1>1 DEF Lasts, Keeps, Grows, SaveOnly, OnlyCall, IInv, TypeOK
<1>3. PointsOK(k)'
  <2>1. \A i \in DOMAIN s : \A p : p = s[i] => Caused(k, p)'
    BY <1>2, CausedStays DEF AllCaused
  <2> QED BY <1>1, <2>1 DEF PointsOK, AllCaused
<1>4. ProgressOK(k)'
  <2>1. Request(k)' = Request(k) /\ ProgressOK(k)
    BY RequestStays DEF SaveOnly, Primed, PointsInv
  <2>2. Request(k)'.op = "order" => call'[k].user # None
    BY <1>1, <2>1 DEF ProgressOK, Settled
  <2>3. users' = users /\ orders' = orders /\ faults' = faults
    BY DEF SaveOnly
  <2> QED BY <1>1, <2>2, <2>3 DEF ProgressOK, Settled
<1>5. \A e \in ledger' \ ledger : LedgerOK(e)'
  BY <1>2, EarnedStays
<1>6. faults' = faults /\ users' = users /\ orders' = orders
  BY DEF SaveOnly
<1> QED
  BY <1>1, <1>2, <1>3, <1>4, <1>5, <1>6, PointsFrame

\* A point event is saved: a new one of a referred user is followed by the bonus.
LEMMA SavePointsPoints ==
  ASSUME IInv, PointsInv, NEW k \in Calls, SavePoints(k)
  PROVE  PointsInv'
<1>1. PICK p, e : p = Head(call[k].points) /\ e = Event(p)
  OBVIOUS
<1>2. /\ call[k].pc = "award" /\ call[k].points # <<>> /\ ledger' = ledger \cup {e} /\ SaveOnly
  BY <1>1 DEF SavePoints, SaveOnly
<1>3. /\ PointsOK(k) /\ ProgressOK(k) /\ Settled(k) /\ AllCaused(k, call[k].points)
      /\ p \in PointRecs /\ Caused(k, p) /\ AllCaused(k, Tail(call[k].points))
  BY <1>1, <1>2, RestCaused DEF PointsInv, PointsOK, Settled
<1>4. LedgerOK(e) /\ e.user = p.user /\ e.source = p.source /\ e.item = p.item
  BY <1>1, <1>3, EventEarned DEF Event
<1>5. faults = 0 => (k \in users => UserPaid(k)') /\ (k \in orders => OrderPaid(k)')
  <2>1. UserPaid(k) => UserPaid(k)'
    BY <1>1, <1>2, <1>4 DEF UserPaid, SignupFor
  <2>2. OrderPaid(k) => OrderPaid(k)'
    BY <1>1, <1>2, <1>4 DEF OrderPaid
  <2> QED BY <1>3, <2>1, <2>2 DEF ProgressOK
<1>6. \A f \in ledger : ~BonusComes(k, f)
  BY <1>2 DEF BonusComes
<1>7. CASE HasBonus(p)
  <2>1. call' = At(k, "bonus", call[k].user, call[k].points) /\ p.bonus # None
    BY <1>1, <1>7 DEF SavePoints, Step, HasBonus
  <2>2. OnlyCall(k) /\ call'[k].pc = "bonus" /\ call'[k].points = call[k].points
    BY <2>1, CallFacts, AtFact
  <2>3. BonusComes(k, e)'
    BY <1>1, <2>2 DEF BonusComes
  <2>4. \A f \in ledger' \ ledger : BonusPaid(f)'
    BY <1>2, <2>3 DEF BonusPaid
  <2> QED BY <1>1, <1>2, <1>3, <1>4, <1>5, <1>6, <2>1, <2>4, SaveFrame
<1>8. CASE ~HasBonus(p)
  <2>1. call' = At(k, "award", call[k].user, Tail(call[k].points))
    BY <1>1, <1>8 DEF SavePoints
  <2>2. ASSUME e \notin ledger, Due(e)' PROVE FALSE
    <3>1. p.bonus = None /\ p.source # "referral_signup"
      BY <1>1, <1>4, <1>8, <2>2 DEF HasBonus, Due
    <3>2. referrer[p.user] = None
      BY <1>3, <3>1 DEF Caused
    <3> QED BY <1>2, <1>4, <2>2, <3>2 DEF Due, SaveOnly
  <2>3. \A f \in ledger' \ ledger : Due(f)' => BonusPaid(f)'
    BY <1>2, <2>2
  <2> QED BY <1>2, <1>3, <1>4, <1>5, <1>6, <2>1, <2>3, SaveFrame
<1> QED BY <1>7, <1>8

\* The referrer's bonus is saved.
LEMMA SaveBonusPoints ==
  ASSUME IInv, PointsInv, NEW k \in Calls, SaveBonus(k)
  PROVE  PointsInv'
<1>1. PICK p, base : p = Head(call[k].points) /\ base = Event(p)
  OBVIOUS
<1>2. PICK e : e = BonusFor(p.bonus, base)
  OBVIOUS
<1>3. /\ call[k].pc = "bonus" /\ ledger' = ledger \cup {e} /\ SaveOnly
      /\ call' = At(k, "award", call[k].user, Tail(call[k].points))
  BY <1>1, <1>2 DEF SaveBonus, SaveOnly
<1>4. /\ ProgressOK(k) /\ Settled(k) /\ call[k].points # <<>> /\ p.bonus # None /\ base \in ledger
      /\ p \in PointRecs /\ Caused(k, p) /\ AllCaused(k, Tail(call[k].points))
  BY <1>1, <1>3, RestCaused DEF PointsInv, PointsOK, ProgressOK, Settled
<1>5. p.user \in users /\ p.bonus = referrer[p.user]
  BY <1>4 DEF Caused, ReferralCause
<1>6. LedgerOK(e) /\ e.for # None
  BY <1>1, <1>2, <1>4, <1>5, BonusEarned DEF LedgerOK, BonusFor
<1>7. faults = 0 => (k \in users => UserPaid(k)') /\ (k \in orders => OrderPaid(k)')
  <2>1. (UserPaid(k) => UserPaid(k)') /\ (OrderPaid(k) => OrderPaid(k)')
    BY <1>3 DEF UserPaid, OrderPaid, Awards
  <2> QED BY <1>4, <2>1 DEF ProgressOK
<1>8. \A f \in ledger : BonusComes(k, f) => BonusPaid(f)'
  <2>1. base.user = p.user
    BY <1>1 DEF Event
  <2>2. BonusPaid(base)'
    BY <1>2, <1>3, <1>5, <2>1 DEF BonusPaid, SaveOnly
  <2> QED BY <1>1, <2>2 DEF BonusComes
<1>9. \A f \in ledger' \ ledger : ~Due(f)'
  BY <1>3, <1>6 DEF Due
<1> QED BY <1>3, <1>4, <1>6, <1>7, <1>8, <1>9, SaveFrame

\* A call ends when its list is empty.
LEMMA EndAwardPoints ==
  ASSUME IInv, PointsInv, NEW k \in Calls, EndAward(k)
  PROVE  PointsInv'
<1>1. /\ call[k].pc = "award" /\ call[k].points = <<>> /\ ledger' = ledger /\ SaveOnly
      /\ call' = At(k, "done", call[k].user, call[k].points)
  BY DEF EndAward, SaveOnly, Step
<1>2. ProgressOK(k) /\ Settled(k) /\ AllCaused(k, call[k].points)
  BY <1>1 DEF PointsInv, PointsOK, Settled
<1>3. faults = 0 => (k \in users => UserPaid(k)') /\ (k \in orders => OrderPaid(k)')
  <2>1. (UserPaid(k) => UserPaid(k)') /\ (OrderPaid(k) => OrderPaid(k)')
    BY <1>1 DEF UserPaid, OrderPaid, Awards
  <2> QED BY <1>2, <2>1 DEF ProgressOK
<1>4. \A f \in ledger : ~BonusComes(k, f)
  BY <1>1 DEF BonusComes
<1> QED BY <1>1, <1>2, <1>3, <1>4, SaveFrame

\* A call that ends half-way leaves what is stored with its cause.
LEMMA CallFailsPoints ==
  ASSUME IInv, PointsInv, NEW k \in Calls, CallFails(k)
  PROVE  PointsInv'
<1>1. /\ UNCHANGED <<config, consumed, users, owner, referrer, orders, released, ledger>>
      /\ faults' # 0
  BY AccountsAssumption DEF CallFails, IInv, TypeOK
<1>2. OnlyCall(k) /\ call'[k].pc = "failed" /\ call'[k].user = call[k].user /\ call'[k].points = call[k].points
  <2>1. call' = At(k, "failed", call[k].user, call[k].points)
    BY DEF CallFails, Fail, Step
  <2> QED BY <2>1, CallFacts, AtFact
<1>3. Lasts
  BY <1>1, <1>2 DEF Lasts, Keeps, Grows, OnlyCall, IInv, TypeOK
<1>4. PointsOK(k)'
  <2>1. AllCaused(k, call[k].points)
    BY DEF PointsInv, PointsOK
  <2>2. \A i \in DOMAIN call[k].points : \A p : p = call[k].points[i] => Caused(k, p)'
    BY <1>3, <2>1, CausedStays DEF AllCaused
  <2> QED BY <1>2, <2>1, <2>2 DEF PointsOK, AllCaused
<1>5. ProgressOK(k)'
  BY <1>1, <1>2 DEF ProgressOK, Settled
<1> QED BY <1>1, <1>2, <1>3, <1>4, <1>5, PointsFrame

\* A step that moves no call keeps the points in order.
LEMMA IdlePoints ==
  ASSUME IInv, PointsInv, call' = call,
         UNCHANGED <<config, consumed, users, owner, referrer, orders, released, ledger, faults>>
  PROVE  PointsInv'
<1>1. Lasts
  BY DEF Lasts, Keeps, Grows
<1>2. \A k \in Calls : PointsOK(k)' /\ ProgressOK(k)'
  BY <1>1, OtherPoints
<1>3. \A e \in ledger' : LedgerOK(e)'
  BY <1>1, EarnedStays DEF PointsInv
<1>4. \A e \in ledger : (Due(e)' <=> Due(e)) /\ (BonusPaid(e) => BonusPaid(e)')
  BY DEF Due, BonusPaid, BonusComes
<1> QED BY <1>2, <1>3, <1>4 DEF PointsInv

\* Every step keeps the points in order.
LEMMA NextPoints == IInv /\ PointsInv /\ [Next]_vars => PointsInv'
<1> SUFFICES ASSUME IInv, PointsInv, [Next]_vars PROVE PointsInv'
  OBVIOUS
<1>1. ASSUME NEW k \in Calls, CallStep(k) PROVE PointsInv'
  BY <1>1, ReadPoints, FindSavedPoints, InsertUserPoints, InsertWalletPoints, SaveOrderPoints,
     UpdateTradePoints, FindPartyPoints, SavePointsPoints, SaveBonusPoints, EndAwardPoints
  DEF CallStep
<1>2. ASSUME NEW k \in Calls, CallFails(k) PROVE PointsInv'
  BY <1>2, CallFailsPoints
<1>3. CASE \E c \in Challenges : IssueChallenge(c) \/ Expire(c)
  BY <1>3, IdlePoints DEF IssueChallenge, Expire
<1>4. CASE UNCHANGED vars
  BY <1>4, IdlePoints DEF vars
<1> QED BY <1>1, <1>2, <1>3, <1>4 DEF Next

\* No call has stored anything at the start.
LEMMA InitPoints == Init => PointsInv
<1> SUFFICES ASSUME Init PROVE PointsInv
  OBVIOUS
<1>1. /\ users = Users /\ orders = {} /\ ledger = {}
      /\ \A k \in Calls : call[k].pc = "idle" /\ call[k].points = <<>>
  BY DEF Init
<1>2. ASSUME NEW k \in Calls PROVE PointsOK(k) /\ ProgressOK(k)
  <2>1. k \notin users
    BY <1>1, AccountsAssumption
  <2>2. PointsOK(k)
    <3>1. <<>> \in Seq(PointRecs) /\ \A i \in DOMAIN <<>> : Caused(k, <<>>[i])
      OBVIOUS
    <3> QED BY <1>1, <3>1 DEF PointsOK, AllCaused
  <2> QED BY <1>1, <2>1, <2>2 DEF ProgressOK
<1> QED BY <1>1, <1>2 DEF PointsInv

\* The invariant implies the property: when all calls have ended nothing is about to be
\* saved.
LEMMA PointsInvEarned == IInv /\ PointsInv => PointsAreEarned
<1> SUFFICES ASSUME IInv, PointsInv PROVE PointsAreEarned
  OBVIOUS
<1>1. \A e \in ledger : Earned(e)
  BY DEF PointsInv, LedgerOK
<1>2. ASSUME Ended
      PROVE  /\ \A e \in ledger : Due(e) => BonusFor(referrer[e.user], e) \in ledger
             /\ \A u \in users \ Users : \E e \in ledger : e.user = u /\ e.source = "signup"
             /\ \A k \in orders : \E e \in ledger : e.item = k
  <2>1. faults = 0 /\ \A k \in Calls : call[k].pc \in {"idle", "done", "failed"}
    BY <1>2 DEF Ended
  <2>2. \A k \in Calls : ~Awards(k) /\ \A e : ~BonusComes(k, e)
    BY <2>1 DEF Awards, BonusComes
  <2>3. \A e \in ledger : Due(e) => BonusFor(referrer[e.user], e) \in ledger
    BY <2>1, <2>2 DEF PointsInv, BonusPaid
  <2>4. users \ Users \subseteq Calls /\ orders \subseteq Calls
    BY DEF IInv, TypeOK, Accounts
  <2>5. \A u \in users \ Users : \E e \in ledger : e.user = u /\ e.source = "signup"
    BY <2>1, <2>2, <2>4 DEF PointsInv, ProgressOK, UserPaid, SignupFor
  <2>6. \A k \in orders : \E e \in ledger : e.item = k
    BY <2>1, <2>2, <2>4 DEF PointsInv, ProgressOK, OrderPaid
  <2> QED BY <2>3, <2>5, <2>6
<1> QED BY <1>1, <1>2 DEF PointsAreEarned

\* Every point event has its cause, and when all calls have ended, none of them half-way,
\* no cause lacks its points: neither a referrer's bonus, nor a signup, nor an order.  For
\* any number of overlapping calls.
THEOREM PointsAreEarnedHolds == Spec => []PointsAreEarned
BY InitIInv, NextIInv, InitPoints, NextPoints, PointsInvEarned, PTL DEF Spec

-----------------------------------------------------------------------------
(* Side effects: requests, their rows, and what the rows say *)

\* The steps a request of each kind goes through.
StepsOf(kind) ==
  IF kind = "alert" THEN {"save", "list", "notify", "confirm", "deny"}
  ELSE IF kind = "replay" THEN {"list", "notify", "confirm", "deny"}
  ELSE IF kind = "submit" THEN {"intent", "save", "send", "submitted"}
  ELSE IF kind = "record" THEN {"review", "save"}
  ELSE {"save"}

\* What a request in flight knows.
DoingOK(pc, q) ==
  /\ pc \in StepsOf(q.kind)
  /\ pc = "confirm" => {AlertOf(q)} \X scenario.sinks \subseteq reached
  /\ pc \in {"send", "submitted"} => ~Free(q.key) /\ effects[q.key].hash = Payload(q, "prepared")
  /\ pc = "submitted" => q.body \in accepted

HandlerOK(c) ==
  \/ handler[c] = NoRequest
  \/ /\ handler[c] = Handling(handler[c].pc, handler[c].request)
     /\ handler[c].request \in scenario.requests
     /\ DoingOK(handler[c].pc, handler[c].request)

\* What a row of the program's own says is so: the property, for one row.
RowTrue(row) ==
  /\ row = [hash |-> row.hash, status |-> row.status, by |-> row.by]
  /\ row.by # Posted =>
       /\ row.hash.type = "support_alert_delivery" /\ row.status = "confirmed"
            => {row.hash.body} \X scenario.sinks \subseteq reached
       /\ row.status = "submitted" => row.hash.body \in accepted
EffectRowOK(k) == Free(k) \/ RowTrue(effects[k])

EffectsInv ==
  /\ scenario \in Scenarios
  /\ handler = [c \in Handlers |-> handler[c]] /\ effects = [k \in AllKeys |-> effects[k]]
  /\ reached \subseteq Keys \X Sinks
  /\ \A c \in Handlers : HandlerOK(c)
  /\ \A k \in AllKeys : EffectRowOK(k)

\* What a request may be.
RequestIs(q) ==
  /\ q.key \in Keys /\ q.trade \in Trades
  /\ \/ q.kind = "alert" /\ q.type = "support_alert" /\ q.body \in Severities
     \/ q.kind = "replay" /\ q.type = "support_alert_delivery" /\ q.body \in Keys
     \/ q.kind = "submit" /\ q.type \in {"pearl_release", "pearl_refund"} /\ q.body \in Txs
     \/ q.kind = "record" /\ q.type = "live_proof_evidence" /\ q.body \in Outcomes
     \/ q.kind = "record" /\ q.type \in {"manual_review_note", "usdc_create_trade"}
     \/ q.kind = "post"

LEMMA RequestIsFact == ASSUME NEW q \in Requests PROVE RequestIs(q)
<1>1. CASE q \in RequestsOf("alert", {"support_alert"}, Severities, {NoStatus})
  BY <1>1 DEF RequestsOf, RequestIs
<1>2. CASE q \in RequestsOf("replay", {"support_alert_delivery"}, Keys, {NoStatus})
  BY <1>2 DEF RequestsOf, RequestIs
<1>3. CASE q \in RequestsOf("submit", DOMAIN SubmitState, Txs, {NoStatus})
  <2>1. DOMAIN SubmitState = {"pearl_release", "pearl_refund"}
    BY DEF SubmitState
  <2> QED BY <1>3, <2>1 DEF RequestsOf, RequestIs
<1>4. CASE q \in RequestsOf("record", {"live_proof_evidence"}, Outcomes, {NoStatus})
  BY <1>4 DEF RequestsOf, RequestIs
<1>5. CASE q \in RequestsOf("record", {"manual_review_note", "usdc_create_trade"}, STRING, {NoStatus})
  BY <1>5 DEF RequestsOf, RequestIs
<1>6. CASE q \in RequestsOf("post", PostedTypes, PostedBodies, PostedStatuses)
  BY <1>6 DEF RequestsOf, RequestIs
<1> QED BY <1>1, <1>2, <1>3, <1>4, <1>5, <1>6 DEF Requests

\* Requests a scenario allows are requests.
LEMMA ScenarioFact ==
  ASSUME EffectsInv, NEW q \in scenario.requests
  PROVE  RequestIs(q) /\ q.key \in AllKeys
<1>1. q \in Requests
  BY SideEffectsAssumption DEF EffectsInv
<1> QED BY <1>1, RequestIsFact DEF RequestIs, AllKeys

\* The request a handler is at.
LEMMA DoingFact ==
  ASSUME EffectsInv, NEW c \in Handlers, handler[c].pc # "idle", NEW q, q = handler[c].request
  PROVE  /\ q \in scenario.requests /\ RequestIs(q) /\ q.key \in AllKeys
         /\ DoingOK(handler[c].pc, q) /\ handler[c] = Handling(handler[c].pc, q)
<1>1. handler[c] # NoRequest
  BY DEF NoRequest
<1>2. HandlerOK(c)
  BY DEF EffectsInv
<1> QED BY <1>1, <1>2, ScenarioFact DEF HandlerOK

\* What a step keeps: rows stay what they were made for, and messages that arrived and
\* transactions the node took stay.
EffectsGrow ==
  /\ scenario' = scenario /\ reached \subseteq reached' /\ accepted \subseteq accepted'
  /\ \A k \in AllKeys : ~Free(k) => ~Free(k)' /\ effects'[k].hash = effects[k].hash

\* What a row says stays so.
LEMMA RowStays ==
  ASSUME EffectsGrow, NEW row, RowTrue(row)
  PROVE  RowTrue(row)'
BY DEF RowTrue, EffectsGrow

\* What a request knows stays so.
LEMMA DoingStays ==
  ASSUME EffectsInv, EffectsGrow, NEW q \in scenario.requests, NEW pc, DoingOK(pc, q)
  PROVE  DoingOK(pc, q)'
<1>1. RequestIs(q) /\ q.key \in AllKeys
  BY ScenarioFact
<1>2. pc \in {"send", "submitted"} => ~Free(q.key)' /\ effects'[q.key].hash = Payload(q, "prepared")
  BY <1>1 DEF DoingOK, EffectsGrow
<1> QED BY <1>2 DEF DoingOK, EffectsGrow, AlertOf, Payload

\* A row with a status a row may have is a row.
LEMMA RowIsThere ==
  ASSUME NEW row, RowTrue(row)
  PROVE  row # NoEffect
BY DEF RowTrue, NoEffect

\* A step of one handler keeps the invariant if the handler knows what it has to, and
\* every row it writes is true.
LEMMA EffectsFrame ==
  ASSUME EffectsInv, EffectsGrow, reached' \subseteq Keys \X Sinks,
         NEW c \in Handlers, \A d \in Handlers \ {c} : handler'[d] = handler[d],
         handler' = [d \in Handlers |-> handler'[d]], HandlerOK(c)',
         effects' = [k \in AllKeys |-> effects'[k]],
         \A k \in AllKeys : effects'[k] = effects[k] \/ EffectRowOK(k)'
  PROVE  EffectsInv'
<1>1. \A d \in Handlers \ {c} : HandlerOK(d)'
  <2> SUFFICES ASSUME NEW d \in Handlers \ {c} PROVE HandlerOK(d)'
    OBVIOUS
  <2>1. CASE handler[d] = NoRequest
    BY <2>1 DEF HandlerOK
  <2>2. CASE handler[d] # NoRequest
    <3>1. PICK pc, q : pc = handler[d].pc /\ q = handler[d].request
      OBVIOUS
    <3>2. handler[d] = Handling(pc, q) /\ q \in scenario.requests /\ DoingOK(pc, q)
      BY <2>2, <3>1 DEF EffectsInv, HandlerOK
    <3>3. DoingOK(pc, q)'
      BY <3>2, DoingStays
    <3>4. handler'[d] = handler[d] /\ scenario' = scenario
      BY DEF EffectsGrow
    <3> QED BY <3>1, <3>2, <3>3, <3>4 DEF HandlerOK
  <2> QED BY <2>1, <2>2
<1>2. \A k \in AllKeys : EffectRowOK(k)'
  <2> SUFFICES ASSUME NEW k \in AllKeys, effects'[k] = effects[k] PROVE EffectRowOK(k)'
    OBVIOUS
  <2>1. EffectRowOK(k)
    BY DEF EffectsInv
  <2>2. CASE Free(k)
    BY <2>2 DEF EffectRowOK, Free
  <2>3. CASE RowTrue(effects[k])
    <3>1. PICK row : row = effects[k]
      OBVIOUS
    <3>2. RowTrue(row)'
      BY <2>3, <3>1, RowStays
    <3> QED BY <3>1, <3>2 DEF EffectRowOK
  <2> QED BY <2>1, <2>2, <2>3 DEF EffectRowOK
<1>3. \A d \in Handlers : HandlerOK(d)'
  BY <1>1
<1> QED BY <1>2, <1>3 DEF EffectsInv, EffectsGrow

\* What Goes makes of the handlers.
LEMMA GoesFact ==
  ASSUME handler = [d \in Handlers |-> handler[d]], NEW c \in Handlers, NEW pc, Goes(c, pc)
  PROVE  /\ \A d \in Handlers \ {c} : handler'[d] = handler[d]
         /\ handler' = [d \in Handlers |-> handler'[d]]
         /\ handler'[c] = IF pc = "idle" THEN NoRequest ELSE Handling(pc, handler[c].request)
BY DEF Goes

\* A handler that returns, or goes on to a step at which it knows what it has to.
LEMMA GoesOK ==
  ASSUME EffectsInv, scenario' = scenario, NEW c \in Handlers, handler[c].pc # "idle", NEW pc, Goes(c, pc),
         NEW q, q = handler[c].request, pc = "idle" \/ DoingOK(pc, q)'
  PROVE  HandlerOK(c)'
<1>1. handler'[c] = IF pc = "idle" THEN NoRequest ELSE Handling(pc, q)
  BY GoesFact DEF EffectsInv
<1>2. q \in scenario.requests
  BY DoingFact
<1>3. CASE pc = "idle"
  BY <1>1, <1>3 DEF HandlerOK
<1>4. CASE pc # "idle"
  <2>1. handler'[c] = Handling(pc, q) /\ handler'[c].pc = pc /\ handler'[c].request = q
    BY <1>1, <1>4 DEF Handling
  <2> QED BY <1>2, <1>4, <2>1 DEF HandlerOK
<1> QED BY <1>3, <1>4

\* A step that writes no row keeps the invariant if its handler goes on as it may.
LEMMA EffectsQuiet ==
  ASSUME EffectsInv, NEW c \in Handlers, handler[c].pc # "idle", NEW pc, Goes(c, pc),
         NEW q, q = handler[c].request, pc = "idle" \/ DoingOK(pc, q)',
         UNCHANGED <<scenario, effects>>, accepted \subseteq accepted',
         reached \subseteq reached', reached' \subseteq Keys \X Sinks
  PROVE  EffectsInv'
<1>1. EffectsGrow
  BY DEF EffectsGrow, Free
<1>2. /\ \A d \in Handlers \ {c} : handler'[d] = handler[d]
      /\ handler' = [d \in Handlers |-> handler'[d]]
  BY GoesFact DEF EffectsInv
<1>3. HandlerOK(c)'
  BY GoesOK
<1>4. /\ effects' = [k \in AllKeys |-> effects'[k]]
      /\ \A k \in AllKeys : effects'[k] = effects[k]
  BY DEF EffectsInv
<1> QED BY <1>1, <1>2, <1>3, <1>4, EffectsFrame

\* What storing a row makes of the ledger.
LEMMA StoredFact ==
  ASSUME effects = [k \in AllKeys |-> effects[k]], NEW k \in AllKeys, NEW payload, NEW caller,
         effects' = Stored(k, payload, caller)
  PROVE  /\ effects' = [j \in AllKeys |-> effects'[j]]
         /\ \A j \in AllKeys : j # k => effects'[j] = effects[j]
         /\ ~Free(k) => effects' = effects
         /\ Free(k) => effects'[k] = RowOf(payload, caller)
BY DEF Stored

\* The row of a new payload is true if what it says is.
LEMMA NewRow ==
  ASSUME NEW payload, NEW caller,
         caller = Posted \/ payload.status \in {"failed", "prepared", "confirmed"},
         caller = Posted \/ (payload.type = "support_alert_delivery" /\ payload.status = "confirmed"
           => {payload.body} \X scenario.sinks \subseteq reached)
  PROVE  RowTrue(RowOf(payload, caller))
<1>1. /\ RowOf(payload, caller).hash = payload /\ RowOf(payload, caller).status = payload.status
      /\ RowOf(payload, caller).by = caller
  BY DEF RowOf
<1>2. RowOf(payload, caller) = [hash |-> payload, status |-> payload.status, by |-> RowOf(payload, caller).by]
  BY DEF RowOf
<1> QED BY <1>1, <1>2 DEF RowTrue

\* A step that may store a true row keeps the invariant if its handler goes on as it may.
LEMMA EffectsStore ==
  ASSUME EffectsInv, NEW c \in Handlers, handler[c].pc # "idle", NEW pc, Goes(c, pc),
         NEW q, q = handler[c].request,
         UNCHANGED <<scenario, reached, accepted>>,
         NEW k \in AllKeys, NEW payload, NEW caller, effects' \in {effects, Stored(k, payload, caller)},
         RowTrue(RowOf(payload, caller)),
         EffectsGrow => pc = "idle" \/ DoingOK(pc, q)'
  PROVE  EffectsInv'
<1>1. CASE effects' = effects
  <2>1. EffectsGrow
    BY <1>1 DEF EffectsGrow, Free
  <2> QED BY <1>1, <2>1, EffectsQuiet DEF EffectsInv
<1>2. CASE effects' = Stored(k, payload, caller)
  <2>1. /\ effects' = [j \in AllKeys |-> effects'[j]]
        /\ \A j \in AllKeys : j # k => effects'[j] = effects[j]
        /\ ~Free(k) => effects' = effects
        /\ Free(k) => effects'[k] = RowOf(payload, caller)
    BY <1>2, StoredFact DEF EffectsInv
  <2>2. EffectsGrow
    BY <2>1 DEF EffectsGrow, Free
  <2>3. /\ \A d \in Handlers \ {c} : handler'[d] = handler[d]
        /\ handler' = [d \in Handlers |-> handler'[d]]
    BY GoesFact DEF EffectsInv
  <2>4. HandlerOK(c)'
    BY <2>2, GoesOK
  <2>5. PICK row : row = RowOf(payload, caller)
    OBVIOUS
  <2>6. RowTrue(row)'
    BY <2>2, <2>5, RowStays
  <2>7. \A j \in AllKeys : effects'[j] = effects[j] \/ EffectRowOK(j)'
    BY <2>1, <2>5, <2>6 DEF EffectRowOK
  <2>8. reached' \subseteq Keys \X Sinks
    BY DEF EffectsInv
  <2> QED BY <2>1, <2>2, <2>3, <2>4, <2>7, <2>8, EffectsFrame
<1> QED BY <1>1, <1>2

-----------------------------------------------------------------------------
(* Each step keeps what the ledger and its requests know. *)

LEMMA BeginOK ==
  ASSUME EffectsInv, NEW c \in Handlers, NEW q \in scenario.requests, Begin(c, q)
  PROVE  EffectsInv'
<1>1. RequestIs(q)
  BY ScenarioFact
<1>2. EffectsGrow
  BY DEF Begin, EffectsGrow, Free, worldVars
<1>3. PICK pc : pc = FirstStep(q)
  OBVIOUS
<1>4. handler' = [handler EXCEPT ![c] = Handling(pc, q)]
  BY <1>3 DEF Begin
<1>5. handler'[c] = Handling(pc, q) /\ handler'[c].pc = pc /\ handler'[c].request = q
  BY <1>4 DEF Handling, EffectsInv
<1>6. pc \in StepsOf(q.kind) /\ pc \notin {"confirm", "send", "submitted"}
  BY <1>1, <1>3 DEF RequestIs, FirstStep, StepsOf
<1>8. DoingOK(pc, q)'
  BY <1>6 DEF DoingOK
<1>9. HandlerOK(c)'
  BY <1>5, <1>8 DEF HandlerOK, Begin
<1>10. /\ \A d \in Handlers \ {c} : handler'[d] = handler[d]
       /\ handler' = [d \in Handlers |-> handler'[d]]
  BY <1>4 DEF EffectsInv
<1>11. /\ reached' \subseteq Keys \X Sinks
       /\ effects' = [k \in AllKeys |-> effects'[k]]
       /\ \A k \in AllKeys : effects'[k] = effects[k]
  BY DEF Begin, EffectsInv, worldVars
<1> QED BY <1>2, <1>9, <1>10, <1>11, EffectsFrame

LEMMA ReviewOK ==
  ASSUME EffectsInv, NEW c \in Handlers, Review(c)
  PROVE  EffectsInv'
<1>1. PICK q : q = handler[c].request
  OBVIOUS
<1>2. RequestIs(q) /\ DoingOK("review", q)
  BY <1>1, DoingFact DEF Review
<1>3. Goes(c, "save") /\ DoingOK("save", q)'
  BY <1>2 DEF Review, DoingOK, StepsOf
<1>4. /\ UNCHANGED <<scenario, effects>> /\ accepted \subseteq accepted'
      /\ reached \subseteq reached' /\ reached' \subseteq Keys \X Sinks /\ handler[c].pc # "idle"
  BY DEF Review, EffectsInv
<1> QED BY <1>1, <1>3, <1>4, EffectsQuiet

LEMMA CheckIntentOK ==
  ASSUME EffectsInv, NEW c \in Handlers, CheckIntent(c)
  PROVE  EffectsInv'
<1>1. PICK q : q = handler[c].request
  OBVIOUS
<1>2. RequestIs(q) /\ DoingOK("intent", q)
  BY <1>1, DoingFact DEF CheckIntent
<1>3. q.kind = "submit"
  BY <1>2 DEF DoingOK, StepsOf, RequestIs
<1>4. PICK pc : pc \in {"save", "idle"} /\ Goes(c, pc)
  BY DEF CheckIntent, Returns
<1>5. pc = "idle" \/ DoingOK(pc, q)'
  BY <1>2, <1>3, <1>4 DEF DoingOK, StepsOf, RequestIs
<1>6. /\ UNCHANGED <<scenario, effects>> /\ accepted \subseteq accepted'
      /\ reached \subseteq reached' /\ reached' \subseteq Keys \X Sinks /\ handler[c].pc # "idle"
  BY DEF CheckIntent, Untouched, worldVars, EffectsInv
<1> QED BY <1>1, <1>4, <1>5, <1>6, EffectsQuiet

LEMMA ListSideEffectsOK ==
  ASSUME EffectsInv, NEW c \in Handlers, ListSideEffects(c)
  PROVE  EffectsInv'
<1>1. PICK q : q = handler[c].request
  OBVIOUS
<1>2. q.kind = "alert" /\ Goes(c, "notify")
  BY <1>1 DEF ListSideEffects
<1>3. DoingOK("notify", q)'
  BY <1>2 DEF DoingOK, StepsOf
<1>4. /\ UNCHANGED <<scenario, effects>> /\ accepted \subseteq accepted'
      /\ reached \subseteq reached' /\ reached' \subseteq Keys \X Sinks /\ handler[c].pc # "idle"
  BY DEF ListSideEffects, Untouched, worldVars, EffectsInv
<1> QED BY <1>1, <1>2, <1>3, <1>4, EffectsQuiet

LEMMA FindAlertOK ==
  ASSUME EffectsInv, NEW c \in Handlers, FindAlert(c)
  PROVE  EffectsInv'
<1>1. PICK q : q = handler[c].request
  OBVIOUS
<1>2. q.kind = "replay"
  BY <1>1 DEF FindAlert
<1>3. PICK pc : pc \in {"notify", "idle"} /\ Goes(c, pc)
  BY DEF FindAlert, Returns
<1>4. pc = "idle" \/ DoingOK(pc, q)'
  BY <1>2, <1>3 DEF DoingOK, StepsOf
<1>5. /\ UNCHANGED <<scenario, effects>> /\ accepted \subseteq accepted'
      /\ reached \subseteq reached' /\ reached' \subseteq Keys \X Sinks /\ handler[c].pc # "idle"
  BY DEF FindAlert, Untouched, worldVars, EffectsInv
<1> QED BY <1>1, <1>3, <1>4, <1>5, EffectsQuiet

LEMMA NotifyOK ==
  ASSUME EffectsInv, NEW c \in Handlers, Notify(c)
  PROVE  EffectsInv'
<1>1. PICK q : q = handler[c].request
  OBVIOUS
<1>2. RequestIs(q) /\ DoingOK("notify", q)
  BY <1>1, DoingFact DEF Notify
<1>3. q.kind \in {"alert", "replay"} /\ AlertOf(q) \in Keys
  BY <1>2 DEF DoingOK, StepsOf, RequestIs, AlertOf
<1>4. PICK got : got \in SUBSET scenario.sinks /\ \E ok \in BOOLEAN :
        /\ ok => AllReached(got)
        /\ reached' = reached \cup ({AlertOf(q)} \X got)
        /\ Goes(c, AfterNotify(ok))
  BY <1>1 DEF Notify
<1>5. PICK ok \in BOOLEAN :
        /\ ok => AllReached(got)
        /\ reached' = reached \cup ({AlertOf(q)} \X got)
        /\ Goes(c, AfterNotify(ok))
  BY <1>4
<1>6. PICK pc : pc = AfterNotify(ok)
  OBVIOUS
<1>7. pc \in {"confirm", "deny"} /\ (pc = "confirm" => got = scenario.sinks)
  BY <1>5, <1>6 DEF AfterNotify, AllReached
<1>8. pc = "confirm" => {AlertOf(q)} \X scenario.sinks \subseteq reached'
  BY <1>5, <1>7
<1>9. pc \in StepsOf(q.kind)
  BY <1>3, <1>7 DEF StepsOf
<1>10. DoingOK(pc, q)'
  BY <1>7, <1>8, <1>9 DEF DoingOK, AlertOf, Notify, Untouched
<1>11. reached \subseteq reached' /\ reached' \subseteq Keys \X Sinks
  <2>1. scenario.sinks \subseteq Sinks
    BY SideEffectsAssumption DEF EffectsInv
  <2>2. {AlertOf(q)} \X got \subseteq Keys \X Sinks
    BY <1>3, <1>4, <2>1
  <2> QED BY <1>5, <2>2 DEF EffectsInv
<1>12. UNCHANGED <<scenario, effects>> /\ accepted \subseteq accepted' /\ handler[c].pc # "idle"
  BY DEF Notify, Untouched, worldVars
<1> QED BY <1>1, <1>5, <1>6, <1>10, <1>11, <1>12, EffectsQuiet

\* The row a request saves first is true when it is saved.
LEMMA SavedRowTrue ==
  ASSUME NEW q, RequestIs(q), DoingOK("save", q)
  PROVE  RowTrue(RowOf(Payload(q, InitialStatus(q)), By(q)))
<1>1. PICK p, by : p = Payload(q, InitialStatus(q)) /\ by = By(q)
  OBVIOUS
<1>2. p.type = q.type /\ p.status = InitialStatus(q)
  BY <1>1 DEF Payload
<1>3. CASE q.kind = "post"
  <2>1. by = Posted
    BY <1>1, <1>3 DEF By
  <2>2. RowTrue(RowOf(p, by))
    BY <2>1, NewRow
  <2> QED BY <1>1, <2>2
<1>4. CASE q.kind # "post"
  <2>1. q.type # "support_alert_delivery"
    BY <1>4 DEF DoingOK, StepsOf, RequestIs
  <2>2. p.status \in {"failed", "prepared", "confirmed"}
    BY <1>2, <1>4 DEF InitialStatus
  <2>3. RowTrue(RowOf(p, by))
    BY <1>2, <2>1, <2>2, NewRow
  <2> QED BY <1>1, <2>3
<1> QED BY <1>3, <1>4

\* The row of a delivery is true when it is saved.
LEMMA DeliveryRowTrue ==
  ASSUME NEW q, NEW pc \in {"confirm", "deny"}, DoingOK(pc, q), NEW caller
  PROVE  RowTrue(RowOf(Delivery(q, AlertOf(q), DeliveryStatus[pc]), caller))
<1>1. PICK p : p = Delivery(q, AlertOf(q), DeliveryStatus[pc])
  OBVIOUS
<1>2. /\ p.type = "support_alert_delivery" /\ p.body = AlertOf(q)
      /\ p.status \in {"failed", "confirmed"} /\ (p.status = "confirmed" => pc = "confirm")
  BY <1>1 DEF Delivery, DeliveryStatus
<1>3. p.status = "confirmed" => {p.body} \X scenario.sinks \subseteq reached
  BY <1>2 DEF DoingOK
<1>4. RowTrue(RowOf(p, caller))
  BY <1>2, <1>3, NewRow
<1> QED BY <1>1, <1>4

\* The keys of the rows of a delivery.
LEMMA DeliveryKeyFact ==
  ASSUME NEW q, RequestIs(q)
  PROVE  DeliveryKey(q.key) \in AllKeys /\ q.key \in AllKeys /\ DeliveryRowKey(q) \in AllKeys
BY DEF RequestIs, AllKeys, DeliveryRowKey

LEMMA SaveOK ==
  ASSUME EffectsInv, NEW c \in Handlers, Save(c)
  PROVE  EffectsInv'
<1>1. PICK q : q = handler[c].request
  OBVIOUS
<1>2. RequestIs(q) /\ q.key \in AllKeys /\ DoingOK("save", q) /\ handler[c].pc # "idle"
  BY <1>1, DoingFact DEF Save
<1>3. PICK p : p = Payload(q, InitialStatus(q))
  OBVIOUS
<1>4. effects' = Stored(q.key, p, By(q)) /\ RowTrue(RowOf(p, By(q)))
  BY <1>1, <1>2, <1>3, SavedRowTrue DEF Save
<1>5. UNCHANGED <<scenario, reached, accepted>>
  BY DEF Save, Untouched, worldVars
<1>6. CASE Creates(q)
  <2>1. PICK pc : pc = NextStep(q)
    OBVIOUS
  <2>2. Goes(c, pc)
    BY <1>1, <1>6, <2>1 DEF Save
  <2>3. effects'[q.key] = RowOf(p, By(q)) /\ ~Free(q.key)'
    <3>1. effects'[q.key] = RowOf(p, By(q))
      <4>1. effects = [k \in AllKeys |-> effects[k]] /\ Free(q.key)
        BY <1>6 DEF Creates, EffectsInv
      <4>2. effects' = Stored(q.key, p, By(q)) /\ q.key \in AllKeys
        BY <1>2, <1>4
      <4>3. effects' = [effects EXCEPT ![q.key] = RowOf(p, By(q))]
        BY <4>1, <4>2 DEF Stored
      <4> QED BY <4>1, <4>2, <4>3
    <3>2. RowOf(p, By(q)) # NoEffect
      BY <1>4, RowIsThere
    <3> QED BY <3>1, <3>2 DEF Free
  <2>4. ASSUME EffectsGrow PROVE pc = "idle" \/ DoingOK(pc, q)'
    <3>1. CASE q.kind = "alert"
      <4>1. pc \in {"list", "idle"}
        BY <2>1, <3>1 DEF NextStep
      <4> QED BY <3>1, <4>1 DEF DoingOK, StepsOf
    <3>2. CASE q.kind = "submit"
      <4>1. pc = "send" /\ InitialStatus(q) = "prepared"
        BY <2>1, <3>2 DEF NextStep, InitialStatus
      <4>2. effects'[q.key].hash = Payload(q, "prepared")
        BY <2>3, <1>3, <4>1 DEF RowOf
      <4>3. pc \in StepsOf(q.kind)
        BY <3>2, <4>1 DEF StepsOf
      <4> QED BY <2>3, <4>1, <4>2, <4>3 DEF DoingOK, Payload
    <3>3. CASE q.kind \in {"record", "post"}
      BY <2>1, <3>3 DEF NextStep
    <3>4. q.kind # "replay"
      BY <1>2 DEF DoingOK, StepsOf
    <3> QED BY <1>2, <3>1, <3>2, <3>3, <3>4 DEF RequestIs
  <2> QED BY <1>1, <1>2, <1>4, <1>5, <2>2, <2>4, EffectsStore
<1>7. CASE ~Creates(q)
  <2>1. Goes(c, "idle")
    BY <1>1, <1>7 DEF Save, Returns
  <2> QED BY <1>1, <1>2, <1>4, <1>5, <2>1, EffectsStore
<1> QED BY <1>6, <1>7

LEMMA SaveAlertDeliveryOK ==
  ASSUME EffectsInv, NEW c \in Handlers, SaveAlertDelivery(c)
  PROVE  EffectsInv'
<1>1. PICK q, at : q = handler[c].request /\ at = handler[c].pc
  OBVIOUS
<1>2. at \in {"confirm", "deny"} /\ at # "idle" /\ q.kind = "alert"
  BY <1>1 DEF SaveAlertDelivery, DeliveryStatus
<1>3. RequestIs(q) /\ DoingOK(at, q)
  BY <1>1, <1>2, DoingFact
<1>4. PICK p : p = Delivery(q, AlertOf(q), DeliveryStatus[at])
  OBVIOUS
<1>5. effects' = Stored(DeliveryKey(q.key), p, By(q))
  BY <1>1, <1>4 DEF SaveAlertDelivery, DeliveryRow
<1>6. RowTrue(RowOf(p, By(q)))
  BY <1>2, <1>3, <1>4, DeliveryRowTrue
<1>7. PICK pc : pc \in {"deny", "idle"} /\ Goes(c, pc)
  BY DEF SaveAlertDelivery
<1>8. pc = "idle" \/ DoingOK(pc, q)'
  BY <1>2, <1>7 DEF DoingOK, StepsOf
<1>9. UNCHANGED <<scenario, reached, accepted>> /\ DeliveryKey(q.key) \in AllKeys
  BY <1>3, DeliveryKeyFact DEF SaveAlertDelivery, Untouched, worldVars
<1> QED BY <1>1, <1>2, <1>5, <1>6, <1>7, <1>8, <1>9, EffectsStore

LEMMA SaveReplayOK ==
  ASSUME EffectsInv, NEW c \in Handlers, SaveReplay(c)
  PROVE  EffectsInv'
<1>1. PICK q, at : q = handler[c].request /\ at = handler[c].pc
  OBVIOUS
<1>2. at \in {"confirm", "deny"} /\ at # "idle"
  BY <1>1 DEF SaveReplay, DeliveryStatus
<1>3. RequestIs(q) /\ DoingOK(at, q)
  BY <1>1, <1>2, DoingFact
<1>4. PICK p : p = Delivery(q, AlertOf(q), DeliveryStatus[at])
  OBVIOUS
<1>5. effects' = Stored(q.key, p, By(q))
  BY <1>1, <1>4 DEF SaveReplay, DeliveryRow
<1>6. RowTrue(RowOf(p, By(q)))
  BY <1>2, <1>3, <1>4, DeliveryRowTrue
<1>7. Goes(c, "idle")
  BY DEF SaveReplay, Returns
<1>8. UNCHANGED <<scenario, reached, accepted>> /\ q.key \in AllKeys
  BY <1>3, DeliveryKeyFact DEF SaveReplay, Untouched, worldVars
<1> QED BY <1>1, <1>2, <1>5, <1>6, <1>7, <1>8, EffectsStore

LEMMA SendOK ==
  ASSUME EffectsInv, NEW c \in Handlers, SendRawTransaction(c)
  PROVE  EffectsInv'
<1>1. PICK q : q = handler[c].request
  OBVIOUS
<1>2. RequestIs(q) /\ DoingOK("send", q) /\ handler[c].pc # "idle"
  BY <1>1, DoingFact DEF SendRawTransaction
<1>3. UNCHANGED <<scenario, effects>> /\ reached \subseteq reached' /\ reached' \subseteq Keys \X Sinks
  BY DEF SendRawTransaction, EffectsInv
<1>4. PICK took \in BOOLEAN : \E answered \in BOOLEAN :
        /\ answered => took
        /\ accepted' = accepted \cup (IF took THEN {q.body} ELSE {})
        /\ IF answered THEN Goes(c, "submitted") ELSE Returns(c)
  BY <1>1 DEF SendRawTransaction
<1>5. PICK answered \in BOOLEAN :
        /\ answered => took
        /\ accepted' = accepted \cup (IF took THEN {q.body} ELSE {})
        /\ IF answered THEN Goes(c, "submitted") ELSE Returns(c)
  BY <1>4
<1>6. accepted \subseteq accepted' /\ (answered => q.body \in accepted')
  BY <1>5
<1>7. CASE answered
  <2>1. ~Free(q.key)' /\ effects'[q.key].hash = Payload(q, "prepared") /\ "submitted" \in StepsOf(q.kind)
    BY <1>2, <1>3 DEF DoingOK, Free, StepsOf, RequestIs
  <2>2. DoingOK("submitted", q)'
    BY <1>6, <1>7, <2>1 DEF DoingOK, Payload
  <2>3. Goes(c, "submitted")
    BY <1>5, <1>7
  <2> QED BY <1>1, <1>2, <1>3, <1>6, <2>2, <2>3, EffectsQuiet
<1>8. CASE ~answered
  <2>1. Goes(c, "idle")
    BY <1>5, <1>8 DEF Returns
  <2> QED BY <1>1, <1>2, <1>3, <1>6, <2>1, EffectsQuiet
<1> QED BY <1>7, <1>8

LEMMA UpdateOK ==
  ASSUME EffectsInv, NEW c \in Handlers, UpdateSideEffect(c)
  PROVE  EffectsGrow /\ EffectsInv'
<1>1. PICK q : q = handler[c].request
  OBVIOUS
<1>2. RequestIs(q) /\ q.key \in AllKeys /\ DoingOK("submitted", q) /\ handler[c].pc # "idle"
  BY <1>1, DoingFact DEF UpdateSideEffect
<1>3. PICK row : row = effects[q.key]
  OBVIOUS
<1>4. /\ RowTrue(row) /\ row.hash = Payload(q, "prepared") /\ q.body \in accepted
      /\ q.type \in {"pearl_release", "pearl_refund"}
  BY <1>2, <1>3 DEF DoingOK, StepsOf, RequestIs, EffectsInv, EffectRowOK
<1>5. PICK new : new = [row EXCEPT !.status = "submitted"]
  OBVIOUS
<1>6. effects' = [effects EXCEPT ![q.key] = new]
  BY <1>1, <1>3, <1>5 DEF UpdateSideEffect
<1>7. effects[q.key] # NoEffect /\ RowTrue(effects[q.key])
  BY <1>3, <1>4, RowIsThere
<1>8. new.status = "submitted" /\ new.hash = row.hash /\ new = [hash |-> new.hash, status |-> new.status, by |-> new.by]
  <2>1. row = [hash |-> row.hash, status |-> row.status, by |-> row.by]
    BY <1>4 DEF RowTrue
  <2> QED BY <1>5, <2>1
<1>9. RowTrue(new)
  <2>1. /\ new.hash.type = q.type /\ new.hash.body = q.body /\ new.hash.status = "prepared"
    BY <1>4, <1>8 DEF Payload
  <2> QED BY <1>4, <1>8, <2>1 DEF RowTrue
<1>10. effects' = [k \in AllKeys |-> effects'[k]] /\ effects'[q.key] = new
       /\ \A k \in AllKeys : k # q.key => effects'[k] = effects[k]
  BY <1>2, <1>6 DEF EffectsInv
<1>11. new # NoEffect
  BY <1>9, RowIsThere
<1>12. EffectsGrow
  BY <1>3, <1>8, <1>10, <1>11 DEF EffectsGrow, Free, UpdateSideEffect, Untouched, worldVars
<1>13. RowTrue(new)'
  BY <1>9, <1>12, RowStays
<1>14. \A k \in AllKeys : effects'[k] = effects[k] \/ EffectRowOK(k)'
  BY <1>10, <1>13 DEF EffectRowOK
<1>15. Goes(c, "idle")
  BY DEF UpdateSideEffect, Returns
<1>16. /\ \A d \in Handlers \ {c} : handler'[d] = handler[d]
       /\ handler' = [d \in Handlers |-> handler'[d]] /\ handler'[c] = NoRequest
  BY <1>15, GoesFact DEF EffectsInv
<1>17. HandlerOK(c)'
  BY <1>16 DEF HandlerOK
<1>18. reached' \subseteq Keys \X Sinks
  BY DEF UpdateSideEffect, Untouched, worldVars, EffectsInv
<1> QED BY <1>10, <1>12, <1>14, <1>16, <1>17, <1>18, EffectsFrame

LEMMA StatementFailsOK ==
  ASSUME EffectsInv, NEW c \in Handlers, StatementFails(c)
  PROVE  EffectsInv'
<1>1. PICK q, at : q = handler[c].request /\ at = handler[c].pc
  OBVIOUS
<1>2. at \in {"review", "intent", "save", "list", "confirm", "deny", "submitted"} /\ handler[c].pc # "idle"
  BY <1>1 DEF StatementFails
<1>3. RequestIs(q) /\ DoingOK(at, q) /\ q.key \in AllKeys /\ DeliveryRowKey(q) \in AllKeys
  BY <1>1, <1>2, DoingFact, DeliveryKeyFact
<1>4. PICK pc : pc = (IF Caught(c) THEN "deny" ELSE "idle") /\ Goes(c, pc)
  BY DEF StatementFails, Returns
<1>5. pc = "idle" \/ DoingOK(pc, q)'
  BY <1>1, <1>4 DEF Caught, DoingOK, StepsOf
<1>6. /\ UNCHANGED <<scenario, reached, accepted>> /\ reached' \subseteq Keys \X Sinks
  BY DEF StatementFails, worldVars, EffectsInv
<1>7. CASE effects' = effects
  BY <1>1, <1>2, <1>4, <1>5, <1>6, <1>7, EffectsQuiet
<1>8. CASE effects' = Pending(c) /\ at = "save"
  <2>1. PICK p : p = Payload(q, InitialStatus(q))
    OBVIOUS
  <2>2. effects' = Stored(q.key, p, By(q))
    BY <1>1, <1>8, <2>1 DEF Pending
  <2>3. RowTrue(RowOf(p, By(q)))
    BY <1>3, <1>8, <2>1, SavedRowTrue
  <2> QED BY <1>1, <1>2, <1>3, <1>4, <1>5, <1>6, <2>2, <2>3, EffectsStore
<1>9. CASE effects' = Pending(c) /\ at \in {"confirm", "deny"}
  <2>1. PICK p : p = Delivery(q, AlertOf(q), DeliveryStatus[at])
    OBVIOUS
  <2>2. effects' = Stored(DeliveryRowKey(q), p, By(q))
    BY <1>1, <1>9, <2>1 DEF Pending, DeliveryStatus, DeliveryRow
  <2>3. RowTrue(RowOf(p, By(q)))
    BY <1>3, <1>9, <2>1, DeliveryRowTrue
  <2> QED BY <1>1, <1>2, <1>3, <1>4, <1>5, <1>6, <2>2, <2>3, EffectsStore
<1>10. CASE effects' = Pending(c) /\ at \in {"review", "intent", "list", "submitted"}
  <2>1. effects' = effects
    BY <1>1, <1>10 DEF Pending, DeliveryStatus
  <2> QED BY <1>7, <2>1
<1>11. effects' \in {effects, Pending(c)}
  BY DEF StatementFails
<1> QED BY <1>2, <1>7, <1>8, <1>9, <1>10, <1>11

\* A step that leaves the requests at rest or as they are, and the ledger as it is.
LEMMA EffectsAround ==
  ASSUME EffectsInv, UNCHANGED <<scenario, effects, reached, accepted>>,
         handler' = handler \/ handler' = [c \in Handlers |-> NoRequest]
  PROVE  EffectsInv'
<1>1. EffectsGrow
  BY DEF EffectsGrow, Free
<1>2. handler' = [d \in Handlers |-> handler'[d]]
  BY DEF EffectsInv
<1>3. \A k \in AllKeys : EffectRowOK(k)'
  <2> SUFFICES ASSUME NEW k \in AllKeys PROVE EffectRowOK(k)'
    OBVIOUS
  <2>1. EffectRowOK(k)
    BY DEF EffectsInv
  <2>2. CASE Free(k)
    BY <2>2 DEF EffectRowOK, Free
  <2>3. CASE RowTrue(effects[k])
    <3>1. PICK row : row = effects[k]
      OBVIOUS
    <3>2. RowTrue(row)'
      BY <1>1, <2>3, <3>1, RowStays
    <3> QED BY <3>1, <3>2 DEF EffectRowOK
  <2> QED BY <2>1, <2>2, <2>3 DEF EffectRowOK
<1>4. \A d \in Handlers : HandlerOK(d)'
  <2> SUFFICES ASSUME NEW d \in Handlers PROVE HandlerOK(d)'
    OBVIOUS
  <2>1. CASE handler'[d] = NoRequest
    BY <2>1 DEF HandlerOK
  <2>2. CASE handler'[d] # NoRequest
    <3>1. PICK pc, q : pc = handler[d].pc /\ q = handler[d].request
      OBVIOUS
    <3>2. handler' = handler /\ handler[d] # NoRequest
      BY <2>2
    <3>3. handler[d] = Handling(pc, q) /\ q \in scenario.requests /\ DoingOK(pc, q)
      BY <3>1, <3>2 DEF EffectsInv, HandlerOK
    <3>4. DoingOK(pc, q)'
      BY <1>1, <3>3, DoingStays
    <3> QED BY <3>1, <3>2, <3>3, <3>4 DEF HandlerOK
  <2> QED BY <2>1, <2>2
<1>5. effects' = [k \in AllKeys |-> effects'[k]] /\ scenario' \in Scenarios /\ reached' \subseteq Keys \X Sinks
  BY DEF EffectsInv
<1> QED BY <1>2, <1>3, <1>4, <1>5 DEF EffectsInv

LEMMA AroundOK ==
  ASSUME EffectsInv, Crash \/ Environment \/ UNCHANGED effectVars
  PROVE  EffectsInv'
<1>1. CASE Crash
  BY <1>1, EffectsAround DEF Crash, worldVars, EffectsInv
<1>2. ASSUME NEW b \in Buckets, TimestampExpires(b) PROVE EffectsInv'
  BY <1>2, EffectsAround DEF TimestampExpires, worldVars, EffectsInv
<1>3. ASSUME NEW t \in Trades, TradeRowWritten(t) PROVE EffectsInv'
  BY <1>3, EffectsAround DEF TradeRowWritten, EffectsInv
<1>4. ASSUME NEW t \in Trades, IntentChanges(t) PROVE EffectsInv'
  BY <1>4, EffectsAround DEF IntentChanges, EffectsInv
<1>5. CASE UNCHANGED effectVars
  BY <1>5, EffectsAround DEF effectVars, worldVars, EffectsInv
<1> QED BY <1>1, <1>2, <1>3, <1>4, <1>5 DEF Environment

LEMMA EffectsInitOK == EffectsInit => EffectsInv
<1> SUFFICES ASSUME EffectsInit PROVE EffectsInv
  OBVIOUS
<1>1. \A c \in Handlers : HandlerOK(c)
  BY DEF EffectsInit, HandlerOK
<1>2. \A k \in AllKeys : EffectRowOK(k)
  BY DEF EffectsInit, EffectRowOK, Free
<1>3. scenario \in Scenarios /\ reached \subseteq Keys \X Sinks
  BY SideEffectsAssumption DEF EffectsInit
<1>4. handler = [c \in Handlers |-> handler[c]] /\ effects = [k \in AllKeys |-> effects[k]]
  BY DEF EffectsInit
<1> QED BY <1>1, <1>2, <1>3, <1>4 DEF EffectsInv

LEMMA EffectsNextOK ==
  ASSUME EffectsInv, [EffectsNext]_effectVars
  PROVE  EffectsInv'
<1>1. ASSUME NEW c \in Handlers, HandlerStep(c) PROVE EffectsInv'
  BY <1>1, ReviewOK, CheckIntentOK, SaveOK, SendOK, UpdateOK, ListSideEffectsOK, FindAlertOK, NotifyOK,
     SaveAlertDeliveryOK, SaveReplayOK DEF HandlerStep
<1>2. ASSUME NEW c \in Handlers, StatementFails(c) PROVE EffectsInv'
  BY <1>2, StatementFailsOK
<1>3. ASSUME NEW c \in Handlers, NEW q \in scenario.requests, Begin(c, q) PROVE EffectsInv'
  BY <1>3, BeginOK
<1> QED BY <1>1, <1>2, <1>3, AroundOK DEF EffectsNext

\* The property: however requests, messages, node calls, faults and writes of trade rows
\* interleave, a row of otc_side_effects that the program itself made and that says a
\* delivery or a submission happened is right, whatever operators store by hand.
THEOREM LedgerIsTrueHolds == EffectsSpec => []LedgerIsTrue
<1>1. EffectsInv => LedgerIsTrue
  BY DEF EffectsInv, EffectRowOK, RowTrue, LedgerIsTrue
<1> QED BY <1>1, EffectsInitOK, EffectsNextOK, PTL DEF EffectsSpec

-----------------------------------------------------------------------------
(* A key is sent for once: the request that created its row holds it, and  *)
(* lets go of it when it sends.                                            *)

Sending(c, k) == handler[c].pc = "send" /\ handler[c].request.key = k

SendsInv ==
  /\ sends = [k \in Keys |-> sends[k]]
  /\ \A k \in Keys :
       /\ sends[k] \in 0..1
       /\ sends[k] # 0 => ~Free(k) /\ \A c \in Handlers : ~Sending(c, k)
       /\ \A c, d \in Handlers : Sending(c, k) /\ Sending(d, k) => c = d

LEMMA SendsFrame ==
  ASSUME SendsInv, sends' = sends, \A k \in AllKeys : ~Free(k) => ~Free(k)',
         \A d \in Handlers, k \in Keys : Sending(d, k)' => Sending(d, k)
  PROVE  SendsInv'
<1> SUFFICES ASSUME NEW k \in Keys
             PROVE  /\ sends'[k] # 0 => ~Free(k)' /\ \A c \in Handlers : ~Sending(c, k)'
                    /\ \A c, d \in Handlers : Sending(c, k)' /\ Sending(d, k)' => c = d
  BY DEF SendsInv
<1>1. k \in AllKeys
  BY DEF AllKeys
<1> QED BY <1>1 DEF SendsInv

\* Who sends after a handler went to another step.
LEMMA GoesSending ==
  ASSUME EffectsInv, NEW c \in Handlers, NEW pc, Goes(c, pc)
  PROVE  /\ \A d \in Handlers \ {c}, k \in Keys : Sending(d, k)' <=> Sending(d, k)
         /\ pc # "send" => \A k \in Keys : ~Sending(c, k)'
         /\ \A k \in Keys : Sending(c, k)' => k = handler[c].request.key
<1>1. /\ \A d \in Handlers \ {c} : handler'[d] = handler[d]
      /\ handler'[c] = IF pc = "idle" THEN NoRequest ELSE Handling(pc, handler[c].request)
  BY GoesFact DEF EffectsInv
<1>2. handler'[c].pc = pc
  BY <1>1 DEF NoRequest, Handling
<1>3. pc = "send" => handler'[c].request = handler[c].request
  BY <1>1 DEF Handling
<1> QED BY <1>1, <1>2, <1>3 DEF Sending

\* A step of a handler that does not go on to send, or sends.
LEMMA SendsQuiet ==
  ASSUME EffectsInv, SendsInv, NEW c \in Handlers, NEW pc, pc # "send", Goes(c, pc), sends' = sends,
         \A k \in AllKeys : ~Free(k) => ~Free(k)'
  PROVE  SendsInv'
<1>1. \A d \in Handlers, k \in Keys : Sending(d, k)' => Sending(d, k)
  BY GoesSending
<1> QED BY <1>1, SendsFrame

\* Storing a row of any payload frees no key.
LEMMA StoredStays ==
  ASSUME EffectsInv, NEW k \in AllKeys, NEW payload, NEW caller,
         effects' \in {effects, Stored(k, payload, caller)}
  PROVE  \A j \in AllKeys : ~Free(j) => ~Free(j)'
<1>1. CASE effects' = effects
  BY <1>1 DEF Free
<1>2. CASE effects' = Stored(k, payload, caller)
  <2>1. effects = [j \in AllKeys |-> effects[j]]
    BY DEF EffectsInv
  <2>2. /\ \A j \in AllKeys : j # k => effects'[j] = effects[j]
        /\ ~Free(k) => effects' = effects
    BY <1>2, <2>1, StoredFact
  <2> QED BY <2>2 DEF Free
<1> QED BY <1>1, <1>2

LEMMA SendsSave ==
  ASSUME EffectsInv, SendsInv, NEW c \in Handlers, Save(c)
  PROVE  SendsInv'
<1>1. PICK q : q = handler[c].request
  OBVIOUS
<1>2. RequestIs(q) /\ q.key \in AllKeys /\ q.key \in Keys
  BY <1>1, DoingFact DEF Save, RequestIs
<1>3. PICK p : p = Payload(q, InitialStatus(q))
  OBVIOUS
<1>4. effects' = Stored(q.key, p, By(q)) /\ sends' = sends
  BY <1>1, <1>3 DEF Save
<1>5. \A j \in AllKeys : ~Free(j) => ~Free(j)'
  BY <1>2, <1>4, StoredStays
<1>6. CASE ~Creates(q)
  <2>1. Goes(c, "idle")
    BY <1>1, <1>6 DEF Save, Returns
  <2> QED BY <1>4, <1>5, <2>1, SendsQuiet
<1>7. CASE Creates(q)
  <2>1. PICK pc : pc = NextStep(q)
    OBVIOUS
  <2>2. Goes(c, pc)
    BY <1>1, <1>7, <2>1 DEF Save
  <2>3. /\ \A d \in Handlers \ {c}, k \in Keys : Sending(d, k)' <=> Sending(d, k)
        /\ \A k \in Keys : Sending(c, k)' => k = q.key
    BY <1>1, <2>2, GoesSending
  <2>4. Free(q.key)
    BY <1>7 DEF Creates
  <2>5. \A d \in Handlers : ~Sending(d, q.key)
    <3> SUFFICES ASSUME NEW d \in Handlers, Sending(d, q.key) PROVE FALSE
      OBVIOUS
    <3>1. PICK r : r = handler[d].request
      OBVIOUS
    <3>2. handler[d].pc = "send" /\ r.key = q.key
      BY <3>1 DEF Sending
    <3>3. DoingOK("send", r)
      BY <3>1, <3>2, DoingFact
    <3> QED BY <2>4, <3>2, <3>3 DEF DoingOK
  <2>6. ~Free(q.key)'
    <3>1. RowTrue(RowOf(p, By(q)))
      BY <1>1, <1>2, <1>3, DoingFact, SavedRowTrue DEF Save
    <3>2. RowOf(p, By(q)) # NoEffect
      BY <3>1, RowIsThere
    <3>3. effects = [k \in AllKeys |-> effects[k]]
      BY DEF EffectsInv
    <3>4. effects' = [effects EXCEPT ![q.key] = RowOf(p, By(q))]
      BY <1>4, <2>4 DEF Stored
    <3>5. effects'[q.key] = RowOf(p, By(q))
      BY <1>2, <3>3, <3>4
    <3> QED BY <3>2, <3>5 DEF Free
  <2>7. sends[q.key] = 0
    BY <1>2, <2>4 DEF SendsInv
  <2> SUFFICES ASSUME NEW k \in Keys
               PROVE  /\ sends[k] # 0 => ~Free(k)' /\ \A d \in Handlers : ~Sending(d, k)'
                      /\ \A d, e \in Handlers : Sending(d, k)' /\ Sending(e, k)' => d = e
    BY <1>4 DEF SendsInv
  <2>8. CASE k = q.key
    BY <2>3, <2>5, <2>7, <2>8
  <2>9. CASE k # q.key
    <3>1. \A d \in Handlers : Sending(d, k)' => Sending(d, k)
      BY <2>3, <2>9
    <3>2. k \in AllKeys
      BY DEF AllKeys
    <3> QED BY <1>5, <3>1, <3>2 DEF SendsInv
  <2> QED BY <2>8, <2>9
<1> QED BY <1>6, <1>7

LEMMA SendsSend ==
  ASSUME EffectsInv, SendsInv, NEW c \in Handlers, SendRawTransaction(c)
  PROVE  SendsInv'
<1>1. PICK q : q = handler[c].request
  OBVIOUS
<1>2. q.key \in Keys /\ DoingOK("send", q)
  BY <1>1, DoingFact DEF SendRawTransaction, RequestIs
<1>3. sends' = [sends EXCEPT ![q.key] = @ + 1] /\ effects' = effects
  BY <1>1 DEF SendRawTransaction
<1>4. PICK pc : pc # "send" /\ Goes(c, pc)
  <2>1. \E answered \in BOOLEAN : IF answered THEN Goes(c, "submitted") ELSE Goes(c, "idle")
    BY DEF SendRawTransaction, Returns
  <2> QED BY <2>1
<1>5. /\ \A d \in Handlers \ {c}, k \in Keys : Sending(d, k)' <=> Sending(d, k)
      /\ \A k \in Keys : ~Sending(c, k)'
  BY <1>4, GoesSending
<1>6. Sending(c, q.key)
  BY <1>1 DEF Sending, SendRawTransaction
<1>7. sends[q.key] = 0 /\ \A d \in Handlers \ {c} : ~Sending(d, q.key)
  BY <1>2, <1>6 DEF SendsInv
<1>8. ~Free(q.key)
  BY <1>2 DEF DoingOK
<1>9. /\ sends' = [k \in Keys |-> sends'[k]] /\ sends'[q.key] = 1
      /\ \A k \in Keys : k # q.key => sends'[k] = sends[k]
  BY <1>2, <1>3, <1>7 DEF SendsInv
<1>10. ASSUME NEW k \in Keys
       PROVE  /\ sends'[k] \in 0..1
              /\ sends'[k] # 0 => ~Free(k)' /\ \A d \in Handlers : ~Sending(d, k)'
              /\ \A d, e \in Handlers : Sending(d, k)' /\ Sending(e, k)' => d = e
  <2>1. Free(k)' <=> Free(k)
    BY <1>3 DEF Free
  <2>2. \A d \in Handlers : Sending(d, k)' => Sending(d, k)
    BY <1>5
  <2>3. CASE k = q.key
    BY <1>5, <1>7, <1>8, <1>9, <2>1, <2>3
  <2>4. CASE k # q.key
    BY <1>9, <2>1, <2>2, <2>4 DEF SendsInv
  <2> QED BY <2>3, <2>4
<1> QED BY <1>9, <1>10 DEF SendsInv

LEMMA SendsNextOK ==
  ASSUME EffectsInv, SendsInv, [EffectsNext]_effectVars
  PROVE  SendsInv'
<1>1. ASSUME NEW c \in Handlers, HandlerStep(c) PROVE SendsInv'
  <2>8. CASE Review(c)
    <3>1. sends' = sends /\ effects' = effects /\ Goes(c, "save")
      BY <2>8 DEF Review
    <3> QED BY <3>1, SendsQuiet DEF Free
  <2>1. CASE CheckIntent(c)
    <3>1. PICK pc : pc # "send" /\ Goes(c, pc)
      BY <2>1 DEF CheckIntent, Returns
    <3>2. sends' = sends /\ effects' = effects
      BY <2>1 DEF CheckIntent
    <3> QED BY <3>1, <3>2, SendsQuiet DEF Free
  <2>2. CASE ListSideEffects(c)
    <3>1. sends' = sends /\ effects' = effects /\ Goes(c, "notify")
      BY <2>2 DEF ListSideEffects
    <3> QED BY <3>1, SendsQuiet DEF Free
  <2>3. CASE FindAlert(c)
    <3>1. PICK pc : pc # "send" /\ Goes(c, pc)
      BY <2>3 DEF FindAlert, Returns
    <3>2. sends' = sends /\ effects' = effects
      BY <2>3 DEF FindAlert
    <3> QED BY <3>1, <3>2, SendsQuiet DEF Free
  <2>4. CASE Notify(c)
    <3>1. PICK pc : pc # "send" /\ Goes(c, pc)
      <4>1. \E ok \in BOOLEAN : Goes(c, AfterNotify(ok))
        BY <2>4 DEF Notify
      <4> QED BY <4>1 DEF AfterNotify
    <3>2. sends' = sends /\ effects' = effects
      BY <2>4 DEF Notify
    <3> QED BY <3>1, <3>2, SendsQuiet DEF Free
  <2>5. CASE SaveAlertDelivery(c)
    <3>1. PICK pc : pc # "send" /\ Goes(c, pc)
      BY <2>5 DEF SaveAlertDelivery
    <3>2. RequestIs(handler[c].request)
      BY <2>5, DoingFact DEF SaveAlertDelivery, DeliveryStatus
    <3>3. /\ effects' = Stored(DeliveryKey(handler[c].request.key), DeliveryRow(c), By(handler[c].request))
          /\ sends' = sends /\ DeliveryKey(handler[c].request.key) \in AllKeys
      BY <2>5, <3>2, DeliveryKeyFact DEF SaveAlertDelivery
    <3>4. \A j \in AllKeys : ~Free(j) => ~Free(j)'
      BY <3>3, StoredStays
    <3> QED BY <3>1, <3>3, <3>4, SendsQuiet
  <2>6. CASE SaveReplay(c)
    <3>1. Goes(c, "idle")
      BY <2>6 DEF SaveReplay, Returns
    <3>2. RequestIs(handler[c].request)
      BY <2>6, DoingFact DEF SaveReplay, DeliveryStatus
    <3>3. /\ effects' = Stored(handler[c].request.key, DeliveryRow(c), By(handler[c].request))
          /\ sends' = sends /\ handler[c].request.key \in AllKeys
      BY <2>6, <3>2, DeliveryKeyFact DEF SaveReplay
    <3>4. \A j \in AllKeys : ~Free(j) => ~Free(j)'
      BY <3>3, StoredStays
    <3> QED BY <3>1, <3>3, <3>4, SendsQuiet
  <2>7. CASE UpdateSideEffect(c)
    <3>1. Goes(c, "idle") /\ sends' = sends
      BY <2>7 DEF UpdateSideEffect, Returns
    <3>2. \A j \in AllKeys : ~Free(j) => ~Free(j)'
      BY <2>7, UpdateOK DEF EffectsGrow
    <3> QED BY <3>1, <3>2, SendsQuiet
  <2> QED BY <1>1, <2>1, <2>2, <2>3, <2>4, <2>5, <2>6, <2>7, <2>8, SendsSave, SendsSend DEF HandlerStep
<1>2. ASSUME NEW c \in Handlers, StatementFails(c) PROVE SendsInv'
  <2>1. PICK q, at : q = handler[c].request /\ at = handler[c].pc
    OBVIOUS
  <2>2. at # "idle"
    BY <1>2, <2>1 DEF StatementFails
  <2>3. q.key \in AllKeys /\ DeliveryRowKey(q) \in AllKeys
    BY <2>1, <2>2, DoingFact, DeliveryKeyFact
  <2>4. PICK pc : pc # "send" /\ Goes(c, pc)
    BY <1>2 DEF StatementFails, Returns
  <2>5. sends' = sends /\ effects' \in {effects, Pending(c)}
    BY <1>2 DEF StatementFails
  <2>6. \A j \in AllKeys : ~Free(j) => ~Free(j)'
    <3>1. CASE effects' = effects
      BY <3>1 DEF Free
    <3>2. CASE effects' = Pending(c) /\ at = "save"
      <4>1. effects' = Stored(q.key, Payload(q, InitialStatus(q)), By(q))
        BY <2>1, <3>2 DEF Pending
      <4> QED BY <2>3, <4>1, StoredStays
    <3>3. CASE effects' = Pending(c) /\ at # "save" /\ at \in DOMAIN DeliveryStatus
      <4>1. effects' = Stored(DeliveryRowKey(q), DeliveryRow(c), By(q))
        BY <2>1, <3>3 DEF Pending
      <4> QED BY <2>3, <4>1, StoredStays
    <3>4. CASE effects' = Pending(c) /\ at # "save" /\ at \notin DOMAIN DeliveryStatus
      <4>1. effects' = effects
        BY <2>1, <3>4 DEF Pending
      <4> QED BY <3>1, <4>1
    <3> QED BY <2>5, <3>1, <3>2, <3>3, <3>4
  <2> QED BY <2>4, <2>5, <2>6, SendsQuiet
<1>3. ASSUME NEW c \in Handlers, NEW q \in scenario.requests, Begin(c, q) PROVE SendsInv'
  <2>1. PICK pc : pc = FirstStep(q)
    OBVIOUS
  <2>2. pc # "send"
    <3>1. RequestIs(q)
      BY ScenarioFact
    <3> QED BY <2>1, <3>1 DEF RequestIs, FirstStep
  <2>3. handler' = [handler EXCEPT ![c] = Handling(pc, q)] /\ sends' = sends /\ effects' = effects
    BY <1>3, <2>1 DEF Begin
  <2>4. handler = [d \in Handlers |-> handler[d]]
    BY DEF EffectsInv
  <2>5. /\ \A d \in Handlers \ {c} : handler'[d] = handler[d]
        /\ handler'[c].pc = pc
    BY <2>3, <2>4 DEF Handling
  <2>6. \A d \in Handlers, k \in Keys : Sending(d, k)' => Sending(d, k)
    BY <2>2, <2>5 DEF Sending
  <2> QED BY <2>3, <2>6, SendsFrame DEF Free
<1>4. CASE Crash
  <2>1. sends' = sends /\ effects' = effects /\ handler' = [c \in Handlers |-> NoRequest]
    BY <1>4 DEF Crash
  <2>2. \A d \in Handlers, k \in Keys : ~Sending(d, k)'
    BY <2>1 DEF Sending, NoRequest
  <2> QED BY <2>1, <2>2, SendsFrame DEF Free
<1>5. CASE Environment \/ UNCHANGED effectVars
  <2>1. sends' = sends /\ effects' = effects /\ handler' = handler
    BY <1>5 DEF Environment, TimestampExpires, TradeRowWritten, IntentChanges, effectVars
  <2> QED BY <2>1, SendsFrame DEF Free, Sending
<1> QED BY <1>1, <1>2, <1>3, <1>4, <1>5 DEF EffectsNext

LEMMA SendsInitOK == EffectsInit => SendsInv
BY DEF EffectsInit, SendsInv, Sending, NoRequest

\* The property: requests with one idempotency key, however they overlap, fail at a
\* statement or are cut short, ask the node once at most to take a transaction.
THEOREM SentOncePerKeyHolds == EffectsSpec => []SentOncePerKey
<1>1. SendsInv => SentOncePerKey
  BY DEF SendsInv, SentOncePerKey
<1> QED BY <1>1, EffectsInitOK, EffectsNextOK, SendsInitOK, SendsNextOK, PTL DEF EffectsSpec

-----------------------------------------------------------------------------
(* The timestamps of a bucket pay for the alerts its client got into the   *)
(* ledger and for those it may still get there.                            *)

Saving(b) ==
  {c \in Handlers : handler[c].pc = "save" /\ Limited(handler[c].request) /\ Bucket(handler[c].request) = b}

RateInv ==
  /\ recent \in [Buckets -> 0..Limit] /\ forgotten \in [Buckets -> Nat]
  /\ \A b \in Buckets : Cardinality(SavedAlerts(b)) + Cardinality(Saving(b)) <= recent[b] + forgotten[b]

AlertRow(row, b) ==
  /\ row # NoEffect /\ row.hash.type = "support_alert"
  /\ <<row.hash.trade, row.hash.body, row.by>> = b

LEMMA SavedAlertsIs == \A b : SavedAlerts(b) = {k \in Keys : AlertRow(effects[k], b)}
BY DEF SavedAlerts, IsAlert, Free, AlertRow

\* Two finite sets, one of which may lose an element when the other gains one.
LEMMA CountStep ==
  ASSUME NEW A, NEW B, IsFiniteSet(A), IsFiniteSet(B), NEW C, NEW D, NEW x, NEW c,
         \/ C \subseteq A /\ D \subseteq B
         \/ c \in B /\ C \subseteq A \cup {x} /\ D \subseteq B \ {c}
  PROVE  /\ Cardinality(A) \in Nat /\ Cardinality(B) \in Nat
         /\ Cardinality(C) \in Nat /\ Cardinality(D) \in Nat
         /\ Cardinality(C) + Cardinality(D) <= Cardinality(A) + Cardinality(B)
<1>1. Cardinality(A) \in Nat /\ Cardinality(B) \in Nat
  BY FS_CardinalityType
<1>2. CASE C \subseteq A /\ D \subseteq B
  <2>1. /\ IsFiniteSet(C) /\ Cardinality(C) <= Cardinality(A)
        /\ IsFiniteSet(D) /\ Cardinality(D) <= Cardinality(B)
    BY <1>2, FS_Subset
  <2>2. Cardinality(C) \in Nat /\ Cardinality(D) \in Nat
    BY <2>1, FS_CardinalityType
  <2> QED BY <1>1, <2>1, <2>2
<1>3. CASE c \in B /\ C \subseteq A \cup {x} /\ D \subseteq B \ {c}
  <2>1. IsFiniteSet(A \cup {x}) /\ Cardinality(A \cup {x}) \in {Cardinality(A), Cardinality(A) + 1}
    BY FS_AddElement
  <2>2. IsFiniteSet(B \ {c}) /\ Cardinality(B \ {c}) = Cardinality(B) - 1
    BY <1>3, FS_RemoveElement
  <2>3. /\ IsFiniteSet(C) /\ Cardinality(C) <= Cardinality(A \cup {x})
        /\ IsFiniteSet(D) /\ Cardinality(D) <= Cardinality(B \ {c})
    BY <1>3, <2>1, <2>2, FS_Subset
  <2>4. Cardinality(C) \in Nat /\ Cardinality(D) \in Nat
    BY <2>3, FS_CardinalityType
  <2> QED BY <1>1, <2>1, <2>2, <2>3, <2>4
<1> QED BY <1>2, <1>3

LEMMA CountsFinite == \A b : IsFiniteSet(SavedAlerts(b)) /\ IsFiniteSet(Saving(b))
<1> SUFFICES ASSUME NEW b PROVE IsFiniteSet(SavedAlerts(b)) /\ IsFiniteSet(Saving(b))
  OBVIOUS
<1>1. SavedAlerts(b) \subseteq Keys /\ Saving(b) \subseteq Handlers
  BY DEF SavedAlerts, Saving
<1> QED BY <1>1, FS_Subset, SideEffectsAssumption

\* A step at which a request may put its own alert into the ledger, and leaves.
LEMMA RateFrame ==
  ASSUME RateInv, UNCHANGED <<recent, forgotten>>, NEW c, NEW x,
         \A b \in Buckets :
           \/ SavedAlerts(b)' \subseteq SavedAlerts(b) /\ Saving(b)' \subseteq Saving(b)
           \/ /\ c \in Saving(b) /\ SavedAlerts(b)' \subseteq SavedAlerts(b) \cup {x}
              /\ Saving(b)' \subseteq Saving(b) \ {c}
  PROVE  RateInv'
<1> SUFFICES ASSUME NEW b \in Buckets
             PROVE  Cardinality(SavedAlerts(b)') + Cardinality(Saving(b)') <= recent[b] + forgotten[b]
  BY DEF RateInv
<1>1. PICK A, B, C, D : A = SavedAlerts(b) /\ B = Saving(b) /\ C = SavedAlerts(b)' /\ D = Saving(b)'
  OBVIOUS
<1>2. IsFiniteSet(A) /\ IsFiniteSet(B)
  BY <1>1, CountsFinite
<1>3. \/ C \subseteq A /\ D \subseteq B
      \/ c \in B /\ C \subseteq A \cup {x} /\ D \subseteq B \ {c}
  BY <1>1
<1>4. /\ Cardinality(A) \in Nat /\ Cardinality(B) \in Nat
      /\ Cardinality(C) \in Nat /\ Cardinality(D) \in Nat
      /\ Cardinality(C) + Cardinality(D) <= Cardinality(A) + Cardinality(B)
  BY <1>2, <1>3, CountStep
<1>5. recent[b] \in Nat /\ forgotten[b] \in Nat
  BY SideEffectsAssumption DEF RateInv
<1>6. Cardinality(A) + Cardinality(B) <= recent[b] + forgotten[b]
  BY <1>1 DEF RateInv
<1>7. Cardinality(C) + Cardinality(D) <= recent[b] + forgotten[b]
  BY <1>4, <1>5, <1>6
<1> QED BY <1>1, <1>7

\* Who is about to save after a handler went to another step.
LEMMA GoesSaving ==
  ASSUME EffectsInv, NEW c \in Handlers, NEW pc, Goes(c, pc), pc = "save" => ~Limited(handler[c].request)
  PROVE  \A b : Saving(b)' \subseteq Saving(b) \ {c}
<1>1. /\ \A d \in Handlers \ {c} : handler'[d] = handler[d]
      /\ handler'[c] = IF pc = "idle" THEN NoRequest ELSE Handling(pc, handler[c].request)
  BY GoesFact DEF EffectsInv
<1>2. handler'[c].pc = pc
  BY <1>1 DEF NoRequest, Handling
<1>3. pc = "save" => handler'[c].request = handler[c].request
  BY <1>1 DEF Handling
<1>4. \A b : c \notin Saving(b)'
  BY <1>2, <1>3 DEF Saving, Limited
<1> QED BY <1>1, <1>4 DEF Saving, Limited, Bucket

\* A step of a handler that adds no alert of a client to the ledger.
LEMMA RateQuiet ==
  ASSUME EffectsInv, RateInv, NEW c \in Handlers, NEW pc, Goes(c, pc),
         pc = "save" => ~Limited(handler[c].request), UNCHANGED limitVars,
         \A b \in Buckets : \A k \in Keys : AlertRow(effects'[k], b) => AlertRow(effects[k], b)
  PROVE  RateInv'
<1>1. \A b : Saving(b)' \subseteq Saving(b)
  BY GoesSaving
<1>2. \A b \in Buckets : SavedAlerts(b)' \subseteq SavedAlerts(b)
  <2> SUFFICES ASSUME NEW b \in Buckets, NEW k \in SavedAlerts(b)' PROVE k \in SavedAlerts(b)
    OBVIOUS
  <2>1. k \in Keys /\ AlertRow(effects'[k], b)
    BY DEF SavedAlerts, IsAlert, Free, AlertRow
  <2>2. AlertRow(effects[k], b)
    BY <2>1
  <2> QED BY <2>1, <2>2, SavedAlertsIs
<1> QED BY <1>1, <1>2, RateFrame DEF limitVars

\* A step at which a request may store its own row, and which no alert goes on to save.
LEMMA RateSave ==
  ASSUME EffectsInv, RateInv, NEW c \in Handlers, handler[c].pc = "save", NEW q, q = handler[c].request,
         NEW pc, pc # "save", Goes(c, pc), UNCHANGED limitVars,
         effects' \in {effects, Stored(q.key, Payload(q, InitialStatus(q)), By(q))}
  PROVE  RateInv'
<1>1. RequestIs(q) /\ q.key \in AllKeys
  BY DoingFact
<1>2. CASE effects' = effects
  BY <1>2, RateQuiet
<1>3. CASE effects' = Stored(q.key, Payload(q, InitialStatus(q)), By(q))
  <2>1. PICK p : p = Payload(q, InitialStatus(q))
    OBVIOUS
  <2>2. effects = [j \in AllKeys |-> effects[j]] /\ effects' = Stored(q.key, p, By(q))
    BY <1>3, <2>1 DEF EffectsInv
  <2>3. /\ \A j \in AllKeys : j # q.key => effects'[j] = effects[j]
        /\ ~Free(q.key) => effects' = effects
        /\ Free(q.key) => effects'[q.key] = RowOf(p, By(q))
    <3>1. CASE Free(q.key)
      <4>1. effects' = [effects EXCEPT ![q.key] = RowOf(p, By(q))]
        BY <2>2, <3>1 DEF Stored
      <4> QED BY <1>1, <2>2, <3>1, <4>1
    <3>2. CASE ~Free(q.key)
      <4>1. effects' = effects
        BY <2>2, <3>2 DEF Stored
      <4> QED BY <3>2, <4>1
    <3> QED BY <3>1, <3>2
  <2>4. \A b : Saving(b)' \subseteq Saving(b) \ {c}
    BY GoesSaving
  <2>5. ASSUME NEW b \in Buckets
        PROVE  \/ SavedAlerts(b)' \subseteq SavedAlerts(b) /\ Saving(b)' \subseteq Saving(b)
               \/ /\ c \in Saving(b) /\ SavedAlerts(b)' \subseteq SavedAlerts(b) \cup {q.key}
                  /\ Saving(b)' \subseteq Saving(b) \ {c}
    <3>1. \A k \in Keys : k # q.key /\ AlertRow(effects'[k], b) => AlertRow(effects[k], b)
      BY <2>3 DEF AllKeys
    <3>2. SavedAlerts(b)' = {k \in Keys : AlertRow(effects'[k], b)}
      BY DEF SavedAlerts, IsAlert, Free, AlertRow
    <3>3. SavedAlerts(b)' \subseteq SavedAlerts(b) \cup {q.key}
      BY <3>1, <3>2, SavedAlertsIs
    <3>4. ASSUME c \notin Saving(b), AlertRow(effects'[q.key], b) PROVE AlertRow(effects[q.key], b)
      <4>1. CASE ~Free(q.key)
        BY <2>3, <3>4, <4>1
      <4>2. CASE Free(q.key)
        <5>1. AlertRow(RowOf(p, By(q)), b)
          BY <2>3, <3>4, <4>2
        <5>2. p.type = "support_alert" /\ <<p.trade, p.body, By(q)>> = b
          BY <5>1 DEF AlertRow, RowOf
        <5>3. By(q) \in Clients
          BY <5>2 DEF Buckets
        <5>4. q.kind # "post" /\ By(q) = q.caller
          BY <5>3, SideEffectsAssumption DEF By
        <5>5. q.type = "support_alert" /\ Bucket(q) = b
          BY <2>1, <5>2, <5>4 DEF Payload, Bucket
        <5>6. q.kind = "alert" /\ q.caller \in Clients
          BY <1>1, <5>3, <5>4, <5>5 DEF RequestIs
        <5> QED BY <3>4, <5>5, <5>6 DEF Saving, Limited
      <4> QED BY <4>1, <4>2
    <3>5. c \notin Saving(b) => SavedAlerts(b)' \subseteq SavedAlerts(b)
      BY <3>1, <3>2, <3>4, SavedAlertsIs
    <3> QED BY <2>4, <3>3, <3>5
  <2>6. UNCHANGED <<recent, forgotten>>
    BY DEF limitVars
  <2> QED BY <2>5, <2>6, RateFrame
<1> QED BY <1>2, <1>3

\* Storing the row of a delivery adds no alert.
LEMMA DeliveryNoAlert ==
  ASSUME EffectsInv, NEW k \in AllKeys, NEW p, p.type = "support_alert_delivery", NEW caller,
         effects' = Stored(k, p, caller)
  PROVE  \A b \in Buckets : \A j \in Keys : AlertRow(effects'[j], b) => AlertRow(effects[j], b)
<1>1. effects = [j \in AllKeys |-> effects[j]] /\ Keys \subseteq AllKeys
  BY DEF EffectsInv, AllKeys
<1>2. CASE ~Free(k)
  BY <1>2 DEF Stored
<1>3. CASE Free(k)
  <2>1. effects' = [effects EXCEPT ![k] = RowOf(p, caller)]
    BY <1>3 DEF Stored
  <2>2. effects'[k] = RowOf(p, caller) /\ \A j \in AllKeys : j # k => effects'[j] = effects[j]
    BY <1>1, <2>1
  <2>3. \A b : ~AlertRow(RowOf(p, caller), b)
    BY DEF AlertRow, RowOf
  <2> QED BY <1>1, <2>2, <2>3
<1> QED BY <1>2, <1>3

LEMMA RateBegin ==
  ASSUME EffectsInv, RateInv, NEW c \in Handlers, NEW q \in scenario.requests, Begin(c, q)
  PROVE  RateInv'
<1>1. RequestIs(q)
  BY ScenarioFact
<1>2. PICK pc : pc = FirstStep(q)
  OBVIOUS
<1>3. handler = [d \in Handlers |-> handler[d]] /\ handler' = [handler EXCEPT ![c] = Handling(pc, q)]
  BY <1>2 DEF EffectsInv, Begin
<1>4. /\ \A d \in Handlers \ {c} : handler'[d] = handler[d]
      /\ handler'[c].pc = pc /\ handler'[c].request = q
  BY <1>3 DEF Handling
<1>5. \A b : Saving(b)' \subseteq Saving(b) \cup {c}
  BY <1>4 DEF Saving, Limited, Bucket
<1>6. \A b : c \in Saving(b)' => Limited(q) /\ Bucket(q) = b
  BY <1>4 DEF Saving, Limited, Bucket
<1>7. \A b : SavedAlerts(b)' = SavedAlerts(b)
  BY DEF Begin, SavedAlerts, IsAlert, Free
<1>8. CASE ~Limited(q)
  <2>1. recent' = recent /\ forgotten' = forgotten
    BY <1>8 DEF Begin
  <2>2. \A b : Saving(b)' \subseteq Saving(b)
    BY <1>5, <1>6, <1>8
  <2> QED BY <1>7, <2>1, <2>2, RateFrame
<1>9. CASE Limited(q)
  <2>1. Bucket(q) \in Buckets
    BY <1>1, <1>9 DEF Limited, Bucket, Buckets, RequestIs
  <2>2. PICK a : a = Bucket(q)
    OBVIOUS
  <2>3. recent' = [recent EXCEPT ![a] = @ + 1] /\ forgotten' = forgotten /\ recent[a] < Limit
    BY <1>9, <2>2 DEF Begin, BelowLimit
  <2>4. /\ recent' \in [Buckets -> 0..Limit] /\ recent'[a] = recent[a] + 1
        /\ \A b \in Buckets : b # a => recent'[b] = recent[b]
    BY <2>1, <2>2, <2>3, SideEffectsAssumption DEF RateInv
  <2>5. ASSUME NEW b \in Buckets
        PROVE  Cardinality(SavedAlerts(b)') + Cardinality(Saving(b)') <= recent'[b] + forgotten'[b]
    <3>1. PICK A, B, D : A = SavedAlerts(b) /\ B = Saving(b) /\ D = Saving(b)'
      OBVIOUS
    <3>2. IsFiniteSet(A) /\ IsFiniteSet(B)
      BY <3>1, CountsFinite
    <3>3. recent[b] \in Nat /\ forgotten[b] \in Nat /\ Cardinality(A) + Cardinality(B) <= recent[b] + forgotten[b]
      BY <3>1, SideEffectsAssumption DEF RateInv
    <3>4. Cardinality(A) \in Nat /\ Cardinality(B) \in Nat
      BY <3>2, FS_CardinalityType
    <3>5. CASE b = a
      <4>1. D \subseteq B \cup {c}
        BY <1>5, <3>1
      <4>2. IsFiniteSet(B \cup {c}) /\ Cardinality(B \cup {c}) \in {Cardinality(B), Cardinality(B) + 1}
        BY <3>2, FS_AddElement
      <4>3. IsFiniteSet(D) /\ Cardinality(D) <= Cardinality(B \cup {c})
        BY <4>1, <4>2, FS_Subset
      <4>4. Cardinality(D) \in Nat
        BY <4>3, FS_CardinalityType
      <4>5. Cardinality(A) + Cardinality(D) <= recent[b] + 1 + forgotten[b]
        BY <3>3, <3>4, <4>2, <4>3, <4>4
      <4>6. recent'[b] + forgotten'[b] = recent[b] + 1 + forgotten[b]
        BY <2>3, <2>4, <3>3, <3>5
      <4>7. SavedAlerts(b)' = A /\ Saving(b)' = D
        BY <1>7, <3>1
      <4> QED BY <4>5, <4>6, <4>7
    <3>6. CASE b # a
      <4>1. D \subseteq B
        BY <1>5, <1>6, <2>2, <3>1, <3>6
      <4>2. IsFiniteSet(D) /\ Cardinality(D) <= Cardinality(B)
        BY <3>2, <4>1, FS_Subset
      <4>3. Cardinality(D) \in Nat
        BY <4>2, FS_CardinalityType
      <4>4. Cardinality(A) + Cardinality(D) <= recent[b] + forgotten[b]
        BY <3>3, <3>4, <4>2, <4>3
      <4>5. recent'[b] + forgotten'[b] = recent[b] + forgotten[b]
        BY <2>3, <2>4, <3>6
      <4>6. SavedAlerts(b)' = A /\ Saving(b)' = D
        BY <1>7, <3>1
      <4> QED BY <4>4, <4>5, <4>6
    <3> QED BY <3>5, <3>6
  <2>6. forgotten' \in [Buckets -> Nat]
    BY <2>3 DEF RateInv
  <2> QED BY <2>4, <2>5, <2>6 DEF RateInv
<1> QED BY <1>8, <1>9

LEMMA RateCrash ==
  ASSUME EffectsInv, RateInv, Crash
  PROVE  RateInv'
<1>1. /\ recent' = [b \in Buckets |-> 0] /\ forgotten' = [b \in Buckets |-> forgotten[b] + recent[b]]
      /\ effects' = effects /\ handler' = [c \in Handlers |-> NoRequest]
  BY DEF Crash
<1>2. \A b \in Buckets : recent[b] \in Nat /\ forgotten[b] \in Nat
  BY SideEffectsAssumption DEF RateInv
<1>3. recent' \in [Buckets -> 0..Limit] /\ forgotten' \in [Buckets -> Nat]
  BY <1>1, <1>2, SideEffectsAssumption
<1>4. ASSUME NEW b \in Buckets
      PROVE  Cardinality(SavedAlerts(b)') + Cardinality(Saving(b)') <= recent'[b] + forgotten'[b]
  <2>1. PICK A, B, D : A = SavedAlerts(b) /\ B = Saving(b) /\ D = Saving(b)'
    OBVIOUS
  <2>2. SavedAlerts(b)' = A
    BY <1>1, <2>1 DEF SavedAlerts, IsAlert, Free
  <2>3. D \subseteq B
    BY <1>1, <2>1 DEF Saving, NoRequest
  <2>4. IsFiniteSet(A) /\ IsFiniteSet(B)
    BY <2>1, CountsFinite
  <2>5. IsFiniteSet(D) /\ Cardinality(D) <= Cardinality(B)
    BY <2>3, <2>4, FS_Subset
  <2>6. Cardinality(A) \in Nat /\ Cardinality(B) \in Nat /\ Cardinality(D) \in Nat
    BY <2>4, <2>5, FS_CardinalityType
  <2>7. Cardinality(A) + Cardinality(B) <= recent[b] + forgotten[b]
    BY <2>1 DEF RateInv
  <2>8. recent'[b] + forgotten'[b] = recent[b] + forgotten[b]
    BY <1>1, <1>2
  <2>9. Cardinality(A) + Cardinality(D) <= recent[b] + forgotten[b]
    BY <1>2, <2>5, <2>6, <2>7
  <2> QED BY <2>1, <2>2, <2>8, <2>9
<1> QED BY <1>3, <1>4 DEF RateInv

LEMMA RateExpires ==
  ASSUME EffectsInv, RateInv, NEW a \in Buckets, TimestampExpires(a)
  PROVE  RateInv'
<1>1. /\ recent' = [recent EXCEPT ![a] = @ - 1] /\ forgotten' = [forgotten EXCEPT ![a] = @ + 1]
      /\ recent[a] > 0 /\ effects' = effects /\ handler' = handler
  BY DEF TimestampExpires
<1>2. \A b \in Buckets : recent[b] \in 0..Limit /\ recent[b] \in Nat /\ forgotten[b] \in Nat
  BY SideEffectsAssumption DEF RateInv
<1>3. recent' \in [Buckets -> 0..Limit] /\ forgotten' \in [Buckets -> Nat]
  BY <1>1, <1>2, SideEffectsAssumption DEF RateInv
<1>4. \A b \in Buckets : recent'[b] + forgotten'[b] = recent[b] + forgotten[b]
  BY <1>1, <1>2 DEF RateInv
<1>5. \A b : SavedAlerts(b)' = SavedAlerts(b) /\ Saving(b)' = Saving(b)
  BY <1>1 DEF SavedAlerts, IsAlert, Free, Saving, Limited
<1> QED BY <1>3, <1>4, <1>5 DEF RateInv

LEMMA RateNextOK ==
  ASSUME EffectsInv, RateInv, [EffectsNext]_effectVars
  PROVE  RateInv'
<1>1. ASSUME NEW c \in Handlers, HandlerStep(c) PROVE RateInv'
  <2>1. UNCHANGED limitVars
    BY <1>1 DEF HandlerStep, Review, CheckIntent, Save, SendRawTransaction, UpdateSideEffect, ListSideEffects,
                FindAlert, Notify, SaveAlertDelivery, SaveReplay, Untouched
  <2>7. CASE Review(c)
    <3>1. PICK q : q = handler[c].request
      OBVIOUS
    <3>2. RequestIs(q) /\ DoingOK("review", q)
      BY <2>7, <3>1, DoingFact DEF Review
    <3>3. ~Limited(handler[c].request)
      BY <3>1, <3>2 DEF Limited, DoingOK, StepsOf
    <3>4. Goes(c, "save") /\ effects' = effects
      BY <2>7 DEF Review
    <3> QED BY <2>1, <3>3, <3>4, RateQuiet
  <2>2. CASE CheckIntent(c)
    <3>1. PICK pc : Goes(c, pc)
      BY <2>2 DEF CheckIntent, Returns
    <3>2. ~Limited(handler[c].request)
      <4>1. PICK q : q = handler[c].request
        OBVIOUS
      <4>2. RequestIs(q) /\ DoingOK("intent", q)
        BY <2>2, <4>1, DoingFact DEF CheckIntent
      <4>3. q.kind # "alert"
        BY <4>2 DEF DoingOK, StepsOf
      <4> QED BY <4>1, <4>3 DEF Limited
    <3> QED BY <2>1, <2>2, <3>1, <3>2, RateQuiet DEF CheckIntent
  <2>3. CASE ListSideEffects(c) \/ FindAlert(c) \/ Notify(c) \/ SendRawTransaction(c)
    <3>1. PICK pc : pc # "save" /\ Goes(c, pc)
      <4>1. CASE ListSideEffects(c)
        BY <4>1 DEF ListSideEffects
      <4>2. CASE FindAlert(c)
        BY <4>2 DEF FindAlert, Returns
      <4>3. CASE Notify(c)
        <5>1. \E ok \in BOOLEAN : Goes(c, AfterNotify(ok))
          BY <4>3 DEF Notify
        <5> QED BY <5>1 DEF AfterNotify
      <4>4. CASE SendRawTransaction(c)
        <5>1. \E answered \in BOOLEAN : IF answered THEN Goes(c, "submitted") ELSE Goes(c, "idle")
          BY <4>4 DEF SendRawTransaction, Returns
        <5> QED BY <5>1
      <4> QED BY <2>3, <4>1, <4>2, <4>3, <4>4
    <3>2. effects' = effects
      BY <2>3 DEF ListSideEffects, FindAlert, Notify, SendRawTransaction
    <3> QED BY <2>1, <3>1, <3>2, RateQuiet
  <2>4. CASE SaveAlertDelivery(c) \/ SaveReplay(c)
    <3>1. PICK pc : pc # "save" /\ Goes(c, pc)
      BY <2>4 DEF SaveAlertDelivery, SaveReplay, Returns
    <3>2. RequestIs(handler[c].request)
      BY <2>4, DoingFact DEF SaveAlertDelivery, SaveReplay, DeliveryStatus
    <3>3. PICK k \in AllKeys : effects' = Stored(k, DeliveryRow(c), By(handler[c].request))
      BY <2>4, <3>2, DeliveryKeyFact DEF SaveAlertDelivery, SaveReplay
    <3>4. DeliveryRow(c).type = "support_alert_delivery"
      BY DEF DeliveryRow, Delivery
    <3>5. \A b \in Buckets : \A j \in Keys : AlertRow(effects'[j], b) => AlertRow(effects[j], b)
      BY <3>3, <3>4, DeliveryNoAlert
    <3> QED BY <2>1, <3>1, <3>5, RateQuiet
  <2>5. CASE Save(c)
    <3>1. PICK q : q = handler[c].request
      OBVIOUS
    <3>2. RequestIs(q) /\ DoingOK("save", q) /\ handler[c].pc = "save"
      BY <2>5, <3>1, DoingFact DEF Save
    <3>3. PICK pc : pc # "save" /\ Goes(c, pc)
      <4>1. NextStep(q) # "save"
        BY <3>2 DEF NextStep, DoingOK, StepsOf, RequestIs
      <4> QED BY <2>5, <3>1, <4>1 DEF Save, Returns
    <3>4. effects' = Stored(q.key, Payload(q, InitialStatus(q)), By(q))
      BY <2>5, <3>1 DEF Save
    <3> QED BY <2>1, <3>1, <3>2, <3>3, <3>4, RateSave
  <2>6. CASE UpdateSideEffect(c)
    <3>1. Goes(c, "idle")
      BY <2>6 DEF UpdateSideEffect, Returns
    <3>2. PICK q : q = handler[c].request
      OBVIOUS
    <3>3. RequestIs(q) /\ DoingOK("submitted", q)
      BY <2>6, <3>2, DoingFact DEF UpdateSideEffect
    <3>4. /\ ~Free(q.key) /\ effects[q.key].hash = Payload(q, "prepared") /\ q.type # "support_alert"
      BY <3>3 DEF DoingOK, StepsOf, RequestIs
    <3>5. effects = [k \in AllKeys |-> effects[k]] /\ q.key \in AllKeys /\ Keys \subseteq AllKeys
      BY <3>3 DEF EffectsInv, AllKeys, RequestIs
    <3>6. effects'[q.key].hash = effects[q.key].hash
      BY <2>6, <3>4, <3>5, UpdateOK DEF EffectsGrow
    <3>7. \A b : ~AlertRow(effects'[q.key], b)
      BY <3>4, <3>6 DEF AlertRow, Payload
    <3>8. \A k \in AllKeys : k # q.key => effects'[k] = effects[k]
      BY <2>6, <3>2, <3>5 DEF UpdateSideEffect
    <3>9. \A b \in Buckets : \A k \in Keys : AlertRow(effects'[k], b) => AlertRow(effects[k], b)
      BY <3>5, <3>7, <3>8
    <3> QED BY <2>1, <3>1, <3>9, RateQuiet
  <2> QED BY <1>1, <2>2, <2>3, <2>4, <2>5, <2>6, <2>7 DEF HandlerStep
<1>2. ASSUME NEW c \in Handlers, StatementFails(c) PROVE RateInv'
  <2>1. PICK pc : pc # "save" /\ Goes(c, pc)
    BY <1>2 DEF StatementFails, Returns
  <2>2. UNCHANGED limitVars /\ effects' \in {effects, Pending(c)}
    BY <1>2 DEF StatementFails
  <2>3. PICK q, at : q = handler[c].request /\ at = handler[c].pc
    OBVIOUS
  <2>4. CASE effects' = effects
    BY <2>1, <2>2, <2>4, RateQuiet
  <2>5. CASE effects' = Pending(c) /\ at = "save"
    <3>1. effects' = Stored(q.key, Payload(q, InitialStatus(q)), By(q))
      BY <2>3, <2>5 DEF Pending
    <3> QED BY <2>1, <2>2, <2>3, <2>5, <3>1, RateSave
  <2>6. CASE effects' = Pending(c) /\ at # "save" /\ at \in DOMAIN DeliveryStatus
    <3>1. effects' = Stored(DeliveryRowKey(q), DeliveryRow(c), By(q))
      BY <2>3, <2>6 DEF Pending
    <3>2. DeliveryRowKey(q) \in AllKeys
      BY <2>3, <2>6, DoingFact, DeliveryKeyFact DEF DeliveryStatus
    <3>3. DeliveryRow(c).type = "support_alert_delivery"
      BY DEF DeliveryRow, Delivery
    <3>4. \A b \in Buckets : \A j \in Keys : AlertRow(effects'[j], b) => AlertRow(effects[j], b)
      BY <3>1, <3>2, <3>3, DeliveryNoAlert
    <3> QED BY <2>1, <2>2, <3>4, RateQuiet
  <2>7. CASE effects' = Pending(c) /\ at # "save" /\ at \notin DOMAIN DeliveryStatus
    <3>1. effects' = effects
      BY <2>3, <2>7 DEF Pending
    <3> QED BY <2>4, <3>1
  <2> QED BY <2>2, <2>4, <2>5, <2>6, <2>7
<1>3. CASE UNCHANGED effectVars \/ \E t \in Trades : TradeRowWritten(t) \/ IntentChanges(t)
  <2>1. UNCHANGED <<recent, forgotten, effects, handler>>
    BY <1>3 DEF effectVars, limitVars, TradeRowWritten, IntentChanges
  <2>2. \A b : SavedAlerts(b)' = SavedAlerts(b) /\ Saving(b)' = Saving(b)
    BY <2>1 DEF SavedAlerts, IsAlert, Free, Saving, Limited
  <2> QED BY <2>1, <2>2 DEF RateInv
<1> QED BY <1>1, <1>2, <1>3, RateBegin, RateCrash, RateExpires DEF EffectsNext, Environment

LEMMA RateInitOK == EffectsInit => RateInv
<1> SUFFICES ASSUME EffectsInit PROVE RateInv
  OBVIOUS
<1>1. \A b : SavedAlerts(b) = {} /\ Saving(b) = {}
  <2>1. \A k \in Keys : effects[k] = NoEffect
    BY DEF EffectsInit, AllKeys
  <2>2. \A c \in Handlers : handler[c] = NoRequest
    BY DEF EffectsInit
  <2> QED BY <2>1, <2>2 DEF SavedAlerts, IsAlert, Free, Saving, NoRequest
<1>2. recent \in [Buckets -> 0..Limit] /\ forgotten \in [Buckets -> Nat]
  BY SideEffectsAssumption DEF EffectsInit
<1>3. \A b \in Buckets : recent[b] = 0 /\ forgotten[b] = 0
  BY DEF EffectsInit
<1>4. Cardinality({}) = 0
  BY FS_EmptySet
<1>5. \A b \in Buckets : Cardinality(SavedAlerts(b)) + Cardinality(Saving(b)) <= recent[b] + forgotten[b]
  <2> SUFFICES ASSUME NEW b \in Buckets
               PROVE  Cardinality(SavedAlerts(b)) + Cardinality(Saving(b)) <= recent[b] + forgotten[b]
    OBVIOUS
  <2>1. Cardinality(SavedAlerts(b)) = 0 /\ Cardinality(Saving(b)) = 0 /\ recent[b] = 0 /\ forgotten[b] = 0
    BY <1>1, <1>3, <1>4
  <2> QED BY <2>1
<1> QED BY <1>2, <1>5 DEF RateInv

\* The property: a client's requests, overlapping, failing and repeated, never get more
\* alerts into a bucket than its limit and the timestamps that left the window, by age or
\* with a crashed process, pay for.
THEOREM AlertRateBoundedHolds == EffectsSpec => []AlertRateBounded
<1>1. RateInv => AlertRateBounded
  <2> SUFFICES ASSUME RateInv, NEW b \in Buckets
               PROVE  Cardinality(SavedAlerts(b)) <= Limit + forgotten[b]
    BY DEF AlertRateBounded
  <2>1. Cardinality(SavedAlerts(b)) \in Nat /\ Cardinality(Saving(b)) \in Nat
    BY CountsFinite, FS_CardinalityType
  <2>2. recent[b] \in 0..Limit /\ forgotten[b] \in Nat /\ Limit \in Nat
    BY SideEffectsAssumption DEF RateInv
  <2>3. Cardinality(SavedAlerts(b)) + Cardinality(Saving(b)) <= recent[b] + forgotten[b]
    BY DEF RateInv
  <2> QED BY <2>1, <2>2, <2>3
<1> QED BY <1>1, EffectsInitOK, EffectsNextOK, RateInitOK, RateNextOK, PTL DEF EffectsSpec

-----------------------------------------------------------------------------
(* Notifications: what the profile, the tokens, the deliveries, the calls  *)
(* under way and the mailboxes know of each other.                         *)

ProfileOK ==
  /\ profile = [email |-> profile.email, verified |-> profile.verified]
  /\ profile.email \in Addresses \cup {NoAddress} /\ profile.verified \in BOOLEAN
  /\ profile.verified => profile.email \in ProvenAddresses

PreferencesOK ==
  /\ pref \subseteq Types
  /\ \/ change = Idle
     \/ change = [pc |-> "save", type |-> change.type, enabled |-> change.enabled] /\ change.type \in Types

\* A token is saved, and its delivery queued, after its address was written down.
TokenOK(t) ==
  /\ token[t] = [status |-> token[t].status, email |-> token[t].email]
  /\ token[t].status \in {"absent", "open", "used", "expired"}
  /\ request[t] \in {"none", "profile", "token", "done"}
  /\ request[t] \in {"none", "profile"} => token[t].status = "absent"
  /\ request[t] # "none" => token[t].email \in Addresses
TokensOK ==
  /\ token = [t \in Tokens |-> token[t]] /\ request = [t \in Tokens |-> request[t]]
  /\ \A t \in Tokens : TokenOK(t)

\* The delivery of a token goes to the token's address.
RowOK(d, row) ==
  \/ row = NoRow
  \/ /\ row = [status |-> row.status, to |-> row.to, attempts |-> row.attempts, due |-> row.due]
     /\ row.status \in Statuses \ {"absent"} /\ row.due \in BOOLEAN /\ row.attempts \in Nat
     /\ row.to \in Addresses
     /\ d \in Tokens => request[d] = "done" /\ token[d].email = row.to
RowsOK == rows = [d \in Deliveries |-> rows[d]] /\ \A d \in Deliveries : RowOK(d, rows[d])

EnqueueOK(e) ==
  \/ e = Idle
  \/ e = [pc |-> e.pc, to |-> e.to] /\ e.pc = "preferences" /\ e.to \in Addresses \cup {NoAddress}
  \/ e = [pc |-> e.pc, to |-> e.to] /\ e.pc = "save" /\ e.to \in Addresses
EnqueuesOK == enqueue = [n \in Events |-> enqueue[n]] /\ \A n \in Events : EnqueueOK(enqueue[n])

\* A round works on copies of rows, which go where the rows go.
ItemOK(item) ==
  /\ item = [id |-> item.id, row |-> item.row] /\ item.id \in Deliveries
  /\ item.row.to \in Addresses /\ item.row.attempts \in Nat
  /\ rows[item.id] # NoRow /\ rows[item.id].to = item.row.to

Listing(p) == p = [pc |-> p.pc, now |-> p.now, list |-> p.list] /\ p.pc \in {"failed", "next"}
AtItem(p) ==
  /\ p = [pc |-> p.pc, now |-> p.now, list |-> p.list, item |-> p.item]
  /\ p.pc \in {"user", "preferences", "send"}
Writing(p) ==
  /\ p = [pc |-> p.pc, now |-> p.now, list |-> p.list, item |-> p.item, status |-> p.status]
  /\ p.pc = "write" /\ p.status \in {"sent", "failed", "cancelled"}

\* Once the user was checked, a notification goes to an address that is proven.
RoundOK(p) ==
  \/ p = Idle
  \/ /\ Listing(p) \/ ((AtItem(p) \/ Writing(p)) /\ ItemOK(p.item))
     /\ \A item \in p.list : ItemOK(item)
     /\ p.pc = "preferences" => p.item.id \in Events
     /\ (p.pc \in {"preferences", "send"} /\ p.item.id \in Events) => p.item.row.to \in ProvenAddresses
RoundsOK == round = [r \in Rounds |-> round[r]] /\ \A r \in Rounds : RoundOK(round[r])

MailOK(d, m) ==
  /\ d \in Deliveries /\ rows[d] # NoRow
  /\ d \in Tokens => request[d] = "done" /\ token[d].email = m
  /\ d \in Events => m \in ProvenAddresses
MailboxOK ==
  /\ mailbox = [m \in Addresses |-> mailbox[m]]
  /\ \A m \in Addresses : \A d \in mailbox[m] : MailOK(d, m)

MailInv ==
  /\ mailConfig \in MailConfigs /\ passed \subseteq Deadlines /\ failures \in 0..mailConfig.faults
  /\ ProfileOK /\ PreferencesOK /\ TokensOK /\ RowsOK /\ EnqueuesOK /\ RoundsOK /\ MailboxOK

\* What a step keeps: deliveries stay and keep their address, so do tokens that came back
\* and those whose delivery was queued, and mails stay where they arrived.
MailGrow ==
  /\ mailConfig' = mailConfig
  /\ \A d \in Deliveries : rows[d] # NoRow => rows'[d] # NoRow /\ rows'[d].to = rows[d].to
  /\ \A t \in Tokens : token[t].status = "used" => token'[t].status = "used" /\ token'[t].email = token[t].email
  /\ \A t \in Tokens : request[t] = "done" => request'[t] = "done" /\ token'[t].email = token[t].email
  /\ \A m \in Addresses : mailbox[m] \subseteq mailbox'[m]

LEMMA AddressStaysProven ==
  ASSUME MailGrow, NEW m, m \in ProvenAddresses
  PROVE  m \in ProvenAddresses'
<1>1. CASE m = mailConfig.profile.email /\ mailConfig.profile.verified
  BY <1>1 DEF MailGrow, ProvenAddresses
<1>2. ASSUME NEW t \in Tokens, token[t].status = "used", token[t].email = m, t \in mailbox[m]
      PROVE  m \in ProvenAddresses'
  <2>1. m \in Addresses
    BY DEF ProvenAddresses
  <2>2. token'[t].status = "used" /\ token'[t].email = m /\ t \in mailbox'[m]
    BY <1>2, <2>1 DEF MailGrow
  <2> QED BY <2>1, <2>2 DEF ProvenAddresses
<1> QED BY <1>1, <1>2 DEF ProvenAddresses

LEMMA ItemStays ==
  ASSUME MailGrow, NEW item, ItemOK(item)
  PROVE  ItemOK(item)'
BY DEF MailGrow, ItemOK

LEMMA RowStaysOK ==
  ASSUME MailGrow, NEW d \in Deliveries, NEW row, RowOK(d, row)
  PROVE  RowOK(d, row)'
BY DEF MailGrow, RowOK

LEMMA MailStays ==
  ASSUME MailGrow, NEW d, NEW m, MailOK(d, m)
  PROVE  MailOK(d, m)'
<1>1. d \in Events => m \in ProvenAddresses'
  BY AddressStaysProven DEF MailOK
<1> QED BY <1>1 DEF MailGrow, MailOK

LEMMA RoundStays ==
  ASSUME MailGrow, NEW p, RoundOK(p)
  PROVE  RoundOK(p)'
<1>1. CASE p = Idle
  BY <1>1 DEF RoundOK
<1>2. CASE p # Idle
  <2>1. \A item \in p.list : ItemOK(item)'
    BY <1>2, ItemStays DEF RoundOK
  <2>2. Listing(p) \/ ((AtItem(p) \/ Writing(p)) /\ ItemOK(p.item)')
    BY <1>2, ItemStays DEF RoundOK
  <2>3. (p.pc \in {"preferences", "send"} /\ p.item.id \in Events) => p.item.row.to \in ProvenAddresses'
    BY <1>2, AddressStaysProven DEF RoundOK
  <2>4. p.pc = "preferences" => p.item.id \in Events
    BY <1>2 DEF RoundOK
  <2> QED BY <2>1, <2>2, <2>3, <2>4 DEF RoundOK, Listing, AtItem, Writing
<1> QED BY <1>1, <1>2

\* What a step leaves alone stays right.
LEMMA MailKeeps ==
  ASSUME MailInv, MailGrow
  PROVE  /\ profile' = profile => ProfileOK'
         /\ UNCHANGED <<pref, change>> => PreferencesOK'
         /\ UNCHANGED <<token, request>> => TokensOK'
         /\ rows' = rows => RowsOK'
         /\ enqueue' = enqueue => EnqueuesOK'
         /\ round' = round => RoundsOK'
         /\ mailbox' = mailbox => MailboxOK'
         /\ mailConfig' \in MailConfigs
<1>1. profile' = profile => ProfileOK'
  <2>1. profile.verified => profile.email \in ProvenAddresses'
    BY AddressStaysProven DEF MailInv, ProfileOK
  <2> QED BY <2>1 DEF MailInv, ProfileOK
<1>2. UNCHANGED <<pref, change>> => PreferencesOK'
  BY DEF MailInv, PreferencesOK
<1>3. UNCHANGED <<token, request>> => TokensOK'
  BY DEF MailInv, TokensOK, TokenOK
<1>4. ASSUME rows' = rows PROVE RowsOK'
  <2>1. ASSUME NEW d \in Deliveries PROVE RowOK(d, rows[d])'
    <3>1. PICK row : row = rows[d]
      OBVIOUS
    <3>2. RowOK(d, row)'
      BY <3>1, RowStaysOK DEF MailInv, RowsOK
    <3> QED BY <1>4, <3>1, <3>2
  <2> QED BY <1>4, <2>1 DEF MailInv, RowsOK
<1>5. ASSUME enqueue' = enqueue PROVE EnqueuesOK'
  BY <1>5 DEF MailInv, EnqueuesOK, EnqueueOK
<1>6. ASSUME round' = round PROVE RoundsOK'
  <2>1. ASSUME NEW r \in Rounds PROVE RoundOK(round[r])'
    <3>1. PICK p : p = round[r]
      OBVIOUS
    <3>2. RoundOK(p)'
      BY <3>1, RoundStays DEF MailInv, RoundsOK
    <3> QED BY <1>6, <3>1, <3>2
  <2> QED BY <1>6, <2>1 DEF MailInv, RoundsOK
<1>7. ASSUME mailbox' = mailbox PROVE MailboxOK'
  <2>1. ASSUME NEW m \in Addresses, NEW d \in mailbox[m] PROVE MailOK(d, m)'
    BY MailStays DEF MailInv, MailboxOK
  <2> QED BY <1>7, <2>1 DEF MailInv, MailboxOK
<1>8. mailConfig' \in MailConfigs
  BY DEF MailInv, MailGrow
<1> QED BY <1>1, <1>2, <1>3, <1>4, <1>5, <1>6, <1>7, <1>8

\* Writing an address keeps it verified only if it was the profile's.
LEMMA WithEmailOK ==
  ASSUME MailInv, MailGrow, NEW m \in Addresses, profile' = WithEmail(m)
  PROVE  ProfileOK'
<1>1. /\ profile' = [email |-> profile'.email, verified |-> profile'.verified]
      /\ profile'.email = m /\ profile'.verified = (profile.verified /\ profile.email = m)
  BY DEF WithEmail
<1>2. profile'.verified \in BOOLEAN
  BY <1>1
<1>3. profile'.verified => m \in ProvenAddresses'
  <2>1. profile'.verified => profile.verified /\ profile.email = m
    BY <1>1
  <2>2. profile.verified => profile.email \in ProvenAddresses
    BY DEF MailInv, ProfileOK
  <2> QED BY <2>1, <2>2, AddressStaysProven
<1> QED BY <1>1, <1>2, <1>3 DEF ProfileOK

LEMMA UpdateUserProfileOK ==
  ASSUME MailInv, NEW m \in mailConfig.addresses, UpdateUserProfile(m)
  PROVE  MailInv'
<1>1. MailGrow
  BY DEF UpdateUserProfile, MailGrow
<1>2. m \in Addresses
  BY NotificationsAssumption DEF MailInv
<1>3. ProfileOK'
  BY <1>1, <1>2, WithEmailOK DEF UpdateUserProfile
<1> QED BY <1>1, <1>3, MailKeeps DEF UpdateUserProfile, MailInv

LEMMA RequestVerificationOK ==
  ASSUME MailInv, NEW t \in Tokens, NEW m \in mailConfig.addresses, RequestVerification(t, m)
  PROVE  MailInv'
<1>1. m \in Addresses
  BY NotificationsAssumption DEF MailInv
<1>2. TokenOK(t) /\ request[t] = "none" /\ token[t].status = "absent"
  BY DEF MailInv, TokensOK, TokenOK, RequestVerification
<1>3. /\ token = [u \in Tokens |-> token[u]] /\ request = [u \in Tokens |-> request[u]]
      /\ token' = [token EXCEPT ![t] = [@ EXCEPT !.email = m]] /\ request' = [request EXCEPT ![t] = "profile"]
  BY DEF MailInv, TokensOK, RequestVerification
<1>4. token'[t] = [status |-> "absent", email |-> m]
  <2>1. token'[t] = [token[t] EXCEPT !.email = m]
    BY <1>3
  <2> QED BY <1>2, <2>1 DEF TokenOK
<1>5. /\ token' = [u \in Tokens |-> token'[u]] /\ request' = [u \in Tokens |-> request'[u]]
      /\ request'[t] = "profile"
      /\ \A u \in Tokens \ {t} : token'[u] = token[u] /\ request'[u] = request[u]
  BY <1>3
<1>6. MailGrow
  BY <1>2, <1>5 DEF MailGrow, RequestVerification
<1>7. \A u \in Tokens : TokenOK(u)'
  BY <1>1, <1>4, <1>5 DEF TokenOK, MailInv, TokensOK
<1>8. TokensOK'
  BY <1>5, <1>7 DEF TokensOK
<1>9. ProfileOK'
  BY <1>1, <1>6, WithEmailOK DEF RequestVerification
<1> QED BY <1>6, <1>8, <1>9, MailKeeps DEF RequestVerification, MailInv

\* A step of a token that keeps its address and its request's delivery.
LEMMA TokenStep ==
  ASSUME MailInv, NEW t \in Tokens, NEW status \in {"absent", "open", "used", "expired"},
         NEW step \in {"profile", "token", "done"}, request[t] # "none",
         token[t].status = "used" => status = "used", request[t] = "done" => step = "done",
         step = "profile" => status = "absent",
         token' = [token EXCEPT ![t] = [@ EXCEPT !.status = status]],
         request' = [request EXCEPT ![t] = step],
         UNCHANGED mailConfig, mailbox' = mailbox,
         \A d \in Deliveries : rows[d] # NoRow => rows'[d] = rows[d]
  PROVE  MailGrow /\ TokensOK' /\ token'[t] = [status |-> status, email |-> token[t].email]
<1>1. token[t] = [status |-> token[t].status, email |-> token[t].email] /\ TokenOK(t)
  BY DEF MailInv, TokensOK, TokenOK
<1>2. /\ token = [u \in Tokens |-> token[u]] /\ request = [u \in Tokens |-> request[u]]
  BY DEF MailInv, TokensOK
<1>3. token'[t] = [token[t] EXCEPT !.status = status]
  BY <1>2
<1>4. token'[t] = [status |-> status, email |-> token[t].email]
  BY <1>1, <1>3
<1>5. /\ token' = [u \in Tokens |-> token'[u]] /\ request' = [u \in Tokens |-> request'[u]]
      /\ request'[t] = step
      /\ \A u \in Tokens \ {t} : token'[u] = token[u] /\ request'[u] = request[u]
  BY <1>2
<1>6. token'[t].status = status /\ token'[t].email = token[t].email
  BY <1>4
<1>7. MailGrow
  BY <1>5, <1>6 DEF MailGrow
<1>8. \A u \in Tokens : TokenOK(u)'
  BY <1>1, <1>4, <1>5, <1>6 DEF TokenOK, MailInv, TokensOK
<1> QED BY <1>4, <1>5, <1>7, <1>8 DEF TokensOK

LEMMA SaveTokenOK ==
  ASSUME MailInv, NEW t \in Tokens, SaveToken(t)
  PROVE  MailInv'
<1>1. token[t].status = "absent"
  BY DEF MailInv, TokensOK, TokenOK, SaveToken
<1>2. MailGrow /\ TokensOK'
  BY <1>1, TokenStep DEF SaveToken
<1> QED BY <1>2, MailKeeps DEF SaveToken, MailInv

LEMMA ExpireTokenOK ==
  ASSUME MailInv, NEW t \in Tokens, ExpireToken(t)
  PROVE  MailInv'
<1>1. request[t] \in {"token", "done"} /\ request' = [request EXCEPT ![t] = request[t]]
  BY DEF MailInv, TokensOK, TokenOK, ExpireToken
<1>2. MailGrow /\ TokensOK'
  BY <1>1, TokenStep DEF ExpireToken
<1> QED BY <1>2, MailKeeps DEF ExpireToken, MailInv

LEMMA RequestFailsOK ==
  ASSUME MailInv, NEW t \in Tokens, RequestFails(t)
  PROVE  MailInv'
<1>1. /\ token[t].status \in {"absent", "open", "used", "expired"}
      /\ token[t] = [token[t] EXCEPT !.status = token[t].status]
  BY DEF MailInv, TokensOK, TokenOK
<1>2. token' = [token EXCEPT ![t] = [@ EXCEPT !.status = token[t].status]]
  BY <1>1 DEF MailInv, TokensOK, RequestFails
<1>3. PICK s : s = token[t].status
  OBVIOUS
<1>4. MailGrow /\ TokensOK'
  BY <1>1, <1>2, <1>3, TokenStep DEF RequestFails
<1>5. failures' \in 0..mailConfig.faults
  BY NotificationsAssumption DEF MailInv, RequestFails
<1> QED BY <1>4, <1>5, MailKeeps DEF RequestFails, MailInv

LEMMA VerifyEmailOK ==
  ASSUME MailInv, NEW t \in Tokens, VerifyEmail(t)
  PROVE  MailInv'
<1>1. PICK m \in Addresses : t \in mailbox[m]
  BY DEF VerifyEmail
<1>2. MailOK(t, m)
  BY <1>1 DEF MailInv, MailboxOK
<1>3. request[t] = "done" /\ token[t].email = m
  BY <1>2 DEF MailOK
<1>4. request' = [request EXCEPT ![t] = "done"]
  BY <1>3 DEF MailInv, TokensOK, VerifyEmail
<1>5. MailGrow /\ TokensOK' /\ token'[t] = [status |-> "used", email |-> m]
  BY <1>3, <1>4, TokenStep DEF VerifyEmail
<1>6. m \in ProvenAddresses'
  BY <1>1, <1>5 DEF ProvenAddresses, VerifyEmail
<1>7. profile' = [email |-> m, verified |-> TRUE]
  BY <1>3 DEF VerifyEmail, Verified
<1>8. ProfileOK'
  BY <1>6, <1>7 DEF ProfileOK
<1> QED BY <1>5, <1>8, MailKeeps DEF VerifyEmail, MailInv

\* The rows of a step that writes one.
LEMMA RowStep ==
  ASSUME MailInv, MailGrow, NEW d \in Deliveries, NEW row, rows' = [rows EXCEPT ![d] = row], RowOK(d, row)'
  PROVE  RowsOK'
<1>1. /\ rows' = [e \in Deliveries |-> rows'[e]] /\ rows'[d] = row
      /\ \A e \in Deliveries \ {d} : rows'[e] = rows[e]
  BY DEF MailInv, RowsOK
<1>2. ASSUME NEW e \in Deliveries PROVE RowOK(e, rows[e])'
  <2>1. CASE e = d
    BY <1>1, <2>1
  <2>2. CASE e # d
    <3>1. PICK old : old = rows[e]
      OBVIOUS
    <3>2. RowOK(e, old)'
      BY <3>1, RowStaysOK DEF MailInv, RowsOK
    <3> QED BY <1>1, <2>2, <3>1, <3>2
  <2> QED BY <2>1, <2>2
<1> QED BY <1>1, <1>2 DEF RowsOK

LEMMA QueuedOK ==
  ASSUME NEW m \in Addresses
  PROVE  /\ Queued(m) = [status |-> "pending", to |-> m, attempts |-> 0, due |-> TRUE]
         /\ Queued(m) # NoRow
BY DEF Queued, NoRow

LEMMA QueueVerificationOK ==
  ASSUME MailInv, NEW t \in Tokens, QueueVerification(t)
  PROVE  MailInv'
<1>1. request[t] = "token" /\ TokenOK(t) /\ token[t].email \in Addresses
  BY DEF MailInv, TokensOK, TokenOK, QueueVerification
<1>2. PICK s, m : s = token[t].status /\ m = token[t].email
  OBVIOUS
<1>3. token[t] = [token[t] EXCEPT !.status = s] /\ s \in {"absent", "open", "used", "expired"}
  BY <1>1, <1>2 DEF TokenOK
<1>4. token' = [token EXCEPT ![t] = [@ EXCEPT !.status = s]]
  BY <1>3 DEF MailInv, TokensOK, QueueVerification
<1>5. rows' = [rows EXCEPT ![t] = Queued(m)] /\ t \in Deliveries
  BY <1>2 DEF QueueVerification, Deliveries
<1>6. rows[t] = NoRow
  BY <1>1, <1>5 DEF MailInv, RowsOK, RowOK
<1>7. \A d \in Deliveries : rows[d] # NoRow => rows'[d] = rows[d]
  BY <1>5, <1>6 DEF MailInv, RowsOK
<1>8. MailGrow /\ TokensOK' /\ token'[t] = [status |-> s, email |-> m]
  BY <1>1, <1>2, <1>3, <1>4, <1>7, TokenStep DEF QueueVerification
<1>9. PICK row : row = Queued(m)
  OBVIOUS
<1>10. row = [status |-> "pending", to |-> m, attempts |-> 0, due |-> TRUE] /\ m \in Addresses
  BY <1>1, <1>2, <1>9, QueuedOK
<1>11. request'[t] = "done"
  BY DEF QueueVerification, MailInv, TokensOK
<1>12. RowOK(t, row)'
  BY <1>8, <1>10, <1>11 DEF RowOK, Statuses
<1>13. RowsOK'
  BY <1>5, <1>8, <1>9, <1>12, RowStep
<1> QED BY <1>8, <1>13, MailKeeps DEF QueueVerification, MailInv

LEMMA BeginPreferencesOK ==
  ASSUME MailInv, NEW choice \in mailConfig.choices, BeginPreferences(choice[1], choice[2])
  PROVE  MailInv'
<1>1. choice[1] \in Types
  <2>1. choice \in Types \X BOOLEAN
    BY NotificationsAssumption DEF MailInv
  <2> QED BY <2>1
<1>2. MailGrow
  BY DEF BeginPreferences, MailGrow
<1>3. PreferencesOK'
  <2>1. change' = [pc |-> "save", type |-> choice[1], enabled |-> choice[2]] /\ pref' = pref
    BY DEF BeginPreferences
  <2>2. change'.type = choice[1] /\ change'.enabled = choice[2]
    BY <2>1
  <2> QED BY <1>1, <2>1, <2>2 DEF PreferencesOK, MailInv
<1> QED BY <1>2, <1>3, MailKeeps DEF BeginPreferences, MailInv

LEMMA SavePreferencesOK ==
  ASSUME MailInv, SavePreferences
  PROVE  MailInv'
<1>1. MailGrow
  BY DEF SavePreferences, MailGrow
<1>2. change.type \in Types
  BY DEF SavePreferences, MailInv, PreferencesOK, Idle
<1>3. PreferencesOK'
  BY <1>2 DEF SavePreferences, MailInv, PreferencesOK
<1> QED BY <1>1, <1>3, MailKeeps DEF SavePreferences, MailInv

\* A row that is written over keeps its address.
LEMMA RowRewritten ==
  ASSUME MailInv, NEW d \in Deliveries, NEW row, rows[d] # NoRow, rows' = [rows EXCEPT ![d] = row],
         row = [status |-> row.status, to |-> row.to, attempts |-> row.attempts, due |-> row.due],
         row.status \in Statuses \ {"absent"}, row.due \in BOOLEAN, row.attempts \in Nat, row.to = rows[d].to,
         UNCHANGED <<mailConfig, token, request, mailbox>>
  PROVE  MailGrow /\ RowsOK'
<1>1. /\ rows' = [e \in Deliveries |-> rows'[e]] /\ rows'[d] = row
      /\ \A e \in Deliveries \ {d} : rows'[e] = rows[e]
  BY DEF MailInv, RowsOK
<1>2. row # NoRow
  BY DEF NoRow
<1>3. MailGrow
  BY <1>1, <1>2 DEF MailGrow
<1>4. RowOK(d, rows[d])
  BY DEF MailInv, RowsOK
<1>5. RowOK(d, row)'
  BY <1>4 DEF RowOK
<1> QED BY <1>3, <1>5, RowStep

LEMMA UnsubscribeOK ==
  ASSUME MailInv, NEW n \in Events, Unsubscribe(n)
  PROVE  MailInv'
<1>1. PICK m \in Addresses : n \in mailbox[m]
  BY DEF Unsubscribe
<1>2. rows[n] # NoRow /\ n \in Deliveries /\ RowOK(n, rows[n])
  BY <1>1 DEF MailInv, MailboxOK, MailOK, RowsOK
<1>3. PICK row : row = [rows[n] EXCEPT !.status = "unsubscribed"]
  OBVIOUS
<1>4. /\ row = [status |-> "unsubscribed", to |-> rows[n].to, attempts |-> rows[n].attempts, due |-> rows[n].due]
      /\ rows[n].due \in BOOLEAN /\ rows[n].attempts \in Nat
  <2>1. /\ rows[n] = [status |-> rows[n].status, to |-> rows[n].to, attempts |-> rows[n].attempts, due |-> rows[n].due]
        /\ rows[n].due \in BOOLEAN /\ rows[n].attempts \in Nat
    BY <1>2 DEF RowOK
  <2> QED BY <1>3, <2>1
<1>5. rows' = [rows EXCEPT ![n] = row]
  BY <1>3 DEF Unsubscribe, MailInv, RowsOK
<1>6. row.status = "unsubscribed" /\ row.to = rows[n].to /\ row.attempts \in Nat /\ row.due \in BOOLEAN
  BY <1>4
<1>7. row = [status |-> row.status, to |-> row.to, attempts |-> row.attempts, due |-> row.due]
  BY <1>4
<1>8. row.status \in Statuses \ {"absent"}
  BY <1>6 DEF Statuses
<1>9. MailGrow /\ RowsOK'
  BY <1>2, <1>5, <1>6, <1>7, <1>8, RowRewritten DEF Unsubscribe
<1>10. PreferencesOK'
  BY DEF Unsubscribe, MailInv, PreferencesOK
<1> QED BY <1>9, <1>10, MailKeeps DEF Unsubscribe, MailInv

\* A step of an enqueueUserNotifications call.
LEMMA EnqueueStep ==
  ASSUME MailInv, NEW n \in Events, NEW e, enqueue' = [enqueue EXCEPT ![n] = e], EnqueueOK(e)
  PROVE  EnqueuesOK'
BY DEF MailInv, EnqueuesOK, EnqueueOK

LEMMA FindUserOK ==
  ASSUME MailInv, NEW n \in Events, FindUser(n)
  PROVE  MailInv'
<1>1. PICK e : e = [pc |-> "preferences", to |-> IF profile.verified THEN profile.email ELSE NoAddress]
  OBVIOUS
<1>2. EnqueueOK(e)
  BY <1>1 DEF EnqueueOK, MailInv, ProfileOK
<1>3. EnqueuesOK'
  BY <1>1, <1>2, EnqueueStep DEF FindUser
<1>4. MailGrow
  BY DEF FindUser, MailGrow
<1> QED BY <1>3, <1>4, MailKeeps DEF FindUser, MailInv

LEMMA FindTargetOK ==
  ASSUME MailInv, NEW n \in Events, FindTarget(n)
  PROVE  MailInv'
<1>1. PICK old : old = enqueue[n]
  OBVIOUS
<1>2. old = [pc |-> "preferences", to |-> old.to] /\ old.to \in Addresses \cup {NoAddress}
  BY <1>1 DEF FindTarget, MailInv, EnqueuesOK, EnqueueOK, Idle
<1>3. PICK e : e = IF TypeOf[n] \in pref /\ old.to # NoAddress THEN [pc |-> "save", to |-> old.to] ELSE Idle
  OBVIOUS
<1>4. EnqueueOK(e)
  BY <1>2, <1>3 DEF EnqueueOK
<1>5. enqueue' = [enqueue EXCEPT ![n] = e]
  BY <1>1, <1>3 DEF FindTarget, MailInv, EnqueuesOK
<1>6. EnqueuesOK'
  BY <1>4, <1>5, EnqueueStep
<1>7. MailGrow
  BY DEF FindTarget, MailGrow
<1> QED BY <1>6, <1>7, MailKeeps DEF FindTarget, MailInv

LEMMA SaveDeliveryOK ==
  ASSUME MailInv, NEW n \in Events, SaveDelivery(n)
  PROVE  MailInv'
<1>1. EnqueuesOK'
  BY EnqueueStep DEF SaveDelivery, EnqueueOK
<1>2. PICK m : m = enqueue[n].to
  OBVIOUS
<1>3. m \in Addresses /\ n \in Deliveries /\ n \notin Tokens
  BY <1>2, NotificationsAssumption DEF SaveDelivery, MailInv, EnqueuesOK, EnqueueOK, Idle, Deliveries
<1>4. CASE rows[n] = NoRow
  <2>1. rows' = [rows EXCEPT ![n] = Queued(m)]
    BY <1>2, <1>4 DEF SaveDelivery
  <2>2. MailGrow
    BY <1>4, <2>1 DEF SaveDelivery, MailGrow, MailInv, RowsOK
  <2>3. PICK row : row = Queued(m)
    OBVIOUS
  <2>4. row = [status |-> "pending", to |-> m, attempts |-> 0, due |-> TRUE]
    BY <1>3, <2>3, QueuedOK
  <2>5. RowOK(n, row)'
    BY <1>3, <2>4 DEF RowOK, Statuses
  <2>6. RowsOK'
    BY <1>3, <2>1, <2>2, <2>3, <2>5, RowStep
  <2> QED BY <1>1, <2>2, <2>6, MailKeeps DEF SaveDelivery, MailInv
<1>5. CASE rows[n] # NoRow
  <2>1. rows' = rows
    BY <1>5 DEF SaveDelivery
  <2>2. MailGrow
    BY <2>1 DEF SaveDelivery, MailGrow
  <2> QED BY <1>1, <2>1, <2>2, MailKeeps DEF SaveDelivery, MailInv
<1> QED BY <1>4, <1>5

LEMMA EnqueueFailsOK ==
  ASSUME MailInv, NEW n \in Events, EnqueueFails(n)
  PROVE  MailInv'
<1>1. EnqueuesOK'
  BY EnqueueStep DEF EnqueueFails, EnqueueOK
<1>2. MailGrow
  BY DEF EnqueueFails, MailGrow
<1>3. failures' \in 0..mailConfig.faults
  BY NotificationsAssumption DEF MailInv, EnqueueFails
<1> QED BY <1>1, <1>2, <1>3, MailKeeps DEF EnqueueFails, MailInv

LEMMA PassDeadlineOK ==
  ASSUME MailInv, NEW n \in Events, PassDeadline(n)
  PROVE  MailInv'
<1>1. MailGrow
  BY DEF PassDeadline, MailGrow
<1> QED BY <1>1, MailKeeps DEF PassDeadline, MailInv

\* A row an operator or the passing time writes over.
LEMMA OperatorUpdatesOK ==
  ASSUME MailInv, NEW d \in Deliveries, NEW status \in {"sent", "failed", "cancelled"}, OperatorUpdates(d, status)
  PROVE  MailInv'
<1>1. PICK old : old = rows[d]
  OBVIOUS
<1>2. /\ old # NoRow /\ old = [status |-> old.status, to |-> old.to, attempts |-> old.attempts, due |-> old.due]
      /\ old.due \in BOOLEAN /\ old.attempts \in Nat
  BY <1>1 DEF OperatorUpdates, MailInv, RowsOK, RowOK
<1>3. PICK row : row = [Updated(old, status) EXCEPT !.due = old.due]
  OBVIOUS
<1>4. row = [status |-> status, to |-> old.to, due |-> old.due,
             attempts |-> IF status = "failed" THEN old.attempts + 1 ELSE old.attempts]
  BY <1>2, <1>3 DEF Updated
<1>5. rows' = [rows EXCEPT ![d] = row]
  BY <1>1, <1>3 DEF OperatorUpdates, MailInv, RowsOK
<1>6. row.attempts \in Nat
  BY <1>2, <1>4
<1>7. MailGrow /\ RowsOK'
  BY <1>1, <1>2, <1>4, <1>5, <1>6, RowRewritten DEF OperatorUpdates, Statuses
<1>8. failures' \in 0..mailConfig.faults
  BY NotificationsAssumption DEF MailInv, OperatorUpdates
<1> QED BY <1>7, <1>8, MailKeeps DEF OperatorUpdates, MailInv

LEMMA BecomesDueOK ==
  ASSUME MailInv, NEW d \in Deliveries, BecomesDue(d)
  PROVE  MailInv'
<1>1. PICK old : old = rows[d]
  OBVIOUS
<1>2. /\ old # NoRow /\ old = [status |-> old.status, to |-> old.to, attempts |-> old.attempts, due |-> old.due]
      /\ old.attempts \in Nat /\ old.status = "failed"
  BY <1>1 DEF BecomesDue, MailInv, RowsOK, RowOK, NoRow
<1>3. PICK row : row = [old EXCEPT !.due = TRUE]
  OBVIOUS
<1>4. row = [status |-> "failed", to |-> old.to, attempts |-> old.attempts, due |-> TRUE]
  BY <1>2, <1>3
<1>5. rows' = [rows EXCEPT ![d] = row]
  BY <1>1, <1>3 DEF BecomesDue, MailInv, RowsOK
<1>6. row.status = "failed" /\ row.to = rows[d].to /\ row.attempts \in Nat /\ row.due = TRUE /\ rows[d] # NoRow
  BY <1>1, <1>2, <1>4
<1>7. row = [status |-> row.status, to |-> row.to, attempts |-> row.attempts, due |-> row.due]
  BY <1>4
<1>8. row.status \in Statuses \ {"absent"} /\ row.due \in BOOLEAN
  BY <1>6 DEF Statuses
<1>9. MailGrow /\ RowsOK'
  BY <1>5, <1>6, <1>7, <1>8, RowRewritten DEF BecomesDue
<1> QED BY <1>9, MailKeeps DEF BecomesDue, MailInv

-----------------------------------------------------------------------------
(* The rounds of the worker. *)

\* A round that goes on to what a round may be.
LEMMA RoundMoves ==
  ASSUME MailInv, MailGrow, NEW r \in Rounds, NEW p, round' = [round EXCEPT ![r] = p], RoundOK(p)'
  PROVE  RoundsOK'
<1>1. /\ round' = [s \in Rounds |-> round'[s]] /\ round'[r] = p
      /\ \A s \in Rounds \ {r} : round'[s] = round[s]
  BY DEF MailInv, RoundsOK
<1>2. ASSUME NEW s \in Rounds PROVE RoundOK(round[s])'
  <2>1. CASE s = r
    BY <1>1, <2>1
  <2>2. CASE s # r
    <3>1. PICK old : old = round[s]
      OBVIOUS
    <3>2. RoundOK(old)'
      BY <3>1, RoundStays DEF MailInv, RoundsOK
    <3> QED BY <1>1, <2>2, <3>1, <3>2
  <2> QED BY <2>1, <2>2
<1> QED BY <1>1, <1>2 DEF RoundsOK

LEMMA RoundGoes ==
  ASSUME MailInv, NEW r \in Rounds, NEW p, round' = [round EXCEPT ![r] = p], RoundOK(p),
         UNCHANGED <<mailConfig, profile, pref, change, token, request, enqueue, rows, passed, mailbox>>,
         failures' \in 0..mailConfig.faults
  PROVE  MailInv'
<1>1. MailGrow
  BY DEF MailGrow
<1>2. RoundOK(p)'
  BY <1>1, RoundStays
<1>3. RoundsOK'
  BY <1>1, <1>2, RoundMoves
<1> QED BY <1>1, <1>3, MailKeeps DEF MailInv

\* What a round is at each step.
LEMMA RoundFact ==
  ASSUME MailInv, NEW r \in Rounds, NEW p, p = round[r], p.pc # "idle"
  PROVE  /\ \A item \in p.list : ItemOK(item)
         /\ p.pc \in {"failed", "next"} => Listing(p)
         /\ p.pc \in {"user", "preferences", "send"} => AtItem(p) /\ ItemOK(p.item)
         /\ p.pc = "write" => Writing(p) /\ ItemOK(p.item)
         /\ p.pc = "preferences" => p.item.id \in Events
         /\ (p.pc \in {"preferences", "send"} /\ p.item.id \in Events) => p.item.row.to \in ProvenAddresses
<1>1. RoundOK(p) /\ p # Idle
  BY DEF MailInv, RoundsOK, Idle
<1> QED BY <1>1 DEF RoundOK, Listing, AtItem, Writing

\* What a query finds is what a round may hold.
LEMMA ListedOK ==
  ASSUME MailInv, NEW status, status # "absent", NEW item \in Listed(status)
  PROVE  ItemOK(item) /\ item.row = rows[item.id] /\ item.row.status = status
<1>1. PICK d \in Deliveries : rows[d].status = status /\ item = [id |-> d, row |-> rows[d]]
  BY DEF Listed
<1>2. rows[d] # NoRow /\ RowOK(d, rows[d])
  BY <1>1 DEF NoRow, MailInv, RowsOK
<1>3. rows[d].to \in Addresses /\ rows[d].attempts \in Nat
  BY <1>2 DEF RowOK
<1> QED BY <1>1, <1>2, <1>3 DEF ItemOK

LEMMA StartRoundOK ==
  ASSUME MailInv, NEW r \in Rounds, StartRound(r)
  PROVE  MailInv'
<1>1. PICK p : p = [pc |-> "failed", now |-> passed, list |-> Listed("pending")]
  OBVIOUS
<1>2. RoundOK(p)
  <2>1. \A item \in p.list : ItemOK(item)
    BY <1>1, ListedOK
  <2> QED BY <1>1, <2>1 DEF RoundOK, Listing
<1> QED BY <1>1, <1>2, RoundGoes DEF StartRound, MailInv

LEMMA ListFailedOK ==
  ASSUME MailInv, NEW r \in Rounds, ListFailed(r)
  PROVE  MailInv'
<1>1. PICK old : old = round[r]
  OBVIOUS
<1>2. PICK p : p = [pc |-> "next", now |-> old.now,
                    list |-> {item \in old.list \cup Listed("failed") : item.row.due}]
  OBVIOUS
<1>3. round' = [round EXCEPT ![r] = p]
  BY <1>1, <1>2 DEF ListFailed, MailInv, RoundsOK
<1>4. RoundOK(p)
  <2>1. \A item \in old.list : ItemOK(item)
    BY <1>1, RoundFact DEF ListFailed
  <2>2. \A item \in p.list : ItemOK(item)
    BY <1>2, <2>1, ListedOK
  <2> QED BY <1>2, <2>2 DEF RoundOK, Listing
<1> QED BY <1>3, <1>4, RoundGoes DEF ListFailed, MailInv

LEMMA TakeOK ==
  ASSUME MailInv, NEW r \in Rounds, Take(r)
  PROVE  MailInv'
<1>1. PICK old : old = round[r]
  OBVIOUS
<1>2. PICK item \in old.list : round' = [round EXCEPT ![r] = [Checking(r, item, "user") EXCEPT !.list = @ \ {item}]]
  BY <1>1 DEF Take
<1>3. PICK p : p = [pc |-> "user", now |-> old.now, list |-> old.list \ {item}, item |-> item]
  OBVIOUS
<1>4. [Checking(r, item, "user") EXCEPT !.list = @ \ {item}] = p
  BY <1>1, <1>3 DEF Checking
<1>5. round' = [round EXCEPT ![r] = p]
  BY <1>2, <1>4
<1>6. RoundOK(p)
  <2>1. \A i \in old.list : ItemOK(i)
    BY <1>1, RoundFact DEF Take
  <2> QED BY <1>3, <2>1 DEF RoundOK, AtItem
<1> QED BY <1>5, <1>6, RoundGoes DEF Take, MailInv

\* The three steps a check may go on to.
LEMMA CheckedOK ==
  ASSUME NEW old, \A item \in old.list : ItemOK(item), ItemOK(old.item), NEW p,
         \/ \E status \in {"cancelled", "failed"} :
              p = [pc |-> "write", now |-> old.now, list |-> old.list, item |-> old.item, status |-> status]
         \/ /\ p = [pc |-> "preferences", now |-> old.now, list |-> old.list, item |-> old.item]
            /\ old.item.id \in Events /\ old.item.row.to \in ProvenAddresses
         \/ /\ p = [pc |-> "send", now |-> old.now, list |-> old.list, item |-> old.item]
            /\ old.item.id \in Events => old.item.row.to \in ProvenAddresses
  PROVE  RoundOK(p)
<1>1. CASE \E status \in {"cancelled", "failed"} :
             p = [pc |-> "write", now |-> old.now, list |-> old.list, item |-> old.item, status |-> status]
  BY <1>1 DEF RoundOK, Writing
<1>2. CASE /\ p = [pc |-> "preferences", now |-> old.now, list |-> old.list, item |-> old.item]
           /\ old.item.id \in Events /\ old.item.row.to \in ProvenAddresses
  BY <1>2 DEF RoundOK, AtItem
<1>3. CASE /\ p = [pc |-> "send", now |-> old.now, list |-> old.list, item |-> old.item]
           /\ old.item.id \in Events => old.item.row.to \in ProvenAddresses
  BY <1>3 DEF RoundOK, AtItem
<1> QED BY <1>1, <1>2, <1>3

LEMMA CheckUserOK ==
  ASSUME MailInv, NEW r \in Rounds, CheckUser(r)
  PROVE  MailInv'
<1>1. PICK old : old = round[r]
  OBVIOUS
<1>2. (\A item \in old.list : ItemOK(item)) /\ ItemOK(old.item)
  BY <1>1, RoundFact DEF CheckUser
<1>3. /\ \A status : Write(r, status) = [pc |-> "write", now |-> old.now, list |-> old.list, item |-> old.item, status |-> status]
      /\ \A pc : Checking(r, old.item, pc) = [pc |-> pc, now |-> old.now, list |-> old.list, item |-> old.item]
  BY <1>1 DEF Write, Checking
<1>4. PICK p : /\ round' = [round EXCEPT ![r] = p]
               /\ p = IF profile.email # old.item.row.to \/ (old.item.id \in Events /\ ~profile.verified)
                      THEN Write(r, "cancelled")
                      ELSE IF old.item.id \in Tokens THEN SendUnless(r, old.item) ELSE Checking(r, old.item, "preferences")
  BY <1>1 DEF CheckUser
<1>5. RoundOK(p)
  <2>1. CASE profile.email # old.item.row.to \/ (old.item.id \in Events /\ ~profile.verified)
    BY <1>2, <1>3, <1>4, <2>1, CheckedOK
  <2>2. CASE ~(profile.email # old.item.row.to \/ (old.item.id \in Events /\ ~profile.verified))
    <3>1. old.item.id \in Events => old.item.row.to \in ProvenAddresses
      BY <2>2 DEF MailInv, ProfileOK
    <3>2. CASE old.item.id \in Tokens
      <4>1. p \in {Write(r, "cancelled"), Write(r, "failed"), Checking(r, old.item, "send")}
        BY <1>4, <2>2, <3>2 DEF SendUnless
      <4> QED BY <1>2, <1>3, <3>1, <4>1, CheckedOK
    <3>3. CASE old.item.id \notin Tokens
      <4>1. p = Checking(r, old.item, "preferences") /\ old.item.id \in Events
        BY <1>2, <1>4, <2>2, <3>3 DEF ItemOK, Deliveries
      <4> QED BY <1>2, <1>3, <3>1, <4>1, CheckedOK
    <3> QED BY <3>2, <3>3
  <2> QED BY <2>1, <2>2
<1> QED BY <1>4, <1>5, RoundGoes DEF CheckUser, MailInv

LEMMA CheckPreferencesOK ==
  ASSUME MailInv, NEW r \in Rounds, CheckPreferences(r)
  PROVE  MailInv'
<1>1. PICK old : old = round[r]
  OBVIOUS
<1>2. (\A item \in old.list : ItemOK(item)) /\ ItemOK(old.item) /\ old.item.row.to \in ProvenAddresses
  BY <1>1, RoundFact DEF CheckPreferences
<1>3. /\ \A status : Write(r, status) = [pc |-> "write", now |-> old.now, list |-> old.list, item |-> old.item, status |-> status]
      /\ \A pc : Checking(r, old.item, pc) = [pc |-> pc, now |-> old.now, list |-> old.list, item |-> old.item]
  BY <1>1 DEF Write, Checking
<1>4. PICK p : /\ round' = [round EXCEPT ![r] = p]
               /\ p \in {Write(r, "cancelled"), Write(r, "failed"), Checking(r, old.item, "send")}
  BY <1>1 DEF CheckPreferences, SendUnless
<1>5. RoundOK(p)
  BY <1>2, <1>3, <1>4, CheckedOK
<1> QED BY <1>4, <1>5, RoundGoes DEF CheckPreferences, MailInv

LEMMA SendRoundOK ==
  ASSUME MailInv, NEW r \in Rounds, Send(r)
  PROVE  MailInv'
<1>1. PICK old : old = round[r]
  OBVIOUS
<1>2. /\ (\A item \in old.list : ItemOK(item)) /\ ItemOK(old.item)
      /\ old.item.id \in Events => old.item.row.to \in ProvenAddresses
  BY <1>1, RoundFact DEF Send
<1>3. \A status : Write(r, status) = [pc |-> "write", now |-> old.now, list |-> old.list, item |-> old.item, status |-> status]
  BY <1>1 DEF Write
<1>4. PICK status : status \in {"sent", "failed"} /\ round' = [round EXCEPT ![r] = Write(r, status)]
  BY DEF Send
<1>5. PICK p : p = [pc |-> "write", now |-> old.now, list |-> old.list, item |-> old.item, status |-> status]
  OBVIOUS
<1>6. RoundOK(p)
  BY <1>2, <1>4, <1>5 DEF RoundOK, Writing
<1>7. PICK d, m : d = old.item.id /\ m = old.item.row.to
  OBVIOUS
<1>8. mailbox' = mailbox \/ mailbox' = [mailbox EXCEPT ![m] = @ \cup {d}]
  BY <1>1, <1>7 DEF Send, Delivered
<1>9. m \in Addresses /\ d \in Deliveries /\ mailbox = [a \in Addresses |-> mailbox[a]]
  BY <1>2, <1>7 DEF ItemOK, MailInv, MailboxOK
<1>10. MailGrow
  BY <1>8, <1>9 DEF MailGrow, Send
<1>11. RoundsOK'
  <2>1. RoundOK(p)'
    BY <1>6, <1>10, RoundStays
  <2>2. round' = [round EXCEPT ![r] = p]
    BY <1>3, <1>4, <1>5
  <2> QED BY <1>10, <2>1, <2>2, RoundMoves
<1>12. MailboxOK'
  <2>1. CASE mailbox' = mailbox
    BY <1>10, <2>1, MailKeeps
  <2>2. CASE mailbox' = [mailbox EXCEPT ![m] = @ \cup {d}]
    <3>1. /\ mailbox' = [a \in Addresses |-> mailbox'[a]] /\ mailbox'[m] = mailbox[m] \cup {d}
          /\ \A a \in Addresses \ {m} : mailbox'[a] = mailbox[a]
      BY <1>9, <2>2
    <3>2. MailOK(d, m)
      <4>1. rows[d] # NoRow /\ rows[d].to = m
        BY <1>2, <1>7 DEF ItemOK
      <4>2. RowOK(d, rows[d])
        BY <1>9 DEF MailInv, RowsOK
      <4>3. d \in Tokens => request[d] = "done" /\ token[d].email = m
        BY <4>1, <4>2 DEF RowOK
      <4> QED BY <1>2, <1>7, <1>9, <4>1, <4>3 DEF MailOK
    <3>3. ASSUME NEW a \in Addresses, NEW e \in mailbox'[a] PROVE MailOK(e, a)'
      <4>1. MailOK(e, a)
        BY <3>1, <3>2, <3>3 DEF MailInv, MailboxOK
      <4> QED BY <1>10, <4>1, MailStays
    <3> QED BY <3>1, <3>3 DEF MailboxOK
  <2> QED BY <1>8, <2>1, <2>2
<1> QED BY <1>10, <1>11, <1>12, MailKeeps DEF Send, MailInv

LEMMA UpdateDeliveryOK ==
  ASSUME MailInv, NEW r \in Rounds, UpdateDelivery(r)
  PROVE  MailInv'
<1>1. PICK old, d : old = round[r] /\ d = old.item.id
  OBVIOUS
<1>2. (\A item \in old.list : ItemOK(item)) /\ ItemOK(old.item) /\ old.status \in {"sent", "failed", "cancelled"}
  BY <1>1, RoundFact DEF UpdateDelivery, Writing
<1>3. PICK p : p = [pc |-> "next", now |-> old.now, list |-> old.list]
  OBVIOUS
<1>4. round' = [round EXCEPT ![r] = p]
  BY <1>1, <1>3 DEF UpdateDelivery, MailInv, RoundsOK
<1>5. RoundOK(p)
  BY <1>2, <1>3 DEF RoundOK, Listing
<1>6. d \in Deliveries /\ rows[d] # NoRow /\ RowOK(d, rows[d])
  BY <1>1, <1>2 DEF ItemOK, MailInv, RowsOK
<1>7. PICK was : was = rows[d]
  OBVIOUS
<1>8. /\ was = [status |-> was.status, to |-> was.to, attempts |-> was.attempts, due |-> was.due]
      /\ was.due \in BOOLEAN /\ was.attempts \in Nat
  BY <1>6, <1>7 DEF RowOK
<1>9. PICK row : row = Updated(was, old.status)
  OBVIOUS
<1>10. row = [status |-> old.status, to |-> was.to, due |-> (old.status # "failed" /\ was.due),
              attempts |-> IF old.status = "failed" THEN was.attempts + 1 ELSE was.attempts]
  BY <1>8, <1>9 DEF Updated
<1>11. rows' = [rows EXCEPT ![d] = row]
  BY <1>1, <1>7, <1>9 DEF UpdateDelivery, MailInv, RowsOK
<1>12. row.status \in Statuses \ {"absent"} /\ row.to = rows[d].to /\ row.attempts \in Nat /\ row.due \in BOOLEAN
  BY <1>2, <1>7, <1>8, <1>10 DEF Statuses
<1>13. row = [status |-> row.status, to |-> row.to, attempts |-> row.attempts, due |-> row.due]
  BY <1>10
<1>14. MailGrow /\ RowsOK'
  BY <1>6, <1>11, <1>12, <1>13, RowRewritten DEF UpdateDelivery
<1>15. RoundsOK'
  BY <1>4, <1>5, <1>14, RoundStays, RoundMoves
<1> QED BY <1>14, <1>15, MailKeeps DEF UpdateDelivery, MailInv

LEMMA RoundEndsOK ==
  ASSUME MailInv, NEW r \in Rounds, EndRound(r) \/ RoundFails(r)
  PROVE  MailInv'
<1>1. RoundOK(Idle)
  BY DEF RoundOK
<1>2. failures' \in 0..mailConfig.faults
  BY NotificationsAssumption DEF MailInv, EndRound, RoundFails
<1> QED BY <1>1, <1>2, RoundGoes DEF EndRound, RoundFails

LEMMA MailInitOK == MailInit => MailInv
<1> SUFFICES ASSUME MailInit PROVE MailInv
  OBVIOUS
<1>1. PICK c \in MailConfigs : c = mailConfig
  BY DEF MailInit
<1>2. /\ c.profile \in [email : Addresses \cup {NoAddress}, verified : BOOLEAN]
      /\ c.profile.verified => c.profile.email \in Addresses
      /\ c.pref \subseteq Types /\ c.faults \in Nat
  BY NotificationsAssumption
<1>3. ProfileOK
  <2>1. profile = c.profile
    BY <1>1 DEF MailInit
  <2>2. c.profile.verified => c.profile.email \in ProvenAddresses
    BY <1>1, <1>2 DEF ProvenAddresses
  <2> QED BY <1>2, <2>1, <2>2 DEF ProfileOK
<1>4. PreferencesOK
  BY <1>1, <1>2 DEF MailInit, PreferencesOK
<1>5. TokensOK
  BY DEF MailInit, TokensOK, TokenOK, NoToken
<1>6. RowsOK
  BY DEF MailInit, RowsOK, RowOK
<1>7. EnqueuesOK
  BY DEF MailInit, EnqueuesOK, EnqueueOK
<1>8. RoundsOK
  BY DEF MailInit, RoundsOK, RoundOK
<1>9. MailboxOK
  BY DEF MailInit, MailboxOK
<1>10. mailConfig \in MailConfigs /\ passed \subseteq Deadlines /\ failures \in 0..mailConfig.faults
  BY <1>1, <1>2 DEF MailInit
<1> QED BY <1>3, <1>4, <1>5, <1>6, <1>7, <1>8, <1>9, <1>10 DEF MailInv

LEMMA MailNextOK ==
  ASSUME MailInv, [MailNext]_mailVars
  PROVE  MailInv'
<1>1. CASE Profile
  <2>1. ASSUME NEW m \in mailConfig.addresses, UpdateUserProfile(m) PROVE MailInv'
    BY <2>1, UpdateUserProfileOK
  <2>2. ASSUME NEW t \in Tokens, NEW m \in mailConfig.addresses, RequestVerification(t, m) PROVE MailInv'
    BY <2>2, RequestVerificationOK
  <2>3. ASSUME NEW t \in Tokens,
               SaveToken(t) \/ QueueVerification(t) \/ RequestFails(t) \/ VerifyEmail(t) \/ ExpireToken(t)
        PROVE  MailInv'
    BY <2>3, SaveTokenOK, QueueVerificationOK, RequestFailsOK, VerifyEmailOK, ExpireTokenOK
  <2> QED BY <1>1, <2>1, <2>2, <2>3 DEF Profile
<1>2. CASE Preferences
  BY <1>2, BeginPreferencesOK, SavePreferencesOK, UnsubscribeOK DEF Preferences
<1>3. CASE Queue
  BY <1>3, FindUserOK, FindTargetOK, SaveDeliveryOK, EnqueueFailsOK, PassDeadlineOK DEF Queue
<1>4. ASSUME NEW r \in Rounds, RoundStep(r) \/ RoundFails(r) PROVE MailInv'
  BY <1>4, StartRoundOK, ListFailedOK, TakeOK, CheckUserOK, CheckPreferencesOK, SendRoundOK,
     UpdateDeliveryOK, RoundEndsOK DEF RoundStep
<1>5. ASSUME NEW d \in Deliveries, BecomesDue(d) PROVE MailInv'
  BY <1>5, BecomesDueOK
<1>6. ASSUME NEW d \in Deliveries, NEW status \in {"sent", "failed", "cancelled"}, OperatorUpdates(d, status)
      PROVE  MailInv'
  BY <1>6, OperatorUpdatesOK
<1>7. CASE UNCHANGED mailVars
  <2>1. MailGrow
    BY <1>7 DEF MailGrow, mailVars
  <2> QED BY <1>7, <2>1, MailKeeps DEF mailVars, MailInv
<1> QED BY <1>1, <1>2, <1>3, <1>4, <1>5, <1>6, <1>7 DEF MailNext

\* The property: whatever requests, changes of address, old tokens, rounds and faults
\* interleave, only an address whose own token came back is verified or gets notifications.
THEOREM OnlyProvenAddressesHolds == MailSpec => []OnlyProvenAddresses
<1>1. MailInv => OnlyProvenAddresses
  <2> SUFFICES ASSUME MailInv PROVE OnlyProvenAddresses
    OBVIOUS
  <2>1. \A m \in Addresses : mailbox[m] \cap Events # {} => m \in ProvenAddresses
    BY DEF MailInv, MailboxOK, MailOK
  <2> QED BY <2>1 DEF OnlyProvenAddresses, MailInv, ProfileOK
<1> QED BY <1>1, MailInitOK, MailNextOK, PTL DEF MailSpec

-----------------------------------------------------------------------------
(* Mails of a type the user switched off. *)

SendingType(type) ==
  {r \in Rounds : round[r].pc = "send" /\ round[r].item.id \in Events /\ TypeOf[round[r].item.id] = type}

\* A mail that is about to be sent is one of those a round may still send.
LateInv ==
  /\ late \in [Types -> Nat]
  /\ \A type \in Types :
       /\ type \in pref => late[type] = 0
       /\ late[type] + Cardinality(SendingType(type)) <= Cardinality(Rounds)

LEMMA SendingCount ==
  /\ Cardinality(Rounds) \in Nat
  /\ \A type : /\ IsFiniteSet(SendingType(type)) /\ Cardinality(SendingType(type)) \in Nat
               /\ Cardinality(SendingType(type)) <= Cardinality(Rounds)
<1>1. \A type : SendingType(type) \subseteq Rounds
  BY DEF SendingType
<1> QED BY <1>1, FS_Subset, FS_CardinalityType, NotificationsAssumption

\* Sets that do not grow do not count more.
LEMMA SubsetCount ==
  ASSUME NEW S, IsFiniteSet(S), NEW T, T \subseteq S
  PROVE  Cardinality(T) \in Nat /\ Cardinality(S) \in Nat /\ Cardinality(T) <= Cardinality(S)
BY FS_Subset, FS_CardinalityType

\* A step after which no more mails of a type are about to be sent.
LEMMA LateFrame ==
  ASSUME LateInv, late' \in [Types -> Nat],
         \A type \in Types :
           /\ type \in pref' => late'[type] = 0
           /\ \/ late'[type] <= late[type] /\ SendingType(type)' \subseteq SendingType(type)
              \/ late'[type] = 0 /\ SendingType(type)' \subseteq Rounds
  PROVE  LateInv'
<1> SUFFICES ASSUME NEW type \in Types
             PROVE  late'[type] + Cardinality(SendingType(type)') <= Cardinality(Rounds)
  BY DEF LateInv
<1>1. PICK A, B : A = SendingType(type) /\ B = SendingType(type)'
  OBVIOUS
<1>2. IsFiniteSet(A) /\ IsFiniteSet(Rounds) /\ Cardinality(Rounds) \in Nat
  BY <1>1, SendingCount, NotificationsAssumption
<1>3. late[type] \in Nat /\ late'[type] \in Nat /\ late[type] + Cardinality(A) <= Cardinality(Rounds)
  BY <1>1 DEF LateInv
<1>4. CASE late'[type] <= late[type] /\ B \subseteq A
  <2>1. Cardinality(B) \in Nat /\ Cardinality(A) \in Nat /\ Cardinality(B) <= Cardinality(A)
    BY <1>2, <1>4, SubsetCount
  <2>2. late'[type] + Cardinality(B) <= Cardinality(Rounds)
    BY <1>2, <1>3, <1>4, <2>1
  <2> QED BY <1>1, <2>2
<1>5. CASE late'[type] = 0 /\ B \subseteq Rounds
  <2>1. Cardinality(B) \in Nat /\ Cardinality(B) <= Cardinality(Rounds)
    BY <1>2, <1>5, SubsetCount
  <2>2. late'[type] + Cardinality(B) <= Cardinality(Rounds)
    BY <1>2, <1>5, <2>1
  <2> QED BY <1>1, <2>2
<1> QED BY <1>1, <1>4, <1>5

\* A round that does not go on to send adds nothing to send.
LEMMA SendingGoes ==
  ASSUME MailInv, NEW r \in Rounds, NEW p, round' = [round EXCEPT ![r] = p], p.pc # "send" \/ p.item.id \notin Events
  PROVE  \A type : SendingType(type)' \subseteq SendingType(type) \ {r}
<1>1. round'[r] = p /\ \A s \in Rounds \ {r} : round'[s] = round[s]
  BY DEF MailInv, RoundsOK
<1> QED BY <1>1 DEF SendingType

LEMMA LateQuiet ==
  ASSUME LateInv, late' = late, pref' \subseteq pref, \A type : SendingType(type)' \subseteq SendingType(type)
  PROVE  LateInv'
<1>1. \A type \in Types : late[type] \in Nat
  BY DEF LateInv
<1>2. late' \in [Types -> Nat] /\ \A type \in Types : late'[type] <= late[type]
  BY <1>1 DEF LateInv
<1> QED BY <1>2, LateFrame DEF LateInv

LEMMA LateSend ==
  ASSUME MailInv, LateInv, NEW r \in Rounds, Send(r)
  PROVE  LateInv'
<1>1. PICK old : old = round[r]
  OBVIOUS
<1>2. PICK status : status \in {"sent", "failed"} /\ round' = [round EXCEPT ![r] = Write(r, status)]
  BY DEF Send
<1>3. Write(r, status).pc = "write" /\ pref' = pref
  BY DEF Write, Send
<1>4. \A type : SendingType(type)' \subseteq SendingType(type) \ {r}
  BY <1>2, <1>3, SendingGoes
<1>5. PICK d : d = old.item.id
  OBVIOUS
<1>6. late' = late \/ (d \in Events /\ TypeOf[d] \notin pref /\ late' = [late EXCEPT ![TypeOf[d]] = @ + 1])
  BY <1>1, <1>5 DEF Send, Delivered
<1>7. CASE late' = late
  BY <1>3, <1>4, <1>7, LateQuiet
<1>8. CASE d \in Events /\ TypeOf[d] \notin pref /\ late' = [late EXCEPT ![TypeOf[d]] = @ + 1]
  <2>1. PICK a : a = TypeOf[d]
    OBVIOUS
  <2>2. a \in Types /\ a \notin pref
    BY <1>8, <2>1, NotificationsAssumption
  <2>3. r \in SendingType(a)
    BY <1>1, <1>5, <1>8, <2>1 DEF SendingType, Send
  <2>4. /\ late' \in [Types -> Nat] /\ late'[a] = late[a] + 1
        /\ \A type \in Types \ {a} : late'[type] = late[type]
    BY <1>8, <2>1, <2>2 DEF LateInv
  <2>5. late[a] + 1 + Cardinality(SendingType(a)') <= Cardinality(Rounds)
    <3>1. PICK A, B : A = SendingType(a) /\ B = SendingType(a)'
      OBVIOUS
    <3>2. IsFiniteSet(A) /\ Cardinality(A) \in Nat /\ Cardinality(Rounds) \in Nat
      BY <3>1, SendingCount
    <3>3. IsFiniteSet(A \ {r}) /\ Cardinality(A \ {r}) = Cardinality(A) - 1
      BY <2>3, <3>1, <3>2, FS_RemoveElement
    <3>4. B \subseteq A \ {r}
      BY <1>4, <3>1
    <3>5. Cardinality(B) \in Nat /\ Cardinality(B) <= Cardinality(A \ {r})
      BY <3>3, <3>4, SubsetCount
    <3>6. late[a] \in Nat /\ late[a] + Cardinality(A) <= Cardinality(Rounds)
      BY <2>2, <3>1 DEF LateInv
    <3>7. late[a] + 1 + Cardinality(B) <= Cardinality(Rounds)
      BY <3>2, <3>3, <3>5, <3>6
    <3> QED BY <3>1, <3>7
  <2>6. ASSUME NEW type \in Types
        PROVE  /\ type \in pref' => late'[type] = 0
               /\ late'[type] + Cardinality(SendingType(type)') <= Cardinality(Rounds)
    <3>1. CASE type = a
      BY <1>3, <2>2, <2>4, <2>5, <3>1
    <3>2. CASE type # a
      <4>1. PICK A, B : A = SendingType(type) /\ B = SendingType(type)'
        OBVIOUS
      <4>2. IsFiniteSet(A) /\ Cardinality(A) \in Nat /\ Cardinality(Rounds) \in Nat
        BY <4>1, SendingCount
      <4>3. B \subseteq A
        BY <1>4, <4>1
      <4>4. Cardinality(B) \in Nat /\ Cardinality(B) <= Cardinality(A)
        BY <4>2, <4>3, SubsetCount
      <4>5. late[type] \in Nat /\ late[type] + Cardinality(A) <= Cardinality(Rounds) /\ late'[type] = late[type]
        BY <2>4, <3>2, <4>1 DEF LateInv
      <4>6. late'[type] + Cardinality(B) <= Cardinality(Rounds)
        BY <4>2, <4>4, <4>5
      <4>7. type \in pref' => late'[type] = 0
        BY <1>3, <4>5 DEF LateInv
      <4> QED BY <4>1, <4>6, <4>7
    <3> QED BY <3>1, <3>2
  <2> QED BY <2>4, <2>6 DEF LateInv
<1> QED BY <1>6, <1>7, <1>8

\* A round is sent on to send a mail only while its type is switched on.
LEMMA LatePreferences ==
  ASSUME MailInv, LateInv, NEW r \in Rounds, CheckPreferences(r)
  PROVE  LateInv'
<1>1. PICK old : old = round[r]
  OBVIOUS
<1>2. old.item.id \in Events
  BY <1>1, RoundFact DEF CheckPreferences
<1>3. late' = late /\ pref' = pref /\ late \in [Types -> Nat]
  BY DEF CheckPreferences, LateInv
<1>4. CASE \E status : round' = [round EXCEPT ![r] = Write(r, status)]
  <2>1. \A type : SendingType(type)' \subseteq SendingType(type)
    BY <1>4, SendingGoes DEF Write
  <2> QED BY <1>3, <2>1, LateQuiet
<1>5. CASE TypeOf[old.item.id] \in pref /\ round' = [round EXCEPT ![r] = Checking(r, old.item, "send")]
  <2>1. PICK p : p = Checking(r, old.item, "send")
    OBVIOUS
  <2>2. p.item = old.item
    BY <2>1 DEF Checking
  <2>3. round'[r] = p /\ \A s \in Rounds \ {r} : round'[s] = round[s]
    BY <1>5, <2>1 DEF MailInv, RoundsOK
  <2>4. ASSUME NEW type \in Types
        PROVE  /\ type \in pref' => late'[type] = 0
               /\ \/ late'[type] <= late[type] /\ SendingType(type)' \subseteq SendingType(type)
                  \/ late'[type] = 0 /\ SendingType(type)' \subseteq Rounds
    <3>1. type \in pref' => late'[type] = 0
      BY <1>3 DEF LateInv
    <3>2. CASE type = TypeOf[old.item.id]
      <4>1. late'[type] = 0 /\ SendingType(type)' \subseteq Rounds
        BY <1>3, <1>5, <3>2 DEF SendingType, LateInv
      <4> QED BY <3>1, <4>1
    <3>3. CASE type # TypeOf[old.item.id]
      <4>1. SendingType(type)' \subseteq SendingType(type)
        BY <2>2, <2>3, <3>3 DEF SendingType
      <4>2. late'[type] <= late[type]
        BY <1>3
      <4> QED BY <3>1, <4>1, <4>2
    <3> QED BY <3>2, <3>3
  <2> QED BY <1>3, <2>4, LateFrame
<1> QED BY <1>1, <1>4, <1>5 DEF CheckPreferences, Wanted, SendUnless

LEMMA LateSwitch ==
  ASSUME MailInv, LateInv, SavePreferences
  PROVE  LateInv'
<1>1. change.type \in Types
  BY DEF SavePreferences, MailInv, PreferencesOK, Idle
<1>2. \A type : SendingType(type)' = SendingType(type)
  BY DEF SavePreferences, SendingType
<1>3. CASE ~change.enabled
  <2>1. late' = late /\ pref' \subseteq pref
    BY <1>3 DEF SavePreferences
  <2> QED BY <1>2, <2>1, LateQuiet
<1>4. CASE change.enabled
  <2>1. PICK a : a = change.type
    OBVIOUS
  <2>2. pref' = pref \cup {a} /\ late' = [late EXCEPT ![a] = 0] /\ a \in Types
    BY <1>1, <1>4, <2>1 DEF SavePreferences
  <2>3. /\ late' \in [Types -> Nat] /\ late'[a] = 0 /\ \A type \in Types \ {a} : late'[type] = late[type]
    BY <2>2 DEF LateInv
  <2>4. ASSUME NEW type \in Types
        PROVE  (type \in pref' => late'[type] = 0) /\ late'[type] <= late[type]
    <3>1. late[type] \in Nat /\ (type \in pref => late[type] = 0)
      BY DEF LateInv
    <3> QED BY <2>2, <2>3, <3>1
  <2> QED BY <1>2, <2>3, <2>4, LateFrame
<1> QED BY <1>3, <1>4

LEMMA LateNextOK ==
  ASSUME MailInv, LateInv, [MailNext]_mailVars
  PROVE  LateInv'
<1>1. CASE Profile \/ Queue \/ UNCHANGED mailVars
  <2>1. UNCHANGED <<late, pref, round>>
    BY <1>1 DEF Profile, Queue, mailVars, UpdateUserProfile, RequestVerification, SaveToken, QueueVerification,
                RequestFails, VerifyEmail, ExpireToken, FindUser, FindTarget, SaveDelivery, EnqueueFails, PassDeadline
  <2>2. \A type : SendingType(type)' \subseteq SendingType(type)
    BY <2>1 DEF SendingType
  <2> QED BY <2>1, <2>2, LateQuiet
<1>2. CASE \E choice \in mailConfig.choices : BeginPreferences(choice[1], choice[2])
  <2>1. UNCHANGED <<late, pref, round>>
    BY <1>2 DEF BeginPreferences
  <2>2. \A type : SendingType(type)' \subseteq SendingType(type)
    BY <2>1 DEF SendingType
  <2> QED BY <2>1, <2>2, LateQuiet
<1>3. CASE \E n \in Events : Unsubscribe(n)
  <2>1. late' = late /\ round' = round /\ pref' \subseteq pref
    BY <1>3 DEF Unsubscribe
  <2>2. \A type : SendingType(type)' \subseteq SendingType(type)
    BY <2>1 DEF SendingType
  <2> QED BY <2>1, <2>2, LateQuiet
<1>4. ASSUME NEW r \in Rounds,
             StartRound(r) \/ ListFailed(r) \/ Take(r) \/ CheckUser(r) \/ UpdateDelivery(r) \/ EndRound(r) \/ RoundFails(r)
      PROVE  LateInv'
  <2>1. late' = late /\ pref' = pref
    BY <1>4 DEF StartRound, ListFailed, Take, CheckUser, UpdateDelivery, EndRound, RoundFails
  <2>2. PICK p : round' = [round EXCEPT ![r] = p] /\ (p.pc # "send" \/ p.item.id \notin Events)
    <3>1. CASE StartRound(r)
      <4>1. PICK p : p = [pc |-> "failed", now |-> passed, list |-> Listed("pending")]
        OBVIOUS
      <4>2. round' = [round EXCEPT ![r] = p] /\ p.pc # "send"
        BY <3>1, <4>1 DEF StartRound
      <4> QED BY <4>2
    <3>2. CASE ListFailed(r)
      <4>1. PICK p : p = [pc |-> "next", now |-> round[r].now,
                          list |-> {item \in round[r].list \cup Listed("failed") : item.row.due}]
        OBVIOUS
      <4>2. round' = [round EXCEPT ![r] = p] /\ p.pc # "send"
        BY <3>2, <4>1 DEF ListFailed, MailInv, RoundsOK
      <4> QED BY <4>2
    <3>3. CASE Take(r)
      <4>1. PICK item : round' = [round EXCEPT ![r] = [Checking(r, item, "user") EXCEPT !.list = @ \ {item}]]
        BY <3>3 DEF Take
      <4>2. [Checking(r, item, "user") EXCEPT !.list = @ \ {item}].pc = "user"
        BY DEF Checking
      <4> QED BY <4>1, <4>2
    <3>4. CASE CheckUser(r)
      <4>1. PICK item : item = round[r].item
        OBVIOUS
      <4>2. CASE item.id \in Tokens
        <5>1. item.id \notin Events
          BY <4>2, NotificationsAssumption
        <5>2. PICK p : round' = [round EXCEPT ![r] = p]
                       /\ p \in {Write(r, "cancelled"), Write(r, "failed"), Checking(r, item, "send")}
          BY <3>4, <4>1, <4>2 DEF CheckUser, SendUnless
        <5>3. /\ Write(r, "cancelled").pc = "write" /\ Write(r, "failed").pc = "write"
              /\ Checking(r, item, "send").item = item
          BY DEF Write, Checking
        <5> QED BY <5>1, <5>2, <5>3
      <4>3. CASE item.id \notin Tokens
        <5>1. PICK p : round' = [round EXCEPT ![r] = p]
                       /\ p \in {Write(r, "cancelled"), Checking(r, item, "preferences")}
          BY <3>4, <4>1, <4>3 DEF CheckUser
        <5>2. Write(r, "cancelled").pc = "write" /\ Checking(r, item, "preferences").pc = "preferences"
          BY DEF Write, Checking
        <5> QED BY <5>1, <5>2
      <4> QED BY <4>2, <4>3
    <3>5. CASE UpdateDelivery(r)
      <4>1. PICK p : p = [pc |-> "next", now |-> round[r].now, list |-> round[r].list]
        OBVIOUS
      <4>2. round' = [round EXCEPT ![r] = p] /\ p.pc # "send"
        BY <3>5, <4>1 DEF UpdateDelivery, MailInv, RoundsOK
      <4> QED BY <4>2
    <3>6. CASE EndRound(r) \/ RoundFails(r)
      BY <3>6 DEF EndRound, RoundFails, Idle
    <3> QED BY <1>4, <3>1, <3>2, <3>3, <3>4, <3>5, <3>6
  <2>3. \A type : SendingType(type)' \subseteq SendingType(type)
    BY <2>2, SendingGoes
  <2> QED BY <2>1, <2>3, LateQuiet
<1>5. ASSUME NEW d \in Deliveries,
             BecomesDue(d) \/ \E status \in {"sent", "failed", "cancelled"} : OperatorUpdates(d, status)
      PROVE  LateInv'
  <2>1. UNCHANGED <<late, pref, round>>
    BY <1>5 DEF BecomesDue, OperatorUpdates
  <2>2. \A type : SendingType(type)' \subseteq SendingType(type)
    BY <2>1 DEF SendingType
  <2> QED BY <2>1, <2>2, LateQuiet
<1>6. ASSUME NEW r \in Rounds, Send(r) PROVE LateInv'
  BY <1>6, LateSend
<1>7. ASSUME NEW r \in Rounds, CheckPreferences(r) PROVE LateInv'
  BY <1>7, LatePreferences
<1> QED BY <1>1, <1>2, <1>3, <1>4, <1>5, <1>6, <1>7, LateSwitch DEF MailNext, Preferences, RoundStep

LEMMA LateInitOK == MailInit => LateInv
<1> SUFFICES ASSUME MailInit PROVE LateInv
  OBVIOUS
<1>1. late \in [Types -> Nat] /\ \A type \in Types : late[type] = 0
  BY DEF MailInit
<1> QED BY <1>1, SendingCount DEF LateInv

\* The property: once a user has switched a type off, each round sends at most the one
\* mail it had checked before, however rounds and changes of preferences overlap.
THEOREM LateMailsBoundedHolds == MailSpec => []LateMailsBounded
<1>1. LateInv => LateMailsBounded
  <2> SUFFICES ASSUME LateInv, NEW type \in Types PROVE late[type] <= Cardinality(Rounds)
    BY DEF LateMailsBounded
  <2>1. late[type] \in Nat /\ late[type] + Cardinality(SendingType(type)) <= Cardinality(Rounds)
    BY DEF LateInv
  <2> QED BY <2>1, SendingCount
<1> QED BY <1>1, MailInitOK, MailNextOK, LateInitOK, LateNextOK, PTL DEF MailSpec

-----------------------------------------------------------------------------
(* How often a delivery is attempted where there is a provider: a failure  *)
(* is paid for by a copy that a round took while attempts were left, and a *)
(* round takes two at most.                                                *)

\* The copies a round still has to work on.
Held(p) ==
  IF p.pc = "idle" THEN {} ELSE IF p.pc \in {"failed", "next"} THEN p.list ELSE p.list \cup {p.item}

\* A round holds a delivery twice at most, and fails only deliveries with attempts left.
CopiesOK(p) ==
  /\ p.pc = "failed" => \A i, j \in p.list : i.id = j.id => i = j
  /\ \A i, j, k \in Held(p) : i.id = j.id /\ j.id = k.id => i = j \/ j = k \/ i = k
  /\ p.pc \in {"user", "preferences", "send", "write"} => p.item \notin p.list
  /\ (p.pc = "send" \/ (p.pc = "write" /\ p.status = "failed")) => p.item.row.attempts < MaxAttempts

\* The copies of a delivery that may still fail.
Live(r, p, d) == {<<r, i>> : i \in {j \in Held(p) : j.id = d /\ j.row.attempts < MaxAttempts}}
Copies(d) == UNION {Live(r, round[r], d) : r \in Rounds}

AttemptsBound == MaxAttempts - 1 + 2 * Cardinality(Rounds)

AttemptsInv ==
  /\ \A r \in Rounds : CopiesOK(round[r])
  /\ \A d \in Deliveries : rows[d].attempts + Cardinality(Copies(d)) <= AttemptsBound + failures

\* At most two elements for each member of a finite set.
LEMMA TwoEach ==
  ASSUME NEW R, IsFiniteSet(R), NEW C, \A x \in C : x \in R \X {x[2]},
         \A x, y, z \in C : x[1] = y[1] /\ y[1] = z[1] => x = y \/ y = z \/ x = z
  PROVE  /\ IsFiniteSet(C) /\ Cardinality(C) \in Nat /\ Cardinality(R) \in Nat
         /\ Cardinality(C) <= 2 * Cardinality(R)
<1> DEFINE first(r) == CHOOSE x \in C : x[1] = r
           f == [x \in C |-> <<x[1], IF x = first(x[1]) THEN 1 ELSE 2>>]
<1>1. \A x \in C : first(x[1]) \in C /\ first(x[1])[1] = x[1]
  OBVIOUS
<1>2. f \in [C -> R \X {1, 2}]
  <2> SUFFICES ASSUME NEW x \in C PROVE <<x[1], IF x = first(x[1]) THEN 1 ELSE 2>> \in R \X {1, 2}
    OBVIOUS
  <2>1. x[1] \in R
    OBVIOUS
  <2> QED BY <2>1
<1>3. ASSUME NEW x \in C, NEW y \in C, f[x] = f[y] PROVE x = y
  <2>1. f[x] = <<x[1], IF x = first(x[1]) THEN 1 ELSE 2>> /\ f[y] = <<y[1], IF y = first(y[1]) THEN 1 ELSE 2>>
    OBVIOUS
  <2>2. PICK z : z = first(x[1])
    OBVIOUS
  <2>3. PICK w : w = first(y[1])
    OBVIOUS
  <2>4. z \in C /\ z[1] = x[1] /\ (x[1] = y[1] => w = z)
    BY <1>1, <2>2, <2>3
  <2>5. <<x[1], IF x = z THEN 1 ELSE 2>> = <<y[1], IF y = w THEN 1 ELSE 2>>
    BY <1>3, <2>1, <2>2, <2>3
  <2> HIDE DEF first, f
  <2>6. x[1] = y[1] /\ (x = z <=> y = w)
    BY <2>5
  <2>7. x[1] = y[1] /\ y[1] = z[1] /\ (x = z <=> y = z)
    BY <2>4, <2>6
  <2>8. x = y \/ y = z \/ x = z
    BY <2>4, <2>7
  <2> QED BY <2>7, <2>8
<1>4. f \in Injection(C, R \X {1, 2})
  BY <1>2, <1>3 DEF Injection, IsInjective
<1>5. IsFiniteSet({1, 2}) /\ Cardinality({1, 2}) = 2
  <2>1. IsFiniteSet({1}) /\ Cardinality({1}) = 1
    BY FS_Singleton
  <2>2. {1, 2} = {1} \cup {2} /\ 2 \notin {1}
    OBVIOUS
  <2>3. IsFiniteSet({1} \cup {2}) /\ Cardinality({1} \cup {2}) = Cardinality({1}) + 1
    BY <2>1, <2>2, FS_AddElement
  <2> QED BY <2>1, <2>2, <2>3
<1>6. IsFiniteSet(R \X {1, 2}) /\ Cardinality(R \X {1, 2}) = Cardinality(R) * 2
  BY <1>5, FS_Product
<1>7. IsFiniteSet(C) /\ Cardinality(C) <= Cardinality(R \X {1, 2})
  BY <1>4, <1>6, FS_Injection
<1> HIDE DEF f
<1> QED BY <1>6, <1>7, FS_CardinalityType

\* However the rounds stand, they hold at most two live copies of a delivery each.
LEMMA CopiesCount ==
  ASSUME NEW rnd, \A r \in Rounds : CopiesOK(rnd[r]), NEW d,
         NEW C, \A x \in C : \E r \in Rounds : x \in Live(r, rnd[r], d)
  PROVE  /\ IsFiniteSet(C) /\ Cardinality(C) \in Nat /\ Cardinality(Rounds) \in Nat
         /\ Cardinality(C) <= 2 * Cardinality(Rounds)
<1>1. ASSUME NEW x \in C PROVE x = <<x[1], x[2]>> /\ x[1] \in Rounds /\ x[2] \in Held(rnd[x[1]]) /\ x[2].id = d
  <2>1. PICK r \in Rounds : x \in Live(r, rnd[r], d)
    BY <1>1
  <2>2. PICK i : i \in Held(rnd[r]) /\ i.id = d /\ x = <<r, i>>
    BY <2>1 DEF Live
  <2>3. x[1] = r /\ x[2] = i
    BY <2>2
  <2> QED BY <2>2, <2>3
<1>2. \A x \in C : x \in Rounds \X {x[2]}
  BY <1>1
<1>3. ASSUME NEW x \in C, NEW y \in C, NEW z \in C, x[1] = y[1] /\ y[1] = z[1] PROVE x = y \/ y = z \/ x = z
  <2>1. PICK r : r = x[1]
    OBVIOUS
  <2>2. PICK i, j, k : i = x[2] /\ j = y[2] /\ k = z[2]
    OBVIOUS
  <2>3. /\ r \in Rounds /\ x = <<r, i>> /\ y = <<r, j>> /\ z = <<r, k>>
        /\ i \in Held(rnd[r]) /\ j \in Held(rnd[r]) /\ k \in Held(rnd[r]) /\ i.id = j.id /\ j.id = k.id
    BY <1>1, <1>3, <2>1, <2>2
  <2>4. i = j \/ j = k \/ i = k
    BY <2>3 DEF CopiesOK
  <2> QED BY <2>3, <2>4
<1> QED BY <1>2, <1>3, TwoEach, NotificationsAssumption

\* What a step may do to the attempts of a delivery and its live copies: leave or lower
\* both, or raise the attempts against an operator's update or a copy, or find attempts left.
LEMMA AttemptsFrame ==
  ASSUME MailInv, AttemptsInv, \A r \in Rounds : CopiesOK(round'[r]),
         failures' \in Nat, failures <= failures',
         \A d \in Deliveries :
           /\ rows'[d].attempts \in Nat
           /\ \/ /\ Copies(d)' \subseteq Copies(d)
                 /\ rows'[d].attempts + failures <= rows[d].attempts + failures'
              \/ /\ rows'[d].attempts <= rows[d].attempts + 1
                 /\ \E x \in Copies(d) : Copies(d)' \subseteq Copies(d) \ {x}
              \/ rows'[d].attempts < MaxAttempts
  PROVE  AttemptsInv'
<1> SUFFICES ASSUME NEW d \in Deliveries
             PROVE  rows'[d].attempts + Cardinality(Copies(d)') <= AttemptsBound' + failures'
  BY DEF AttemptsInv
<1>1. PICK A, B : A = Copies(d) /\ B = Copies(d)'
  OBVIOUS
<1>2. PICK a, b, N : a = rows[d].attempts /\ b = rows'[d].attempts /\ N = Cardinality(Rounds)
  OBVIOUS
<1>3. IsFiniteSet(A) /\ Cardinality(A) \in Nat /\ N \in Nat
  <2>1. \A r \in Rounds : CopiesOK(round[r])
    BY DEF AttemptsInv
  <2>2. PICK rnd : rnd = round
    OBVIOUS
  <2>3. (\A x \in A : \E r \in Rounds : x \in Live(r, rnd[r], d)) /\ \A r \in Rounds : CopiesOK(rnd[r])
    BY <1>1, <2>1, <2>2 DEF Copies
  <2> QED BY <1>2, <2>3, CopiesCount
<1>4. IsFiniteSet(B) /\ Cardinality(B) \in Nat /\ Cardinality(B) <= 2 * N
  <2>1. B = UNION {Live(r, round'[r], d) : r \in Rounds}
    BY <1>1 DEF Copies, Live, Held
  <2>2. PICK rnd : rnd = round'
    OBVIOUS
  <2>3. (\A x \in B : \E r \in Rounds : x \in Live(r, rnd[r], d)) /\ \A r \in Rounds : CopiesOK(rnd[r])
    BY <2>1, <2>2
  <2> QED BY <1>2, <2>3, CopiesCount
<1>5. a \in Nat /\ b \in Nat /\ failures \in Nat /\ MaxAttempts \in Nat
  <2>1. RowOK(d, rows[d])
    BY DEF MailInv, RowsOK
  <2>2. a \in Nat
    BY <1>2, <2>1 DEF RowOK, NoRow
  <2>3. failures \in Nat
    BY NotificationsAssumption DEF MailInv
  <2> QED BY <1>2, <2>2, <2>3, NotificationsAssumption
<1>6. a + Cardinality(A) <= MaxAttempts - 1 + 2 * N + failures
  BY <1>1, <1>2 DEF AttemptsInv, AttemptsBound
<1>7. CASE B \subseteq A /\ b + failures <= a + failures'
  <2>1. Cardinality(B) <= Cardinality(A)
    BY <1>3, <1>7, SubsetCount
  <2>2. PICK v, w, f, g : v = Cardinality(A) /\ w = Cardinality(B) /\ f = failures /\ g = failures'
    OBVIOUS
  <2>3. /\ v \in Nat /\ w \in Nat /\ f \in Nat /\ g \in Nat /\ a \in Nat /\ b \in Nat /\ MaxAttempts \in Nat /\ N \in Nat
        /\ w <= v /\ b + f <= a + g /\ a + v <= MaxAttempts - 1 + 2 * N + f
    BY <1>3, <1>4, <1>5, <1>6, <1>7, <2>1, <2>2
  <2>4. b + w <= MaxAttempts - 1 + 2 * N + g
    BY <2>3
  <2> QED BY <1>1, <1>2, <2>2, <2>4 DEF AttemptsBound
<1>8. CASE b <= a + 1 /\ \E x \in A : B \subseteq A \ {x}
  <2>1. PICK x \in A : B \subseteq A \ {x}
    BY <1>8
  <2>2. IsFiniteSet(A \ {x}) /\ Cardinality(A \ {x}) = Cardinality(A) - 1
    BY <1>3, FS_RemoveElement
  <2>3. Cardinality(B) <= Cardinality(A \ {x})
    BY <2>1, <2>2, SubsetCount
  <2>4. b + Cardinality(B) <= MaxAttempts - 1 + 2 * N + failures'
    BY <1>3, <1>4, <1>5, <1>6, <1>8, <2>2, <2>3
  <2> QED BY <1>1, <1>2, <2>4 DEF AttemptsBound
<1>9. CASE b < MaxAttempts
  <2>1. b + Cardinality(B) <= MaxAttempts - 1 + 2 * N + failures'
    BY <1>3, <1>4, <1>5, <1>9
  <2> QED BY <1>1, <1>2, <2>1 DEF AttemptsBound
<1> QED BY <1>1, <1>2, <1>7, <1>8, <1>9

\* The copies after one round went on.
LEMMA CopiesGoes ==
  ASSUME MailInv, AttemptsInv, NEW r \in Rounds, NEW p, round' = [round EXCEPT ![r] = p], CopiesOK(p)
  PROVE  /\ \A s \in Rounds : CopiesOK(round'[s])
         /\ \A d : Copies(d)' \subseteq Copies(d) \cup Live(r, p, d)
         /\ \A d : \A x \in Copies(d)' : x[1] = r => x \in Live(r, p, d)
<1>1. round'[r] = p /\ \A s \in Rounds \ {r} : round'[s] = round[s]
  BY DEF MailInv, RoundsOK
<1>2. \A s \in Rounds : CopiesOK(round'[s])
  BY <1>1 DEF AttemptsInv
<1>3. \A d : Copies(d)' = UNION {Live(s, round'[s], d) : s \in Rounds}
  BY DEF Copies, Live, Held
<1>4. \A d : Copies(d)' \subseteq Copies(d) \cup Live(r, p, d)
  BY <1>1, <1>3 DEF Copies
<1>5. ASSUME NEW d, NEW x \in Copies(d)', x[1] = r PROVE x \in Live(r, p, d)
  <2>1. PICK s \in Rounds : x \in Live(s, round'[s], d)
    BY <1>3
  <2>2. x[1] = s
    BY <2>1 DEF Live
  <2> QED BY <1>1, <1>5, <2>1, <2>2
<1> QED BY <1>2, <1>4, <1>5

LEMMA LiveFact ==
  ASSUME NEW r \in Rounds, NEW d
  PROVE  Live(r, round[r], d) \subseteq Copies(d)
BY DEF Copies

\* A round that goes on with no other copies than it had.
LEMMA AttemptsQuiet ==
  ASSUME MailInv, AttemptsInv, NEW r \in Rounds, NEW p, round' = [round EXCEPT ![r] = p], CopiesOK(p),
         Held(p) \subseteq Held(round[r]), rows' = rows, failures' \in Nat, failures <= failures'
  PROVE  AttemptsInv'
<1>1. \A d : Live(r, p, d) \subseteq Live(r, round[r], d)
  BY DEF Live
<1>2. \A d : Copies(d)' \subseteq Copies(d)
  BY <1>1, CopiesGoes, LiveFact
<1>3. \A s \in Rounds : CopiesOK(round'[s])
  BY CopiesGoes
<1>4. ASSUME NEW d \in Deliveries
      PROVE  rows'[d].attempts \in Nat /\ rows'[d].attempts + failures <= rows[d].attempts + failures'
  <2>1. RowOK(d, rows[d])
    BY DEF MailInv, RowsOK
  <2>2. rows[d].attempts \in Nat
    BY <2>1 DEF RowOK, NoRow
  <2>3. failures \in Nat
    BY NotificationsAssumption DEF MailInv
  <2> QED BY <2>2, <2>3
<1> QED BY <1>2, <1>3, <1>4, AttemptsFrame

\* A step that leaves the rounds alone, and raises attempts only with the failures.
LEMMA AttemptsOutside ==
  ASSUME MailInv, MailInv', AttemptsInv, round' = round, failures <= failures',
         \A d \in Deliveries :
           rows'[d].attempts + failures <= rows[d].attempts + failures' \/ rows'[d].attempts < MaxAttempts
  PROVE  AttemptsInv'
<1>1. failures' \in Nat
  BY NotificationsAssumption DEF MailInv
<1>2. \A d \in Deliveries : rows'[d].attempts \in Nat
  <2> SUFFICES ASSUME NEW d \in Deliveries PROVE rows'[d].attempts \in Nat
    OBVIOUS
  <2>1. RowOK(d, rows[d])'
    BY DEF MailInv, RowsOK
  <2> QED BY <2>1 DEF RowOK, NoRow
<1>3. \A r \in Rounds : CopiesOK(round'[r])
  BY DEF AttemptsInv
<1>4. \A d : Copies(d)' = Copies(d)
  BY DEF Copies, Live, Held
<1> QED BY <1>1, <1>2, <1>3, <1>4, AttemptsFrame

LEMMA AttemptsRow ==
  ASSUME MailInv, NEW d \in Deliveries
  PROVE  rows[d].attempts \in Nat /\ failures \in Nat /\ MaxAttempts \in Nat \ {0}
<1>1. RowOK(d, rows[d])
  BY DEF MailInv, RowsOK
<1> QED BY <1>1, NotificationsAssumption DEF RowOK, NoRow, MailInv

\* Copies a query finds are live only while attempts are left.
LEMMA AttemptsListed ==
  ASSUME MailInv, MailInv', AttemptsInv, NEW r \in Rounds, NEW p, round' = [round EXCEPT ![r] = p], CopiesOK(p),
         NEW status, status # "absent", Held(p) \subseteq Held(round[r]) \cup Listed(status),
         UNCHANGED <<rows, failures>>
  PROVE  AttemptsInv'
<1>1. /\ \A s \in Rounds : CopiesOK(round'[s])
      /\ \A d : Copies(d)' \subseteq Copies(d) \cup Live(r, p, d)
  BY CopiesGoes
<1>2. ASSUME NEW d \in Deliveries
      PROVE  /\ rows'[d].attempts \in Nat
             /\ \/ /\ Copies(d)' \subseteq Copies(d)
                   /\ rows'[d].attempts + failures <= rows[d].attempts + failures'
                \/ rows'[d].attempts < MaxAttempts
  <2>1. rows[d].attempts \in Nat /\ failures \in Nat /\ MaxAttempts \in Nat
    BY AttemptsRow
  <2>2. ASSUME ~(rows[d].attempts < MaxAttempts) PROVE Live(r, p, d) \subseteq Copies(d)
    <3> SUFFICES ASSUME NEW i \in Held(p), i.id = d, i.row.attempts < MaxAttempts PROVE <<r, i>> \in Copies(d)
      BY DEF Live
    <3>1. i \notin Listed(status)
      BY <2>2, ListedOK
    <3>2. i \in Held(round[r])
      BY <3>1
    <3>3. <<r, i>> \in Live(r, round[r], d)
      BY <3>2 DEF Live
    <3> QED BY <3>3, LiveFact
  <2>3. CASE rows[d].attempts < MaxAttempts
    BY <2>1, <2>3
  <2>4. CASE ~(rows[d].attempts < MaxAttempts)
    BY <1>1, <2>1, <2>2, <2>4
  <2> QED BY <2>3, <2>4
<1>3. failures' \in Nat /\ failures <= failures'
  BY NotificationsAssumption DEF MailInv
<1> QED BY <1>1, <1>2, <1>3, AttemptsFrame

LEMMA AttemptsRounds ==
  ASSUME MailInv, MailInv', AttemptsInv, NEW r \in Rounds, StartRound(r) \/ ListFailed(r)
  PROVE  AttemptsInv'
<1>1. \A status : \A i, j \in Listed(status) : i.id = j.id => i = j
  BY DEF Listed
<1>2. CASE StartRound(r)
  <2>1. PICK p : p = [pc |-> "failed", now |-> passed, list |-> Listed("pending")]
    OBVIOUS
  <2>2. p.pc = "failed" /\ p.list = Listed("pending") /\ Held(p) = Listed("pending")
    BY <2>1 DEF Held
  <2>3. CopiesOK(p)
    BY <1>1, <2>2 DEF CopiesOK
  <2>4. round' = [round EXCEPT ![r] = p]
    BY <1>2, <2>1 DEF StartRound
  <2>5. UNCHANGED <<rows, failures>>
    BY <1>2 DEF StartRound
  <2> QED BY <2>2, <2>3, <2>4, <2>5, AttemptsListed
<1>3. CASE ListFailed(r)
  <2>1. PICK old : old = round[r]
    OBVIOUS
  <2>2. PICK p : p = [pc |-> "next", now |-> old.now,
                      list |-> {item \in old.list \cup Listed("failed") : item.row.due}]
    OBVIOUS
  <2>3. old.pc = "failed" /\ Held(old) = old.list /\ CopiesOK(old)
    BY <1>3, <2>1 DEF ListFailed, Held, AttemptsInv
  <2>4. p.pc = "next" /\ Held(p) \subseteq old.list \cup Listed("failed")
    BY <2>2 DEF Held
  <2>5. CopiesOK(p)
    <3>1. ASSUME NEW i \in Held(p), NEW j \in Held(p), NEW k \in Held(p), i.id = j.id /\ j.id = k.id
          PROVE  i = j \/ j = k \/ i = k
      <4>1. \A x, y \in old.list : x.id = y.id => x = y
        BY <2>3 DEF CopiesOK
      <4>2. \A x, y \in Listed("failed") : x.id = y.id => x = y
        BY <1>1
      <4>3. /\ i \in old.list \/ i \in Listed("failed")
            /\ j \in old.list \/ j \in Listed("failed")
            /\ k \in old.list \/ k \in Listed("failed")
        BY <2>4
      <4>4. i.id = k.id
        BY <3>1
      <4> QED BY <3>1, <4>1, <4>2, <4>3, <4>4
    <3> QED BY <2>4, <3>1 DEF CopiesOK
  <2>6. round' = [round EXCEPT ![r] = p]
    BY <1>3, <2>1, <2>2 DEF ListFailed, MailInv, RoundsOK
  <2>7. UNCHANGED <<rows, failures>> /\ Held(p) \subseteq Held(round[r]) \cup Listed("failed")
    BY <1>3, <2>1, <2>3, <2>4 DEF ListFailed
  <2> QED BY <2>5, <2>6, <2>7, AttemptsListed
<1> QED BY <1>2, <1>3

\* What a round at an item goes on to, with the copies it had.
LEMMA CopiesNext ==
  ASSUME NEW old, CopiesOK(old), old.pc \in {"user", "preferences", "send"}, NEW p,
         p.list = old.list, p.item = old.item,
         \/ p.pc = "write" /\ (p.status = "failed" => old.item.row.attempts < MaxAttempts)
         \/ p.pc = "preferences"
         \/ p.pc = "send" /\ old.item.row.attempts < MaxAttempts
  PROVE  CopiesOK(p) /\ Held(p) \subseteq Held(old)
<1>1. Held(p) = Held(old)
  BY DEF Held
<1> QED BY <1>1 DEF CopiesOK

LEMMA AttemptsChecks ==
  ASSUME MailInv, AttemptsInv, mailConfig.provider, NEW r \in Rounds,
         CheckUser(r) \/ CheckPreferences(r) \/ Send(r)
  PROVE  AttemptsInv'
<1>1. PICK old, item : old = round[r] /\ item = old.item
  OBVIOUS
<1>2. CopiesOK(old) /\ old.pc \in {"user", "preferences", "send"} /\ ItemOK(item)
  BY <1>1, RoundFact DEF AttemptsInv, CheckUser, CheckPreferences, Send
<1>3. /\ \A status : Write(r, status) = [pc |-> "write", now |-> old.now, list |-> old.list, item |-> item, status |-> status]
      /\ \A pc : Checking(r, item, pc) = [pc |-> pc, now |-> old.now, list |-> old.list, item |-> item]
  BY <1>1 DEF Write, Checking
<1>4. item.row.attempts \in Nat /\ MaxAttempts \in Nat
  BY <1>2, NotificationsAssumption DEF ItemOK
<1>5. PICK p : /\ round' = [round EXCEPT ![r] = p]
               /\ \/ p = Write(r, "cancelled")
                  \/ p = Checking(r, item, "preferences")
                  \/ p = Checking(r, item, "send") /\ item.row.attempts < MaxAttempts
                  \/ (p = Write(r, "failed") \/ p = Write(r, "sent")) /\ item.row.attempts < MaxAttempts
  <2>1. \/ SendUnless(r, item) = Write(r, "cancelled")
        \/ SendUnless(r, item) = Checking(r, item, "send") /\ item.row.attempts < MaxAttempts
    BY <1>4 DEF SendUnless, Exhausted
  <2>2. CASE CheckUser(r)
    <3>1. PICK q : q = IF profile.email # item.row.to \/ (item.id \in Events /\ ~profile.verified)
                       THEN Write(r, "cancelled")
                       ELSE IF item.id \in Tokens THEN SendUnless(r, item) ELSE Checking(r, item, "preferences")
      OBVIOUS
    <3>2. round' = [round EXCEPT ![r] = q]
      BY <1>1, <2>2, <3>1 DEF CheckUser
    <3>3. q = Write(r, "cancelled") \/ q = SendUnless(r, item) \/ q = Checking(r, item, "preferences")
      BY <3>1
    <3> QED BY <2>1, <3>2, <3>3
  <2>3. CASE CheckPreferences(r)
    <3>1. PICK q : q = IF Wanted(item.id) /\ item.id \notin round[r].now
                       THEN SendUnless(r, item) ELSE Write(r, "cancelled")
      OBVIOUS
    <3>2. round' = [round EXCEPT ![r] = q]
      BY <1>1, <2>3, <3>1 DEF CheckPreferences
    <3>3. q = Write(r, "cancelled") \/ q = SendUnless(r, item)
      BY <3>1
    <3> QED BY <2>1, <3>2, <3>3
  <2>4. CASE Send(r)
    <3>1. item.row.attempts < MaxAttempts
      BY <1>1, <1>2, <2>4 DEF Send, CopiesOK
    <3>2. \E status \in {"sent", "failed"} : round' = [round EXCEPT ![r] = Write(r, status)]
      BY <2>4 DEF Send
    <3> QED BY <3>1, <3>2
  <2> QED BY <2>2, <2>3, <2>4
<1>6. CopiesOK(p) /\ Held(p) \subseteq Held(old)
  <2>1. CASE p = Write(r, "cancelled") \/ ((p = Write(r, "failed") \/ p = Write(r, "sent")) /\ item.row.attempts < MaxAttempts)
    <3>1. PICK status : p = Write(r, status) /\ (status = "failed" => item.row.attempts < MaxAttempts)
      BY <2>1
    <3>2. p = [pc |-> "write", now |-> old.now, list |-> old.list, item |-> item, status |-> status]
      BY <1>3, <3>1
    <3>3. p.list = old.list /\ p.item = old.item /\ p.pc = "write" /\ p.status = status
      BY <1>1, <3>2
    <3>4. p.status = "failed" => old.item.row.attempts < MaxAttempts
      BY <1>1, <3>1, <3>3
    <3> QED BY <1>2, <3>3, <3>4, CopiesNext
  <2>2. CASE p = Checking(r, item, "preferences")
    <3>1. p = [pc |-> "preferences", now |-> old.now, list |-> old.list, item |-> item]
      BY <1>3, <2>2
    <3>2. p.list = old.list /\ p.item = old.item /\ p.pc = "preferences"
      BY <1>1, <3>1
    <3> QED BY <1>2, <3>2, CopiesNext
  <2>3. CASE p = Checking(r, item, "send") /\ item.row.attempts < MaxAttempts
    <3>1. p = [pc |-> "send", now |-> old.now, list |-> old.list, item |-> item]
      BY <1>3, <2>3
    <3>2. p.list = old.list /\ p.item = old.item /\ p.pc = "send" /\ old.item.row.attempts < MaxAttempts
      BY <1>1, <2>3, <3>1
    <3> QED BY <1>2, <3>2, CopiesNext
  <2> QED BY <1>5, <2>1, <2>2, <2>3
<1>7. rows' = rows /\ failures' \in Nat /\ failures <= failures'
  BY NotificationsAssumption DEF MailInv, CheckUser, CheckPreferences, Send
<1> QED BY <1>1, <1>5, <1>6, <1>7, AttemptsQuiet

LEMMA AttemptsTake ==
  ASSUME MailInv, AttemptsInv, NEW r \in Rounds, Take(r)
  PROVE  AttemptsInv'
<1>1. PICK old : old = round[r]
  OBVIOUS
<1>2. PICK item \in old.list : round' = [round EXCEPT ![r] = [Checking(r, item, "user") EXCEPT !.list = @ \ {item}]]
  BY <1>1 DEF Take
<1>3. PICK p : p = [pc |-> "user", now |-> old.now, list |-> old.list \ {item}, item |-> item]
  OBVIOUS
<1>4. [Checking(r, item, "user") EXCEPT !.list = @ \ {item}] = p
  BY <1>1, <1>3 DEF Checking
<1>5. CopiesOK(old) /\ Held(old) = old.list
  BY <1>1 DEF AttemptsInv, Held, Take
<1>6. p.pc = "user" /\ p.item = item /\ p.list = old.list \ {item} /\ Held(p) = old.list
  BY <1>3 DEF Held
<1>7. CopiesOK(p)
  BY <1>5, <1>6 DEF CopiesOK
<1>8. rows' = rows /\ failures' \in Nat /\ failures <= failures'
  BY NotificationsAssumption DEF MailInv, Take
<1> QED BY <1>1, <1>2, <1>4, <1>5, <1>6, <1>7, <1>8, AttemptsQuiet

LEMMA AttemptsEnd ==
  ASSUME MailInv, MailInv', AttemptsInv, NEW r \in Rounds, EndRound(r) \/ RoundFails(r)
  PROVE  AttemptsInv'
<1>1. Held(Idle) = {} /\ CopiesOK(Idle)
  BY DEF Held, CopiesOK, Idle
<1>2. rows' = rows /\ failures' \in Nat /\ failures <= failures'
  BY NotificationsAssumption DEF MailInv, EndRound, RoundFails
<1>3. round' = [round EXCEPT ![r] = Idle]
  BY DEF EndRound, RoundFails
<1> QED BY <1>1, <1>2, <1>3, AttemptsQuiet

\* A failure a round writes uses up the copy it took.
LEMMA AttemptsUpdate ==
  ASSUME MailInv, MailInv', AttemptsInv, NEW r \in Rounds, UpdateDelivery(r)
  PROVE  AttemptsInv'
<1>1. PICK old, item, d : old = round[r] /\ item = old.item /\ d = item.id
  OBVIOUS
<1>2. old.pc = "write" /\ CopiesOK(old) /\ ItemOK(item) /\ d \in Deliveries
  BY <1>1, RoundFact DEF UpdateDelivery, AttemptsInv, ItemOK
<1>3. PICK p : p = [pc |-> "next", now |-> old.now, list |-> old.list]
  OBVIOUS
<1>4. round' = [round EXCEPT ![r] = p]
  BY <1>1, <1>3 DEF UpdateDelivery, MailInv, RoundsOK
<1>5. Held(p) = old.list /\ Held(old) = old.list \cup {item} /\ item \notin old.list /\ p.pc = "next"
  BY <1>1, <1>2, <1>3 DEF Held, CopiesOK
<1>6. CopiesOK(p)
  BY <1>2, <1>5 DEF CopiesOK
<1>7. /\ \A s \in Rounds : CopiesOK(round'[s])
      /\ \A e : Copies(e)' \subseteq Copies(e) \cup Live(r, p, e)
      /\ \A e : \A x \in Copies(e)' : x[1] = r => x \in Live(r, p, e)
  BY <1>4, <1>6, CopiesGoes
<1>8. \A e : Copies(e)' \subseteq Copies(e)
  <2>1. \A e : Live(r, p, e) \subseteq Live(r, old, e)
    BY <1>5 DEF Live
  <2> QED BY <1>1, <1>7, <2>1, LiveFact
<1>9. PICK was : was = rows[d]
  OBVIOUS
<1>10. /\ was = [status |-> was.status, to |-> was.to, attempts |-> was.attempts, due |-> was.due]
       /\ was.attempts \in Nat
  BY <1>1, <1>2, <1>9 DEF ItemOK, MailInv, RowsOK, RowOK
<1>11. PICK row : row = Updated(was, old.status)
  OBVIOUS
<1>12. row.attempts = IF old.status = "failed" THEN was.attempts + 1 ELSE was.attempts
  BY <1>10, <1>11 DEF Updated
<1>13. rows' = [rows EXCEPT ![d] = row]
  BY <1>1, <1>9, <1>11 DEF UpdateDelivery, MailInv, RowsOK
<1>14. rows'[d] = row /\ \A e \in Deliveries \ {d} : rows'[e] = rows[e]
  BY <1>2, <1>13 DEF MailInv, RowsOK
<1>15. failures' = failures /\ failures \in Nat
  BY NotificationsAssumption DEF MailInv, UpdateDelivery
<1>16. ASSUME NEW e \in Deliveries
       PROVE  /\ rows'[e].attempts \in Nat
              /\ \/ /\ Copies(e)' \subseteq Copies(e)
                    /\ rows'[e].attempts + failures <= rows[e].attempts + failures'
                 \/ /\ rows'[e].attempts <= rows[e].attempts + 1
                    /\ \E x \in Copies(e) : Copies(e)' \subseteq Copies(e) \ {x}
  <2>1. CASE e # d
    <3>1. rows'[e] = rows[e] /\ rows[e].attempts \in Nat
      BY <1>14, <2>1, AttemptsRow
    <3> QED BY <1>8, <1>15, <3>1
  <2>2. CASE e = d /\ old.status # "failed"
    <3>1. rows'[e].attempts = rows[e].attempts /\ rows[e].attempts \in Nat
      BY <1>9, <1>10, <1>12, <1>14, <2>2
    <3> QED BY <1>8, <1>15, <3>1
  <2>3. CASE e = d /\ old.status = "failed"
    <3>1. rows'[e].attempts = rows[e].attempts + 1 /\ rows[e].attempts \in Nat
      BY <1>9, <1>10, <1>12, <1>14, <2>3
    <3>2. item.row.attempts < MaxAttempts
      BY <1>1, <1>2, <2>3 DEF CopiesOK
    <3>3. <<r, item>> \in Live(r, old, e)
      BY <1>1, <1>5, <2>3, <3>2 DEF Live
    <3>4. <<r, item>> \in Copies(e)
      BY <1>1, <3>3, LiveFact
    <3>5. <<r, item>> \notin Live(r, p, e)
      BY <1>5 DEF Live
    <3>6. <<r, item>> \notin Copies(e)'
      BY <1>7, <3>5
    <3>7. rows'[e].attempts \in Nat /\ rows'[e].attempts <= rows[e].attempts + 1
      BY <3>1
    <3>8. Copies(e)' \subseteq Copies(e) \ {<<r, item>>}
      BY <1>8, <3>6
    <3> QED BY <3>4, <3>7, <3>8
  <2> QED BY <2>1, <2>2, <2>3
<1> QED BY <1>7, <1>15, <1>16, AttemptsFrame

\* The same where at most one delivery is written.
LEMMA AttemptsWritten ==
  ASSUME MailInv, MailInv', AttemptsInv, round' = round, failures <= failures',
         NEW d \in Deliveries, NEW row, rows' = [rows EXCEPT ![d] = row],
         row.attempts + failures <= rows[d].attempts + failures' \/ row.attempts < MaxAttempts
  PROVE  AttemptsInv'
<1>1. rows'[d] = row /\ \A e \in Deliveries \ {d} : rows'[e] = rows[e]
  BY DEF MailInv, RowsOK
<1>2. ASSUME NEW e \in Deliveries
      PROVE  rows'[e].attempts + failures <= rows[e].attempts + failures' \/ rows'[e].attempts < MaxAttempts
  <2>1. CASE e = d
    BY <1>1, <2>1
  <2>2. CASE e # d
    <3>1. rows'[e] = rows[e] /\ rows[e].attempts \in Nat /\ failures \in Nat /\ failures' \in Nat
      BY <1>1, <2>2, AttemptsRow, NotificationsAssumption DEF MailInv
    <3> QED BY <3>1
  <2> QED BY <2>1, <2>2
<1> QED BY <1>2, AttemptsOutside

\* A step that writes no delivery.
LEMMA AttemptsUnwritten ==
  ASSUME MailInv, MailInv', AttemptsInv, UNCHANGED <<rows, round>>, failures <= failures'
  PROVE  AttemptsInv'
<1>1. failures \in Nat /\ failures' \in Nat
  BY NotificationsAssumption DEF MailInv
<1>2. ASSUME NEW d \in Deliveries PROVE rows'[d].attempts + failures <= rows[d].attempts + failures'
  <2>1. rows'[d].attempts = rows[d].attempts /\ rows[d].attempts \in Nat
    BY AttemptsRow
  <2> QED BY <1>1, <2>1
<1> QED BY <1>2, AttemptsOutside

\* A delivery is queued with no attempt made.
LEMMA AttemptsQueued ==
  ASSUME MailInv, MailInv', AttemptsInv,
         (\E t \in Tokens : QueueVerification(t)) \/ (\E n \in Events : SaveDelivery(n))
  PROVE  AttemptsInv'
<1>1. \A m : Queued(m).attempts = 0
  BY DEF Queued
<1>2. MaxAttempts \in Nat \ {0} /\ failures \in Nat
  BY NotificationsAssumption DEF MailInv
<1>3. ASSUME NEW t \in Tokens, QueueVerification(t) PROVE AttemptsInv'
  <2>1. PICK row : row = Queued(token[t].email)
    OBVIOUS
  <2>2. t \in Deliveries /\ round' = round /\ failures' = failures /\ rows' = [rows EXCEPT ![t] = row]
    BY <1>3, <2>1 DEF QueueVerification, Deliveries
  <2>3. row.attempts < MaxAttempts /\ failures <= failures'
    BY <1>1, <1>2, <2>1, <2>2
  <2> QED BY <2>2, <2>3, AttemptsWritten
<1>4. ASSUME NEW n \in Events, SaveDelivery(n) PROVE AttemptsInv'
  <2>1. PICK row : row = Queued(enqueue[n].to)
    OBVIOUS
  <2>2. n \in Deliveries /\ round' = round /\ failures' = failures /\ failures <= failures'
    BY <1>2, <1>4 DEF SaveDelivery, Deliveries
  <2>3. CASE rows[n] = NoRow
    <3>1. rows' = [rows EXCEPT ![n] = row]
      BY <1>4, <2>1, <2>3 DEF SaveDelivery
    <3>2. row.attempts < MaxAttempts
      BY <1>1, <1>2, <2>1
    <3> QED BY <2>2, <3>1, <3>2, AttemptsWritten
  <2>4. CASE rows[n] # NoRow
    <3>1. rows' = rows
      BY <1>4, <2>4 DEF SaveDelivery
    <3> QED BY <2>2, <3>1, AttemptsUnwritten
  <2> QED BY <2>3, <2>4
<1> QED BY <1>3, <1>4

\* An operator's update counts at most one attempt, and itself as a failure.
LEMMA AttemptsOperator ==
  ASSUME MailInv, MailInv', AttemptsInv, NEW d \in Deliveries, NEW status, OperatorUpdates(d, status)
  PROVE  AttemptsInv'
<1>1. PICK was : was = rows[d]
  OBVIOUS
<1>2. /\ was = [status |-> was.status, to |-> was.to, attempts |-> was.attempts, due |-> was.due]
      /\ was.attempts \in Nat
  BY <1>1 DEF OperatorUpdates, MailInv, RowsOK, RowOK
<1>3. PICK row : row = [Updated(was, status) EXCEPT !.due = was.due]
  OBVIOUS
<1>4. PICK k : k = IF status = "failed" THEN was.attempts + 1 ELSE was.attempts
  OBVIOUS
<1>5. row = [status |-> status, to |-> was.to, attempts |-> k, due |-> was.due]
  BY <1>2, <1>3, <1>4 DEF Updated
<1>6. row.attempts = k
  BY <1>5
<1>7. row.attempts \in Nat /\ row.attempts <= was.attempts + 1
  BY <1>2, <1>4, <1>6
<1>8. rows' = [rows EXCEPT ![d] = row] /\ round' = round /\ failures' = failures + 1 /\ failures \in Nat
  BY <1>1, <1>3, NotificationsAssumption DEF OperatorUpdates, MailInv, RowsOK
<1>9. row.attempts + failures <= rows[d].attempts + failures' /\ failures <= failures'
  BY <1>1, <1>2, <1>7, <1>8
<1> QED BY <1>8, <1>9, AttemptsWritten

\* Becoming due and unsubscribing leave the attempts alone.
LEMMA AttemptsKept ==
  ASSUME MailInv, MailInv', AttemptsInv,
         (\E d \in Deliveries : BecomesDue(d)) \/ (\E n \in Events : Unsubscribe(n))
  PROVE  AttemptsInv'
<1>1. PICK d \in Deliveries : BecomesDue(d) \/ (d \in Events /\ Unsubscribe(d))
  BY DEF Deliveries
<1>2. PICK was : was = rows[d]
  OBVIOUS
<1>3. /\ was = [status |-> was.status, to |-> was.to, attempts |-> was.attempts, due |-> was.due]
      /\ was.attempts \in Nat
  <2>1. RowOK(d, rows[d])
    BY DEF MailInv, RowsOK
  <2> QED BY <1>2, <2>1 DEF RowOK, NoRow
<1>4. PICK row : row \in {[was EXCEPT !.due = TRUE], [was EXCEPT !.status = "unsubscribed"]} /\ rows' = [rows EXCEPT ![d] = row]
  <2>1. CASE BecomesDue(d)
    BY <1>2, <2>1 DEF BecomesDue, MailInv, RowsOK
  <2>2. CASE d \in Events /\ Unsubscribe(d)
    BY <1>2, <2>2 DEF Unsubscribe, MailInv, RowsOK
  <2> QED BY <1>1, <2>1, <2>2
<1>5. row.attempts = was.attempts
  BY <1>3, <1>4
<1>6. round' = round /\ failures' = failures /\ failures \in Nat
  BY <1>1, NotificationsAssumption DEF BecomesDue, Unsubscribe, MailInv
<1>7. row.attempts + failures <= rows[d].attempts + failures' /\ failures <= failures'
  BY <1>2, <1>3, <1>5, <1>6
<1> QED BY <1>4, <1>6, <1>7, AttemptsWritten

LEMMA AttemptsSent ==
  ASSUME MailInv, MailInv', AttemptsInv, mailConfig.provider, NEW r \in Rounds,
         RoundStep(r) \/ RoundFails(r)
  PROVE  AttemptsInv'
BY AttemptsRounds, AttemptsTake, AttemptsChecks, AttemptsUpdate, AttemptsEnd DEF RoundStep

LEMMA AttemptsNextOK ==
  ASSUME MailInv, AttemptsInv, mailConfig.provider, [MailNext]_mailVars
  PROVE  AttemptsInv'
<1>1. MailInv'
  BY MailNextOK
<1>2. failures \in Nat
  BY NotificationsAssumption DEF MailInv
<1>3. CASE Profile
  <2>1. CASE \E t \in Tokens : QueueVerification(t)
    BY <1>1, <2>1, AttemptsQueued
  <2>2. CASE ~\E t \in Tokens : QueueVerification(t)
    <3>1. UNCHANGED <<rows, round>> /\ failures <= failures'
      BY <1>2, <1>3, <2>2 DEF Profile, UpdateUserProfile, RequestVerification, SaveToken, RequestFails,
                              VerifyEmail, ExpireToken
    <3> QED BY <1>1, <3>1, AttemptsUnwritten
  <2> QED BY <2>1, <2>2
<1>4. CASE Preferences
  <2>1. CASE \E n \in Events : Unsubscribe(n)
    BY <1>1, <2>1, AttemptsKept
  <2>2. CASE ~\E n \in Events : Unsubscribe(n)
    <3>1. UNCHANGED <<rows, round>> /\ failures <= failures'
      BY <1>2, <1>4, <2>2 DEF Preferences, BeginPreferences, SavePreferences
    <3> QED BY <1>1, <3>1, AttemptsUnwritten
  <2> QED BY <2>1, <2>2
<1>5. CASE Queue
  <2>1. CASE \E n \in Events : SaveDelivery(n)
    BY <1>1, <2>1, AttemptsQueued
  <2>2. CASE ~\E n \in Events : SaveDelivery(n)
    <3>1. UNCHANGED <<rows, round>> /\ failures <= failures'
      BY <1>2, <1>5, <2>2 DEF Queue, FindUser, FindTarget, EnqueueFails, PassDeadline
    <3> QED BY <1>1, <3>1, AttemptsUnwritten
  <2> QED BY <2>1, <2>2
<1>6. CASE \E r \in Rounds : RoundStep(r) \/ RoundFails(r)
  BY <1>1, <1>6, AttemptsSent
<1>7. CASE \E d \in Deliveries :
             BecomesDue(d) \/ \E status \in {"sent", "failed", "cancelled"} : OperatorUpdates(d, status)
  BY <1>1, <1>7, AttemptsKept, AttemptsOperator
<1>8. CASE UNCHANGED mailVars
  <2>1. UNCHANGED <<rows, round>> /\ failures <= failures'
    BY <1>2, <1>8 DEF mailVars
  <2> QED BY <1>1, <2>1, AttemptsUnwritten
<1> QED BY <1>3, <1>4, <1>5, <1>6, <1>7, <1>8 DEF MailNext

LEMMA AttemptsInitOK == MailInit => AttemptsInv
<1> SUFFICES ASSUME MailInit PROVE AttemptsInv
  OBVIOUS
<1>1. \A r \in Rounds : round[r] = Idle
  BY DEF MailInit
<1>2. Held(Idle) = {} /\ CopiesOK(Idle)
  BY DEF Held, CopiesOK, Idle
<1>3. \A r \in Rounds : CopiesOK(round[r])
  BY <1>1, <1>2
<1>4. ASSUME NEW d \in Deliveries
      PROVE  rows[d].attempts + Cardinality(Copies(d)) <= AttemptsBound + failures
  <2>1. Copies(d) = {}
    BY <1>1, <1>2 DEF Copies, Live
  <2>2. Cardinality(Copies(d)) = 0
    BY <2>1, FS_EmptySet
  <2>3. rows[d].attempts = 0 /\ failures = 0
    BY DEF MailInit, NoRow
  <2>4. PICK n, k : n = Cardinality(Rounds) /\ k = Cardinality(Copies(d))
    OBVIOUS
  <2>5. n \in Nat /\ MaxAttempts \in Nat \ {0}
    BY <2>4, FS_CardinalityType, NotificationsAssumption
  <2>6. rows[d].attempts + k <= MaxAttempts - 1 + 2 * n + failures
    BY <2>2, <2>3, <2>4, <2>5
  <2> QED BY <2>4, <2>6 DEF AttemptsBound
<1> QED BY <1>3, <1>4 DEF AttemptsInv

LEMMA MailConfigKept ==
  ASSUME [MailNext]_mailVars
  PROVE  mailConfig' = mailConfig
<1>1. CASE Profile
  BY <1>1 DEF Profile, UpdateUserProfile, RequestVerification, SaveToken, QueueVerification, RequestFails,
     VerifyEmail, ExpireToken
<1>2. CASE Preferences
  BY <1>2 DEF Preferences, BeginPreferences, SavePreferences, Unsubscribe
<1>3. CASE Queue
  BY <1>3 DEF Queue, FindUser, FindTarget, SaveDelivery, EnqueueFails, PassDeadline
<1>4. CASE \E r \in Rounds : RoundStep(r) \/ RoundFails(r)
  BY <1>4 DEF RoundStep, RoundFails, StartRound, ListFailed, Take, CheckUser, CheckPreferences, Send,
     UpdateDelivery, EndRound
<1>5. CASE \E d \in Deliveries :
             BecomesDue(d) \/ \E status \in {"sent", "failed", "cancelled"} : OperatorUpdates(d, status)
  BY <1>5 DEF BecomesDue, OperatorUpdates
<1> QED BY <1>1, <1>2, <1>3, <1>4, <1>5 DEF MailNext, mailVars

\* The property: every variable keeps its shape, and however many rounds overlap, work on
\* stale copies or die, no delivery is retried without end by a worker with a provider.
THEOREM MailTypeOKHolds == MailSpec => []MailTypeOK
<1> DEFINE Bounded == mailConfig.provider => AttemptsInv
<1>1. MailInv /\ Bounded => MailTypeOK
  <2> SUFFICES ASSUME MailInv, Bounded PROVE MailTypeOK
    OBVIOUS
  <2>1. /\ profile.email \in Addresses \cup {NoAddress} /\ profile.verified \in BOOLEAN /\ pref \subseteq Types
    BY DEF MailInv, ProfileOK, PreferencesOK
  <2>2. \A t \in Tokens : /\ token[t].status \in {"absent", "open", "used", "expired"}
                          /\ token[t].status # "absent" => token[t].email \in Addresses
                          /\ request[t] \in {"none", "profile", "token", "done"}
    BY DEF MailInv, TokensOK, TokenOK
  <2>3. ASSUME NEW d \in Deliveries
        PROVE  /\ rows[d].status \in Statuses /\ rows[d].due \in BOOLEAN
               /\ rows[d] # NoRow => rows[d].to \in Addresses
               /\ rows[d].attempts \in Nat
               /\ mailConfig.provider =>
                    rows[d].attempts <= MaxAttempts - 1 + 2 * Cardinality(Rounds) + mailConfig.faults
    <3>1. RowOK(d, rows[d])
      BY DEF MailInv, RowsOK
    <3>2. rows[d].status \in Statuses /\ rows[d].due \in BOOLEAN /\ (rows[d] # NoRow => rows[d].to \in Addresses)
      <4>1. NoRow.status \in Statuses /\ NoRow.due \in BOOLEAN
        BY DEF NoRow, Statuses
      <4>2. CASE rows[d] = NoRow
        BY <4>1, <4>2
      <4>3. CASE rows[d] # NoRow
        BY <3>1, <4>3 DEF RowOK
      <4> QED BY <4>2, <4>3
    <3>3. rows[d].attempts \in Nat /\ MaxAttempts \in Nat /\ mailConfig.faults \in Nat
          /\ failures \in 0..mailConfig.faults
      BY AttemptsRow, NotificationsAssumption DEF MailInv
    <3>4. ASSUME mailConfig.provider
          PROVE  rows[d].attempts <= MaxAttempts - 1 + 2 * Cardinality(Rounds) + mailConfig.faults
      <4>1. AttemptsInv
        BY <3>4
      <4>2. PICK n, k, A : n = Cardinality(Rounds) /\ k = Cardinality(A) /\ A = Copies(d)
        OBVIOUS
      <4>3. k \in Nat /\ n \in Nat
        <5>1. PICK rnd : rnd = round
          OBVIOUS
        <5>2. (\A x \in A : \E r \in Rounds : x \in Live(r, rnd[r], d)) /\ \A r \in Rounds : CopiesOK(rnd[r])
          BY <4>1, <4>2, <5>1 DEF Copies, AttemptsInv
        <5> QED BY <4>2, <5>2, CopiesCount
      <4>4. rows[d].attempts + k <= MaxAttempts - 1 + 2 * n + failures
        BY <4>1, <4>2 DEF AttemptsInv, AttemptsBound
      <4>5. rows[d].attempts <= MaxAttempts - 1 + 2 * n + mailConfig.faults
        BY <3>3, <4>3, <4>4
      <4> QED BY <4>2, <4>5
    <3> QED BY <3>2, <3>3, <3>4
  <2>4. \A r \in Rounds : round[r].pc \in {"idle", "failed", "next", "user", "preferences", "send", "write"}
    <3> SUFFICES ASSUME NEW r \in Rounds
                 PROVE  round[r].pc \in {"idle", "failed", "next", "user", "preferences", "send", "write"}
      OBVIOUS
    <3>1. RoundOK(round[r])
      BY DEF MailInv, RoundsOK
    <3> QED BY <3>1 DEF RoundOK, Listing, AtItem, Writing, Idle
  <2> QED BY <2>1, <2>2, <2>3, <2>4 DEF MailTypeOK, MailInv
<1>2. MailInit => MailInv /\ Bounded
  BY MailInitOK, AttemptsInitOK
<1>3. MailInv /\ Bounded /\ [MailNext]_mailVars => MailInv' /\ Bounded'
  BY MailNextOK, AttemptsNextOK, MailConfigKept
<1> QED BY <1>1, <1>2, <1>3, PTL DEF MailSpec
=============================================================================
