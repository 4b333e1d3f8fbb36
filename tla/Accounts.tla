------------------------------- MODULE Accounts -------------------------------
(***************************************************************************)
(* Users, their wallets and their points: wallet challenges, registration, *)
(* linking of wallets, and the points ledger (services/otc-api/src:        *)
(* trade-service.ts and repository.ts).                                    *)
(*                                                                         *)
(* Calls of the API overlap; each database statement is a step.  A         *)
(* transaction that reads and then inserts is two steps: the unique index  *)
(* on wallets makes inserts of one wallet wait for each other, so the      *)
(* second sees what the first committed.                                   *)
(***************************************************************************)
EXTENDS Naturals, Sequences

CONSTANTS
  Users,       \* users there are from the start
  Calls,       \* calls of the API; one that registers a user gives it the call as its id
  Challenges,  \* wallet challenges the API may hand out
  Wallets,
  WalletOf,    \* the wallet a challenge was asked for
  Configs,     \* [owner, referrer, call, parties]: the wallets and referrers of Users, the
               \* requests, and the wallets of the buyer and the seller of the trade
  MaxFaults    \* bound on calls that end half-way

None == "none"
Accounts == Users \cup Calls

\* A signature: whose key made it, and the challenge whose message it covers.
Signatures == Wallets \X Challenges

RequestOK(r) ==
  /\ r.op \in {"register", "link", "order", "release"}
  /\ IF r.op = "release" THEN r.challenge = None ELSE r.challenge \in Challenges
  /\ IF r.op = "link" THEN r.other \in Challenges ELSE r.other = None
  /\ r.signature \in Signatures /\ r.otherSignature \in Signatures
  /\ r.ref \in Accounts \cup {None}

ASSUME AccountsAssumption ==
  /\ None \notin Accounts \cup Challenges /\ Users \cap Calls = {}
  /\ WalletOf \in [Challenges -> Wallets]
  /\ \A c \in Configs :
       /\ c.owner \in [Wallets -> Users \cup {None}]
       /\ \A u \in Users : \E w \in Wallets : c.owner[w] = u
       /\ c.referrer \in [Accounts -> Users \cup {None}]
       /\ c.parties \in [{"buyer", "seller"} -> Wallets]
       /\ \A k \in Calls : RequestOK(c.call[k])
  /\ MaxFaults \in Nat

VARIABLES
  config,
  issued,     \* rows of otc_user_wallet_challenges
  consumed,   \* those with a consumed_at
  expired,
  users,      \* otc_users, with their profile and referral code
  owner,      \* otc_user_wallets
  referrer,   \* otc_referral_attributions
  orders,     \* orders, by the call that created them
  released,   \* the state of the trade is "released"
  ledger,     \* otc_points_ledger
  call,       \* calls in progress
  faults

vars == <<config, issued, consumed, expired, users, owner, referrer, orders, released, ledger, call, faults>>

Request(k) == config.call[k]
Proved(k) == WalletOf[Request(k).challenge]
Linked(k) == WalletOf[Request(k).other]
\* The wallet a call registers or links.
Wallet(k) == IF Request(k).op = "link" THEN Linked(k) ELSE Proved(k)

At(k, pc, u, points) == [call EXCEPT ![k] = [pc |-> pc, user |-> u, points |-> points]]
Step(k, pc) == At(k, pc, call[k].user, call[k].points)
Fail(k) == Step(k, "failed")

-----------------------------------------------------------------------------
(* Wallet challenges *)

\* createWalletChallenge; the id holds a nonce, so each message is signed for one challenge.
IssueChallenge(c) ==
  /\ c \notin issued
  /\ issued' = issued \cup {c}
  /\ UNCHANGED <<config, consumed, expired, users, owner, referrer, orders, released, ledger, call, faults>>

\* assertUsableWalletChallenge
Usable(c) == c \in issued \ (consumed \cup expired)

\* verifyWalletChallenge
Verifies(c, signature) == signature = <<WalletOf[c], c>>

Shown(r) == Usable(r.challenge) /\ Verifies(r.challenge, r.signature)
OtherShown(r) == Usable(r.other) /\ Verifies(r.other, r.otherSignature)

StartRegister(k) ==
  /\ Request(k).op = "register" /\ call[k].pc = "idle"
  /\ call' = IF Shown(Request(k)) THEN Step(k, "find") ELSE Fail(k)
  /\ UNCHANGED <<config, issued, consumed, expired, users, owner, referrer, orders, released, ledger, faults>>

\* verifyUserWalletChallenge
StartUser(k) ==
  LET u == Request(k).user
  IN  /\ Request(k).op \in {"link", "order"} /\ call[k].pc = "idle"
      /\ call' = IF u \notin users \/ ~Shown(Request(k)) \/ owner[Proved(k)] # u
                 THEN Fail(k)
                 ELSE At(k, IF Request(k).op = "link" THEN "other" ELSE "consume", u, <<>>)
      /\ UNCHANGED <<config, issued, consumed, expired, users, owner, referrer, orders, released, ledger, faults>>

CheckOther(k) ==
  /\ call[k].pc = "other"
  /\ call' = IF OtherShown(Request(k)) THEN Step(k, "find") ELSE Fail(k)
  /\ UNCHANGED <<config, issued, consumed, expired, users, owner, referrer, orders, released, ledger, faults>>

FindWallet(k) ==
  LET found == owner[Wallet(k)]
  IN  /\ call[k].pc = "find"
      /\ call' =
           IF Request(k).op = "link"
           THEN IF found \in {None, call[k].user} THEN Step(k, "consume") ELSE Fail(k)
           ELSE At(k, IF found = None /\ Request(k).ref # None THEN "resolve" ELSE "consume", found, <<>>)
      /\ UNCHANGED <<config, issued, consumed, expired, users, owner, referrer, orders, released, ledger, faults>>

\* resolveReferralAttribution
Resolve(k) ==
  /\ call[k].pc = "resolve"
  /\ call' = IF Request(k).ref \in users THEN Step(k, "consume") ELSE Fail(k)
  /\ UNCHANGED <<config, issued, consumed, expired, users, owner, referrer, orders, released, ledger, faults>>

\* The UPDATE looks at consumed_at only, and its row count decides.
Consumable(c) == c \notin consumed

\* A registration of a known wallet is answered with its user.
AfterConsume(k) ==
  IF Request(k).op = "link" THEN "consume_other"
  ELSE IF Request(k).op = "register" /\ call[k].user # None THEN "done" ELSE "save"

Consume(k) ==
  /\ call[k].pc = "consume"
  /\ IF Consumable(Request(k).challenge)
     THEN /\ consumed' = consumed \cup {Request(k).challenge}
          /\ call' = Step(k, AfterConsume(k))
     ELSE call' = Fail(k) /\ UNCHANGED consumed
  /\ UNCHANGED <<config, issued, expired, users, owner, referrer, orders, released, ledger, faults>>

ConsumeOther(k) ==
  /\ call[k].pc = "consume_other"
  /\ IF Consumable(Request(k).other)
     THEN consumed' = consumed \cup {Request(k).other} /\ call' = Step(k, "save")
     ELSE call' = Fail(k) /\ UNCHANGED consumed
  /\ UNCHANGED <<config, issued, expired, users, owner, referrer, orders, released, ledger, faults>>

Expire(c) ==
  /\ c \in issued \ expired
  /\ expired' = expired \cup {c}
  /\ UNCHANGED <<config, issued, consumed, users, owner, referrer, orders, released, ledger, call, faults>>

-----------------------------------------------------------------------------
(* saveUser, addUserWallet and saveOrder *)

\* awardUserPoints, to a user as it was read: its referrer gets a bonus or not.
Points(u, ref, source, related, item) ==
  [user |-> u, source |-> source, related |-> related, item |-> item, bonus |-> ref]

SignupPoints_RequestedReferrer(k, u, ref) ==
  <<Points(u, Request(k).ref, "signup", None, None)>>
    \o (IF Request(k).ref = None THEN <<>>
        ELSE <<Points(Request(k).ref, None, "referral_signup", u, None)>>)

\* saveUserWithFreshReferralCode awards whoever saveUser returned, and the referrer the
\* request named.
SignupPoints(k, u, ref) ==
  <<Points(u, ref, "signup", None, None)>>
    \o (IF Request(k).ref = None THEN <<>>
        ELSE <<Points(Request(k).ref, None, "referral_signup", u, None)>>)

\* The read that opens the transaction.
FindSaved(k) ==
  LET found == owner[Wallet(k)]
  IN  /\ call[k].pc = "save" /\ Request(k).op \in {"register", "link"}
      /\ IF Request(k).op = "link"
         THEN call' = IF found \in {None, call[k].user} THEN Step(k, "insert") ELSE Fail(k)
         ELSE IF found = None THEN call' = Step(k, "insert")
                              ELSE call' = At(k, "award", found, SignupPoints(k, found, referrer[found]))
      /\ UNCHANGED <<config, issued, consumed, expired, users, owner, referrer, orders, released, ledger, faults>>

\* The wallet's insert did nothing, and the user, who has no wallet, is not found.
RolledBack(k) == owner[Wallet(k)] # None

InsertUser(k) ==
  /\ call[k].pc = "insert" /\ Request(k).op = "register"
  /\ IF RolledBack(k)
     THEN call' = Fail(k) /\ UNCHANGED <<users, owner, referrer>>
     ELSE /\ users' = users \cup {k}
          /\ owner' = [owner EXCEPT ![Wallet(k)] = IF @ = None THEN k ELSE @]
          /\ referrer' = [referrer EXCEPT ![k] = Request(k).ref]
          /\ call' = At(k, "award", k, SignupPoints(k, k, Request(k).ref))
  /\ UNCHANGED <<config, issued, consumed, expired, orders, released, ledger, faults>>

Refused_Never(saved, u) == FALSE

\* "wallet already belongs to another user", looked at once more after the insert.
Refused(saved, u) == saved # u

InsertWallet(k) ==
  LET saved == IF owner[Wallet(k)] = None THEN call[k].user ELSE owner[Wallet(k)]
  IN  /\ call[k].pc = "insert" /\ Request(k).op = "link"
      /\ IF Refused(saved, call[k].user)
         THEN call' = Fail(k) /\ UNCHANGED owner
         ELSE call' = At(k, "done", saved, <<>>) /\ owner' = [owner EXCEPT ![Wallet(k)] = saved]
      /\ UNCHANGED <<config, issued, consumed, expired, users, referrer, orders, released, ledger, faults>>

SaveOrder(k) ==
  LET u == call[k].user
  IN  /\ call[k].pc = "save" /\ Request(k).op = "order"
      /\ orders' = orders \cup {k}
      /\ call' = At(k, "award", u, <<Points(u, referrer[u], "order_created", None, k)>>)
      /\ UNCHANGED <<config, issued, consumed, expired, users, owner, referrer, released, ledger, faults>>

-----------------------------------------------------------------------------
(* transitionTrade to "released" and awardTradeCompletionPoints *)

StartRelease(k) ==
  /\ Request(k).op = "release" /\ call[k].pc = "idle"
  /\ call' = IF released THEN Fail(k) ELSE Step(k, "update")
  /\ UNCHANGED <<config, issued, consumed, expired, users, owner, referrer, orders, released, ledger, faults>>

UpdateTrade(k) ==
  /\ call[k].pc = "update"
  /\ released' = TRUE
  /\ call' = Step(k, "buyer")
  /\ UNCHANGED <<config, issued, consumed, expired, users, owner, referrer, orders, ledger, faults>>

Completed(k, party) ==
  LET u == owner[config.parties[party]]
  IN  IF u = None \/ \E i \in DOMAIN call[k].points : call[k].points[i].user = u
      THEN call[k].points
      ELSE Append(call[k].points, Points(u, referrer[u], "trade_completed", None, "trade"))

FindParty(k) ==
  /\ call[k].pc \in {"buyer", "seller"}
  /\ call' = At(k, IF call[k].pc = "buyer" THEN "seller" ELSE "award", call[k].user,
                Completed(k, call[k].pc))
  /\ UNCHANGED <<config, issued, consumed, expired, users, owner, referrer, orders, released, ledger, faults>>

-----------------------------------------------------------------------------
(* awardUserPoints *)

\* point_event_id identifies an event by all of these.
Event(points) ==
  [user |-> points.user, source |-> points.source, related |-> points.related,
   item |-> points.item, for |-> None]
BonusFor(ref, event) ==
  [user |-> ref, source |-> "referral_activity_bonus", related |-> event.user,
   item |-> event.item, for |-> event.source]

\* Only a new event of a referred user gives its referrer a bonus.
HasBonus(points) == Event(points) \notin ledger /\ points.bonus # None

SavePoints(k) ==
  /\ call[k].pc = "award" /\ call[k].points # <<>>
  /\ LET points == Head(call[k].points)
     IN  /\ ledger' = ledger \cup {Event(points)}
         /\ call' = IF HasBonus(points) THEN Step(k, "bonus")
                    ELSE At(k, "award", call[k].user, Tail(call[k].points))
  /\ UNCHANGED <<config, issued, consumed, expired, users, owner, referrer, orders, released, faults>>

SaveBonus(k) ==
  /\ call[k].pc = "bonus"
  /\ LET points == Head(call[k].points)
     IN  ledger' = ledger \cup {BonusFor(points.bonus, Event(points))}
  /\ call' = At(k, "award", call[k].user, Tail(call[k].points))
  /\ UNCHANGED <<config, issued, consumed, expired, users, owner, referrer, orders, released, faults>>

EndAward(k) ==
  /\ call[k].pc = "award" /\ call[k].points = <<>>
  /\ call' = Step(k, "done")
  /\ UNCHANGED <<config, issued, consumed, expired, users, owner, referrer, orders, released, ledger, faults>>

CallFails(k) ==
  /\ call[k].pc \notin {"idle", "done", "failed"} /\ faults < MaxFaults
  /\ faults' = faults + 1
  /\ call' = Fail(k)
  /\ UNCHANGED <<config, issued, consumed, expired, users, owner, referrer, orders, released, ledger>>

-----------------------------------------------------------------------------
Init ==
  /\ config \in Configs
  /\ issued = {} /\ consumed = {} /\ expired = {} /\ users = Users
  /\ owner = config.owner /\ referrer = config.referrer
  /\ orders = {} /\ released = FALSE /\ ledger = {} /\ faults = 0
  /\ call = [k \in Calls |-> [pc |-> "idle", user |-> None, points |-> <<>>]]

CallStep(k) ==
  \/ StartRegister(k) \/ StartUser(k) \/ CheckOther(k) \/ FindWallet(k) \/ Resolve(k)
  \/ Consume(k) \/ ConsumeOther(k)
  \/ FindSaved(k) \/ InsertUser(k) \/ InsertWallet(k) \/ SaveOrder(k)
  \/ StartRelease(k) \/ UpdateTrade(k) \/ FindParty(k)
  \/ SavePoints(k) \/ SaveBonus(k) \/ EndAward(k)

Next ==
  \/ \E k \in Calls : CallStep(k) \/ CallFails(k)
  \/ \E c \in Challenges : IssueChallenge(c) \/ Expire(c)

Spec == Init /\ [][Next]_vars

-----------------------------------------------------------------------------
(* Properties *)

\* Every variable keeps its shape.  A user's row is joined with its wallets wherever it
\* is read, so a user without a wallet would be lost: none is ever stored.
TypeOK ==
  /\ config \in Configs
  /\ issued \subseteq Challenges /\ consumed \subseteq Challenges /\ expired \subseteq Challenges
  /\ Users \subseteq users /\ users \subseteq Accounts
  /\ \A u \in users : \E w \in Wallets : owner[w] = u
  /\ \A w \in Wallets : owner[w] \in users \cup {None}
  /\ \A u \in Accounts : referrer[u] \in users \cup {None}
  /\ orders \subseteq Calls /\ released \in BOOLEAN
  /\ \A k \in Calls : call[k].user \in users \cup {None}
  /\ faults \in 0..MaxFaults

\* A challenge lets one call through, however many calls that carry it have found it
\* unused, and only with a signature of its own wallet over its own message.  A
\* registration or a link is answered with the user who owns the wallet that was
\* proved, and a link with the user who asked for it, also when the wallet went to
\* another user between the checks and the insert.
Granted(k, c) ==
  \/ /\ c = Request(k).challenge
     /\ call[k].pc \in {"consume_other", "save", "insert", "award", "bonus", "done"}
  \/ /\ c = Request(k).other
     /\ call[k].pc \in {"save", "insert", "done"}
Answered(k) == call[k].pc \in {"award", "bonus", "done"} /\ Request(k).op \in {"register", "link"}
GrantsAreProven ==
  /\ \A c \in Challenges, k, l \in Calls : Granted(k, c) /\ Granted(l, c) => k = l
  /\ \A c \in Challenges, k \in Calls : Granted(k, c) =>
       /\ c \in issued
       /\ \/ c = Request(k).challenge /\ Request(k).signature = <<WalletOf[c], c>>
          \/ c = Request(k).other /\ Request(k).otherSignature = <<WalletOf[c], c>>
  /\ \A k \in Calls : Answered(k) =>
       /\ owner[Wallet(k)] = call[k].user
       /\ Request(k).op = "link" => call[k].user = Request(k).user

\* Every point event has its cause, and once all calls have ended, none of them half-way,
\* no cause lacks its points: overlapping registrations and releases, of which one finds
\* the events of the other, lose no bonus between them.
Earned(e) ==
  CASE e.source = "signup" -> e.user \in users
    [] e.source = "referral_signup" ->
         \E k \in Calls : /\ Request(k).op = "register" /\ Request(k).ref = e.user
                          /\ Request(k).challenge \in consumed /\ owner[Wallet(k)] = e.related
    [] e.source = "order_created" -> e.item \in orders /\ call[e.item].user = e.user
    [] e.source = "trade_completed" ->
         released /\ \E party \in DOMAIN config.parties : owner[config.parties[party]] = e.user
    [] e.source = "referral_activity_bonus" ->
         /\ referrer[e.related] = e.user
         /\ \E base \in ledger : BonusFor(e.user, base) = e

Ended == faults = 0 /\ \A k \in Calls : call[k].pc \in {"idle", "done", "failed"}
Due(e) == e.source # "referral_signup" /\ e.for = None /\ referrer[e.user] # None
PointsAreEarned ==
  /\ \A e \in ledger : Earned(e)
  /\ Ended => /\ \A e \in ledger : Due(e) => BonusFor(referrer[e.user], e) \in ledger
              /\ \A u \in users \ Users : \E e \in ledger : e.user = u /\ e.source = "signup"
              /\ \A k \in orders : \E e \in ledger : e.item = k
=============================================================================
