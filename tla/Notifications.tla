---------------------------- MODULE Notifications ----------------------------
(***************************************************************************)
(* Verified email addresses and the outbox of notifications of one user    *)
(* (services/otc-api/src: trade-service.ts, repository.ts,                 *)
(* notification-dispatcher.ts and notification-worker.ts).                 *)
(*                                                                         *)
(* The API changes the profile and the preferences and queues deliveries;  *)
(* the worker starts a round every interval, whether or not the one before *)
(* has ended.  Each database statement and each call of the mail provider  *)
(* is a step.                                                              *)
(***************************************************************************)
EXTENDS Naturals, FiniteSets

CONSTANTS
  Addresses,     \* mailboxes
  Tokens,        \* requests of an email verification, each with its secret token
  Events,        \* what a user may be notified of
  Types,         \* the notification types a user may switch on and off
  TypeOf,        \* the type of each event
  Deadlines,     \* the events that are deadline warnings
  Rounds,        \* calls of runOnce that may overlap
  MailConfigs,   \* where an account starts [profile, pref] and what happens to it
                 \* [addresses, tokens, events, choices, rounds]; provider says whether the
                 \* worker has a mail provider; faults bounds failures, crashes and updates
                 \* by an operator
  MaxAttempts,
  MaxUnsent      \* bound on the retries without a provider, of which the code has none

NoAddress == "none"

\* A profile is verified only with an address, and preferences are of known types.
ASSUME NotificationsAssumption ==
  /\ Tokens \cap Events = {} /\ Deadlines \subseteq Events
  /\ TypeOf \in [Events -> Types]
  /\ IsFiniteSet(Rounds)
  /\ MaxAttempts \in Nat \ {0} /\ MaxUnsent \in Nat
  /\ \A c \in MailConfigs :
       /\ c.profile \in [email : Addresses \cup {NoAddress}, verified : BOOLEAN]
       /\ c.profile.verified => c.profile.email \in Addresses
       /\ c.addresses \subseteq Addresses /\ c.pref \subseteq Types /\ c.choices \subseteq Types \X BOOLEAN
       /\ c.provider \in BOOLEAN /\ c.faults \in Nat

VARIABLES
  mailConfig,
  profile,   \* [email, verified] of otc_user_profiles
  pref,      \* otc_notification_preferences: the types switched on
  change,    \* updateNotificationPreferences in flight
  token,     \* otc_email_verification_tokens
  request,   \* requestEmailVerification calls
  enqueue,   \* enqueueUserNotifications calls
  rows,      \* otc_notification_deliveries
  round,     \* processPending calls
  passed,    \* deadlines that have passed
  mailbox,   \* deliveries that reached an address
  late,      \* mails of a type sent since the user switched it off
  failures

mailVars == <<mailConfig, profile, pref, change, token, request, enqueue, rows, round, passed,
          mailbox, late, failures>>

Deliveries == Tokens \cup Events
NoRow == [status |-> "absent", to |-> NoAddress, attempts |-> 0, due |-> FALSE]
NoToken == [status |-> "absent", email |-> NoAddress]
Idle == [pc |-> "idle"]

-----------------------------------------------------------------------------
(* The profile and its verification *)

\* A new address is not verified.
WithEmail(m) == [email |-> m, verified |-> profile.verified /\ profile.email = m]

UpdateUserProfile(m) ==
  /\ profile' = WithEmail(m)
  /\ UNCHANGED <<mailConfig, pref, change, token, request, enqueue, rows, round, passed,
                 mailbox, late, failures>>

\* requestEmailVerification writes the profile, the token and the delivery one after
\* the other.
RequestVerification(t, m) ==
  /\ t \in mailConfig.tokens /\ request[t] = "none"
  /\ request' = [request EXCEPT ![t] = "profile"]
  /\ token' = [token EXCEPT ![t] = [@ EXCEPT !.email = m]]
  /\ profile' = WithEmail(m)
  /\ UNCHANGED <<mailConfig, pref, change, enqueue, rows, round, passed, mailbox, late, failures>>

SaveToken(t) ==
  /\ request[t] = "profile"
  /\ request' = [request EXCEPT ![t] = "token"]
  /\ token' = [token EXCEPT ![t] = [@ EXCEPT !.status = "open"]]
  /\ UNCHANGED <<mailConfig, profile, pref, change, enqueue, rows, round, passed, mailbox, late, failures>>

Queued(m) == [status |-> "pending", to |-> m, attempts |-> 0, due |-> TRUE]

QueueVerification(t) ==
  /\ request[t] = "token"
  /\ request' = [request EXCEPT ![t] = "done"]
  /\ rows' = [rows EXCEPT ![t] = Queued(token[t].email)]
  /\ UNCHANGED <<mailConfig, profile, pref, change, token, enqueue, round, passed, mailbox, late, failures>>

RequestFails(t) ==
  /\ request[t] \in {"profile", "token"} /\ failures < mailConfig.faults
  /\ failures' = failures + 1
  /\ request' = [request EXCEPT ![t] = "done"]
  /\ UNCHANGED <<mailConfig, profile, pref, change, token, enqueue, rows, round, passed, mailbox, late>>

Verified_KeepsEmail(t) == [profile EXCEPT !.verified = TRUE]

\* consumeEmailVerificationToken verifies the address of the token, whatever the
\* profile has now.
Verified(t) == [email |-> token[t].email, verified |-> TRUE]

VerifyEmail(t) ==
  /\ \E m \in Addresses : t \in mailbox[m]
  /\ token[t].status = "open"
  /\ token' = [token EXCEPT ![t] = [@ EXCEPT !.status = "used"]]
  /\ profile' = Verified(t)
  /\ UNCHANGED <<mailConfig, pref, change, request, enqueue, rows, round, passed, mailbox, late, failures>>

ExpireToken(t) ==
  /\ token[t].status = "open"
  /\ token' = [token EXCEPT ![t] = [@ EXCEPT !.status = "expired"]]
  /\ UNCHANGED <<mailConfig, profile, pref, change, request, enqueue, rows, round, passed,
                 mailbox, late, failures>>

-----------------------------------------------------------------------------
(* Preferences *)

\* updateNotificationPreferences reads the user, validates, and saves.
BeginPreferences(type, enabled) ==
  /\ change = Idle
  /\ enabled => profile.verified
  /\ change' = [pc |-> "save", type |-> type, enabled |-> enabled]
  /\ UNCHANGED <<mailConfig, profile, pref, token, request, enqueue, rows, round, passed,
                 mailbox, late, failures>>

SavePreferences ==
  /\ change.pc = "save"
  /\ pref' = IF change.enabled THEN pref \cup {change.type} ELSE pref \ {change.type}
  /\ late' = IF change.enabled THEN [late EXCEPT ![change.type] = 0] ELSE late
  /\ change' = Idle
  /\ UNCHANGED <<mailConfig, profile, token, request, enqueue, rows, round, passed, mailbox, failures>>

\* The secret token of a delivery is in its mail.
Unsubscribe(n) ==
  /\ \E m \in Addresses : n \in mailbox[m]
  /\ rows' = [rows EXCEPT ![n] = [@ EXCEPT !.status = "unsubscribed"]]
  /\ pref' = pref \ {TypeOf[n]}
  /\ UNCHANGED <<mailConfig, profile, change, token, request, enqueue, round, passed, mailbox,
                 late, failures>>

-----------------------------------------------------------------------------
(* Queueing a notification *)

\* getUserNotificationTarget reads the user, then the preferences.
FindUser(n) ==
  /\ n \in mailConfig.events /\ enqueue[n] = Idle /\ n \notin passed
  /\ enqueue' = [enqueue EXCEPT ![n] =
       [pc |-> "preferences", to |-> IF profile.verified THEN profile.email ELSE NoAddress]]
  /\ UNCHANGED <<mailConfig, profile, pref, change, token, request, rows, round, passed,
                 mailbox, late, failures>>

FindTarget(n) ==
  /\ enqueue[n].pc = "preferences"
  /\ enqueue' = [enqueue EXCEPT ![n] =
       IF TypeOf[n] \in pref /\ @.to # NoAddress THEN [pc |-> "save", to |-> @.to] ELSE Idle]
  /\ UNCHANGED <<mailConfig, profile, pref, change, token, request, rows, round, passed,
                 mailbox, late, failures>>

\* The idempotency key of an event keeps its first delivery.
SaveDelivery(n) ==
  /\ enqueue[n].pc = "save"
  /\ rows' = IF rows[n] = NoRow THEN [rows EXCEPT ![n] = Queued(enqueue[n].to)] ELSE rows
  /\ enqueue' = [enqueue EXCEPT ![n] = Idle]
  /\ UNCHANGED <<mailConfig, profile, pref, change, token, request, round, passed, mailbox,
                 late, failures>>

\* tryEnqueueNotifications swallows the error.
EnqueueFails(n) ==
  /\ enqueue[n] # Idle /\ failures < mailConfig.faults
  /\ failures' = failures + 1
  /\ enqueue' = [enqueue EXCEPT ![n] = Idle]
  /\ UNCHANGED <<mailConfig, profile, pref, change, token, request, rows, round, passed, mailbox, late>>

PassDeadline(n) ==
  /\ n \in (Deadlines \cap mailConfig.events) \ passed
  /\ passed' = passed \cup {n}
  /\ UNCHANGED <<mailConfig, profile, pref, change, token, request, enqueue, rows, round,
                 mailbox, late, failures>>

-----------------------------------------------------------------------------
(* NotificationDeliveryProcessor.processPending *)

Listed(status) == {[id |-> d, row |-> rows[d]] : d \in {x \in Deliveries : rows[x].status = status}}

StartRound(r) ==
  /\ r \in mailConfig.rounds /\ round[r] = Idle
  /\ round' = [round EXCEPT ![r] = [pc |-> "failed", now |-> passed, list |-> Listed("pending")]]
  /\ UNCHANGED <<mailConfig, profile, pref, change, token, request, enqueue, rows, passed,
                 mailbox, late, failures>>

\* A delivery that fails between the two queries is in the list twice.
ListFailed(r) ==
  /\ round[r].pc = "failed"
  /\ round' = [round EXCEPT ![r] =
       [pc |-> "next", now |-> @.now,
        list |-> {item \in @.list \cup Listed("failed") : item.row.due}]]
  /\ UNCHANGED <<mailConfig, profile, pref, change, token, request, enqueue, rows, passed,
                 mailbox, late, failures>>

Checking(r, item, pc) == [pc |-> pc, now |-> round[r].now, list |-> round[r].list, item |-> item]
Write(r, status) ==
  [pc |-> "write", now |-> round[r].now, list |-> round[r].list, item |-> round[r].item,
   status |-> status]

Take(r) ==
  /\ round[r].pc = "next"
  /\ \E item \in round[r].list :
       round' = [round EXCEPT ![r] = [Checking(r, item, "user") EXCEPT !.list = @ \ {item}]]
  /\ UNCHANGED <<mailConfig, profile, pref, change, token, request, enqueue, rows, passed,
                 mailbox, late, failures>>

Exhausted_Never(item) == FALSE
Exhausted(item) == item.row.attempts >= MaxAttempts

\* Without a provider a delivery fails and is retried, whatever its attempts.
SendUnless(r, item) ==
  IF ~mailConfig.provider THEN Write(r, "failed")
  ELSE IF Exhausted(item) THEN Write(r, "cancelled")
  ELSE Checking(r, item, "send")

\* deliveryStillAllowed: the recipient is the user's address, verified unless the mail
\* is to verify it.
CheckUser(r) ==
  LET item == round[r].item
  IN  /\ round[r].pc = "user"
      /\ round' = [round EXCEPT ![r] =
           IF profile.email # item.row.to \/ (item.id \in Events /\ ~profile.verified)
           THEN Write(r, "cancelled")
           ELSE IF item.id \in Tokens THEN SendUnless(r, item) ELSE Checking(r, item, "preferences")]
      /\ UNCHANGED <<mailConfig, profile, pref, change, token, request, enqueue, rows, passed,
                     mailbox, late, failures>>

Wanted_AtEnqueueOnly(n) == TRUE
Wanted(n) == TypeOf[n] \in pref

CheckPreferences(r) ==
  LET item == round[r].item
  IN  /\ round[r].pc = "preferences"
      /\ round' = [round EXCEPT ![r] =
           IF Wanted(item.id) /\ item.id \notin round[r].now
           THEN SendUnless(r, item) ELSE Write(r, "cancelled")]
      /\ UNCHANGED <<mailConfig, profile, pref, change, token, request, enqueue, rows, passed,
                     mailbox, late, failures>>

Delivered(d, m) ==
  /\ mailbox' = [mailbox EXCEPT ![m] = @ \cup {d}]
  /\ late' = IF d \in Events /\ TypeOf[d] \notin pref
             THEN [late EXCEPT ![TypeOf[d]] = @ + 1] ELSE late

\* The provider may accept a mail, or fail before or after it has sent it.
Send(r) ==
  LET item == round[r].item
  IN  /\ round[r].pc = "send"
      /\ \/ /\ Delivered(item.id, item.row.to)
            /\ \E status \in {"sent", "failed"} : round' = [round EXCEPT ![r] = Write(r, status)]
         \/ /\ round' = [round EXCEPT ![r] = Write(r, "failed")]
            /\ UNCHANGED <<mailbox, late>>
      /\ UNCHANGED <<mailConfig, profile, pref, change, token, request, enqueue, rows, passed, failures>>

Updated_NotCounted(row, status) ==
  [row EXCEPT !.status = status, !.due = status # "failed" /\ row.due]

\* updateNotificationDelivery counts failures and sets the time of the next attempt.
Updated(row, status) ==
  [row EXCEPT !.status = status,
              !.attempts = IF status = "failed" THEN @ + 1 ELSE @,
              !.due = status # "failed" /\ row.due]

UpdateDelivery(r) ==
  LET d == round[r].item.id
  IN  /\ round[r].pc = "write"
      /\ rows' = [rows EXCEPT ![d] = Updated(@, round[r].status)]
      /\ round' = [round EXCEPT ![r] = [pc |-> "next", now |-> @.now, list |-> @.list]]
      /\ UNCHANGED <<mailConfig, profile, pref, change, token, request, enqueue, passed,
                     mailbox, late, failures>>

EndRound(r) ==
  /\ round[r].pc = "next" /\ round[r].list = {}
  /\ round' = [round EXCEPT ![r] = Idle]
  /\ UNCHANGED <<mailConfig, profile, pref, change, token, request, enqueue, rows, passed,
                 mailbox, late, failures>>

RoundFails(r) ==
  /\ round[r] # Idle /\ failures < mailConfig.faults
  /\ failures' = failures + 1
  /\ round' = [round EXCEPT ![r] = Idle]
  /\ UNCHANGED <<mailConfig, profile, pref, change, token, request, enqueue, rows, passed, mailbox, late>>

BecomesDue(d) ==
  /\ rows[d].status = "failed" /\ ~rows[d].due
  /\ mailConfig.provider \/ rows[d].attempts < MaxUnsent
  /\ rows' = [rows EXCEPT ![d] = [@ EXCEPT !.due = TRUE]]
  /\ UNCHANGED <<mailConfig, profile, pref, change, token, request, enqueue, round, passed,
                 mailbox, late, failures>>

\* OtcTradeService.updateNotificationDelivery
OperatorUpdates(d, status) ==
  /\ rows[d] # NoRow /\ failures < mailConfig.faults
  /\ failures' = failures + 1
  /\ rows' = [rows EXCEPT ![d] = [Updated(@, status) EXCEPT !.due = rows[d].due]]
  /\ UNCHANGED <<mailConfig, profile, pref, change, token, request, enqueue, round, passed,
                 mailbox, late>>

-----------------------------------------------------------------------------
MailInit ==
  /\ mailConfig \in MailConfigs
  /\ profile = mailConfig.profile /\ pref = mailConfig.pref /\ change = Idle
  /\ token = [t \in Tokens |-> NoToken] /\ request = [t \in Tokens |-> "none"]
  /\ enqueue = [n \in Events |-> Idle] /\ rows = [d \in Deliveries |-> NoRow]
  /\ round = [r \in Rounds |-> Idle] /\ passed = {}
  /\ mailbox = [m \in Addresses |-> {}] /\ late = [type \in Types |-> 0] /\ failures = 0

Profile ==
  \/ \E m \in mailConfig.addresses : UpdateUserProfile(m)
  \/ \E t \in Tokens :
       \/ \E m \in mailConfig.addresses : RequestVerification(t, m)
       \/ SaveToken(t) \/ QueueVerification(t) \/ RequestFails(t)
       \/ VerifyEmail(t) \/ ExpireToken(t)

Preferences ==
  \/ \E choice \in mailConfig.choices : BeginPreferences(choice[1], choice[2])
  \/ SavePreferences
  \/ \E n \in Events : Unsubscribe(n)

Queue ==
  \E n \in Events : FindUser(n) \/ FindTarget(n) \/ SaveDelivery(n) \/ EnqueueFails(n) \/ PassDeadline(n)

RoundStep(r) ==
  \/ StartRound(r) \/ ListFailed(r) \/ Take(r)
  \/ CheckUser(r) \/ CheckPreferences(r) \/ Send(r) \/ UpdateDelivery(r) \/ EndRound(r)

MailNext ==
  \/ Profile \/ Preferences \/ Queue
  \/ \E r \in Rounds : RoundStep(r) \/ RoundFails(r)
  \/ \E d \in Deliveries :
       BecomesDue(d) \/ \E status \in {"sent", "failed", "cancelled"} : OperatorUpdates(d, status)

\* The interval timer goes on starting rounds, the calls of a round return, and time passes.
Fairness ==
  /\ \A r \in Rounds : WF_mailVars(RoundStep(r))
  /\ \A d \in Deliveries : WF_mailVars(BecomesDue(d))

MailSpec == MailInit /\ [][MailNext]_mailVars /\ Fairness

-----------------------------------------------------------------------------
(* Properties *)

Statuses == {"absent", "pending", "sent", "failed", "cancelled", "unsubscribed"}

\* Every variable keeps its shape, and no interleaving of rounds retries without end where
\* there is a provider: a delivery is attempted at most MaxAttempts times and once more for
\* each stale copy a round may still hold.
MailTypeOK ==
  /\ mailConfig \in MailConfigs
  /\ profile.email \in Addresses \cup {NoAddress} /\ profile.verified \in BOOLEAN
  /\ pref \subseteq Types
  /\ \A t \in Tokens : /\ token[t].status \in {"absent", "open", "used", "expired"}
                       /\ token[t].status # "absent" => token[t].email \in Addresses
                       /\ request[t] \in {"none", "profile", "token", "done"}
  /\ \A d \in Deliveries :
       /\ rows[d].status \in Statuses /\ rows[d].due \in BOOLEAN
       /\ rows[d] # NoRow => rows[d].to \in Addresses
       /\ rows[d].attempts \in Nat
       /\ mailConfig.provider =>
            rows[d].attempts <= MaxAttempts - 1 + 2 * Cardinality(Rounds) + mailConfig.faults
  /\ \A r \in Rounds : round[r].pc \in
       {"idle", "failed", "next", "user", "preferences", "send", "write"}
  /\ passed \subseteq Deadlines /\ failures \in 0..mailConfig.faults

\* Whoever reads a mailbox has asked for what it gets: an address counts as verified,
\* and receives notifications, only after the token that was mailed to that very address
\* came back, whatever requests, changes of address and old tokens are under way.
ProvenAddresses ==
  {m \in Addresses :
     \/ m = mailConfig.profile.email /\ mailConfig.profile.verified
     \/ \E t \in Tokens : token[t].status = "used" /\ token[t].email = m /\ t \in mailbox[m]}
OnlyProvenAddresses ==
  /\ profile.verified => profile.email \in ProvenAddresses
  /\ \A m \in Addresses : mailbox[m] \cap Events # {} => m \in ProvenAddresses

\* After a user has switched a type off, or unsubscribed from it, each round that was
\* running may still send the one mail it has checked, and no round sends another.
LateMailsBounded == \A type \in Types : late[type] <= Cardinality(Rounds)

\* Every queued delivery is at last sent, cancelled or unsubscribed, in spite of rounds
\* that overlap and overwrite each other, fail half-way, or meet a provider that fails each
\* time.  A deployment without a provider retries for ever.
EveryDeliveryEnds ==
  []<>(mailConfig.provider => \A d \in Deliveries : rows[d].status \notin {"pending", "failed"})
=============================================================================
