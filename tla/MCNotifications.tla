--------------------------- MODULE MCNotifications ---------------------------
(***************************************************************************)
(* Notifications of a new account that verifies one of two addresses with  *)
(* two requests, and of a verified one with overlapping rounds, with and   *)
(* without a mail provider.                                                *)
(***************************************************************************)
EXTENDS Notifications, TLC

CONSTANTS m1, m2, t1, t2, n1, n2, r1, r2

Status == "trade_status"
Warning == "deadline_warning"
MCTypeOf == (n1 :> Status) @@ (n2 :> Warning)

Fresh == [email |-> NoAddress, verified |-> FALSE]
Moved == [email |-> m1, verified |-> FALSE]
Settled == [email |-> m1, verified |-> TRUE]

Switch(type) == {type} \X BOOLEAN

MCMailConfigs ==
  {[profile |-> Fresh, pref |-> {}, addresses |-> {m1, m2}, tokens |-> {t1, t2}, events |-> {},
    choices |-> {}, provider |-> TRUE, rounds |-> {r1}, faults |-> 0],
   [profile |-> Moved, pref |-> {Status}, addresses |-> {m1}, tokens |-> {t1}, events |-> {n1},
    choices |-> {}, provider |-> TRUE, rounds |-> {r1}, faults |-> 1],
   [profile |-> Settled, pref |-> {Status}, addresses |-> {m1, m2}, tokens |-> {t1}, events |-> {n1},
    choices |-> {}, provider |-> TRUE, rounds |-> {r1}, faults |-> 0],
   [profile |-> Settled, pref |-> {Status}, addresses |-> {m1}, tokens |-> {}, events |-> {n1},
    choices |-> {<<Status, FALSE>>}, provider |-> TRUE, rounds |-> {r1, r2}, faults |-> 0],
   [profile |-> Settled, pref |-> {Warning}, addresses |-> {m1}, tokens |-> {}, events |-> {n2},
    choices |-> Switch(Warning), provider |-> TRUE, rounds |-> {r1}, faults |-> 1],
   [profile |-> Settled, pref |-> {Status}, addresses |-> {m1}, tokens |-> {}, events |-> {n1},
    choices |-> Switch(Status), provider |-> FALSE, rounds |-> {r1, r2}, faults |-> 0]}
=============================================================================
