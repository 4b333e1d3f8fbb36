---------------------------- MODULE MCSideEffects ----------------------------
(***************************************************************************)
(* The ledger under alerts at the rate limit, alerts that are replayed,    *)
(* overlapping submissions of transactions, and requests that meet on a    *)
(* key with each other or with rows an operator stored by hand.            *)
(***************************************************************************)
EXTENDS SideEffects

CONSTANTS t1, x1, x2, k1, k2, k3, u1, u2, s1, s2, c1, c2

Posting(status, kind, key, type, body, caller) ==
  [kind |-> kind, trade |-> t1, key |-> key, type |-> type, body |-> body, status |-> status,
   caller |-> caller]

Ask(kind, key, type, body, caller) == Posting(NoStatus, kind, key, type, body, caller)
Alert(key, severity, caller) == Ask("alert", key, "support_alert", severity, caller)
Replay(key, alert) == Ask("replay", key, "support_alert_delivery", alert, "operator")
Submit(key, type, tx) == Ask("submit", key, type, tx, u1)
Record(key, type, body) == Ask("record", key, type, body, "operator")
Post(key, type, body, status) == Posting(status, "post", key, type, body, "operator")

Scenario(requests, state, written, txs, sinks, bound) ==
  [requests |-> requests, trade |-> [t \in {t1} |-> state], written |-> written, txs |-> txs,
   sinks |-> sinks, faults |-> bound]

MCScenarios ==
  {Scenario({Alert(k1, "critical", u1), Alert(k2, "critical", u1), Alert(k2, "critical", u2),
             Alert(k3, "info", "support_write"), Alert(k3, "info", "support_read")},
            "released", {}, {x1}, {s1, s2}, 0),
   Scenario({Alert(k1, "info", u1), Replay(k2, k1), Replay(k3, k1)},
            "released", {}, {x1}, {s1, s2}, 1),
   Scenario({Alert(k1, "info", u1)}, "released", {}, {x1}, {s1, s2}, 2),
   Scenario({Alert(k1, "info", u1), Replay(k2, k1), Post(k1, "support_alert", "info", "prepared"),
             Post(k2, "support_alert_delivery", k1, "confirmed")},
            "released", {}, {x1}, {s1}, 1),
   Scenario({Alert(k1, "info", u1), Replay(k2, k1)}, "released", {}, {x1}, {}, 1),
   Scenario({Submit(k1, "pearl_release", x1), Submit(k1, "pearl_release", x2),
             Submit(k2, "pearl_release", x1), Post(k2, "pearl_release", x2, "submitted")},
            "release_pending", {"released"}, {x1, x2}, {}, 1),
   Scenario({Submit(k1, "pearl_refund", x1), Record(k1, "manual_review_note", "note"),
             Record(k2, "live_proof_evidence", "refunded"), Record(k2, "usdc_create_trade", "terms"),
             Alert(k2, "info", u1), Replay(k3, k2)},
            "refund_pending", {"refund_pending", "refunded"}, {x1}, {s1, s2}, 0)}
=============================================================================
