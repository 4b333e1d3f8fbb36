----------------------------- MODULE BaseEscrow -----------------------------
(***************************************************************************)
(* What the Base leg promises one trade: USDC is locked by the expiry or   *)
(* not at all, and leaves once.  PrlUsdcEscrow implements this for each of *)
(* its trades, and OtcSettlement takes no more of Base than this.          *)
(* Names of the statuses are those the services give them.                 *)
(***************************************************************************)
EXTENDS Naturals

VARIABLES now, expiry, status

Init == now = 0 /\ expiry \in Nat /\ status = "none"

Create ==
  /\ status = "none"
  /\ status' = "created"
  /\ expiry' \in Nat /\ expiry' > now
  /\ UNCHANGED now

Becomes(from, to) == status = from /\ status' = to /\ UNCHANGED <<now, expiry>>

Deposit == now <= expiry /\ Becomes("created", "deposited")
Cancel == now > expiry /\ Becomes("created", "cancelled")

\* The owner may release a deposit, and refund it at any time, the buyer after expiry.
Release == Becomes("deposited", "released")
Refund == Becomes("deposited", "refunded")

Tick == now' = now + 1 /\ UNCHANGED <<expiry, status>>

Next == Create \/ Deposit \/ Cancel \/ Release \/ Refund \/ Tick

Spec == Init /\ [][Next]_<<now, expiry, status>>
=============================================================================
