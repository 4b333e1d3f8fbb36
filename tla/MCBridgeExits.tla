---------------------------- MODULE MCBridgeExits ----------------------------
(***************************************************************************)
(* BridgeExits alone with two exits, one poller and the applier.           *)
(***************************************************************************)
EXTENDS BridgeExits, TLC

CONSTANTS e1, e2, p1, p2

Ask(amount, to) == [amount |-> amount, to |-> to]
OwnTerms == (e1 :> Ask(2, "alice")) @@ (e2 :> Ask(2, "bob"))

MCOneConfig == {[exits |-> Exits, terms |-> OwnTerms, loops |-> {p1, Applier}, claims |-> 1]}
=============================================================================
