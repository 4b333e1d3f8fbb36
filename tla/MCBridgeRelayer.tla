--------------------------- MODULE MCBridgeRelayer ---------------------------
(***************************************************************************)
(* Exits and deposits of the bridge: two exits that ask for the same, or   *)
(* for different amounts and recipients, under two overlapping pollers or  *)
(* one beside the applier; one exit or a deposit attested by correct and   *)
(* faulty relayers and a stranger.  The stranger may speak under the id of *)
(* the faulty relayer about the exit, and of a correct one about the       *)
(* deposit, where the third relayer is correct.                            *)
(***************************************************************************)
EXTENDS BridgeRelayer, TLC

CONSTANTS e1, e2, p1, p2, o1, o2, h1, h2, f1, x1

Ask(amount, to) == [amount |-> amount, to |-> to]
SameTerms == [e \in Exits |-> Ask(2, "alice")]
OwnTerms == (e1 :> Ask(2, "alice")) @@ (e2 :> Ask(2, "bob"))

Overlap == [exits |-> {e1, e2}, terms |-> SameTerms, loops |-> {p1, p2}, claims |-> 0]
Applied == [exits |-> {e1, e2}, terms |-> SameTerms, loops |-> {p1, Applier}, claims |-> 0]
Distinct == [exits |-> {e1, e2}, terms |-> OwnTerms, loops |-> {p1, Applier}, claims |-> 0]
OneExit == [exits |-> {e1}, terms |-> OwnTerms, loops |-> {p1}, claims |-> 0]
Deposit == [exits |-> {}, terms |-> OwnTerms, loops |-> {p1}, claims |-> 1]
Mixed == [exits |-> {e1}, terms |-> OwnTerms, loops |-> {p1}, claims |-> 1]
MCConfigs == {Overlap, Applied, Distinct, OneExit, Deposit, Mixed}

None == [o \in {o1, o2} |-> {}]
TwoLiars == (f1 :> {f1}) @@ (x1 :> {x1, f1})
Impostor == x1 :> {x1, h1}
Quorum(under, classes, attested, messages) ==
  [policy |-> [relayers |-> {h1, h2, f1}, required |-> 2], faulty |-> DOMAIN under, under |-> under,
   classes |-> classes, events |-> attested, messages |-> messages]

MCRelay ==
  (Overlap :> Quorum(TwoLiars, None, {}, 0)) @@ (Applied :> Quorum(TwoLiars, None, {}, 0)) @@ (Distinct :> Quorum(TwoLiars, None, {}, 0))
    @@ (OneExit :> Quorum(TwoLiars, None, {e1}, 3))
    @@ (Deposit :> Quorum(Impostor, [o \in {o1, o2} |-> {"on_time", "unknown_funding"}], {o1}, 2))
    @@ (Mixed :> Quorum(TwoLiars, (o1 :> {"on_time"}) @@ (o2 :> {}), {}, 0))

MCWatchOf == [o \in {o1, o2} |-> "deposit"]
=============================================================================
