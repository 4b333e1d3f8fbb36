------------------------------ MODULE MCAccounts ------------------------------
(***************************************************************************)
(* Accounts with three calls: registrations of one wallet, registrations   *)
(* beside a link and an order, releases of one trade beside a              *)
(* registration, and a signature sent again with another challenge.        *)
(***************************************************************************)
EXTENDS Accounts, TLC

CONSTANTS alice, bob, k1, k2, k3, c1, c2, c3, w1, w2, w3

MCWalletOf == (c1 :> w1) @@ (c2 :> w3) @@ (c3 :> w3)

Signed(c) == <<MCWalletOf[c], c>>

Register(c, ref) ==
  [op |-> "register", challenge |-> c, other |-> None, user |-> None, ref |-> ref,
   signature |-> Signed(c), otherSignature |-> Signed(c)]
Link(u, c, other) ==
  [op |-> "link", challenge |-> c, other |-> other, user |-> u, ref |-> None,
   signature |-> Signed(c), otherSignature |-> Signed(other)]
Order(u, c) == [Register(c, None) EXCEPT !.op = "order", !.user = u]
Release == [Register(c1, None) EXCEPT !.op = "release", !.challenge = None]

\* A request that carries a signature made for another challenge.
Resigned(r, c) == [r EXCEPT !.signature = Signed(c)]

Owner == (w1 :> alice) @@ (w2 :> bob) @@ (w3 :> None)
Referrer == [u \in Users \cup Calls |-> IF u = alice THEN bob ELSE None]
Parties == [buyer |-> w1, seller |-> w3]

With(a, b, c) ==
  [owner |-> Owner, referrer |-> Referrer, parties |-> Parties, call |-> (k1 :> a) @@ (k2 :> b) @@ (k3 :> c)]

MCConfigs ==
  {With(Register(c2, bob), Register(c3, None), Order(alice, c1)),
   With(Register(c2, k2), Register(c3, bob), Register(c3, alice)),
   With(Register(c2, bob), Link(alice, c1, c3), Order(alice, c1)),
   With(Release, Release, Register(c2, bob)),
   With(Release, Link(alice, c1, c2), Register(c2, bob)),
   With(Resigned(Register(c2, bob), c3), Register(c3, None), Order(alice, c1))}
=============================================================================
