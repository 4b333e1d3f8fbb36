------------------------ MODULE SpendClassification ------------------------
(***************************************************************************)
(* How the scanner names a transaction that spends a watched output        *)
(* (services/pearl-indexer/src/funding-scanner.ts, from classifySpend on): *)
(* pure functions of the watch's metadata, the id of the spending          *)
(* transaction and what it pays.  The metadata is abstracted to a record   *)
(* of terms:                                                               *)
(*   purpose      otc_escrow, bridge_deposit or bridge_reserve             *)
(*   change       the reserve's own addresses, the watched one included    *)
(*   txids        the transaction ids agreed for a release and a refund    *)
(*   destinations the addresses a release, a refund may go to              *)
(*   amounts      what such a destination may get: min..max, empty when a  *)
(*                bound is missing or the bounds are crossed               *)
(*   templates    the outputs of the release and refund templates          *)
(* A paid output is [vout, address, amount].  An expected output is        *)
(* [address, amounts]; a template that fixes the address and no amount has *)
(* the empty set of amounts: it matches nothing.                           *)
(***************************************************************************)
EXTENDS Integers

CONSTANT AnyAddress  \* the address of a template that fixes the amount alone

SettleKinds == {"release", "refund"}
SpendKinds == SettleKinds \cup {"exit_release", "unknown_spend"}

ExpectedOutputs(terms, kind) ==
  {[address |-> a, amounts |-> terms.amounts[kind]] : a \in terms.destinations[kind]}
    \cup terms.templates[kind]

OutputMatches(output, expected) ==
  /\ expected.address \in {AnyAddress, output.address}
  /\ output.amount \in expected.amounts

Matches(terms, kind, paid) ==
  \E expected \in ExpectedOutputs(terms, kind), output \in paid : OutputMatches(output, expected)

\* Release ids are looked up first.
KindOfTxid(terms, tx) ==
  IF tx \in terms.txids["release"] THEN "release"
  ELSE IF tx \in terms.txids["refund"] THEN "refund"
  ELSE "none"

\* A spend of an escrow is named only when its outputs match one kind of terms
\* and not the other, and an agreed transaction id does not say otherwise.
ClassifyEscrowSpend(terms, tx, paid) ==
  LET matching == {kind \in SettleKinds : Matches(terms, kind, paid)}
      named    == {kind \in SettleKinds : /\ matching = {kind}
                                          /\ KindOfTxid(terms, tx) \in {kind, "none"}}
  IN  IF named = {} THEN "unknown_spend" ELSE CHOOSE kind \in named : TRUE

\* A spend of a reserve is an exit when exactly one output leaves the reserve.
ClassifyReserveSpend(terms, paid) ==
  LET external == {output \in paid : output.address \notin terms.change}
  IN  IF \E output \in external : external = {output}
      THEN "exit_release" ELSE "unknown_spend"

ClassifySpend(terms, tx, paid) ==
  IF terms.purpose = "bridge_reserve" THEN ClassifyReserveSpend(terms, paid)
  ELSE IF terms.purpose = "otc_escrow" THEN ClassifyEscrowSpend(terms, tx, paid)
  ELSE "unknown_spend"

-----------------------------------------------------------------------------
(* The terms the product services register. *)

Nothing == [kind \in SettleKinds |-> {}]

\* The watch of a trade: the buyer is paid by a release, the seller by a refund,
\* and either gets the deposit less a network fee of at most the tolerance.
EscrowTerms(buyer, seller, expected, tolerance, txids, templates) ==
  [purpose      |-> "otc_escrow",
   change       |-> {},
   txids        |-> txids,
   destinations |-> [release |-> {buyer}, refund |-> {seller}],
   amounts      |-> [kind \in SettleKinds |-> (expected - tolerance)..expected],
   templates    |-> templates]

\* The watches of the bridge name no destination: a spend of a deposit address
\* is unknown, and what leaves a reserve is whatever goes elsewhere.
BridgeTerms(purpose, address) ==
  [purpose |-> purpose, change |-> {address}, txids |-> Nothing,
   destinations |-> Nothing, amounts |-> Nothing, templates |-> Nothing]
ReserveTerms(address) == BridgeTerms("bridge_reserve", address)
DepositTerms(address) == BridgeTerms("bridge_deposit", address)
=============================================================================
