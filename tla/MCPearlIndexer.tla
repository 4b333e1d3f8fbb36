--------------------------- MODULE MCPearlIndexer ---------------------------
(***************************************************************************)
(* PearlIndexer on two forks of a common block a1.  The node may follow    *)
(* a1-a2-a3, switch to b2-b3-b4 and come back to a4-a5, so blocks are      *)
(* detached, replaced and attached again.  o1 and o2 both pay watch w1, in *)
(* another order on each fork; a3 releases o1 and b4 refunds it; o3 pays   *)
(* the reserve w2, which is registered late if at all, and b4 spends it.   *)
(* What a3 and b4 do to o1 is what the escrow package of w1's trade builds.*)
(***************************************************************************)
EXTENDS PearlIndexer, EscrowPackage

MCBlocks == {"g", "a1", "a2", "a3", "a4", "a5", "b2", "b3", "b4"}

MCHeightOf ==
  [b \in MCBlocks |->
     CASE b = "g" -> 0 [] b = "a1" -> 1 [] b \in {"a2", "b2"} -> 2
       [] b \in {"a3", "b3"} -> 3 [] b \in {"a4", "b4"} -> 4 [] OTHER -> 5]

MCPrevOf ==
  [b \in MCBlocks |->
     CASE b = "g" -> "none" [] b = "a1" -> "g" [] b \in {"a2", "b2"} -> "a1"
       [] b = "a3" -> "a2" [] b = "a4" -> "a3" [] b = "a5" -> "a4"
       [] b = "b3" -> "b2" [] OTHER -> "b3"]

MCOutputsIn ==
  [b \in MCBlocks |->
     CASE b = "a1" -> <<"o3">> [] b = "a2" -> <<"o1">> [] b = "a3" -> <<"o2">>
       [] b = "b2" -> <<"o2">> [] b = "b3" -> <<"o1">> [] OTHER -> <<>>]

Release == [tx |-> "release", outpoint |-> "o1"]
Refund  == [tx |-> "refund",  outpoint |-> "o1"]
Exit    == [tx |-> "exit",    outpoint |-> "o3"]

MCSpendsIn ==
  [b \in MCBlocks |->
     CASE b = "a3" -> <<Release>> [] b = "b4" -> <<Refund, Exit>> [] OTHER -> <<>>]

MCRequest ==
  [trade |-> "t1", outpoint |-> "unfunded", expected |-> 5,
   releaseAddress |-> "buyer", refundAddress |-> "seller", refundHeight |-> 2, refundTime |-> 0,
   keys |-> [buyer |-> "kb", seller |-> "ks", arbiter |-> "ka"]]
MCEscrow == PackageFromTrade(MultisigPackage(MCRequest), "o1")

\* The release leaves no fee, the refund one of 1.
MCPaid ==
  [release |-> UnsignedTx(MCEscrow, "release", 0).tx.outputs,
   refund  |-> UnsignedTx(MCEscrow, "refund", 1).tx.outputs,
   exit    |-> {[vout |-> 0, address |-> "buyer", amount |-> 1],
               [vout |-> 1, address |-> "reserve", amount |-> 4]}]

\* w1 is the escrow of a trade, w2 a reserve of the bridge.
MCTerms ==
  [w1 |-> WatchTerms(MCEscrow, 1, Nothing), w2 |-> ReserveTerms("reserve")]

MCPays == [o \in {"o1", "o2", "o3"} |-> IF o = "o3" THEN {"w2"} ELSE {"w1"}]
MCAmount == [o \in {"o1", "o2", "o3"} |-> IF o = "o2" THEN 4 ELSE 5]
MCExpected == [w \in {"w1", "w2"} |-> 5]
MCDeadlineHeight == [w \in {"w1", "w2"} |-> 2]
MCRequired == [w \in {"w1", "w2"} |-> 2]

-----------------------------------------------------------------------------
(* The theorems about EscrowPackage on small requests, evaluated by TLC, and what *)
(* they leave out.                                                                *)

Requests ==
  [trade : {"t1"}, outpoint : {"unfunded"}, expected : 0..3,
   releaseAddress : {"buyer"}, refundAddress : {"seller"},
   refundHeight : {0, 2, 5}, refundTime : {0, 2, 6}, keys : [Roles -> {"k1", "k2", "k3"}]]
Escrows == {PackageFromTrade(MultisigPackage(r), "o1") : r \in {q \in Requests : BuildsMultisig(q)}}
Signatures == SUBSET {"k1", "k2", "k3"}
Fees(escrow) == {fee \in 0..3 : FeeInRange(escrow, fee)}

ASSUME SomeEscrows == Escrows # {}

ASSUME TemplatesAreNamed ==
  \A escrow \in Escrows, kind \in SettleKinds, tolerance \in 0..2 : \A fee \in Fees(escrow) :
    ClassifySpend(WatchTerms(escrow, tolerance, Nothing), "t", UnsignedTx(escrow, kind, fee).tx.outputs)
      = IF fee <= tolerance THEN kind ELSE "unknown_spend"

ASSUME ReleasesOpenToSignerSets ==
  \A escrow \in Escrows, signatures \in Signatures : \A fee \in Fees(escrow) :
    Spends(escrow, UnsignedTx(escrow, "release", fee).tx, signatures)
      <=> \E signers \in SignerSets(escrow, "release") :
            {escrow.keys[role] : role \in signers} \subseteq signatures

ASSUME ArbiterCompletesReleasesOnly ==
  \A escrow \in Escrows, kind \in SettleKinds : WorkerCanFinish(escrow, kind) <=> kind = "release"

\* A key is of one transaction: another fee is another request.
ASSUME KeysAreOfOneTransaction ==
  \A escrow \in Escrows, kind, other \in SettleKinds : \A fee, raised \in Fees(escrow) :
    IdempotencyKey(escrow, kind, UnsignedTx(escrow, kind, fee))
      = IdempotencyKey(escrow, other, UnsignedTx(escrow, other, raised)) <=> kind = other /\ fee = raised

\* The parties cannot submit a release as a refund, or one with another fee.
ASSUME OnlyOfferedSpendsAreTaken ==
  \A escrow \in Escrows, kind, other \in SettleKinds : \A fee, raised \in Fees(escrow) :
    LET signed == [tx |-> UnsignedTx(escrow, kind, fee).tx, signatures |-> {"k1"}]
    IN  MatchesTemplate(signed, UnsignedTx(escrow, other, raised)) <=> kind = other /\ fee = raised

\* A matched funding is spent whole.
ASSUME MatchedFundingIsSpentWhole ==
  \A escrow \in Escrows, amount \in 1..4 : \A fee \in Fees(escrow) :
    LET candidate == [outpoint |-> "o1", script |-> escrow.script, amount |-> amount]
    IN  FundingMatch(escrow, candidate) = "matched"
          <=> UnsignedTx(escrow, "release", fee).tx.outputs
                = Payment(escrow.release.address, amount - fee)

\* There is nothing to sign in advance for an escrow of the desk.
ASSUME DeskTakesNoPresignature ==
  LET desk == DeskPackage([MCRequest EXCEPT !.keys = [buyer |-> "kb", desk |-> "kd"]])
  IN  ~AcceptsPresignature(desk, "buyer", 0, SignedBy(PresignTemplate(desk, "buyer", 0), "kb"))
=============================================================================
