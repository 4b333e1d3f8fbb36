---------------------------- MODULE EscrowPackage ----------------------------
(***************************************************************************)
(* The Pearl escrow of a trade as packages/pearl-escrow and pearl-script   *)
(* build it and as the trade API uses it: the scripts its address commits  *)
(* to, the templates of its release and refund, the transactions made from *)
(* them, what a buyer may sign in advance, and what completes a spend.     *)
(* Pure functions of these records:                                        *)
(*   request  [trade, outpoint, expected, releaseAddress, refundAddress,   *)
(*            refundHeight, refundTime, keys]                              *)
(*   leaf     [kind, signers, keys, lockTime, nonce]                       *)
(*   tx       [inputs, outputs, lockTime, sequence], outputs as in         *)
(*            SpendClassification; sequence is "final" (all ones), "locked"*)
(*            (lock times count) or "relative" (a lock relative to the     *)
(*            input as well)                                               *)
(*   psbt     [tx, script, value, leaves, signatures], the script and      *)
(*            value the signer was shown, and the keys that have signed    *)
(* A script, an address and a hash are what they commit to; 0 is a lock    *)
(* time, height or time that is not given.                                 *)
(***************************************************************************)
EXTENDS SpendClassification

CONSTANT LockTimeThreshold  \* below it a lock time is a height, from it on a Unix time
ASSUME LockTimeThresholdAssumption == LockTimeThreshold \in Nat \ {0}

Roles == {"buyer", "seller", "arbiter"}

\* Who signs for which leaf of a multisig escrow.
LeafSigners ==
  [buyer_seller_release   |-> {"buyer", "seller"},
   buyer_arbiter_release  |-> {"buyer", "arbiter"},
   seller_arbiter_release |-> {"seller", "arbiter"},
   seller_timeout_refund  |-> {"seller"}]

Leaf(kind, keys, lockTime, nonce) ==
  [kind |-> kind, signers |-> LeafSigners[kind],
   keys |-> {keys[role] : role \in LeafSigners[kind]},
   lockTime |-> IF kind = "seller_timeout_refund" THEN lockTime ELSE 0,
   nonce |-> nonce]

\* The internal key of a multisig escrow has no private key: only a leaf spends.
MultisigScript(keys, lockTime, nonce) ==
  [internal |-> "nums",
   leaves |-> {Leaf(kind, keys, lockTime, nonce) : kind \in DOMAIN LeafSigners}]

LeavesOfKind(escrow, kind) == {leaf \in escrow.script.leaves : leaf.kind = kind}

-----------------------------------------------------------------------------
(* Packages *)

Template(address, lockTime, signerSets) ==
  [address |-> address, lockTime |-> lockTime, signerSets |-> signerSets]

\* A desk escrow refunds after the height when both are given.
RefundLockTime(request) ==
  IF request.refundHeight # 0 THEN request.refundHeight ELSE request.refundTime

BuildsMultisig(request) ==
  /\ request.expected \in Nat \ {0}
  /\ \A r, s \in Roles : request.keys[r] = request.keys[s] => r = s
  /\ \/ request.refundTime = 0 /\ request.refundHeight \in 1..(LockTimeThreshold - 1)
     \/ request.refundHeight = 0 /\ request.refundTime \in Nat /\ request.refundTime >= LockTimeThreshold

MultisigPackage(request) ==
  [trade |-> request.trade, outpoint |-> request.outpoint,
   expected |-> request.expected, keys |-> request.keys,
   script |-> MultisigScript(request.keys, RefundLockTime(request), request.trade),
   release |-> Template(request.releaseAddress, 0,
                        {{"buyer", "seller"}, {"buyer", "arbiter"}, {"seller", "arbiter"}}),
   refund |-> Template(request.refundAddress, RefundLockTime(request), {{"seller"}})]

\* The key of a desk escrow is the desk's, derived per trade.
DeskPackage(request) ==
  [trade |-> request.trade, outpoint |-> request.outpoint,
   expected |-> request.expected, keys |-> request.keys,
   script |-> [internal |-> request.keys.desk, leaves |-> {}],
   release |-> Template(request.releaseAddress, 0, {{"desk"}}),
   refund |-> Template(request.refundAddress, RefundLockTime(request), {{"desk"}})]

TemplateFor(escrow, kind) == IF kind = "release" THEN escrow.release ELSE escrow.refund

\* The trade keeps the package; the outpoint is the indexer's once it is funded.
PackageFromTrade(stored, outpoint) == [stored EXCEPT !.outpoint = outpoint]

\* An output is taken for the escrow's funding only when it is exactly that.
FundingMatch(escrow, candidate) ==
  IF escrow.outpoint \notin {"unfunded", candidate.outpoint} THEN "outpoint_mismatch"
  ELSE IF candidate.script # escrow.script THEN "script_mismatch"
  ELSE IF candidate.amount < escrow.expected THEN "underpaid"
  ELSE IF candidate.amount > escrow.expected THEN "overpaid"
  ELSE "matched"

-----------------------------------------------------------------------------
(* Transactions and signatures *)

Payment(address, amount) == {[vout |-> 0, address |-> address, amount |-> amount]}

\* One input, one output, and the fee is what the output leaves.
FeeInRange(escrow, fee) == fee \in 0..(escrow.expected - 1)

UnsignedTx(escrow, kind, fee) ==
  [kind |-> kind, fee |-> fee,
   tx |-> [inputs |-> {escrow.outpoint},
           outputs |-> Payment(TemplateFor(escrow, kind).address, escrow.expected - fee),
           lockTime |-> TemplateFor(escrow, kind).lockTime,
           sequence |-> IF TemplateFor(escrow, kind).lockTime = 0 THEN "final" ELSE "locked"]]

\* A spend of one leaf, with the signatures of those who have signed.
PartialPsbt(escrow, kind, destination, amount, lockTime, sequence, signers) ==
  [tx |-> [inputs |-> {escrow.outpoint}, outputs |-> Payment(destination, amount),
           lockTime |-> lockTime, sequence |-> sequence],
   script |-> escrow.script, value |-> escrow.expected,
   leaves |-> LeavesOfKind(escrow, kind),
   signatures |-> {escrow.keys[role] : role \in signers}]

\* What the buyer is asked to sign in advance.
PresignTemplate(escrow, buyerAddress, fee) ==
  PartialPsbt(escrow, "buyer_arbiter_release", buyerAddress, escrow.expected - fee, 0, "final", {})

SignedBy(psbt, key) ==
  [tx |-> psbt.tx, script |-> psbt.script, value |-> psbt.value, leaves |-> psbt.leaves,
   signatures |-> psbt.signatures \cup {key}]

\* The sequence is not looked at.
AcceptsPresignature(escrow, buyerAddress, fee, psbt) ==
  /\ psbt.tx.inputs = {escrow.outpoint}
  /\ psbt.script = escrow.script /\ psbt.value = escrow.expected
  /\ psbt.leaves = LeavesOfKind(escrow, "buyer_arbiter_release") /\ psbt.leaves # {}
  /\ psbt.tx.outputs = Payment(buyerAddress, escrow.expected - fee)
  /\ psbt.tx.lockTime = 0
  /\ escrow.keys["buyer"] \in psbt.signatures

\* As many signatures as the leaf has signature checks.
WitnessComplete(psbt) == \E leaf \in psbt.leaves : leaf.keys \subseteq psbt.signatures

\* A transaction the parties submit must be the one the API offers, and signed.
MatchesTemplate(signed, unsigned) == signed.tx = unsigned.tx /\ signed.signatures # {}

SignerSets(escrow, kind) == TemplateFor(escrow, kind).signerSets

WorkerCanFinish(escrow, kind) == \E signers \in SignerSets(escrow, kind) : "arbiter" \in signers

\* The policy of a request to a signer: the template's destination, a capped fee.
MayRequest(escrow, action, unsigned, destination, fee, cap) ==
  /\ unsigned.kind = action /\ unsigned.fee = fee
  /\ fee \in 0..cap
  /\ destination = TemplateFor(escrow, action).address

IdempotencyKey(escrow, action, unsigned) ==
  <<escrow.trade, action, escrow.outpoint, unsigned>>

-----------------------------------------------------------------------------
(* What Pearl's consensus lets through, and what the indexer is told. *)

\* OP_CHECKLOCKTIMEVERIFY: a lock of the same kind, not before it, not disabled.
LockTimeReached(lock, tx) ==
  /\ tx.sequence # "final"
  /\ lock < LockTimeThreshold <=> tx.lockTime < LockTimeThreshold
  /\ lock <= tx.lockTime

\* The signatures open a leaf of the script the output commits to.
Opens(leaf, tx, signatures) ==
  /\ leaf.keys \subseteq signatures
  /\ leaf.lockTime # 0 => LockTimeReached(leaf.lockTime, tx)

Spends(escrow, tx, signatures) ==
  /\ escrow.outpoint \in tx.inputs
  /\ \E leaf \in escrow.script.leaves : Opens(leaf, tx, signatures)

\* The terms of the escrow's watch, its templates among them.
WatchTerms(escrow, tolerance, txids) ==
  EscrowTerms(escrow.release.address, escrow.refund.address, escrow.expected, tolerance, txids,
    [kind \in SettleKinds |->
       {[address |-> TemplateFor(escrow, kind).address, amounts |-> {escrow.expected}]}])
=============================================================================
