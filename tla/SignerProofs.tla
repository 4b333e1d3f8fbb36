----------------------------- MODULE SignerProofs -----------------------------
(***************************************************************************)
(* Who has to sign what before an order or a trade is stored (services/    *)
(* otc-api/src/trade-service.ts, packages/pearl-sdk/src/                   *)
(* otc-signer-proof.ts).                                                   *)
(*                                                                         *)
(* A party is [address, key]: the settlement addresses it names and its    *)
(* Pearl signer key.  A signature is a pair of the key that made it and    *)
(* the message it covers; only the owner of a key makes one with it.       *)
(*   terms of an order    [side, expires, maker, mode]                     *)
(*   AcceptQuoteRequest   [escrow, mode, party, proof], the last two by    *)
(*                        role                                             *)
(***************************************************************************)
EXTENDS Naturals

Roles == {"buyer", "seller"}

\* getOrderMakerRole
MakerRole(terms) == IF terms.side = "buy_prl" THEN "buyer" ELSE "seller"

OrderMessage(terms) == <<"order", terms, MakerRole(terms)>>
SignerMessage(quote, role, party, mode) == <<"accept", quote, role, party, mode>>

OrderProofVerifies(terms, proof) == proof = <<terms.maker.key, OrderMessage(terms)>>

SignerProofVerifies_NoAddresses(quote, role, request) ==
  LET m == request.proof[role][2]
  IN  /\ request.proof[role][1] = request.party[role].key
      /\ m[1] = "accept" /\ m[2] = quote /\ m[3] = role /\ m[5] = request.mode
SignerProofVerifies(quote, role, request) ==
  request.proof[role] =
    <<request.party[role].key, SignerMessage(quote, role, request.party[role], request.mode)>>

\* validateAcceptQuoteRequest
Valid(request) == request.party["buyer"].address # request.party["seller"].address

\* assertOrderAcceptMatchesMaker: the maker is named as it signed the order.
MatchesMaker(terms, request) ==
  /\ request.escrow = "multisig"
  /\ request.mode = terms.mode
  /\ request.party[MakerRole(terms)] = terms.maker

\* assertMultisigSignerProofs: the maker of a linked order signed before; its proof
\* is not looked at again.
MultisigProofs(quote, request, makerRoles) ==
  request.escrow = "multisig" =>
    \A role \in Roles \ makerRoles : SignerProofVerifies(quote, role, request)

\* createOrderQuoteAcceptPrefill, with the taker's key and proof added by the client
Prefilled(terms, taker, proof) ==
  [escrow |-> "multisig", mode |-> terms.mode,
   party |-> IF MakerRole(terms) = "buyer" THEN [buyer |-> terms.maker, seller |-> taker]
                                           ELSE [buyer |-> taker, seller |-> terms.maker],
   proof |-> [buyer |-> proof, seller |-> proof]]
=============================================================================
