----------------------------- MODULE MCOrderBook -----------------------------
(***************************************************************************)
(* OrderBook with one order and two quotes that may both be of it.  The    *)
(* trades of both quotes derive the same index first.  The maker has       *)
(* signed orders that expire and orders that do not, the taker has signed  *)
(* for each quote; requests also name another mode of release signing, or  *)
(* another address for one of them.                                        *)
(***************************************************************************)
EXTENDS OrderBook, TLC

MCDerive == [q \in Quotes |-> <<7, 8>>]

Maker == [address |-> "maker", key |-> "maker_key"]
Taker == [address |-> "taker", key |-> "taker_key"]
Manual == "manual_after_base_deposit"

\* Buy orders may expire.
TermsOf(side, expires) == [side |-> side, expires |-> expires, maker |-> Maker, mode |-> Manual]
Terms == {TermsOf("buy_prl", 1), TermsOf("buy_prl", Never), TermsOf("sell_prl", Never)}
MakerProof(terms) == <<Maker.key, OrderMessage(terms)>>
TakerRole(terms) == CHOOSE role \in Roles : role # MakerRole(terms)
TakerProof(q, terms) == <<Taker.key, SignerMessage(q, TakerRole(terms), Taker, Manual)>>

\* What the taker sends for a quote of an order with these terms, and variants
\* that nobody has agreed to; the last one goes to the coordinator of an xpub deployment.
Variants == {"good", "other mode", "other maker", "other taker"}
Sent(q, terms, variant) ==
  LET good == Prefilled(terms, Taker, TakerProof(q, terms))
  IN  CASE variant = "good" -> good
        [] variant = "other mode" -> [good EXCEPT !.mode = "preauthorize_release"]
        [] variant = "other maker" -> [good EXCEPT !.party[MakerRole(terms)].address = "elsewhere"]
        [] variant = "other taker" -> [good EXCEPT !.party[TakerRole(terms)].address = "elsewhere"]
        [] variant = "coordinator" -> [Prefilled(terms, Taker, MakerProof(terms)) EXCEPT !.escrow = "coordinator"]

MCSigned == {MakerProof(t) : t \in Terms} \cup {TakerProof(q, t) : q \in Quotes, t \in Terms}
MCOffers == {[terms |-> t, proof |-> MakerProof(t)] : t \in Terms}
MCRequests ==
  [q \in Quotes |-> {Sent(q, t, v) : t \in Terms, v \in Variants} \cup {Sent(q, TermsOf("sell_prl", Never), "coordinator")}]
MCConfigs ==
  {[store |-> "postgres", allocator |-> "multisig", side |-> "buy_prl", sweeps |-> "of_trades"],
   [store |-> "postgres", allocator |-> "p2tr_xpub", side |-> "sell_prl", sweeps |-> "of_trades"],
   [store |-> "memory", allocator |-> "multisig", side |-> "sell_prl", sweeps |-> "of_trades"],
   [store |-> "memory", allocator |-> "multisig", side |-> "sell_prl", sweeps |-> "any"]}
Symmetry == Permutations(Callers) \cup Permutations(Clients) \cup Permutations(Quotes)
=============================================================================
