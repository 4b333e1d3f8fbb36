--------------------------- MODULE MCPrlUsdcEscrow ---------------------------
(***************************************************************************)
(* PrlUsdcEscrow with two trades between a buyer, a seller and the deployer*)
(* (who is also the fee recipient); every account may be made the owner.   *)
(***************************************************************************)
EXTENDS PrlUsdcEscrow

MCFunds == [a \in Accounts |-> IF a = "buyer" THEN 5 ELSE 1]
=============================================================================
