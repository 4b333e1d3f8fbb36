--------------------------- MODULE MCOtcSettlement ---------------------------
(***************************************************************************)
(* OtcSettlement for one trade.  A clock of three values meets, passes and *)
(* misses every deadline: funding is on time at 0, the refund is due and   *)
(* USDC may still be deposited at 1, the Base escrow has expired at 2.     *)
(***************************************************************************)
EXTENDS OtcSettlement

ASSUME FundingDeadline < RefundAvailableAt /\ RefundAvailableAt < MaxTime
=============================================================================
