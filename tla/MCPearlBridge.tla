---------------------------- MODULE MCPearlBridge ----------------------------
(***************************************************************************)
(* PearlBridge with three accounts, three deposits and two exits.  The caps*)
(* leave room for two deposits, then for three, one with a longer window,  *)
(* and one set is not valid.                                               *)
(***************************************************************************)
EXTENDS PearlBridge

Caps(maxDeposit, length, windowCap, pilotCap) ==
  [minDeposit |-> 1, maxDeposit |-> maxDeposit, minExit |-> 1, maxExit |-> 2,
   window |-> length, windowCap |-> windowCap, pilotCap |-> pilotCap]

MCInitialCaps == Caps(2, 2, 2, 5)
MCCapsInputs == {MCInitialCaps, Caps(1, 3, 1, 2), Caps(2, 2, 2, 1)}
=============================================================================
