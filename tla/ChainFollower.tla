---------------------------- MODULE ChainFollower ----------------------------
(***************************************************************************)
(* What the block index promises its readers: at every moment the canonical*)
(* blocks are one branch of the block tree, which grows at its tip by a    *)
(* child of the tip and shrinks only by losing its tip.  No reader ever    *)
(* sees a branch with a hole, two blocks of one height, or a block whose   *)
(* parent was taken away under it.                                         *)
(***************************************************************************)
EXTENDS Integers

CONSTANTS Blocks, HeightOf, PrevOf, StartHeight

VARIABLE path   \* the canonical blocks

IsTip(b) == b \in path /\ \A c \in path : HeightOf[c] <= HeightOf[b]

Init == path = {}

Attach(b) ==
  /\ b \notin path
  /\ \/ path = {} /\ HeightOf[b] = StartHeight
     \/ \E p \in path : IsTip(p) /\ PrevOf[b] = p
  /\ path' = path \cup {b}

DetachTip(b) ==
  /\ IsTip(b)
  /\ path' = path \ {b}

Next == \E b \in Blocks : Attach(b) \/ DetachTip(b)

Spec == Init /\ [][Next]_path
=============================================================================
