--------------------------- MODULE MCActionRouter ---------------------------
(***************************************************************************)
(* Small instances of ActionRouter for TLC.                                *)
(***************************************************************************)
EXTENDS ActionRouter, TLC

CONSTANTS i1, v1, v2, p1, p2, a1, a2

\* One variant becomes a backlog item, the other is shelved.
BacklogOrShelf == [v \in Variants |-> IF v = v1 THEN "backlog_items" ELSE Shelf]

\* Nothing tells runs or requests apart.
RouterSymmetry == Permutations(Proposers) \union Permutations(Reviewers)
=============================================================================
