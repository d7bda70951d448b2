----------------------------- MODULE MCSharing -----------------------------
(* Small instances of Sharing: every user has one tab, of the same name.   *)
EXTENDS Sharing, TLC

CONSTANTS olga

OneTabEach == [t \in Tab |-> t]

Symmetry == Permutations(User \ {olga})
=============================================================================
