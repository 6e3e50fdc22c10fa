---------------------------- MODULE MCRolexIndex ----------------------------
(***************************************************************************)
(* Small instances of RolexIndex.                                          *)
(***************************************************************************)
EXTENDS RolexIndex, TLC

\* One leaf: every key of 1..n competes for it.
OneLeaf == [k \in Key |-> 0]

\* Two leaves, keys 1 and 2 in the first; the learned range of the keys near
\* the border spans both.
TwoLeafLo == [k \in Key |-> IF k <= 3 THEN 0 ELSE 1]
TwoLeafHi == [k \in Key |-> IF k = 1 THEN 0 ELSE 1]
TwoLeafIdx == [k \in Key |-> IF k <= 2 THEN 0 ELSE 1]

ClientSymmetry == Permutations(Client)
Symmetry == Permutations(Client) \cup Permutations(Value)
=============================================================================
