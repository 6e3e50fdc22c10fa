--------------------------- MODULE MCRolexHistory ---------------------------
(***************************************************************************)
(* Small instances of RolexHistory.                                        *)
(***************************************************************************)
EXTENDS RolexHistory, TLC

OneLeaf == [k \in Key |-> 0]

TwoLeafLo == [k \in Key |-> IF k <= 2 THEN 0 ELSE 1]
TwoLeafHi == [k \in Key |-> IF k = 1 THEN 0 ELSE 1]
TwoLeafIdx == [k \in Key |-> IF k <= 2 THEN 0 ELSE 1]

Symmetry == Permutations(Client) \cup Permutations(Value)
=============================================================================
