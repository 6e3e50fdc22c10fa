--------------------------- MODULE MCVersionedNode ---------------------------
(***************************************************************************)
(* VersionedNode for the leaf with index LeafIdx.                          *)
(***************************************************************************)
EXTENDS VersionedNode, LeafLayout

CONSTANT LeafIdx

\* The lines are those the layout gives this leaf.
ASSUME LayoutAssumption ==
    /\ Line = LinesOf(LeafOffset(LeafIdx))
    /\ Tagged = TaggedLines(LeafOffset(LeafIdx))

\* Of every four leaves only the second one has a line without a version byte.
ASSUME TaggedAssumption ==
    \A i \in 0 .. 15 :
        TaggedLines(LeafOffset(i)) = LinesOf(LeafOffset(i)) <=> i % 4 # 1
=============================================================================
