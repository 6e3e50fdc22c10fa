---------------------------- MODULE MCHopscotch ----------------------------
(* Small instances of Hopscotch. *)
EXTENDS Hopscotch

\* Three keys that hash to the last slot, whose neighbourhood goes around the end,
\* and two that hash to the first, whose records hop to make room for them.
MCKey == 1 .. 5
MCHashOf == <<3, 0, 3, 3, 0>>

\* The leaf as it is built, without and with metadata replicas.
Hop == INSTANCE SegmentLayout
           WITH EntrySize <- 19, Span <- 16, Neighbor <- 8, Replicated <- FALSE
Replica == INSTANCE SegmentLayout
               WITH EntrySize <- 19, Span <- 16, Neighbor <- 8, Replicated <- TRUE

ASSUME HopLayout == Hop!SegmentsMatchNode /\ Hop!SegmentsDecode /\ Hop!BuffersApart
ASSUME ReplicaLayout ==
    Replica!SegmentsMatchNode /\ Replica!SegmentsDecode /\ Replica!BuffersApart
ASSUME EntryBuffers == Hop!EntryBufferShort /\ Replica!EntryBufferShort
=============================================================================
