------------------------------ MODULE LeafImage ------------------------------
(***************************************************************************)
(* Leaf images as the index sees them: the partial map a leaf stores and   *)
(* its synonym pointer.  What insert does to a leaf and its synonym leaf   *)
(* (src/src/Rolex.cpp:335-385, :409-448), as operations on images.  Module *)
(* LeafArray checks that the array loops of the code compute the same.     *)
(***************************************************************************)
EXTENDS Integers, FiniteSets

CONSTANTS Key,       \* keys (positive: kkeyNull is 0)
          Value,
          SynAddr,   \* addresses dsm->alloc can hand out
          Span,      \* define::leafSpanSize
          Nil        \* kkeyNull, GlobalAddress::Null(), "not found"

ASSUME KeyAssumption == Key \subseteq Nat \ {0} /\ IsFiniteSet(Key)
ASSUME ValueAssumption == Nil \notin Value
ASSUME SpanAssumption == Span \in Nat \ {0}
ASSUME SynAddrAssumption == Nil \notin SynAddr

MaybeValue == Value \cup {Nil}
Node == [rec : [Key -> MaybeValue], syn : SynAddr \cup {Nil}]
EmptyNode == [rec |-> [k \in Key |-> Nil], syn |-> Nil]

KeysOf(n) == {k \in Key : n.rec[k] # Nil}

\* Mutant of Put: the node is built anew, without its pointer.
PutNoPtr(n, k, v) == [rec |-> [n.rec EXCEPT ![k] = v], syn |-> Nil]

Put(n, k, v) == [rec |-> [n.rec EXCEPT ![k] = v], syn |-> n.syn]
Drop(n, k) == Put(n, k, Nil)
Full(n) == Cardinality(KeysOf(n)) >= Span
LastKey(n) == CHOOSE k \in KeysOf(n) : \A x \in KeysOf(n) : x <= k

\* Mutant of Beyond: every record for a full leaf goes to its synonym.
BeyondIfFull(n, k) == Full(n) /\ k = k

\* The scan of insert runs off the end of the leaf: full, all keys smaller.
Beyond(n, k) == Full(n) /\ \A x \in KeysOf(n) : x < k

\* insert_into_syn_leaf_locally finds the record in the synonym image s.
KnownInSyn(n, s, k) == n.syn # Nil /\ s.rec[k] # Nil

\* insert stores nothing: its key is there, or the record it would have to
\* move to the synonym leaf is.
GivesUp(n, s, k) ==
    \/ n.rec[k] # Nil
    \/ Beyond(n, k) /\ KnownInSyn(n, s, k)
    \/ Full(n) /\ ~Beyond(n, k) /\ KnownInSyn(n, s, LastKey(n))

\* A new record in a full leaf displaces the last one.
PutOverflow(n, k, v) == Put(Drop(n, LastKey(n)), k, v)

\* insert_into_syn_leaf_locally on an existing synonym leaf: a full leaf
\* keeps its Span smallest keys; either its last record is overwritten or the
\* new one is stored past the array and never encoded.
PutSyn(s, k, v) ==
    IF ~Full(s) THEN Put(s, k, v)
    ELSE IF Beyond(s, k) THEN s
    ELSE PutOverflow(s, k, v)
=============================================================================
