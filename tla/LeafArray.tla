------------------------------ MODULE LeafArray ------------------------------
(***************************************************************************)
(* The array loops of insert and update: one leaf and its synonym leaf as  *)
(* arrays of Span records, changed by one client at a time (the caller     *)
(* holds the leaf's lock).  The images n and s of module LeafImage are     *)
(* carried along and changed by its operators; the loops and the operators *)
(* must agree for every sequence of calls.                                 *)
(***************************************************************************)
EXTENDS LeafImage

\* dsm->alloc has a leaf to hand out.
ASSUME SynAvailable == SynAddr # {}

VARIABLES leaf,     \* leaf->records
          syn,      \* syn_leaf->records
          hasSyn,   \* leaf->metadata.synonym_ptr is not Null
          n, s      \* the images of leaf and syn

vars == <<leaf, syn, hasSyn, n, s>>

Null == [key |-> 0, value |-> Nil]
Records == [1 .. Span -> [key : Key, value : Value] \cup {Null}]
Zeroed == [i \in 1 .. Span |-> Null]
TheSyn == CHOOSE a \in SynAddr : TRUE

\* First index from i on where the scan loop stops; Span + 1 if it runs out.
ScanFrom(r, i, Stop(_)) ==
    CHOOSE p \in i .. (Span + 1) :
        /\ p = Span + 1 \/ Stop(r[p])
        /\ \A q \in i .. (p - 1) : ~Stop(r[q])

Position(r, k) == ScanFrom(r, 1, LAMBDA e : e.key = 0 \/ e.key >= k)
IsAt(r, p, k) == p <= Span /\ r[p].key = k
FirstNull(r, i) == ScanFrom(r, i, LAMBDA e : e.key = 0)

\* Mutant of ShiftIn: the records are copied front to back.
ShiftInForward(r, i, j, e) ==
    [p \in 1 .. Span |-> IF p = i THEN e
                         ELSE IF i < p /\ p <= j THEN r[i] ELSE r[p]]

\* Move [i, j) to [i + 1, j], then store e at i; an i past the array writes
\* memory behind the records that encode_node_versions does not copy.
ShiftIn(r, i, j, e) ==
    [p \in 1 .. Span |-> IF p = i THEN e
                         ELSE IF i < p /\ p <= j THEN r[p - 1] ELSE r[p]]

LastSlot(j) == IF j = Span + 1 THEN Span ELSE j

\* insert_into_syn_leaf_locally
SynKnows(e) == hasSyn /\ IsAt(syn, Position(syn, e.key), e.key)
StoreInSyn(e) ==
    LET i == Position(syn, e.key)
    IN  syn' = IF hasSyn
               THEN ShiftIn(syn, i, LastSlot(FirstNull(syn, i)), e)
               ELSE [Zeroed EXCEPT ![1] = e]

\* The image of the synonym leaf after the same call.
ImageInSyn(k, v) ==
    s' = IF n.syn = Nil THEN Put(EmptyNode, k, v) ELSE PutSyn(s, k, v)

Init ==
    /\ leaf = Zeroed /\ syn = Zeroed /\ hasSyn = FALSE
    /\ n = EmptyNode /\ s = EmptyNode

InsertExists(k) ==
    LET i == Position(leaf, k)
        j == FirstNull(leaf, i)
    IN  /\ \/ IsAt(leaf, i, k)
           \/ i = Span + 1 /\ SynKnows([key |-> k, value |-> Nil])
           \/ i <= Span /\ j = Span + 1 /\ SynKnows(leaf[Span])
        /\ UNCHANGED vars

InsertIntoSyn(k, v) ==
    LET e == [key |-> k, value |-> v]
    IN  /\ Position(leaf, k) = Span + 1
        /\ ~SynKnows(e)
        /\ StoreInSyn(e)
        /\ hasSyn' = TRUE
        /\ UNCHANGED leaf
        /\ n' = [n EXCEPT !.syn = TheSyn]
        /\ ImageInSyn(k, v)

InsertIntoLeaf(k, v) ==
    LET i == Position(leaf, k)
        j == FirstNull(leaf, i)
    IN  /\ i <= Span
        /\ ~IsAt(leaf, i, k)
        /\ leaf' = ShiftIn(leaf, i, LastSlot(j), [key |-> k, value |-> v])
        /\ \/ /\ j <= Span
              /\ n' = Put(n, k, v)
              /\ UNCHANGED <<syn, hasSyn, s>>
           \/ /\ j = Span + 1
              /\ ~SynKnows(leaf[Span])
              /\ StoreInSyn(leaf[Span])
              /\ hasSyn' = TRUE
              /\ n' = [PutOverflow(n, k, v) EXCEPT !.syn = TheSyn]
              /\ ImageInSyn(LastKey(n), n.rec[LastKey(n)])

\* The re-read of update looks at every slot of the leaf, then of the synonym.
SlotOf(r, k) == CHOOSE i \in 1 .. Span : r[i].key = k
Holds(r, k) == \E i \in 1 .. Span : r[i].key = k
Update(k, v) ==
    \/ /\ Holds(leaf, k)
       /\ leaf' = [leaf EXCEPT ![SlotOf(leaf, k)].value = v]
       /\ n' = Put(n, k, v)
       /\ UNCHANGED <<syn, hasSyn, s>>
    \/ /\ ~Holds(leaf, k)
       /\ hasSyn /\ Holds(syn, k)
       /\ syn' = [syn EXCEPT ![SlotOf(syn, k)].value = v]
       /\ s' = Put(s, k, v)
       /\ UNCHANGED <<leaf, hasSyn, n>>

Next ==
    \/ \E k \in Key : InsertExists(k)
    \/ \E k \in Key, v \in Value :
        InsertIntoSyn(k, v) \/ InsertIntoLeaf(k, v) \/ Update(k, v)

Spec == Init /\ [][Next]_vars
-----------------------------------------------------------------------------
\* The map an array stores.
MapOf(r) == [k \in Key |-> IF Holds(r, k) THEN r[SlotOf(r, k)].value ELSE Nil]

\* The records are a gap-free prefix in strictly increasing key order, which is
\* what the early exits of the scan loops rely on.
SortedPrefix(r) ==
    \A i \in 1 .. (Span - 1) :
        r[i + 1].key # 0 => r[i].key # 0 /\ r[i].key < r[i + 1].key

\* The loops of insert, insert_into_syn_leaf_locally and update keep the records
\* of both leaves sorted without gaps (src/src/Rolex.cpp:341, :428) and compute
\* what LeafImage says, the records a full synonym leaf drops included, and insert
\* gives up on exactly the calls on which LeafImage gives up.
ArraysMatchImages ==
    /\ SortedPrefix(leaf) /\ SortedPrefix(syn)
    /\ MapOf(leaf) = n.rec
    /\ MapOf(syn) = s.rec
    /\ hasSyn <=> n.syn # Nil
    /\ \A k \in Key : GivesUp(n, s, k) <=>
        LET i == Position(leaf, k)
        IN  \/ IsAt(leaf, i, k)
            \/ i = Span + 1 /\ SynKnows([key |-> k, value |-> Nil])
            \/ i <= Span /\ FirstNull(leaf, i) = Span + 1 /\ SynKnows(leaf[Span])
=============================================================================
