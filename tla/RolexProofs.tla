---------------------------- MODULE RolexProofs -----------------------------
(***************************************************************************)
(* Proofs about RolexIndex, for every number of clients, leaves and keys,  *)
(* every span and every answer of the learned cache.  First types and      *)
(* locks, then synonym pointers and the copies of a client that holds a    *)
(* lock, then the order and the size of a leaf and its synonym leaf.       *)
(*                                                                         *)
(* After that, RolexIndex implements the map of KVStore, and the asserts   *)
(* of update never fail, as long as no record has to go into a synonym     *)
(* leaf that is full (insert_into_syn_leaf_locally then loses one): what   *)
(* the write batches do to the stored map; at the end, what the readers    *)
(* see.                                                                    *)
(***************************************************************************)
EXTENDS RolexHistory, TLAPS, FiniteSetTheorems, WellFoundedInduction

\* Zenon first: most leaves are first-order.
USE ZenonT(2), SMTT(40), ZenonT(40)

(* 1. Lemmas about the image operators of LeafImage *)

\* A finite non-empty set of naturals has a largest element: take a
\* counterexample of least cardinality and remove an element.
LEMMA MaxExists ==
    ASSUME NEW S \in SUBSET Nat, IsFiniteSet(S), S # {}
    PROVE  \E m \in S : \A x \in S : x <= m
<1> DEFINE HasMax(T) == \E m \in T : \A x \in T : x <= m
           Bad == {T \in SUBSET S : T # {} /\ ~HasMax(T)}
           Sizes == {Cardinality(T) : T \in Bad}
<1>1. SUFFICES ASSUME ~HasMax(S) PROVE FALSE
  OBVIOUS
<1>2. \A T \in SUBSET S : IsFiniteSet(T) /\ Cardinality(T) \in Nat
  BY FS_Subset, FS_CardinalityType, Zenon
<1>3. Sizes \subseteq Nat
  BY <1>2
<1>4. Sizes # {}
  BY <1>1
<1>5. PICK z \in Sizes : \A y \in Sizes : <<y, z>> \notin OpToRel(<, Nat)
  BY <1>3, <1>4, NatLessThanWellFounded, WFMin, Zenon
<1>6. PICK T \in Bad : z = Cardinality(T)
  BY <1>5, Zenon
<1>7. \A y \in Sizes : ~(y < z)
  BY <1>3, <1>5, Zenon DEF OpToRel
<1>8. PICK e \in T : TRUE
  BY <1>6
<1>9. Cardinality(T \ {e}) = Cardinality(T) - 1
  BY <1>2, <1>8, FS_RemoveElement
<1>10. T \ {e} \notin Bad
  <2>1. SUFFICES ASSUME T \ {e} \in Bad PROVE FALSE
    OBVIOUS
  <2>2. Cardinality(T \ {e}) \in Sizes
    BY <2>1, Zenon
  <2>3. ~(Cardinality(T \ {e}) < z)
    BY <2>2, <1>7
  <2>4. Cardinality(T) \in Nat
    BY <1>2, <1>6
  <2> HIDE DEF Bad, Sizes
  <2>5. QED
    BY <2>3, <2>4, <1>6, <1>9
<1>11. T \in SUBSET S /\ ~HasMax(T)
  BY <1>6
<1>12. CASE T \ {e} = {}
  <2>1. \A x \in T : x <= e
    BY <1>8, <1>11, <1>12
  <2>2. QED
    BY <2>1, <1>8, <1>11
<1>13. CASE T \ {e} # {}
  <2>1. PICK m \in T \ {e} : \A x \in T \ {e} : x <= m
    BY <1>10, <1>11, <1>13
  <2>2. m \in Nat /\ e \in Nat
    BY <1>8, <1>11
  <2>3. \A x \in T : x <= IF m < e THEN e ELSE m
    BY <2>1, <2>2, <1>11
  <2>4. (IF m < e THEN e ELSE m) \in T
    BY <1>8, <2>1
  <2>5. QED
    BY <2>3, <2>4, <1>11
<1>14. QED
  BY <1>12, <1>13

\* The keys of a node are a finite set.
LEMMA KeysFinite ==
    ASSUME NEW n \in Node
    PROVE  /\ KeysOf(n) \subseteq Key
           /\ IsFiniteSet(KeysOf(n))
           /\ Cardinality(KeysOf(n)) \in Nat
<1>1. KeysOf(n) \in SUBSET Key
  BY DEF KeysOf
<1>2. QED
  BY <1>1, KeyAssumption, FS_Subset, FS_CardinalityType

\* The last record of a non-empty node is its largest key.
LEMMA LastKeyMax ==
    ASSUME NEW n \in Node, KeysOf(n) # {}
    PROVE  LastKey(n) \in KeysOf(n) /\ \A x \in KeysOf(n) : x <= LastKey(n)
<1>1. KeysOf(n) \in SUBSET Nat
  BY KeysFinite, KeyAssumption, Zenon
<1>2. \E m \in KeysOf(n) : \A x \in KeysOf(n) : x <= m
  BY <1>1, KeysFinite, MaxExists
<1>3. QED
  BY <1>2 DEF LastKey

\* A full node has a last record.
LEMMA FullNonEmpty ==
    ASSUME NEW n \in Node, Full(n)
    PROVE  KeysOf(n) # {}
BY KeysFinite, FS_EmptySet, SpanAssumption DEF Full

\* Storing a record adds its key and touches nothing else.
LEMMA PutFacts ==
    ASSUME NEW n \in Node, NEW k \in Key, NEW v \in Value
    PROVE  /\ Put(n, k, v) \in Node
           /\ Put(n, k, v).syn = n.syn
           /\ Put(n, k, v).rec = [n.rec EXCEPT ![k] = v]
           /\ KeysOf(Put(n, k, v)) = KeysOf(n) \cup {k}
BY ValueAssumption DEF Put, Node, MaybeValue, KeysOf

\* A zeroed leaf buffer is an empty node.
LEMMA EmptyFacts == EmptyNode \in Node /\ KeysOf(EmptyNode) = {}
BY DEF EmptyNode, Node, MaybeValue, KeysOf

\* A record that goes into a full leaf (not behind its last key) displaces
\* exactly the last one: the node stays as full, and every key it keeps
\* precedes the displaced one.
LEMMA PutOverflowFacts ==
    ASSUME NEW n \in Node, NEW k \in Key, NEW v \in Value,
           Full(n), ~Beyond(n, k), n.rec[k] = Nil
    PROVE  /\ PutOverflow(n, k, v) \in Node
           /\ PutOverflow(n, k, v).syn = n.syn
           /\ PutOverflow(n, k, v).rec =
                  [n.rec EXCEPT ![LastKey(n)] = Nil, ![k] = v]
           /\ LastKey(n) \in Key
           /\ LastKey(n) \in KeysOf(n)
           /\ n.rec[LastKey(n)] \in Value
           /\ KeysOf(PutOverflow(n, k, v)) = (KeysOf(n) \ {LastKey(n)}) \cup {k}
           /\ Cardinality(KeysOf(PutOverflow(n, k, v))) = Cardinality(KeysOf(n))
           /\ \A x \in KeysOf(PutOverflow(n, k, v)) : x < LastKey(n)
<1> DEFINE last == LastKey(n)
           m == PutOverflow(n, k, v)
<1>1. last \in KeysOf(n) /\ \A x \in KeysOf(n) : x <= last
  BY FullNonEmpty, LastKeyMax
<1>2. last \in Key /\ last # k /\ n.rec[last] \in Value
  BY <1>1 DEF KeysOf, Node, MaybeValue
<1> HIDE DEF last
<1>3. /\ m \in Node
      /\ m.syn = n.syn
      /\ m.rec = [n.rec EXCEPT ![last] = Nil, ![k] = v]
      /\ KeysOf(m) = (KeysOf(n) \ {last}) \cup {k}
  BY <1>2, ValueAssumption
     DEF last, PutOverflow, Put, Drop, Node, MaybeValue, KeysOf
<1>4. k \notin KeysOf(n)
  BY DEF KeysOf
<1>5. /\ IsFiniteSet(KeysOf(n) \ {last})
      /\ Cardinality(KeysOf(n) \ {last}) = Cardinality(KeysOf(n)) - 1
  BY <1>1, KeysFinite, FS_RemoveElement
<1>6. Cardinality((KeysOf(n) \ {last}) \cup {k})
          = Cardinality(KeysOf(n) \ {last}) + 1
  BY <1>4, <1>5, FS_AddElement, Zenon
<1>7. Cardinality(KeysOf(m)) = Cardinality(KeysOf(n))
  BY <1>3, <1>5, <1>6, KeysFinite
<1>8. KeysOf(n) \subseteq Nat /\ k \in Nat
  BY KeysFinite, KeyAssumption
<1>9. PICK y \in KeysOf(n) : ~(y < k)
  BY DEF Beyond
<1>10. k < last
  BY <1>1, <1>2, <1>8, <1>9
<1>11. \A x \in KeysOf(m) : x < last
  BY <1>1, <1>3, <1>8, <1>10
<1>12. QED
  BY <1>1, <1>2, <1>3, <1>7, <1>11 DEF last

\* A node with room for one more record is not over-full after it.
LEMMA PutBound ==
    ASSUME NEW n \in Node, NEW k \in Key, NEW v \in Value, ~Full(n)
    PROVE  Cardinality(KeysOf(Put(n, k, v))) <= Span
<1> DEFINE old == Cardinality(KeysOf(n))
           new == Cardinality(KeysOf(Put(n, k, v)))
<1>1. IsFiniteSet(KeysOf(n)) /\ old \in Nat
  BY KeysFinite
<1>2. Cardinality(KeysOf(n) \cup {k}) = IF k \in KeysOf(n) THEN old ELSE old + 1
  BY <1>1, FS_AddElement, Zenon
<1>3. KeysOf(Put(n, k, v)) = KeysOf(n) \cup {k}
  BY PutFacts, Zenon
<1>4. new = IF k \in KeysOf(n) THEN old ELSE old + 1
  BY <1>2, <1>3
<1>5. ~(old >= Span)
  BY DEF Full
<1> HIDE DEF old, new
<1>6. new <= Span
  BY <1>1, <1>4, <1>5, SpanAssumption
<1>7. QED
  BY <1>6 DEF new

\* insert_into_syn_leaf_locally leaves a node behind.
LEMMA PutSynType ==
    ASSUME NEW s \in Node, NEW k \in Key, NEW v \in Value, s.rec[k] = Nil
    PROVE  PutSyn(s, k, v) \in Node
<1>1. CASE ~Full(s)
  BY <1>1, PutFacts, Zenon DEF PutSyn
<1>2. CASE Full(s) /\ Beyond(s, k)
  BY <1>2 DEF PutSyn
<1>3. CASE Full(s) /\ ~Beyond(s, k)
  <2>1. PutOverflow(s, k, v) \in Node
    BY <1>3, PutOverflowFacts, Zenon
  <2>2. QED
    BY <1>3, <2>1 DEF PutSyn
<1>4. QED
  BY <1>1, <1>2, <1>3

\* Whatever insert_into_syn_leaf_locally does to an existing synonym leaf, it
\* remains a leaf of at most Span records, with its own keys and k only.
LEMMA PutSynFacts ==
    ASSUME NEW s \in Node, NEW k \in Key, NEW v \in Value,
           s.rec[k] = Nil, Cardinality(KeysOf(s)) <= Span
    PROVE  /\ PutSyn(s, k, v) \in Node
           /\ PutSyn(s, k, v).syn = s.syn
           /\ KeysOf(PutSyn(s, k, v)) \subseteq KeysOf(s) \cup {k}
           /\ Cardinality(KeysOf(PutSyn(s, k, v))) <= Span
           /\ ~Full(s) => PutSyn(s, k, v) = Put(s, k, v)
<1>1. CASE ~Full(s)
  BY <1>1, PutFacts, PutBound, Zenon DEF PutSyn
<1>2. CASE Full(s) /\ Beyond(s, k)
  BY <1>2 DEF PutSyn
<1>3. CASE Full(s) /\ ~Beyond(s, k)
  <2>1. PutSyn(s, k, v) = PutOverflow(s, k, v)
    BY <1>3 DEF PutSyn
  <2>2. PutOverflow(s, k, v) \in Node
    BY <1>3, PutOverflowFacts, Zenon
  <2>3. PutOverflow(s, k, v).syn = s.syn
    BY DEF PutOverflow, Put, Drop, Node
  <2>4. KeysOf(PutOverflow(s, k, v)) = (KeysOf(s) \ {LastKey(s)}) \cup {k}
    BY <1>3, PutOverflowFacts, Zenon
  <2>5. Cardinality(KeysOf(PutOverflow(s, k, v))) = Cardinality(KeysOf(s))
    BY <1>3, PutOverflowFacts, Zenon
  <2>6. QED
    BY <1>3, <2>1, <2>2, <2>3, <2>4, <2>5
<1>4. QED
  BY <1>1, <1>2, <1>3

-----------------------------------------------------------------------------
(* 2. Types and local state *)

\* What a client's locals are worth at each point of its call.
Local(c) ==
    /\ pc[c] # "idle" => req[c] \in Request
    /\ pc[c] \in {"read", "read_syn"} => req[c].kind # "insert"
    /\ pc[c] # "idle" /\ req[c].kind \in {"insert", "update"} =>
           req[c].val \in Value
    /\ pc[c] \in Holding \cup {"lock"} =>
           /\ la[c] \in Leaf
           /\ addr[c] \in Addr
           /\ req[c].kind \in {"insert", "update"}
           /\ req[c].kind = "insert" =>
                  la[c] = InsertIdx[req[c].key] /\ addr[c] = la[c]
    /\ pc[c] \in {"fetch", "fetch_syn", "apply", "write_syn"} =>
           req[c].kind = "insert"
    /\ pc[c] \in {"update", "abort"} => req[c].kind = "update"
    /\ pc[c] \in {"fetch_syn", "write_syn"} => leafB[c].syn # Nil
    /\ wsyn[c] => /\ pc[c] \in {"write", "write_syn", "unlock"}
                  /\ req[c].kind = "insert"
                  /\ leafB[c].syn # Nil
LocalOK == \A c \in Client : Local(c)

TypeInv == TypeOK /\ LocalOK

\* The constants of the specification have their types.
LEMMA TypeFacts ==
    /\ EmptyNode \in Node
    /\ NoImage \in [Addr -> Node]
    /\ NoReq \in Request \cup {NoReq}
    /\ \A n \in Node : n.syn # Nil => n.syn \in Addr /\ n.syn \in SynAddr
    /\ Leaf \subseteq Addr
    /\ Nil \notin Addr
BY EmptyFacts, LeafAssumption, SynAddrAssumption DEF NoImage, Addr, Node

\* First is the least element of a non-empty set of leaves.
LEMMA FirstMin ==
    ASSUME NEW S \in SUBSET Leaf, S # {}
    PROVE  First(S) \in S
<1>1. S \subseteq Nat
  BY LeafAssumption
<1>2. PICK x \in S : \A y \in S : <<y, x>> \notin OpToRel(<, Nat)
  BY <1>1, NatLessThanWellFounded, WFMin, Zenon
<1>3. \A y \in S : ~(y < x)
  BY <1>1, <1>2, Zenon DEF OpToRel
<1>4. \A y \in S : x <= y
  BY <1>1, <1>3
<1>5. QED
  BY <1>4 DEF First

\* A successful _search names a leaf and, in that leaf or in the synonym its
\* image points to, a node whose image holds the key.
LEMMA FoundFacts ==
    ASSUME NEW c \in Client, NEW k \in Key, img[c] \in [Addr -> Node],
           Found(c, k)
    PROVE  /\ FoundLeaf(c, k) \in Leaf
           /\ FoundNode(c, k) \in Addr
           /\ \/ FoundNode(c, k) = FoundLeaf(c, k)
              \/ /\ img[c][FoundLeaf(c, k)].syn # Nil
                 /\ FoundNode(c, k) = img[c][FoundLeaf(c, k)].syn
           /\ img[c][FoundNode(c, k)].rec[k] # Nil
<1>1. InLeaf(c, k) \in SUBSET Leaf /\ InSyn(c, k) \in SUBSET Leaf
  BY DEF InLeaf, InSyn
<1>2. CASE InLeaf(c, k) # {}
  <2>1. First(InLeaf(c, k)) \in InLeaf(c, k)
    BY <1>1, <1>2, FirstMin
  <2>2. QED
    BY <1>2, <2>1, TypeFacts DEF FoundLeaf, FoundNode, InLeaf
<1>3. CASE InLeaf(c, k) = {}
  <2>1. First(InSyn(c, k)) \in InSyn(c, k)
    BY <1>1, <1>3, FirstMin DEF Found
  <2>2. QED
    BY <1>3, <2>1, TypeFacts, Zenon DEF FoundLeaf, FoundNode, InSyn
<1>4. QED
  BY <1>2, <1>3

\* The synonym copy StoreInSyn leaves.
SynAfter(c, k, v) == IF leafB[c].syn = Nil THEN Put(EmptyNode, k, v)
                     ELSE PutSyn(synB[c], k, v)

\* What StoreInSyn leaves in the client's buffers: a leaf copy n that points
\* to a synonym (the old one, or a newly allocated one) and a synonym copy.
Stores(c, leaf, k, v) ==
    /\ wsyn' = [wsyn EXCEPT ![c] = TRUE]
    /\ used' \subseteq SynAddr
    /\ SynAfter(c, k, v) \in Node
    /\ SynAfter(c, k, v).syn \in {Nil, synB[c].syn}
    /\ synB' = [synB EXCEPT ![c] = SynAfter(c, k, v)]
    /\ \E n \in Node :
          /\ leafB' = [leafB EXCEPT ![c] = n]
          /\ n.rec = leaf.rec
          /\ n.syn # Nil
          /\ \/ /\ leafB[c].syn = Nil
                /\ n.syn \in SynAddr \ used
                /\ used' = used \cup {n.syn}
             \/ /\ leafB[c].syn # Nil
                /\ n = leaf
                /\ used' = used

\* StoreInSyn, called with a copy of the leaf that keeps its pointer.
LEMMA StoreInSynStores ==
    ASSUME TypeInv, NEW c \in Client, NEW leaf \in Node, NEW k \in Key,
           NEW v \in Value, leaf.syn = leafB[c].syn, StoreInSyn(c, leaf, k, v)
    PROVE  Stores(c, leaf, k, v)
<1>1. synB[c] \in Node /\ used \subseteq SynAddr
  BY DEF TypeInv, TypeOK
<1>2. CASE leafB[c].syn = Nil
  <2>1. PICK s \in SynAddr \ used :
            /\ used' = used \cup {s}
            /\ leafB' = [leafB EXCEPT ![c] = [leaf EXCEPT !.syn = s]]
    BY <1>2 DEF StoreInSyn
  <2>2. /\ [leaf EXCEPT !.syn = s] \in Node
        /\ [leaf EXCEPT !.syn = s].syn = s
        /\ [leaf EXCEPT !.syn = s].rec = leaf.rec
    BY SynAddrAssumption DEF Node
  <2>3. Put(EmptyNode, k, v) \in Node
    BY PutFacts, EmptyFacts, Zenon
  <2>4. Put(EmptyNode, k, v).syn = Nil
    BY DEF Put, EmptyNode
  <2>5. synB' = [synB EXCEPT ![c] = Put(EmptyNode, k, v)]
        /\ wsyn' = [wsyn EXCEPT ![c] = TRUE]
    BY <1>2 DEF StoreInSyn
  <2>6. QED
    BY <1>1, <1>2, <2>1, <2>2, <2>3, <2>4, <2>5, SynAddrAssumption, Zenon DEF
       Stores, SynAfter
<1>3. CASE leafB[c].syn # Nil
  <2>1. synB[c].rec[k] = Nil
    BY <1>3 DEF StoreInSyn, KnownInSyn
  <2>2. PutSyn(synB[c], k, v) \in Node
    BY <1>1, <2>1, PutSynType
  <2>3. PutSyn(synB[c], k, v).syn = synB[c].syn
    BY DEF PutSyn, PutOverflow, Put, Drop
  <2>4. /\ leafB' = [leafB EXCEPT ![c] = leaf]
        /\ synB' = [synB EXCEPT ![c] = PutSyn(synB[c], k, v)]
        /\ wsyn' = [wsyn EXCEPT ![c] = TRUE]
        /\ used' = used
    BY <1>3 DEF StoreInSyn
  <2>5. QED
    BY <1>1, <1>3, <2>2, <2>3, <2>4, Zenon DEF Stores, SynAfter
<1>4. QED
  BY <1>2, <1>3

\* The new record goes to the synonym leaf.
LEMMA ApplyToSynStores ==
    ASSUME TypeInv, NEW c \in Client, ApplyToSyn(c)
    PROVE  Stores(c, leafB[c], req[c].key, req[c].val)
<1>1. /\ req[c].key \in Key /\ req[c].val \in Value
      /\ leafB[c] \in Node /\ synB[c] \in Node
  BY DEF TypeInv, TypeOK, LocalOK, Local, ApplyToSyn, Request
<1>2. StoreInSyn(c, leafB[c], req[c].key, req[c].val)
  BY DEF ApplyToSyn
<1>3. QED
  BY <1>1, <1>2, StoreInSynStores

\* The displaced last record goes to the synonym leaf.
LEMMA ApplyOverflowStores ==
    ASSUME TypeInv, NEW c \in Client, ApplyOverflow(c)
    PROVE  Stores(c, PutOverflow(leafB[c], req[c].key, req[c].val),
                  LastKey(leafB[c]), leafB[c].rec[LastKey(leafB[c])])
<1>1. /\ req[c].key \in Key /\ req[c].val \in Value
      /\ leafB[c] \in Node /\ synB[c] \in Node
  BY DEF TypeInv, TypeOK, LocalOK, Local, ApplyOverflow, Request
<1>2. /\ Full(leafB[c]) /\ ~Beyond(leafB[c], req[c].key)
      /\ leafB[c].rec[req[c].key] = Nil
  BY DEF ApplyOverflow
<1>3. /\ PutOverflow(leafB[c], req[c].key, req[c].val) \in Node
      /\ LastKey(leafB[c]) \in Key
      /\ leafB[c].rec[LastKey(leafB[c])] \in Value
  BY <1>1, <1>2, PutOverflowFacts, Zenon
<1>4. PutOverflow(leafB[c], req[c].key, req[c].val).syn = leafB[c].syn
  BY DEF PutOverflow, Put, Drop
<1>5. StoreInSyn(c, PutOverflow(leafB[c], req[c].key, req[c].val),
                 LastKey(leafB[c]), leafB[c].rec[LastKey(leafB[c])])
  BY DEF ApplyOverflow
<1>6. QED
  BY <1>3, <1>4, <1>5, StoreInSynStores

\* Client d's locals that the invariants speak of are left alone.
Untouched(d) ==
    /\ pc'[d] = pc[d] /\ req'[d] = req[d] /\ img'[d] = img[d]
    /\ la'[d] = la[d] /\ addr'[d] = addr[d]
    /\ leafB'[d] = leafB[d] /\ synB'[d] = synB[d] /\ wsyn'[d] = wsyn[d]

\* No step of a client touches another client's locals.
LEMMA OthersUntouched ==
    ASSUME TypeInv, NEW c \in Client, Call(c) \/ Step(c),
           NEW d \in Client, d # c
    PROVE  Untouched(d)
<1> USE DEF TypeInv, TypeOK, Untouched, readVars, bufVars
<1>1. ASSUME NEW k \in Key, NEW v \in Value, InsertStart(c, k, v)
      PROVE  Untouched(d)
  BY <1>1 DEF InsertStart, Accept
<1>2. ASSUME NEW r, NEW lo, NEW hi, StartReading(c, r, lo, hi)
      PROVE  Untouched(d)
  BY <1>2 DEF StartReading, Accept
<1>3. CASE Call(c)
  BY <1>1, <1>2, <1>3, Zenon DEF Call, UpdateStart, SearchStart, RangeStart
<1>4. ASSUME NEW a \in Addr, FetchNode(c, a) PROVE Untouched(d)
  BY <1>4 DEF FetchNode
<1>5. CASE Return(c)
  BY <1>5 DEF Return
<1>6. CASE SearchReturn(c) \/ RangeReturn(c) \/ UpdateMiss(c) \/ Unlock(c)
  BY <1>5, <1>6 DEF SearchReturn, RangeReturn, UpdateMiss, Unlock
<1>7. CASE AppendSynonyms(c)
  BY <1>7 DEF AppendSynonyms, Goto
<1>8. CASE UpdateFound(c)
  BY <1>8 DEF UpdateFound, Goto
<1>9. CASE LockNode(c)
  BY <1>9 DEF LockNode, Goto
<1>10. CASE InsertFetch(c)
  BY <1>10 DEF InsertFetch, Goto
<1>11. CASE InsertFetchSyn(c)
  BY <1>11 DEF InsertFetchSyn, Goto
<1>12. CASE ApplyNothing(c)
  BY <1>12 DEF ApplyNothing, Goto
<1>13. CASE ApplyToLeaf(c)
  BY <1>13 DEF ApplyToLeaf, Goto
<1>14. ASSUME NEW leaf, NEW k, NEW v, StoreInSyn(c, leaf, k, v)
       PROVE  /\ wsyn'[d] = wsyn[d] /\ leafB'[d] = leafB[d]
              /\ synB'[d] = synB[d]
  BY <1>14 DEF StoreInSyn
<1>15. CASE ApplyToSyn(c)
  BY <1>14, <1>15 DEF ApplyToSyn, Goto
<1>16. CASE ApplyOverflow(c)
  BY <1>14, <1>16 DEF ApplyOverflow, Goto
<1>17. CASE UpdateFetch(c)
  BY <1>17 DEF UpdateFetch, Goto
<1>18. CASE UpdateReadAnother(c)
  BY <1>18 DEF UpdateReadAnother, Goto
<1>19. CASE WriteNode(c)
  BY <1>19 DEF WriteNode, Goto
<1>20. CASE WriteSyn(c)
  BY <1>20 DEF WriteSyn, Goto
<1>21. QED
  BY <1>3, <1>4, <1>6, <1>7, <1>8, <1>9, <1>10, <1>11, <1>12, <1>13, <1>15,
     <1>16, <1>17, <1>18, <1>19, <1>20 DEF Step

\* So what Local says of them is kept.
LEMMA OthersLocal ==
    ASSUME TypeInv, NEW c \in Client, Call(c) \/ Step(c),
           NEW d \in Client, d # c
    PROVE  Local(d)'
BY OthersUntouched DEF TypeInv, LocalOK, Local, Untouched

\* The type invariant holds initially.
LEMMA TypeInvInit == Init => TypeInv
BY TypeFacts DEF Init, TypeInv, TypeOK, LocalOK, Local, PCs, Holding

\* Every step preserves it.
LEMMA TypeInvNext == TypeInv /\ [Next]_vars => TypeInv'
<1> SUFFICES ASSUME TypeInv, [Next]_vars PROVE TypeInv'
  OBVIOUS
<1>1. ASSUME NEW c \in Client, NEW k \in Key, NEW v \in Value,
             InsertStart(c, k, v)
      PROVE  TypeOK' /\ Local(c)'
  BY <1>1, TypeFacts, CacheAssumption, Zenon DEF TypeInv, TypeOK, LocalOK,
     Local, InsertStart, Accept, bufVars, readVars, Request, Kinds, PCs,
     Holding, Addr, MaybeValue
<1>2. ASSUME NEW c \in Client, NEW k \in Key, NEW v \in Value,
             UpdateStart(c, k, v)
      PROVE  TypeOK' /\ Local(c)'
  BY <1>2, TypeFacts DEF TypeInv, TypeOK, LocalOK, Local, UpdateStart, StartReading,
     Accept, LeafRange, bufVars,
     Request, Kinds, PCs, Holding, Addr, MaybeValue
<1>3. ASSUME NEW c \in Client, NEW k \in Key, SearchStart(c, k)
      PROVE  TypeOK' /\ Local(c)'
  BY <1>3, TypeFacts DEF TypeInv, TypeOK, LocalOK, Local, SearchStart, StartReading,
     Accept, LeafRange, bufVars,
     Request, Kinds, PCs, Holding, Addr, MaybeValue
<1>4. ASSUME NEW c \in Client, NEW k \in Key, NEW to \in Key,
             RangeStart(c, k, to)
      PROVE  TypeOK' /\ Local(c)'
  BY <1>4, TypeFacts DEF TypeInv, TypeOK, LocalOK, Local, RangeStart, StartReading,
     Accept, LeafRange, bufVars,
     Request, Kinds, PCs, Holding, Addr, MaybeValue
<1>5. ASSUME NEW c \in Client, NEW a \in Addr, FetchNode(c, a)
      PROVE  TypeOK' /\ Local(c)'
  BY <1>5, TypeFacts DEF TypeInv, TypeOK, LocalOK, Local, FetchNode, Goto, bufVars,
     readVars, PCs, Holding
<1>6. ASSUME NEW c \in Client, AppendSynonyms(c)
      PROVE  TypeOK' /\ Local(c)'
  BY <1>6, TypeFacts DEF TypeInv, TypeOK, LocalOK, Local, AppendSynonyms, Goto,
     bufVars, readVars, PCs, Holding
<1>7. ASSUME NEW c \in Client, SearchReturn(c)
      PROVE  TypeOK' /\ Local(c)'
  BY <1>7, TypeFacts DEF TypeInv, TypeOK, LocalOK, Local, SearchReturn, Return, PCs,
     Holding
<1>8. ASSUME NEW c \in Client, RangeReturn(c)
      PROVE  TypeOK' /\ Local(c)'
  BY <1>8, TypeFacts DEF TypeInv, TypeOK, LocalOK, Local, RangeReturn, Return, PCs,
     Holding
<1>9. ASSUME NEW c \in Client, UpdateMiss(c)
      PROVE  TypeOK' /\ Local(c)'
  BY <1>9, TypeFacts DEF TypeInv, TypeOK, LocalOK, Local, UpdateMiss, Return, PCs,
     Holding
<1>10. ASSUME NEW c \in Client, UpdateFound(c)
      PROVE  TypeOK' /\ Local(c)'
  <2>1. req[c].key \in Key /\ img[c] \in [Addr -> Node]
    BY <1>10 DEF TypeInv, TypeOK, LocalOK, Local, UpdateFound, HasRead, Request
  <2>2. FoundLeaf(c, req[c].key) \in Leaf /\ FoundNode(c, req[c].key) \in Addr
    BY <1>10, <2>1, FoundFacts DEF UpdateFound
  <2>3. QED
    BY <1>10, <2>2, TypeFacts DEF TypeInv, TypeOK, LocalOK, Local, UpdateFound,
       HasRead, Goto, PCs, Holding
<1>11. ASSUME NEW c \in Client, LockNode(c)
      PROVE  TypeOK' /\ Local(c)'
  BY <1>11, TypeFacts, Zenon DEF TypeInv, TypeOK, LocalOK, Local, LockNode,
     Goto, bufVars, readVars, PCs, Holding
<1>12. ASSUME NEW c \in Client, InsertFetch(c)
      PROVE  TypeOK' /\ Local(c)'
  BY <1>12, TypeFacts, Zenon DEF TypeInv, TypeOK, LocalOK, Local, InsertFetch,
     Goto, bufVars, readVars, PCs, Holding
<1>13. ASSUME NEW c \in Client, InsertFetchSyn(c)
      PROVE  TypeOK' /\ Local(c)'
  BY <1>13, TypeFacts, Zenon DEF TypeInv, TypeOK, LocalOK, Local,
     InsertFetchSyn, Goto, bufVars, readVars, PCs, Holding
<1>14. ASSUME NEW c \in Client, ApplyNothing(c)
      PROVE  TypeOK' /\ Local(c)'
  BY <1>14, TypeFacts DEF TypeInv, TypeOK, LocalOK, Local, ApplyNothing, Goto,
     bufVars, readVars, PCs, Holding
<1>15. ASSUME NEW c \in Client, ApplyToLeaf(c)
      PROVE  TypeOK' /\ Local(c)'
  <2>1. req[c].key \in Key /\ req[c].val \in Value /\ leafB[c] \in Node
    BY <1>15 DEF TypeInv, TypeOK, LocalOK, Local, ApplyToLeaf, Request
  <2>2. Put(leafB[c], req[c].key, req[c].val) \in Node
    BY <2>1, PutFacts, Zenon
  <2>3. QED
    BY <1>15, <2>2, TypeFacts, Zenon DEF TypeInv, TypeOK, LocalOK, Local,
       ApplyToLeaf, Goto, readVars, PCs, Holding
<1>16. ASSUME NEW c \in Client, ApplyToSyn(c)
      PROVE  TypeOK' /\ Local(c)'
  <2>1. Stores(c, leafB[c], req[c].key, req[c].val)
    BY <1>16, ApplyToSynStores
  <2>2. /\ wsyn' = [wsyn EXCEPT ![c] = TRUE]
        /\ used' \subseteq SynAddr
        /\ \E n \in Node : n.syn # Nil /\ leafB' = [leafB EXCEPT ![c] = n]
        /\ \E s \in Node : synB' = [synB EXCEPT ![c] = s]
    BY <2>1, Zenon DEF Stores
  <2>3. /\ pc[c] = "apply" /\ req' = req
        /\ pc' = [pc EXCEPT ![c] = IF leafB[c].syn = Nil THEN "write"
                                   ELSE "write_syn"]
        /\ UNCHANGED <<mem, lock, batch, img, la, addr>>
    BY <1>16 DEF ApplyToSyn, Goto, readVars
  <2>4. TypeOK'
    BY <2>2, <2>3 DEF TypeInv, TypeOK, PCs
  <2>5. Local(c)'
    BY <2>2, <2>3 DEF TypeInv, TypeOK, LocalOK, Local, Holding
  <2>6. QED
    BY <2>4, <2>5
<1>17. ASSUME NEW c \in Client, ApplyOverflow(c)
      PROVE  TypeOK' /\ Local(c)'
  <2>1. Stores(c, PutOverflow(leafB[c], req[c].key, req[c].val),
                 LastKey(leafB[c]), leafB[c].rec[LastKey(leafB[c])])
    BY <1>17, ApplyOverflowStores
  <2>2. /\ wsyn' = [wsyn EXCEPT ![c] = TRUE]
        /\ used' \subseteq SynAddr
        /\ \E n \in Node : n.syn # Nil /\ leafB' = [leafB EXCEPT ![c] = n]
        /\ \E s \in Node : synB' = [synB EXCEPT ![c] = s]
    BY <2>1, Zenon DEF Stores
  <2>3. /\ pc[c] = "apply" /\ req' = req
        /\ pc' = [pc EXCEPT ![c] = "write"]
        /\ UNCHANGED <<mem, lock, batch, img, la, addr>>
    BY <1>17 DEF ApplyOverflow, Goto, readVars
  <2>4. TypeOK'
    BY <2>2, <2>3 DEF TypeInv, TypeOK, PCs
  <2>5. Local(c)'
    BY <2>2, <2>3 DEF TypeInv, TypeOK, LocalOK, Local, Holding
  <2>6. QED
    BY <2>4, <2>5
<1>18. ASSUME NEW c \in Client, UpdateFetch(c)
      PROVE  TypeOK' /\ Local(c)'
  <2>1. /\ req[c].key \in Key /\ req[c].val \in Value
        /\ mem[addr[c]] \in Node
    BY <1>18 DEF TypeInv, TypeOK, LocalOK, Local, UpdateFetch, Request, Holding
  <2>2. Put(mem[addr[c]], req[c].key, req[c].val) \in Node
    BY <2>1, PutFacts, Zenon
  <2>3. QED
    BY <1>18, <2>2, TypeFacts DEF TypeInv, TypeOK, LocalOK, Local, UpdateFetch,
       Goto, readVars, PCs, Holding
<1>19. ASSUME NEW c \in Client, UpdateReadAnother(c)
      PROVE  TypeOK' /\ Local(c)'
  BY <1>19, TypeFacts DEF TypeInv, TypeOK, LocalOK, Local, UpdateReadAnother, Goto,
     bufVars, readVars, PCs, Holding
<1>20. ASSUME NEW c \in Client, WriteNode(c)
      PROVE  TypeOK' /\ Local(c)'
  BY <1>20, TypeFacts DEF TypeInv, TypeOK, LocalOK, Local, WriteNode, Goto, bufVars,
     readVars, PCs, Holding
<1>21. ASSUME NEW c \in Client, WriteSyn(c)
      PROVE  TypeOK' /\ Local(c)'
  BY <1>21, TypeFacts DEF TypeInv, TypeOK, LocalOK, Local, WriteSyn, Goto, bufVars,
     readVars, PCs, Holding
<1>22. ASSUME NEW c \in Client, Unlock(c)
      PROVE  TypeOK' /\ Local(c)'
  BY <1>22, TypeFacts DEF TypeInv, TypeOK, LocalOK, Local, Unlock, Return, PCs,
     Holding
<1>30. CASE UNCHANGED vars
  BY <1>30 DEF TypeInv, TypeOK, LocalOK, Local, vars, bufVars, readVars
<1>31. ASSUME NEW c \in Client, Call(c) PROVE TypeOK' /\ Local(c)'
  BY <1>1, <1>2, <1>3, <1>4, <1>31 DEF Call
<1>32. ASSUME NEW c \in Client, Step(c) PROVE TypeOK' /\ Local(c)'
  BY <1>5, <1>6, <1>7, <1>8, <1>9, <1>10, <1>11, <1>12, <1>13, <1>14, <1>15,
     <1>16, <1>17, <1>18, <1>19, <1>20, <1>21, <1>22, <1>32 DEF Step
<1>33. ASSUME NEW c \in Client, Call(c) \/ Step(c) PROVE TypeInv'
  <2>1. ASSUME NEW d \in Client PROVE Local(d)'
    BY <1>31, <1>32, <1>33, OthersLocal
  <2>2. QED
    BY <1>31, <1>32, <1>33, <2>1 DEF TypeInv, LocalOK
<1>34. QED
  BY <1>30, <1>33 DEF Next
-----------------------------------------------------------------------------
(* 3. The lock word *)

\* Only LockNode sets a lock word and only Unlock clears one; every other step
\* leaves the locks, and who is between the two, as they are.
LEMMA LockFrame ==
    ASSUME TypeInv, NEW c \in Client, Call(c) \/ Step(c),
           ~LockNode(c), ~Unlock(c)
    PROVE  /\ lock' = lock
           /\ pc'[c] \in Holding <=> pc[c] \in Holding
           /\ pc[c] \in Holding => la'[c] = la[c]
<1> USE DEF TypeInv, TypeOK, readVars, bufVars, Holding
<1>1. CASE \E k \in Key, v \in Value : InsertStart(c, k, v)
  BY <1>1 DEF InsertStart, Accept
<1>2. CASE \E r, lo, hi : StartReading(c, r, lo, hi)
  BY <1>2 DEF StartReading, Accept
<1>3. CASE Call(c)
  BY <1>1, <1>2, <1>3, Zenon DEF Call, UpdateStart, SearchStart, RangeStart
<1>4. CASE \E a \in Addr : FetchNode(c, a)
  BY <1>4 DEF FetchNode
<1>5. CASE SearchReturn(c) \/ RangeReturn(c) \/ UpdateMiss(c)
  BY <1>5 DEF SearchReturn, RangeReturn, UpdateMiss, HasRead, Return
<1>6. CASE AppendSynonyms(c)
  BY <1>6 DEF AppendSynonyms, Goto
<1>7. CASE UpdateFound(c)
  BY <1>7 DEF UpdateFound, HasRead, Goto
<1>8. CASE InsertFetch(c) \/ InsertFetchSyn(c) \/ ApplyNothing(c)
  BY <1>8 DEF InsertFetch, InsertFetchSyn, ApplyNothing, Goto
<1>9. CASE ApplyToLeaf(c)
  BY <1>9 DEF ApplyToLeaf, Goto
<1>10. CASE ApplyToSyn(c) \/ ApplyOverflow(c)
  BY <1>10 DEF ApplyToSyn, ApplyOverflow, Goto
<1>11. CASE UpdateFetch(c) \/ UpdateReadAnother(c)
  BY <1>11 DEF UpdateFetch, UpdateReadAnother, Goto
<1>12. CASE WriteNode(c) \/ WriteSyn(c)
  BY <1>12 DEF WriteNode, WriteSyn, Goto
<1>13. QED
  BY <1>3, <1>4, <1>5, <1>6, <1>7, <1>8, <1>9, <1>10, <1>11, <1>12 DEF Step

\* Every step preserves mutual exclusion.
LEMMA LockNext == TypeInv /\ LockExclusion /\ [Next]_vars => LockExclusion'
<1> SUFFICES ASSUME TypeInv, LockExclusion, [Next]_vars PROVE LockExclusion'
  OBVIOUS
<1>1. ASSUME NEW c \in Client, Call(c) \/ Step(c) PROVE LockExclusion'
  <2>1. \A d \in Client, a \in Leaf : d # c => (Holds(d, a)' <=> Holds(d, a))
    BY <1>1, OthersUntouched DEF Holds, Untouched
  <2>2. CASE LockNode(c)
    <3>1. /\ pc[c] = "lock" /\ la[c] \in Leaf /\ ~lock[la[c]]
          /\ lock' = [lock EXCEPT ![la[c]] = TRUE]
          /\ la'[c] = la[c] /\ pc'[c] \in Holding
      BY <2>2 DEF TypeInv, TypeOK, LocalOK, Local, LockNode, Goto, bufVars, Holding
    <3>2. \A a \in Leaf : ~Holds(c, a) /\ (Holds(c, a)' <=> a = la[c])
      BY <3>1 DEF Holds, Holding
    <3>3. \A d \in Client : ~Holds(d, la[c])
      BY <3>1 DEF LockExclusion
    <3>4. \A a \in Leaf : lock'[a] <=> (a = la[c] \/ lock[a])
      BY <3>1 DEF TypeInv, TypeOK
    <3>5. QED
      BY <2>1, <3>1, <3>2, <3>3, <3>4 DEF LockExclusion
  <2>3. CASE Unlock(c)
    <3>1. /\ pc[c] \in Holding /\ la[c] \in Leaf /\ pc'[c] \notin Holding
          /\ lock' = [lock EXCEPT ![la[c]] = FALSE]
      BY <2>3 DEF TypeInv, TypeOK, LocalOK, Local, Unlock, Return, Holding
    <3>2. \A a \in Leaf : ~Holds(c, a)' /\ (Holds(c, a) <=> a = la[c])
      BY <3>1 DEF Holds
    <3>3. \A a \in Leaf : lock'[a] <=> (a # la[c] /\ lock[a])
      BY <3>1 DEF TypeInv, TypeOK
    <3>4. QED
      BY <2>1, <3>1, <3>2, <3>3 DEF LockExclusion
  <2>4. CASE ~LockNode(c) /\ ~Unlock(c)
    <3>1. lock' = lock /\ \A a \in Leaf : Holds(c, a)' <=> Holds(c, a)
      BY <1>1, <2>4, LockFrame DEF Holds
    <3>2. QED
      BY <2>1, <3>1 DEF LockExclusion
  <2>5. QED
    BY <2>2, <2>3, <2>4
<1>2. CASE UNCHANGED vars
  BY <1>2 DEF LockExclusion, Holds, vars, bufVars
<1>3. QED
  BY <1>1, <1>2 DEF Next

\* The type invariant of RolexIndex (with what LocalOK adds) always holds.
THEOREM TypeCorrect == Spec => []TypeOK
<1>1. TypeInv => TypeOK
  BY DEF TypeInv
<1>2. QED
  BY <1>1, TypeInvInit, TypeInvNext, PTL DEF Spec

\* Mutual exclusion on every leaf, and no lock leaked or released twice, for
\* any number of clients.
THEOREM MutualExclusion == Spec => []LockExclusion
<1>1. Init => LockExclusion
  BY DEF Init, LockExclusion, Holds, Holding
<1>2. QED
  BY <1>1, TypeInvInit, TypeInvNext, LockNext, PTL DEF Spec

-----------------------------------------------------------------------------
(* 4. Synonym pointers, and the local copies of a client that holds a lock *)

\* A synonym leaf has no synonym of its own.
SynHasNoSyn == \A s \in SynAddr : mem[s].syn = Nil

\* A pointer in memory was allocated, for one leaf only.
PtrsUsed == \A a \in Leaf : mem[a].syn # Nil => mem[a].syn \in used
PtrsDistinct ==
    \A a, b \in Leaf : mem[a].syn # Nil /\ mem[a].syn = mem[b].syn => a = b

MemPtrs == SynHasNoSyn /\ PtrsUsed /\ PtrsDistinct

\* A pointer a search has read is still in memory.
ImagePtrs(c) ==
    \A a \in Leaf : img[c][a].syn # Nil => mem[a].syn = img[c][a].syn

\* The node a client re-reads and writes is its locked leaf or that leaf's
\* synonym.
AddrInChain(c) ==
    pc[c] \in Holding \cup {"lock"} =>
        addr[c] = la[c] \/ addr[c] = mem[la[c]].syn

\* A copy about to be written never changes a pointer that is set; one that is
\* about to be set belongs to no other leaf.
CopyPtrs(c) ==
    pc[c] = "write" =>
        /\ addr[c] = la[c] /\ mem[la[c]].syn # Nil =>
               leafB[c].syn = mem[la[c]].syn
        /\ addr[c] # la[c] => leafB[c].syn = Nil
        /\ leafB[c].syn # Nil =>
               /\ leafB[c].syn \in used
               /\ \A b \in Leaf : mem[b].syn = leafB[c].syn => b = la[c]

\* CopiesCurrent, for one client.
Current(c) ==
    /\ pc[c] \in {"fetch_syn", "apply"} => leafB[c] = mem[la[c]]
    /\ pc[c] = "apply" /\ leafB[c].syn # Nil => synB[c] = mem[leafB[c].syn]
    /\ pc[c] = "write_syn" => leafB[c] = mem[la[c]]

ClientPtrs(c) ==
    /\ synB[c].syn = Nil
    /\ ImagePtrs(c)
    /\ AddrInChain(c)
    /\ CopyPtrs(c)
    /\ Current(c)

\* Clients about to set a pointer set different ones.
FreshPtrs ==
    \A c, d \in Client :
        /\ pc[c] = "write" /\ pc[d] = "write"
        /\ leafB[c].syn # Nil /\ leafB[c].syn = leafB[d].syn
        => la[c] = la[d]

PtrInv == MemPtrs /\ FreshPtrs /\ \A c \in Client : ClientPtrs(c)

BaseInv == TypeInv /\ LockExclusion /\ PtrInv

\* Two clients that hold locks hold the locks of different leaves.
LEMMA Elsewhere ==
    ASSUME BaseInv, NEW c \in Client, NEW d \in Client, c # d,
           pc[c] \in Holding, pc[d] \in Holding
    PROVE  la[c] # la[d]
BY DEF BaseInv, TypeInv, LocalOK, Local, LockExclusion, Holds

\* A step that writes no node: memory's pointers stay, and so does what the
\* other clients know.
LEMMA QuietMem ==
    ASSUME BaseInv, mem' = mem, used \subseteq used'
    PROVE  MemPtrs'
BY DEF BaseInv, PtrInv, MemPtrs, SynHasNoSyn, PtrsUsed, PtrsDistinct

\* A step that writes no node leaves another client's pointers good.
LEMMA QuietOther ==
    ASSUME BaseInv, mem' = mem, used \subseteq used',
           NEW d \in Client, Untouched(d)
    PROVE  ClientPtrs(d)'
BY DEF BaseInv, PtrInv, ClientPtrs, ImagePtrs, AddrInChain, CopyPtrs, Current,
   Untouched

\* The pointer in a copy that is about to be written is memory's, or new.
LEMMA FreshStep ==
    ASSUME BaseInv, NEW c \in Client, NEW n \in Node,
           \A d \in Client : d # c => Untouched(d),
           la'[c] = la[c], la[c] \in Leaf,
           pc'[c] = "write" =>
               /\ leafB'[c] = n
               /\ n.syn \in {Nil, mem[la[c]].syn} \/ n.syn \notin used
    PROVE  FreshPtrs'
<1>1. SUFFICES ASSUME NEW d \in Client, d # c, pc'[c] = "write",
                      pc'[d] = "write", n.syn # Nil, n.syn = leafB[d].syn
               PROVE  la[c] = la[d]
  BY DEF FreshPtrs, BaseInv, PtrInv, Untouched
<1>2. CopyPtrs(d) /\ pc[d] = "write"
  BY <1>1 DEF BaseInv, PtrInv, ClientPtrs, Untouched
<1>3. n.syn \in used /\ \A b \in Leaf : mem[b].syn = n.syn => b = la[d]
  BY <1>1, <1>2 DEF CopyPtrs
<1>4. QED
  BY <1>1, <1>3

\* The step is accounted for once the client's own part is.
LEMMA QuietStep ==
    ASSUME BaseInv, NEW c \in Client, Call(c) \/ Step(c),
           mem' = mem, used \subseteq used', FreshPtrs', ClientPtrs(c)'
    PROVE  PtrInv'
<1>1. ASSUME NEW d \in Client, d # c PROVE ClientPtrs(d)'
  BY <1>1, OthersUntouched, QuietOther DEF BaseInv
<1>2. QED
  BY <1>1, QuietMem DEF PtrInv

\* Steps after which the client is not about to write.
LEMMA QuietFresh ==
    ASSUME BaseInv, NEW c \in Client, Call(c) \/ Step(c), pc'[c] # "write"
    PROVE  FreshPtrs'
<1>1. \A d \in Client : d # c => Untouched(d)
  BY OthersUntouched DEF BaseInv
<1>2. QED
  BY <1>1 DEF FreshPtrs, BaseInv, PtrInv, Untouched

\* A call begins, a node is read into an image, or a call ends.
LEMMA PtrReads ==
    ASSUME BaseInv, NEW c \in Client,
           \/ Call(c)
           \/ \E a \in Addr : FetchNode(c, a)
           \/ AppendSynonyms(c) \/ SearchReturn(c) \/ RangeReturn(c)
           \/ UpdateMiss(c) \/ Unlock(c)
    PROVE  PtrInv'
<1>1. ClientPtrs(c) /\ la[c] \in Leaf \cup {Nil} /\ pc[c] \in PCs
  BY DEF BaseInv, PtrInv, TypeInv, TypeOK
<1>2. /\ mem' = mem /\ used' = used
      /\ pc'[c] \in {"idle", "lock", "read", "read_syn"}
      /\ synB'[c].syn = Nil
      /\ ImagePtrs(c)'
      /\ pc'[c] = "lock" => addr'[c] = la'[c]
  <2> USE DEF BaseInv, TypeInv, TypeOK, ClientPtrs, ImagePtrs
  <2>1. CASE \E k \in Key, v \in Value : InsertStart(c, k, v)
    BY <1>1, <2>1 DEF InsertStart, Accept, readVars
  <2>2. CASE \E r, lo, hi : StartReading(c, r, lo, hi)
    BY <1>1, <2>2 DEF StartReading, Accept, bufVars
  <2>3. CASE Call(c)
    BY <2>1, <2>2, <2>3, Zenon DEF Call, UpdateStart, SearchStart, RangeStart
  <2>4. CASE \E a \in Addr : FetchNode(c, a)
    BY <1>1, <2>4, TypeFacts DEF FetchNode, bufVars
  <2>5. CASE AppendSynonyms(c)
    BY <1>1, <2>5 DEF AppendSynonyms, Goto, bufVars
  <2>6. CASE SearchReturn(c) \/ RangeReturn(c) \/ UpdateMiss(c) \/ Unlock(c)
    <3>1. Return(c) /\ mem' = mem /\ used' = used
      BY <2>6 DEF SearchReturn, RangeReturn, UpdateMiss, Unlock
    <3>2. /\ pc'[c] = "idle" /\ synB'[c] = EmptyNode /\ img'[c] = NoImage
      BY <3>1 DEF Return
    <3>3. EmptyNode.syn = Nil /\ \A a \in Leaf : NoImage[a].syn = Nil
      BY TypeFacts DEF EmptyNode, NoImage
    <3>4. QED
      BY <3>1, <3>2, <3>3
  <2>7. QED
    BY <2>3, <2>4, <2>5, <2>6
<1>3. ClientPtrs(c)'
  BY <1>2 DEF ClientPtrs, AddrInChain, CopyPtrs, Current, Holding
<1>4. Call(c) \/ Step(c)
  BY DEF Step
<1>5. FreshPtrs'
  BY <1>2, <1>4, QuietFresh
<1>6. QED
  BY <1>2, <1>3, <1>4, <1>5, QuietStep

\* update leaves _search with the leaf and the node it found.
LEMMA PtrUpdateFound ==
    ASSUME BaseInv, NEW c \in Client, UpdateFound(c)
    PROVE  PtrInv'
<1> DEFINE l == FoundLeaf(c, req[c].key)
           f == FoundNode(c, req[c].key)
<1>1. /\ req[c].key \in Key /\ img[c] \in [Addr -> Node]
      /\ Found(c, req[c].key) /\ ClientPtrs(c)
  BY DEF BaseInv, PtrInv, TypeInv, TypeOK, LocalOK, Local, UpdateFound,
     HasRead, Request
<1>2. l \in Leaf
  BY <1>1, FoundFacts
<1>3. f = l \/ (img[c][l].syn # Nil /\ f = img[c][l].syn)
  BY <1>1, FoundFacts
<1>4. f = l \/ f = mem[l].syn
  BY <1>1, <1>2, <1>3 DEF ClientPtrs, ImagePtrs
<1> HIDE DEF l, f
<1>5. /\ mem' = mem /\ used' = used /\ pc'[c] = "lock"
      /\ la'[c] = l /\ addr'[c] = f /\ synB'[c] = synB[c] /\ img'[c] = NoImage
  BY DEF UpdateFound, Goto, BaseInv, TypeInv, TypeOK, l, f
<1>6. ImagePtrs(c)'
  BY <1>5, TypeFacts DEF ImagePtrs, NoImage, EmptyNode
<1>7. ClientPtrs(c)'
  BY <1>1, <1>4, <1>5, <1>6
     DEF ClientPtrs, AddrInChain, CopyPtrs, Current, Holding
<1>8. Step(c)
  BY DEF Step
<1>9. FreshPtrs'
  BY <1>5, <1>8, QuietFresh
<1>10. QED
  BY <1>5, <1>7, <1>8, <1>9, QuietStep

\* Locking and reading again under the lock.
LEMMA PtrLocked ==
    ASSUME BaseInv, NEW c \in Client,
           LockNode(c) \/ InsertFetch(c) \/ InsertFetchSyn(c) \/ ApplyNothing(c)
    PROVE  PtrInv'
<1>1. ClientPtrs(c) /\ Local(c) /\ mem \in [Addr -> Node]
  BY DEF BaseInv, PtrInv, TypeInv, TypeOK, LocalOK
<1>2. /\ mem' = mem /\ used' = used
      /\ pc[c] \in Holding \cup {"lock"}
      /\ la'[c] = la[c] /\ addr'[c] = addr[c] /\ img'[c] = img[c]
      /\ pc'[c] # "write" /\ pc'[c] # "write_syn"
  BY DEF BaseInv, TypeInv, TypeOK, LockNode, InsertFetch, InsertFetchSyn,
     ApplyNothing, Goto, bufVars, readVars, Holding
<1>3. synB'[c].syn = Nil /\ Current(c)'
  <2>1. CASE LockNode(c)
    BY <1>1, <2>1 DEF BaseInv, TypeInv, TypeOK, LockNode, Goto, bufVars,
       Current, ClientPtrs
  <2>2. CASE InsertFetch(c)
    <3>1. /\ leafB'[c] = mem[la[c]] /\ synB'[c] = synB[c] /\ la'[c] = la[c]
          /\ pc'[c] = (IF mem[la[c]].syn = Nil THEN "apply" ELSE "fetch_syn")
      BY <2>2 DEF BaseInv, TypeInv, TypeOK, InsertFetch, Goto
    <3>2. QED
      BY <1>1, <1>2, <3>1 DEF Current, ClientPtrs
  <2>3. CASE InsertFetchSyn(c)
    <3>1. /\ pc[c] = "fetch_syn" /\ synB'[c] = mem[leafB[c].syn]
          /\ pc'[c] = "apply" /\ leafB'[c] = leafB[c]
      BY <2>3 DEF BaseInv, TypeInv, TypeOK, InsertFetchSyn, Goto
    <3>2. leafB[c].syn \in SynAddr
      BY <1>1, <3>1, TypeFacts DEF Local, BaseInv, TypeInv, TypeOK
    <3>3. mem[leafB[c].syn].syn = Nil
      BY <3>2 DEF BaseInv, PtrInv, MemPtrs, SynHasNoSyn
    <3>4. QED
      BY <1>1, <1>2, <3>1, <3>3 DEF Current, ClientPtrs
  <2>4. CASE ApplyNothing(c)
    BY <1>1, <2>4 DEF BaseInv, TypeInv, TypeOK, ApplyNothing, Goto, bufVars,
       Current, ClientPtrs
  <2>5. QED
    BY <2>1, <2>2, <2>3, <2>4
<1>4. ClientPtrs(c)'
  BY <1>1, <1>2, <1>3 DEF ClientPtrs, ImagePtrs, AddrInChain, CopyPtrs
<1>5. Step(c)
  BY DEF Step
<1>6. FreshPtrs'
  BY <1>2, <1>5, QuietFresh
<1>7. QED
  BY <1>2, <1>4, <1>5, <1>6, QuietStep

\* update goes on to the synonym leaf.
LEMMA PtrUpdateReadAnother ==
    ASSUME BaseInv, NEW c \in Client, UpdateReadAnother(c)
    PROVE  PtrInv'
<1>1. ClientPtrs(c)
  BY DEF BaseInv, PtrInv
<1>2. /\ mem' = mem /\ used' = used
      /\ pc[c] = "update" /\ pc'[c] \in {"update", "abort"}
      /\ la'[c] = la[c] /\ img'[c] = img[c] /\ synB'[c] = synB[c]
      /\ \/ addr'[c] = addr[c]
         \/ addr[c] = la[c] /\ addr'[c] = mem[la[c]].syn
  BY DEF BaseInv, TypeInv, TypeOK, UpdateReadAnother, Goto, readVars
<1>3. ClientPtrs(c)'
  BY <1>1, <1>2 DEF ClientPtrs, ImagePtrs, AddrInChain, CopyPtrs, Current,
     Holding
<1>4. Step(c)
  BY DEF Step
<1>5. FreshPtrs'
  BY <1>2, <1>4, QuietFresh
<1>6. QED
  BY <1>2, <1>3, <1>4, <1>5, QuietStep

\* The client has prepared the copy n it is going to write: its pointer is the
\* one it read, or a new one for a leaf that has none.
LEMMA PtrPrepared ==
    ASSUME BaseInv, NEW c \in Client, Step(c), NEW n \in Node,
           mem' = mem, pc[c] \in Holding, pc'[c] \in {"write", "write_syn"},
           la'[c] = la[c], addr'[c] = addr[c], img'[c] = img[c],
           leafB'[c] = n, synB'[c].syn = Nil,
           pc'[c] = "write_syn" => n = mem[la[c]],
           \/ used' = used /\ n.syn = mem[addr[c]].syn
           \/ /\ addr[c] = la[c] /\ mem[la[c]].syn = Nil
              /\ n.syn \notin used /\ used' = used \cup {n.syn}
    PROVE  PtrInv'
<1>1. /\ la[c] \in Leaf /\ mem[la[c]] \in Node /\ ClientPtrs(c)
      /\ \A s \in SynAddr : mem[s].syn = Nil
  BY TypeFacts DEF BaseInv, PtrInv, MemPtrs, SynHasNoSyn, TypeInv, TypeOK,
     LocalOK, Local
<1>2. addr[c] = la[c] \/ (addr[c] \in SynAddr /\ addr[c] = mem[la[c]].syn)
  <2>1. addr[c] \in Addr /\ (addr[c] = la[c] \/ addr[c] = mem[la[c]].syn)
    BY <1>1 DEF ClientPtrs, AddrInChain, BaseInv, TypeInv, LocalOK, Local
  <2>2. QED
    BY <1>1, <2>1, TypeFacts
<1>3. n.syn \in {Nil, mem[la[c]].syn} \/ n.syn \notin used
  BY <1>1, <1>2
<1>4. FreshPtrs'
  BY <1>1, <1>3, OthersUntouched, FreshStep DEF BaseInv
<1>5. used \subseteq used' /\ ImagePtrs(c)' /\ AddrInChain(c)' /\ Current(c)'
  BY <1>1 DEF ClientPtrs, ImagePtrs, AddrInChain, Current
<1>6. CopyPtrs(c)'
  <2>1. addr[c] # la[c] => n.syn = Nil
    BY <1>1, <1>2
  <2>2. addr[c] = la[c] /\ mem[la[c]].syn # Nil => n.syn = mem[la[c]].syn
    OBVIOUS
  <2>3. ASSUME n.syn # Nil
        PROVE  n.syn \in used' /\ \A b \in Leaf : mem[b].syn = n.syn => b = la[c]
    <3>1. addr[c] = la[c]
      BY <2>1, <2>3
    <3>2. PtrsUsed /\ PtrsDistinct
      BY DEF BaseInv, PtrInv, MemPtrs
    <3>3. CASE used' = used /\ n.syn = mem[la[c]].syn
      BY <1>1, <2>3, <3>2, <3>3 DEF PtrsUsed, PtrsDistinct
    <3>4. CASE n.syn \notin used /\ used' = used \cup {n.syn}
      BY <2>3, <3>2, <3>4 DEF PtrsUsed
    <3>5. QED
      BY <3>1, <3>3, <3>4
  <2>4. QED
    BY <2>1, <2>2, <2>3 DEF CopyPtrs
<1>7. ClientPtrs(c)'
  BY <1>5, <1>6 DEF ClientPtrs
<1>8. QED
  BY <1>4, <1>5, <1>7, QuietStep

\* insert_local into the leaf keeps the pointers good.
LEMMA PtrApplyToLeaf ==
    ASSUME BaseInv, NEW c \in Client, ApplyToLeaf(c)
    PROVE  PtrInv'
<1> DEFINE n == Put(leafB[c], req[c].key, req[c].val)
<1>1. /\ pc[c] = "apply" /\ leafB' = [leafB EXCEPT ![c] = n]
      /\ mem' = mem /\ used' = used /\ pc' = [pc EXCEPT ![c] = "write"]
      /\ la' = la /\ addr' = addr /\ img' = img /\ synB' = synB
  BY DEF ApplyToLeaf, Goto, readVars
<1>2. TypeInv /\ ClientPtrs(c)
  BY DEF BaseInv, PtrInv
<1>3. addr[c] = la[c] /\ leafB[c] = mem[la[c]] /\ synB[c].syn = Nil
  BY <1>1, <1>2 DEF TypeInv, LocalOK, Local, Holding, ClientPtrs, Current
<1>4. n \in Node /\ n.syn = leafB[c].syn
  BY <1>1, <1>2, PutFacts, Zenon DEF TypeInv, TypeOK, LocalOK, Local, Request,
     Put
<1> HIDE DEF n
<1>5. pc'[c] = "write" /\ leafB'[c] = n
  BY <1>1, <1>2 DEF TypeInv, TypeOK
<1>6. Step(c)
  BY DEF Step
<1>7. QED
  BY <1>1, <1>3, <1>4, <1>5, <1>6, PtrPrepared DEF Holding

\* What the two ways of storing in the synonym leaf have in common.
LEMMA PtrStores ==
    ASSUME BaseInv, NEW c \in Client, Step(c), pc[c] = "apply",
           NEW leaf \in Node, NEW k, NEW v, Stores(c, leaf, k, v),
           leaf.syn = leafB[c].syn, NEW next, pc' = [pc EXCEPT ![c] = next],
           \/ next = "write"
           \/ next = "write_syn" /\ leaf = leafB[c] /\ leafB[c].syn # Nil,
           mem' = mem, la' = la, addr' = addr, img' = img
    PROVE  PtrInv'
<1>1. TypeInv /\ ClientPtrs(c)
  BY DEF BaseInv, PtrInv
<1>2. /\ addr[c] = la[c] /\ leafB[c] = mem[la[c]] /\ synB[c].syn = Nil
      /\ pc'[c] = next
  BY <1>1 DEF TypeInv, TypeOK, LocalOK, Local, Holding, ClientPtrs, Current
<1>3. synB'[c].syn = Nil
  BY <1>1, <1>2 DEF Stores, TypeInv, TypeOK
<1>4. PICK n \in Node :
          /\ leafB' = [leafB EXCEPT ![c] = n]
          /\ \/ /\ leafB[c].syn = Nil
                /\ n.syn \in SynAddr \ used
                /\ used' = used \cup {n.syn}
             \/ /\ leafB[c].syn # Nil
                /\ n = leaf
                /\ used' = used
  BY Zenon DEF Stores
<1>5. leafB'[c] = n
  BY <1>1, <1>4 DEF TypeInv, TypeOK
<1>6. QED
  BY <1>2, <1>3, <1>4, <1>5, PtrPrepared DEF Holding

\* insert_local into the synonym leaf keeps the pointers good.
LEMMA PtrApplyToSyn ==
    ASSUME BaseInv, NEW c \in Client, ApplyToSyn(c)
    PROVE  PtrInv'
<1>1. Stores(c, leafB[c], req[c].key, req[c].val)
  BY ApplyToSynStores DEF BaseInv
<1>2. /\ pc[c] = "apply" /\ leafB[c] \in Node
      /\ pc' = [pc EXCEPT ![c] = IF leafB[c].syn = Nil THEN "write"
                                 ELSE "write_syn"]
      /\ mem' = mem /\ la' = la /\ addr' = addr /\ img' = img
  BY DEF ApplyToSyn, Goto, readVars, BaseInv, TypeInv, TypeOK
<1>3. Step(c)
  BY DEF Step
<1>4. QED
  BY <1>1, <1>2, <1>3, PtrStores, Zenon

\* Putting a full leaf's overflow into its synonym leaf keeps the pointers good.
LEMMA PtrApplyOverflow ==
    ASSUME BaseInv, NEW c \in Client, ApplyOverflow(c)
    PROVE  PtrInv'
<1> DEFINE n == PutOverflow(leafB[c], req[c].key, req[c].val)
           k == LastKey(leafB[c])
<1>1. Stores(c, n, k, leafB[c].rec[k])
  BY ApplyOverflowStores DEF BaseInv
<1>2. /\ pc[c] = "apply" /\ pc' = [pc EXCEPT ![c] = "write"]
      /\ mem' = mem /\ la' = la /\ addr' = addr /\ img' = img
  BY DEF ApplyOverflow, Goto, readVars
<1>3. /\ req[c].key \in Key /\ req[c].val \in Value /\ leafB[c] \in Node
      /\ Full(leafB[c]) /\ ~Beyond(leafB[c], req[c].key)
      /\ leafB[c].rec[req[c].key] = Nil
  BY DEF BaseInv, TypeInv, TypeOK, LocalOK, Local, Request, ApplyOverflow
<1>4. n \in Node
  BY <1>3, PutOverflowFacts, Zenon
<1>5. n.syn = leafB[c].syn
  BY DEF PutOverflow, Put, Drop
<1>6. Step(c)
  BY DEF Step
<1> HIDE DEF n, k
<1>7. QED
  BY <1>1, <1>2, <1>4, <1>5, <1>6, PtrStores, Zenon

\* Reading the node to update under its lock keeps the pointers good.
LEMMA PtrUpdateFetch ==
    ASSUME BaseInv, NEW c \in Client, UpdateFetch(c)
    PROVE  PtrInv'
<1> DEFINE n == Put(mem[addr[c]], req[c].key, req[c].val)
<1>1. /\ pc[c] = "update" /\ leafB' = [leafB EXCEPT ![c] = n]
      /\ mem' = mem /\ used' = used /\ pc' = [pc EXCEPT ![c] = "write"]
      /\ la' = la /\ addr' = addr /\ img' = img /\ synB' = synB
  BY DEF UpdateFetch, Goto, readVars
<1>2. TypeInv /\ ClientPtrs(c)
  BY DEF BaseInv, PtrInv
<1>3. /\ mem[addr[c]] \in Node /\ req[c].key \in Key /\ req[c].val \in Value
  BY <1>1, <1>2 DEF TypeInv, TypeOK, LocalOK, Local, Request, Holding
<1>4. n \in Node
  BY <1>3, PutFacts, Zenon
<1>5. n.syn = mem[addr[c]].syn
  BY DEF Put
<1> HIDE DEF n
<1>6. pc'[c] = "write" /\ leafB'[c] = n /\ synB'[c].syn = Nil
  BY <1>1, <1>2 DEF TypeInv, TypeOK, ClientPtrs
<1>7. Step(c)
  BY DEF Step
<1>8. QED
  BY <1>1, <1>4, <1>5, <1>6, <1>7, PtrPrepared DEF Holding

\* What the write batch of client c does to memory: it writes c's leaf, or
\* that leaf's synonym, and sets a pointer only where there was none.
Written(c) ==
    /\ used' = used
    /\ \A a \in Leaf : a # la[c] => mem'[a] = mem[a]
    /\ \A s \in SynAddr : mem'[s].syn = Nil
    /\ \A s \in SynAddr : s # mem[la[c]].syn => mem'[s] = mem[s]
    /\ mem[la[c]].syn # Nil => mem'[la[c]].syn = mem[la[c]].syn
    /\ mem'[la[c]].syn # mem[la[c]].syn =>
           pc[c] = "write" /\ mem'[la[c]].syn = leafB[c].syn

\* Nothing another client knows is disturbed by it.
LEMMA WrittenOther ==
    ASSUME BaseInv, NEW c \in Client, NEW d \in Client, d # c,
           pc[c] \in Holding, Written(c), Untouched(d)
    PROVE  ClientPtrs(d)'
<1>1. /\ ClientPtrs(d) /\ la[c] \in Leaf
      /\ pc[d] \in Holding => la[d] \in Leaf /\ la[d] # la[c]
      /\ pc[d] = "lock" => la[d] \in Leaf
  BY Elsewhere DEF BaseInv, PtrInv, TypeInv, LocalOK, Local
<1>2. \A a \in Leaf : mem[a].syn # Nil => mem'[a].syn = mem[a].syn
  BY <1>1 DEF Written
<1>3. synB'[d].syn = Nil /\ ImagePtrs(d)'
  BY <1>1, <1>2 DEF ClientPtrs, ImagePtrs, Untouched
<1>4. AddrInChain(d)'
  <2>1. SUFFICES ASSUME pc[d] \in Holding \cup {"lock"}, addr[d] # la[d]
                 PROVE  addr[d] = mem'[la[d]].syn
    BY DEF AddrInChain, Untouched
  <2>2. addr[d] \in Addr /\ addr[d] = mem[la[d]].syn /\ la[d] \in Leaf
    BY <1>1, <2>1
       DEF ClientPtrs, AddrInChain, BaseInv, TypeInv, LocalOK, Local
  <2>3. QED
    BY <1>2, <2>2, TypeFacts
<1>5. CopyPtrs(d)'
  <2>1. SUFFICES ASSUME pc[d] = "write" PROVE CopyPtrs(d)'
    BY DEF CopyPtrs, Untouched
  <2>2. la[d] # la[c] /\ mem'[la[d]] = mem[la[d]]
    BY <1>1, <2>1 DEF Holding, Written
  <2>3. ASSUME leafB[d].syn # Nil, NEW b \in Leaf, mem'[b].syn = leafB[d].syn
        PROVE  b = la[d]
    <3>1. mem[b].syn = leafB[d].syn => b = la[d]
      BY <1>1, <2>1, <2>3 DEF ClientPtrs, CopyPtrs
    <3>2. CASE mem[b].syn # mem'[b].syn
      <4>1. b = la[c] /\ pc[c] = "write" /\ leafB[c].syn = leafB[d].syn
        BY <2>3, <3>2 DEF Written
      <4>2. la[c] = la[d]
        BY <2>1, <2>3, <4>1 DEF BaseInv, PtrInv, FreshPtrs
      <4>3. QED
        BY <4>1, <4>2
    <3>3. QED
      BY <2>3, <3>1, <3>2
  <2>4. QED
    BY <1>1, <2>1, <2>2, <2>3 DEF ClientPtrs, CopyPtrs, Untouched, Written
<1>6. Current(d)'
  <2>1. SUFFICES ASSUME pc[d] \in {"fetch_syn", "apply", "write_syn"}
                 PROVE  Current(d)'
    BY DEF Current, Untouched
  <2>2. /\ la[d] \in Leaf /\ la[d] # la[c] /\ mem'[la[d]] = mem[la[d]]
        /\ leafB[d] = mem[la[d]] /\ leafB[d] \in Node
    BY <1>1, <2>1 DEF Holding, ClientPtrs, Current, Written, BaseInv,
       TypeInv, TypeOK
  <2>3. leafB[d].syn # Nil => leafB[d].syn # mem[la[c]].syn
    BY <1>1, <2>2 DEF BaseInv, PtrInv, MemPtrs, PtrsDistinct
  <2>4. leafB[d].syn # Nil => mem'[leafB[d].syn] = mem[leafB[d].syn]
    BY <2>2, <2>3, TypeFacts DEF Written
  <2>5. QED
    BY <1>1, <2>1, <2>2, <2>4 DEF ClientPtrs, Current, Untouched
<1>7. QED
  BY <1>3, <1>4, <1>5, <1>6 DEF ClientPtrs

\* A write is accounted for once the writer's own part is.
LEMMA WrittenStep ==
    ASSUME BaseInv, NEW c \in Client, Step(c), pc[c] \in Holding,
           pc'[c] # "write", Written(c), ClientPtrs(c)'
    PROVE  PtrInv'
<1>1. la[c] \in Leaf /\ MemPtrs /\ ClientPtrs(c)
  BY DEF BaseInv, PtrInv, TypeInv, LocalOK, Local
<1>2. FreshPtrs'
  BY QuietFresh
<1>3. ASSUME NEW d \in Client, d # c PROVE ClientPtrs(d)'
  BY <1>3, OthersUntouched, WrittenOther DEF BaseInv
<1>4. SynHasNoSyn'
  BY DEF SynHasNoSyn, Written
<1>5. PtrsUsed'
  BY <1>1 DEF MemPtrs, PtrsUsed, Written, ClientPtrs, CopyPtrs
<1>6. PtrsDistinct'
  BY <1>1 DEF MemPtrs, PtrsDistinct, Written, ClientPtrs, CopyPtrs
<1>7. QED
  BY <1>2, <1>3, <1>4, <1>5, <1>6 DEF PtrInv, MemPtrs

\* The first write of the batch.
LEMMA WriteNodeWritten ==
    ASSUME BaseInv, NEW c \in Client, WriteNode(c)
    PROVE  Written(c) /\ (addr[c] = la[c] => mem'[la[c]] = leafB[c])
<1>1. /\ pc[c] = "write" /\ used' = used
      /\ mem' = [mem EXCEPT ![addr[c]] = leafB[c]]
  BY DEF WriteNode
<1>2. /\ mem \in [Addr -> Node] /\ leafB[c] \in Node
      /\ la[c] \in Leaf /\ addr[c] \in Addr /\ ClientPtrs(c)
      /\ \A s \in SynAddr : mem[s].syn = Nil
  BY <1>1 DEF BaseInv, PtrInv, MemPtrs, SynHasNoSyn, TypeInv, TypeOK, LocalOK,
     Local, Holding
<1>3. CASE addr[c] = la[c]
  <2>1. /\ \A a \in Leaf : a # la[c] => mem'[a] = mem[a]
        /\ \A s \in SynAddr : mem'[s] = mem[s]
        /\ mem'[la[c]] = leafB[c]
    BY <1>1, <1>2, <1>3, LeafAssumption DEF Addr
  <2>2. mem[la[c]].syn # Nil => leafB[c].syn = mem[la[c]].syn
    BY <1>1, <1>2, <1>3 DEF ClientPtrs, CopyPtrs
  <2>3. QED
    BY <1>1, <1>2, <2>1, <2>2 DEF Written
<1>4. CASE addr[c] # la[c]
  <2>1. addr[c] = mem[la[c]].syn /\ addr[c] \in SynAddr
    BY <1>1, <1>2, <1>4, TypeFacts DEF ClientPtrs, AddrInChain, Holding
  <2>2. leafB[c].syn = Nil
    BY <1>1, <1>2, <1>4 DEF ClientPtrs, CopyPtrs
  <2>3. /\ \A a \in Leaf : mem'[a] = mem[a]
        /\ \A s \in SynAddr : s # addr[c] => mem'[s] = mem[s]
        /\ mem'[addr[c]] = leafB[c]
    BY <1>1, <1>2, <2>1, LeafAssumption DEF Addr
  <2>4. QED
    BY <1>1, <1>2, <1>4, <2>1, <2>2, <2>3 DEF Written
<1>5. QED
  BY <1>3, <1>4

\* The write of the leaf keeps the pointers good.
LEMMA PtrWriteNode ==
    ASSUME BaseInv, NEW c \in Client, WriteNode(c)
    PROVE  PtrInv'
<1>1. Written(c) /\ (addr[c] = la[c] => mem'[la[c]] = leafB[c])
  BY WriteNodeWritten
<1>2. /\ pc[c] = "write"
      /\ pc' = [pc EXCEPT ![c] = IF wsyn[c] THEN "write_syn" ELSE "unlock"]
      /\ la' = la /\ addr' = addr /\ leafB' = leafB /\ synB' = synB
      /\ img' = img
  BY DEF WriteNode, Goto, bufVars, readVars
<1>3. /\ ClientPtrs(c) /\ la[c] \in Leaf /\ addr[c] \in Addr
      /\ wsyn[c] => addr[c] = la[c]
      /\ pc'[c] = (IF wsyn[c] THEN "write_syn" ELSE "unlock")
  BY <1>2 DEF BaseInv, PtrInv, TypeInv, TypeOK, LocalOK, Local, Holding
<1>4. \A a \in Leaf : mem[a].syn # Nil => mem'[a].syn = mem[a].syn
  BY <1>1, <1>3 DEF Written
<1>5. synB'[c].syn = Nil /\ ImagePtrs(c)'
  BY <1>2, <1>3, <1>4 DEF ClientPtrs, ImagePtrs
<1>6. AddrInChain(c)'
  BY <1>2, <1>3, <1>4, TypeFacts DEF ClientPtrs, AddrInChain, Holding
<1>7. CopyPtrs(c)' /\ Current(c)' /\ pc'[c] # "write"
  BY <1>1, <1>2, <1>3 DEF CopyPtrs, Current
<1>8. Step(c)
  BY DEF Step
<1>9. QED
  BY <1>1, <1>2, <1>5, <1>6, <1>7, <1>8, WrittenStep DEF ClientPtrs, Holding

\* The second write of the batch.
LEMMA WriteSynWritten ==
    ASSUME BaseInv, NEW c \in Client, WriteSyn(c)
    PROVE  /\ Written(c)
           /\ leafB[c] = mem[la[c]] /\ leafB[c].syn \in SynAddr
           /\ mem'[leafB[c].syn] = synB[c]
           /\ \A a \in Leaf : mem'[a] = mem[a]
<1>1. /\ pc[c] = "write_syn" /\ mem' = [mem EXCEPT ![leafB[c].syn] = synB[c]]
      /\ used' = used
  BY DEF WriteSyn
<1>2. /\ ClientPtrs(c) /\ la[c] \in Leaf /\ mem \in [Addr -> Node]
      /\ leafB[c] \in Node /\ leafB[c].syn # Nil
      /\ \A s \in SynAddr : mem[s].syn = Nil
  BY <1>1 DEF BaseInv, PtrInv, MemPtrs, SynHasNoSyn, TypeInv, TypeOK, LocalOK,
     Local, Holding
<1>3. leafB[c] = mem[la[c]] /\ leafB[c].syn \in SynAddr /\ synB[c].syn = Nil
  BY <1>1, <1>2, TypeFacts DEF ClientPtrs, Current
<1>4. /\ \A a \in Leaf : mem'[a] = mem[a]
      /\ \A s \in SynAddr : s # leafB[c].syn => mem'[s] = mem[s]
      /\ mem'[leafB[c].syn] = synB[c]
  BY <1>1, <1>2, <1>3, LeafAssumption DEF Addr
<1>5. QED
  BY <1>1, <1>2, <1>3, <1>4 DEF Written

\* The write of the synonym leaf keeps the pointers good.
LEMMA PtrWriteSyn ==
    ASSUME BaseInv, NEW c \in Client, WriteSyn(c)
    PROVE  PtrInv'
<1>1. /\ pc[c] = "write_syn" /\ pc' = [pc EXCEPT ![c] = "unlock"]
      /\ la' = la /\ addr' = addr /\ leafB' = leafB /\ synB' = synB
      /\ img' = img
  BY DEF WriteSyn, Goto, bufVars, readVars
<1>2. ClientPtrs(c) /\ la[c] \in Leaf /\ pc'[c] = "unlock"
  BY <1>1 DEF BaseInv, PtrInv, TypeInv, TypeOK, LocalOK, Local, Holding
<1>3. Written(c) /\ \A a \in Leaf : mem'[a] = mem[a]
  BY WriteSynWritten
<1>4. ImagePtrs(c)' /\ AddrInChain(c)'
  BY <1>1, <1>2, <1>3 DEF ClientPtrs, ImagePtrs, AddrInChain, Holding
<1>5. CopyPtrs(c)' /\ Current(c)' /\ pc'[c] # "write" /\ synB'[c].syn = Nil
  BY <1>1, <1>2 DEF ClientPtrs, CopyPtrs, Current
<1>6. Step(c)
  BY DEF Step
<1>7. QED
  BY <1>1, <1>3, <1>4, <1>5, <1>6, WrittenStep DEF ClientPtrs, Holding

\* Every step preserves the pointer invariant.
LEMMA PtrNext == BaseInv /\ [Next]_vars => PtrInv'
<1> SUFFICES ASSUME BaseInv, [Next]_vars PROVE PtrInv'
  OBVIOUS
<1>1. ASSUME NEW c \in Client, Call(c) \/ Step(c) PROVE PtrInv'
  BY <1>1, PtrReads, PtrUpdateFound, PtrLocked, PtrUpdateReadAnother,
     PtrApplyToLeaf, PtrApplyToSyn, PtrApplyOverflow, PtrUpdateFetch,
     PtrWriteNode, PtrWriteSyn DEF Step
<1>2. CASE UNCHANGED vars
  BY <1>2 DEF BaseInv, PtrInv, MemPtrs, SynHasNoSyn, PtrsUsed, PtrsDistinct,
     FreshPtrs, ClientPtrs, ImagePtrs, AddrInChain, CopyPtrs, Current,
     vars, bufVars, readVars
<1>3. QED
  BY <1>1, <1>2 DEF Next

\* The base invariant holds initially.
LEMMA BaseInit == Init => BaseInv
<1> SUFFICES ASSUME Init PROVE BaseInv
  OBVIOUS
<1>1. TypeInv
  BY TypeInvInit
<1>2. LockExclusion
  BY DEF Init, LockExclusion, Holds, Holding
<1>3. MemPtrs /\ FreshPtrs
  BY DEF Init, MemPtrs, SynHasNoSyn, PtrsUsed, PtrsDistinct, FreshPtrs,
     EmptyNode, Addr
<1>4. ASSUME NEW c \in Client PROVE ClientPtrs(c)
  BY <1>4 DEF Init, ClientPtrs, ImagePtrs, AddrInChain, CopyPtrs, Current,
     NoImage, EmptyNode, Addr, Holding
<1>5. QED
  BY <1>1, <1>2, <1>3, <1>4 DEF BaseInv, PtrInv

\* Every step preserves it.
LEMMA BaseNext == BaseInv /\ [Next]_vars => BaseInv'
BY TypeInvNext, LockNext, PtrNext DEF BaseInv

\* No lost update: what a client holding the lock has read is what memory
\* still holds, up to its own writes.
THEOREM CopiesStayCurrent == Spec => []CopiesCurrent
<1>1. BaseInv => CopiesCurrent
  BY DEF BaseInv, PtrInv, ClientPtrs, Current, CopiesCurrent
<1>2. QED
  BY <1>1, BaseInit, BaseNext, PTL DEF Spec

\* Only the write batch writes nodes.
LEMMA OnlyBatchWrites ==
    ASSUME NEW c \in Client, Call(c) \/ Step(c), ~WriteNode(c), ~WriteSyn(c)
    PROVE  mem' = mem
<1>1. CASE Call(c)
  BY <1>1, Zenon DEF Call, InsertStart, UpdateStart, SearchStart, RangeStart,
     StartReading
<1>2. CASE Step(c)
  BY <1>2, Zenon DEF Step, FetchNode, AppendSynonyms, SearchReturn, RangeReturn,
     UpdateMiss, UpdateFound, LockNode, InsertFetch, InsertFetchSyn,
     ApplyNothing, ApplyToLeaf, ApplyToSyn, ApplyOverflow, UpdateFetch,
     UpdateReadAnother, Unlock
<1>3. QED
  BY <1>1, <1>2

\* It never changes a pointer that is set.
LEMMA PtrStep ==
    BaseInv /\ [Next]_vars =>
        [\A a \in Leaf : mem[a].syn # Nil => mem'[a].syn = mem[a].syn]_vars
<1> SUFFICES ASSUME BaseInv, Next, NEW a \in Leaf, mem[a].syn # Nil
             PROVE  mem'[a].syn = mem[a].syn
  OBVIOUS
<1>1. PICK c \in Client : Call(c) \/ Step(c)
  BY DEF Next
<1>2. CASE WriteNode(c)
  BY <1>2, WriteNodeWritten DEF Written
<1>3. CASE WriteSyn(c)
  BY <1>3, WriteSynWritten
<1>4. QED
  BY <1>1, <1>2, <1>3, OnlyBatchWrites

\* A synonym pointer, once set, stays.
THEOREM SynonymPtrsStay == Spec => SynonymPtrStable
  BY BaseInit, BaseNext, PtrStep, PTL DEF Spec, SynonymPtrStable

-----------------------------------------------------------------------------
(* 5. Every leaf and its synonym leaf stay sorted apart and within their size *)

\* K may be the keys of leaf a; S those of its synonym.
GoodLeaf(K, hasSyn, a) ==
    /\ \A k \in K : InsertIdx[k] = a
    /\ Cardinality(K) <= Span
    /\ hasSyn => Cardinality(K) >= Span
GoodSyn(K, S, a) ==
    /\ Cardinality(S) <= Span
    /\ \A k \in S : InsertIdx[k] = a /\ \A x \in K : x < k

\* Leaf a and its synonym, in memory.
ChainGood(a) ==
    /\ GoodLeaf(KeysOf(mem[a]), mem[a].syn # Nil, a)
    /\ mem[a].syn # Nil => GoodSyn(KeysOf(mem[a]), KeysOf(mem[mem[a].syn]), a)

\* A synonym leaf no leaf points to is empty.
OrphanEmpty(s) == (\A a \in Leaf : mem[a].syn # s) => KeysOf(mem[s]) = {}

\* What client c is about to write keeps its chain good, the leaf before the
\* synonym as well as after it.
CopyGood(c) ==
    /\ pc[c] = "write" /\ addr[c] = la[c] =>
           /\ GoodLeaf(KeysOf(leafB[c]), leafB[c].syn # Nil, la[c])
           /\ leafB[c].syn # Nil =>
                  GoodSyn(KeysOf(leafB[c]), KeysOf(mem[leafB[c].syn]), la[c])
    /\ pc[c] = "write" /\ addr[c] # la[c] =>
           KeysOf(leafB[c]) = KeysOf(mem[addr[c]])
    /\ pc[c] = "write_syn" \/ (pc[c] = "write" /\ wsyn[c]) =>
           GoodSyn(KeysOf(leafB[c]), KeysOf(synB[c]), la[c])

ChainInv ==
    /\ \A a \in Leaf : ChainGood(a)
    /\ \A s \in SynAddr : OrphanEmpty(s)
    /\ \A c \in Client : CopyGood(c)

FullInv == BaseInv /\ ChainInv

\* The keys of an empty node are none, and there is always room for one.
LEMMA EmptyRoom ==
    /\ Cardinality({}) <= Span
    /\ Cardinality({}) \in Nat
    /\ ~Full(EmptyNode)
BY FS_EmptySet, EmptyFacts, SpanAssumption DEF Full

\* Leaves and pointers in memory untouched: only the clients' copies matter.
LEMMA ChainFrame ==
    ASSUME ChainInv, mem' = mem, \A c \in Client : CopyGood(c)'
    PROVE  ChainInv'
BY DEF ChainInv, ChainGood, OrphanEmpty

\* A client whose buffers are untouched, or that is not about to write.
LEMMA CopyFrame ==
    ASSUME NEW d \in Client, CopyGood(d), mem' = mem,
           \/ pc'[d] \notin {"write", "write_syn"}
           \/ /\ pc'[d] = pc[d] /\ la'[d] = la[d] /\ addr'[d] = addr[d]
              /\ leafB'[d] = leafB[d] /\ synB'[d] = synB[d] /\ wsyn'[d] = wsyn[d]
    PROVE  CopyGood(d)'
BY DEF CopyGood

\* The new record goes into the leaf, which has room and hence no synonym.
LEMMA ChainApplyToLeaf ==
    ASSUME FullInv, NEW c \in Client, ApplyToLeaf(c)
    PROVE  ChainInv'
<1> DEFINE k == req[c].key
           n == leafB[c]
           m == Put(n, k, req[c].val)
<1>1. /\ k \in Key /\ req[c].val \in Value /\ n \in Node
      /\ la[c] \in Leaf /\ InsertIdx[k] = la[c] /\ addr[c] = la[c] /\ ~wsyn[c]
  BY DEF FullInv, BaseInv, TypeInv, TypeOK, LocalOK, Local, ApplyToLeaf, Request,
     Holding
<1>2. n = mem[la[c]]
  BY DEF FullInv, BaseInv, PtrInv, MemPtrs, ClientPtrs, Current, ApplyToLeaf
<1>3. ChainGood(la[c])
  BY <1>1 DEF FullInv, ChainInv
<1>4. ~Full(n)
  BY DEF ApplyToLeaf
<1>5. n.syn = Nil
  BY <1>2, <1>3, <1>4 DEF ChainGood, GoodLeaf, Full
<1>6. m.syn = Nil /\ KeysOf(m) = KeysOf(n) \cup {k}
  BY <1>1, <1>5, PutFacts, Zenon
<1>7. Cardinality(KeysOf(m)) <= Span
  BY <1>1, <1>4, PutBound
<1>8. GoodLeaf(KeysOf(m), FALSE, la[c])
  BY <1>1, <1>2, <1>3, <1>6, <1>7 DEF ChainGood, GoodLeaf
<1> HIDE DEF m, n, k
<1>9. /\ mem' = mem /\ la' = la /\ addr' = addr /\ wsyn' = wsyn
      /\ synB' = synB /\ leafB' = [leafB EXCEPT ![c] = m]
      /\ pc' = [pc EXCEPT ![c] = "write"]
  BY DEF ApplyToLeaf, Goto, k, n, m
<1>10. pc'[c] = "write" /\ leafB'[c] = m
  BY <1>9 DEF FullInv, BaseInv, TypeInv, TypeOK
<1>11. CopyGood(c)'
  BY <1>1, <1>6, <1>8, <1>9, <1>10 DEF CopyGood, GoodLeaf
<1>12. ASSUME NEW d \in Client, d # c PROVE CopyGood(d)'
  BY <1>9, <1>12, CopyFrame DEF FullInv, ChainInv, BaseInv, TypeInv, TypeOK
<1>13. QED
  BY <1>9, <1>11, <1>12, ChainFrame DEF FullInv

\* What Stores leaves in the client's copies is a good chain, when the record
\* it moves belongs behind the leaf's keys.
LEMMA StoresGood ==
    ASSUME FullInv, NEW c \in Client, pc[c] = "apply",
           NEW leaf \in Node, NEW k \in Key, NEW v \in Value,
           StoreInSyn(c, leaf, k, v), Stores(c, leaf, k, v),
           Full(leafB[c]), leaf.syn = leafB[c].syn,
           Cardinality(KeysOf(leaf)) = Cardinality(KeysOf(leafB[c])),
           InsertIdx[k] = la[c],
           \A x \in KeysOf(leaf) : InsertIdx[x] = la[c] /\ x < k,
           \A y \in Key : (\A x \in KeysOf(leafB[c]) : x < y)
                             => \A x \in KeysOf(leaf) : x < y
    PROVE  /\ GoodLeaf(KeysOf(leafB'[c]), leafB'[c].syn # Nil, la[c])
           /\ leafB'[c].syn # Nil =>
                  GoodSyn(KeysOf(leafB'[c]), KeysOf(mem[leafB'[c].syn]), la[c])
           /\ GoodSyn(KeysOf(leafB'[c]), KeysOf(synB'[c]), la[c])
<1>1. /\ leafB[c] \in Node /\ synB[c] \in Node /\ la[c] \in Leaf
      /\ mem \in [Addr -> Node]
      /\ leafB \in [Client -> Node] /\ synB \in [Client -> Node]
  BY DEF FullInv, BaseInv, TypeInv, TypeOK, LocalOK, Local, Holding
<1>2. leafB[c] = mem[la[c]]
      /\ (leafB[c].syn # Nil => synB[c] = mem[leafB[c].syn])
  BY DEF FullInv, BaseInv, PtrInv, MemPtrs, ClientPtrs, Current
<1>3. ChainGood(la[c])
  BY <1>1 DEF FullInv, ChainInv
<1>4. PICK n \in Node :
          /\ leafB' = [leafB EXCEPT ![c] = n]
          /\ n.rec = leaf.rec
          /\ n.syn # Nil
          /\ \/ /\ leafB[c].syn = Nil
                /\ n.syn \in SynAddr \ used
             \/ /\ leafB[c].syn # Nil
                /\ n = leaf
  BY Zenon DEF Stores
<1>5. leafB'[c] = n /\ KeysOf(n) = KeysOf(leaf)
  BY <1>1, <1>4 DEF KeysOf
<1>6. synB'[c] = SynAfter(c, k, v)
  BY <1>1 DEF Stores
<1>7. GoodLeaf(KeysOf(leaf), TRUE, la[c])
  BY <1>2, <1>3 DEF ChainGood, GoodLeaf, Full
<1>8. CASE leafB[c].syn = Nil
  <2>1. KeysOf(mem[n.syn]) = {}
    <3>1. n.syn \in SynAddr /\ n.syn \notin used
      BY <1>4, <1>8
    <3>2. \A a \in Leaf : mem[a].syn # n.syn
      BY <1>4, <3>1 DEF FullInv, BaseInv, PtrInv, MemPtrs, ClientPtrs, PtrsUsed
    <3>3. QED
      BY <3>1, <3>2 DEF FullInv, ChainInv, OrphanEmpty
  <2>2. KeysOf(Put(EmptyNode, k, v)) = {k}
    <3>1. KeysOf(Put(EmptyNode, k, v)) = KeysOf(EmptyNode) \cup {k}
      BY PutFacts, EmptyFacts, Zenon
    <3>2. QED
      BY <3>1, EmptyFacts
  <2>3. Cardinality(KeysOf(Put(EmptyNode, k, v))) <= Span
    BY PutBound, EmptyFacts, EmptyRoom
  <2>4. GoodSyn(KeysOf(leaf), KeysOf(mem[n.syn]), la[c])
    BY <2>1, EmptyRoom DEF GoodSyn
  <2>5. GoodSyn(KeysOf(leaf), KeysOf(SynAfter(c, k, v)), la[c])
    BY <1>8, <2>2, <2>3 DEF GoodSyn, SynAfter
  <2>6. QED
    BY <1>4, <1>5, <1>6, <1>7, <2>4, <2>5 DEF GoodLeaf
<1>9. CASE leafB[c].syn # Nil
  <2>1. n.syn = leafB[c].syn /\ synB[c].rec[k] = Nil
    BY <1>4, <1>9 DEF StoreInSyn, KnownInSyn
  <2>2. GoodSyn(KeysOf(leafB[c]), KeysOf(synB[c]), la[c])
    BY <1>2, <1>3, <1>9 DEF ChainGood
  <2>3. /\ KeysOf(PutSyn(synB[c], k, v)) \subseteq KeysOf(synB[c]) \cup {k}
        /\ Cardinality(KeysOf(PutSyn(synB[c], k, v))) <= Span
    BY <1>1, <2>1, <2>2, PutSynFacts DEF GoodSyn
  <2>4. KeysOf(synB[c]) \subseteq Key
    BY DEF KeysOf
  <2>5. GoodSyn(KeysOf(leaf), KeysOf(synB[c]), la[c])
    BY <2>2, <2>4 DEF GoodSyn
  <2>6. GoodSyn(KeysOf(leaf), KeysOf(SynAfter(c, k, v)), la[c])
    BY <1>9, <2>3, <2>5 DEF GoodSyn, SynAfter
  <2>7. mem[n.syn] = synB[c]
    BY <1>2, <1>9, <2>1
  <2>8. QED
    BY <1>4, <1>5, <1>6, <1>7, <2>5, <2>6, <2>7 DEF GoodLeaf
<1>10. QED
  BY <1>8, <1>9

\* Such a client's copies are good; nobody else's change.
LEMMA StoresChain ==
    ASSUME FullInv, NEW c \in Client, pc[c] = "apply", mem' = mem, la' = la,
           addr' = addr, NEW leaf, NEW k, NEW v, Stores(c, leaf, k, v),
           pc' = [pc EXCEPT ![c] = "write"] \/ pc' = [pc EXCEPT ![c] = "write_syn"],
           /\ GoodLeaf(KeysOf(leafB'[c]), leafB'[c].syn # Nil, la[c])
           /\ leafB'[c].syn # Nil =>
                  GoodSyn(KeysOf(leafB'[c]), KeysOf(mem[leafB'[c].syn]), la[c])
           /\ GoodSyn(KeysOf(leafB'[c]), KeysOf(synB'[c]), la[c])
    PROVE  ChainInv'
<1>1. addr[c] = la[c]
  BY DEF FullInv, BaseInv, TypeInv, LocalOK, Local, Holding
<1>2. CopyGood(c)'
  BY <1>1 DEF CopyGood
<1>3. ASSUME NEW d \in Client, d # c
      PROVE  /\ pc'[d] = pc[d] /\ leafB'[d] = leafB[d] /\ synB'[d] = synB[d]
             /\ wsyn'[d] = wsyn[d]
  BY <1>3 DEF Stores, FullInv, BaseInv, TypeInv, TypeOK
<1>4. ASSUME NEW d \in Client, d # c PROVE CopyGood(d)'
  BY <1>3, <1>4, CopyFrame DEF FullInv, ChainInv
<1>5. QED
  BY <1>2, <1>4, ChainFrame DEF FullInv

\* The new record goes to the synonym leaf.
LEMMA ChainApplyToSyn ==
    ASSUME FullInv, NEW c \in Client, ApplyToSyn(c)
    PROVE  ChainInv'
<1> DEFINE k == req[c].key
           v == req[c].val
           n == leafB[c]
<1>1. /\ k \in Key /\ v \in Value /\ n \in Node /\ la[c] \in Leaf
      /\ InsertIdx[k] = la[c] /\ pc[c] = "apply"
  BY DEF FullInv, BaseInv, TypeInv, TypeOK, LocalOK, Local, ApplyToSyn, Request,
     Holding
<1>2. n = mem[la[c]]
  BY DEF FullInv, BaseInv, PtrInv, MemPtrs, ClientPtrs, Current, ApplyToSyn
<1>3. Full(n) /\ \A x \in KeysOf(n) : InsertIdx[x] = la[c] /\ x < k
  BY <1>1, <1>2 DEF FullInv, ChainInv, ChainGood, GoodLeaf, ApplyToSyn, Beyond
<1>4. StoreInSyn(c, n, k, v)
  BY DEF ApplyToSyn
<1>5. Stores(c, n, k, v)
  BY ApplyToSynStores DEF FullInv, BaseInv
<1>6. /\ mem' = mem /\ la' = la /\ addr' = addr
      /\ pc' = [pc EXCEPT ![c] = "write"] \/ pc' = [pc EXCEPT ![c] = "write_syn"]
  BY Zenon DEF ApplyToSyn, Goto
<1> HIDE DEF n, k, v
<1>7. n = leafB[c]
  BY DEF n
<1>8. /\ GoodLeaf(KeysOf(leafB'[c]), leafB'[c].syn # Nil, la[c])
      /\ leafB'[c].syn # Nil =>
             GoodSyn(KeysOf(leafB'[c]), KeysOf(mem[leafB'[c].syn]), la[c])
      /\ GoodSyn(KeysOf(leafB'[c]), KeysOf(synB'[c]), la[c])
  BY <1>1, <1>3, <1>4, <1>5, <1>7, StoresGood
<1>9. QED
  BY <1>1, <1>5, <1>6, <1>8, StoresChain

\* The last record of the leaf goes to the synonym leaf.
LEMMA ChainApplyOverflow ==
    ASSUME FullInv, NEW c \in Client, ApplyOverflow(c)
    PROVE  ChainInv'
<1> DEFINE k == req[c].key
           n == leafB[c]
           m == PutOverflow(n, k, req[c].val)
           last == LastKey(n)
           v == n.rec[last]
<1>1. /\ k \in Key /\ req[c].val \in Value /\ n \in Node /\ la[c] \in Leaf
      /\ InsertIdx[k] = la[c] /\ pc[c] = "apply"
  BY DEF FullInv, BaseInv, TypeInv, TypeOK, LocalOK, Local, ApplyOverflow, Request,
     Holding
<1>2. n = mem[la[c]]
  BY DEF FullInv, BaseInv, PtrInv, MemPtrs, ClientPtrs, Current, ApplyOverflow
<1>3. \A x \in KeysOf(n) : InsertIdx[x] = la[c]
  BY <1>1, <1>2 DEF FullInv, ChainInv, ChainGood, GoodLeaf
<1>4. Full(n) /\ ~Beyond(n, k) /\ n.rec[k] = Nil
  BY DEF ApplyOverflow
<1>5. /\ m \in Node /\ m.syn = n.syn /\ last \in Key /\ last \in KeysOf(n)
      /\ v \in Value
      /\ KeysOf(m) = (KeysOf(n) \ {last}) \cup {k}
      /\ Cardinality(KeysOf(m)) = Cardinality(KeysOf(n))
      /\ \A x \in KeysOf(m) : x < last
  <2> DEFINE w == req[c].val
  <2>0. n \in Node /\ k \in Key /\ w \in Value /\ m = PutOverflow(n, k, w)
    BY <1>1
  <2> HIDE DEF n, k, w
  <2>1. m \in Node
    BY <1>1, <1>4, PutOverflowFacts, Zenon
  <2>2. m.syn = n.syn
    BY DEF PutOverflow, Put, Drop
  <2>3. last \in Key /\ last \in KeysOf(n) /\ v \in Value
    BY <1>1, <1>4, PutOverflowFacts, Zenon
  <2>4. KeysOf(PutOverflow(n, k, w)) = (KeysOf(n) \ {LastKey(n)}) \cup {k}
    BY <2>0, <1>4, PutOverflowFacts, Zenon
  <2>5. Cardinality(KeysOf(PutOverflow(n, k, w))) = Cardinality(KeysOf(n))
    BY <2>0, <1>4, PutOverflowFacts, ZenonT(40)
  <2>6. \A x \in KeysOf(m) : x < last
    BY <1>1, <1>4, PutOverflowFacts, Zenon
  <2>7. QED
    BY <2>0, <2>1, <2>2, <2>3, <2>4, <2>5, <2>6
<1>6. StoreInSyn(c, m, last, v)
  BY DEF ApplyOverflow
<1>7. Stores(c, m, last, v)
  BY ApplyOverflowStores DEF FullInv, BaseInv
<1>8. /\ mem' = mem /\ la' = la /\ addr' = addr
      /\ pc' = [pc EXCEPT ![c] = "write"]
  BY DEF ApplyOverflow, Goto
<1>9. KeysOf(m) \subseteq Nat /\ last \in Nat /\ Key \subseteq Nat
  BY <1>5, KeyAssumption, Zenon DEF KeysOf
<1> HIDE DEF n, k, v, m, last
<1>10. n = leafB[c]
  BY DEF n
<1>11. \A x \in KeysOf(m) : InsertIdx[x] = la[c] /\ x < last
  BY <1>1, <1>3, <1>5
<1>12. \A y \in Key : (\A x \in KeysOf(n) : x < y)
                         => \A x \in KeysOf(m) : x < y
  <2> SUFFICES ASSUME NEW y \in Key, \A x \in KeysOf(n) : x < y,
                      NEW x \in KeysOf(m)
               PROVE  x < y
    OBVIOUS
  <2>1. last < y /\ x < last
    BY <1>5
  <2>2. QED
    BY <1>9, <2>1
<1>13. /\ GoodLeaf(KeysOf(leafB'[c]), leafB'[c].syn # Nil, la[c])
       /\ leafB'[c].syn # Nil =>
              GoodSyn(KeysOf(leafB'[c]), KeysOf(mem[leafB'[c].syn]), la[c])
       /\ GoodSyn(KeysOf(leafB'[c]), KeysOf(synB'[c]), la[c])
  <2>1. InsertIdx[last] = la[c]
    BY <1>3, <1>5
  <2>2. QED
    BY <1>1, <1>4, <1>5, <1>6, <1>7, <1>10, <1>11, <1>12, <2>1, StoresGood,
       Zenon
<1>14. QED
  BY <1>1, <1>7, <1>8, <1>13, StoresChain, Zenon

\* update changes a value and no key.
LEMMA ChainUpdateFetch ==
    ASSUME FullInv, NEW c \in Client, UpdateFetch(c)
    PROVE  ChainInv'
<1> DEFINE n == mem[addr[c]]
           m == Put(n, req[c].key, req[c].val)
<1>1. /\ req[c].key \in Key /\ req[c].val \in Value /\ n \in Node
      /\ la[c] \in Leaf /\ ~wsyn[c]
  BY DEF FullInv, BaseInv, TypeInv, TypeOK, LocalOK, Local, UpdateFetch, Request,
     Holding
<1>2. req[c].key \in KeysOf(n)
  BY <1>1 DEF UpdateFetch, KeysOf
<1>3. m.syn = n.syn /\ KeysOf(m) = KeysOf(n) \cup {req[c].key}
  BY <1>1, PutFacts, ZenonT(40)
<1>4. KeysOf(m) = KeysOf(n)
  BY <1>2, <1>3
<1>5. ChainGood(la[c])
  BY <1>1 DEF FullInv, ChainInv
<1> HIDE DEF m
<1>6. /\ mem' = mem /\ la' = la /\ addr' = addr /\ wsyn' = wsyn
      /\ synB' = synB /\ leafB' = [leafB EXCEPT ![c] = m]
      /\ pc' = [pc EXCEPT ![c] = "write"]
  BY DEF UpdateFetch, Goto, m
<1>7. pc'[c] = "write" /\ leafB'[c] = m
  BY <1>6 DEF FullInv, BaseInv, TypeInv, TypeOK
<1>8. CopyGood(c)'
  BY <1>1, <1>3, <1>4, <1>5, <1>6, <1>7 DEF CopyGood, ChainGood
<1>9. ASSUME NEW d \in Client, d # c PROVE CopyGood(d)'
  BY <1>6, <1>9, CopyFrame DEF FullInv, ChainInv, BaseInv, TypeInv, TypeOK
<1>10. QED
  BY <1>6, <1>8, <1>9, ChainFrame DEF FullInv

\* The write of the leaf, or of the node update found its key in.
LEMMA ChainWriteNode ==
    ASSUME FullInv, NEW c \in Client, WriteNode(c)
    PROVE  ChainInv'
<1>1. /\ la[c] \in Leaf /\ addr[c] \in Addr /\ leafB[c] \in Node
      /\ mem \in [Addr -> Node] /\ mem' = [mem EXCEPT ![addr[c]] = leafB[c]]
      /\ pc \in [Client -> PCs] /\ pc[c] = "write"
  BY DEF FullInv, BaseInv, TypeInv, TypeOK, LocalOK, Local, Holding, WriteNode
<1>2. /\ la' = la /\ addr' = addr /\ leafB' = leafB /\ synB' = synB
      /\ wsyn' = wsyn
      /\ pc'[c] = (IF wsyn[c] THEN "write_syn" ELSE "unlock")
      /\ \A d \in Client : d # c => pc'[d] = pc[d]
  BY <1>1 DEF WriteNode, Goto, bufVars
<1>3. \A d \in Client : d # c /\ pc[d] \in Holding => la[d] # la[c]
  BY <1>1, Elsewhere DEF FullInv, WriteNode, Holding
<1>4. CopyGood(c)
  BY DEF FullInv, ChainInv
<1>5. CASE addr[c] = la[c]
  <2>1. /\ mem'[la[c]] = leafB[c]
        /\ \A x \in Addr : x # la[c] => mem'[x] = mem[x]
    BY <1>1, <1>5, TypeFacts
  <2>2. \A s \in SynAddr : s \in Addr /\ s # la[c]
    BY <1>1, LeafAssumption DEF Addr
  <2>3. ChainGood(la[c])'
    BY <1>1, <1>2, <1>4, <1>5, <2>1, <2>2, TypeFacts DEF CopyGood, ChainGood
  <2>4. ASSUME NEW a \in Leaf, a # la[c] PROVE ChainGood(a)'
    <3>1. ChainGood(a) /\ mem[a] \in Node /\ a \in Addr
      BY <1>1, TypeFacts DEF FullInv, ChainInv
    <3>2. mem'[a] = mem[a]
      BY <2>1, <2>4, <3>1
    <3>3. mem[a].syn # Nil => mem'[mem[a].syn] = mem[mem[a].syn]
      BY <2>1, <2>2, <3>1, TypeFacts
    <3>4. QED
      BY <3>1, <3>2, <3>3 DEF ChainGood
  <2>5. ASSUME NEW s \in SynAddr PROVE OrphanEmpty(s)'
    <3>1. mem'[s] = mem[s]
      BY <2>1, <2>2
    <3>2. mem[la[c]].syn # Nil => leafB[c].syn = mem[la[c]].syn
      BY <1>1, <1>5 DEF FullInv, BaseInv, PtrInv, MemPtrs, ClientPtrs, CopyPtrs
    <3>3. \A a \in Leaf : mem[a].syn = s => mem'[a].syn = s
      BY <2>1, <3>2, TypeFacts, SynAddrAssumption
    <3>4. QED
      BY <3>1, <3>3 DEF OrphanEmpty, FullInv, ChainInv
  <2>6. CopyGood(c)'
    BY <1>2, <1>4, <1>1 DEF CopyGood
  <2>7. ASSUME NEW d \in Client, d # c PROVE CopyGood(d)'
    <3>1. CopyGood(d) /\ pc'[d] = pc[d] /\ leafB[d] \in Node
      BY <1>2, <2>7 DEF FullInv, ChainInv, BaseInv, TypeInv, TypeOK
    <3>2. leafB[d].syn # Nil => mem'[leafB[d].syn] = mem[leafB[d].syn]
      BY <2>1, <2>2, <3>1, TypeFacts
    <3>3. pc[d] = "write" /\ addr[d] # la[d] => mem'[addr[d]] = mem[addr[d]]
      <4> SUFFICES ASSUME pc[d] = "write", addr[d] # la[d]
                   PROVE  mem'[addr[d]] = mem[addr[d]]
        OBVIOUS
      <4>1. /\ la[d] \in Leaf /\ addr[d] \in Addr /\ mem[la[d]] \in Node
            /\ addr[d] = mem[la[d]].syn
        BY <1>1, TypeFacts DEF FullInv, BaseInv, TypeInv, TypeOK, LocalOK, Local,
           PtrInv, MemPtrs, ClientPtrs, AddrInChain, Holding
      <4>2. addr[d] \in SynAddr
        BY <4>1, TypeFacts
      <4>3. QED
        BY <2>1, <2>2, <4>2
    <3>4. QED
      BY <1>2, <3>1, <3>2, <3>3 DEF CopyGood
  <2>8. QED
    BY <1>2, <2>3, <2>4, <2>5, <2>6, <2>7 DEF ChainInv
<1>6. CASE addr[c] # la[c]
  <2>1. addr[c] \in SynAddr
    BY <1>1, <1>6, TypeFacts DEF FullInv, BaseInv, PtrInv, MemPtrs, ClientPtrs, AddrInChain, Holding
  <2>2. leafB[c].syn = Nil /\ mem[addr[c]].syn = Nil
    BY <1>1, <1>6, <2>1
       DEF FullInv, BaseInv, PtrInv, MemPtrs, ClientPtrs, CopyPtrs, SynHasNoSyn
  <2>3. KeysOf(leafB[c]) = KeysOf(mem[addr[c]])
    BY <1>1, <1>4, <1>6 DEF CopyGood
  <2>4. \A x \in Addr : KeysOf(mem'[x]) = KeysOf(mem[x])
                        /\ mem'[x].syn = mem[x].syn
    BY <1>1, <2>2, <2>3
  <2>5. ASSUME NEW a \in Leaf PROVE ChainGood(a)'
    <3>1. ChainGood(a) /\ mem[a] \in Node /\ a \in Addr
      BY <1>1, TypeFacts DEF FullInv, ChainInv
    <3>2. KeysOf(mem'[a]) = KeysOf(mem[a]) /\ mem'[a].syn = mem[a].syn
      BY <2>4, <3>1
    <3>3. mem[a].syn # Nil => KeysOf(mem'[mem[a].syn]) = KeysOf(mem[mem[a].syn])
      BY <2>4, <3>1, TypeFacts
    <3>4. QED
      BY <3>1, <3>2, <3>3 DEF ChainGood
  <2>6. ASSUME NEW s \in SynAddr PROVE OrphanEmpty(s)'
    BY <2>4, TypeFacts, Zenon DEF OrphanEmpty, FullInv, ChainInv, Addr
  <2>7. ASSUME NEW d \in Client PROVE CopyGood(d)'
    <3>1. CASE d = c
      <4>1. ~wsyn[c]
        BY <1>6, <1>1 DEF FullInv, BaseInv, TypeInv, LocalOK, Local, Holding
      <4>2. QED
        BY <1>2, <3>1, <4>1 DEF CopyGood
    <3>2. CASE d # c
      <4>1. CopyGood(d) /\ pc'[d] = pc[d] /\ leafB[d] \in Node
        BY <1>2, <3>2 DEF FullInv, ChainInv, BaseInv, TypeInv, TypeOK
      <4>2. leafB[d].syn # Nil =>
                KeysOf(mem'[leafB[d].syn]) = KeysOf(mem[leafB[d].syn])
        BY <2>4, <4>1, TypeFacts
      <4>3. pc[d] = "write" => addr[d] \in Addr
        BY DEF FullInv, BaseInv, TypeInv, LocalOK, Local, Holding
      <4>4. pc[d] = "write" => KeysOf(mem'[addr[d]]) = KeysOf(mem[addr[d]])
        BY <2>4, <4>3
      <4>5. QED
        BY <1>2, <4>1, <4>2, <4>4 DEF CopyGood
    <3>3. QED
      BY <3>1, <3>2
  <2>8. QED
    BY <2>5, <2>6, <2>7 DEF ChainInv
<1>7. QED
  BY <1>5, <1>6

\* The write of the synonym leaf.
LEMMA ChainWriteSyn ==
    ASSUME FullInv, NEW c \in Client, WriteSyn(c)
    PROVE  ChainInv'
<1> DEFINE s == leafB[c].syn
<1>1. /\ la[c] \in Leaf /\ s \in SynAddr /\ s \in Addr
      /\ leafB[c] = mem[la[c]] /\ pc[c] = "write_syn"
      /\ mem \in [Addr -> Node] /\ mem' = [mem EXCEPT ![s] = synB[c]]
  BY TypeFacts DEF FullInv, BaseInv, TypeInv, TypeOK, LocalOK, Local, Holding,
     WriteSyn, PtrInv, MemPtrs, ClientPtrs, Current
<1>2. /\ la' = la /\ addr' = addr /\ leafB' = leafB /\ synB' = synB
      /\ wsyn' = wsyn /\ pc'[c] = "unlock"
      /\ \A d \in Client : d # c => pc'[d] = pc[d]
  BY DEF FullInv, BaseInv, TypeInv, TypeOK, WriteSyn, Goto, bufVars
<1>3. \A d \in Client : d # c /\ pc[d] \in Holding => la[d] # la[c]
  BY <1>1, Elsewhere DEF FullInv, WriteSyn, Holding
<1>4. GoodSyn(KeysOf(leafB[c]), KeysOf(synB[c]), la[c])
  BY <1>1 DEF FullInv, ChainInv, CopyGood
<1>5. mem'[s] = synB[c] /\ \A x \in Addr : x # s => mem'[x] = mem[x]
  BY <1>1
<1>6. \A a \in Leaf : a \in Addr /\ a # s
  BY <1>1, LeafAssumption, TypeFacts
<1>7. mem[la[c]].syn = s /\ s # Nil
  BY <1>1, SynAddrAssumption
<1> HIDE DEF s
<1>8. ASSUME NEW a \in Leaf PROVE ChainGood(a)'
  <2>1. ChainGood(a) /\ mem[a] \in Node /\ mem'[a] = mem[a]
    BY <1>1, <1>5, <1>6 DEF FullInv, ChainInv
  <2>2. CASE a = la[c]
    BY <1>1, <1>4, <1>5, <1>7, <2>1, <2>2 DEF ChainGood
  <2>3. CASE a # la[c]
    <3>1. mem[a].syn # s
      BY <1>1, <1>7, <2>3 DEF FullInv, BaseInv, PtrInv, MemPtrs, ClientPtrs, PtrsDistinct
    <3>2. mem[a].syn # Nil => mem'[mem[a].syn] = mem[mem[a].syn]
      BY <1>5, <2>1, <3>1, TypeFacts
    <3>3. QED
      BY <2>1, <3>2 DEF ChainGood
  <2>4. QED
    BY <2>2, <2>3
<1>9. ASSUME NEW x \in SynAddr PROVE OrphanEmpty(x)'
  <2>1. mem'[la[c]].syn = s
    BY <1>1, <1>5, <1>6, <1>7
  <2>2. CASE x = s
    BY <1>1, <2>1, <2>2 DEF OrphanEmpty
  <2>3. CASE x # s
    BY <1>5, <1>6, <2>3, TypeFacts DEF OrphanEmpty, FullInv, ChainInv, Addr
  <2>4. QED
    BY <2>2, <2>3
<1>10. ASSUME NEW d \in Client PROVE CopyGood(d)'
  <2>1. CASE d = c
    BY <1>2, <2>1 DEF CopyGood
  <2>2. CASE d # c
    <3>1. CopyGood(d) /\ pc'[d] = pc[d] /\ leafB[d] \in Node
      BY <1>2, <2>2 DEF FullInv, ChainInv, BaseInv, TypeInv, TypeOK
    <3>2. CASE pc[d] # "write"
      BY <1>2, <3>1, <3>2 DEF CopyGood
    <3>3. CASE pc[d] = "write"
      <4>1. la[d] \in Leaf /\ la[d] # la[c] /\ addr[d] \in Addr
        BY <1>3, <2>2, <3>3 DEF FullInv, BaseInv, TypeInv, LocalOK, Local, Holding
      <4>2. leafB[d].syn # s
        BY <1>1, <1>7, <3>3, <4>1 DEF FullInv, BaseInv, PtrInv, MemPtrs, ClientPtrs, CopyPtrs
      <4>3. leafB[d].syn # Nil => mem'[leafB[d].syn] = mem[leafB[d].syn]
        BY <1>5, <3>1, <4>2, TypeFacts
      <4>4. mem[la[d]].syn # s
        BY <1>1, <1>7, <4>1 DEF FullInv, BaseInv, PtrInv, MemPtrs, ClientPtrs, PtrsDistinct
      <4>5. addr[d] # s
        BY <1>6, <3>3, <4>1, <4>4
           DEF FullInv, BaseInv, PtrInv, MemPtrs, ClientPtrs, AddrInChain, Holding
      <4>6. mem'[addr[d]] = mem[addr[d]]
        BY <1>5, <4>1, <4>5
      <4>7. QED
        BY <1>2, <3>1, <4>3, <4>6 DEF CopyGood
    <3>4. QED
      BY <3>2, <3>3
  <2>3. QED
    BY <2>1, <2>2
<1>11. QED
  BY <1>8, <1>9, <1>10 DEF ChainInv

\* The steps that write no node and fill no write batch.
Quiet(c) ==
    \/ Call(c)
    \/ \E a \in Addr : FetchNode(c, a)
    \/ AppendSynonyms(c) \/ SearchReturn(c) \/ RangeReturn(c)
    \/ UpdateMiss(c) \/ UpdateFound(c) \/ LockNode(c)
    \/ InsertFetch(c) \/ InsertFetchSyn(c) \/ ApplyNothing(c)
    \/ UpdateReadAnother(c) \/ Unlock(c)

\* They leave memory and the other clients alone, and their client is not
\* about to write.
LEMMA QuietFrame ==
    ASSUME FullInv, NEW c \in Client, Quiet(c)
    PROVE  /\ mem' = mem
           /\ pc'[c] \notin {"write", "write_syn"}
           /\ \A d \in Client : d # c =>
                 /\ pc'[d] = pc[d] /\ la'[d] = la[d] /\ addr'[d] = addr[d]
                 /\ leafB'[d] = leafB[d] /\ synB'[d] = synB[d]
                 /\ wsyn'[d] = wsyn[d]
<1> USE DEF FullInv, BaseInv, TypeInv, TypeOK, Return, Goto, Accept,
            StartReading, bufVars, readVars
<1>1. CASE Call(c)
  BY <1>1 DEF Call, InsertStart, UpdateStart, SearchStart, RangeStart
<1>2. CASE \E a \in Addr : FetchNode(c, a)
  BY <1>2 DEF FetchNode
<1>3. CASE AppendSynonyms(c) \/ SearchReturn(c) \/ RangeReturn(c)
           \/ UpdateMiss(c) \/ UpdateFound(c)
  BY <1>3 DEF AppendSynonyms, SearchReturn, RangeReturn, UpdateMiss,
     UpdateFound
<1>4. CASE LockNode(c) \/ InsertFetch(c) \/ InsertFetchSyn(c)
           \/ ApplyNothing(c)
  BY <1>4 DEF LockNode, InsertFetch, InsertFetchSyn, ApplyNothing
<1>5. CASE UpdateReadAnother(c) \/ Unlock(c)
  BY <1>5 DEF UpdateReadAnother, Unlock
<1>6. QED
  BY <1>1, <1>2, <1>3, <1>4, <1>5 DEF Quiet

\* The chain invariant holds initially.
LEMMA ChainInit == Init => ChainInv
<1> SUFFICES ASSUME Init PROVE ChainInv
  OBVIOUS
<1>1. \A x \in Addr : mem[x] = EmptyNode
  BY DEF Init
<1>2. EmptyNode.syn = Nil /\ KeysOf(EmptyNode) = {}
  BY EmptyFacts DEF EmptyNode
<1>3. \A a \in Leaf : ChainGood(a)
  BY <1>1, <1>2, EmptyRoom, TypeFacts, Zenon DEF ChainGood, GoodLeaf
<1>4. \A s \in SynAddr : OrphanEmpty(s)
  BY <1>1, <1>2 DEF OrphanEmpty, Addr
<1>5. \A c \in Client : CopyGood(c)
  BY DEF Init, CopyGood
<1>6. QED
  BY <1>3, <1>4, <1>5 DEF ChainInv

\* Every step preserves it.
LEMMA ChainNext == FullInv /\ [Next]_vars => ChainInv'
<1> SUFFICES ASSUME FullInv, [Next]_vars PROVE ChainInv'
  OBVIOUS
<1>1. ASSUME NEW c \in Client, Quiet(c) PROVE ChainInv'
  <2>1. ASSUME NEW d \in Client PROVE CopyGood(d)'
    BY <1>1, QuietFrame, CopyFrame DEF FullInv, ChainInv
  <2>2. QED
    BY <1>1, <2>1, QuietFrame, ChainFrame DEF FullInv
<1>2. CASE UNCHANGED vars
  BY <1>2 DEF FullInv, ChainInv, ChainGood, OrphanEmpty, CopyGood, vars,
     bufVars
<1>3. ASSUME NEW c \in Client, Call(c) \/ Step(c), ~Quiet(c) PROVE ChainInv'
  <2>1. \/ ApplyToLeaf(c) \/ ApplyToSyn(c) \/ ApplyOverflow(c)
        \/ UpdateFetch(c) \/ WriteNode(c) \/ WriteSyn(c)
    BY <1>3 DEF Step, Quiet
  <2>2. QED
    BY <2>1, ChainApplyToLeaf, ChainApplyToSyn, ChainApplyOverflow,
       ChainUpdateFetch, ChainWriteNode, ChainWriteSyn
<1>4. QED
  BY <1>1, <1>2, <1>3 DEF Next

\* Base and chain invariant together are inductive.
LEMMA FullInit == Init => FullInv
BY BaseInit, ChainInit DEF FullInv

\* Every step of the calls keeps the whole invariant of pointers and chains.
LEMMA FullNext == FullInv /\ [Next]_vars => FullInv'
BY BaseNext, ChainNext DEF FullInv

\* At every moment, also between the two node writes of a batch: a leaf holds
\* keys of its own range, a leaf with a synonym is full and precedes it, no
\* node exceeds leafSpanSize, and synonyms are neither shared nor chained.
THEOREM ChainsStaySorted == Spec => []SynonymChain
<1>1. FullInv => SynonymChain
  <2> SUFFICES ASSUME FullInv PROVE SynonymChain
    OBVIOUS
  <2>1. ASSUME NEW a \in Leaf
        PROVE  /\ \A k \in KeysOf(mem[a]) : InsertIdx[k] = a
               /\ Cardinality(KeysOf(mem[a])) <= Span
               /\ mem[a].syn # Nil =>
                    /\ Full(mem[a])
                    /\ \A k \in KeysOf(mem[mem[a].syn]) :
                         InsertIdx[k] = a /\ \A x \in KeysOf(mem[a]) : x < k
    BY <2>1 DEF FullInv, ChainInv, ChainGood, GoodLeaf, GoodSyn, Full
  <2>2. ASSUME NEW s \in SynAddr
        PROVE  Cardinality(KeysOf(mem[s])) <= Span /\ mem[s].syn = Nil
    <3>1. CASE \A a \in Leaf : mem[a].syn # s
      <4>1. KeysOf(mem[s]) = {}
        BY <3>1 DEF FullInv, ChainInv, OrphanEmpty
      <4>2. QED
        BY <4>1, EmptyRoom DEF FullInv, BaseInv, PtrInv, MemPtrs, ClientPtrs, SynHasNoSyn
    <3>2. CASE \E a \in Leaf : mem[a].syn = s
      BY <3>2, SynAddrAssumption DEF FullInv, ChainInv, ChainGood, GoodSyn,
         BaseInv, PtrInv, MemPtrs, ClientPtrs, SynHasNoSyn
    <3>3. QED
      BY <3>1, <3>2
  <2>3. \A a, b \in Leaf : mem[a].syn # Nil /\ mem[a].syn = mem[b].syn => a = b
    BY DEF FullInv, BaseInv, PtrInv, MemPtrs, ClientPtrs, PtrsDistinct
  <2>4. QED
    BY <2>1, <2>2, <2>3 DEF SynonymChain
<1>2. QED
  BY <1>1, FullInit, FullNext, PTL DEF Spec

-----------------------------------------------------------------------------
(* 6. The map of KVStore *)

\* Whoever is about to store a record behind a leaf finds room there.
RoomInSyn ==
    \A c \in Client : pc[c] = "apply" /\ leafB[c].syn # Nil =>
        GivesUp(leafB[c], synB[c], req[c].key) \/ ~Full(synB[c])

\* What leaf image n followed by synonym image s stores under k.
Pair(n, s, k) == IF n.rec[k] # Nil THEN n.rec[k] ELSE s.rec[k]

\* What c's write batch is going to leave under k.
After(c, k) == IF wsyn[c] THEN Pair(leafB[c], synB[c], k) ELSE leafB[c].rec[k]

\* The batch of an insert adds its record, which is new, and loses none.
InsertBatch(c) ==
    /\ Visible(req[c].key) = Nil
    /\ \A k \in Key : InsertIdx[k] = la[c] =>
           After(c, k) = IF k = req[c].key THEN req[c].val ELSE Visible(k)
    /\ ~wsyn[c] => leafB[c].syn = Nil

\* The batch of an update replaces a value.
UpdateBatch(c) ==
    /\ leafB[c] = Put(mem[addr[c]], req[c].key, req[c].val)
    /\ mem[addr[c]].rec[req[c].key] # Nil

\* No key leaves a synonym leaf.
SynGrows(c) == KeysOf(mem[leafB[c].syn]) \subseteq KeysOf(synB[c])

BatchGood(c) ==
    /\ pc[c] = "write" /\ req[c].kind = "insert" => InsertBatch(c)
    /\ pc[c] = "write" /\ req[c].kind = "update" => UpdateBatch(c)
    /\ pc[c] = "write_syn" \/ (pc[c] = "write" /\ wsyn[c]) => SynGrows(c)
MapInv == \A c \in Client : BatchGood(c)

AllInv == FullInv /\ MapInv

(* 7. Which steps can change what is stored under a key *)

\* Leaf a and its synonym are not written.
SameChain(a) ==
    /\ mem'[a] = mem[a]
    /\ mem[a].syn # Nil => mem'[mem[a].syn] = mem[mem[a].syn]

\* A step writes no chain but that of the leaf it holds.
LEMMA ChainElsewhere ==
    ASSUME FullInv, NEW c \in Client, Call(c) \/ Step(c), NEW a \in Leaf,
           pc[c] \in {"write", "write_syn"} => la[c] # a
    PROVE  SameChain(a)
<1>1. CASE ~WriteNode(c) /\ ~WriteSyn(c)
  BY <1>1, OnlyBatchWrites DEF SameChain
<1>2. CASE WriteNode(c) \/ WriteSyn(c)
  <2>1. Written(c) /\ la[c] # a /\ la[c] \in Leaf /\ mem[a] \in Node
    BY <1>2, WriteNodeWritten, WriteSynWritten, TypeFacts
       DEF FullInv, BaseInv, TypeInv, TypeOK, LocalOK, Local, Holding, WriteNode,
           WriteSyn
  <2>2. mem[a].syn # Nil => mem[a].syn # mem[la[c]].syn
    BY <2>1 DEF FullInv, BaseInv, PtrInv, MemPtrs, PtrsDistinct
  <2>3. QED
    BY <2>1, <2>2, TypeFacts DEF Written, SameChain
<1>3. QED
  BY <1>1, <1>2

\* Then the keys of that chain keep their values.
LEMMA VisibleSame ==
    ASSUME NEW k \in Key, SameChain(InsertIdx[k])
    PROVE  Visible(k)' = Visible(k)
BY DEF Visible, SameChain

\* While c holds the lock of k's leaf, what is stored under k is what memory
\* holds, or what c's batch is about to complete.
StoredKnown ==
    \A c \in Client, k \in Key : pc[c] \in Holding /\ InsertIdx[k] = la[c] =>
        Stored(k) = IF pc[c] = "write_syn" THEN Pair(mem[la[c]], synB[c], k)
                    ELSE Visible(k)

\* Holding the lock, the client knows what is stored under the keys of its leaf.
LEMMA StoredIsKnown == FullInv => StoredKnown
<1> SUFFICES ASSUME FullInv, NEW c \in Client, NEW k \in Key,
                    pc[c] \in Holding, InsertIdx[k] = la[c]
             PROVE  Stored(k) = IF pc[c] = "write_syn"
                                THEN Pair(mem[la[c]], synB[c], k) ELSE Visible(k)
  BY DEF StoredKnown
<1>1. \A d \in Client : d # c /\ pc[d] = "write_syn" => la[d] # la[c]
  BY Elsewhere DEF FullInv, Holding
<1>2. CASE pc[c] = "write_syn"
  <2>1. SynWriters(la[c]) = {c}
    BY <1>1, <1>2 DEF SynWriters
  <2>2. (CHOOSE d \in {c} : TRUE) = c
    OBVIOUS
  <2>3. QED
    BY <1>2, <2>1, <2>2 DEF Stored, Pair
<1>3. CASE pc[c] # "write_syn"
  <2>1. SynWriters(la[c]) = {}
    BY <1>1, <1>3 DEF SynWriters
  <2>2. QED
    BY <1>3, <2>1 DEF Stored, Visible
<1>4. QED
  BY <1>2, <1>3

\* A step of c changes what is stored under k only where c is, or comes to be,
\* writing k's chain.
LEMMA StoredSame ==
    ASSUME FullInv, NEW c \in Client, Call(c) \/ Step(c), NEW k \in Key,
           pc[c] \in {"write", "write_syn"} => la[c] # InsertIdx[k],
           pc'[c] = "write_syn" => la'[c] # InsertIdx[k]
    PROVE  Stored(k)' = Stored(k)
<1> DEFINE a == InsertIdx[k]
           W == SynWriters(a)
           w == CHOOSE d \in W : TRUE
<1>1. a \in Leaf
  BY CacheAssumption
<1>2. SameChain(a)
  BY <1>1, ChainElsewhere
<1>3. \A d \in Client : d # c => Untouched(d)
  BY OthersUntouched DEF FullInv, BaseInv
<1>4. SynWriters(a)' = W
  BY <1>3 DEF SynWriters, Untouched
<1>5. W # {} => synB'[w] = synB[w]
  <2>1. W # {} => w \in W
    OBVIOUS
  <2>2. \A d \in W : d \in Client /\ d # c
    BY DEF SynWriters
  <2>3. QED
    BY <1>3, <2>1, <2>2 DEF Untouched
<1>6. Visible(k)' = Visible(k)
  BY <1>2, VisibleSame
<1>7. /\ Stored(k) = IF mem[a].rec[k] # Nil THEN mem[a].rec[k]
                     ELSE IF W # {} THEN synB[w].rec[k] ELSE Visible(k)
      /\ Stored(k)' = IF mem'[a].rec[k] # Nil THEN mem'[a].rec[k]
                      ELSE IF W # {} THEN synB'[w].rec[k] ELSE Visible(k)'
  BY <1>4 DEF Stored
<1> HIDE DEF W, w, a
<1>8. QED
  BY <1>2, <1>5, <1>6, <1>7 DEF SameChain

-----------------------------------------------------------------------------
(* 8. What each step that touches the map does to it *)

\* The record of c's call, and nothing else, is stored.
Puts(c) ==
    \A k \in Key : Stored(k)' = IF k = req[c].key THEN req[c].val ELSE Stored(k)
SameMap == \A k \in Key : Stored(k)' = Stored(k)

\* A key insert does not find is stored nowhere.
LEMMA NotStored ==
    ASSUME FullInv, NEW c \in Client, pc[c] = "apply",
           leafB[c].rec[req[c].key] = Nil,
           \/ ~Full(leafB[c])
           \/ ~Beyond(leafB[c], req[c].key)
           \/ ~KnownInSyn(leafB[c], synB[c], req[c].key)
    PROVE  Visible(req[c].key) = Nil
<1> DEFINE k == req[c].key
           n == leafB[c]
<1>1. /\ k \in Key /\ InsertIdx[k] = la[c] /\ la[c] \in Leaf /\ n = mem[la[c]]
      /\ n.syn # Nil => synB[c] = mem[n.syn]
  BY DEF FullInv, BaseInv, TypeInv, TypeOK, LocalOK, Local, Request, Holding,
     PtrInv, ClientPtrs, Current
<1>2. ChainGood(la[c])
  BY <1>1 DEF FullInv, ChainInv
<1>3. n.syn # Nil => Full(n)
  BY <1>1, <1>2 DEF ChainGood, GoodLeaf, Full
<1>4. n.syn # Nil /\ mem[n.syn].rec[k] # Nil => Beyond(n, k)
  <2> SUFFICES ASSUME n.syn # Nil, mem[n.syn].rec[k] # Nil PROVE Beyond(n, k)
    OBVIOUS
  <2>1. k \in KeysOf(mem[n.syn])
    BY <1>1, Zenon DEF KeysOf
  <2>2. QED
    BY <1>1, <1>2, <1>3, <2>1 DEF ChainGood, GoodSyn, Beyond
<1>5. QED
  BY <1>1, <1>3, <1>4 DEF Visible, KnownInSyn

\* insert stores nothing when its key is there already (the record it would
\* have to move never is).
LEMMA EffectApplyNothing ==
    ASSUME FullInv, NEW c \in Client, ApplyNothing(c)
    PROVE  SameMap /\ Stored(req[c].key) # Nil
<1> DEFINE k == req[c].key
           n == leafB[c]
<1>1. /\ k \in Key /\ InsertIdx[k] = la[c] /\ la[c] \in Leaf /\ n = mem[la[c]]
      /\ n.syn # Nil => synB[c] = mem[n.syn]
      /\ pc[c] = "apply" /\ n \in Node
  BY DEF FullInv, BaseInv, TypeInv, TypeOK, LocalOK, Local, Request, Holding,
     PtrInv, ClientPtrs, Current, ApplyNothing
<1>2. ChainGood(la[c])
  BY <1>1 DEF FullInv, ChainInv
<1>3. Full(n) => ~KnownInSyn(n, synB[c], LastKey(n))
  <2> SUFFICES ASSUME Full(n), KnownInSyn(n, synB[c], LastKey(n)) PROVE FALSE
    OBVIOUS
  <2>1. LastKey(n) \in KeysOf(n)
    BY <1>1, LastKeyMax, FullNonEmpty
  <2>2. LastKey(n) \in KeysOf(mem[n.syn]) /\ n.syn # Nil
    BY <1>1, <2>1 DEF KnownInSyn, KeysOf
  <2>3. LastKey(n) < LastKey(n) /\ LastKey(n) \in Nat
    BY <1>1, <1>2, <2>1, <2>2, KeyAssumption, Zenon DEF ChainGood, GoodSyn,
       KeysOf
  <2>4. QED
    BY <2>3
<1>4. Visible(k) # Nil
  BY <1>1, <1>3 DEF Visible, ApplyNothing, GivesUp, KnownInSyn
<1>5. Stored(k) = Visible(k)
  BY <1>1, StoredIsKnown DEF StoredKnown, Holding
<1>6. Step(c) /\ pc'[c] = "unlock"
  BY DEF Step, ApplyNothing, Goto, FullInv, BaseInv, TypeInv, TypeOK
<1>7. SameMap
  BY <1>1, <1>6, StoredSame DEF SameMap
<1>8. QED
  BY <1>4, <1>5, <1>7

\* The copies insert works on are what is stored.
LEMMA VisibleCopies ==
    ASSUME FullInv, NEW c \in Client, pc[c] = "apply", NEW k \in Key,
           InsertIdx[k] = la[c]
    PROVE  /\ Visible(k) = IF leafB[c].syn = Nil THEN leafB[c].rec[k]
                           ELSE Pair(leafB[c], synB[c], k)
           /\ Stored(k) = Visible(k)
<1>1. /\ la[c] \in Leaf /\ leafB[c] = mem[la[c]]
      /\ leafB[c].syn # Nil => synB[c] = mem[leafB[c].syn]
  BY DEF FullInv, BaseInv, TypeInv, LocalOK, Local, Holding,
     PtrInv, ClientPtrs, Current
<1>2. QED
  BY <1>1, StoredIsKnown DEF StoredKnown, Holding, Visible, Pair

\* The copies are the new leaf image and the old synonym with record (x, v).
StoresBehind(c, leaf, x, v) ==
    /\ wsyn'[c] = TRUE
    /\ leafB'[c].rec = leaf.rec
    /\ leafB[c].syn # Nil => leafB'[c] = leaf
    /\ \A k \in Key : synB'[c].rec[k] =
           IF k = x THEN v
           ELSE IF leafB[c].syn = Nil THEN Nil ELSE synB[c].rec[k]
    /\ SynGrows(c)'

\* With room in the synonym leaf, StoreInSyn adds its record to the synonym
\* copy and drops none.
LEMMA StoresAll ==
    ASSUME FullInv, NEW c \in Client, pc[c] = "apply",
           leafB[c].syn # Nil => ~Full(synB[c]),
           NEW leaf \in Node, leaf.syn = leafB[c].syn, NEW x \in Key,
           NEW v \in Value, StoreInSyn(c, leaf, x, v), mem' = mem
    PROVE  StoresBehind(c, leaf, x, v)
<1>1. /\ leafB[c] \in Node /\ synB[c] \in Node /\ leafB \in [Client -> Node]
      /\ synB \in [Client -> Node] /\ wsyn \in [Client -> BOOLEAN]
      /\ leafB[c].syn # Nil => synB[c] = mem[leafB[c].syn]
  BY DEF FullInv, BaseInv, TypeInv, TypeOK, PtrInv, ClientPtrs, Current
<1>2. CASE leafB[c].syn = Nil
  <2>1. PICK s \in SynAddr \ used : leafB' = [leafB EXCEPT ![c] = [leaf EXCEPT !.syn = s]]
    BY <1>2 DEF StoreInSyn
  <2>2. leafB'[c].rec = leaf.rec /\ leafB'[c].syn = s
    BY <1>1, <2>1 DEF Node
  <2>3. synB'[c] = Put(EmptyNode, x, v) /\ wsyn'[c] = TRUE
    BY <1>1, <1>2 DEF StoreInSyn
  <2>4. \A k \in Key : Put(EmptyNode, x, v).rec[k] = IF k = x THEN v ELSE Nil
    BY DEF Put, EmptyNode
  <2>5. KeysOf(mem[s]) = {}
    BY <2>1, SynAddrAssumption
       DEF FullInv, BaseInv, PtrInv, MemPtrs, PtrsUsed, ChainInv, OrphanEmpty
  <2>6. SynGrows(c)'
    BY <2>2, <2>5 DEF SynGrows
  <2>7. QED
    BY <1>2, <2>2, <2>3, <2>4, <2>6 DEF StoresBehind
<1>3. CASE leafB[c].syn # Nil
  <2>1. synB'[c] = Put(synB[c], x, v) /\ wsyn'[c] = TRUE /\ leafB'[c] = leaf
    BY <1>1, <1>3 DEF StoreInSyn, PutSyn
  <2>2. \A k \in Key : Put(synB[c], x, v).rec[k] = IF k = x THEN v ELSE synB[c].rec[k]
    BY <1>1 DEF Put, Node
  <2>3. KeysOf(Put(synB[c], x, v)) = KeysOf(synB[c]) \cup {x}
    BY <1>1, PutFacts, Zenon
  <2>4. SynGrows(c)'
    BY <1>1, <1>3, <2>1, <2>3 DEF SynGrows
  <2>5. QED
    BY <1>3, <2>1, <2>2, <2>4 DEF StoresBehind
<1>4. QED
  BY <1>2, <1>3

\* The record goes to the synonym leaf.
LEMMA MapApplyToSyn ==
    ASSUME FullInv, RoomInSyn, NEW c \in Client, ApplyToSyn(c)
    PROVE  /\ BatchGood(c)'
           /\ Visible(req[c].key) = Nil
           /\ leafB[c].syn # Nil => Puts(c)
           /\ leafB[c].syn = Nil => SameMap
<1> DEFINE x == req[c].key
           v == req[c].val
           n == leafB[c]
<1>1. /\ x \in Key /\ v \in Value /\ n \in Node /\ la[c] \in Leaf
      /\ InsertIdx[x] = la[c] /\ pc[c] = "apply" /\ req[c].kind = "insert"
      /\ pc \in [Client -> PCs] /\ n = mem[la[c]]
  BY DEF FullInv, BaseInv, TypeInv, TypeOK, LocalOK, Local, ApplyToSyn, Request,
     Holding, PtrInv, ClientPtrs, Current
<1>2. /\ n.rec[x] = Nil /\ Beyond(n, x) /\ StoreInSyn(c, n, x, v)
      /\ mem' = mem /\ la' = la /\ addr' = addr /\ req' = req
      /\ pc'[c] = IF n.syn = Nil THEN "write" ELSE "write_syn"
  BY <1>1 DEF ApplyToSyn, Goto
<1>3. ~KnownInSyn(n, synB[c], x)
  BY <1>2 DEF StoreInSyn
<1>4. Visible(x) = Nil
  BY <1>1, <1>2, <1>3, NotStored
<1>5. n.syn # Nil => ~Full(synB[c])
  BY <1>1, <1>2, <1>3, LastKeyMax DEF RoomInSyn, GivesUp
<1>6. /\ wsyn'[c] = TRUE
      /\ leafB'[c].rec = n.rec
      /\ n.syn # Nil => leafB'[c] = n
      /\ \A k \in Key : synB'[c].rec[k] =
             IF k = x THEN v ELSE IF n.syn = Nil THEN Nil ELSE synB[c].rec[k]
      /\ SynGrows(c)'
  BY <1>1, <1>2, <1>5, StoresAll, Zenon DEF StoresBehind
<1> HIDE DEF x, v, n
<1>7. Nil \notin Value /\ n = leafB[c] /\ x = req[c].key /\ v = req[c].val
  BY ValueAssumption DEF x, v, n
<1>8. ASSUME NEW k \in Key, InsertIdx[k] = la[c]
      PROVE  Pair(leafB'[c], synB'[c], k) = IF k = x THEN v ELSE Visible(k)
  <2>1. Visible(k) = IF n.syn = Nil THEN n.rec[k] ELSE Pair(n, synB[c], k)
    BY <1>1, <1>7, <1>8, VisibleCopies
  <2>2. QED
    BY <1>1, <1>2, <1>6, <1>7, <2>1 DEF Pair
<1>9. \A k \in Key : Visible(k)' = Visible(k)
  BY <1>2 DEF Visible
<1>10. BatchGood(c)'
  <2>1. pc'[c] = "write" => InsertBatch(c)'
    BY <1>1, <1>2, <1>4, <1>6, <1>7, <1>8, <1>9 DEF InsertBatch, After
  <2>2. QED
    BY <1>1, <1>2, <1>6, <2>1 DEF BatchGood
<1>11. Step(c)
  BY DEF Step
<1>12. n.syn = Nil => SameMap
  BY <1>1, <1>2, <1>11, StoredSame DEF SameMap
<1>13. ASSUME n.syn # Nil PROVE Puts(c)
  <2>1. FullInv'
    BY <1>11, FullNext DEF Next
  <2>2. StoredKnown'
    BY <2>1, StoredIsKnown, PTL
  <2>3. pc'[c] = "write_syn" /\ mem'[la'[c]] = leafB'[c] /\ la'[c] = la[c]
    BY <1>1, <1>2, <1>6, <1>13
  <2>4. ASSUME NEW k \in Key, InsertIdx[k] = la[c]
        PROVE  Stored(k)' = IF k = x THEN v ELSE Stored(k)
    <3>1. Stored(k)' = Pair(leafB'[c], synB'[c], k)
      BY <2>2, <2>3, <2>4 DEF StoredKnown, Holding, Pair
    <3>2. Stored(k) = Visible(k)
      BY <1>1, <2>4, VisibleCopies
    <3>3. QED
      BY <1>8, <2>4, <3>1, <3>2
  <2>5. ASSUME NEW k \in Key, InsertIdx[k] # la[c]
        PROVE  Stored(k)' = Stored(k) /\ k # x
    BY <1>1, <1>11, <2>3, <2>5, StoredSame
  <2>6. QED
    BY <1>7, <2>4, <2>5 DEF Puts
<1>14. QED
  BY <1>4, <1>7, <1>10, <1>12, <1>13

\* The record goes into a leaf that has room, hence no synonym.
LEMMA MapApplyToLeaf ==
    ASSUME FullInv, NEW c \in Client, ApplyToLeaf(c)
    PROVE  BatchGood(c)' /\ SameMap
<1> DEFINE x == req[c].key
           v == req[c].val
           n == leafB[c]
<1>1. /\ x \in Key /\ v \in Value /\ n \in Node /\ la[c] \in Leaf
      /\ InsertIdx[x] = la[c] /\ pc[c] = "apply" /\ req[c].kind = "insert"
      /\ pc \in [Client -> PCs] /\ n = mem[la[c]] /\ ~wsyn[c]
      /\ leafB \in [Client -> Node]
  BY DEF FullInv, BaseInv, TypeInv, TypeOK, LocalOK, Local, ApplyToLeaf, Request,
     Holding, PtrInv, ClientPtrs, Current
<1>2. /\ n.rec[x] = Nil /\ ~Full(n) /\ leafB'[c] = Put(n, x, v)
      /\ mem' = mem /\ la' = la /\ addr' = addr /\ req' = req /\ wsyn' = wsyn
      /\ pc'[c] = "write"
  BY <1>1 DEF ApplyToLeaf, Goto
<1>3. n.syn = Nil
  BY <1>1, <1>2 DEF FullInv, ChainInv, ChainGood, GoodLeaf, Full
<1>4. Visible(x) = Nil
  BY <1>1, <1>2, NotStored
<1>5. leafB'[c].syn = Nil
      /\ \A k \in Key : leafB'[c].rec[k] = IF k = x THEN v ELSE n.rec[k]
  BY <1>1, <1>2, <1>3 DEF Put, Node
<1> HIDE DEF n, x, v
<1>6. n = leafB[c] /\ x = req[c].key /\ v = req[c].val
  BY DEF n, x, v
<1>7. \A k \in Key : InsertIdx[k] = la[c] => Visible(k) = n.rec[k]
  BY <1>1, <1>3, <1>6, VisibleCopies
<1>8. \A k \in Key : Visible(k)' = Visible(k)
  BY <1>2 DEF Visible
<1>9. InsertBatch(c)'
  BY <1>1, <1>2, <1>4, <1>5, <1>6, <1>7, <1>8 DEF InsertBatch, After
<1>10. BatchGood(c)'
  BY <1>1, <1>2, <1>9 DEF BatchGood
<1>11. Step(c)
  BY DEF Step
<1>12. QED
  BY <1>1, <1>2, <1>10, <1>11, StoredSame DEF SameMap

\* The last record of the leaf goes to the synonym leaf.
LEMMA MapApplyOverflow ==
    ASSUME FullInv, RoomInSyn, NEW c \in Client, ApplyOverflow(c)
    PROVE  BatchGood(c)' /\ SameMap
<1> DEFINE x == req[c].key
           v == req[c].val
           n == leafB[c]
           last == LastKey(n)
           m == PutOverflow(n, x, v)
<1>1. /\ x \in Key /\ v \in Value /\ n \in Node /\ la[c] \in Leaf
      /\ InsertIdx[x] = la[c] /\ pc[c] = "apply" /\ req[c].kind = "insert"
      /\ pc \in [Client -> PCs] /\ n = mem[la[c]]
  BY DEF FullInv, BaseInv, TypeInv, TypeOK, LocalOK, Local, ApplyOverflow, Request,
     Holding, PtrInv, ClientPtrs, Current
<1>2. /\ n.rec[x] = Nil /\ Full(n) /\ ~Beyond(n, x)
      /\ StoreInSyn(c, m, last, n.rec[last])
      /\ mem' = mem /\ la' = la /\ addr' = addr /\ req' = req
      /\ pc'[c] = "write"
  BY <1>1 DEF ApplyOverflow, Goto
<1>3. m \in Node /\ last \in KeysOf(n) /\ last \in Key /\ n.rec[last] \in Value
  BY <1>1, <1>2, PutOverflowFacts, Zenon
<1>4. m.syn = n.syn /\ m.rec = [n.rec EXCEPT ![last] = Nil, ![x] = v]
  BY <1>1, <1>2, PutOverflowFacts
<1>5. Visible(x) = Nil
  BY <1>1, <1>2, NotStored
<1>6. ~KnownInSyn(n, synB[c], last)
  BY <1>2 DEF StoreInSyn
<1>7. n.syn # Nil => ~Full(synB[c])
  BY <1>1, <1>2, <1>6 DEF RoomInSyn, GivesUp
<1> HIDE DEF last, m
<1>8. /\ wsyn'[c] = TRUE
      /\ leafB'[c].rec = m.rec
      /\ \A k \in Key : synB'[c].rec[k] =
             IF k = last THEN n.rec[last]
             ELSE IF n.syn = Nil THEN Nil ELSE synB[c].rec[k]
      /\ SynGrows(c)'
  <2>1. PICK leaf \in Node, y \in Key, w \in Value :
            leaf = m /\ y = last /\ w = n.rec[last]
    BY <1>3
  <2>2. StoreInSyn(c, leaf, y, w)
    BY <1>2, <2>1
  <2>3. /\ leaf.syn = leafB[c].syn /\ pc[c] = "apply" /\ mem' = mem
        /\ leafB[c].syn # Nil => ~Full(synB[c])
    BY <1>1, <1>2, <1>4, <1>7, <2>1
  <2> HIDE DEF n, x, v
  <2>4. StoresBehind(c, leaf, y, w)
    BY <2>2, <2>3, StoresAll
  <2>5. QED
    BY <2>1, <2>4 DEF n, StoresBehind
<1> HIDE DEF n, x, v
<1>9. Nil \notin Value /\ n = leafB[c] /\ x = req[c].key /\ v = req[c].val
  BY ValueAssumption DEF x, v, n
<1>10. \A k \in Key :
           m.rec[k] = IF k = x THEN v ELSE IF k = last THEN Nil ELSE n.rec[k]
  BY <1>1, <1>4 DEF Node
<1>11. ASSUME NEW k \in Key, InsertIdx[k] = la[c]
      PROVE  Pair(leafB'[c], synB'[c], k) = IF k = x THEN v ELSE Visible(k)
  <2>1. Visible(k) = IF n.syn = Nil THEN n.rec[k] ELSE Pair(n, synB[c], k)
    BY <1>1, <1>9, <1>11, VisibleCopies
  <2>2. QED
    BY <1>1, <1>2, <1>3, <1>8, <1>9, <1>10, <2>1 DEF Pair
<1>12. \A k \in Key : Visible(k)' = Visible(k)
  BY <1>2 DEF Visible
<1>13. InsertBatch(c)'
  BY <1>1, <1>2, <1>5, <1>8, <1>9, <1>11, <1>12 DEF InsertBatch, After
<1>14. BatchGood(c)'
  BY <1>1, <1>2, <1>8, <1>9, <1>13 DEF BatchGood
<1>15. Step(c)
  BY DEF Step
<1>16. QED
  BY <1>1, <1>2, <1>14, <1>15, StoredSame DEF SameMap

\* update has changed the record in its copy.
LEMMA MapUpdateFetch ==
    ASSUME FullInv, NEW c \in Client, UpdateFetch(c)
    PROVE  BatchGood(c)' /\ SameMap
<1>1. /\ pc[c] = "update" /\ req[c].kind = "update" /\ ~wsyn[c]
      /\ pc \in [Client -> PCs] /\ leafB \in [Client -> Node]
  BY DEF FullInv, BaseInv, TypeInv, TypeOK, LocalOK, Local, UpdateFetch
<1>2. /\ leafB'[c] = Put(mem[addr[c]], req[c].key, req[c].val)
      /\ mem[addr[c]].rec[req[c].key] # Nil
      /\ mem' = mem /\ addr' = addr /\ req' = req /\ wsyn' = wsyn
      /\ pc'[c] = "write"
  BY <1>1 DEF UpdateFetch, Goto
<1>3. UpdateBatch(c)'
  BY <1>2 DEF UpdateBatch
<1>4. BatchGood(c)'
  BY <1>1, <1>2, <1>3 DEF BatchGood
<1>5. Step(c)
  BY DEF Step
<1>6. QED
  BY <1>1, <1>2, <1>4, <1>5, StoredSame DEF SameMap

\* The first write of insert's batch: with it the record is stored.
LEMMA EffectWriteInsert ==
    ASSUME AllInv, NEW c \in Client, WriteNode(c), req[c].kind = "insert"
    PROVE  Puts(c) /\ Stored(req[c].key) = Nil /\ BatchGood(c)'
<1>1. /\ FullInv /\ pc[c] = "write" /\ InsertBatch(c) /\ req[c].key \in Key
      /\ wsyn[c] => SynGrows(c) /\ leafB[c].syn # Nil
      /\ la[c] \in Leaf /\ InsertIdx[req[c].key] = la[c] /\ addr[c] = la[c]
      /\ mem \in [Addr -> Node] /\ leafB[c] \in Node
      /\ pc \in [Client -> PCs]
  BY DEF AllInv, MapInv, BatchGood, FullInv, BaseInv, TypeInv, TypeOK, LocalOK,
     Local, Holding, Request, WriteNode
<1>2. /\ mem' = [mem EXCEPT ![la[c]] = leafB[c]]
      /\ la' = la /\ leafB' = leafB /\ synB' = synB /\ wsyn' = wsyn /\ req' = req
      /\ pc'[c] = IF wsyn[c] THEN "write_syn" ELSE "unlock"
  BY <1>1 DEF WriteNode, Goto, bufVars
<1>3. mem'[la[c]] = leafB[c]
  BY <1>1, <1>2, TypeFacts
<1>4. Step(c)
  BY DEF Step
<1>5. StoredKnown /\ StoredKnown'
  <2>1. FullInv'
    BY <1>1, <1>4, FullNext DEF Next
  <2>2. StoredKnown'
    BY <2>1, StoredIsKnown, PTL
  <2>3. QED
    BY <1>1, <2>2, StoredIsKnown
<1>6. ASSUME NEW k \in Key, InsertIdx[k] = la[c]
      PROVE  /\ Stored(k) = Visible(k)
             /\ Stored(k)' = After(c, k)
  <2>1. Stored(k) = Visible(k)
    BY <1>1, <1>5, <1>6 DEF StoredKnown, Holding
  <2>2. CASE wsyn[c]
    BY <1>2, <1>3, <1>5, <1>6, <2>1, <2>2 DEF StoredKnown, Holding,
       After, Pair
  <2>3. CASE ~wsyn[c]
    <3>1. Stored(k)' = Visible(k)'
      BY <1>2, <1>5, <1>6, <2>3 DEF StoredKnown, Holding
    <3>2. Visible(k)' = leafB[c].rec[k]
      BY <1>1, <1>3, <1>6, <2>3 DEF Visible, InsertBatch
    <3>3. QED
      BY <2>1, <2>3, <3>1, <3>2 DEF After
  <2>4. QED
    BY <2>1, <2>2, <2>3
<1>7. ASSUME NEW k \in Key, InsertIdx[k] # la[c]
      PROVE  Stored(k)' = Stored(k) /\ k # req[c].key
  BY <1>1, <1>2, <1>4, <1>7, StoredSame
<1>8. Puts(c) /\ Stored(req[c].key) = Nil
  BY <1>1, <1>6, <1>7 DEF Puts, InsertBatch
<1>9. wsyn[c] => SynGrows(c)'
  <2> SUFFICES ASSUME wsyn[c] PROVE SynGrows(c)'
    OBVIOUS
  <2>1. leafB[c].syn \in Addr /\ leafB[c].syn # la[c]
    BY <1>1, TypeFacts, LeafAssumption
  <2>2. mem'[leafB[c].syn] = mem[leafB[c].syn]
    BY <1>1, <1>2, <2>1
  <2>3. QED
    BY <1>1, <1>2, <2>2 DEF SynGrows
<1>10. BatchGood(c)'
  BY <1>2, <1>9 DEF BatchGood
<1>11. QED
  BY <1>8, <1>10

\* The write of update replaces the value of its key.
LEMMA EffectWriteUpdate ==
    ASSUME AllInv, NEW c \in Client, WriteNode(c), req[c].kind = "update"
    PROVE  Puts(c) /\ Stored(req[c].key) # Nil /\ BatchGood(c)'
<1> DEFINE x == req[c].key
           v == req[c].val
           a == la[c]
           s == mem[a].syn
<1>1. /\ FullInv /\ pc[c] = "write" /\ UpdateBatch(c) /\ x \in Key /\ v \in Value
      /\ ~wsyn[c] /\ a \in Leaf /\ a \in Addr /\ addr[c] \in Addr
      /\ mem \in [Addr -> Node] /\ leafB[c] \in Node
      /\ pc \in [Client -> PCs]
  BY TypeFacts DEF AllInv, MapInv, BatchGood, FullInv, BaseInv, TypeInv, TypeOK,
     LocalOK, Local, Holding, Request, WriteNode
<1>2. /\ mem' = [mem EXCEPT ![addr[c]] = leafB[c]]
      /\ la' = la /\ pc'[c] = "unlock"
  BY <1>1 DEF WriteNode, Goto, bufVars
<1>3. /\ addr[c] = a \/ (addr[c] = s /\ s \in SynAddr /\ s # Nil /\ s # a)
      /\ ChainGood(a)
  BY <1>1, TypeFacts, LeafAssumption, Zenon DEF FullInv, BaseInv, PtrInv,
     ClientPtrs, AddrInChain, ChainInv, Holding
<1>4. /\ mem'[addr[c]].syn = mem[addr[c]].syn
      /\ \A k \in Key : mem'[addr[c]].rec[k] =
             IF k = x THEN v ELSE mem[addr[c]].rec[k]
      /\ \A y \in Addr : y # addr[c] => mem'[y] = mem[y]
      /\ mem[addr[c]].rec[x] # Nil
  BY <1>1, <1>2 DEF UpdateBatch, Put, Node
<1>5. /\ InsertIdx[x] = a
      /\ addr[c] # a => mem[a].rec[x] = Nil
  <2>1. CASE addr[c] = a
    BY <1>1, <1>3, <1>4, <2>1 DEF ChainGood, GoodLeaf, KeysOf
  <2>2. CASE addr[c] # a
    <3>1. x \in KeysOf(mem[s]) /\ s # Nil
      BY <1>1, <1>3, <1>4, <2>2 DEF KeysOf
    <3>2. InsertIdx[x] = a /\ \A y \in KeysOf(mem[a]) : y < x
      BY <1>3, <3>1 DEF ChainGood, GoodSyn
    <3>3. x \notin KeysOf(mem[a])
      <4>1. \A y \in Key : ~(y < y)
        BY KeyAssumption
      <4>2. x \in Key
        BY <1>1
      <4>3. QED
        BY <3>2, <4>1, <4>2, Zenon
    <3>4. QED
      BY <1>1, <3>2, <3>3 DEF KeysOf
  <2>3. QED
    BY <2>1, <2>2
<1>6. Step(c)
  BY DEF Step
<1>7. StoredKnown /\ StoredKnown'
  <2>1. FullInv'
    BY <1>1, <1>6, FullNext DEF Next
  <2>2. StoredKnown'
    BY <2>1, StoredIsKnown, PTL
  <2>3. QED
    BY <1>1, <2>2, StoredIsKnown
<1>8. s # Nil => s \in Addr /\ s # a
  BY <1>1, TypeFacts, LeafAssumption, Zenon
<1>9. ASSUME NEW k \in Key, InsertIdx[k] = a
      PROVE  /\ Stored(k) = Visible(k)
             /\ Stored(k)' = IF k = x THEN v ELSE Visible(k)
             /\ Visible(x) # Nil
  <2>1. Stored(k) = Visible(k) /\ Stored(k)' = Visible(k)'
    BY <1>1, <1>2, <1>7, <1>9 DEF StoredKnown, Holding
  <2>2. Visible(x) # Nil
    BY <1>3, <1>4, <1>5 DEF Visible
  <2>3. CASE addr[c] = a
    <3>1. /\ mem'[a].syn = s /\ (s # Nil => mem'[s] = mem[s])
          /\ mem'[a].rec[k] = IF k = x THEN v ELSE mem[a].rec[k]
      BY <1>4, <1>8, <2>3
    <3>2. Visible(k)' = IF k = x THEN v ELSE Visible(k)
      BY <1>1, <1>9, <3>1, ValueAssumption DEF Visible
    <3>3. QED
      BY <2>1, <2>2, <3>2
  <2>4. CASE addr[c] # a
    <3>1. mem'[a] = mem[a] /\ mem'[s].rec[k] = IF k = x THEN v ELSE mem[s].rec[k]
      BY <1>1, <1>3, <1>4, <2>4
    <3>2. Visible(k)' = IF k = x THEN v ELSE Visible(k)
      BY <1>3, <1>5, <1>9, <2>4, <3>1 DEF Visible
    <3>3. QED
      BY <2>1, <2>2, <3>2
  <2>5. QED
    BY <2>3, <2>4
<1>10. ASSUME NEW k \in Key, InsertIdx[k] # a
       PROVE  Stored(k)' = Stored(k) /\ k # x
  BY <1>1, <1>2, <1>5, <1>6, <1>10, StoredSame
<1>11. Puts(c) /\ Stored(x) # Nil
  BY <1>1, <1>5, <1>9, <1>10 DEF Puts
<1>12. QED
  BY <1>2, <1>11 DEF BatchGood

\* The second write of the batch brings memory up to what was stored already.
LEMMA EffectWriteSyn ==
    ASSUME AllInv, NEW c \in Client, WriteSyn(c)
    PROVE  SameMap /\ BatchGood(c)'
<1>1. /\ FullInv /\ pc[c] = "write_syn" /\ la[c] \in Leaf /\ pc \in [Client -> PCs]
  BY DEF AllInv, FullInv, BaseInv, TypeInv, TypeOK, LocalOK, Local, Holding,
     WriteSyn
<1>2. la' = la /\ synB' = synB /\ pc'[c] = "unlock"
  BY <1>1 DEF WriteSyn, Goto, bufVars
<1>3. /\ leafB[c] = mem[la[c]] /\ leafB[c].syn \in SynAddr
      /\ mem'[leafB[c].syn] = synB[c]
      /\ mem'[la[c]] = mem[la[c]]
  BY <1>1, WriteSynWritten DEF FullInv
<1>4. Step(c)
  BY DEF Step
<1>5. StoredKnown /\ StoredKnown'
  <2>1. FullInv'
    BY <1>1, <1>4, FullNext DEF Next
  <2>2. StoredKnown'
    BY <2>1, StoredIsKnown, PTL
  <2>3. QED
    BY <1>1, <2>2, StoredIsKnown
<1>6. ASSUME NEW k \in Key, InsertIdx[k] = la[c] PROVE Stored(k)' = Stored(k)
  <2>1. Stored(k) = Pair(mem[la[c]], synB[c], k)
    BY <1>1, <1>5, <1>6 DEF StoredKnown, Holding
  <2>2. Stored(k)' = Visible(k)'
    BY <1>2, <1>5, <1>6 DEF StoredKnown, Holding
  <2>3. QED
    BY <1>3, <1>6, <2>1, <2>2, SynAddrAssumption DEF Visible, Pair
<1>7. ASSUME NEW k \in Key, InsertIdx[k] # la[c] PROVE Stored(k)' = Stored(k)
  BY <1>1, <1>2, <1>4, <1>7, StoredSame
<1>8. QED
  BY <1>2, <1>6, <1>7 DEF SameMap, BatchGood

\* Another client's batch stays good: nobody writes the chain it works on.
LEMMA BatchOther ==
    ASSUME AllInv, NEW c \in Client, Call(c) \/ Step(c), NEW d \in Client, d # c
    PROVE  BatchGood(d)'
<1>1. SUFFICES ASSUME pc[d] \in {"write", "write_syn"} PROVE BatchGood(d)'
  BY OthersUntouched DEF BatchGood, Untouched, AllInv, FullInv, BaseInv
<1>2. /\ FullInv /\ BatchGood(d) /\ Untouched(d) /\ la[d] \in Leaf
      /\ leafB[d] \in Node /\ pc[d] \in Holding /\ addr[d] \in Addr
      /\ pc[d] = "write_syn" \/ wsyn[d] => leafB[d].syn # Nil
      /\ req[d].kind = "insert" =>
             req[d].key \in Key /\ InsertIdx[req[d].key] = la[d]
  BY <1>1, OthersUntouched DEF AllInv, MapInv, FullInv, BaseInv, TypeInv, TypeOK,
     LocalOK, Local, Holding, Request
<1>3. pc[c] \in {"write", "write_syn"} => la[c] # la[d]
  BY <1>2, Elsewhere DEF FullInv, Holding
<1>4. SameChain(la[d])
  BY <1>2, <1>3, ChainElsewhere
<1>5. \A k \in Key : InsertIdx[k] = la[d] => Visible(k)' = Visible(k)
  BY <1>4, VisibleSame
<1>6. mem'[addr[d]] = mem[addr[d]]
  BY <1>2, <1>4, TypeFacts
     DEF FullInv, BaseInv, PtrInv, ClientPtrs, AddrInChain, SameChain
<1>7. leafB[d].syn # Nil => mem'[leafB[d].syn] = mem[leafB[d].syn]
  <2> SUFFICES ASSUME leafB[d].syn # Nil, WriteNode(c) \/ WriteSyn(c)
               PROVE  mem'[leafB[d].syn] = mem[leafB[d].syn]
    BY OnlyBatchWrites
  <2>1. Written(c) /\ la[c] \in Leaf /\ la[c] # la[d]
    BY <1>2, <1>3, WriteNodeWritten, WriteSynWritten
       DEF FullInv, BaseInv, TypeInv, LocalOK, Local, Holding, WriteNode, WriteSyn
  <2>2. leafB[d].syn # mem[la[c]].syn
    <3>1. ClientPtrs(d) /\ PtrsDistinct
      BY <1>2 DEF FullInv, BaseInv, PtrInv, MemPtrs
    <3>2. CASE pc[d] = "write"
      BY <2>1, <3>1, <3>2 DEF ClientPtrs, CopyPtrs
    <3>3. CASE pc[d] = "write_syn"
      BY <1>2, <2>1, <3>1, <3>3 DEF ClientPtrs, Current, PtrsDistinct
    <3>4. QED
      BY <1>1, <3>2, <3>3
  <2>3. QED
    BY <1>2, <2>1, <2>2, TypeFacts DEF Written
<1>8. pc[d] = "write" /\ req[d].kind = "insert" => InsertBatch(d)'
  <2>1. \A k \in Key : After(d, k)' = After(d, k)
    BY <1>2 DEF After, Pair, Untouched
  <2>2. QED
    BY <1>2, <1>5, <2>1 DEF BatchGood, InsertBatch, Untouched
<1>9. pc[d] = "write" /\ req[d].kind = "update" => UpdateBatch(d)'
  BY <1>2, <1>6 DEF BatchGood, UpdateBatch, Untouched
<1>10. pc[d] = "write_syn" \/ (pc[d] = "write" /\ wsyn[d]) => SynGrows(d)'
  BY <1>1, <1>2, <1>7 DEF BatchGood, SynGrows, Untouched
<1>11. QED
  BY <1>2, <1>8, <1>9, <1>10 DEF BatchGood, Untouched

-----------------------------------------------------------------------------
(* 9. The inductive invariant *)

\* A step that is not part of a write batch, nor prepares one.
LEMMA QuietSame ==
    ASSUME FullInv, NEW c \in Client, Quiet(c)
    PROVE  SameMap /\ BatchGood(c)'
<1>1. pc[c] \notin {"write", "write_syn"}
  BY DEF Quiet, Call, InsertStart, UpdateStart, SearchStart, RangeStart,
     StartReading, Accept, FetchNode, AppendSynonyms, SearchReturn, RangeReturn,
     UpdateMiss, UpdateFound, HasRead, LockNode, InsertFetch, InsertFetchSyn,
     ApplyNothing, UpdateReadAnother, Unlock
<1>2. pc'[c] \notin {"write", "write_syn"}
  BY QuietFrame
<1>3. Call(c) \/ Step(c)
  BY DEF Quiet, Step
<1>4. SameMap
  BY <1>1, <1>2, <1>3, StoredSame DEF SameMap
<1>5. QED
  BY <1>2, <1>4 DEF BatchGood

\* With room in the synonym leaves, every step keeps the batches good.
LEMMA MapNext == AllInv /\ RoomInSyn /\ [Next]_vars => MapInv'
<1> SUFFICES ASSUME AllInv, RoomInSyn, [Next]_vars PROVE MapInv'
  OBVIOUS
<1>1. ASSUME NEW c \in Client, Call(c) \/ Step(c) PROVE MapInv'
  <2>1. BatchGood(c)'
    <3>1. CASE Quiet(c)
      BY <3>1, QuietSame DEF AllInv
    <3>2. CASE ApplyToLeaf(c) \/ ApplyToSyn(c) \/ ApplyOverflow(c)
               \/ UpdateFetch(c)
      BY <3>2, MapApplyToLeaf, MapApplyToSyn, MapApplyOverflow, MapUpdateFetch
         DEF AllInv
    <3>3. CASE WriteNode(c)
      <4>1. req[c].kind \in {"insert", "update"}
        BY <3>3 DEF AllInv, FullInv, BaseInv, TypeInv, LocalOK, Local, Holding,
           WriteNode
      <4>2. QED
        BY <3>3, <4>1, EffectWriteInsert, EffectWriteUpdate
    <3>4. CASE WriteSyn(c)
      BY <3>4, EffectWriteSyn
    <3>5. QED
      BY <1>1, <3>1, <3>2, <3>3, <3>4 DEF Step, Quiet
  <2>2. ASSUME NEW d \in Client PROVE BatchGood(d)'
    BY <1>1, <2>1, BatchOther
  <2>3. QED
    BY <2>2 DEF MapInv
<1>2. CASE UNCHANGED vars
  <2>1. /\ mem' = mem /\ pc' = pc /\ req' = req /\ la' = la /\ addr' = addr
        /\ leafB' = leafB /\ synB' = synB /\ wsyn' = wsyn
    BY <1>2 DEF vars, bufVars
  <2>2. \A k \in Key, c \in Client :
            Visible(k)' = Visible(k) /\ After(c, k)' = After(c, k)
    BY <2>1 DEF Visible, After, Pair
  <2>3. \A c \in Client : BatchGood(c) => BatchGood(c)'
    <3> SUFFICES ASSUME NEW c \in Client, BatchGood(c) PROVE BatchGood(c)'
      OBVIOUS
    <3>1. InsertBatch(c) /\ pc[c] = "write" /\ req[c].kind = "insert" =>
              InsertBatch(c)'
      <4>1. pc[c] = "write" => req[c].key \in Key
        BY DEF AllInv, FullInv, BaseInv, TypeInv, LocalOK, Local, Request
      <4>2. QED
        BY <2>1, <2>2, <4>1 DEF InsertBatch
    <3>2. UpdateBatch(c)' = UpdateBatch(c) /\ SynGrows(c)' = SynGrows(c)
      BY <2>1 DEF UpdateBatch, SynGrows
    <3>3. QED
      BY <2>1, <3>1, <3>2 DEF BatchGood
  <2>4. QED
    BY <2>3 DEF AllInv, MapInv
<1>3. QED
  BY <1>1, <1>2 DEF Next

\* The fresh tree satisfies the invariant of the map.
LEMMA AllInit == Init => AllInv
<1> SUFFICES ASSUME Init PROVE AllInv
  OBVIOUS
<1>1. \A c \in Client : BatchGood(c)
  BY DEF Init, BatchGood
<1>2. QED
  BY <1>1, FullInit DEF AllInv, MapInv

\* While a synonym leaf has room for every overflow, each step keeps it.
LEMMA AllNext == AllInv /\ RoomInSyn /\ [Next]_vars => AllInv'
BY FullNext, MapNext DEF AllInv

-----------------------------------------------------------------------------
(* 10. Each step is a step of KVStore, or none *)

\* The call of another client is in the phase it was in.
LEMMA PhaseOther ==
    ASSUME FullInv, NEW c \in Client, Call(c) \/ Step(c), NEW d \in Client, d # c
    PROVE  Phase(d)' = Phase(d)
BY OthersUntouched DEF Phase, Untouched, FullInv, BaseInv

\* A step that changes neither the map, nor the phase or request of its client.
LEMMA KVStutter ==
    ASSUME FullInv, NEW c \in Client, Call(c) \/ Step(c), SameMap,
           Phase(c)' = Phase(c), req' = req
    PROVE  UNCHANGED KV!vars
<1>1. \A d \in Client : Phase(d)' = Phase(d)
  BY PhaseOther
<1>2. [d \in Client |-> Phase(d)]' = [d \in Client |-> Phase(d)]
  BY <1>1
<1>3. [k \in Key |-> Stored(k)]' = [k \in Key |-> Stored(k)]
  BY DEF SameMap
<1>4. QED
  BY <1>2, <1>3 DEF KV!vars

\* A step that moves its client to another phase.
LEMMA KVPhase ==
    ASSUME FullInv, NEW c \in Client, Call(c) \/ Step(c), NEW p, Phase(c)' = p
    PROVE  [d \in Client |-> Phase(d)]' =
               [[d \in Client |-> Phase(d)] EXCEPT ![c] = p]
<1>1. \A d \in Client : Phase(d)' = IF d = c THEN p ELSE Phase(d)
  BY PhaseOther
<1>2. QED
  BY <1>1, Zenon

\* A call begins.
LEMMA KVCall ==
    ASSUME FullInv, NEW c \in Client, Call(c)
    PROVE  KV!Next
<1>1. SameMap
  BY QuietSame DEF Quiet
<1>2. \E r \in KV!Request : req' = [req EXCEPT ![c] = r]
  BY CacheAssumption, Zenon DEF Call, InsertStart, UpdateStart, SearchStart,
     RangeStart, StartReading, Accept, KV!Request
<1>3. Phase(c) = "idle" /\ Phase(c)' = "pending"
  BY DEF Call, InsertStart, UpdateStart, SearchStart, RangeStart, StartReading,
     Accept, Phase, FullInv, BaseInv, TypeInv, TypeOK
<1>4. [d \in Client |-> Phase(d)]' =
          [[d \in Client |-> Phase(d)] EXCEPT ![c] = "pending"]
  BY <1>3, KVPhase
<1>5. [k \in Key |-> Stored(k)]' = [k \in Key |-> Stored(k)]
  BY <1>1 DEF SameMap
<1>6. QED
  BY <1>2, <1>3, <1>4, <1>5, Zenon DEF KV!Next, KV!Call

\* A call ends.
LEMMA KVReturn ==
    ASSUME FullInv, NEW c \in Client,
           SearchReturn(c) \/ RangeReturn(c) \/ UpdateMiss(c) \/ Unlock(c)
    PROVE  KV!Next
<1>1. SameMap /\ Step(c)
  BY QuietSame DEF Quiet, Step
<1>2. req' = [req EXCEPT ![c] = NoReq] /\ Phase(c)' = "idle"
  BY DEF SearchReturn, RangeReturn, UpdateMiss, Unlock, Return, Phase, FullInv,
     BaseInv, TypeInv, TypeOK
<1>3. [d \in Client |-> Phase(d)]' =
          [[d \in Client |-> Phase(d)] EXCEPT ![c] = "idle"]
  BY <1>1, <1>2, KVPhase
<1>4. [k \in Key |-> Stored(k)]' = [k \in Key |-> Stored(k)]
  BY <1>1 DEF SameMap
<1>5. NoReq = KV!NoReq
  BY DEF NoReq, KV!NoReq
<1>6. CASE Unlock(c)
  <2>1. Phase(c) = "done"
    BY <1>6 DEF Unlock, Phase
  <2>2. KV!Return(c)
    BY <1>2, <1>3, <1>4, <1>5, <2>1 DEF KV!Return
  <2>3. QED
    BY <2>2 DEF KV!Next
<1>7. CASE ~Unlock(c)
  <2>1. Phase(c) = "pending" /\ req[c].kind # "insert"
    BY <1>7 DEF SearchReturn, RangeReturn, UpdateMiss, HasRead, Phase
  <2>2. KV!ReturnUnchanged(c)
    BY <1>2, <1>3, <1>4, <1>5, <2>1 DEF KV!ReturnUnchanged
  <2>3. QED
    BY <2>2 DEF KV!Next
<1>8. QED
  BY <1>6, <1>7

\* An insert or an update takes effect.
LEMMA KVEffect ==
    ASSUME FullInv, NEW c \in Client, Step(c), req' = req,
           pc[c] \notin {"idle", "write_syn", "unlock"},
           pc'[c] \in {"write_syn", "unlock"}, req[c].key \in Key,
           \/ /\ req[c].kind = "insert" /\ Stored(req[c].key) = Nil /\ Puts(c)
           \/ /\ req[c].kind = "insert" /\ Stored(req[c].key) # Nil /\ SameMap
           \/ /\ req[c].kind = "update" /\ Stored(req[c].key) # Nil /\ Puts(c)
    PROVE  KV!Next
<1> DEFINE x == req[c].key
           f == [k \in Key |-> Stored(k)]
<1>1. Phase(c) = "pending" /\ Phase(c)' = "done"
  BY DEF Phase
<1>2. [d \in Client |-> Phase(d)]' =
          [[d \in Client |-> Phase(d)] EXCEPT ![c] = "done"]
  BY <1>1, KVPhase
<1>3. f[x] = Stored(x)
  OBVIOUS
<1>4. Puts(c) => f' = [f EXCEPT ![x] = req[c].val]
  BY Zenon DEF Puts
<1>5. SameMap => f' = [f EXCEPT ![x] = f[x]]
  BY DEF SameMap
<1> HIDE DEF f
<1>6. CASE req[c].kind = "insert"
  <2>1. f' = [f EXCEPT ![x] = IF f[x] = Nil THEN req[c].val ELSE f[x]]
    BY <1>3, <1>4, <1>5, <1>6
  <2>2. KV!DoInsert(c)
    BY <1>1, <1>2, <1>6, <2>1 DEF KV!DoInsert, f
  <2>3. QED
    BY <2>2 DEF KV!Next
<1>7. CASE req[c].kind = "update"
  <2>1. f' = [f EXCEPT ![x] = req[c].val] /\ f[x] # Nil
    BY <1>3, <1>4, <1>7
  <2>2. KV!DoUpdate(c)
    BY <1>1, <1>2, <1>7, <2>1 DEF KV!DoUpdate, f
  <2>3. QED
    BY <2>2 DEF KV!Next
<1>8. QED
  BY <1>6, <1>7

\* Initially the map is empty and no call is in flight.
LEMMA KVInit == Init => KV!Init
<1> SUFFICES ASSUME Init PROVE KV!Init
  OBVIOUS
<1>1. \A k \in Key : Stored(k) = Nil
  <2> SUFFICES ASSUME NEW k \in Key PROVE Stored(k) = Nil
    OBVIOUS
  <2>1. mem[InsertIdx[k]].rec[k] = Nil /\ mem[InsertIdx[k]].syn = Nil
    BY CacheAssumption DEF Init, Addr, EmptyNode
  <2>2. SynWriters(InsertIdx[k]) = {}
    BY DEF SynWriters, Init
  <2>3. QED
    BY <2>1, <2>2 DEF Stored, Visible
<1>2. \A c \in Client : Phase(c) = "idle"
  BY DEF Phase, Init
<1>3. NoReq = KV!NoReq
  BY DEF NoReq, KV!NoReq
<1>4. QED
  BY <1>1, <1>2, <1>3 DEF Init, KV!Init

\* The steps before a call takes effect, and the write of the synonym leaf.
Silent(c) ==
    \/ \E a \in Addr : FetchNode(c, a)
    \/ AppendSynonyms(c) \/ UpdateFound(c) \/ LockNode(c) \/ InsertFetch(c)
    \/ InsertFetchSyn(c) \/ UpdateReadAnother(c) \/ ApplyToLeaf(c)
    \/ ApplyOverflow(c) \/ UpdateFetch(c) \/ WriteSyn(c)
    \/ ApplyToSyn(c) /\ leafB[c].syn = Nil

\* They are invisible to KVStore.
LEMMA KVSilent ==
    ASSUME AllInv, RoomInSyn, NEW c \in Client, Silent(c)
    PROVE  UNCHANGED KV!vars
<1>1. FullInv /\ Step(c)
  BY DEF AllInv, Silent, Step
<1>2. SameMap
  <2>1. CASE Quiet(c)
    BY <1>1, <2>1, QuietSame
  <2>2. CASE ~Quiet(c)
    BY <1>1, <2>2, MapApplyToLeaf, MapApplyOverflow, MapUpdateFetch,
       EffectWriteSyn, MapApplyToSyn DEF Silent, Quiet
  <2>3. QED
    BY <2>1, <2>2
<1>3. pc \in [Client -> PCs]
  BY <1>1 DEF FullInv, BaseInv, TypeInv, TypeOK
<1>4. req' = req /\ Phase(c)' = Phase(c)
  <2>1. CASE UpdateReadAnother(c)
    BY <1>3, <2>1 DEF UpdateReadAnother, Goto, Phase
  <2>2. CASE ~UpdateReadAnother(c)
    BY <1>3, <2>2 DEF Silent, FetchNode, AppendSynonyms, UpdateFound, HasRead,
       LockNode, InsertFetch, InsertFetchSyn, ApplyToLeaf, ApplyOverflow,
       ApplyToSyn, UpdateFetch, WriteSyn, Goto, Phase
  <2>3. QED
    BY <2>1, <2>2
<1>5. QED
  BY <1>1, <1>2, <1>4, KVStutter

\* The steps at which an insert or an update takes effect.
LEMMA KVTakesEffect ==
    ASSUME AllInv, RoomInSyn, NEW c \in Client,
           ApplyNothing(c) \/ WriteNode(c) \/ (ApplyToSyn(c) /\ leafB[c].syn # Nil)
    PROVE  KV!Next
<1>1. /\ FullInv /\ Step(c) /\ pc \in [Client -> PCs] /\ req[c].key \in Key
      /\ req[c].kind \in {"insert", "update"}
      /\ pc[c] = "apply" => req[c].kind = "insert" /\ InsertIdx[req[c].key] = la[c]
  BY DEF AllInv, Step, FullInv, BaseInv, TypeInv, TypeOK, LocalOK, Local, Holding,
     ApplyNothing, WriteNode, ApplyToSyn, Request
<1>2. /\ req' = req /\ pc[c] \in {"apply", "write"}
      /\ pc'[c] \in {"write_syn", "unlock"}
  BY <1>1 DEF ApplyNothing, WriteNode, ApplyToSyn, Goto
<1>3. CASE ApplyNothing(c)
  BY <1>1, <1>2, <1>3, EffectApplyNothing, KVEffect DEF ApplyNothing
<1>4. CASE WriteNode(c)
  BY <1>1, <1>2, <1>4, EffectWriteInsert, EffectWriteUpdate, KVEffect
<1>5. CASE ApplyToSyn(c) /\ leafB[c].syn # Nil
  <2>1. pc[c] = "apply"
    BY <1>5 DEF ApplyToSyn
  <2>2. Stored(req[c].key) = Nil /\ Puts(c)
    BY <1>1, <1>5, <2>1, MapApplyToSyn, VisibleCopies
  <2>3. QED
    BY <1>1, <1>2, <2>1, <2>2, KVEffect
<1>6. QED
  BY <1>3, <1>4, <1>5

\* A step that changes nothing does not change the map.
LEMMA StoredStutter == UNCHANGED vars => SameMap
<1> SUFFICES ASSUME UNCHANGED vars PROVE SameMap
  OBVIOUS
<1>1. mem' = mem /\ pc' = pc /\ la' = la /\ synB' = synB
  BY DEF vars, bufVars, readVars
<1>2. SUFFICES ASSUME NEW k \in Key PROVE Stored(k)' = Stored(k)
  BY DEF SameMap
<1>3. SynWriters(InsertIdx[k])' = SynWriters(InsertIdx[k])
  BY <1>1 DEF SynWriters
<1>4. Visible(k)' = Visible(k)
  BY <1>1 DEF Visible
<1> DEFINE a == InsertIdx[k]
           w == CHOOSE d \in SynWriters(a) : TRUE
<1>5. /\ Stored(k) = IF mem[a].rec[k] # Nil THEN mem[a].rec[k]
                     ELSE IF SynWriters(a) # {} THEN synB[w].rec[k]
                     ELSE Visible(k)
      /\ Stored(k)' = IF mem'[a].rec[k] # Nil THEN mem'[a].rec[k]
                      ELSE IF SynWriters(a) # {} THEN synB'[w].rec[k]
                      ELSE Visible(k)'
  BY <1>3 DEF Stored
<1> HIDE DEF a, w
<1>6. QED
  BY <1>1, <1>4, <1>5

\* Each step of RolexIndex is a step of KVStore or changes nothing there.
LEMMA KVStep == AllInv /\ RoomInSyn /\ [Next]_vars => [KV!Next]_(KV!vars)
<1> SUFFICES ASSUME AllInv, RoomInSyn, [Next]_vars PROVE [KV!Next]_(KV!vars)
  OBVIOUS
<1>1. ASSUME NEW c \in Client, Call(c) \/ Step(c) PROVE [KV!Next]_(KV!vars)
  <2>1. CASE Call(c)
    BY <2>1, KVCall DEF AllInv
  <2>2. CASE SearchReturn(c) \/ RangeReturn(c) \/ UpdateMiss(c) \/ Unlock(c)
    BY <2>2, KVReturn DEF AllInv
  <2>3. CASE Silent(c)
    BY <2>3, KVSilent
  <2>4. CASE ApplyNothing(c) \/ WriteNode(c) \/ (ApplyToSyn(c) /\ leafB[c].syn # Nil)
    BY <2>4, KVTakesEffect
  <2>5. Call(c) \/ SearchReturn(c) \/ RangeReturn(c) \/ UpdateMiss(c) \/ Unlock(c)
        \/ Silent(c) \/ ApplyNothing(c) \/ WriteNode(c)
        \/ (ApplyToSyn(c) /\ leafB[c].syn # Nil)
    BY <1>1 DEF Step, Silent
  <2>6. QED
    BY <2>1, <2>2, <2>3, <2>4, <2>5
<1>2. CASE UNCHANGED vars
  <2>1. \A k \in Key : Stored(k)' = Stored(k)
    BY <1>2, StoredStutter DEF SameMap
  <2>2. \A c \in Client : Phase(c)' = Phase(c)
    BY <1>2 DEF vars, Phase
  <2>3. QED
    BY <1>2, <2>1, <2>2 DEF vars, KV!vars
<1>3. QED
  BY <1>1, <1>2 DEF Next

\* As long as no record has to go into a full synonym leaf, the leaves, locks
\* and write batches implement the map of KVStore.
THEOREM ImplementsMap == Spec /\ []RoomInSyn => ImplementsKVStore
<1>1. Spec /\ []RoomInSyn => []AllInv
  BY AllInit, AllNext, PTL DEF Spec
<1>2. QED
  BY <1>1, KVInit, KVStep, PTL DEF Spec, ImplementsKVStore, KV!Spec

-----------------------------------------------------------------------------
(* 11. When synonym leaves never run out of room *)

\* No leaf is answered for more keys than it and one synonym leaf can hold.
FewKeys ==
    \A a \in Leaf : Cardinality({k \in Key : InsertIdx[k] = a}) <= 2 * Span

\* Then a client that has a record to store finds room behind its leaf.
LEMMA RoomIfFew == FewKeys /\ FullInv => RoomInSyn
<1> SUFFICES ASSUME FewKeys, FullInv, NEW c \in Client, pc[c] = "apply",
                    leafB[c].syn # Nil, ~GivesUp(leafB[c], synB[c], req[c].key)
             PROVE  ~Full(synB[c])
  BY DEF RoomInSyn
<1> DEFINE x == req[c].key
           a == la[c]
           N == KeysOf(mem[a])
           S == KeysOf(mem[mem[a].syn])
           K == {k \in Key : InsertIdx[k] = a}
<1>1. /\ a \in Leaf /\ x \in Key /\ InsertIdx[x] = a /\ mem[a].syn # Nil
      /\ leafB[c] = mem[a] /\ synB[c] = mem[mem[a].syn]
  BY DEF FullInv, BaseInv, TypeInv, LocalOK, Local, Holding, PtrInv,
     ClientPtrs, Current, Request
<1>2. GoodLeaf(N, TRUE, a) /\ GoodSyn(N, S, a)
  BY <1>1, Zenon DEF FullInv, ChainInv, ChainGood
<1>3. Full(mem[a]) /\ x \notin N /\ N \subseteq Key /\ S \subseteq Key
  BY <1>1, <1>2, Zenon DEF GivesUp, GoodLeaf, Full, KeysOf
<1>4. x \notin S
  <2>1. CASE Beyond(mem[a], x)
    BY <1>1, <2>1, Zenon DEF GivesUp, KnownInSyn, KeysOf
  <2>2. CASE ~Beyond(mem[a], x)
    <3>1. PICK y \in N : ~(y < x)
      BY <1>3, <2>2 DEF Beyond
    <3>2. x \in S => y < x
      BY <1>2 DEF GoodSyn
    <3>3. QED
      BY <3>1, <3>2
  <2>3. QED
    BY <2>1, <2>2
<1>5. N \cap S = {}
  <2>1. \A k \in N \cap S : k < k /\ k \in Nat
    BY <1>2, <1>3, KeyAssumption, Zenon DEF GoodSyn
  <2>2. QED
    BY <2>1
<1>6. N \cup S \cup {x} \subseteq K
  BY <1>1, <1>2, <1>3 DEF GoodLeaf, GoodSyn
<1> HIDE DEF N, S, x
<1>7. IsFiniteSet(K) /\ IsFiniteSet(N) /\ IsFiniteSet(S)
  BY <1>3, KeyAssumption, FS_Subset, Zenon
<1>8. Cardinality(N \cup S \cup {x}) <= Cardinality(K)
  BY <1>6, <1>7, FS_Subset
<1>9. Cardinality(N \cup S) = Cardinality(N) + Cardinality(S)
      /\ IsFiniteSet(N \cup S)
  <2>1. Cardinality(N) \in Nat /\ Cardinality(S) \in Nat
    BY <1>7, FS_CardinalityType
  <2>2. Cardinality(N \cap S) = 0
    <3>1. Cardinality({}) = 0
      BY FS_EmptySet
    <3>2. QED
      BY <1>5, <3>1, Zenon
  <2>3. /\ IsFiniteSet(N \cup S)
        /\ Cardinality(N \cup S) =
              Cardinality(N) + Cardinality(S) - Cardinality(N \cap S)
    BY <1>7, FS_Union
  <2>4. QED
    BY <2>1, <2>2, <2>3
<1>10. Cardinality(N \cup S \cup {x}) = Cardinality(N) + Cardinality(S) + 1
  BY <1>3, <1>4, <1>7, <1>9, FS_AddElement, FS_CardinalityType, Zenon
<1>11. /\ Cardinality(K) \in Nat /\ Cardinality(N) \in Nat
       /\ Cardinality(S) \in Nat
  BY <1>7, FS_CardinalityType
<1>12. Cardinality(K) <= 2 * Span /\ Cardinality(N) >= Span
  BY <1>1, <1>3 DEF FewKeys, Full, N
<1> HIDE DEF K
<1>13. Cardinality(S) < Span
  BY <1>8, <1>10, <1>11, <1>12, SpanAssumption
<1>14. QED
  BY <1>1, <1>11, <1>13, SpanAssumption DEF Full, S

\* For such a learned index no condition on the behaviour is left.
THEOREM ImplementsMapIfFew ==
    ASSUME FewKeys
    PROVE  Spec => ImplementsKVStore
<1>1. Spec => []FullInv
  BY FullInit, FullNext, PTL DEF Spec
<1>2. FullInv => RoomInSyn
  BY RoomIfFew
<1>3. QED
  BY <1>1, <1>2, ImplementsMap, PTL

-----------------------------------------------------------------------------
(* 12. The asserts of update *)

\* A key in an image is stored; in a synonym's image, in the synonym itself.
ReadKeys(c) ==
    /\ \A a \in Leaf : \A k \in KeysOf(img[c][a]) :
           InsertIdx[k] = a /\ Stored(k) # Nil
    /\ \A s \in SynAddr : KeysOf(img[c][s]) \subseteq KeysOf(mem[s])

\* An update that has seen its key goes for a node that holds it, or for a
\* leaf from which it has at most moved on to the synonym.
Target(c) ==
    pc[c] \in {"lock", "update"} /\ req[c].kind = "update" =>
        /\ InsertIdx[req[c].key] = la[c]
        /\ addr[c] = la[c] => Stored(req[c].key) # Nil
        /\ addr[c] # la[c] => mem[addr[c]].rec[req[c].key] # Nil

FindGood(c) == ReadKeys(c) /\ Target(c) /\ pc[c] # "abort"
FindInv == AllInv /\ \A c \in Client : FindGood(c)

\* No key leaves the map, and none leaves a synonym leaf.
NoKeyLost ==
    /\ \A k \in Key : Stored(k) # Nil => Stored(k)' # Nil
    /\ \A s \in SynAddr : KeysOf(mem[s]) \subseteq KeysOf(mem'[s])

\* No step of insert or update takes a key out of the map.
LEMMA StoredStays ==
    ASSUME AllInv, RoomInSyn, NEW c \in Client, Call(c) \/ Step(c)
    PROVE  \A k \in Key : Stored(k) # Nil => Stored(k)' # Nil
<1>1. SameMap \/ Puts(c)
  <2>1. CASE Quiet(c)
    BY <2>1, QuietSame DEF AllInv
  <2>2. CASE WriteNode(c)
    <3>1. req[c].kind \in {"insert", "update"}
      BY <2>2 DEF AllInv, FullInv, BaseInv, TypeInv, LocalOK, Local, Holding,
         WriteNode
    <3>2. QED
      BY <2>2, <3>1, EffectWriteInsert, EffectWriteUpdate
  <2>3. CASE ~Quiet(c) /\ ~WriteNode(c)
    BY <2>3, MapApplyToLeaf, MapApplyOverflow, MapUpdateFetch, EffectWriteSyn,
       MapApplyToSyn DEF AllInv, Quiet, Step
  <2>4. QED
    BY <2>1, <2>2, <2>3
<1>2. Puts(c) => SameMap \/ req[c].val \in Value
  <2>1. CASE Quiet(c)
    BY <2>1, QuietSame DEF AllInv
  <2>2. CASE ~Quiet(c)
    BY <2>2 DEF AllInv, FullInv, BaseInv, TypeInv, LocalOK, Local, Holding, Quiet,
       Step, WriteNode, WriteSyn, ApplyToLeaf, ApplyToSyn, ApplyOverflow,
       UpdateFetch
  <2>3. QED
    BY <2>1, <2>2
<1>3. QED
  BY <1>1, <1>2, ValueAssumption DEF SameMap, Puts

\* No write of a synonym leaf drops a key from it.
LEMMA SynKeysStay ==
    ASSUME AllInv, NEW c \in Client, Call(c) \/ Step(c), NEW s \in SynAddr
    PROVE  KeysOf(mem[s]) \subseteq KeysOf(mem'[s])
<1>1. CASE ~WriteNode(c) /\ ~WriteSyn(c)
  BY <1>1, OnlyBatchWrites
<1>2. CASE WriteSyn(c)
  <2>1. SynGrows(c)
    BY <1>2 DEF AllInv, MapInv, BatchGood, WriteSyn
  <2>2. QED
    BY <1>2, <2>1, WriteSynWritten DEF AllInv, FullInv, SynGrows, Written
<1>3. CASE WriteNode(c)
  <2>1. /\ mem' = [mem EXCEPT ![addr[c]] = leafB[c]] /\ mem \in [Addr -> Node]
        /\ la[c] \in Leaf /\ pc[c] = "write" /\ s \in Addr /\ s \notin Leaf
    BY <1>3, LeafAssumption DEF AllInv, FullInv, BaseInv, TypeInv, TypeOK,
       LocalOK, Local, Holding, WriteNode, Addr
  <2>2. addr[c] # la[c] => KeysOf(leafB[c]) = KeysOf(mem[addr[c]])
    BY <2>1 DEF AllInv, FullInv, ChainInv, CopyGood
  <2>3. QED
    BY <2>1, <2>2
<1>4. QED
  BY <1>1, <1>2, <1>3

\* What another client has found stays found.
LEMMA FindOther ==
    ASSUME FindInv, RoomInSyn, NEW c \in Client, Call(c) \/ Step(c),
           NEW d \in Client, d # c
    PROVE  FindGood(d)'
<1>1. NoKeyLost
  BY StoredStays, SynKeysStay DEF NoKeyLost, FindInv
<1>2. Untouched(d) /\ FindGood(d)
  BY OthersUntouched DEF FindInv, AllInv, FullInv, BaseInv
<1>3. ReadKeys(d)'
  BY <1>1, <1>2 DEF FindGood, ReadKeys, NoKeyLost, Untouched, KeysOf
<1>4. Target(d)'
  <2>1. SUFFICES ASSUME pc[d] \in {"lock", "update"}, req[d].kind = "update"
                 PROVE  Target(d)'
    BY <1>2 DEF Target, Untouched
  <2>2. /\ req[d].key \in Key /\ la[d] \in Leaf
        /\ addr[d] # la[d] => addr[d] \in SynAddr
    <3>1. /\ req[d].key \in Key /\ la[d] \in Leaf /\ addr[d] \in Addr
          /\ mem[la[d]] \in Node
      BY <2>1, TypeFacts DEF FindInv, AllInv, FullInv, BaseInv, TypeInv, TypeOK,
         LocalOK, Local, Holding, Request
    <3>2. addr[d] = la[d] \/ addr[d] = mem[la[d]].syn
      BY <2>1 DEF FindInv, AllInv, FullInv, BaseInv, PtrInv, ClientPtrs,
         AddrInChain, Holding
    <3>3. QED
      BY <3>1, <3>2, TypeFacts
  <2>3. QED
    BY <1>1, <1>2, <2>1, <2>2 DEF FindGood, Target, NoKeyLost, Untouched, KeysOf
<1>5. QED
  BY <1>2, <1>3, <1>4 DEF FindGood, Untouched

\* What c itself has read: a node read is the node in memory.
LEMMA ReadSelf ==
    ASSUME FindInv, RoomInSyn, NEW c \in Client, Call(c) \/ Step(c)
    PROVE  ReadKeys(c)'
<1>1. NoKeyLost
  BY StoredStays, SynKeysStay DEF NoKeyLost, FindInv
<1>2. ReadKeys(c) /\ img \in [Client -> [Addr -> Node]]
  BY DEF FindInv, FindGood, AllInv, FullInv, BaseInv, TypeInv, TypeOK
<1>3. CASE img'[c] = img[c]
  BY <1>1, <1>2, <1>3 DEF ReadKeys, NoKeyLost, KeysOf
<1>4. CASE img'[c] = NoImage
  BY <1>4 DEF ReadKeys, NoImage, EmptyNode, KeysOf, Addr
<1>5. ASSUME NEW b \in Addr, FetchNode(c, b) PROVE ReadKeys(c)'
  <2>1. /\ mem' = mem /\ img'[c][b] = mem[b]
        /\ \A a \in Addr : a # b => img'[c][a] = img[c][a]
    BY <1>2, <1>5 DEF FetchNode
  <2>2. b \in Leaf => \A k \in KeysOf(mem[b]) : InsertIdx[k] = b /\ Stored(k) # Nil
    BY Zenon DEF FindInv, AllInv, FullInv, ChainInv, ChainGood, GoodLeaf,
       KeysOf, Stored
  <2>3. ASSUME NEW a \in Leaf, NEW k \in Key, img'[c][a].rec[k] # Nil
        PROVE  InsertIdx[k] = a /\ Stored(k)' # Nil
    BY <1>1, <1>2, <2>1, <2>2, <2>3 DEF ReadKeys, NoKeyLost, KeysOf, Addr
  <2>4. ASSUME NEW s \in SynAddr
        PROVE  KeysOf(img'[c][s]) \subseteq KeysOf(mem[s])
    BY <1>2, <2>1 DEF ReadKeys, Addr
  <2>5. QED
    BY <2>1, <2>3, <2>4 DEF ReadKeys, KeysOf
<1>6. \/ img'[c] = img[c] \/ img'[c] = NoImage
      \/ \E b \in Addr : FetchNode(c, b)
  <2>1. CASE Call(c)
    BY <1>2, <2>1 DEF Call, InsertStart, UpdateStart, SearchStart, RangeStart,
       StartReading, Accept, readVars
  <2>2. CASE Step(c)
    BY <1>2, <2>2, Zenon DEF Step, AppendSynonyms, SearchReturn, RangeReturn,
       UpdateMiss, UpdateFound, LockNode, InsertFetch, InsertFetchSyn,
       ApplyNothing, ApplyToLeaf, ApplyToSyn, ApplyOverflow, UpdateFetch,
       UpdateReadAnother, WriteNode, WriteSyn, Unlock, Return, readVars
  <2>3. QED
    BY <2>1, <2>2
<1>7. QED
  BY <1>3, <1>4, <1>5, <1>6

\* update takes over where its _search found the key.
LEMMA TargetFound ==
    ASSUME FindInv, NEW c \in Client, UpdateFound(c)
    PROVE  Target(c)' /\ pc'[c] = "lock"
<1>1. /\ FullInv /\ ReadKeys(c) /\ img[c] \in [Addr -> Node] /\ req[c].key \in Key
      /\ la \in [Client -> Leaf \cup {Nil}] /\ addr \in [Client -> Addr \cup {Nil}]
      /\ pc \in [Client -> PCs] /\ Found(c, req[c].key) /\ Quiet(c)
      /\ ImagePtrs(c)
  BY DEF FindInv, FindGood, AllInv, FullInv, BaseInv, TypeInv, TypeOK, LocalOK,
     Local, Request, UpdateFound, HasRead, Quiet, PtrInv, ClientPtrs
<1>2. PICK x \in Key, a \in Leaf, n \in Addr :
          /\ x = req[c].key /\ a = FoundLeaf(c, x) /\ n = FoundNode(c, x)
          /\ img[c][n].rec[x] # Nil
          /\ n = a \/ (img[c][a].syn # Nil /\ n = img[c][a].syn)
  BY <1>1, FoundFacts
<1>3. /\ mem' = mem /\ req'[c].key = x /\ la'[c] = a /\ addr'[c] = n
      /\ SameMap /\ pc'[c] = "lock"
  BY <1>1, <1>2, QuietSame DEF UpdateFound, Goto
<1>4. CASE n = a
  <2>1. x \in KeysOf(img[c][a])
    BY <1>2, <1>4 DEF KeysOf
  <2>2. InsertIdx[x] = a /\ Stored(x) # Nil
    BY <1>1, <2>1 DEF ReadKeys
  <2>3. Stored(x)' # Nil
    BY <1>3, <2>2 DEF SameMap
  <2>4. QED
    BY <1>3, <1>4, <2>2, <2>3 DEF Target
<1>5. CASE n # a
  <2>1. /\ n \in SynAddr /\ mem[a].syn = n /\ n # Nil
    <3>1. img[c][a] \in Node /\ img[c][a].syn = n /\ n # Nil
      BY <1>1, <1>2, <1>5, TypeFacts
    <3>2. QED
      BY <1>1, <3>1, TypeFacts DEF ImagePtrs
  <2>2. x \in KeysOf(mem[n])
    <3>1. x \in KeysOf(img[c][n])
      BY <1>2 DEF KeysOf
    <3>2. QED
      BY <1>1, <2>1, <3>1 DEF ReadKeys
  <2>3. InsertIdx[x] = a
    BY <1>1, <2>1, <2>2 DEF FullInv, ChainInv, ChainGood, GoodSyn
  <2>4. mem'[n].rec[x] # Nil
    BY <1>3, <2>2 DEF KeysOf
  <2>5. QED
    BY <1>3, <1>5, <2>3, <2>4 DEF Target
<1>6. QED
  BY <1>4, <1>5

\* A key that has left its leaf is in the leaf's synonym.
LEMMA TargetMoved ==
    ASSUME FindInv, NEW c \in Client, UpdateReadAnother(c)
    PROVE  Target(c)' /\ pc'[c] = "update"
<1> DEFINE x == req[c].key
           a == la[c]
<1>1. /\ FullInv /\ Target(c) /\ pc[c] = "update" /\ req[c].kind = "update"
      /\ x \in Key /\ a \in Leaf /\ mem[addr[c]].rec[x] = Nil
      /\ addr \in [Client -> Addr \cup {Nil}] /\ pc \in [Client -> PCs]
  BY DEF FindInv, FindGood, AllInv, FullInv, BaseInv, TypeInv, TypeOK, LocalOK,
     Local, Holding, Request, UpdateReadAnother
<1>2. InsertIdx[x] = a /\ addr[c] = a /\ Stored(x) # Nil
  BY <1>1 DEF Target
<1>3. Visible(x) # Nil
  BY <1>1, <1>2, StoredIsKnown DEF StoredKnown, Holding
<1>4. mem[a].syn # Nil /\ mem[mem[a].syn].rec[x] # Nil
  BY <1>1, <1>2, <1>3 DEF Visible
<1>5. mem[a].syn # a
  BY <1>1, <1>2, <1>4
<1>6. /\ mem' = mem /\ req' = req /\ la' = la
      /\ addr'[c] = mem[a].syn /\ pc'[c] = "update"
  BY <1>1, <1>2, <1>4 DEF UpdateReadAnother, Goto
<1>7. QED
  BY <1>2, <1>4, <1>5, <1>6 DEF Target

\* A client's own step keeps its update on the way to a node with its key.
LEMMA FindSelf ==
    ASSUME FindInv, RoomInSyn, NEW c \in Client, Call(c) \/ Step(c)
    PROVE  FindGood(c)'
<1>1. ReadKeys(c)'
  BY ReadSelf
<1>2. pc \in [Client -> PCs] /\ req \in [Client -> Request \cup {NoReq}]
  BY DEF FindInv, AllInv, FullInv, BaseInv, TypeInv, TypeOK
<1>3. CASE UpdateFound(c) \/ UpdateReadAnother(c)
  BY <1>1, <1>3, TargetFound, TargetMoved DEF FindGood
<1>4. CASE LockNode(c)
  <2>1. SameMap /\ Target(c)
    BY <1>4, QuietSame DEF FindInv, FindGood, AllInv, Quiet
  <2>2. /\ mem' = mem /\ req' = req /\ la' = la /\ addr' = addr
        /\ pc[c] = "lock" /\ pc'[c] \in {"fetch", "update"}
    BY <1>2, <1>4 DEF LockNode, Goto, bufVars
  <2>3. pc'[c] = "update" /\ req[c].kind = "update" =>
            req[c].key \in Key
    BY <1>2, <2>2 DEF FindInv, AllInv, FullInv, BaseInv, TypeInv, LocalOK, Local,
       Request
  <2>4. Target(c)'
    BY <2>1, <2>2, <2>3 DEF Target, SameMap
  <2>5. QED
    BY <1>1, <2>2, <2>4 DEF FindGood
<1>5. CASE Call(c)
  <2>1. \/ pc'[c] = "read"
        \/ pc'[c] = "lock" /\ req'[c].kind = "insert"
    <3>1. ASSUME NEW k \in Key, NEW v \in Value, InsertStart(c, k, v)
          PROVE  pc'[c] = "lock" /\ req'[c].kind = "insert"
      BY <1>2, <3>1 DEF InsertStart, Accept
    <3>2. CASE \A k \in Key, v \in Value : ~InsertStart(c, k, v)
      BY <1>2, <1>5, <3>2 DEF Call, UpdateStart, SearchStart, RangeStart,
         StartReading, Accept
    <3>3. QED
      BY <3>1, <3>2
  <2>2. QED
    BY <1>1, <2>1 DEF FindGood, Target
<1>6. CASE Step(c) /\ ~UpdateFound(c) /\ ~UpdateReadAnother(c) /\ ~LockNode(c)
  <2>1. pc'[c] \notin {"lock", "update", "abort"}
    BY <1>2, <1>6, Zenon DEF Step, FetchNode, AppendSynonyms, SearchReturn,
       RangeReturn, UpdateMiss, InsertFetch, InsertFetchSyn, ApplyNothing,
       ApplyToLeaf, ApplyToSyn, ApplyOverflow, UpdateFetch, WriteNode, WriteSyn,
       Unlock, Return, Goto
  <2>2. QED
    BY <1>1, <2>1 DEF FindGood, Target
<1>7. QED
  BY <1>3, <1>4, <1>5, <1>6

\* At the start no update is under way.
LEMMA FindInit == Init => FindInv
<1> SUFFICES ASSUME Init PROVE FindInv
  OBVIOUS
<1>1. \A c \in Client : FindGood(c)
  BY DEF Init, FindGood, ReadKeys, Target, NoImage, EmptyNode, KeysOf, Addr
<1>2. QED
  BY <1>1, AllInit DEF FindInv

\* While there is room, no step sends an update to a node without its key.
LEMMA FindNext == FindInv /\ RoomInSyn /\ [Next]_vars => FindInv'
<1> SUFFICES ASSUME FindInv, RoomInSyn, [Next]_vars PROVE FindInv'
  OBVIOUS
<1>1. AllInv'
  BY AllNext DEF FindInv
<1>2. ASSUME NEW c \in Client, Call(c) \/ Step(c)
      PROVE  \A d \in Client : FindGood(d)'
  BY <1>2, FindSelf, FindOther
<1>3. CASE UNCHANGED vars
  <2>1. /\ mem' = mem /\ pc' = pc /\ img' = img /\ req' = req /\ la' = la
        /\ addr' = addr /\ SameMap
    BY <1>3, StoredStutter DEF vars, bufVars, readVars
  <2>2. SUFFICES ASSUME NEW c \in Client PROVE FindGood(c)'
    BY <1>1 DEF FindInv
  <2>3. /\ FindGood(c)
        /\ pc[c] \in {"lock", "update"} => req[c].key \in Key
    BY DEF FindInv, AllInv, FullInv, BaseInv, TypeInv, LocalOK, Local, Request
  <2>4. ReadKeys(c)'
    BY <2>1, <2>3 DEF FindGood, ReadKeys, SameMap, KeysOf
  <2>5. QED
    BY <2>1, <2>3, <2>4 DEF FindGood, Target, SameMap
<1>4. QED
  BY <1>1, <1>2, <1>3 DEF Next, FindInv

\* As long as synonym leaves have room, the asserts of update
\* (src/src/Rolex.cpp:731-732) never fail.
THEOREM UpdateFindsItsKey == Spec /\ []RoomInSyn => []AssertsHold
<1>1. FindInv => AssertsHold
  BY DEF FindInv, FindGood, AssertsHold
<1>2. QED
  BY <1>1, FindInit, FindNext, PTL DEF Spec
\* They never fail if no leaf is answered for more keys than fit.
THEOREM UpdateFindsItsKeyIfFew ==
    ASSUME FewKeys
    PROVE  Spec => []AssertsHold
<1>1. Spec => []FullInv
  BY FullInit, FullNext, PTL DEF Spec
<1>2. FullInv => RoomInSyn
  BY RoomIfFew
<1>3. QED
  BY <1>1, <1>2, UpdateFindsItsKey, PTL

-----------------------------------------------------------------------------
(* Reads.  Whatever the writers do between its reads, a search or range    *)
(* query returns values that were in memory during the call.               *)

Reading(c) == pc[c] \in {"read", "read_syn"}

\* The keys c's call is about.
Asked(c) ==
    IF req[c].kind = "range"
    THEN {k \in Key : req[c].key <= k /\ k < req[c].to} ELSE {req[c].key}

\* An image c has read shows only values that c's call could have seen in
\* memory, under keys of that leaf.
ImagesSeen(c) ==
    \A k \in Key, a \in Leaf :
        /\ img[c][a].rec[k] # Nil =>
               InsertIdx[k] = a /\ img[c][a].rec[k] \in seen[c][k]
        /\ img[c][a].syn # Nil /\ img[c][img[c][a].syn].rec[k] # Nil =>
               InsertIdx[k] = a /\ img[c][img[c][a].syn].rec[k] \in seen[c][k]

\* Synonym s holds k, and c has still to read s or has seen k there.
Pending(c, s, k) ==
    /\ s # Nil
    /\ mem[s].rec[k] # Nil
    /\ pc[c] = "read" \/ s \in batch[c] \/ img[c][s].rec[k] # Nil

\* If c has not found k in the leaf it is sent to, then k was visible nowhere
\* at some moment of the call, or c is going to find it in the synonym.
Explained(c, k) ==
    LET a == InsertIdx[k]
        n == img[c][a]
    IN  \/ pc[c] = "read" /\ a \in batch[c]
        \/ n.rec[k] # Nil
        \/ Nil \in seen[c][k]
        \/ Pending(c, n.syn, k)

SeenGood(c) ==
    /\ ~Reading(c) => img[c] = NoImage
    /\ Reading(c) =>
           /\ \A k \in Key : Visible(k) \in seen[c][k]
           /\ batch[c] \subseteq IF pc[c] = "read" THEN Leaf ELSE SynAddr
           /\ pc[c] = "read" => \A s \in SynAddr : img[c][s] = EmptyNode
           /\ req[c].kind = "range" => req[c].to \in Key
           /\ ImagesSeen(c)
           /\ \A k \in Asked(c) : Explained(c, k)

SeenInv == FullInv /\ \A c \in Client : SeenGood(c)

\* While c reads, its history grows by what is visible after each step.
LEMMA SeenGrows ==
    ASSUME HNext, NEW c \in Client, Reading(c)'
    PROVE  \A k \in Key : seen'[c][k] = seen[c][k] \cup {Visible(k)'}
BY DEF HNext, Reading

\* A search starts with the leaf its key is sent to still to be read.
LEMMA SeenStart ==
    ASSUME SeenInv, HNext, NEW c \in Client, Call(c)
    PROVE  SeenGood(c)'
<1>1. /\ pc \in [Client -> PCs] /\ req \in [Client -> Request \cup {NoReq}]
      /\ batch \in [Client -> SUBSET Addr]
      /\ pc[c] = "idle" /\ img' = img /\ img[c] = NoImage
  BY DEF SeenInv, SeenGood, Reading, FullInv, BaseInv, TypeInv, TypeOK, Call,
     InsertStart, UpdateStart, SearchStart, RangeStart, StartReading, Accept,
     readVars
<1>2. ImagesSeen(c)'
  BY <1>1, CacheAssumption DEF ImagesSeen, NoImage, EmptyNode, Addr
<1>3. ASSUME NEW k \in Key, NEW v \in Value, InsertStart(c, k, v)
      PROVE  SeenGood(c)'
  BY <1>1, <1>3 DEF InsertStart, Accept, SeenGood, Reading
<1>4. ASSUME NEW r \in Request, NEW lo, NEW hi, StartReading(c, r, lo, hi),
             r.kind = "range" => r.to \in Key,
             \A k \in (IF r.kind = "range"
                       THEN {k \in Key : r.key <= k /\ k < r.to} ELSE {r.key}) :
                 InsertIdx[k] \in LeafRange(lo, hi)
      PROVE  SeenGood(c)'
  <2>1. /\ pc'[c] = "read" /\ req'[c] = r /\ batch'[c] = LeafRange(lo, hi)
    BY <1>1, <1>4 DEF StartReading, Accept
  <2>2. \A k \in Key : Visible(k)' \in seen'[c][k]
    BY <2>1, SeenGrows DEF Reading
  <2>3. \A s \in SynAddr : img'[c][s] = EmptyNode
    BY <1>1 DEF NoImage, Addr
  <2>4. \A k \in Asked(c)' : Explained(c, k)'
    BY <1>4, <2>1 DEF Asked, Explained
  <2>5. QED
    BY <1>2, <1>4, <2>1, <2>2, <2>3, <2>4 DEF SeenGood, Reading, LeafRange
<1>5. ASSUME NEW k \in Key PROVE InsertIdx[k] \in LeafRange(LeafLo[k], LeafHi[k])
  BY CacheAssumption DEF LeafRange
<1>6. ASSUME NEW k \in Key, NEW v \in Value, UpdateStart(c, k, v)
      PROVE  SeenGood(c)'
  <2> DEFINE r == [kind |-> "update", key |-> k, to |-> Nil, val |-> v]
  <2>1. r \in Request /\ r.kind = "update" /\ r.key = k
    BY DEF Request, Kinds, MaybeValue
  <2>2. StartReading(c, r, LeafLo[k], LeafHi[k])
    BY <1>6 DEF UpdateStart
  <2> HIDE DEF r
  <2>3. QED
    BY <1>4, <1>5, <2>1, <2>2
<1>7. ASSUME NEW k \in Key, SearchStart(c, k) PROVE SeenGood(c)'
  <2> DEFINE r == [kind |-> "search", key |-> k, to |-> Nil, val |-> Nil]
  <2>1. r \in Request /\ r.kind = "search" /\ r.key = k
    BY DEF Request, Kinds, MaybeValue
  <2>2. StartReading(c, r, LeafLo[k], LeafHi[k])
    BY <1>7 DEF SearchStart
  <2> HIDE DEF r
  <2>3. QED
    BY <1>4, <1>5, <2>1, <2>2
<1>8. ASSUME NEW k \in Key, NEW to \in Key, k < to, RangeStart(c, k, to)
      PROVE  SeenGood(c)'
  <2> DEFINE r == [kind |-> "range", key |-> k, to |-> to, val |-> Nil]
  <2>1. r \in Request /\ r.kind = "range" /\ r.key = k /\ r.to = to
    BY DEF Request, Kinds, MaybeValue
  <2>2. StartReading(c, r, LeafLo[k], LeafHi[to])
    BY <1>8 DEF RangeStart
  <2> HIDE DEF r
  <2>3. ASSUME NEW j \in Key, k <= j, j < to
        PROVE  InsertIdx[j] \in LeafRange(LeafLo[k], LeafHi[to])
    <3>1. k <= j /\ j <= to
      BY <2>3, KeyAssumption
    <3>2. /\ LeafLo[k] \in Nat /\ InsertIdx[k] \in Nat /\ InsertIdx[j] \in Nat
          /\ InsertIdx[to] \in Nat /\ LeafHi[to] \in Nat /\ InsertIdx[j] \in Leaf
      BY CacheAssumption, LeafAssumption, Zenon
    <3>3. /\ LeafLo[k] <= InsertIdx[k] /\ InsertIdx[k] <= InsertIdx[j]
          /\ InsertIdx[j] <= InsertIdx[to] /\ InsertIdx[to] <= LeafHi[to]
      BY <3>1, CacheAssumption
    <3>4. QED
      BY <3>2, <3>3 DEF LeafRange
  <2>4. QED
    BY <1>4, <2>1, <2>2, <2>3
<1>9. QED
  BY <1>3, <1>6, <1>7, <1>8 DEF Call

\* A step that leaves memory alone shows a reader nothing new.
LEMMA SeenSame ==
    ASSUME SeenInv, HNext, NEW c \in Client, Reading(c), Reading(c)', mem' = mem
    PROVE  \A k \in Key : seen'[c][k] = seen[c][k] /\ Visible(k)' = Visible(k)
<1>1. \A k \in Key : Visible(k)' = Visible(k)
  BY DEF Visible
<1>2. \A k \in Key : seen'[c][k] = seen[c][k] \cup {Visible(k)}
  BY <1>1, SeenGrows
<1>3. \A k \in Key : Visible(k) \in seen[c][k]
  BY DEF SeenInv, SeenGood
<1>4. QED
  <2> SUFFICES ASSUME NEW k \in Key PROVE seen'[c][k] = seen[c][k]
    BY <1>1
  <2> QED
    BY <1>2, <1>3

\* What a read of node b changes, and what it does not.
FetchFrame(c, b) ==
    /\ mem' = mem /\ pc'[c] = pc[c] /\ req'[c] = req[c] /\ Reading(c) /\ Reading(c)'
    /\ b \in batch[c] /\ batch'[c] = batch[c] \ {b} /\ img'[c][b] = mem[b]
    /\ \A a \in Addr : a # b => img'[c][a] = img[c][a]

\* A read of one node changes nothing but the copy of that node.
LEMMA FetchFrameHolds ==
    ASSUME SeenInv, NEW c \in Client, NEW b \in Addr, FetchNode(c, b)
    PROVE  FetchFrame(c, b)
BY DEF SeenInv, FullInv, BaseInv, TypeInv, TypeOK, FetchNode, FetchFrame, Reading

\* A leaf is read: its records are visible now, and if k is not among them, k
\* is in the synonym or visible nowhere.
LEMMA SeenFetchLeaf ==
    ASSUME SeenInv, HNext, NEW c \in Client, NEW b \in Addr, FetchNode(c, b),
           pc[c] = "read"
    PROVE  SeenGood(c)'
<1>1. FetchFrame(c, b) /\ SeenGood(c) /\ FullInv
  BY FetchFrameHolds DEF SeenInv
<1>2. /\ b \in Leaf /\ pc'[c] = "read"
      /\ \A k \in Key : seen'[c][k] = seen[c][k] /\ Visible(k)' = Visible(k)
                        /\ Visible(k) \in seen[c][k]
  BY <1>1, SeenSame DEF FetchFrame, SeenGood
<1>3. /\ \A s \in SynAddr : s \in Addr /\ s # b
      /\ mem \in [Addr -> Node] /\ img[c] \in [Addr -> Node]
      /\ img'[c] \in [Addr -> Node]
  <2>1. TypeOK'
    BY <1>1, FullNext DEF HNext, FullInv, BaseInv, TypeInv
  <2>2. QED
    BY <1>1, <1>2, <2>1, LeafAssumption DEF FullInv, BaseInv, TypeInv, TypeOK, Addr
<1>4. \A s \in SynAddr : img'[c][s] = EmptyNode
  BY <1>1, <1>2, <1>3 DEF FetchFrame, SeenGood, Reading
<1>5. ASSUME NEW k \in Key, mem[b].rec[k] # Nil
      PROVE  InsertIdx[k] = b /\ mem[b].rec[k] = Visible(k)
  BY <1>1, <1>2, <1>5, Zenon DEF FullInv, ChainInv, ChainGood, GoodLeaf, KeysOf,
     Visible
<1>6. ImagesSeen(c)'
  <2>1. ASSUME NEW k \in Key, NEW a \in Leaf, img'[c][a].rec[k] # Nil
        PROVE  InsertIdx[k] = a /\ img'[c][a].rec[k] \in seen[c][k]
    BY <1>1, <1>2, <1>5, <2>1 DEF FetchFrame, SeenGood, Reading, ImagesSeen, Addr
  <2>2. ASSUME NEW k \in Key, NEW a \in Leaf, img'[c][a].syn # Nil
        PROVE  img'[c][img'[c][a].syn].rec[k] = Nil
    BY <1>3, <1>4, <2>2, TypeFacts DEF EmptyNode
  <2>3. QED
    BY <1>2, <2>1, <2>2 DEF ImagesSeen
<1>7. ASSUME NEW k \in Asked(c), k \in Key PROVE Explained(c, k)'
  <2>1. CASE InsertIdx[k] = b
    BY <1>1, <1>2, <1>7, <2>1 DEF FetchFrame, Explained, Pending, Visible
  <2>2. CASE InsertIdx[k] # b
    <3>1. InsertIdx[k] \in Addr /\ Explained(c, k)
      BY <1>1, <1>7, CacheAssumption DEF SeenGood, FetchFrame, Addr
    <3>2. /\ img'[c][InsertIdx[k]] = img[c][InsertIdx[k]]
          /\ InsertIdx[k] \in batch[c] => InsertIdx[k] \in batch'[c]
      BY <1>1, <2>2, <3>1 DEF FetchFrame
    <3>3. seen'[c][k] = seen[c][k] /\ mem' = mem
      BY <1>1, <1>2, <1>7 DEF FetchFrame
    <3>4. QED
      BY <1>2, <3>1, <3>2, <3>3 DEF Explained, Pending
  <2>3. QED
    BY <2>1, <2>2
<1>8. Asked(c)' = Asked(c) /\ \A k \in Asked(c) : k \in Key
  BY <1>1 DEF FetchFrame, Asked, Reading, FullInv, BaseInv, TypeInv, LocalOK,
     Local, Request
<1>9. QED
  BY <1>1, <1>2, <1>4, <1>6, <1>7, <1>8 DEF SeenGood, FetchFrame, Reading

\* A synonym leaf is read: it is still the synonym of the leaf whose image
\* names it, so its records are visible now.
LEMMA SeenFetchSyn ==
    ASSUME SeenInv, HNext, NEW c \in Client, NEW b \in Addr, FetchNode(c, b),
           pc[c] = "read_syn"
    PROVE  SeenGood(c)'
<1>1. FetchFrame(c, b) /\ SeenGood(c) /\ FullInv /\ ImagePtrs(c)
  BY FetchFrameHolds DEF SeenInv, FullInv, BaseInv, PtrInv, ClientPtrs
<1>2. /\ b \in SynAddr /\ b # Nil /\ pc'[c] = "read_syn"
      /\ \A k \in Key : seen'[c][k] = seen[c][k] /\ Visible(k)' = Visible(k)
                        /\ Visible(k) \in seen[c][k]
  BY <1>1, SeenSame, SynAddrAssumption DEF FetchFrame, SeenGood
<1>3. /\ \A a \in Leaf : a \in Addr /\ a # b /\ img'[c][a] = img[c][a]
      /\ \A a \in Leaf : img[c][a].syn # Nil => img[c][a].syn \in Addr
      /\ img[c] \in [Addr -> Node]
  BY <1>1, <1>2, LeafAssumption, TypeFacts
     DEF FetchFrame, FullInv, BaseInv, TypeInv, TypeOK, Addr
<1>4. ASSUME NEW k \in Key, NEW a \in Leaf, img[c][a].syn = b, mem[b].rec[k] # Nil
      PROVE  InsertIdx[k] = a /\ mem[b].rec[k] = Visible(k)
  <2>1. mem[a].syn = b /\ k \in KeysOf(mem[b])
    BY <1>1, <1>2, <1>4 DEF ImagePtrs, KeysOf
  <2>2. InsertIdx[k] = a /\ \A x \in KeysOf(mem[a]) : x < k
    BY <1>1, <1>2, <2>1 DEF FullInv, ChainInv, ChainGood, GoodSyn
  <2>3. mem[a].rec[k] = Nil
    BY <2>2, KeyAssumption DEF KeysOf
  <2>4. QED
    BY <1>2, <2>1, <2>2, <2>3 DEF Visible
<1>5. ImagesSeen(c)'
  <2>1. ASSUME NEW k \in Key, NEW a \in Leaf, img'[c][a].rec[k] # Nil
        PROVE  InsertIdx[k] = a /\ img'[c][a].rec[k] \in seen[c][k]
    BY <1>1, <1>3, <2>1 DEF SeenGood, FetchFrame, ImagesSeen
  <2>2. ASSUME NEW k \in Key, NEW a \in Leaf, img[c][a].syn # Nil,
               img'[c][img[c][a].syn].rec[k] # Nil
        PROVE  InsertIdx[k] = a /\ img'[c][img[c][a].syn].rec[k] \in seen[c][k]
    <3>1. CASE img[c][a].syn = b
      BY <1>1, <1>2, <1>4, <2>2, <3>1 DEF FetchFrame
    <3>2. CASE img[c][a].syn # b
      <4>1. img'[c][img[c][a].syn] = img[c][img[c][a].syn]
        BY <1>1, <1>3, <2>2, <3>2 DEF FetchFrame
      <4>2. ImagesSeen(c)
        BY <1>1 DEF SeenGood, FetchFrame
      <4>3. QED
        BY <2>2, <4>1, <4>2 DEF ImagesSeen
    <3>3. QED
      BY <3>1, <3>2
  <2>3. \A k \in Key : seen'[c][k] = seen[c][k]
    BY <1>2
  <2>4. \A a \in Leaf : img'[c][a].syn = img[c][a].syn
    BY <1>3
  <2>5. ASSUME NEW k \in Key, NEW a \in Leaf
        PROVE  /\ img'[c][a].rec[k] # Nil =>
                      InsertIdx[k] = a /\ img'[c][a].rec[k] \in seen'[c][k]
               /\ img'[c][a].syn # Nil /\ img'[c][img'[c][a].syn].rec[k] # Nil =>
                      /\ InsertIdx[k] = a
                      /\ img'[c][img'[c][a].syn].rec[k] \in seen'[c][k]
    BY <2>1, <2>2, <2>3, <2>4
  <2>6. QED
    BY <2>5, Zenon DEF ImagesSeen
<1>6. Asked(c)' = Asked(c) /\ \A k \in Asked(c) : k \in Key
  BY <1>1 DEF FetchFrame, Asked, Reading, FullInv, BaseInv, TypeInv, LocalOK,
     Local, Request
<1>7. ASSUME NEW k \in Asked(c) PROVE Explained(c, k)'
  <2>1. Explained(c, k) /\ k \in Key /\ InsertIdx[k] \in Leaf
    BY <1>1, <1>6, CacheAssumption DEF SeenGood, FetchFrame
  <2>2. ASSUME NEW s \in Addr, Pending(c, s, k) PROVE Pending(c, s, k)'
    BY <1>1, <1>2, <2>2 DEF FetchFrame, Pending
  <2>3. QED
    BY <1>2, <1>3, <2>1, <2>2, Zenon DEF Explained, Pending
<1>8. QED
  BY <1>1, <1>2, <1>5, <1>6, <1>7 DEF SeenGood, FetchFrame, Reading

\* The second batch holds every synonym the first one has named.
LEMMA SeenAppend ==
    ASSUME SeenInv, HNext, NEW c \in Client, AppendSynonyms(c)
    PROVE  SeenGood(c)'
<1>1. /\ SeenGood(c) /\ FullInv /\ mem' = mem /\ req' = req /\ img' = img
      /\ pc[c] = "read" /\ pc'[c] = "read_syn" /\ batch[c] = {}
      /\ batch'[c] = {img[c][a].syn : a \in Leaf} \ {Nil}
      /\ img[c] \in [Addr -> Node]
  BY DEF SeenInv, FullInv, BaseInv, TypeInv, TypeOK, AppendSynonyms, Goto
<1>2. \A k \in Key : /\ seen'[c][k] = seen[c][k] /\ Visible(k)' = Visible(k)
                     /\ Visible(k) \in seen[c][k]
  BY <1>1, SeenSame DEF Reading, SeenGood
<1>3. batch'[c] \subseteq SynAddr
  BY <1>1, TypeFacts
<1>4. ImagesSeen(c)'
  <2>1. ImagesSeen(c) /\ img' = img /\ \A k \in Key : seen'[c][k] = seen[c][k]
    BY <1>1, <1>2 DEF SeenGood, Reading
  <2>2. ASSUME NEW k \in Key, NEW a \in Leaf
        PROVE  /\ img'[c][a].rec[k] # Nil =>
                      InsertIdx[k] = a /\ img'[c][a].rec[k] \in seen'[c][k]
               /\ img'[c][a].syn # Nil /\ img'[c][img'[c][a].syn].rec[k] # Nil =>
                      /\ InsertIdx[k] = a
                      /\ img'[c][img'[c][a].syn].rec[k] \in seen'[c][k]
    BY <2>1 DEF ImagesSeen
  <2>3. QED
    BY <2>2, Zenon DEF ImagesSeen
<1>5. Asked(c)' = Asked(c) /\ \A k \in Asked(c) : k \in Key
  BY <1>1 DEF Asked, FullInv, BaseInv, TypeInv, LocalOK, Local, Request
<1>6. ASSUME NEW k \in Asked(c) PROVE Explained(c, k)'
  <2>1. Explained(c, k) /\ k \in Key /\ InsertIdx[k] \in Leaf
    BY <1>1, <1>5, CacheAssumption DEF SeenGood, Reading
  <2>2. img[c][InsertIdx[k]].syn # Nil => img[c][InsertIdx[k]].syn \in batch'[c]
    BY <1>1, <2>1
  <2>3. QED
    BY <1>1, <1>2, <2>1, <2>2, Zenon DEF Explained, Pending
<1>7. QED
  BY <1>1, <1>2, <1>3, <1>4, <1>5, <1>6 DEF SeenGood, Reading

\* Every other step of c's own leaves c with no images.
LEMMA SeenLeave ==
    ASSUME SeenInv, NEW c \in Client, Step(c), ~AppendSynonyms(c),
           \A b \in Addr : ~FetchNode(c, b)
    PROVE  SeenGood(c)'
<1>1. /\ pc \in [Client -> PCs] /\ img \in [Client -> [Addr -> Node]]
      /\ ~Reading(c) => img[c] = NoImage
  BY DEF SeenInv, SeenGood, FullInv, BaseInv, TypeInv, TypeOK
<1>2. CASE SearchReturn(c) \/ RangeReturn(c) \/ UpdateMiss(c) \/ UpdateFound(c)
           \/ Unlock(c)
  BY <1>1, <1>2 DEF SearchReturn, RangeReturn, UpdateMiss, UpdateFound, Unlock,
     Return, Goto, SeenGood, Reading
<1>3. CASE LockNode(c) \/ InsertFetch(c) \/ InsertFetchSyn(c) \/ ApplyNothing(c)
           \/ ApplyToLeaf(c) \/ ApplyToSyn(c) \/ ApplyOverflow(c)
           \/ UpdateFetch(c) \/ UpdateReadAnother(c) \/ WriteNode(c) \/ WriteSyn(c)
  <2>1. ~Reading(c) /\ ~Reading(c)' /\ img' = img
    BY <1>1, <1>3 DEF LockNode, InsertFetch, InsertFetchSyn, ApplyNothing,
       ApplyToLeaf, ApplyToSyn, ApplyOverflow, UpdateFetch, UpdateReadAnother,
       WriteNode, WriteSyn, Goto, Reading, readVars
  <2>2. QED
    BY <1>1, <2>1 DEF SeenGood
<1>4. QED
  BY <1>2, <1>3 DEF Step

\* A key that leaves a synonym leaf is visible nowhere then: the write that
\* drops it comes after the write of the leaf, which does not hold it.
LEMMA DroppedUnseen ==
    ASSUME FullInv, NEW c \in Client, Call(c) \/ Step(c), NEW k \in Key,
           mem[InsertIdx[k]].syn # Nil,
           mem[mem[InsertIdx[k]].syn].rec[k] # Nil,
           mem'[mem[InsertIdx[k]].syn].rec[k] = Nil
    PROVE  Visible(k)' = Nil
<1> DEFINE a == InsertIdx[k]
           s == mem[a].syn
<1>1. /\ a \in Leaf /\ s \in SynAddr /\ s \in Addr /\ s \notin Leaf
      /\ mem \in [Addr -> Node] /\ mem[a] \in Node
  BY CacheAssumption, LeafAssumption, TypeFacts
     DEF FullInv, BaseInv, TypeInv, TypeOK, Addr
<1>2. ~(mem' = mem) /\ (WriteNode(c) \/ WriteSyn(c))
  BY OnlyBatchWrites
<1>3. mem[a].rec[k] = Nil
  <2>1. \A x \in KeysOf(mem[a]) : x < k
    BY <1>1, Zenon DEF FullInv, ChainInv, ChainGood, GoodSyn, KeysOf
  <2>2. QED
    BY <2>1, KeyAssumption DEF KeysOf
<1>4. CASE WriteNode(c)
  <2>1. /\ mem' = [mem EXCEPT ![addr[c]] = leafB[c]] /\ la[c] \in Leaf
        /\ addr[c] # la[c] => KeysOf(leafB[c]) = KeysOf(mem[addr[c]])
    BY <1>4 DEF WriteNode, FullInv, BaseInv, TypeInv, LocalOK, Local, Holding,
       ChainInv, CopyGood
  <2>2. KeysOf(mem'[s]) = KeysOf(mem[s])
    BY <1>1, <2>1
  <2>3. QED
    BY <2>2 DEF KeysOf
<1>5. CASE WriteSyn(c)
  <2>1. mem'[a] = mem[a]
    BY <1>1, <1>5, WriteSynWritten DEF FullInv
  <2>2. QED
    BY <1>3, <2>1 DEF Visible
<1>6. QED
  BY <1>2, <1>4, <1>5

\* A step of another client: what c has read it has seen, and a key that is
\* gone from the synonym c has still to read was visible nowhere.
LEMMA SeenOther ==
    ASSUME SeenInv, HNext, NEW d \in Client, Call(d) \/ Step(d),
           NEW c \in Client, c # d
    PROVE  SeenGood(c)'
<1>1. /\ SeenGood(c) /\ FullInv /\ Untouched(c) /\ batch'[c] = batch[c]
  <2>1. batch \in [Client -> SUBSET Addr]
    BY DEF SeenInv, FullInv, BaseInv, TypeInv, TypeOK
  <2>2. CASE Call(d)
    BY <2>1, <2>2, OthersUntouched, Zenon DEF SeenInv, FullInv, BaseInv, Call,
       InsertStart, UpdateStart, SearchStart, RangeStart, StartReading, readVars
  <2>3. CASE Step(d)
    <3>1. batch'[c] = batch[c]
      BY <2>1, <2>3, Zenon DEF Step, FetchNode, AppendSynonyms, SearchReturn,
         RangeReturn, UpdateMiss, UpdateFound, LockNode, InsertFetch,
         InsertFetchSyn, ApplyNothing, ApplyToLeaf, ApplyToSyn, ApplyOverflow,
         UpdateFetch, UpdateReadAnother, WriteNode, WriteSyn, Unlock, Return,
         readVars
    <3>2. QED
      BY <3>1, OthersUntouched DEF SeenInv, FullInv, BaseInv
  <2>4. QED
    BY <2>2, <2>3
<1>2. SUFFICES ASSUME Reading(c) PROVE SeenGood(c)'
  BY <1>1 DEF SeenGood, Untouched, Reading
<1>3. \A k \in Key : Visible(k)' \in seen'[c][k] /\ seen[c][k] \subseteq seen'[c][k]
  BY <1>1, <1>2, SeenGrows DEF Untouched, Reading
<1>4. ImagesSeen(c)'
  <2>1. ImagesSeen(c) /\ img'[c] = img[c]
    BY <1>1, <1>2 DEF SeenGood, Untouched
  <2>2. ASSUME NEW k \in Key, NEW a \in Leaf
        PROVE  /\ img'[c][a].rec[k] # Nil =>
                      InsertIdx[k] = a /\ img'[c][a].rec[k] \in seen'[c][k]
               /\ img'[c][a].syn # Nil /\ img'[c][img'[c][a].syn].rec[k] # Nil =>
                      /\ InsertIdx[k] = a
                      /\ img'[c][img'[c][a].syn].rec[k] \in seen'[c][k]
    BY <1>3, <2>1 DEF ImagesSeen
  <2>3. QED
    BY <2>2, Zenon DEF ImagesSeen
<1>5. Asked(c)' = Asked(c) /\ \A k \in Asked(c) : k \in Key
  BY <1>1, <1>2 DEF Asked, Untouched, Reading, FullInv, BaseInv, TypeInv, LocalOK,
     Local, Request
<1>6. ASSUME NEW k \in Asked(c) PROVE Explained(c, k)'
  <2> DEFINE a == InsertIdx[k]
             s == img[c][a].syn
  <2>1. Explained(c, k) /\ k \in Key /\ a \in Leaf
    BY <1>1, <1>2, <1>5, CacheAssumption DEF SeenGood
  <2>2. ASSUME Pending(c, s, k) PROVE Pending(c, s, k)' \/ Visible(k)' = Nil
    <3>1. mem[a].syn = s /\ s # Nil /\ mem[s].rec[k] # Nil
      BY <1>1, <2>1, <2>2, Zenon DEF Pending, FullInv, BaseInv, PtrInv,
         ClientPtrs, ImagePtrs
    <3>2. CASE mem'[s].rec[k] = Nil
      BY <1>1, <2>1, <3>1, <3>2, DroppedUnseen, Zenon
    <3>3. CASE mem'[s].rec[k] # Nil
      BY <1>1, <2>2, <3>1, <3>3, Zenon DEF Pending, Untouched
    <3>4. QED
      BY <3>2, <3>3
  <2>3. QED
    BY <1>1, <1>3, <2>1, <2>2 DEF Explained, Untouched
<1>7. QED
  BY <1>1, <1>2, <1>3, <1>4, <1>5, <1>6 DEF SeenGood, Untouched, Reading

\* Before any call nothing is read and nothing has been seen.
LEMMA SeenInit == HInit => SeenInv
<1> SUFFICES ASSUME HInit PROVE SeenInv
  OBVIOUS
<1>1. Init
  BY DEF HInit
<1>2. \A c \in Client : SeenGood(c)
  BY <1>1 DEF Init, SeenGood, Reading
<1>3. QED
  BY <1>1, <1>2, FullInit DEF SeenInv

\* Every step keeps what the readers hold explained by what was visible.
LEMMA SeenNext == SeenInv /\ [HNext]_<<vars, histVars>> => SeenInv'
<1> SUFFICES ASSUME SeenInv, [HNext]_<<vars, histVars>> PROVE SeenInv'
  OBVIOUS
<1>1. FullInv'
  BY FullNext DEF SeenInv, HNext
<1>2. ASSUME HNext, NEW c \in Client, Call(c) \/ Step(c)
      PROVE  \A d \in Client : SeenGood(d)'
  <2>1. SeenGood(c)'
    <3>1. CASE \E b \in Addr : FetchNode(c, b)
      BY <1>2, <3>1, SeenFetchLeaf, SeenFetchSyn, Zenon DEF FetchNode
    <3>2. CASE ~\E b \in Addr : FetchNode(c, b)
      BY <1>2, <3>2, SeenStart, SeenAppend, SeenLeave
    <3>3. QED
      BY <3>1, <3>2
  <2>2. QED
    BY <1>2, <2>1, SeenOther
<1>3. CASE UNCHANGED <<vars, histVars>>
  <2>1. /\ mem' = mem /\ pc' = pc /\ req' = req /\ batch' = batch /\ img' = img
        /\ seen' = seen
    BY <1>3 DEF vars, readVars, histVars
  <2>2. SUFFICES ASSUME NEW c \in Client PROVE SeenGood(c)'
    BY <1>1 DEF SeenInv
  <2>3. /\ \A k \in Key : Visible(k)' = Visible(k)
        /\ ImagesSeen(c)' = ImagesSeen(c) /\ Asked(c)' = Asked(c)
        /\ \A k \in Asked(c) : Explained(c, k)' = Explained(c, k)
    BY <2>1 DEF Visible, ImagesSeen, Asked, Explained, Pending
  <2>4. QED
    BY <2>1, <2>3 DEF SeenInv, SeenGood, Reading
<1>4. QED
  BY <1>1, <1>2, <1>3 DEF SeenInv, HNext, Next

\* The reads are complete: what is found was seen, and what is not was
\* visible nowhere at some moment.
LEMMA SeenResult ==
    ASSUME SeenInv, NEW c \in Client, HasRead(c), NEW k \in Asked(c)
    PROVE  /\ ~Found(c, k) => Nil \in seen[c][k]
           /\ \A a \in InLeaf(c, k) :
                  a = InsertIdx[k] /\ img[c][a].rec[k] \in seen[c][k]
           /\ \A a \in InSyn(c, k) :
                  a = InsertIdx[k] /\ img[c][img[c][a].syn].rec[k] \in seen[c][k]
<1>1. /\ pc[c] = "read_syn" /\ batch[c] = {} /\ ImagesSeen(c) /\ Explained(c, k)
  BY DEF SeenInv, SeenGood, HasRead, Reading
<1>2. k \in Key /\ InsertIdx[k] \in Leaf
  BY <1>1, CacheAssumption DEF Asked, SeenInv, FullInv, BaseInv, TypeInv, LocalOK,
     Local, Request
<1>3. ~Found(c, k) => Nil \in seen[c][k]
  BY <1>1, <1>2, Zenon DEF Found, InLeaf, InSyn, Explained, Pending
<1>4. QED
  BY <1>1, <1>2, <1>3 DEF InLeaf, InSyn, ImagesSeen

\* The answer of a search was visible at some time during the search.
LEMMA SearchSeen ==
    ASSUME SeenInv, NEW c \in Client, HasRead(c), req[c].kind # "range"
    PROVE  SearchResult(c) \in seen[c][req[c].key]
<1> DEFINE x == req[c].key
<1>1. x \in Asked(c) /\ x \in Key /\ img[c] \in [Addr -> Node]
  BY DEF Asked, HasRead, SeenInv, FullInv, BaseInv, TypeInv, TypeOK, LocalOK,
     Local, Request
<1>2. CASE Found(c, x)
  <2>1. InLeaf(c, x) # {} =>
            FoundLeaf(c, x) \in InLeaf(c, x) /\ FoundNode(c, x) = FoundLeaf(c, x)
    BY FirstMin, Zenon DEF InLeaf, FoundLeaf, FoundNode
  <2>2. InLeaf(c, x) = {} =>
            /\ FoundLeaf(c, x) \in InSyn(c, x)
            /\ FoundNode(c, x) = img[c][FoundLeaf(c, x)].syn
    BY <1>2, FirstMin, Zenon DEF InSyn, FoundLeaf, FoundNode, Found
  <2>3. QED
    BY <1>1, <1>2, <2>1, <2>2, SeenResult DEF SearchResult
<1>3. CASE ~Found(c, x)
  BY <1>1, <1>3, SeenResult DEF SearchResult
<1>4. QED
  BY <1>2, <1>3

\* So was every value a range query returns for a key of its range.
LEMMA RangeSeen ==
    ASSUME SeenInv, NEW c \in Client, HasRead(c), req[c].kind = "range",
           NEW k \in Key, req[c].key <= k, k < req[c].to
    PROVE  RangeValue(c, k) \in seen[c][k]
<1>1. k \in Asked(c) /\ InsertIdx[k] \in Nat
  BY CacheAssumption, LeafAssumption, Zenon DEF Asked
<1>2. ASSUME NEW S, S # {}, \A a \in S : a = InsertIdx[k] PROVE Last(S) \in S
  <2>1. \A b \in S : b <= InsertIdx[k]
    BY <1>1, <1>2
  <2>2. InsertIdx[k] \in S
    BY <1>2
  <2>3. QED
    BY <2>1, <2>2 DEF Last
<1>3. CASE InSyn(c, k) # {}
  <2>1. Last(InSyn(c, k)) \in InSyn(c, k)
    BY <1>1, <1>2, <1>3, SeenResult
  <2>2. QED
    BY <1>1, <1>3, <2>1, SeenResult DEF RangeValue
<1>4. CASE InSyn(c, k) = {} /\ InLeaf(c, k) # {}
  <2>1. Last(InLeaf(c, k)) \in InLeaf(c, k)
    BY <1>1, <1>2, <1>4, SeenResult
  <2>2. QED
    BY <1>1, <1>4, <2>1, SeenResult DEF RangeValue
<1>5. CASE InSyn(c, k) = {} /\ InLeaf(c, k) = {}
  BY <1>1, <1>5, SeenResult DEF RangeValue, Found
<1>6. QED
  BY <1>3, <1>4, <1>5

\* Whatever the writers do, and also when records are lost in full synonym
\* leaves, a search and a range query return for each key something that was
\* in memory under it at a moment of the call.
THEOREM ReadsReturnVisible == HSpec => []ReadsWereVisible
<1>1. SeenInv => ReadsWereVisible
  <2> SUFFICES ASSUME SeenInv, NEW c \in Client, HasRead(c)
               PROVE  /\ req[c].kind \in {"search", "update"} =>
                             SearchResult(c) \in seen[c][req[c].key]
                      /\ req[c].kind = "range" =>
                             \A k \in req[c].key .. (req[c].to - 1) :
                                 k \in Key => RangeResult(c)[k] \in seen[c][k]
    BY DEF ReadsWereVisible
  <2>1. req[c].kind \in {"search", "update"} =>
            SearchResult(c) \in seen[c][req[c].key]
    BY SearchSeen
  <2>2. ASSUME req[c].kind = "range", NEW k \in req[c].key .. (req[c].to - 1),
               k \in Key
        PROVE  RangeResult(c)[k] \in seen[c][k]
    <3>1. req[c].key \in Nat /\ req[c].to \in Nat
      BY <2>2, KeyAssumption, Zenon DEF SeenInv, SeenGood, HasRead, Reading,
         FullInv, BaseInv, TypeInv, LocalOK, Local, Request
    <3>2. req[c].key <= k /\ k < req[c].to
      BY <2>2, <3>1, KeyAssumption
    <3>3. QED
      BY <2>2, <3>2, RangeSeen DEF RangeResult
  <2>3. QED
    BY <2>1, <2>2
<1>2. QED
  BY <1>1, SeenInit, SeenNext, PTL DEF HSpec
=============================================================================
