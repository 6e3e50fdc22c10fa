------------------------- MODULE LearnedIndexProofs -------------------------
(***************************************************************************)
(* What the trained models make of the loaded keys, for every set of keys, *)
(* epsilon and span: given that model_for_key finds the segment of a key,  *)
(* bulk loading fits into the leaves of the segments, and keys go to       *)
(* leaves in their order, so that a range query covers the keys between    *)
(* its ends if a search covers the leaf of a key.                          *)
(*                                                                         *)
(* The segments cut the loaded keys, and the leaves, into runs one behind  *)
(* the other.                                                              *)
(***************************************************************************)
EXTENDS LearnedIndex, FiniteSetTheorems, WellFoundedInduction, TLAPS

\* Zenon first: most leaves are first-order.
USE ZenonT(2), SMTT(40), ZenonT(40)

\* A set of natural numbers has a least one.
LEMMA Least ==
  ASSUME NEW S \in SUBSET Nat, S # {}
  PROVE  \E c \in S : \A d \in S : c <= d
<1> DEFINE Before == {p \in Nat \X Nat : p[1] < p[2]}
<1>1. IsWellFoundedOn(Before, Nat)
  BY NatLessThanWellFounded DEF OpToRel
<1> HIDE DEF Before
<1>2. PICK c \in S : \A d \in S : ~(<<d, c>> \in Before)
  BY <1>1, WFMin, Zenon
<1>3. ASSUME NEW d \in S
      PROVE  c <= d
  <2>1. c \in Nat /\ d \in Nat
    OBVIOUS
  <2>2. d < c => <<d, c>> \in Before
    BY <2>1 DEF Before
  <2> QED
    BY <1>2, <2>1, <2>2
<1> QED
  BY <1>3

-----------------------------------------------------------------------------
(* The loaded keys *)

Increasing(s) == \A i, j \in 1 .. Len(s) : i < j => s[i] < s[j]

\* The keys of S below k.
Below(S, k) == {j \in S : j < k}

\* A larger key has more keys below it.
LEMMA RankGrows ==
  ASSUME NEW S \in SUBSET Nat, IsFiniteSet(S), NEW j \in S, NEW k \in S, j < k
  PROVE  /\ Cardinality(Below(S, j)) \in Nat /\ Cardinality(Below(S, k)) \in Nat
         /\ Cardinality(Below(S, j)) < Cardinality(Below(S, k))
<1>1. Below(S, j) \in SUBSET Below(S, k) /\ Below(S, k) \in SUBSET S
  <2>1. ASSUME NEW x \in S, x < j
        PROVE  x < k
    BY <2>1
  <2> QED
    BY <2>1 DEF Below
<1>2. j \in Below(S, k) /\ j \notin Below(S, j)
  BY DEF Below
<1>3. IsFiniteSet(Below(S, k))
  BY <1>1, FS_Subset
<1>4. IsFiniteSet(Below(S, j)) /\ Cardinality(Below(S, j)) <= Cardinality(Below(S, k))
      /\ (Cardinality(Below(S, k)) = Cardinality(Below(S, j)) => Below(S, k) = Below(S, j))
  BY <1>1, <1>3, FS_Subset
<1>5. Cardinality(Below(S, j)) \in Nat /\ Cardinality(Below(S, k)) \in Nat
  BY <1>3, <1>4, FS_CardinalityType
<1>6. Cardinality(Below(S, j)) # Cardinality(Below(S, k))
  BY <1>2, <1>4
<1> QED
  BY <1>4, <1>5, <1>6

\* Every number below that of the keys is the rank of a key.
LEMMA Ranked ==
  ASSUME NEW S \in SUBSET Nat, IsFiniteSet(S), NEW i \in 1 .. Cardinality(S)
  PROVE  \E k \in S : Cardinality(Below(S, k)) = i - 1
<1>1. PICK n \in Nat : n = Cardinality(S)
  BY FS_CardinalityType
<1>2. PICK f : f = [k \in S |-> Cardinality(Below(S, k))]  BY Zenon
<1>3. PICK T : T = 0 .. n - 1  BY Zenon
<1>4. IsFiniteSet(T) /\ Cardinality(T) = n
  BY <1>1, <1>3, FS_Interval
<1>5. ASSUME NEW k \in S
      PROVE  f[k] \in T /\ f[k] = Cardinality(Below(S, k))
  <2>1. Below(S, k) \in SUBSET S /\ k \notin Below(S, k)
    BY DEF Below
  <2>2. IsFiniteSet(Below(S, k)) /\ Cardinality(Below(S, k)) <= n
        /\ (n = Cardinality(Below(S, k)) => S = Below(S, k))
    BY <1>1, <2>1, FS_Subset
  <2>3. Cardinality(Below(S, k)) \in Nat
    BY <2>2, FS_CardinalityType
  <2>4. Cardinality(Below(S, k)) # n
    BY <2>1, <2>2
  <2> QED
    BY <1>1, <1>2, <1>3, <2>2, <2>3, <2>4
<1>6. ASSUME NEW j \in S, NEW k \in S, f[j] = f[k]
      PROVE  j = k
  <2>1. j \in Nat /\ k \in Nat
    OBVIOUS
  <2>2. ~(j < k) /\ ~(k < j)
    BY <1>5, <1>6, RankGrows
  <2> QED
    BY <2>1, <2>2
<1>7. f \in Injection(S, T)
  BY <1>2, <1>5, <1>6 DEF Injection, IsInjective
<1>8. f \in Surjection(S, T)
  BY <1>1, <1>4, <1>7, FS_Injection
<1>9. i - 1 \in T
  BY <1>1, <1>3
<1> QED
  BY <1>5, <1>8, <1>9 DEF Surjection

\* The sorted keys: increasing, and all of them.
LEMMA SortedKeys ==
  ASSUME NEW S \in SUBSET Nat, IsFiniteSet(S), S # {}
  PROVE  /\ Sorted(S) \in Seq(S) /\ Len(Sorted(S)) >= 1 /\ Increasing(Sorted(S))
         /\ \A k \in S : \E i \in 1 .. Len(Sorted(S)) : Sorted(S)[i] = k
<1>1. PICK n \in Nat : n = Cardinality(S) /\ n >= 1
  BY FS_CardinalityType, FS_EmptySet
<1>2. PICK s : s = Sorted(S)  BY Zenon
<1>3. s = [i \in 1 .. n |-> CHOOSE k \in S : Cardinality(Below(S, k)) = i - 1]
  BY <1>1, <1>2 DEF Sorted, Below
<1>4. \A i \in 1 .. n : s[i] \in S /\ Cardinality(Below(S, s[i])) = i - 1
  BY <1>1, <1>3, Ranked
<1>5. s \in [1 .. n -> S]
  BY <1>3, <1>4
<1>6. s \in Seq(S) /\ Len(s) = n
  BY <1>1, <1>5
<1>7. ASSUME NEW i \in 1 .. n, NEW j \in 1 .. n, i < j
      PROVE  s[i] < s[j]
  <2>1. s[i] \in Nat /\ s[j] \in Nat
    BY <1>4
  <2>2. s[i] # s[j]
    BY <1>1, <1>4, <1>7
  <2>3. ~(s[j] < s[i])
    <3> SUFFICES ASSUME s[j] < s[i] PROVE FALSE
      OBVIOUS
    <3>1. j - 1 < i - 1
      BY <1>4, RankGrows
    <3> QED
      BY <3>1, <1>1, <1>7
  <2> QED
    BY <2>1, <2>2, <2>3
<1>8. ASSUME NEW k \in S
      PROVE  \E i \in 1 .. n : s[i] = k
  <2>1. Below(S, k) \in SUBSET S /\ k \notin Below(S, k)
    BY DEF Below
  <2>2. IsFiniteSet(Below(S, k)) /\ Cardinality(Below(S, k)) <= n
        /\ (n = Cardinality(Below(S, k)) => S = Below(S, k))
    BY <1>1, <2>1, FS_Subset
  <2>3. PICK r \in Nat : r = Cardinality(Below(S, k)) /\ r <= n /\ r # n
    BY <2>1, <2>2, FS_CardinalityType
  <2>4. r + 1 \in 1 .. n /\ (r + 1) - 1 = r
    BY <1>1, <2>3
  <2>5. s[r + 1] \in S /\ Cardinality(Below(S, s[r + 1])) = r
    BY <1>4, <2>4
  <2>6. ~(s[r + 1] < k) /\ ~(k < s[r + 1])
    <3>1. PICK j \in S : j = s[r + 1]
      BY <2>5
    <3>2. j < k => r < r
      BY <2>3, <2>5, <3>1, RankGrows
    <3>3. k < j => r < r
      BY <2>3, <2>5, <3>1, RankGrows
    <3>4. ~(r < r)
      OBVIOUS
    <3> QED
      BY <3>1, <3>2, <3>3, <3>4
  <2>7. s[r + 1] \in Nat /\ k \in Nat
    BY <2>5
  <2>8. s[r + 1] = k
    BY <2>6, <2>7
  <2> QED
    BY <2>4, <2>8
<1> QED
  BY <1>1, <1>2, <1>6, <1>7, <1>8 DEF Increasing

\* The largest key that may be loaded.
LEMMA Largest ==
  ASSUME Loadable # {}
  PROVE  Max(Loadable) \in Nat /\ \A k \in Loadable : k <= Max(Loadable)
<1>1. Loadable \in SUBSET Nat /\ IsFiniteSet(Loadable)
  BY ParamAssumption
<1>2. PICK s : s = Sorted(Loadable)  BY Zenon
<1>3. /\ s \in Seq(Loadable) /\ Len(s) >= 1 /\ Increasing(s)
      /\ \A k \in Loadable : \E i \in 1 .. Len(s) : s[i] = k
  BY <1>1, <1>2, SortedKeys
<1>4. PICK n \in Nat : n = Len(s) /\ n >= 1
  BY <1>3
<1>5. s[n] \in Loadable
  BY <1>3, <1>4
<1>6. ASSUME NEW k \in Loadable
      PROVE  s[n] >= k
  <2>1. PICK i \in 1 .. n : s[i] = k
    BY <1>3, <1>4
  <2>2. i = n \/ i < n
    BY <1>4
  <2>3. s[n] \in Nat /\ k \in Nat
    BY <1>1, <1>5
  <2>4. n \in 1 .. n
    BY <1>4
  <2>5. i < n => s[i] < s[n]
    BY <1>3, <1>4, <2>4 DEF Increasing
  <2> QED
    BY <2>1, <2>2, <2>3, <2>5
<1>7. \E x \in Loadable : \A k \in Loadable : x >= k
  BY <1>5, <1>6
<1>8. Max(Loadable) \in Loadable /\ \A k \in Loadable : Max(Loadable) >= k
  BY <1>7 DEF Max
<1> QED
  BY <1>1, <1>8

-----------------------------------------------------------------------------
(* The segments *)

\* Loaded keys and leaves up to the end of segment m, and of all segments ms.
End(m) == m.capOff + m.capacity
LeafEnd(m) == m.leafOff + LeafNum(m.capacity)
Total(ms) == IF ms = <<>> THEN 0 ELSE End(ms[Len(ms)])
LeafTotal(ms) == IF ms = <<>> THEN 0 ELSE LeafEnd(ms[Len(ms)])

\* A segment of the keys ks, which ends with its own key.
Segment(m, ks) ==
    /\ m.capacity \in Nat \ {0} /\ m.capOff \in Nat /\ m.leafOff \in Nat
    /\ End(m) \in 1 .. Len(ks) /\ m.key = ks[End(m)]

\* Segment m follows l.
Follows(l, m) == End(l) <= m.capOff /\ LeafEnd(l) <= m.leafOff

\* The segments ms of the keys ks, one behind the other.
Cuts(ms, ks) ==
    /\ ms \in Seq(Range(ms))
    /\ \A i \in 1 .. Len(ms) : Segment(ms[i], ks)
    /\ \A i, j \in 1 .. Len(ms) : i < j => Follows(ms[i], ms[j])
    /\ \A i \in 1 .. Len(ms) :
           IF i = 1 THEN ms[i].capOff = 0 ELSE ms[i].capOff = End(ms[i - 1])

Keys(ks) == ks \in Seq(Loadable) /\ Len(ks) >= 1 /\ Increasing(ks)

\* The inductive invariant: the segments closed so far, and the one that is open.
Segments ==
    /\ Keys(int_keys)
    /\ next \in 2 .. Len(int_keys) + 2 /\ pos \in Nat \ {0}
    /\ Cuts(models, int_keys)
    /\ next <= Len(int_keys) + 1 => Total(models) + pos = next - 1
    /\ next = Len(int_keys) + 2 => models # <<>> /\ Total(models) = Len(int_keys)

\* The leaves of a segment.
LEMMA LeafNumGood ==
  ASSUME NEW n \in Nat
  PROVE  LeafNum(n) \in Nat /\ LeafNum(n) >= 1 /\ n \div Span < LeafNum(n)
<1>1. Span \in Nat /\ Span >= 1
  BY ParamAssumption
<1>2. n \div Span \in Nat
  BY <1>1
<1> QED
  BY <1>2 DEF LeafNum, RoundUp

\* A sequence is one of its own elements.
LEMMA OfRange ==
  ASSUME NEW T, NEW s \in Seq(T)
  PROVE  s \in Seq(Range(s))
<1>1. PICK n \in Nat : n = Len(s) /\ DOMAIN s = 1 .. n /\ s = [i \in 1 .. n |-> s[i]]
  OBVIOUS
<1>2. \A i \in 1 .. n : s[i] \in Range(s)
  BY <1>1 DEF Range
<1>3. s \in [1 .. n -> Range(s)]
  BY <1>1, <1>2
<1> QED
  BY <1>1, <1>3

\* A segment is appended.
LEMMA Appended ==
  ASSUME NEW s, s \in Seq(Range(s)), NEW e
  PROVE  LET t == Append(s, e)
         IN  /\ t \in Seq(Range(t)) /\ Len(s) \in Nat /\ Len(t) = Len(s) + 1
             /\ t[Len(s) + 1] = e /\ \A i \in 1 .. Len(s) : t[i] = s[i]
<1>1. PICK T : T = Range(s) \cup {e}  BY Zenon
<1>2. e \in T
  BY <1>1
<1>3. s \in Seq(T)
  <2>1. PICK n \in Nat : n = Len(s) /\ s \in [1 .. n -> Range(s)]
    OBVIOUS
  <2>2. s \in [1 .. n -> T]
    BY <2>1, <1>1
  <2> QED
    BY <2>1, <2>2
<1>4. PICK t : t = Append(s, e)  BY Zenon
<1>5. t \in Seq(T) /\ Len(t) = Len(s) + 1 /\ t[Len(s) + 1] = e /\ Len(s) \in Nat
      /\ \A i \in 1 .. Len(s) : t[i] = s[i]
  BY <1>2, <1>3, <1>4
<1>6. t \in Seq(Range(t))
  BY <1>5, OfRange
<1> QED
  BY <1>4, <1>5, <1>6

LEMMA CutsAppend ==
  ASSUME NEW ms, NEW ks, Cuts(ms, ks), Len(ks) \in Nat, NEW e, NEW p \in Nat \ {0},
         e.capacity = p, e.capOff = Total(ms), e.leafOff = LeafTotal(ms),
         Total(ms) + p <= Len(ks), e.key = ks[Total(ms) + p]
  PROVE  /\ Cuts(Append(ms, e), ks) /\ Append(ms, e) # <<>>
         /\ Total(Append(ms, e)) = Total(ms) + p
<1>1. PICK t : t = Append(ms, e)  BY Zenon
<1>2. PICK n \in Nat : /\ n = Len(ms) /\ Len(t) = n + 1 /\ t[n + 1] = e
                       /\ \A i \in 1 .. n : t[i] = ms[i]
                       /\ t \in Seq(Range(t))
  BY <1>1, Appended DEF Cuts
<1>3. /\ \A i \in 1 .. n : Segment(ms[i], ks)
      /\ \A i, j \in 1 .. n : i < j => Follows(ms[i], ms[j])
      /\ \A i \in 1 .. n : IF i = 1 THEN ms[i].capOff = 0 ELSE ms[i].capOff = End(ms[i - 1])
  BY <1>2 DEF Cuts
<1>4. ms = <<>> <=> n = 0
  BY <1>2 DEF Cuts
<1>5. \A i \in 1 .. n : End(ms[i]) \in Nat /\ LeafEnd(ms[i]) \in Nat
                        /\ End(ms[i]) >= ms[i].capOff /\ LeafEnd(ms[i]) >= ms[i].leafOff
                        /\ ms[i].capOff \in Nat /\ ms[i].leafOff \in Nat
  <2> TAKE i \in 1 .. n
  <2>1. PICK c \in Nat : c = ms[i].capacity
    BY <1>3 DEF Segment
  <2>2. LeafNum(c) \in Nat
    BY LeafNumGood
  <2>3. PICK a \in Nat, b \in Nat : a = ms[i].capOff /\ b = ms[i].leafOff
    BY <1>3 DEF Segment
  <2> QED
    BY <2>1, <2>2, <2>3 DEF End, LeafEnd
<1>6. n >= 1 => n \in 1 .. n /\ Total(ms) = End(ms[n]) /\ LeafTotal(ms) = LeafEnd(ms[n])
  BY <1>2, <1>4 DEF Total, LeafTotal
<1>7. PICK a \in Nat, b \in Nat : a = Total(ms) /\ b = LeafTotal(ms)
  BY <1>4, <1>5, <1>6 DEF Total, LeafTotal
<1>8. ASSUME NEW i \in 1 .. n
      PROVE  Follows(ms[i], e)
  <2>1. n \in 1 .. n /\ n >= 1 /\ (i = n \/ i < n)
    BY <1>2
  <2>2. i < n => End(ms[i]) <= ms[n].capOff /\ LeafEnd(ms[i]) <= ms[n].leafOff
    BY <1>3, <2>1 DEF Follows
  <2>3. End(ms[i]) <= End(ms[n]) /\ LeafEnd(ms[i]) <= LeafEnd(ms[n])
    BY <1>5, <2>1, <2>2
  <2> QED
    BY <1>6, <2>1, <2>3 DEF Follows
<1>9. End(e) = a + p /\ Segment(e, ks)
  <2>1. End(e) = a + p
    BY <1>7 DEF End
  <2>2. a + p \in 1 .. Len(ks)
    BY <1>7
  <2> QED
    BY <1>7, <2>1, <2>2 DEF Segment
<1>10. \A i \in 1 .. n + 1 : i = n + 1 \/ i \in 1 .. n
  BY <1>2
<1>11. \A i \in 1 .. n + 1 : Segment(t[i], ks)
  BY <1>2, <1>3, <1>9, <1>10
<1>12. ASSUME NEW i \in 1 .. n + 1, NEW j \in 1 .. n + 1, i < j
       PROVE  Follows(t[i], t[j])
  <2>1. i \in 1 .. n
    BY <1>12, <1>2
  <2> QED
    BY <1>2, <1>3, <1>8, <1>10, <1>12, <2>1
<1>13. ASSUME NEW i \in 1 .. n + 1
       PROVE  IF i = 1 THEN t[i].capOff = 0 ELSE t[i].capOff = End(t[i - 1])
  <2>1. CASE i \in 1 .. n
    <3>1. i # 1 => i - 1 \in 1 .. n
      BY <2>1, <1>2
    <3> QED
      BY <2>1, <3>1, <1>2, <1>3
  <2>2. CASE i = n + 1
    <3>1. CASE n = 0
      <4>1. i = 1 /\ ms = <<>>
        BY <2>2, <3>1, <1>4
      <4>2. t[i].capOff = 0
        BY <2>2, <4>1, <1>2 DEF Total
      <4> QED
        BY <4>1, <4>2
    <3>2. CASE n # 0
      <4>1. n >= 1 /\ i # 1 /\ i - 1 = n /\ n \in 1 .. n
        BY <2>2, <3>2, <1>2
      <4> QED
        BY <2>2, <4>1, <1>2, <1>6
    <3> QED
      BY <3>1, <3>2
  <2> QED
    BY <2>1, <2>2, <1>10
<1>14. Cuts(t, ks)
  BY <1>2, <1>11, <1>12, <1>13 DEF Cuts
<1>15. t # <<>> /\ Total(t) = a + p
  <2>1. t # <<>>
    BY <1>2
  <2> QED
    BY <2>1, <1>2, <1>9 DEF Total
<1> QED
  BY <1>1, <1>7, <1>14, <1>15

\* append_model closes the open segment.
LEMMA ModelAppended ==
  ASSUME Segments, next <= Len(int_keys) + 1
  PROVE  /\ Cuts(AppendModel, int_keys) /\ AppendModel # <<>>
         /\ Total(AppendModel) = next - 1
<1>1. PICK e : e = [line |-> Line(hull), capacity |-> pos, key |-> int_keys[next - 1],
                    leafOff |-> LeafTotal(models), capOff |-> Total(models)]
  BY Zenon
<1>2. AppendModel = Append(models, e)
  BY <1>1 DEF AppendModel, Total, LeafTotal, End, LeafEnd, Last
<1>3. /\ e.capacity = pos /\ e.key = int_keys[next - 1]
      /\ e.leafOff = LeafTotal(models) /\ e.capOff = Total(models)
  BY <1>1
<1>4. Total(models) + pos = next - 1
  BY DEF Segments
<1>5. Len(int_keys) \in Nat /\ next - 1 <= Len(int_keys)
  BY DEF Segments, Keys
<1>6. Cuts(models, int_keys) /\ pos \in Nat \ {0}
  BY DEF Segments
<1> QED
  BY <1>2, <1>3, <1>4, <1>5, <1>6, CutsAppend

LEMMA InitSegments == Init => Segments
<1> SUFFICES ASSUME Init PROVE Segments
  OBVIOUS
<1>1. PICK S \in SUBSET Loadable : S # {} /\ int_keys = Sorted(S)
  BY DEF Init
<1>2. S \in SUBSET Nat /\ IsFiniteSet(S)
  BY ParamAssumption, FS_Subset
<1>3. int_keys \in Seq(S) /\ Len(int_keys) >= 1 /\ Increasing(int_keys)
  BY <1>1, <1>2, SortedKeys
<1>4. int_keys \in Seq(Loadable) /\ Len(int_keys) \in Nat
  <2>1. PICK n \in Nat : n = Len(int_keys) /\ int_keys \in [1 .. n -> S]
    BY <1>3
  <2>2. int_keys \in [1 .. n -> Loadable]
    BY <1>1, <2>1
  <2> QED
    BY <2>1, <2>2
<1>5. models = <<>> /\ pos = 1 /\ next = 2
  BY DEF Init
<1>6. <<>> \in Seq(Range(<<>>)) /\ Len(<<>>) = 0 /\ \A i : i \notin 1 .. 0
  OBVIOUS
<1>7. Cuts(models, int_keys)
  BY <1>5, <1>6 DEF Cuts
<1>8. Total(models) = 0
  BY <1>5 DEF Total
<1>9. next \in 2 .. Len(int_keys) + 2 /\ next # Len(int_keys) + 2 /\ 0 + 1 = 2 - 1
  BY <1>3, <1>4, <1>5
<1> QED
  BY <1>3, <1>4, <1>5, <1>7, <1>8, <1>9 DEF Segments, Keys

LEMMA NextSegments == Segments /\ [Next]_vars => Segments'
<1> SUFFICES ASSUME Segments, [Next]_vars PROVE Segments'
  OBVIOUS
<1>1. /\ Keys(int_keys) /\ next \in 2 .. Len(int_keys) + 2 /\ pos \in Nat \ {0}
      /\ Cuts(models, int_keys) /\ Len(int_keys) \in Nat
      /\ next <= Len(int_keys) + 1 => Total(models) + pos = next - 1
  BY DEF Segments, Keys
<1>2. CASE Extend
  <2>1. /\ next <= Len(int_keys) /\ pos' = pos + 1 /\ next' = next + 1
        /\ int_keys' = int_keys /\ models' = models
    BY <1>2 DEF Extend
  <2>2. Total(models) \in Int /\ Total(models) + pos = next - 1
    <3>1. Total(models) + pos = next - 1
      BY <1>1, <2>1
    <3>2. CASE models = <<>>
      BY <3>1, <3>2 DEF Total
    <3>3. CASE models # <<>>
      <4>1. Len(models) \in 1 .. Len(models)
        BY <1>1, <3>3 DEF Cuts
      <4>2. Segment(models[Len(models)], int_keys)
        BY <1>1, <4>1 DEF Cuts
      <4> QED
        BY <3>1, <3>3, <4>2 DEF Total, Segment
    <3> QED
      BY <3>2, <3>3
  <2>3. Total(models) + (pos + 1) = (next + 1) - 1 /\ pos + 1 \in Nat \ {0}
        /\ next + 1 \in 2 .. Len(int_keys) + 2 /\ next + 1 # Len(int_keys) + 2
    BY <1>1, <2>1, <2>2
  <2> QED
    BY <1>1, <2>1, <2>3 DEF Segments
<1>3. CASE Split
  <2>1. /\ next <= Len(int_keys) /\ pos' = 1 /\ next' = next + 1
        /\ int_keys' = int_keys /\ models' = AppendModel
    BY <1>3 DEF Split
  <2>2. Cuts(AppendModel, int_keys) /\ Total(AppendModel) = next - 1
    BY <1>1, <2>1, ModelAppended
  <2>3. (next - 1) + 1 = (next + 1) - 1 /\ next + 1 \in 2 .. Len(int_keys) + 2
        /\ next + 1 # Len(int_keys) + 2
    BY <1>1, <2>1
  <2> QED
    BY <1>1, <2>1, <2>2, <2>3 DEF Segments
<1>4. CASE Finish
  <2>1. /\ next = Len(int_keys) + 1 /\ pos' = pos /\ next' = next + 1
        /\ int_keys' = int_keys /\ models' = AppendModel
    BY <1>4 DEF Finish
  <2>2. Cuts(AppendModel, int_keys) /\ AppendModel # <<>> /\ Total(AppendModel) = next - 1
    BY <1>1, <2>1, ModelAppended
  <2>3. next - 1 = Len(int_keys) /\ next + 1 \in 2 .. Len(int_keys) + 2
        /\ ~(next + 1 <= Len(int_keys) + 1)
    BY <1>1, <2>1
  <2> QED
    BY <1>1, <2>1, <2>2, <2>3 DEF Segments
<1>5. CASE UNCHANGED vars
  BY <1>5 DEF Segments, vars
<1> QED
  BY <1>2, <1>3, <1>4, <1>5 DEF Next

LEMMA SegmentsHold == Spec => []Segments
BY InitSegments, NextSegments, PTL DEF Spec

-----------------------------------------------------------------------------
(* Where a key goes *)

\* The number of loaded keys below k.
KeysBelow(k) == Cardinality({i \in DOMAIN int_keys : int_keys[i] < k})

LEMMA KeysBelowGood ==
  ASSUME Keys(int_keys), NEW k \in Nat
  PROVE  /\ KeysBelow(k) \in 0 .. Len(int_keys)
         /\ \A i \in 1 .. Len(int_keys) : int_keys[i] < k <=> i <= KeysBelow(k)
<1>1. PICK n \in Nat : n = Len(int_keys) /\ DOMAIN int_keys = 1 .. n
  BY DEF Keys
<1>2. \A i \in 1 .. n : int_keys[i] \in Nat
  BY <1>1, ParamAssumption DEF Keys
<1>3. PICK P : P = {i \in DOMAIN int_keys : int_keys[i] < k}  BY Zenon
<1>4. PICK C : C = {i \in 1 .. n : ~(int_keys[i] < k)}  BY Zenon
<1>5. PICK g \in 0 .. n : P = 1 .. g
  <2>1. CASE C = {}
    <3>1. P = 1 .. n
      BY <1>1, <1>3, <1>4, <2>1
    <3> QED
      BY <3>1, <1>1
  <2>2. CASE C # {}
    <3>1. C \in SUBSET Nat
      BY <1>4
    <3>2. PICK c \in C : \A d \in C : c <= d
      BY <2>2, <3>1, Least
    <3>3. c \in 1 .. n /\ ~(int_keys[c] < k)
      BY <1>4
    <3>4. ASSUME NEW i \in 1 .. n
          PROVE  int_keys[i] < k <=> i \in 1 .. c - 1
      <4>1. CASE i < c
        <5>1. i \in 1 .. c - 1
          BY <1>1, <3>3, <4>1
        <5>2. i \notin C
          BY <3>2, <3>3, <4>1
        <5> QED
          BY <5>1, <5>2, <1>4
      <4>2. CASE i = c
        BY <3>3, <4>2
      <4>3. CASE c < i
        <5>1. int_keys[c] < int_keys[i]
          BY <1>1, <3>3, <4>3 DEF Keys, Increasing
        <5>2. ~(int_keys[i] < k)
          BY <1>2, <3>3, <5>1
        <5> QED
          BY <5>2, <3>3, <4>3
      <4> QED
        BY <3>3, <4>1, <4>2, <4>3
    <3>5. \A i \in 1 .. c - 1 : i \in 1 .. n
      BY <1>1, <3>3
    <3>6. P = 1 .. c - 1
      BY <1>1, <1>3, <3>4, <3>5
    <3> QED
      BY <1>1, <3>3, <3>6
  <2> QED
    BY <2>1, <2>2
<1>6. Cardinality(P) = g
  BY <1>1, <1>5, FS_Interval
<1>7. KeysBelow(k) = g
  BY <1>3, <1>6 DEF KeysBelow
<1>8. \A i \in 1 .. n : i \in P <=> i <= g
  BY <1>1, <1>5
<1> QED
  BY <1>1, <1>3, <1>5, <1>7, <1>8

-----------------------------------------------------------------------------
(* The leaf of a key *)

\* The trained models cut all the loaded keys.
LEMMA Complete ==
  ASSUME Segments, Trained
  PROVE  /\ Len(models) \in Nat \ {0} /\ Total(models) = Len(int_keys)
         /\ \A i \in 1 .. Len(models) : Segment(models[i], int_keys)
         /\ Leaves = LeafEnd(models[Len(models)]) /\ Len(int_keys) \in Nat \ {0}
<1>1. models # <<>> /\ Total(models) = Len(int_keys)
  BY DEF Segments, Trained
<1>2. Len(models) \in Nat \ {0}
  BY <1>1 DEF Segments, Cuts
<1>3. \A i \in 1 .. Len(models) : Segment(models[i], int_keys)
  BY DEF Segments, Cuts
<1>4. Leaves = LeafEnd(models[Len(models)])
  BY <1>1 DEF Leaves, LeafEnd, Last
<1>5. Len(int_keys) \in Nat \ {0}
  BY DEF Segments, Keys
<1> QED
  BY <1>1, <1>2, <1>3, <1>4, <1>5

\* The keys asked for, up to the last that is loaded.
LEMMA Asked ==
  ASSUME Keys(int_keys)
  PROVE  /\ Key \in SUBSET Nat /\ Last(int_keys) \in Loadable
         /\ \A k \in Nat : k <= Last(int_keys) => k \in Key
         /\ \A k \in Range(int_keys) : k \in Key /\ k <= Last(int_keys)
<1>1. PICK n \in Nat \ {0} : n = Len(int_keys) /\ int_keys \in [1 .. n -> Loadable]
  BY DEF Keys
<1>2. n \in 1 .. n /\ Last(int_keys) = int_keys[n]
  BY <1>1 DEF Last
<1>3. Last(int_keys) \in Loadable
  BY <1>1, <1>2
<1>4. Max(Loadable) \in Nat /\ \A k \in Loadable : k <= Max(Loadable)
  BY <1>3, Largest
<1>5. Key \in SUBSET Nat
  BY <1>4 DEF Key
<1>6. Last(int_keys) \in Nat /\ Last(int_keys) <= Max(Loadable)
  BY <1>3, <1>4, ParamAssumption
<1>7. ASSUME NEW k \in Nat, k <= Last(int_keys)
      PROVE  k \in Key
  BY <1>4, <1>6, <1>7 DEF Key
<1>8. ASSUME NEW k \in Range(int_keys)
      PROVE  k \in Nat /\ k <= Last(int_keys)
  <2>1. PICK i \in 1 .. n : k = int_keys[i]
    BY <1>1 DEF Range
  <2>2. k \in Nat
    BY <1>1, <2>1, ParamAssumption
  <2>3. CASE i = n
    BY <1>2, <1>6, <2>1, <2>2, <2>3
  <2>4. CASE i # n
    <3>1. i < n
      BY <2>4
    <3>2. int_keys[i] < int_keys[n]
      BY <1>1, <1>2, <3>1 DEF Keys, Increasing
    <3> QED
      BY <1>2, <1>6, <2>1, <2>2, <3>2
  <2> QED
    BY <2>3, <2>4
<1> QED
  BY <1>3, <1>5, <1>7, <1>8

\* Key k lies in segment i, the one model_for_key finds, and goes to a leaf of it.
Lies(k, i) ==
    /\ ModelForKey(k) = i - 1
    /\ models[i].capOff <= KeysBelow(k) /\ KeysBelow(k) < End(models[i])
    /\ InsertIdx(k) = models[i].leafOff + (KeysBelow(k) - models[i].capOff) \div Span

LEMMA Located ==
  ASSUME Segments, Trained, RightModel, NEW k \in Key, k <= Last(int_keys)
  PROVE  \E i \in 1 .. Len(models) : Lies(k, i)
<1>1. Keys(int_keys) /\ Cuts(models, int_keys)
  BY DEF Segments
<1>2. k \in Nat /\ Last(int_keys) \in Nat
  BY <1>1, Asked, ParamAssumption
<1>3. PICK g : g = KeysBelow(k)  BY Zenon
<1>4. g \in 0 .. Len(int_keys) /\ \A i \in 1 .. Len(int_keys) : int_keys[i] < k <=> i <= g
  BY <1>1, <1>2, <1>3, KeysBelowGood
<1>5. PICK i : i = ModelForKey(k) + 1  BY Zenon
<1>6. ModelForKey(k) \in 0 .. Len(models) - 1 /\ (i < Len(models) => models[i].key >= k)
      /\ (i > 1 => models[i - 1].key < k)
  BY <1>5 DEF RightModel
<1>7. PICK n \in Nat \ {0} : n = Len(models)
  BY Complete
<1>8. i \in 1 .. n /\ i \in 1 .. Len(models) /\ ModelForKey(k) = i - 1
  BY <1>5, <1>6, <1>7
<1>9. Segment(models[i], int_keys)
  BY <1>8, Complete
<1>10. PICK z \in Nat \ {0} : z = Len(int_keys)
  BY Complete
<1>11. models[i].capOff <= g
  <2>1. CASE i = 1
    <3>1. models[i].capOff = 0
      BY <1>1, <1>8, <2>1 DEF Cuts
    <3> QED
      BY <1>4, <1>10, <3>1
  <2>2. CASE i # 1
    <3>1. i - 1 \in 1 .. Len(models) /\ i > 1
      BY <1>7, <1>8, <2>2
    <3>2. models[i].capOff = End(models[i - 1])
      BY <1>1, <1>8, <2>2 DEF Cuts
    <3>3. Segment(models[i - 1], int_keys)
      BY <3>1, Complete
    <3>4. PICK e \in 1 .. Len(int_keys) : e = End(models[i - 1]) /\ models[i - 1].key = int_keys[e]
      BY <3>3 DEF Segment
    <3>5. int_keys[e] < k
      BY <1>6, <3>1, <3>4
    <3> QED
      BY <1>4, <3>2, <3>4, <3>5
  <2> QED
    BY <2>1, <2>2
<1>12. g < End(models[i])
  <2>1. PICK e \in 1 .. Len(int_keys) : e = End(models[i]) /\ models[i].key = int_keys[e]
    BY <1>9 DEF Segment
  <2>2. int_keys[e] \in Nat
    <3>1. PICK y \in Nat \ {0} : y = Len(int_keys) /\ int_keys \in [1 .. y -> Loadable]
      BY <1>1 DEF Keys
    <3> QED
      BY <2>1, <3>1, ParamAssumption
  <2>3. int_keys[e] >= k
    <3>1. CASE i < Len(models)
      BY <1>6, <2>1, <3>1
    <3>2. CASE ~(i < Len(models))
      <4>1. i = Len(models) /\ models # <<>>
        BY <1>7, <1>8, <3>2
      <4>2. e = Len(int_keys)
        BY <2>1, <4>1, Complete DEF Total
      <4> QED
        BY <4>2 DEF Last
    <3> QED
      BY <3>1, <3>2
  <2>4. ~(e <= g)
    BY <1>2, <1>4, <2>2, <2>3
  <2>5. e \in Int /\ g \in Int
    BY <1>4, <1>10
  <2> QED
    BY <2>1, <2>4, <2>5
<1>13. InsertIdx(k) = models[i].leafOff + (g - models[i].capOff) \div Span
  <2>1. InsertIdx(k) = Model(k).leafOff + Trunc(KeysBelow(k) - Model(k).capOff, Span)
    BY DEF InsertIdx, KeysBelow
  <2>2. Model(k) = models[i]
    BY <1>5 DEF Model
  <2>3. ~(g - models[i].capOff < 0)
    BY <1>4, <1>9, <1>10, <1>11 DEF Segment
  <2> QED
    BY <1>3, <2>1, <2>2, <2>3 DEF Trunc
<1> QED
  BY <1>3, <1>5, <1>8, <1>11, <1>12, <1>13 DEF Lies

-----------------------------------------------------------------------------
(* Division by the span *)

LEMMA Multiples ==
  ASSUME NEW s \in Nat \ {0}, NEW q \in Nat, NEW r \in Nat, q * s < (r + 1) * s
  PROVE  q <= r
<1>1. SUFFICES ASSUME q > r PROVE FALSE
  OBVIOUS
<1>2. PICK d \in Nat : q = (r + 1) + d
  <2>1. q - (r + 1) \in Nat /\ q = (r + 1) + (q - (r + 1))
    BY <1>1
  <2> QED
    BY <2>1
<1>3. q * s = (r + 1) * s + d * s
  BY <1>2
<1>4. d * s \in Nat /\ (r + 1) * s \in Nat
  OBVIOUS
<1> QED
  BY <1>3, <1>4

LEMMA DivGrows ==
  ASSUME NEW s \in Nat \ {0}, NEW x \in Nat, NEW y \in Nat, x <= y
  PROVE  x \div s <= y \div s /\ x \div s \in Nat /\ y \div s \in Nat
<1>1. PICK q : q = x \div s  BY Zenon
<1>2. PICK r : r = y \div s  BY Zenon
<1>3. q \in Nat /\ r \in Nat
  BY <1>1, <1>2
<1>4. q * s <= x /\ y < (r + 1) * s
  BY <1>1, <1>2
<1>5. q * s < (r + 1) * s
  BY <1>3, <1>4
<1> QED
  BY <1>1, <1>2, <1>3, <1>5, Multiples

\* The leaf of a key is one of its segment.
LEMMA InSegment ==
  ASSUME Segments, Trained, NEW k \in Nat, NEW i \in 1 .. Len(models), Lies(k, i)
  PROVE  /\ InsertIdx(k) \in Nat /\ models[i].leafOff <= InsertIdx(k)
         /\ InsertIdx(k) < LeafEnd(models[i]) /\ LeafEnd(models[i]) \in Nat
<1>1. PICK c \in Nat : c = models[i].capOff
  BY Complete DEF Segment
<1>2. PICK p \in Nat \ {0} : p = models[i].capacity
  BY Complete DEF Segment
<1>3. PICK f \in Nat : f = models[i].leafOff
  BY Complete DEF Segment
<1>4. PICK g \in Nat : g = KeysBelow(k)
  BY KeysBelowGood DEF Segments
<1>5. c <= g /\ g < c + p /\ InsertIdx(k) = f + (g - c) \div Span
  BY <1>1, <1>2, <1>3, <1>4 DEF Lies, End
<1>6. PICK s \in Nat \ {0} : s = Span
  BY ParamAssumption
<1>7. PICK q : q = (g - c) \div s  BY Zenon
<1>8. PICK r : r = p \div s  BY Zenon
<1>9. q \in Nat /\ r \in Nat
  BY <1>5, <1>6, <1>7, <1>8
<1>10. q * s <= g - c /\ p < (r + 1) * s
  BY <1>5, <1>6, <1>7, <1>8
<1>11. q <= r
  <2>1. q * s < (r + 1) * s
    BY <1>5, <1>9, <1>10
  <2> QED
    BY <1>9, <2>1, Multiples
<1>12. PICK y \in Nat : y = LeafNum(p) /\ r < y
  BY <1>2, <1>6, <1>8, LeafNumGood
<1>13. LeafEnd(models[i]) = f + y
  BY <1>2, <1>3, <1>12 DEF LeafEnd
<1>14. InsertIdx(k) = f + q
  BY <1>5, <1>6, <1>7
<1>15. f + q \in Nat /\ f <= f + q /\ f + q < f + y /\ f + y \in Nat
  BY <1>9, <1>11, <1>12
<1> QED
  BY <1>3, <1>13, <1>14, <1>15, Zenon

\* A key of an earlier segment goes to an earlier leaf.
LEMMA Apart ==
  ASSUME Segments, Trained, NEW k \in Nat, NEW i \in 1 .. Len(models), Lies(k, i),
         NEW l \in Nat, NEW j \in 1 .. Len(models), Lies(l, j), i < j
  PROVE  InsertIdx(k) < InsertIdx(l)
<1>1. Follows(models[i], models[j])
  BY DEF Segments, Cuts
<1>2. LeafEnd(models[i]) <= models[j].leafOff
  BY <1>1 DEF Follows
<1>3. PICK a \in Nat : a = InsertIdx(k) /\ a < LeafEnd(models[i])
  BY InSegment
<1>4. PICK b \in Nat : b = InsertIdx(l) /\ models[j].leafOff <= b
  BY InSegment
<1>5. PICK e \in Nat : e = LeafEnd(models[i])
  BY InSegment
<1>6. PICK f \in Nat : f = models[j].leafOff
  BY Complete DEF Segment
<1> QED
  BY <1>2, <1>3, <1>4, <1>5, <1>6

\* Keys go to leaves in their order.
LEMMA InOrder ==
  ASSUME Segments, Trained, NEW k \in Nat, NEW i \in 1 .. Len(models), Lies(k, i),
         NEW l \in Nat, NEW j \in 1 .. Len(models), Lies(l, j), k <= l
  PROVE  InsertIdx(k) <= InsertIdx(l)
<1>1. PICK n \in Nat : n = Len(models)
  BY Complete
<1>2. PICK g \in Nat : g = KeysBelow(k)
  BY KeysBelowGood DEF Segments
<1>3. PICK h \in Nat : h = KeysBelow(l)
  BY KeysBelowGood DEF Segments
<1>4. g <= h
  <2>1. CASE g = 0
    BY <2>1
  <2>2. CASE g # 0
    <3>1. g \in 1 .. Len(int_keys)
      BY <1>2, <2>2, KeysBelowGood DEF Segments
    <3>2. int_keys[g] < k
      BY <1>2, <3>1, KeysBelowGood DEF Segments
    <3>3. int_keys[g] \in Nat
      <4>1. PICK y \in Nat \ {0} : y = Len(int_keys) /\ int_keys \in [1 .. y -> Loadable]
        BY DEF Segments, Keys
      <4> QED
        BY <3>1, <4>1, ParamAssumption
    <3>4. int_keys[g] < l
      BY <3>2, <3>3
    <3> QED
      BY <1>3, <3>1, <3>4, KeysBelowGood DEF Segments
  <2> QED
    BY <2>1, <2>2
<1>5. CASE i < j
  <2>1. InsertIdx(k) < InsertIdx(l)
    BY <1>5, Apart
  <2>2. InsertIdx(k) \in Nat /\ InsertIdx(l) \in Nat
    BY InSegment
  <2> QED
    BY <2>1, <2>2
<1>6. CASE i = j
  <2>1. PICK c \in Nat : c = models[i].capOff
    BY Complete DEF Segment
  <2>2. PICK f \in Nat : f = models[i].leafOff
    BY Complete DEF Segment
  <2>3. PICK s \in Nat \ {0} : s = Span
    BY ParamAssumption
  <2>4. InsertIdx(k) = f + (g - c) \div s /\ c <= g
    BY <1>2, <2>1, <2>2, <2>3 DEF Lies
  <2>5. InsertIdx(l) = f + (h - c) \div s
    BY <1>3, <1>6, <2>1, <2>2, <2>3 DEF Lies
  <2>6. PICK x \in Nat : x = g - c
    BY <2>4
  <2>7. PICK y \in Nat : y = h - c /\ x <= y
    BY <1>4, <2>4, <2>6
  <2>8. x \div s <= y \div s /\ x \div s \in Nat /\ y \div s \in Nat
    BY <2>7, DivGrows
  <2> QED
    BY <2>4, <2>5, <2>6, <2>7, <2>8
<1>7. CASE j < i
  <2>1. Follows(models[j], models[i])
    BY <1>7 DEF Segments, Cuts
  <2>2. End(models[j]) <= models[i].capOff
    BY <2>1 DEF Follows
  <2>3. models[i].capOff <= g /\ h < End(models[j])
    BY <1>2, <1>3 DEF Lies
  <2>4. PICK e \in Int : e = End(models[j])
    BY Complete DEF Segment
  <2>5. PICK c \in Nat : c = models[i].capOff
    BY Complete DEF Segment
  <2> QED
    BY <1>4, <2>2, <2>3, <2>4, <2>5
<1> QED
  BY <1>1, <1>5, <1>6, <1>7

-----------------------------------------------------------------------------
(* Bulk loading *)

\* The leaves of a segment are leaves of the table.
LEMMA InTable ==
  ASSUME Segments, Trained, NEW k \in Nat, NEW i \in 1 .. Len(models), Lies(k, i)
  PROVE  InsertIdx(k) \in Nat /\ Leaves \in Nat /\ InsertIdx(k) < Leaves
<1>1. PICK n \in Nat \ {0} : n = Len(models)
  BY Complete
<1>2. n \in 1 .. n /\ i \in 1 .. n
  BY <1>1
<1>3. PICK a \in Nat : a = InsertIdx(k) /\ a < LeafEnd(models[i])
  BY InSegment
<1>4. PICK e \in Nat : e = LeafEnd(models[i])
  BY InSegment
<1>5. CASE i = n
  BY <1>1, <1>3, <1>4, <1>5, Complete
<1>6. CASE i # n
  <2>1. i < n
    BY <1>2, <1>6
  <2>2. Follows(models[i], models[n])
    BY <1>1, <1>2, <2>1 DEF Segments, Cuts
  <2>3. Segment(models[n], int_keys)
    BY <1>1, <1>2, Complete
  <2>4. PICK f \in Nat : f = models[n].leafOff /\ e <= f
    BY <1>4, <2>2, <2>3 DEF Follows, Segment
  <2>5. models[n].capacity \in Nat
    BY <2>3 DEF Segment
  <2>6. PICK y \in Nat : y = LeafNum(models[n].capacity)
    BY <2>5, LeafNumGood
  <2>7. Leaves = f + y
    BY <1>1, <2>4, <2>6, Complete DEF LeafEnd
  <2> QED
    BY <1>3, <1>4, <2>4, <2>7
<1> QED
  BY <1>5, <1>6

\* A number with a given quotient is one of as many as the divisor.
LEMMA Quotient ==
  ASSUME NEW s \in Nat \ {0}, NEW x \in Nat
  PROVE  x \div s \in Nat /\ x \in (x \div s) * s .. (x \div s) * s + (s - 1)
<1>1. PICK q : q = x \div s  BY Zenon
<1>2. q \in Nat
  BY <1>1
<1>3. q * s <= x /\ x < (q + 1) * s
  BY <1>1
<1>4. (q + 1) * s = q * s + s /\ q * s \in Nat
  BY <1>2
<1>5. x \in q * s .. q * s + (s - 1)
  BY <1>3, <1>4
<1> QED
  BY <1>1, <1>2, <1>5

\* The keys loaded in leaf l.
LoadedIn(l) == {k \in Range(int_keys) : InsertIdx(k) = l}

\* Keys of one leaf are keys of one segment.
LEMMA OneSegment ==
  ASSUME Segments, Trained, RightModel, NEW l \in Nat, NEW j \in LoadedIn(l), NEW k \in LoadedIn(l)
  PROVE  ModelForKey(j) = ModelForKey(k)
<1>1. j \in Range(int_keys) /\ InsertIdx(j) = l /\ k \in Range(int_keys) /\ InsertIdx(k) = l
  BY DEF LoadedIn
<1>2. j \in Key /\ j <= Last(int_keys) /\ k \in Key /\ k <= Last(int_keys) /\ j \in Nat /\ k \in Nat
  BY <1>1, Asked DEF Segments
<1>3. PICK a \in 1 .. Len(models) : Lies(j, a)
  BY <1>2, Located
<1>4. PICK b \in 1 .. Len(models) : Lies(k, b)
  BY <1>2, Located
<1>5. ~(a < b)
  BY <1>1, <1>2, <1>3, <1>4, Apart
<1>6. ~(b < a)
  BY <1>1, <1>2, <1>3, <1>4, Apart
<1>7. a = b /\ a \in Int
  <2>1. PICK n \in Nat : n = Len(models)
    BY Complete
  <2> QED
    BY <1>5, <1>6, <2>1
<1> QED
  BY <1>3, <1>4, <1>7 DEF Lies

\* A leaf receives no more keys than the span.
LEMMA OneSpan ==
  ASSUME Segments, Trained, RightModel, NEW l \in Nat
  PROVE  Cardinality(LoadedIn(l)) <= Span
<1>1. PICK s \in Nat \ {0} : s = Span
  BY ParamAssumption
<1>2. CASE LoadedIn(l) = {}
  <2>1. Cardinality(LoadedIn(l)) = 0
    BY <1>2, FS_EmptySet
  <2> QED
    BY <1>1, <2>1
<1>3. CASE LoadedIn(l) # {}
  <2>1. \A k \in LoadedIn(l) : /\ k \in Key /\ k <= Last(int_keys) /\ k \in Nat
                               /\ k \in Range(int_keys) /\ InsertIdx(k) = l
    BY Asked DEF LoadedIn, Segments
  <2>2. PICK j \in LoadedIn(l) : TRUE
    BY <1>3
  <2>3. PICK i \in 1 .. Len(models) : Lies(j, i)
    BY <2>1, Located
  <2>4. PICK c \in Nat : c = models[i].capOff
    BY Complete DEF Segment
  <2>5. PICK f \in Nat : f = models[i].leafOff
    BY Complete DEF Segment
  <2>6. PICK a \in Int : a = (l - f) * s + c
    OBVIOUS
  <2>7. PICK T : T = a .. a + (s - 1)  BY Zenon
  <2>8. ASSUME NEW k \in LoadedIn(l)
        PROVE  KeysBelow(k) \in T
    <3>1. PICK b \in 1 .. Len(models) : Lies(k, b)
      BY <2>1, Located
    <3>2. ModelForKey(j) = ModelForKey(k)
      BY <2>2, OneSegment
    <3>3. b = i
      <4>1. PICK n \in Nat : n = Len(models)
        BY Complete
      <4>2. b - 1 = i - 1
        BY <2>3, <3>1, <3>2 DEF Lies
      <4> QED
        BY <4>1, <4>2
    <3>4. PICK g \in Nat : g = KeysBelow(k)
      BY <2>1, KeysBelowGood DEF Segments
    <3>5. c <= g /\ l = f + (g - c) \div s
      BY <1>1, <2>1, <2>4, <2>5, <3>1, <3>3, <3>4 DEF Lies
    <3>6. PICK x \in Nat : x = g - c
      BY <3>5
    <3>7. PICK q \in Nat : q = x \div s /\ x \in q * s .. q * s + (s - 1)
      BY Quotient
    <3>8. l - f = q
      BY <3>5, <3>6, <3>7
    <3>9. PICK y \in Int : y = q * s
      OBVIOUS
    <3>10. a = y + c
      BY <2>6, <3>8, <3>9
    <3>11. g \in a .. a + (s - 1)
      BY <3>6, <3>7, <3>9, <3>10
    <3> QED
      BY <2>7, <3>4, <3>11
  <2>9. ASSUME NEW k \in LoadedIn(l), NEW m \in LoadedIn(l), k < m
        PROVE  KeysBelow(k) # KeysBelow(m)
    <3>1. PICK y \in Nat : y = Len(int_keys) /\ DOMAIN int_keys = 1 .. y
      BY DEF Segments, Keys
    <3>2. PICK x \in 1 .. y : k = int_keys[x]
      BY <2>1, <3>1 DEF Range
    <3>3. x \in 1 .. Len(int_keys) /\ ~(int_keys[x] < k) /\ int_keys[x] < m
      BY <2>1, <2>9, <3>1, <3>2
    <3>4. ~(x <= KeysBelow(k)) /\ x <= KeysBelow(m)
      BY <2>1, <3>3, KeysBelowGood DEF Segments
    <3> QED
      BY <3>4
  <2>10. PICK h : h = [k \in LoadedIn(l) |-> KeysBelow(k)]  BY Zenon
  <2>11. h \in [LoadedIn(l) -> T]
    BY <2>8, <2>10
  <2>12. ASSUME NEW k \in LoadedIn(l), NEW m \in LoadedIn(l), h[k] = h[m]
         PROVE  k = m
    <3>1. KeysBelow(k) = KeysBelow(m)
      BY <2>10, <2>12
    <3>2. ~(k < m) /\ ~(m < k)
      BY <2>9, <3>1
    <3> QED
      BY <2>1, <3>2
  <2>13. h \in Injection(LoadedIn(l), T)
    BY <2>11, <2>12 DEF Injection, IsInjective
  <2>14. IsFiniteSet(T) /\ Cardinality(T) = s
    <3>1. a + (s - 1) \in Int /\ ~(a > a + (s - 1)) /\ (a + (s - 1)) - a + 1 = s
      OBVIOUS
    <3> QED
      BY <2>7, <3>1, FS_Interval
  <2>15. Cardinality(LoadedIn(l)) <= Cardinality(T)
    BY <2>13, <2>14, FS_Injection
  <2> QED
    BY <1>1, <2>14, <2>15
<1> QED
  BY <1>2, <1>3

LEMMA Loads == Segments /\ RightModel => LoadFits
<1> SUFFICES ASSUME Segments, RightModel, Trained, NEW l \in 0 .. Leaves
             PROVE  /\ Cardinality(LoadedIn(l)) <= Span
                    /\ LoadedIn(l) # {} => l < Leaves
                    /\ \A j, k \in LoadedIn(l) : ModelForKey(j) = ModelForKey(k)
  BY DEF LoadFits, LoadedIn
<1>1. l \in Nat
  OBVIOUS
<1>2. Cardinality(LoadedIn(l)) <= Span
  BY <1>1, OneSpan
<1>3. ASSUME NEW k \in LoadedIn(l)
      PROVE  l < Leaves
  <2>1. k \in Range(int_keys) /\ InsertIdx(k) = l
    BY DEF LoadedIn
  <2>2. k \in Key /\ k <= Last(int_keys) /\ k \in Nat
    BY <2>1, Asked DEF Segments
  <2>3. PICK i \in 1 .. Len(models) : Lies(k, i)
    BY <2>2, Located
  <2> QED
    BY <2>1, <2>2, <2>3, InTable
<1> QED
  BY <1>1, <1>2, <1>3, OneSegment

\* RolexCache with any keys loaded: when model_for_key finds the segment of a
\* key, bulk loading puts at most Span keys in a leaf, only keys of one segment,
\* and only in leaves of the table, so that it needs no synonym leaf.
THEOREM LoadsFit == Spec => [](RightModel => LoadFits)
BY SegmentsHold, Loads, PTL

-----------------------------------------------------------------------------
(* Range queries *)

LEMMA Ranges == Segments /\ RightModel /\ InsertedWhereSearched => RangeCovers
<1> SUFFICES ASSUME Segments, RightModel, InsertedWhereSearched, Trained,
                    NEW from \in 0 .. Last(int_keys), NEW to \in from .. Last(int_keys),
                    NEW k \in from .. to
             PROVE  LeafLo(from) <= InsertIdx(k) /\ InsertIdx(k) <= LeafHi(to)
  BY DEF RangeCovers, SearchRange
<1>1. PICK z \in Nat : z = Last(int_keys)
  BY Asked, ParamAssumption DEF Segments
<1>2. /\ from \in Nat /\ to \in Nat /\ k \in Nat /\ from <= k /\ k <= to
      /\ from <= z /\ to <= z /\ k <= z
  BY <1>1
<1>3. from \in Key /\ to \in Key /\ k \in Key
  BY <1>1, <1>2, Asked DEF Segments
<1>4. PICK a \in 1 .. Len(models) : Lies(from, a)
  BY <1>1, <1>2, <1>3, Located
<1>5. PICK b \in 1 .. Len(models) : Lies(to, b)
  BY <1>1, <1>2, <1>3, Located
<1>6. PICK c \in 1 .. Len(models) : Lies(k, c)
  BY <1>1, <1>2, <1>3, Located
<1>7. InsertIdx(from) <= InsertIdx(k) /\ InsertIdx(k) <= InsertIdx(to)
  BY <1>2, <1>4, <1>5, <1>6, InOrder
<1>8. InsertIdx(from) \in Nat /\ InsertIdx(k) \in Nat /\ InsertIdx(to) \in Nat
  BY <1>2, <1>4, <1>5, <1>6, InSegment
<1>9. LeafLo(from) <= InsertIdx(from) /\ LeafLo(from) \in Nat
  BY <1>1, <1>2, <1>3 DEF InsertedWhereSearched, InRange
<1>10. InsertIdx(to) <= LeafHi(to) /\ LeafHi(to) \in 0 .. Leaves - 1
  BY <1>1, <1>2, <1>3 DEF InsertedWhereSearched, InRange
<1>11. LeafHi(to) \in Int
  BY <1>5, <1>2, <1>10, InTable
<1> QED
  BY <1>7, <1>8, <1>9, <1>10, <1>11

\* search_range_from_cache with any keys loaded: when model_for_key finds the
\* segment of a key and a search reads the leaf of its key, the leaves a range
\* query reads include the leaf of every key between its ends.
THEOREM RangesCover == Spec => [](RightModel /\ InsertedWhereSearched => RangeCovers)
BY SegmentsHold, Ranges, PTL
=============================================================================
