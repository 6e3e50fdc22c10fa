--------------------------- MODULE LeafArrayProofs --------------------------
(***************************************************************************)
(* The array loops of insert and update compute what LeafImage says, for   *)
(* every span, every set of keys and every sequence of calls: with it the  *)
(* theorems about RolexIndex, which works on images, are about the arrays  *)
(* of the code.                                                            *)
(***************************************************************************)
EXTENDS LeafArray, TLAPS, FiniteSetTheorems, WellFoundedInduction

\* Zenon first: most leaves are first-order.
USE ZenonT(2), SMTT(40), ZenonT(40)

Slot == 1 .. Span

\* Array r is in order and holds the records of f.
Ascending(r) ==
    \A j \in Slot : r[j].key # 0 =>
        \A i \in Slot : i < j => r[i].key # 0 /\ r[i].key < r[j].key
Shows(r, f) ==
    /\ \A i \in Slot : r[i].key # 0 => f[r[i].key] = r[i].value
    /\ \A k \in Key : f[k] # Nil => \E i \in Slot : r[i].key = k
Stores(r, x) == r \in Records /\ x \in Node /\ Ascending(r) /\ Shows(r, x.rec)

\* The inductive invariant.
ArrayInv ==
    /\ Stores(leaf, n)
    /\ Stores(syn, s)
    /\ hasSyn <=> n.syn # Nil

-----------------------------------------------------------------------------
(* Sorted arrays *)

\* A set of numbers that is not empty has a least element.
LEMMA Least ==
  ASSUME NEW S \in SUBSET Nat, S # {}
  PROVE  \E m \in S : \A x \in S : m <= x
<1>1. PICK z \in S : \A y \in S : <<y, z>> \notin OpToRel(<, Nat)
  BY NatLessThanWellFounded, WFMin, Zenon
<1>2. \A y \in S : ~(y < z)
  BY <1>1, Zenon DEF OpToRel
<1>3. \A y \in S : y \in Nat /\ z \in Nat
  BY Zenon
<1>4. QED
  BY <1>2, <1>3

LEMMA SlotFacts ==
  /\ Span \in Nat \ {0} /\ Span \in Slot /\ 1 \in Slot /\ Slot \subseteq Nat
  /\ \A i \in Slot : 1 <= i /\ i <= Span
BY SpanAssumption DEF Slot

\* The fields of a slot.
LEMMA RecordFacts ==
  ASSUME NEW r \in Records, NEW i \in Slot
  PROVE  /\ r[i].key \in Nat
         /\ r[i].key # 0 => r[i].key \in Key /\ r[i].value \in Value
         /\ r[i].key = 0 => r[i] = Null
         /\ r[i] \in [key : Key, value : Value] \cup {Null}
<1>1. r[i] \in [key : Key, value : Value] \cup {Null}
  BY DEF Records, Slot
<1>2. CASE r[i] = Null
  BY <1>1, <1>2 DEF Null
<1>3. CASE r[i] \in [key : Key, value : Value]
  BY <1>1, <1>3, KeyAssumption
<1>4. QED
  BY <1>1, <1>2, <1>3

\* The order of neighbours is the order of all.
LEMMA AscendingIs ==
  ASSUME NEW r \in Records
  PROVE  SortedPrefix(r) <=> Ascending(r)
<1>1. ASSUME Ascending(r)
      PROVE  SortedPrefix(r)
  <2> SUFFICES ASSUME NEW i \in 1 .. (Span - 1), r[i + 1].key # 0
               PROVE  r[i].key # 0 /\ r[i].key < r[i + 1].key
    BY DEF SortedPrefix
  <2>1. i \in Slot /\ i + 1 \in Slot /\ i < i + 1
    BY SpanAssumption DEF Slot
  <2>2. QED
    BY <1>1, <2>1 DEF Ascending
<1>2. ASSUME SortedPrefix(r)
      PROVE  Ascending(r)
  <2> DEFINE Before(i, j) == r[i].key # 0 /\ r[i].key < r[j].key
             Bad == {j \in Slot : r[j].key # 0 /\ \E i \in Slot : i < j /\ ~Before(i, j)}
  <2>1. SUFFICES ASSUME Bad # {}
                 PROVE  FALSE
    BY DEF Ascending
  <2>2. PICK j \in Bad : \A x \in Bad : j <= x
    <3>1. Bad \in SUBSET Nat
      BY SlotFacts
    <3>2. QED
      BY <2>1, <3>1, Least
  <2>3. PICK i \in Slot : i < j /\ ~Before(i, j)
    BY <2>2
  <2>4. j \in Slot /\ r[j].key # 0
    BY <2>2
  <2>5. PICK h : h = j - 1
    BY Zenon
  <2>6. /\ h \in Slot /\ h \in 1 .. (Span - 1) /\ h + 1 = j /\ ~(j <= h)
        /\ i = h \/ i < h
    BY <2>3, <2>4, <2>5, SpanAssumption DEF Slot
  <2>7. r[h].key # 0 /\ r[h].key < r[j].key
    BY <1>2, <2>4, <2>6 DEF SortedPrefix
  <2>8. h \notin Bad
    BY <2>2, <2>6
  <2>9. i # h => Before(i, h)
    BY <2>6, <2>7, <2>8
  <2>10. r[i].key \in Nat /\ r[h].key \in Nat /\ r[j].key \in Nat
    BY <2>4, <2>6, RecordFacts
  <2>11. QED
    BY <2>3, <2>7, <2>9, <2>10
<1>3. QED
  BY <1>1, <1>2

\* A key is in one slot.
LEMMA OneSlot ==
  ASSUME NEW r \in Records, Ascending(r), NEW i \in Slot, NEW j \in Slot,
         r[i].key # 0, r[i].key = r[j].key
  PROVE  i = j
<1>1. i \in Nat /\ j \in Nat /\ r[i].key \in Nat
  BY SlotFacts, RecordFacts
<1>2. i < j => r[i].key < r[j].key
  BY DEF Ascending
<1>3. j < i => r[j].key < r[i].key
  BY DEF Ascending
<1>4. QED
  BY <1>1, <1>2, <1>3

\* The map of an array is the one it shows.
LEMMA MapIs ==
  ASSUME NEW r \in Records, Ascending(r), NEW f \in [Key -> MaybeValue]
  PROVE  MapOf(r) = f <=> Shows(r, f)
<1>1. ASSUME NEW k \in Key, NEW i \in Slot, r[i].key = k
      PROVE  MapOf(r)[k] = r[i].value /\ r[i].value # Nil
  <2>1. k # 0 /\ Holds(r, k)
    BY <1>1, KeyAssumption DEF Holds, Slot
  <2>2. SlotOf(r, k) \in Slot /\ r[SlotOf(r, k)].key = k
    BY <1>1 DEF SlotOf, Slot
  <2>3. SlotOf(r, k) = i
    BY <1>1, <2>1, <2>2, OneSlot
  <2>4. r[i].value # Nil
    BY <1>1, <2>1, RecordFacts, ValueAssumption
  <2>5. QED
    BY <2>1, <2>3, <2>4 DEF MapOf
<1>2. ASSUME NEW k \in Key, \A i \in Slot : r[i].key # k
      PROVE  MapOf(r)[k] = Nil
  BY <1>2 DEF MapOf, Holds, Slot
<1>3. ASSUME MapOf(r) = f
      PROVE  Shows(r, f)
  <2>1. ASSUME NEW i \in Slot, r[i].key # 0
        PROVE  f[r[i].key] = r[i].value
    BY <1>1, <1>3, <2>1, RecordFacts
  <2>2. ASSUME NEW k \in Key, f[k] # Nil
        PROVE  \E i \in Slot : r[i].key = k
    BY <1>2, <1>3, <2>2
  <2>3. QED
    BY <2>1, <2>2 DEF Shows
<1>4. ASSUME Shows(r, f)
      PROVE  MapOf(r) = f
  <2>1. ASSUME NEW k \in Key
        PROVE  MapOf(r)[k] = f[k]
    <3>1. CASE \E i \in Slot : r[i].key = k
      <4>1. PICK i \in Slot : r[i].key = k
        BY <3>1
      <4>2. k # 0
        BY KeyAssumption
      <4>3. QED
        BY <1>1, <1>4, <4>1, <4>2 DEF Shows
    <3>2. CASE \A i \in Slot : r[i].key # k
      BY <1>2, <1>4, <3>2 DEF Shows
    <3>3. QED
      BY <3>1, <3>2
  <2>2. MapOf(r) = [k \in Key |-> MapOf(r)[k]]
    BY DEF MapOf
  <2>3. QED
    BY <2>1, <2>2
<1>5. QED
  BY <1>3, <1>4

-----------------------------------------------------------------------------
(* The scan loops *)

\* Where the scan for key k stops.
LEMMA PositionIs ==
  ASSUME NEW r \in Records, NEW k \in Nat, NEW p, p = Position(r, k)
  PROVE  /\ p \in 1 .. (Span + 1)
         /\ p \in Slot => r[p].key = 0 \/ r[p].key >= k
         /\ \A q \in Slot : q < p => r[q].key # 0 /\ r[q].key < k
<1> DEFINE Ends(m) == m = Span + 1 \/ r[m].key = 0 \/ r[m].key >= k
           S == {m \in 1 .. (Span + 1) : Ends(m)}
<1>1. S \in SUBSET Nat /\ Span + 1 \in S
  BY SpanAssumption
<1>2. PICK m \in S : \A x \in S : m <= x
  BY <1>1, Least
<1>3. \A q \in 1 .. (m - 1) : ~Ends(q)
  BY <1>2, SpanAssumption
<1>4. \E x \in 1 .. (Span + 1) :
          /\ x = Span + 1 \/ (r[x].key = 0 \/ r[x].key >= k)
          /\ \A q \in 1 .. (x - 1) : ~(r[q].key = 0 \/ r[q].key >= k)
  BY <1>2, <1>3
<1>5. /\ p \in 1 .. (Span + 1)
      /\ p = Span + 1 \/ (r[p].key = 0 \/ r[p].key >= k)
      /\ \A q \in 1 .. (p - 1) : ~(r[q].key = 0 \/ r[q].key >= k)
  BY <1>4 DEF Position, ScanFrom
<1>6. p \in Slot => p # Span + 1
  BY SpanAssumption DEF Slot
<1>7. ASSUME NEW q \in Slot, q < p
      PROVE  r[q].key # 0 /\ r[q].key < k
  <2>1. q \in 1 .. (p - 1) /\ r[q].key \in Nat
    BY <1>5, <1>7, SpanAssumption, RecordFacts DEF Slot
  <2>2. QED
    BY <1>5, <2>1
<1>8. QED
  BY <1>5, <1>6, <1>7

\* Where the scan for an empty slot stops.
LEMMA FirstNullIs ==
  ASSUME NEW r \in Records, NEW i \in 1 .. (Span + 1), NEW p, p = FirstNull(r, i)
  PROVE  /\ p \in i .. (Span + 1)
         /\ p \in Slot => r[p].key = 0
         /\ \A q \in Slot : i <= q /\ q < p => r[q].key # 0
<1> DEFINE Ends(m) == m = Span + 1 \/ r[m].key = 0
           S == {m \in i .. (Span + 1) : Ends(m)}
<1>1. S \in SUBSET Nat /\ Span + 1 \in S
  BY SpanAssumption
<1>2. PICK m \in S : \A x \in S : m <= x
  BY <1>1, Least
<1>3. \A q \in i .. (m - 1) : ~Ends(q)
  BY <1>2, SpanAssumption
<1>4. \E x \in i .. (Span + 1) :
          /\ x = Span + 1 \/ r[x].key = 0
          /\ \A q \in i .. (x - 1) : ~(r[q].key = 0)
  BY <1>2, <1>3
<1>5. /\ p \in i .. (Span + 1)
      /\ p = Span + 1 \/ r[p].key = 0
      /\ \A q \in i .. (p - 1) : ~(r[q].key = 0)
  BY <1>4 DEF FirstNull, ScanFrom
<1>6. p \in Slot => p # Span + 1
  BY SpanAssumption DEF Slot
<1>7. ASSUME NEW q \in Slot, i <= q, q < p
      PROVE  q \in i .. (p - 1)
  BY <1>5, <1>7, SpanAssumption DEF Slot
<1>8. QED
  BY <1>5, <1>6, <1>7

-----------------------------------------------------------------------------
(* What an array says of its image *)

\* The keys of the image are those of the array.
LEMMA KeysAre ==
  ASSUME NEW r, NEW x, Stores(r, x)
  PROVE  /\ \A i \in Slot : r[i].key # 0 =>
                r[i].key \in KeysOf(x) /\ x.rec[r[i].key] = r[i].value
         /\ \A k \in KeysOf(x) : k \in Key /\ \E i \in Slot : r[i].key = k
<1>1. ASSUME NEW i \in Slot, r[i].key # 0
      PROVE  r[i].key \in KeysOf(x) /\ x.rec[r[i].key] = r[i].value
  <2>1. r[i].key \in Key /\ r[i].value \in Value
    BY <1>1, RecordFacts DEF Stores
  <2>2. x.rec[r[i].key] = r[i].value
    BY <1>1 DEF Stores, Shows
  <2>3. QED
    BY <2>1, <2>2, ValueAssumption DEF KeysOf
<1>2. QED
  BY <1>1 DEF KeysOf, Stores, Shows

LEMMA KeysFinite ==
  ASSUME NEW x
  PROVE  IsFiniteSet(KeysOf(x)) /\ Cardinality(KeysOf(x)) \in Nat
<1>1. KeysOf(x) \in SUBSET Key
  BY DEF KeysOf
<1>2. QED
  BY <1>1, KeyAssumption, FS_Subset, FS_CardinalityType

\* An image is full when the last slot is taken.
LEMMA FullIs ==
  ASSUME NEW r, NEW x, Stores(r, x)
  PROVE  Full(x) <=> r[Span].key # 0
<1>1. IsFiniteSet(KeysOf(x)) /\ Cardinality(KeysOf(x)) \in Nat
  BY KeysFinite
<1>2. ASSUME r[Span].key # 0
      PROVE  Full(x)
  <2> DEFINE f == [i \in Slot |-> r[i].key]
  <2>1. \A i \in Slot : r[i].key # 0
    <3>1. \A i \in Slot : i = Span \/ i < Span
      BY SlotFacts
    <3>2. QED
      BY <1>2, <3>1, SlotFacts DEF Stores, Ascending
  <2>2. f \in Injection(Slot, KeysOf(x))
    <3>1. f \in [Slot -> KeysOf(x)]
      BY <2>1, KeysAre
    <3>2. \A i, j \in Slot : f[i] = f[j] => i = j
      BY <2>1, OneSlot DEF Stores
    <3>3. QED
      BY <3>1, <3>2 DEF Injection, IsInjective
  <2>3. Cardinality(Slot) <= Cardinality(KeysOf(x))
    BY <1>1, <2>2, FS_Injection
  <2>4. Cardinality(Slot) = Span
    BY SpanAssumption, FS_Interval DEF Slot
  <2>5. QED
    BY <1>1, <2>3, <2>4, SpanAssumption DEF Full
<1>3. ASSUME r[Span].key = 0
      PROVE  ~Full(x)
  <2> DEFINE T == 1 .. (Span - 1)
             g == [k \in KeysOf(x) |-> CHOOSE i \in Slot : r[i].key = k]
  <2>1. ASSUME NEW k \in KeysOf(x)
        PROVE  g[k] \in T /\ r[g[k]].key = k
    <3>1. g[k] \in Slot /\ r[g[k]].key = k
      BY KeysAre
    <3>2. k # 0
      BY KeyAssumption DEF KeysOf
    <3>3. g[k] # Span
      BY <1>3, <3>1, <3>2
    <3>4. QED
      <4> HIDE DEF g
      <4>1. QED
        BY <3>1, <3>3, SpanAssumption DEF Slot
  <2>2. g \in Injection(KeysOf(x), T)
    <3>1. g \in [KeysOf(x) -> T]
      BY <2>1
    <3>2. \A k, l \in KeysOf(x) : g[k] = g[l] => k = l
      BY <2>1
    <3>3. QED
      BY <3>1, <3>2 DEF Injection, IsInjective
  <2>3. IsFiniteSet(T) /\ Cardinality(T) = Span - 1
    BY SpanAssumption, FS_Interval
  <2>4. Cardinality(KeysOf(x)) <= Cardinality(T)
    BY <2>2, <2>3, FS_Injection
  <2>5. QED
    BY <1>1, <2>3, <2>4, SpanAssumption DEF Full
<1>4. QED
  BY <1>2, <1>3

\* The last key of a full image is in the last slot.
LEMMA LastKeyIs ==
  ASSUME NEW r, NEW x, Stores(r, x), r[Span].key # 0
  PROVE  LastKey(x) = r[Span].key /\ x.rec[LastKey(x)] = r[Span].value
<1> DEFINE m == r[Span].key
<1>1. m \in KeysOf(x) /\ x.rec[m] = r[Span].value /\ m \in Nat
  BY KeysAre, SlotFacts, RecordFacts DEF Stores
<1>2. \A k \in KeysOf(x) : k <= m
  <2> SUFFICES ASSUME NEW k \in KeysOf(x)
               PROVE  k <= m
    OBVIOUS
  <2>1. PICK i \in Slot : r[i].key = k
    BY KeysAre
  <2>2. i = Span \/ i < Span
    BY SlotFacts
  <2>3. i < Span => k < m
    BY <2>1, SlotFacts DEF Stores, Ascending
  <2>4. k \in Nat
    BY KeyAssumption DEF KeysOf
  <2>5. QED
    BY <1>1, <2>1, <2>2, <2>3, <2>4
<1>3. \A k \in KeysOf(x) : k \in Nat
  BY KeyAssumption DEF KeysOf
<1>4. LastKey(x) \in KeysOf(x) /\ m <= LastKey(x)
  BY <1>1, <1>2 DEF LastKey
<1>5. LastKey(x) = m
  BY <1>1, <1>2, <1>3, <1>4
<1>6. QED
  BY <1>1, <1>5

-----------------------------------------------------------------------------
(* Storing a record *)

\* e fits in slot i of the sorted array r, and slot j is the last one to move.
Fit(r, i, j, e) ==
    /\ r \in Records /\ Ascending(r) /\ i \in Slot /\ j \in Slot /\ i <= j
    /\ e \in [key : Key, value : Value]
    /\ \A q \in Slot : q < i => r[q].key # 0 /\ r[q].key < e.key
    /\ r[i].key = 0 \/ e.key < r[i].key
    /\ \A q \in Slot : j < q => r[q].key = 0

\* What is where after the records have moved.
LEMMA ShiftIs ==
  ASSUME NEW r, NEW i, NEW j, NEW e, Fit(r, i, j, e), NEW t, t = ShiftIn(r, i, j, e)
  PROVE  /\ t \in Records
         /\ t[i] = e
         /\ \A q \in Slot : q < i \/ j < q => t[q] = r[q]
         /\ \A q \in Slot : i < q /\ q <= j => q - 1 \in Slot /\ t[q] = r[q - 1]
<1>1. i \in Nat /\ j \in Nat /\ i <= j /\ i \in Slot
  BY SlotFacts DEF Fit
<1>2. t = [q \in Slot |-> IF q = i THEN e
                          ELSE IF i < q /\ q <= j THEN r[q - 1] ELSE r[q]]
  BY DEF ShiftIn, Slot
<1>3. \A q \in Slot : i < q => q - 1 \in Slot
  BY <1>1, SpanAssumption DEF Slot
<1>4. \A q \in Slot : r[q] \in [key : Key, value : Value] \cup {Null}
  BY DEF Fit, Records, Slot
<1>5. e \in [key : Key, value : Value]
  BY DEF Fit
<1>6. \A q \in Slot : t[q] \in [key : Key, value : Value] \cup {Null}
  BY <1>2, <1>3, <1>4, <1>5
<1>7. t \in Records
  BY <1>2, <1>6 DEF Records, Slot
<1>8. t[i] = e
  BY <1>1, <1>2
<1>9. \A q \in Slot : q < i \/ j < q => t[q] = r[q]
  <2> SUFFICES ASSUME NEW q \in Slot, q < i \/ j < q
               PROVE  t[q] = r[q]
    OBVIOUS
  <2>1. q # i /\ ~(i < q /\ q <= j)
    BY <1>1, SlotFacts
  <2>2. QED
    BY <1>2, <2>1
<1>10. \A q \in Slot : i < q /\ q <= j => t[q] = r[q - 1]
  <2> SUFFICES ASSUME NEW q \in Slot, i < q, q <= j
               PROVE  t[q] = r[q - 1]
    OBVIOUS
  <2>1. q # i
    BY <1>1, SlotFacts
  <2>2. QED
    BY <1>2, <2>1
<1>11. QED
  BY <1>3, <1>7, <1>8, <1>9, <1>10

\* The loop keeps the order.
LEMMA ShiftAscends ==
  ASSUME NEW r, NEW i, NEW j, NEW e, Fit(r, i, j, e), NEW t, t = ShiftIn(r, i, j, e)
  PROVE  Ascending(t)
<1> SUFFICES ASSUME NEW b \in Slot, t[b].key # 0, NEW a \in Slot, a < b
             PROVE  t[a].key # 0 /\ t[a].key < t[b].key
  BY DEF Ascending
<1>0. /\ r \in Records /\ i \in Slot /\ j \in Slot /\ i <= j
      /\ i \in Nat /\ j \in Nat /\ a \in Nat /\ b \in Nat
      /\ e.key \in Nat \ {0}
  BY SlotFacts, KeyAssumption DEF Fit
<1>1. /\ t[i] = e
      /\ \A q \in Slot : q < i \/ j < q => t[q] = r[q]
      /\ \A q \in Slot : i < q /\ q <= j => q - 1 \in Slot /\ t[q] = r[q - 1]
  BY ShiftIs
<1>2. ASSUME NEW p \in Slot, NEW q \in Slot, p < q, r[q].key # 0
      PROVE  r[p].key # 0 /\ r[p].key < r[q].key
  BY <1>2 DEF Fit, Ascending
<1>3. \A q \in Slot : r[q].key \in Nat
  BY <1>0, RecordFacts
<1>4. CASE b < i
  <2>1. a < i
    BY <1>0, <1>4
  <2>2. QED
    BY <1>1, <1>2, <1>4, <2>1
<1>5. CASE b = i
  <2>1. t[a] = r[a] /\ t[b] = e
    BY <1>1, <1>5
  <2>2. QED
    BY <1>5, <2>1 DEF Fit
<1>6. CASE i < b /\ b <= j
  <2>1. PICK c : c = b - 1
    BY Zenon
  <2>2. c \in Slot /\ t[b] = r[c] /\ r[c].key # 0
    BY <1>1, <1>6, <2>1
  <2>3. c \in Nat /\ b = c + 1 /\ i <= c
    BY <1>0, <1>6, <2>1
  <2>4. CASE a < i
    <3>1. t[a] = r[a] /\ a < c
      BY <1>0, <1>1, <2>3, <2>4
    <3>2. QED
      BY <1>2, <2>2, <3>1
  <2>5. CASE a = i
    <3>1. r[i].key # 0
      BY <1>0, <1>2, <2>2, <2>3
    <3>2. e.key < r[i].key
      BY <3>1 DEF Fit
    <3>3. i = c \/ r[i].key < r[c].key
      BY <1>0, <1>2, <2>2, <2>3
    <3>4. t[a] = e /\ r[i].key \in Nat /\ r[c].key \in Nat
      BY <1>0, <1>1, <1>3, <2>2, <2>5
    <3>5. QED
      BY <1>0, <2>2, <3>2, <3>3, <3>4
  <2>6. CASE i < a
    <3>1. PICK d : d = a - 1
      BY Zenon
    <3>2. a <= j
      BY <1>0, <1>6
    <3>3. d \in Slot /\ t[a] = r[d]
      BY <1>1, <2>6, <3>1, <3>2
    <3>4. d < c
      BY <1>0, <2>3, <3>1
    <3>5. QED
      BY <1>2, <2>2, <3>3, <3>4
  <2>7. QED
    BY <1>0, <2>4, <2>5, <2>6
<1>7. CASE j < b
  <2>1. t[b] = r[b]
    BY <1>1, <1>7
  <2>2. QED
    BY <1>7, <2>1 DEF Fit
<1>8. QED
  BY <1>0, <1>4, <1>5, <1>6, <1>7

\* It stores the record, and drops the one of slot j if there is one.
LEMMA ShiftShows ==
  ASSUME NEW r, NEW i, NEW j, NEW e, Fit(r, i, j, e), NEW t, t = ShiftIn(r, i, j, e),
         NEW f, Shows(r, f), f[e.key] = Nil,
         NEW g, g[e.key] = e.value,
         \A l \in Key : l # e.key => g[l] = IF l = r[j].key THEN Nil ELSE f[l]
  PROVE  Shows(t, g)
<1>0. /\ r \in Records /\ Ascending(r) /\ i \in Slot /\ j \in Slot /\ i <= j
      /\ i \in Nat /\ j \in Nat /\ e.key \in Key
  BY SlotFacts DEF Fit
<1>1. /\ t[i] = e
      /\ \A q \in Slot : q < i \/ j < q => t[q] = r[q]
      /\ \A q \in Slot : i < q /\ q <= j => q - 1 \in Slot /\ t[q] = r[q - 1]
  BY ShiftIs
<1>2. ASSUME NEW q \in Slot, r[q].key # 0, q # j
      PROVE  g[r[q].key] = r[q].value
  <2>1. r[q].key \in Key /\ r[q].value \in Value /\ f[r[q].key] = r[q].value
    BY <1>0, <1>2, RecordFacts DEF Shows
  <2>2. r[q].key # e.key
    BY <2>1, ValueAssumption
  <2>3. r[q].key # r[j].key
    BY <1>0, <1>2, OneSlot
  <2>4. QED
    BY <2>1, <2>2, <2>3
<1>3. ASSUME NEW q \in Slot, t[q].key # 0
      PROVE  g[t[q].key] = t[q].value
  <2>0. q \in Nat
    BY SlotFacts
  <2>1. CASE q = i
    BY <1>1, <2>1
  <2>2. CASE q < i
    <3>1. q # j /\ t[q] = r[q]
      BY <1>0, <1>1, <2>0, <2>2
    <3>2. QED
      BY <1>2, <1>3, <3>1
  <2>3. CASE j < q
    <3>1. q # j /\ t[q] = r[q]
      BY <1>0, <1>1, <2>0, <2>3
    <3>2. QED
      BY <1>2, <1>3, <3>1
  <2>4. CASE i < q /\ q <= j
    <3>1. PICK p : p = q - 1
      BY Zenon
    <3>2. p \in Slot /\ t[q] = r[p]
      BY <1>1, <2>4, <3>1
    <3>3. p # j
      BY <1>0, <2>0, <2>4, <3>1
    <3>4. QED
      BY <1>2, <1>3, <3>2, <3>3
  <2>5. QED
    BY <1>0, <2>0, <2>1, <2>2, <2>3, <2>4
<1>4. ASSUME NEW l \in Key, g[l] # Nil
      PROVE  \E q \in Slot : t[q].key = l
  <2>1. CASE l = e.key
    BY <1>0, <1>1, <2>1
  <2>2. CASE l # e.key
    <3>1. f[l] # Nil /\ l # r[j].key
      BY <1>4, <2>2
    <3>2. PICK q \in Slot : r[q].key = l
      BY <3>1 DEF Shows
    <3>3. q # j /\ q \in Nat
      BY <3>1, <3>2, SlotFacts
    <3>4. CASE q < i \/ j < q
      BY <1>1, <3>2, <3>4
    <3>5. CASE i <= q /\ q < j
      <4>1. PICK p : p = q + 1
        BY Zenon
      <4>2. p \in Slot /\ i < p /\ p <= j /\ p - 1 = q
        BY <1>0, <3>3, <3>5, <4>1, SpanAssumption DEF Slot
      <4>3. QED
        BY <1>1, <3>2, <4>2
    <3>6. QED
      BY <1>0, <3>3, <3>4, <3>5
  <2>3. QED
    BY <2>1, <2>2
<1>5. QED
  BY <1>3, <1>4 DEF Shows

-----------------------------------------------------------------------------
(* What the loops compute *)

\* All slots of a full array are taken.
LEMMA AllTaken ==
  ASSUME NEW r \in Records, Ascending(r), r[Span].key # 0, NEW i \in Slot
  PROVE  r[i].key # 0
<1>1. i = Span \/ i < Span
  BY SlotFacts
<1>2. QED
  BY <1>1, SlotFacts DEF Ascending

\* The scan finds a key that is stored.
LEMMA IsAtMeans ==
  ASSUME NEW r, NEW x, Stores(r, x), NEW k \in Key, NEW p, p = Position(r, k)
  PROVE  IsAt(r, p, k) <=> x.rec[k] # Nil
<1>1. /\ r \in Records /\ k \in Nat \ {0}
  BY KeyAssumption DEF Stores
<1>2. /\ p \in 1 .. (Span + 1)
      /\ p \in Slot => r[p].key = 0 \/ r[p].key >= k
      /\ \A q \in Slot : q < p => r[q].key # 0 /\ r[q].key < k
  BY <1>1, PositionIs
<1>3. p <= Span <=> p \in Slot
  BY <1>2, SpanAssumption DEF Slot
<1>4. IsAt(r, p, k) => x.rec[k] # Nil
  BY <1>1, <1>3, KeysAre DEF IsAt, KeysOf
<1>5. ASSUME x.rec[k] # Nil
      PROVE  IsAt(r, p, k)
  <2>1. PICK i \in Slot : r[i].key = k
    BY <1>5 DEF Stores, Shows
  <2>2. i \in Nat /\ p \in Nat /\ i <= Span
    BY <1>2, SlotFacts
  <2>3. ~(i < p)
    BY <1>1, <1>2, <2>1
  <2>4. p \in Slot
    BY <1>3, <2>2, <2>3, SpanAssumption
  <2>5. ~(p < i)
    <3>1. p < i => r[p].key # 0 /\ r[p].key < k
      BY <1>1, <2>1, <2>4 DEF Stores, Ascending
    <3>2. r[p].key \in Nat
      BY <1>1, <2>4, RecordFacts
    <3>3. QED
      BY <1>1, <1>2, <2>4, <3>1, <3>2
  <2>6. i = p
    BY <2>2, <2>3, <2>5
  <2>7. QED
    BY <1>3, <2>1, <2>4, <2>6 DEF IsAt
<1>6. QED
  BY <1>4, <1>5

\* It runs off the end of a full array whose keys are smaller.
LEMMA OffMeans ==
  ASSUME NEW r, NEW x, Stores(r, x), NEW k \in Key, NEW p, p = Position(r, k)
  PROVE  /\ p = Span + 1 <=> Beyond(x, k)
         /\ p # Span + 1 <=> p \in Slot
<1>1. r \in Records /\ Ascending(r) /\ k \in Nat
  BY KeyAssumption DEF Stores
<1>2. /\ p \in 1 .. (Span + 1)
      /\ p \in Slot => r[p].key = 0 \/ r[p].key >= k
      /\ \A q \in Slot : q < p => r[q].key # 0 /\ r[q].key < k
  BY <1>1, PositionIs
<1>3. p # Span + 1 <=> p \in Slot
  BY <1>2, SpanAssumption DEF Slot
<1>4. ASSUME p = Span + 1
      PROVE  Beyond(x, k)
  <2>1. \A q \in Slot : r[q].key # 0 /\ r[q].key < k
    <3>1. \A q \in Slot : q < p
      BY <1>4, SlotFacts
    <3>2. QED
      BY <1>2, <3>1
  <2>2. Full(x)
    BY <2>1, FullIs, SlotFacts
  <2>3. \A l \in KeysOf(x) : l < k
    BY <2>1, KeysAre
  <2>4. QED
    BY <2>2, <2>3 DEF Beyond
<1>5. ASSUME Beyond(x, k), p \in Slot
      PROVE  FALSE
  <2>1. r[p].key # 0
    BY <1>1, <1>5, FullIs, AllTaken DEF Beyond
  <2>2. r[p].key \in KeysOf(x)
    BY <1>5, <2>1, KeysAre
  <2>3. r[p].key < k /\ r[p].key \in Nat
    BY <1>1, <1>5, <2>2, RecordFacts DEF Beyond
  <2>4. QED
    BY <1>1, <1>2, <1>5, <2>1, <2>3
<1>6. QED
  BY <1>3, <1>4, <1>5

\* The scan for an empty slot finds none in a full array.
LEMMA NoNullMeans ==
  ASSUME NEW r, NEW x, Stores(r, x), NEW i \in Slot, NEW j, j = FirstNull(r, i)
  PROVE  /\ j = Span + 1 <=> Full(x)
         /\ j # Span + 1 <=> j \in Slot
<1>1. r \in Records /\ Ascending(r) /\ i \in 1 .. (Span + 1)
  BY SpanAssumption DEF Stores, Slot
<1>2. /\ j \in i .. (Span + 1)
      /\ j \in Slot => r[j].key = 0
      /\ \A q \in Slot : i <= q /\ q < j => r[q].key # 0
  BY <1>1, FirstNullIs
<1>3. j # Span + 1 <=> j \in Slot
  BY <1>1, <1>2, SpanAssumption DEF Slot
<1>4. ASSUME j = Span + 1
      PROVE  r[Span].key # 0
  <2>1. Span \in Slot /\ i <= Span /\ Span < j
    BY <1>4, SlotFacts
  <2>2. QED
    BY <1>2, <2>1
<1>5. r[Span].key # 0 => j \notin Slot
  BY <1>1, <1>2, AllTaken
<1>6. QED
  BY <1>3, <1>4, <1>5, FullIs

\* A new record fits where the scan stops.
LEMMA NewFits ==
  ASSUME NEW r, NEW x, Stores(r, x), NEW e \in [key : Key, value : Value],
         x.rec[e.key] = Nil, NEW p \in Slot, p = Position(r, e.key),
         NEW j, j = LastSlot(FirstNull(r, p))
  PROVE  /\ Fit(r, p, j, e)
         /\ Full(x) => j = Span
         /\ ~Full(x) => r[j].key = 0
<1>1. r \in Records /\ Ascending(r) /\ e.key \in Nat \ {0} /\ e.key \in Key
  BY KeyAssumption DEF Stores
<1>2. /\ r[p].key = 0 \/ r[p].key >= e.key
      /\ \A q \in Slot : q < p => r[q].key # 0 /\ r[q].key < e.key
  BY <1>1, PositionIs
<1>3. r[p].key # e.key
  <2>1. ~IsAt(r, p, e.key)
    BY <1>1, IsAtMeans
  <2>2. QED
    BY <2>1, SlotFacts DEF IsAt
<1>4. r[p].key = 0 \/ e.key < r[p].key
  BY <1>1, <1>2, <1>3, RecordFacts
<1>5. PICK h : h = FirstNull(r, p)
  BY Zenon
<1>6. p \in 1 .. (Span + 1)
  BY SpanAssumption DEF Slot
<1>7. /\ h \in p .. (Span + 1)
      /\ h \in Slot => r[h].key = 0
  BY <1>1, <1>5, <1>6, FirstNullIs
<1>8. /\ h = Span + 1 <=> Full(x)
      /\ h # Span + 1 <=> h \in Slot
  BY <1>5, NoNullMeans
<1>9. CASE h = Span + 1
  <2>1. j = Span
    BY <1>5, <1>9 DEF LastSlot
  <2>2. p <= j /\ j \in Slot /\ \A q \in Slot : ~(j < q)
    BY <2>1, SlotFacts
  <2>3. QED
    BY <1>1, <1>2, <1>4, <1>8, <1>9, <2>1, <2>2 DEF Fit
<1>10. CASE h # Span + 1
  <2>1. j = h /\ h \in Slot
    BY <1>5, <1>8, <1>10 DEF LastSlot
  <2>2. p <= j
    BY <1>6, <1>7, <2>1
  <2>3. \A q \in Slot : j < q => r[q].key = 0
    BY <1>1, <1>7, <2>1 DEF Ascending
  <2>4. QED
    BY <1>1, <1>2, <1>4, <1>7, <1>8, <1>10, <2>1, <2>2, <2>3 DEF Fit
<1>11. QED
  BY <1>9, <1>10

\* A record for a leaf with an empty slot, or in the middle of a full one.
LEMMA LeafStore ==
  ASSUME NEW r, NEW x, Stores(r, x), NEW k \in Key, NEW v \in Value, x.rec[k] = Nil,
         NEW p \in Slot, p = Position(r, k)
  PROVE  Stores(ShiftIn(r, p, LastSlot(FirstNull(r, p)), [key |-> k, value |-> v]),
                IF Full(x) THEN PutOverflow(x, k, v) ELSE Put(x, k, v))
<1>1. PICK e : e = [key |-> k, value |-> v]
  BY Zenon
<1>2. e \in [key : Key, value : Value] /\ e.key = k /\ e.value = v
  BY <1>1
<1>3. PICK j : j = LastSlot(FirstNull(r, p))
  BY Zenon
<1>4. PICK t : t = ShiftIn(r, p, j, e)
  BY Zenon
<1>5. Fit(r, p, j, e) /\ (Full(x) => j = Span) /\ (~Full(x) => r[j].key = 0)
  BY <1>2, <1>3, NewFits
<1>6. t \in Records /\ Ascending(t)
  BY <1>4, <1>5, ShiftIs, ShiftAscends
<1>7. r \in Records /\ x \in Node /\ Shows(r, x.rec) /\ x.rec \in [Key -> MaybeValue]
  BY DEF Stores, Node
<1>8. CASE Full(x)
  <2>1. PICK m : m = LastKey(x)
    BY Zenon
  <2>2. m = r[j].key /\ j = Span /\ m \in Key
    BY <1>5, <1>7, <1>8, <2>1, FullIs, LastKeyIs, RecordFacts, SlotFacts
  <2>3. PICK g : g = [[x.rec EXCEPT ![m] = Nil] EXCEPT ![k] = v]
    BY Zenon
  <2>4. PutOverflow(x, k, v) = [rec |-> g, syn |-> x.syn]
    BY <2>1, <2>3 DEF PutOverflow, Drop, Put
  <2>5. /\ g \in [Key -> MaybeValue] /\ g[k] = v
        /\ \A l \in Key : l # k => g[l] = IF l = m THEN Nil ELSE x.rec[l]
    BY <1>7, <2>2, <2>3 DEF MaybeValue
  <2>6. Shows(t, g)
    BY <1>2, <1>4, <1>5, <1>7, <2>2, <2>5, ShiftShows
  <2>7. Stores(t, PutOverflow(x, k, v))
    BY <1>6, <1>7, <2>4, <2>5, <2>6 DEF Stores, Node
  <2>8. QED
    BY <1>1, <1>3, <1>4, <1>8, <2>7
<1>9. CASE ~Full(x)
  <2>1. PICK g : g = [x.rec EXCEPT ![k] = v]
    BY Zenon
  <2>2. Put(x, k, v) = [rec |-> g, syn |-> x.syn]
    BY <2>1 DEF Put
  <2>3. \A l \in Key : l # r[j].key
    BY <1>5, <1>9, KeyAssumption
  <2>4. /\ g \in [Key -> MaybeValue] /\ g[k] = v
        /\ \A l \in Key : l # k => g[l] = IF l = r[j].key THEN Nil ELSE x.rec[l]
    BY <1>7, <2>1, <2>3 DEF MaybeValue
  <2>5. Shows(t, g)
    BY <1>2, <1>4, <1>5, <1>7, <2>4, ShiftShows
  <2>6. Stores(t, Put(x, k, v))
    BY <1>6, <1>7, <2>2, <2>4, <2>5 DEF Stores, Node
  <2>7. QED
    BY <1>1, <1>3, <1>4, <1>9, <2>6
<1>10. QED
  BY <1>8, <1>9

\* A record for a synonym leaf that is there.
LEMMA SynStore ==
  ASSUME NEW r, NEW x, Stores(r, x), NEW k \in Key, NEW v \in Value, x.rec[k] = Nil,
         NEW p, p = Position(r, k)
  PROVE  Stores(ShiftIn(r, p, LastSlot(FirstNull(r, p)), [key |-> k, value |-> v]),
                PutSyn(x, k, v))
<1>1. /\ p = Span + 1 <=> Beyond(x, k)
      /\ p # Span + 1 <=> p \in Slot
  BY OffMeans
<1>2. CASE p \in Slot
  <2>1. ~Beyond(x, k)
    BY <1>1, <1>2
  <2>2. PutSyn(x, k, v) = IF Full(x) THEN PutOverflow(x, k, v) ELSE Put(x, k, v)
    BY <2>1 DEF PutSyn
  <2>3. QED
    BY <1>2, <2>2, LeafStore
<1>3. CASE p = Span + 1
  <2>1. PutSyn(x, k, v) = x
    BY <1>1, <1>3 DEF PutSyn, Beyond
  <2>2. r \in Records
    BY DEF Stores
  <2>3. r = [q \in Slot |-> r[q]]
    BY <2>2 DEF Records, Slot
  <2>4. \A q \in Slot : q # p /\ ~(p < q)
    BY <1>3, SlotFacts
  <2>5. ASSUME NEW j, NEW e
        PROVE  ShiftIn(r, p, j, e) = [q \in Slot |-> r[q]]
    BY <2>4 DEF ShiftIn, Slot
  <2>6. QED
    BY <2>1, <2>3, <2>5
<1>4. QED
  BY <1>1, <1>2, <1>3

\* A new synonym leaf with one record.
LEMMA FirstStore ==
  ASSUME NEW k \in Key, NEW v \in Value
  PROVE  Stores([Zeroed EXCEPT ![1] = [key |-> k, value |-> v]], Put(EmptyNode, k, v))
<1>1. PICK r : r = [Zeroed EXCEPT ![1] = [key |-> k, value |-> v]]
  BY Zenon
<1>2. /\ r \in Records
      /\ r[1] = [key |-> k, value |-> v]
      /\ \A i \in Slot : i # 1 => r[i] = Null
  BY <1>1, SlotFacts DEF Zeroed, Records, Slot
<1>3. PICK g : g = [[l \in Key |-> Nil] EXCEPT ![k] = v]
  BY Zenon
<1>4. Put(EmptyNode, k, v) = [rec |-> g, syn |-> Nil]
  BY <1>3 DEF Put, EmptyNode
<1>5. g \in [Key -> MaybeValue] /\ g[k] = v /\ \A l \in Key : l # k => g[l] = Nil
  BY <1>3 DEF MaybeValue
<1>6. Ascending(r)
  <2>1. \A i \in Slot : ~(i < 1)
    BY SlotFacts
  <2>2. \A i \in Slot : i # 1 => r[i].key = 0
    BY <1>2 DEF Null
  <2>3. QED
    BY <2>1, <2>2 DEF Ascending
<1>7. Shows(r, g)
  <2>1. \A i \in Slot : r[i].key # 0 => i = 1
    BY <1>2 DEF Null
  <2>2. r[1].key = k /\ r[1].value = v
    BY <1>2
  <2>3. \A i \in Slot : r[i].key # 0 => g[r[i].key] = r[i].value
    BY <1>5, <2>1, <2>2
  <2>4. \A l \in Key : g[l] # Nil => \E i \in Slot : r[i].key = l
    BY <1>5, <2>2, SlotFacts
  <2>5. QED
    BY <2>3, <2>4 DEF Shows
<1>8. QED
  BY <1>1, <1>2, <1>4, <1>5, <1>6, <1>7 DEF Stores, Node

\* update replaces a value where it is.
LEMMA UpdateStore ==
  ASSUME NEW r, NEW x, Stores(r, x), NEW k \in Key, NEW v \in Value, Holds(r, k)
  PROVE  Stores([r EXCEPT ![SlotOf(r, k)].value = v], Put(x, k, v))
<1>1. PICK i : i = SlotOf(r, k)
  BY Zenon
<1>2. i \in Slot /\ r[i].key = k
  BY <1>1 DEF SlotOf, Holds, Slot
<1>3. r \in Records /\ x.rec \in [Key -> MaybeValue] /\ x \in Node /\ k # 0
  BY KeyAssumption DEF Stores, Node
<1>4. r[i] \in [key : Key, value : Value]
  BY <1>2, <1>3, RecordFacts DEF Null
<1>5. PICK t : t = [r EXCEPT ![i].value = v]
  BY Zenon
<1>6. PICK e : e = [key |-> k, value |-> v]
  BY Zenon
<1>7. [r[i] EXCEPT !.value = v] = e
  BY <1>2, <1>4, <1>6
<1>8. t \in Records /\ t[i] = e /\ \A q \in Slot : q # i => t[q] = r[q]
  <2>1. t = [r EXCEPT ![i] = e]
    BY <1>5, <1>7
  <2>2. e \in [key : Key, value : Value]
    BY <1>6
  <2>3. QED
    BY <1>2, <1>3, <2>1, <2>2 DEF Records, Slot
<1>9. \A q \in Slot : t[q].key = r[q].key
  BY <1>2, <1>6, <1>8
<1>10. Ascending(t)
  BY <1>9 DEF Stores, Ascending
<1>11. PICK g : g = [x.rec EXCEPT ![k] = v]
  BY Zenon
<1>12. g \in [Key -> MaybeValue] /\ g[k] = v /\ \A l \in Key : l # k => g[l] = x.rec[l]
  BY <1>3, <1>11 DEF MaybeValue
<1>13. Shows(t, g)
  <2>1. ASSUME NEW q \in Slot, t[q].key # 0
        PROVE  g[t[q].key] = t[q].value
    <3>1. CASE q = i
      BY <1>6, <1>8, <1>12, <3>1
    <3>2. CASE q # i
      <4>1. r[q].key # k /\ r[q].key # 0
        BY <1>2, <1>3, <1>9, <2>1, <3>2, OneSlot DEF Stores
      <4>2. r[q].key \in Key
        BY <1>3, <4>1, RecordFacts
      <4>3. x.rec[r[q].key] = r[q].value
        BY <4>1 DEF Stores, Shows
      <4>4. QED
        BY <1>8, <1>12, <3>2, <4>1, <4>2, <4>3
    <3>3. QED
      BY <3>1, <3>2
  <2>2. ASSUME NEW l \in Key, g[l] # Nil
        PROVE  \E q \in Slot : t[q].key = l
    <3>1. CASE l = k
      BY <1>2, <1>9, <3>1
    <3>2. CASE l # k
      BY <1>9, <1>12, <2>2, <3>2 DEF Stores, Shows
    <3>3. QED
      BY <3>1, <3>2
  <2>3. QED
    BY <2>1, <2>2 DEF Shows
<1>14. Put(x, k, v) = [rec |-> g, syn |-> x.syn]
  BY <1>11 DEF Put
<1>15. Stores(t, Put(x, k, v))
  BY <1>3, <1>8, <1>10, <1>12, <1>13, <1>14 DEF Stores, Node
<1>16. QED
  BY <1>1, <1>5, <1>15

-----------------------------------------------------------------------------
(* The calls *)

\* The pointer does not matter for the records.
LEMMA PointerSet ==
  ASSUME NEW r, NEW x, Stores(r, x)
  PROVE  /\ Stores(r, [x EXCEPT !.syn = TheSyn])
         /\ [x EXCEPT !.syn = TheSyn].syn # Nil
<1>1. TheSyn \in SynAddr
  BY SynAvailable DEF TheSyn
<1>2. x \in [rec : [Key -> MaybeValue], syn : SynAddr \cup {Nil}]
  BY DEF Stores, Node
<1>3. PICK y : y = [x EXCEPT !.syn = TheSyn]
  BY Zenon
<1>4. y \in Node /\ y.rec = x.rec /\ y.syn = TheSyn
  BY <1>1, <1>2, <1>3 DEF Node
<1>5. QED
  BY <1>1, <1>3, <1>4, SynAddrAssumption DEF Stores

\* A record goes into the synonym leaf, which may be new.
LEMMA StoreInSynIs ==
  ASSUME ArrayInv, NEW k \in Key, NEW v \in Value, ~(n.syn # Nil /\ s.rec[k] # Nil),
         StoreInSyn([key |-> k, value |-> v]), ImageInSyn(k, v)
  PROVE  Stores(syn', s')
<1>1. PICK e : e = [key |-> k, value |-> v]
  BY Zenon
<1>2. e.key = k
  BY <1>1
<1>3. CASE hasSyn
  <2>1. PICK p : p = Position(syn, k)
    BY Zenon
  <2>2. syn' = ShiftIn(syn, p, LastSlot(FirstNull(syn, p)), e)
    BY <1>1, <1>2, <1>3, <2>1 DEF StoreInSyn
  <2>3. s' = PutSyn(s, k, v) /\ s.rec[k] = Nil
    BY <1>3 DEF ImageInSyn, ArrayInv
  <2>4. QED
    BY <1>1, <2>1, <2>2, <2>3, SynStore DEF ArrayInv
<1>4. CASE ~hasSyn
  <2>1. syn' = [Zeroed EXCEPT ![1] = e]
    BY <1>1, <1>4 DEF StoreInSyn
  <2>2. s' = Put(EmptyNode, k, v)
    BY <1>4 DEF ImageInSyn, ArrayInv
  <2>3. QED
    BY <1>1, <2>1, <2>2, FirstStore
<1>5. QED
  BY <1>3, <1>4

\* insert_into_syn_leaf_locally finds what the image knows.
LEMMA SynKnowsMeans ==
  ASSUME ArrayInv, NEW e, e.key \in Key
  PROVE  SynKnows(e) <=> KnownInSyn(n, s, e.key)
<1>1. IsAt(syn, Position(syn, e.key), e.key) <=> s.rec[e.key] # Nil
  BY IsAtMeans DEF ArrayInv
<1>2. QED
  BY <1>1 DEF SynKnows, KnownInSyn, ArrayInv

LEMMA IntoSyn ==
  ASSUME ArrayInv, NEW k \in Key, NEW v \in Value, InsertIntoSyn(k, v)
  PROVE  ArrayInv'
<1>1. PICK e : e = [key |-> k, value |-> v]
  BY Zenon
<1>2. e.key = k
  BY <1>1
<1>3. /\ ~SynKnows(e) /\ StoreInSyn(e) /\ ImageInSyn(k, v)
      /\ hasSyn' /\ leaf' = leaf /\ n' = [n EXCEPT !.syn = TheSyn]
  BY <1>1 DEF InsertIntoSyn
<1>4. ~(n.syn # Nil /\ s.rec[k] # Nil)
  BY <1>2, <1>3, SynKnowsMeans DEF KnownInSyn
<1>5. Stores(syn', s')
  BY <1>1, <1>3, <1>4, StoreInSynIs
<1>6. Stores(leaf', n') /\ n'.syn # Nil
  BY <1>3, PointerSet DEF ArrayInv
<1>7. QED
  BY <1>3, <1>5, <1>6 DEF ArrayInv

LEMMA IntoLeaf ==
  ASSUME ArrayInv, NEW k \in Key, NEW v \in Value, InsertIntoLeaf(k, v)
  PROVE  ArrayInv'
<1>1. PICK p : p = Position(leaf, k)
  BY Zenon
<1>2. PICK j : j = FirstNull(leaf, p)
  BY Zenon
<1>3. /\ p <= Span /\ ~IsAt(leaf, p, k)
      /\ leaf' = ShiftIn(leaf, p, LastSlot(j), [key |-> k, value |-> v])
  BY <1>1, <1>2 DEF InsertIntoLeaf
<1>4. Stores(leaf, n) /\ Stores(syn, s) /\ leaf \in Records
  BY DEF ArrayInv, Stores
<1>5. p \in Slot /\ n.rec[k] = Nil
  <2>1. p # Span + 1
    BY <1>3, SpanAssumption
  <2>2. QED
    BY <1>1, <1>3, <1>4, <2>1, OffMeans, IsAtMeans
<1>6. Stores(leaf', IF Full(n) THEN PutOverflow(n, k, v) ELSE Put(n, k, v))
  BY <1>1, <1>2, <1>3, <1>4, <1>5, LeafStore
<1>7. (j = Span + 1 <=> Full(n)) /\ (j # Span + 1 <=> j \in Slot)
  BY <1>2, <1>4, <1>5, NoNullMeans
<1>8. CASE j <= Span
  <2>1. n' = Put(n, k, v) /\ syn' = syn /\ hasSyn' = hasSyn /\ s' = s
    BY <1>1, <1>2, <1>8, SpanAssumption DEF InsertIntoLeaf
  <2>2. ~Full(n)
    BY <1>7, <1>8, SpanAssumption
  <2>3. n'.syn = n.syn
    BY <2>1 DEF Put
  <2>4. QED
    BY <1>4, <1>6, <2>1, <2>2, <2>3 DEF ArrayInv
<1>9. CASE ~(j <= Span)
  <2>1. j = Span + 1 /\ Full(n)
    BY <1>7, <1>9, SlotFacts
  <2>2. PICK e : e = leaf[Span]
    BY Zenon
  <2>3. PICK l : l = LastKey(n)
    BY Zenon
  <2>4. l \in Key /\ l = e.key /\ n.rec[l] = e.value /\ e.value \in Value
        /\ e \in [key : Key, value : Value]
    <3>1. e.key # 0
      BY <1>4, <2>1, <2>2, FullIs
    <3>2. e.key \in Key /\ e.value \in Value /\ e \in [key : Key, value : Value] \cup {Null}
      BY <1>4, <2>2, <3>1, RecordFacts, SlotFacts
    <3>3. e \in [key : Key, value : Value]
      BY <3>1, <3>2 DEF Null
    <3>4. QED
      BY <1>4, <2>2, <2>3, <3>1, <3>2, <3>3, LastKeyIs
  <2>5. e = [key |-> l, value |-> n.rec[l]]
    BY <2>4
  <2>6. /\ ~SynKnows(e) /\ StoreInSyn(e) /\ hasSyn'
        /\ n' = [PutOverflow(n, k, v) EXCEPT !.syn = TheSyn]
        /\ ImageInSyn(l, n.rec[l])
    BY <1>1, <1>2, <1>9, <2>2, <2>3 DEF InsertIntoLeaf
  <2>7. ~(n.syn # Nil /\ s.rec[l] # Nil)
    BY <2>4, <2>6, SynKnowsMeans DEF KnownInSyn
  <2>8. Stores(syn', s')
    BY <2>4, <2>5, <2>6, <2>7, StoreInSynIs
  <2>9. Stores(leaf', n') /\ n'.syn # Nil
    BY <1>6, <2>1, <2>6, PointerSet
  <2>10. QED
    BY <2>6, <2>8, <2>9 DEF ArrayInv
<1>10. QED
  BY <1>8, <1>9

LEMMA Updated ==
  ASSUME ArrayInv, NEW k \in Key, NEW v \in Value, Update(k, v)
  PROVE  ArrayInv'
<1>1. CASE /\ Holds(leaf, k)
           /\ leaf' = [leaf EXCEPT ![SlotOf(leaf, k)].value = v]
           /\ n' = Put(n, k, v)
           /\ UNCHANGED <<syn, hasSyn, s>>
  <2>1. Stores(leaf', n')
    BY <1>1, UpdateStore DEF ArrayInv
  <2>2. n'.syn = n.syn
    BY <1>1 DEF Put
  <2>3. QED
    BY <1>1, <2>1, <2>2 DEF ArrayInv
<1>2. CASE /\ Holds(syn, k)
           /\ syn' = [syn EXCEPT ![SlotOf(syn, k)].value = v]
           /\ s' = Put(s, k, v)
           /\ UNCHANGED <<leaf, hasSyn, n>>
  <2>1. Stores(syn', s')
    BY <1>2, UpdateStore DEF ArrayInv
  <2>2. QED
    BY <1>2, <2>1 DEF ArrayInv
<1>3. QED
  BY <1>1, <1>2 DEF Update

LEMMA ArrayInvAlways == Spec => []ArrayInv
<1>1. Init => ArrayInv
  <2> SUFFICES ASSUME Init
               PROVE  ArrayInv
    OBVIOUS
  <2>1. Zeroed \in Records /\ \A i \in Slot : Zeroed[i].key = 0
    BY DEF Zeroed, Records, Slot, Null
  <2>2. EmptyNode \in Node /\ \A k \in Key : EmptyNode.rec[k] = Nil
    BY DEF EmptyNode, Node, MaybeValue
  <2>3. Stores(Zeroed, EmptyNode)
    BY <2>1, <2>2 DEF Stores, Ascending, Shows
  <2>4. EmptyNode.syn = Nil
    BY DEF EmptyNode
  <2>5. QED
    BY <2>3, <2>4 DEF Init, ArrayInv
<1>2. ArrayInv /\ [Next]_vars => ArrayInv'
  <2> SUFFICES ASSUME ArrayInv, [Next]_vars
               PROVE  ArrayInv'
    OBVIOUS
  <2>1. CASE UNCHANGED vars
    BY <2>1 DEF ArrayInv, vars
  <2>2. CASE \E k \in Key, v \in Value :
                 InsertIntoSyn(k, v) \/ InsertIntoLeaf(k, v) \/ Update(k, v)
    BY <2>2, IntoSyn, IntoLeaf, Updated
  <2>3. QED
    BY <2>1, <2>2 DEF Next, InsertExists
<1>3. QED
  BY <1>1, <1>2, PTL DEF Spec

\* The loops of insert, insert_into_syn_leaf_locally and update keep both arrays
\* sorted without gaps and do to them what LeafImage does to the images, for every
\* span, key set and sequence of calls; insert gives up exactly when LeafImage does.
THEOREM LoopsComputeImages == Spec => []ArraysMatchImages
<1>1. ArrayInv => ArraysMatchImages
  <2> SUFFICES ASSUME ArrayInv
               PROVE  ArraysMatchImages
    OBVIOUS
  <2>1. /\ Stores(leaf, n) /\ Stores(syn, s)
        /\ leaf \in Records /\ syn \in Records /\ Ascending(leaf) /\ Ascending(syn)
        /\ n.rec \in [Key -> MaybeValue] /\ s.rec \in [Key -> MaybeValue]
    BY DEF ArrayInv, Stores, Node
  <2>2. SortedPrefix(leaf) /\ SortedPrefix(syn)
    BY <2>1, AscendingIs
  <2>3. MapOf(leaf) = n.rec /\ MapOf(syn) = s.rec
    BY <2>1, MapIs DEF Stores
  <2>4. ASSUME NEW k \in Key, NEW i, i = Position(leaf, k)
        PROVE  GivesUp(n, s, k) <=>
                   \/ IsAt(leaf, i, k)
                   \/ i = Span + 1 /\ SynKnows([key |-> k, value |-> Nil])
                   \/ i <= Span /\ FirstNull(leaf, i) = Span + 1 /\ SynKnows(leaf[Span])
    <3>1. IsAt(leaf, i, k) <=> n.rec[k] # Nil
      BY <2>1, <2>4, IsAtMeans
    <3>2. (i = Span + 1 <=> Beyond(n, k)) /\ (i # Span + 1 <=> i \in Slot)
      BY <2>1, <2>4, OffMeans
    <3>3. i <= Span <=> i \in Slot
      <4>1. i \in Slot => i <= Span
        BY SlotFacts
      <4>2. ~(Span + 1 <= Span)
        BY SpanAssumption
      <4>3. QED
        BY <3>2, <4>1, <4>2
    <3>4. SynKnows([key |-> k, value |-> Nil]) <=> KnownInSyn(n, s, k)
      <4>1. PICK e : e = [key |-> k, value |-> Nil]
        BY Zenon
      <4>2. e.key = k
        BY <4>1
      <4>3. QED
        BY <4>1, <4>2, SynKnowsMeans
    <3>5. i \in Slot => (FirstNull(leaf, i) = Span + 1 <=> Full(n))
      BY <2>1, NoNullMeans
    <3>6. Full(n) => (SynKnows(leaf[Span]) <=> KnownInSyn(n, s, LastKey(n)))
      <4>1. Full(n) => leaf[Span].key # 0 /\ leaf[Span].key \in Key
                       /\ LastKey(n) = leaf[Span].key
        BY <2>1, FullIs, LastKeyIs, RecordFacts, SlotFacts
      <4>2. QED
        BY <4>1, SynKnowsMeans
    <3>7. QED
      BY <3>1, <3>2, <3>3, <3>4, <3>5, <3>6 DEF GivesUp
  <2>5. QED
    BY <2>2, <2>3, <2>4 DEF ArraysMatchImages, ArrayInv
<1>2. QED
  BY <1>1, ArrayInvAlways, PTL
=============================================================================
