---------------------------- MODULE LearnedIndex ----------------------------
(***************************************************************************)
(* The learned cache of a compute node: RolexCache of                      *)
(* src/include/RolexCache.h over Rolex and SubModel of                     *)
(* src/include/rolex_libs/rolex.  train() cuts the sorted loaded keys into *)
(* segments, one linear model and one run of leaves each; afterwards the   *)
(* models answer which leaves may hold a key, and which one it is inserted *)
(* in.  RolexIndex takes these answers as constants.                       *)
(***************************************************************************)
EXTENDS PLR, SequencesExt

CONSTANTS Loadable, \* the keys that may be loaded
          Epsilon,  \* define::epsilon
          Span      \* define::leafSpanSize

ASSUME ParamAssumption ==
    /\ Loadable \cup {Epsilon, Span} \subseteq Nat \ {0}
    /\ IsFiniteSet(Loadable)

VARIABLES
    int_keys,  \* the loaded keys, sorted, without duplicates
    next,      \* index in int_keys of the key train() looks at
    hull,      \* opt: the segment under construction
    pos,       \* keys in it
    models     \* the submodels so far

vars == <<int_keys, next, hull, pos, models>>

\* The constructor of RolexCache sorts the keys and drops duplicates.
Sorted(S) ==
    [i \in 1 .. Cardinality(S) |->
        CHOOSE k \in S : Cardinality({j \in S : j < k}) = i - 1]

\* The keys are loaded; train() has put the first in a segment.
Init ==
    /\ int_keys \in {Sorted(S) : S \in (SUBSET Loadable) \ {{}}}
    /\ next = 2
    /\ hull = AddPoint(NewHull, int_keys[1], 0, Epsilon - 1)
    /\ pos = 1
    /\ models = <<>>

RoundUp(n) == n \div Span + (IF n % Span = 0 THEN 0 ELSE 1)

\* Mutant of LeafNum: no spare leaf.
LeafNumExact(size) == size \div Span

\* SubModel: one leaf for Span keys, and one more.
LeafNum(size) == 1 + RoundUp(size)

\* append_model: the line of the segment, the number and the last of its keys,
\* and the leaves and keys of the segments before it.
AppendModel ==
    Append(models,
           [line |-> Line(hull), capacity |-> pos, key |-> int_keys[next - 1],
            leafOff |-> IF models = <<>> THEN 0
                        ELSE Last(models).leafOff + LeafNum(Last(models).capacity),
            capOff |-> IF models = <<>> THEN 0
                       ELSE Last(models).capOff + Last(models).capacity])

-----------------------------------------------------------------------------
(* train *)

\* The next key joins the segment, ...
Extend ==
    /\ next <= Len(int_keys)
    /\ Fits(hull, int_keys[next], pos, Epsilon - 1)
    /\ hull' = AddPoint(hull, int_keys[next], pos, Epsilon - 1)
    /\ pos' = pos + 1
    /\ next' = next + 1
    /\ UNCHANGED <<int_keys, models>>

\* ... or closes it and starts another.
Split ==
    /\ next <= Len(int_keys)
    /\ ~Fits(hull, int_keys[next], pos, Epsilon - 1)
    /\ models' = AppendModel
    /\ hull' = AddPoint(NewHull, int_keys[next], 0, Epsilon - 1)
    /\ pos' = 1
    /\ next' = next + 1
    /\ UNCHANGED int_keys

Finish ==
    /\ next = Len(int_keys) + 1
    /\ models' = AppendModel
    /\ next' = next + 1
    /\ UNCHANGED <<int_keys, hull, pos>>

Trained == next = Len(int_keys) + 2

Next == Extend \/ Split \/ Finish \/ (Trained /\ UNCHANGED vars)

Spec == Init /\ [][Next]_vars

-----------------------------------------------------------------------------
(* What the trained models answer *)

\* C++ division: towards zero.
Trunc(n, d) == IF n < 0 THEN -((-n) \div d) ELSE n \div d

\* Mutant of PredictRange: the error of the model is not added.
PredictRangeExact(m, k) ==
    LET at == Trunc(Trunc(m.line.sn * k, m.line.sd) * m.line.cd + m.line.cn, m.line.cd)
        in == IF at < 0 THEN 0 ELSE IF at >= m.capacity THEN m.capacity - 1 ELSE at
    IN  <<in \div Span, in \div Span>>

\* predict and get_predict_range.  at is pos as numerator over cd.  A bound
\* below 0 is cast to size_t, which C++ leaves open; whatever x86 makes of it
\* is 0 once divided by 16, cut to an int and compared with 0.
PredictRange(m, k) ==
    LET cd == m.line.cd
        at == Trunc(m.line.sn * k, m.line.sd) * cd + m.line.cn
        subEps == IF at <= Epsilon * cd THEN 0 ELSE at - Epsilon * cd
        hi == IF at + (Epsilon + 2) * cd >= m.capacity * cd
              THEN (m.capacity - 1) * cd
              ELSE at + (Epsilon + 2) * cd
        lo == IF subEps > hi THEN hi ELSE subEps
        LeafOf(n) == IF n < 0 THEN 0 ELSE (n \div cd) \div Span
    IN  <<LeafOf(lo), LeafOf(hi)>>

\* binary_search_branchless: steps of halving size from the power of two
\* below n; 0-based, n if every element is smaller.
Steps(n) == {s \in {1, 2, 4, 8, 16} : s <= n - 1}
LowerPos(arr, n, key) ==
    LET first == Max(Steps(n))
        Go(p, s) == IF arr[p + s + 1] < key THEN p + s ELSE p
        start == Go(-1, n - first)
        search[s \in {0} \cup {t \in Steps(n) : t < first}, p \in -1 .. n] ==
            IF s = 0 THEN p + 1 ELSE search[s \div 2, Go(p, s)]
        found == search[first \div 2, start]
    IN  IF arr[found + 1] >= key THEN found ELSE n

\* Mutant of ModelForKey: a key goes to the segment that ends before it.
ModelForKeyBefore(k) ==
    LET idx == Cardinality({i \in DOMAIN models : models[i].key <= k})
    IN  IF idx < Len(models) THEN idx ELSE Len(models) - 1

\* model_for_key.  With a single model bsr(0) is undefined, but every index
\* the search can come up with is replaced by 0 here.
ModelForKey(k) ==
    LET n == Len(models)
        idx == IF n = 1 THEN 0 ELSE LowerPos([i \in 1 .. n |-> models[i].key], n, k)
    IN  IF idx < n THEN idx ELSE n - 1

Model(k) == models[ModelForKey(k) + 1]

\* search_from_cache: the leaves a search for k reads.
LeafLo(k) == Model(k).leafOff + PredictRange(Model(k), k)[1]
LeafHi(k) == Model(k).leafOff + PredictRange(Model(k), k)[2]

\* search_from_cache_for_insert: the leaf k is inserted in.
InsertIdx(k) ==
    LET globalKeyIdx == Cardinality({i \in DOMAIN int_keys : int_keys[i] < k})
    IN  Model(k).leafOff + Trunc(globalKeyIdx - Model(k).capOff, Span)

\* Mutant of SearchRange: both ends are offset by the first key's model.
SearchRangeOneOffset(from, to) ==
    <<LeafLo(from), Model(from).leafOff + PredictRange(Model(to), to)[2]>>

\* search_range_from_cache: the leaves a range query reads.
SearchRange(from, to) == <<LeafLo(from), LeafHi(to)>>

-----------------------------------------------------------------------------
Key == 0 .. Max(Loadable) + 1
Leaves == IF models = <<>> THEN 0
          ELSE Last(models).leafOff + LeafNum(Last(models).capacity)

\* train() is the optimal segmentation: the keys of a segment lie within
\* Epsilon - 1 of a line, and with the first key of the next segment they
\* would not.  The hulls that make add_point fast lose no line.
SegmentsAreMaximal ==
    Trained => \A i \in DOMAIN models :
        LET m == models[i]
            upTo(j) == SubSeq(int_keys, m.capOff + 1, j)
            last == m.capOff + m.capacity
        IN  /\ Fittable(upTo(last), Epsilon - 1)
            /\ i < Len(models) => ~Fittable(upTo(last + 1), Epsilon - 1)

\* model_for_key finds the segment of a key: the first that ends at the key or
\* after it, and the last one for keys beyond all loaded ones.
RightModel ==
    Trained => \A k \in Key :
        LET i == ModelForKey(k) + 1
        IN  /\ ModelForKey(k) \in 0 .. Len(models) - 1
            /\ i < Len(models) => models[i].key >= k
            /\ i > 1 => models[i - 1].key < k

InRange(k) == LeafLo(k) <= InsertIdx(k) /\ InsertIdx(k) <= LeafHi(k)

\* A key inserted, loaded or not, goes to a leaf that every search for the key
\* reads: the prediction is off by no more than the range allows for, between
\* the loaded keys and before the first as well; and the search reads only leaves
\* of the table.
InsertedWhereSearched ==
    Trained => \A k \in Key : k <= Last(int_keys) =>
        InRange(k) /\ LeafLo(k) \in Nat /\ LeafHi(k) \in 0 .. Leaves - 1

\* assert(insert_idx >= l && insert_idx <= r) of search_from_cache_for_insert,
\* for every key.
InsertAssert == Trained => \A k \in Key : InRange(k)

\* search_range_from_cache: the leaves from the first of `from' to the last of
\* `to' include the leaf of every key between them.
RangeCovers ==
    Trained => \A from \in 0 .. Last(int_keys) : \A to \in from .. Last(int_keys) :
        LET range == SearchRange(from, to)
        IN  \A k \in from .. to :
                range[1] <= InsertIdx(k) /\ InsertIdx(k) <= range[2]

\* Bulk loading fills no leaf beyond its Span, so it needs no synonym leaf,
\* and no leaf receives keys of two segments or lies outside the table.
LoadFits ==
    Trained => \A l \in 0 .. Leaves :
        LET here == {k \in Range(int_keys) : InsertIdx(k) = l}
        IN  /\ Cardinality(here) <= Span
            /\ here # {} => l < Leaves
            /\ \A j, k \in here : ModelForKey(j) = ModelForKey(k)
=============================================================================
