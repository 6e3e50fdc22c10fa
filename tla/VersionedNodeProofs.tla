------------------------- MODULE VersionedNodeProofs -------------------------
(***************************************************************************)
(* Proof that a read accepted by the version check is a snapshot, for any  *)
(* number of cache lines that all hold a version byte, any version width,  *)
(* and any number of writes.                                               *)
(***************************************************************************)
EXTENDS VersionedNode, TLAPS

\* Versions that agree come from the same write, if the writes are less than
\* a whole cycle of versions apart.
LEMMA SameVersion ==
    ASSUME NEW a \in Nat, NEW b \in Nat, NEW m \in Nat \ {0},
           a % m = b % m, a <= b, b - a < m
    PROVE  a = b
<1> DEFINE p == a \div m
           q == b \div m
<1>1. p \in Int
  OBVIOUS
<1>2. q \in Int
  OBVIOUS
<1>3. a = m * p + (a % m)
  OBVIOUS
<1>4. b = m * q + (b % m)
  OBVIOUS
<1>5. p \in Int /\ q \in Int /\ b - a = m * q - m * p
  <2>1. a % m \in Int
    OBVIOUS
  <2> HIDE DEF p, q
  <2>2. QED
    BY <1>1, <1>2, <1>3, <1>4, <2>1
<1> HIDE DEF p, q
<1>6. b - a = m * (q - p)
  BY <1>5
<1>7. CASE q = p
  BY <1>5, <1>7
<1>8. CASE q >= p + 1
  <2>1. m * (q - p) >= m
    BY <1>5, <1>8
  <2>2. QED
    BY <1>6, <2>1
<1>9. CASE q <= p - 1
  <2>1. m * (q - p) < 0
    BY <1>5, <1>9
  <2>2. QED
    BY <1>6, <2>1
<1>10. QED
  BY <1>5, <1>7, <1>8, <1>9

\* Memory holds the latest write, but for the lines that are still pending.
Written ==
    \A l \in Line : mem[l] = IF l \in pending THEN gen - 1 ELSE gen

\* What the reader has fetched lies between what memory held when it began
\* and what memory holds now; a write that lies between the two everywhere
\* was in memory as a whole.
Fetched ==
    rd = "reading" =>
        /\ \A l \in Line : floor[l] <= mem[l] /\ gen - floor[l] < Modulus
        /\ \A l \in Line \ unread : floor[l] <= buf[l] /\ buf[l] <= mem[l]
        /\ \A g \in 0 .. MaxWrites :
               (\A l \in Line : floor[l] <= g /\ g <= mem[l]) => g \in seen

IInv ==
    /\ TypeOK
    /\ pending # {} => gen > 0
    /\ Written
    /\ Fetched
    /\ ReadsAreSnapshots

\* The inductive invariant holds at the start.
LEMMA InitInv == Init => IInv
BY LineAssumption, MaxWritesAssumption, ModulusAssumption
   DEF Init, IInv, TypeOK, Written, Fetched, ReadsAreSnapshots

\* An image that passes the check is one write's, and memory held it.
LEMMA Accepts ==
    ASSUME IInv, Accept, Tagged = Line
    PROVE  ReadsAreSnapshots'
<1>1. /\ \A l \in Line : /\ buf[l] \in Nat /\ floor[l] \in Nat /\ mem[l] \in Nat
                         /\ floor[l] <= buf[l] /\ buf[l] <= mem[l]
                         /\ mem[l] <= gen /\ gen - floor[l] < Modulus
      /\ gen \in Nat /\ MaxWrites \in Nat /\ gen <= MaxWrites
  BY MaxWritesAssumption DEF IInv, TypeOK, Fetched, Written, Accept
<1>2. PICK k \in Line : TRUE
  BY LineAssumption
<1>3. ASSUME NEW l \in Line PROVE buf[l] = buf[k]
  <2>1. buf[l] % Modulus = buf[k] % Modulus
    BY <1>2, <1>3 DEF Accept, Consistent, NodeVersion
  <2>2. \A i, j \in Line : buf[j] - buf[i] < Modulus
    <3>1. TAKE i, j \in Line
    <3>2. gen - floor[i] < Modulus /\ floor[i] <= buf[i] /\ buf[j] <= gen
      BY <1>1, <3>1
    <3>3. QED
      BY <1>1, <3>1, <3>2, ModulusAssumption
  <2>3. CASE buf[l] <= buf[k]
    BY <1>1, <1>2, <1>3, <2>1, <2>2, <2>3, SameVersion, ModulusAssumption
  <2>4. CASE buf[k] <= buf[l]
    BY <1>1, <1>2, <1>3, <2>1, <2>2, <2>4, SameVersion, ModulusAssumption
  <2>5. QED
    BY <1>1, <1>2, <1>3, <2>3, <2>4
<1>4. buf[k] \in 0 .. MaxWrites
  BY <1>1, <1>2
<1>5. \A l \in Line : floor[l] <= buf[k] /\ buf[k] <= mem[l]
  BY <1>1, <1>3
<1>6. buf[k] \in seen
  BY <1>4, <1>5 DEF IInv, Fetched, Accept
<1>7. buf' = buf /\ seen' = seen
  BY DEF Accept
<1>8. QED
  BY <1>3, <1>6, <1>7 DEF ReadsAreSnapshots

\* Every step preserves the invariant.
LEMMA NextInv ==
    ASSUME Tagged = Line
    PROVE  IInv /\ [Next]_vars => IInv'
<1> SUFFICES ASSUME IInv, [Next]_vars PROVE IInv'
  OBVIOUS
<1>0. /\ gen \in Nat /\ MaxWrites \in Nat /\ Modulus \in Nat /\ Modulus > 0
      /\ mem \in [Line -> Nat] /\ floor \in [Line -> Nat]
      /\ buf \in [Line -> Nat]
  BY MaxWritesAssumption, ModulusAssumption DEF IInv, TypeOK
<1>1. CASE BeginWrite
  <2>1. TypeOK' /\ pending' # {} => gen' > 0
    BY <1>0, <1>1 DEF BeginWrite, IInv, TypeOK, readVars
  <2>2. Written'
    BY <1>0, <1>1 DEF BeginWrite, IInv, Written
  <2>3. Fetched'
    BY <1>0, <1>1 DEF BeginWrite, NoWrap, IInv, Fetched, readVars
  <2>4. TypeOK' /\ ReadsAreSnapshots'
    BY <1>0, <1>1 DEF BeginWrite, IInv, TypeOK, ReadsAreSnapshots, readVars
  <2>5. QED
    BY <1>0, <1>1, <2>2, <2>3, <2>4 DEF IInv, BeginWrite
<1>2. ASSUME NEW k \in Line, WriteLine(k) PROVE IInv'
  <2>1. /\ k \in pending /\ mem' = [mem EXCEPT ![k] = gen]
        /\ pending' = pending \ {k} /\ gen' = gen
        /\ rd' = rd /\ unread' = unread /\ buf' = buf /\ floor' = floor
        /\ seen' = seen \cup Whole(mem')
    BY <1>2 DEF WriteLine, SeenNow, readVars
  <2>2. gen > 0 /\ mem[k] = gen - 1
    BY <2>1 DEF IInv, Written
  <2>3. TypeOK' /\ ReadsAreSnapshots'
    BY <1>0, <2>1 DEF IInv, TypeOK, ReadsAreSnapshots, Whole
  <2>4. Written'
    BY <1>0, <2>1 DEF IInv, Written
  <2>5. Fetched'
    <3>1. SUFFICES ASSUME rd = "reading" PROVE Fetched'
      BY <2>1 DEF Fetched
    <3>2. \A l \in Line : mem[l] <= mem'[l]
      BY <1>0, <2>1, <2>2
    <3>3. \A l \in Line : floor[l] <= mem'[l] /\ gen - floor[l] < Modulus
      BY <1>0, <2>1, <2>2, <3>1 DEF IInv, Fetched
    <3>4. \A l \in Line \ unread : floor[l] <= buf[l] /\ buf[l] <= mem'[l]
      BY <1>0, <2>1, <2>2, <3>1 DEF IInv, Fetched
    <3>5. ASSUME NEW g \in 0 .. MaxWrites,
                 \A l \in Line : floor[l] <= g /\ g <= mem'[l]
          PROVE  g \in seen'
      <4>1. CASE g < gen
        <5>1. \A l \in Line : g <= mem[l]
          BY <1>0, <2>1, <2>2, <3>5, <4>1
        <5>2. QED
          BY <2>1, <3>1, <3>5, <5>1 DEF IInv, Fetched
      <4>2. CASE g >= gen
        <5>1. \A l \in Line : mem'[l] \in Nat /\ mem'[l] <= gen
          BY <1>0, <2>1 DEF IInv, Written
        <5>2. \A l \in Line : mem'[l] = g
          BY <1>0, <3>5, <4>2, <5>1
        <5>3. QED
          BY <2>1, <3>5, <5>2 DEF Whole
      <4>3. QED
        BY <1>0, <4>1, <4>2
    <3>6. QED
      BY <2>1, <3>3, <3>4, <3>5 DEF Fetched
  <2>6. QED
    BY <2>1, <2>2, <2>3, <2>4, <2>5 DEF IInv
<1>3. CASE StartRead
  <2>1. /\ rd' = "reading" /\ unread' = Line /\ buf' = [l \in Line |-> 0]
        /\ floor' = mem /\ seen' = Whole(mem)
        /\ gen' = gen /\ pending' = pending /\ mem' = mem
    BY <1>3 DEF StartRead, writeVars
  <2>2. TypeOK' /\ ReadsAreSnapshots' /\ Written'
    BY <1>0, <2>1 DEF IInv, TypeOK, ReadsAreSnapshots, Written, Whole
  <2>3. \A l \in Line : gen - mem[l] < Modulus
    <3>1. TAKE l \in Line
    <3>2. CASE l \in pending
      <4>1. mem[l] = gen - 1 /\ gen > 0
        BY <3>2 DEF IInv, Written
      <4>2. Modulus > 1
        BY ModulusAssumption
      <4>3. QED
        BY <1>0, <4>1, <4>2
    <3>3. CASE l \notin pending
      BY <1>0, <3>3 DEF IInv, Written
    <3>4. QED
      BY <3>2, <3>3
  <2>4. ASSUME NEW g \in 0 .. MaxWrites,
               \A l \in Line : mem[l] <= g /\ g <= mem[l]
        PROVE  g \in Whole(mem)
    BY <1>0, <2>4 DEF Whole
  <2>5. Fetched'
    BY <1>0, <2>1, <2>3, <2>4 DEF Fetched
  <2>6. QED
    BY <2>1, <2>2, <2>5 DEF IInv
<1>4. ASSUME NEW k \in Line, ReadLine(k) PROVE IInv'
  <2>1. TypeOK' /\ ReadsAreSnapshots' /\ Written'
    BY <1>0, <1>4 DEF ReadLine, IInv, TypeOK, ReadsAreSnapshots, Written,
       writeVars
  <2>2. Fetched'
    BY <1>0, <1>4 DEF ReadLine, IInv, Fetched, writeVars
  <2>3. QED
    BY <1>4, <2>1, <2>2 DEF IInv, ReadLine, writeVars
<1>5. CASE Accept
  <2>1. TypeOK' /\ Written' /\ Fetched'
    BY <1>0, <1>5 DEF Accept, IInv, TypeOK, Written, Fetched, writeVars
  <2>2. QED
    BY <1>5, <2>1, Accepts DEF IInv, Accept, writeVars
<1>6. CASE UNCHANGED vars
  BY <1>6 DEF IInv, TypeOK, Written, Fetched, ReadsAreSnapshots, vars,
     writeVars, readVars
<1>7. QED
  BY <1>1, <1>2, <1>3, <1>4, <1>5, <1>6 DEF Next, BeginRead, ReRead

\* fetch_node returns snapshots: where every cache line of a node holds a
\* version byte, an image decode_node_versions accepts was in memory as a
\* whole while it was read.
THEOREM AcceptedReadsAreSnapshots ==
    ASSUME Tagged = Line
    PROVE  Spec => []ReadsAreSnapshots
<1>1. IInv => ReadsAreSnapshots
  BY DEF IInv
<1>2. QED
  BY <1>1, InitInv, NextInv, PTL DEF Spec
=============================================================================
