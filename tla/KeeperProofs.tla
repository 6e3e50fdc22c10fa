---------------------------- MODULE KeeperProofs ----------------------------
(***************************************************************************)
(* The start of a cluster, for every number of nodes, threads, directories *)
(* and sums: the barriers hold, the queue pairs are paired, and, as long   *)
(* as a node's number has one digit, a sum is that of its round.           *)
(*                                                                         *)
(* Node numbers are unique.  The counter of a barrier is created once and  *)
(* counts the nodes that have come, so it reaches the number of nodes only *)
(* when all have.  Whoever has come to the first barrier is done with      *)
(* connecting, and connecting with number j used what the one node with    *)
(* number j had left in memcached.                                         *)
(***************************************************************************)
EXTENDS Keeper, FiniteSetTheorems, TLAPS

\* Zenon first: most leaves are first-order.
USE ZenonT(2), SMTT(40), ZenonT(40)

Connecting == {"enter", "poll", "connect", "get"}
Gate == {"reset", "add", "wait"}
Beyond == {"run", "sum", "summed", "done"}

\* A queue pair that is up, and leads to queue pair n.
Up(n) == [state |-> "RTS", dest |-> n]
Qpn == {AppQpn(p, i, t, d) : p \in Node, i \in Id, t \in AppThread, d \in Directory}
       \cup {DirQpn(p, i, d, t) : p \in Node, i \in Id, t \in AppThread, d \in Directory}
QueuePair == {createQueuePair} \cup {Up(n) : n \in Qpn}
Info == {None} \cup {RemoteInfo(LocalMeta(p, i)) : p \in Node, i \in Id}

Typed ==
    /\ serverNum \in Nat
    /\ counter \in [Barrier -> Int]
    /\ pc \in [Node -> Connecting \cup Gate \cup Beyond]
    /\ myNodeID \in [Node -> Id \cup {-1}]
    /\ curServer \in [Node -> Nat]
    /\ seen \in [Node -> Nat]
    /\ k \in [Node -> Nat]
    /\ count \in [Node -> Nat]
    /\ passed \in [Barrier -> SUBSET Node]

\* The numbers of the nodes that entered are theirs alone.
Numbers ==
    /\ \A p \in Node : pc[p] = "enter" <=> myNodeID[p] = -1
    /\ \A p, q \in Node : myNodeID[p] = myNodeID[q] /\ myNodeID[p] # -1 => p = q
    /\ ~staticId => \A p \in Node : myNodeID[p] < serverNum

\* Where a node can be, by the barriers it has passed.
Stages ==
    \A p \in Node :
        /\ pc[p] \in IF p \in passed["DSM-init"] THEN Gate \cup Beyond
                     ELSE Connecting \cup Gate
        /\ p \in passed["fin"] <=> pc[p] = "done"
        /\ p \in passed["DSM-init"] /\ pc[p] \in Gate \cup {"done"} => count[p] = Rounds
        /\ pc[p] = "reset" => myNodeID[p] = 0
        /\ pc[p] = "enter" => curServer[p] = 0

\* p has created the counter of b, if that was its task; p is counted in it.
Created(p, b) ==
    IF b = "fin" THEN p \in passed["DSM-init"] /\ pc[p] \in {"add", "wait", "done"}
    ELSE p \in passed["DSM-init"] \/ pc[p] \in {"add", "wait"}
Counted(p, b) ==
    IF b = "fin" THEN p \in passed["DSM-init"] /\ pc[p] \in {"wait", "done"}
    ELSE p \in passed["DSM-init"] \/ pc[p] = "wait"

Counts(b) ==
    /\ \/ counter[b] = -1 /\ \A p \in Node : ~Counted(p, b)
       \/ /\ counter[b] = Cardinality({p \in Node : Counted(p, b)})
          /\ \E p \in Node : myNodeID[p] = 0 /\ Created(p, b)
    /\ passed[b] # {} => \A p \in Node : Counted(p, b)

\* The inductive invariant of the barriers.
Ordered == Typed /\ Numbers /\ Stages /\ \A b \in Barrier : Counts(b)

\* What memcached holds of a node was written by it.
Metas ==
    \A e \in DOMAIN meta : \E q \in Node :
        myNodeID[q] = e[1] /\ e[1] \in Id /\ meta[e] = LocalMeta(q, e[2])

\* p is connected with q; p has connected with number j.
Linked(p, q) ==
    LET i == myNodeID[p]
        j == myNodeID[q]
    IN  /\ \A t \in AppThread, d \in Directory :
               /\ data[p][j][t][d] = Up(DirQpn(q, i, d, t))
               /\ data2app[p][j][d][t] = Up(AppQpn(q, i, t, d))
        /\ remoteInfo[p][j] = RemoteInfo(LocalMeta(q, i))
Reached(p, j) ==
    \/ pc[p] = "poll" /\ j < curServer[p] /\ j # myNodeID[p]
    \/ pc[p] \in {"connect", "get"} /\ j < k[p] /\ j # myNodeID[p]
    \/ pc[p] \in Gate \cup Beyond

QpTypes ==
    /\ data \in [Node -> [Id -> [AppThread -> [Directory -> QueuePair]]]]
    /\ data2app \in [Node -> [Id -> [Directory -> [AppThread -> QueuePair]]]]
    /\ remoteInfo \in [Node -> [Id -> Info]]

Links ==
    /\ QpTypes
    /\ message = [n \in UdQpn |-> modifyUDtoRTS(createQueuePair)]
    /\ \A p \in Node, j \in Id :
           Reached(p, j) => \E q \in Node : myNodeID[q] = j /\ Linked(p, q)

\* The inductive invariant of the connections.
Paired == Ordered /\ Metas /\ Links

\* A value in memcached is that of the round in its key; node 0 has added up
\* those of the numbers below k.
Values ==
    \A e \in DOMAIN sums : \E r \in 0 .. Rounds, i \in Id :
        e = SumKey(r, i) /\ sums[e] = Contribution(r)
Adding(p) ==
    /\ pc[p] = "sum" => /\ k[p] < MaxServer
                        /\ acc[p] = k[p] * Contribution(count[p])
    /\ pc[p] = "summed" /\ myNodeID[p] = 0
           => acc[p] = MaxServer * Contribution(count[p])

\* The inductive invariant of the sums.
Sums == acc \in [Node -> Nat] /\ Values /\ \A p \in Node : Adding(p)

-----------------------------------------------------------------------------
(* Types, numbers and stages *)

\* The numbers and the number of nodes.
LEMMA NodeFacts ==
  /\ MaxServer \in Nat \ {0}
  /\ Id \subseteq Nat
  /\ -1 \notin Id
  /\ \A i \in Id \cup {-1} : i \in Int
<1>1. MaxServer \in Nat \ {0}
  BY NodeAssumption, FS_CardinalityType, FS_EmptySet DEF MaxServer
<1>2. QED
  BY <1>1 DEF Id

\* A node does not touch the locals of another.
LEMMA OthersKeep ==
  ASSUME Typed, NEW p \in Node, Step(p), NEW q \in Node, q # p
  PROVE  /\ pc'[q] = pc[q] /\ myNodeID'[q] = myNodeID[q] /\ count'[q] = count[q]
         /\ curServer'[q] = curServer[q] /\ seen'[q] = seen[q] /\ k'[q] = k[q]
         /\ \A b \in Barrier : q \in passed'[b] <=> q \in passed[b]
<1> USE DEF Typed, Goto, connVars
<1>1. CASE ServerEnter(p)
  BY <1>1 DEF ServerEnter
<1>2. CASE ServerConnect(p)
  BY <1>2 DEF ServerConnect
<1>3. CASE SkipMyself(p)
  BY <1>3 DEF SkipMyself, NextServer
<1>4. CASE ConnectSet(p)
  BY <1>4 DEF ConnectSet
<1>5. CASE ConnectGet(p)
  BY <1>5 DEF ConnectGet, NextServer
<1>6. CASE Connected(p)
  BY <1>6 DEF Connected
<1>7. CASE BarrierReset(p)
  BY <1>7 DEF BarrierReset
<1>8. CASE BarrierAdd(p)
  BY <1>8 DEF BarrierAdd
<1>9. CASE BarrierWait(p)
  BY <1>9 DEF BarrierWait
<1>10. CASE SumSet(p)
  BY <1>10 DEF SumSet
<1>11. CASE SumGet(p)
  BY <1>11 DEF SumGet, NextServer
<1>12. CASE SumReturn(p)
  BY <1>12 DEF SumReturn
<1>13. CASE Finish(p)
  BY <1>13 DEF Finish
<1>14. QED
  BY <1>1, <1>2, <1>3, <1>4, <1>5, <1>6, <1>7, <1>8, <1>9, <1>10, <1>11,
     <1>12, <1>13 DEF Step

LEMMA TypedStep ==
  ASSUME Typed, NEW p \in Node, Step(p)
  PROVE  Typed'
<1>0. At(p) \in Barrier
  BY DEF At, Barrier
<1> USE DEF Typed, Goto, connVars, memc, Connecting, Gate, Beyond
<1>1. CASE ServerEnter(p)
  BY <1>0, <1>1 DEF ServerEnter
<1>2. CASE ServerConnect(p)
  BY <1>0, <1>2 DEF ServerConnect
<1>3. CASE SkipMyself(p)
  BY <1>0, <1>3 DEF SkipMyself, NextServer
<1>4. CASE ConnectSet(p)
  BY <1>0, <1>4 DEF ConnectSet
<1>5. CASE ConnectGet(p)
  BY <1>0, <1>5 DEF ConnectGet, NextServer
<1>6. CASE Connected(p)
  BY <1>0, <1>6 DEF Connected
<1>7. CASE BarrierReset(p)
  BY <1>0, <1>7 DEF BarrierReset
<1>8. CASE BarrierAdd(p)
  BY <1>0, <1>8 DEF BarrierAdd
<1>9. CASE BarrierWait(p)
  BY <1>0, <1>9 DEF BarrierWait
<1>10. CASE SumSet(p)
  BY <1>0, <1>10 DEF SumSet
<1>11. CASE SumGet(p)
  BY <1>0, <1>11 DEF SumGet, NextServer
<1>12. CASE SumReturn(p)
  BY <1>0, <1>12 DEF SumReturn
<1>13. CASE Finish(p)
  BY <1>0, <1>13 DEF Finish
<1>14. QED
  BY <1>1, <1>2, <1>3, <1>4, <1>5, <1>6, <1>7, <1>8, <1>9, <1>10, <1>11,
     <1>12, <1>13 DEF Step

\* A node gets a number that nobody has, and keeps it.
LEMMA NumbersStep ==
  ASSUME Typed, Numbers, NEW p \in Node, Step(p)
  PROVE  Numbers'
<1>1. CASE ServerEnter(p)
  <2>1. PICK i \in Id :
            /\ IF staticId THEN \A q \in Node : myNodeID[q] # i ELSE i = serverNum
            /\ myNodeID' = [myNodeID EXCEPT ![p] = i]
    BY <1>1 DEF ServerEnter
  <2>2. i \in Nat /\ i # -1
    BY NodeFacts
  <2>3. /\ pc[p] = "enter" /\ pc' = [pc EXCEPT ![p] = "poll"]
        /\ serverNum' = serverNum + 1 /\ staticId' = staticId
    BY <1>1 DEF ServerEnter, Goto
  <2>4. myNodeID'[p] = i /\ \A q \in Node : q # p => myNodeID'[q] = myNodeID[q]
    BY <2>1 DEF Typed
  <2>5. pc'[p] = "poll" /\ \A q \in Node : q # p => pc'[q] = pc[q]
    BY <2>3 DEF Typed
  <2>6. ASSUME NEW q \in Node
        PROVE  myNodeID[q] # i
    <3>1. CASE staticId
      BY <2>1, <3>1
    <3>2. CASE ~staticId
      <4>1. i = serverNum /\ myNodeID[q] < serverNum
        BY <2>1, <3>2 DEF Numbers
      <4>2. QED
        BY <4>1, <2>2
    <3>3. QED
      BY <3>1, <3>2
  <2>7. \A q \in Node : pc'[q] = "enter" <=> myNodeID'[q] = -1
    BY <2>2, <2>4, <2>5 DEF Numbers
  <2>8. \A q, r \in Node : myNodeID'[q] = myNodeID'[r] /\ myNodeID'[q] # -1 => q = r
    BY <2>4, <2>6 DEF Numbers
  <2>9. ~staticId' => \A q \in Node : myNodeID'[q] < serverNum'
    <3>1. ASSUME ~staticId, NEW q \in Node
          PROVE  myNodeID'[q] < serverNum + 1
      <4>1. i = serverNum /\ myNodeID[q] < serverNum
        BY <2>1, <3>1 DEF Numbers
      <4>2. myNodeID[q] \in Int /\ serverNum \in Int
        <5>1. myNodeID[q] \in Id \cup {-1} /\ serverNum \in Nat
          BY DEF Typed
        <5>2. myNodeID[q] \in Int
          BY <5>1, NodeFacts
        <5>3. QED
          BY <5>1, <5>2
      <4>3. QED
        BY <2>4, <4>1, <4>2
    <3>2. QED
      BY <2>3, <3>1
  <2>10. QED
    BY <2>7, <2>8, <2>9 DEF Numbers
<1>2. CASE ~ServerEnter(p)
  <2>1. /\ myNodeID' = myNodeID /\ serverNum' = serverNum /\ staticId' = staticId
        /\ pc[p] # "enter" /\ pc'[p] # "enter"
    <3> USE DEF Goto, memc, connVars, Typed
    <3>1. CASE ServerConnect(p)
      BY <3>1 DEF ServerConnect
    <3>2. CASE SkipMyself(p)
      BY <3>2 DEF SkipMyself, NextServer
    <3>3. CASE ConnectSet(p)
      BY <3>3 DEF ConnectSet
    <3>4. CASE ConnectGet(p)
      BY <3>4 DEF ConnectGet, NextServer
    <3>5. CASE Connected(p)
      BY <3>5 DEF Connected
    <3>6. CASE BarrierReset(p)
      BY <3>6 DEF BarrierReset
    <3>7. CASE BarrierAdd(p)
      BY <3>7 DEF BarrierAdd
    <3>8. CASE BarrierWait(p)
      BY <3>8 DEF BarrierWait
    <3>9. CASE SumSet(p)
      BY <3>9 DEF SumSet
    <3>10. CASE SumGet(p)
      BY <3>10 DEF SumGet, NextServer
    <3>11. CASE SumReturn(p)
      BY <3>11 DEF SumReturn
    <3>12. CASE Finish(p)
      BY <3>12 DEF Finish
    <3>13. QED
      BY <1>2, <3>1, <3>2, <3>3, <3>4, <3>5, <3>6, <3>7, <3>8, <3>9, <3>10, <3>11,
         <3>12 DEF Step
  <2>2. \A q \in Node : pc'[q] = "enter" <=> pc[q] = "enter"
    BY <2>1, OthersKeep
  <2>3. QED
    BY <2>1, <2>2 DEF Numbers
<1>3. QED
  BY <1>1, <1>2

\* What a node does, by where it is.
LEMMA StagesStep ==
  ASSUME Typed, Stages, NEW p \in Node, Step(p)
  PROVE  Stages'
<1> DEFINE Right(q) ==
      /\ pc'[q] \in IF q \in passed'["DSM-init"] THEN Gate \cup Beyond
                    ELSE Connecting \cup Gate
      /\ q \in passed'["fin"] <=> pc'[q] = "done"
      /\ q \in passed'["DSM-init"] /\ pc'[q] \in Gate \cup {"done"}
             => count'[q] = Rounds
      /\ pc'[q] = "reset" => myNodeID'[q] = 0
      /\ pc'[q] = "enter" => curServer'[q] = 0
<1>1. ASSUME NEW q \in Node, q # p
      PROVE  Right(q)
  <2>1. /\ pc'[q] = pc[q] /\ myNodeID'[q] = myNodeID[q] /\ count'[q] = count[q]
        /\ q \in passed'["DSM-init"] <=> q \in passed["DSM-init"]
        /\ q \in passed'["fin"] <=> q \in passed["fin"]
        /\ curServer'[q] = curServer[q]
    BY <1>1, OthersKeep DEF Barrier
  <2>2. QED
    BY <2>1 DEF Stages
<1>2. Right(p)
  <2> USE DEF Typed, Stages, Goto, connVars, Barrier, Connecting, Gate, Beyond
  <2>1. CASE ServerEnter(p)
    BY <2>1 DEF ServerEnter
  <2>2. CASE ServerConnect(p)
    BY <2>2 DEF ServerConnect
  <2>3. CASE SkipMyself(p)
    BY <2>3 DEF SkipMyself, NextServer
  <2>4. CASE ConnectSet(p)
    BY <2>4 DEF ConnectSet
  <2>5. CASE ConnectGet(p)
    BY <2>5 DEF ConnectGet, NextServer
  <2>6. CASE Connected(p)
    BY <2>6 DEF Connected
  <2>7. CASE BarrierReset(p)
    BY <2>7 DEF BarrierReset
  <2>8. CASE BarrierAdd(p)
    BY <2>8 DEF BarrierAdd
  <2>9. CASE BarrierWait(p)
    BY <2>9 DEF BarrierWait, At
  <2>10. CASE SumSet(p)
    BY <2>10 DEF SumSet
  <2>11. CASE SumGet(p)
    BY <2>11 DEF SumGet, NextServer
  <2>12. CASE SumReturn(p)
    BY <2>12 DEF SumReturn
  <2>13. CASE Finish(p)
    BY <2>13 DEF Finish
  <2>14. QED
    BY <2>1, <2>2, <2>3, <2>4, <2>5, <2>6, <2>7, <2>8, <2>9, <2>10, <2>11,
       <2>12, <2>13 DEF Step
<1>3. QED
  BY <1>1, <1>2 DEF Stages

-----------------------------------------------------------------------------
(* The counters of the barriers *)

\* A step of p makes it counted only where it adds, and it stays counted.
LEMMA PlaceStep ==
  ASSUME Typed, Numbers, Stages, NEW p \in Node, Step(p), NEW b \in Barrier
  PROVE  /\ Counted(p, b) => Counted(p, b)'
         /\ Created(p, b) => Created(p, b)'
         /\ Counted(p, b)' /\ ~Counted(p, b) => BarrierAdd(p) /\ b = At(p)
         /\ counter'[b] # counter[b] =>
                b = At(p) /\ (BarrierReset(p) \/ BarrierAdd(p))
         /\ passed'[b] # passed[b] => b = At(p) /\ BarrierWait(p)
         /\ myNodeID[p] # -1 => myNodeID'[p] = myNodeID[p]
<1> USE DEF Typed, Numbers, Stages, Goto, memc, connVars, Counted, Created, At, Barrier,
            Connecting, Gate, Beyond
<1>1. CASE ServerEnter(p)
  BY <1>1 DEF ServerEnter
<1>2. CASE ServerConnect(p)
  BY <1>2 DEF ServerConnect
<1>3. CASE SkipMyself(p)
  BY <1>3 DEF SkipMyself, NextServer
<1>4. CASE ConnectSet(p)
  BY <1>4 DEF ConnectSet
<1>5. CASE ConnectGet(p)
  BY <1>5 DEF ConnectGet, NextServer
<1>6. CASE Connected(p)
  BY <1>6 DEF Connected
<1>7. CASE BarrierReset(p)
  BY <1>7 DEF BarrierReset
<1>8. CASE BarrierAdd(p)
  BY <1>8 DEF BarrierAdd
<1>9. CASE BarrierWait(p)
  BY <1>9 DEF BarrierWait
<1>10. CASE SumSet(p)
  BY <1>10 DEF SumSet
<1>11. CASE SumGet(p)
  BY <1>11 DEF SumGet, NextServer
<1>12. CASE SumReturn(p)
  BY <1>12 DEF SumReturn
<1>13. CASE Finish(p)
  BY <1>13 DEF Finish
<1>14. QED
  BY <1>1, <1>2, <1>3, <1>4, <1>5, <1>6, <1>7, <1>8, <1>9, <1>10, <1>11,
     <1>12, <1>13 DEF Step

\* At(p) is a barrier that p has not passed.
LEMMA AtFacts ==
  ASSUME Stages, NEW p \in Node
  PROVE  /\ At(p) \in Barrier
         /\ pc[p] \in {"reset", "add"} => ~Counted(p, At(p))
         /\ pc[p] = "reset" => ~Created(p, At(p))
         /\ pc[p] = "wait" => Counted(p, At(p))
BY DEF At, Barrier, Counted, Created, Stages, Connecting, Gate, Beyond

\* The counter is there when node 0 has created it, and counts.
LEMMA CounterStep ==
  ASSUME Typed, Numbers, Stages, NEW p \in Node, Step(p), NEW b \in Barrier, Counts(b)
  PROVE  \/ counter'[b] = -1 /\ \A q \in Node : ~Counted(q, b)'
         \/ /\ counter'[b] = Cardinality({q \in Node : Counted(q, b)'})
            /\ \E q \in Node : myNodeID'[q] = 0 /\ Created(q, b)'
<1>1. ASSUME NEW q \in Node, q # p
      PROVE  /\ Counted(q, b)' <=> Counted(q, b)
             /\ Created(q, b)' <=> Created(q, b)
             /\ myNodeID'[q] = myNodeID[q]
  <2>1. /\ pc'[q] = pc[q] /\ myNodeID'[q] = myNodeID[q]
        /\ q \in passed'["DSM-init"] <=> q \in passed["DSM-init"]
    BY <1>1, OthersKeep DEF Barrier
  <2>2. QED
    BY <2>1 DEF Counted, Created
<1>2. (\E q \in Node : myNodeID[q] = 0 /\ Created(q, b))
          => \E q \in Node : myNodeID'[q] = 0 /\ Created(q, b)'
  <2>1. ASSUME NEW q \in Node, myNodeID[q] = 0, Created(q, b)
        PROVE  myNodeID'[q] = 0 /\ Created(q, b)'
    <3>1. 0 # -1
      OBVIOUS
    <3>2. QED
      BY <1>1, <2>1, <3>1, PlaceStep
  <2>2. QED
    BY <2>1
<1>3. PICK S : S = {q \in Node : Counted(q, b)}
  BY Zenon
<1>4. PICK T : T = {q \in Node : Counted(q, b)'}
  BY Zenon
<1>5. IsFiniteSet(S)
  BY <1>3, NodeAssumption, FS_Subset
<1>6. CASE BarrierReset(p) /\ b = At(p)
  <2>1. pc[p] = "reset" /\ myNodeID[p] = 0
    BY <1>6 DEF BarrierReset, Stages
  <2>2. ~\E q \in Node : myNodeID[q] = 0 /\ Created(q, b)
    <3>1. ASSUME NEW q \in Node, myNodeID[q] = 0, Created(q, b)
          PROVE  FALSE
      <4>1. 0 # -1
        OBVIOUS
      <4>2. q = p
        BY <2>1, <3>1, <4>1 DEF Numbers
      <4>3. QED
        BY <1>6, <2>1, <3>1, <4>2, AtFacts
    <3>2. QED
      BY <3>1
  <2>3. \A q \in Node : ~Counted(q, b)
    BY <2>2 DEF Counts
  <2>4. ~Counted(p, b)' /\ Created(p, b)'
    BY <1>6 DEF BarrierReset, Goto, Typed, At, Counted, Created
  <2>5. T = {}
    BY <1>1, <1>4, <2>3, <2>4
  <2>6. counter'[b] = 0 /\ myNodeID'[p] = 0
    BY <1>6, <2>1 DEF BarrierReset, connVars, Typed
  <2>7. QED
    BY <1>4, <2>4, <2>5, <2>6, FS_EmptySet
<1>7. CASE BarrierAdd(p) /\ b = At(p)
  <2>1. pc[p] = "add" /\ counter[b] >= 0 /\ counter'[b] = counter[b] + 1
    BY <1>7 DEF BarrierAdd, Typed
  <2>2. counter[b] # -1
    BY <2>1
  <2>3. counter[b] = Cardinality(S) /\ \E q \in Node : myNodeID[q] = 0 /\ Created(q, b)
    BY <1>3, <2>2 DEF Counts
  <2>4. ~Counted(p, b) /\ Counted(p, b)'
    <3>1. ~Counted(p, b)
      BY <1>7, <2>1, AtFacts
    <3>2. Counted(p, b)'
      BY <1>7 DEF BarrierAdd, Goto, Typed, At, Counted
    <3>3. QED
      BY <3>1, <3>2
  <2>5. T = S \cup {p} /\ p \notin S
    BY <1>1, <1>3, <1>4, <2>4
  <2>6. Cardinality(T) = Cardinality(S) + 1
    BY <1>5, <2>5, FS_AddElement
  <2>7. QED
    BY <1>2, <1>4, <2>1, <2>3, <2>6
<1>8. CASE ~(BarrierReset(p) /\ b = At(p)) /\ ~(BarrierAdd(p) /\ b = At(p))
  <2>1. counter'[b] = counter[b] /\ (Counted(p, b)' <=> Counted(p, b))
    BY <1>8, PlaceStep
  <2>2. \A q \in Node : Counted(q, b)' <=> Counted(q, b)
    BY <1>1, <2>1
  <2>3. T = S
    BY <1>3, <1>4, <2>2
  <2>4. CASE counter[b] = -1 /\ \A q \in Node : ~Counted(q, b)
    BY <2>1, <2>2, <2>4
  <2>5. CASE /\ counter[b] = Cardinality(S)
             /\ \E q \in Node : myNodeID[q] = 0 /\ Created(q, b)
    BY <1>2, <1>4, <2>1, <2>3, <2>5
  <2>6. QED
    BY <1>3, <2>4, <2>5 DEF Counts
<1>9. QED
  BY <1>6, <1>7, <1>8

\* Who leaves has seen the counter at the number of nodes: all are counted.
LEMMA CountsStep ==
  ASSUME Typed, Numbers, Stages, NEW p \in Node, Step(p), NEW b \in Barrier, Counts(b)
  PROVE  Counts(b)'
<1>1. ASSUME NEW q \in Node, Counted(q, b)
      PROVE  Counted(q, b)'
  <2>1. CASE q = p
    BY <1>1, <2>1, PlaceStep
  <2>2. CASE q # p
    <3>1. /\ pc'[q] = pc[q]
          /\ q \in passed'["DSM-init"] <=> q \in passed["DSM-init"]
      BY <2>2, OthersKeep DEF Barrier
    <3>2. QED
      BY <1>1, <3>1 DEF Counted
  <2>3. QED
    BY <2>1, <2>2
<1>2. ASSUME passed'[b] # {}
      PROVE  \A q \in Node : Counted(q, b)
  <2>1. CASE passed'[b] = passed[b]
    BY <1>2, <2>1 DEF Counts
  <2>2. CASE passed'[b] # passed[b]
    <3>1. b = At(p) /\ BarrierWait(p)
      BY <2>2, PlaceStep
    <3>2. counter[b] = MaxServer
      BY <3>1 DEF BarrierWait
    <3>3. counter[b] # -1
      BY <3>2, NodeFacts
    <3>4. PICK S : S = {q \in Node : Counted(q, b)}
      BY Zenon
    <3>5. Cardinality(S) = Cardinality(Node)
      BY <3>2, <3>3, <3>4 DEF Counts, MaxServer
    <3>6. S \in SUBSET Node
      BY <3>4
    <3>7. Node = S
      BY <3>5, <3>6, NodeAssumption, FS_Subset
    <3>8. QED
      BY <3>4, <3>7
  <2>3. QED
    BY <2>1, <2>2
<1>3. QED
  BY <1>1, <1>2, CounterStep DEF Counts

LEMMA OrderedInit == Init => Ordered
<1> SUFFICES ASSUME Init
             PROVE  Ordered
  OBVIOUS
<1>1. Typed
  BY DEF Init, Typed, Barrier, Connecting
<1>2. Numbers
  <2>1. \A p \in Node : myNodeID[p] = -1 /\ pc[p] = "enter"
    BY DEF Init
  <2>2. \A p \in Node : myNodeID[p] < serverNum
    BY <2>1 DEF Init
  <2>3. QED
    BY <2>1, <2>2 DEF Numbers
<1>3. Stages
  BY DEF Init, Stages, Barrier, Connecting, Gate
<1>4. ASSUME NEW b \in Barrier
      PROVE  Counts(b)
  BY DEF Init, Counts, Counted, Barrier
<1>5. QED
  BY <1>1, <1>2, <1>3, <1>4 DEF Ordered

LEMMA OrderedStep ==
  ASSUME Ordered, NEW p \in Node, Step(p)
  PROVE  Ordered'
<1>1. Typed' /\ Numbers' /\ Stages'
  BY TypedStep, NumbersStep, StagesStep DEF Ordered
<1>2. \A b \in Barrier : Counts(b)'
  BY CountsStep DEF Ordered
<1>3. QED
  BY <1>1, <1>2 DEF Ordered

LEMMA OrderedStutter ==
  ASSUME Ordered, UNCHANGED vars
  PROVE  Ordered'
<1>1. /\ serverNum' = serverNum /\ counter' = counter /\ pc' = pc
      /\ myNodeID' = myNodeID /\ curServer' = curServer /\ seen' = seen /\ k' = k
      /\ staticId' = staticId /\ count' = count /\ passed' = passed
  BY DEF vars, memc, connVars
<1>2. Typed' /\ Numbers' /\ Stages'
  BY <1>1 DEF Ordered, Typed, Numbers, Stages
<1>3. ASSUME NEW b \in Barrier
      PROVE  Counts(b)'
  <2>1. Counts(b)
    BY DEF Ordered
  <2>2. QED
    BY <1>1, <2>1 DEF Counts, Counted, Created
<1>4. QED
  BY <1>2, <1>3 DEF Ordered

\* A step of the system is one of a node, or none.
LEMMA NextIs ==
  ASSUME [Next]_vars
  PROVE  (\E p \in Node : Step(p)) \/ UNCHANGED vars
BY DEF Next, Poll

LEMMA OrderedAlways == Spec => []Ordered
<1>1. Ordered /\ [Next]_vars => Ordered'
  BY NextIs, OrderedStep, OrderedStutter
<1>2. QED
  BY <1>1, OrderedInit, PTL DEF Spec

\* DSMKeeper::barrier is a barrier for every number of nodes and whoever is node
\* 0, although it creates the counter while others may already be adding to it.
THEOREM BarriersHold == Spec => []BarrierHolds
<1>1. Ordered => BarrierHolds
  <2> SUFFICES ASSUME Ordered
               PROVE  BarrierHolds
    OBVIOUS
  <2>1. "DSM-init" \in Barrier /\ "fin" \in Barrier
    BY DEF Barrier
  <2>2. ASSUME passed["DSM-init"] # {}, NEW p \in Node
        PROVE  pc[p] \notin {"enter", "poll", "connect", "get"}
    <3>1. Counted(p, "DSM-init")
      BY <2>1, <2>2 DEF Ordered, Counts
    <3>2. QED
      BY <3>1 DEF Ordered, Stages, Counted, Gate, Beyond
  <2>3. ASSUME passed["fin"] # {}, NEW p \in Node
        PROVE  count[p] = Rounds
    <3>1. Counted(p, "fin")
      BY <2>1, <2>3 DEF Ordered, Counts
    <3>2. QED
      BY <3>1 DEF Ordered, Stages, Counted, Gate
  <2>4. QED
    BY <2>2, <2>3 DEF BarrierHolds
<1>2. QED
  BY <1>1, OrderedAlways, PTL

-----------------------------------------------------------------------------
(* Queue pairs *)

\* modifyQPtoInit, modifyQPtoRTR and modifyQPtoRTS, one after the other, bring a
\* queue pair up, new or not.
LEMMA ConnectIs ==
  ASSUME NEW q \in QueuePair, NEW n
  PROVE  Connect(q, n) = Up(n)
<1>1. q \in [state : {"RESET", "RTS"}, dest : {q.dest}]
  BY DEF QueuePair, Up, createQueuePair
<1>2. modifyQPtoInit(q) = [state |-> "INIT", dest |-> q.dest]
  BY <1>1 DEF modifyQPtoInit
<1>3. modifyQPtoRTR(modifyQPtoInit(q), n) = [state |-> "RTR", dest |-> n]
  BY <1>2 DEF modifyQPtoRTR
<1>4. QED
  BY <1>3 DEF Connect, modifyQPtoRTS, Up

\* The queue pairs and the notes of a node, after setDataFromRemote.
LEMMA SetData ==
  ASSUME QpTypes, NEW p \in Node, NEW j \in Id, NEW q \in Node, NEW i \in Id,
         setDataFromRemote(p, j, LocalMeta(q, i))
  PROVE  /\ QpTypes'
         /\ \A t \in AppThread, d \in Directory :
                /\ data'[p][j][t][d] = Up(DirQpn(q, i, d, t))
                /\ data2app'[p][j][d][t] = Up(AppQpn(q, i, t, d))
         /\ remoteInfo'[p][j] = RemoteInfo(LocalMeta(q, i))
         /\ \A r \in Node, h \in Id : r # p \/ h # j =>
                /\ data'[r][h] = data[r][h] /\ data2app'[r][h] = data2app[r][h]
                /\ remoteInfo'[r][h] = remoteInfo[r][h]
<1>1. ASSUME NEW t \in AppThread, NEW d \in Directory
      PROVE  /\ LocalMeta(q, i).appRcQpn2dir[t][d] = AppQpn(q, i, t, d)
             /\ LocalMeta(q, i).dirRcQpn2app[d][t] = DirQpn(q, i, d, t)
  BY DEF LocalMeta
<1>2. PICK A : A = [t \in AppThread |-> [d \in Directory |-> Up(DirQpn(q, i, d, t))]]
  BY Zenon
<1>3. PICK D : D = [d \in Directory |-> [t \in AppThread |-> Up(AppQpn(q, i, t, d))]]
  BY Zenon
<1>4. data' = [data EXCEPT ![p][j] = A]
  <2>1. ASSUME NEW t \in AppThread, NEW d \in Directory
        PROVE  Connect(data[p][j][t][d], LocalMeta(q, i).dirRcQpn2app[d][t])
                   = Up(DirQpn(q, i, d, t))
    <3>1. data[p][j][t][d] \in QueuePair
      BY DEF QpTypes
    <3>2. QED
      BY <1>1, <3>1, ConnectIs
  <2>2. [t \in AppThread |-> [d \in Directory |->
            Connect(data[p][j][t][d], LocalMeta(q, i).dirRcQpn2app[d][t])]] = A
    BY <1>2, <2>1
  <2>3. QED
    BY <2>2 DEF setDataFromRemote
<1>5. data2app' = [data2app EXCEPT ![p][j] = D]
  <2>1. ASSUME NEW t \in AppThread, NEW d \in Directory
        PROVE  Connect(data2app[p][j][d][t], LocalMeta(q, i).appRcQpn2dir[t][d])
                   = Up(AppQpn(q, i, t, d))
    <3>1. data2app[p][j][d][t] \in QueuePair
      BY DEF QpTypes
    <3>2. QED
      BY <1>1, <3>1, ConnectIs
  <2>2. [d \in Directory |-> [t \in AppThread |->
            Connect(data2app[p][j][d][t], LocalMeta(q, i).appRcQpn2dir[t][d])]] = D
    BY <1>3, <2>1
  <2>3. QED
    BY <2>2 DEF setDataFromRemote
<1>6. PICK m : m = RemoteInfo(LocalMeta(q, i))
  BY Zenon
<1>7. remoteInfo' = [remoteInfo EXCEPT ![p][j] = m]
  BY <1>6 DEF setDataFromRemote
<1>8. A \in [AppThread -> [Directory -> QueuePair]]
  <2>1. \A t \in AppThread, d \in Directory : Up(DirQpn(q, i, d, t)) \in QueuePair
    BY DEF QueuePair, Qpn
  <2>2. QED
    BY <1>2, <2>1
<1>9. D \in [Directory -> [AppThread -> QueuePair]]
  <2>1. \A t \in AppThread, d \in Directory : Up(AppQpn(q, i, t, d)) \in QueuePair
    BY DEF QueuePair, Qpn
  <2>2. QED
    BY <1>3, <2>1
<1>10. m \in Info
  BY <1>6 DEF Info
<1>11. QpTypes'
  BY <1>4, <1>5, <1>7, <1>8, <1>9, <1>10 DEF QpTypes
<1>12. data'[p][j] = A /\ data2app'[p][j] = D /\ remoteInfo'[p][j] = m
  BY <1>4, <1>5, <1>7 DEF QpTypes
<1>13. ASSUME NEW r \in Node, NEW h \in Id, r # p \/ h # j
       PROVE  /\ data'[r][h] = data[r][h] /\ data2app'[r][h] = data2app[r][h]
              /\ remoteInfo'[r][h] = remoteInfo[r][h]
  BY <1>4, <1>5, <1>7, <1>13 DEF QpTypes
<1>14. \A t \in AppThread, d \in Directory :
           /\ data'[p][j][t][d] = Up(DirQpn(q, i, d, t))
           /\ data2app'[p][j][d][t] = Up(AppQpn(q, i, t, d))
  BY <1>2, <1>3, <1>12
<1>15. QED
  BY <1>6, <1>11, <1>12, <1>13, <1>14

\* Only the exchange with another node changes memcached's metas or queue pairs.
LEMMA QpActions ==
  ASSUME NEW p \in Node, Step(p)
  PROVE  /\ ConnectSet(p) \/ meta' = meta
         /\ ConnectGet(p) \/ Connected(p) \/ UNCHANGED qpVars
         /\ message' = message
<1> USE DEF memc, connVars
<1>1. CASE ServerEnter(p)
  BY <1>1 DEF ServerEnter
<1>2. CASE ServerConnect(p)
  BY <1>2 DEF ServerConnect
<1>3. CASE SkipMyself(p)
  BY <1>3 DEF SkipMyself, NextServer
<1>4. CASE ConnectSet(p)
  BY <1>4 DEF ConnectSet
<1>5. CASE ConnectGet(p)
  BY <1>5 DEF ConnectGet, NextServer
<1>6. CASE Connected(p)
  BY <1>6 DEF Connected
<1>7. CASE BarrierReset(p)
  BY <1>7 DEF BarrierReset
<1>8. CASE BarrierAdd(p)
  BY <1>8 DEF BarrierAdd
<1>9. CASE BarrierWait(p)
  BY <1>9 DEF BarrierWait
<1>10. CASE SumSet(p)
  BY <1>10 DEF SumSet
<1>11. CASE SumGet(p)
  BY <1>11 DEF SumGet, NextServer
<1>12. CASE SumReturn(p)
  BY <1>12 DEF SumReturn
<1>13. CASE Finish(p)
  BY <1>13 DEF Finish
<1>14. QED
  BY <1>1, <1>2, <1>3, <1>4, <1>5, <1>6, <1>7, <1>8, <1>9, <1>10, <1>11,
     <1>12, <1>13 DEF Step

\* The numbers of nodes that have one stay.
LEMMA NumberStays ==
  ASSUME Typed, Numbers, Stages, NEW p \in Node, Step(p), NEW q \in Node,
         myNodeID[q] \in Id
  PROVE  myNodeID'[q] = myNodeID[q]
<1>1. myNodeID[q] # -1
  BY NodeFacts
<1>2. CASE q = p
  <2>1. "fin" \in Barrier
    BY DEF Barrier
  <2>2. QED
    BY <1>1, <1>2, <2>1, PlaceStep
<1>3. CASE q # p
  BY <1>3, OthersKeep
<1>4. QED
  BY <1>2, <1>3

LEMMA HasNumber ==
  ASSUME Typed, Numbers, NEW p \in Node, pc[p] # "enter"
  PROVE  myNodeID[p] \in Id
BY DEF Typed, Numbers

LEMMA MetasStep ==
  ASSUME Ordered, Metas, NEW p \in Node, Step(p)
  PROVE  Metas'
<1>1. Typed /\ Numbers /\ Stages
  BY DEF Ordered
<1>2. ASSUME NEW e \in DOMAIN meta
      PROVE  \E q \in Node :
                 myNodeID'[q] = e[1] /\ e[1] \in Id /\ meta[e] = LocalMeta(q, e[2])
  <2>1. PICK q \in Node :
            myNodeID[q] = e[1] /\ e[1] \in Id /\ meta[e] = LocalMeta(q, e[2])
    BY DEF Metas
  <2>2. myNodeID'[q] = myNodeID[q]
    BY <1>1, <2>1, NumberStays
  <2>3. QED
    BY <2>1, <2>2
<1>3. CASE ConnectSet(p)
  <2>1. PICK f : f = <<myNodeID[p], k[p]>>
    BY Zenon
  <2>2. PICK m : m = LocalMeta(p, k[p])
    BY Zenon
  <2>3. f[1] = myNodeID[p] /\ f[2] = k[p]
    BY <2>1
  <2>4. meta' = Put(meta, f, m)
    BY <1>3, <2>1, <2>2 DEF ConnectSet
  <2>5. myNodeID[p] \in Id /\ myNodeID'[p] = myNodeID[p]
    <3>1. myNodeID[p] \in Id
      BY <1>1, <1>3, HasNumber DEF ConnectSet
    <3>2. QED
      BY <1>1, <3>1, NumberStays
  <2>6. DOMAIN meta' = DOMAIN meta \cup {f} /\ meta'[f] = m
    BY <2>4 DEF Put
  <2>7. \A e \in DOMAIN meta : e # f => meta'[e] = meta[e]
    BY <2>4 DEF Put
  <2>8. ASSUME NEW e \in DOMAIN meta'
        PROVE  \E q \in Node :
                   myNodeID'[q] = e[1] /\ e[1] \in Id /\ meta'[e] = LocalMeta(q, e[2])
    <3>1. CASE e = f
      BY <2>2, <2>3, <2>5, <2>6, <3>1
    <3>2. CASE e # f
      BY <1>2, <2>6, <2>7, <3>2
    <3>3. QED
      BY <3>1, <3>2
  <2>9. QED
    BY <2>8 DEF Metas
<1>4. CASE meta' = meta
  BY <1>2, <1>4 DEF Metas
<1>5. QED
  BY <1>3, <1>4, QpActions

\* A connection stays while its queue pairs and notes do.
LEMMA LinkedStays ==
  ASSUME NEW p \in Node, NEW q \in Node, Linked(p, q),
         myNodeID'[p] = myNodeID[p], myNodeID'[q] = myNodeID[q],
         data'[p][myNodeID[q]] = data[p][myNodeID[q]],
         data2app'[p][myNodeID[q]] = data2app[p][myNodeID[q]],
         remoteInfo'[p][myNodeID[q]] = remoteInfo[p][myNodeID[q]]
  PROVE  Linked(p, q)'
BY DEF Linked

\* What the exchange of p with the node of number j does.
LEMMA LinkedBySetData ==
  ASSUME QpTypes, NEW p \in Node, NEW q \in Node, NEW i \in Id, NEW j \in Id,
         myNodeID'[p] = i, myNodeID'[q] = j,
         setDataFromRemote(p, j, LocalMeta(q, i))
  PROVE  Linked(p, q)'
BY SetData DEF Linked

\* Whom a node had connected with before its step, unless it connects in it.
LEMMA ReachedBefore ==
  ASSUME Typed, Numbers, Stages, NEW p \in Node, Step(p), NEW j \in Id, Reached(p, j)'
  PROVE  \/ Reached(p, j)
         \/ ConnectGet(p) /\ j = k[p]
         \/ Connected(p) /\ j = myNodeID[p] /\ seen[p] >= MaxServer
<1>1. j \in Nat /\ j < MaxServer /\ MaxServer \in Nat
  BY NodeFacts DEF Id
<1>2. k[p] \in Nat /\ seen[p] \in Nat /\ curServer[p] \in Nat
  BY DEF Typed
<1> USE DEF Typed, Stages, Reached, Goto, connVars, Connecting, Gate, Beyond
<1>3. CASE ServerEnter(p)
  BY <1>1, <1>2, <1>3 DEF ServerEnter
<1>4. CASE ServerConnect(p)
  BY <1>1, <1>2, <1>4 DEF ServerConnect
<1>5. CASE SkipMyself(p)
  BY <1>1, <1>2, <1>5 DEF SkipMyself, NextServer
<1>6. CASE ConnectSet(p)
  BY <1>1, <1>2, <1>6 DEF ConnectSet
<1>7. CASE ConnectGet(p)
  BY <1>1, <1>2, <1>7 DEF ConnectGet, NextServer
<1>8. CASE Connected(p)
  BY <1>1, <1>2, <1>8 DEF Connected
<1>9. CASE BarrierReset(p)
  BY <1>1, <1>2, <1>9 DEF BarrierReset
<1>10. CASE BarrierAdd(p)
  BY <1>1, <1>2, <1>10 DEF BarrierAdd
<1>11. CASE BarrierWait(p)
  BY <1>1, <1>2, <1>11 DEF BarrierWait
<1>12. CASE SumSet(p)
  BY <1>1, <1>2, <1>12 DEF SumSet
<1>13. CASE SumGet(p)
  BY <1>1, <1>2, <1>13 DEF SumGet, NextServer
<1>14. CASE SumReturn(p)
  BY <1>1, <1>2, <1>14 DEF SumReturn
<1>15. CASE Finish(p)
  BY <1>1, <1>2, <1>15 DEF Finish
<1>16. QED
  BY <1>3, <1>4, <1>5, <1>6, <1>7, <1>8, <1>9, <1>10, <1>11, <1>12, <1>13,
     <1>14, <1>15 DEF Step

LEMMA QpTypesStep ==
  ASSUME Ordered, Metas, QpTypes, NEW p \in Node, Step(p)
  PROVE  /\ QpTypes'
         /\ \A r \in Node, h \in Id :
                \/ /\ data'[r][h] = data[r][h] /\ data2app'[r][h] = data2app[r][h]
                   /\ remoteInfo'[r][h] = remoteInfo[r][h]
                \/ r = p /\ \E q \in Node : myNodeID'[q] = h /\ Linked(r, q)'
         /\ ConnectGet(p) => \E q \in Node : myNodeID'[q] = k[p] /\ Linked(p, q)'
         /\ Connected(p) /\ seen[p] >= MaxServer => Linked(p, p)'
<1>1. Typed /\ Numbers /\ Stages
  BY DEF Ordered
<1>2. ASSUME NEW q \in Node, NEW i \in Id, NEW j \in Id,
             myNodeID[p] = i, myNodeID[q] = j,
             setDataFromRemote(p, j, LocalMeta(q, i))
      PROVE  /\ QpTypes'
             /\ myNodeID'[q] = j /\ Linked(p, q)'
             /\ \A r \in Node, h \in Id :
                    \/ /\ data'[r][h] = data[r][h] /\ data2app'[r][h] = data2app[r][h]
                       /\ remoteInfo'[r][h] = remoteInfo[r][h]
                    \/ r = p /\ h = j
  <2>1. myNodeID'[p] = i /\ myNodeID'[q] = j
    BY <1>1, <1>2, NumberStays
  <2>2. Linked(p, q)'
    BY <1>2, <2>1, LinkedBySetData
  <2>3. QED
    BY <1>2, <2>1, <2>2, SetData
<1>3. CASE ConnectGet(p)
  <2>1. PICK e : e = <<k[p], myNodeID[p]>>
    BY Zenon
  <2>2. e[1] = k[p] /\ e[2] = myNodeID[p]
    BY <2>1
  <2>3. e \in DOMAIN meta /\ setDataFromRemote(p, k[p], meta[e])
    BY <1>3, <2>1 DEF ConnectGet
  <2>4. PICK q \in Node :
            myNodeID[q] = e[1] /\ e[1] \in Id /\ meta[e] = LocalMeta(q, e[2])
    BY <2>3 DEF Metas
  <2>5. myNodeID[p] \in Id
    BY <1>1, <1>3, HasNumber DEF ConnectGet
  <2>6. ~Connected(p)
    BY <1>3 DEF ConnectGet, Connected
  <2>7. k[p] \in Id /\ setDataFromRemote(p, k[p], LocalMeta(q, myNodeID[p]))
    BY <2>2, <2>3, <2>4
  <2>8. QED
    BY <1>2, <2>2, <2>4, <2>5, <2>6, <2>7
<1>4. CASE Connected(p) /\ seen[p] >= MaxServer
  <2>1. myNodeID[p] \in Id
    BY <1>1, <1>4, HasNumber DEF Connected
  <2>2. setDataFromRemote(p, myNodeID[p], LocalMeta(p, myNodeID[p]))
    BY <1>4 DEF Connected
  <2>3. ~ConnectGet(p)
    BY <1>4 DEF ConnectGet, Connected
  <2>4. QED
    BY <1>2, <2>1, <2>2, <2>3
<1>5. CASE ~ConnectGet(p) /\ ~(Connected(p) /\ seen[p] >= MaxServer)
  <2>1. UNCHANGED qpVars
    BY <1>5, QpActions DEF Connected
  <2>2. QED
    BY <1>5, <2>1 DEF qpVars, QpTypes
<1>6. QED
  BY <1>3, <1>4, <1>5

LEMMA LinksStep ==
  ASSUME Ordered, Metas, Links, NEW p \in Node, Step(p)
  PROVE  Links'
<1>1. Typed /\ Numbers /\ Stages /\ QpTypes
  BY DEF Ordered, Links
<1>2. message' = [n \in UdQpn |-> modifyUDtoRTS(createQueuePair)]
  BY QpActions DEF Links
<1>3. ASSUME NEW r \in Node, NEW j \in Id, Reached(r, j), Reached(r, j)'
      PROVE  \E q \in Node : myNodeID'[q] = j /\ Linked(r, q)'
  <2>1. PICK q \in Node : myNodeID[q] = j /\ Linked(r, q)
    BY <1>3 DEF Links
  <2>2. myNodeID'[q] = j
    BY <1>1, <2>1, NumberStays
  <2>3. myNodeID'[r] = myNodeID[r]
    <3>1. CASE pc[r] # "enter"
      BY <1>1, <3>1, HasNumber, NumberStays
    <3>2. CASE pc[r] = "enter"
      BY <1>3, <3>2 DEF Reached, Gate, Beyond
    <3>3. QED
      BY <3>1, <3>2
  <2>4. CASE /\ data'[r][j] = data[r][j] /\ data2app'[r][j] = data2app[r][j]
             /\ remoteInfo'[r][j] = remoteInfo[r][j]
    BY <2>1, <2>2, <2>3, <2>4, LinkedStays
  <2>5. QED
    BY <1>1, <2>4, QpTypesStep
<1>4. ASSUME NEW r \in Node, NEW j \in Id, Reached(r, j)'
      PROVE  \E q \in Node : myNodeID'[q] = j /\ Linked(r, q)'
  <2>1. CASE Reached(r, j)
    BY <1>3, <1>4, <2>1
  <2>2. CASE ~Reached(r, j)
    <3>1. r = p
      <4>1. ASSUME r # p
            PROVE  Reached(r, j)' <=> Reached(r, j)
        BY <1>1, <4>1, OthersKeep DEF Reached
      <4>2. QED
        BY <1>4, <2>2, <4>1
    <3>2. CASE ConnectGet(p) /\ j = k[p]
      BY <1>1, <3>1, <3>2, QpTypesStep
    <3>3. CASE Connected(p) /\ j = myNodeID[p] /\ seen[p] >= MaxServer
      BY <1>1, <3>1, <3>3, QpTypesStep, NumberStays
    <3>4. QED
      BY <1>1, <1>4, <2>2, <3>1, <3>2, <3>3, ReachedBefore
  <2>3. QED
    BY <2>1, <2>2
<1>5. QED
  BY <1>1, <1>2, <1>4, QpTypesStep DEF Links

LEMMA PairedAlways == Spec => []Paired
<1>1. Init => Paired
  <2> SUFFICES ASSUME Init
               PROVE  Paired
    OBVIOUS
  <2>1. DOMAIN meta = {}
    BY DEF Init
  <2>2. Metas
    BY <2>1 DEF Metas
  <2>3. QpTypes
    BY DEF Init, QpTypes, QueuePair, Info
  <2>4. \A p \in Node, j \in Id : ~Reached(p, j)
    BY DEF Init, Reached, Gate, Beyond
  <2>5. QED
    BY <2>2, <2>3, <2>4, OrderedInit DEF Paired, Links, Init
<1>2. Paired /\ [Next]_vars => Paired'
  <2> SUFFICES ASSUME Paired, [Next]_vars
               PROVE  Paired'
    OBVIOUS
  <2>1. CASE \E p \in Node : Step(p)
    BY <2>1, OrderedStep, MetasStep, LinksStep DEF Paired
  <2>2. CASE UNCHANGED vars
    <3>1. Ordered'
      BY <2>2, OrderedStutter DEF Paired
    <3>2. /\ meta' = meta /\ myNodeID' = myNodeID /\ data' = data /\ message' = message
          /\ data2app' = data2app /\ remoteInfo' = remoteInfo /\ pc' = pc
          /\ curServer' = curServer /\ k' = k
      BY <2>2 DEF vars, memc, connVars, qpVars
    <3>3. Metas'
      BY <3>2 DEF Paired, Metas
    <3>4. Links'
      BY <3>2 DEF Paired, Links, QpTypes, Reached, Linked
    <3>5. QED
      BY <3>1, <3>3, <3>4 DEF Paired
  <2>3. QED
    BY <2>1, <2>2, NextIs
<1>3. QED
  BY <1>1, <1>2, PTL DEF Spec

\* m is the memory, keys, queue pairs and addresses of q, for a thread and a
\* directory; it is what a node notes of q.
InfoOf(m, q, t, d) ==
    /\ m.dsmBase = Pool(q, "dsm")
    /\ m.dsmRKey[d] = [mem |-> Pool(q, "dsm"), pd |-> DirUdQpn(q, d)]
    /\ m.dirMessageQPN[d] = DirUdQpn(q, d)
    /\ m.appMessageQPN[t] = AppUdQpn(q, t)
    /\ m.appToDirAh[t][d] = [dlid |-> q]
    /\ m.dirToAppAh[d][t] = [dlid |-> q]

LEMMA InfoIs ==
  ASSUME NEW q, NEW i, NEW t \in AppThread, NEW d \in Directory
  PROVE  InfoOf(RemoteInfo(LocalMeta(q, i)), q, t, d)
BY DEF InfoOf, RemoteInfo, LocalMeta, createMemoryRegion, createContext, fillAhAttr

\* Once through the first barrier, a thread and a directory of any two nodes are
\* connected both ways, and each has the other's memory, key and address: the
\* exchange through memcached pairs the queue pairs whenever nodes enter, and
\* whichever way they got their numbers.
THEOREM AllPaired == Spec => []QpsPaired
<1>1. Paired /\ BarrierHolds => QpsPaired
  <2> SUFFICES ASSUME Paired, BarrierHolds,
                      NEW p \in passed["DSM-init"], NEW q \in Node,
                      NEW t \in AppThread, NEW d \in Directory
               PROVE  LET i == myNodeID[p]
                          j == myNodeID[q]
                          there == remoteInfo[p][j]
                          back == remoteInfo[q][i]
                      IN  /\ data[p][j][t][d]
                                 = [state |-> "RTS", dest |-> DirQpn(q, i, d, t)]
                          /\ data2app[q][i][d][t]
                                 = [state |-> "RTS", dest |-> AppQpn(p, j, t, d)]
                          /\ there.dsmRKey[d]
                                 = [mem |-> there.dsmBase, pd |-> there.dirMessageQPN[d]]
                          /\ there.dsmBase = Pool(q, "dsm")
                          /\ there.dirMessageQPN[d] = DirUdQpn(q, d)
                          /\ there.appToDirAh[t][d] = [dlid |-> q]
                          /\ back.appMessageQPN[t] = AppUdQpn(p, t)
                          /\ back.dirToAppAh[d][t] = [dlid |-> p]
                          /\ message[there.dirMessageQPN[d]].state = "RTS"
                          /\ message[back.appMessageQPN[t]].state = "RTS"
    BY DEF QpsPaired
  <2> DEFINE i == myNodeID[p]
             j == myNodeID[q]
             there == remoteInfo[p][j]
             back == remoteInfo[q][i]
  <2>1. Typed /\ Numbers /\ Stages /\ p \in Node
    BY DEF Paired, Ordered, Typed, Barrier
  <2>2. ASSUME NEW r \in Node
        PROVE  pc[r] # "enter" /\ pc[r] \in Gate \cup Beyond
    BY <2>1 DEF BarrierHolds, Typed, Connecting, Gate, Beyond
  <2>3. ASSUME NEW r \in Node, NEW s \in Node
        PROVE  myNodeID[s] \in Id /\ Linked(r, s)
    <3>1. myNodeID[s] \in Id
      BY <2>1, <2>2, HasNumber
    <3>2. PICK u \in Node : myNodeID[u] = myNodeID[s] /\ Linked(r, u)
      BY <2>2, <3>1 DEF Paired, Links, Reached
    <3>3. u = s
      BY <2>1, <3>1, <3>2, NodeFacts DEF Numbers
    <3>4. QED
      BY <3>1, <3>2, <3>3
  <2>4. i \in Id /\ j \in Id
    BY <2>1, <2>3
  <2>5. there = RemoteInfo(LocalMeta(q, i)) /\ back = RemoteInfo(LocalMeta(p, j))
    BY <2>1, <2>3 DEF Linked
  <2>6. /\ data[p][j][t][d] = Up(DirQpn(q, i, d, t))
        /\ data2app[q][i][d][t] = Up(AppQpn(p, j, t, d))
    BY <2>1, <2>3 DEF Linked
  <2>7. InfoOf(there, q, t, d)
    BY <2>5, InfoIs, Zenon
  <2>8. InfoOf(back, p, t, d)
    BY <2>5, InfoIs, Zenon
  <2>9. \A n \in UdQpn : message[n].state = "RTS"
    <3>1. modifyUDtoRTS(createQueuePair) = Up(None)
      BY ConnectIs DEF modifyUDtoRTS, QueuePair
    <3>2. Up(None).state = "RTS"
      BY DEF Up
    <3>3. QED
      BY <3>1, <3>2 DEF Paired, Links
  <2>10. DirUdQpn(q, d) \in UdQpn /\ AppUdQpn(p, t) \in UdQpn
    BY <2>1 DEF UdQpn
  <2>11. /\ there.dsmBase = Pool(q, "dsm")
         /\ there.dsmRKey[d] = [mem |-> Pool(q, "dsm"), pd |-> DirUdQpn(q, d)]
         /\ there.dirMessageQPN[d] = DirUdQpn(q, d)
         /\ there.appToDirAh[t][d] = [dlid |-> q]
    BY <2>7 DEF InfoOf
  <2>12. back.appMessageQPN[t] = AppUdQpn(p, t) /\ back.dirToAppAh[d][t] = [dlid |-> p]
    BY <2>8 DEF InfoOf
  <2>13. QED
    BY <2>6, <2>9, <2>10, <2>11, <2>12 DEF Up
<1>2. QED
  BY <1>1, PairedAlways, BarriersHold, PTL

-----------------------------------------------------------------------------
(* Sums *)

\* A number is its quotient and its remainder.
LEMMA DivMod ==
  ASSUME NEW a \in Nat, NEW b \in Nat, NEW m \in Nat \ {0},
         a \div m = b \div m, a % m = b % m
  PROVE  a = b
BY SMT

\* Keys of different rounds differ while a node's number is one digit.
LEMMA KeysOfRounds ==
  ASSUME MaxServer <= Radix, NEW r \in Nat, NEW s \in Nat, NEW i \in Id, NEW j \in Id,
         SumKey(r, i) = SumKey(s, j)
  PROVE  r = s
<1>1. to_string(i) = <<i>> /\ to_string(j) = <<j>>
  <2>1. i < Radix /\ j < Radix
    BY NodeFacts, RadixAssumption DEF Id
  <2>2. QED
    BY <2>1 DEF to_string
<1>2. Radix \in Nat \ {0}
  BY RadixAssumption
<1>3. i \in Nat /\ j \in Nat
  BY NodeFacts
<1>4. ASSUME NEW n \in Nat, NEW l \in Nat, n < Radix
      PROVE  /\ Len(to_string(n) \o <<l>>) = 2
             /\ (to_string(n) \o <<l>>)[1] = n
  <2>1. to_string(n) = <<n>>
    BY <1>4 DEF to_string
  <2>2. Len(<<n>> \o <<l>>) = 2 /\ (<<n>> \o <<l>>)[1] = n
    OBVIOUS
  <2>3. QED
    BY <2>1, <2>2, Zenon
<1>5. ASSUME NEW n \in Nat, NEW l \in Nat, ~(n < Radix)
      PROVE  /\ Len(to_string(n) \o <<l>>) = 3
             /\ (to_string(n) \o <<l>>)[1] = n \div Radix
             /\ (to_string(n) \o <<l>>)[2] = n % Radix
  <2>1. to_string(n) = <<n \div Radix, n % Radix>>
    BY <1>5 DEF to_string
  <2>2. PICK a \in Nat, b \in Nat : a = n \div Radix /\ b = n % Radix
    BY <1>2
  <2>3. /\ Len(<<a, b>> \o <<l>>) = 3
        /\ (<<a, b>> \o <<l>>)[1] = a /\ (<<a, b>> \o <<l>>)[2] = b
    OBVIOUS
  <2>4. QED
    BY <2>1, <2>2, <2>3, Zenon
<1>6. to_string(r) \o <<i>> = to_string(s) \o <<j>>
  BY <1>1 DEF SumKey
<1>7. CASE r < Radix /\ s < Radix
  <2>1. (to_string(r) \o <<i>>)[1] = r /\ (to_string(s) \o <<j>>)[1] = s
    BY <1>3, <1>4, <1>7
  <2>2. QED
    BY <1>6, <2>1
<1>8. CASE ~(r < Radix) /\ ~(s < Radix)
  <2>1. /\ (to_string(r) \o <<i>>)[1] = r \div Radix
        /\ (to_string(r) \o <<i>>)[2] = r % Radix
    BY <1>3, <1>5, <1>8
  <2>2. /\ (to_string(s) \o <<j>>)[1] = s \div Radix
        /\ (to_string(s) \o <<j>>)[2] = s % Radix
    BY <1>3, <1>5, <1>8
  <2>3. r \div Radix = s \div Radix /\ r % Radix = s % Radix
    BY <1>6, <2>1, <2>2, Zenon
  <2>4. QED
    BY <1>2, <2>3, DivMod
<1>9. r < Radix <=> s < Radix
  <2>1. /\ Len(to_string(r) \o <<i>>) = IF r < Radix THEN 2 ELSE 3
        /\ Len(to_string(s) \o <<j>>) = IF s < Radix THEN 2 ELSE 3
    BY <1>3, <1>4, <1>5
  <2>2. QED
    BY <1>6, <2>1
<1>10. QED
  BY <1>7, <1>8, <1>9

\* Only a sum changes what is added up, or is in the middle of adding.
LEMMA SumActions ==
  ASSUME Typed, NEW p \in Node, Step(p)
  PROVE  \/ SumSet(p)
         \/ SumGet(p)
         \/ sums' = sums /\ acc' = acc /\ pc'[p] \notin {"sum", "summed"}
<1> USE DEF Typed, Goto, memc, connVars
<1>1. CASE ServerEnter(p)
  BY <1>1 DEF ServerEnter
<1>2. CASE ServerConnect(p)
  BY <1>2 DEF ServerConnect
<1>3. CASE SkipMyself(p)
  BY <1>3 DEF SkipMyself, NextServer
<1>4. CASE ConnectSet(p)
  BY <1>4 DEF ConnectSet
<1>5. CASE ConnectGet(p)
  BY <1>5 DEF ConnectGet, NextServer
<1>6. CASE Connected(p)
  BY <1>6 DEF Connected
<1>7. CASE BarrierReset(p)
  BY <1>7 DEF BarrierReset
<1>8. CASE BarrierAdd(p)
  BY <1>8 DEF BarrierAdd
<1>9. CASE BarrierWait(p)
  BY <1>9 DEF BarrierWait
<1>10. CASE SumSet(p)
  BY <1>10
<1>11. CASE SumGet(p)
  BY <1>11
<1>12. CASE SumReturn(p)
  BY <1>12 DEF SumReturn
<1>13. CASE Finish(p)
  BY <1>13 DEF Finish
<1>14. QED
  BY <1>1, <1>2, <1>3, <1>4, <1>5, <1>6, <1>7, <1>8, <1>9, <1>10, <1>11,
     <1>12, <1>13 DEF Step

\* Another node's sum goes on as it was.
LEMMA AddingStays ==
  ASSUME Typed, acc \in [Node -> Nat], NEW p \in Node, Step(p), NEW q \in Node, q # p,
         Adding(q)
  PROVE  Adding(q)'
<1>1. /\ pc'[q] = pc[q] /\ myNodeID'[q] = myNodeID[q] /\ count'[q] = count[q]
      /\ k'[q] = k[q]
  BY OthersKeep
<1>2. acc'[q] = acc[q]
  BY SumActions DEF SumSet, SumGet
<1>3. QED
  BY <1>1, <1>2 DEF Adding

\* One more value of the round.
LEMMA OneMore ==
  ASSUME NEW n \in Nat, NEW c \in Nat
  PROVE  n * c \in Nat /\ n * c + c = (n + 1) * c
BY SMT

\* A sum starts: its value is put under the key of its round.
LEMMA SumSetStep ==
  ASSUME Ordered, Sums, NEW p \in Node, SumSet(p)
  PROVE  acc' \in [Node -> Nat] /\ Values' /\ Adding(p)'
<1>1. /\ Typed /\ Numbers /\ count[p] \in 0 .. Rounds /\ myNodeID[p] \in Id
  BY HasNumber, RoundsAssumption DEF Ordered, Typed, SumSet
<1>2. acc' \in [Node -> Nat] /\ acc'[p] = 0 /\ k'[p] = 0 /\ count' = count
      /\ myNodeID' = myNodeID
  BY <1>1 DEF Sums, SumSet, Typed, connVars
<1>3. pc'[p] = IF myNodeID[p] = 0 THEN "sum" ELSE "summed"
  BY <1>1 DEF SumSet, Typed, Goto
<1>4. Values'
  <2> SUFFICES ASSUME NEW e \in DOMAIN sums'
               PROVE  \E r \in 0 .. Rounds, i \in Id :
                          e = SumKey(r, i) /\ sums'[e] = Contribution(r)
    BY DEF Values
  <2>1. CASE e = SumKey(count[p], myNodeID[p])
    <3>1. sums'[e] = Contribution(count[p])
      BY <2>1 DEF SumSet, Put
    <3>2. QED
      BY <1>1, <2>1, <3>1
  <2>2. CASE e # SumKey(count[p], myNodeID[p])
    <3>1. e \in DOMAIN sums /\ sums'[e] = sums[e]
      BY <2>2 DEF SumSet, Put
    <3>2. QED
      BY <3>1 DEF Sums, Values
  <2>3. QED
    BY <2>1, <2>2
<1>5. Adding(p)'
  <2>1. Contribution(count[p]) \in Nat /\ MaxServer \in Nat /\ 0 < MaxServer
    BY <1>1, NodeFacts DEF Typed, Contribution
  <2>2. 0 * Contribution(count[p]) = 0
    BY <2>1
  <2>3. QED
    BY <1>2, <1>3, <2>1, <2>2 DEF Adding
<1>6. QED
  BY <1>2, <1>4, <1>5

\* Node 0 adds one value: it is one of its own round.
LEMMA SumGetStep ==
  ASSUME MaxServer <= Radix, Ordered, Sums, NEW p \in Node, SumGet(p)
  PROVE  acc' \in [Node -> Nat] /\ Values' /\ Adding(p)'
<1>1. Typed /\ acc \in [Node -> Nat] /\ Values /\ Adding(p)
  BY DEF Ordered, Sums
<1>2. PICK n \in Nat, c \in Nat : n = k[p] /\ c = Contribution(count[p])
  BY <1>1 DEF Typed, Contribution
<1>3. /\ n < MaxServer /\ acc[p] = n * c
      /\ SumKey(count[p], n) \in DOMAIN sums
      /\ acc' = [acc EXCEPT ![p] = @ + sums[SumKey(count[p], n)]]
      /\ k' = [k EXCEPT ![p] = n + 1]
  BY <1>1, <1>2 DEF SumGet, Adding, NextServer
<1>4. PICK r \in 0 .. Rounds, i \in Id : /\ SumKey(count[p], n) = SumKey(r, i)
                                         /\ sums[SumKey(count[p], n)] = Contribution(r)
  BY <1>1, <1>3 DEF Values
<1>5. r = count[p]
  <2>1. n \in Id /\ r \in Nat /\ count[p] \in Nat
    BY <1>1, <1>3, NodeFacts, RoundsAssumption DEF Typed, Id
  <2>2. QED
    BY <1>4, <2>1, KeysOfRounds
<1>6. acc'[p] = (n + 1) * c /\ acc' \in [Node -> Nat]
  <2>1. sums[SumKey(count[p], n)] = c
    BY <1>2, <1>4, <1>5
  <2>2. acc[p] + c = (n + 1) * c
    BY <1>3, OneMore
  <2>3. acc' = [acc EXCEPT ![p] = (n + 1) * c]
    BY <1>3, <2>1, <2>2
  <2>4. (n + 1) * c \in Nat
    BY OneMore
  <2>5. QED
    BY <1>1, <2>3, <2>4
<1>7. /\ count' = count /\ myNodeID' = myNodeID /\ sums' = sums
      /\ pc'[p] = IF n + 1 = MaxServer THEN "summed" ELSE "sum"
      /\ k'[p] = n + 1
  BY <1>1, <1>2, <1>3 DEF SumGet, Goto, memc, connVars, Typed
<1>8. Values'
  BY <1>1, <1>7 DEF Values
<1>9. Adding(p)'
  <2>1. MaxServer \in Nat
    BY NodeFacts
  <2>2. CASE n + 1 = MaxServer
    BY <1>2, <1>6, <1>7, <2>2 DEF Adding
  <2>3. CASE n + 1 # MaxServer
    <3>1. n + 1 < MaxServer
      BY <1>3, <2>1, <2>3
    <3>2. QED
      BY <1>2, <1>6, <1>7, <2>3, <3>1 DEF Adding
  <2>4. QED
    BY <2>2, <2>3
<1>10. QED
  BY <1>6, <1>8, <1>9

LEMMA SumsStep ==
  ASSUME MaxServer <= Radix, Ordered, Sums, NEW p \in Node, Step(p)
  PROVE  Sums'
<1>1. Typed /\ acc \in [Node -> Nat] /\ Values
  BY DEF Ordered, Sums
<1>2. \A q \in Node : q # p => Adding(q)'
  BY <1>1, AddingStays DEF Sums
<1>3. acc' \in [Node -> Nat] /\ Values' /\ Adding(p)'
  <2>1. CASE SumSet(p)
    BY <2>1, SumSetStep
  <2>2. CASE SumGet(p)
    BY <2>2, SumGetStep
  <2>3. CASE sums' = sums /\ acc' = acc /\ pc'[p] \notin {"sum", "summed"}
    BY <1>1, <2>3 DEF Values, Adding
  <2>4. QED
    BY <1>1, <2>1, <2>2, <2>3, SumActions
<1>4. QED
  BY <1>2, <1>3 DEF Sums

\* DSM::sum returns, on node 0, the sum of what all nodes gave to that very round,
\* though the others never wait for it and may be rounds ahead: while a node's
\* number is one digit.  The key puts the round and the number side by side, so
\* with more nodes round 1 of node 11 and round 11 of node 1 share a key.
THEOREM SumsAreOfRound == MaxServer <= Radix => (Spec => []SumIsOfRound)
<1> SUFFICES ASSUME MaxServer <= Radix
             PROVE  Spec => []SumIsOfRound
  OBVIOUS
<1>1. Init => Sums
  <2> SUFFICES ASSUME Init
               PROVE  Sums
    OBVIOUS
  <2>1. acc \in [Node -> Nat] /\ DOMAIN sums = {}
    BY DEF Init
  <2>2. \A p \in Node : pc[p] = "enter"
    BY DEF Init
  <2>3. QED
    BY <2>1, <2>2 DEF Sums, Values, Adding
<1>2. Ordered /\ Sums /\ [Next]_vars => Sums'
  <2> SUFFICES ASSUME Ordered, Sums, [Next]_vars
               PROVE  Sums'
    OBVIOUS
  <2>1. CASE \E p \in Node : Step(p)
    BY <2>1, SumsStep
  <2>2. CASE UNCHANGED vars
    <3>1. /\ sums' = sums /\ acc' = acc /\ pc' = pc /\ k' = k /\ count' = count
          /\ myNodeID' = myNodeID
      BY <2>2 DEF vars, memc, connVars
    <3>2. QED
      BY <3>1 DEF Sums, Values, Adding
  <2>3. QED
    BY <2>1, <2>2, NextIs
<1>3. Sums => SumIsOfRound
  BY DEF Sums, Adding, SumIsOfRound
<1>4. QED
  BY <1>1, <1>2, <1>3, OrderedAlways, PTL DEF Spec
=============================================================================
