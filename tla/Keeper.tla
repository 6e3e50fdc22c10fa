------------------------------- MODULE Keeper -------------------------------
(***************************************************************************)
(* How the nodes of a cluster find each other and synchronise: Keeper and  *)
(* DSMKeeper (src/src/Keeper.cpp, src/src/DSMKeeper.cpp) over memcached,   *)
(* in the order in which DSM's constructor and the benchmark drivers use   *)
(* them: enter, exchange queue pairs with everybody, bring them up         *)
(* (src/src/rdma/StateTrans.cpp), pass the barrier                         *)
(* "DSM-init", take part in a number of sums, pass the barrier "fin".      *)
(*                                                                         *)
(* memcached is external: set, get and increment are atomic, get and       *)
(* increment of a missing key fail and are repeated by memGet and          *)
(* memFetchAndAdd.  It starts as script/restartMemc.sh leaves it:          *)
(* serverNum is 0, and no other key exists.                                *)
(***************************************************************************)
EXTENDS Integers, Sequences, FiniteSets

CONSTANTS Node,       \* the processes, one per machine
          NrThread,   \* MAX_APP_THREAD, application threads of a node
          NrDirectory, \* NR_DIRECTORY, directory threads of a node
          Radix,      \* of std::to_string: 10
          Rounds      \* number of calls of DSM::sum on each node

ASSUME NodeAssumption == IsFiniteSet(Node) /\ Node # {}
ASSUME ThreadAssumption == NrThread \in Nat /\ NrDirectory \in Nat
ASSUME RadixAssumption == Radix \in Nat /\ Radix > 1
ASSUME RoundsAssumption == Rounds \in Nat

MaxServer == Cardinality(Node)   \* maxServer, getServerNR()
Id == 0 .. MaxServer - 1
Barrier == {"DSM-init", "fin"}
AppThread == 0 .. NrThread - 1
Directory == 0 .. NrDirectory - 1

\* std::to_string of numbers below Radix ^ 2, as sequences of digits.
to_string(n) == IF n < Radix THEN <<n>> ELSE <<n \div Radix, n % Radix>>

\* DSM::sum and DSMKeeper::sum: "sum-sum-" + count + node.
SumKey(round, i) == to_string(round) \o to_string(i)

VARIABLES
    serverNum,  \* memcached: the number of nodes that entered
    meta,       \* memcached: meta["i-k"], the ExchangeMeta of i for k
    counter,    \* memcached: counter[b] of barrier b, -1 if there is no key
    sums,       \* memcached: the values of the sums, by key
    pc,
    myNodeID,
    curServer,  \* nodes known and connected
    seen,       \* serverNum as last read
    k,          \* the loop variable of serverConnect and of sum
    data,       \* data[p][i][t][d]: queue pair of thread t for directory d of i
    data2app,   \* data2app[p][i][d][t]: of directory d for thread t of node i
    remoteInfo, \* remoteInfo[p][i]: the memory of node i, where messages to it go
    message,    \* message[n]: the queue pair for messages with number n
    staticId,   \* the build's STATIC_ID_FROM_IP
    count,      \* DSM::sum's counter: the round
    acc,        \* ret, the sum so far
    passed      \* history: passed[b], the nodes that have left barrier b

memc == <<serverNum, meta, counter, sums>>
qpVars == <<data, data2app, remoteInfo>>
connVars == <<myNodeID, curServer, seen, qpVars, message, staticId>>
vars == <<memc, pc, connVars, k, count, acc, passed>>

None == <<>>

-----------------------------------------------------------------------------
(* Queue pairs *)

createQueuePair == [state |-> "RESET", dest |-> None]

\* ibv_modify_qp refuses a state out of turn; the failure is only reported.
modifyQPtoInit(q) == [q EXCEPT !.state = "INIT"]
modifyQPtoRTR(q, n) ==
    IF q.state = "INIT" THEN [state |-> "RTR", dest |-> n] ELSE q
modifyQPtoRTS(q) == IF q.state = "RTR" THEN [q EXCEPT !.state = "RTS"] ELSE q
Connect(q, n) == modifyQPtoRTS(modifyQPtoRTR(modifyQPtoInit(q), n))

\* A queue pair for messages goes the same way alone: it has no other end.
modifyUDtoRTS(q) == Connect(q, None)

\* The context of a thread or directory on node p, of which the others see the
\* port (lid and gid).  The device is there: a failure is not looked at.
createContext(p) == [lid |-> p]
\* What fillAhAttr and ibv_create_ah make of a remote port.
fillAhAttr(th) == [dlid |-> th.lid]

\* The pools of a node: the memory it shares and its threads' buffers.
Pool(p, kind) == <<kind, p>>
\* The remote key of the registration of a pool by the owner of queue pair n:
\* every thread and directory registers with its own protection domain.
createMemoryRegion(pool, n) == [mem |-> pool, pd |-> n]

\* qp_num, here the place of the queue pair.
AppQpn(p, i, t, d) == <<"app", p, i, t, d>>
DirQpn(p, i, d, t) == <<"dir", p, i, d, t>>
AppUdQpn(p, t) == <<"app", p, t>>
DirUdQpn(p, d) == <<"dir", p, d>>
UdQpn == {AppUdQpn(p, t) : p \in Node, t \in AppThread}
             \cup {DirUdQpn(p, d) : p \in Node, d \in Directory}

\* initLocalMeta and setDataToRemote(i).
LocalMeta(p, i) ==
    [dsmBase |-> Pool(p, "dsm"),
     cacheBase |-> Pool(p, "cache"),
     appTh |-> [t \in AppThread |->
         [lid |-> createContext(p).lid,
          rKey |-> createMemoryRegion(Pool(p, "cache"), AppUdQpn(p, t))]],
     dirTh |-> [d \in Directory |->
         [lid |-> createContext(p).lid,
          rKey |-> createMemoryRegion(Pool(p, "dsm"), DirUdQpn(p, d))]],
     appUdQpn |-> [t \in AppThread |-> AppUdQpn(p, t)],
     dirUdQpn |-> [d \in Directory |-> DirUdQpn(p, d)],
     dirRcQpn2app |->
         [d \in Directory |-> [t \in AppThread |-> DirQpn(p, i, d, t)]],
     appRcQpn2dir |->
         [t \in AppThread |-> [d \in Directory |-> AppQpn(p, i, t, d)]]]

\* What setDataFromRemote notes of the other node: where its memory is and the
\* keys to it, its queue pairs for messages and the way to each.
RemoteInfo(m) ==
    [dsmBase |-> m.dsmBase,
     cacheBase |-> m.cacheBase,
     dsmRKey |-> [d \in Directory |-> m.dirTh[d].rKey],
     appRKey |-> [t \in AppThread |-> m.appTh[t].rKey],
     dirMessageQPN |-> m.dirUdQpn,
     appMessageQPN |-> m.appUdQpn,
     appToDirAh |-> [t \in AppThread |-> [d \in Directory |-> fillAhAttr(m.dirTh[d])]],
     dirToAppAh |-> [d \in Directory |-> [t \in AppThread |-> fillAhAttr(m.appTh[t])]]]

\* Mutant of setDataFromRemote: every thread takes the queue pair of thread 0.
setDataFromRemoteFirst(p, i, m) ==
    /\ data2app' = [data2app EXCEPT ![p][i] =
          [d \in Directory |-> [t \in AppThread |->
              Connect(data2app[p][i][d][t], m.appRcQpn2dir[t][d])]]]
    /\ data' = [data EXCEPT ![p][i] =
          [t \in AppThread |-> [d \in Directory |->
              Connect(data[p][i][t][d], m.dirRcQpn2app[d][0])]]]
    /\ remoteInfo' = [remoteInfo EXCEPT ![p][i] = RemoteInfo(m)]

\* The queue pairs for node i are brought up, each to the one that i has at the
\* mirrored place, and the queue pairs for messages are noted.
setDataFromRemote(p, i, m) ==
    /\ data2app' = [data2app EXCEPT ![p][i] =
          [d \in Directory |-> [t \in AppThread |->
              Connect(data2app[p][i][d][t], m.appRcQpn2dir[t][d])]]]
    /\ data' = [data EXCEPT ![p][i] =
          [t \in AppThread |-> [d \in Directory |->
              Connect(data[p][i][t][d], m.dirRcQpn2app[d][t])]]]
    /\ remoteInfo' = [remoteInfo EXCEPT ![p][i] = RemoteInfo(m)]
-----------------------------------------------------------------------------

Init ==
    /\ serverNum = 0
    /\ meta = [e \in {} |-> None]
    /\ counter = [b \in Barrier |-> -1]
    /\ sums = [e \in {} |-> 0]
    /\ pc = [p \in Node |-> "enter"]
    /\ myNodeID = [p \in Node |-> -1]
    /\ curServer = [p \in Node |-> 0]
    /\ seen = [p \in Node |-> 0]
    /\ k = [p \in Node |-> 0]
    /\ data = [p \in Node |-> [i \in Id |->
                 [t \in AppThread |-> [d \in Directory |-> createQueuePair]]]]
    /\ data2app = [p \in Node |-> [i \in Id |->
                     [d \in Directory |-> [t \in AppThread |-> createQueuePair]]]]
    /\ remoteInfo = [p \in Node |-> [i \in Id |-> None]]
    /\ message = [n \in UdQpn |-> modifyUDtoRTS(createQueuePair)]
    /\ staticId \in BOOLEAN
    /\ count = [p \in Node |-> 0]
    /\ acc = [p \in Node |-> 0]
    /\ passed = [b \in Barrier |-> {}]

Goto(p, l) == pc' = [pc EXCEPT ![p] = l]
Put(f, e, v) == [x \in DOMAIN f \cup {e} |-> IF x = e THEN v ELSE f[x]]

-----------------------------------------------------------------------------
(* Connecting *)

\* The node's number is its place in the order of arrival or, with
\* STATIC_ID_FROM_IP, comes from its address.
ServerEnter(p) ==
    /\ pc[p] = "enter"
    /\ serverNum' = serverNum + 1
    /\ \E i \in Id :
        /\ IF staticId THEN \A q \in Node : myNodeID[q] # i ELSE i = serverNum
        /\ myNodeID' = [myNodeID EXCEPT ![p] = i]
    /\ Goto(p, "poll")
    /\ UNCHANGED <<meta, counter, sums, curServer, seen, qpVars, message, staticId, k,
                   count, acc, passed>>

\* One round of serverConnect: who has entered since?
ServerConnect(p) ==
    /\ pc[p] = "poll"
    /\ curServer[p] < MaxServer
    /\ seen' = [seen EXCEPT ![p] = serverNum]
    /\ k' = [k EXCEPT ![p] = curServer[p]]
    /\ Goto(p, "connect")
    /\ UNCHANGED <<memc, myNodeID, curServer, qpVars, message, staticId, count, acc, passed>>

NextServer(p) == k' = [k EXCEPT ![p] = @ + 1]

SkipMyself(p) ==
    /\ pc[p] = "connect"
    /\ k[p] < seen[p]
    /\ k[p] = myNodeID[p]
    /\ NextServer(p)
    /\ UNCHANGED <<memc, pc, connVars, count, acc, passed>>

\* connectNode: setDataToRemote and memSet of the local meta data ...
ConnectSet(p) ==
    /\ pc[p] = "connect"
    /\ k[p] < seen[p]
    /\ k[p] # myNodeID[p]
    /\ meta' = Put(meta, <<myNodeID[p], k[p]>>, LocalMeta(p, k[p]))
    /\ Goto(p, "get")
    /\ UNCHANGED <<serverNum, counter, sums, connVars, k, count, acc, passed>>

\* ... memGet, which waits for the other side, and setDataFromRemote.
ConnectGet(p) ==
    LET key == <<k[p], myNodeID[p]>>
    IN  /\ pc[p] = "get"
        /\ key \in DOMAIN meta
        /\ setDataFromRemote(p, k[p], meta[key])
        /\ NextServer(p)
        /\ Goto(p, "connect")
        /\ UNCHANGED <<memc, myNodeID, curServer, seen, message, staticId, count, acc, passed>>

\* All that had entered are connected; once nobody is missing, connectMySelf.
Connected(p) ==
    LET me == myNodeID[p]
        all == seen[p] >= MaxServer
    IN  /\ pc[p] = "connect"
        /\ k[p] >= seen[p]
        /\ curServer' = [curServer EXCEPT ![p] = seen[p]]
        /\ IF all THEN setDataFromRemote(p, me, LocalMeta(p, me))
           ELSE UNCHANGED qpVars
        /\ Goto(p, IF ~all THEN "poll" ELSE IF me = 0 THEN "reset" ELSE "add")
        /\ UNCHANGED <<memc, myNodeID, seen, message, staticId, k, count, acc, passed>>

-----------------------------------------------------------------------------
(* DSMKeeper::barrier *)

\* The barrier a node is at: the first one it has not passed.
At(p) == IF p \in passed["DSM-init"] THEN "fin" ELSE "DSM-init"

\* Node 0 creates the counter.
BarrierReset(p) ==
    /\ pc[p] = "reset"
    /\ counter' = [counter EXCEPT ![At(p)] = 0]
    /\ Goto(p, "add")
    /\ UNCHANGED <<serverNum, meta, sums, connVars, k, count, acc, passed>>

\* Mutant of BarrierAdd: a missing counter counts as 0.
BarrierAddAny(p) ==
    /\ pc[p] = "add"
    /\ counter' = [counter EXCEPT ![At(p)] = IF @ < 0 THEN 1 ELSE @ + 1]
    /\ Goto(p, "wait")
    /\ UNCHANGED <<serverNum, meta, sums, connVars, k, count, acc, passed>>

BarrierAdd(p) ==
    /\ pc[p] = "add"
    /\ counter[At(p)] >= 0
    /\ counter' = [counter EXCEPT ![At(p)] = @ + 1]
    /\ Goto(p, "wait")
    /\ UNCHANGED <<serverNum, meta, sums, connVars, k, count, acc, passed>>

\* Mutant of BarrierWait: everybody but the last is enough.
BarrierWaitEarly(p) ==
    /\ pc[p] = "wait"
    /\ counter[At(p)] >= MaxServer - 1
    /\ passed' = [passed EXCEPT ![At(p)] = @ \cup {p}]
    /\ Goto(p, IF At(p) = "fin" THEN "done" ELSE "run")
    /\ UNCHANGED <<memc, connVars, k, count, acc>>

BarrierWait(p) ==
    /\ pc[p] = "wait"
    /\ counter[At(p)] = MaxServer
    /\ passed' = [passed EXCEPT ![At(p)] = @ \cup {p}]
    /\ Goto(p, IF At(p) = "fin" THEN "done" ELSE "run")
    /\ UNCHANGED <<memc, connVars, k, count, acc>>

-----------------------------------------------------------------------------
(* DSMKeeper::sum *)

\* What a node contributes; values of different rounds differ.
Contribution(round) == 1 + round

SumSet(p) ==
    /\ pc[p] = "run"
    /\ count[p] < Rounds
    /\ sums' = Put(sums, SumKey(count[p], myNodeID[p]), Contribution(count[p]))
    /\ acc' = [acc EXCEPT ![p] = 0]
    /\ k' = [k EXCEPT ![p] = 0]
    /\ Goto(p, IF myNodeID[p] = 0 THEN "sum" ELSE "summed")
    /\ UNCHANGED <<serverNum, meta, counter, connVars, count, passed>>

\* Mutant of SumGet: a value that is not there yet is left out.
SumGetAny(p) ==
    LET key == SumKey(count[p], k[p])
    IN  /\ pc[p] = "sum"
        /\ acc' = [acc EXCEPT ![p] = @ + (IF key \in DOMAIN sums THEN sums[key] ELSE 0)]
        /\ NextServer(p)
        /\ Goto(p, IF k[p] + 1 = MaxServer THEN "summed" ELSE "sum")
        /\ UNCHANGED <<memc, connVars, count, passed>>

\* Node 0 collects them, waiting for each.
SumGet(p) ==
    LET key == SumKey(count[p], k[p])
    IN  /\ pc[p] = "sum"
        /\ key \in DOMAIN sums
        /\ acc' = [acc EXCEPT ![p] = @ + sums[key]]
        /\ NextServer(p)
        /\ Goto(p, IF k[p] + 1 = MaxServer THEN "summed" ELSE "sum")
        /\ UNCHANGED <<memc, connVars, count, passed>>

SumReturn(p) ==
    /\ pc[p] = "summed"
    /\ count' = [count EXCEPT ![p] = @ + 1]
    /\ Goto(p, "run")
    /\ UNCHANGED <<memc, connVars, k, acc, passed>>

\* After the last sum: the barrier "fin".
Finish(p) ==
    /\ pc[p] = "run"
    /\ count[p] = Rounds
    /\ Goto(p, IF myNodeID[p] = 0 THEN "reset" ELSE "add")
    /\ UNCHANGED <<memc, connVars, k, count, acc, passed>>

Step(p) ==
    \/ ServerEnter(p) \/ ServerConnect(p) \/ SkipMyself(p) \/ ConnectSet(p)
    \/ ConnectGet(p) \/ Connected(p)
    \/ BarrierReset(p) \/ BarrierAdd(p) \/ BarrierWait(p)
    \/ SumSet(p) \/ SumGet(p) \/ SumReturn(p) \/ Finish(p)

\* Waiting is polling: memGet and memFetchAndAdd repeat a call that fails, and
\* serverConnect and barrier read again.
Poll(p) ==
    /\ \/ pc[p] = "get" /\ <<k[p], myNodeID[p]>> \notin DOMAIN meta
       \/ pc[p] = "add" /\ counter[At(p)] < 0
       \/ pc[p] = "wait" /\ counter[At(p)] # MaxServer
       \/ pc[p] = "sum" /\ SumKey(count[p], k[p]) \notin DOMAIN sums
    /\ UNCHANGED vars

Done == \A p \in Node : pc[p] = "done"

Next == (\E p \in Node : Step(p) \/ Poll(p)) \/ (Done /\ UNCHANGED vars)

Spec == Init /\ [][Next]_vars

\* Every machine keeps running and memcached keeps answering.
FairSpec == Spec /\ \A p \in Node : WF_vars(Step(p))

-----------------------------------------------------------------------------
(* Properties *)

\* Once a node has left the first barrier, each of its threads and each
\* directory of every node, itself included, are connected through queue pairs
\* that are up at both ends and lead to each other; the thread can reach the
\* memory of the directory's node, with the key that belongs to the queue pair,
\* and a message either sends arrives at the other; whenever the nodes entered
\* and whoever came first.
QpsPaired ==
    \A p \in passed["DSM-init"], q \in Node, t \in AppThread, d \in Directory :
        LET i == myNodeID[p]
            j == myNodeID[q]
            there == remoteInfo[p][j]
            back == remoteInfo[q][i]
        IN  /\ data[p][j][t][d] = [state |-> "RTS", dest |-> DirQpn(q, i, d, t)]
            /\ data2app[q][i][d][t] = [state |-> "RTS", dest |-> AppQpn(p, j, t, d)]
            /\ there.dsmRKey[d] = [mem |-> there.dsmBase, pd |-> there.dirMessageQPN[d]]
            /\ there.dsmBase = Pool(q, "dsm")
            /\ there.dirMessageQPN[d] = DirUdQpn(q, d)
            /\ there.appToDirAh[t][d] = [dlid |-> q]
            /\ back.appMessageQPN[t] = AppUdQpn(p, t)
            /\ back.dirToAppAh[d][t] = [dlid |-> p]
            /\ message[there.dirMessageQPN[d]].state = "RTS"
            /\ message[back.appMessageQPN[t]].state = "RTS"

\* Nobody leaves a barrier before everybody has reached it.
BarrierHolds ==
    /\ passed["DSM-init"] # {} =>
           \A p \in Node : pc[p] \notin {"enter", "poll", "connect", "get"}
    /\ passed["fin"] # {} => \A p \in Node : count[p] = Rounds

\* DSMKeeper::sum: "only node 0 return the sum" (DSMKeeper.cpp:172), the sum of
\* what the nodes contribute to the round.
SumIsOfRound ==
    \A p \in Node :
        pc[p] = "summed" /\ myNodeID[p] = 0
            => acc[p] = MaxServer * Contribution(count[p])

\* The blocking exchanges, in whatever order nodes enter, the barriers and the
\* sums never wait in a circle: every node comes to its end.
AllFinish == <>Done
=============================================================================
