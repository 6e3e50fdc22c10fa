-------------------------------- MODULE Verbs --------------------------------
(***************************************************************************)
(* How one thread waits for the network: the synchronous verbs of          *)
(* src/src/DSM.cpp and src/src/rdma/Operation.cpp and the coroutine        *)
(* scheduler of src/src/Rolex.cpp.                                         *)
(*                                                                         *)
(* A coroutine posts its work requests to the queue pair of a memory node, *)
(* only the last of a batch signalled and tagged with the coroutine's      *)
(* number, and yields; run_coroutine resumes the coroutine that a          *)
(* completion names.  A coroutine that has nothing to wait for yields      *)
(* through busy_waiting_queue.  A thread without coroutines polls the       *)
(* completion queue itself.                                                *)
(*                                                                         *)
(* The index operations are whatever sequence of calls a coroutine makes.  *)
(* Queue pairs and completion queue are the network card's: a queue pair   *)
(* executes its requests in order, different ones in any order.            *)
(***************************************************************************)
EXTENDS Integers, Sequences, FiniteSets

CONSTANTS Node,   \* memory nodes, numbers
          Coro    \* numbers 0 .. n of the coroutines

ASSUME VerbsAssumption ==
    Node \cup Coro \subseteq Nat /\ 0 \in Coro

None == -1

VARIABLES
    cur,    \* the coroutine that runs, None while run_coroutine does
    pc,     \* "new", "run", "wait" for a verb, "rest" between operations,
            \* "poll" in pollWithCQ, "spin" in a *_without_sink call, "done"
    todo,   \* batches of the current call that are not posted yet
    need,   \* completions pollWithCQ still has to see
    last,   \* the last call
    qp,     \* qp[n]: requests posted to node n and not executed
    cq,     \* completions not polled
    busy,   \* busy_waiting_queue
    phase,  \* of run_coroutine: "start", "cq", "busy", "exit"; "none" in a
            \* thread without coroutines
    stop    \* need_stop

coroVars == <<pc, todo, need, last>>
nicVars == <<qp, cq>>
vars == <<cur, coroVars, nicVars, busy, phase, stop>>

\* Calls have a CoroPull to yield to.
Sink == phase # "none"

\* A region of remote memory that a request reads or writes: "node" and "unlock"
\* are written under a leaf's lock, "cas" is a word whose old value the caller
\* looks at, "data" is anything else.
Region(n, what) == [node |-> n, what |-> what]
NoCall == <<>>

\* A call posts batches, one queue pair's chain of requests each.
One(what) == {<< <<Region(n, what)>> >> : n \in Node}
Chain(what, then) == {<< <<Region(n, what), Region(n, then)>> >> : n \in Node}

\* One request: reads and writes, the fetch-and-adds, the same in the card's own
\* memory (*_dm), and the compare-and-swaps.
Read == One("data")
Write == One("data")
FetchAndAdd == One("data")
OnChip == One("data") \cup One("cas")
CompareAndSwap == One("cas")
CompareAndSwapMask == One("cas")

\* Two requests on the queue pair of the first: write_faa, write_cas; cas_read.
WriteThenAtomic == Chain("data", "data") \cup Chain("data", "cas")
CasThenRead == Chain("cas", "data")

\* cas_write_sync: on different memory nodes, one request after the other.
CasThenWrite ==
    Chain("cas", "data") \cup
    {<< <<Region(p[1], "cas")>>, <<Region(p[2], "data")>> >> :
        p \in {q \in Node \X Node : q[1] # q[2]}}

\* each_rs, a std::map: the regions r and s by memory node, nodes ascending; the
\* regions r, s and t, of which t is on the node of r.
Ascending(a, b) == IF a[1].node < b[1].node THEN <<a, b>> ELSE <<b, a>>
GroupTwo(r, s) == IF r.node = s.node THEN << <<r, s>> >> ELSE Ascending(<<r>>, <<s>>)
GroupThree(r, s, t) ==
    IF r.node = s.node THEN << <<r, s, t>> >> ELSE Ascending(<<r, t>>, <<s>>)

\* What the index reads and writes in batches: leaves, a node or a leaf and its
\* synonym with the unlock.
ReadBatches == {GroupTwo(Region(m, "data"), Region(n, "data")) : m, n \in Node}

\* Mutant of WriteBatches: the unlock comes first.
WriteBatchesEarly ==
    {GroupTwo(Region(m, "unlock"), Region(n, "node")) : m, n \in Node}

WriteBatches ==
    {GroupTwo(Region(n, "node"), Region(m, "unlock")) : m, n \in Node} \cup
    {GroupThree(Region(m, "node"), Region(n, "node"), Region(m, "unlock")) :
        m, n \in Node}

Calls ==
    UNION {Read, Write, FetchAndAdd, OnChip, CompareAndSwap, CompareAndSwapMask,
           WriteThenAtomic, CasThenRead, CasThenWrite, ReadBatches, WriteBatches}

Init ==
    /\ \/ /\ phase = "start"
          /\ cur = None
          /\ pc = [c \in Coro |-> "new"]
       \/ /\ phase = "none"
          /\ cur = 0
          /\ pc = [c \in Coro |-> IF c = 0 THEN "run" ELSE "done"]
    /\ todo = [c \in Coro |-> <<>>]
    /\ need = 0
    /\ last = [c \in Coro |-> NoCall]
    /\ qp = [n \in Node |-> <<>>]
    /\ cq = <<>>
    /\ busy = <<>>
    /\ stop = FALSE

-----------------------------------------------------------------------------
(* Posting *)

\* Mutant of Requests: the first request of a batch is signalled.
RequestsFirst(c, batch) ==
    [i \in DOMAIN batch |->
        [coro |-> c, what |-> batch[i].what, signal |-> i = 1]]

\* fillSgeWr: the work request, wr_id the coroutine.
Request(c, r, signal) == [coro |-> c, what |-> r.what, signal |-> signal]

\* rdmaReadBatch, rdmaWriteBatch: the last request of a batch is signalled.
Requests(c, batch) ==
    [i \in DOMAIN batch |-> Request(c, batch[i], i = Len(batch))]

Post(c, batch) ==
    LET n == batch[1].node
    IN  qp' = [qp EXCEPT ![n] = @ \o Requests(c, batch)]

Yield(c, how) ==
    /\ pc' = [pc EXCEPT ![c] = how]
    /\ cur' = None

\* A call with a sink: the first batch is posted, followed by (*sink)().
CallWithSink(c, bs) ==
    /\ Sink
    /\ Post(c, Head(bs))
    /\ todo' = [todo EXCEPT ![c] = Tail(bs)]
    /\ Yield(c, "wait")
    /\ UNCHANGED need

\* Without a sink all batches are posted, each on a node of its own, and pollWithCQ
\* waits for one completion of each.
CallNoSink(c, bs) ==
    LET on(n) == {i \in DOMAIN bs : bs[i][1].node = n}
    IN  /\ ~Sink
        /\ qp' = [n \in Node |-> IF on(n) = {} THEN qp[n]
                                 ELSE qp[n] \o Requests(c, bs[CHOOSE i \in on(n) : TRUE])]
        /\ need' = Len(bs)
        /\ pc' = [pc EXCEPT ![c] = "poll"]
        /\ UNCHANGED <<cur, todo>>

\* read_sync_without_sink and its likes: the coroutine does not yield but polls
\* the completion queue for its own completion.
CallSpinning(c, bs) ==
    /\ Sink
    /\ Len(bs) = 1
    /\ Post(c, Head(bs))
    /\ pc' = [pc EXCEPT ![c] = "spin"]
    /\ UNCHANGED <<cur, todo, need>>

Call(c) ==
    /\ cur = c /\ pc[c] = "run" /\ todo[c] = <<>>
    /\ \E bs \in Calls :
        /\ CallWithSink(c, bs) \/ CallNoSink(c, bs) \/ CallSpinning(c, bs)
        /\ last' = [last EXCEPT ![c] = bs]
    /\ UNCHANGED <<cq, busy, phase, stop>>

\* pollOnce, ibv_poll_cq: the oldest completion is taken off the queue.
NextCompletion == cq # <<>> /\ cq' = Tail(cq)

SpinOwn(c) ==
    /\ cur = c /\ pc[c] = "spin"
    /\ NextCompletion
    /\ Head(cq) = c
    /\ pc' = [pc EXCEPT ![c] = "run"]
    /\ UNCHANGED <<cur, todo, need, last, qp, busy, phase, stop>>

\* Mutant of SpinOther: the completion is dropped.
SpinOtherDropped(c) ==
    /\ cur = c /\ pc[c] = "spin"
    /\ NextCompletion
    /\ Head(cq) # c
    /\ UNCHANGED <<cur, coroVars, qp, busy, phase, stop>>

\* The completion of another coroutine's call: waiting_queue->push.
SpinOther(c) ==
    /\ cur = c /\ pc[c] = "spin"
    /\ NextCompletion
    /\ Head(cq) # c
    /\ busy' = Append(busy, Head(cq))
    /\ UNCHANGED <<cur, coroVars, qp, phase, stop>>

\* The next batch of read_batches_sync or write_batches_sync, or the
\* compare-and-swap that lock_node repeats.
PostNext(c) ==
    /\ cur = c /\ pc[c] = "run" /\ todo[c] # <<>>
    /\ Post(c, Head(todo[c]))
    /\ todo' = [todo EXCEPT ![c] = Tail(@)]
    /\ Yield(c, "wait")
    /\ UNCHANGED <<need, last, cq, busy, phase, stop>>

\* lock_node: the compare-and-swap failed; it is tried again after the others
\* had a turn (at once without coroutines).
LockRetry(c) ==
    /\ Sink
    /\ cur = c /\ pc[c] = "run" /\ todo[c] = <<>>
    /\ last[c] \in CompareAndSwapMask
    /\ busy' = Append(busy, c)
    /\ todo' = [todo EXCEPT ![c] = last[c]]
    /\ Yield(c, "wait")
    /\ UNCHANGED <<need, last, nicVars, phase, stop>>

\* coro_worker: the operation is over.
OpDone(c) ==
    /\ Sink
    /\ cur = c /\ pc[c] = "run" /\ todo[c] = <<>>
    /\ busy' = Append(busy, c)
    /\ last' = [last EXCEPT ![c] = NoCall]
    /\ Yield(c, "rest")
    /\ UNCHANGED <<todo, need, nicVars, phase, stop>>

\* pollWithCQ, one completion.
PollCQ ==
    /\ ~Sink
    /\ pc[0] = "poll"
    /\ NextCompletion
    /\ need' = need - 1
    /\ pc' = [pc EXCEPT ![0] = IF need = 1 THEN "run" ELSE "poll"]
    /\ UNCHANGED <<cur, todo, last, qp, busy, phase, stop>>

-----------------------------------------------------------------------------
(* run_coroutine *)

\* workers[c](c): the coroutine goes on; between operations it looks at
\* need_stop and may end.
Resume(c) ==
    LET ends == pc[c] \in {"new", "rest"} /\ stop
    IN  /\ pc' = [pc EXCEPT ![c] = IF ends THEN "done" ELSE "run"]
        /\ cur' = IF ends THEN None ELSE c
        /\ UNCHANGED <<todo, need, last>>

\* The workers are started one after the other.
StartWorker ==
    /\ cur = None /\ phase = "start"
    /\ LET fresh == {c \in Coro : pc[c] = "new"}
       IN  IF fresh = {}
           THEN phase' = "cq" /\ UNCHANGED <<cur, coroVars>>
           ELSE Resume(CHOOSE c \in fresh : \A d \in fresh : c <= d) /\ UNCHANGED phase
    /\ UNCHANGED <<nicVars, busy, stop>>

\* Mutant of PollOnce: the busy queue has its turn only when nothing completed.
PollOnceGreedy ==
    /\ cur = None /\ phase = "cq"
    /\ IF stop
       THEN phase' = "exit" /\ UNCHANGED <<cur, coroVars, cq>>
       ELSE IF cq = <<>>
            THEN phase' = "busy" /\ UNCHANGED <<cur, coroVars, cq>>
            ELSE Resume(Head(cq)) /\ cq' = Tail(cq) /\ UNCHANGED phase
    /\ UNCHANGED <<qp, busy, stop>>

\* The head of the loop: need_stop, then one completion if there is one, ...
PollOnce ==
    /\ cur = None /\ phase = "cq"
    /\ IF stop
       THEN phase' = "exit" /\ UNCHANGED <<cur, coroVars, cq>>
       ELSE /\ phase' = "busy"
            /\ IF cq = <<>> THEN UNCHANGED <<cur, coroVars, cq>>
               ELSE NextCompletion /\ Resume(Head(cq))
    /\ UNCHANGED <<qp, busy, stop>>

\* ... then one coroutine of the busy queue.
PopBusy ==
    /\ cur = None /\ phase = "busy"
    /\ phase' = "cq"
    /\ IF busy = <<>> THEN UNCHANGED <<cur, coroVars, busy>>
       ELSE Resume(Head(busy)) /\ busy' = Tail(busy)
    /\ UNCHANGED <<nicVars, stop>>

\* The test driver sets need_stop.
Stop ==
    /\ Sink /\ ~stop
    /\ stop' = TRUE
    /\ UNCHANGED <<cur, coroVars, nicVars, busy, phase>>

-----------------------------------------------------------------------------
\* The network card executes a queue pair's oldest request; a signalled one
\* leaves a completion.
Execute(n) ==
    /\ qp[n] # <<>>
    /\ qp' = [qp EXCEPT ![n] = Tail(@)]
    /\ cq' = IF Head(qp[n]).signal THEN Append(cq, Head(qp[n]).coro) ELSE cq
    /\ UNCHANGED <<cur, coroVars, busy, phase, stop>>

Worker(c) ==
    \/ Call(c) \/ SpinOwn(c) \/ SpinOther(c) \/ PostNext(c)
    \/ LockRetry(c) \/ OpDone(c)
Scheduler == StartWorker \/ PollOnce \/ PopBusy
Finished == phase = "exit" /\ UNCHANGED vars

Next ==
    \/ \E c \in Coro : Worker(c)
    \/ PollCQ
    \/ Scheduler
    \/ Stop
    \/ \E n \in Node : Execute(n)
    \/ Finished

Spec == Init /\ [][Next]_vars

\* The card serves every queue pair; the thread is never descheduled for ever;
\* and an operation makes finitely many calls, so it does not spin for ever.
FairSpec ==
    /\ Spec
    /\ \A n \in Node : WF_vars(Execute(n))
    /\ \A c \in Coro : WF_vars(Worker(c)) /\ SF_vars(Worker(c) /\ cur' = None)
    /\ WF_vars(PollCQ)
    /\ WF_vars(Scheduler)

-----------------------------------------------------------------------------
\* The requests of c in the queue pairs, as <<node, position>>; the signalled ones.
InQp(c) ==
    {p \in UNION {{n} \X DOMAIN qp[n] : n \in Node} : qp[p[1]][p[2]].coro = c}
Signalled(c) == {p \in InQp(c) : qp[p[1]][p[2]].signal}
InSeq(c, s) == {i \in DOMAIN s : s[i] = c}

\* run_coroutine never loses a coroutine and never resumes one that waits for
\* something else: a coroutine that yielded has exactly one signalled request,
\* completion or busy entry to its name, and one that runs or ended has none.
OneWakeUp ==
    Sink => \A c \in Coro :
        Cardinality(Signalled(c)) + Cardinality(InSeq(c, cq))
            + Cardinality(InSeq(c, busy))
        = IF pc[c] \in {"wait", "rest", "spin"} THEN 1 ELSE 0

\* When a *_sync call is back, everything it posted is done, on all nodes: the
\* buffers of a read are filled, the writes and the unlock are in memory.
DoneOnReturn ==
    \A c \in Coro : pc[c] = "run" => InQp(c) = {}

\* The unlock of write_nodes_and_unlock is the last write on its memory node:
\* when it is about to be executed, no node of the batch that lies there is left
\* to be written.  With MEMORY_NODE_NUM = 1 these are all of them.
UnlockLast ==
    \A n \in Node : (qp[n] # <<>> /\ Head(qp[n]).what = "unlock") =>
        \A i \in DOMAIN qp[n] :
            qp[n][i].coro = Head(qp[n]).coro => qp[n][i].what # "node"

\* A coroutine that waits, for a verb or for its next turn, runs again, unless
\* the thread is stopped.
Resumed ==
    \A c \in Coro : pc[c] \in {"wait", "rest", "poll", "spin"} ~> (pc[c] = "run" \/ stop)
=============================================================================
