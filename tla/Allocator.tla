------------------------------ MODULE Allocator ------------------------------
(***************************************************************************)
(* Memory for synonym leaves: DSM::alloc and DSM::free (src/include/DSM.h) *)
(* with the thread-local bump allocators (src/include/LocalAllocator.h),   *)
(* the chunk allocators of the directories (src/include/GlobalAllocator.h) *)
(* and the MALLOC call between them (src/src/Directory.cpp), which comes    *)
(* as an unreliable datagram into the ring of receive buffers of           *)
(* src/src/AbstractMessageConnection.cpp.                                  *)
(*                                                                         *)
(* There is one memory node.  Addresses are byte offsets; 0 is Null.       *)
(***************************************************************************)
EXTENDS Integers, Sequences, FiniteSets

CONSTANTS Thread,
          NrDirectory,  \* NR_DIRECTORY
          ChunkSize,    \* define::kChunkSize
          Base,         \* define::synRegionOffset
          DirSize,      \* per_directory_dsm_size
          Request,      \* the <<size, alignment>> pairs asked for
          BatchCount,   \* kBatchCount, batches of receive buffers
          SubNR,        \* subNR, buffers of a batch
          MaxAllocs,    \* bound on the number of allocations
          MaxFree       \* bound on the length of a free list

Dir == 0 .. NrDirectory - 1
Null == 0
MessageNR == BatchCount * SubNR
Slot == 0 .. MessageNR - 1
NoSlot == -1
Start(d) == Base + DirSize * d
BitmapLen == DirSize \div ChunkSize
RoundUp(x, n) == ((x + n - 1) \div n) * n

ASSUME SizeAssumption ==
    /\ NrDirectory \in Nat \ {0}
    /\ ChunkSize \in Nat \ {0}
    /\ Base \in Nat \ {0}
    /\ DirSize \in Nat
    /\ BatchCount \in Nat \ {0}
    /\ SubNR \in Nat \ {0}
    /\ MaxAllocs \in Nat
    /\ MaxFree \in Nat
ASSUME RequestAssumption ==
    /\ Request # {}
    /\ Request \subseteq (Nat \ {0}) \X (Nat \ {0})
    /\ \A r \in Request, d \in Dir, c \in 0 .. BitmapLen :
         LET chunk == Start(d) + c * ChunkSize
         IN  RoundUp(chunk, r[2]) + r[1] <= chunk + ChunkSize

VARIABLES
    tail,      \* tail[d]: bitmap_tail of directory d
    down,      \* down[d]: directory d has run out of chunks and asserted
    calls,     \* MALLOC messages on their way: <<thread, directory>>
    posted,    \* posted[d]: receive buffers the card of d may fill, in order
    pool,      \* pool[d][i]: the sender of the message in buffer i, messagePool
    arrived,   \* arrived[d]: completions of receives, not polled yet
    curMessage, \* curMessage[d]: the buffer to look at next
    inHand,    \* inHand[d]: the buffer process_message works on, or NoSlot
    reply,     \* reply[t]: the chunk sent to t, or Null
    target,    \* target[t]: cur_target_dir_id
    head,      \* head[t][d], cur[t][d]: the local allocator of t for d
    cur,
    freeList,  \* freeList[t][d]: blocks given back, as <<address, size>>
    pc,        \* "idle" or "rpc_wait"
    want,      \* the <<size, alignment>> of the call
    count,     \* number of allocations made
    live       \* blocks handed out and not given back: <<number, address, size>>

dirVars == <<tail, down>>
allocVars == <<head, cur, freeList>>
ringVars == <<posted, pool, arrived, curMessage, inHand>>
vars == <<dirVars, calls, ringVars, reply, target, allocVars, pc, want, count, live>>

Init ==
    /\ tail = [d \in Dir |-> 1]      \* chunk 0 is the null pointer's
    /\ down = [d \in Dir |-> FALSE]
    /\ calls = {}
    /\ posted = [d \in Dir |-> [i \in 1 .. MessageNR |-> i - 1]]
    /\ pool = [d \in Dir |-> [i \in Slot |-> CHOOSE t \in Thread : TRUE]]
    /\ arrived = [d \in Dir |-> 0]
    /\ curMessage = [d \in Dir |-> 0]
    /\ inHand = [d \in Dir |-> NoSlot]
    /\ reply = [t \in Thread |-> Null]
    /\ target \in [Thread -> Dir]    \* (thread + node) % NR_DIRECTORY
    /\ head = [t \in Thread |-> [d \in Dir |-> Null]]
    /\ cur = [t \in Thread |-> [d \in Dir |-> Null]]
    /\ freeList = [t \in Thread |-> [d \in Dir |-> <<>>]]
    /\ pc = [t \in Thread |-> "idle"]
    /\ want = [t \in Thread |-> CHOOSE r \in Request : TRUE]
    /\ count = 0
    /\ live = {}

-----------------------------------------------------------------------------
(* LocalAllocator::malloc on a chunk at h, next free byte c, free list f *)

Fits(h, c, r) == h # Null /\ RoundUp(c, r[2]) + r[1] <= h + ChunkSize
Usable(f, r) == {i \in 1 .. Len(f) : f[i][2] >= r[1]}
First(S) == CHOOSE i \in S : \A j \in S : i <= j
Remove(f, k) == [i \in 1 .. Len(f) - 1 |-> IF i < k THEN f[i] ELSE f[i + 1]]

HandOut(a, r) ==
    /\ live' = live \cup {<<count + 1, a, r[1]>>}
    /\ count' = count + 1

\* The call succeeds from the chunk h, c or from the free list and returns.
Malloc(t, d, h, c, r) ==
    LET f == freeList[t][d]
        k == First(Usable(f, r))
        next == RoundUp(c, r[2])
    IN  /\ head' = [head EXCEPT ![t][d] = h]
        /\ \/ /\ Fits(h, c, r)
              /\ HandOut(next, r)
              /\ cur' = [cur EXCEPT ![t][d] = next + r[1]]
              /\ UNCHANGED freeList
           \/ /\ ~Fits(h, c, r)
              /\ Usable(f, r) # {}
              /\ HandOut(f[k][1], r)
              /\ cur' = [cur EXCEPT ![t][d] = next]
              /\ freeList' = [freeList EXCEPT ![t][d] = Remove(f, k)]
        /\ pc' = [pc EXCEPT ![t] = "idle"]

-----------------------------------------------------------------------------
(* DSM::alloc *)

NextTarget(t) == (target[t] + 1) % NrDirectory

Alloc(t, r) ==
    LET d == NextTarget(t)
    IN  /\ pc[t] = "idle"
        /\ count < MaxAllocs
        /\ target' = [target EXCEPT ![t] = d]
        /\ want' = [want EXCEPT ![t] = r]
        /\ Malloc(t, d, head[t][d], cur[t][d], r)
        /\ UNCHANGED <<dirVars, calls, ringVars, reply>>

\* rdmaSend posts a datagram; that a send may fail is only reported.
rdmaSend(box, m) == box \cup {m}

\* Neither the chunk nor the free list serves: rpc_call_dir.
AllocRpc(t, r) ==
    LET d == NextTarget(t)
    IN  /\ pc[t] = "idle"
        /\ count < MaxAllocs
        /\ target' = [target EXCEPT ![t] = d]
        /\ want' = [want EXCEPT ![t] = r]
        /\ ~Fits(head[t][d], cur[t][d], r)
        /\ Usable(freeList[t][d], r) = {}
        /\ cur' = [cur EXCEPT ![t][d] = RoundUp(@, r[2])]
        /\ calls' = rdmaSend(calls, <<t, d>>)
        /\ pc' = [pc EXCEPT ![t] = "rpc_wait"]
        /\ UNCHANGED <<dirVars, ringVars, reply, head, freeList, count, live>>

\* Mutant of RpcReturn: set_chunck sets head and leaves cur.
RpcReturnKeepCur(t) ==
    /\ pc[t] = "rpc_wait"
    /\ reply[t] # Null
    /\ Malloc(t, target[t], reply[t], cur[t][target[t]], want[t])
    /\ reply' = [reply EXCEPT ![t] = Null]
    /\ UNCHANGED <<dirVars, calls, ringVars, target, want>>

\* rpc_wait returns: set_chunck, and malloc again.
RpcReturn(t) ==
    /\ pc[t] = "rpc_wait"
    /\ reply[t] # Null
    /\ Malloc(t, target[t], reply[t], reply[t], want[t])
    /\ reply' = [reply EXCEPT ![t] = Null]
    /\ UNCHANGED <<dirVars, calls, ringVars, target, want>>

\* DSM::free: always to the thread's list for directory 0.
Free(t, b) ==
    /\ pc[t] = "idle"
    /\ b \in live
    /\ Len(freeList[t][0]) < MaxFree
    /\ live' = live \ {b}
    /\ freeList' = [freeList EXCEPT ![t][0] = Append(@, <<b[2], b[3]>>)]
    /\ UNCHANGED <<dirVars, calls, ringVars, reply, target, head, cur, pc, want,
                   count>>

-----------------------------------------------------------------------------
(* The receive ring of a directory *)

\* The card puts a datagram into the oldest posted buffer; one that finds none
\* is dropped.
Deliver(t, d) ==
    /\ <<t, d>> \in calls
    /\ calls' = calls \ {<<t, d>>}
    /\ IF posted[d] = <<>> THEN UNCHANGED <<posted, pool, arrived>>
       ELSE /\ posted' = [posted EXCEPT ![d] = Tail(@)]
            /\ pool' = [pool EXCEPT ![d][Head(posted[d])] = t]
            /\ arrived' = [arrived EXCEPT ![d] = @ + 1]
    /\ UNCHANGED <<dirVars, curMessage, inHand, reply, target, allocVars, pc, want,
                   count, live>>

\* recvs[b]: the buffers of batch b.
Batch(b) == [i \in 1 .. SubNR |-> b * SubNR + i - 1]

\* Mutant of Finished: the batch that begins, instead of the one that ended.
FinishedNext(next) == (next \div SubNR) % BatchCount

\* The batch that getMessage has gone through when it steps to buffer next.
Finished(next) == (next \div SubNR - 1 + BatchCount) % BatchCount

\* getMessage takes the next buffer, and at the end of a batch posts the whole
\* batch again, the buffer it returns included.
TakeMessage(d) ==
    LET next == (curMessage[d] + 1) % MessageNR
    IN  /\ inHand' = [inHand EXCEPT ![d] = curMessage[d]]
        /\ curMessage' = [curMessage EXCEPT ![d] = next]
        /\ posted' = [posted EXCEPT ![d] =
                        IF next % SubNR = 0 THEN @ \o Batch(Finished(next)) ELSE @]

\* Mutant of GetMessage: a single completion is not enough.
GetMessageLate(d) ==
    /\ ~down[d] /\ inHand[d] = NoSlot
    /\ arrived[d] > 1
    /\ arrived' = [arrived EXCEPT ![d] = @ - 1]
    /\ TakeMessage(d)
    /\ UNCHANGED <<dirVars, calls, pool, reply, target, allocVars, pc, want, count,
                   live>>

\* dirThread polls a completion and takes the message.
GetMessage(d) ==
    /\ ~down[d] /\ inHand[d] = NoSlot
    /\ arrived[d] > 0
    /\ arrived' = [arrived EXCEPT ![d] = @ - 1]
    /\ TakeMessage(d)
    /\ UNCHANGED <<dirVars, calls, pool, reply, target, allocVars, pc, want, count,
                   live>>

-----------------------------------------------------------------------------
(* Directory::process_message, GlobalAllocator::alloc_chunck *)

\* sendMessage2App: the answer goes to the thread that the message names.
sendMessage2App(d, chunk) == reply' = [reply EXCEPT ![pool[d][inHand[d]]] = chunk]

\* Mutant of AllocChunk: the tail is not advanced.
AllocChunkAgain(d) ==
    /\ inHand[d] # NoSlot
    /\ ~down[d]
    /\ tail[d] < BitmapLen
    /\ sendMessage2App(d, Start(d) + tail[d] * ChunkSize)
    /\ inHand' = [inHand EXCEPT ![d] = NoSlot]
    /\ UNCHANGED <<tail, down, calls, posted, pool, arrived, curMessage, target,
                   allocVars, pc, want, count, live>>

\* Chunks are handed out in order; bitmap[i] is i < tail.
AllocChunk(d) ==
    /\ inHand[d] # NoSlot
    /\ ~down[d]
    /\ tail[d] < BitmapLen
    /\ tail' = [tail EXCEPT ![d] = @ + 1]
    /\ sendMessage2App(d, Start(d) + tail[d] * ChunkSize)
    /\ inHand' = [inHand EXCEPT ![d] = NoSlot]
    /\ UNCHANGED <<down, calls, posted, pool, arrived, curMessage, target, allocVars,
                   pc, want, count, live>>

\* "shared memory space run out", assert(false).
RunOut(d) ==
    /\ inHand[d] # NoSlot
    /\ ~down[d]
    /\ tail[d] >= BitmapLen
    /\ down' = [down EXCEPT ![d] = TRUE]
    /\ UNCHANGED <<tail, calls, ringVars, reply, target, allocVars, pc, want, count,
                   live>>

Next ==
    \/ \E t \in Thread, r \in Request : Alloc(t, r) \/ AllocRpc(t, r)
    \/ \E t \in Thread : RpcReturn(t) \/ \E b \in live : Free(t, b)
    \/ \E t \in Thread, d \in Dir : Deliver(t, d)
    \/ \E d \in Dir : GetMessage(d) \/ AllocChunk(d) \/ RunOut(d)

Spec == Init /\ [][Next]_vars

\* Messages arrive, directories serve them and callers poll.
FairSpec ==
    /\ Spec
    /\ \A t \in Thread : WF_vars(RpcReturn(t))
    /\ \A t \in Thread, d \in Dir : WF_vars(Deliver(t, d))
    /\ \A d \in Dir : WF_vars(GetMessage(d) \/ AllocChunk(d) \/ RunOut(d))

-----------------------------------------------------------------------------
(* Properties *)

Block == Nat \X Nat

\* bitmap_tail never moves beyond the end of the bitmap, and addresses and sizes
\* are never negative.
TypeOK ==
    /\ tail \in [Dir -> 1 .. BitmapLen]
    /\ down \in [Dir -> BOOLEAN]
    /\ calls \subseteq Thread \X Dir
    /\ posted \in [Dir -> Seq(Slot)]
    /\ pool \in [Dir -> [Slot -> Thread]]
    /\ arrived \in [Dir -> Nat]
    /\ curMessage \in [Dir -> Slot]
    /\ inHand \in [Dir -> Slot \cup {NoSlot}]
    /\ reply \in [Thread -> Nat]
    /\ target \in [Thread -> Dir]
    /\ head \in [Thread -> [Dir -> Nat]]
    /\ cur \in [Thread -> [Dir -> Nat]]
    /\ \A t \in Thread, d \in Dir : freeList[t][d] \in Seq(Block)
    /\ pc \in [Thread -> {"idle", "rpc_wait"}]
    /\ want \in [Thread -> Request]
    /\ count \in Nat
    /\ live \subseteq Nat \X Nat \X Nat

\* Two blocks that are in use never overlap, whichever threads and directories
\* they come from: a synonym leaf belongs to one leaf.
BlocksDisjoint ==
    \A b, c \in live :
        b # c => b[2] + b[3] <= c[2] \/ c[2] + c[3] <= b[2]

\* A block lies in the region of one directory, behind its first chunk, so it
\* is not Null, not in the leaf region, and not outside the shared memory.
BlocksInRegion ==
    \A b \in live : \E d \in Dir :
        /\ Start(d) + ChunkSize <= b[2]
        /\ b[2] + b[3] <= Start(d) + DirSize

\* The buffers of d that hold a message nobody has looked at, or only begun to.
Unread(d) ==
    {(curMessage[d] + i) % MessageNR : i \in 0 .. arrived[d] - 1} \cup
    ({inHand[d]} \ {NoSlot})

\* A thread that waits in rpc_wait is waited for, once: its MALLOC is on the way,
\* or in one buffer of the directory's ring, or answered.  So no datagram finds
\* the ring without a buffer, none is put over one that is still to be read or
\* being processed, although its buffer is posted again before, and none is
\* processed twice.
CallInFlight ==
    \A t \in Thread :
        LET d == target[t]
            sent == IF <<t, d>> \in calls THEN 1 ELSE 0
            answered == IF reply[t] # Null THEN 1 ELSE 0
        IN  sent + Cardinality({i \in Unread(d) : pool[d][i] = t}) + answered
            = IF pc[t] = "rpc_wait" THEN 1 ELSE 0

\* A call of alloc returns unless the directory it asks has run out.
AllocReturns ==
    \A t \in Thread :
        pc[t] = "rpc_wait" ~> (pc[t] = "idle" \/ down[target[t]])
=============================================================================
