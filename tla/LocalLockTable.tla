--------------------------- MODULE LocalLockTable ---------------------------
(***************************************************************************)
(* Read delegation and write combining: one slot of the local lock table   *)
(* of a compute node (src/include/LocalLockTable.h) and the calls of       *)
(* search, insert and update (src/src/Rolex.cpp) that go through it when   *)
(* READ_DELEGATION and WRITE_COMBINING are compiled in.                    *)
(*                                                                         *)
(* Threads that want the same key queue on a ticket lock, one for readers  *)
(* and one for writers.  The first to enter (the winner) does the remote   *)
(* operation; those queued behind it in the same time window are handed    *)
(* its result, or count as written, and do nothing themselves.  A thread   *)
(* whose key is not the slot's goes past the slot (bypass).                *)
(*                                                                         *)
(* Every step is one access to a variable that other threads also write;   *)
(* what only the thread at the head of a queue touches goes along.         *)
(***************************************************************************)
EXTENDS Integers, FiniteSets

CONSTANTS Thread,
          Key,        \* keys that hash to this slot
          NoKey,      \* nullptr
          TicketMod,  \* 2 ^ 8: tickets and windows are uint8_t
          MaxOps      \* bound on the number of calls

ASSUME KeyAssumption == NoKey \notin Key
ASSUME TicketAssumption ==
    /\ TicketMod \in Nat
    /\ IsFiniteSet(Thread)
    /\ Cardinality(Thread) < TicketMod
ASSUME MaxOpsAssumption == MaxOps \in Nat

Side == {"read", "write"}
Other(s) == IF s = "read" THEN "write" ELSE "read"

Absent == <<>>                       \* the key is not found
Value == {Absent} \cup (Key \X {"v"})

VARIABLES
    current,      \* current[s]: read_current, write_current
    ticket,       \* ticket[s]: read_ticket, write_ticket
    handover,     \* handover[s]: read_handover, write_handover
    window,       \* window[s]: read_window, write_window
    mutex,        \* mutex[s]: the holder of r_lock, w_lock, or none
    unique,       \* unique[s]: unique_read_key, unique_write_key
    windowStart,  \* window_start
    result,       \* ret_value, with the key it is for
    wcBuffer,     \* wc_buffer
    store,        \* store[k]: the value of k in the index
    leafLock,     \* leafLock[k]: the holder of the lock of k's leaf, or none
    pc, side, key, val, my, snap, way,   \* the locals of a call
    ops           \* number of calls made

queue == <<current, ticket, unique>>
windows == <<handover, window, mutex, windowStart>>
data == <<result, wcBuffer, store, leafLock>>
call == <<side, key>>
locals == <<call, pc, val, my, snap, way>>
vars == <<queue, windows, data, locals, ops>>

None == {}    \* no holder

Init ==
    /\ current = [s \in Side |-> 0]
    /\ ticket = [s \in Side |-> 0]
    /\ handover = [s \in Side |-> FALSE]
    /\ window = [s \in Side |-> 0]
    /\ mutex = [s \in Side |-> None]
    /\ unique = [s \in Side |-> NoKey]
    /\ windowStart = FALSE
    /\ result = <<NoKey, Absent>>
    /\ wcBuffer = Absent
    /\ store = [k \in Key |-> Absent]
    /\ leafLock = [k \in Key |-> None]
    /\ pc = [t \in Thread |-> "idle"]
    /\ side = [t \in Thread |-> "read"]
    /\ key = [t \in Thread |-> NoKey]
    /\ val = [t \in Thread |-> Absent]
    /\ my = [t \in Thread |-> 0]
    /\ snap = [t \in Thread |-> 0]
    /\ way = [t \in Thread |-> "none"]
    /\ ops = 0

Goto(t, l) == pc' = [pc EXCEPT ![t] = l]
Inc(n) == (n + 1) % TicketMod
Distance(to, from) == (TicketMod + to - from) % TicketMod

-----------------------------------------------------------------------------
(* acquire_local_read_lock, acquire_local_write_lock *)

Call(t, s, k) ==
    /\ pc[t] = "idle"
    /\ ops < MaxOps
    /\ side' = [side EXCEPT ![t] = s]
    /\ key' = [key EXCEPT ![t] = k]
    /\ val' = [val EXCEPT ![t] = IF s = "read" THEN Absent ELSE <<k, "v">>]
    /\ way' = [way EXCEPT ![t] = "none"]
    /\ ops' = ops + 1
    /\ Goto(t, "claim")
    /\ UNCHANGED <<queue, windows, data, my, snap>>

\* compare_exchange_strong on the unique key: the slot becomes k's, is k's
\* already, or belongs to another key.
Claim(t) ==
    LET s == side[t]
        k == key[t]
    IN  /\ pc[t] = "claim"
        /\ IF unique[s] \in {NoKey, k}
           THEN /\ unique' = [unique EXCEPT ![s] = k]
                /\ Goto(t, IF s = "read" THEN "ticket" ELSE "deposit")
                /\ UNCHANGED way
           ELSE /\ way' = [way EXCEPT ![t] = "bypass"]
                /\ Goto(t, "work")
                /\ UNCHANGED unique
        /\ UNCHANGED <<current, ticket, windows, data, call, val, my, snap, ops>>

\* wc_buffer = v, the local overwrite.
Deposit(t) ==
    /\ pc[t] = "deposit"
    /\ wcBuffer' = val[t]
    /\ Goto(t, "ticket")
    /\ UNCHANGED <<queue, windows, result, store, leafLock, call, val, my, snap,
                   way, ops>>

TakeTicket(t) ==
    /\ pc[t] = "ticket"
    /\ my' = [my EXCEPT ![t] = ticket[side[t]]]
    /\ ticket' = [ticket EXCEPT ![side[t]] = Inc(@)]
    /\ Goto(t, "wait")
    /\ UNCHANGED <<current, unique, windows, data, call, val, snap, way, ops>>

\* Its turn has come, and the slot is still k's: the thread wins, or is handed
\* the winner's result if the window it queued in is still open.
Enter(t) ==
    LET s == side[t]
        handed == handover[s] /\ window[s] # 0
    IN  /\ pc[t] = "wait"
        /\ my[t] = current[s]
        /\ unique[s] = key[t]
        /\ handover' = [handover EXCEPT ![s] = handed]
        /\ way' = [way EXCEPT ![t] = IF handed THEN "loser" ELSE "winner"]
        /\ Goto(t, IF handed THEN "release" ELSE "work")
        /\ UNCHANGED <<queue, window, mutex, windowStart, data, call, val, my,
                       snap, ops>>

\* The slot is another key's by now: leave the queue and go past the slot.
EnterConflict(t) ==
    LET s == side[t]
    IN  /\ pc[t] = "wait"
        /\ my[t] = current[s]
        /\ unique[s] # key[t]
        /\ way' = [way EXCEPT ![t] = "bypass"]
        /\ Goto(t, "leave")
        /\ UNCHANGED <<queue, windows, data, call, val, my, snap, ops>>

-----------------------------------------------------------------------------
(* The remote operation of a thread that was not handed anything *)

\* The call returns and its locals are gone.
Returned(t) ==
    /\ Goto(t, "idle")
    /\ side' = [side EXCEPT ![t] = "read"]
    /\ key' = [key EXCEPT ![t] = NoKey]
    /\ val' = [val EXCEPT ![t] = Absent]
    /\ my' = [my EXCEPT ![t] = 0]
    /\ snap' = [snap EXCEPT ![t] = 0]
    /\ way' = [way EXCEPT ![t] = "none"]

\* Mutant of Lookup: release does not return early for a bypassing thread.
LookupRelease(t) ==
    /\ pc[t] = "work"
    /\ side[t] = "read"
    /\ val' = [val EXCEPT ![t] = store[key[t]]]
    /\ Goto(t, "release")
    /\ UNCHANGED <<queue, windows, data, call, my, snap, way, ops>>

\* _search.
Lookup(t) ==
    /\ pc[t] = "work"
    /\ side[t] = "read"
    /\ IF way[t] = "bypass" THEN Returned(t)
       ELSE /\ val' = [val EXCEPT ![t] = store[key[t]]]
            /\ Goto(t, "release")
            /\ UNCHANGED <<call, my, snap, way>>
    /\ UNCHANGED <<queue, windows, data, ops>>

\* The leaf is locked and read; get_combining_value compares the keys ...
LockLeaf(t) ==
    LET k == key[t]
    IN  /\ pc[t] = "work"
        /\ side[t] = "write"
        /\ leafLock[k] = None
        /\ leafLock' = [leafLock EXCEPT ![k] = {t}]
        /\ Goto(t, IF unique["write"] = k THEN "combine" ELSE "store")
        /\ UNCHANGED <<queue, windows, result, wcBuffer, store, call, val, my,
                       snap, way, ops>>

\* ... and takes the latest value from wc_buffer.
Combine(t) ==
    /\ pc[t] = "combine"
    /\ val' = [val EXCEPT ![t] = wcBuffer]
    /\ Goto(t, "store")
    /\ UNCHANGED <<queue, windows, data, call, my, snap, way, ops>>

StoreValue(t) ==
    LET k == key[t]
    IN  /\ pc[t] = "store"
        /\ store' = [store EXCEPT ![k] = val[t]]
        /\ leafLock' = [leafLock EXCEPT ![k] = None]
        /\ IF way[t] = "bypass" THEN Returned(t)
           ELSE Goto(t, "release") /\ UNCHANGED <<call, val, my, snap, way>>
        /\ UNCHANGED <<queue, windows, result, wcBuffer, ops>>

-----------------------------------------------------------------------------
(* release_local_read_lock, release_local_write_lock *)

\* A reader leaves its result in the node, or takes the one that is there;
\* both sides load the ticket counter.
Release(t) ==
    LET s == side[t]
    IN  /\ pc[t] = "release"
        /\ IF s = "write" THEN UNCHANGED <<result, val>>
           ELSE IF handover[s]
                THEN val' = [val EXCEPT ![t] = result[2]] /\ UNCHANGED result
                ELSE result' = <<key[t], val[t]>> /\ UNCHANGED val
        /\ snap' = [snap EXCEPT ![t] = ticket[s]]
        /\ Goto(t, "start")
        /\ UNCHANGED <<queue, windows, wcBuffer, store, leafLock, call, my, way,
                       ops>>

\* A winner opens a time window unless one is open.
StartWindow(t) ==
    LET s == side[t]
        opens == ~handover[s] /\ ~windowStart
    IN  /\ pc[t] = "start"
        /\ windowStart' = (windowStart \/ opens)
        /\ Goto(t, CASE ~opens -> "pass"
                     [] opens /\ s = "read" -> "own"
                     [] opens /\ s = "write" -> "other")
        /\ UNCHANGED <<queue, handover, window, mutex, data, call, val, my, snap,
                       way, ops>>

\* The window of its own side: the threads queued when the counter was read.
OwnWindow(t) ==
    LET s == side[t]
    IN  /\ pc[t] = "own"
        /\ window' = [window EXCEPT ![s] = Distance(snap[t], current[s])]
        /\ Goto(t, IF s = "read" THEN "other" ELSE "pass")
        /\ UNCHANGED <<queue, handover, mutex, windowStart, data, call, val, my,
                       snap, way, ops>>

\* The window of the other side, under that side's mutex.
OtherWindow(t) ==
    LET o == Other(side[t])
    IN  /\ pc[t] = "other"
        /\ mutex[o] = None
        /\ window' = [window EXCEPT ![o] = Distance(ticket[o], current[o])]
        /\ Goto(t, IF side[t] = "read" THEN "pass" ELSE "own")
        /\ UNCHANGED <<queue, handover, mutex, windowStart, data, call, val, my,
                       snap, way, ops>>

\* Mutant of PassOn: the handover flag is not reset at the end of an epoch.
PassOnAlways(t) ==
    LET s == side[t]
    IN  /\ pc[t] = "pass"
        /\ handover' = [handover EXCEPT ![s] = TRUE]
        /\ unique' = IF snap[t] # Inc(current[s]) THEN unique
                     ELSE [unique EXCEPT ![s] = NoKey]
        /\ Goto(t, "leave")
        /\ UNCHANGED <<current, ticket, window, mutex, windowStart, data, call,
                       val, my, snap, way, ops>>

\* Hand over if somebody is queued behind; the slot is free otherwise.
PassOn(t) ==
    LET s == side[t]
        handed == snap[t] # Inc(current[s])
    IN  /\ pc[t] = "pass"
        /\ handover' = [handover EXCEPT ![s] = handed]
        /\ unique' = IF handed THEN unique ELSE [unique EXCEPT ![s] = NoKey]
        /\ Goto(t, "leave")
        /\ UNCHANGED <<current, ticket, window, mutex, windowStart, data, call,
                       val, my, snap, way, ops>>

-----------------------------------------------------------------------------
(* Leaving the queue: the end of both releases, under the side's mutex, and *)
(* the conflict path of both acquires, without it.                          *)

\* Mutant of LeaveWindow: no test for an empty window.
LeaveWindowAnyway(t) ==
    LET s == side[t]
    IN  /\ pc[t] = "leave"
        /\ IF way[t] = "bypass" THEN UNCHANGED mutex
           ELSE mutex[s] = None /\ mutex' = [mutex EXCEPT ![s] = {t}]
        /\ window' = [window EXCEPT ![s] = @ - 1]
        /\ Goto(t, "check")
        /\ UNCHANGED <<queue, handover, windowStart, data, call, val, my, snap,
                       way, ops>>

LeaveWindow(t) ==
    LET s == side[t]
    IN  /\ pc[t] = "leave"
        /\ IF way[t] = "bypass" THEN UNCHANGED mutex
           ELSE mutex[s] = None /\ mutex' = [mutex EXCEPT ![s] = {t}]
        /\ window' = [window EXCEPT ![s] = IF @ = 0 THEN 0 ELSE @ - 1]
        /\ Goto(t, IF window[s] = 0 THEN "advance" ELSE "check")
        /\ UNCHANGED <<queue, handover, windowStart, data, call, val, my, snap,
                       way, ops>>

CheckWindows(t) ==
    /\ pc[t] = "check"
    /\ Goto(t, IF \A s \in Side : window[s] = 0 THEN "clear" ELSE "advance")
    /\ UNCHANGED <<queue, windows, data, call, val, my, snap, way, ops>>

ClearStart(t) ==
    /\ pc[t] = "clear"
    /\ windowStart' = FALSE
    /\ Goto(t, "advance")
    /\ UNCHANGED <<queue, handover, window, mutex, data, call, val, my, snap,
                   way, ops>>

\* Mutant of Advance: the conflict path does not advance the queue.
AdvanceReleaseOnly(t) ==
    LET s == side[t]
    IN  /\ pc[t] = "advance"
        /\ IF way[t] = "bypass"
           THEN Goto(t, "work") /\ UNCHANGED <<current, mutex, call, val, my, snap, way>>
           ELSE /\ current' = [current EXCEPT ![s] = Inc(@)]
                /\ mutex' = [mutex EXCEPT ![s] = None]
                /\ Returned(t)
        /\ UNCHANGED <<ticket, unique, handover, window, windowStart, data, ops>>

\* The next in the queue may enter.
Advance(t) ==
    LET s == side[t]
    IN  /\ pc[t] = "advance"
        /\ current' = [current EXCEPT ![s] = Inc(@)]
        /\ IF way[t] = "bypass"
           THEN Goto(t, "work") /\ UNCHANGED <<mutex, call, val, my, snap, way>>
           ELSE mutex' = [mutex EXCEPT ![s] = None] /\ Returned(t)
        /\ UNCHANGED <<ticket, unique, handover, window, windowStart, data, ops>>

Step(t) ==
    \/ Claim(t) \/ Deposit(t) \/ TakeTicket(t) \/ Enter(t) \/ EnterConflict(t)
    \/ Lookup(t) \/ LockLeaf(t) \/ Combine(t) \/ StoreValue(t)
    \/ Release(t) \/ StartWindow(t) \/ OwnWindow(t) \/ OtherWindow(t) \/ PassOn(t)
    \/ LeaveWindow(t) \/ CheckWindows(t) \/ ClearStart(t) \/ Advance(t)

Next == \E t \in Thread : (\E s \in Side, k \in Key : Call(t, s, k)) \/ Step(t)

Spec == Init /\ [][Next]_vars

\* Threads are scheduled, and a coroutine that waits for its ticket is resumed
\* from the busy-waiting queue.
FairSpec == Spec /\ \A t \in Thread : WF_vars(Step(t))

-----------------------------------------------------------------------------
(* Properties *)

\* The uint8_t windows never go below 0: they are counted down on three paths, only
\* some of them under the mutex (release_local_write_lock, release_local_read_lock
\* and the conflict paths of both acquires).
WindowsInRange == \A s \in Side : window[s] \in 0 .. TicketMod - 1

InQueue(t, s) ==
    /\ side[t] = s
    /\ \/ pc[t] \in {"leave", "check", "clear", "advance"}
       \/ way[t] \in {"winner", "loser"} /\ pc[t] # "idle"

\* The ticket lock: at most one thread of a side is between its turn and the
\* step that makes it the next one's.
OneAtATime ==
    \A s \in Side : \A t, u \in Thread : InQueue(t, s) /\ InQueue(u, s) => t = u

\* A search that is handed a result is handed one for its own key, though the
\* slot changes keys while threads of older keys are still queued.
HandedOwnKey ==
    \A t \in Thread :
        side[t] = "read" /\ way[t] = "loser" /\ pc[t] = "release"
            => result[1] = key[t]

\* No waiter is forgotten when keys, windows and tickets change: every call
\* returns.
CallsReturn == \A t \in Thread : pc[t] # "idle" ~> pc[t] = "idle"
=============================================================================
