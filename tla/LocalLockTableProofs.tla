------------------------ MODULE LocalLockTableProofs ------------------------
(***************************************************************************)
(* The local lock table for every number of threads and keys, as long as   *)
(* the threads are fewer than the tickets: one thread of a side at a time, *)
(* windows that stay in their range, and results handed to the right key.  *)
(*                                                                         *)
(* The queue of a side is the threads that hold a ticket.  Counted from    *)
(* current and round the end of the uint8_t, their tickets are 0, 1, ...   *)
(* up to the number of threads in the queue, each once; that number is     *)
(* below TicketMod, so a new ticket is nobody else's.                      *)
(***************************************************************************)
EXTENDS LocalLockTable, FiniteSetTheorems, TLAPS

\* Zenon first: most leaves are first-order.
USE ZenonT(2), SMTT(40), ZenonT(40)

Ticket == 0 .. TicketMod - 1

Before == {"idle", "claim", "deposit", "ticket", "wait"}
Working == {"work", "combine", "store"}
Releasing == {"release", "start", "own", "other", "pass"}
Leaving == {"leave", "check", "clear", "advance"}
Chosen == {"winner", "loser"}

Typed ==
    /\ current \in [Side -> Ticket]
    /\ ticket \in [Side -> Ticket]
    /\ handover \in [Side -> BOOLEAN]
    /\ window \in [Side -> Ticket]
    /\ unique \in [Side -> Key \cup {NoKey}]
    /\ pc \in [Thread -> Before \cup Working \cup Releasing \cup Leaving]
    /\ side \in [Thread -> Side]
    /\ key \in [Thread -> Key \cup {NoKey}]
    /\ my \in [Thread -> Ticket]
    /\ snap \in [Thread -> Ticket]
    /\ way \in [Thread -> {"none", "bypass"} \cup Chosen]

\* How a thread stands with the slot, by what it is doing.
Ways ==
    \A t \in Thread :
        /\ pc[t] # "idle" => key[t] \in Key
        /\ pc[t] \in Before => way[t] = "none"
        /\ pc[t] \in Working => way[t] \in {"winner", "bypass"}
        /\ pc[t] \in Releasing => way[t] \in Chosen
        /\ pc[t] \in Leaving => way[t] # "none"

\* t holds a ticket of side s; it is at the head of the queue.
AtHead(t) == pc[t] \in Leaving \/ way[t] \in Chosen
Queued(t, s) == side[t] = s /\ (pc[t] = "wait" \/ AtHead(t))

Length(s) == Distance(ticket[s], current[s])
Rank(t, s) == Distance(my[t], current[s])

QueueOf(s) ==
    /\ \A t \in Thread : Queued(t, s) => Rank(t, s) < Length(s)
    /\ \A t, u \in Thread : Queued(t, s) /\ Queued(u, s) /\ my[t] = my[u] => t = u
    /\ \A i \in 0 .. Length(s) - 1 : \E t \in Thread : Queued(t, s) /\ Rank(t, s) = i
    /\ \A t \in Thread : side[t] = s /\ AtHead(t) => my[t] = current[s]

\* Between its turn and PassOn the slot is the thread's, and the handover flag
\* says whether it was handed something.
Holds(t) == way[t] \in Chosen /\ pc[t] \in Working \cup Releasing

Own(t) ==
    Holds(t) =>
        /\ unique[side[t]] = key[t]
        /\ handover[side[t]] <=> way[t] = "loser"
        /\ (side[t] = "read" /\ way[t] = "winner"
                /\ pc[t] \in {"start", "own", "other", "pass"}) => result[1] = key[t]

\* While the readers' flag is up, the result is one for the slot's key.
Slot ==
    /\ handover["read"] => unique["read"] # NoKey /\ result[1] = unique["read"]
    /\ \A t \in Thread : Own(t)

\* The inductive invariants: the first for the queues alone.
Ordered == Typed /\ Ways /\ \A s \in Side : QueueOf(s)
Combining == Ordered /\ Slot

-----------------------------------------------------------------------------
(* Tickets *)

\* The remainder, without a division.
LEMMA Remainder ==
  ASSUME NEW n \in Nat, NEW m \in Nat, n < 2 * m
  PROVE  n % m = IF n < m THEN n ELSE n - m
BY Z3

LEMMA SomeTickets == TicketMod \in Nat \ {0}
<1>1. Cardinality(Thread) \in Nat
  BY TicketAssumption, FS_CardinalityType
<1>2. QED
  BY <1>1, TicketAssumption

\* Inc wraps at the end of the uint8_t.
LEMMA IncIs ==
  ASSUME NEW n \in Ticket
  PROVE  Inc(n) \in Ticket /\ Inc(n) = IF n + 1 = TicketMod THEN 0 ELSE n + 1
<1>1. PICK x : x = n + 1
  BY Zenon
<1>2. x \in Nat /\ TicketMod \in Nat /\ x < 2 * TicketMod
  BY <1>1, SomeTickets DEF Ticket
<1>3. x % TicketMod = IF x < TicketMod THEN x ELSE x - TicketMod
  BY <1>2, Remainder
<1>4. Inc(n) = x % TicketMod
  BY <1>1 DEF Inc
<1>5. Inc(n) = IF x < TicketMod THEN x ELSE x - TicketMod
  BY <1>3, <1>4
<1>6. QED
  BY <1>1, <1>2, <1>5, SomeTickets DEF Ticket

\* Distance counts from one ticket to another, round the end.
LEMMA DistanceIs ==
  ASSUME NEW a \in Ticket, NEW b \in Ticket
  PROVE  /\ Distance(a, b) \in Ticket /\ Distance(a, b) \in Nat
         /\ Distance(a, b) = IF b <= a THEN a - b ELSE TicketMod + a - b
<1>1. PICK x : x = TicketMod + a - b
  BY Zenon
<1>2. x \in Nat /\ TicketMod \in Nat /\ x < 2 * TicketMod
  BY <1>1, SomeTickets DEF Ticket
<1>3. x % TicketMod = IF x < TicketMod THEN x ELSE x - TicketMod
  BY <1>2, Remainder
<1>4. Distance(a, b) = x % TicketMod
  BY <1>1 DEF Distance
<1>5. Distance(a, b) = IF x < TicketMod THEN x ELSE x - TicketMod
  BY <1>3, <1>4
<1>6. QED
  BY <1>1, <1>2, <1>5, SomeTickets DEF Ticket

LEMMA DistanceSame ==
  ASSUME NEW a \in Ticket, NEW b \in Ticket, NEW c \in Ticket
  PROVE  /\ Distance(a, a) = 0
         /\ Distance(a, c) = Distance(b, c) => a = b
<1>1. /\ Distance(a, a) = IF a <= a THEN a - a ELSE TicketMod + a - a
      /\ Distance(a, c) = IF c <= a THEN a - c ELSE TicketMod + a - c
      /\ Distance(b, c) = IF c <= b THEN b - c ELSE TicketMod + b - c
  BY DistanceIs
<1>2. QED
  BY <1>1, SomeTickets DEF Ticket

\* One ticket more, ...
LEMMA DistanceMore ==
  ASSUME NEW a \in Ticket, NEW b \in Ticket, Distance(a, b) + 1 < TicketMod
  PROVE  Distance(Inc(a), b) = Distance(a, b) + 1
<1>1. PICK n : n = Inc(a)
  BY Zenon
<1>2. n \in Ticket /\ n = IF a + 1 = TicketMod THEN 0 ELSE a + 1
  BY <1>1, IncIs
<1>3. /\ Distance(a, b) = IF b <= a THEN a - b ELSE TicketMod + a - b
      /\ Distance(n, b) = IF b <= n THEN n - b ELSE TicketMod + n - b
  BY <1>2, DistanceIs
<1>4. Distance(n, b) = Distance(a, b) + 1
  BY <1>2, <1>3, SomeTickets DEF Ticket
<1>5. QED
  BY <1>1, <1>4

\* ... and one turn further.
LEMMA DistanceLess ==
  ASSUME NEW a \in Ticket, NEW b \in Ticket, a # b
  PROVE  Distance(a, Inc(b)) = Distance(a, b) - 1
<1>1. PICK n : n = Inc(b)
  BY Zenon
<1>2. n \in Ticket /\ n = IF b + 1 = TicketMod THEN 0 ELSE b + 1
  BY <1>1, IncIs
<1>3. /\ Distance(a, b) = IF b <= a THEN a - b ELSE TicketMod + a - b
      /\ Distance(a, n) = IF n <= a THEN a - n ELSE TicketMod + a - n
  BY <1>2, DistanceIs
<1>4. Distance(a, n) = Distance(a, b) - 1
  BY <1>2, <1>3, SomeTickets DEF Ticket
<1>5. QED
  BY <1>1, <1>4

\* A thread that is not in a queue finds room in it.
LEMMA RoomForOne ==
  ASSUME Typed, NEW s \in Side, QueueOf(s), NEW t \in Thread, ~Queued(t, s)
  PROVE  Length(s) + 1 < TicketMod
<1>1. PICK n : n = Length(s)
  BY Zenon
<1>2. n \in Nat
  BY <1>1, DistanceIs DEF Typed, Length
<1>3. PICK R : R = Thread \ {t}
  BY Zenon
<1>4. PICK f : f = [i \in 0 .. n - 1 |->
                       CHOOSE u \in Thread : Queued(u, s) /\ Rank(u, s) = i]
  BY Zenon
<1>5. ASSUME NEW i \in 0 .. n - 1
      PROVE  f[i] \in Thread /\ Queued(f[i], s) /\ Rank(f[i], s) = i
  <2>1. \E u \in Thread : Queued(u, s) /\ Rank(u, s) = i
    BY <1>1 DEF QueueOf
  <2>2. f[i] = CHOOSE u \in Thread : Queued(u, s) /\ Rank(u, s) = i
    BY <1>4
  <2>3. QED
    BY <2>1, <2>2
<1>6. f \in [0 .. n - 1 -> R]
  BY <1>3, <1>4, <1>5
<1>7. f \in Injection(0 .. n - 1, R)
  <2>1. \A i, j \in 0 .. n - 1 : f[i] = f[j] => i = j
    BY <1>5
  <2>2. QED
    BY <1>6, <2>1 DEF Injection, IsInjective
<1>8. IsFiniteSet(R) /\ Cardinality(R) = Cardinality(Thread) - 1
  BY <1>3, TicketAssumption, FS_RemoveElement
<1>9. Cardinality(0 .. n - 1) <= Cardinality(R)
  BY <1>7, <1>8, FS_Injection
<1>10. Cardinality(0 .. n - 1) = n
  <2>1. 0 \in Int /\ n - 1 \in Int /\ (0 > n - 1 <=> n = 0)
    BY <1>2
  <2>2. QED
    BY <1>2, <2>1, FS_Interval
<1>11. Cardinality(Thread) \in Nat
  BY TicketAssumption, FS_CardinalityType
<1>12. QED
  BY <1>1, <1>2, <1>8, <1>9, <1>10, <1>11, TicketAssumption

-----------------------------------------------------------------------------
(* Every step keeps the types *)

Acts(t) == (\E s \in Side, k \in Key : Call(t, s, k)) \/ Step(t)

LEMMA TypedStep ==
  ASSUME Typed, NEW t \in Thread, Acts(t)
  PROVE  Typed'
<1> USE DEF Typed, Goto, queue, windows, data, call, Before, Working, Releasing,
            Leaving, Chosen
<1>1. TicketMod \in Nat \ {0} /\ 0 \in Ticket
  BY SomeTickets DEF Ticket
<1>2. CASE \E s \in Side, k \in Key : Call(t, s, k)
  BY <1>2 DEF Call
<1>3. CASE Claim(t)
  BY <1>3 DEF Claim
<1>4. CASE Deposit(t)
  BY <1>4 DEF Deposit
<1>5. CASE TakeTicket(t)
  BY <1>5, <1>1, IncIs DEF TakeTicket
<1>6. CASE Enter(t)
  BY <1>6 DEF Enter
<1>7. CASE EnterConflict(t)
  BY <1>7 DEF EnterConflict
<1>8. CASE Lookup(t)
  BY <1>8, <1>1 DEF Lookup, Returned, Side
<1>9. CASE LockLeaf(t)
  BY <1>9 DEF LockLeaf
<1>10. CASE Combine(t)
  BY <1>10 DEF Combine
<1>11. CASE StoreValue(t)
  BY <1>11, <1>1 DEF StoreValue, Returned, Side
<1>12. CASE Release(t)
  BY <1>12 DEF Release
<1>13. CASE StartWindow(t)
  <2>1. side[t] \in Side
    OBVIOUS
  <2>2. \E l \in Releasing : pc' = [pc EXCEPT ![t] = l]
    BY <1>13, <2>1 DEF StartWindow, Side
  <2>3. QED
    BY <1>13, <2>2 DEF StartWindow
<1>14. CASE OwnWindow(t)
  BY <1>14, <1>1, DistanceIs DEF OwnWindow, Other, Side
<1>15. CASE OtherWindow(t)
  BY <1>15, <1>1, DistanceIs DEF OtherWindow, Other, Side
<1>16. CASE PassOn(t)
  BY <1>16 DEF PassOn
<1>17. CASE LeaveWindow(t)
  <2>1. side[t] \in Side
    OBVIOUS
  <2>2. \E n \in Ticket : window' = [window EXCEPT ![side[t]] = n]
    <3>1. PICK w \in Ticket : w = window[side[t]]
      BY <2>1
    <3>2. (IF w = 0 THEN 0 ELSE w - 1) \in Ticket
      BY <1>1 DEF Ticket
    <3>3. QED
      BY <1>17, <3>1, <3>2 DEF LeaveWindow
  <2>3. QED
    BY <1>17, <2>1, <2>2 DEF LeaveWindow
<1>18. CASE CheckWindows(t)
  BY <1>18 DEF CheckWindows
<1>19. CASE ClearStart(t)
  BY <1>19 DEF ClearStart
<1>20. CASE Advance(t)
  BY <1>20, <1>1, IncIs DEF Advance, Returned, Side
<1>21. QED
  BY <1>2, <1>3, <1>4, <1>5, <1>6, <1>7, <1>8, <1>9, <1>10,
     <1>11, <1>12, <1>13, <1>14, <1>15, <1>16, <1>17, <1>18, <1>19,
     <1>20 DEF Acts, Step

\* A thread changes no local of another one.
LEMMA OthersKeep ==
  ASSUME Typed, NEW t \in Thread, Acts(t), NEW u \in Thread, u # t
  PROVE  /\ pc'[u] = pc[u] /\ side'[u] = side[u] /\ key'[u] = key[u]
         /\ my'[u] = my[u] /\ way'[u] = way[u]
<1> USE DEF Typed, Goto, call
<1>1. CASE \E s \in Side, k \in Key : Call(t, s, k)
  BY <1>1 DEF Call
<1>2. CASE Claim(t)
  BY <1>2 DEF Claim
<1>3. CASE Deposit(t)
  BY <1>3 DEF Deposit
<1>4. CASE TakeTicket(t)
  BY <1>4 DEF TakeTicket
<1>5. CASE Enter(t)
  BY <1>5 DEF Enter
<1>6. CASE EnterConflict(t)
  BY <1>6 DEF EnterConflict
<1>7. CASE Lookup(t)
  BY <1>7 DEF Lookup, Returned
<1>8. CASE LockLeaf(t)
  BY <1>8 DEF LockLeaf
<1>9. CASE Combine(t)
  BY <1>9 DEF Combine
<1>10. CASE StoreValue(t)
  BY <1>10 DEF StoreValue, Returned
<1>11. CASE Release(t)
  BY <1>11 DEF Release
<1>12. CASE StartWindow(t)
  BY <1>12 DEF StartWindow
<1>13. CASE OwnWindow(t)
  BY <1>13 DEF OwnWindow
<1>14. CASE OtherWindow(t)
  BY <1>14 DEF OtherWindow
<1>15. CASE PassOn(t)
  BY <1>15 DEF PassOn
<1>16. CASE LeaveWindow(t)
  BY <1>16 DEF LeaveWindow
<1>17. CASE CheckWindows(t)
  BY <1>17 DEF CheckWindows
<1>18. CASE ClearStart(t)
  BY <1>18 DEF ClearStart
<1>19. CASE Advance(t)
  BY <1>19 DEF Advance, Returned
<1>20. QED
  BY <1>1, <1>2, <1>3, <1>4, <1>5, <1>6, <1>7, <1>8, <1>9, <1>10, <1>11,
     <1>12, <1>13, <1>14, <1>15, <1>16, <1>17, <1>18, <1>19 DEF Acts, Step

LEMMA WaysStep ==
  ASSUME Typed, Ways, NEW t \in Thread, Acts(t)
  PROVE  Ways'
<1> DEFINE Right(u) ==
      /\ pc'[u] # "idle" => key'[u] \in Key
      /\ pc'[u] \in Before => way'[u] = "none"
      /\ pc'[u] \in Working => way'[u] \in {"winner", "bypass"}
      /\ pc'[u] \in Releasing => way'[u] \in Chosen
      /\ pc'[u] \in Leaving => way'[u] # "none"
<1>1. ASSUME NEW u \in Thread, u # t
      PROVE  Right(u)
  BY <1>1, OthersKeep DEF Ways
<1>2. Right(t)
  <2> USE DEF Typed, Ways, Goto, call, Before, Working, Releasing, Leaving, Chosen
  <2>1. CASE \E s \in Side, k \in Key : Call(t, s, k)
    BY <2>1 DEF Call
  <2>2. CASE Claim(t)
    BY <2>2 DEF Claim
  <2>3. CASE Deposit(t)
    BY <2>3 DEF Deposit
  <2>4. CASE TakeTicket(t)
    BY <2>4 DEF TakeTicket
  <2>5. CASE Enter(t)
    BY <2>5 DEF Enter
  <2>6. CASE EnterConflict(t)
    BY <2>6 DEF EnterConflict
  <2>7. CASE Lookup(t)
    BY <2>7 DEF Lookup, Returned
  <2>8. CASE LockLeaf(t)
    BY <2>8 DEF LockLeaf
  <2>9. CASE Combine(t)
    BY <2>9 DEF Combine
  <2>10. CASE StoreValue(t)
    BY <2>10 DEF StoreValue, Returned
  <2>11. CASE Release(t)
    BY <2>11 DEF Release
  <2>12. CASE StartWindow(t)
    BY <2>12 DEF StartWindow, Side
  <2>13. CASE OwnWindow(t)
    BY <2>13 DEF OwnWindow
  <2>14. CASE OtherWindow(t)
    BY <2>14 DEF OtherWindow
  <2>15. CASE PassOn(t)
    BY <2>15 DEF PassOn
  <2>16. CASE LeaveWindow(t)
    BY <2>16 DEF LeaveWindow
  <2>17. CASE CheckWindows(t)
    BY <2>17 DEF CheckWindows
  <2>18. CASE ClearStart(t)
    BY <2>18 DEF ClearStart
  <2>19. CASE Advance(t)
    BY <2>19 DEF Advance, Returned
  <2>20. QED
    BY <2>1, <2>2, <2>3, <2>4, <2>5, <2>6, <2>7, <2>8, <2>9, <2>10, <2>11,
       <2>12, <2>13, <2>14, <2>15, <2>16, <2>17, <2>18, <2>19 DEF Acts, Step
<1>3. QED
  BY <1>1, <1>2 DEF Ways

-----------------------------------------------------------------------------
(* The queues *)

\* A step that leaves the counters of a side alone, and a thread where it is in
\* or out of the queue, keeps the queue.
LEMMA QueueKept ==
  ASSUME Typed, NEW t \in Thread, Acts(t), NEW s \in Side, QueueOf(s),
         current'[s] = current[s], ticket'[s] = ticket[s],
         Queued(t, s)' <=> Queued(t, s),
         Queued(t, s) => my'[t] = my[t],
         (side'[t] = s /\ AtHead(t)') => my'[t] = current[s]
  PROVE  QueueOf(s)'
<1>1. ASSUME NEW u \in Thread, u # t
      PROVE  /\ Queued(u, s)' <=> Queued(u, s)
             /\ AtHead(u)' <=> AtHead(u)
             /\ side'[u] = side[u] /\ my'[u] = my[u]
  BY <1>1, OthersKeep DEF Queued, AtHead
<1>2. ASSUME NEW u \in Thread
      PROVE  /\ Queued(u, s)' <=> Queued(u, s)
             /\ Queued(u, s) => my'[u] = my[u] /\ Rank(u, s)' = Rank(u, s)
  BY <1>1 DEF Rank, Distance
<1>3. Length(s)' = Length(s)
  BY DEF Length, Distance
<1>4. \A u \in Thread : Queued(u, s)' => Rank(u, s)' < Length(s)'
  BY <1>2, <1>3 DEF QueueOf
<1>5. \A u, v \in Thread :
          Queued(u, s)' /\ Queued(v, s)' /\ my'[u] = my'[v] => u = v
  BY <1>2 DEF QueueOf
<1>6. \A i \in 0 .. Length(s)' - 1 :
          \E u \in Thread : Queued(u, s)' /\ Rank(u, s)' = i
  BY <1>2, <1>3 DEF QueueOf
<1>7. \A u \in Thread : side'[u] = s /\ AtHead(u)' => my'[u] = current'[s]
  BY <1>1 DEF QueueOf
<1>8. QED
  BY <1>4, <1>5, <1>6, <1>7 DEF QueueOf

\* A thread that takes a ticket is the last of its queue.
LEMMA QueueGrows ==
  ASSUME Typed, Ways, NEW t \in Thread, TakeTicket(t),
         NEW s \in Side, s = side[t], QueueOf(s)
  PROVE  QueueOf(s)'
<1>1. s = side[t]
  OBVIOUS
<1>2. Acts(t)
  BY DEF Acts, Step
<1>3. /\ pc[t] = "ticket" /\ way[t] = "none"
      /\ my'[t] = ticket[s] /\ ticket'[s] = Inc(ticket[s])
      /\ current'[s] = current[s]
      /\ pc'[t] = "wait" /\ side'[t] = s /\ way'[t] = "none" /\ side' = side
  BY <1>1 DEF TakeTicket, Typed, Ways, Before, Goto, call
<1>4. /\ ticket[s] \in Ticket /\ current[s] \in Ticket
      /\ \A u \in Thread : my[u] \in Ticket
  BY DEF Typed
<1>5. ~Queued(t, s)
  BY <1>3 DEF Queued, AtHead, Leaving, Chosen
<1>6. Queued(t, s)' /\ ~AtHead(t)'
  BY <1>3 DEF Queued, AtHead, Leaving, Chosen
<1>7. PICK n : n = Length(s)
  BY Zenon
<1>8. n \in Nat /\ n + 1 < TicketMod
  <2>1. Length(s) \in Nat
    BY <1>4, DistanceIs DEF Length
  <2>2. Length(s) + 1 < TicketMod
    BY <1>5, RoomForOne
  <2>3. QED
    BY <1>7, <2>1, <2>2
<1>9. Length(s)' = n + 1
  <2>1. Length(s)' = Distance(Inc(ticket[s]), current[s])
    BY <1>3 DEF Length, Distance
  <2>2. QED
    BY <1>4, <1>7, <1>8, <2>1, DistanceMore DEF Length
<1>10. Rank(t, s)' = n
  BY <1>3, <1>7 DEF Rank, Length, Distance
<1>11. ASSUME NEW u \in Thread, u # t
       PROVE  /\ Queued(u, s)' <=> Queued(u, s)
              /\ AtHead(u)' <=> AtHead(u)
              /\ side'[u] = side[u] /\ my'[u] = my[u]
              /\ Rank(u, s)' = Rank(u, s)
  BY <1>2, <1>3, <1>11, OthersKeep DEF Queued, AtHead, Rank, Distance
<1>12. ASSUME NEW u \in Thread, u # t, Queued(u, s)'
       PROVE  Rank(u, s)' \in Nat /\ Rank(u, s)' < n
  <2>1. Queued(u, s) /\ Rank(u, s)' = Rank(u, s)
    BY <1>11, <1>12
  <2>2. Rank(u, s) < n
    <3>1. \A v \in Thread : Queued(v, s) => Rank(v, s) < Length(s)
      BY DEF QueueOf
    <3>2. QED
      BY <1>7, <2>1, <3>1
  <2>3. Rank(u, s) \in Nat
    BY <1>4, DistanceIs DEF Rank
  <2>4. QED
    BY <2>1, <2>2, <2>3
<1>13. \A u \in Thread : Queued(u, s)' => Rank(u, s)' < Length(s)'
  BY <1>8, <1>9, <1>10, <1>12
<1>14. \A u, v \in Thread :
           Queued(u, s)' /\ Queued(v, s)' /\ my'[u] = my'[v] => u = v
  <2>1. ASSUME NEW u \in Thread, NEW v \in Thread, Queued(u, s)', Queued(v, s)',
               my'[u] = my'[v], u # v
        PROVE  FALSE
    <3>1. Rank(u, s)' = Rank(v, s)'
      BY <2>1 DEF Rank, Distance
    <3>2. CASE u # t /\ v # t
      BY <1>1, <1>11, <2>1, <3>2 DEF QueueOf
    <3>3. CASE u = t \/ v = t
      BY <1>8, <1>10, <1>12, <2>1, <3>1, <3>3
    <3>4. QED
      BY <3>2, <3>3
  <2>2. QED
    BY <2>1
<1>15. \A i \in 0 .. Length(s)' - 1 :
           \E u \in Thread : Queued(u, s)' /\ Rank(u, s)' = i
  <2>1. ASSUME NEW i \in 0 .. n
        PROVE  \E u \in Thread : Queued(u, s)' /\ Rank(u, s)' = i
    <3>1. CASE i = n
      BY <1>6, <1>10, <3>1
    <3>2. CASE i # n
      <4>1. i \in 0 .. n - 1
        BY <1>8, <3>2
      <4>2. PICK u \in Thread : Queued(u, s) /\ Rank(u, s) = i
        BY <1>1, <1>7, <4>1 DEF QueueOf
      <4>3. QED
        BY <1>5, <1>11, <4>2
    <3>3. QED
      BY <3>1, <3>2
  <2>2. 0 .. Length(s)' - 1 = 0 .. n
    BY <1>8, <1>9
  <2>3. QED
    BY <2>1, <2>2
<1>16. \A u \in Thread : side'[u] = s /\ AtHead(u)' => my'[u] = current'[s]
  BY <1>1, <1>3, <1>6, <1>11 DEF QueueOf
<1>17. QED
  BY <1>13, <1>14, <1>15, <1>16 DEF QueueOf

\* The head of a queue goes, and everybody else is one place further.
LEMMA QueueMoves ==
  ASSUME Typed, Ways, NEW t \in Thread, Advance(t),
         NEW s \in Side, s = side[t], QueueOf(s)
  PROVE  QueueOf(s)'
<1>1. Acts(t)
  BY DEF Acts, Step
<1>2. /\ pc[t] = "advance" /\ current'[s] = Inc(current[s]) /\ ticket'[s] = ticket[s]
  BY DEF Advance, Typed
<1>3. /\ current[s] \in Ticket /\ ticket[s] \in Ticket
      /\ \A u \in Thread : my[u] \in Ticket
  BY DEF Typed
<1>4. Queued(t, s) /\ AtHead(t) /\ my[t] = current[s]
  <2>1. AtHead(t)
    BY <1>2 DEF AtHead, Leaving
  <2>2. QED
    BY <2>1 DEF Queued, QueueOf
<1>5. ~Queued(t, s)' /\ ~AtHead(t)'
  <2>1. CASE way[t] = "bypass"
    <3>1. pc'[t] = "work" /\ way'[t] = "bypass"
      BY <2>1 DEF Advance, Goto, Typed
    <3>2. QED
      BY <3>1 DEF Queued, AtHead, Leaving, Chosen
  <2>2. CASE way[t] # "bypass"
    <3>1. pc'[t] = "idle" /\ way'[t] = "none"
      BY <2>2 DEF Advance, Returned, Goto, Typed
    <3>2. QED
      BY <3>1 DEF Queued, AtHead, Leaving, Chosen
  <2>3. QED
    BY <2>1, <2>2
<1>6. PICK n : n = Length(s)
  BY Zenon
<1>7. n \in Nat /\ 0 < n /\ Length(s)' = n - 1
  <2>1. Length(s) \in Nat
    BY <1>3, DistanceIs DEF Length
  <2>2. Rank(t, s) = 0
    BY <1>3, <1>4, DistanceSame DEF Rank
  <2>3. Rank(t, s) < Length(s)
    BY <1>4 DEF QueueOf
  <2>4. ticket[s] # current[s]
    <3>1. 0 < Distance(ticket[s], current[s])
      BY <2>2, <2>3 DEF Length
    <3>2. Distance(current[s], current[s]) = 0
      BY <1>3, DistanceSame
    <3>3. QED
      BY <3>1, <3>2
  <2>5. Distance(ticket[s], Inc(current[s])) = Distance(ticket[s], current[s]) - 1
    BY <1>3, <2>4, DistanceLess
  <2>6. Length(s)' = Distance(ticket[s], Inc(current[s]))
    BY <1>2 DEF Length, Distance
  <2>7. Length(s)' = n - 1
    BY <1>6, <2>5, <2>6 DEF Length
  <2>8. QED
    BY <1>6, <2>1, <2>2, <2>3, <2>7
<1>8. ASSUME NEW u \in Thread, u # t
      PROVE  /\ Queued(u, s)' <=> Queued(u, s)
             /\ AtHead(u)' <=> AtHead(u)
             /\ side'[u] = side[u] /\ my'[u] = my[u]
  BY <1>1, <1>8, OthersKeep DEF Queued, AtHead
<1>9. ASSUME NEW u \in Thread, u # t, Queued(u, s)
      PROVE  /\ Rank(u, s) \in Nat /\ Rank(u, s) < n
             /\ Rank(u, s)' = Rank(u, s) - 1
  <2>1. my[u] # current[s]
    BY <1>4, <1>9 DEF QueueOf
  <2>2. Distance(my[u], Inc(current[s])) = Distance(my[u], current[s]) - 1
    BY <1>3, <2>1, DistanceLess
  <2>3. Rank(u, s)' = Distance(my[u], Inc(current[s]))
    BY <1>2, <1>8, <1>9 DEF Rank, Distance
  <2>4. Rank(u, s) \in Nat
    BY <1>3, DistanceIs DEF Rank
  <2>5. Rank(u, s) < Length(s)
    BY <1>9 DEF QueueOf
  <2>6. Rank(u, s)' = Rank(u, s) - 1
    BY <2>2, <2>3 DEF Rank
  <2>7. QED
    BY <1>6, <2>4, <2>5, <2>6
<1>10. \A u \in Thread : Queued(u, s)' => Rank(u, s)' < Length(s)'
  <2>1. ASSUME NEW u \in Thread, Queued(u, s)'
        PROVE  Rank(u, s)' < Length(s)'
    <3>1. u # t /\ Queued(u, s)
      BY <1>5, <1>8, <2>1
    <3>2. QED
      BY <1>7, <1>9, <3>1
  <2>2. QED
    BY <2>1
<1>11. \A u, v \in Thread :
           Queued(u, s)' /\ Queued(v, s)' /\ my'[u] = my'[v] => u = v
  BY <1>5, <1>8 DEF QueueOf
<1>12. \A i \in 0 .. Length(s)' - 1 :
           \E u \in Thread : Queued(u, s)' /\ Rank(u, s)' = i
  <2>1. ASSUME NEW i \in 0 .. n - 2
        PROVE  \E u \in Thread : Queued(u, s)' /\ Rank(u, s)' = i
    <3>1. i + 1 \in 0 .. n - 1
      BY <1>7
    <3>2. PICK u \in Thread : Queued(u, s) /\ Rank(u, s) = i + 1
      BY <1>6, <3>1 DEF QueueOf
    <3>3. u # t
      <4>1. Rank(t, s) = 0
        BY <1>3, <1>4, DistanceSame DEF Rank
      <4>2. QED
        BY <3>2, <4>1
    <3>4. Rank(u, s)' = i
      BY <1>9, <3>2, <3>3
    <3>5. QED
      BY <1>8, <3>2, <3>3, <3>4
  <2>2. 0 .. Length(s)' - 1 = 0 .. n - 2
    BY <1>7
  <2>3. QED
    BY <2>1, <2>2
<1>13. \A u \in Thread : side'[u] = s /\ AtHead(u)' => my'[u] = current'[s]
  <2>1. ASSUME NEW u \in Thread, side'[u] = s, AtHead(u)'
        PROVE  FALSE
    <3>1. u # t /\ side[u] = s /\ AtHead(u)
      BY <1>5, <1>8, <2>1
    <3>2. Queued(u, s) /\ my[u] = my[t]
      BY <1>4, <3>1 DEF Queued, QueueOf
    <3>3. QED
      BY <1>4, <3>1, <3>2 DEF QueueOf
  <2>2. QED
    BY <2>1
<1>14. QED
  BY <1>10, <1>11, <1>12, <1>13 DEF QueueOf

LEMMA QueueStep ==
  ASSUME Typed, Ways, NEW t \in Thread, Acts(t), NEW s \in Side, QueueOf(s)
  PROVE  QueueOf(s)'
<1> DEFINE Same ==
      /\ current'[s] = current[s] /\ ticket'[s] = ticket[s]
      /\ Queued(t, s)' <=> Queued(t, s)
      /\ Queued(t, s) => my'[t] = my[t]
      /\ (side'[t] = s /\ AtHead(t)') => my'[t] = current[s]
<1>1. CASE TakeTicket(t) /\ s = side[t]
  BY <1>1, QueueGrows
<1>2. CASE Advance(t) /\ s = side[t]
  BY <1>2, QueueMoves
<1>3. CASE ~(TakeTicket(t) /\ s = side[t]) /\ ~(Advance(t) /\ s = side[t])
  <2>1. side[t] = s /\ AtHead(t) => my[t] = current[s]
    BY DEF QueueOf
  <2>2. Same
    <3> USE DEF Typed, Ways, Queued, AtHead, Goto, queue, call, Before, Working,
                Releasing, Leaving, Chosen
    <3>1. CASE \E r \in Side, k \in Key : Call(t, r, k)
      BY <2>1, <3>1 DEF Call
    <3>2. CASE Claim(t)
      BY <2>1, <3>2 DEF Claim
    <3>3. CASE Deposit(t)
      BY <2>1, <3>3 DEF Deposit
    <3>4. CASE TakeTicket(t)
      BY <1>3, <2>1, <3>4 DEF TakeTicket
    <3>5. CASE Enter(t)
      BY <2>1, <3>5 DEF Enter
    <3>6. CASE EnterConflict(t)
      BY <2>1, <3>6 DEF EnterConflict
    <3>7. CASE Lookup(t)
      BY <2>1, <3>7 DEF Lookup, Returned
    <3>8. CASE LockLeaf(t)
      BY <2>1, <3>8 DEF LockLeaf
    <3>9. CASE Combine(t)
      BY <2>1, <3>9 DEF Combine
    <3>10. CASE StoreValue(t)
      BY <2>1, <3>10 DEF StoreValue, Returned
    <3>11. CASE Release(t)
      BY <2>1, <3>11 DEF Release
    <3>12. CASE StartWindow(t)
      BY <2>1, <3>12 DEF StartWindow, Side
    <3>13. CASE OwnWindow(t)
      BY <2>1, <3>13 DEF OwnWindow
    <3>14. CASE OtherWindow(t)
      BY <2>1, <3>14 DEF OtherWindow
    <3>15. CASE PassOn(t)
      BY <2>1, <3>15 DEF PassOn
    <3>16. CASE LeaveWindow(t)
      BY <2>1, <3>16 DEF LeaveWindow
    <3>17. CASE CheckWindows(t)
      BY <2>1, <3>17 DEF CheckWindows
    <3>18. CASE ClearStart(t)
      BY <2>1, <3>18 DEF ClearStart
    <3>19. CASE Advance(t)
      BY <1>3, <2>1, <3>19 DEF Advance, Returned
    <3>20. QED
      BY <3>1, <3>2, <3>3, <3>4, <3>5, <3>6, <3>7, <3>8, <3>9, <3>10, <3>11,
         <3>12, <3>13, <3>14, <3>15, <3>16, <3>17, <3>18, <3>19 DEF Acts, Step
  <2>3. QED
    BY <2>2, QueueKept
<1>4. QED
  BY <1>1, <1>2, <1>3

-----------------------------------------------------------------------------
(* One thread at a time *)

\* Nothing changes when no thread acts.
LEMMA OrderedStutter ==
  ASSUME Ordered, UNCHANGED vars
  PROVE  Ordered'
BY DEF vars, queue, windows, locals, call, Ordered, Typed, Ways, QueueOf, Queued,
       AtHead, Length, Rank, Distance

LEMMA OrderedInit == Init => Ordered
<1> SUFFICES ASSUME Init
             PROVE  Ordered
  OBVIOUS
<1>1. 0 \in Ticket
  BY SomeTickets DEF Ticket
<1>2. Typed
  BY <1>1 DEF Init, Typed, Before, Side
<1>3. Ways
  BY DEF Init, Ways, Before, Working, Releasing, Leaving
<1>4. ASSUME NEW s \in Side
      PROVE  QueueOf(s)
  <2>1. ASSUME NEW t \in Thread
        PROVE  ~Queued(t, s) /\ ~AtHead(t)
    BY DEF Init, Queued, AtHead, Leaving, Chosen
  <2>2. Length(s) = 0
    BY <1>1, DistanceSame DEF Init, Length
  <2>3. 0 .. Length(s) - 1 = {}
    BY <2>2
  <2>4. QED
    BY <2>1, <2>3 DEF QueueOf
<1>5. QED
  BY <1>2, <1>3, <1>4 DEF Ordered

LEMMA OrderedStep ==
  ASSUME Ordered, NEW t \in Thread, Acts(t)
  PROVE  Ordered'
<1>1. Typed'
  BY TypedStep DEF Ordered
<1>2. Ways'
  BY WaysStep DEF Ordered
<1>3. \A s \in Side : QueueOf(s)'
  BY QueueStep DEF Ordered
<1>4. QED
  BY <1>1, <1>2, <1>3 DEF Ordered

\* Two threads of a side that are both at the head have the same ticket.
LEMMA HeadIsOne ==
  ASSUME Ordered, NEW t \in Thread, NEW u \in Thread,
         AtHead(t), AtHead(u), side[t] = side[u]
  PROVE  t = u
<1>1. side[t] \in Side
  BY DEF Ordered, Typed
<1>2. Queued(t, side[t]) /\ Queued(u, side[t])
  BY DEF Queued
<1>3. my[t] = my[u]
  BY <1>1 DEF Ordered, QueueOf
<1>4. QED
  BY <1>1, <1>2, <1>3 DEF Ordered, QueueOf

LEMMA OrderedAlways == Spec => []Ordered
<1>1. Ordered /\ [Next]_vars => Ordered'
  <2> SUFFICES ASSUME Ordered, [Next]_vars
               PROVE  Ordered'
    OBVIOUS
  <2>1. CASE Next
    <3>1. PICK t \in Thread : Acts(t)
      BY <2>1 DEF Next, Acts
    <3>2. QED
      BY <3>1, OrderedStep
  <2>2. CASE UNCHANGED vars
    BY <2>2, OrderedStutter
  <2>3. QED
    BY <2>1, <2>2
<1>2. QED
  BY <1>1, OrderedInit, PTL DEF Spec

\* The ticket locks of LocalLockTable.h are mutual exclusions, with any number of
\* threads below the number of tickets, though the uint8_t counters wrap and
\* threads leave the queue on the conflict paths as well.
THEOREM TicketLockExcludes == Spec => []OneAtATime
<1>1. Ordered => OneAtATime
  <2> SUFFICES ASSUME Ordered, NEW s \in Side, NEW t \in Thread, NEW u \in Thread,
                      InQueue(t, s), InQueue(u, s)
               PROVE  t = u
    BY DEF OneAtATime
  <2>1. /\ AtHead(t) /\ AtHead(u)
        /\ side[t] = side[u]
    BY DEF InQueue, AtHead, Leaving, Chosen
  <2>2. QED
    BY <2>1, HeadIsOne
<1>2. QED
  BY <1>1, OrderedAlways, PTL

\* read_window and write_window never go below 0, on any of the paths that count
\* them down.
THEOREM WindowsStayInRange == Spec => []WindowsInRange
<1>1. Ordered => WindowsInRange
  BY DEF Ordered, Typed, Ticket, WindowsInRange
<1>2. QED
  BY <1>1, OrderedAlways, PTL

-----------------------------------------------------------------------------
(* Results are handed to their key *)

\* Only four actions touch the unique keys, the handover flags and the result.
LEMMA SlotActions ==
  ASSUME NEW t \in Thread, Acts(t)
  PROVE  \/ Claim(t) \/ Enter(t) \/ Release(t) \/ PassOn(t)
         \/ UNCHANGED <<unique, handover, result>>
<1> USE DEF queue, windows, data
<1>1. CASE \E s \in Side, k \in Key : Call(t, s, k)
  BY <1>1 DEF Call
<1>2. CASE Deposit(t)
  BY <1>2 DEF Deposit
<1>3. CASE TakeTicket(t)
  BY <1>3 DEF TakeTicket
<1>4. CASE EnterConflict(t)
  BY <1>4 DEF EnterConflict
<1>5. CASE Lookup(t)
  BY <1>5 DEF Lookup
<1>6. CASE LockLeaf(t)
  BY <1>6 DEF LockLeaf
<1>7. CASE Combine(t)
  BY <1>7 DEF Combine
<1>8. CASE StoreValue(t)
  BY <1>8 DEF StoreValue
<1>9. CASE StartWindow(t)
  BY <1>9 DEF StartWindow
<1>10. CASE OwnWindow(t)
  BY <1>10 DEF OwnWindow
<1>11. CASE OtherWindow(t)
  BY <1>11 DEF OtherWindow
<1>12. CASE LeaveWindow(t)
  BY <1>12 DEF LeaveWindow
<1>13. CASE CheckWindows(t)
  BY <1>13 DEF CheckWindows
<1>14. CASE ClearStart(t)
  BY <1>14 DEF ClearStart
<1>15. CASE Advance(t)
  BY <1>15 DEF Advance
<1>16. QED
  BY <1>1, <1>2, <1>3, <1>4, <1>5, <1>6, <1>7, <1>8, <1>9, <1>10, <1>11,
     <1>12, <1>13, <1>14, <1>15 DEF Acts, Step

\* What a thread holds is not taken from it by another.
LEMMA OthersHold ==
  ASSUME Ordered, Slot, NEW t \in Thread, Acts(t), NEW u \in Thread, u # t, Holds(u)
  PROVE  /\ unique'[side[u]] = unique[side[u]]
         /\ handover'[side[u]] = handover[side[u]]
         /\ side[u] = "read" => result' = result
<1>1. side[u] \in Side /\ side[t] \in Side
  BY DEF Ordered, Typed
<1>2. AtHead(u) /\ Queued(u, side[u]) /\ my[u] = current[side[u]]
  <2>1. AtHead(u) /\ Queued(u, side[u])
    BY DEF Holds, AtHead, Queued
  <2>2. QED
    BY <1>1, <2>1 DEF Ordered, QueueOf
<1>3. pc[t] = "wait" /\ my[t] = current[side[t]] => side[t] # side[u]
  <2>1. ASSUME pc[t] = "wait", my[t] = my[u], side[t] = side[u]
        PROVE  FALSE
    <3>1. Queued(t, side[u])
      BY <2>1 DEF Queued
    <3>2. QED
      BY <1>1, <1>2, <2>1, <3>1 DEF Ordered, QueueOf
  <2>2. QED
    BY <1>2, <2>1
<1>4. pc[t] \in Releasing => side[t] # side[u]
  <2>1. pc[t] \in Releasing => AtHead(t)
    BY DEF Ordered, Ways, AtHead
  <2>2. QED
    BY <1>2, <2>1, HeadIsOne
<1>5. unique[side[u]] = key[u] /\ key[u] # NoKey
  <2>1. pc[u] # "idle"
    BY DEF Holds, Working, Releasing
  <2>2. key[u] \in Key
    BY <2>1 DEF Ordered, Ways
  <2>3. QED
    BY <2>2, KeyAssumption DEF Slot, Own
<1>6. CASE Claim(t)
  BY <1>1, <1>5, <1>6 DEF Claim, windows, data, Ordered, Typed
<1>7. CASE Enter(t)
  BY <1>1, <1>3, <1>7 DEF Enter, queue, data, Ordered, Typed
<1>8. CASE Release(t)
  <2>1. pc[t] \in Releasing
    BY <1>8 DEF Release, Releasing
  <2>2. side[t] # side[u]
    BY <1>4, <2>1
  <2>3. QED
    BY <1>1, <1>8, <2>2 DEF Release, queue, windows, Side
<1>9. CASE PassOn(t)
  <2>1. pc[t] \in Releasing
    BY <1>9 DEF PassOn, Releasing
  <2>2. side[t] # side[u]
    BY <1>4, <2>1
  <2>3. QED
    BY <1>1, <1>9, <2>2 DEF PassOn, data, Ordered, Typed
<1>10. CASE UNCHANGED <<unique, handover, result>>
  BY <1>10
<1>11. QED
  BY <1>6, <1>7, <1>8, <1>9, <1>10, SlotActions

LEMMA OwnStep ==
  ASSUME Ordered, Slot, NEW t \in Thread, Acts(t)
  PROVE  Own(t)'
<1>1. Own(t)
  BY DEF Slot
<1>2. Typed /\ Ways
  BY DEF Ordered
<1> USE <1>1, <1>2 DEF Own, Typed, Ways, Holds, Goto, queue, windows, data, call,
            Before, Working, Releasing, Leaving, Chosen
<1>3. CASE \E s \in Side, k \in Key : Call(t, s, k)
  BY <1>3 DEF Call
<1>4. CASE Claim(t)
  BY <1>4 DEF Claim
<1>5. CASE Deposit(t)
  BY <1>5 DEF Deposit
<1>6. CASE TakeTicket(t)
  BY <1>6 DEF TakeTicket
<1>7. CASE Enter(t)
  BY <1>7 DEF Enter
<1>8. CASE EnterConflict(t)
  BY <1>8 DEF EnterConflict
<1>9. CASE Lookup(t)
  BY <1>9 DEF Lookup, Returned
<1>10. CASE LockLeaf(t)
  BY <1>10 DEF LockLeaf
<1>11. CASE Combine(t)
  BY <1>11 DEF Combine
<1>12. CASE StoreValue(t)
  BY <1>12 DEF StoreValue, Returned
<1>13. CASE Release(t)
  BY <1>13 DEF Release, Side
<1>14. CASE StartWindow(t)
  BY <1>14 DEF StartWindow, Side
<1>15. CASE OwnWindow(t)
  BY <1>15 DEF OwnWindow
<1>16. CASE OtherWindow(t)
  BY <1>16 DEF OtherWindow
<1>17. CASE PassOn(t)
  BY <1>17 DEF PassOn
<1>18. CASE LeaveWindow(t)
  BY <1>18 DEF LeaveWindow
<1>19. CASE CheckWindows(t)
  BY <1>19 DEF CheckWindows
<1>20. CASE ClearStart(t)
  BY <1>20 DEF ClearStart
<1>21. CASE Advance(t)
  BY <1>21 DEF Advance, Returned
<1>22. QED
  BY <1>3, <1>4, <1>5, <1>6, <1>7, <1>8, <1>9, <1>10, <1>11, <1>12, <1>13,
     <1>14, <1>15, <1>16, <1>17, <1>18, <1>19, <1>20, <1>21 DEF Acts, Step

\* While the readers' flag is up, the result is one for the slot's key.
LEMMA HandedStep ==
  ASSUME Ordered, Slot, NEW t \in Thread, Acts(t), handover'["read"]
  PROVE  unique'["read"] # NoKey /\ result'[1] = unique'["read"]
<1>1. handover["read"] => unique["read"] # NoKey /\ result[1] = unique["read"]
  BY DEF Slot
<1>2. "read" \in Side /\ side[t] \in Side /\ Typed
  BY DEF Ordered, Typed, Side
<1>3. CASE Claim(t)
  BY <1>1, <1>2, <1>3 DEF Claim, windows, data, Typed
<1>4. CASE Enter(t)
  BY <1>1, <1>2, <1>4 DEF Enter, queue, data, Typed
<1>5. CASE Release(t)
  <2>1. handover' = handover /\ unique' = unique
    BY <1>5 DEF Release, queue, windows
  <2>2. result' = result
    BY <1>2, <1>5, <2>1 DEF Release, Side
  <2>3. QED
    BY <1>1, <2>1, <2>2
<1>6. CASE PassOn(t)
  <2>1. result' = result
    BY <1>6 DEF PassOn, data
  <2>2. CASE side[t] # "read"
    BY <1>1, <1>2, <1>6, <2>1, <2>2 DEF PassOn, Typed
  <2>3. CASE side[t] = "read"
    <3>1. pc[t] = "pass" /\ key[t] \in Key /\ way[t] \in Chosen /\ Holds(t)
      BY <1>6 DEF PassOn, Ordered, Ways, Releasing, Holds
    <3>2. unique["read"] = key[t] /\ result[1] = key[t]
      BY <1>1, <2>3, <3>1 DEF Slot, Own, Chosen
    <3>3. unique'["read"] = unique["read"]
      BY <1>2, <1>6, <2>3 DEF PassOn, Typed
    <3>4. QED
      BY <2>1, <3>1, <3>2, <3>3, KeyAssumption
  <2>4. QED
    BY <2>2, <2>3
<1>7. CASE UNCHANGED <<unique, handover, result>>
  BY <1>1, <1>7
<1>8. QED
  BY <1>3, <1>4, <1>5, <1>6, <1>7, SlotActions

LEMMA SlotStep ==
  ASSUME Ordered, Slot, NEW t \in Thread, Acts(t)
  PROVE  Slot'
<1>1. handover'["read"] => unique'["read"] # NoKey /\ result'[1] = unique'["read"]
  BY HandedStep
<1>2. ASSUME NEW u \in Thread
      PROVE  Own(u)'
  <2>1. CASE u = t
    BY <2>1, OwnStep
  <2>2. CASE u # t
    <3>1. Own(u)
      BY DEF Slot
    <3>2. /\ pc'[u] = pc[u] /\ side'[u] = side[u] /\ key'[u] = key[u]
          /\ way'[u] = way[u]
      BY <2>2, OthersKeep DEF Ordered
    <3>3. Holds(u)' <=> Holds(u)
      BY <3>2 DEF Holds
    <3>4. QED
      BY <2>2, <3>1, <3>2, <3>3, OthersHold DEF Own
  <2>3. QED
    BY <2>1, <2>2
<1>3. QED
  BY <1>1, <1>2 DEF Slot

LEMMA CombiningAlways == Spec => []Combining
<1>1. Init => Combining
  <2>1. Init => Slot
    BY DEF Init, Slot, Own, Holds, Chosen, Side
  <2>2. QED
    BY <2>1, OrderedInit DEF Combining
<1>2. Combining /\ [Next]_vars => Combining'
  <2> SUFFICES ASSUME Combining, [Next]_vars
               PROVE  Combining'
    OBVIOUS
  <2>1. CASE Next
    <3>1. PICK t \in Thread : Acts(t)
      BY <2>1 DEF Next, Acts
    <3>2. QED
      BY <3>1, OrderedStep, SlotStep DEF Combining
  <2>2. CASE UNCHANGED vars
    <3>1. Ordered'
      BY <2>2, OrderedStutter DEF Combining
    <3>2. Slot'
      BY <2>2 DEF Combining, Slot, Own, Holds, vars, queue, windows, data, locals,
              call
    <3>3. QED
      BY <3>1, <3>2 DEF Combining
  <2>3. QED
    BY <2>1, <2>2
<1>3. QED
  BY <1>1, <1>2, PTL DEF Spec

\* Read delegation hands a search only results for the key it asked for, though
\* the slot changes keys while searches for older keys are queued.
THEOREM ResultsForTheirKey == Spec => []HandedOwnKey
<1>1. Combining => HandedOwnKey
  <2> SUFFICES ASSUME Combining, NEW t \in Thread,
                      side[t] = "read", way[t] = "loser", pc[t] = "release"
               PROVE  result[1] = key[t]
    BY DEF HandedOwnKey
  <2>1. Holds(t)
    BY DEF Holds, Chosen, Releasing
  <2>2. handover["read"] /\ unique["read"] = key[t]
    BY <2>1 DEF Combining, Slot, Own
  <2>3. QED
    BY <2>2 DEF Combining, Slot
<1>2. QED
  BY <1>1, CombiningAlways, PTL
=============================================================================
