---------------------------- MODULE VerbsProofs ----------------------------
(***************************************************************************)
(* One thread and its coroutines, for every number of coroutines and of    *)
(* memory nodes: who waits is woken once, a call that is back has nothing  *)
(* left in a queue pair, and the unlock is written last.                   *)
(*                                                                         *)
(* A coroutine that waits has one token: its signalled request, then the   *)
(* completion of it, then perhaps an entry of busy_waiting_queue.  Behind  *)
(* every request in a queue pair there is a signalled one of the same      *)
(* coroutine, so without a token nothing of the coroutine is left there,   *)
(* and what it posts next is a batch on its own.  A thread without         *)
(* coroutines has one completion for each memory node that it waits for.   *)
(***************************************************************************)
EXTENDS Verbs, FiniteSetTheorems, SequenceTheorems,
        WellFoundedInduction, TLAPS

\* Zenon first: most leaves are first-order.
USE ZenonT(2), SMTT(40), ZenonT(40)

What == {"data", "cas", "node", "unlock"}
Regions == [node : Node, what : What]
Reqs == [coro : Coro, what : What, signal : BOOLEAN]

\* What a call posts: at least one batch, no two on a node, and none that writes a
\* node after the unlock.
GoodBatch(b) ==
    /\ b \in Seq(Regions)
    /\ b # <<>>
    /\ \A i, j \in 1 .. Len(b) :
           i < j /\ b[i].what = "unlock" => b[j].what # "node"
GoodBatches(bs) ==
    /\ bs \in Seq(Seq(Regions))
    /\ \A i \in 1 .. Len(bs) : GoodBatch(bs[i])
GoodCall(bs) ==
    /\ GoodBatches(bs)
    /\ bs # <<>>
    /\ \A i, j \in 1 .. Len(bs) : bs[i][1].node = bs[j][1].node => i = j

Places == {"new", "run", "wait", "rest", "poll", "spin", "done"}
Typed ==
    /\ phase \in {"none", "start", "cq", "busy", "exit"}
    /\ cur \in Coro \cup {None}
    /\ pc \in [Coro -> Places]
    /\ DOMAIN todo = Coro /\ \A c \in Coro : GoodBatches(todo[c])
    /\ qp \in [Node -> Seq(Reqs)]
    /\ cq \in Seq(Coro)
    /\ busy \in Seq(Coro)

\* A queue pair q: signalled requests of c, requests of c, their order.
Sig(c, q, i) == q[i].coro = c /\ q[i].signal
NoSig(c, q) == \A i \in 1 .. Len(q) : ~Sig(c, q, i)
OneSig(c, q) ==
    \E i \in 1 .. Len(q) : Sig(c, q, i) /\ \A j \in 1 .. Len(q) : Sig(c, q, j) => j = i
NoReq(c, q) == \A i \in 1 .. Len(q) : q[i].coro # c
Covered(q) == \A i \in 1 .. Len(q) : \E j \in i .. Len(q) : Sig(q[i].coro, q, j)
UnlockOrder(q) ==
    \A i, j \in 1 .. Len(q) :
        i < j /\ q[i].coro = q[j].coro /\ q[i].what = "unlock" => q[j].what # "node"

\* The completion queue or the busy queue.
NoneOf(c, s) == \A i \in 1 .. Len(s) : s[i] # c
OneOf(c, s) == \E i \in 1 .. Len(s) : s[i] = c /\ \A j \in 1 .. Len(s) : s[j] = c => j = i

\* The token of c: in queue pair n, in the completion queue, in the busy queue.
NoSigs(c) == \A n \in Node : NoSig(c, qp[n])
Quiet(c) == NoSigs(c) /\ NoneOf(c, cq) /\ NoneOf(c, busy)
TokenQp(c) ==
    /\ \E n \in Node : OneSig(c, qp[n]) /\ \A m \in Node \ {n} : NoSig(c, qp[m])
    /\ NoneOf(c, cq) /\ NoneOf(c, busy)
TokenCq(c) == NoSigs(c) /\ OneOf(c, cq) /\ NoneOf(c, busy)
TokenBusy(c) == NoSigs(c) /\ NoneOf(c, cq) /\ OneOf(c, busy)

Yielded == {"wait", "rest", "spin"}
Token(c) == TokenQp(c) \/ TokenCq(c) \/ TokenBusy(c)
Woken(c) ==
    /\ pc[c] \in Yielded => Token(c)
    /\ pc[c] \notin Yielded => Quiet(c)

\* A thread without coroutines.
SigNodes == {n \in Node : ~NoSig(0, qp[n])}
Polled ==
    /\ cur = 0
    /\ pc[0] \in {"run", "poll"} /\ \A c \in Coro \ {0} : pc[c] = "done"
    /\ \A c \in Coro : todo[c] = <<>>
    /\ \A n \in Node, c \in Coro \ {0} : NoReq(c, qp[n])
    /\ \A n \in Node : NoSig(0, qp[n]) \/ OneSig(0, qp[n])
    /\ IsFiniteSet(SigNodes) /\ need = Cardinality(SigNodes) + Len(cq)
    /\ pc[0] = "run" => need = 0

\* The inductive invariant.
Tokens ==
    /\ Typed
    /\ \A n \in Node : Covered(qp[n]) /\ UnlockOrder(qp[n])
    /\ Sink => \A c \in Coro : Woken(c)
    /\ ~Sink => Polled

-----------------------------------------------------------------------------
(* Queues *)

\* Two sequences joined.
Joins(r, s, z) ==
    /\ Len(r) = Len(s) + Len(z)
    /\ \A i \in 1 .. Len(s) : r[i] = s[i]
    /\ \A i \in 1 .. Len(z) : r[Len(s) + i] = z[i]
LEMMA Joined ==
  ASSUME NEW S, NEW s \in Seq(S), NEW z \in Seq(S)
  PROVE  s \o z \in Seq(S) /\ Joins(s \o z, s, z)
BY DEF Joins

\* Requests: those of c, in the order of the batch, the last of them signalled.
RequestsOf(c, b, z) ==
    /\ Len(z) = Len(b) /\ Len(z) \in Nat /\ Len(z) >= 1
    /\ \A i \in 1 .. Len(z) :
           z[i].coro = c /\ z[i].what = b[i].what /\ (z[i].signal <=> i = Len(z))
LEMMA Requested ==
  ASSUME NEW c \in Coro, NEW b, GoodBatch(b)
  PROVE  Requests(c, b) \in Seq(Reqs) /\ RequestsOf(c, b, Requests(c, b))
<1> DEFINE z == Requests(c, b)
<1>1. b \in Seq(Regions) /\ b # <<>>
  BY DEF GoodBatch
<1>2. Len(b) \in Nat /\ Len(b) >= 1 /\ DOMAIN b = 1 .. Len(b)
  BY <1>1
<1>3. z = [i \in 1 .. Len(b) |-> Request(c, b[i], i = Len(b))]
  BY <1>2 DEF Requests
<1>4. \A i \in 1 .. Len(b) : b[i] \in Regions
  BY <1>1, <1>2
<1>5. \A i \in 1 .. Len(b) : Request(c, b[i], i = Len(b)) \in Reqs
  <2> TAKE i \in 1 .. Len(b)
  <2>1. b[i].what \in What
    BY <1>4 DEF Regions
  <2>2. PICK s \in BOOLEAN : s = (i = Len(b))
    BY Zenon
  <2>3. Request(c, b[i], s) \in Reqs
    BY <2>1 DEF Request, Reqs
  <2> QED
    BY <2>2, <2>3
<1>6. z \in Seq(Reqs) /\ Len(z) = Len(b)
  <2>1. PICK f : f = z
    OBVIOUS
  <2>2. f \in [1 .. Len(b) -> Reqs]
    BY <2>1, <1>3, <1>5
  <2> HIDE DEF z
  <2>3. f \in Seq(Reqs) /\ Len(f) = Len(b)
    BY <2>2, <1>2
  <2> QED
    BY <2>1, <2>3
<1>7. \A i \in 1 .. Len(b) :
          /\ z[i].coro = c /\ z[i].what = b[i].what
          /\ z[i].signal <=> i = Len(b)
  <2> TAKE i \in 1 .. Len(b)
  <2>1. z[i] = Request(c, b[i], i = Len(b))
    BY <1>3
  <2>2. PICK s \in BOOLEAN : s = (i = Len(b))
    BY Zenon
  <2>3. /\ Request(c, b[i], s).coro = c /\ Request(c, b[i], s).what = b[i].what
        /\ Request(c, b[i], s).signal = s
    BY DEF Request
  <2> QED
    BY <2>1, <2>2, <2>3
<1> QED
  BY <1>2, <1>6, <1>7 DEF RequestsOf

\* Without a signalled request there is no request.
LEMMA Silent ==
  ASSUME NEW q \in Seq(Reqs), Covered(q), NEW c, NoSig(c, q)
  PROVE  NoReq(c, q)
<1> SUFFICES ASSUME NEW i \in 1 .. Len(q), q[i].coro = c
             PROVE  FALSE
  BY DEF NoReq
<1>1. PICK j \in i .. Len(q) : Sig(c, q, j)
  BY Zenon DEF Covered
<1>2. j \in 1 .. Len(q)
  BY <1>1
<1> QED
  BY <1>1, <1>2 DEF NoSig

\* A batch of c is appended to a queue pair without requests of c.
Posted(c, q, r) ==
    /\ OneSig(c, r) /\ Covered(r) /\ UnlockOrder(r)
    /\ \A d : d # c => /\ NoSig(d, q) => NoSig(d, r)
                       /\ OneSig(d, q) => OneSig(d, r)
                       /\ NoReq(d, q) => NoReq(d, r)
LEMMA PostedQueue ==
  ASSUME NEW q \in Seq(Reqs), NEW c \in Coro, NEW b, GoodBatch(b),
         NoReq(c, q), Covered(q), UnlockOrder(q)
  PROVE  q \o Requests(c, b) \in Seq(Reqs) /\ Posted(c, q, q \o Requests(c, b))
<1>1. PICK z : z = Requests(c, b)  BY Zenon
<1>2. PICK r : r = q \o z  BY Zenon
<1>3. z \in Seq(Reqs) /\ RequestsOf(c, b, z)
  BY <1>1, Requested
<1>4. r \in Seq(Reqs) /\ Joins(r, q, z)
  BY <1>2, <1>3, Joined
<1>5. PICK l \in Nat : l = Len(q)  BY LenProperties
<1>6. PICK k \in Nat : k = Len(z) /\ k >= 1  BY <1>3 DEF RequestsOf
<1>7. Len(r) = l + k
  BY <1>4, <1>5, <1>6 DEF Joins
<1>8. \A i \in 1 .. l : r[i] = q[i] /\ r[i].coro # c
  BY <1>4, <1>5 DEF Joins, NoReq
<1>9. \A i \in 1 .. l + k : i \notin 1 .. l =>
          /\ i - l \in 1 .. k /\ r[i].coro = c
          /\ r[i].what = b[i - l].what
          /\ r[i].signal <=> i = l + k
  <2> TAKE i \in 1 .. l + k
  <2> HAVE i \notin 1 .. l
  <2>1. i - l \in 1 .. k /\ l + (i - l) = i
    BY <1>5, <1>6
  <2>2. r[i] = z[i - l]
    BY <2>1, <1>4, <1>5, <1>6 DEF Joins
  <2>3. i - l = k <=> i = l + k
    BY <1>5, <1>6
  <2> QED
    BY <2>1, <2>2, <2>3, <1>3, <1>6 DEF RequestsOf
<1>10. OneSig(c, r)
  <2>1. l + k \in 1 .. Len(r) /\ l + k \notin 1 .. l
    BY <1>5, <1>6, <1>7
  <2>2. Sig(c, r, l + k)
    BY <2>1, <1>7, <1>9 DEF Sig
  <2>3. ASSUME NEW j \in 1 .. Len(r), Sig(c, r, j)
        PROVE  j = l + k
    BY <2>3, <1>7, <1>8, <1>9 DEF Sig
  <2> QED
    BY <2>1, <2>2, <2>3 DEF OneSig
<1>11. Covered(r)
  <2> SUFFICES ASSUME NEW i \in 1 .. Len(r)
               PROVE  \E j \in i .. Len(r) : Sig(r[i].coro, r, j)
    BY DEF Covered
  <2>1. CASE i \in 1 .. l
    <3>1. PICK j \in i .. l : Sig(q[i].coro, q, j)
      BY <2>1, <1>5 DEF Covered
    <3>2. j \in 1 .. l /\ j \in i .. Len(r)
      BY <3>1, <1>5, <1>6, <1>7
    <3>3. Sig(r[i].coro, r, j)
      BY <3>1, <3>2, <2>1, <1>8 DEF Sig
    <3> QED
      BY <3>2, <3>3
  <2>2. CASE i \notin 1 .. l
    <3>1. l + k \in i .. Len(r) /\ l + k \notin 1 .. l /\ l + k \in 1 .. Len(r)
      BY <1>5, <1>6, <1>7
    <3>2. r[i].coro = c
      BY <2>2, <1>7, <1>9
    <3>3. Sig(c, r, l + k)
      BY <3>1, <1>7, <1>9 DEF Sig
    <3> QED
      BY <3>1, <3>2, <3>3
  <2> QED
    BY <2>1, <2>2
<1>12. UnlockOrder(r)
  <2> SUFFICES ASSUME NEW i \in 1 .. Len(r), NEW j \in 1 .. Len(r), i < j,
                      r[i].coro = r[j].coro, r[i].what = "unlock"
               PROVE  r[j].what # "node"
    BY DEF UnlockOrder
  <2>1. CASE i \in 1 .. l
    <3>1. j \in 1 .. l
      BY <2>1, <1>7, <1>8, <1>9
    <3> QED
      BY <2>1, <3>1, <1>5, <1>8 DEF UnlockOrder
  <2>2. CASE i \notin 1 .. l
    <3>1. j \notin 1 .. l
      BY <2>2, <1>7, <1>5
    <3>2. i - l \in 1 .. k /\ j - l \in 1 .. k /\ i - l < j - l
      BY <2>2, <3>1, <1>7, <1>5, <1>6
    <3>3. r[i].what = b[i - l].what /\ r[j].what = b[j - l].what
      BY <2>2, <3>1, <1>7, <1>9
    <3>4. k = Len(b)
      BY <1>3, <1>6 DEF RequestsOf
    <3> QED
      BY <3>2, <3>3, <3>4 DEF GoodBatch
  <2> QED
    BY <2>1, <2>2
<1>13. ASSUME NEW d, d # c
       PROVE  /\ NoSig(d, q) => NoSig(d, r)
              /\ OneSig(d, q) => OneSig(d, r)
              /\ NoReq(d, q) => NoReq(d, r)
  <2>1. \A i \in 1 .. Len(r) : r[i].coro = d => i \in 1 .. Len(q) /\ r[i] = q[i]
    BY <1>13, <1>5, <1>7, <1>8, <1>9
  <2>2. \A i \in 1 .. Len(q) : i \in 1 .. Len(r) /\ r[i] = q[i]
    BY <1>5, <1>6, <1>7, <1>8
  <2>3. NoSig(d, q) => NoSig(d, r)
    BY <2>1 DEF NoSig, Sig
  <2>4. NoReq(d, q) => NoReq(d, r)
    BY <2>1 DEF NoReq
  <2>5. OneSig(d, q) => OneSig(d, r)
    <3> HAVE OneSig(d, q)
    <3>1. PICK i \in 1 .. Len(q) :
              Sig(d, q, i) /\ \A j \in 1 .. Len(q) : Sig(d, q, j) => j = i
      BY DEF OneSig
    <3>2. i \in 1 .. Len(r) /\ Sig(d, r, i)
      BY <3>1, <2>2 DEF Sig
    <3>3. \A j \in 1 .. Len(r) : Sig(d, r, j) => j = i
      BY <3>1, <2>1 DEF Sig
    <3> QED
      BY <3>2, <3>3 DEF OneSig
  <2> QED
    BY <2>3, <2>4, <2>5
<1>14. Posted(c, q, r)
  BY <1>10, <1>11, <1>12, <1>13 DEF Posted
<1> QED
  BY <1>1, <1>2, <1>4, <1>14

\* The head of a queue taken off.
Drops(r, q) ==
    /\ Len(q) \in Nat /\ Len(q) >= 1 /\ Len(r) = Len(q) - 1
    /\ \A i \in 1 .. Len(r) : i + 1 \in 1 .. Len(q) /\ r[i] = q[i + 1]
LEMMA Dropped ==
  ASSUME NEW S, NEW q \in Seq(S), q # <<>>
  PROVE  /\ Tail(q) \in Seq(S) /\ Head(q) \in S /\ Head(q) = q[1]
         /\ Drops(Tail(q), q)
BY DEF Drops

\* A place of q after the first is one of Tail(q).
LEMMA PlaceBefore ==
  ASSUME NEW q, NEW r, Drops(r, q), NEW i \in 1 .. Len(q), i # 1
  PROVE  i - 1 \in 1 .. Len(r) /\ r[i - 1] = q[i]
<1>1. PICK l \in Nat : l = Len(q) /\ l >= 1 /\ Len(r) = l - 1
  BY DEF Drops
<1>2. i - 1 \in 1 .. Len(r) /\ (i - 1) + 1 = i
  BY <1>1
<1> QED
  BY <1>2 DEF Drops

\* A queue pair executes its first request.
Executed(q, r) ==
    /\ Covered(q) => Covered(r)
    /\ UnlockOrder(q) => UnlockOrder(r)
    /\ \A c : /\ NoReq(c, q) => NoReq(c, r)
              /\ NoSig(c, q) => NoSig(c, r)
              /\ OneSig(c, q) /\ Sig(c, q, 1) => NoSig(c, r)
              /\ OneSig(c, q) /\ ~Sig(c, q, 1) => OneSig(c, r)
LEMMA ExecutedQueue ==
  ASSUME NEW q \in Seq(Reqs), q # <<>>
  PROVE  Tail(q) \in Seq(Reqs) /\ Executed(q, Tail(q))
<1>1. PICK r : r = Tail(q)  BY Zenon
<1>2. r \in Seq(Reqs) /\ Drops(r, q)
  BY <1>1, Dropped
<1>3. PICK l \in Nat : l = Len(q) /\ l >= 1 /\ Len(r) = l - 1
  BY <1>2 DEF Drops
<1>4. \A i \in 1 .. Len(r) : i \in Nat /\ i + 1 \in 1 .. Len(q) /\ i + 1 # 1 /\ r[i] = q[i + 1]
  BY <1>2, <1>3 DEF Drops
<1>5. \A i \in 1 .. Len(q) : i # 1 => i - 1 \in 1 .. Len(r) /\ r[i - 1] = q[i]
  BY <1>2, PlaceBefore
<1>6. ASSUME Covered(q)
      PROVE  Covered(r)
  <2> SUFFICES ASSUME NEW i \in 1 .. Len(r)
               PROVE  \E j \in i .. Len(r) : Sig(r[i].coro, r, j)
    BY DEF Covered
  <2>1. PICK j \in (i + 1) .. Len(q) : Sig(r[i].coro, q, j)
    BY <1>4, <1>6 DEF Covered
  <2>2. j \in 1 .. Len(q) /\ j # 1 /\ j - 1 \in i .. Len(r)
    BY <1>3
  <2>3. Sig(r[i].coro, r, j - 1)
    BY <2>1, <2>2, <1>5 DEF Sig
  <2> QED
    BY <2>2, <2>3
<1>7. ASSUME UnlockOrder(q)
      PROVE  UnlockOrder(r)
  <2> SUFFICES ASSUME NEW i \in 1 .. Len(r), NEW j \in 1 .. Len(r), i < j,
                      r[i].coro = r[j].coro, r[i].what = "unlock"
               PROVE  r[j].what # "node"
    BY DEF UnlockOrder
  <2>1. i + 1 < j + 1
    BY <1>3
  <2> QED
    BY <2>1, <1>4, <1>7 DEF UnlockOrder
<1>8. ASSUME NEW c
      PROVE  /\ NoReq(c, q) => NoReq(c, r)
             /\ NoSig(c, q) => NoSig(c, r)
             /\ OneSig(c, q) /\ Sig(c, q, 1) => NoSig(c, r)
             /\ OneSig(c, q) /\ ~Sig(c, q, 1) => OneSig(c, r)
  <2>1. NoReq(c, q) => NoReq(c, r)
    BY <1>4 DEF NoReq
  <2>2. NoSig(c, q) => NoSig(c, r)
    BY <1>4 DEF NoSig, Sig
  <2>3. \A i \in 1 .. Len(r) : Sig(c, r, i) => Sig(c, q, i + 1)
    BY <1>4 DEF Sig
  <2>4. ASSUME OneSig(c, q), Sig(c, q, 1)
        PROVE  NoSig(c, r)
    <3>1. \A j \in 1 .. Len(q) : Sig(c, q, j) => j = 1
      BY <2>4, <1>3 DEF OneSig
    <3> QED
      BY <3>1, <2>3, <1>4 DEF NoSig
  <2>5. ASSUME OneSig(c, q), ~Sig(c, q, 1)
        PROVE  OneSig(c, r)
    <3>1. PICK i \in 1 .. Len(q) :
              Sig(c, q, i) /\ \A j \in 1 .. Len(q) : Sig(c, q, j) => j = i
      BY <2>5 DEF OneSig
    <3>2. i # 1
      BY <3>1, <2>5
    <3>3. i - 1 \in 1 .. Len(r) /\ Sig(c, r, i - 1)
      BY <3>1, <3>2, <1>5 DEF Sig
    <3>4. ASSUME NEW j \in 1 .. Len(r), Sig(c, r, j)
          PROVE  j = i - 1
      <4>1. j + 1 = i
        BY <3>1, <3>4, <2>3, <1>4
      <4> QED
        BY <4>1, <1>3
    <3> QED
      BY <3>3, <3>4 DEF OneSig
  <2> QED
    BY <2>1, <2>2, <2>4, <2>5
<1> QED
  BY <1>1, <1>2, <1>6, <1>7, <1>8 DEF Executed

\* The completion queue and the busy queue: their first entry is taken.
Popped(s, r) ==
    \A c : /\ NoneOf(c, s) => NoneOf(c, r)
           /\ OneOf(c, s) /\ c = Head(s) => NoneOf(c, r)
           /\ OneOf(c, s) /\ c # Head(s) => OneOf(c, r)
LEMMA PoppedQueue ==
  ASSUME NEW s \in Seq(Coro), s # <<>>
  PROVE  Tail(s) \in Seq(Coro) /\ Head(s) \in Coro /\ ~NoneOf(Head(s), s)
         /\ Popped(s, Tail(s))
<1>1. PICK r : r = Tail(s)  BY Zenon
<1>2. r \in Seq(Coro) /\ Drops(r, s) /\ Head(s) = s[1] /\ Head(s) \in Coro
  BY <1>1, Dropped
<1>3. PICK l \in Nat : l = Len(s) /\ l >= 1 /\ Len(r) = l - 1
  BY <1>2 DEF Drops
<1>4. \A i \in 1 .. Len(r) : i \in Nat /\ i + 1 \in 1 .. Len(s) /\ i + 1 # 1 /\ r[i] = s[i + 1]
  BY <1>2, <1>3 DEF Drops
<1>5. \A i \in 1 .. Len(s) : i # 1 => i - 1 \in 1 .. Len(r) /\ r[i - 1] = s[i]
  BY <1>2, PlaceBefore
<1>6. 1 \in 1 .. Len(s)
  BY <1>3
<1>7. ~NoneOf(Head(s), s)
  BY <1>2, <1>6 DEF NoneOf
<1>8. ASSUME NEW c
      PROVE  /\ NoneOf(c, s) => NoneOf(c, r)
             /\ OneOf(c, s) /\ c = Head(s) => NoneOf(c, r)
             /\ OneOf(c, s) /\ c # Head(s) => OneOf(c, r)
  <2>1. NoneOf(c, s) => NoneOf(c, r)
    BY <1>4 DEF NoneOf
  <2>2. ASSUME OneOf(c, s), c = Head(s)
        PROVE  NoneOf(c, r)
    <3>1. \A j \in 1 .. Len(s) : s[j] = c => j = 1
      BY <2>2, <1>2, <1>6 DEF OneOf
    <3> QED
      BY <3>1, <1>4 DEF NoneOf
  <2>3. ASSUME OneOf(c, s), c # Head(s)
        PROVE  OneOf(c, r)
    <3>1. PICK i \in 1 .. Len(s) : s[i] = c /\ \A j \in 1 .. Len(s) : s[j] = c => j = i
      BY <2>3 DEF OneOf
    <3>2. i # 1
      BY <3>1, <2>3, <1>2
    <3>3. i - 1 \in 1 .. Len(r) /\ r[i - 1] = c
      BY <3>1, <3>2, <1>5
    <3>4. ASSUME NEW j \in 1 .. Len(r), r[j] = c
          PROVE  j = i - 1
      <4>1. j + 1 = i
        BY <3>1, <3>4, <1>4
      <4> QED
        BY <4>1, <1>3
    <3> QED
      BY <3>3, <3>4 DEF OneOf
  <2> QED
    BY <2>1, <2>2, <2>3
<1> QED
  BY <1>1, <1>2, <1>7, <1>8 DEF Popped

\* ... and an entry of d is appended.
Pushed(s, d, r) ==
    /\ NoneOf(d, s) => OneOf(d, r)
    /\ \A c : c # d => /\ NoneOf(c, s) => NoneOf(c, r)
                       /\ OneOf(c, s) => OneOf(c, r)
LEMMA PushedQueue ==
  ASSUME NEW s \in Seq(Coro), NEW d \in Coro
  PROVE  Append(s, d) \in Seq(Coro) /\ Pushed(s, d, Append(s, d))
<1>1. PICK r : r = Append(s, d)  BY Zenon
<1>2. PICK l \in Nat : l = Len(s)  BY LenProperties
<1>3. r \in Seq(Coro) /\ Len(r) = l + 1 /\ r[l + 1] = d /\ \A i \in 1 .. l : r[i] = s[i]
  BY <1>1, <1>2
<1>4. \A i \in 1 .. Len(r) : i = l + 1 \/ i \in 1 .. l
  BY <1>2, <1>3
<1>5. l + 1 \in 1 .. Len(r) /\ \A i \in 1 .. l : i \in 1 .. Len(r)
  BY <1>2, <1>3
<1>6. ASSUME NoneOf(d, s)
      PROVE  OneOf(d, r)
  BY <1>6, <1>2, <1>3, <1>4, <1>5 DEF NoneOf, OneOf
<1>7. ASSUME NEW c, c # d
      PROVE  /\ NoneOf(c, s) => NoneOf(c, r)
             /\ OneOf(c, s) => OneOf(c, r)
  <2>1. \A i \in 1 .. Len(r) : r[i] = c => i \in 1 .. Len(s) /\ s[i] = c
    BY <1>7, <1>2, <1>3, <1>4
  <2>2. \A i \in 1 .. Len(s) : i \in 1 .. Len(r) /\ r[i] = s[i]
    BY <1>2, <1>3, <1>5
  <2>3. NoneOf(c, s) => NoneOf(c, r)
    BY <2>1 DEF NoneOf
  <2>4. OneOf(c, s) => OneOf(c, r)
    BY <2>1, <2>2 DEF OneOf
  <2> QED
    BY <2>3, <2>4
<1> QED
  BY <1>1, <1>3, <1>6, <1>7 DEF Pushed

\* Both at once cannot be.
LEMMA NoneOrOne ==
  ASSUME NEW c, NEW s, OneOf(c, s)
  PROVE  ~NoneOf(c, s)
BY DEF OneOf, NoneOf
LEMMA NoSigOrOne ==
  ASSUME NEW c, NEW q, OneSig(c, q)
  PROVE  ~NoSig(c, q)
BY DEF OneSig, NoSig

-----------------------------------------------------------------------------
(* Calls *)

\* Batches of one, two and three requests.
LEMMA Batch1 ==
  ASSUME NEW r \in Regions
  PROVE  GoodBatch(<<r>>)
<1>1. <<r>> \in Seq(Regions) /\ <<r>> # <<>> /\ Len(<<r>>) = 1
  OBVIOUS
<1>2. \A i, j \in 1 .. 1 : ~(i < j)
  OBVIOUS
<1> QED
  BY <1>1, <1>2 DEF GoodBatch
LEMMA Batch2 ==
  ASSUME NEW r \in Regions, NEW s \in Regions, ~(r.what = "unlock" /\ s.what = "node")
  PROVE  GoodBatch(<<r, s>>)
<1>1. /\ <<r, s>> \in Seq(Regions) /\ <<r, s>> # <<>> /\ Len(<<r, s>>) = 2
      /\ <<r, s>>[1] = r /\ <<r, s>>[2] = s
  OBVIOUS
<1>2. \A i, j \in 1 .. 2 : i < j => i = 1 /\ j = 2
  OBVIOUS
<1> QED
  BY <1>1, <1>2 DEF GoodBatch
LEMMA Batch3 ==
  ASSUME NEW r \in Regions, NEW s \in Regions, NEW t \in Regions,
         r.what # "unlock", s.what # "unlock"
  PROVE  GoodBatch(<<r, s, t>>)
<1>1. /\ <<r, s, t>> \in Seq(Regions) /\ <<r, s, t>> # <<>> /\ Len(<<r, s, t>>) = 3
      /\ <<r, s, t>>[1] = r /\ <<r, s, t>>[2] = s
  OBVIOUS
<1>2. \A i, j \in 1 .. 3 : i < j => i = 1 \/ i = 2
  OBVIOUS
<1> QED
  BY <1>1, <1>2 DEF GoodBatch

\* Calls of one and two batches.
LEMMA Call1 ==
  ASSUME NEW b, GoodBatch(b)
  PROVE  GoodCall(<<b>>)
<1>1. b \in Seq(Regions)
  BY DEF GoodBatch
<1>2. <<b>> \in Seq(Seq(Regions)) /\ <<b>> # <<>> /\ Len(<<b>>) = 1 /\ <<b>>[1] = b
  BY <1>1
<1>3. \A i \in 1 .. 1 : i = 1
  OBVIOUS
<1>4. GoodBatches(<<b>>)
  BY <1>2, <1>3 DEF GoodBatches
<1> QED
  BY <1>2, <1>3, <1>4 DEF GoodCall
LEMMA Call2 ==
  ASSUME NEW a, NEW b, GoodBatch(a), GoodBatch(b), a[1].node # b[1].node
  PROVE  GoodCall(<<a, b>>) /\ GoodCall(Ascending(a, b))
<1>1. ASSUME NEW x, NEW y, GoodBatch(x), GoodBatch(y), x[1].node # y[1].node
      PROVE  GoodCall(<<x, y>>)
  <2>1. x \in Seq(Regions) /\ y \in Seq(Regions)
    BY <1>1 DEF GoodBatch
  <2>2. /\ <<x, y>> \in Seq(Seq(Regions)) /\ <<x, y>> # <<>> /\ Len(<<x, y>>) = 2
        /\ <<x, y>>[1] = x /\ <<x, y>>[2] = y
    BY <2>1
  <2>3. \A i \in 1 .. 2 : i = 1 \/ i = 2
    OBVIOUS
  <2>4. GoodBatches(<<x, y>>)
    BY <1>1, <2>2, <2>3 DEF GoodBatches
  <2> QED
    BY <1>1, <2>2, <2>3, <2>4 DEF GoodCall
<1> QED
  BY <1>1 DEF Ascending

\* A region of a node.
LEMMA Regioned ==
  ASSUME NEW n \in Node, NEW w \in What
  PROVE  Region(n, w) \in Regions /\ Region(n, w).node = n /\ Region(n, w).what = w
BY DEF Region, Regions

LEMMA OneGood ==
  ASSUME NEW w \in What, NEW bs \in One(w)
  PROVE  GoodCall(bs)
<1>1. PICK n \in Node : bs = << <<Region(n, w)>> >>
  BY DEF One
<1> QED
  BY <1>1, Regioned, Batch1, Call1
LEMMA ChainGood ==
  ASSUME NEW w \in What, NEW x \in What, w # "unlock", NEW bs \in Chain(w, x)
  PROVE  GoodCall(bs)
<1>1. PICK n \in Node : bs = << <<Region(n, w), Region(n, x)>> >>
  BY DEF Chain
<1>2. PICK r \in Regions : r = Region(n, w) /\ r.what = w
  BY Regioned
<1>3. PICK s \in Regions : s = Region(n, x)
  BY Regioned
<1>4. GoodBatch(<<r, s>>)
  BY <1>2, Batch2
<1> QED
  BY <1>1, <1>2, <1>3, <1>4, Call1
LEMMA GroupTwoGood ==
  ASSUME NEW r \in Regions, NEW s \in Regions, r.what # "unlock"
  PROVE  GoodCall(GroupTwo(r, s))
<1>1. CASE r.node = s.node
  BY <1>1, Batch2, Call1 DEF GroupTwo
<1>2. CASE r.node # s.node
  <2>1. GoodBatch(<<r>>) /\ GoodBatch(<<s>>) /\ <<r>>[1] = r /\ <<s>>[1] = s
    BY Batch1
  <2> QED
    BY <1>2, <2>1, Call2 DEF GroupTwo
<1> QED
  BY <1>1, <1>2
LEMMA GroupThreeGood ==
  ASSUME NEW r \in Regions, NEW s \in Regions, NEW t \in Regions,
         r.what # "unlock", s.what # "unlock"
  PROVE  GoodCall(GroupThree(r, s, t))
<1>1. CASE r.node = s.node
  BY <1>1, Batch3, Call1 DEF GroupThree
<1>2. CASE r.node # s.node
  <2>1. GoodBatch(<<r, t>>) /\ <<r, t>>[1] = r
    BY Batch2
  <2>2. GoodBatch(<<s>>) /\ <<s>>[1] = s
    BY Batch1
  <2> QED
    BY <1>2, <2>1, <2>2, Call2 DEF GroupThree
<1> QED
  BY <1>1, <1>2

\* Every call posts good batches.
LEMMA CallsGood ==
  ASSUME NEW bs \in Calls
  PROVE  GoodCall(bs)
<1> USE DEF What
<1>1. CASE bs \in One("data") \cup One("cas")
  BY <1>1, OneGood
<1>2. CASE bs \in Chain("data", "data") \cup Chain("data", "cas") \cup Chain("cas", "data")
  BY <1>2, ChainGood
<1>3. CASE bs \in CasThenWrite \ Chain("cas", "data")
  <2>1. PICK p \in Node \X Node :
            p[1] # p[2] /\ bs = << <<Region(p[1], "cas")>>, <<Region(p[2], "data")>> >>
    BY <1>3 DEF CasThenWrite
  <2>2. PICK r \in Regions : r = Region(p[1], "cas") /\ r.node = p[1]
    BY <2>1, Regioned
  <2>3. PICK s \in Regions : s = Region(p[2], "data") /\ s.node = p[2]
    BY <2>1, Regioned
  <2>4. GoodBatch(<<r>>) /\ GoodBatch(<<s>>) /\ <<r>>[1] = r /\ <<s>>[1] = s
    BY Batch1
  <2> QED
    BY <2>1, <2>2, <2>3, <2>4, Call2
<1>4. CASE bs \in ReadBatches
  <2>1. PICK m \in Node, n \in Node : bs = GroupTwo(Region(m, "data"), Region(n, "data"))
    BY <1>4 DEF ReadBatches
  <2> QED
    BY <2>1, Regioned, GroupTwoGood
<1>5. CASE bs \in WriteBatches
  <2>1. CASE \E m, n \in Node : bs = GroupTwo(Region(n, "node"), Region(m, "unlock"))
    <3>1. PICK m \in Node, n \in Node : bs = GroupTwo(Region(n, "node"), Region(m, "unlock"))
      BY <2>1
    <3> QED
      BY <3>1, Regioned, GroupTwoGood
  <2>2. CASE \E m, n \in Node :
                 bs = GroupThree(Region(m, "node"), Region(n, "node"), Region(m, "unlock"))
    <3>1. PICK m \in Node, n \in Node :
              bs = GroupThree(Region(m, "node"), Region(n, "node"), Region(m, "unlock"))
      BY <2>2
    <3> QED
      BY <3>1, Regioned, GroupThreeGood
  <2> QED
    BY <1>5, <2>1, <2>2 DEF WriteBatches
<1> QED
  BY <1>1, <1>2, <1>3, <1>4, <1>5
     DEF Calls, Read, Write, FetchAndAdd, OnChip, CompareAndSwap, CompareAndSwapMask,
         WriteThenAtomic, CasThenRead, CasThenWrite

\* The first batch of a call and the rest.
LEMMA BatchesSplit ==
  ASSUME NEW bs, GoodBatches(bs), bs # <<>>
  PROVE  GoodBatch(Head(bs)) /\ GoodBatches(Tail(bs))
<1>1. /\ bs \in Seq(Seq(Regions)) /\ Head(bs) = bs[1]
      /\ Tail(bs) \in Seq(Seq(Regions)) /\ Drops(Tail(bs), bs)
  BY Dropped DEF GoodBatches
<1>2. 1 \in 1 .. Len(bs)
  BY <1>1 DEF Drops
<1>3. GoodBatch(Head(bs))
  BY <1>1, <1>2 DEF GoodBatches
<1>4. \A i \in 1 .. Len(Tail(bs)) : GoodBatch(Tail(bs)[i])
  BY <1>1 DEF Drops, GoodBatches
<1> QED
  BY <1>1, <1>3, <1>4 DEF GoodBatches

-----------------------------------------------------------------------------
(* Tokens *)

Queues == \A n \in Node : Covered(qp[n]) /\ UnlockOrder(qp[n])

\* What a step does to a coroutine that it is not about.
Keeps(d) == (Quiet(d) => Quiet(d)') /\ (Token(d) => Token(d)')

\* Post: c, which had no token, has one in a queue pair.
LEMMA PostToken ==
  ASSUME Typed, Queues, NEW c \in Coro, NEW b, GoodBatch(b), Quiet(c), Post(c, b),
         cq' = cq, busy' = busy
  PROVE  /\ qp' \in [Node -> Seq(Reqs)] /\ Queues'
         /\ Token(c)' /\ \A d \in Coro \ {c} : Keeps(d)
<1>1. PICK n \in Node : n = b[1].node
  <2>1. b[1] \in Regions
    BY DEF GoodBatch
  <2> QED
    BY <2>1 DEF Regions
<1>2. PICK r : r = qp[n] \o Requests(c, b)  BY Zenon
<1>3. qp \in [Node -> Seq(Reqs)] /\ qp[n] \in Seq(Reqs)
  BY DEF Typed
<1>4. qp' = [qp EXCEPT ![n] = r]
  BY <1>1, <1>2 DEF Post
<1>5. NoSig(c, qp[n])
  BY DEF Quiet, NoSigs
<1>6. NoReq(c, qp[n])
  BY <1>3, <1>5, Silent DEF Queues
<1>7. r \in Seq(Reqs) /\ Posted(c, qp[n], r)
  BY <1>2, <1>3, <1>6, PostedQueue DEF Queues
<1>8. qp'[n] = r /\ \A m \in Node \ {n} : qp'[m] = qp[m]
  BY <1>3, <1>4
<1>9. qp' \in [Node -> Seq(Reqs)]
  BY <1>3, <1>4, <1>7
<1>10. Queues'
  BY <1>7, <1>8 DEF Queues, Posted
<1>11. Token(c)'
  <2>1. OneSig(c, qp'[n])
    BY <1>7, <1>8 DEF Posted
  <2>2. \A m \in Node \ {n} : NoSig(c, qp'[m])
    BY <1>8 DEF Quiet, NoSigs
  <2>3. NoneOf(c, cq') /\ NoneOf(c, busy')
    BY DEF Quiet
  <2> QED
    BY <2>1, <2>2, <2>3 DEF Token, TokenQp
<1>12. ASSUME NEW d \in Coro \ {c}
       PROVE  Keeps(d)
  <2>1. \A m \in Node : /\ NoSig(d, qp[m]) => NoSig(d, qp'[m])
                        /\ OneSig(d, qp[m]) => OneSig(d, qp'[m])
    BY <1>7, <1>8 DEF Posted
  <2>2. NoSigs(d) => NoSigs(d)'
    BY <2>1 DEF NoSigs
  <2>3. TokenQp(d) => TokenQp(d)'
    BY <2>1 DEF TokenQp
  <2>4. Quiet(d) => Quiet(d)'
    BY <2>2 DEF Quiet
  <2>5. TokenCq(d) => TokenCq(d)'
    BY <2>2 DEF TokenCq
  <2>6. TokenBusy(d) => TokenBusy(d)'
    BY <2>2 DEF TokenBusy
  <2> QED
    BY <2>3, <2>4, <2>5, <2>6 DEF Keeps, Token
<1> QED
  BY <1>9, <1>10, <1>11, <1>12

\* busy_waiting_queue.push(c) of a coroutine without token.
LEMMA PushToken ==
  ASSUME Typed, NEW c \in Coro, Quiet(c), busy' = Append(busy, c), qp' = qp, cq' = cq
  PROVE  busy' \in Seq(Coro) /\ Token(c)' /\ \A d \in Coro \ {c} : Keeps(d)
<1>1. busy' \in Seq(Coro) /\ Pushed(busy, c, busy')
  BY PushedQueue DEF Typed
<1>2. Token(c)'
  <2>1. NoSigs(c)' /\ NoneOf(c, cq') /\ OneOf(c, busy')
    BY <1>1 DEF Quiet, NoSigs, Pushed
  <2> QED
    BY <2>1 DEF Token, TokenBusy
<1>3. ASSUME NEW d \in Coro \ {c}
      PROVE  Keeps(d)
  <2>1. /\ NoneOf(d, busy) => NoneOf(d, busy')
        /\ OneOf(d, busy) => OneOf(d, busy')
    BY <1>1 DEF Pushed
  <2> QED
    BY <2>1 DEF Keeps, Token, Quiet, TokenQp, TokenCq, TokenBusy, NoSigs
<1> QED
  BY <1>1, <1>2, <1>3

\* The oldest completion is that of a coroutine's only token, which is gone.
LEMMA CqToken ==
  ASSUME Typed, \A d \in Coro : Woken(d), NextCompletion, NEW c, c = Head(cq),
         qp' = qp, busy' = busy
  PROVE  /\ cq' \in Seq(Coro) /\ c \in Coro /\ Quiet(c)' /\ pc[c] \in Yielded
         /\ \A d \in Coro \ {c} : Keeps(d)
<1>2. cq # <<>> /\ cq' = Tail(cq)
  BY DEF NextCompletion
<1>3. cq' \in Seq(Coro) /\ c \in Coro /\ ~NoneOf(c, cq) /\ Popped(cq, cq')
  BY <1>2, PoppedQueue DEF Typed
<1>4. TokenCq(c) /\ pc[c] \in Yielded
  BY <1>3 DEF Woken, Token, Quiet, TokenQp, TokenBusy
<1>5. Quiet(c)'
  BY <1>3, <1>4 DEF TokenCq, Popped, Quiet, NoSigs
<1>6. ASSUME NEW d \in Coro \ {c}
      PROVE  Keeps(d)
  <2>1. /\ NoneOf(d, cq) => NoneOf(d, cq')
        /\ OneOf(d, cq) => OneOf(d, cq')
    BY <1>3 DEF Popped
  <2> QED
    BY <2>1 DEF Keeps, Token, Quiet, TokenQp, TokenCq, TokenBusy, NoSigs
<1> QED
  BY <1>3, <1>4, <1>5, <1>6

\* ... and the same of the first busy entry.
LEMMA BusyToken ==
  ASSUME Typed, \A d \in Coro : Woken(d), busy # <<>>, busy' = Tail(busy),
         NEW c, c = Head(busy), qp' = qp, cq' = cq
  PROVE  /\ busy' \in Seq(Coro) /\ c \in Coro /\ Quiet(c)'
         /\ \A d \in Coro \ {c} : Keeps(d)
<1>3. busy' \in Seq(Coro) /\ c \in Coro /\ ~NoneOf(c, busy) /\ Popped(busy, busy')
  BY PoppedQueue DEF Typed
<1>4. TokenBusy(c)
  BY <1>3 DEF Woken, Token, Quiet, TokenQp, TokenCq
<1>5. Quiet(c)'
  BY <1>3, <1>4 DEF TokenBusy, Popped, Quiet, NoSigs
<1>6. ASSUME NEW d \in Coro \ {c}
      PROVE  Keeps(d)
  <2>1. /\ NoneOf(d, busy) => NoneOf(d, busy')
        /\ OneOf(d, busy) => OneOf(d, busy')
    BY <1>3 DEF Popped
  <2> QED
    BY <2>1 DEF Keeps, Token, Quiet, TokenQp, TokenCq, TokenBusy, NoSigs
<1> QED
  BY <1>3, <1>5, <1>6

\* A spinning coroutine passes another one's completion on.
LEMMA PassToken ==
  ASSUME Typed, \A d \in Coro : Woken(d), NextCompletion, busy' = Append(busy, Head(cq)),
         qp' = qp
  PROVE  cq' \in Seq(Coro) /\ busy' \in Seq(Coro) /\ \A d \in Coro : Keeps(d)
<1>1. PICK c : c = Head(cq)  BY Zenon
<1>2. cq # <<>> /\ cq' = Tail(cq)
  BY DEF NextCompletion
<1>3. cq' \in Seq(Coro) /\ c \in Coro /\ ~NoneOf(c, cq) /\ Popped(cq, cq')
  BY <1>1, <1>2, PoppedQueue DEF Typed
<1>4. busy' \in Seq(Coro) /\ Pushed(busy, c, busy')
  BY <1>1, <1>3, PushedQueue DEF Typed
<1>5. TokenCq(c)
  BY <1>3 DEF Woken, Token, Quiet, TokenQp, TokenBusy
<1>6. TokenBusy(c)'
  BY <1>1, <1>3, <1>4, <1>5 DEF TokenCq, TokenBusy, NoSigs, Popped, Pushed
<1>7. Keeps(c)
  BY <1>3, <1>6 DEF Keeps, Token, Quiet
<1>8. ASSUME NEW d \in Coro \ {c}
      PROVE  Keeps(d)
  <2>1. /\ NoneOf(d, cq) => NoneOf(d, cq')
        /\ OneOf(d, cq) => OneOf(d, cq')
    BY <1>1, <1>3 DEF Popped
  <2>2. /\ NoneOf(d, busy) => NoneOf(d, busy')
        /\ OneOf(d, busy) => OneOf(d, busy')
    BY <1>4 DEF Pushed
  <2> QED
    BY <2>1, <2>2 DEF Keeps, Token, Quiet, TokenQp, TokenCq, TokenBusy, NoSigs
<1> QED
  BY <1>3, <1>4, <1>7, <1>8

\* A step that leaves the queues alone.
LEMMA SameToken ==
  ASSUME qp' = qp, cq' = cq, busy' = busy
  PROVE  (Queues => Queues') /\ \A d : Keeps(d)
BY DEF Queues, Keeps, Token, Quiet, TokenQp, TokenCq, TokenBusy, NoSigs

\* The card executes a request: a signalled one turns into a completion.
LEMMA ExecuteToken ==
  ASSUME Typed, Queues, \A d \in Coro : Woken(d), NEW n \in Node, Execute(n)
  PROVE  /\ qp' \in [Node -> Seq(Reqs)] /\ cq' \in Seq(Coro) /\ Queues'
         /\ \A d \in Coro : Keeps(d)
<1>1. PICK q : q = qp[n]  BY Zenon
<1>2. PICK r : r = Tail(q)  BY Zenon
<1>3. PICK c : c = Head(q).coro  BY Zenon
<1>4. qp \in [Node -> Seq(Reqs)] /\ q \in Seq(Reqs) /\ q # <<>>
  BY <1>1 DEF Typed, Execute
<1>5. r \in Seq(Reqs) /\ Executed(q, r)
  BY <1>2, <1>4, ExecutedQueue
<1>6. Head(q) = q[1] /\ Head(q) \in Reqs
  BY <1>4, Dropped
<1>7. c \in Coro
  BY <1>3, <1>6 DEF Reqs
<1>8. qp' = [qp EXCEPT ![n] = r] /\ busy' = busy
  BY <1>1, <1>2 DEF Execute
<1>9. qp'[n] = r /\ \A m \in Node \ {n} : qp'[m] = qp[m]
  BY <1>4, <1>8
<1>10. qp' \in [Node -> Seq(Reqs)]
  BY <1>4, <1>5, <1>8
<1>11. Queues'
  BY <1>1, <1>5, <1>9 DEF Queues, Executed
<1>12. \A d : NoSigs(d) => NoSigs(d)'
  BY <1>1, <1>5, <1>9 DEF NoSigs, Executed
<1>13. ASSUME NEW d, ~Sig(d, q, 1), TokenQp(d)
       PROVE  \E m \in Node : OneSig(d, qp'[m]) /\ \A k \in Node \ {m} : NoSig(d, qp'[k])
  <2>1. PICK m \in Node : OneSig(d, qp[m]) /\ \A k \in Node \ {m} : NoSig(d, qp[k])
    BY <1>13 DEF TokenQp
  <2>2. OneSig(d, qp'[m])
    BY <2>1, <1>1, <1>5, <1>9, <1>13 DEF Executed
  <2>3. \A k \in Node \ {m} : NoSig(d, qp'[k])
    BY <2>1, <1>1, <1>5, <1>9 DEF Executed
  <2> QED
    BY <2>2, <2>3
<1>14. CASE ~Head(q).signal
  <2>1. cq' = cq
    BY <1>1, <1>14 DEF Execute
  <2>2. \A d : ~Sig(d, q, 1)
    BY <1>6, <1>14 DEF Sig
  <2>3. ASSUME NEW d \in Coro
        PROVE  Keeps(d)
    <3>1. TokenQp(d) => TokenQp(d)'
      BY <2>1, <2>2, <1>8, <1>13 DEF TokenQp
    <3>2. Quiet(d) => Quiet(d)'
      BY <2>1, <1>8, <1>12 DEF Quiet
    <3>3. TokenCq(d) => TokenCq(d)'
      BY <2>1, <1>8, <1>12 DEF TokenCq
    <3>4. TokenBusy(d) => TokenBusy(d)'
      BY <2>1, <1>8, <1>12 DEF TokenBusy
    <3> QED
      BY <3>1, <3>2, <3>3, <3>4 DEF Keeps, Token
  <2>4. cq' \in Seq(Coro)
    BY <2>1 DEF Typed
  <2> QED
    BY <2>3, <2>4, <1>10, <1>11
<1>15. CASE Head(q).signal
  <2>1. cq' = Append(cq, c)
    BY <1>1, <1>3, <1>15 DEF Execute
  <2>2. cq' \in Seq(Coro) /\ Pushed(cq, c, cq')
    BY <2>1, <1>7, PushedQueue DEF Typed
  <2>3. Sig(c, q, 1) /\ \A d : d # c => ~Sig(d, q, 1)
    BY <1>3, <1>6, <1>15 DEF Sig
  <2>4. 1 \in 1 .. Len(q)
    BY <1>4
  <2>5. ~NoSig(c, q)
    BY <2>3, <2>4 DEF NoSig
  <2>6. TokenQp(c)
    BY <2>5, <1>1, <1>7 DEF Woken, Token, Quiet, TokenCq, TokenBusy, NoSigs
  <2>7. OneSig(c, q) /\ \A k \in Node \ {n} : NoSig(c, qp[k])
    BY <2>5, <2>6, <1>1 DEF TokenQp
  <2>8. NoSigs(c)'
    BY <2>3, <2>7, <1>5, <1>9 DEF NoSigs, Executed
  <2>9. TokenCq(c)'
    BY <2>2, <2>6, <2>8, <1>8 DEF TokenQp, TokenCq, Pushed
  <2>10. Keeps(c)
    BY <2>5, <2>9, <1>1 DEF Keeps, Token, Quiet, NoSigs
  <2>11. ASSUME NEW d \in Coro \ {c}
         PROVE  Keeps(d)
    <3>1. /\ NoneOf(d, cq) => NoneOf(d, cq')
          /\ OneOf(d, cq) => OneOf(d, cq')
      BY <2>2 DEF Pushed
    <3>2. TokenQp(d) => TokenQp(d)'
      BY <3>1, <2>3, <1>8, <1>13 DEF TokenQp
    <3>3. Quiet(d) => Quiet(d)'
      BY <3>1, <1>8, <1>12 DEF Quiet
    <3>4. TokenCq(d) => TokenCq(d)'
      BY <3>1, <1>8, <1>12 DEF TokenCq
    <3>5. TokenBusy(d) => TokenBusy(d)'
      BY <3>1, <1>8, <1>12 DEF TokenBusy
    <3> QED
      BY <3>2, <3>3, <3>4, <3>5 DEF Keeps, Token
  <2> QED
    BY <2>2, <2>10, <2>11, <1>10, <1>11
<1> QED
  BY <1>14, <1>15

-----------------------------------------------------------------------------
(* Threads with coroutines *)

Sunk == Typed /\ Queues /\ Sink /\ \A c \in Coro : Woken(c)

\* One coroutine goes from place to place, the others stay.
LEMMA WokenOne ==
  ASSUME Typed, \A d \in Coro : Woken(d), NEW c \in Coro, NEW w \in Places,
         pc' = [pc EXCEPT ![c] = w], \A d \in Coro \ {c} : Keeps(d),
         IF w \in Yielded THEN Token(c)' ELSE Quiet(c)'
  PROVE  pc' \in [Coro -> Places] /\ \A d \in Coro : Woken(d)'
<1>1. pc \in [Coro -> Places]
  BY DEF Typed
<1>2. pc' \in [Coro -> Places] /\ pc'[c] = w
  BY <1>1
<1>3. \A d \in Coro \ {c} : pc'[d] = pc[d]
  BY <1>1
<1>4. Woken(c)'
  BY <1>2 DEF Woken
<1>5. \A d \in Coro \ {c} : Woken(d)'
  BY <1>3 DEF Woken, Keeps
<1> QED
  BY <1>2, <1>4, <1>5
LEMMA WokenAll ==
  ASSUME \A d \in Coro : Woken(d), pc' = pc, \A d \in Coro : Keeps(d)
  PROVE  \A d \in Coro : Woken(d)'
BY DEF Woken, Keeps

\* A coroutine that posts its next batch and waits for it.
LEMMA PostAndWait ==
  ASSUME Sunk, NEW c \in Coro, pc[c] = "run", NEW b, GoodBatch(b), Post(c, b),
         NEW w \in {"wait", "spin"}, pc' = [pc EXCEPT ![c] = w],
         NEW bs, GoodBatches(bs), todo' = [todo EXCEPT ![c] = bs] \/ todo' = todo,
         cur' \in {cur, None}, cq' = cq, busy' = busy, phase' = phase
  PROVE  Sunk'
<1>1. Typed /\ Queues /\ Sink /\ \A d \in Coro : Woken(d)
  BY DEF Sunk
<1>2. Quiet(c)
  BY <1>1 DEF Woken, Yielded
<1>3. /\ qp' \in [Node -> Seq(Reqs)] /\ Queues'
      /\ Token(c)' /\ \A d \in Coro \ {c} : Keeps(d)
  BY <1>1, <1>2, PostToken
<1>4. w \in Yielded /\ w \in Places
  BY DEF Yielded, Places
<1>5. pc' \in [Coro -> Places] /\ \A d \in Coro : Woken(d)'
  BY <1>1, <1>3, <1>4, WokenOne
<1>6. DOMAIN todo' = Coro /\ \A d \in Coro : GoodBatches(todo'[d])
  BY <1>1 DEF Typed
<1>7. Typed'
  BY <1>1, <1>3, <1>5, <1>6 DEF Typed
<1> QED
  BY <1>1, <1>3, <1>5, <1>7 DEF Sunk, Sink

LEMMA CallSunk ==
  ASSUME Sunk, NEW c \in Coro, Call(c)
  PROVE  Sunk'
<1>1. PICK bs \in Calls :
          CallWithSink(c, bs) \/ CallNoSink(c, bs) \/ CallSpinning(c, bs)
  BY DEF Call
<1>2. /\ cur = c /\ pc[c] = "run"
      /\ cq' = cq /\ busy' = busy /\ phase' = phase
  BY DEF Call
<1>3. GoodBatches(bs) /\ bs # <<>>
  BY CallsGood DEF GoodCall
<1>4. GoodBatch(Head(bs)) /\ GoodBatches(Tail(bs))
  BY <1>3, BatchesSplit
<1>5. CASE CallWithSink(c, bs)
  <2>1. /\ Post(c, Head(bs)) /\ todo' = [todo EXCEPT ![c] = Tail(bs)]
        /\ pc' = [pc EXCEPT ![c] = "wait"] /\ cur' = None
    BY <1>5 DEF CallWithSink, Yield
  <2> QED
    BY <1>2, <1>4, <2>1, PostAndWait
<1>6. CASE CallSpinning(c, bs)
  <2>1. /\ Post(c, Head(bs)) /\ todo' = todo
        /\ pc' = [pc EXCEPT ![c] = "spin"] /\ cur' = cur
    BY <1>6 DEF CallSpinning
  <2> QED
    BY <1>2, <1>4, <2>1, PostAndWait
<1>7. CASE CallNoSink(c, bs)
  BY <1>7 DEF CallNoSink, Sunk
<1> QED
  BY <1>1, <1>5, <1>6, <1>7

LEMMA PostNextSunk ==
  ASSUME Sunk, NEW c \in Coro, PostNext(c)
  PROVE  Sunk'
<1>1. /\ pc[c] = "run" /\ todo[c] # <<>> /\ Post(c, Head(todo[c]))
      /\ todo' = [todo EXCEPT ![c] = Tail(todo[c])]
      /\ pc' = [pc EXCEPT ![c] = "wait"] /\ cur' = None
      /\ cq' = cq /\ busy' = busy /\ phase' = phase
  BY DEF PostNext, Yield
<1>2. GoodBatches(todo[c])
  BY DEF Sunk, Typed
<1>3. PICK bs : bs = todo[c]  BY Zenon
<1>4. GoodBatch(Head(bs)) /\ GoodBatches(Tail(bs))
  BY <1>1, <1>2, <1>3, BatchesSplit
<1> QED
  BY <1>1, <1>3, <1>4, PostAndWait

\* A coroutine that yields through the busy queue.
LEMMA PushAndWait ==
  ASSUME Sunk, NEW c \in Coro, pc[c] = "run", busy' = Append(busy, c),
         NEW w \in {"wait", "rest"}, pc' = [pc EXCEPT ![c] = w],
         NEW bs, GoodBatches(bs), todo' = [todo EXCEPT ![c] = bs] \/ todo' = todo,
         cur' = None, qp' = qp, cq' = cq, phase' = phase
  PROVE  Sunk'
<1>1. Typed /\ Queues /\ Sink /\ \A d \in Coro : Woken(d)
  BY DEF Sunk
<1>2. Quiet(c)
  BY <1>1 DEF Woken, Yielded
<1>3. busy' \in Seq(Coro) /\ Token(c)' /\ \A d \in Coro \ {c} : Keeps(d)
  BY <1>1, <1>2, PushToken
<1>4. w \in Yielded /\ w \in Places
  BY DEF Yielded, Places
<1>5. pc' \in [Coro -> Places] /\ \A d \in Coro : Woken(d)'
  BY <1>1, <1>3, <1>4, WokenOne
<1>6. DOMAIN todo' = Coro /\ \A d \in Coro : GoodBatches(todo'[d])
  BY <1>1 DEF Typed
<1>7. Queues'
  BY <1>1 DEF Queues
<1>8. Typed'
  BY <1>1, <1>3, <1>5, <1>6 DEF Typed
<1> QED
  BY <1>1, <1>5, <1>7, <1>8 DEF Sunk, Sink

LEMMA LockRetrySunk ==
  ASSUME Sunk, NEW c \in Coro, LockRetry(c)
  PROVE  Sunk'
<1>1. /\ pc[c] = "run" /\ busy' = Append(busy, c)
      /\ todo' = [todo EXCEPT ![c] = last[c]]
      /\ pc' = [pc EXCEPT ![c] = "wait"] /\ cur' = None
      /\ qp' = qp /\ cq' = cq /\ phase' = phase
  BY DEF LockRetry, Yield, nicVars
<1>2. GoodBatches(last[c])
  BY OneGood DEF LockRetry, CompareAndSwapMask, What, GoodCall
<1>3. PICK bs : bs = last[c]  BY Zenon
<1> QED
  BY <1>1, <1>2, <1>3, PushAndWait

LEMMA OpDoneSunk ==
  ASSUME Sunk, NEW c \in Coro, OpDone(c)
  PROVE  Sunk'
<1>1. /\ pc[c] = "run" /\ busy' = Append(busy, c) /\ todo' = todo
      /\ pc' = [pc EXCEPT ![c] = "rest"] /\ cur' = None
      /\ qp' = qp /\ cq' = cq /\ phase' = phase
  BY DEF OpDone, Yield, nicVars
<1>2. PICK bs : bs = todo[c]  BY Zenon
<1>3. GoodBatches(bs)
  BY <1>2 DEF Sunk, Typed
<1> QED
  BY <1>1, <1>3, PushAndWait

LEMMA SpinOwnSunk ==
  ASSUME Sunk, NEW c \in Coro, SpinOwn(c)
  PROVE  Sunk'
<1>1. Typed /\ Queues /\ Sink /\ \A d \in Coro : Woken(d)
  BY DEF Sunk
<1>2. /\ NextCompletion /\ c = Head(cq) /\ pc' = [pc EXCEPT ![c] = "run"]
      /\ cur' = cur /\ todo' = todo /\ qp' = qp /\ busy' = busy /\ phase' = phase
  BY DEF SpinOwn
<1>3. cq' \in Seq(Coro) /\ Quiet(c)' /\ \A d \in Coro \ {c} : Keeps(d)
  BY <1>1, <1>2, CqToken
<1>4. "run" \notin Yielded /\ "run" \in Places
  BY DEF Yielded, Places
<1>5. pc' \in [Coro -> Places] /\ \A d \in Coro : Woken(d)'
  BY <1>1, <1>2, <1>3, <1>4, WokenOne
<1>6. Typed' /\ Queues'
  BY <1>1, <1>2, <1>3, <1>5 DEF Typed, Queues
<1> QED
  BY <1>1, <1>2, <1>5, <1>6 DEF Sunk, Sink

LEMMA SpinOtherSunk ==
  ASSUME Sunk, NEW c \in Coro, SpinOther(c)
  PROVE  Sunk'
<1>1. Typed /\ Queues /\ Sink /\ \A d \in Coro : Woken(d)
  BY DEF Sunk
<1>2. /\ NextCompletion /\ busy' = Append(busy, Head(cq)) /\ pc' = pc
      /\ cur' = cur /\ todo' = todo /\ qp' = qp /\ phase' = phase
  BY DEF SpinOther, coroVars
<1>3. cq' \in Seq(Coro) /\ busy' \in Seq(Coro) /\ \A d \in Coro : Keeps(d)
  BY <1>1, <1>2, PassToken
<1>4. \A d \in Coro : Woken(d)'
  BY <1>1, <1>2, <1>3, WokenAll
<1>5. Typed' /\ Queues'
  BY <1>1, <1>2, <1>3 DEF Typed, Queues
<1> QED
  BY <1>1, <1>2, <1>4, <1>5 DEF Sunk, Sink

LEMMA ExecuteSunk ==
  ASSUME Sunk, NEW n \in Node, Execute(n)
  PROVE  Sunk'
<1>1. Typed /\ Queues /\ Sink /\ \A d \in Coro : Woken(d)
  BY DEF Sunk
<1>2. pc' = pc /\ cur' = cur /\ todo' = todo /\ busy' = busy /\ phase' = phase
  BY DEF Execute, coroVars
<1>3. /\ qp' \in [Node -> Seq(Reqs)] /\ cq' \in Seq(Coro) /\ Queues'
      /\ \A d \in Coro : Keeps(d)
  BY <1>1, ExecuteToken
<1>4. \A d \in Coro : Woken(d)'
  BY <1>1, <1>2, <1>3, WokenAll
<1>5. Typed'
  BY <1>1, <1>2, <1>3 DEF Typed
<1> QED
  BY <1>1, <1>2, <1>3, <1>4, <1>5 DEF Sunk, Sink

\* The queues and the coroutines stay as they are.
LEMMA IdleSunk ==
  ASSUME Sunk, pc' = pc, cur' = cur, todo' = todo, qp' = qp, cq' = cq, busy' = busy,
         phase' \in {"start", "cq", "busy", "exit"}
  PROVE  Sunk'
<1>1. Typed /\ Queues /\ Sink /\ \A d \in Coro : Woken(d)
  BY DEF Sunk
<1>2. Queues' /\ \A d \in Coro : Keeps(d)
  BY <1>1, SameToken
<1>3. \A d \in Coro : Woken(d)'
  BY <1>1, <1>2, WokenAll
<1>4. Typed' /\ Sink'
  BY <1>1 DEF Typed, Sink
<1> QED
  BY <1>2, <1>3, <1>4 DEF Sunk

\* Resume of a coroutine whose token was taken.
LEMMA ResumeSunk ==
  ASSUME Sunk, NEW c \in Coro, Resume(c), Quiet(c)', \A d \in Coro \ {c} : Keeps(d),
         qp' = qp, cq' \in Seq(Coro), busy' \in Seq(Coro),
         phase' \in {"start", "cq", "busy", "exit"}
  PROVE  Sunk'
<1>1. Typed /\ Queues /\ Sink /\ \A d \in Coro : Woken(d)
  BY DEF Sunk
<1>2. PICK w \in {"done", "run"} : pc' = [pc EXCEPT ![c] = w]
  BY DEF Resume
<1>3. w \notin Yielded /\ w \in Places
  BY DEF Yielded, Places
<1>4. pc' \in [Coro -> Places] /\ \A d \in Coro : Woken(d)'
  BY <1>1, <1>2, <1>3, WokenOne
<1>5. cur' \in Coro \cup {None} /\ todo' = todo
  BY DEF Resume
<1>6. Typed' /\ Queues' /\ Sink'
  BY <1>1, <1>4, <1>5 DEF Typed, Queues, Sink
<1> QED
  BY <1>4, <1>6 DEF Sunk

\* A set of natural numbers has a least one.
LEMMA Least ==
  ASSUME NEW S \in SUBSET Nat, S # {}
  PROVE  \E c \in S : \A d \in S : c <= d
<1> DEFINE Less == {p \in Nat \X Nat : p[1] < p[2]}
<1>1. IsWellFoundedOn(Less, Nat)
  BY NatLessThanWellFounded DEF OpToRel
<1> HIDE DEF Less
<1>2. PICK c \in S : \A d \in S : ~(<<d, c>> \in Less)
  BY <1>1, WFMin, Zenon
<1>3. ASSUME NEW d \in S
      PROVE  c <= d
  <2>1. c \in Nat /\ d \in Nat
    OBVIOUS
  <2>2. d < c => <<d, c>> \in Less
    BY <2>1 DEF Less
  <2> QED
    BY <1>2, <2>1, <2>2
<1> QED
  BY <1>3

LEMMA StartWorkerSunk ==
  ASSUME Sunk, StartWorker
  PROVE  Sunk'
<1> DEFINE fresh == {c \in Coro : pc[c] = "new"}
<1>1. cur = None /\ phase = "start" /\ qp' = qp /\ cq' = cq /\ busy' = busy
  BY DEF StartWorker, nicVars
<1>2. CASE fresh = {}
  <2>1. phase' = "cq" /\ cur' = cur /\ pc' = pc /\ todo' = todo
    BY <1>2 DEF StartWorker, coroVars
  <2> QED
    BY <1>1, <2>1, IdleSunk
<1>3. CASE fresh # {}
  <2>1. \E c \in fresh : \A d \in fresh : c <= d
    <3>1. fresh \in SUBSET Nat
      BY VerbsAssumption
    <3> QED
      BY <3>1, <1>3, Least
  <2>2. PICK c : c = CHOOSE x \in fresh : \A d \in fresh : x <= d
    BY Zenon
  <2>3. c \in fresh
    BY <2>1, <2>2
  <2>4. Resume(c) /\ phase' = phase
    BY <1>3, <2>2 DEF StartWorker
  <2>5. Quiet(c)
    BY <2>3 DEF Sunk, Woken, Yielded
  <2>6. \A d : Keeps(d)
    BY <1>1, SameToken
  <2>7. Quiet(c)' /\ c \in Coro
    BY <2>3, <2>5, <2>6 DEF Keeps
  <2>8. cq' \in Seq(Coro) /\ busy' \in Seq(Coro)
    BY <1>1 DEF Sunk, Typed
  <2> QED
    BY <1>1, <2>4, <2>6, <2>7, <2>8, ResumeSunk
<1> QED
  BY <1>2, <1>3

LEMMA PollOnceSunk ==
  ASSUME Sunk, PollOnce
  PROVE  Sunk'
<1>1. qp' = qp /\ busy' = busy
  BY DEF PollOnce
<1>2. CASE stop \/ cq = <<>>
  <2>1. /\ phase' \in {"exit", "busy"} /\ cur' = cur /\ pc' = pc /\ todo' = todo
        /\ cq' = cq
    BY <1>2 DEF PollOnce, coroVars
  <2> QED
    BY <1>1, <2>1, IdleSunk
<1>3. CASE ~(stop \/ cq = <<>>)
  <2>1. phase' = "busy" /\ NextCompletion /\ Resume(Head(cq))
    BY <1>3 DEF PollOnce
  <2>2. PICK c : c = Head(cq)  BY Zenon
  <2>3. cq' \in Seq(Coro) /\ c \in Coro /\ Quiet(c)' /\ \A d \in Coro \ {c} : Keeps(d)
    BY <1>1, <2>1, <2>2, CqToken DEF Sunk
  <2>4. busy' \in Seq(Coro) /\ Resume(c)
    BY <1>1, <2>1, <2>2 DEF Sunk, Typed
  <2> QED
    BY <1>1, <2>1, <2>3, <2>4, ResumeSunk
<1> QED
  BY <1>2, <1>3

LEMMA PopBusySunk ==
  ASSUME Sunk, PopBusy
  PROVE  Sunk'
<1>1. qp' = qp /\ cq' = cq /\ phase' = "cq"
  BY DEF PopBusy, nicVars
<1>2. CASE busy = <<>>
  <2>1. cur' = cur /\ pc' = pc /\ todo' = todo /\ busy' = busy
    BY <1>2 DEF PopBusy, coroVars
  <2> QED
    BY <1>1, <2>1, IdleSunk
<1>3. CASE busy # <<>>
  <2>1. Resume(Head(busy)) /\ busy' = Tail(busy)
    BY <1>3 DEF PopBusy
  <2>2. PICK c : c = Head(busy)  BY Zenon
  <2>3. busy' \in Seq(Coro) /\ c \in Coro /\ Quiet(c)' /\ \A d \in Coro \ {c} : Keeps(d)
    BY <1>1, <1>3, <2>1, <2>2, BusyToken DEF Sunk
  <2>4. cq' \in Seq(Coro) /\ Resume(c)
    BY <1>1, <2>1, <2>2 DEF Sunk, Typed
  <2> QED
    BY <1>1, <2>3, <2>4, ResumeSunk
<1> QED
  BY <1>2, <1>3

\* Every step of a thread with coroutines.
LEMMA NextSunk ==
  ASSUME Sunk, [Next]_vars
  PROVE  Sunk'
<1>1. ASSUME NEW c \in Coro, Worker(c)
      PROVE  Sunk'
  BY <1>1, CallSunk, SpinOwnSunk, SpinOtherSunk, PostNextSunk, LockRetrySunk, OpDoneSunk
     DEF Worker
<1>2. CASE PollCQ
  BY <1>2 DEF PollCQ, Sunk
<1>3. CASE Scheduler
  BY <1>3, StartWorkerSunk, PollOnceSunk, PopBusySunk DEF Scheduler
<1>4. ASSUME NEW n \in Node, Execute(n)
      PROVE  Sunk'
  BY <1>4, ExecuteSunk
<1>5. CASE Stop \/ Finished \/ UNCHANGED vars
  <2>1. /\ pc' = pc /\ cur' = cur /\ todo' = todo /\ qp' = qp /\ cq' = cq
        /\ busy' = busy /\ phase' = phase
    BY <1>5 DEF Stop, Finished, vars, coroVars, nicVars
  <2>2. phase \in {"start", "cq", "busy", "exit"}
    BY DEF Sunk, Typed, Sink
  <2> QED
    BY <2>1, <2>2, IdleSunk
<1> QED
  BY <1>1, <1>2, <1>3, <1>4, <1>5 DEF Next

-----------------------------------------------------------------------------
(* Threads without coroutines *)

Alone == Typed /\ Queues /\ ~Sink /\ Polled

\* A set of n numbered things.
LEMMA Counted ==
  ASSUME NEW n \in Nat, NEW f, DOMAIN f = 1 .. n,
         \A i, j \in 1 .. n : f[i] = f[j] => i = j,
         NEW S, S = {f[i] : i \in 1 .. n}, f \in [1 .. n -> S]
  PROVE  IsFiniteSet(S) /\ Cardinality(S) = n
<1>1. f \in Bijection(1 .. n, S)
  BY DEF Bijection, Injection, Surjection, IsInjective
<1>2. ExistsBijection(1 .. n, S)
  BY <1>1 DEF ExistsBijection
<1>3. IsFiniteSet(1 .. n) /\ Cardinality(1 .. n) = n
  BY FS_Interval
<1> QED
  BY <1>2, <1>3, FS_Bijection

\* Nothing is on its way while the thread runs.
LEMMA AloneIdle ==
  ASSUME Alone, pc[0] = "run"
  PROVE  need = 0 /\ SigNodes = {} /\ cq = <<>>
<1>1. /\ need = 0 /\ IsFiniteSet(SigNodes) /\ need = Cardinality(SigNodes) + Len(cq)
      /\ cq \in Seq(Coro)
  BY DEF Alone, Polled, Typed
<1>2. Cardinality(SigNodes) \in Nat /\ Len(cq) \in Nat
  BY <1>1, FS_CardinalityType
<1>3. Cardinality(SigNodes) = 0 /\ Len(cq) = 0
  BY <1>1, <1>2
<1>4. SigNodes = {}
  BY <1>1, <1>3, FS_EmptySet
<1>5. cq = <<>>
  BY <1>1, <1>3
<1> QED
  BY <1>1, <1>4, <1>5

LEMMA CallAlone ==
  ASSUME Alone, NEW c \in Coro, Call(c)
  PROVE  Alone'
<1>0. Typed /\ Queues /\ ~Sink /\ Polled
  BY DEF Alone
<1>1. PICK bs \in Calls : CallNoSink(c, bs)
  BY <1>0 DEF Call, CallWithSink, CallSpinning
<1>2. /\ c = 0 /\ pc[0] = "run" /\ cq' = cq /\ busy' = busy /\ phase' = phase
      /\ cur' = cur /\ todo' = todo /\ pc' = [pc EXCEPT ![0] = "poll"] /\ need' = Len(bs)
  BY <1>0, <1>1 DEF Call, CallNoSink, Polled
<1>3. need = 0 /\ SigNodes = {} /\ cq = <<>>
  BY <1>2, AloneIdle
<1>4. PICK l \in Nat : l = Len(bs) /\ DOMAIN bs = 1 .. l
  BY CallsGood DEF GoodCall, GoodBatches
<1>5. \A i \in 1 .. l : GoodBatch(bs[i])
  BY <1>4, CallsGood DEF GoodCall, GoodBatches
<1>6. \A i, j \in 1 .. l : bs[i][1].node = bs[j][1].node => i = j
  BY <1>4, CallsGood DEF GoodCall
<1>7. PICK f : f = [i \in 1 .. l |-> bs[i][1].node]  BY Zenon
<1>8. PICK S : S = {f[i] : i \in 1 .. l}  BY Zenon
<1>9. \A i \in 1 .. l : f[i] = bs[i][1].node /\ f[i] \in Node
  <2> TAKE i \in 1 .. l
  <2>1. bs[i] \in Seq(Regions) /\ bs[i] # <<>>
    BY <1>5 DEF GoodBatch
  <2>2. bs[i][1] \in Regions
    BY <2>1
  <2> QED
    BY <2>2, <1>7 DEF Regions
<1>10. IsFiniteSet(S) /\ Cardinality(S) = l /\ S \subseteq Node
  <2>1. \A i, j \in 1 .. l : f[i] = f[j] => i = j
    BY <1>6, <1>9
  <2>2. f \in [1 .. l -> S] /\ DOMAIN f = 1 .. l
    BY <1>7, <1>8
  <2>3. IsFiniteSet(S) /\ Cardinality(S) = l
    BY <2>1, <2>2, <1>8, Counted
  <2> QED
    BY <2>3, <1>8, <1>9
<1>11. \A n \in Node : NoSig(0, qp[n]) /\ NoReq(0, qp[n])
  <2>1. \A n \in Node : NoSig(0, qp[n])
    BY <1>3 DEF SigNodes
  <2> QED
    BY <2>1, <1>0, Silent DEF Typed, Queues
<1>12. ASSUME NEW n \in Node \ S
       PROVE  qp'[n] = qp[n]
  <2>1. {i \in DOMAIN bs : bs[i][1].node = n} = {}
    BY <1>4, <1>8, <1>9
  <2> QED
    BY <2>1, <1>1 DEF CallNoSink
<1>13. ASSUME NEW n \in S
       PROVE  qp'[n] \in Seq(Reqs) /\ Posted(0, qp[n], qp'[n])
  <2>1. PICK on : on = {i \in DOMAIN bs : bs[i][1].node = n}  BY Zenon
  <2>2. on # {}
    BY <2>1, <1>4, <1>8, <1>9
  <2>3. PICK i : i = CHOOSE x \in on : TRUE  BY Zenon
  <2>4. i \in 1 .. l
    BY <2>1, <2>2, <2>3, <1>4
  <2>5. n \in Node
    BY <1>10
  <2>6. qp'[n] = qp[n] \o Requests(0, bs[i])
    BY <2>1, <2>2, <2>3, <2>5, <1>1, <1>2 DEF CallNoSink
  <2>7. qp[n] \in Seq(Reqs) /\ NoReq(0, qp[n]) /\ Covered(qp[n]) /\ UnlockOrder(qp[n])
    BY <2>5, <1>0, <1>11 DEF Typed, Queues
  <2> QED
    BY <2>4, <2>6, <2>7, <1>2, <1>5, PostedQueue
<1>14. qp' \in [Node -> Seq(Reqs)]
  <2>1. qp' = [n \in Node |-> qp'[n]]
    BY <1>1 DEF CallNoSink
  <2>2. \A n \in Node : qp'[n] \in Seq(Reqs)
    BY <1>0, <1>12, <1>13 DEF Typed
  <2> QED
    BY <2>1, <2>2
<1>15. Queues'
  BY <1>0, <1>12, <1>13 DEF Queues, Posted
<1>16. pc' \in [Coro -> Places] /\ pc'[0] = "poll" /\ \A d \in Coro \ {0} : pc'[d] = "done"
  BY <1>0, <1>2 DEF Typed, Polled, Places
<1>17. Typed' /\ ~Sink'
  BY <1>0, <1>2, <1>14, <1>16 DEF Typed, Sink
<1>18. \A n \in Node, d \in Coro \ {0} : NoReq(d, qp'[n])
  BY <1>0, <1>12, <1>13 DEF Polled, Posted
<1>19. \A n \in Node : IF n \in S THEN OneSig(0, qp'[n]) ELSE NoSig(0, qp'[n])
  BY <1>11, <1>12, <1>13 DEF Posted
<1>20. SigNodes' = S
  BY <1>10, <1>19, NoSigOrOne DEF SigNodes
<1>21. need' = Cardinality(SigNodes') + Len(cq')
  BY <1>2, <1>3, <1>4, <1>10, <1>20
<1>22. Polled'
  BY <1>0, <1>2, <1>10, <1>16, <1>18, <1>19, <1>20, <1>21 DEF Polled
<1> QED
  BY <1>15, <1>17, <1>22 DEF Alone

LEMMA PollCQAlone ==
  ASSUME Alone, PollCQ
  PROVE  Alone'
<1>0. Typed /\ Queues /\ ~Sink /\ Polled
  BY DEF Alone
<1>1. /\ cq # <<>> /\ cq' = Tail(cq) /\ need' = need - 1
      /\ pc' = [pc EXCEPT ![0] = IF need = 1 THEN "run" ELSE "poll"]
      /\ cur' = cur /\ todo' = todo /\ qp' = qp /\ busy' = busy /\ phase' = phase
  BY DEF PollCQ, NextCompletion
<1>2. cq' \in Seq(Coro) /\ Drops(cq', cq)
  BY <1>0, <1>1, Dropped DEF Typed
<1>3. PICK w \in {"run", "poll"} : pc' = [pc EXCEPT ![0] = w] /\ (w = "run" => need = 1)
  BY <1>1
<1>4. /\ pc' \in [Coro -> Places] /\ pc'[0] = w
      /\ \A d \in Coro \ {0} : pc'[d] = "done"
  BY <1>0, <1>3, VerbsAssumption DEF Typed, Polled, Places
<1>5. Typed' /\ Queues' /\ ~Sink'
  BY <1>0, <1>1, <1>2, <1>4 DEF Typed, Queues, Sink
<1>6. SigNodes' = SigNodes
  BY <1>1 DEF SigNodes
<1>7. PICK k \in Nat : k = Cardinality(SigNodes)
  BY <1>0, FS_CardinalityType DEF Polled
<1>8. need = k + Len(cq) /\ Len(cq) \in Nat /\ Len(cq') = Len(cq) - 1
  BY <1>0, <1>2, <1>7 DEF Polled, Drops
<1>9. need' = k + Len(cq')
  BY <1>1, <1>8
<1>10. w = "run" => need' = 0
  BY <1>1, <1>3
<1>11. need' = Cardinality(SigNodes') + Len(cq')
  BY <1>6, <1>7, <1>9
<1>12. Polled'
  BY <1>0, <1>1, <1>3, <1>4, <1>6, <1>10, <1>11 DEF Polled
<1> QED
  BY <1>5, <1>12 DEF Alone

LEMMA ExecuteAlone ==
  ASSUME Alone, NEW n \in Node, Execute(n)
  PROVE  Alone'
<1>0. Typed /\ Queues /\ ~Sink /\ Polled
  BY DEF Alone
<1>1. PICK q : q = qp[n]  BY Zenon
<1>2. PICK r : r = Tail(q)  BY Zenon
<1>4. qp \in [Node -> Seq(Reqs)] /\ q \in Seq(Reqs) /\ q # <<>>
  BY <1>0, <1>1 DEF Typed, Execute
<1>5. r \in Seq(Reqs) /\ Executed(q, r)
  BY <1>2, <1>4, ExecutedQueue
<1>6. Head(q) = q[1] /\ 1 \in 1 .. Len(q) /\ Head(q) \in Reqs
  BY <1>4
<1>7. Head(q).coro = 0
  BY <1>0, <1>1, <1>6 DEF Polled, NoReq, Reqs
<1>8. /\ qp' = [qp EXCEPT ![n] = r] /\ busy' = busy /\ pc' = pc /\ cur' = cur
      /\ todo' = todo /\ phase' = phase /\ need' = need
  BY <1>1, <1>2 DEF Execute, coroVars
<1>9. qp'[n] = r /\ \A m \in Node \ {n} : qp'[m] = qp[m]
  BY <1>4, <1>8
<1>10. qp' \in [Node -> Seq(Reqs)]
  BY <1>4, <1>5, <1>8
<1>11. Queues'
  BY <1>0, <1>1, <1>5, <1>9 DEF Queues, Executed
<1>12. \A m \in Node, d \in Coro \ {0} : NoReq(d, qp'[m])
  BY <1>0, <1>1, <1>5, <1>9 DEF Polled, Executed
<1>13. \A m \in Node : NoSig(0, qp'[m]) \/ OneSig(0, qp'[m])
  BY <1>0, <1>1, <1>5, <1>9 DEF Polled, Executed
<1>14. \A m \in Node \ {n} : m \in SigNodes' <=> m \in SigNodes
  BY <1>9 DEF SigNodes
<1>15. SigNodes \in SUBSET Node /\ SigNodes' \in SUBSET Node
  BY DEF SigNodes
<1>16. IsFiniteSet(SigNodes) /\ need = Cardinality(SigNodes) + Len(cq)
  BY <1>0 DEF Polled
<1>17. cq' \in Seq(Coro) /\ IsFiniteSet(SigNodes') /\ need = Cardinality(SigNodes') + Len(cq')
  <2>1. CASE ~Head(q).signal
    <3>1. cq' = cq
      BY <1>1, <2>1 DEF Execute
    <3>2. ~Sig(0, q, 1)
      BY <1>6, <2>1 DEF Sig
    <3>3. n \in SigNodes' <=> n \in SigNodes
      BY <3>2, <1>0, <1>1, <1>5, <1>9, NoSigOrOne DEF SigNodes, Polled, Executed
    <3>4. SigNodes' = SigNodes
      BY <3>3, <1>14, <1>15
    <3> QED
      BY <3>1, <3>4, <1>0, <1>16 DEF Typed
  <2>2. CASE Head(q).signal
    <3>1. cq' = Append(cq, 0)
      BY <1>1, <1>7, <2>2 DEF Execute
    <3>2. cq \in Seq(Coro) /\ 0 \in Coro
      BY <1>0, VerbsAssumption DEF Typed
    <3>3. cq' \in Seq(Coro) /\ Len(cq') = Len(cq) + 1 /\ Len(cq) \in Nat
      BY <3>1, <3>2
    <3>4. Sig(0, q, 1)
      BY <1>6, <1>7, <2>2 DEF Sig
    <3>5. ~NoSig(0, q)
      BY <3>4, <1>6 DEF NoSig
    <3>6. n \in SigNodes
      BY <3>5, <1>1 DEF SigNodes
    <3>7. NoSig(0, qp'[n])
      BY <3>4, <3>5, <1>0, <1>1, <1>5, <1>9 DEF Polled, Executed
    <3>8. n \notin SigNodes'
      BY <3>7 DEF SigNodes
    <3>9. SigNodes' = SigNodes \ {n}
      BY <3>8, <1>14, <1>15
    <3>10. PICK k \in Nat : k = Cardinality(SigNodes)
      BY <1>16, FS_CardinalityType
    <3>11. IsFiniteSet(SigNodes') /\ Cardinality(SigNodes') = k - 1
      BY <3>6, <3>9, <3>10, <1>16, FS_RemoveElement
    <3> QED
      BY <3>3, <3>10, <3>11, <1>16
  <2> QED
    BY <2>1, <2>2
<1>18. Typed' /\ ~Sink'
  BY <1>0, <1>8, <1>10, <1>17 DEF Typed, Sink
<1>19. need' = Cardinality(SigNodes') + Len(cq')
  BY <1>8, <1>17
<1>20. Polled'
  BY <1>0, <1>8, <1>12, <1>13, <1>17, <1>19 DEF Polled
<1> QED
  BY <1>11, <1>18, <1>20 DEF Alone

\* Every step of a thread without coroutines.
LEMMA NextAlone ==
  ASSUME Alone, [Next]_vars
  PROVE  Alone'
<1>0. ~Sink /\ phase = "none" /\ cur # None
  BY DEF Alone, Sink, Polled, None
<1>1. ASSUME NEW c \in Coro, Worker(c)
      PROVE  Alone'
  <2>1. pc[c] # "spin" /\ todo[c] = <<>>
    BY DEF Alone, Polled
  <2>2. Call(c)
    BY <1>0, <1>1, <2>1 DEF Worker, SpinOwn, SpinOther, PostNext, LockRetry, OpDone
  <2> QED
    BY <2>2, CallAlone
<1>2. CASE PollCQ
  BY <1>2, PollCQAlone
<1>3. CASE Scheduler
  BY <1>0, <1>3 DEF Scheduler, StartWorker, PollOnce, PopBusy
<1>4. ASSUME NEW n \in Node, Execute(n)
      PROVE  Alone'
  BY <1>4, ExecuteAlone
<1>5. CASE Stop \/ Finished
  BY <1>0, <1>5 DEF Stop, Finished
<1>6. CASE UNCHANGED vars
  <2>1. /\ pc' = pc /\ cur' = cur /\ todo' = todo /\ qp' = qp /\ cq' = cq
        /\ busy' = busy /\ phase' = phase /\ need' = need
    BY <1>6 DEF vars, coroVars, nicVars
  <2>2. Typed' /\ Queues' /\ ~Sink'
    BY <2>1 DEF Alone, Typed, Queues, Sink
  <2>3. SigNodes' = SigNodes
    BY <2>1 DEF SigNodes
  <2>4. Polled'
    BY <2>1, <2>3 DEF Alone, Polled
  <2> QED
    BY <2>2, <2>4 DEF Alone
<1> QED
  BY <1>1, <1>2, <1>3, <1>4, <1>5, <1>6 DEF Next

-----------------------------------------------------------------------------
(* Theorems *)

LEMMA InitTokens == Init => Tokens
<1> SUFFICES ASSUME Init PROVE Tokens
  OBVIOUS
<1>1. <<>> \in Seq(Coro) /\ <<>> \in Seq(Reqs) /\ <<>> \in Seq(Seq(Regions)) /\ Len(<<>>) = 0
  OBVIOUS
<1>2. \A i : i \notin 1 .. Len(<<>>)
  BY <1>1
<1>3. GoodBatches(<<>>) /\ Covered(<<>>) /\ UnlockOrder(<<>>)
  BY <1>1, <1>2 DEF GoodBatches, Covered, UnlockOrder
<1>4. \A c : NoSig(c, <<>>) /\ NoReq(c, <<>>) /\ NoneOf(c, <<>>)
  BY <1>2 DEF NoSig, NoReq, NoneOf
<1>5. todo = [c \in Coro |-> <<>>] /\ qp = [n \in Node |-> <<>>] /\ cq = <<>> /\ busy = <<>> /\ need = 0
  BY DEF Init
<1>6. 0 \in Coro
  BY VerbsAssumption
<1>7. Typed
  <2>1. pc \in [Coro -> Places] /\ cur \in Coro \cup {None} /\ phase \in {"none", "start"}
    BY <1>6 DEF Init, Places
  <2>2. DOMAIN todo = Coro /\ \A c \in Coro : GoodBatches(todo[c])
    BY <1>3, <1>5
  <2>3. qp \in [Node -> Seq(Reqs)] /\ cq \in Seq(Coro) /\ busy \in Seq(Coro)
    BY <1>1, <1>5
  <2> QED
    BY <2>1, <2>2, <2>3 DEF Typed
<1>8. \A n \in Node : Covered(qp[n]) /\ UnlockOrder(qp[n])
  BY <1>3, <1>5
<1>9. ASSUME Sink
      PROVE  \A c \in Coro : Woken(c)
  <2>1. \A c \in Coro : pc[c] \notin Yielded
    BY <1>9 DEF Init, Sink, Yielded
  <2>2. \A c \in Coro : Quiet(c)
    BY <1>4, <1>5 DEF Quiet, NoSigs
  <2> QED
    BY <2>1, <2>2 DEF Woken
<1>10. ASSUME ~Sink
       PROVE  Polled
  <2>1. cur = 0 /\ pc = [c \in Coro |-> IF c = 0 THEN "run" ELSE "done"]
    BY <1>10 DEF Init, Sink
  <2>2. SigNodes = {}
    BY <1>4, <1>5 DEF SigNodes
  <2>3. IsFiniteSet(SigNodes) /\ need = Cardinality(SigNodes) + Len(cq)
    BY <1>1, <1>5, <2>2, FS_EmptySet
  <2>4. pc[0] = "run" /\ \A c \in Coro \ {0} : pc[c] = "done"
    BY <1>6, <2>1
  <2> QED
    BY <1>4, <1>5, <2>1, <2>3, <2>4 DEF Polled
<1> QED
  BY <1>7, <1>8, <1>9, <1>10 DEF Tokens

LEMMA NextTokens == Tokens /\ [Next]_vars => Tokens'
<1> SUFFICES ASSUME Tokens, [Next]_vars PROVE Tokens'
  OBVIOUS
<1>1. CASE Sink
  <2>1. Sunk'
    BY <1>1, NextSunk DEF Tokens, Sunk, Queues
  <2> QED
    BY <2>1 DEF Tokens, Sunk, Queues
<1>2. CASE ~Sink
  <2>1. Alone'
    BY <1>2, NextAlone DEF Tokens, Alone, Queues
  <2> QED
    BY <2>1 DEF Tokens, Alone, Queues
<1> QED
  BY <1>1, <1>2

LEMMA TokensHold == Spec => []Tokens
BY InitTokens, NextTokens, PTL DEF Spec

\* How many entries c has in a queue.
LEMMA CountSeq ==
  ASSUME NEW s \in Seq(Coro), NEW c
  PROVE  /\ NoneOf(c, s) => Cardinality(InSeq(c, s)) = 0
         /\ OneOf(c, s) => Cardinality(InSeq(c, s)) = 1
<1>1. DOMAIN s = 1 .. Len(s)
  OBVIOUS
<1>2. NoneOf(c, s) => InSeq(c, s) = {}
  BY <1>1 DEF NoneOf, InSeq
<1>3. OneOf(c, s) => \E i : InSeq(c, s) = {i}
  BY <1>1 DEF OneOf, InSeq
<1> QED
  BY <1>2, <1>3, FS_EmptySet, FS_Singleton

\* ... and in the queue pairs.
LEMMA CountQp ==
  ASSUME Typed, NEW c
  PROVE  /\ NoSigs(c) => Cardinality(Signalled(c)) = 0
         /\ TokenQp(c) => Cardinality(Signalled(c)) = 1
<1>1. \A n \in Node : DOMAIN qp[n] = 1 .. Len(qp[n])
  BY DEF Typed
<1>2. ASSUME NEW p
      PROVE  p \in Signalled(c) <=> \E n \in Node : \E i \in 1 .. Len(qp[n]) :
                                         p = <<n, i>> /\ Sig(c, qp[n], i)
  <2>1. p \in UNION {{n} \X DOMAIN qp[n] : n \in Node}
          <=> \E n \in Node : \E i \in 1 .. Len(qp[n]) : p = <<n, i>>
    BY <1>1
  <2>2. p \in Signalled(c) <=> /\ p \in UNION {{n} \X DOMAIN qp[n] : n \in Node}
                               /\ Sig(c, qp[p[1]], p[2])
    BY DEF Signalled, InQp, Sig
  <2>3. \A n, i : <<n, i>>[1] = n /\ <<n, i>>[2] = i
    OBVIOUS
  <2> QED
    BY <2>1, <2>2, <2>3
<1>3. NoSigs(c) => Signalled(c) = {}
  BY <1>2 DEF NoSigs, NoSig
<1>4. ASSUME TokenQp(c)
      PROVE  \E p : Signalled(c) = {p}
  <2>1. PICK n \in Node : OneSig(c, qp[n]) /\ \A m \in Node \ {n} : NoSig(c, qp[m])
    BY <1>4 DEF TokenQp
  <2>2. PICK i \in 1 .. Len(qp[n]) :
            Sig(c, qp[n], i) /\ \A j \in 1 .. Len(qp[n]) : Sig(c, qp[n], j) => j = i
    BY <2>1 DEF OneSig
  <2>3. <<n, i>> \in Signalled(c)
    BY <1>2, <2>2
  <2>4. \A p \in Signalled(c) : p = <<n, i>>
    BY <1>2, <2>1, <2>2 DEF NoSig
  <2> QED
    BY <2>3, <2>4
<1> QED
  BY <1>3, <1>4, FS_EmptySet, FS_Singleton

\* A coroutine that gave up the thread in run_coroutine is woken exactly once: it
\* has one signalled request, completion or busy entry, and the one that runs has
\* none, for any coroutines and memory nodes.
THEOREM WokenOnce == Spec => []OneWakeUp
<1>1. Tokens => OneWakeUp
  <2> SUFFICES ASSUME Tokens, Sink, NEW c \in Coro
               PROVE  Cardinality(Signalled(c)) + Cardinality(InSeq(c, cq))
                        + Cardinality(InSeq(c, busy))
                      = IF pc[c] \in {"wait", "rest", "spin"} THEN 1 ELSE 0
    BY DEF OneWakeUp
  <2>1. Typed /\ Woken(c) /\ cq \in Seq(Coro) /\ busy \in Seq(Coro)
    BY DEF Tokens, Typed
  <2>2. CASE pc[c] \in Yielded
    <3>1. Token(c)
      BY <2>1, <2>2 DEF Woken
    <3>2. CASE TokenQp(c)
      <4>1. /\ Cardinality(Signalled(c)) = 1 /\ Cardinality(InSeq(c, cq)) = 0
            /\ Cardinality(InSeq(c, busy)) = 0
        BY <3>2, <2>1, CountQp, CountSeq DEF TokenQp
      <4> QED
        BY <4>1, <2>2 DEF Yielded
    <3>3. CASE TokenCq(c)
      <4>1. /\ Cardinality(Signalled(c)) = 0 /\ Cardinality(InSeq(c, cq)) = 1
            /\ Cardinality(InSeq(c, busy)) = 0
        BY <3>3, <2>1, CountQp, CountSeq DEF TokenCq
      <4> QED
        BY <4>1, <2>2 DEF Yielded
    <3>4. CASE TokenBusy(c)
      <4>1. /\ Cardinality(Signalled(c)) = 0 /\ Cardinality(InSeq(c, cq)) = 0
            /\ Cardinality(InSeq(c, busy)) = 1
        BY <3>4, <2>1, CountQp, CountSeq DEF TokenBusy
      <4> QED
        BY <4>1, <2>2 DEF Yielded
    <3> QED
      BY <3>1, <3>2, <3>3, <3>4 DEF Token
  <2>3. CASE pc[c] \notin Yielded
    <3>1. Quiet(c)
      BY <2>1, <2>3 DEF Woken
    <3>2. /\ Cardinality(Signalled(c)) = 0 /\ Cardinality(InSeq(c, cq)) = 0
          /\ Cardinality(InSeq(c, busy)) = 0
      BY <3>1, <2>1, CountQp, CountSeq DEF Quiet
    <3> QED
      BY <3>2, <2>3 DEF Yielded
  <2> QED
    BY <2>2, <2>3
<1> QED
  BY <1>1, TokensHold, PTL

\* A *_sync call that is back left nothing behind: no request of the coroutine is
\* in any queue pair, with and without a sink, for any coroutines and memory nodes.
THEOREM ReturnsDone == Spec => []DoneOnReturn
<1>1. Tokens => DoneOnReturn
  <2> SUFFICES ASSUME Tokens, NEW c \in Coro, pc[c] = "run"
               PROVE  InQp(c) = {}
    BY DEF DoneOnReturn
  <2>1. \A n \in Node : NoSig(c, qp[n])
    <3>1. CASE Sink
      BY <3>1 DEF Tokens, Woken, Yielded, Quiet, NoSigs
    <3>2. CASE ~Sink
      <4>1. Alone
        BY <3>2 DEF Tokens, Alone, Queues
      <4>2. c = 0
        BY <4>1 DEF Alone, Polled
      <4> QED
        BY <4>1, <4>2, AloneIdle DEF SigNodes
    <3> QED
      BY <3>1, <3>2
  <2>2. \A n \in Node : qp[n] \in Seq(Reqs) /\ Covered(qp[n])
    BY DEF Tokens, Typed
  <2>3. \A n \in Node : NoReq(c, qp[n])
    BY <2>1, <2>2, Silent
  <2>4. \A n \in Node : DOMAIN qp[n] = 1 .. Len(qp[n])
    BY <2>2
  <2>5. \A p \in UNION {{n} \X DOMAIN qp[n] : n \in Node} :
            \E n \in Node : \E i \in 1 .. Len(qp[n]) : p = <<n, i>>
    BY <2>4
  <2>6. \A n, i : <<n, i>>[1] = n /\ <<n, i>>[2] = i
    OBVIOUS
  <2> QED
    BY <2>3, <2>5, <2>6 DEF InQp, NoReq
<1> QED
  BY <1>1, TokensHold, PTL

\* When the unlock of write_nodes_and_unlock is about to reach a memory node, no
\* write of the coroutine to a leaf there is left, for any coroutines and nodes.
THEOREM UnlocksLast == Spec => []UnlockLast
<1>1. Tokens => UnlockLast
  <2> SUFFICES ASSUME Tokens, NEW n \in Node, qp[n] # <<>>, Head(qp[n]).what = "unlock",
                      NEW i \in DOMAIN qp[n], qp[n][i].coro = Head(qp[n]).coro
               PROVE  qp[n][i].what # "node"
    BY DEF UnlockLast
  <2>1. qp[n] \in Seq(Reqs) /\ UnlockOrder(qp[n])
    BY DEF Tokens, Typed
  <2>2. /\ Head(qp[n]) = qp[n][1] /\ 1 \in 1 .. Len(qp[n]) /\ i \in 1 .. Len(qp[n])
        /\ i = 1 \/ 1 < i
    BY <2>1
  <2>3. CASE i = 1
    BY <2>2, <2>3
  <2>4. CASE 1 < i
    BY <2>1, <2>2, <2>4 DEF UnlockOrder
  <2> QED
    BY <2>2, <2>3, <2>4
<1> QED
  BY <1>1, TokensHold, PTL
=============================================================================
