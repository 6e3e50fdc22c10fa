----------------------------- MODULE RolexIndex -----------------------------
(***************************************************************************)
(* The index operations of src/src/Rolex.cpp (default build: sorted leaf   *)
(* arrays, no hopscotch, no synonym cache, no local lock table), run by    *)
(* concurrent clients against leaves in remote memory.                     *)
(*                                                                         *)
(* A client is one coroutine of one thread of one compute node: it yields  *)
(* at every RDMA verb, so each verb is a step of its own.  A node read is  *)
(* one step because decode_node_versions rejects a torn image (module      *)
(* VersionedNode); a node write and the unlock that follow it are the      *)
(* entries of one RDMA batch, executed in order, one step each.            *)
(*                                                                         *)
(* A node image is the partial map it stores plus its synonym pointer;     *)
(* module LeafArray shows that the array loops of the code compute         *)
(* exactly these maps.                                                     *)
(***************************************************************************)
EXTENDS LeafImage

CONSTANTS Client,      \* coroutines that call the index
          Leaf,        \* leaf indices, the addresses get_leaf_address yields
          LeafLo, LeafHi, InsertIdx   \* what the learned cache answers

ASSUME LeafAssumption ==
    Leaf \subseteq Nat /\ Leaf \cap SynAddr = {} /\ Nil \notin Leaf
\* RolexCache.h:97 asserts the first line of every answer of the learned
\* index; a key's position among the trained keys is monotone (:95-96).
ASSUME CacheAssumption ==
    /\ LeafLo \in [Key -> Leaf]
    /\ LeafHi \in [Key -> Leaf]
    /\ InsertIdx \in [Key -> Leaf]
    /\ \A k \in Key : LeafLo[k] <= InsertIdx[k] /\ InsertIdx[k] <= LeafHi[k]
    /\ \A j, k \in Key : j <= k => InsertIdx[j] <= InsertIdx[k]

Addr == Leaf \cup SynAddr
PCs == {"idle", "read", "read_syn", "lock", "fetch", "fetch_syn", "apply",
        "update", "write", "write_syn", "unlock", "abort"}
Kinds == {"insert", "update", "search", "range"}

NoReq == [kind |-> "none", key |-> Nil, to |-> Nil, val |-> Nil]
Request == [kind : Kinds, key : Key, to : Key \cup {Nil}, val : MaybeValue]

VARIABLES
    mem,      \* remote memory: the node stored at each address
    lock,     \* lock[a]: bit 63 of leaf a's lock word
    used,     \* synonym addresses dsm->alloc has handed out
    pc,       \* where each client is
    req,      \* the call it is in
    batch,    \* addresses of its read batch not read yet
    img,      \* node images its search has read
    la,       \* insert_leaf_addr / lock_leaf_addr
    addr,     \* leaf_addr: the node it re-reads and writes
    leafB,    \* leaf: its local copy of that node
    synB,     \* syn_leaf: its local copy of the synonym leaf
    wsyn      \* write_syn_leaf: its write batch also carries synB

bufVars == <<la, addr, leafB, synB, wsyn>>
readVars == <<batch, img>>
vars == <<mem, lock, used, pc, req, readVars, bufVars>>

NoImage == [a \in Addr |-> EmptyNode]

\* The memory node maps a zeroed region: empty leaves, clear lock words.
Init ==
    /\ mem = [a \in Addr |-> EmptyNode]
    /\ lock = [a \in Leaf |-> FALSE]
    /\ used = {}
    /\ pc = [c \in Client |-> "idle"]
    /\ req = [c \in Client |-> NoReq]
    /\ batch = [c \in Client |-> {}]
    /\ img = [c \in Client |-> NoImage]
    /\ la = [c \in Client |-> Nil]
    /\ addr = [c \in Client |-> Nil]
    /\ leafB = [c \in Client |-> EmptyNode]
    /\ synB = [c \in Client |-> EmptyNode]
    /\ wsyn = [c \in Client |-> FALSE]

LeafRange(lo, hi) == {a \in Leaf : lo <= a /\ a <= hi}
-----------------------------------------------------------------------------
(* Taking, and returning from, a call *)

Accept(c, r, next) ==
    /\ pc[c] = "idle"
    /\ pc' = [pc EXCEPT ![c] = next]
    /\ req' = [req EXCEPT ![c] = r]

\* The locals of the call go out of scope.
Return(c) ==
    /\ pc' = [pc EXCEPT ![c] = "idle"]
    /\ req' = [req EXCEPT ![c] = NoReq]
    /\ batch' = [batch EXCEPT ![c] = {}]
    /\ img' = [img EXCEPT ![c] = NoImage]
    /\ la' = [la EXCEPT ![c] = Nil]
    /\ addr' = [addr EXCEPT ![c] = Nil]
    /\ leafB' = [leafB EXCEPT ![c] = EmptyNode]
    /\ synB' = [synB EXCEPT ![c] = EmptyNode]
    /\ wsyn' = [wsyn EXCEPT ![c] = FALSE]

Goto(c, next) == pc' = [pc EXCEPT ![c] = next] /\ UNCHANGED req

-----------------------------------------------------------------------------
(* Reading: search, update (its _search) and range_query *)

StartReading(c, r, lo, hi) ==
    /\ Accept(c, r, "read")
    /\ batch' = [batch EXCEPT ![c] = LeafRange(lo, hi)]
    /\ UNCHANGED <<mem, lock, used, img, bufVars>>

SearchStart(c, k) ==
    StartReading(c, [kind |-> "search", key |-> k, to |-> Nil, val |-> Nil],
                 LeafLo[k], LeafHi[k])

UpdateStart(c, k, v) ==
    StartReading(c, [kind |-> "update", key |-> k, to |-> Nil, val |-> v],
                 LeafLo[k], LeafHi[k])

RangeStart(c, from, to) ==
    StartReading(c, [kind |-> "range", key |-> from, to |-> to, val |-> Nil],
                 LeafLo[from], LeafHi[to])

\* Mutant of FetchNode: readers wait for a leaf's lock.
FetchNodeUnlocked(c, a) ==
    /\ pc[c] \in {"read", "read_syn"}
    /\ a \in batch[c]
    /\ a \in Leaf => ~lock[a]
    /\ img' = [img EXCEPT ![c] = [img[c] EXCEPT ![a] = mem[a]]]
    /\ batch' = [batch EXCEPT ![c] = @ \ {a}]
    /\ UNCHANGED <<mem, lock, used, pc, req, bufVars>>

\* The nodes of a batch are read in any order; fetch_nodes repeats the batch
\* until every image is consistent, so each is read at some point of the call.
FetchNode(c, a) ==
    /\ pc[c] \in {"read", "read_syn"}
    /\ a \in batch[c]
    /\ img' = [img EXCEPT ![c] = [img[c] EXCEPT ![a] = mem[a]]]
    /\ batch' = [batch EXCEPT ![c] = @ \ {a}]
    /\ UNCHANGED <<mem, lock, used, pc, req, bufVars>>

\* Mutant of AppendSynonyms: the second batch is left empty.
AppendNoSynonyms(c) ==
    /\ pc[c] = "read"
    /\ batch[c] = {}
    /\ Goto(c, "read_syn")
    /\ UNCHANGED <<mem, lock, used, batch, img, bufVars>>

\* The synonym leaves the images of the first batch point to.
AppendSynonyms(c) ==
    /\ pc[c] = "read"
    /\ batch[c] = {}
    /\ Goto(c, "read_syn")
    /\ batch' = [batch EXCEPT ![c] = {img[c][a].syn : a \in Leaf} \ {Nil}]
    /\ UNCHANGED <<mem, lock, used, img, bufVars>>

HasRead(c) == pc[c] = "read_syn" /\ batch[c] = {}

\* The leaves whose image, or whose synonym's image, holds k.
InLeaf(c, k) == {a \in Leaf : img[c][a].rec[k] # Nil}
InSyn(c, k) == {a \in Leaf : img[c][a].syn # Nil
                             /\ img[c][img[c][a].syn].rec[k] # Nil}
First(S) == CHOOSE a \in S : \A b \in S : a <= b
Found(c, k) == InLeaf(c, k) # {} \/ InSyn(c, k) # {}

\* _search scans the leaves first and stops at the first match ...
FoundLeaf(c, k) == IF InLeaf(c, k) # {} THEN First(InLeaf(c, k))
                   ELSE First(InSyn(c, k))
FoundNode(c, k) == IF InLeaf(c, k) # {} THEN FoundLeaf(c, k)
                   ELSE img[c][FoundLeaf(c, k)].syn
SearchResult(c) ==
    IF Found(c, req[c].key)
    THEN img[c][FoundNode(c, req[c].key)].rec[req[c].key] ELSE Nil

\* ... range_query keeps the last match, a synonym leaf's before a leaf's.
Last(S) == CHOOSE a \in S : \A b \in S : b <= a
RangeValue(c, k) ==
    IF InSyn(c, k) # {} THEN img[c][img[c][Last(InSyn(c, k))].syn].rec[k]
    ELSE IF InLeaf(c, k) # {} THEN img[c][Last(InLeaf(c, k))].rec[k]
    ELSE Nil
RangeResult(c) ==
    [k \in Key |-> IF req[c].key <= k /\ k < req[c].to
                   THEN RangeValue(c, k) ELSE Nil]

SearchReturn(c) ==
    /\ HasRead(c)
    /\ req[c].kind = "search"
    /\ Return(c)
    /\ UNCHANGED <<mem, lock, used>>

RangeReturn(c) ==
    /\ HasRead(c)
    /\ req[c].kind = "range"
    /\ Return(c)
    /\ UNCHANGED <<mem, lock, used>>

\* update returns silently when _search did not find its key.
UpdateMiss(c) ==
    /\ HasRead(c)
    /\ req[c].kind = "update"
    /\ ~Found(c, req[c].key)
    /\ Return(c)
    /\ UNCHANGED <<mem, lock, used>>

\* Mutant of UpdateFound: update starts at the last node of the chain it read.
UpdateFoundLast(c) ==
    /\ HasRead(c)
    /\ req[c].kind = "update"
    /\ Found(c, req[c].key)
    /\ Goto(c, "lock")
    /\ la' = [la EXCEPT ![c] = FoundLeaf(c, req[c].key)]
    /\ addr' = LET a == FoundLeaf(c, req[c].key)
                   last == img[c][a].syn
               IN  [addr EXCEPT ![c] = IF last = Nil THEN a ELSE last]
    /\ img' = [img EXCEPT ![c] = NoImage]
    /\ UNCHANGED <<mem, lock, used, batch, leafB, synB, wsyn>>

UpdateFound(c) ==
    /\ HasRead(c)
    /\ req[c].kind = "update"
    /\ Found(c, req[c].key)
    /\ Goto(c, "lock")
    /\ la' = [la EXCEPT ![c] = FoundLeaf(c, req[c].key)]
    /\ addr' = [addr EXCEPT ![c] = FoundNode(c, req[c].key)]
    /\ img' = [img EXCEPT ![c] = NoImage]
    /\ UNCHANGED <<mem, lock, used, batch, leafB, synB, wsyn>>

-----------------------------------------------------------------------------
(* Locking and writing: insert and update *)

\* The leaves in the predicted range are fetched first and their images are
\* not looked at (src/src/Rolex.cpp:174, :185); the range only fixes the leaf.
InsertStart(c, k, v) ==
    /\ Accept(c, [kind |-> "insert", key |-> k, to |-> Nil, val |-> v], "lock")
    /\ la' = [la EXCEPT ![c] = InsertIdx[k]]
    /\ addr' = [addr EXCEPT ![c] = InsertIdx[k]]
    /\ UNCHANGED <<mem, lock, used, readVars, leafB, synB, wsyn>>

\* Mutant of LockNode: the result of the compare-and-swap is not looked at.
LockNodeBlindly(c) ==
    /\ pc[c] = "lock"
    /\ lock' = [lock EXCEPT ![la[c]] = TRUE]
    /\ Goto(c, IF req[c].kind = "insert" THEN "fetch" ELSE "update")
    /\ UNCHANGED <<mem, used, readVars, bufVars>>

\* Mutant of LockNode: insert does not read its leaf again under the lock.
LockNodeNoFetch(c) ==
    /\ pc[c] = "lock"
    /\ ~lock[la[c]]
    /\ lock' = [lock EXCEPT ![la[c]] = TRUE]
    /\ Goto(c, IF req[c].kind = "insert" THEN "apply" ELSE "update")
    /\ UNCHANGED <<mem, used, readVars, bufVars>>

\* A compare-and-swap that fails changes nothing and is retried.
LockNode(c) ==
    /\ pc[c] = "lock"
    /\ ~lock[la[c]]
    /\ lock' = [lock EXCEPT ![la[c]] = TRUE]
    /\ Goto(c, IF req[c].kind = "insert" THEN "fetch" ELSE "update")
    /\ UNCHANGED <<mem, used, readVars, bufVars>>

InsertFetch(c) ==
    /\ pc[c] = "fetch"
    /\ leafB' = [leafB EXCEPT ![c] = mem[la[c]]]
    /\ Goto(c, IF mem[la[c]].syn = Nil THEN "apply" ELSE "fetch_syn")
    /\ UNCHANGED <<mem, lock, used, readVars, la, addr, synB, wsyn>>

InsertFetchSyn(c) ==
    /\ pc[c] = "fetch_syn"
    /\ synB' = [synB EXCEPT ![c] = mem[leafB[c].syn]]
    /\ Goto(c, "apply")
    /\ UNCHANGED <<mem, lock, used, readVars, la, addr, leafB, wsyn>>

\* insert_into_syn_leaf_locally stores (k, v) in the synonym leaf, a new one
\* if there is none; leaf is the new image of the leaf, but for its pointer.
StoreInSyn(c, leaf, k, v) ==
    /\ ~KnownInSyn(leafB[c], synB[c], k)
    /\ wsyn' = [wsyn EXCEPT ![c] = TRUE]
    /\ \/ /\ leafB[c].syn = Nil
          /\ \E s \in SynAddr \ used :
                /\ used' = used \cup {s}
                /\ leafB' = [leafB EXCEPT ![c] = [leaf EXCEPT !.syn = s]]
          /\ synB' = [synB EXCEPT ![c] = Put(EmptyNode, k, v)]
       \/ /\ leafB[c].syn # Nil
          /\ leafB' = [leafB EXCEPT ![c] = leaf]
          /\ synB' = [synB EXCEPT ![c] = PutSyn(synB[c], k, v)]
          /\ UNCHANGED used

\* Mutant of ApplyNothing: insert starts over, lock in hand.
ApplyNothingRetry(c) ==
    /\ pc[c] = "apply"
    /\ GivesUp(leafB[c], synB[c], req[c].key)
    /\ Goto(c, "fetch")
    /\ UNCHANGED <<mem, lock, used, readVars, bufVars>>

ApplyNothing(c) ==
    /\ pc[c] = "apply"
    /\ GivesUp(leafB[c], synB[c], req[c].key)
    /\ Goto(c, "unlock")
    /\ UNCHANGED <<mem, lock, used, readVars, bufVars>>

ApplyToLeaf(c) ==
    LET k == req[c].key
        n == leafB[c]
    IN  /\ pc[c] = "apply"
        /\ n.rec[k] = Nil
        /\ ~Full(n)
        /\ leafB' = [leafB EXCEPT ![c] = Put(n, k, req[c].val)]
        /\ Goto(c, "write")
        /\ UNCHANGED <<mem, lock, used, readVars, la, addr, synB, wsyn>>

\* The leaf itself is written only when it gets its synonym pointer.
ApplyToSyn(c) ==
    LET k == req[c].key
        n == leafB[c]
    IN  /\ pc[c] = "apply"
        /\ n.rec[k] = Nil
        /\ Beyond(n, k)
        /\ StoreInSyn(c, n, k, req[c].val)
        /\ Goto(c, IF n.syn = Nil THEN "write" ELSE "write_syn")
        /\ UNCHANGED <<mem, lock, readVars, la, addr>>

\* The last record of the full leaf moves to the synonym leaf.
ApplyOverflow(c) ==
    LET k == req[c].key
        n == leafB[c]
        last == LastKey(n)
    IN  /\ pc[c] = "apply"
        /\ n.rec[k] = Nil
        /\ Full(n)
        /\ ~Beyond(n, k)
        /\ StoreInSyn(c, PutOverflow(n, k, req[c].val), last, n.rec[last])
        /\ Goto(c, "write")
        /\ UNCHANGED <<mem, lock, readVars, la, addr>>

\* update re-reads its node and changes the record in its copy ...
UpdateFetch(c) ==
    /\ pc[c] = "update"
    /\ mem[addr[c]].rec[req[c].key] # Nil
    /\ leafB' = [leafB EXCEPT ![c] = Put(mem[addr[c]], req[c].key, req[c].val)]
    /\ Goto(c, "write")
    /\ UNCHANGED <<mem, lock, used, readVars, la, addr, synB, wsyn>>

\* ... or, if the key has left the node, goes on to the leaf's synonym; the
\* asserts at src/src/Rolex.cpp:731-732 stop the program otherwise.
UpdateReadAnother(c) ==
    LET n == mem[addr[c]]
        ok == addr[c] = la[c] /\ n.syn # Nil
    IN  /\ pc[c] = "update"
        /\ n.rec[req[c].key] = Nil
        /\ Goto(c, IF ok THEN "update" ELSE "abort")
        /\ addr' = [addr EXCEPT ![c] = IF ok THEN n.syn ELSE @]
        /\ UNCHANGED <<mem, lock, used, readVars, la, leafB, synB, wsyn>>

\* Mutant of WriteNode: the batch ends after its first node.
WriteNodeOnly(c) ==
    /\ pc[c] = "write"
    /\ mem' = [mem EXCEPT ![addr[c]] = leafB[c]]
    /\ Goto(c, "unlock")
    /\ UNCHANGED <<lock, used, readVars, bufVars>>

\* The write batch: the node, the synonym leaf, the lock word, in that order.
WriteNode(c) ==
    /\ pc[c] = "write"
    /\ mem' = [mem EXCEPT ![addr[c]] = leafB[c]]
    /\ Goto(c, IF wsyn[c] THEN "write_syn" ELSE "unlock")
    /\ UNCHANGED <<lock, used, readVars, bufVars>>

WriteSyn(c) ==
    /\ pc[c] = "write_syn"
    /\ mem' = [mem EXCEPT ![leafB[c].syn] = synB[c]]
    /\ Goto(c, "unlock")
    /\ UNCHANGED <<lock, used, readVars, bufVars>>

Unlock(c) ==
    /\ pc[c] = "unlock"
    /\ lock' = [lock EXCEPT ![la[c]] = FALSE]
    /\ Return(c)
    /\ UNCHANGED <<mem, used>>

-----------------------------------------------------------------------------
Call(c) ==
    \/ \E k \in Key, v \in Value : InsertStart(c, k, v) \/ UpdateStart(c, k, v)
    \/ \E k \in Key : SearchStart(c, k)
    \/ \E k, to \in Key : k < to /\ RangeStart(c, k, to)

Step(c) ==
    \/ \E a \in Addr : FetchNode(c, a)
    \/ AppendSynonyms(c)
    \/ SearchReturn(c)
    \/ RangeReturn(c)
    \/ UpdateMiss(c)
    \/ UpdateFound(c)
    \/ LockNode(c)
    \/ InsertFetch(c)
    \/ InsertFetchSyn(c)
    \/ ApplyNothing(c)
    \/ ApplyToLeaf(c)
    \/ ApplyToSyn(c)
    \/ ApplyOverflow(c)
    \/ UpdateFetch(c)
    \/ UpdateReadAnother(c)
    \/ WriteNode(c)
    \/ WriteSyn(c)
    \/ Unlock(c)

Next == \E c \in Client : Call(c) \/ Step(c)

Spec == Init /\ [][Next]_vars

\* The NIC completes every posted verb and the coroutine scheduler resumes
\* every coroutine (src/src/Rolex.cpp:1792), so a step that stays possible is
\* taken.  No client has to make another call.
FairSpec == Spec /\ \A c \in Client : WF_vars(Step(c))
-----------------------------------------------------------------------------
(* Properties *)

\* Every variable keeps its type: in particular a lock is only taken on a leaf,
\* and a client writes only to a leaf or to an allocated kind of address.
TypeOK ==
    /\ mem \in [Addr -> Node]
    /\ lock \in [Leaf -> BOOLEAN]
    /\ used \subseteq SynAddr
    /\ pc \in [Client -> PCs]
    /\ req \in [Client -> Request \cup {NoReq}]
    /\ batch \in [Client -> SUBSET Addr]
    /\ img \in [Client -> [Addr -> Node]]
    /\ la \in [Client -> Leaf \cup {Nil}]
    /\ addr \in [Client -> Addr \cup {Nil}]
    /\ leafB \in [Client -> Node]
    /\ synB \in [Client -> Node]
    /\ wsyn \in [Client -> BOOLEAN]

Holding == {"fetch", "fetch_syn", "apply", "update", "write", "write_syn",
            "unlock", "abort"}
Holds(c, a) == pc[c] \in Holding /\ la[c] = a

\* Every leaf's lock word (lock_node, the unlock entry of every write batch,
\* the early unlocks of insert) is set exactly while one client is between
\* its successful compare-and-swap and its unlock: two clients are never both
\* inside, no path returns with the lock set, none unlocks twice.
LockExclusion ==
    /\ \A c, d \in Client, a \in Leaf : Holds(c, a) /\ Holds(d, a) => c = d
    /\ \A a \in Leaf : lock[a] <=> \E c \in Client : Holds(c, a)

\* While a client works on its local copies under the lock, remote memory
\* still holds what it read: no write of anybody else falls between the
\* re-read of insert and its write batch (no lost update).
CopiesCurrent ==
    \A c \in Client :
        /\ pc[c] \in {"fetch_syn", "apply"} => leafB[c] = mem[la[c]]
        /\ pc[c] = "apply" /\ leafB[c].syn # Nil => synB[c] = mem[leafB[c].syn]
        /\ pc[c] = "write_syn" => leafB[c] = mem[la[c]]

\* At every moment, also between the writes of a batch: a leaf holds only
\* keys the learned index sends to it; a leaf that has a synonym is full, and
\* its keys all precede the synonym's, so no key is stored twice; no node
\* holds more than leafSpanSize records; no two leaves share a synonym; a
\* synonym has none itself.
SynonymChain ==
    /\ \A a \in Leaf :
        /\ \A k \in KeysOf(mem[a]) : InsertIdx[k] = a
        /\ Cardinality(KeysOf(mem[a])) <= Span
        /\ mem[a].syn # Nil =>
            /\ Full(mem[a])
            /\ \A k \in KeysOf(mem[mem[a].syn]) :
                 InsertIdx[k] = a /\ \A x \in KeysOf(mem[a]) : x < k
    /\ \A s \in SynAddr :
        /\ Cardinality(KeysOf(mem[s])) <= Span
        /\ mem[s].syn = Nil
    /\ \A a, b \in Leaf : mem[a].syn # Nil /\ mem[a].syn = mem[b].syn => a = b

\* The asserts of update (src/src/Rolex.cpp:731-732) never fail: a key that
\* left the node in which _search saw it is in the leaf's synonym.
AssertsHold == \A c \in Client : pc[c] # "abort"

\* A synonym pointer, once written, is never changed or cleared: what a
\* lock-free reader follows to the synonym leaf stays right.
SynonymPtrStable ==
    [][\A a \in Leaf : mem[a].syn # Nil => mem'[a].syn = mem[a].syn]_vars

\* Every lock is released again: no path of insert or update keeps it.
LockReleased == \A a \in Leaf : lock[a] ~> ~lock[a]

\* A search or range query returns whatever the writers do (readers take no
\* lock and are never blocked by one).
ReadersReturn ==
    \A c \in Client : req[c].kind \in {"search", "range"} ~> pc[c] = "idle"

-----------------------------------------------------------------------------
(* The map the index stores *)

\* What a reader that saw all of memory at once would find under k.
Visible(k) ==
    LET n == mem[InsertIdx[k]]
    IN  IF n.rec[k] # Nil THEN n.rec[k]
        ELSE IF n.syn # Nil THEN mem[n.syn].rec[k] ELSE Nil

\* The client, if any, whose batch has still to write leaf a's synonym.
SynWriters(a) == {c \in Client : pc[c] = "write_syn" /\ la[c] = a}

\* The stored map: between the two node writes of a batch the moved record is
\* only in the batch.
Stored(k) ==
    LET a == InsertIdx[k]
    IN  IF mem[a].rec[k] # Nil THEN mem[a].rec[k]
        ELSE IF SynWriters(a) # {}
             THEN synB[CHOOSE c \in SynWriters(a) : TRUE].rec[k]
             ELSE Visible(k)

Phase(c) ==
    CASE pc[c] = "idle" -> "idle"
      [] pc[c] \in {"write_syn", "unlock"} -> "done"
      [] OTHER -> "pending"

KV == INSTANCE KVStore WITH kv <- [k \in Key |-> Stored(k)],
                            st <- [c \in Client |-> Phase(c)]

\* The leaves, locks and write batches implement the map of KVStore: each
\* insert and update takes effect at one moment of its call, on its own key
\* only, and no key ever leaves the map.
ImplementsKVStore == KV!Spec
=============================================================================
