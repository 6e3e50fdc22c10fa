------------------------------ MODULE Hopscotch ------------------------------
(***************************************************************************)
(* A leaf of the HOPSCOTCH_LEAF_NODE build and its synonym leaf: the hash  *)
(* table in a node (hopscotch_* in src/src/Rolex.cpp), inserts and splits  *)
(* under the leaf's lock, with or without the vacancy bitmaps of           *)
(* VACANCY_AWARE_LOCK (src/include/Metadata.h), with one metadata or the   *)
(* replicas of METADATA_REPLICATION, and the search that reads one         *)
(* neighbourhood without the lock.                                         *)
(*                                                                         *)
(* A record lies less than Neighbor slots behind the slot its key hashes   *)
(* to, its home, and the hop bitmap of the home says where.  An insert     *)
(* writes only the slots it changed.  An entry is read and written as a    *)
(* whole, its own version tells a torn one (module VersionedNode), the     *)
(* entries of one verb in any order; a whole node is written with a new    *)
(* node version.  Values are left out: they move with their keys.          *)
(*                                                                         *)
(* The lock serialises the writers of a leaf, so there is one writer, who  *)
(* reads what no other one changes: locking, reading and computing the new *)
(* image are one step, and every entry written is one.                     *)
(***************************************************************************)
EXTENDS Integers, Sequences, FiniteSets

CONSTANTS Key,         \* numbers, not 0
          HashOf,      \* HashOf[k]: get_hashed_leaf_entry_index
          Span,        \* define::leafSpanSize
          Neighbor,    \* define::neighborSize
          VacancyBits, \* define::vacancyMapBit
          SearchKey,   \* bound: the keys searched for
          MaxAgain     \* bound: inserts of keys inserted before, without replicas

Slot == 0 .. Span - 1
Offset == 0 .. Neighbor - 1
Bucket == 0 .. VacancyBits - 1
NoKey == 0                \* define::kkeyNull
Meta == Span              \* the metadata of a node, one more unit of it
Metas == Span .. Span + (Span \div Neighbor) - 1    \* and its replicas
Unit == Slot \cup Metas
NodeName == {"leaf", "syn"}

ASSUME SizeAssumption ==
    /\ Key \subseteq Nat \ {NoKey}
    /\ Span \in Nat /\ Neighbor \in 2 .. Span - 1 /\ Span % Neighbor = 0
    /\ VacancyBits \in Nat /\ VacancyBits >= Span
    /\ HashOf \in [Key -> Slot]
    /\ SearchKey \subseteq Key /\ MaxAgain \in Nat

\* A node: for a slot the key and the hop bitmap, for Meta whether there is a
\* synonym leaf, all with the node version.
EmptyNode == [u \in Unit |-> [key |-> NoKey, hop |-> {}, ptr |-> FALSE, ver |-> 0]]
EmptyImage == [n \in NodeName |-> EmptyNode]

VARIABLES
    vaLock,    \* the build's VACANCY_AWARE_LOCK
    replicas,  \* the build's METADATA_REPLICATION
    mem,       \* mem[n]: node n in memory
    vacancy,   \* vacancy[n]: buckets of n that the lock word says are full
    ikey,      \* the key of the insert that has the lock, or NoKey
    image,     \* what it writes
    writes,    \* its verbs to come: the node and the units not yet written
    again,     \* inserts of acked keys so far, at most MaxAgain
    acked,     \* history: keys that an insert returned having stored or found
    lost,      \* history: the insert found no room
    rd,        \* the search: "idle", "fetch", "found" (an update goes on)
    rkey,      \* its key
    known,     \* it knows the address of the synonym leaf
    batch,     \* the nodes it is reading
    unread,    \* what of them it has still to read
    buf,       \* what it read
    place,     \* the node it found the key in
    missed,    \* history: it returned without a key that was there from the start
    before     \* history: its key was acked when it began

writeVars == <<mem, vacancy, ikey, image, writes, again, acked, lost>>
readVars == <<rd, rkey, known, batch, unread, buf, place, missed, before>>
vars == <<vaLock, replicas, writeVars, readVars>>

Locked == ikey # NoKey

\* The build options come on top of each other: hopscotch leaves, then the vacancy
\* bitmaps, then the replicas.
Init ==
    /\ vaLock \in BOOLEAN /\ replicas \in {FALSE, vaLock}
    /\ mem = EmptyImage /\ image = EmptyImage
    /\ vacancy = [n \in NodeName |-> {}]
    /\ ikey = NoKey /\ writes = <<>>
    /\ again = 0 /\ acked = {} /\ lost = FALSE
    /\ rd = "idle" /\ rkey = NoKey /\ known = FALSE
    /\ batch = {} /\ unread = <<>> /\ buf = EmptyImage /\ place = "none"
    /\ missed = FALSE /\ before = FALSE

-----------------------------------------------------------------------------
(* The hash table in a node.  A logical slot may lie beyond the end. *)

At(i) == i % Span                     \* get_entry

\* The home of the record at logical slot h, with the corner cases.
HomeBefore(n, h) ==
    LET home == HashOf[n[At(h)].key]
    IN  IF h - home < 0 THEN home - Span
        ELSE IF h - home >= Neighbor THEN home + Span ELSE home

First(S) == CHOOSE i \in S : \A j \in S : i <= j

\* Empty slots among num from home on.
EmptySlots(n, home, num) == {i \in home .. home + num - 1 : n[At(i)].key = NoKey}

\* Slots of records that may hop to slot j.
Hops(n, j) == {h \in j - Neighbor + 1 .. j - 1 : HomeBefore(n, h) + Neighbor > j}

\* The one that does: the farthest.
Hopper(n, j) == First(Hops(n, j))

\* The slots that an empty slot j moves through, towards home, always as far
\* as it can; <<>> if it does not come into the neighbourhood of home.
RECURSIVE Path(_, _, _)
Path(n, home, j) ==
    IF j < home + Neighbor THEN <<j>>
    ELSE IF Hops(n, j) = {} THEN <<>>
    ELSE LET rest == Path(n, home, Hopper(n, j))
         IN  IF rest = <<>> THEN <<>> ELSE <<j>> \o rest

PathFor(n, k, num) ==
    LET empty == EmptySlots(n, HashOf[k], num)
    IN  IF empty = {} THEN <<>> ELSE Path(n, HashOf[k], First(empty))

\* Mutant of Move: the bit of the old place stays.
MoveKeepBit(n, h, j) ==
    LET home == HomeBefore(n, h)
    IN  [n EXCEPT ![At(j)].key = n[At(h)].key,
                  ![At(home)].hop = @ \cup {j - home}]

\* The record in slot h goes to slot j: unset_hop_bit, set_hop_bit.
Move(n, h, j) ==
    LET home == HomeBefore(n, h)
    IN  [n EXCEPT ![At(j)].key = n[At(h)].key,
                  ![At(home)].hop = (@ \ {h - home}) \cup {j - home}]

RECURSIVE HopAlong(_, _)
HopAlong(n, path) ==
    IF Len(path) = 1 THEN n ELSE HopAlong(Move(n, path[2], path[1]), Tail(path))

\* Hop along the path, then store k in the slot that is empty now.
Store(n, k, path) ==
    LET j == path[Len(path)]
        home == HashOf[k]
    IN  [HopAlong(n, path) EXCEPT ![At(j)].key = k, ![home].hop = @ \cup {j - home}]

-----------------------------------------------------------------------------
(* VALock *)

find_bucket(i) == ((i * VacancyBits) \div Span) % VacancyBits

get_idx_range_in_bucket(b) ==
    LET r == ((b + 1) * Span) \div VacancyBits
    IN  <<IF b = 0 THEN 0 ELSE (b * Span) \div VacancyBits + 1,
          IF r >= Span THEN Span - 1 ELSE r>>

\* The buckets from slot l to slot r are full, but for those of empty slots.
update_vacancy(full, l, r, empty) ==
    LET lb == find_bucket(l)
        rb == find_bucket(r)
        covered == IF lb <= rb THEN lb .. rb ELSE 0 .. rb \cup lb .. VacancyBits - 1
    IN  (full \cup covered) \ {find_bucket(i) : i \in empty}

\* How many entries to read from slot start to see the next vacancy.
get_read_entry_num_from_bitmap(full, start) ==
    LET bucket(i) == (find_bucket(start) + i) % VacancyBits
        fits == {i \in Bucket : /\ bucket(i) \notin full
                                /\ start <= get_idx_range_in_bucket(bucket(i))[1]}
        num == (get_idx_range_in_bucket(bucket(First(fits)))[2] + Span - start + 1)
               % Span
    IN  IF fits = {} \/ num = 0 THEN Span ELSE num

\* With replicas at least so many that one of them is read.
ReadNum(n, k) ==
    LET l == HashOf[k]
        num == get_read_entry_num_from_bitmap(vacancy[n], l)
        last == l + num - 1
    IN  IF ~vaLock THEN Span
        ELSE IF replicas /\ num < Neighbor /\ l % Neighbor # 0
                /\ l \div Neighbor = last \div Neighbor
        THEN ((last + Neighbor) \div Neighbor) * Neighbor + 1 - l
        ELSE num

-----------------------------------------------------------------------------
(* Metadata *)

Around(l, num) == {At(i) : i \in l .. l + num - 1}

\* The replicas in a segment: one in front of every Neighbor slots.
ReplicasIn(slots) ==
    IF replicas THEN {Meta + s \div Neighbor : s \in {t \in slots : t % Neighbor = 0}}
    ELSE {}

\* The metadata of node n for somebody who reads these slots.
MetadataOf(n, slots) ==
    IF ~replicas THEN n[Meta]
    ELSE IF ReplicasIn(slots) = {} THEN EmptyNode[Meta]
    ELSE n[First(ReplicasIn(slots))]

\* All of a node.
NodeUnits == Slot \cup (IF replicas THEN Metas ELSE {Meta})

-----------------------------------------------------------------------------
(* insert *)

\* hopscotch_fetch_nodes under the lock: what is not read is empty.
Fetched(n, k) ==
    LET slots == Around(HashOf[k], ReadNum(n, k))
    IN  [u \in Unit |-> IF u \in slots THEN mem[n][u]
                        ELSE IF u \in Slot THEN EmptyNode[u]
                        ELSE MetadataOf(mem[n], slots)]

\* Slots in which insert looks for the key: [hash_idx, r_idx), which is none
\* when all entries were read, or all slots without the vacancy bitmap.
Searched(k) ==
    IF ~vaLock THEN Slot
    ELSE IF ReadNum("leaf", k) = Span THEN {}
    ELSE Around(HashOf[k], ReadNum("leaf", k))

Verb(n, units) == [node |-> n, units |-> units]

\* Unit u of the first verb is done.  The verbs of a queue pair are done in order.
WithoutUnit(verbs, u) ==
    IF Head(verbs).units = {u} THEN Tail(verbs) ELSE [verbs EXCEPT ![1].units = @ \ {u}]

\* Mutant of SegmentWrite: the whole node.
SegmentWriteNode(n, k, path) ==
    LET l == HashOf[k]
        r == At(path[1])
    IN  /\ image' = [mem EXCEPT ![n] = Store(Fetched(n, k), k, path)]
        /\ writes' = <<Verb(n, Slot)>>
        /\ vacancy' = IF vaLock
                      THEN [vacancy EXCEPT ![n] = update_vacancy(@, l, r, {})]
                      ELSE vacancy

\* segment_write_and_unlock: the slots from the home to the one that was empty,
\* in two verbs around the end of the node.
SegmentWrite(n, k, path) ==
    LET l == HashOf[k]
        r == At(path[1])
        verb(slots) == Verb(n, slots \cup ReplicasIn(slots))
        verbs == IF l <= r THEN <<verb(l .. r)>>
                 ELSE <<verb(0 .. r), verb(l .. Span - 1)>>
    IN  /\ image' = [mem EXCEPT ![n] = Store(Fetched(n, k), k, path)]
        /\ writes' = verbs
        /\ vacancy' = IF vaLock
                      THEN [vacancy EXCEPT ![n] = update_vacancy(@, l, r, {})]
                      ELSE vacancy

\* hopscotch_get_split_key: keys one of which must go to make room for k, in the
\* order of their slots, and the median of them and k.
CriticalKeys(n, k) ==
    LET home == HashOf[k]
        empty == EmptySlots(n, home, Span)
        last == IF empty = {} THEN home + Span - 1 ELSE First(empty) - 1
    IN  SelectSeq([i \in 1 .. last - home + 1 |-> home + i - 1],
                  LAMBDA e : Path(n, home, e) # <<>>)

\* Mutant of SplitKey: the largest instead of the median.
SplitKeyLast(n, k) ==
    LET slots == CriticalKeys(n, k)
        keys == [i \in DOMAIN slots |-> n[At(slots[i])].key] \o <<k>>
    IN  1 + CHOOSE x \in {keys[i] : i \in DOMAIN keys} :
                \A i \in DOMAIN keys : keys[i] <= x

SplitKey(n, k) ==
    LET slots == CriticalKeys(n, k)
        keys == [i \in DOMAIN slots |-> n[At(slots[i])].key] \o <<k>>
        below(x) == Cardinality({i \in DOMAIN keys : keys[i] < x})
        upTo(x) == Cardinality({i \in DOMAIN keys : keys[i] <= x})
    IN  CHOOSE x \in {keys[i] : i \in DOMAIN keys} :
            below(x) <= Len(keys) \div 2 /\ Len(keys) \div 2 < upTo(x)

\* Slots whose records go to the synonym leaf.
Moved(n, k) == {s \in Slot : n[s].key # NoKey /\ n[s].key >= SplitKey(n, k)}

\* Their bits in the hop bitmap of slot u.
MovedBits(n, k, u) ==
    {(s - HashOf[n[s].key]) % Span : s \in {t \in Moved(n, k) : HashOf[n[t].key] = u}}

\* What stays, and what goes, both in the slots where it was.
Kept(n, k) ==
    [u \in Unit |-> [n[u] EXCEPT !.key = IF u \in Moved(n, k) THEN NoKey ELSE @,
                                 !.hop = @ \ MovedBits(n, k, u)]]

Gone(n, k) ==
    [u \in Unit |-> [EmptyNode[u] EXCEPT !.key = IF u \in Moved(n, k) THEN n[u].key ELSE @,
                                         !.hop = MovedBits(n, k, u)]]

\* hopscotch_insert_locally, unchanged where the code would assert(false).
InsertLocally(n, k) ==
    LET path == PathFor(n, k, Span) IN IF path = <<>> THEN n ELSE Store(n, k, path)

SplitLeaf(n, k) == IF k < SplitKey(n, k) THEN InsertLocally(Kept(n, k), k) ELSE Kept(n, k)
SplitSyn(n, k) == IF k < SplitKey(n, k) THEN Gone(n, k) ELSE InsertLocally(Gone(n, k), k)

\* Mutant of NextVersion: the version stays.
NextVersionSame(n) == n

\* encode_node_versions: one version for the node, counted on from its first object.
NextVersion(n) ==
    LET ver == n[IF replicas THEN Meta ELSE 0].ver
    IN  [u \in Unit |-> [n[u] EXCEPT !.ver = IF u \in NodeUnits THEN ver + 1 ELSE 0]]

\* The synonym leaf as a whole, then the leaf as a whole.
SplitVerbs == <<Verb("syn", NodeUnits), Verb("leaf", NodeUnits)>>

\* hopscotch_split_and_unlock, after the rest of the node was read.
Split(k) ==
    LET old == [u \in Unit |-> IF u \in Slot THEN mem["leaf"][u] ELSE Fetched("leaf", k)[u]]
        leaf == SplitLeaf(old, k)
        new == [leaf |-> [u \in Unit |-> [leaf[u] EXCEPT !.ptr = u \in Metas]],
                syn |-> SplitSyn(old, k)]
        empty(n) == {s \in Slot : new[n][s].key = NoKey}
    IN  /\ image' = [n \in NodeName |-> NextVersion(new[n])]
        /\ writes' = SplitVerbs
        /\ vacancy' = IF vaLock
                      THEN [n \in NodeName |->
                                update_vacancy(vacancy[n], 0, Span - 1, empty(n))]
                      ELSE vacancy

WriteNothing == writes' = <<>> /\ UNCHANGED <<image, vacancy>>

\* The insert of k gets the lock: what it is going to write.  In a hop-full
\* synonym leaf it gives the key up.
Insert(k) ==
    LET path == PathFor(Fetched("leaf", k), k, ReadNum("leaf", k))
        synPath == PathFor(Fetched("syn", k), k, ReadNum("syn", k))
        isNew == \A s \in Searched(k) : mem["leaf"][s].key # k
        hasSyn == Fetched("leaf", k)[Meta].ptr
    IN  /\ ~Locked
        /\ k \in acked => ~replicas /\ again < MaxAgain
        /\ again' = IF k \in acked THEN again + 1 ELSE again
        /\ ikey' = k
        /\ \/ ~isNew /\ WriteNothing
           \/ isNew /\ path # <<>> /\ SegmentWrite("leaf", k, path)
           \/ isNew /\ path = <<>> /\ ~hasSyn /\ Split(k)
           \/ isNew /\ path = <<>> /\ hasSyn /\ synPath # <<>>
              /\ SegmentWrite("syn", k, synPath)
           \/ isNew /\ path = <<>> /\ hasSyn /\ synPath = <<>> /\ WriteNothing
        /\ lost' = (isNew /\ path = <<>> /\ hasSyn /\ synPath = <<>>)
        /\ UNCHANGED <<vaLock, replicas, mem, acked, readVars>>

\* The new synonym leaf arrives in memory, at once: nobody knows its address.
WriteSynonym ==
    /\ writes # <<>> /\ Head(writes).node = "syn"
    /\ \A u \in Metas : ~mem["leaf"][u].ptr
    /\ mem' = [mem EXCEPT !["syn"] = image["syn"]]
    /\ writes' = Tail(writes)
    /\ UNCHANGED <<vaLock, replicas, vacancy, ikey, image, again, acked, lost, readVars>>

\* One unit of the current verb arrives in memory.
WriteUnit ==
    /\ writes # <<>>
    /\ Head(writes).node = "syn" => \E u \in Metas : mem["leaf"][u].ptr
    /\ LET verb == Head(writes)
       IN  \E u \in verb.units :
              /\ mem' = [mem EXCEPT ![verb.node][u] = image[verb.node][u]]
              /\ writes' = WithoutUnit(writes, u)
    /\ UNCHANGED <<vaLock, replicas, vacancy, ikey, image, again, acked, lost, readVars>>

\* The lock word, last, and insert returns.
Unlock ==
    /\ Locked /\ writes = <<>>
    /\ ikey' = NoKey
    /\ image' = EmptyImage
    /\ acked' = IF lost THEN acked ELSE acked \cup {ikey}
    /\ lost' = FALSE
    /\ UNCHANGED <<vaLock, replicas, mem, vacancy, writes, again, readVars>>

-----------------------------------------------------------------------------
(* _search, which reads without the lock, and the update that follows *)

Neighbourhood(k) == Around(HashOf[k], Neighbor)

\* hopscotch_fetch_nodes: of every node the header, with the part of the
\* neighbourhood that lies around the end, then the rest; with replicas there is
\* no header to read.
Fetch(nodes, k) ==
    LET rest == {s \in Neighbourhood(k) : s >= HashOf[k]}
        front == Neighbourhood(k) \ rest
        verb(n, slots) == Verb(n, slots \cup ReplicasIn(slots))
        verbs(n) == IF ~replicas THEN <<Verb(n, {Meta} \cup front), Verb(n, rest)>>
                    ELSE IF front = {} THEN <<verb(n, rest)>>
                    ELSE <<verb(n, front), verb(n, rest)>>
    IN  /\ batch' = nodes
        /\ unread' = (IF "leaf" \in nodes THEN verbs("leaf") ELSE <<>>)
                     \o (IF "syn" \in nodes THEN verbs("syn") ELSE <<>>)

SearchBegin(k) ==
    /\ rd = "idle"
    /\ rd' = "fetch"
    /\ rkey' = k
    /\ known' = FALSE
    /\ Fetch({"leaf"}, k)
    /\ buf' = EmptyImage
    /\ before' = (k \in acked)
    /\ UNCHANGED <<vaLock, replicas, writeVars, place, missed>>

\* One unit of the current verb is read.
ReadUnit ==
    /\ unread # <<>>
    /\ LET verb == Head(unread)
       IN  \E u \in verb.units :
              /\ buf' = [buf EXCEPT ![verb.node][u] = mem[verb.node][u]]
              /\ unread' = WithoutUnit(unread, u)
    /\ UNCHANGED <<vaLock, replicas, writeVars, rd, rkey, known, batch, place, missed, before>>

\* Mutant of TornNode: the header's version is never set.
TornNodeZero(n) == \E s \in Neighbourhood(rkey) : buf[n][s].ver # 0

\* The node versions of the header, or the replica, and the segments differ.
TornNode(n) ==
    \E s \in Neighbourhood(rkey) :
        buf[n][s].ver # MetadataOf(buf[n], Neighbourhood(rkey)).ver

HasSynonym == MetadataOf(buf["leaf"], Neighbourhood(rkey)).ptr

\* re_fetch
Refetch ==
    /\ rd = "fetch" /\ unread = <<>>
    /\ \E n \in batch : TornNode(n)
    /\ Fetch(batch, rkey)
    /\ buf' = [n \in NodeName |-> IF n \in batch THEN EmptyNode ELSE buf[n]]
    /\ UNCHANGED <<vaLock, replicas, writeVars, rd, rkey, known, place, missed, before>>

Arrived == rd = "fetch" /\ unread = <<>> /\ ~\E n \in batch : TornNode(n)

\* The leaf has a synonym leaf: read it too.
FetchSynonym ==
    /\ Arrived
    /\ ~known /\ HasSynonym
    /\ known' = TRUE
    /\ Fetch({"syn"}, rkey)
    /\ UNCHANGED <<vaLock, replicas, writeVars, rd, rkey, buf, place, missed, before>>

HasKey(n) == \E s \in Neighbourhood(rkey) : n[s].key = rkey

\* Mutant of HopConsistent: the bitmap is not compared.
HopConsistentAlways(n) == TRUE

\* The hop bitmap that the entries read show is the one of the home.
HopConsistent(n) ==
    {o \in Offset : LET key == n[At(HashOf[rkey] + o)].key
                    IN  key # NoKey /\ HashOf[key] = HashOf[rkey]}
        = n[HashOf[rkey]].hop

ReadAll == Arrived /\ (known \/ ~HasSynonym)
InLeaf == HasKey(buf["leaf"])
Consistent == HopConsistent(buf["leaf"])
InSyn == known /\ HasKey(buf["syn"])
SynConsistent == known => HopConsistent(buf["syn"])

\* re_read: a record hopped meanwhile.
Reread ==
    /\ ReadAll
    /\ ~InLeaf /\ (~Consistent \/ (~InSyn /\ ~SynConsistent))
    /\ Fetch(IF known THEN NodeName ELSE {"leaf"}, rkey)
    /\ buf' = EmptyImage
    /\ UNCHANGED <<vaLock, replicas, writeVars, rd, rkey, known, place, missed, before>>

\* Mutant of Found: the node read last.
FoundLast ==
    /\ ReadAll
    /\ InLeaf \/ (Consistent /\ InSyn)
    /\ place' = IF known THEN "syn" ELSE "leaf"
    /\ rd' = "found"
    /\ known' = FALSE /\ batch' = {} /\ buf' = EmptyImage
    /\ before' = FALSE
    /\ UNCHANGED <<vaLock, replicas, writeVars, rkey, unread, missed>>

\* The key is there, in the leaf or else in the synonym leaf.
Found ==
    /\ ReadAll
    /\ \/ InLeaf /\ place' = "leaf"
       \/ ~InLeaf /\ Consistent /\ InSyn /\ place' = "syn"
    /\ rd' = "found"
    /\ known' = FALSE /\ batch' = {} /\ buf' = EmptyImage
    /\ before' = FALSE
    /\ UNCHANGED <<vaLock, replicas, writeVars, rkey, unread, missed>>

Ended == rd' = "idle" /\ rkey' = NoKey /\ known' = FALSE /\ batch' = {}
         /\ buf' = EmptyImage /\ place' = "none" /\ before' = FALSE

\* The key is in none of them.
NotFound ==
    /\ ReadAll
    /\ ~InLeaf /\ Consistent /\ ~InSyn /\ SynConsistent
    /\ Ended
    /\ missed' = (missed \/ before)
    /\ UNCHANGED <<vaLock, replicas, writeVars, unread>>

\* A search ends here, an update locks the leaf, finds the key again and writes
\* its entry; values are left out, so neither changes a node.
Return ==
    /\ rd = "found"
    /\ Ended
    /\ UNCHANGED <<vaLock, replicas, writeVars, unread, missed>>

Writer == WriteSynonym \/ WriteUnit \/ Unlock
Reader == ReadUnit \/ Refetch \/ FetchSynonym \/ Reread \/ Found \/ NotFound \/ Return

Next == (\E k \in Key : Insert(k)) \/ (\E k \in SearchKey : SearchBegin(k)) \/ Writer \/ Reader

Spec == Init /\ [][Next]_vars

\* A thread polls its completions for ever, so what it posted goes on; nobody
\* has to start an operation.
FairSpec == Spec /\ WF_vars(Writer) /\ WF_vars(Reader)

-----------------------------------------------------------------------------
(* What holds *)

\* While nobody holds the lock, every record lies in the neighbourhood of its
\* home, the hop bitmaps name the places of the records and no others, the vacancy
\* bits tell which slots are taken, and the replicas of the metadata are equal.  So
\* the asserts of set_hop_bit, unset_hop_bit and decode_node_metadata hold, and a
\* search that compares bitmaps comes to an end (LeafNode.h,
\* hopscotch_insert_and_unlock, VALock::update_vacancy, MetadataManager.h).
BitmapsExact ==
    ~Locked =>
        \A n \in NodeName, slot \in Slot :
            LET places == {o \in 0 .. Span - 1 :
                              LET key == mem[n][At(slot + o)].key
                              IN  key # NoKey /\ HashOf[key] = slot}
            IN  /\ places \subseteq Offset
                /\ mem[n][slot].hop = places
                /\ replicas => \A u \in Metas : mem[n][u] = mem[n][Meta]
                /\ vaLock => (find_bucket(slot) \in vacancy[n]
                                <=> mem[n][slot].key # NoKey)

\* A key lies twice in the leaf.  Inserts of a key that is there make this happen
\* with VACANCY_AWARE_LOCK, whose check for existing keys does not see every slot.
Twins == \E s, t \in Slot : s # t /\ mem["leaf"][s].key # NoKey
                            /\ mem["leaf"][s].key = mem["leaf"][t].key

\* "calculate a proper split key to ensure k can be inserted after node split":
\* whenever an insert is about to split the leaf there are critical keys, and the
\* half that k goes to has room for it (hopscotch_get_split_key and the asserts
\* of hopscotch_insert_locally), unless a key lies twice in the leaf.
SplitFits ==
    ~Locked /\ ~mem["leaf"][Meta].ptr /\ ~Twins =>
        \A k \in Key :
            \/ \E s \in Slot : mem["leaf"][s].key = k
            \/ PathFor(Fetched("leaf", k), k, ReadNum("leaf", k)) # <<>>
            \/ LET n == mem["leaf"]
               IN  /\ CriticalKeys(n, k) # <<>>
                   /\ PathFor(IF k < SplitKey(n, k) THEN Kept(n, k) ELSE Gone(n, k),
                              k, Span) # <<>>

\* A key whose insert returned without the hop-full message stays stored, in the
\* leaf or in the synonym leaf, through every later insert, hop and split: a
\* segment written back from a partly fetched node erases nothing (insert).
NoneErased ==
    ~Locked => \A k \in acked : \E n \in NodeName, s \in Slot : mem[n][s].key = k

\* A record that replaces another one in a slot has its home farther away, as
\* long as the node is not written as a whole: the hop loop takes the first record
\* that may hop.  So no two records of one home follow each other in a slot, and
\* that is why comparing hop bitmaps is enough for a search that reads the slots
\* one by one (hopscotch_insert_and_unlock, _search).
OffsetsGrow ==
    [][\A n \in NodeName, s \in Slot :
          LET old == mem[n][s]
              new == mem'[n][s]
          IN  new.key # old.key /\ NoKey \notin {old.key, new.key} /\ new.ver = old.ver
                => (s - HashOf[new.key]) % Span > (s - HashOf[old.key]) % Span]_vars

\* A search never misses a key that was stored before it began, whatever inserts,
\* hops and splits go on while it reads: the node versions or the hop bitmap tell
\* it to read again (_search, hopscotch_fetch_nodes).
SearchFinds == ~missed

\* The key that a search found is still where update looks for it once it has the
\* lock: in that node, or, if the leaf was split meanwhile, in its synonym leaf.
\* The asserts "key is moved to the synonym leaf" hold (update).
UpdateFinds ==
    rd = "found" /\ ~Locked =>
        \/ HasKey(mem[place])
        \/ place = "leaf" /\ mem["leaf"][Meta].ptr /\ HasKey(mem["syn"])

\* A search returns: it reads again only while inserts write, and the keys, and
\* the room for them, are finite (re_read of _search, re_fetch).
SearchReturns == rd # "idle" ~> rd = "idle"
=============================================================================
