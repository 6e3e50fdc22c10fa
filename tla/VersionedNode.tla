---------------------------- MODULE VersionedNode ----------------------------
(***************************************************************************)
(* Reading a node without its lock while a lock holder overwrites it:      *)
(* write_node_and_unlock and fetch_node of src/src/Rolex.cpp with the      *)
(* version bytes of src/include/VersionManager.h.                          *)
(*                                                                         *)
(* The network card moves a node cache line by cache line, in no           *)
(* particular order.  Every whole-node write carries the next node         *)
(* version, a 4-bit counter, in all its version bytes; a reader accepts an *)
(* image whose version bytes all agree and reads again otherwise.          *)
(*                                                                         *)
(* A cache line is modelled by the number of the write it comes from.      *)
(* Writers are serialised by the leaf lock (module RolexIndex), so one     *)
(* write is under way at a time; readers do not affect anybody, so one     *)
(* stands for all.                                                         *)
(***************************************************************************)
EXTENDS Integers

CONSTANTS Line,       \* cache lines a node occupies
          Tagged,     \* those that hold at least one of its version bytes
          Modulus,    \* 2 ^ define::nodeVersionBit
          MaxWrites   \* bound on the number of writes

ASSUME LineAssumption == Line # {} /\ Tagged \subseteq Line
ASSUME ModulusAssumption == Modulus \in Nat /\ Modulus > 1
ASSUME MaxWritesAssumption == MaxWrites \in Nat

VARIABLES
    gen,      \* number of the latest write
    pending,  \* its lines that are not in memory yet
    mem,      \* mem[l]: the write line l comes from
    rd,       \* "idle", "reading" or "accepted"
    unread,   \* lines the current read has still to fetch
    buf,      \* raw_buffer: the lines fetched
    floor,    \* history: mem when the current read began
    seen      \* history: the writes memory held completely, at some moment
              \* of the current read

writeVars == <<gen, pending, mem>>
readVars == <<rd, unread, buf, floor>>
vars == <<writeVars, readVars, seen>>

\* A zeroed region: every line from "write 0", every version byte 0.
Init ==
    /\ gen = 0
    /\ pending = {}
    /\ mem = [l \in Line |-> 0]
    /\ rd = "idle"
    /\ unread = {}
    /\ buf = [l \in Line |-> 0]
    /\ floor = [l \in Line |-> 0]
    /\ seen = {}

Whole(m) == {g \in 0 .. MaxWrites : \A l \in Line : m[l] = g}
SeenNow == seen' = seen \cup Whole(mem')

NodeVersion(g) == g % Modulus

-----------------------------------------------------------------------------
(* Writer *)

\* A read lasts less than Modulus writes: a node version cannot come round
\* while a reader is at it.  The code has no such check; it rests on a write
\* under a lock taking longer than a read.
NoWrap == rd = "reading" => \A l \in Line : gen + 1 - floor[l] < Modulus

\* encode_node_versions: the image of the whole node, version incremented.
BeginWrite ==
    /\ pending = {}
    /\ gen < MaxWrites
    /\ NoWrap
    /\ gen' = gen + 1
    /\ pending' = Line
    /\ UNCHANGED <<mem, readVars, seen>>

WriteLine(l) ==
    /\ l \in pending
    /\ mem' = [mem EXCEPT ![l] = gen]
    /\ pending' = pending \ {l}
    /\ SeenNow
    /\ UNCHANGED <<gen, readVars>>

-----------------------------------------------------------------------------
(* Reader *)

StartRead ==
    /\ rd' = "reading"
    /\ unread' = Line
    /\ buf' = [l \in Line |-> 0]
    /\ floor' = mem
    /\ seen' = Whole(mem)
    /\ UNCHANGED writeVars

\* fetch_node is called ...
BeginRead == rd # "reading" /\ StartRead

ReadLine(l) ==
    /\ rd = "reading"
    /\ l \in unread
    /\ buf' = [buf EXCEPT ![l] = mem[l]]
    /\ unread' = unread \ {l}
    /\ UNCHANGED <<writeVars, rd, floor, seen>>

\* Mutant of Consistent: some two version bytes that agree are enough.
ConsistentEnds ==
    \E i, j \in Tagged : i # j /\ NodeVersion(buf[i]) = NodeVersion(buf[j])

\* Mutant of Consistent: one side is not truncated to nodeVersionBit bits.
ConsistentWide ==
    \A i, j \in Tagged : NodeVersion(buf[i]) = buf[j]

\* decode_node_versions: the versions of the metadata, of every record and of
\* every cache line agree.
Consistent ==
    \A i, j \in Tagged : NodeVersion(buf[i]) = NodeVersion(buf[j])

\* ... and returns the image, ...
Accept ==
    /\ rd = "reading"
    /\ unread = {}
    /\ Consistent
    /\ rd' = "accepted"
    /\ UNCHANGED <<writeVars, unread, buf, floor, seen>>

\* ... or goes to re_read.
ReRead ==
    /\ rd = "reading"
    /\ unread = {}
    /\ ~Consistent
    /\ StartRead

Next ==
    \/ BeginWrite
    \/ \E l \in Line : WriteLine(l)
    \/ BeginRead
    \/ \E l \in Line : ReadLine(l)
    \/ Accept
    \/ ReRead

Spec == Init /\ [][Next]_vars

\* The card finishes the reads and writes it was given.
FairSpec == Spec /\ WF_vars(\E l \in Line : WriteLine(l))
                 /\ WF_vars((\E l \in Line : ReadLine(l)) \/ Accept \/ ReRead)
-----------------------------------------------------------------------------
\* The writer's lines and the reader's lines are those of the node.
TypeOK ==
    /\ gen \in 0 .. MaxWrites
    /\ pending \subseteq Line
    /\ mem \in [Line -> 0 .. MaxWrites]
    /\ rd \in {"idle", "reading", "accepted"}
    /\ unread \subseteq Line
    /\ buf \in [Line -> 0 .. MaxWrites]
    /\ floor \in [Line -> 0 .. MaxWrites]
    /\ seen \subseteq 0 .. MaxWrites

\* fetch_node returns a snapshot: an image that decode_node_versions accepts
\* is the image of one write, and memory held exactly that image at some
\* moment between the start of the read and its end.
ReadsAreSnapshots ==
    rd = "accepted" => \E g \in seen : \A l \in Line : buf[l] = g

\* A reader is sent to re_read only by writes that overlap its read: once no
\* more writes come, the loop of fetch_node ends.
ReadsReturn == rd = "reading" ~> rd = "accepted"
=============================================================================
