---------------------------- MODULE AddressWords ----------------------------
(***************************************************************************)
(* Addresses of the shared memory as 64-bit words: GlobalAddress           *)
(* (src/include/GlobalAddress.h), the shorter PackedGAddr and, in the      *)
(* build with ENABLE_VAR_LEN_KV, the DataPointer that takes the place of   *)
(* a value (src/include/Metadata.h).  The modules that have addresses take *)
(* them for what they stand for; the facts below justify that.             *)
(***************************************************************************)
EXTENDS Integers

CONSTANTS NodeSpan,    \* 2 ^ 16, values of nodeID
          OffsetSpan,  \* 2 ^ 48, values of offset
          MnSpan,      \* 2 ^ define::mnIdBit
          Align,       \* 2 ^ PACKED_ADDR_ALIGN_BIT
          LenSpan,     \* 2 ^ (64 - define::packedGaddrBit)
          MemoryNodeNum

GlobalAddress(n, o) == [nodeID |-> n % NodeSpan, offset |-> o % OffsetSpan]
Address == [nodeID : 0 .. NodeSpan - 1, offset : 0 .. OffsetSpan - 1]

\* The union: nodeID is the lower part of val.
to_uint64(a) == a.offset * NodeSpan + a.nodeID
FromVal(val) == GlobalAddress(val % NodeSpan, val \div NodeSpan)

Null == FromVal(0)
Max == GlobalAddress(MemoryNodeNum, 0)

Plus(a, b) == GlobalAddress(a.nodeID, a.offset + b)
Minus(a, b) == GlobalAddress(a.nodeID, a.offset - b)

\* operator<: that of the pairs.
Less(a, b) == \/ a.nodeID < b.nodeID
              \/ a.nodeID = b.nodeID /\ a.offset < b.offset

\* PackedGAddr and its conversions.
PackedGAddr(a) == [mn_id |-> a.nodeID % MnSpan,
                   offset |-> (a.offset \div Align) % (OffsetSpan \div Align)]
Unpacked(p) == GlobalAddress(p.mn_id, p.offset * Align)
PackedWord(p) == p.offset * MnSpan + p.mn_id
FromPackedWord(w) == [mn_id |-> w % MnSpan, offset |-> w \div MnSpan]

\* DataPointer: its word, which is stored as the value, and the two fields the
\* reader casts it to.
DataPointer(len, a) == [data_len |-> len % LenSpan, ptr |-> PackedGAddr(a)]
PointerWord(d) == PackedWord(d.ptr) * LenSpan + d.data_len
FromPointerWord(w) == [data_len |-> w % LenSpan, ptr |-> FromPackedWord(w \div LenSpan)]

-----------------------------------------------------------------------------

Stored == {a \in Address : a.nodeID < MemoryNodeNum}

\* An address survives the way through a word of metadata or of a message, two
\* addresses are equal when their words are, and Max, with which
\* insert_into_syn_leaf_locally reports an existing key, is no leaf's address.
WordsAreAddresses ==
    \A a \in Address :
        /\ FromVal(to_uint64(a)) = a
        /\ \A b \in Address : to_uint64(a) = to_uint64(b) <=> a = b
        /\ a \in Stored => a # Max /\ Less(a, Max)

\* Address arithmetic stays on the node and is undone by its reverse.
ArithmeticStays ==
    \A a \in Address, n \in 0 .. OffsetSpan - 1 :
        /\ Minus(Plus(a, n), n) = a
        /\ Plus(a, n).nodeID = a.nodeID
        /\ a.offset + n < OffsetSpan /\ n > 0 => Less(a, Plus(a, n))

\* The reader of a value finds the block and the length that its writer put
\* there, given that the block is aligned as insert and update ask alloc for;
\* any other block would be looked for before its start.
PointersAreValues ==
    \A a \in Stored, len \in 0 .. LenSpan - 1 :
        LET read == FromPointerWord(PointerWord(DataPointer(len, a)))
        IN  /\ read.data_len = len
            /\ a.offset % Align = 0 => Unpacked(read.ptr) = a
            /\ a.offset % Align # 0 => Less(Unpacked(read.ptr), a)
=============================================================================
