---------------------------- MODULE SegmentLayout ----------------------------
(***************************************************************************)
(* Reading and writing a part of an encoded leaf: get_offset_info and the  *)
(* encode_ and decode_ functions of src/include/VersionManager.h, and of   *)
(* LeafVersionManager.h and MetadataManager.h in the METADATA_REPLICATION  *)
(* build, which puts a copy of the metadata in front of every Neighbor     *)
(* records.                                                                *)
(*                                                                         *)
(* A byte is the place it has in its object, the metadata or a record; a   *)
(* version byte in front of a cache line is a copy of byte 0, h_version,   *)
(* of the object it cuts.  Two images are equal when they have the same    *)
(* bytes of the same objects in the same places.                           *)
(***************************************************************************)
EXTENDS LeafLayout

CONSTANTS EntrySize,   \* define::leafEntrySize
          Span,        \* define::leafSpanSize
          Neighbor,    \* define::neighborSize
          Replicated   \* METADATA_REPLICATION

Metadata == -1
Byte(object, at) == [of |-> object, at |-> at]
Smaller(a, b) == IF a <= b THEN a ELSE b
CeilDiv(x, n) == (x + n - 1) \div n

GroupSize == EntrySize * Neighbor
EntryGroupSize == LeafMetadataSize + GroupSize
EntryGroupNum == (Span \div Neighbor) + (Span % Neighbor)
NodeSize == IF Replicated THEN EntryGroupSize * EntryGroupNum
            ELSE LeafMetadataSize + EntrySize * Span

\* Where record e begins in the decoded node, with the replica in front of it.
DecodedOffset(e) ==
    IF ~Replicated THEN LeafMetadataSize + EntrySize * e
    ELSE LET group == (e \div Neighbor) * EntryGroupSize
         IN  IF e % Neighbor = 0 THEN group
             ELSE group + LeafMetadataSize + EntrySize * (e % Neighbor)

\* Byte d of the decoded node: encode_node_metadata, or the LeafNode as it is.
NodeByte(d) ==
    LET group == IF Replicated THEN d \div EntryGroupSize ELSE 0
        off == d - group * EntryGroupSize
    IN  IF off < LeafMetadataSize THEN Byte(Metadata, off)
        ELSE Byte(group * Neighbor + (off - LeafMetadataSize) \div EntrySize,
                  (off - LeafMetadataSize) % EntrySize)

-----------------------------------------------------------------------------
(* Version bytes *)

\* How long len bytes become when a version byte is put in front of every block
\* after the first ones.
RawLen(len, first) == len + CeilDiv(len - first, BlockSize) * VersionSize

\* The loop of every encode_*_versions, for the bytes of an object of len bytes and
\* the objects they belong to.
Encode(len, first, byte, owner) ==
    [p \in 0 .. RawLen(len, first) - 1 |->
        LET block == (p - first) \div CachelineSize
            at == (p - first) % CachelineSize
            begin == first + block * BlockSize
        IN  IF p < first THEN byte[p]
            ELSE IF at = 0 THEN Byte(owner[begin], 0)
            ELSE byte[begin + at - VersionSize]]

\* The loop of every decode_*_versions: what it copies and whether the version
\* byte of every block is the one of the object in it.
Decode(raw, len, first) ==
    [d \in 0 .. len - 1 |->
        raw[IF d < first THEN d ELSE d + (d - first) \div BlockSize + VersionSize]]

VersionsAgree(raw, len, first, owner) ==
    \A block \in 0 .. CeilDiv(len - first, BlockSize) - 1 :
        raw[first + block * CachelineSize] = Byte(owner[first + block * BlockSize], 0)

NodeFirst == Smaller(CachelineSize, NodeSize)
NodeOwner == [d \in 0 .. NodeSize - 1 |-> NodeByte(d).of]
NodeImage ==
    Encode(NodeSize, NodeFirst, [d \in 0 .. NodeSize - 1 |-> NodeByte(d)], NodeOwner)

-----------------------------------------------------------------------------
(* The segment of n records from s on *)

\* get_offset_info of a version manager: raw_offset, first_offset, raw_length.
RawDistance(d) ==
    IF d <= CachelineSize THEN d - CachelineSize
    ELSE (d - CachelineSize) + CeilDiv(d - CachelineSize, BlockSize) * VersionSize

VersionCount(s) == CeilDiv(DecodedOffset(s) - CachelineSize, BlockSize)

RawOffset(s) ==
    IF DecodedOffset(s) < CachelineSize THEN DecodedOffset(s)
    ELSE DecodedOffset(s) + VersionCount(s) * VersionSize

FirstOffset(s, n) ==
    LET start == DecodedOffset(s)
        line == IF start < CachelineSize THEN CachelineSize
                ELSE CachelineSize + VersionCount(s) * BlockSize
    IN  Smaller(line - start, DecodedOffset(s + n) - start)

RawLength(s, n) == RawDistance(DecodedOffset(s + n)) - RawDistance(DecodedOffset(s))

\* get_offset_info of MetadataManager: first_metadata_offset and new_len.
FirstMetadata(s, n) ==
    IF Replicated
    THEN Smaller(((Neighbor - (s % Neighbor)) % Neighbor) * EntrySize, EntrySize * n)
    ELSE EntrySize * n

SegmentLen(s, n) ==
    EntrySize * n
      + LeafMetadataSize * CeilDiv(EntrySize * n - FirstMetadata(s, n), GroupSize)

\* encode_segment_metadata: byte d of the segment with its replicas.
SegmentByte(s, n, d) ==
    LET first == FirstMetadata(s, n)
        group == (d - first) \div EntryGroupSize
        off == (d - first) % EntryGroupSize
        record(x) == Byte(s + x \div EntrySize, x % EntrySize)
    IN  IF d < first THEN record(d)
        ELSE IF off < LeafMetadataSize THEN Byte(Metadata, off)
        ELSE record(first + group * GroupSize + off - LeafMetadataSize)

\* The object whose version goes in front of byte d: encode_segment_versions.
SegmentOwner(s, n) ==
    [d \in 0 .. SegmentLen(s, n) - 1 |->
        LET first == FirstMetadata(s, n)
            group == (d - first) \div EntryGroupSize
            off == (d - first) % EntryGroupSize
        IN  IF d < first THEN s + d \div EntrySize
            ELSE IF off < LeafMetadataSize THEN Metadata
            ELSE s + first \div EntrySize + group * Neighbor
                   + (off - LeafMetadataSize) \div EntrySize]

SegmentImage(s, n) ==
    Encode(SegmentLen(s, n), FirstOffset(s, n),
           [d \in 0 .. SegmentLen(s, n) - 1 |-> SegmentByte(s, n, d)], SegmentOwner(s, n))

\* What decode_segment_versions copies out of raw, and whether it accepts it before
\* it compares node versions.
DecodeSegment(s, n, raw) == Decode(raw, SegmentLen(s, n), FirstOffset(s, n))
SegmentAccepted(s, n, raw) ==
    VersionsAgree(raw, SegmentLen(s, n), FirstOffset(s, n), SegmentOwner(s, n))

\* decode_header_versions: the metadata, which no version byte cuts.
DecodeHeader(raw) == Decode(raw, LeafMetadataSize, NodeFirst)
HeaderAccepted(raw) == VersionsAgree(raw, LeafMetadataSize, NodeFirst, NodeOwner)

\* Where encode_segment_versions finds the version of record h, to count it on.
HoppedAt(s, n, h) ==
    LET first == FirstMetadata(s, n)
        idx == h - s - first \div EntrySize
    IN  IF idx < 0 THEN (h - s) * EntrySize
        ELSE first + (idx \div Neighbor) * EntryGroupSize + LeafMetadataSize
               + (idx % Neighbor) * EntrySize

\* Where decode_segment_versions finds the node versions that it compares.
NodeVersionsAt(s, n) ==
    LET first == FirstMetadata(s, n)
        left == first \div EntrySize
        group(i) == first + i * EntryGroupSize
    IN  {EntrySize * i : i \in 0 .. left - 1}
          \cup {group(i) : i \in 0 .. CeilDiv(n - left, Neighbor) - 1}
          \cup {group(i \div Neighbor) + LeafMetadataSize + EntrySize * (i % Neighbor) :
                  i \in 0 .. n - left - 1}

\* decode_segment_metadata: the records without the replicas, and whether there
\* was a replica.
SegmentRecords(s, n, segment) ==
    LET first == FirstMetadata(s, n)
    IN  [x \in 0 .. EntrySize * n - 1 |->
            segment[IF x < first THEN x
                    ELSE x + ((x - first) \div GroupSize + 1) * LeafMetadataSize]]

\* decode_node_metadata: byte b of record e.
NodeRecord(node, e, b) ==
    LET group == IF Replicated THEN e \div Neighbor ELSE 0
    IN  node[group * EntryGroupSize + LeafMetadataSize
               + (e - group * Neighbor) * EntrySize + b]

HasMetadata(s, n) == FirstMetadata(s, n) < EntrySize * n

-----------------------------------------------------------------------------
(* Buffers and the lock word behind the last record *)

EncodedSize == RawLen(NodeSize, NodeFirst)
LeafBufferSize == EncodedSize + 16
EntryBufferSize == LeafMetadataSize + EntrySize
                     + CeilDiv(LeafMetadataSize + EntrySize, BlockSize) * VersionSize
MetadataBufferSize ==
    LeafMetadataSize + CeilDiv(LeafMetadataSize, BlockSize) * VersionSize

\* set_buffer: the rings of a coroutine in the order of their places.
Ring == <<[name |-> "cas", cnt |-> 32, size |-> 8],
          [name |-> "lock", cnt |-> 64, size |-> 8],
          [name |-> "leaf", cnt |-> 512, size |-> LeafBufferSize],
          [name |-> "segment", cnt |-> 256, size |-> LeafBufferSize],
          [name |-> "metadata", cnt |-> 32, size |-> MetadataBufferSize],
          [name |-> "entry", cnt |-> 32, size |-> EntryBufferSize],
          [name |-> "zero", cnt |-> 1, size |-> 1],
          [name |-> "zero8", cnt |-> 1, size |-> 8]>>

RingStart[i \in Nat] ==
    IF i <= 1 THEN 0 ELSE RingStart[i - 1] + Ring[i - 1].cnt * Ring[i - 1].size

\* The getters: the buffer handed out after buffer cur.
GetBuffer(i, cur) == (cur + 1) % Ring[i].cnt
BufferAt(i, cur) == RingStart[i] + cur * Ring[i].size

\* Bytes the write of the last n records reads from its buffer when it takes the
\* lock word along, and bytes it fills (segment_write_and_unlock,
\* entry_write_and_unlock).
WithLockRead(n) == RawLength(Span - n, n) + 16
WithLockFilled(n) ==
    RawLength(Span - n, n) + RoundUp(EncodedSize, 8) - EncodedSize + 8

-----------------------------------------------------------------------------
(* What holds of the layout *)

\* A segment's replicas: none, or the whole of every one that lies in it.
Objects(s, n) == s .. s + n - 1 \cup (IF HasMetadata(s, n) THEN {Metadata} ELSE {})

\* The part of a leaf that is read or written at RawOffset is the part of the
\* whole encoded leaf that holds the records and nothing else; segments that
\* follow each other touch (get_offset_info, encode_segment_versions).  The
\* versions that are counted on or compared are those of its records and replicas.
SegmentsMatchNode ==
    \A s \in 0 .. Span - 1 : \A n \in 1 .. Span - s :
        /\ DecodedOffset(s + n) - DecodedOffset(s) = SegmentLen(s, n)
        /\ RawOffset(s) + RawLength(s, n) = RawOffset(s + n)
        /\ \A h \in s .. s + n - 1 : SegmentByte(s, n, HoppedAt(s, n, h)) = Byte(h, 0)
        /\ {SegmentByte(s, n, d) : d \in NodeVersionsAt(s, n)}
             = {Byte(o, 0) : o \in Objects(s, n)}
        /\ LET image == SegmentImage(s, n)
           IN  /\ DOMAIN image = 0 .. RawLength(s, n) - 1
               /\ \A p \in DOMAIN image : image[p] = NodeImage[RawOffset(s) + p]

\* A segment nobody was writing to is accepted, and its records come out as they
\* were (decode_segment_versions, decode_segment_metadata); the same for the node.
SegmentsDecode ==
    /\ Decode(NodeImage, NodeSize, NodeFirst) = [d \in 0 .. NodeSize - 1 |-> NodeByte(d)]
    /\ VersionsAgree(NodeImage, NodeSize, NodeFirst, NodeOwner)
    /\ HeaderAccepted(NodeImage)
    /\ DecodeHeader(NodeImage) = [d \in 0 .. LeafMetadataSize - 1 |-> Byte(Metadata, d)]
    /\ \A e \in 0 .. Span - 1, b \in 0 .. EntrySize - 1 :
          NodeRecord(Decode(NodeImage, NodeSize, NodeFirst), e, b) = Byte(e, b)
    /\ \A s \in 0 .. Span - 1 : \A n \in 1 .. Span - s :
          LET raw == [p \in 0 .. RawLength(s, n) - 1 |-> NodeImage[RawOffset(s) + p]]
          IN  /\ SegmentAccepted(s, n, raw)
              /\ SegmentRecords(s, n, DecodeSegment(s, n, raw))
                   = [x \in 0 .. EntrySize * n - 1 |->
                        Byte(s + x \div EntrySize, x % EntrySize)]

\* The buffers of a coroutine do not overlap, and the calls that take the lock
\* word along fit into a segment buffer.
BuffersApart ==
    /\ \A i \in DOMAIN Ring : \A cur \in 0 .. Ring[i].cnt - 1 :
          /\ BufferAt(i, cur) >= RingStart[i]
          /\ BufferAt(i, cur) + Ring[i].size <= RingStart[i + 1]
          /\ GetBuffer(i, cur) # cur \/ Ring[i].cnt = 1
    /\ \A n \in 1 .. Span :
          WithLockRead(n) <= LeafBufferSize /\ WithLockFilled(n) <= WithLockRead(n)

\* An entry buffer is shorter than what entry_write_and_unlock sends from it when
\* it writes the last record and the lock word in one go: the write takes bytes of
\* the buffer that follows along, into the padding behind the lock word.
EntryBufferShort ==
    /\ WithLockRead(1) > EntryBufferSize
    /\ EncodedSize + 16 >= RawOffset(Span - 1) + WithLockRead(1)
=============================================================================
