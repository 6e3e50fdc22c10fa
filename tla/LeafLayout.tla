----------------------------- MODULE LeafLayout -----------------------------
(***************************************************************************)
(* Where the bytes of an encoded leaf lie: the sizes of                    *)
(* src/include/Common.h, the version bytes encode_node_versions embeds     *)
(* (src/include/VersionManager.h), and the cache lines of remote memory    *)
(* they fall into.  The default build: 16 records of 8-byte keys and       *)
(* values, no hop bitmap, no metadata replicas.                            *)
(***************************************************************************)
EXTENDS Integers

VersionSize == 1
CachelineSize == 64
BlockSize == CachelineSize - VersionSize
LeafMetadataSize == VersionSize + 8
LeafEntrySize == VersionSize + 8 + 8
LeafSpanSize == 16
DecodedLeafSize == LeafMetadataSize + LeafEntrySize * LeafSpanSize

RoundUp(x, n) == ((x + n - 1) \div n) * n

\* One version byte in front of every 63 bytes after the first cache line.
VersionsBefore(d) == (d - CachelineSize + BlockSize - 1) \div BlockSize
TransLeafSize == DecodedLeafSize + VersionsBefore(DecodedLeafSize)

AllocationLeafSize == TransLeafSize + 16
LockOffset == RoundUp(TransLeafSize, 8)

\* get_leaf_address, one memory node; the region starts on a cache line.
LeafOffset(idx) == idx * RoundUp(AllocationLeafSize, 8)

\* The place of decoded byte d in the encoded image.
Encoded(d) ==
    IF d < CachelineSize THEN d
    ELSE d + (d - CachelineSize) \div BlockSize + 1

\* The version bytes of an encoded image: the metadata's, the records', and
\* one every cache line.
VersionBytes ==
    {0} \cup {Encoded(LeafMetadataSize + LeafEntrySize * e) :
              e \in 0 .. LeafSpanSize - 1}
        \cup {CachelineSize * i : i \in 1 .. VersionsBefore(DecodedLeafSize)}

\* The cache lines of memory an image stored at an offset occupies, and those
\* among them that hold a version byte of it.
LinesOf(offset) ==
    {(offset + b) \div CachelineSize : b \in 0 .. TransLeafSize - 1}
TaggedLines(offset) == {(offset + b) \div CachelineSize : b \in VersionBytes}
=============================================================================
