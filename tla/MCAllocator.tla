----------------------------- MODULE MCAllocator -----------------------------
(* Allocator with two sizes: a block that fits once, and one that fits twice *)
(* into a chunk; the larger alignment is not a divisor of the chunk size.    *)
(* Beside it the words that hold the addresses it hands out.                 *)
EXTENDS Allocator

MCRequest == {<<2, 2>>, <<3, 1>>}

Words == INSTANCE AddressWords WITH
    NodeSpan <- 8, OffsetSpan <- 16, MnSpan <- 4, Align <- 4, LenSpan <- 4,
    MemoryNodeNum <- 2

ASSUME AddressesInWords ==
    Words!WordsAreAddresses /\ Words!ArithmeticStays /\ Words!PointersAreValues
=============================================================================
