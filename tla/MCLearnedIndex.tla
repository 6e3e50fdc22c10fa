--------------------------- MODULE MCLearnedIndex ---------------------------
(* LearnedIndex, with the conversion of keys to the integers it works on:    *)
(* keys as long as an integer, as in the sources, longer keys, and a limited *)
(* space of keys.  Bytes have three values.                                  *)
EXTENDS LearnedIndex

Short == INSTANCE KeyBytes WITH
    Base <- 3, KeyLen <- 3, Word <- 3, Wide <- 6, Max64 <- 0
Long == INSTANCE KeyBytes WITH
    Base <- 3, KeyLen <- 4, Word <- 2, Wide <- 3, Max64 <- 0
Limited == INSTANCE KeyBytes WITH
    Base <- 3, KeyLen <- 3, Word <- 3, Wide <- 6, Max64 <- 20

ASSUME ShortKeys ==
    /\ Short!IntegersInOrder
    /\ Short!IntegersAreKeys
    /\ Short!ArithmeticAgrees
    /\ Short!StringsInOrder

ASSUME LongKeys == Long!IntegersInOrder /\ Long!IntegersAreKeys

ASSUME LimitedKeys == Limited!IntegersAreKeys
=============================================================================
