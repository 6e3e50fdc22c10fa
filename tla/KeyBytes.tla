------------------------------ MODULE KeyBytes ------------------------------
(***************************************************************************)
(* Keys as arrays of bytes, as the leaves store and compare them, and as   *)
(* the integers that the learned models are trained on and asked for       *)
(* (src/include/Key.h).  LearnedIndex and RolexIndex use integers only:    *)
(* the facts below say when that is sound.                                 *)
(***************************************************************************)
EXTENDS Integers, SequencesExt

CONSTANTS Base,     \* values of a byte: 2 ^ 8
          KeyLen,   \* define::keyLen
          Word,     \* bytes of an uint64_t
          Wide,     \* bytes of an __uint128_t
          Max64     \* kKeyMax where KEY_SPACE_LIMIT is defined, 0 elsewhere

Byte == 0 .. Base - 1
Key == [1 .. KeyLen -> Byte]
UInt64 == 0 .. Base ^ Word - 1

kKeyMin == 1
kkeyNull == [i \in 1 .. KeyLen |-> 0]

\* std::array::operator<, the order of the records of a leaf.
Less(a, b) == \E i \in 1 .. KeyLen : /\ a[i] < b[i]
                                     /\ \A j \in 1 .. i - 1 : a[j] = b[j]

\* A shift drops what leaves the word on the left.
Shift(w, n, byte) == (n * Base + byte) % Base ^ w

key2int(k) == FoldLeft(LAMBDA n, byte : Shift(Word, n, byte), 0, k)

\* The first bytes, as many as fit.
key2int128(k) ==
    LET len == IF KeyLen < Wide THEN KeyLen ELSE Wide
    IN  FoldLeft(LAMBDA n, byte : Shift(Wide, n, byte), 0, SubSeq(k, 1, len))

int2key(n) ==
    LET key == IF Max64 > 0 THEN (n % (Max64 - kKeyMin)) + kKeyMin
               ELSE IF n = key2int(kkeyNull) THEN kKeyMin ELSE n
    IN  [i \in 1 .. KeyLen |->
            IF KeyLen - i >= Word THEN 0 ELSE (key \div Base ^ (KeyLen - i)) % Base]

\* The bytes of a string, cut or filled with 0.
str2key(s) == [i \in 1 .. KeyLen |-> IF i <= Len(s) THEN s[i] ELSE 0]

\* a + b: what is carried into the byte that has n bytes on its right.
Carry(a, b) ==
    LET carry[n \in 0 .. KeyLen - 1] ==
            IF n = 0 THEN b ELSE (a[KeyLen - n + 1] + carry[n - 1]) \div Base
    IN  carry
Plus(a, b) == [i \in 1 .. KeyLen |-> (a[i] + Carry(a, b)[KeyLen - i]) % Base]

\* a - b: likewise what is borrowed from it.
Borrowed(byte, b) == CHOOSE c \in 0 .. b : /\ byte + c * Base >= b
                                           /\ \A e \in 0 .. c - 1 : byte + e * Base < b
Borrow(a, b) ==
    LET borrow[n \in 0 .. KeyLen - 1] ==
            IF n = 0 THEN b ELSE Borrowed(a[KeyLen - n + 1], borrow[n - 1])
    IN  borrow
Minus(a, b) ==
    [i \in 1 .. KeyLen |->
        LET b1 == Borrow(a, b)[KeyLen - i] IN a[i] + Borrowed(a[i], b1) * Base - b1]

\* add_one: the bytes at their maximum on the right become 0, the one before
\* them grows.
add_one(a) ==
    LET full == {i \in 1 .. KeyLen : \A j \in i .. KeyLen : a[j] = Base - 1}
    IN  [i \in 1 .. KeyLen |->
            IF i \in full THEN 0
            ELSE IF \A j \in i + 1 .. KeyLen : j \in full THEN a[i] + 1 ELSE a[i]]

-----------------------------------------------------------------------------

\* The integers of keys are ordered as the keys are, strictly if the whole key
\* fits into the integer: the leaf a model predicts is where the order of the
\* records puts the key.
IntegersInOrder ==
    \A a, b \in Key : Less(a, b) =>
        /\ key2int128(a) <= key2int128(b)
        /\ KeyLen <= Wide => key2int128(a) < key2int128(b)

\* int2key and key2int are inverse to each other, and no integer becomes the
\* null key, with which the leaves mark empty slots.
IntegersAreKeys ==
    \A n \in UInt64 :
        /\ int2key(n) # kkeyNull
        /\ (n # 0 /\ Max64 = 0) => key2int(int2key(n)) = n

\* The arithmetic of keys is that of their integers, modulo the size of the
\* space of keys: range_query(k, k + n) covers n keys unless it wraps around,
\* and then its end lies before its start.
ArithmeticAgrees ==
    \A k \in Key, b \in Byte :
        LET n == key2int(k)
            size == Base ^ KeyLen
        IN  /\ key2int(Plus(k, b)) = (n + b) % size
            /\ key2int(Minus(k, b)) = (n + size - b) % size
            /\ add_one(k) = Plus(k, 1)
            /\ b > 0 => (Less(Plus(k, b), k) <=> n + b >= size)

\* A string that starts as another key does is ordered after it.
StringsInOrder ==
    \A k \in Key, n \in 0 .. KeyLen :
        LET prefix == str2key(SubSeq(k, 1, n))
        IN  ~Less(k, prefix) /\ str2key(Append(k, 1)) = k
=============================================================================
