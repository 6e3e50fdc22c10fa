-------------------------- MODULE AllocatorProofs --------------------------
(***************************************************************************)
(* Blocks that are in use never overlap and lie where they should, for     *)
(* every number of threads and directories and for all sizes.              *)
(*                                                                         *)
(* The argument is about claims: every byte behind the first chunk of a    *)
(* directory is claimed at most once, by a block in use, by a block in a   *)
(* free list, by what is left of the chunk of a local allocator, by a      *)
(* chunk on its way to a thread, or by what a directory has still to give. *)
(* A step replaces claims by smaller ones: each new claim lies within an   *)
(* old one, its parent, and two claims with the same parent are apart.     *)
(*                                                                         *)
(* In the second part: no MALLOC is lost or answered twice, while a ring   *)
(* has room for one message of each thread beside a batch of buffers.      *)
(* Seen from curMessage, the buffers come in this order around the ring:   *)
(* those that hold a message, those that are posted, those of the current  *)
(* batch that have been looked at; the one in hand is the last.            *)
(***************************************************************************)
EXTENDS Allocator, FiniteSetTheorems, WellFoundedInduction, TLAPS

\* Zenon first: most leaves are first-order.
USE ZenonT(2), SMTT(40), ZenonT(40)

\* The types the arithmetic of the proof needs.
Typed ==
    /\ tail \in [Dir -> Nat]
    /\ reply \in [Thread -> Nat]
    /\ target \in [Thread -> Dir]
    /\ head \in [Thread -> [Dir -> Nat]]
    /\ cur \in [Thread -> [Dir -> Nat]]
    /\ freeList \in [Thread -> [Dir -> Seq(Block)]]
    /\ want \in [Thread -> Request]
    /\ count \in Nat
    /\ live \in SUBSET (Nat \X Nat \X Nat)

Claim(kind, of, lo, hi) == [kind |-> kind, of |-> of, lo |-> lo, hi |-> hi]

LiveClaim(b) == Claim("live", b, b[2], b[2] + b[3])
FreeClaim(t, d, i) ==
    Claim("free", <<t, d, i>>, freeList[t][d][i][1],
          freeList[t][d][i][1] + freeList[t][d][i][2])
WindowClaim(t, d) == Claim("window", <<t, d>>, cur[t][d], head[t][d] + ChunkSize)
ReplyClaim(t) == Claim("reply", t, reply[t], reply[t] + ChunkSize)
TailClaim(d) == Claim("tail", d, Start(d) + tail[d] * ChunkSize, Start(d) + DirSize)

FreeClaims(t, d) == {FreeClaim(t, d, i) : i \in 1 .. Len(freeList[t][d])}

Claims ==
    {LiveClaim(b) : b \in live}
    \cup (UNION {FreeClaims(t, d) : t \in Thread, d \in Dir})
    \cup {WindowClaim(u[1], u[2]) : u \in {v \in Thread \X Dir : head[v[1]][v[2]] # Null}}
    \cup {ReplyClaim(t) : t \in {s \in Thread : reply[s] # Null}}
    \cup {TailClaim(d) : d \in Dir}

Apart(x, y) == x.hi <= y.lo \/ y.hi <= x.lo
Within(x, y) == y.lo <= x.lo /\ x.hi <= y.hi
Region(d) == [lo |-> Start(d) + ChunkSize, hi |-> Start(d) + DirSize]

ClaimsApart == \A x, y \in Claims : x # y => Apart(x, y)
ClaimsInside == \A x \in Claims : \E d \in Dir : Within(x, Region(d))

\* The inductive invariant.
Claimed == Typed /\ ClaimsApart /\ ClaimsInside

-----------------------------------------------------------------------------
(* Arithmetic *)

\* Division cuts off less than one divisor.
LEMMA DivBounds ==
  ASSUME NEW a \in Nat, NEW b \in Nat \ {0}
  PROVE  /\ a \div b \in Nat
         /\ (a \div b) * b <= a
         /\ a < (a \div b) * b + b
BY Z3

\* ROUND_UP never goes back.
LEMMA RoundUpGrows ==
  ASSUME NEW x \in Nat, NEW n \in Nat \ {0}
  PROVE  RoundUp(x, n) \in Nat /\ x <= RoundUp(x, n)
<1>1. x + n - 1 \in Nat
  OBVIOUS
<1>2. QED
  BY <1>1, DivBounds DEF RoundUp

\* Multiples of c are c apart.
LEMMA Multiples ==
  ASSUME NEW a \in Nat, NEW b \in Nat, NEW c \in Nat, a < b
  PROVE  c * a + c <= c * b
BY Z3

\* Sizes and places of a directory's region.
LEMMA DirFacts ==
  ASSUME NEW d \in Dir
  PROVE  /\ d \in Nat
         /\ Start(d) \in Nat
         /\ \A e \in Dir : d < e => Start(d) + DirSize <= Start(e)
<1>1. d \in Nat
  BY SizeAssumption DEF Dir
<1>2. DirSize * d \in Nat
  BY <1>1, SizeAssumption
<1>3. ASSUME NEW e \in Dir, d < e
      PROVE  Start(d) + DirSize <= Start(e)
  <2>1. e \in Nat
    BY SizeAssumption DEF Dir
  <2>2. DirSize * d + DirSize <= DirSize * e /\ DirSize * e \in Nat
    BY <1>1, <2>1, <1>3, Multiples, SizeAssumption
  <2>3. QED
    BY <1>2, <2>2, SizeAssumption DEF Start
<1>4. QED
  BY <1>1, <1>2, <1>3, SizeAssumption DEF Start

\* The chunks that the bitmap of a directory counts lie in its region.
LEMMA ChunkFits ==
  ASSUME NEW n \in Nat, n < BitmapLen
  PROVE  n * ChunkSize \in Nat /\ n * ChunkSize + ChunkSize <= DirSize
<1>1. BitmapLen \in Nat /\ BitmapLen * ChunkSize <= DirSize
  BY DivBounds, SizeAssumption DEF BitmapLen
<1>2. ChunkSize * n + ChunkSize <= ChunkSize * BitmapLen
  BY <1>1, Multiples, SizeAssumption
<1>3. QED
  BY <1>1, <1>2, SizeAssumption

\* A request is a size and an alignment.
LEMMA RequestFacts ==
  ASSUME NEW r \in Request
  PROVE  r[1] \in Nat \ {0} /\ r[2] \in Nat \ {0}
BY RequestAssumption

-----------------------------------------------------------------------------
(* Claims *)

\* The five kinds of claims.
LEMMA KindsOfClaims ==
  \A x \in Claims :
         \/ \E b \in live : x = LiveClaim(b)
         \/ \E t \in Thread, d \in Dir : \E i \in 1 .. Len(freeList[t][d]) :
               x = FreeClaim(t, d, i)
         \/ \E t \in Thread, d \in Dir : head[t][d] # Null /\ x = WindowClaim(t, d)
         \/ \E t \in Thread : reply[t] # Null /\ x = ReplyClaim(t)
         \/ \E d \in Dir : x = TailClaim(d)
BY DEF Claims, FreeClaims

\* Claims are intervals of numbers.
Intervals == \A x \in Claims : x.lo \in Int /\ x.hi \in Int

\* A typed state has only interval claims.
LEMMA ClaimsTyped == Typed => Intervals
<1> SUFFICES ASSUME Typed, NEW x \in Claims
             PROVE  x.lo \in Int /\ x.hi \in Int
  BY DEF Intervals
<1>1. ASSUME NEW b \in live, x = LiveClaim(b)
      PROVE  x.lo \in Int /\ x.hi \in Int
  <2>1. b \in Nat \X Nat \X Nat
    BY DEF Typed
  <2>2. QED
    BY <1>1, <2>1 DEF LiveClaim, Claim
<1>2. ASSUME NEW t \in Thread, NEW d \in Dir, NEW i \in 1 .. Len(freeList[t][d]),
             x = FreeClaim(t, d, i)
      PROVE  x.lo \in Int /\ x.hi \in Int
  <2>1. freeList[t][d][i] \in Nat \X Nat
    BY DEF Typed, Block
  <2>2. QED
    BY <1>2, <2>1 DEF FreeClaim, Claim
<1>3. ASSUME NEW t \in Thread, NEW d \in Dir, x = WindowClaim(t, d)
      PROVE  x.lo \in Int /\ x.hi \in Int
  BY <1>3, SizeAssumption DEF Typed, WindowClaim, Claim
<1>4. ASSUME NEW t \in Thread, x = ReplyClaim(t)
      PROVE  x.lo \in Int /\ x.hi \in Int
  BY <1>4, SizeAssumption DEF Typed, ReplyClaim, Claim
<1>5. ASSUME NEW d \in Dir, x = TailClaim(d)
      PROVE  x.lo \in Int /\ x.hi \in Int
  <2>1. tail[d] * ChunkSize \in Nat
    BY SizeAssumption DEF Typed
  <2>2. QED
    BY <1>5, <2>1, DirFacts, SizeAssumption DEF TailClaim, Claim
<1>6. QED
  BY <1>1, <1>2, <1>3, <1>4, <1>5, KindsOfClaims

\* The same in the next state.
LEMMA KindsOfClaimsNext ==
  \A x \in Claims' :
     \/ \E b \in live' : x = LiveClaim(b)
     \/ \E t \in Thread, d \in Dir : \E i \in 1 .. Len(freeList'[t][d]) :
           x = FreeClaim(t, d, i)'
     \/ \E t \in Thread, d \in Dir : head'[t][d] # Null /\ x = WindowClaim(t, d)'
     \/ \E t \in Thread : reply'[t] # Null /\ x = ReplyClaim(t)'
     \/ \E d \in Dir : x = TailClaim(d)'
BY DEF Claims, FreeClaims, LiveClaim

\* Claims are intervals in the next state, too.
LEMMA ClaimsTypedNext == Typed' => Intervals'
BY ClaimsTyped, PTL

\* The claims of the state are there.
LEMMA MembersOfClaims ==
  /\ \A b \in live : LiveClaim(b) \in Claims
  /\ \A t \in Thread, d \in Dir : \A i \in 1 .. Len(freeList[t][d]) :
        FreeClaim(t, d, i) \in Claims
  /\ \A t \in Thread, d \in Dir : head[t][d] # Null => WindowClaim(t, d) \in Claims
  /\ \A t \in Thread : reply[t] # Null => ReplyClaim(t) \in Claims
  /\ \A d \in Dir : TailClaim(d) \in Claims
<1>1. \A t \in Thread, d \in Dir : head[t][d] # Null => WindowClaim(t, d) \in Claims
  <2> SUFFICES ASSUME NEW t \in Thread, NEW d \in Dir, head[t][d] # Null
               PROVE  WindowClaim(t, d) \in Claims
    OBVIOUS
  <2>1. <<t, d>> \in {v \in Thread \X Dir : head[v[1]][v[2]] # Null}
    OBVIOUS
  <2>2. QED
    BY <2>1 DEF Claims
<1>2. \A t \in Thread, d \in Dir : \A i \in 1 .. Len(freeList[t][d]) :
        FreeClaim(t, d, i) \in Claims
  <2> SUFFICES ASSUME NEW t \in Thread, NEW d \in Dir,
                      NEW i \in 1 .. Len(freeList[t][d])
               PROVE  FreeClaim(t, d, i) \in Claims
    OBVIOUS
  <2>1. FreeClaim(t, d, i) \in FreeClaims(t, d)
    BY DEF FreeClaims
  <2>2. QED
    BY <2>1 DEF Claims
<1>3. \A t \in Thread : reply[t] # Null => ReplyClaim(t) \in Claims
  BY DEF Claims
<1>4. /\ \A b \in live : LiveClaim(b) \in Claims
      /\ \A d \in Dir : TailClaim(d) \in Claims
  BY DEF Claims
<1>5. QED
  BY <1>1, <1>2, <1>3, <1>4

\* A claim of the next state names its owner, and an owner has one claim.
LEMMA OwnersNext ==
  \A x \in Claims' :
     /\ x.kind = "live" => x.of \in live'
     /\ \A t, d, i : x.kind = "free" /\ x.of = <<t, d, i>>
                     => i \in 1 .. Len(freeList'[t][d]) /\ x = FreeClaim(t, d, i)'
     /\ \A t, d : x.kind = "window" /\ x.of = <<t, d>>
                  => head'[t][d] # Null /\ x = WindowClaim(t, d)'
     /\ x.kind = "reply" => reply'[x.of] # Null
     /\ x.kind = "tail" => x = TailClaim(x.of)'
<1> SUFFICES ASSUME NEW x \in Claims'
             PROVE  /\ x.kind = "live" => x.of \in live'
                    /\ \A t, d, i : x.kind = "free" /\ x.of = <<t, d, i>>
                          => /\ i \in 1 .. Len(freeList'[t][d])
                             /\ x = FreeClaim(t, d, i)'
                    /\ \A t, d : x.kind = "window" /\ x.of = <<t, d>>
                                 => head'[t][d] # Null /\ x = WindowClaim(t, d)'
                    /\ x.kind = "reply" => reply'[x.of] # Null
                    /\ x.kind = "tail" => x = TailClaim(x.of)'
  OBVIOUS
<1>1. ASSUME NEW b \in live', x = LiveClaim(b)
      PROVE  x.kind = "live" /\ x.of \in live'
  BY <1>1 DEF LiveClaim, Claim
<1>2. ASSUME NEW t \in Thread, NEW d \in Dir, NEW i \in 1 .. Len(freeList'[t][d]),
             x = FreeClaim(t, d, i)'
      PROVE  x.kind = "free" /\ x.of = <<t, d, i>>
  BY <1>2 DEF FreeClaim, Claim
<1>3. ASSUME NEW t \in Thread, NEW d \in Dir, x = WindowClaim(t, d)'
      PROVE  x.kind = "window" /\ x.of = <<t, d>>
  BY <1>3 DEF WindowClaim, Claim
<1>4. ASSUME NEW t \in Thread, x = ReplyClaim(t)'
      PROVE  x.kind = "reply" /\ x.of = t
  BY <1>4 DEF ReplyClaim, Claim
<1>5. ASSUME NEW d \in Dir, x = TailClaim(d)'
      PROVE  x.kind = "tail" /\ x.of = d
  BY <1>5 DEF TailClaim, Claim
<1>6. QED
  BY <1>1, <1>2, <1>3, <1>4, <1>5, KindsOfClaimsNext

\* A claim is an old one unless something it is made of has changed.
LEMMA OldOrNew ==
  ASSUME NEW x \in Claims'
  PROVE  \/ x \in Claims
         \/ \E b \in live' : b \notin live /\ x = LiveClaim(b)
         \/ \E t \in Thread, d \in Dir : \E i \in 1 .. Len(freeList'[t][d]) :
               freeList'[t][d] # freeList[t][d] /\ x = FreeClaim(t, d, i)'
         \/ \E t \in Thread, d \in Dir :
               /\ head'[t][d] # head[t][d] \/ cur'[t][d] # cur[t][d]
               /\ head'[t][d] # Null
               /\ x = WindowClaim(t, d)'
         \/ \E t \in Thread :
               /\ reply'[t] # reply[t]
               /\ reply'[t] # Null
               /\ x = ReplyClaim(t)'
         \/ \E d \in Dir : tail'[d] # tail[d] /\ x = TailClaim(d)'
<1>1. ASSUME NEW b \in live, x = LiveClaim(b)
      PROVE  x \in Claims
  BY <1>1, MembersOfClaims
<1>2. ASSUME NEW t \in Thread, NEW d \in Dir, NEW i \in 1 .. Len(freeList'[t][d]),
             x = FreeClaim(t, d, i)', freeList'[t][d] = freeList[t][d]
      PROVE  x \in Claims
  <2>1. x = FreeClaim(t, d, i) /\ i \in 1 .. Len(freeList[t][d])
    BY <1>2 DEF FreeClaim
  <2>2. QED
    BY <2>1, MembersOfClaims
<1>3. ASSUME NEW t \in Thread, NEW d \in Dir, x = WindowClaim(t, d)',
             head'[t][d] = head[t][d], cur'[t][d] = cur[t][d], head'[t][d] # Null
      PROVE  x \in Claims
  <2>1. x = WindowClaim(t, d) /\ head[t][d] # Null
    BY <1>3 DEF WindowClaim
  <2>2. QED
    BY <2>1, MembersOfClaims
<1>4. ASSUME NEW t \in Thread, x = ReplyClaim(t)', reply'[t] = reply[t], reply'[t] # Null
      PROVE  x \in Claims
  <2>1. x = ReplyClaim(t) /\ reply[t] # Null
    BY <1>4 DEF ReplyClaim
  <2>2. QED
    BY <2>1, MembersOfClaims
<1>5. ASSUME NEW d \in Dir, x = TailClaim(d)', tail'[d] = tail[d]
      PROVE  x \in Claims
  <2>1. x = TailClaim(d)
    BY <1>5 DEF TailClaim, Start
  <2>2. QED
    BY <2>1, MembersOfClaims
<1>6. QED
  BY <1>1, <1>2, <1>3, <1>4, <1>5, KindsOfClaimsNext

\* Replacing claims by parts of them keeps claims apart and inside: every claim
\* of the next state is in N, within its parent P[x], or an old claim that is
\* nobody's parent, and those with the same parent are apart.
LEMMA Inherited ==
  ASSUME Claimed, Typed', NEW N, NEW P \in [N -> Claims],
         \A x \in N : x.lo \in Int /\ x.hi \in Int /\ Within(x, P[x]),
         \A x, y \in N : x # y /\ P[x] = P[y] => Apart(x, y),
         \A x \in Claims' : x \in N \/ (x \in Claims /\ \A y \in N : x # P[y])
  PROVE  Claimed'
<1> DEFINE Q(x) == IF x \in N THEN P[x] ELSE x
<1>1. \A x \in Claims : x.lo \in Int /\ x.hi \in Int
  BY ClaimsTyped DEF Claimed, Intervals
<1>2. ASSUME NEW x \in Claims'
      PROVE  Q(x) \in Claims /\ x.lo \in Int /\ x.hi \in Int /\ Within(x, Q(x))
  BY <1>1 DEF Within
<1>3. ClaimsApart'
  <2> SUFFICES ASSUME NEW x \in Claims', NEW y \in Claims', x # y
               PROVE  Apart(x, y)
    BY DEF ClaimsApart, Apart
  <2>1. CASE Q(x) # Q(y)
    <3>1. Apart(Q(x), Q(y))
      BY <2>1, <1>2 DEF Claimed, ClaimsApart
    <3> HIDE DEF Q
    <3>2. QED
      BY <3>1, <1>1, <1>2 DEF Apart, Within
  <2>2. CASE Q(x) = Q(y)
    BY <2>2
  <2>3. QED
    BY <2>1, <2>2
<1>4. ClaimsInside'
  <2> SUFFICES ASSUME NEW x \in Claims'
               PROVE  \E d \in Dir : Within(x, Region(d))
    BY DEF ClaimsInside, Within, Region, Start
  <2> HIDE DEF Q
  <2>1. PICK d \in Dir : Within(Q(x), Region(d))
    BY <1>2 DEF Claimed, ClaimsInside
  <2>2. Region(d).lo \in Int /\ Region(d).hi \in Int
    BY DirFacts, SizeAssumption DEF Region
  <2>3. Within(x, Region(d))
    BY <2>1, <2>2, <1>1, <1>2 DEF Within
  <2>4. QED
    BY <2>3
<1>5. QED
  BY <1>3, <1>4 DEF Claimed

\* The same with one parent.
LEMMA InheritedFrom ==
  ASSUME Claimed, Typed', NEW N, NEW p \in Claims,
         \A x \in N : x.lo \in Int /\ x.hi \in Int /\ Within(x, p),
         \A x, y \in N : x # y => Apart(x, y),
         \A x \in Claims' : x \in N \/ (x \in Claims /\ x # p)
  PROVE  Claimed'
<1> DEFINE P == [x \in N |-> p]
<1>1. P \in [N -> Claims] /\ \A x \in N : P[x] = p
  OBVIOUS
<1> HIDE DEF P
<1>2. QED
  BY <1>1, Inherited

-----------------------------------------------------------------------------
(* Claims of the next state *)

\* The free list without its k-th block.
LEMMA RemoveTyped ==
  ASSUME NEW f \in Seq(Block), NEW k \in 1 .. Len(f)
  PROVE  /\ Remove(f, k) \in Seq(Block)
         /\ Len(Remove(f, k)) = Len(f) - 1
         /\ \A i \in 1 .. Len(f) - 1 :
               Remove(f, k)[i] = f[IF i < k THEN i ELSE i + 1]
<1>1. Len(f) \in Nat /\ Len(f) - 1 \in Nat
  OBVIOUS
<1>2. \A i \in 1 .. Len(f) - 1 : (IF i < k THEN f[i] ELSE f[i + 1]) \in Block
  BY <1>1
<1>3. QED
  BY <1>1, <1>2 DEF Remove

\* The first block of a free list that is large enough.
LEMMA FirstUsable ==
  ASSUME NEW f \in Seq(Block), NEW r \in Request, Usable(f, r) # {}
  PROVE  /\ First(Usable(f, r)) \in 1 .. Len(f)
         /\ f[First(Usable(f, r))][2] >= r[1]
<1> DEFINE U == Usable(f, r)
<1>1. U \in SUBSET Nat /\ U # {}
  BY DEF Usable
<1>2. \E i \in U : \A j \in U : i <= j
  <2> HIDE DEF U
  <2> DEFINE Less == {p \in Nat \X Nat : p[1] < p[2]}
  <2>0. IsWellFoundedOn(Less, Nat)
    BY NatLessThanWellFounded DEF OpToRel
  <2> HIDE DEF Less
  <2>1. PICK i \in U : \A j \in U : ~(<<j, i>> \in Less)
    BY <1>1, <2>0, WFMin, Zenon
  <2>2. ASSUME NEW j \in U
        PROVE  i <= j
    <3>1. i \in Nat /\ j \in Nat
      BY <1>1
    <3>2. j < i => <<j, i>> \in Less
      BY <3>1 DEF Less
    <3>3. QED
      BY <3>1, <3>2, <2>1
  <2>3. QED
    BY <2>2
<1>3. First(U) \in U
  BY <1>2 DEF First
<1>4. QED
  BY <1>3 DEF Usable

\* Updating the entry of a thread for a directory leaves the others alone.
LEMMA UpdateEntry ==
  ASSUME NEW S, NEW f \in [Thread -> [Dir -> S]], NEW t \in Thread, NEW d \in Dir, NEW v
  PROVE  /\ [f EXCEPT ![t][d] = v][t][d] = v
         /\ \A u \in Thread, e \in Dir :
               u # t \/ e # d => [f EXCEPT ![t][d] = v][u][e] = f[u][e]
OBVIOUS

\* The claim that malloc takes from: the window of the local allocator or, after
\* rpc_wait, the reply.  The only claim left that may equal it is the window.
LEMMA WindowTaken ==
  ASSUME NEW t \in Thread, NEW d \in Dir, NEW p,
         p = WindowClaim(t, d) \/ (p = ReplyClaim(t) /\ reply'[t] = Null)
  PROVE  /\ p.kind \in {"window", "reply"}
         /\ \A x \in Claims' : x = p => x = WindowClaim(t, d)'
<1>1. \/ p.kind = "window" /\ p.of = <<t, d>>
      \/ p.kind = "reply" /\ p.of = t /\ reply'[t] = Null
  BY DEF WindowClaim, ReplyClaim, Claim
<1>2. ASSUME NEW x \in Claims', x = p
      PROVE  x = WindowClaim(t, d)'
  <2>1. ~(x.kind = "reply" /\ x.of = t /\ reply'[t] = Null)
    BY OwnersNext, Zenon
  <2>2. x.kind = "window" /\ x.of = <<t, d>>
    BY <1>1, <1>2, <2>1
  <2>3. QED
    BY <2>2, OwnersNext, Zenon
<1>3. QED
  BY <1>1, <1>2

\* malloc takes the block from the free list; the window only moves on to the
\* next aligned place.
LEMMA MallocReusesClaimed ==
  ASSUME Claimed, Typed', NEW t \in Thread, NEW d \in Dir, NEW h \in Nat, NEW c \in Nat,
         NEW r \in Request, Malloc(t, d, h, c, r), ~Fits(h, c, r),
         NEW p, h # Null => p \in Claims, p.lo = c, p.hi = h + ChunkSize,
         p = WindowClaim(t, d) \/ (p = ReplyClaim(t) /\ reply'[t] = Null),
         tail' = tail,
         \A u \in Thread : reply'[u] # Null => reply'[u] = reply[u]
  PROVE  Claimed'
<1>1. PICK next \in Nat : next = RoundUp(c, r[2]) /\ c <= next
  BY RoundUpGrows, RequestFacts, Zenon
<1>2. PICK f \in Seq(Block) : f = freeList[t][d]
  BY Zenon DEF Claimed, Typed
<1>3. PICK k \in 1 .. Len(f) : k = First(Usable(f, r)) /\ f[k][2] >= r[1]
  <2>1. Usable(f, r) # {}
    BY <1>2 DEF Malloc
  <2>2. QED
    BY <2>1, FirstUsable
<1>4. PICK new : new = <<count + 1, f[k][1], r[1]>>
  BY Zenon
<1>5. /\ head' = [head EXCEPT ![t][d] = h]
      /\ cur' = [cur EXCEPT ![t][d] = next]
      /\ freeList' = [freeList EXCEPT ![t][d] = Remove(f, k)]
      /\ live' = live \cup {new}
  BY <1>1, <1>2, <1>3, <1>4 DEF Malloc, HandOut
<1>6. /\ head'[t][d] = h /\ cur'[t][d] = next
      /\ \A u \in Thread, e \in Dir : u # t \/ e # d =>
            head'[u][e] = head[u][e] /\ cur'[u][e] = cur[u][e]
  <2>1. head \in [Thread -> [Dir -> Nat]] /\ cur \in [Thread -> [Dir -> Nat]]
    BY Zenon DEF Claimed, Typed
  <2>2. QED
    BY <2>1, <1>5, UpdateEntry
<1>7. /\ freeList'[t][d] = Remove(f, k)
      /\ \A u \in Thread, e \in Dir : u # t \/ e # d =>
            freeList'[u][e] = freeList[u][e]
  <2>1. freeList \in [Thread -> [Dir -> Seq(Block)]]
    BY Zenon DEF Claimed, Typed
  <2>2. QED
    BY <2>1, <1>5, UpdateEntry
<1>8. f[k][1] \in Nat /\ f[k][2] \in Nat /\ r[1] \in Nat /\ Len(f) \in Nat
  BY RequestFacts DEF Block
<1> DEFINE At(i) == IF i < k THEN i ELSE i + 1
           I == 1 .. Len(f) - 1
<1>9. /\ Len(freeList'[t][d]) = Len(f) - 1
      /\ \A i \in I : freeList'[t][d][i] = f[At(i)]
  BY <1>7, RemoveTyped
<1>10. \A i \in I : /\ At(i) \in 1 .. Len(f) /\ At(i) # k
                    /\ \A j \in I : At(i) = At(j) => i = j
  BY <1>8
<1> HIDE DEF At
<1>11. \A i \in 1 .. Len(f) :
         /\ FreeClaim(t, d, i) \in Claims
         /\ FreeClaim(t, d, i).kind = "free"
         /\ FreeClaim(t, d, i).of = <<t, d, i>>
         /\ FreeClaim(t, d, i).lo = f[i][1]
         /\ FreeClaim(t, d, i).hi = f[i][1] + f[i][2]
  BY <1>2, MembersOfClaims DEF FreeClaim, Claim
<1>12. PICK w : w = WindowClaim(t, d)'
  BY Zenon
<1>13. PICK l : l = LiveClaim(new)
  BY Zenon
<1>14. PICK F : F = [i \in I |-> FreeClaim(t, d, i)']
  BY Zenon
<1>15. /\ w.kind = "window" /\ w.lo = next /\ w.hi = h + ChunkSize
       /\ l.kind = "live" /\ l.lo = f[k][1] /\ l.hi = f[k][1] + r[1]
  BY <1>4, <1>6, <1>12, <1>13 DEF WindowClaim, LiveClaim, Claim
<1>16. ASSUME NEW i \in I
       PROVE  /\ F[i].kind = "free" /\ F[i].of = <<t, d, i>>
              /\ F[i].lo = f[At(i)][1] /\ F[i].hi = f[At(i)][1] + f[At(i)][2]
  <2>1. F[i] = FreeClaim(t, d, i)' /\ freeList'[t][d][i] = f[At(i)]
    BY <1>9, <1>14
  <2>2. QED
    BY <2>1 DEF FreeClaim, Claim
<1>17. PICK N : N = {x \in {w} : h # Null} \cup {l} \cup {F[i] : i \in I}
  BY Zenon
<1>18. PICK P : P = [x \in N |-> IF x.kind = "window" THEN p
                                 ELSE IF x.kind = "live" THEN FreeClaim(t, d, k)
                                 ELSE FreeClaim(t, d, At(x.of[3]))]
  BY Zenon
<1>19. ASSUME NEW x \in N
       PROVE  \/ x = w /\ h # Null /\ P[x] = p
              \/ x = l /\ P[x] = FreeClaim(t, d, k)
              \/ \E i \in I : x = F[i] /\ P[x] = FreeClaim(t, d, At(i))
  <2>1. (x = w /\ h # Null) \/ x = l \/ (\E i \in I : x = F[i])
    BY <1>17
  <2>2. CASE x = w /\ h # Null
    BY <2>2, <1>15, <1>18
  <2>3. CASE x = l
    BY <2>3, <1>15, <1>18
  <2>4. ASSUME NEW i \in I, x = F[i]
        PROVE  P[x] = FreeClaim(t, d, At(i))
    <3>1. x.kind = "free" /\ x.of[3] = i
      BY <2>4, <1>16
    <3>2. QED
      BY <3>1, <1>18
  <2>5. QED
    BY <2>1, <2>2, <2>3, <2>4
<1>20. p.kind \in {"window", "reply"} /\ \A x \in Claims' : x = p => x = w
  BY <1>12, WindowTaken
<1>21. P \in [N -> Claims]
  BY <1>10, <1>11, <1>18, <1>19
<1>22. \A x \in N : x.lo \in Int /\ x.hi \in Int /\ Within(x, P[x])
  <2>0. h + ChunkSize \in Int
    BY SizeAssumption
  <2>1. Within(w, p) /\ w.lo \in Int /\ w.hi \in Int
    BY <2>0, <1>1, <1>15 DEF Within
  <2>a. f[k][1] + r[1] <= f[k][1] + f[k][2] /\ f[k][1] + r[1] \in Int
        /\ f[k][1] <= f[k][1]
    BY <1>3, <1>8
  <2>b. FreeClaim(t, d, k).lo = f[k][1] /\ FreeClaim(t, d, k).hi = f[k][1] + f[k][2]
    BY <1>11, Zenon
  <2>c. Within(l, FreeClaim(t, d, k)) /\ l.lo \in Int /\ l.hi \in Int
    BY <2>a, <2>b, <1>8, <1>15 DEF Within
  <2>2. ASSUME NEW i \in I
        PROVE  /\ F[i].lo \in Int /\ F[i].hi \in Int
               /\ Within(F[i], FreeClaim(t, d, At(i)))
    <3>1. PICK j \in 1 .. Len(f) : j = At(i)
      BY <1>10
    <3>2. f[j] \in Nat \X Nat
      BY DEF Block
    <3>3. /\ f[j][1] \in Int /\ f[j][1] + f[j][2] \in Int
          /\ f[j][1] <= f[j][1] /\ f[j][1] + f[j][2] <= f[j][1] + f[j][2]
      BY <3>2
    <3>4. FreeClaim(t, d, j).lo = f[j][1] /\ FreeClaim(t, d, j).hi = f[j][1] + f[j][2]
      BY <1>11, Zenon
    <3>5. QED
      BY <3>1, <3>3, <3>4, <1>16 DEF Within
  <2>3. QED
    BY <2>1, <2>c, <2>2, <1>19, Zenon
<1>23. \A i, j \in 1 .. Len(f) :
          /\ FreeClaim(t, d, i) = FreeClaim(t, d, j) => i = j
          /\ FreeClaim(t, d, i) # p
  BY <1>11, <1>20
<1>24. ASSUME NEW x \in N, NEW y \in N, P[x] = P[y]
       PROVE  x = y
  BY <1>10, <1>19, <1>23, <1>24
<1>25. ASSUME NEW x \in Claims'
       PROVE  x \in N \/ (x \in Claims /\ \A y \in N : x # P[y])
  <2>1. ASSUME NEW i \in 1 .. Len(f), x = FreeClaim(t, d, i)
        PROVE  x \in N
    <3>1. i \in 1 .. Len(freeList'[t][d]) /\ x = FreeClaim(t, d, i)'
      BY <2>1, <1>11, OwnersNext
    <3>2. QED
      BY <3>1, <1>9, <1>14, <1>17
  <2>2. ASSUME NEW y \in N, x = P[y]
        PROVE  x \in N
    <3>1. CASE h # Null /\ x = p
      BY <3>1, <1>17, <1>20
    <3>2. QED
      BY <3>1, <2>1, <2>2, <1>10, <1>19
  <2>3. ASSUME NEW u \in Thread, NEW e \in Dir, NEW i \in 1 .. Len(freeList'[u][e]),
               freeList'[u][e] # freeList[u][e], x = FreeClaim(u, e, i)'
        PROVE  x \in N
    <3>1. u = t /\ e = d
      BY <2>3, <1>7
    <3>2. QED
      BY <3>1, <2>3, <1>9, <1>14, <1>17
  <2>4. ASSUME NEW u \in Thread, NEW e \in Dir, head'[u][e] # Null,
               head'[u][e] # head[u][e] \/ cur'[u][e] # cur[u][e],
               x = WindowClaim(u, e)'
        PROVE  x \in N
    BY <2>4, <1>6, <1>12, <1>17
  <2>5. ASSUME NEW b \in live', b \notin live, x = LiveClaim(b)
        PROVE  x \in N
    BY <2>5, <1>5, <1>13, <1>17
  <2>6. QED
    BY <2>2, <2>3, <2>4, <2>5, OldOrNew
<1>26. QED
  BY <1>21, <1>22, <1>24, <1>25, Inherited

\* malloc takes the block from the chunk h, whose rest from c on p claims.
LEMMA MallocFitsClaimed ==
  ASSUME Claimed, Typed', NEW t \in Thread, NEW d \in Dir, NEW h \in Nat, NEW c \in Nat,
         NEW r \in Request, Malloc(t, d, h, c, r), Fits(h, c, r),
         NEW p \in Claims, p.lo = c, p.hi = h + ChunkSize,
         p = WindowClaim(t, d) \/ (p = ReplyClaim(t) /\ reply'[t] = Null),
         tail' = tail,
         \A u \in Thread : reply'[u] # Null => reply'[u] = reply[u]
  PROVE  Claimed'
<1>1. PICK next \in Nat : next = RoundUp(c, r[2]) /\ c <= next
  BY RoundUpGrows, RequestFacts, Zenon
<1>2. PICK new : new = <<count + 1, next, r[1]>>
  BY Zenon
<1>3. /\ r[1] \in Nat /\ next + r[1] \in Nat /\ h + ChunkSize \in Nat
      /\ next + r[1] <= h + ChunkSize
  BY <1>1, RequestFacts, SizeAssumption DEF Fits
<1>4. /\ head' = [head EXCEPT ![t][d] = h]
      /\ cur' = [cur EXCEPT ![t][d] = next + r[1]]
      /\ freeList' = freeList
      /\ live' = live \cup {new}
  BY <1>1, <1>2 DEF Malloc, HandOut
<1>5. /\ head'[t][d] = h /\ cur'[t][d] = next + r[1]
      /\ \A u \in Thread, e \in Dir : u # t \/ e # d =>
            head'[u][e] = head[u][e] /\ cur'[u][e] = cur[u][e]
  <2>1. head \in [Thread -> [Dir -> Nat]] /\ cur \in [Thread -> [Dir -> Nat]]
    BY Zenon DEF Claimed, Typed
  <2>2. QED
    BY <2>1, <1>4, UpdateEntry
<1>6. PICK w : w = WindowClaim(t, d)'
  BY Zenon
<1>7. PICK l : l = LiveClaim(new)
  BY Zenon
<1>8. w.lo = next + r[1] /\ w.hi = h + ChunkSize
  BY <1>5, <1>6 DEF WindowClaim, Claim
<1>9. l.lo = next /\ l.hi = next + r[1]
  BY <1>2, <1>7 DEF LiveClaim, Claim
<1>10. ASSUME NEW x \in Claims'
       PROVE  x \in {w, l} \/ (x \in Claims /\ x # p)
  <2>1. x = p => x = w
    BY <1>6, WindowTaken
  <2>2. QED
    BY <2>1, <1>4, <1>5, <1>6, <1>7, OldOrNew
<1>11. PICK N : N = {w, l}
  BY Zenon
<1>12. \A x \in N : x.lo \in Int /\ x.hi \in Int /\ Within(x, p)
  BY <1>1, <1>3, <1>8, <1>9, <1>11 DEF Within
<1>13. \A x, y \in N : x # y => Apart(x, y)
  BY <1>3, <1>8, <1>9, <1>11 DEF Apart
<1>14. \A x \in Claims' : x \in N \/ (x \in Claims /\ x # p)
  BY <1>10, <1>11
<1>15. QED
  BY <1>12, <1>13, <1>14, InheritedFrom

\* DSM::free turns a block in use into one of a free list.
LEMMA FreeClaimed ==
  ASSUME Claimed, Typed', NEW t \in Thread, NEW b \in live, Free(t, b)
  PROVE  Claimed'
<1>1. /\ 0 \in Dir /\ freeList[t][0] \in Seq(Block)
      /\ freeList \in [Thread -> [Dir -> Seq(Block)]]
      /\ b \in Nat \X Nat \X Nat
  <2>1. 0 \in Dir
    BY SizeAssumption DEF Dir
  <2>2. QED
    BY <2>1, Zenon DEF Claimed, Typed
<1>2. PICK last \in Nat : last = Len(freeList[t][0]) + 1
  BY <1>1
<1>3. /\ freeList' = [freeList EXCEPT ![t][0] = Append(freeList[t][0], <<b[2], b[3]>>)]
      /\ live' = live \ {b}
      /\ UNCHANGED <<tail, reply, head, cur>>
  BY DEF Free, dirVars
<1>4. /\ freeList'[t][0] = Append(freeList[t][0], <<b[2], b[3]>>)
      /\ \A u \in Thread, d \in Dir :
            u # t \/ d # 0 => freeList'[u][d] = freeList[u][d]
  BY <1>1, <1>3, UpdateEntry
<1>5. /\ Len(freeList'[t][0]) = last
      /\ freeList'[t][0][last] = <<b[2], b[3]>>
      /\ \A i \in 1 .. last - 1 : freeList'[t][0][i] = freeList[t][0][i]
  <2>1. <<b[2], b[3]>> \in Block
    BY <1>1 DEF Block
  <2>2. QED
    BY <2>1, <1>1, <1>2, <1>4
<1>6. PICK n : n = FreeClaim(t, 0, last)'
  BY Zenon
<1>7. n.lo = LiveClaim(b).lo /\ n.hi = LiveClaim(b).hi
  BY <1>5, <1>6 DEF FreeClaim, LiveClaim, Claim
<1>8. LiveClaim(b).lo \in Int /\ LiveClaim(b).hi \in Int
  BY <1>1 DEF LiveClaim, Claim
<1>9. ASSUME NEW x \in Claims'
      PROVE  x = n \/ (x \in Claims /\ x # LiveClaim(b))
  <2>1. x # LiveClaim(b)
    <3>1. LiveClaim(b).kind = "live" /\ LiveClaim(b).of = b
      BY DEF LiveClaim, Claim
    <3>2. QED
      BY <3>1, <1>3, OwnersNext
  <2>2. ASSUME NEW u \in Thread, NEW d \in Dir, NEW i \in 1 .. Len(freeList'[u][d]),
               freeList'[u][d] # freeList[u][d], x = FreeClaim(u, d, i)'
        PROVE  x = n \/ x \in Claims
    <3>1. u = t /\ d = 0
      BY <2>2, <1>4
    <3>2. CASE i = last
      BY <3>1, <3>2, <2>2, <1>6
    <3>3. CASE i # last
      <4>1. i \in 1 .. Len(freeList[t][0]) /\ freeList'[t][0][i] = freeList[t][0][i]
        BY <3>1, <3>3, <2>2, <1>1, <1>2, <1>5
      <4>2. x = FreeClaim(t, 0, i)
        BY <4>1, <3>1, <2>2 DEF FreeClaim
      <4>3. QED
        BY <4>1, <4>2, <1>1, MembersOfClaims
    <3>4. QED
      BY <3>2, <3>3
  <2>3. QED
    BY <2>1, <2>2, <1>3, OldOrNew
<1>10. LiveClaim(b) \in Claims /\ Within(n, LiveClaim(b))
  BY <1>7, <1>8, MembersOfClaims DEF Within
<1>11. PICK N : N = {n}
  BY Zenon
<1>12. /\ \A x \in N : x.lo \in Int /\ x.hi \in Int /\ Within(x, LiveClaim(b))
       /\ \A x, y \in N : x # y => Apart(x, y)
       /\ \A x \in Claims' : x \in N \/ (x \in Claims /\ x # LiveClaim(b))
  BY <1>7, <1>8, <1>9, <1>10, <1>11
<1>13. QED
  BY <1>10, <1>12, InheritedFrom

\* A directory hands out the first chunk of what it has left.
LEMMA AllocChunkClaimed ==
  ASSUME Claimed, Typed', NEW d \in Dir, AllocChunk(d)
  PROVE  Claimed'
<1>0. PICK to : to = pool[d][inHand[d]]
  BY Zenon
<1>1. PICK chunk \in Nat : chunk = Start(d) + tail[d] * ChunkSize
  <2>1. tail[d] * ChunkSize \in Nat
    BY SizeAssumption DEF Claimed, Typed
  <2>2. QED
    BY <2>1, DirFacts
<1>2. /\ tail' = [tail EXCEPT ![d] = tail[d] + 1]
      /\ reply' = [reply EXCEPT ![to] = chunk]
      /\ UNCHANGED <<head, cur, freeList, live>>
  BY <1>0, <1>1 DEF AllocChunk, sendMessage2App, allocVars
<1>3. /\ tail \in [Dir -> Nat] /\ reply \in [Thread -> Nat]
      /\ ChunkSize \in Nat /\ DirSize \in Nat /\ Start(d) \in Nat
  BY SizeAssumption, DirFacts DEF Claimed, Typed
<1>4. /\ chunk + ChunkSize <= Start(d) + DirSize
      /\ Start(d) + tail'[d] * ChunkSize = chunk + ChunkSize
  <2>1. tail[d] \in Nat /\ tail[d] < BitmapLen
    BY <1>3 DEF AllocChunk
  <2>2. tail'[d] = tail[d] + 1
    BY <1>2, <1>3
  <2>3. tail'[d] * ChunkSize = tail[d] * ChunkSize + ChunkSize
    BY <2>1, <2>2, SizeAssumption
  <2>4. QED
    BY <2>1, <2>3, <1>1, ChunkFits, DirFacts, SizeAssumption
<1>5. PICK p : p = TailClaim(d)
  BY Zenon
<1>6. /\ p.lo = chunk /\ p.hi = Start(d) + DirSize /\ p \in Claims
      /\ p.kind = "tail" /\ p.of = d
  BY <1>1, <1>5, MembersOfClaims DEF TailClaim, Claim
<1>7. PICK v : v = TailClaim(d)'
  BY Zenon
<1>8. v.lo = chunk + ChunkSize /\ v.hi = Start(d) + DirSize
  BY <1>4, <1>7 DEF TailClaim, Claim, Start
<1>9. PICK N : N = {v} \cup {ReplyClaim(t)' : t \in Thread \cap {to}}
  BY Zenon
<1>10. ASSUME NEW t \in Thread, t = to
       PROVE  ReplyClaim(t)'.lo = chunk /\ ReplyClaim(t)'.hi = chunk + ChunkSize
  BY <1>10, <1>2, <1>3 DEF ReplyClaim, Claim
<1>11. \A x \in N : \/ x.lo = chunk + ChunkSize /\ x.hi = Start(d) + DirSize /\ x = v
                    \/ /\ x.lo = chunk /\ x.hi = chunk + ChunkSize
                       /\ to \in Thread /\ x = ReplyClaim(to)'
  BY <1>8, <1>9, <1>10
<1>12. \A x \in N : x.lo \in Int /\ x.hi \in Int /\ Within(x, p)
  BY <1>3, <1>4, <1>6, <1>11 DEF Within
<1>13. \A x, y \in N : x # y => Apart(x, y)
  BY <1>3, <1>11 DEF Apart
<1>14. ASSUME NEW x \in Claims'
       PROVE  x \in N \/ (x \in Claims /\ x # p)
  <2>1. x = p => x = v
    BY <1>6, <1>7, OwnersNext
  <2>2. ASSUME NEW t \in Thread, reply'[t] # reply[t], x = ReplyClaim(t)'
        PROVE  x \in N
    <3>1. t = to
      BY <2>2, <1>2, <1>3
    <3>2. QED
      BY <3>1, <2>2, <1>9
  <2>3. ASSUME NEW e \in Dir, tail'[e] # tail[e], x = TailClaim(e)'
        PROVE  x \in N
    <3>1. e = d
      BY <2>3, <1>2, <1>3
    <3>2. QED
      BY <3>1, <2>3, <1>7, <1>9
  <2>4. QED
    BY <2>1, <2>2, <2>3, <1>2, <1>9, OldOrNew
<1>15. QED
  BY <1>6, <1>12, <1>13, <1>14, InheritedFrom

\* The round robin over directories stays among them.
LEMMA NextTargetTyped ==
  ASSUME Typed, NEW t \in Thread
  PROVE  NextTarget(t) \in Dir
<1>1. target[t] + 1 \in Nat
  BY DirFacts DEF Typed
<1>2. QED
  BY <1>1, SizeAssumption DEF NextTarget, Dir

\* A call that has to ask the directory leaves the window at an aligned place.
LEMMA AllocRpcClaimed ==
  ASSUME Claimed, Typed', NEW t \in Thread, NEW r \in Request, AllocRpc(t, r)
  PROVE  Claimed'
<1>1. PICK d \in Dir : d = NextTarget(t)
  BY NextTargetTyped DEF Claimed
<1>2. PICK next \in Nat : next = RoundUp(cur[t][d], r[2]) /\ cur[t][d] <= next
  BY RoundUpGrows, RequestFacts, Zenon DEF Claimed, Typed
<1>3. /\ cur' = [cur EXCEPT ![t][d] = next]
      /\ UNCHANGED <<tail, reply, head, freeList, live>>
  BY <1>1, <1>2 DEF AllocRpc, dirVars
<1>4. /\ cur'[t][d] = next /\ cur[t][d] \in Nat /\ head[t][d] \in Nat
      /\ \A u \in Thread, e \in Dir : u # t \/ e # d => cur'[u][e] = cur[u][e]
  <2>1. cur \in [Thread -> [Dir -> Nat]] /\ head \in [Thread -> [Dir -> Nat]]
    BY Zenon DEF Claimed, Typed
  <2>2. QED
    BY <2>1, <1>3, UpdateEntry
<1>5. PICK p : p = WindowClaim(t, d)
  BY Zenon
<1>6. PICK w : w = WindowClaim(t, d)'
  BY Zenon
<1>7. /\ p.lo = cur[t][d] /\ p.hi = head[t][d] + ChunkSize
      /\ w.lo = next /\ w.hi = head[t][d] + ChunkSize
  BY <1>3, <1>4, <1>5, <1>6 DEF WindowClaim, Claim
<1>8. w.lo \in Int /\ w.hi \in Int /\ Within(w, p)
  BY <1>2, <1>4, <1>7, SizeAssumption DEF Within
<1>9. ASSUME NEW x \in Claims'
      PROVE  (x = w /\ head[t][d] # Null) \/ (x \in Claims /\ x # p)
  <2>1. x = p => x = w /\ head[t][d] # Null
    <3>1. p.kind = "window" /\ p.of = <<t, d>>
      BY <1>5 DEF WindowClaim, Claim
    <3>2. QED
      BY <3>1, <1>3, <1>6, OwnersNext
  <2>2. QED
    BY <2>1, <1>3, <1>4, <1>6, OldOrNew
<1>10. CASE head[t][d] # Null
  <2>1. p \in Claims
    BY <1>5, <1>10, MembersOfClaims
  <2>2. PICK N : N = {w}
    BY Zenon
  <2>3. /\ \A x \in N : x.lo \in Int /\ x.hi \in Int /\ Within(x, p)
        /\ \A x, y \in N : x # y => Apart(x, y)
        /\ \A x \in Claims' : x \in N \/ (x \in Claims /\ x # p)
    BY <2>2, <1>8, <1>9
  <2>4. QED
    BY <2>1, <2>3, InheritedFrom
<1>11. CASE head[t][d] = Null
  <2>1. \A x \in Claims' : x \in Claims
    BY <1>9, <1>11
  <2>2. QED
    BY <2>1 DEF Claimed, ClaimsApart, ClaimsInside, Apart, Within, Region, Start
<1>12. QED
  BY <1>10, <1>11

\* A call that malloc serves, from the window of the thread.
LEMMA AllocClaimed ==
  ASSUME Claimed, Typed', NEW t \in Thread, NEW r \in Request, Alloc(t, r)
  PROVE  Claimed'
<1>1. PICK d \in Dir : d = NextTarget(t)
  BY NextTargetTyped DEF Claimed
<1>2. PICK h \in Nat : h = head[t][d]
  BY DEF Claimed, Typed
<1>3. PICK c \in Nat : c = cur[t][d]
  BY DEF Claimed, Typed
<1>4. PICK p : p = WindowClaim(t, d)
  OBVIOUS
<1>5. /\ Malloc(t, d, h, c, r) /\ tail' = tail /\ reply' = reply
  BY <1>1, <1>2, <1>3 DEF Alloc, dirVars
<1>6. p.lo = c /\ p.hi = h + ChunkSize /\ (h # Null => p \in Claims)
  BY <1>2, <1>3, <1>4, MembersOfClaims DEF WindowClaim, Claim
<1>7. CASE Fits(h, c, r)
  <2>1. h # Null
    BY <1>7 DEF Fits
  <2>2. QED
    BY <1>4, <1>5, <1>6, <1>7, <2>1, MallocFitsClaimed
<1>8. CASE ~Fits(h, c, r)
  BY <1>4, <1>5, <1>6, <1>8, MallocReusesClaimed
<1>9. QED
  BY <1>7, <1>8

\* rpc_wait returns: the chunk of the reply becomes the window.
LEMMA RpcReturnClaimed ==
  ASSUME Claimed, Typed', NEW t \in Thread, RpcReturn(t)
  PROVE  Claimed'
<1>1. PICK d \in Dir : d = target[t]
  BY DEF Claimed, Typed
<1>2. PICK h \in Nat : h = reply[t] /\ h # Null
  BY DEF Claimed, Typed, RpcReturn
<1>3. PICK r \in Request : r = want[t]
  BY DEF Claimed, Typed
<1>4. PICK p : p = ReplyClaim(t)
  OBVIOUS
<1>5. /\ Malloc(t, d, h, h, r) /\ tail' = tail
      /\ reply' = [reply EXCEPT ![t] = Null]
  BY <1>1, <1>2, <1>3 DEF RpcReturn, dirVars
<1>6. /\ reply'[t] = Null
      /\ \A u \in Thread : reply'[u] # Null => reply'[u] = reply[u]
  BY <1>5 DEF Claimed, Typed
<1>7. p.lo = h /\ p.hi = h + ChunkSize /\ p \in Claims
  BY <1>2, <1>4, MembersOfClaims DEF ReplyClaim, Claim
<1>8. CASE Fits(h, h, r)
  BY <1>4, <1>5, <1>6, <1>7, <1>8, MallocFitsClaimed
<1>9. CASE ~Fits(h, h, r)
  BY <1>4, <1>5, <1>6, <1>7, <1>9, MallocReusesClaimed
<1>10. QED
  BY <1>8, <1>9

-----------------------------------------------------------------------------
(* The invariant *)

\* malloc hands out a part of the window or a block of the free list.  The window
\* it leaves starts behind, at the next aligned place or at the end of the block.
LEMMA MallocTyped ==
  ASSUME Typed, NEW t \in Thread, NEW d \in Dir, NEW h \in Nat, NEW c \in Nat,
         NEW r \in Request, Malloc(t, d, h, c, r)
  PROVE  /\ head' \in [Thread -> [Dir -> Nat]]
         /\ cur' \in [Thread -> [Dir -> Nat]]
         /\ freeList' \in [Thread -> [Dir -> Seq(Block)]]
         /\ count' \in Nat
         /\ live' \in SUBSET (Nat \X Nat \X Nat)
<1> DEFINE f == freeList[t][d]
           next == RoundUp(c, r[2])
<1>0. r[1] \in Nat /\ r[2] \in Nat \ {0}
  BY RequestFacts
<1>a. RoundUp(c, r[2]) \in Nat
  BY <1>0, RoundUpGrows, Zenon
<1>b. f \in Seq(Block) /\ count + 1 \in Nat
  BY DEF Typed
<1>1. r[1] \in Nat /\ next \in Nat /\ f \in Seq(Block) /\ count + 1 \in Nat
  BY <1>0, <1>a, <1>b
<1>2. head' \in [Thread -> [Dir -> Nat]]
  BY DEF Malloc, Typed
<1>3. CASE Fits(h, c, r)
  <2>1. /\ HandOut(next, r)
        /\ cur' = [cur EXCEPT ![t][d] = next + r[1]]
        /\ freeList' = freeList
    BY <1>3 DEF Malloc
  <2>2. next + r[1] \in Nat
    BY <1>1
  <2>3. <<count + 1, next, r[1]>> \in Nat \X Nat \X Nat
    BY <1>1
  <2> HIDE DEF next
  <2>4. QED
    BY <1>1, <1>2, <2>1, <2>2, <2>3, Zenon DEF HandOut, Typed
<1>4. CASE ~Fits(h, c, r)
  <2> DEFINE k == First(Usable(f, r))
  <2>1. /\ Usable(f, r) # {}
        /\ HandOut(f[k][1], r)
        /\ cur' = [cur EXCEPT ![t][d] = next]
        /\ freeList' = [freeList EXCEPT ![t][d] = Remove(f, k)]
    BY <1>4 DEF Malloc
  <2>2. k \in 1 .. Len(f) /\ f[k] \in Block
    BY <1>1, <2>1, FirstUsable
  <2>3. Remove(f, k) \in Seq(Block)
    BY <1>1, <2>2, RemoveTyped
  <2>4. <<count + 1, f[k][1], r[1]>> \in Nat \X Nat \X Nat
    BY <1>1, <2>2, Zenon DEF Block
  <2> HIDE DEF next, k
  <2>5. freeList' \in [Thread -> [Dir -> Seq(Block)]]
    BY <2>1, <2>3 DEF Typed
  <2>6. cur' \in [Thread -> [Dir -> Nat]]
    BY <2>1, <1>1 DEF Typed
  <2>7. QED
    BY <1>1, <1>2, <2>1, <2>4, <2>5, <2>6, Zenon DEF HandOut, Typed
<1>5. QED
  BY <1>3, <1>4

\* Every step keeps the types.
LEMMA NextTyped == Typed /\ [Next]_vars => Typed'
<1> SUFFICES ASSUME Typed, [Next]_vars
             PROVE  Typed'
  OBVIOUS
<1>1. ASSUME NEW t \in Thread, NEW r \in Request, Alloc(t, r)
      PROVE  Typed'
  <2>1. NextTarget(t) \in Dir
    BY NextTargetTyped
  <2>2. head[t][NextTarget(t)] \in Nat /\ cur[t][NextTarget(t)] \in Nat
    BY <2>1 DEF Typed
  <2>3. QED
    BY <1>1, <2>1, <2>2, MallocTyped, Zenon DEF Alloc, Typed, dirVars
<1>2. ASSUME NEW t \in Thread, NEW r \in Request, AllocRpc(t, r)
      PROVE  Typed'
  <2>1. NextTarget(t) \in Dir
    BY NextTargetTyped
  <2>2. RoundUp(cur[t][NextTarget(t)], r[2]) \in Nat
    BY <2>1, RoundUpGrows, RequestFacts, Zenon DEF Typed
  <2>3. QED
    BY <1>2, <2>1, <2>2, Zenon DEF AllocRpc, Typed, dirVars
<1>3. ASSUME NEW t \in Thread, RpcReturn(t)
      PROVE  Typed'
  <2>1. target[t] \in Dir /\ reply[t] \in Nat /\ want[t] \in Request
    BY DEF Typed
  <2>2. QED
    BY <1>3, <2>1, MallocTyped DEF RpcReturn, Typed, dirVars, Null
<1>4. ASSUME NEW t \in Thread, NEW b \in live, Free(t, b)
      PROVE  Typed'
  <2>0. b \in Nat \X Nat \X Nat
    BY DEF Typed
  <2>1. 0 \in Dir /\ <<b[2], b[3]>> \in Block
    BY <2>0, SizeAssumption DEF Dir, Block
  <2>2. Append(freeList[t][0], <<b[2], b[3]>>) \in Seq(Block)
    BY <2>1 DEF Typed
  <2>3. freeList' = [freeList EXCEPT ![t][0] = Append(freeList[t][0], <<b[2], b[3]>>)]
    BY <1>4 DEF Free
  <2>4. freeList' \in [Thread -> [Dir -> Seq(Block)]]
    BY <2>1, <2>2, <2>3 DEF Typed
  <2>5. QED
    BY <1>4, <2>4, Zenon DEF Free, Typed, dirVars
<1>5. ASSUME NEW t \in Thread, NEW d \in Dir, Deliver(t, d)
      PROVE  Typed'
  BY <1>5 DEF Deliver, Typed, dirVars, allocVars
<1>6. ASSUME NEW d \in Dir, GetMessage(d)
      PROVE  Typed'
  BY <1>6 DEF GetMessage, Typed, dirVars, allocVars
<1>7. ASSUME NEW d \in Dir, AllocChunk(d)
      PROVE  Typed'
  <2>0. tail[d] \in Nat /\ tail[d] * ChunkSize \in Nat
    BY SizeAssumption DEF Typed
  <2>1. Start(d) + tail[d] * ChunkSize \in Nat /\ tail[d] + 1 \in Nat
    BY <2>0, DirFacts
  <2>2. reply' \in [Thread -> Nat] /\ tail' \in [Dir -> Nat]
    BY <1>7, <2>1, Zenon DEF AllocChunk, sendMessage2App, Typed
  <2>3. QED
    BY <1>7, <2>2 DEF AllocChunk, Typed, allocVars
<1>8. ASSUME NEW d \in Dir, RunOut(d)
      PROVE  Typed'
  BY <1>8 DEF RunOut, Typed, allocVars
<1>9. CASE UNCHANGED vars
  BY <1>9 DEF vars, Typed, dirVars, allocVars
<1>10. QED
  BY <1>1, <1>2, <1>3, <1>4, <1>5, <1>6, <1>7, <1>8, <1>9 DEF Next

\* At the start only the directories claim anything.
LEMMA InitClaimed == Init => Claimed
<1> SUFFICES ASSUME Init
             PROVE  Claimed
  OBVIOUS
<1>1. Typed
  BY SizeAssumption, RequestAssumption DEF Init, Typed, Null, Block
<1>2. \A x \in Claims : \E d \in Dir : x = TailClaim(d)
  BY KindsOfClaims DEF Init
<1>3. \A d \in Dir : TailClaim(d).lo = Start(d) + ChunkSize
                     /\ TailClaim(d).hi = Start(d) + DirSize
  BY SizeAssumption DEF Init, TailClaim, Claim
<1>4. ClaimsInside
  BY <1>2, <1>3, DirFacts, SizeAssumption DEF ClaimsInside, Within, Region
<1>5. ClaimsApart
  <2> SUFFICES ASSUME NEW d \in Dir, NEW e \in Dir, TailClaim(d) # TailClaim(e)
               PROVE  Apart(TailClaim(d), TailClaim(e))
    BY <1>2 DEF ClaimsApart
  <2>1. d < e \/ e < d
    BY DirFacts
  <2>2. QED
    BY <2>1, <1>3, DirFacts, SizeAssumption DEF Apart
<1>6. QED
  BY <1>1, <1>4, <1>5 DEF Claimed

\* The invariant is inductive.
LEMMA NextClaimed == Claimed /\ [Next]_vars => Claimed'
<1> SUFFICES ASSUME Claimed, [Next]_vars
             PROVE  Claimed'
  OBVIOUS
<1>0. Typed'
  BY NextTyped DEF Claimed
<1>1. ASSUME UNCHANGED <<tail, reply, head, cur, freeList, live>>
      PROVE  Claimed'
  <2>1. Claims' = Claims
    BY <1>1 DEF Claims, LiveClaim, FreeClaims, FreeClaim, WindowClaim, ReplyClaim,
                TailClaim, Start
  <2>2. ClaimsApart' /\ ClaimsInside'
    BY <2>1 DEF Claimed, ClaimsApart, ClaimsInside, Region, Start
  <2>3. QED
    BY <1>0, <2>2 DEF Claimed
<1>2. ASSUME NEW t \in Thread, NEW d \in Dir, Deliver(t, d)
      PROVE  Claimed'
  BY <1>1, <1>2 DEF Deliver, dirVars, allocVars
<1>3. ASSUME NEW d \in Dir, GetMessage(d)
      PROVE  Claimed'
  BY <1>1, <1>3 DEF GetMessage, dirVars, allocVars
<1>4. ASSUME NEW d \in Dir, RunOut(d)
      PROVE  Claimed'
  BY <1>1, <1>4 DEF RunOut, allocVars
<1>5. CASE UNCHANGED vars
  BY <1>1, <1>5 DEF vars, dirVars, allocVars
<1>6. QED
  BY <1>0, <1>2, <1>3, <1>4, <1>5, AllocClaimed, AllocRpcClaimed, RpcReturnClaimed,
     FreeClaimed, AllocChunkClaimed DEF Next

-----------------------------------------------------------------------------

\* Blocks in use are claims.
LEMMA ClaimedImplies == Claimed => BlocksDisjoint /\ BlocksInRegion
<1> SUFFICES ASSUME Claimed
             PROVE  BlocksDisjoint /\ BlocksInRegion
  OBVIOUS
<1>1. ASSUME NEW b \in live, NEW c \in live, b # c
      PROVE  b[2] + b[3] <= c[2] \/ c[2] + c[3] <= b[2]
  <2>1. LiveClaim(b) # LiveClaim(c)
    BY <1>1 DEF LiveClaim, Claim
  <2>2. Apart(LiveClaim(b), LiveClaim(c))
    BY <2>1, MembersOfClaims DEF Claimed, ClaimsApart
  <2>3. QED
    BY <2>2 DEF Apart, LiveClaim, Claim
<1>2. ASSUME NEW b \in live
      PROVE  \E d \in Dir : /\ Start(d) + ChunkSize <= b[2]
                            /\ b[2] + b[3] <= Start(d) + DirSize
  <2>1. PICK d \in Dir : Within(LiveClaim(b), Region(d))
    BY MembersOfClaims DEF Claimed, ClaimsInside
  <2>2. QED
    BY <2>1 DEF Within, Region, LiveClaim, Claim
<1>3. QED
  BY <1>1, <1>2 DEF BlocksDisjoint, BlocksInRegion

\* Blocks handed out by DSM::alloc and not given back with DSM::free never
\* overlap, whatever the numbers of threads and directories, the sizes, and the
\* order in which calls, messages and replies interleave.
THEOREM NoOverlap == Spec => []BlocksDisjoint
<1>1. Claimed => BlocksDisjoint
  BY ClaimedImplies
<1>2. QED
  BY <1>1, InitClaimed, NextClaimed, PTL DEF Spec

\* Blocks that DSM::alloc hands out lie in the region of a directory of the memory
\* node, behind the first chunk, which GlobalAllocator gives to nobody.
THEOREM InRegion == Spec => []BlocksInRegion
<1>1. Claimed => BlocksInRegion
  BY ClaimedImplies
<1>2. QED
  BY <1>1, InitClaimed, NextClaimed, PTL DEF Spec

-----------------------------------------------------------------------------
(* The ring of receive buffers *)

\* Enough buffers for every thread, even when those of a batch are missing.
RingSuffices == IsFiniteSet(Thread) /\ Cardinality(Thread) + SubNR <= MessageNR + 1

\* The i-th buffer from the one that getMessage looks at next; the one before it
\* is the last.  The ones that hold a message.
Place(c, i) == (c + i) % MessageNR
Held(d) ==
    (0 .. arrived[d] - 1) \cup (IF inHand[d] = NoSlot THEN {} ELSE {MessageNR - 1})
InRing(t, d) == \E i \in Held(d) : pool[d][Place(curMessage[d], i)] = t

RingTyped ==
    /\ calls \in SUBSET (Thread \X Dir)
    /\ posted \in [Dir -> Seq(Slot)]
    /\ pool \in [Dir -> [Slot -> Thread]]
    /\ arrived \in [Dir -> Nat]
    /\ curMessage \in [Dir -> Slot]
    /\ inHand \in [Dir -> Slot \cup {NoSlot}]
    /\ pc \in [Thread -> {"idle", "rpc_wait"}]

\* The posted buffers follow the ones that have arrived; missing are the ones of the
\* current batch that have been looked at.
Ring(d) ==
    /\ Len(posted[d]) + arrived[d] + (curMessage[d] % SubNR) = MessageNR
    /\ \A i \in 1 .. Len(posted[d]) :
           posted[d][i] = Place(curMessage[d], arrived[d] + i - 1)
    /\ inHand[d] # NoSlot => /\ inHand[d] = Place(curMessage[d], MessageNR - 1)
                             /\ arrived[d] < MessageNR
    /\ \A i, j \in Held(d) :
           pool[d][Place(curMessage[d], i)] = pool[d][Place(curMessage[d], j)] => i = j

\* Where the call of t is.
Flight(t) ==
    /\ \A d \in Dir : <<t, d>> \in calls \/ InRing(t, d) =>
           pc[t] = "rpc_wait" /\ d = target[t] /\ reply[t] = Null
    /\ \A d \in Dir : ~(<<t, d>> \in calls /\ InRing(t, d))
    /\ pc[t] = "rpc_wait" /\ reply[t] = Null =>
           <<t, target[t]>> \in calls \/ InRing(t, target[t])
    /\ reply[t] # Null => pc[t] = "rpc_wait"

\* The inductive invariant of the messages.
Messages ==
    Typed /\ RingTyped /\ (\A d \in Dir : Ring(d)) /\ (\A t \in Thread : Flight(t))

\* Numbers below twice the ring.
LEMMA Around ==
  ASSUME NEW n \in Nat \ {0}, NEW x \in Nat, x < 2 * n
  PROVE  x % n = IF x < n THEN x ELSE x - n
BY Z3

LEMMA RingSize ==
  /\ MessageNR \in Nat \ {0} /\ SubNR \in Nat \ {0} /\ SubNR <= MessageNR
  /\ Slot \subseteq Nat /\ NoSlot \notin Slot
  /\ \A c \in Slot : 0 <= c /\ c < MessageNR
<1>1. PICK b \in Nat \ {0}, m \in Nat \ {0} : b = BatchCount /\ m = SubNR
  BY SizeAssumption
<1>2. b * m \in Nat \ {0} /\ m <= b * m
  BY Z3
<1>3. MessageNR \in Nat \ {0} /\ SubNR \in Nat \ {0} /\ SubNR <= MessageNR
  BY <1>1, <1>2 DEF MessageNR
<1>4. QED
  BY <1>3 DEF Slot, NoSlot

\* The places of a ring.
LEMMA PlaceIs ==
  ASSUME NEW c \in Slot, NEW i \in 0 .. MessageNR - 1
  PROVE  /\ Place(c, i) = IF c + i < MessageNR THEN c + i ELSE c + i - MessageNR
         /\ Place(c, i) \in Slot
<1>1. PICK n \in Nat \ {0} : n = MessageNR
  BY RingSize
<1>2. PICK x \in Nat : x = c + i
  BY RingSize
<1>3. x < 2 * n
  BY <1>1, <1>2, RingSize
<1>4. x % n = IF x < n THEN x ELSE x - n
  BY <1>3, Around
<1>5. Place(c, i) = IF c + i < MessageNR THEN c + i ELSE c + i - MessageNR
  <2>1. PICK y : y = x % n
    BY Zenon
  <2>2. Place(c, i) = y
    BY <1>1, <1>2, <2>1 DEF Place
  <2>3. y = IF x < n THEN x ELSE x - n
    BY <1>4, <2>1
  <2>4. QED
    BY <1>1, <1>2, <2>2, <2>3, RingSize
<1>6. QED
  BY <1>5, RingSize DEF Slot

\* Different places are different buffers.
LEMMA PlaceOnce ==
  ASSUME NEW c \in Slot, NEW i \in 0 .. MessageNR - 1, NEW j \in 0 .. MessageNR - 1,
         Place(c, i) = Place(c, j)
  PROVE  i = j
BY PlaceIs, RingSize

\* The next buffer, and the places from there.
LEMMA NextPlace ==
  ASSUME NEW c \in Slot, NEW e, e = (c + 1) % MessageNR
  PROVE  /\ e \in Slot
         /\ e = IF c + 1 < MessageNR THEN c + 1 ELSE 0
         /\ \A i \in 0 .. MessageNR - 2 : Place(e, i) = Place(c, i + 1)
         /\ Place(e, MessageNR - 1) = c
         /\ Place(c, 0) = c
<1>1. e = IF c + 1 < MessageNR THEN c + 1 ELSE 0
  <2>1. PICK n \in Nat \ {0} : n = MessageNR
    BY RingSize
  <2>2. PICK x \in Nat : x = c + 1
    BY RingSize
  <2>3. x <= n
    BY <2>1, <2>2, RingSize
  <2>4. x % n = IF x < n THEN x ELSE x - n
    BY <2>3, Around
  <2>5. QED
    BY <2>1, <2>2, <2>3, <2>4
<1>2. e \in Slot
  BY <1>1, RingSize DEF Slot
<1>3. ASSUME NEW i \in 0 .. MessageNR - 2
      PROVE  Place(e, i) = Place(c, i + 1)
  <2>1. i \in 0 .. MessageNR - 1 /\ i + 1 \in 0 .. MessageNR - 1
    BY RingSize
  <2>2. /\ Place(e, i) = IF e + i < MessageNR THEN e + i ELSE e + i - MessageNR
        /\ Place(c, i + 1)
               = IF c + (i + 1) < MessageNR THEN c + (i + 1) ELSE c + (i + 1) - MessageNR
    BY <1>2, <2>1, PlaceIs
  <2>3. QED
    BY <1>1, <2>1, <2>2, RingSize
<1>4. Place(e, MessageNR - 1) = c
  <2>1. MessageNR - 1 \in 0 .. MessageNR - 1
    BY RingSize
  <2>2. Place(e, MessageNR - 1) = IF e + (MessageNR - 1) < MessageNR
                                  THEN e + (MessageNR - 1)
                                  ELSE e + (MessageNR - 1) - MessageNR
    BY <1>2, <2>1, PlaceIs
  <2>3. QED
    BY <1>1, <2>2, RingSize
<1>5. Place(c, 0) = c
  <2>1. 0 \in 0 .. MessageNR - 1
    BY RingSize
  <2>2. QED
    BY <2>1, PlaceIs, RingSize
<1>6. QED
  BY <1>1, <1>2, <1>3, <1>4, <1>5

-----------------------------------------------------------------------------

\* What the ring of a directory looks like.
LEMMA RingFacts ==
  ASSUME RingTyped, NEW d \in Dir, Ring(d)
  PROVE  /\ curMessage[d] \in Slot /\ arrived[d] \in Nat
         /\ posted[d] \in Seq(Slot) /\ Len(posted[d]) \in Nat
         /\ curMessage[d] % SubNR \in 0 .. SubNR - 1
         /\ Len(posted[d]) + arrived[d] + (curMessage[d] % SubNR) = MessageNR
         /\ arrived[d] <= MessageNR
         /\ Held(d) \subseteq 0 .. MessageNR - 1
         /\ \A i \in Held(d) : Place(curMessage[d], i) \in Slot
<1>1. /\ curMessage[d] \in Slot /\ arrived[d] \in Nat /\ posted[d] \in Seq(Slot)
  BY DEF RingTyped
<1>2. Len(posted[d]) \in Nat
  BY <1>1
<1>3. PICK c \in Nat, m \in Nat \ {0} : c = curMessage[d] /\ m = SubNR
  BY <1>1, RingSize
<1>4. c % m \in 0 .. m - 1
  BY Z3
<1>5. curMessage[d] % SubNR \in 0 .. SubNR - 1
  BY <1>3, <1>4
<1>6. Len(posted[d]) + arrived[d] + (curMessage[d] % SubNR) = MessageNR
  BY DEF Ring
<1>7. PICK y \in Nat : y = curMessage[d] % SubNR
  BY <1>5, RingSize
<1>8. arrived[d] <= MessageNR
  BY <1>1, <1>2, <1>6, <1>7, RingSize
<1>9. Held(d) \subseteq 0 .. MessageNR - 1
  BY <1>1, <1>8, RingSize DEF Held
<1>10. \A i \in Held(d) : Place(curMessage[d], i) \in Slot
  BY <1>1, <1>9, PlaceIs
<1>11. QED
  BY <1>1, <1>2, <1>5, <1>6, <1>8, <1>9, <1>10

\* A step that leaves a ring alone.
LEMMA RingSame ==
  ASSUME NEW d \in Dir, Ring(d),
         posted'[d] = posted[d], pool'[d] = pool[d], arrived'[d] = arrived[d],
         curMessage'[d] = curMessage[d], inHand'[d] = inHand[d]
  PROVE  Ring(d)' /\ \A t \in Thread : InRing(t, d)' <=> InRing(t, d)
<1>1. Held(d)' = Held(d)
  BY DEF Held
<1>2. \A t \in Thread : InRing(t, d)' <=> InRing(t, d)
  BY <1>1 DEF InRing, Place
<1>3. Ring(d)'
  BY <1>1 DEF Ring, Place
<1>4. QED
  BY <1>2, <1>3

\* At the start every buffer is posted, and nobody has called.
LEMMA InitMessages == Thread # {} /\ Init => Messages
<1> SUFFICES ASSUME Thread # {}, Init
             PROVE  Messages
  OBVIOUS
<1>1. Typed
  BY InitClaimed DEF Claimed
<1>2. 0 \in Slot
  BY RingSize DEF Slot
<1>3. posted \in [Dir -> Seq(Slot)]
  <2>1. [i \in 1 .. MessageNR |-> i - 1] \in [1 .. MessageNR -> Slot]
    BY RingSize DEF Slot
  <2>2. [i \in 1 .. MessageNR |-> i - 1] \in Seq(Slot)
    BY <2>1, RingSize
  <2>3. QED
    BY <2>2 DEF Init
<1>4. RingTyped
  <2>1. (CHOOSE t \in Thread : TRUE) \in Thread
    OBVIOUS
  <2>2. pool \in [Dir -> [Slot -> Thread]]
    BY <2>1 DEF Init
  <2>3. QED
    BY <1>2, <1>3, <2>2 DEF Init, RingTyped
<1>5. ASSUME NEW d \in Dir PROVE Held(d) = {} /\ Ring(d)
  <2>1. /\ arrived[d] = 0 /\ inHand[d] = NoSlot /\ curMessage[d] = 0
        /\ posted[d] = [i \in 1 .. MessageNR |-> i - 1]
    BY DEF Init
  <2>2. Held(d) = {}
    BY <2>1 DEF Held
  <2>3. Len(posted[d]) = MessageNR
    BY <2>1, RingSize
  <2>4. PICK m \in Nat \ {0} : m = SubNR
    BY RingSize
  <2>5. 0 % m = 0
    BY Z3
  <2>6. Len(posted[d]) + arrived[d] + (curMessage[d] % SubNR) = MessageNR
    BY <2>1, <2>3, <2>4, <2>5, RingSize
  <2>7. ASSUME NEW i \in 1 .. Len(posted[d])
        PROVE  posted[d][i] = Place(curMessage[d], arrived[d] + i - 1)
    <3>1. i \in 1 .. MessageNR /\ i - 1 \in 0 .. MessageNR - 1 /\ 0 + i - 1 = i - 1
      BY <2>3, RingSize
    <3>2. Place(0, i - 1) = i - 1
      BY <1>2, <3>1, PlaceIs, RingSize
    <3>3. QED
      BY <2>1, <3>1, <3>2
  <2>8. QED
    BY <2>1, <2>2, <2>6, <2>7 DEF Ring
<1>6. ASSUME NEW t \in Thread PROVE Flight(t)
  BY <1>5 DEF Init, Flight, InRing
<1>7. QED
  BY <1>1, <1>4, <1>5, <1>6 DEF Messages

\* A step of a caller leaves the rings alone.
LEMMA CallerKeepsRings ==
  ASSUME Messages, UNCHANGED ringVars, calls' \in SUBSET (Thread \X Dir),
         pc' \in [Thread -> {"idle", "rpc_wait"}]
  PROVE  /\ RingTyped'
         /\ \A d \in Dir : Ring(d)'
         /\ \A d \in Dir, t \in Thread : InRing(t, d)' <=> InRing(t, d)
<1>1. RingTyped'
  BY DEF Messages, RingTyped, ringVars
<1>2. QED
  BY <1>1, RingSame DEF Messages, ringVars

\* What happens to the call of t when nothing about it changes.
LEMMA FlightSame ==
  ASSUME NEW t \in Thread, Flight(t),
         pc'[t] = pc[t], target'[t] = target[t], reply'[t] = reply[t],
         \A d \in Dir : <<t, d>> \in calls' <=> <<t, d>> \in calls,
         \A d \in Dir : InRing(t, d)' <=> InRing(t, d),
         target[t] \in Dir
  PROVE  Flight(t)'
BY Zenon DEF Flight

\* Where a call of alloc leaves a thread with nothing under way.
LEMMA FlightNone ==
  ASSUME NEW t \in Thread, Flight(t), pc[t] = "idle" \/ reply[t] # Null,
         pc'[t] = "idle", reply'[t] = Null, target[t] \in Dir, calls' = calls,
         \A d \in Dir : InRing(t, d)' <=> InRing(t, d)
  PROVE  Flight(t)'
<1>1. \A d \in Dir : <<t, d>> \notin calls /\ ~InRing(t, d)
  BY DEF Flight
<1>2. QED
  BY <1>1 DEF Flight

\* DSM::alloc from the chunk or the free list.
LEMMA AllocMessages ==
  ASSUME Messages, Typed', NEW t \in Thread, NEW r \in Request, Alloc(t, r)
  PROVE  Messages'
<1>1. /\ pc[t] = "idle" /\ pc' = [pc EXCEPT ![t] = "idle"]
      /\ target' = [target EXCEPT ![t] = NextTarget(t)]
      /\ UNCHANGED ringVars /\ calls' = calls /\ reply' = reply
  BY Zenon DEF Alloc, Malloc
<1>2. /\ pc \in [Thread -> {"idle", "rpc_wait"}] /\ calls \in SUBSET (Thread \X Dir)
      /\ target \in [Thread -> Dir] /\ reply \in [Thread -> Nat]
  BY DEF Messages, RingTyped, Typed
<1>3. /\ RingTyped' /\ \A d \in Dir : Ring(d)'
      /\ \A d \in Dir, u \in Thread : InRing(u, d)' <=> InRing(u, d)
  BY <1>1, <1>2, CallerKeepsRings
<1>4. ASSUME NEW u \in Thread PROVE Flight(u)'
  <2>0. Flight(u) /\ target[u] \in Dir
    BY <1>2 DEF Messages
  <2>1. CASE u = t
    <3>1. reply[t] = Null
      BY <1>1, <2>0, <2>1 DEF Flight
    <3>2. pc'[t] = "idle" /\ reply'[t] = Null
      BY <1>1, <1>2, <3>1
    <3>3. QED
      BY <1>1, <1>3, <2>0, <2>1, <3>1, <3>2, FlightNone
  <2>2. CASE u # t
    <3>1. pc'[u] = pc[u] /\ target'[u] = target[u] /\ reply'[u] = reply[u]
      BY <1>1, <1>2, <2>2
    <3>2. QED
      BY <1>1, <1>3, <2>0, <3>1, FlightSame
  <2>3. QED
    BY <2>1, <2>2
<1>5. QED
  BY <1>3, <1>4 DEF Messages

\* DSM::alloc that has to ask a directory.
LEMMA AllocRpcMessages ==
  ASSUME Messages, Typed', NEW t \in Thread, NEW r \in Request, AllocRpc(t, r)
  PROVE  Messages'
<1> DEFINE e == NextTarget(t)
<1>1. /\ pc[t] = "idle" /\ pc' = [pc EXCEPT ![t] = "rpc_wait"]
      /\ target' = [target EXCEPT ![t] = e]
      /\ UNCHANGED ringVars /\ calls' = calls \cup {<<t, e>>} /\ reply' = reply
  BY Zenon DEF AllocRpc, rdmaSend
<1>2. /\ pc \in [Thread -> {"idle", "rpc_wait"}] /\ calls \in SUBSET (Thread \X Dir)
      /\ target \in [Thread -> Dir] /\ reply \in [Thread -> Nat]
  BY DEF Messages, RingTyped, Typed
<1>3. e \in Dir
  BY NextTargetTyped DEF Messages
<1> HIDE DEF e
<1>4. /\ calls' \in SUBSET (Thread \X Dir) /\ pc' \in [Thread -> {"idle", "rpc_wait"}]
  BY <1>1, <1>2, <1>3
<1>5. /\ RingTyped' /\ \A d \in Dir : Ring(d)'
      /\ \A d \in Dir, u \in Thread : InRing(u, d)' <=> InRing(u, d)
  BY <1>1, <1>4, CallerKeepsRings
<1>6. ASSUME NEW u \in Thread PROVE Flight(u)'
  <2>0. Flight(u) /\ target[u] \in Dir
    BY <1>2 DEF Messages
  <2>1. CASE u = t
    <3>1. reply[t] = Null /\ \A d \in Dir : <<t, d>> \notin calls /\ ~InRing(t, d)
      BY <1>1, <2>0, <2>1 DEF Flight
    <3>2. pc'[t] = "rpc_wait" /\ reply'[t] = Null /\ target'[t] = e
      BY <1>1, <1>2, <3>1
    <3>3. \A d \in Dir : <<t, d>> \in calls' <=> d = e
      BY <1>1, <1>3, <3>1
    <3>4. \A d \in Dir : ~InRing(t, d)'
      BY <1>5, <3>1
    <3>5. QED
      BY <1>3, <2>1, <3>2, <3>3, <3>4 DEF Flight
  <2>2. CASE u # t
    <3>1. pc'[u] = pc[u] /\ target'[u] = target[u] /\ reply'[u] = reply[u]
      BY <1>1, <1>2, <2>2
    <3>2. \A d \in Dir : <<u, d>> \in calls' <=> <<u, d>> \in calls
      BY <1>1, <2>2
    <3>3. QED
      BY <1>5, <2>0, <3>1, <3>2, FlightSame
  <2>3. QED
    BY <2>1, <2>2
<1>7. QED
  BY <1>5, <1>6 DEF Messages

\* rpc_wait takes the answer.
LEMMA RpcReturnMessages ==
  ASSUME Messages, Typed', NEW t \in Thread, RpcReturn(t)
  PROVE  Messages'
<1>1. /\ reply[t] # Null /\ pc' = [pc EXCEPT ![t] = "idle"] /\ target' = target
      /\ UNCHANGED ringVars /\ calls' = calls /\ reply' = [reply EXCEPT ![t] = Null]
  BY Zenon DEF RpcReturn, Malloc
<1>2. /\ pc \in [Thread -> {"idle", "rpc_wait"}] /\ calls \in SUBSET (Thread \X Dir)
      /\ target \in [Thread -> Dir] /\ reply \in [Thread -> Nat]
  BY DEF Messages, RingTyped, Typed
<1>3. /\ RingTyped' /\ \A d \in Dir : Ring(d)'
      /\ \A d \in Dir, u \in Thread : InRing(u, d)' <=> InRing(u, d)
  BY <1>1, <1>2, CallerKeepsRings
<1>4. ASSUME NEW u \in Thread PROVE Flight(u)'
  <2>0. Flight(u) /\ target[u] \in Dir
    BY <1>2 DEF Messages
  <2>1. CASE u = t
    <3>1. pc'[t] = "idle" /\ reply'[t] = Null
      BY <1>1, <1>2
    <3>2. QED
      BY <1>1, <1>3, <2>0, <2>1, <3>1, FlightNone
  <2>2. CASE u # t
    <3>1. pc'[u] = pc[u] /\ target'[u] = target[u] /\ reply'[u] = reply[u]
      BY <1>1, <1>2, <2>2
    <3>2. QED
      BY <1>1, <1>3, <2>0, <3>1, FlightSame
  <2>3. QED
    BY <2>1, <2>2
<1>5. QED
  BY <1>3, <1>4 DEF Messages

\* Steps that have nothing to do with messages.
LEMMA OtherMessages ==
  ASSUME Messages, Typed', UNCHANGED <<calls, ringVars, reply, target, pc>>
  PROVE  Messages'
<1>1. /\ pc \in [Thread -> {"idle", "rpc_wait"}] /\ calls \in SUBSET (Thread \X Dir)
      /\ target \in [Thread -> Dir]
  BY DEF Messages, RingTyped, Typed
<1>2. /\ RingTyped' /\ \A d \in Dir : Ring(d)'
      /\ \A d \in Dir, u \in Thread : InRing(u, d)' <=> InRing(u, d)
  BY <1>1, CallerKeepsRings
<1>3. ASSUME NEW u \in Thread PROVE Flight(u)'
  <2>1. Flight(u) /\ target[u] \in Dir
    BY <1>1 DEF Messages
  <2>2. QED
    BY <1>2, <2>1, FlightSame
<1>4. QED
  BY <1>2, <1>3 DEF Messages

-----------------------------------------------------------------------------
(* A message arrives *)

\* Every message that a ring holds is of another thread, and t has one on its way:
\* there are buffers enough, the one in hand included.
LEMMA RoomForCall ==
  ASSUME RingSuffices, Messages, NEW t \in Thread, NEW d \in Dir, <<t, d>> \in calls
  PROVE  /\ arrived[d] <= MessageNR - SubNR
         /\ inHand[d] # NoSlot => arrived[d] + 1 <= MessageNR - SubNR
<1> DEFINE f == [i \in Held(d) |-> pool[d][Place(curMessage[d], i)]]
<1>1. RingTyped /\ Ring(d) /\ Flight(t)
  BY DEF Messages
<1>2. /\ arrived[d] \in Nat /\ arrived[d] <= MessageNR
      /\ \A i \in Held(d) : Place(curMessage[d], i) \in Slot
  BY <1>1, RingFacts
<1>3. pool[d] \in [Slot -> Thread]
  BY <1>1 DEF RingTyped
<1>4. ASSUME NEW i \in Held(d) PROVE pool[d][Place(curMessage[d], i)] \in Thread \ {t}
  <2>1. ~InRing(t, d)
    BY <1>1 DEF Flight
  <2>2. QED
    BY <1>2, <1>3, <2>1 DEF InRing
<1>5. f \in [Held(d) -> Thread \ {t}]
  BY <1>4
<1>6. \A i, j \in Held(d) : f[i] = f[j] => i = j
  BY <1>1 DEF Ring
<1> HIDE DEF f
<1>7. /\ IsFiniteSet(Thread) /\ Cardinality(Thread) \in Nat
      /\ Cardinality(Thread) + SubNR <= MessageNR + 1
  BY FS_CardinalityType DEF RingSuffices
<1>8. IsFiniteSet(Thread \ {t}) /\ Cardinality(Thread \ {t}) = Cardinality(Thread) - 1
  BY <1>7, FS_RemoveElement
<1>9. ASSUME IsFiniteSet(Held(d)) PROVE Cardinality(Held(d)) <= MessageNR - SubNR
  <2>1. Cardinality(Held(d)) \in Nat
    BY <1>9, FS_CardinalityType
  <2>2. ~(Cardinality(Thread \ {t}) < Cardinality(Held(d)))
    BY <1>5, <1>6, <1>8, <1>9, FS_PigeonHole, ZenonT(60)
  <2>3. QED
    BY <1>7, <1>8, <2>1, <2>2, RingSize
<1>10. IsFiniteSet(0 .. arrived[d] - 1) /\ Cardinality(0 .. arrived[d] - 1) = arrived[d]
  <2>1. 0 \in Int /\ arrived[d] - 1 \in Int
    BY <1>2
  <2>2. /\ IsFiniteSet(0 .. arrived[d] - 1)
        /\ Cardinality(0 .. arrived[d] - 1)
               = IF 0 > arrived[d] - 1 THEN 0 ELSE (arrived[d] - 1) - 0 + 1
    BY <2>1, FS_Interval, ZenonT(60)
  <2>3. (IF 0 > arrived[d] - 1 THEN 0 ELSE (arrived[d] - 1) - 0 + 1) = arrived[d]
    BY <1>2
  <2>4. QED
    BY <2>2, <2>3
<1>11. CASE inHand[d] = NoSlot
  <2>1. Held(d) = 0 .. arrived[d] - 1
    BY <1>11 DEF Held
  <2>2. QED
    BY <1>9, <1>10, <1>11, <2>1
<1>12. CASE inHand[d] # NoSlot
  <2>1. Held(d) = (0 .. arrived[d] - 1) \cup {MessageNR - 1}
    BY <1>12 DEF Held
  <2>2. arrived[d] < MessageNR
    BY <1>1, <1>12 DEF Ring
  <2>3. MessageNR - 1 \notin 0 .. arrived[d] - 1
    BY <1>2, <2>2, RingSize
  <2>4. IsFiniteSet(Held(d)) /\ Cardinality(Held(d)) = arrived[d] + 1
    <3>1. PICK S : S = 0 .. arrived[d] - 1
      BY Zenon
    <3>2. IsFiniteSet(S) /\ Cardinality(S) = arrived[d] /\ MessageNR - 1 \notin S
      BY <1>10, <2>3, <3>1
    <3>3. /\ IsFiniteSet(S \cup {MessageNR - 1})
          /\ Cardinality(S \cup {MessageNR - 1}) = Cardinality(S) + 1
      BY <3>2, FS_AddElement, ZenonT(60)
    <3>4. QED
      BY <2>1, <3>1, <3>2, <3>3
  <2>5. arrived[d] + 1 <= MessageNR - SubNR
    BY <1>9, <2>4
  <2>6. QED
    BY <1>2, <2>5, RingSize
<1>13. QED
  BY <1>11, <1>12

\* The buffer it goes to is posted, and behind those that hold a message.
LEMMA NextPosted ==
  ASSUME RingSuffices, Messages, NEW t \in Thread, NEW d \in Dir, <<t, d>> \in calls
  PROVE  /\ posted[d] # <<>>
         /\ Head(posted[d]) = Place(curMessage[d], arrived[d])
         /\ arrived[d] \in 0 .. MessageNR - 1
         /\ arrived[d] \notin Held(d)
         /\ inHand[d] # NoSlot => arrived[d] + 1 < MessageNR
<1>1. RingTyped /\ Ring(d)
  BY DEF Messages
<1>2. PICK y \in Nat : y = curMessage[d] % SubNR
  BY <1>1, RingFacts, RingSize
<1>3. /\ arrived[d] \in Nat /\ Len(posted[d]) \in Nat /\ posted[d] \in Seq(Slot)
      /\ y \in 0 .. SubNR - 1 /\ Len(posted[d]) + arrived[d] + y = MessageNR
  BY <1>1, <1>2, RingFacts
<1>4. /\ arrived[d] <= MessageNR - SubNR
      /\ inHand[d] # NoSlot => arrived[d] + 1 <= MessageNR - SubNR
  BY RoomForCall
<1>5. Len(posted[d]) >= 1
  BY <1>3, <1>4, RingSize
<1>6. posted[d] # <<>> /\ Head(posted[d]) = posted[d][1]
  BY <1>3, <1>5
<1>7. posted[d][1] = Place(curMessage[d], arrived[d] + 1 - 1)
  BY <1>1, <1>3, <1>5 DEF Ring
<1>8. arrived[d] + 1 - 1 = arrived[d]
  BY <1>3
<1>9. arrived[d] \in 0 .. MessageNR - 1
  BY <1>3, <1>4, RingSize
<1>10. inHand[d] # NoSlot => arrived[d] + 1 < MessageNR
  BY <1>3, <1>4, RingSize
<1>11. arrived[d] \notin Held(d)
  BY <1>3, <1>10, RingSize DEF Held
<1>12. QED
  BY <1>6, <1>7, <1>8, <1>9, <1>10, <1>11

\* The card puts the message of t into a buffer.
LEMMA DeliverMessages ==
  ASSUME RingSuffices, Messages, Typed', NEW t \in Thread, NEW d \in Dir, Deliver(t, d)
  PROVE  Messages'
<1> DEFINE c == curMessage[d]
           a == arrived[d]
<1>1. <<t, d>> \in calls /\ calls' = calls \ {<<t, d>>}
  BY DEF Deliver
<1>2. /\ posted[d] # <<>> /\ Head(posted[d]) = Place(c, a)
      /\ a \in 0 .. MessageNR - 1 /\ a \notin Held(d)
      /\ inHand[d] # NoSlot => a + 1 < MessageNR
  BY <1>1, NextPosted
<1>3. /\ posted' = [posted EXCEPT ![d] = Tail(posted[d])]
      /\ pool' = [pool EXCEPT ![d][Place(c, a)] = t]
      /\ arrived' = [arrived EXCEPT ![d] = a + 1]
      /\ UNCHANGED <<curMessage, inHand, reply, target, pc>>
  BY <1>2 DEF Deliver
<1>4. /\ RingTyped /\ Ring(d) /\ Flight(t) /\ pool[d] \in [Slot -> Thread]
      /\ target \in [Thread -> Dir]
  BY DEF Messages, RingTyped, Typed
<1>5. /\ c \in Slot /\ a \in Nat /\ posted[d] \in Seq(Slot) /\ Len(posted[d]) \in Nat
      /\ Held(d) \subseteq 0 .. MessageNR - 1
      /\ \A i \in Held(d) : Place(c, i) \in Slot
      /\ Place(c, a) \in Slot
  BY <1>2, <1>4, RingFacts, PlaceIs
<1>6. /\ posted'[d] = Tail(posted[d]) /\ arrived'[d] = a + 1
      /\ pool'[d] = [pool[d] EXCEPT ![Place(c, a)] = t]
      /\ curMessage'[d] = c /\ inHand'[d] = inHand[d]
  BY <1>3, <1>4 DEF RingTyped
<1>7. /\ Tail(posted[d]) \in Seq(Slot) /\ Len(Tail(posted[d])) = Len(posted[d]) - 1
      /\ \A i \in 1 .. Len(posted[d]) - 1 : Tail(posted[d])[i] = posted[d][i + 1]
  BY <1>2, <1>5
<1>8. RingTyped'
  <2>1. posted' \in [Dir -> Seq(Slot)]
    BY <1>3, <1>4, <1>7 DEF RingTyped
  <2>2. pool' \in [Dir -> [Slot -> Thread]]
    BY <1>3, <1>4, <1>5 DEF RingTyped
  <2>3. arrived' \in [Dir -> Nat]
    <3>1. a + 1 \in Nat
      BY <1>5
    <3>2. QED
      BY <1>3, <1>4, <3>1 DEF RingTyped
  <2>4. QED
    BY <1>1, <1>3, <1>4, <2>1, <2>2, <2>3 DEF RingTyped
<1>9. Held(d)' = Held(d) \cup {a}
  <2>1. 0 .. (a + 1) - 1 = (0 .. a - 1) \cup {a}
    BY <1>5
  <2>2. QED
    BY <1>6, <2>1 DEF Held
<1>10. /\ \A i \in Held(d) : pool'[d][Place(c, i)] = pool[d][Place(c, i)]
       /\ pool'[d][Place(c, a)] = t
  <2>1. ASSUME NEW i \in Held(d) PROVE Place(c, i) # Place(c, a)
    BY <1>2, <1>5, PlaceOnce
  <2>2. QED
    BY <1>4, <1>5, <1>6, <2>1
<1>11. ~InRing(t, d)
  BY <1>1, <1>4 DEF Flight
<1>12. \A u \in Thread : InRing(u, d)' <=> InRing(u, d) \/ u = t
  BY <1>6, <1>9, <1>10 DEF InRing
<1>13. Ring(d)'
  <2>1. Len(posted'[d]) + arrived'[d] + (curMessage'[d] % SubNR) = MessageNR
    <3>1. PICK y \in Nat : y = c % SubNR
      BY <1>4, RingFacts, RingSize
    <3>2. Len(posted[d]) + a + y = MessageNR
      BY <1>4, <3>1 DEF Ring
    <3>3. (Len(posted[d]) - 1) + (a + 1) + y = MessageNR
      BY <1>5, <3>2
    <3>4. QED
      BY <1>6, <1>7, <3>1, <3>3
  <2>2. ASSUME NEW i \in 1 .. Len(posted'[d])
        PROVE  posted'[d][i] = Place(c, (a + 1) + i - 1)
    <3>1. i \in 1 .. Len(posted[d]) - 1 /\ i + 1 \in 1 .. Len(posted[d])
          /\ (a + 1) + i - 1 = a + (i + 1) - 1
      BY <1>5, <1>6, <1>7
    <3>2. posted[d][i + 1] = Place(c, a + (i + 1) - 1)
      BY <1>4, <3>1 DEF Ring
    <3>3. QED
      BY <1>6, <1>7, <3>1, <3>2
  <2>3. inHand'[d] # NoSlot => /\ inHand'[d] = Place(c, MessageNR - 1)
                               /\ a + 1 < MessageNR
    BY <1>2, <1>4, <1>6 DEF Ring
  <2>4. ASSUME NEW i \in Held(d)', NEW j \in Held(d)',
               pool'[d][Place(c, i)] = pool'[d][Place(c, j)]
        PROVE  i = j
    <3>1. \A k \in Held(d) : pool[d][Place(c, k)] # t
      BY <1>11 DEF InRing
    <3>2. \A k, l \in Held(d) : pool[d][Place(c, k)] = pool[d][Place(c, l)] => k = l
      BY <1>4 DEF Ring
    <3>3. QED
      BY <1>9, <1>10, <2>4, <3>1, <3>2
  <2>5. QED
    BY <1>6, <2>1, <2>2, <2>3, <2>4 DEF Ring, Place
<1>14. ASSUME NEW e \in Dir, e # d
       PROVE  Ring(e)' /\ \A u \in Thread : InRing(u, e)' <=> InRing(u, e)
  <2>1. /\ posted'[e] = posted[e] /\ pool'[e] = pool[e] /\ arrived'[e] = arrived[e]
        /\ curMessage'[e] = curMessage[e] /\ inHand'[e] = inHand[e]
    BY <1>3, <1>4, <1>14 DEF RingTyped
  <2>2. QED
    BY <2>1, RingSame DEF Messages
<1>15. ASSUME NEW u \in Thread PROVE Flight(u)'
  <2>0. Flight(u) /\ target[u] \in Dir
    BY <1>4 DEF Messages
  <2>1. CASE u = t
    <3>1. pc[t] = "rpc_wait" /\ d = target[t] /\ reply[t] = Null
      BY <1>1, <1>4 DEF Flight
    <3>2. \A e \in Dir : <<t, e>> \notin calls'
      BY <1>1, <1>4, <3>1 DEF Flight
    <3>3. \A e \in Dir : InRing(t, e)' <=> e = d
      BY <1>4, <1>12, <1>14, <3>1 DEF Flight
    <3>4. QED
      BY <1>3, <2>1, <3>1, <3>2, <3>3 DEF Flight
  <2>2. CASE u # t
    <3>1. \A e \in Dir : <<u, e>> \in calls' <=> <<u, e>> \in calls
      BY <1>1, <2>2
    <3>2. \A e \in Dir : InRing(u, e)' <=> InRing(u, e)
      BY <1>12, <1>14, <2>2
    <3>3. QED
      BY <1>3, <2>0, <3>1, <3>2, FlightSame
  <2>3. QED
    BY <2>1, <2>2
<1>16. QED
  BY <1>8, <1>13, <1>14, <1>15 DEF Messages

-----------------------------------------------------------------------------
(* getMessage *)

\* Quotient and remainder.
LEMMA Divided ==
  ASSUME NEW x \in Nat, NEW m \in Nat \ {0}
  PROVE  \E q \in Nat, r \in Nat : /\ q = x \div m /\ r = x % m
                                   /\ x = q * m + r /\ r < m
<1>1. x \div m \in Nat /\ x % m \in Nat /\ x % m < m
  BY Z3
<1>2. x = (x \div m) * m + (x % m)
  BY Z3
<1>3. QED
  BY <1>1, <1>2

\* Factors below others have smaller products.
LEMMA Products ==
  ASSUME NEW q \in Nat, NEW b \in Nat, NEW m \in Nat \ {0}
  PROVE  /\ q * m \in Nat
         /\ q < b => q * m + m <= b * m
         /\ q >= b => q * m >= b * m
BY Z3

\* They are determined.
Splits(x, m, q, r) == x = q * m + r /\ r < m
LEMMA DividedOnce ==
  ASSUME NEW q \in Nat, NEW r \in Nat, NEW m \in Nat \ {0}, NEW x \in Nat,
         Splits(x, m, q, r)
  PROVE  x \div m = q /\ x % m = r
<1>1. PICK p \in Nat, s \in Nat : p = x \div m /\ s = x % m /\ x = p * m + s /\ s < m
  BY Divided
<1>2. PICK v \in Nat, w \in Nat : v = q * m /\ w = p * m
  BY Products
<1>3. (q < p => v + m <= w) /\ (p < q => w + m <= v)
  BY <1>2, Products
<1>4. v + r = w + s /\ r < m
  BY <1>1, <1>2 DEF Splits
<1>5. ~(q < p) /\ ~(p < q)
  BY <1>1, <1>3, <1>4
<1>6. p = q
  BY <1>5
<1>7. v = w
  BY <1>2, <1>6
<1>8. QED
  BY <1>1, <1>4, <1>6, <1>7

\* Where a batch ends: curMessage is at its last buffer, and the buffers of the batch
\* are the last ones before the next buffer.
LEMMA BatchPlaces ==
  ASSUME NEW c \in Slot, NEW e, e = (c + 1) % MessageNR
  PROVE  /\ e % SubNR # 0 => e % SubNR = (c % SubNR) + 1
         /\ e % SubNR = 0 =>
                /\ c % SubNR = SubNR - 1
                /\ \A k \in 1 .. SubNR :
                       Batch(Finished(e))[k] = Place(e, MessageNR - SubNR + k - 1)
<1>1. PICK m \in Nat \ {0}, b \in Nat \ {0} : m = SubNR /\ b = BatchCount
  BY SizeAssumption
<1>2. PICK n \in Nat \ {0} : n = MessageNR
  BY RingSize
<1>3. n = b * m
  BY <1>1, <1>2 DEF MessageNR
<1>4. c \in Nat /\ c < n
  BY <1>2, RingSize
<1>5. PICK q \in Nat, r \in Nat : r = c % m /\ c = q * m + r /\ r < m
  BY <1>4, Divided
<1>6. PICK v \in Nat : v = q * m
  BY Products
<1>7. (q < b => v + m <= n) /\ (q >= b => v >= n)
  BY <1>3, <1>6, Products
<1>8. q < b /\ v + m <= n /\ c = v + r /\ r < m
  <2>1. c = v + r /\ r < m
    BY <1>5, <1>6
  <2>2. QED
    BY <1>4, <1>7, <2>1
<1>9. e \in Slot /\ e = IF c + 1 < n THEN c + 1 ELSE 0
  BY <1>2, NextPlace
<1>10. e \in Nat
  BY <1>9, RingSize
<1>11. CASE r + 1 < m
  <2>1. e = q * m + (r + 1) /\ r + 1 \in Nat
    BY <1>6, <1>8, <1>9, <1>11
  <2>2. e % m = r + 1
    <3>1. PICK s \in Nat : s = r + 1
      BY <2>1
    <3>2. Splits(e, m, q, s)
      BY <1>11, <2>1, <3>1 DEF Splits
    <3>3. e % m = s
      BY <1>10, <3>2, DividedOnce, ZenonT(60)
    <3>4. QED
      BY <3>1, <3>3
  <2>3. r + 1 # 0
    OBVIOUS
  <2>4. QED
    BY <1>1, <1>5, <2>2, <2>3
<1>12. CASE ~(r + 1 < m)
  <2>1. r = m - 1 /\ c + 1 = v + m
    BY <1>8, <1>12
  <2>2. PICK p \in Nat : p = IF q + 1 < b THEN q + 1 ELSE 0
    OBVIOUS
  <2>3. PICK w \in Nat : w = p * m
    BY Products
  <2>4. /\ q + 1 < b => w = v + m /\ w + m <= n
        /\ ~(q + 1 < b) => w = 0 /\ v + m = n
    <3>1. ASSUME q + 1 < b PROVE w = v + m /\ w + m <= n
      <4>1. p = q + 1
        BY <2>2, <3>1
      <4>2. (q + 1) * m = q * m + m
        BY Z3
      <4>3. p * m + m <= b * m
        BY <2>2, <3>1, Products
      <4>4. QED
        BY <1>3, <1>6, <2>3, <4>1, <4>2, <4>3
    <3>2. ASSUME ~(q + 1 < b) PROVE w = 0 /\ v + m = n
      <4>1. p = 0 /\ b = q + 1
        BY <1>8, <2>2, <3>2
      <4>2. (q + 1) * m = q * m + m /\ 0 * m = 0
        BY Z3
      <4>3. QED
        BY <1>3, <1>6, <2>3, <4>1, <4>2
    <3>3. QED
      BY <3>1, <3>2
  <2>5. e = w
    BY <1>9, <2>1, <2>4
  <2>6. e = p * m + 0
    BY <2>3, <2>5
  <2>7. e \div m = p /\ e % m = 0
    <3>1. PICK o \in Nat : o = 0
      OBVIOUS
    <3>2. Splits(e, m, p, o)
      BY <2>6, <3>1 DEF Splits
    <3>3. e \div m = p /\ e % m = o
      BY <1>10, <3>2, DividedOnce, ZenonT(60)
    <3>4. QED
      BY <3>1, <3>3
  <2>8. Finished(e) = q
    <3>1. p - 1 + b \in Nat /\ p - 1 + b < 2 * b
      BY <1>8, <2>2
    <3>2. PICK x \in Nat : x = p - 1 + b
      BY <3>1
    <3>3. x % b = IF x < b THEN x ELSE x - b
      BY <3>1, <3>2, Around
    <3>4. (IF x < b THEN x ELSE x - b) = q
      BY <1>8, <2>2, <3>2
    <3>5. QED
      BY <1>1, <2>7, <3>2, <3>3, <3>4 DEF Finished
  <2>9. ASSUME NEW k \in 1 .. SubNR
        PROVE  Batch(Finished(e))[k] = Place(e, MessageNR - SubNR + k - 1)
    <3>1. Batch(Finished(e))[k] = v + k - 1
      BY <1>1, <1>6, <2>8 DEF Batch
    <3>2. PICK j \in 0 .. MessageNR - 1 : j = MessageNR - SubNR + k - 1
      BY <1>1, <1>2, <1>8
    <3>3. Place(e, j) = IF e + j < MessageNR THEN e + j ELSE e + j - MessageNR
      BY <1>9, PlaceIs
    <3>4. Place(e, j) = v + k - 1
      BY <1>1, <1>2, <2>4, <2>5, <3>2, <3>3
    <3>5. QED
      BY <3>1, <3>2, <3>4
  <2>10. c % SubNR = SubNR - 1 /\ e % SubNR = 0
    BY <1>1, <1>5, <2>1, <2>7
  <2>11. QED
    BY <2>9, <2>10
<1>13. QED
  BY <1>11, <1>12

\* The place in the ring before a step to the next buffer, of the i-th after it.
Before(i) == IF i = MessageNR - 1 THEN 0 ELSE i + 1

\* Two sequences joined.
Joins(r, s, z) ==
    /\ Len(r) = Len(s) + Len(z)
    /\ \A i \in 1 .. Len(s) : r[i] = s[i]
    /\ \A i \in 1 .. Len(z) : r[Len(s) + i] = z[i]
LEMMA Joined ==
  ASSUME NEW S, NEW s \in Seq(S), NEW z \in Seq(S)
  PROVE  s \o z \in Seq(S) /\ Joins(s \o z, s, z)
BY DEF Joins

\* getMessage takes the next message into its hands.
LEMMA GetMessageMessages ==
  ASSUME Messages, Typed', NEW d \in Dir, GetMessage(d)
  PROVE  Messages'
<1>0. PICK a, l : a = arrived[d] /\ l = Len(posted[d])
  BY Zenon
<1> DEFINE c == curMessage[d]
           e == (c + 1) % MessageNR
           p == IF e % SubNR = 0 THEN posted[d] \o Batch(Finished(e)) ELSE posted[d]
<1>1. /\ inHand[d] = NoSlot /\ a > 0
      /\ arrived' = [arrived EXCEPT ![d] = a - 1]
      /\ inHand' = [inHand EXCEPT ![d] = c]
      /\ curMessage' = [curMessage EXCEPT ![d] = e]
      /\ posted' = [posted EXCEPT ![d] = p]
      /\ UNCHANGED <<calls, pool, reply, target, pc>>
  BY <1>0 DEF GetMessage, TakeMessage
<1>2. /\ RingTyped /\ Ring(d) /\ pool[d] \in [Slot -> Thread]
      /\ target \in [Thread -> Dir]
  BY DEF Messages, RingTyped, Typed
<1>3. /\ c \in Slot /\ posted[d] \in Seq(Slot)
      /\ a \in Nat /\ l \in Nat /\ a <= MessageNR
  BY <1>0, <1>2, RingFacts
<1>4. /\ e \in Slot
      /\ \A i \in 0 .. MessageNR - 2 : Place(e, i) = Place(c, i + 1)
      /\ Place(e, MessageNR - 1) = c
      /\ Place(c, 0) = c
  BY <1>3, NextPlace
<1>5. /\ e % SubNR # 0 => e % SubNR = (c % SubNR) + 1
      /\ e % SubNR = 0 =>
             /\ c % SubNR = SubNR - 1
             /\ \A k \in 1 .. SubNR :
                    Batch(Finished(e))[k] = Place(e, MessageNR - SubNR + k - 1)
  BY <1>3, BatchPlaces
<1> HIDE DEF e
<1>6. PICK y \in Nat : y = c % SubNR
  BY <1>2, RingFacts, RingSize
<1>7. l + a + y = MessageNR /\ a \in Nat /\ a > 0 /\ l \in Nat
  BY <1>0, <1>1, <1>2, <1>3, <1>6 DEF Ring
<1>8. ASSUME NEW i \in 1 .. l
      PROVE  posted[d][i] = Place(e, (a - 1) + i - 1)
  <2>1. /\ (a - 1) + i - 1 \in 0 .. MessageNR - 2
        /\ ((a - 1) + i - 1) + 1 = a + i - 1
    BY <1>7, RingSize
  <2>2. posted[d][i] = Place(c, a + i - 1)
    BY <1>0, <1>2 DEF Ring
  <2>3. QED
    BY <1>4, <2>1, <2>2
<1>9. /\ p \in Seq(Slot)
      /\ Len(p) + (a - 1) + (e % SubNR) = MessageNR
      /\ \A i \in 1 .. Len(p) : p[i] = Place(e, (a - 1) + i - 1)
  <2>1. CASE e % SubNR # 0
    <3>1. p = posted[d] /\ e % SubNR = y + 1
      BY <1>5, <1>6, <2>1
    <3>2. l + (a - 1) + (y + 1) = MessageNR
      BY <1>7, RingSize
    <3>3. QED
      BY <1>0, <1>3, <1>8, <3>1, <3>2
  <2>2. CASE e % SubNR = 0
    <3> DEFINE z == Batch(Finished(e))
    <3>1. p = posted[d] \o z /\ y = SubNR - 1
      BY <1>5, <1>6, <2>2
    <3>2. \A k \in 1 .. SubNR : z[k] = Place(e, MessageNR - SubNR + k - 1)
      BY <1>5, <2>2
    <3>3. \A k \in 1 .. SubNR : MessageNR - SubNR + k - 1 \in 0 .. MessageNR - 1
      BY RingSize
    <3>4. \A k \in 1 .. SubNR : z[k] \in Slot
      BY <1>4, <3>2, <3>3, PlaceIs
    <3>5. z \in [1 .. SubNR -> Slot]
      BY <3>4 DEF Batch
    <3> HIDE DEF z, p
    <3>6. z \in Seq(Slot) /\ Len(z) = SubNR
      BY <3>5, RingSize
    <3>7. /\ p \in Seq(Slot) /\ Len(p) = l + SubNR
          /\ \A i \in 1 .. l : p[i] = posted[d][i]
          /\ \A k \in 1 .. SubNR : p[l + k] = z[k]
      <4>1. p \in Seq(Slot) /\ Joins(p, posted[d], z)
        BY <1>3, <3>1, <3>6, Joined
      <4>2. Len(posted[d]) = l /\ Len(z) = SubNR
        BY <1>0, <3>6
      <4>3. p \in Seq(Slot) /\ Len(p) = l + SubNR
        BY <4>1, <4>2 DEF Joins
      <4>4. \A i \in 1 .. l : p[i] = posted[d][i]
        BY <4>1, <4>2 DEF Joins
      <4>5. \A k \in 1 .. SubNR : p[l + k] = z[k]
        BY <4>1, <4>2 DEF Joins
      <4>6. QED
        BY <4>3, <4>4, <4>5
    <3>8. Len(p) + (a - 1) + 0 = MessageNR
      <4>1. Len(p) = l + SubNR /\ y = SubNR - 1
        BY <3>1, <3>7
      <4>2. QED
        BY <1>7, <4>1, RingSize
    <3>9. ASSUME NEW i \in 1 .. Len(p) PROVE p[i] = Place(e, (a - 1) + i - 1)
      <4>1. CASE i <= l
        <5>1. i \in 1 .. l
          BY <1>7, <4>1
        <5>2. QED
          BY <1>8, <3>7, <5>1
      <4>2. CASE ~(i <= l)
        <5>1. Len(p) = l + SubNR /\ y = SubNR - 1
          BY <3>1, <3>7
        <5>2. PICK k \in 1 .. SubNR : i = l + k
          <6>1. i - l \in 1 .. SubNR /\ i = l + (i - l)
            BY <1>7, <4>2, <5>1, RingSize
          <6>2. QED
            BY <6>1, Zenon
        <5>3. MessageNR - SubNR + k - 1 = (a - 1) + i - 1
          BY <1>7, <5>1, <5>2, RingSize
        <5>4. QED
          BY <3>2, <3>7, <5>2, <5>3
      <4>3. QED
        BY <4>1, <4>2
    <3>10. QED
      BY <2>2, <3>7, <3>8, <3>9
  <2>3. QED
    BY <2>1, <2>2
<1> HIDE DEF p
<1>10. /\ posted'[d] = p /\ arrived'[d] = a - 1 /\ pool' = pool
       /\ curMessage'[d] = e /\ inHand'[d] = c
  BY <1>1, <1>2 DEF RingTyped
<1>11. RingTyped'
  <2>1. a - 1 \in Nat
    BY <1>1, <1>3
  <2>2. QED
    BY <1>1, <1>2, <1>3, <1>4, <1>9, <2>1 DEF RingTyped
<1>12. Held(d) = 0 .. a - 1 /\ Held(d)' = (0 .. (a - 1) - 1) \cup {MessageNR - 1}
  BY <1>0, <1>1, <1>3, <1>10, RingSize DEF Held
<1>13. ASSUME NEW i \in Held(d)'
       PROVE  Before(i) \in Held(d) /\ Place(e, i) = Place(c, Before(i))
  <2>1. CASE i = MessageNR - 1
    <3>1. Before(i) = 0 /\ 0 \in 0 .. a - 1
      BY <1>1, <1>3, <2>1 DEF Before
    <3>2. QED
      BY <1>4, <1>12, <2>1, <3>1
  <2>2. CASE i # MessageNR - 1
    <3>1. i \in 0 .. MessageNR - 2 /\ i + 1 \in 0 .. a - 1
      BY <1>3, <1>12, <2>2, RingSize
    <3>2. Before(i) = i + 1
      BY <2>2 DEF Before
    <3>3. QED
      BY <1>4, <1>12, <3>1, <3>2
  <2>3. QED
    BY <2>1, <2>2
<1>14. ASSUME NEW j \in Held(d)
       PROVE  \E i \in Held(d)' : Before(i) = j
  <2>1. CASE j = 0
    BY <1>12, <2>1 DEF Before
  <2>2. CASE j # 0
    <3>1. PICK i \in 0 .. (a - 1) - 1 : i = j - 1
      BY <1>3, <1>12, <2>2
    <3>2. i # MessageNR - 1 /\ i + 1 = j
      BY <1>3, <1>12, <3>1, RingSize
    <3>3. QED
      BY <1>12, <3>1, <3>2 DEF Before
  <2>3. QED
    BY <2>1, <2>2
<1>15. \A u \in Thread : InRing(u, d)' <=> InRing(u, d)
  <2>1. ASSUME NEW u \in Thread, InRing(u, d)' PROVE InRing(u, d)
    <3>1. PICK i \in Held(d)' : pool[d][Place(e, i)] = u
      BY <1>10, <2>1 DEF InRing, Place
    <3>2. QED
      BY <1>13, <3>1 DEF InRing
  <2>2. ASSUME NEW u \in Thread, InRing(u, d) PROVE InRing(u, d)'
    <3>1. PICK j \in Held(d) : pool[d][Place(c, j)] = u
      BY <2>2 DEF InRing
    <3>2. PICK i \in Held(d)' : Before(i) = j
      BY <1>14
    <3>3. pool[d][Place(e, i)] = u
      BY <1>13, <3>1, <3>2
    <3>4. QED
      BY <1>10, <3>3 DEF InRing, Place
  <2>3. QED
    BY <2>1, <2>2
<1>16. Ring(d)'
  <2>1. ASSUME NEW i \in Held(d)', NEW j \in Held(d)',
               pool[d][Place(e, i)] = pool[d][Place(e, j)]
        PROVE  i = j
    <3>1. Before(i) = Before(j)
      BY <1>2, <1>13, <2>1 DEF Ring
    <3>2. i \in 0 .. MessageNR - 1 /\ j \in 0 .. MessageNR - 1
      BY <1>3, <1>12, RingSize
    <3>3. QED
      BY <3>1, <3>2, RingSize DEF Before
  <2>2. c = Place(e, MessageNR - 1) /\ a - 1 < MessageNR
    BY <1>3, <1>4, RingSize
  <2>3. Len(posted'[d]) + arrived'[d] + (curMessage'[d] % SubNR) = MessageNR
    BY <1>9, <1>10
  <2>4. \A i \in 1 .. Len(posted'[d]) : posted'[d][i] = Place(e, arrived'[d] + i - 1)
    BY <1>9, <1>10
  <2>5. QED
    BY <1>10, <2>1, <2>2, <2>3, <2>4 DEF Ring, Place
<1>17. ASSUME NEW f \in Dir, f # d
       PROVE  Ring(f)' /\ \A u \in Thread : InRing(u, f)' <=> InRing(u, f)
  <2>1. /\ posted'[f] = posted[f] /\ pool'[f] = pool[f] /\ arrived'[f] = arrived[f]
        /\ curMessage'[f] = curMessage[f] /\ inHand'[f] = inHand[f]
    BY <1>1, <1>2, <1>17 DEF RingTyped
  <2>2. QED
    BY <2>1, RingSame DEF Messages
<1>18. ASSUME NEW u \in Thread PROVE Flight(u)'
  <2>1. Flight(u) /\ target[u] \in Dir
    BY <1>2 DEF Messages
  <2>2. \A f \in Dir : InRing(u, f)' <=> InRing(u, f)
    BY <1>15, <1>17
  <2>3. QED
    BY <1>1, <2>1, <2>2, FlightSame
<1>19. QED
  BY <1>11, <1>16, <1>17, <1>18 DEF Messages

-----------------------------------------------------------------------------
(* The answer *)

\* alloc_chunck answers the thread whose message is in hand, and drops the message.
LEMMA AllocChunkMessages ==
  ASSUME Messages, Typed', NEW d \in Dir, AllocChunk(d)
  PROVE  Messages'
<1> DEFINE c == curMessage[d]
           chunk == Start(d) + tail[d] * ChunkSize
<1>0. PICK t : t = pool[d][inHand[d]]
  BY Zenon
<1>1. /\ inHand[d] # NoSlot /\ inHand' = [inHand EXCEPT ![d] = NoSlot]
      /\ reply' = [reply EXCEPT ![t] = chunk]
      /\ UNCHANGED <<calls, posted, pool, arrived, curMessage, target, pc>>
  BY <1>0 DEF AllocChunk, sendMessage2App
<1>2. /\ RingTyped /\ Ring(d) /\ pool[d] \in [Slot -> Thread]
      /\ target \in [Thread -> Dir] /\ reply \in [Thread -> Nat] /\ tail[d] \in Nat
  BY DEF Messages, RingTyped, Typed
<1>3. /\ c \in Slot /\ arrived[d] \in Nat
      /\ \A i \in Held(d) : Place(c, i) \in Slot
  BY <1>2, RingFacts
<1>4. inHand[d] = Place(c, MessageNR - 1) /\ arrived[d] < MessageNR
  BY <1>1, <1>2 DEF Ring
<1>5. chunk # Null
  <2>1. tail[d] * ChunkSize \in Nat /\ DirSize * d \in Nat
    BY <1>2, DirFacts, SizeAssumption
  <2>2. QED
    BY <2>1, SizeAssumption DEF Start, Null
<1>6. /\ Held(d) = (0 .. arrived[d] - 1) \cup {MessageNR - 1}
      /\ MessageNR - 1 \notin 0 .. arrived[d] - 1
      /\ MessageNR - 1 \in Held(d)
  BY <1>1, <1>3, <1>4, RingSize DEF Held
<1>7. inHand'[d] = NoSlot
  BY <1>1, <1>2 DEF RingTyped
<1>8. Held(d)' = Held(d) \ {MessageNR - 1}
  <2>1. Held(d)' = 0 .. arrived[d] - 1
    BY <1>1, <1>7 DEF Held
  <2>2. QED
    BY <1>6, <2>1, Zenon
<1>9. t = pool[d][Place(c, MessageNR - 1)] /\ t \in Thread /\ InRing(t, d)
  BY <1>0, <1>2, <1>3, <1>4, <1>6 DEF InRing
<1> HIDE DEF chunk
<1>10. pc[t] = "rpc_wait" /\ d = target[t] /\ reply[t] = Null /\ <<t, d>> \notin calls
  BY <1>9 DEF Messages, Flight
<1>11. \A i, j \in Held(d) : pool[d][Place(c, i)] = pool[d][Place(c, j)] => i = j
  BY <1>2 DEF Ring
<1>12. \A u \in Thread : InRing(u, d)' <=> InRing(u, d) /\ u # t
  BY <1>1, <1>6, <1>8, <1>9, <1>11 DEF InRing, Place
<1>13. RingTyped'
  BY <1>1, <1>2 DEF RingTyped
<1>14. Ring(d)'
  BY <1>1, <1>2, <1>7, <1>8, <1>11 DEF Ring, Place
<1>15. ASSUME NEW e \in Dir, e # d
       PROVE  Ring(e)' /\ \A u \in Thread : InRing(u, e)' <=> InRing(u, e)
  <2>1. inHand'[e] = inHand[e]
    BY <1>1, <1>2, <1>15 DEF RingTyped
  <2>2. QED
    BY <1>1, <2>1, RingSame DEF Messages
<1>16. ASSUME NEW u \in Thread PROVE Flight(u)'
  <2>0. Flight(u) /\ target[u] \in Dir
    BY <1>2 DEF Messages
  <2>1. CASE u = t
    <3>1. reply'[t] = chunk
      BY <1>1, <1>2, <1>9
    <3>2. ASSUME NEW e \in Dir PROVE <<t, e>> \notin calls' /\ ~InRing(t, e)'
      <4>1. CASE e = d
        BY <1>1, <1>9, <1>10, <1>12, <4>1
      <4>2. CASE e # d
        <5>1. <<t, e>> \notin calls /\ ~InRing(t, e)
          BY <1>10, <2>0, <2>1, <4>2 DEF Flight
        <5>2. QED
          BY <1>1, <1>9, <1>15, <4>2, <5>1
      <4>3. QED
        BY <4>1, <4>2
    <3>3. pc'[t] = "rpc_wait" /\ reply'[t] # Null
      BY <1>1, <1>5, <1>10, <3>1
    <3>4. QED
      BY <2>1, <3>2, <3>3, Zenon DEF Flight
  <2>2. CASE u # t
    <3>1. reply'[u] = reply[u]
      BY <1>1, <1>2, <2>2
    <3>2. \A e \in Dir : InRing(u, e)' <=> InRing(u, e)
      BY <1>12, <1>15, <2>2
    <3>3. QED
      BY <1>1, <2>0, <3>1, <3>2, FlightSame
  <2>3. QED
    BY <2>1, <2>2
<1>17. QED
  BY <1>13, <1>14, <1>15, <1>16 DEF Messages

-----------------------------------------------------------------------------

\* The invariant of the messages is inductive.
LEMMA NextMessages == RingSuffices /\ Messages /\ [Next]_vars => Messages'
<1> SUFFICES ASSUME RingSuffices, Messages, [Next]_vars
             PROVE  Messages'
  OBVIOUS
<1>0. Typed'
  BY NextTyped DEF Messages
<1>1. ASSUME NEW t \in Thread, NEW b \in live, Free(t, b)
      PROVE  Messages'
  BY <1>0, <1>1, OtherMessages DEF Free, ringVars
<1>2. ASSUME NEW d \in Dir, RunOut(d)
      PROVE  Messages'
  BY <1>0, <1>2, OtherMessages DEF RunOut, ringVars
<1>3. CASE UNCHANGED vars
  BY <1>0, <1>3, OtherMessages DEF vars, ringVars
<1>4. QED
  BY <1>0, <1>1, <1>2, <1>3, AllocMessages, AllocRpcMessages, RpcReturnMessages,
     DeliverMessages, GetMessageMessages, AllocChunkMessages DEF Next

\* The buffers of CallInFlight are those of Held.
LEMMA UnreadIsHeld ==
  ASSUME RingTyped, NEW d \in Dir, Ring(d)
  PROVE  Unread(d) = {Place(curMessage[d], i) : i \in Held(d)}
<1>1. CASE inHand[d] = NoSlot
  BY <1>1 DEF Unread, Held, Place
<1>2. CASE inHand[d] # NoSlot
  <2>1. {inHand[d]} \ {NoSlot} = {Place(curMessage[d], MessageNR - 1)}
    BY <1>2 DEF Ring
  <2>2. Held(d) = (0 .. arrived[d] - 1) \cup {MessageNR - 1}
    BY <1>2 DEF Held
  <2>3. Unread(d) = {Place(curMessage[d], i) : i \in 0 .. arrived[d] - 1}
                    \cup {Place(curMessage[d], MessageNR - 1)}
    BY <2>1 DEF Unread, Place
  <2>4. QED
    BY <2>2, <2>3
<1>3. QED
  BY <1>1, <1>2

\* One message, or none.
LEMMA UnreadOfThread ==
  ASSUME RingTyped, NEW d \in Dir, Ring(d), NEW t \in Thread
  PROVE  Cardinality({i \in Unread(d) : pool[d][i] = t}) = IF InRing(t, d) THEN 1 ELSE 0
<1> DEFINE U == {i \in Unread(d) : pool[d][i] = t}
<1>1. Unread(d) = {Place(curMessage[d], i) : i \in Held(d)}
  BY UnreadIsHeld
<1>2. CASE InRing(t, d)
  <2>1. PICK i \in Held(d) : pool[d][Place(curMessage[d], i)] = t
    BY <1>2 DEF InRing
  <2>2. \A j \in Held(d) : pool[d][Place(curMessage[d], j)] = t => j = i
    BY <2>1 DEF Ring
  <2>3. U = {Place(curMessage[d], i)}
    BY <1>1, <2>1, <2>2
  <2>4. QED
    BY <1>2, <2>3, FS_Singleton
<1>3. CASE ~InRing(t, d)
  <2>1. U = {}
    BY <1>1, <1>3 DEF InRing
  <2>2. QED
    BY <1>3, <2>1, FS_EmptySet
<1>4. QED
  BY <1>2, <1>3

\* While the ring has room for all threads beside the buffers of a batch, every
\* thread in rpc_wait has its MALLOC in exactly one place, on the way, in the
\* ring or answered: the card never drops one for want of a posted buffer, nor
\* writes over one that is to be read or in hand, although getMessage posts the
\* buffer it returns before it is used, and none is answered twice.
THEOREM CallsStayInFlight == RingSuffices => (Spec => []CallInFlight)
<1> SUFFICES ASSUME RingSuffices
             PROVE  Spec => []CallInFlight
  OBVIOUS
<1>1. CASE Thread = {}
  <2>1. CallInFlight
    BY <1>1 DEF CallInFlight
  <2>2. QED
    BY <2>1, PTL
<1>2. CASE Thread # {}
  <2>1. Init => Messages
    BY <1>2, InitMessages
  <2>2. Messages /\ [Next]_vars => Messages'
    BY NextMessages
  <2>3. Messages => CallInFlight
    <3> SUFFICES ASSUME Messages, NEW t \in Thread
                 PROVE  LET d == target[t]
                            sent == IF <<t, d>> \in calls THEN 1 ELSE 0
                            answered == IF reply[t] # Null THEN 1 ELSE 0
                        IN  sent + Cardinality({i \in Unread(d) : pool[d][i] = t})
                                + answered
                            = IF pc[t] = "rpc_wait" THEN 1 ELSE 0
      BY DEF CallInFlight
    <3> DEFINE d == target[t]
               k == Cardinality({i \in Unread(d) : pool[d][i] = t})
    <3>1. d \in Dir /\ Flight(t) /\ RingTyped /\ Ring(d)
      BY DEF Messages, Typed
    <3>2. k = IF InRing(t, d) THEN 1 ELSE 0
      BY <3>1, UnreadOfThread
    <3> HIDE DEF k
    <3>3. \/ /\ pc[t] = "rpc_wait" /\ reply[t] = Null
             /\ <<t, d>> \in calls /\ ~InRing(t, d)
          \/ /\ pc[t] = "rpc_wait" /\ reply[t] = Null
             /\ <<t, d>> \notin calls /\ InRing(t, d)
          \/ /\ pc[t] = "rpc_wait" /\ reply[t] # Null
             /\ <<t, d>> \notin calls /\ ~InRing(t, d)
          \/ /\ pc[t] # "rpc_wait" /\ reply[t] = Null
             /\ <<t, d>> \notin calls /\ ~InRing(t, d)
      BY <3>1, Zenon DEF Flight
    <3>4. (IF <<t, d>> \in calls THEN 1 ELSE 0) + k
              + (IF reply[t] # Null THEN 1 ELSE 0)
          = IF pc[t] = "rpc_wait" THEN 1 ELSE 0
      BY <3>2, <3>3
    <3>5. QED
      BY <3>4 DEF k
  <2>4. QED
    BY <2>1, <2>2, <2>3, PTL DEF Spec
<1>3. QED
  BY <1>1, <1>2
=============================================================================
