-------------------------- MODULE ConfigFlash_proofs --------------------------
(***************************************************************************)
(* Proofs about the parameter store, for any contents, any length of the   *)
(* sector and power failures at any step, where one thread saves; and      *)
(* about the sector that is erased, for any address.                       *)
(*                                                                         *)
(* The walks through the log are recursive functions of the address that   *)
(* end because a block lies behind the one before it.  What a walk finds   *)
(* is proved by induction from the end of the sector down, as a claim      *)
(* about sets of addresses (Downward).  The log of a flash f ends at       *)
(* FindFirstFree(f); LogInv(f) is what makes it end there still when one   *)
(* more word is programmed or torn, but for the last word of a header.     *)
(***************************************************************************)
EXTENDS ConfigFlash, FlashSector, WellFoundedInduction, TLAPS

-----------------------------------------------------------------------------
(* Induction over addresses: a claim that fails somewhere fails at a       *)
(* smallest number, here the largest address.                              *)
Less == {p \in Nat \X Nat : p[1] < p[2]}

LEMMA Smallest ==
    ASSUME NEW S \in SUBSET Nat, S # {}
    PROVE  \E k \in S : \A j \in S : k <= j
<1>1. IsWellFoundedOn(Less, Nat)
  BY NatLessThanWellFounded DEF OpToRel, Less
<1>2. PICK k \in S : \A j \in S : ~(<<j, k>> \in Less)
  BY <1>1, WFMin
<1>3. \A j \in S : ~(j < k)
  BY <1>2 DEF Less
<1> QED BY SMT, <1>3

LEMMA Downward ==
    ASSUME NEW S, NEW m \in Nat, \A a \in Nat : a >= m => a \in S,
           \A a \in Nat : (\A b \in Nat : b > a => b \in S) => a \in S
    PROVE  \A a \in Nat : a \in S
<1> SUFFICES ASSUME NEW a \in Nat, a \notin S PROVE FALSE
  OBVIOUS
<1> DEFINE D == {k \in Nat : \E b \in Nat : b \notin S /\ k = m - b}
<1>1. \A b \in Nat : b \notin S => m - b \in D
  BY SMT
<1>2. PICK k \in D : \A j \in D : k <= j
  BY <1>1, Smallest
<1>3. PICK b \in Nat : b \notin S /\ k = m - b
  BY <1>2
<1>4. PICK e \in Nat : e > b /\ e \notin S
  BY <1>3
<1>5. m - e \in D /\ m - e < m - b
  BY SMT, <1>1, <1>3, <1>4
<1> QED BY SMT, <1>2, <1>3, <1>4, <1>5

-----------------------------------------------------------------------------
(* The log f as it is read.  A block that is valid has one length, and the *)
(* next one lies behind it.                                                *)
LEMMA BlockLemma ==
    ASSUME NEW f, NEW a
    PROVE  /\ BlockLength(f, a) \in 0..Sector
           /\ \A n \in 0..Sector : HasLength(f, a, n) => BlockLength(f, a) = n
           /\ BlockIsValid(f, a) <=>
                 /\ HasLength(f, a, BlockLength(f, a))
                 /\ f[a + 2] = {DataCrc(Contents(f, a + Header, BlockLength(f, a)))}
<1> DEFINE Is(n) == (\E k \in 0..Sector : f[a + 1] = {Len32(k)}) => f[a + 1] = {Len32(n)}
           l == BlockLength(f, a)
<1>1. \E n \in 0..Sector : Is(n)
  <2>1. CASE \E k \in 0..Sector : f[a + 1] = {Len32(k)}
    BY <2>1
  <2>2. CASE ~ \E k \in 0..Sector : f[a + 1] = {Len32(k)}
    <3>1. 0 \in 0..Sector
      BY SMT, SectorAssumption
    <3> QED BY <2>2, <3>1
  <2> QED BY <2>1, <2>2
<1>2. l \in 0..Sector /\ Is(l)
  <2> DEFINE P(n) == Is(n)
  <2>1. l = CHOOSE n \in 0..Sector : P(n)
    BY DEF BlockLength
  <2> QED BY <1>1, <2>1
<1> HIDE DEF l
<1>3. \A n \in 0..Sector : HasLength(f, a, n) => l = n
  <2> SUFFICES ASSUME NEW n \in 0..Sector, HasLength(f, a, n) PROVE l = n
    OBVIOUS
  <2>1. f[a + 1] = {Len32(n)}
    BY DEF HasLength
  <2>2. f[a + 1] = {Len32(l)}
    BY <1>2, <2>1
  <2>3. Len32(l) = Len32(n)
    BY <2>1, <2>2
  <2> QED BY <2>3 DEF Len32
<1>4. BlockIsValid(f, a) <=> /\ HasLength(f, a, l)
                             /\ f[a + 2] = {DataCrc(Contents(f, a + Header, l))}
  BY <1>2, <1>3 DEF BlockIsValid
<1> QED BY <1>2, <1>3, <1>4 DEF l

LEMMA AfterLemma ==
    ASSUME NEW f, NEW a \in Nat
    PROVE  After(f, a) \in Nat /\ After(f, a) = a + BlockLength(f, a) + 3 /\ After(f, a) > a
BY SMT, BlockLemma DEF After, Header

\* The loops of find_first_free and find_last_used end: the functions they
\* compute exist.
FreeWalk(f, g) == [a \in Nat |-> IF InUse(f, a) THEN g[After(f, a)] ELSE a]
LastWalk(f, g) == [a \in Nat |-> IF InUse(f, After(f, a)) THEN g[After(f, a)] ELSE a]

LEMMA WalkExists ==
    ASSUME NEW G \in SUBSET Nat, NEW next \in [Nat -> Nat],
           \A a \in G : a < Sector, \A a \in Nat : next[a] > a
    PROVE  \E g \in [Nat -> Nat] : g = [a \in Nat |-> IF a \in G THEN g[next[a]] ELSE a]
<1> DEFINE Upto(k, g) == \A a \in Nat : a >= k => g[a] = IF a \in G THEN g[next[a]] ELSE a
           S == {k \in Nat : \E g \in [Nat -> Nat] : Upto(k, g)}
<1>1. Sector \in S
  <2> DEFINE g == [a \in Nat |-> a]
  <2>1. \A a \in Nat : a >= Sector => a \notin G
    BY SMT, SectorAssumption
  <2>2. g \in [Nat -> Nat] /\ Upto(Sector, g)
    BY <2>1
  <2> QED BY <2>2, SectorAssumption
<1>2. PICK k \in S : \A j \in S : k <= j
  BY <1>1, Smallest
<1>3. k = 0
  <2> SUFFICES ASSUME k # 0 PROVE FALSE
    OBVIOUS
  <2>1. PICK g \in [Nat -> Nat] : Upto(k, g)
    BY <1>2
  <2> DEFINE j == k - 1
             h == [g EXCEPT ![j] = IF j \in G THEN g[next[j]] ELSE j]
  <2>2. j \in Nat /\ j < k /\ \A a \in Nat : a >= j /\ a # j => a >= k
    BY SMT, <1>2
  <2> HIDE DEF j
  <2>3. h \in [Nat -> Nat]
    BY <2>2
  <2>4. \A a \in Nat : a # j => h[a] = g[a]
    OBVIOUS
  <2>5. h[j] = IF j \in G THEN g[next[j]] ELSE j
    BY <2>2
  <2>6. \A a \in Nat : a >= j => next[a] \in Nat /\ next[a] # j
    BY SMT, <2>2
  <2> HIDE DEF h
  <2>7. Upto(j, h)
    BY <2>1, <2>2, <2>4, <2>5, <2>6
  <2>8. j \in S
    BY <2>2, <2>3, <2>7
  <2>9. k <= j /\ j < k /\ k \in Nat
    BY <1>2, <2>2, <2>8
  <2> QED BY SMT, <2>2, <2>9
<1>4. PICK g \in [Nat -> Nat] : Upto(0, g)
  BY <1>2, <1>3
<1>5. \A a \in Nat : a >= 0
  BY SMT
<1> QED BY <1>4, <1>5

LEMMA FreeWalkLemma == ASSUME NEW f PROVE \E g : g = FreeWalk(f, g) /\ FindFirstFree(f) = g[0]
<1> DEFINE next == [a \in Nat |-> After(f, a)]
           G == {a \in Nat : InUse(f, a)}
<1>1. next \in [Nat -> Nat] /\ \A a \in Nat : next[a] > a
  BY AfterLemma
<1>2. \A a \in G : a < Sector
  BY SMT, SectorAssumption DEF InUse, Readable
<1>3. PICK g \in [Nat -> Nat] : g = [a \in Nat |-> IF a \in G THEN g[next[a]] ELSE a]
  <2> HIDE DEF next, G
  <2>1. G \in SUBSET Nat
    BY DEF G
  <2> QED BY <1>1, <1>2, <2>1, WalkExists
<1>4. \E h : h = FreeWalk(f, h)
  <2>1. g = FreeWalk(f, g)
    BY <1>3 DEF FreeWalk
  <2> QED BY <2>1
<1> DEFINE h == CHOOSE h : h = FreeWalk(f, h)
<1>5. h = FreeWalk(f, h)
  BY <1>4
<1>6. FindFirstFree(f) = h[0]
  BY DEF FindFirstFree, FreeWalk
<1> HIDE DEF h
<1> QED BY <1>5, <1>6

LEMMA LastWalkLemma ==
    ASSUME NEW f
    PROVE  \E g : /\ g = LastWalk(f, g)
                  /\ FindLastUsed(f) = IF BlockIsValid(f, 0) THEN g[0] ELSE -1
<1> DEFINE next == [a \in Nat |-> After(f, a)]
           G == {a \in Nat : InUse(f, After(f, a))}
<1>1. next \in [Nat -> Nat] /\ \A a \in Nat : next[a] > a
  BY AfterLemma
<1>2. \A a \in G : a < Sector
  BY SMT, SectorAssumption, AfterLemma DEF InUse, Readable
<1>3. PICK g \in [Nat -> Nat] : g = [a \in Nat |-> IF a \in G THEN g[next[a]] ELSE a]
  <2> HIDE DEF next, G
  <2>1. G \in SUBSET Nat
    BY DEF G
  <2> QED BY <1>1, <1>2, <2>1, WalkExists
<1>4. \E h : h = LastWalk(f, h)
  <2>1. g = LastWalk(f, g)
    BY <1>3 DEF LastWalk
  <2> QED BY <2>1
<1> DEFINE h == CHOOSE h : h = LastWalk(f, h)
<1>5. h = LastWalk(f, h)
  BY <1>4
<1>6. FindLastUsed(f) = IF BlockIsValid(f, 0) THEN h[0] ELSE -1
  BY DEF FindLastUsed, LastWalk
<1> HIDE DEF h
<1> QED BY <1>5, <1>6

-----------------------------------------------------------------------------
(* Where the log f ends, and which block is its last one.                  *)
LEMMA WalkEnds ==
    ASSUME NEW f, NEW g, g = FreeWalk(f, g), NEW P \in SUBSET Nat,
           \A a \in P : InUse(f, a) => After(f, a) \in P
    PROVE  \A a \in P : g[a] \in P /\ ~InUse(f, g[a])
<1> DEFINE S == {a \in Nat : a \in P => g[a] \in P /\ ~InUse(f, g[a])}
<1>1. \A a \in Nat : g[a] = IF InUse(f, a) THEN g[After(f, a)] ELSE a
  BY DEF FreeWalk
<1>2. \A a \in Nat : a >= Sector => a \in S
  <2>1. \A a \in Nat : a >= Sector => ~InUse(f, a)
    BY SMT, SectorAssumption DEF InUse, Readable
  <2> QED BY <1>1, <2>1
<1>3. ASSUME NEW a \in Nat, \A b \in Nat : b > a => b \in S
      PROVE  a \in S
  BY <1>1, <1>3, AfterLemma
<1>4. \A a \in Nat : a \in S
  <2> HIDE DEF S
  <2> QED BY <1>2, <1>3, Downward, SectorAssumption
<1> QED BY <1>4

LEMMA WalkAhead ==
    ASSUME NEW f, NEW g, g = FreeWalk(f, g), NEW a \in Nat
    PROVE  g[a] \in Nat /\ a <= g[a]
<1> DEFINE P == {b \in Nat : a <= b}
<1>1. \A b \in P : InUse(f, b) => After(f, b) \in P
  BY SMT, AfterLemma
<1>2. a \in P
  BY SMT
<1>3. g[a] \in P
  <2>1. P \in SUBSET Nat
    OBVIOUS
  <2> HIDE DEF P
  <2> QED BY <1>1, <1>2, <2>1, WalkEnds
<1> QED BY <1>3

LEMMA Ends ==
    ASSUME NEW f, NEW P \in SUBSET Nat, 0 \in P,
           \A a \in P : InUse(f, a) => After(f, a) \in P
    PROVE  FindFirstFree(f) \in P /\ ~InUse(f, FindFirstFree(f))
<1>1. PICK g : g = FreeWalk(f, g) /\ FindFirstFree(f) = g[0]
  BY FreeWalkLemma
<1> QED BY <1>1, WalkEnds

LEMMA FirstFreeLemma ==
    ASSUME NEW f
    PROVE  FindFirstFree(f) \in Nat /\ ~InUse(f, FindFirstFree(f))
BY Ends, AfterLemma

LEMMA FirstIsReadable == \A f : InUse(f, 0) <=> BlockIsValid(f, 0)
BY SMT, SectorAssumption DEF InUse, Readable

LEMMA LastIsValid ==
    ASSUME NEW f
    PROVE  \/ FindLastUsed(f) = -1 /\ ~InUse(f, 0)
           \/ /\ FindLastUsed(f) \in Nat /\ InUse(f, FindLastUsed(f))
              /\ After(f, FindLastUsed(f)) = FindFirstFree(f)
<1>1. PICK g : g = FreeWalk(f, g) /\ FindFirstFree(f) = g[0]
  BY FreeWalkLemma
<1>2. PICK l : l = LastWalk(f, l) /\ FindLastUsed(f) = IF BlockIsValid(f, 0) THEN l[0] ELSE -1
  BY LastWalkLemma
<1>3. \A a \in Nat : /\ g[a] = IF InUse(f, a) THEN g[After(f, a)] ELSE a
                     /\ l[a] = IF InUse(f, After(f, a)) THEN l[After(f, a)] ELSE a
  BY <1>1, <1>2 DEF FreeWalk, LastWalk
<1> DEFINE S == {a \in Nat : InUse(f, a) => l[a] \in Nat /\ InUse(f, l[a]) /\ After(f, l[a]) = g[a]}
<1>4. \A a \in Nat : a >= Sector => a \in S
  BY SMT, SectorAssumption DEF InUse, Readable
<1>5. ASSUME NEW a \in Nat, \A b \in Nat : b > a => b \in S
      PROVE  a \in S
  BY <1>3, <1>5, AfterLemma
<1>6. \A a \in Nat : a \in S
  <2> HIDE DEF S
  <2> QED BY <1>4, <1>5, Downward, SectorAssumption
<1> QED BY <1>1, <1>2, <1>6, FirstIsReadable

\* A log g that holds the blocks of f ends where f ends, or one block later.
LEMMA WalkOn ==
    ASSUME NEW f, NEW g,
           \A a \in Nat : InUse(f, a) /\ After(f, a) <= FindFirstFree(f)
                          => InUse(g, a) /\ After(g, a) = After(f, a)
    PROVE  LET F == FindFirstFree(f)
           IN  /\ ~InUse(g, F) => FindFirstFree(g) = F /\ FindLastUsed(g) = FindLastUsed(f)
               /\ InUse(g, F) /\ ~InUse(g, After(g, F))
                     => FindFirstFree(g) = After(g, F) /\ FindLastUsed(g) = F
<1> DEFINE F == FindFirstFree(f)
<1>1. PICK gf : gf = FreeWalk(f, gf) /\ F = gf[0]
  BY FreeWalkLemma
<1>2. PICK lf : lf = LastWalk(f, lf) /\ FindLastUsed(f) = IF BlockIsValid(f, 0) THEN lf[0] ELSE -1
  BY LastWalkLemma
<1>3. PICK gg : gg = FreeWalk(g, gg) /\ FindFirstFree(g) = gg[0]
  BY FreeWalkLemma
<1>4. PICK lg : lg = LastWalk(g, lg) /\ FindLastUsed(g) = IF BlockIsValid(g, 0) THEN lg[0] ELSE -1
  BY LastWalkLemma
<1>5. \A a \in Nat : /\ gf[a] = IF InUse(f, a) THEN gf[After(f, a)] ELSE a
                     /\ gg[a] = IF InUse(g, a) THEN gg[After(g, a)] ELSE a
                     /\ lf[a] = IF InUse(f, After(f, a)) THEN lf[After(f, a)] ELSE a
                     /\ lg[a] = IF InUse(g, After(g, a)) THEN lg[After(g, a)] ELSE a
  BY <1>1, <1>2, <1>3, <1>4 DEF FreeWalk, LastWalk
<1>6. F \in Nat /\ ~InUse(f, F)
  BY FirstFreeLemma
<1> DEFINE Longer == InUse(g, F)
           EndG == IF Longer THEN gg[After(g, F)] ELSE F
           Last(a) == IF Longer THEN lg[F] ELSE lf[a]
           S == {a \in Nat : gf[a] = F => gg[a] = EndG /\ (InUse(f, a) => lg[a] = Last(a))}
<1>7. \A a \in Nat : a >= Sector => a \in S
  <2>1. \A a \in Nat : a >= Sector => ~InUse(f, a) /\ ~InUse(g, a)
    BY SMT, SectorAssumption DEF InUse, Readable
  <2> QED BY <1>5, <2>1
<1>8. ASSUME NEW a \in Nat, \A b \in Nat : b > a => b \in S
      PROVE  a \in S
  <2> SUFFICES ASSUME gf[a] = F PROVE gg[a] = EndG /\ (InUse(f, a) => lg[a] = Last(a))
    OBVIOUS
  <2>1. CASE ~InUse(f, a)
    BY <1>5, <2>1
  <2>2. CASE InUse(f, a)
    <3> DEFINE b == After(f, a)
    <3>1. b \in Nat /\ b > a /\ gf[b] = F
      BY <1>5, <2>2, AfterLemma
    <3>2. b <= F
      BY <1>1, <3>1, WalkAhead
    <3>3. InUse(g, a) /\ After(g, a) = b
      BY <2>2, <3>2
    <3>4. gg[b] = EndG /\ (InUse(f, b) => lg[b] = Last(b))
      BY <1>8, <3>1
    <3>5. gg[a] = gg[b]
      BY <1>5, <3>3
    <3>6. CASE InUse(f, b)
      <4>1. After(f, b) <= F
        <5>1. After(f, b) \in Nat /\ gf[After(f, b)] = F
          BY <1>5, <3>1, <3>6, AfterLemma
        <5> QED BY <1>1, <5>1, WalkAhead
      <4>2. InUse(g, b)
        BY <3>1, <3>6, <4>1
      <4>3. lg[a] = lg[b] /\ lf[a] = lf[b]
        BY <1>5, <3>3, <3>6, <4>2
      <4> QED BY <3>4, <3>5, <3>6, <4>3
    <3>7. CASE ~InUse(f, b)
      <4>1. b = F /\ lf[a] = a
        BY <1>5, <3>1, <3>7
      <4>2. lg[a] = Last(a)
        BY <1>5, <3>3, <4>1
      <4> QED BY <3>4, <3>5, <4>2
    <3> QED BY <3>6, <3>7
  <2> QED BY <2>1, <2>2
<1>9. 0 \in S
  <2>1. \A a \in Nat : a \in S
    <3> HIDE DEF S
    <3> QED BY <1>7, <1>8, Downward, SectorAssumption
  <2> QED BY <2>1
<1>10. gg[0] = EndG /\ (InUse(f, 0) => lg[0] = Last(0))
  BY <1>1, <1>9
<1>11. ~InUse(f, 0) => F = 0
  BY <1>1, <1>5
<1>12. InUse(f, 0) => InUse(g, 0)
  <2>1. SUFFICES ASSUME InUse(f, 0) PROVE After(f, 0) <= F
    OBVIOUS
  <2>2. After(f, 0) \in Nat /\ gf[After(f, 0)] = F
    BY <1>1, <1>5, <2>1, AfterLemma
  <2> QED BY <1>1, <2>2, WalkAhead
<1>13. CASE ~Longer
  BY <1>2, <1>3, <1>4, <1>10, <1>11, <1>12, <1>13, FirstIsReadable
<1>14. CASE Longer
  <2>1. SUFFICES ASSUME ~InUse(g, After(g, F)) PROVE FindFirstFree(g) = After(g, F) /\ FindLastUsed(g) = F
    BY <1>14
  <2>2. gg[After(g, F)] = After(g, F) /\ lg[F] = F
    BY <1>5, <1>6, <2>1, AfterLemma
  <2>3. InUse(g, 0) /\ lg[0] = F
    BY <1>10, <1>11, <1>12, <1>14, <2>2
  <2> QED BY <1>3, <1>4, <1>10, <1>14, <2>2, <2>3, FirstIsReadable
<1> QED BY <1>13, <1>14

-----------------------------------------------------------------------------
(* What is true of a log whatever was interrupted.                         *)
IsCrc(w) == w[1] = "datacrc"
Written(c) == [i \in 1..Length[c] |-> {Data(c, i)}]

\* All three words of a header can be read.
Complete(f, a, n) == HasLength(f, a, n) /\ \E w \in f[a + 2] : f[a + 2] = {w} /\ IsCrc(w)

\* Every header was written in its order, at the end of the log as it was then,
\* so it lies before the end of the log or there.
HeadersInv(f, end) ==
    \A x \in Addresses, n \in 0..Sector :
       /\ LenCrc(n) \in f[x] => /\ x <= end /\ x + Header + n <= Sector
                                /\ \E c \in Configs : n = Length[c]
       /\ Len32(n) \in f[x] => x > 0 /\ LenCrc(n) \in f[x - 1]

CrcInv(f) ==
    \A x \in Addresses : \A w \in f[x] :
       /\ Torn(w) \notin f[x]
       /\ IsCrc(w) => x > 1 /\ \E n \in 0..Sector : LenCrc(n) \in f[x - 2] /\ Len32(n) \in f[x - 1]

\* A header that can be read is that of a block of the log.
CompleteInv(f, end) ==
    \A x \in Addresses, n \in 0..Sector :
       Complete(f, x, n) => /\ f[x + 2] = {DataCrc(Contents(f, x + Header, n))}
                            /\ x + Header + n <= end

LogInv(f) ==
    /\ DOMAIN f = Addresses
    /\ HeadersInv(f, FindFirstFree(f))
    /\ CrcInv(f)
    /\ CompleteInv(f, FindFirstFree(f))

LEMMA Kinds ==
    /\ \A n, m : LenCrc(n) = LenCrc(m) => n = m
    /\ \A n, m : Len32(n) = Len32(m) => n = m
    /\ \A y, z : DataCrc(y) = DataCrc(z) => y = z
    /\ \A c, i, d, j : Data(c, i) = Data(d, j) => c = d /\ i = j
    /\ \A n : LenCrc(n)[1] = "lencrc" /\ Len32(n)[1] = "len" /\ DataCrc(n)[1] = "datacrc" /\ Torn(n)[1] = "torn"
    /\ \A c, i : Data(c, i)[1] = "data"
    /\ "lencrc" # "len" /\ "lencrc" # "datacrc" /\ "lencrc" # "torn" /\ "lencrc" # "data"
    /\ "len" # "datacrc" /\ "len" # "torn" /\ "len" # "data"
    /\ "datacrc" # "torn" /\ "datacrc" # "data" /\ "torn" # "data"
BY SMT DEF LenCrc, Len32, DataCrc, Data, Torn

LEMMA ReadBlock ==
    ASSUME NEW f, NEW e, HeadersInv(f, e), NEW a \in Nat, InUse(f, a)
    PROVE  \E n \in 0..Sector :
              /\ n = BlockLength(f, a) /\ After(f, a) = a + Header + n
              /\ a \in Addresses /\ a + Header + n <= Sector
              /\ Complete(f, a, n) /\ f[a + 2] = {DataCrc(Contents(f, a + Header, n))}
<1> DEFINE n == BlockLength(f, a)
<1>1. n \in 0..Sector /\ HasLength(f, a, n) /\ f[a + 2] = {DataCrc(Contents(f, a + Header, n))}
  BY BlockLemma DEF InUse
<1>2. a \in Addresses /\ After(f, a) = a + Header + n
  <2>1. a \in Addresses
    BY SMT, SectorAssumption DEF InUse, Readable, Addresses
  <2> QED BY SMT, <1>1, <2>1 DEF After, Addresses, Header
<1>3. LenCrc(n) \in f[a]
  BY <1>1 DEF HasLength
<1>4. a + Header + n <= Sector
  BY <1>1, <1>2, <1>3 DEF HeadersInv
<1>5. Complete(f, a, n)
  BY <1>1, Kinds DEF Complete, IsCrc
<1> QED BY <1>1, <1>2, <1>4, <1>5

LEMMA MakeBlock ==
    ASSUME NEW f, NEW a \in Nat, NEW n \in 0..Sector, a + 1 < Sector, HasLength(f, a, n),
           f[a + 2] = {DataCrc(Contents(f, a + Header, n))}
    PROVE  InUse(f, a) /\ BlockLength(f, a) = n /\ After(f, a) = a + Header + n
<1>1. BlockLength(f, a) = n /\ BlockIsValid(f, a)
  BY BlockLemma DEF BlockIsValid
<1> QED BY SMT, <1>1 DEF InUse, Readable, After, Header

LEMMA SameBlock ==
    ASSUME NEW f, NEW g, NEW a \in Nat, NEW n \in Nat, a + Header + n <= Sector,
           \A y \in Addresses : y < a + Header + n => g[y] = f[y]
    PROVE  /\ g[a] = f[a] /\ g[a + 1] = f[a + 1] /\ g[a + 2] = f[a + 2]
           /\ Contents(g, a + Header, n) = Contents(f, a + Header, n)
<1>1. \A y \in Nat : y < a + Header + n => g[y] = f[y]
  <2>1. \A y \in Nat : y < a + Header + n => y \in Addresses
    BY SMT, SectorAssumption DEF Addresses, Header
  <2> QED BY <2>1
<1>2. /\ a + 1 \in Nat /\ a + 2 \in Nat
      /\ a < a + Header + n /\ a + 1 < a + Header + n /\ a + 2 < a + Header + n
  BY SMT DEF Header
<1>3. \A i \in 1..n : a + Header + i - 1 \in Nat /\ a + Header + i - 1 < a + Header + n
  BY SMT DEF Header
<1> QED BY <1>1, <1>2, <1>3 DEF Contents

LEMMA Appends ==
    ASSUME NEW f, NEW g, LogInv(f),
           \A x \in Addresses : x < FindFirstFree(f) => g[x] = f[x]
    PROVE  LET F == FindFirstFree(f)
           IN  /\ ~InUse(g, F) => FindFirstFree(g) = F /\ FindLastUsed(g) = FindLastUsed(f)
               /\ InUse(g, F) /\ ~InUse(g, After(g, F))
                     => FindFirstFree(g) = After(g, F) /\ FindLastUsed(g) = F
<1> DEFINE F == FindFirstFree(f)
<1>1. ASSUME NEW a \in Nat, InUse(f, a), After(f, a) <= F
      PROVE  InUse(g, a) /\ After(g, a) = After(f, a)
  <2>1. PICK n \in 0..Sector :
            /\ n = BlockLength(f, a) /\ After(f, a) = a + Header + n
            /\ a \in Addresses /\ a + Header + n <= Sector
            /\ Complete(f, a, n) /\ f[a + 2] = {DataCrc(Contents(f, a + Header, n))}
    BY <1>1, ReadBlock DEF LogInv
  <2>2. F \in Nat
    BY FirstFreeLemma
  <2>3. \A y \in Addresses : y < a + Header + n => y < F
    BY SMT, <1>1, <2>1, <2>2, SectorAssumption DEF Addresses, Header
  <2>4. /\ n \in Nat /\ a + Header + n <= Sector
        /\ \A y \in Addresses : y < a + Header + n => g[y] = f[y]
    BY <2>1, <2>3, SectorAssumption
  <2>5. /\ g[a] = f[a] /\ g[a + 1] = f[a + 1] /\ g[a + 2] = f[a + 2]
        /\ Contents(g, a + Header, n) = Contents(f, a + Header, n)
    BY <2>4, SameBlock
  <2>6. HasLength(g, a, n) /\ a + 1 < Sector
    BY <1>1, <2>1, <2>5 DEF Complete, HasLength, InUse, Readable
  <2> QED BY <2>1, <2>5, <2>6, MakeBlock
<1> QED BY <1>1, WalkOn

\* Nothing new can be read: the log ends where it ended.
LEMMA Keeps ==
    ASSUME NEW f, NEW g, LogInv(f), DOMAIN g = Addresses,
           \A x \in Addresses : x < FindFirstFree(f) => g[x] = f[x],
           HeadersInv(g, FindFirstFree(f)), CrcInv(g),
           \A a \in Addresses, n \in 0..Sector :
              Complete(g, a, n) /\ a + Header + n <= Sector => Complete(f, a, n)
    PROVE  /\ LogInv(g)
           /\ FindFirstFree(g) = FindFirstFree(f) /\ FindLastUsed(g) = FindLastUsed(f)
<1> DEFINE F == FindFirstFree(f)
<1>1. F \in Nat
  BY FirstFreeLemma
<1>2. \A a \in Addresses, n \in 0..Sector :
         Complete(g, a, n) => /\ Complete(f, a, n) /\ a + Header + n <= F
                              /\ f[a + 2] = {DataCrc(Contents(f, a + Header, n))}
  <2>1. \A a \in Addresses, n \in 0..Sector : Complete(g, a, n) => a + Header + n <= Sector
    <3>1. \A a, n : Complete(g, a, n) => LenCrc(n) \in g[a]
      BY DEF Complete, HasLength
    <3> QED BY <3>1 DEF HeadersInv
  <2> QED BY <2>1 DEF LogInv, CompleteInv
<1>3. ~InUse(g, F)
  <2> SUFFICES ASSUME InUse(g, F) PROVE FALSE
    OBVIOUS
  <2>1. PICK n \in 0..Sector : F \in Addresses /\ Complete(g, F, n)
    BY <1>1, ReadBlock
  <2>2. F + Header + n <= F
    BY <1>2, <2>1
  <2> QED BY SMT, <1>1, <2>2 DEF Header
<1>4. FindFirstFree(g) = F /\ FindLastUsed(g) = FindLastUsed(f)
  BY <1>3, Appends
<1>5. CompleteInv(g, F)
  <2> SUFFICES ASSUME NEW a \in Addresses, NEW n \in 0..Sector, Complete(g, a, n)
               PROVE  g[a + 2] = {DataCrc(Contents(g, a + Header, n))} /\ a + Header + n <= F
    BY DEF CompleteInv
  <2>1. /\ a + Header + n <= F /\ f[a + 2] = {DataCrc(Contents(f, a + Header, n))}
        /\ a + Header + n <= Sector
    <3>1. LenCrc(n) \in g[a]
      BY DEF Complete, HasLength
    <3> QED BY <1>2, <3>1 DEF HeadersInv
  <2>2. \A y \in Addresses : y < a + Header + n => y < F
    BY SMT, <1>1, <2>1, SectorAssumption DEF Addresses, Header
  <2>3. a \in Nat /\ n \in Nat
    BY SMT, SectorAssumption DEF Addresses
  <2>4. \A y \in Addresses : y < a + Header + n => g[y] = f[y]
    BY <2>2
  <2>5. g[a + 2] = f[a + 2] /\ Contents(g, a + Header, n) = Contents(f, a + Header, n)
    BY <2>1, <2>3, <2>4, SameBlock
  <2> QED BY <2>1, <2>5
<1> QED BY <1>4, <1>5 DEF LogInv

-----------------------------------------------------------------------------
(* What a word that is programmed does to the log.                         *)
LEMMA WriteKeeps ==
    ASSUME NEW f, LogInv(f), NEW x \in Addresses, x >= FindFirstFree(f), NEW w,
           \/ \E c, i : w = Data(c, i)
           \/ \E n \in 0..Sector : /\ w = LenCrc(n) /\ x = FindFirstFree(f)
                                   /\ x + Header + n <= Sector /\ \E c \in Configs : n = Length[c]
           \/ \E n \in 0..Sector : w = Len32(n) /\ x > 0 /\ LenCrc(n) \in f[x - 1]
    PROVE  LET g == [f EXCEPT ![x] = Over(@, w)]
           IN  /\ LogInv(g)
               /\ FindFirstFree(g) = FindFirstFree(f) /\ FindLastUsed(g) = FindLastUsed(f)
<1> DEFINE F == FindFirstFree(f)
           g == [f EXCEPT ![x] = Over(@, w)]
<1>1. DOMAIN g = Addresses /\ \A y \in Addresses : y # x => g[y] = f[y]
  BY DEF LogInv
<1>2. g[x] = (f[x] \ {Torn(w)}) \union {w}
  BY DEF LogInv, Over
<1>3. w[1] # "datacrc" /\ w[1] # "torn" /\ ~IsCrc(w)
  BY Kinds DEF IsCrc
<1> HIDE DEF g
<1>4. \A y \in Addresses : \A v : /\ v \in f[y] /\ v # Torn(w) => v \in g[y]
                                  /\ v \in g[y] => v \in f[y] \/ (y = x /\ v = w)
  BY <1>1, <1>2
<1>5. \A n : LenCrc(n) # Torn(w) /\ Len32(n) # Torn(w)
  BY Kinds
<1>6. HeadersInv(g, F)
  <2> SUFFICES ASSUME NEW y \in Addresses, NEW n \in 0..Sector
               PROVE  /\ LenCrc(n) \in g[y] => /\ y <= F /\ y + Header + n <= Sector
                                               /\ \E c \in Configs : n = Length[c]
                      /\ Len32(n) \in g[y] => y > 0 /\ LenCrc(n) \in g[y - 1]
    BY DEF HeadersInv
  <2>1. F \in Nat /\ y \in Nat
    BY SMT, FirstFreeLemma, SectorAssumption DEF Addresses
  <2>2. LenCrc(n) = w => x <= F /\ x + Header + n <= Sector /\ \E c \in Configs : n = Length[c]
    <3>1. F <= F
      BY SMT, <2>1
    <3> QED BY <3>1, Kinds
  <2>3. LenCrc(n) \in f[y] => y <= F /\ y + Header + n <= Sector /\ \E c \in Configs : n = Length[c]
    BY DEF LogInv, HeadersInv
  <2>4. Len32(n) \in f[y] \/ (y = x /\ Len32(n) = w) => y > 0 /\ LenCrc(n) \in f[y - 1]
    BY Kinds DEF LogInv, HeadersInv
  <2>5. y > 0 => y - 1 \in Addresses
    BY SMT, SectorAssumption DEF Addresses
  <2> QED BY <1>4, <1>5, <2>2, <2>3, <2>4, <2>5
<1>7. CrcInv(g)
  <2> SUFFICES ASSUME NEW y \in Addresses, NEW v \in g[y]
               PROVE  /\ Torn(v) \notin g[y]
                      /\ IsCrc(v) => y > 1 /\ \E n \in 0..Sector : LenCrc(n) \in g[y - 2] /\ Len32(n) \in g[y - 1]
    BY DEF CrcInv
  <2>1. Torn(v) # w /\ (v = w => Torn(v) = Torn(w))
    BY <1>3, Kinds
  <2>2. Torn(v) \notin g[y]
    <3>1. v \in f[y] => Torn(v) \notin f[y]
      BY DEF LogInv, CrcInv
    <3>2. v = w /\ y = x => Torn(v) \notin g[y]
      BY <1>2, <2>1
    <3> QED BY <1>4, <2>1, <3>1, <3>2
  <2>3. SUFFICES ASSUME IsCrc(v)
                 PROVE  y > 1 /\ \E n \in 0..Sector : LenCrc(n) \in g[y - 2] /\ Len32(n) \in g[y - 1]
    BY <2>2
  <2>4. v \in f[y]
    BY <1>3, <1>4, <2>3
  <2>5. y > 1 /\ \E n \in 0..Sector : LenCrc(n) \in f[y - 2] /\ Len32(n) \in f[y - 1]
    BY <2>3, <2>4 DEF LogInv, CrcInv
  <2>6. y - 2 \in Addresses /\ y - 1 \in Addresses
    BY SMT, <2>5, SectorAssumption DEF Addresses
  <2> QED BY <1>4, <1>5, <2>5, <2>6
<1>8. ASSUME NEW a \in Addresses, NEW n \in 0..Sector, Complete(g, a, n), a + Header + n <= Sector
      PROVE  Complete(f, a, n)
  <2>1. a + 1 \in Addresses /\ a + 2 \in Addresses /\ (a + 2) - 2 = a /\ (a + 2) - 1 = a + 1
    BY SMT, <1>8, SectorAssumption DEF Addresses, Header
  <2>2. PICK v \in g[a + 2] : g[a + 2] = {v} /\ IsCrc(v)
    BY <1>8 DEF Complete
  <2>3. v # w /\ a + 2 # x /\ v \in f[a + 2] /\ g[a + 2] = f[a + 2]
    BY <1>1, <1>2, <1>3, <2>1, <2>2
  <2>4. PICK m \in 0..Sector : LenCrc(m) \in f[a] /\ Len32(m) \in f[a + 1]
    BY <2>1, <2>2, <2>3 DEF LogInv, CrcInv
  <2>5. g[a] = {LenCrc(n)} /\ g[a + 1] = {Len32(n)}
    BY <1>8 DEF Complete, HasLength
  <2>6. LenCrc(n) \in f[a] /\ Len32(n) \in f[a + 1]
    <3>1. LenCrc(m) \in g[a]
      BY <1>4, <1>5, <2>4
    <3>2. m = n
      BY <2>5, <3>1, Kinds
    <3> QED BY <2>4, <3>2
  <2>7. ASSUME NEW y \in Addresses, NEW u, u \in f[y], g[y] = {u}
        PROVE  f[y] = {u}
    <3>1. Torn(u) \notin f[y]
      BY <2>7 DEF LogInv, CrcInv
    <3>2. y # x \/ u = w
      BY <1>2, <2>7
    <3> QED BY <1>1, <1>4, <2>7, <3>1, <3>2
  <2>8. f[a] = {LenCrc(n)} /\ f[a + 1] = {Len32(n)}
    BY <2>1, <2>5, <2>6, <2>7
  <2> QED BY <2>2, <2>3, <2>8 DEF Complete, HasLength
<1>9. \A y \in Addresses : y < F => g[y] = f[y]
  <2>1. \A y \in Addresses : y < F => y # x
    BY SMT, FirstFreeLemma, SectorAssumption DEF Addresses
  <2> QED BY <1>1, <2>1
<1>10. /\ LogInv(g)
       /\ FindFirstFree(g) = F /\ FindLastUsed(g) = FindLastUsed(f)
  BY <1>1, <1>6, <1>7, <1>8, <1>9, Keeps
<1> QED BY <1>10 DEF g

LEMMA TearKeeps ==
    ASSUME NEW f, LogInv(f), NEW x \in Addresses, x >= FindFirstFree(f), f[x] = {},
           NEW w, w[1] # "torn"
    PROVE  LET g == [f EXCEPT ![x] = {Torn(w)}]
           IN  /\ LogInv(g)
               /\ FindFirstFree(g) = FindFirstFree(f) /\ FindLastUsed(g) = FindLastUsed(f)
<1> DEFINE F == FindFirstFree(f)
           g == [f EXCEPT ![x] = {Torn(w)}]
<1>1. DOMAIN g = Addresses /\ (\A y \in Addresses : y # x => g[y] = f[y]) /\ g[x] = {Torn(w)}
  BY DEF LogInv
<1> HIDE DEF g
<1>2. \A y \in Addresses : \A v : /\ v \in f[y] => v \in g[y]
                                  /\ v \in g[y] => v \in f[y] \/ (y = x /\ v = Torn(w))
  BY <1>1
<1>3. \A n : LenCrc(n) # Torn(w) /\ Len32(n) # Torn(w) /\ ~IsCrc(Torn(w)) /\ Torn(n)[1] = "torn"
  BY Kinds DEF IsCrc
<1>4. HeadersInv(g, F)
  <2>1. \A y \in Addresses : y > 0 => y - 1 \in Addresses
    BY SMT, SectorAssumption DEF Addresses
  <2> QED BY <1>2, <1>3, <2>1 DEF LogInv, HeadersInv
<1>5. CrcInv(g)
  <2> SUFFICES ASSUME NEW y \in Addresses, NEW v \in g[y]
               PROVE  /\ Torn(v) \notin g[y]
                      /\ IsCrc(v) => y > 1 /\ \E n \in 0..Sector : LenCrc(n) \in g[y - 2] /\ Len32(n) \in g[y - 1]
    BY DEF CrcInv
  <2>1. CASE v = Torn(w) /\ y = x
    <3>1. Torn(v) # Torn(w)
      <4>1. SUFFICES ASSUME Torn(v) = Torn(w) PROVE FALSE
        OBVIOUS
      <4>2. v = w
        BY <4>1 DEF Torn
      <4> QED BY <1>3, <2>1, <4>2
    <3> QED BY <1>1, <1>3, <2>1, <3>1
  <2>2. CASE v \in f[y]
    <3>1. y # x
      BY <2>2
    <3>2. y > 1 => y - 2 \in Addresses /\ y - 1 \in Addresses
      BY SMT, SectorAssumption DEF Addresses
    <3> QED BY <1>1, <1>2, <2>2, <3>1, <3>2 DEF LogInv, CrcInv
  <2> QED BY <1>2, <2>1, <2>2
<1>6. ASSUME NEW a \in Addresses, NEW n \in 0..Sector, Complete(g, a, n), a + Header + n <= Sector
      PROVE  Complete(f, a, n)
  <2>1. a + 1 \in Addresses /\ a + 2 \in Addresses
    BY SMT, <1>6, SectorAssumption DEF Addresses, Header
  <2>2. PICK v \in g[a + 2] : g[a + 2] = {v} /\ IsCrc(v)
    BY <1>6 DEF Complete
  <2>3. g[a] = {LenCrc(n)} /\ g[a + 1] = {Len32(n)}
    BY <1>6 DEF Complete, HasLength
  <2>4. Torn(w) \notin g[a] /\ Torn(w) \notin g[a + 1] /\ Torn(w) \notin g[a + 2]
    BY <1>3, <2>2, <2>3
  <2>5. g[a] = f[a] /\ g[a + 1] = f[a + 1] /\ g[a + 2] = f[a + 2]
    BY <1>1, <2>1, <2>4
  <2> QED BY <2>2, <2>3, <2>5 DEF Complete, HasLength
<1>7. \A y \in Addresses : y < F => g[y] = f[y]
  <2>1. \A y \in Addresses : y < F => y # x
    BY SMT, FirstFreeLemma, SectorAssumption DEF Addresses
  <2> QED BY <1>1, <2>1
<1>8. /\ LogInv(g)
      /\ FindFirstFree(g) = F /\ FindLastUsed(g) = FindLastUsed(f)
  BY <1>1, <1>4, <1>5, <1>6, <1>7, Keeps
<1> QED BY <1>8 DEF g

\* The last word of a header makes the block the last one of the log, or, where
\* the header was written over that of another save, it changes nothing.
LEMMA HeaderEnds ==
    ASSUME NEW f, LogInv(f), FindFirstFree(f) \in Addresses, NEW n \in 0..Sector,
           LenCrc(n) \in f[FindFirstFree(f)], Len32(n) \in f[FindFirstFree(f) + 1]
    PROVE  LET F == FindFirstFree(f)
               w == DataCrc(Contents(f, F + Header, n))
               g == [f EXCEPT ![F + 2] = Over(@, w)]
           IN  /\ LogInv(g)
               /\ \/ FindFirstFree(g) = F /\ FindLastUsed(g) = FindLastUsed(f)
                  \/ FindFirstFree(g) = F + Header + n /\ FindLastUsed(g) = F /\ BlockLength(g, F) = n
               /\ HasLength(f, F, n) /\ f[F + 2] = {}
                     => FindFirstFree(g) = F + Header + n /\ FindLastUsed(g) = F /\ BlockLength(g, F) = n
<1> DEFINE F == FindFirstFree(f)
           x == F + 2
           w == DataCrc(Contents(f, F + Header, n))
           g == [f EXCEPT ![x] = Over(@, w)]
           A == F + Header + n
<1>1. F \in Nat /\ F + Header + n <= Sector /\ \E c \in Configs : n = Length[c]
  BY FirstFreeLemma DEF LogInv, HeadersInv
<1>2. /\ x \in Addresses /\ F + 1 \in Addresses /\ F + 1 < Sector /\ F # x /\ F + 1 # x
      /\ x - 2 = F /\ x - 1 = F + 1 /\ x > 1 /\ A \in Nat /\ A > F /\ n \in Nat
  BY SMT, <1>1, SectorAssumption DEF Addresses, Header
<1> HIDE DEF x, A
<1>3. DOMAIN g = Addresses /\ \A y \in Addresses : y # x => g[y] = f[y]
  BY <1>2 DEF LogInv
<1>4. g[x] = (f[x] \ {Torn(w)}) \union {w}
  BY <1>2 DEF LogInv, Over
<1>5. IsCrc(w) /\ w[1] = "datacrc" /\ \A m : Torn(m) # w /\ LenCrc(m) # w /\ Len32(m) # w
  BY Kinds DEF IsCrc
<1>6. Contents(g, F + Header, n) = Contents(f, F + Header, n)
  <2>1. \A i \in 1..n : F + Header + i - 1 \in Addresses /\ F + Header + i - 1 # x
    BY SMT, <1>1, SectorAssumption DEF Addresses, Header, x
  <2> QED BY <1>3, <2>1 DEF Contents
<1> HIDE DEF g, w
<1>7. \A y \in Addresses : \A v : /\ v \in f[y] /\ v # Torn(w) => v \in g[y]
                                  /\ v \in g[y] => v \in f[y] \/ (y = x /\ v = w)
  BY <1>3, <1>4
<1>8. \A m : LenCrc(m) # Torn(w) /\ Len32(m) # Torn(w)
  BY Kinds
<1>9. HeadersInv(g, F)
  <2>1. \A y \in Addresses : y > 0 => y - 1 \in Addresses
    BY SMT, SectorAssumption DEF Addresses
  <2> QED BY <1>5, <1>7, <1>8, <2>1 DEF LogInv, HeadersInv
<1>10. LenCrc(n) \in g[F] /\ Len32(n) \in g[F + 1]
  BY <1>2, <1>7, <1>8
<1>11. CrcInv(g)
  <2> SUFFICES ASSUME NEW y \in Addresses, NEW v \in g[y]
               PROVE  /\ Torn(v) \notin g[y]
                      /\ IsCrc(v) => y > 1 /\ \E m \in 0..Sector : LenCrc(m) \in g[y - 2] /\ Len32(m) \in g[y - 1]
    BY DEF CrcInv
  <2>1. CASE y = x /\ v = w
    <3>1. Torn(w) \notin g[x]
      BY <1>4, <1>5
    <3> QED BY <1>2, <1>10, <2>1, <3>1
  <2>2. CASE v \in f[y]
    <3>1. Torn(v) \notin g[y]
      BY <1>5, <1>7, <2>2 DEF LogInv, CrcInv
    <3>2. y > 1 => y - 2 \in Addresses /\ y - 1 \in Addresses
      BY SMT, SectorAssumption DEF Addresses
    <3>3. IsCrc(v) => y > 1 /\ \E m \in 0..Sector : LenCrc(m) \in f[y - 2] /\ Len32(m) \in f[y - 1]
      BY <2>2 DEF LogInv, CrcInv
    <3> QED BY <1>7, <1>8, <3>1, <3>2, <3>3
  <2> QED BY <1>7, <2>1, <2>2
<1>12. \A y \in Addresses : y < F => g[y] = f[y]
  <2>1. \A y \in Addresses : y < F => y # x
    BY SMT, <1>1, SectorAssumption DEF Addresses, x
  <2> QED BY <1>3, <2>1
<1>13. ASSUME NEW a \in Addresses, NEW m \in 0..Sector, Complete(g, a, m), a + Header + m <= Sector, a # F
       PROVE  Complete(f, a, m)
  <2>1. a + 1 \in Addresses /\ a + 2 \in Addresses /\ a + 2 # x
    BY SMT, <1>1, <1>13, SectorAssumption DEF Addresses, Header, x
  <2>2. g[a] = {LenCrc(m)} /\ g[a + 1] = {Len32(m)}
    BY <1>13 DEF Complete, HasLength
  <2>3. w \notin g[a] /\ w \notin g[a + 1]
    BY <1>5, <2>2
  <2>4. g[a] = f[a] /\ g[a + 1] = f[a + 1] /\ g[a + 2] = f[a + 2]
    BY <1>3, <1>4, <2>1, <2>3
  <2> QED BY <1>13, <2>4 DEF Complete, HasLength
<1>14. ASSUME NEW m \in 0..Sector, Complete(g, F, m)
       PROVE  m = n /\ g[F + 2] = {w} /\ InUse(g, F) /\ BlockLength(g, F) = n /\ After(g, F) = A
  <2>1. m = n
    <3>1. g[F] = {LenCrc(m)}
      BY <1>14 DEF Complete, HasLength
    <3> QED BY <1>10, <3>1, Kinds
  <2>2. g[F + 2] = {w} /\ HasLength(g, F, n)
    <3>1. w \in g[F + 2]
      BY <1>4 DEF x
    <3> QED BY <1>14, <2>1, <3>1 DEF Complete
  <2>3. InUse(g, F) /\ BlockLength(g, F) = n /\ After(g, F) = F + Header + n
    BY <1>1, <1>2, <1>6, <2>2, MakeBlock DEF w
  <2> QED BY <2>1, <2>2, <2>3 DEF A
<1>15. CASE InUse(g, F)
  <2>1. PICK p \in 0..Sector : Complete(g, F, p)
    BY <1>1, <1>9, <1>15, ReadBlock
  <2>2. g[F + 2] = {w} /\ BlockLength(g, F) = n /\ After(g, F) = A
    BY <1>14, <2>1
  <2>3. ~InUse(g, A)
    <3> SUFFICES ASSUME InUse(g, A) PROVE FALSE
      OBVIOUS
    <3>1. PICK k \in 0..Sector : A \in Addresses /\ A + Header + k <= Sector /\ Complete(g, A, k)
      BY <1>2, <1>9, ReadBlock
    <3>2. A # F
      BY SMT, <1>1, <1>2
    <3>3. A + Header + k <= F
      BY <1>13, <3>1, <3>2 DEF LogInv, CompleteInv
    <3> QED BY SMT, <1>1, <1>2, <3>3 DEF Header
  <2>4. FindFirstFree(g) = A /\ FindLastUsed(g) = F
    BY <1>12, <1>15, <2>2, <2>3, Appends
  <2>5. HeadersInv(g, A)
    <3>1. \A y \in Addresses : y <= F => y <= A
      BY SMT, <1>1, <1>2, SectorAssumption DEF Addresses
    <3> QED BY <1>9, <3>1 DEF HeadersInv
  <2>6. CompleteInv(g, A)
    <3> SUFFICES ASSUME NEW a \in Addresses, NEW m \in 0..Sector, Complete(g, a, m)
                 PROVE  g[a + 2] = {DataCrc(Contents(g, a + Header, m))} /\ a + Header + m <= A
      BY DEF CompleteInv
    <3>1. CASE a = F
      <4>1. A <= A
        BY SMT, <1>2
      <4>2. m = n
        BY <1>14, <3>1
      <4> QED BY <1>6, <2>2, <3>1, <4>1, <4>2 DEF w, A
    <3>2. CASE a # F
      <4>1. a + Header + m <= Sector
        <5>1. LenCrc(m) \in g[a]
          BY DEF Complete, HasLength
        <5> QED BY <1>9, <5>1 DEF HeadersInv
      <4>2. Complete(f, a, m)
        BY <1>13, <3>2, <4>1
      <4>3. f[a + 2] = {DataCrc(Contents(f, a + Header, m))} /\ a + Header + m <= F
        BY <4>2 DEF LogInv, CompleteInv
      <4>4. \A y \in Addresses : y < a + Header + m => y < F
        BY SMT, <1>1, <4>3, SectorAssumption DEF Addresses, Header
      <4>5. a \in Nat /\ m \in Nat /\ a + Header + m <= A
        BY SMT, <1>1, <1>2, <4>3, SectorAssumption DEF Addresses, Header
      <4>6. \A y \in Addresses : y < a + Header + m => g[y] = f[y]
        BY <1>12, <4>4
      <4>7. g[a + 2] = f[a + 2] /\ Contents(g, a + Header, m) = Contents(f, a + Header, m)
        BY <4>1, <4>5, <4>6, SameBlock
      <4> QED BY <4>3, <4>5, <4>7
    <3> QED BY <3>1, <3>2
  <2> QED BY <1>3, <1>11, <2>2, <2>4, <2>5, <2>6 DEF LogInv, g, x, w, A
<1>16. CASE ~InUse(g, F)
  <2>1. \A m \in 0..Sector : ~Complete(g, F, m)
    BY <1>14, <1>16
  <2>2. \A a \in Addresses, m \in 0..Sector : Complete(g, a, m) /\ a + Header + m <= Sector => Complete(f, a, m)
    BY <1>13, <2>1
  <2>3. LogInv(g) /\ FindFirstFree(g) = F /\ FindLastUsed(g) = FindLastUsed(f)
    BY <1>3, <1>9, <1>11, <1>12, <2>2, Keeps
  <2>4. ~(HasLength(f, F, n) /\ f[F + 2] = {})
    <3> SUFFICES ASSUME HasLength(f, F, n), f[F + 2] = {} PROVE Complete(g, F, n)
      BY <2>1
    <3>1. g[F] = f[F] /\ g[F + 1] = f[F + 1]
      BY <1>2, <1>3
    <3>2. g[F + 2] = {w}
      BY <1>4 DEF x
    <3> QED BY <1>5, <3>1, <3>2 DEF Complete, HasLength
  <2> QED BY <2>3, <2>4 DEF g, x, w
<1> QED BY <1>15, <1>16

Blank == [a \in Addresses |-> {}]

LEMMA BlankLog ==
    LogInv(Blank) /\ FindFirstFree(Blank) = 0 /\ FindLastUsed(Blank) = -1 /\ Load(Blank) = NoConfig
<1>1. DOMAIN Blank = Addresses /\ \A x \in Addresses : Blank[x] = {}
  BY DEF Blank
<1>2. 0 \in Addresses
  BY SMT, SectorAssumption DEF Addresses
<1>3. ~InUse(Blank, 0)
  BY <1>1, <1>2, BlockLemma DEF InUse, HasLength
<1>4. FindFirstFree(Blank) = 0
  <2>1. FindFirstFree(Blank) \in {0}
    <3>1. {0} \in SUBSET Nat /\ \A a \in {0} : InUse(Blank, a) => After(Blank, a) \in {0}
      BY <1>3
    <3> QED BY <3>1, Ends
  <2> QED BY <2>1
<1>5. FindLastUsed(Blank) = -1
  BY <1>3, FirstIsReadable, LastIsValid, LastWalkLemma
<1>6. LogInv(Blank)
  <2>1. HeadersInv(Blank, 0) /\ CrcInv(Blank)
    BY <1>1 DEF HeadersInv, CrcInv
  <2>2. CompleteInv(Blank, 0)
    BY <1>1 DEF CompleteInv, Complete, HasLength
  <2> QED BY <1>1, <1>4, <2>1, <2>2 DEF LogInv
<1> QED BY <1>4, <1>5, <1>6 DEF Load

-----------------------------------------------------------------------------
(* The parameter store, where one thread saves and the length it passes is *)
(* that of the sector.                                                     *)
OneStore ==
    /\ \A s, t \in Savers : s = t
    /\ \A s \in Savers : DstLen[s] = Sector
    /\ Sector < WordSize

Writing == {"data", "lencrc", "len", "datacrc"}

\* A save writes at the end of the log, what it has to and in its order.
SaverInv(s) ==
    /\ pc[s] # "idle" => ~locked
    /\ pc[s] \in {"idle", "eraseAll"} => want[s] = NoConfig
    /\ pc[s] \notin {"idle", "eraseAll", "lock"} => want[s] \in Configs
    /\ pc[s] = "eraseFull" => index[s] = 0
    /\ pc[s] \in Writing =>
          /\ dst[s] = FindFirstFree(flash) /\ index[s] <= Length[want[s]]
          /\ index[s] > 0 => dst[s] + Header + index[s] <= Sector
    /\ pc[s] \in Writing \ {"data"} => index[s] = Length[want[s]]
    /\ pc[s] \in {"len", "datacrc"} => LenCrc(index[s]) \in flash[dst[s]]
    /\ pc[s] = "datacrc" => Len32(index[s]) \in flash[dst[s] + 1]

\* What a save has written so far, from the end of the log on.
Progress(s, x) ==
    IF x = dst[s] /\ pc[s] \in {"len", "datacrc"} THEN {LenCrc(index[s])}
    ELSE IF x = dst[s] + 1 /\ pc[s] = "datacrc" THEN {Len32(index[s])}
    ELSE IF x >= dst[s] + Header /\ x < dst[s] + Header + index[s]
         THEN {Data(want[s], x - dst[s] - 2)}
    ELSE {}

\* Where no save was interrupted a checksum is that of a content,
CrcsOfContents(f) ==
    \A x \in Addresses : \A w \in f[x] :
       IsCrc(w) => \E c \in Configs : LenCrc(Length[c]) \in f[x - 2] /\ w = DataCrc(Written(c))

\* and the flash behind the log is blank but for what is being written.
SaverClean(s) ==
    /\ pc[s] = "lock" => Load(flash) = want[s]
    /\ \A x \in Addresses : x >= FindFirstFree(flash) =>
          /\ pc[s] \in Writing => flash[x] = Progress(s, x)
          /\ pc[s] \notin Writing \union {"failed"} => flash[x] = {}

CleanInv == CrcsOfContents(flash) /\ \A s \in Savers : SaverClean(s)

StoreInv ==
    /\ TypeOK
    /\ LogInv(flash)
    /\ \A s \in Savers : SaverInv(s)
    /\ ~dirty => CleanInv

\* What a step does to the block that is loaded.
Appended ==
    \/ FindLastUsed(flash') = FindLastUsed(flash)
    \/ Erasing
    \/ \E s \in Savers : pc[s] = "datacrc" /\ FindLastUsed(flash') = dst[s]

LEMMA OneStep ==
    ASSUME OneStore, NEW s \in Savers, TypeOK', LogInv(flash'), SaverInv(s)',
           ~dirty' => CrcsOfContents(flash') /\ SaverClean(s)'
    PROVE  StoreInv'
<1>1. \A t \in Savers : t = s
  BY DEF OneStore
<1> QED BY <1>1 DEF StoreInv, CleanInv

LEMMA EndInSector == ASSUME NEW f, LogInv(f) PROVE FindFirstFree(f) \in 0..Sector
<1>1. \A a \in 0..Sector : InUse(f, a) => After(f, a) \in 0..Sector
  <2> SUFFICES ASSUME NEW a \in 0..Sector, InUse(f, a) PROVE After(f, a) \in 0..Sector
    OBVIOUS
  <2>1. a \in Nat
    BY SMT, SectorAssumption
  <2>2. \E n \in 0..Sector : After(f, a) = a + Header + n /\ a + Header + n <= Sector
    BY <2>1, ReadBlock DEF LogInv
  <2> QED BY SMT, <2>1, <2>2, SectorAssumption DEF Header
<1>2. 0..Sector \in SUBSET Nat /\ 0 \in 0..Sector
  BY SMT, SectorAssumption
<1> QED BY <1>1, <1>2, Ends

LEMMA RoomLemma ==
    ASSUME OneStore, NEW s \in Savers, NEW a \in 0..Sector
    PROVE  Room(s, a) = Sector - a
<1>1. DstLen[s] = Sector /\ Sector < 1073741824
  BY DEF OneStore, WordSize
<1> QED BY SMT, <1>1, SectorAssumption DEF Room, WordSize

LEMMA ParseWritten == ASSUME NEW c \in Configs PROVE Parse(Written(c)) = c
<1>1. \A d \in Configs : Written(c) = Written(d) => d = c
  <2> SUFFICES ASSUME NEW d \in Configs, Written(c) = Written(d) PROVE d = c
    OBVIOUS
  <2>1. 1 \in 1..Length[c] /\ 1 \in 1..Length[d]
    BY SMT, LengthAssumption
  <2>2. Written(c)[1] = {Data(c, 1)} /\ Written(d)[1] = {Data(d, 1)}
    BY <2>1 DEF Written
  <2>3. Data(c, 1) = Data(d, 1)
    BY <2>2
  <2> QED BY <2>3, Kinds
<1>2. \A d : (Written(c) = [i \in 1..Length[d] |-> {Data(d, i)}]) <=> Written(c) = Written(d)
  BY DEF Written
<1> QED BY <1>1, <1>2 DEF Parse

LEMMA ParseIsIntact == \A c \in Configs : Parse(Written(c)) # "corrupt"
BY ParseWritten, NoConfigAssumption

LEMMA WriteKeepsCrcs ==
    ASSUME NEW f, LogInv(f), CrcsOfContents(f), NEW x \in Addresses, NEW w, ~IsCrc(w)
    PROVE  CrcsOfContents([f EXCEPT ![x] = Over(@, w)])
<1> DEFINE g == [f EXCEPT ![x] = Over(@, w)]
<1>1. \A y \in Addresses : \A v : /\ v \in f[y] /\ v # Torn(w) => v \in g[y]
                                  /\ v \in g[y] => v \in f[y] \/ v = w
  BY DEF LogInv, Over
<1> HIDE DEF g
<1>2. \A n : LenCrc(n) # Torn(w)
  BY Kinds
<1>3. \A y \in Addresses : y > 1 => y - 2 \in Addresses
  BY SMT, SectorAssumption DEF Addresses
<1>4. CrcsOfContents(g)
  BY <1>1, <1>2, <1>3 DEF CrcsOfContents, LogInv, CrcInv
<1> QED BY <1>4 DEF g

\* Steps that leave the flash alone.
LEMMA BeginKeeps ==
    ASSUME OneStore, StoreInv, NEW s \in Savers,
           BeginErase(s) \/ \E c \in Configs : Begin(s, c)
    PROVE  StoreInv' /\ Appended
<1> USE DEF TypeOK
<1>1. TypeOK /\ LogInv(flash) /\ SaverInv(s) /\ (~dirty => CrcsOfContents(flash) /\ SaverClean(s))
  BY DEF StoreInv, CleanInv
<1>2. /\ pc[s] = "idle" /\ pc'[s] \in {"find", "eraseAll"} /\ ~locked' /\ flash' = flash /\ dirty' = dirty
      /\ pc'[s] = "find" => want'[s] \in Configs
      /\ pc'[s] = "eraseAll" => want'[s] = want[s]
  BY <1>1 DEF BeginErase, Begin, Goto
<1>3. TypeOK'
  BY <1>1 DEF BeginErase, Begin, Goto, PC
<1>4. SaverInv(s)'
  BY <1>1, <1>2 DEF SaverInv, Writing
<1>5. SaverClean(s) => SaverClean(s)'
  BY <1>2 DEF SaverClean, Writing
<1> QED BY <1>1, <1>2, <1>3, <1>4, <1>5, OneStep DEF Appended

LEMMA FindKeeps ==
    ASSUME OneStore, StoreInv, NEW s \in Savers, Find(s)
    PROVE  StoreInv' /\ Appended
<1> USE DEF TypeOK
<1>1. TypeOK /\ LogInv(flash) /\ SaverInv(s) /\ (~dirty => CrcsOfContents(flash) /\ SaverClean(s))
  BY DEF StoreInv, CleanInv
<1>2. /\ pc[s] = "find" /\ pc'[s] \in {"eraseFirst", "free"}
      /\ flash' = flash /\ dirty' = dirty /\ locked' = locked /\ want' = want /\ dst' = dst /\ index' = index
  BY <1>1 DEF Find, Goto
<1>3. TypeOK'
  BY <1>1 DEF Find, Goto, PC
<1>4. SaverInv(s)'
  BY <1>1, <1>2 DEF SaverInv, Writing
<1>5. SaverClean(s) => SaverClean(s)'
  BY <1>2 DEF SaverClean, Writing
<1> QED BY <1>1, <1>2, <1>3, <1>4, <1>5, OneStep DEF Appended

LEMMA FreeKeeps ==
    ASSUME OneStore, StoreInv, NEW s \in Savers, Free(s)
    PROVE  StoreInv' /\ Appended
<1> USE DEF TypeOK
<1>1. TypeOK /\ LogInv(flash) /\ SaverInv(s) /\ (~dirty => CrcsOfContents(flash) /\ SaverClean(s))
  BY DEF StoreInv, CleanInv
<1>2. /\ pc[s] = "free" /\ pc'[s] \in {"eraseFull", "data"}
      /\ flash' = flash /\ dirty' = dirty /\ locked' = locked /\ want' = want
      /\ dst'[s] = FindFirstFree(flash) /\ index'[s] = 0
  BY <1>1 DEF Free, Goto
<1>3. FindFirstFree(flash) \in 0..Sector
  BY <1>1, EndInSector
<1>4. TypeOK'
  BY <1>1, <1>3 DEF Free, Goto, PC
<1>5. want[s] \in Configs /\ 0 <= Length[want[s]]
  <2>1. want[s] \in Configs
    BY <1>1, <1>2 DEF SaverInv
  <2> QED BY SMT, <2>1, LengthAssumption
<1>6. SaverInv(s)'
  BY <1>1, <1>2, <1>5 DEF SaverInv, Writing
<1>7. SaverClean(s) => SaverClean(s)'
  <2>1. \A x \in Addresses : ~(x >= dst'[s] + Header /\ x < dst'[s] + Header + index'[s])
    BY SMT, <1>2, <1>3, SectorAssumption DEF Addresses, Header
  <2> QED BY <1>2, <2>1 DEF SaverClean, Writing, Progress
<1> QED BY <1>1, <1>2, <1>4, <1>6, <1>7, OneStep DEF Appended

LEMMA DataEndsKeeps ==
    ASSUME OneStore, StoreInv, NEW s \in Savers, DataEnds(s)
    PROVE  StoreInv' /\ Appended
<1> USE DEF TypeOK
<1>1. TypeOK /\ LogInv(flash) /\ SaverInv(s) /\ (~dirty => CrcsOfContents(flash) /\ SaverClean(s))
  BY DEF StoreInv, CleanInv
<1>2. /\ pc[s] = "data" /\ pc'[s] = IF index[s] = Length[want[s]] THEN "lencrc" ELSE "failed"
      /\ flash' = flash /\ dirty' = dirty /\ locked' = locked /\ want' = want /\ dst' = dst /\ index' = index
  BY <1>1 DEF DataEnds, Goto
<1>3. TypeOK'
  BY <1>1 DEF DataEnds, Goto, PC
<1>4. SaverInv(s)'
  BY <1>1, <1>2 DEF SaverInv, Writing
<1>5. SaverClean(s) => SaverClean(s)'
  BY <1>2 DEF SaverClean, Writing, Progress
<1> QED BY <1>1, <1>2, <1>3, <1>4, <1>5, OneStep DEF Appended

LEMMA LockKeeps ==
    ASSUME OneStore, StoreInv, NEW s \in Savers, Lock(s)
    PROVE  StoreInv' /\ Appended
<1> USE DEF TypeOK
<1>1. TypeOK /\ LogInv(flash) /\ SaverInv(s) /\ (~dirty => CrcsOfContents(flash) /\ SaverClean(s))
  BY DEF StoreInv, CleanInv
<1>2. pc[s] = "lock" /\ pc'[s] = "idle" /\ want'[s] = NoConfig /\ flash' = flash /\ dirty' = dirty
  BY <1>1 DEF Lock, Goto
<1>3. TypeOK'
  BY SMT, <1>1, SectorAssumption DEF Lock, Goto, PC
<1>4. SaverInv(s)'
  BY <1>1, <1>2 DEF SaverInv, Writing
<1>5. SaverClean(s) => SaverClean(s)'
  BY <1>2 DEF SaverClean, Writing
<1> QED BY <1>1, <1>2, <1>3, <1>4, <1>5, OneStep DEF Appended

\* Steps that erase.
LEMMA EraseFirstKeeps ==
    ASSUME OneStore, StoreInv, NEW s \in Savers, EraseFirst(s)
    PROVE  StoreInv' /\ Appended
<1> USE DEF TypeOK
<1>1. TypeOK /\ SaverInv(s)
  BY DEF StoreInv
<1>2. /\ pc[s] = "eraseFirst" /\ pc'[s] = "free" /\ ~locked
      /\ locked' = locked /\ want' = want
      /\ flash' = Blank /\ dirty' = FALSE
  BY <1>1 DEF EraseFirst, Goto, SectorErase, SaverInv, Blank
<1>3. TypeOK' /\ Erasing
  BY <1>1, <1>2 DEF EraseFirst, Goto, PC, Blank, Erasing
<1>4. SaverInv(s)'
  BY <1>1, <1>2 DEF SaverInv, Writing
<1>5. CrcsOfContents(flash') /\ SaverClean(s)'
  BY <1>2 DEF SaverClean, CrcsOfContents, Writing, Blank
<1> QED BY <1>2, <1>3, <1>4, <1>5, BlankLog, OneStep DEF Appended

LEMMA EraseFullKeeps ==
    ASSUME OneStore, StoreInv, NEW s \in Savers, EraseFull(s)
    PROVE  StoreInv' /\ Appended
<1> USE DEF TypeOK
<1>1. TypeOK /\ SaverInv(s)
  BY DEF StoreInv
<1>2. /\ pc[s] = "eraseFull" /\ pc'[s] = "data" /\ ~locked
      /\ locked' = locked /\ want' = want /\ index' = index /\ dst'[s] = 0
      /\ flash' = Blank /\ dirty' = FALSE
  BY <1>1 DEF EraseFull, Goto, SectorErase, SaverInv, Blank
<1>3. index[s] = 0 /\ want[s] \in Configs
  BY <1>1, <1>2 DEF SaverInv
<1>4. TypeOK' /\ Erasing
  <2>1. 0 \in 0..Sector
    BY SMT, SectorAssumption
  <2> QED BY <1>1, <1>2, <2>1 DEF EraseFull, Goto, PC, Blank, Erasing
<1>5. SaverInv(s)'
  <2>1. 0 <= Length[want[s]] /\ ~(index[s] > 0)
    BY SMT, <1>3, LengthAssumption
  <2> QED BY <1>1, <1>2, <1>3, <2>1, BlankLog DEF SaverInv, Writing
<1>6. CrcsOfContents(flash') /\ SaverClean(s)'
  <2>1. \A x \in Addresses : ~(x >= 0 + Header /\ x < 0 + Header + index[s])
    BY SMT, <1>3, SectorAssumption DEF Addresses, Header
  <2> QED BY <1>2, <2>1 DEF SaverClean, CrcsOfContents, Writing, Progress, Blank
<1> QED BY <1>2, <1>4, <1>5, <1>6, BlankLog, OneStep DEF Appended

LEMMA FailedKeeps ==
    ASSUME OneStore, StoreInv, NEW s \in Savers, Failed(s)
    PROVE  StoreInv' /\ Appended
<1> USE DEF TypeOK
<1>1. TypeOK /\ SaverInv(s)
  BY DEF StoreInv
<1>2. /\ pc[s] = "failed" /\ pc'[s] = "find" /\ ~locked
      /\ locked' = FALSE /\ want' = want
      /\ flash' = Blank /\ dirty' = FALSE
  BY <1>1 DEF Failed, Goto, SectorErase, SaverInv, Blank
<1>3. TypeOK' /\ Erasing
  BY <1>1, <1>2 DEF Failed, Goto, PC, Blank, Erasing
<1>4. SaverInv(s)'
  BY <1>1, <1>2 DEF SaverInv, Writing
<1>5. CrcsOfContents(flash') /\ SaverClean(s)'
  BY <1>2 DEF SaverClean, CrcsOfContents, Writing, Blank
<1> QED BY <1>2, <1>3, <1>4, <1>5, BlankLog, OneStep DEF Appended

LEMMA EraseAllKeeps ==
    ASSUME OneStore, StoreInv, NEW s \in Savers, EraseAll(s)
    PROVE  StoreInv' /\ Appended
<1> USE DEF TypeOK
<1>1. TypeOK /\ SaverInv(s)
  BY DEF StoreInv
<1>2. /\ pc[s] = "eraseAll" /\ pc'[s] = "lock" /\ ~locked
      /\ locked' = locked /\ want' = want
      /\ flash' = Blank /\ dirty' = FALSE
  BY <1>1 DEF EraseAll, Goto, SectorErase, SaverInv, Blank
<1>3. TypeOK' /\ Erasing
  BY <1>1, <1>2 DEF EraseAll, Goto, PC, Blank, Erasing
<1>4. SaverInv(s)'
  BY <1>1, <1>2 DEF SaverInv, Writing
<1>5. CrcsOfContents(flash') /\ SaverClean(s)'
  <2>1. want[s] = NoConfig
    BY <1>1, <1>2 DEF SaverInv
  <2> QED BY <1>2, <2>1, BlankLog DEF SaverClean, CrcsOfContents, Writing, Blank
<1> QED BY <1>2, <1>3, <1>4, <1>5, BlankLog, OneStep DEF Appended

\* Steps that program a word.
LEMMA WriteDataKeeps ==
    ASSUME OneStore, StoreInv, NEW s \in Savers, WriteData(s)
    PROVE  StoreInv' /\ Appended
<1> USE DEF TypeOK
<1> DEFINE F == FindFirstFree(flash)
           x == dst[s] + Header + index[s]
           w == Data(want[s], index[s] + 1)
<1>1. TypeOK /\ LogInv(flash) /\ SaverInv(s) /\ (~dirty => CrcsOfContents(flash) /\ SaverClean(s))
  BY DEF StoreInv, CleanInv
<1>2. /\ pc[s] = "data" /\ pc'[s] = "data" /\ ~locked
      /\ locked' = locked /\ want' = want /\ dst' = dst /\ index'[s] = index[s] + 1 /\ dirty' = dirty
      /\ index[s] < Length[want[s]] /\ Fits(s) /\ Program(x, w)
  BY <1>1 DEF WriteData, Goto, SaverInv
<1>3. dst[s] = F /\ F \in 0..Sector /\ index[s] \in Nat /\ Length[want[s]] \in Nat
  BY <1>1, <1>2, EndInSector, LengthAssumption DEF SaverInv, Writing
<1>4. /\ x \in Addresses /\ x >= F /\ dst[s] + Header + (index[s] + 1) <= Sector
      /\ index[s] + 1 <= Length[want[s]] /\ index[s] + 1 \in Nat
  <2>1. Room(s, dst[s]) = Sector - F
    BY <1>3, RoomLemma
  <2> QED BY SMT, <1>2, <1>3, <2>1, SectorAssumption DEF Fits, Addresses, Header
<1>5. flash' = [flash EXCEPT ![x] = Over(@, w)] /\ fault' = fault
  BY <1>2, <1>4 DEF Program
<1>6. LogInv(flash') /\ FindFirstFree(flash') = F /\ FindLastUsed(flash') = FindLastUsed(flash)
  BY <1>1, <1>4, <1>5, WriteKeeps
<1>7. TypeOK'
  BY <1>1, <1>4, <1>5 DEF WriteData, Goto, PC
<1>8. SaverInv(s)'
  BY <1>1, <1>2, <1>3, <1>4, <1>6 DEF SaverInv, Writing
<1>9. ASSUME ~dirty PROVE CrcsOfContents(flash') /\ SaverClean(s)'
  <2>1. CrcsOfContents(flash')
    <3>1. ~IsCrc(w)
      BY Kinds DEF IsCrc
    <3> QED BY <1>1, <1>4, <1>5, <1>9, <3>1, WriteKeepsCrcs
  <2>2. ASSUME NEW y \in Addresses, y >= F PROVE flash'[y] = Progress(s, y)'
    <3>1. flash[y] = Progress(s, y)
      BY <1>1, <1>2, <1>9, <2>2 DEF SaverClean, Writing
    <3>2. flash[y] = IF y >= F + Header /\ y < F + Header + index[s] THEN {Data(want[s], y - F - 2)} ELSE {}
      BY <1>2, <1>3, <3>1 DEF Progress
    <3>3. Progress(s, y)' = IF y >= F + Header /\ y < F + Header + (index[s] + 1)
                            THEN {Data(want[s], y - F - 2)} ELSE {}
      BY <1>2, <1>3 DEF Progress
    <3>4. CASE y = x
      <4>1. /\ y >= F + Header /\ y < F + Header + (index[s] + 1) /\ ~(y < F + Header + index[s])
            /\ y - F - 2 = index[s] + 1
        BY SMT, <1>3, <3>4 DEF Header
      <4>2. flash'[y] = {w}
        BY <1>1, <1>4, <1>5, <3>2, <3>4, <4>1 DEF Over
      <4> QED BY <3>3, <4>1, <4>2
    <3>5. CASE y # x
      <4>1. (y < F + Header + (index[s] + 1)) <=> (y < F + Header + index[s])
        BY SMT, <1>3, <3>5, SectorAssumption DEF Addresses, Header
      <4>2. flash'[y] = flash[y]
        BY <1>1, <1>5, <3>5
      <4> QED BY <3>2, <3>3, <4>1, <4>2
    <3> QED BY <3>4, <3>5
  <2>3. SaverClean(s)'
    BY <1>2, <1>6, <2>2 DEF SaverClean, Writing
  <2> QED BY <2>1, <2>3
<1> QED BY <1>2, <1>6, <1>7, <1>8, <1>9, OneStep DEF Appended

LEMMA WriteLenCrcKeeps ==
    ASSUME OneStore, StoreInv, NEW s \in Savers, WriteLenCrc(s)
    PROVE  StoreInv' /\ Appended
<1> USE DEF TypeOK
<1> DEFINE F == FindFirstFree(flash)
           n == index[s]
           w == LenCrc(n)
<1>1. TypeOK /\ LogInv(flash) /\ SaverInv(s) /\ (~dirty => CrcsOfContents(flash) /\ SaverClean(s))
  BY DEF StoreInv, CleanInv
<1>2. /\ pc[s] = "lencrc" /\ pc'[s] = "len" /\ ~locked
      /\ locked' = locked /\ want' = want /\ dst' = dst /\ index' = index /\ dirty' = dirty
      /\ Program(F, w) /\ dst[s] = F
  BY <1>1 DEF WriteLenCrc, Goto, SaverInv, Writing
<1>3. want[s] \in Configs /\ n = Length[want[s]] /\ (n > 0 => dst[s] + Header + n <= Sector)
  BY <1>1, <1>2 DEF SaverInv, Writing
<1>4. F \in 0..Sector /\ n \in Nat /\ n > 0
  BY SMT, <1>1, <1>3, EndInSector, LengthAssumption
<1>5. F \in Addresses /\ F >= F /\ n \in 0..Sector /\ F + Header + n <= Sector
  BY SMT, <1>2, <1>3, <1>4, SectorAssumption DEF Addresses, Header
<1>6. flash' = [flash EXCEPT ![F] = Over(@, w)] /\ fault' = fault
  BY <1>2, <1>5 DEF Program
<1>7. LogInv(flash') /\ FindFirstFree(flash') = F /\ FindLastUsed(flash') = FindLastUsed(flash)
  <2>1. \E m \in 0..Sector : /\ w = LenCrc(m) /\ F = FindFirstFree(flash)
                             /\ F + Header + m <= Sector /\ \E c \in Configs : m = Length[c]
    BY <1>3, <1>5
  <2> QED BY <1>1, <1>5, <1>6, <2>1, WriteKeeps
<1>8. TypeOK'
  BY <1>1, <1>6 DEF WriteLenCrc, Goto, PC
<1>9. SaverInv(s)'
  <2>1. w \in flash'[F]
    BY <1>1, <1>5, <1>6 DEF Over
  <2> QED BY <1>1, <1>2, <1>3, <1>7, <2>1 DEF SaverInv, Writing
<1>10. ASSUME ~dirty PROVE CrcsOfContents(flash') /\ SaverClean(s)'
  <2>1. CrcsOfContents(flash')
    <3>1. ~IsCrc(w)
      BY Kinds DEF IsCrc
    <3> QED BY <1>1, <1>5, <1>6, <1>10, <3>1, WriteKeepsCrcs
  <2>2. ASSUME NEW y \in Addresses, y >= F PROVE flash'[y] = Progress(s, y)'
    <3>1. flash[y] = Progress(s, y)
      BY <1>1, <1>2, <1>10, <2>2 DEF SaverClean, Writing
    <3>2. CASE y = F
      <4>1. ~(y >= F + Header)
        BY SMT, <1>4, <3>2 DEF Header
      <4>2. flash[y] = {}
        BY <1>2, <3>1, <4>1 DEF Progress
      <4> QED BY <1>1, <1>2, <1>6, <3>2, <4>2 DEF Progress, Over
    <3>3. CASE y # F
      BY <1>1, <1>2, <1>6, <3>1, <3>3 DEF Progress
    <3> QED BY <3>2, <3>3
  <2>3. SaverClean(s)'
    BY <1>2, <1>7, <2>2 DEF SaverClean, Writing
  <2> QED BY <2>1, <2>3
<1> QED BY <1>2, <1>7, <1>8, <1>9, <1>10, OneStep DEF Appended

LEMMA WriteLenKeeps ==
    ASSUME OneStore, StoreInv, NEW s \in Savers, WriteLen(s)
    PROVE  StoreInv' /\ Appended
<1> USE DEF TypeOK
<1> DEFINE F == FindFirstFree(flash)
           n == index[s]
           w == Len32(n)
<1>1. TypeOK /\ LogInv(flash) /\ SaverInv(s) /\ (~dirty => CrcsOfContents(flash) /\ SaverClean(s))
  BY DEF StoreInv, CleanInv
<1>2. /\ pc[s] = "len" /\ pc'[s] = "datacrc" /\ ~locked
      /\ locked' = locked /\ want' = want /\ dst' = dst /\ index' = index /\ dirty' = dirty
      /\ Program(F + 1, w) /\ dst[s] = F
  BY <1>1 DEF WriteLen, Goto, SaverInv, Writing
<1>3. /\ want[s] \in Configs /\ n = Length[want[s]] /\ (n > 0 => dst[s] + Header + n <= Sector)
      /\ LenCrc(n) \in flash[F]
  BY <1>1, <1>2 DEF SaverInv, Writing
<1>4. F \in 0..Sector /\ n \in Nat /\ n > 0
  BY SMT, <1>1, <1>3, EndInSector, LengthAssumption
<1>5. /\ F \in Addresses /\ F + 1 \in Addresses /\ F + 1 >= F /\ F + 1 # F /\ F + 1 > 0
      /\ (F + 1) - 1 = F /\ n \in 0..Sector
  BY SMT, <1>2, <1>3, <1>4, SectorAssumption DEF Addresses, Header
<1>6. flash' = [flash EXCEPT ![F + 1] = Over(@, w)] /\ fault' = fault
  BY <1>2, <1>5 DEF Program
<1>7. LogInv(flash') /\ FindFirstFree(flash') = F /\ FindLastUsed(flash') = FindLastUsed(flash)
  BY <1>1, <1>3, <1>5, <1>6, WriteKeeps
<1>8. TypeOK'
  BY <1>1, <1>6 DEF WriteLen, Goto, PC
<1>9. SaverInv(s)'
  <2>1. w \in flash'[F + 1] /\ flash'[F] = flash[F]
    BY <1>1, <1>5, <1>6 DEF Over
  <2> QED BY <1>1, <1>2, <1>3, <1>7, <2>1 DEF SaverInv, Writing
<1>10. ASSUME ~dirty PROVE CrcsOfContents(flash') /\ SaverClean(s)'
  <2>1. CrcsOfContents(flash')
    <3>1. ~IsCrc(w)
      BY Kinds DEF IsCrc
    <3> QED BY <1>1, <1>5, <1>6, <1>10, <3>1, WriteKeepsCrcs
  <2>2. ASSUME NEW y \in Addresses, y >= F PROVE flash'[y] = Progress(s, y)'
    <3>1. flash[y] = Progress(s, y)
      BY <1>1, <1>2, <1>10, <2>2 DEF SaverClean, Writing
    <3>2. CASE y = F + 1
      <4>1. ~(y >= F + Header) /\ y # F
        BY SMT, <1>4, <3>2 DEF Header
      <4>2. flash[y] = {}
        BY <1>2, <3>1, <4>1 DEF Progress
      <4> QED BY <1>1, <1>2, <1>6, <3>2, <4>1, <4>2 DEF Progress, Over
    <3>3. CASE y # F + 1
      BY <1>1, <1>2, <1>6, <3>1, <3>3 DEF Progress
    <3> QED BY <3>2, <3>3
  <2>3. SaverClean(s)'
    BY <1>2, <1>7, <2>2 DEF SaverClean, Writing
  <2> QED BY <2>1, <2>3
<1> QED BY <1>2, <1>7, <1>8, <1>9, <1>10, OneStep DEF Appended

LEMMA WriteDataCrcKeeps ==
    ASSUME OneStore, StoreInv, NEW s \in Savers, WriteDataCrc(s)
    PROVE  StoreInv' /\ Appended
<1> USE DEF TypeOK
<1> DEFINE F == FindFirstFree(flash)
           n == index[s]
           w == DataCrc(Contents(flash, F + Header, n))
<1>1. TypeOK /\ LogInv(flash) /\ SaverInv(s) /\ (~dirty => CrcsOfContents(flash) /\ SaverClean(s))
  BY DEF StoreInv, CleanInv
<1>2. /\ pc[s] = "datacrc" /\ pc'[s] = "lock" /\ ~locked
      /\ locked' = locked /\ want' = want /\ dst' = dst /\ index' = index /\ dirty' = dirty
      /\ Program(F + 2, w) /\ dst[s] = F
  BY <1>1 DEF WriteDataCrc, Goto, SaverInv, Writing
<1>3. /\ want[s] \in Configs /\ n = Length[want[s]] /\ (n > 0 => dst[s] + Header + n <= Sector)
      /\ LenCrc(n) \in flash[F] /\ Len32(n) \in flash[F + 1]
  BY <1>1, <1>2 DEF SaverInv, Writing
<1>4. F \in 0..Sector /\ n \in Nat /\ n > 0
  BY SMT, <1>1, <1>3, EndInSector, LengthAssumption
<1>5. /\ F \in Addresses /\ F + 1 \in Addresses /\ F + 2 \in Addresses /\ n \in 0..Sector
      /\ F + Header + n <= Sector
  BY SMT, <1>2, <1>3, <1>4, SectorAssumption DEF Addresses, Header
<1>6. flash' = [flash EXCEPT ![F + 2] = Over(@, w)] /\ fault' = fault
  BY <1>2, <1>5 DEF Program
<1>7. /\ LogInv(flash')
      /\ \/ FindFirstFree(flash') = F /\ FindLastUsed(flash') = FindLastUsed(flash)
         \/ FindFirstFree(flash') = F + Header + n /\ FindLastUsed(flash') = F /\ BlockLength(flash', F) = n
      /\ HasLength(flash, F, n) /\ flash[F + 2] = {}
            => FindFirstFree(flash') = F + Header + n /\ FindLastUsed(flash') = F /\ BlockLength(flash', F) = n
  BY <1>1, <1>3, <1>5, <1>6, HeaderEnds
<1>8. TypeOK'
  BY <1>1, <1>6 DEF WriteDataCrc, Goto, PC
<1>9. SaverInv(s)'
  BY <1>1, <1>2, <1>3 DEF SaverInv, Writing
<1>10. ASSUME ~dirty PROVE CrcsOfContents(flash') /\ SaverClean(s)'
  <2>1. \A y \in Addresses : y >= F => flash[y] = Progress(s, y)
    BY <1>1, <1>2, <1>10 DEF SaverClean, Writing
  <2>2. flash[F] = {LenCrc(n)} /\ flash[F + 1] = {Len32(n)} /\ flash[F + 2] = {}
    <3>1. /\ F >= F /\ F + 1 >= F /\ F + 2 >= F /\ F + 1 # F /\ F + 2 # F /\ F + 2 # F + 1
          /\ ~(F + 2 >= F + Header)
      BY SMT, <1>4 DEF Header
    <3> QED BY <1>2, <1>5, <2>1, <3>1 DEF Progress
  <2>3. FindFirstFree(flash') = F + Header + n /\ FindLastUsed(flash') = F /\ BlockLength(flash', F) = n
    BY <1>7, <2>2 DEF HasLength
  <2>4. Contents(flash, F + Header, n) = Written(want[s])
    <3> SUFFICES ASSUME NEW i \in 1..n PROVE flash[F + Header + i - 1] = {Data(want[s], i)}
      BY <1>3 DEF Contents, Written
    <3> DEFINE y == F + Header + i - 1
    <3>1. /\ y \in Addresses /\ y >= F /\ y # F /\ y # F + 1
          /\ y >= F + Header /\ y < F + Header + n /\ y - F - 2 = i
      BY SMT, <1>4, <1>5, SectorAssumption DEF Addresses, Header
    <3> QED BY <1>2, <2>1, <3>1 DEF Progress
  <2>5. Contents(flash', F + Header, n) = Written(want[s])
    <3>1. \A i \in 1..n : F + Header + i - 1 # F + 2
      BY SMT, <1>4 DEF Header
    <3>2. \A i \in 1..n : F + Header + i - 1 \in Addresses
      BY SMT, <1>4, <1>5, SectorAssumption DEF Addresses, Header
    <3>3. \A i \in 1..n : flash'[F + Header + i - 1] = flash[F + Header + i - 1]
      BY <1>1, <1>6, <3>1, <3>2
    <3> QED BY <2>4, <3>3 DEF Contents
  <2>6. Load(flash') = want[s]
    <3>1. F # -1
      BY SMT, <1>4
    <3> QED BY <1>3, <2>3, <2>5, <3>1, ParseWritten DEF Load
  <2>7. CrcsOfContents(flash')
    <3> SUFFICES ASSUME NEW y \in Addresses, NEW v \in flash'[y], IsCrc(v)
                 PROVE  \E c \in Configs : LenCrc(Length[c]) \in flash'[y - 2] /\ v = DataCrc(Written(c))
      BY DEF CrcsOfContents
    <3>1. CASE y = F + 2 /\ v = w
      <4>1. (F + 2) - 2 = F /\ F # F + 2
        BY SMT, <1>4
      <4>2. flash'[F] = flash[F]
        BY <1>1, <1>5, <1>6, <4>1
      <4> QED BY <1>3, <2>4, <3>1, <4>1, <4>2
    <3>2. CASE v \in flash[y]
      <4>1. y > 1
        BY <1>1, <3>2 DEF LogInv, CrcInv
      <4>2. y - 2 \in Addresses
        BY SMT, <4>1, SectorAssumption DEF Addresses
      <4>3. \A m : LenCrc(m) # Torn(w)
        BY Kinds
      <4>4. \A u : u \in flash[y - 2] /\ u # Torn(w) => u \in flash'[y - 2]
        BY <1>1, <1>6, <4>2 DEF Over
      <4>5. PICK c \in Configs : LenCrc(Length[c]) \in flash[y - 2] /\ v = DataCrc(Written(c))
        BY <1>1, <1>10, <3>2 DEF CrcsOfContents
      <4> QED BY <4>3, <4>4, <4>5
    <3> QED BY <1>1, <1>6, <3>1, <3>2 DEF Over
  <2>8. SaverClean(s)'
    <3>1. ASSUME NEW y \in Addresses, y >= F + Header + n PROVE flash'[y] = {}
      <4>1. y >= F /\ y # F /\ y # F + 1 /\ y # F + 2 /\ ~(y < F + Header + n)
        BY SMT, <1>4, <3>1, SectorAssumption DEF Addresses, Header
      <4>2. flash[y] = {}
        BY <1>2, <2>1, <4>1 DEF Progress
      <4> QED BY <1>1, <1>6, <4>1, <4>2
    <3> QED BY <1>2, <2>3, <2>6, <3>1 DEF SaverClean, Writing
  <2> QED BY <2>7, <2>8
<1>11. Appended
  BY <1>2, <1>7 DEF Appended
<1> QED BY <1>2, <1>7, <1>8, <1>9, <1>10, <1>11, OneStep

\* The power fails.
LEMMA TearWordKeeps ==
    ASSUME NEW a \in Nat, NEW w, LogInv(flash), a >= FindFirstFree(flash), w[1] # "torn", TearWord(a, w)
    PROVE  LogInv(flash') /\ FindLastUsed(flash') = FindLastUsed(flash)
<1>1. CASE a \in Addresses /\ flash[a] = {}
  BY <1>1, TearKeeps DEF TearWord
<1>2. CASE ~(a \in Addresses /\ flash[a] = {})
  BY <1>2 DEF TearWord
<1> QED BY <1>1, <1>2

LEMMA PowerFailKeeps ==
    ASSUME OneStore, StoreInv, PowerFail
    PROVE  StoreInv' /\ Appended
<1> USE DEF TypeOK
<1> DEFINE F == FindFirstFree(flash)
<1>1. TypeOK /\ LogInv(flash) /\ (~dirty => CleanInv) /\ F \in Nat
  BY FirstFreeLemma DEF StoreInv
<1>2. LogInv(flash') /\ FindLastUsed(flash') = FindLastUsed(flash)
  <2>1. CASE UNCHANGED flash
    BY <1>1, <2>1
  <2>2. ASSUME NEW s \in Savers,
               \/ /\ pc[s] = "data" /\ index[s] < Length[want[s]] /\ Fits(s)
                  /\ TearWord(dst[s] + Header + index[s], Data(want[s], index[s] + 1))
               \/ pc[s] = "lencrc" /\ TearWord(dst[s], LenCrc(index[s]))
               \/ pc[s] = "len" /\ TearWord(dst[s] + 1, Len32(index[s]))
               \/ /\ pc[s] = "datacrc"
                  /\ TearWord(dst[s] + 2, DataCrc(Contents(flash, dst[s] + Header, index[s])))
        PROVE  LogInv(flash') /\ FindLastUsed(flash') = FindLastUsed(flash)
    <3>1. dst[s] = F /\ index[s] \in Nat
      BY <1>1, <2>2 DEF StoreInv, SaverInv, Writing
    <3>2. /\ \A k \in Nat : F + k \in Nat /\ F + k >= F
          /\ F >= F /\ 1 \in Nat /\ 2 \in Nat
          /\ F + Header + index[s] \in Nat /\ F + Header + index[s] >= F
      BY SMT, <1>1, <3>1 DEF Header
    <3> QED BY <1>1, <2>2, <3>1, <3>2, TearWordKeeps, Kinds
  <2> QED BY <2>1, <2>2 DEF PowerFail
<1>3. TypeOK'
  <2>1. 0 \in 0..Sector /\ 0 \in Nat
    BY SMT, SectorAssumption
  <2>2. DOMAIN flash' = Addresses
    BY <1>2 DEF LogInv
  <2> QED BY <1>1, <2>1, <2>2 DEF PowerFail, PC
<1>4. \A s \in Savers : SaverInv(s)'
  BY DEF PowerFail, SaverInv, Writing
<1>5. ASSUME ~dirty' PROVE CleanInv'
  <2>1. ~dirty /\ \A s \in Savers : pc[s] \notin Writing \union {"failed"}
    BY <1>1, <1>5 DEF PowerFail, Writing
  <2>2. flash' = flash
    BY <2>1 DEF PowerFail, Writing
  <2> QED BY <1>1, <2>1, <2>2 DEF CleanInv, SaverClean, PowerFail, Writing
<1> QED BY <1>2, <1>3, <1>4, <1>5 DEF StoreInv, Appended

LEMMA StepKeeps == ASSUME OneStore, StoreInv, [Next]_vars PROVE StoreInv' /\ Appended
<1>1. CASE UNCHANGED vars
  BY <1>1 DEF vars, StoreInv, TypeOK, LogInv, SaverInv, CleanInv, SaverClean, Progress, Appended
<1>2. ASSUME NEW s \in Savers, BeginErase(s) \/ (\E c \in Configs : Begin(s, c)) \/ SaveStep(s)
      PROVE  StoreInv' /\ Appended
  <2>1. CASE BeginErase(s) \/ \E c \in Configs : Begin(s, c)
    BY <2>1, BeginKeeps
  <2>2. CASE Find(s)
    BY <2>2, FindKeeps
  <2>3. CASE EraseFirst(s)
    BY <2>3, EraseFirstKeeps
  <2>4. CASE Free(s)
    BY <2>4, FreeKeeps
  <2>5. CASE EraseFull(s)
    BY <2>5, EraseFullKeeps
  <2>6. CASE WriteData(s)
    BY <2>6, WriteDataKeeps
  <2>7. CASE DataEnds(s)
    BY <2>7, DataEndsKeeps
  <2>8. CASE Failed(s)
    BY <2>8, FailedKeeps
  <2>9. CASE WriteLenCrc(s)
    BY <2>9, WriteLenCrcKeeps
  <2>10. CASE WriteLen(s)
    BY <2>10, WriteLenKeeps
  <2>11. CASE WriteDataCrc(s)
    BY <2>11, WriteDataCrcKeeps
  <2>12. CASE Lock(s)
    BY <2>12, LockKeeps
  <2>13. CASE EraseAll(s)
    BY <2>13, EraseAllKeeps
  <2> QED BY <1>2, <2>1, <2>2, <2>3, <2>4, <2>5, <2>6, <2>7, <2>8, <2>9, <2>10, <2>11, <2>12, <2>13
          DEF SaveStep
<1>3. CASE PowerFail
  BY <1>3, PowerFailKeeps
<1> QED BY <1>1, <1>2, <1>3 DEF Next

LEMMA InitKeeps == Init => StoreInv
<1> SUFFICES ASSUME Init PROVE StoreInv
  OBVIOUS
<1>1. flash = Blank /\ LogInv(flash)
  BY BlankLog DEF Init, Blank
<1>2. TypeOK
  <2>1. 0 \in 0..Sector /\ 0 \in Nat
    BY SMT, SectorAssumption
  <2> QED BY <2>1 DEF Init, TypeOK, PC
<1>3. \A s \in Savers : SaverInv(s)
  BY DEF Init, SaverInv, Writing
<1>4. CleanInv
  BY DEF Init, CleanInv, CrcsOfContents, SaverClean, Writing
<1> QED BY <1>1, <1>2, <1>3, <1>4 DEF StoreInv

LEMMA StoreInvariance == OneStore => (Spec => []StoreInv)
<1> SUFFICES ASSUME OneStore PROVE Spec => []StoreInv
  OBVIOUS
<1>1. StoreInv /\ [Next]_vars => StoreInv'
  BY StepKeeps
<1> QED BY <1>1, InitKeeps, PTL DEF Spec

(* The state of a save is what config_save says it is, and it writes where *)
(* the sector is (config_flash_storage.c:83).                              *)
THEOREM StoreTypeTheorem == OneStore => (Spec => []TypeOK)
<1> SUFFICES ASSUME OneStore PROVE Spec => []TypeOK
  OBVIOUS
<1>1. StoreInv => TypeOK
  BY DEF StoreInv
<1> QED BY <1>1, StoreInvariance, PTL

(* What config_load takes for valid is a content that was saved, for any   *)
(* contents and any sector, as long as no save was interrupted.            *)
THEOREM IntactTheorem == OneStore => (Spec => []LoadedIsIntact)
<1> SUFFICES ASSUME OneStore PROVE Spec => []LoadedIsIntact
  OBVIOUS
<1>1. StoreInv => LoadedIsIntact
  <2> SUFFICES ASSUME StoreInv, ~dirty PROVE Load(flash) # "corrupt"
    BY DEF LoadedIsIntact
  <2> DEFINE a == FindLastUsed(flash)
  <2>1. LogInv(flash) /\ CrcsOfContents(flash)
    BY DEF StoreInv, CleanInv
  <2>2. CASE a = -1
    BY <2>2, NoConfigAssumption DEF Load
  <2>3. CASE a # -1
    <3>1. a \in Nat /\ InUse(flash, a)
      BY <2>3, LastIsValid
    <3>2. PICK n \in 0..Sector :
              /\ n = BlockLength(flash, a) /\ a \in Addresses /\ a + Header + n <= Sector
              /\ Complete(flash, a, n) /\ flash[a + 2] = {DataCrc(Contents(flash, a + Header, n))}
      BY <2>1, <3>1, ReadBlock DEF LogInv
    <3> DEFINE w == DataCrc(Contents(flash, a + Header, n))
    <3>3. a + 2 \in Addresses /\ (a + 2) - 2 = a
      BY SMT, <3>2, SectorAssumption DEF Addresses, Header
    <3>4. IsCrc(w) /\ w \in flash[a + 2]
      BY <3>2, Kinds DEF IsCrc
    <3>5. PICK c \in Configs : LenCrc(Length[c]) \in flash[a] /\ w = DataCrc(Written(c))
      BY <2>1, <3>3, <3>4 DEF CrcsOfContents
    <3>6. Contents(flash, a + Header, n) = Written(c)
      BY <3>5, Kinds
    <3> QED BY <2>3, <3>2, <3>6, ParseIsIntact DEF Load
  <2> QED BY <2>2, <2>3
<1> QED BY <1>1, StoreInvariance, PTL

(* What config_save has saved is what config_load loads, for any contents  *)
(* and any sector, and the flash is locked when it returns.                *)
THEOREM SavedTheorem == OneStore => (Spec => SavedIsLoaded)
<1> SUFFICES ASSUME OneStore PROVE Spec => SavedIsLoaded
  OBVIOUS
<1>1. StoreInv /\ [Next]_vars =>
         [\A s \in Savers : pc[s] = "lock" /\ pc'[s] = "idle"
             => locked' /\ (dirty \/ Load(flash) = want[s])]_vars
  <2> SUFFICES ASSUME StoreInv, Next, NEW s \in Savers, pc[s] = "lock", pc'[s] = "idle"
               PROVE  locked' /\ (dirty \/ Load(flash) = want[s])
    OBVIOUS
  <2>1. dirty \/ Load(flash) = want[s]
    BY DEF StoreInv, CleanInv, SaverClean
  <2>2. locked'
    <3>1. CASE PowerFail
      BY <3>1 DEF PowerFail
    <3>2. ASSUME NEW t \in Savers, BeginErase(t) \/ (\E c \in Configs : Begin(t, c)) \/ SaveStep(t)
          PROVE  Lock(t)
      <4>1. t = s
        BY DEF OneStore
      <4>2. pc \in [Savers -> PC]
        BY DEF StoreInv, TypeOK
      <4> QED BY <3>2, <4>1, <4>2
              DEF BeginErase, Begin, SaveStep, Find, EraseFirst, Free, EraseFull, WriteData, DataEnds,
                  Failed, WriteLenCrc, WriteLen, WriteDataCrc, EraseAll, Goto
    <3> QED BY <3>1, <3>2 DEF Next, Lock
  <2> QED BY <2>1, <2>2
<1> QED BY <1>1, StoreInvariance, PTL DEF Spec, SavedIsLoaded

(* A save that is interrupted anywhere, by any number of power failures,   *)
(* leaves the block that was saved before it the last one of the log.      *)
THEOREM AppendTheorem == OneStore => (Spec => AppendKeepsSaved)
<1> SUFFICES ASSUME OneStore PROVE Spec => AppendKeepsSaved
  OBVIOUS
<1>1. StoreInv /\ [Next]_vars =>
         [~Erasing =>
             \/ FindLastUsed(flash') = FindLastUsed(flash)
             \/ \E s \in Savers : /\ pc[s] = "datacrc"
                                  /\ FindLastUsed(flash') = dst[s]]_vars
  BY StepKeeps DEF Appended
<1> QED BY <1>1, StoreInvariance, PTL DEF Spec, AppendKeepsSaved

(* No access leaves the sector, for any contents, any sector and any power *)
(* failures, but the one that looks for the next header behind a log that  *)
(* has filled it to the last word or the last but one.                     *)
THEOREM SectorTheorem == OneStore => (Spec => StaysInSector)
<1> SUFFICES ASSUME OneStore PROVE Spec => StaysInSector
  OBVIOUS
<1> DEFINE Stays == fault' /\ ~fault =>
                       /\ \E s \in Savers : pc[s] \in {"find", "free"}
                       /\ Sector - FindFirstFree(flash) \in {0, 1}
<1>1. StoreInv /\ [Next]_vars => [Stays]_vars
  <2> SUFFICES ASSUME StoreInv, ~fault, Next PROVE Stays
    OBVIOUS
  <2>2. CASE PowerFail
    BY <2>2 DEF PowerFail
  <2>3. ASSUME NEW s \in Savers, BeginErase(s) \/ (\E c \in Configs : Begin(s, c)) \/ SaveStep(s)
        PROVE  Stays
    <3> DEFINE F == FindFirstFree(flash)
    <3>1. TypeOK /\ LogInv(flash) /\ SaverInv(s) /\ F \in 0..Sector
      BY EndInSector DEF StoreInv
    <3>2. CASE Find(s) \/ Free(s)
      <4>1. pc[s] \in {"find", "free"} /\ fault' = ~Readable(F)
        BY <3>2 DEF Find, Free, Goto
      <4>2. ~Readable(F) => Sector - F \in {0, 1}
        BY SMT, <3>1, SectorAssumption DEF Readable
      <4> QED BY <4>1, <4>2
    <3>3. CASE WriteData(s)
      <4>1. pc[s] = "data" /\ Fits(s) /\ Program(dst[s] + Header + index[s], Data(want[s], index[s] + 1))
        BY <3>3 DEF WriteData, Goto
      <4>2. dst[s] = F /\ index[s] \in Nat
        BY <3>1, <4>1 DEF SaverInv, Writing, TypeOK
      <4>3. Room(s, dst[s]) = Sector - F
        BY <3>1, <4>2, RoomLemma
      <4>4. dst[s] + Header + index[s] \in Addresses
        BY SMT, <3>1, <4>1, <4>2, <4>3, SectorAssumption DEF Fits, Addresses, Header
      <4> QED BY <4>1, <4>4 DEF Program
    <3>4. CASE WriteLenCrc(s) \/ WriteLen(s) \/ WriteDataCrc(s)
      <4>1. /\ pc[s] \in {"lencrc", "len", "datacrc"}
            /\ \E k \in {0, 1, 2} : \E w : Program(dst[s] + k, w)
        <5>1. dst[s] \in 0..Sector
          BY <3>1 DEF TypeOK
        <5>2. dst[s] + 0 = dst[s]
          BY SMT, <5>1, SectorAssumption
        <5> QED BY <3>4, <5>2 DEF WriteLenCrc, WriteLen, WriteDataCrc, Goto
      <4>2. /\ dst[s] = F /\ index[s] = Length[want[s]] /\ want[s] \in Configs
            /\ index[s] > 0 => dst[s] + Header + index[s] <= Sector
        BY <3>1, <4>1 DEF SaverInv, Writing
      <4>3. \A k \in {0, 1, 2} : dst[s] + k \in Addresses
        <5>1. index[s] \in Nat /\ index[s] > 0
          BY SMT, <4>2, LengthAssumption
        <5> QED BY SMT, <3>1, <4>2, <5>1, SectorAssumption DEF Addresses, Header
      <4> QED BY <4>1, <4>3 DEF Program
    <3> QED BY <2>3, <3>2, <3>3, <3>4
            DEF SaveStep, BeginErase, Begin, EraseFirst, EraseFull, DataEnds, Failed, Lock, EraseAll
  <2> QED BY <2>2, <2>3 DEF Next
<1>2. StaysInSector <=> [][Stays]_vars
  BY PTL DEF StaysInSector
<1> HIDE DEF Stays
<1> QED BY <1>1, <1>2, StoreInvariance, PTL DEF Spec

-----------------------------------------------------------------------------
(* Every address of the first bank, which is all the STM32F407 of the      *)
(* robot has, is in the sector that flash_addr_to_sector computes.         *)
THEOREM FirstBank ==
    ASSUME NEW a \in Int, FlashBase <= a, a < Bank2
    PROVE  /\ flash_addr_to_sector(a) \in 0..11
           /\ InSector(a, flash_addr_to_sector(a))
<1> DEFINE o == a - FlashBase
           n == flash_addr_to_sector(a)
<1>1. a \in Int /\ a = FlashBase + o /\ o \in Int /\ 0 <= o /\ o < 1048576
  BY SMT DEF FlashBase, Bank2
<1>2. a % 16777216 = o /\ ~(a >= Bank2)
  BY SMT, <1>1 DEF FlashBase, Bank2
<1> HIDE DEF o
<1>3. n = IF o < 65536 THEN o \div 16384
          ELSE IF o < 131072 THEN 3 + o \div 65536
          ELSE 4 + o \div 131072
  BY SMT, <1>1, <1>2 DEF flash_addr_to_sector, KB
<1>4. SUFFICES /\ n \in 0..11
               /\ SectorOffset(n) <= o /\ o < SectorOffset(n) + SectorLength(n)
  BY SMT, <1>1 DEF InSector, FlashBase, SectorOffset, SectorLength, KB
<1> HIDE DEF n
<1>5. CASE o < 65536
  <2>1. n \in 0..3 /\ n * 16384 <= o /\ o < n * 16384 + 16384
    BY SMT, <1>1, <1>3, <1>5
  <2> QED BY SMT, <2>1, <1>1 DEF SectorOffset, SectorLength, KB
<1>6. CASE o >= 65536 /\ o < 131072
  <2>1. n = 4
    BY SMT, <1>1, <1>3, <1>6
  <2> QED BY SMT, <2>1, <1>1, <1>6 DEF SectorOffset, SectorLength, KB
<1>7. CASE o >= 131072
  <2>1. n \in 5..11 /\ (n - 4) * 131072 <= o /\ o < (n - 4) * 131072 + 131072
    BY SMT, <1>1, <1>3, <1>7
  <2> QED BY SMT, <2>1, <1>1 DEF SectorOffset, SectorLength, KB
<1> QED BY SMT, <1>1, <1>5, <1>6, <1>7
===============================================================================
