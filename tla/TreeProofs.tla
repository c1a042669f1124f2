---------------------------- MODULE TreeProofs -----------------------------
(***************************************************************************)
(* Proofs about the two calls of Scans that list the deleted entries of a  *)
(* tree of directories: the quick scan of an NTFS volume and the walk      *)
(* through the directories of a FAT32 volume, with what the proofs about   *)
(* the other calls use of ranks and of induction.                          *)
(***************************************************************************)
EXTENDS Scans, FiniteSetTheorems, WellFoundedInduction, TLAPS

-----------------------------------------------------------------------------
(* Numbers *)

\* A set of numbers that is not empty has a least one.
LEMMA NatLeast ==
  ASSUME NEW T, T \subseteq Nat, T # {}
  PROVE  \E x \in T : \A y \in T : x <= y
<1> DEFINE Segments == {1 .. x : x \in T}
<1>1. IsWellFoundedOn(StrictSubsetOrdering(Nat), FiniteSubsetsOf(Nat))
  BY FS_StrictSubsetOrderingWellFounded
<1>2. \A x \in T : 1 .. x \in FiniteSubsetsOf(Nat)
  <2> TAKE x \in T
  <2>1. IsFiniteSet(1 .. x)
    BY FS_Interval
  <2> QED
    BY <2>1 DEF FiniteSubsetsOf
<1>3. Segments \subseteq FiniteSubsetsOf(Nat) /\ Segments # {}
  BY <1>2
<1>4. PICK least \in Segments :
        \A s \in Segments : ~ (<<s, least>> \in StrictSubsetOrdering(Nat))
  <2> HIDE DEF Segments
  <2> QED
    BY <1>1, <1>3, WFMin
<1>5. PICK x \in T : least = 1 .. x
  OBVIOUS
<1>6. ASSUME NEW y \in T, y < x
      PROVE  FALSE
  <2>1. 1 .. y \in Segments /\ <<1 .. y, 1 .. x>> \notin StrictSubsetOrdering(Nat)
    BY <1>4, <1>5
  <2>2. 1 .. y \subseteq 1 .. x /\ x \in 1 .. x /\ x \notin 1 .. y
    BY <1>6
  <2>3. 1 .. y \in SUBSET Nat /\ 1 .. x \in SUBSET Nat
    OBVIOUS
  <2> QED
    BY <2>1, <2>2, <2>3 DEF StrictSubsetOrdering
<1> QED
  BY <1>6

\* Where numbers are bounded there is a greatest one.
LEMMA NatGreatest ==
  ASSUME NEW to \in Nat, NEW T, T \subseteq 0 .. to, T # {}
  PROVE  \E x \in T : \A y \in T : y <= x
<1> DEFINE U == {n \in Nat : \E m \in T : n = to - m}
<1>1. U \subseteq Nat /\ U # {}
  <2>1. PICK m \in T : TRUE
    OBVIOUS
  <2>2. to - m \in U
    BY <2>1
  <2> QED
    BY <2>2
<1>2. PICK u \in U : \A v \in U : u <= v
  <2> HIDE DEF U
  <2> QED
    BY <1>1, NatLeast
<1>3. PICK x \in T : u = to - x
  OBVIOUS
<1>4. ASSUME NEW y \in T PROVE y <= x
  <2>1. to - y \in U
    OBVIOUS
  <2>2. u <= to - y
    BY <1>2, <2>1
  <2> QED
    BY <1>3, <2>2
<1> QED
  BY <1>4

\* A set that holds 0 and the successor of each of its numbers holds them all.
LEMMA Inductive ==
  ASSUME NEW T, T \subseteq Nat, 0 \in T, \A n \in T : n + 1 \in T
  PROVE  T = Nat
<1> SUFFICES ASSUME Nat \ T # {} PROVE FALSE
  OBVIOUS
<1>1. PICK x \in Nat \ T : \A y \in Nat \ T : x <= y
  <2> DEFINE U == Nat \ T
  <2>1. U \subseteq Nat /\ U # {}
    OBVIOUS
  <2> HIDE DEF U
  <2>2. \E x \in U : \A y \in U : x <= y
    BY <2>1, NatLeast
  <2> QED
    BY <2>2 DEF U
<1>2. x - 1 \in Nat /\ x - 1 \notin Nat \ T
  BY <1>1
<1>3. (x - 1) + 1 \in T
  BY <1>2
<1> QED
  BY <1>3

\* f is the recursion by F over the numbers up to n.
Solves(f, n, S, a, F) ==
  f \in [0 .. n -> S] /\ f[0] = a /\ \A k \in 1 .. n : f[k] = F[f[k - 1]]

LEMMA Recursion ==
  ASSUME NEW S, NEW a \in S, NEW F \in [S -> S], NEW m \in Nat
  PROVE  \E f : Solves(f, m, S, a, F)
<1> DEFINE T == {n \in Nat : \E f : Solves(f, n, S, a, F)}
<1>1. 0 \in T
  <2> DEFINE f == [k \in 0 .. 0 |-> a]
  <2>1. Solves(f, 0, S, a, F)
    BY DEF Solves
  <2> QED
    BY <2>1
<1>2. ASSUME NEW n \in T PROVE n + 1 \in T
  <2>1. PICK f : Solves(f, n, S, a, F)
    OBVIOUS
  <2>2. f \in [0 .. n -> S] /\ f[0] = a /\ \A k \in 1 .. n : f[k] = F[f[k - 1]]
    BY <2>1 DEF Solves
  <2> DEFINE g == [k \in 0 .. n + 1 |-> IF k = n + 1 THEN F[f[n]] ELSE f[k]]
  <2>3. g \in [0 .. n + 1 -> S]
    BY <2>2
  <2>4. \A k \in 0 .. n : g[k] = f[k]
    OBVIOUS
  <2>5. g[n + 1] = F[g[n]]
    BY <2>4
  <2>6. \A k \in 1 .. n + 1 : g[k] = F[g[k - 1]]
    <3> TAKE k \in 1 .. n + 1
    <3>1. CASE k = n + 1
      BY <2>5, <3>1
    <3>2. CASE k # n + 1
      <4>1. k \in 1 .. n /\ k - 1 \in 0 .. n
        BY <3>2
      <4>2. f[k] = F[f[k - 1]]
        BY <2>2, <4>1
      <4> QED
        BY <2>4, <4>1, <4>2
    <3> QED
      BY <3>1, <3>2
  <2>7. Solves(g, n + 1, S, a, F)
    <3>1. g[0] = a
      BY <2>2, <2>4
    <3> HIDE DEF g
    <3> QED
      BY <2>3, <2>6, <3>1 DEF Solves
  <2> QED
    BY <2>7
<1>3. T \subseteq Nat
  OBVIOUS
<1>4. T = Nat
  <2> HIDE DEF T
  <2> QED
    BY <1>1, <1>2, <1>3, Inductive
<1> QED
  BY <1>4

-----------------------------------------------------------------------------
(* Ranks *)

\* In a finite set that is ordered strictly and totally, every rank is
\* that of one element and of no other.
Orders(S, R) ==
  /\ \A a, b, c \in S : <<a, b>> \in R /\ <<b, c>> \in R => <<a, c>> \in R
  /\ \A a \in S : <<a, a>> \notin R
  /\ \A a, b \in S : a # b => <<a, b>> \in R \/ <<b, a>> \in R

Preceding(S, R, p) == {q \in S : <<q, p>> \in R}

LEMMA RankGrows ==
  ASSUME NEW S, IsFiniteSet(S), NEW R, Orders(S, R), NEW p \in S, NEW q \in S, <<p, q>> \in R
  PROVE  /\ Cardinality(Preceding(S, R, p)) \in Nat
         /\ Cardinality(Preceding(S, R, q)) \in Nat
         /\ Cardinality(Preceding(S, R, p)) < Cardinality(Preceding(S, R, q))
<1>1. Preceding(S, R, q) \subseteq S /\ Preceding(S, R, p) \subseteq S
  BY DEF Preceding
<1>2. IsFiniteSet(Preceding(S, R, q)) /\ IsFiniteSet(Preceding(S, R, p))
  BY <1>1, FS_Subset
<1>3. Preceding(S, R, p) \subseteq Preceding(S, R, q)
  BY DEF Preceding, Orders
<1>4. p \in Preceding(S, R, q) /\ p \notin Preceding(S, R, p)
  BY DEF Preceding, Orders
<1>5. Preceding(S, R, p) # Preceding(S, R, q)
  BY <1>4
<1> QED
  BY <1>2, <1>3, <1>5, FS_Subset, FS_CardinalityType

LEMMA RankBelow ==
  ASSUME NEW S, IsFiniteSet(S), NEW R, Orders(S, R), NEW p \in S
  PROVE  /\ Cardinality(S) \in Nat
         /\ Cardinality(Preceding(S, R, p)) \in 0 .. Cardinality(S) - 1
<1>1. Preceding(S, R, p) \subseteq S /\ p \notin Preceding(S, R, p)
  BY DEF Preceding, Orders
<1>2. Preceding(S, R, p) # S
  BY <1>1
<1>3. IsFiniteSet(Preceding(S, R, p)) /\ Cardinality(Preceding(S, R, p)) < Cardinality(S)
  <2>1. IsFiniteSet(Preceding(S, R, p)) /\ Cardinality(Preceding(S, R, p)) <= Cardinality(S)
    BY <1>1, FS_Subset
  <2>2. Cardinality(Preceding(S, R, p)) # Cardinality(S)
    BY <1>1, <1>2, FS_Subset
  <2> QED
    BY <2>1, <2>2, FS_CardinalityType
<1> QED
  BY <1>3, FS_CardinalityType

LEMMA RanksDiffer ==
  ASSUME NEW S, IsFiniteSet(S), NEW R, Orders(S, R), NEW p \in S, NEW q \in S,
         Cardinality(Preceding(S, R, p)) = Cardinality(Preceding(S, R, q))
  PROVE  p = q
<1> SUFFICES ASSUME p # q PROVE FALSE
  OBVIOUS
<1>1. <<p, q>> \in R \/ <<q, p>> \in R
  BY DEF Orders
<1>2. CASE <<p, q>> \in R
  BY <1>2, RankGrows
<1>3. CASE <<q, p>> \in R
  BY <1>3, RankGrows
<1> QED
  BY <1>1, <1>2, <1>3

LEMMA Ranks ==
  ASSUME NEW S, IsFiniteSet(S), NEW R, Orders(S, R), NEW i \in 1 .. Cardinality(S)
  PROVE  \E p \in S : Cardinality(Preceding(S, R, p)) = i - 1
<1> DEFINE n == Cardinality(S)
           T == 0 .. n - 1
           f == [p \in S |-> Cardinality(Preceding(S, R, p))]
<1>1. n \in Nat
  BY FS_CardinalityType
<1>2. IsFiniteSet(T) /\ Cardinality(T) = n
  <2>1. IsFiniteSet(T) /\ Cardinality(T) = IF 0 > n - 1 THEN 0 ELSE (n - 1) - 0 + 1
    <3>1. 0 \in Int /\ n - 1 \in Int
      BY <1>1
    <3> HIDE DEF n
    <3> QED
      BY <3>1, FS_Interval
  <2> QED
    BY <1>1, <2>1
<1>3. f \in [S -> T]
  BY RankBelow
<1>4. f \in Injection(S, T)
  <2>1. ASSUME NEW a \in S, NEW b \in S, f[a] = f[b] PROVE a = b
    BY <2>1, RanksDiffer
  <2> HIDE DEF f
  <2> QED
    BY <1>3, <2>1 DEF Injection, IsInjective
<1>5. f \in Surjection(S, T)
  BY <1>2, <1>4, FS_Injection
<1>6. i - 1 \in T
  BY <1>1
<1>7. \E p \in S : f[p] = i - 1
  BY <1>5, <1>6 DEF Surjection
<1> QED
  BY <1>7

-----------------------------------------------------------------------------
(* Paths *)

IsList(list) ==
  /\ \E S : list \in Seq(S)
  /\ \A i \in DOMAIN list : list[i].number \in Nat

LEMMA ListIs ==
  ASSUME NEW list, IsList(list)
  PROVE  Len(list) \in Nat /\ DOMAIN list = 1 .. Len(list)
BY DEF IsList

\* The candidates of a list that give a number a name.
Namers(list, number) ==
  {i \in DOMAIN list : list[i].number = number /\ list[i].name # Quick!None}

LEMMA NamerIs ==
  ASSUME NEW list, IsList(list), NEW number
  PROVE  /\ Quick!Namer(list, number) = 0 <=> Namers(list, number) = {}
         /\ Quick!Namer(list, number) # 0 =>
              /\ Quick!Namer(list, number) \in Namers(list, number)
              /\ \A i \in Namers(list, number) : i <= Quick!Namer(list, number)
<1> DEFINE of == Namers(list, number)
<1>1. of \subseteq 1 .. Len(list) /\ Len(list) \in Nat
  BY ListIs DEF Namers
<1>2. Quick!Namer(list, number) = IF of = {} THEN 0 ELSE CHOOSE i \in of : \A k \in of : k <= i
  BY DEF Quick!Namer, Namers
<1>3. ASSUME of # {} PROVE \E i \in of : \A k \in of : k <= i
  <2>1. of \subseteq 0 .. Len(list)
    BY <1>1
  <2> HIDE DEF of
  <2> QED
    BY <1>1, <1>3, <2>1, NatGreatest
<1> HIDE DEF of
<1>4. CASE of = {}
  BY <1>2, <1>4 DEF of
<1>5. CASE of # {}
  <2> DEFINE n == CHOOSE i \in of : \A k \in of : k <= i
  <2>1. n \in of /\ \A k \in of : k <= n
    BY <1>3, <1>5
  <2>2. Quick!Namer(list, number) = n
    BY <1>2, <1>5
  <2> HIDE DEF n
  <2>3. n # 0
    BY <1>1, <2>1
  <2> QED
    BY <1>5, <2>1, <2>2, <2>3 DEF of
<1> QED
  BY <1>4, <1>5

\* The ways up that a list knows: every number on them has a name.
Ways(list) == {b \in Seq(Nat) : \A j \in 1 .. Len(b) : Quick!Namer(list, b[j]) # 0}

LEMMA HigherIsWay ==
  ASSUME NEW list, IsList(list), NEW p, NEW b \in Ways(list)
  PROVE  Quick!Higher(list, p, b) \in Ways(list)
<1> DEFINE next == IF b = <<>> THEN p ELSE list[Quick!Namer(list, Quick!Last(b))].parent
<1>1. Quick!Higher(list, p, b) =
        IF Quick!Namer(list, next) = 0 \/ Quick!Contains(b, next) THEN b ELSE Append(b, next)
  BY DEF Quick!Higher
<1> HIDE DEF next
<1>2. CASE Quick!Namer(list, next) # 0
  <2>1. next \in Nat
    <3>1. Quick!Namer(list, next) \in Namers(list, next)
      BY <1>2, NamerIs
    <3> QED
      BY <3>1 DEF Namers, IsList
  <2>2. b \in Seq(Nat) /\ \A j \in 1 .. Len(b) : Quick!Namer(list, b[j]) # 0
    BY DEF Ways
  <2>3. Append(b, next) \in Seq(Nat) /\ Len(Append(b, next)) = Len(b) + 1
        /\ \A j \in 1 .. Len(b) + 1 : Append(b, next)[j] = IF j = Len(b) + 1 THEN next ELSE b[j]
    BY <2>1, <2>2
  <2>4. \A j \in 1 .. Len(b) + 1 : Quick!Namer(list, Append(b, next)[j]) # 0
    BY <1>2, <2>2, <2>3
  <2>5. Append(b, next) \in Ways(list)
    BY <2>3, <2>4 DEF Ways
  <2> QED
    BY <1>1, <2>5
<1>3. CASE Quick!Namer(list, next) = 0
  BY <1>1, <1>3
<1> QED
  BY <1>2, <1>3

LEMMA WayIs ==
  ASSUME Quick!QuickScanAssumption, NEW list, IsList(list), NEW p
  PROVE  /\ MaxSegments - 1 \in Nat
         /\ Quick!WayUp(list, p)[0] = <<>>
         /\ \A k \in 1 .. MaxSegments - 1 :
              Quick!WayUp(list, p)[k] = Quick!Higher(list, p, Quick!WayUp(list, p)[k - 1])
         /\ \A k \in 0 .. MaxSegments - 1 : Quick!WayUp(list, p)[k] \in Ways(list)
<1> DEFINE n == MaxSegments - 1
           S == Ways(list)
           F == [b \in S |-> Quick!Higher(list, p, b)]
           Solved(f) == f = [k \in 0 .. n |-> IF k = 0 THEN <<>> ELSE Quick!Higher(list, p, f[k - 1])]
           way == Quick!WayUp(list, p)
<1>1. n \in Nat
  BY DEF Quick!QuickScanAssumption
<1>2. <<>> \in S
  BY DEF Ways
<1>3. F \in [S -> S]
  BY HigherIsWay
<1>4. way = CHOOSE f : Solved(f)
  BY DEF Quick!WayUp
<1> HIDE DEF way, n
<1>5. PICK f : f \in [0 .. n -> S] /\ f[0] = <<>> /\ \A k \in 1 .. n : f[k] = F[f[k - 1]]
  <2> HIDE DEF S, F
  <2>1. \E f : Solves(f, n, S, <<>>, F)
    BY <1>1, <1>2, <1>3, Recursion, Zenon
  <2> QED
    BY <2>1 DEF Solves
<1>6. \A k \in 1 .. n : f[k] = Quick!Higher(list, p, f[k - 1])
  <2> TAKE k \in 1 .. n
  <2>1. k - 1 \in 0 .. n
    BY <1>1
  <2>2. f[k - 1] \in S
    <3> HIDE DEF S, F
    <3> QED
      BY <1>5, <2>1
  <2>3. F[f[k - 1]] = Quick!Higher(list, p, f[k - 1])
    <3> HIDE DEF S
    <3> QED
      BY <2>2
  <2> QED
    BY <1>5, <2>3
<1>7. Solved(f)
  <2> HIDE DEF S, F
  <2>1. \A k \in 0 .. n : f[k] = IF k = 0 THEN <<>> ELSE Quick!Higher(list, p, f[k - 1])
    BY <1>1, <1>5, <1>6
  <2> QED
    BY <1>5, <2>1
<1>8. Solved(way)
  <2> HIDE DEF Solved
  <2> QED
    BY <1>4, <1>7
<1>9. way[0] = <<>> /\ \A k \in 1 .. n : way[k] = Quick!Higher(list, p, way[k - 1])
  <2>1. \A k \in 0 .. n : way[k] = IF k = 0 THEN <<>> ELSE Quick!Higher(list, p, way[k - 1])
    BY <1>8
  <2> HIDE DEF Solved, S, F
  <2> QED
    BY <1>1, <2>1
<1>10. \A k \in 0 .. n : way[k] \in S
  <2> DEFINE T == {k \in Nat : k <= n => way[k] \in S}
  <2> HIDE DEF Solved, F, S
  <2>1. T \subseteq Nat /\ 0 \in T
    BY <1>2, <1>9
  <2>2. ASSUME NEW k \in T PROVE k + 1 \in T
    <3> SUFFICES ASSUME k + 1 <= n PROVE way[k + 1] \in S
      OBVIOUS
    <3>1. way[k] \in S /\ k + 1 \in 1 .. n /\ (k + 1) - 1 = k
      BY <1>1
    <3>2. way[k + 1] = Quick!Higher(list, p, way[k])
      BY <1>9, <3>1
    <3> QED
      BY <3>1, <3>2, HigherIsWay DEF S
  <2>3. T = Nat
    <3> HIDE DEF T
    <3> QED
      BY <2>1, <2>2, Inductive
  <2> QED
    BY <2>3
<1> QED
  BY <1>1, <1>9, <1>10 DEF way, n

\* Two lists say the same of every number.
Agree(one, two) ==
  \A number :
    /\ Quick!Namer(one, number) = 0 <=> Quick!Namer(two, number) = 0
    /\ Quick!Namer(one, number) # 0 =>
         /\ one[Quick!Namer(one, number)].name = two[Quick!Namer(two, number)].name
         /\ one[Quick!Namer(one, number)].parent = two[Quick!Namer(two, number)].parent

LEMMA LastIs ==
  ASSUME NEW b \in Seq(Nat), b # <<>>
  PROVE  Len(b) \in 1 .. Len(b) /\ Quick!Last(b) = b[Len(b)]
BY DEF Quick!Last

LEMMA SameHigher ==
  ASSUME NEW one, NEW two, Agree(one, two), NEW p, NEW b \in Ways(one)
  PROVE  Quick!Higher(one, p, b) = Quick!Higher(two, p, b)
<1> DEFINE next(list) == IF b = <<>> THEN p ELSE list[Quick!Namer(list, Quick!Last(b))].parent
<1>1. next(one) = next(two)
  <2>1. CASE b # <<>>
    <3>1. Quick!Namer(one, Quick!Last(b)) # 0
      BY <2>1, LastIs DEF Ways
    <3> QED
      BY <3>1 DEF Agree
  <2> QED
    BY <2>1
<1>2. \A list : Quick!Higher(list, p, b) =
        IF Quick!Namer(list, next(list)) = 0 \/ Quick!Contains(b, next(list)) THEN b ELSE Append(b, next(list))
  BY DEF Quick!Higher
<1> HIDE DEF next
<1>3. Quick!Namer(one, next(one)) = 0 <=> Quick!Namer(two, next(one)) = 0
  BY DEF Agree
<1> QED
  BY <1>1, <1>2, <1>3

LEMMA SameWays ==
  ASSUME Quick!QuickScanAssumption, NEW one, IsList(one), NEW two, IsList(two), Agree(one, two), NEW p
  PROVE  \A k \in 0 .. MaxSegments - 1 : Quick!WayUp(one, p)[k] = Quick!WayUp(two, p)[k]
<1> DEFINE a == Quick!WayUp(one, p)
           b == Quick!WayUp(two, p)
           n == MaxSegments - 1
           T == {k \in Nat : k <= n => a[k] = b[k]}
<1>1. /\ n \in Nat /\ a[0] = <<>> /\ b[0] = <<>>
      /\ \A k \in 1 .. n : a[k] = Quick!Higher(one, p, a[k - 1])
      /\ \A k \in 1 .. n : b[k] = Quick!Higher(two, p, b[k - 1])
      /\ \A k \in 0 .. n : a[k] \in Ways(one)
  BY WayIs
<1> HIDE DEF a, b, n
<1>2. T \subseteq Nat /\ 0 \in T
  BY <1>1
<1>3. ASSUME NEW k \in T PROVE k + 1 \in T
  <2> SUFFICES ASSUME k + 1 <= n PROVE a[k + 1] = b[k + 1]
    OBVIOUS
  <2>1. k + 1 \in 1 .. n /\ (k + 1) - 1 = k /\ k \in 0 .. n /\ a[k] = b[k]
    BY <1>1
  <2>2. a[k + 1] = Quick!Higher(one, p, a[k]) /\ b[k + 1] = Quick!Higher(two, p, b[k])
    BY <1>1, <2>1
  <2>3. Quick!Higher(one, p, a[k]) = Quick!Higher(two, p, a[k])
    BY <1>1, <2>1, SameHigher
  <2> QED
    BY <2>1, <2>2, <2>3
<1>4. T = Nat
  <2> HIDE DEF T
  <2> QED
    BY <1>2, <1>3, Inductive
<1> QED
  BY <1>4 DEF a, b, n

LEMMA AncestorsAre ==
  ASSUME Quick!QuickScanAssumption, NEW list, IsList(list), NEW p
  PROVE  /\ Quick!Ancestors(list, p) \in Ways(list) /\ Quick!Ancestors(list, p) \in Seq(Nat)
         /\ Len(Quick!Ancestors(list, p)) \in Nat
<1>1. Quick!Ancestors(list, p) \in Ways(list)
  BY WayIs DEF Quick!Ancestors
<1> QED
  BY <1>1 DEF Ways

\* The names along a way, from the top.
NamesAlong(list, w) == [k \in 1 .. Len(w) |-> list[Quick!Namer(list, w[(Len(w) - k) + 1])].name]

LEMMA PathIs ==
  ASSUME Quick!QuickScanAssumption, NEW list, IsList(list), NEW c
  PROVE  Quick!PathOf(list, c) = Append(NamesAlong(list, Quick!Ancestors(list, c.parent)), c.name)
<1> DEFINE w == Quick!Ancestors(list, c.parent)
           above == Quick!Reverse(w)
<1>1. w \in Seq(Nat) /\ Len(w) \in Nat
  BY AncestorsAre
<1>2. Quick!PathOf(list, c) = Append([k \in DOMAIN above |-> list[Quick!Namer(list, above[k])].name], c.name)
  BY DEF Quick!PathOf
<1>3. above = [i \in 1 .. Len(w) |-> w[(Len(w) - i) + 1]]
  BY DEF Quick!Reverse
<1> HIDE DEF w, above
<1>4. DOMAIN above = 1 .. Len(w) /\ \A k \in 1 .. Len(w) : above[k] = w[(Len(w) - k) + 1]
  BY <1>3
<1>5. [k \in DOMAIN above |-> list[Quick!Namer(list, above[k])].name] = NamesAlong(list, w)
  BY <1>4 DEF NamesAlong
<1> QED
  BY <1>2, <1>5 DEF w

LEMMA NamesAre ==
  ASSUME NEW list, NEW w, Len(w) \in Nat
  PROVE  /\ \E S : NamesAlong(list, w) \in Seq(S)
         /\ Len(NamesAlong(list, w)) = Len(w) /\ DOMAIN NamesAlong(list, w) = 1 .. Len(w)
<1> DEFINE n == Len(w)
           e(k) == list[Quick!Namer(list, w[(n - k) + 1])].name
           S == {e(k) : k \in 1 .. n}
<1>1. NamesAlong(list, w) = [k \in 1 .. n |-> e(k)]
  BY DEF NamesAlong
<1>2. \A k \in 1 .. n : e(k) \in S
  OBVIOUS
<1> HIDE DEF e, S, n
<1>3. n \in Nat
  BY DEF n
<1>4. NamesAlong(list, w) \in [1 .. n -> S]
  BY <1>1, <1>2
<1>5. NamesAlong(list, w) \in Seq(S) /\ Len(NamesAlong(list, w)) = n
  BY <1>1, <1>3, <1>4
<1> QED
  BY <1>1, <1>5 DEF n

\* A path is as long as the way up and one, and never empty.
LEMMA PathLength ==
  ASSUME Quick!QuickScanAssumption, NEW list, IsList(list), NEW c
  PROVE  /\ Len(Quick!PathOf(list, c)) = Len(Quick!Ancestors(list, c.parent)) + 1
         /\ Quick!PathOf(list, c) # <<>>
<1> DEFINE w == Quick!Ancestors(list, c.parent)
           s == NamesAlong(list, w)
<1>1. Len(w) \in Nat
  BY AncestorsAre
<1>2. Quick!PathOf(list, c) = Append(s, c.name)
  BY PathIs
<1>3. Len(s) = Len(w) /\ \E S : s \in Seq(S)
  BY <1>1, NamesAre
<1> HIDE DEF w, s
<1>4. PICK S : s \in Seq(S)
  BY <1>3
<1>5. s \in Seq(S \cup {c.name})
  BY <1>4
<1>6. Append(s, c.name) \in Seq(S \cup {c.name}) /\ Len(Append(s, c.name)) = Len(s) + 1
  BY <1>5
<1>7. Len(Quick!PathOf(list, c)) = Len(w) + 1
  BY <1>2, <1>3, <1>6
<1>8. Quick!PathOf(list, c) # <<>>
  BY <1>1, <1>7
<1> QED
  BY <1>7, <1>8 DEF w

\* Lists that agree give a candidate the same path.
LEMMA SamePaths ==
  ASSUME Quick!QuickScanAssumption, NEW one, IsList(one), NEW two, IsList(two), Agree(one, two), NEW c
  PROVE  Quick!PathOf(one, c) = Quick!PathOf(two, c)
<1> DEFINE w == Quick!Ancestors(one, c.parent)
<1>1. w = Quick!Ancestors(two, c.parent)
  <2>1. MaxSegments - 1 \in 0 .. MaxSegments - 1
    BY WayIs
  <2> QED
    BY <2>1, SameWays DEF Quick!Ancestors
<1>2. w \in Ways(one) /\ Len(w) \in Nat
  BY AncestorsAre
<1>3. Quick!PathOf(one, c) = Append(NamesAlong(one, w), c.name)
      /\ Quick!PathOf(two, c) = Append(NamesAlong(two, w), c.name)
  BY <1>1, PathIs
<1> HIDE DEF w
<1>4. NamesAlong(one, w) = NamesAlong(two, w)
  <2>1. \A k \in 1 .. Len(w) : Quick!Namer(one, w[(Len(w) - k) + 1]) # 0
    <3> TAKE k \in 1 .. Len(w)
    <3>1. (Len(w) - k) + 1 \in 1 .. Len(w)
      BY <1>2
    <3> QED
      BY <1>2, <3>1 DEF Ways
  <2>2. \A k \in 1 .. Len(w) :
          one[Quick!Namer(one, w[(Len(w) - k) + 1])].name = two[Quick!Namer(two, w[(Len(w) - k) + 1])].name
    BY <2>1, Zenon DEF Agree
  <2> QED
    BY <2>2, Zenon DEF NamesAlong
<1> QED
  BY <1>3, <1>4

\* A way with a number below it.
Behind(p, b) == [j \in 1 .. Len(b) + 1 |-> IF j = 1 THEN p ELSE b[j - 1]]

LEMMA BehindIs ==
  ASSUME NEW p \in Nat, NEW b \in Seq(Nat)
  PROVE  /\ Behind(p, b) \in Seq(Nat) /\ Len(Behind(p, b)) = Len(b) + 1 /\ Behind(p, b) # <<>>
         /\ Quick!Last(Behind(p, b)) = IF b = <<>> THEN p ELSE Quick!Last(b)
         /\ \A x : Quick!Contains(Behind(p, b), x) <=> (x = p \/ Quick!Contains(b, x))
         /\ \A x \in Nat : Append(Behind(p, b), x) = Behind(p, Append(b, x))
<1> DEFINE w == Behind(p, b)
<1>1. w \in [1 .. Len(b) + 1 -> Nat] /\ Len(b) \in Nat
  BY DEF Behind
<1>2. w \in Seq(Nat) /\ Len(w) = Len(b) + 1
  BY <1>1
<1>3. \A j \in 1 .. Len(b) + 1 : w[j] = IF j = 1 THEN p ELSE b[j - 1]
  BY DEF Behind
<1> HIDE DEF w
<1>4. w # <<>>
  BY <1>1, <1>2
<1>5. Quick!Last(w) = IF b = <<>> THEN p ELSE Quick!Last(b)
  <2>1. Quick!Last(w) = w[Len(b) + 1]
    BY <1>2 DEF Quick!Last
  <2>2. CASE b = <<>>
    BY <1>3, <2>1, <2>2
  <2>3. CASE b # <<>>
    <3>1. Len(b) >= 1
      BY <2>3
    <3>2. w[Len(b) + 1] = b[Len(b)]
      BY <1>1, <1>3, <3>1
    <3> QED
      BY <2>1, <2>3, <3>2 DEF Quick!Last
  <2> QED
    BY <2>2, <2>3
<1>6. ASSUME NEW x PROVE Quick!Contains(w, x) <=> (x = p \/ Quick!Contains(b, x))
  <2>1. ASSUME Quick!Contains(w, x) PROVE x = p \/ Quick!Contains(b, x)
    <3>1. PICK i \in 1 .. Len(w) : w[i] = x
      BY <2>1 DEF Quick!Contains
    <3>2. CASE i = 1
      BY <1>1, <1>2, <1>3, <3>1, <3>2
    <3>3. CASE i # 1
      <4>1. i - 1 \in 1 .. Len(b)
        BY <1>1, <1>2, <3>3
      <4>2. b[i - 1] = x
        BY <1>1, <1>2, <1>3, <3>1, <3>3
      <4> QED
        BY <4>1, <4>2 DEF Quick!Contains
    <3> QED
      BY <3>2, <3>3
  <2>2. ASSUME x = p PROVE Quick!Contains(w, x)
    <3>1. 1 \in 1 .. Len(w) /\ w[1] = x
      BY <1>1, <1>2, <1>3, <2>2
    <3> QED
      BY <3>1 DEF Quick!Contains
  <2>3. ASSUME Quick!Contains(b, x) PROVE Quick!Contains(w, x)
    <3>1. PICK i \in 1 .. Len(b) : b[i] = x
      BY <2>3 DEF Quick!Contains
    <3>2. i + 1 \in 1 .. Len(w) /\ w[i + 1] = x
      BY <1>1, <1>2, <1>3, <3>1
    <3> QED
      BY <3>2 DEF Quick!Contains
  <2> QED
    BY <2>1, <2>2, <2>3
<1>7. ASSUME NEW x \in Nat PROVE Append(w, x) = Behind(p, Append(b, x))
  <2>1. Append(b, x) \in Seq(Nat) /\ Len(Append(b, x)) = Len(b) + 1
        /\ \A j \in 1 .. Len(b) + 1 : Append(b, x)[j] = IF j = Len(b) + 1 THEN x ELSE b[j]
    OBVIOUS
  <2>2. Append(w, x) \in Seq(Nat) /\ Len(Append(w, x)) = Len(w) + 1
        /\ \A j \in 1 .. Len(w) + 1 : Append(w, x)[j] = IF j = Len(w) + 1 THEN x ELSE w[j]
    BY <1>2
  <2> DEFINE one == Append(w, x)
             more == Append(b, x)
             two == Behind(p, more)
  <2>3. DOMAIN two = 1 .. Len(b) + 2 /\ \A j \in 1 .. Len(b) + 2 : two[j] = IF j = 1 THEN p ELSE more[j - 1]
    <3>1. two = [j \in 1 .. Len(b) + 2 |-> IF j = 1 THEN p ELSE more[j - 1]]
      BY <1>1, <2>1 DEF Behind
    <3> HIDE DEF two
    <3> QED
      BY <3>1
  <2>4. one \in [1 .. Len(b) + 2 -> Nat] /\ \A j \in 1 .. Len(b) + 2 : one[j] = IF j = Len(b) + 2 THEN x ELSE w[j]
    <3>1. Len(w) + 1 = Len(b) + 2
      BY <1>1, <1>2
    <3> HIDE DEF one
    <3>2. one \in Seq(Nat) /\ Len(one) = Len(b) + 2
          /\ \A j \in 1 .. Len(b) + 2 : one[j] = IF j = Len(b) + 2 THEN x ELSE w[j]
      BY <2>2, <3>1 DEF one
    <3>3. one \in [1 .. Len(one) -> Nat]
      BY <3>2
    <3> QED
      BY <3>2, <3>3
  <2>5. Len(b) \in Nat /\ \A j \in 1 .. Len(b) + 1 : more[j] = IF j = Len(b) + 1 THEN x ELSE b[j]
    BY <1>1, <2>1
  <2>6. two = [j \in 1 .. Len(b) + 2 |-> two[j]]
    BY <2>3 DEF Behind
  <2> HIDE DEF one, more, two
  <2>7. ASSUME NEW j \in 1 .. Len(b) + 2 PROVE one[j] = two[j]
    <3>1. CASE j = 1
      <4>1. two[1] = p /\ w[1] = p /\ one[1] = w[1]
        BY <1>1, <1>3, <2>3, <2>4, <2>5, <3>1
      <4> QED
        BY <3>1, <4>1
    <3>2. CASE j # 1
      <4>1. j - 1 \in 1 .. Len(b) + 1 /\ (j = Len(b) + 2 <=> j - 1 = Len(b) + 1)
        BY <1>1, <3>2
      <4>2. two[j] = IF j = Len(b) + 2 THEN x ELSE b[j - 1]
        BY <2>3, <2>5, <3>2, <4>1
      <4>3. j # Len(b) + 2 => w[j] = b[j - 1]
        BY <1>1, <1>3, <3>2
      <4> QED
        BY <2>4, <4>2, <4>3
    <3> QED
      BY <3>1, <3>2
  <2>8. one = two
    BY <2>3, <2>4, <2>6, <2>7
  <2> QED
    BY <2>8 DEF one, two, more
<1> QED
  BY <1>2, <1>4, <1>5, <1>6, <1>7 DEF w

\* A step up either adds a number or ends the way.
LEMMA HigherAdds ==
  ASSUME NEW list, IsList(list), NEW p, NEW b \in Ways(list)
  PROVE  \/ Quick!Higher(list, p, b) = b
         \/ Len(Quick!Higher(list, p, b)) = Len(b) + 1
            /\ \A x : Quick!Contains(b, x) => Quick!Contains(Quick!Higher(list, p, b), x)
<1> DEFINE next == IF b = <<>> THEN p ELSE list[Quick!Namer(list, Quick!Last(b))].parent
<1>1. Quick!Higher(list, p, b) = b \/ Quick!Higher(list, p, b) = Append(b, next)
  BY DEF Quick!Higher
<1> HIDE DEF next
<1>2. CASE Quick!Higher(list, p, b) = Append(b, next) /\ Quick!Higher(list, p, b) # b
  <2>1. b \in Seq(Nat)
    BY DEF Ways
  <2>2. b \in Seq(Nat \cup {next})
    BY <2>1
  <2>3. Len(Append(b, next)) = Len(b) + 1 /\ \A j \in 1 .. Len(b) : Append(b, next)[j] = b[j]
    BY <2>2
  <2>4. 1 .. Len(b) \subseteq 1 .. Len(Append(b, next))
    BY <2>1, <2>3
  <2>5. \A x : Quick!Contains(b, x) => Quick!Contains(Append(b, next), x)
    BY <2>3, <2>4, Zenon DEF Quick!Contains
  <2> QED
    BY <1>2, <2>3, <2>5
<1> QED
  BY <1>1, <1>2

\* A way that stops before it must has no further step, and ways only grow.
LEMMA WaysGrow ==
  ASSUME Quick!QuickScanAssumption, NEW list, IsList(list), NEW p
  PROVE  \A k \in 0 .. MaxSegments - 1 :
           /\ Len(Quick!WayUp(list, p)[k]) <= k
           /\ Len(Quick!WayUp(list, p)[k]) < k =>
                Quick!Higher(list, p, Quick!WayUp(list, p)[k]) = Quick!WayUp(list, p)[k]
           /\ \A j \in 0 .. k : \A x :
                Quick!Contains(Quick!WayUp(list, p)[j], x) => Quick!Contains(Quick!WayUp(list, p)[k], x)
<1> DEFINE n == MaxSegments - 1
           way == Quick!WayUp(list, p)
           T == {k \in Nat : k <= n =>
                   /\ Len(way[k]) <= k
                   /\ Len(way[k]) < k => Quick!Higher(list, p, way[k]) = way[k]
                   /\ \A j \in 0 .. k : \A x : Quick!Contains(way[j], x) => Quick!Contains(way[k], x)}
<1>1. /\ n \in Nat /\ way[0] = <<>>
      /\ \A k \in 1 .. n : way[k] = Quick!Higher(list, p, way[k - 1])
      /\ \A k \in 0 .. n : way[k] \in Ways(list)
  BY WayIs
<1> HIDE DEF way, n
<1>2. T \subseteq Nat /\ 0 \in T
  <2>1. Len(way[0]) = 0
    BY <1>1
  <2>2. \A j \in 0 .. 0 : j = 0
    OBVIOUS
  <2>3. \A j \in 0 .. 0 : \A x : Quick!Contains(way[j], x) => Quick!Contains(way[0], x)
    BY <2>2, Zenon
  <2> QED
    BY <2>1, <2>3
<1>3. ASSUME NEW k \in T PROVE k + 1 \in T
  <2> SUFFICES ASSUME k + 1 <= n
        PROVE  /\ Len(way[k + 1]) <= k + 1
               /\ Len(way[k + 1]) < k + 1 => Quick!Higher(list, p, way[k + 1]) = way[k + 1]
               /\ \A j \in 0 .. k + 1 : \A x : Quick!Contains(way[j], x) => Quick!Contains(way[k + 1], x)
    OBVIOUS
  <2>0. k \in Nat /\ k <= n
    BY <1>1
  <2>1. k + 1 \in 1 .. n /\ (k + 1) - 1 = k /\ k \in 0 .. n
    BY <1>1, <2>0
  <2>2. /\ Len(way[k]) <= k
        /\ Len(way[k]) < k => Quick!Higher(list, p, way[k]) = way[k]
        /\ \A j \in 0 .. k : \A x : Quick!Contains(way[j], x) => Quick!Contains(way[k], x)
    BY <2>0
  <2>3. way[k] \in Ways(list) /\ way[k + 1] = Quick!Higher(list, p, way[k])
    BY <1>1, <2>1
  <2>4. Len(way[k]) \in Nat
    BY <2>3 DEF Ways
  <2>5. \/ way[k + 1] = way[k]
        \/ Len(way[k + 1]) = Len(way[k]) + 1
           /\ \A x : Quick!Contains(way[k], x) => Quick!Contains(way[k + 1], x)
    BY <2>3, HigherAdds
  <2> HIDE DEF T
  <2>6. Len(way[k + 1]) <= k + 1
    BY <2>0, <2>2, <2>4, <2>5
  <2>7. ASSUME Len(way[k + 1]) < k + 1 PROVE Quick!Higher(list, p, way[k + 1]) = way[k + 1]
    <3>1. CASE way[k + 1] = way[k]
      BY <2>3, <3>1
    <3>2. CASE Len(way[k + 1]) = Len(way[k]) + 1
      <4>1. Len(way[k]) < k
        BY <2>0, <2>4, <2>7, <3>2
      <4>2. way[k + 1] = way[k]
        BY <2>2, <2>3, <4>1
      <4> QED
        BY <2>3, <4>2
    <3> QED
      BY <2>5, <3>1, <3>2
  <2>8. ASSUME NEW j \in 0 .. k + 1, NEW x, Quick!Contains(way[j], x)
        PROVE  Quick!Contains(way[k + 1], x)
    <3>1. CASE j = k + 1
      BY <2>8, <3>1
    <3>2. CASE j # k + 1
      <4>1. j \in 0 .. k
        BY <2>0, <3>2
      <4>2. Quick!Contains(way[k], x)
        BY <2>2, <2>8, <4>1, Zenon
      <4> QED
        BY <2>5, <4>2
    <3> QED
      BY <3>1, <3>2
  <2> QED
    BY <2>6, <2>7, <2>8
<1>4. T = Nat
  <2> HIDE DEF T
  <2> QED
    BY <1>2, <1>3, Inductive
<1>5. ASSUME NEW k \in 0 .. n
      PROVE  /\ Len(way[k]) <= k
             /\ Len(way[k]) < k => Quick!Higher(list, p, way[k]) = way[k]
             /\ \A j \in 0 .. k : \A x : Quick!Contains(way[j], x) => Quick!Contains(way[k], x)
  <2>1. k \in T /\ k <= n
    <3>1. k \in Nat /\ k <= n
      BY <1>1
    <3> QED
      BY <1>4, <3>1, Zenon
  <2> QED
    BY <2>1
<1> QED
  BY <1>5 DEF way, n

\* One step up from behind a number is one step up from the number.
LEMMA HigherBehind ==
  ASSUME NEW list, IsList(list), NEW p \in Nat, NEW u, u = Quick!Namer(list, p), u # 0,
         NEW b \in Ways(list), ~Quick!Contains(Quick!Higher(list, list[u].parent, b), p)
  PROVE  Quick!Higher(list, p, Behind(p, b)) = Behind(p, Quick!Higher(list, list[u].parent, b))
<1> DEFINE q == list[u].parent
           next == IF b = <<>> THEN q ELSE list[Quick!Namer(list, Quick!Last(b))].parent
           above == IF Behind(p, b) = <<>> THEN p ELSE list[Quick!Namer(list, Quick!Last(Behind(p, b)))].parent
<1>1. b \in Seq(Nat)
  BY DEF Ways
<1>2. /\ Behind(p, b) # <<>>
      /\ Quick!Last(Behind(p, b)) = IF b = <<>> THEN p ELSE Quick!Last(b)
      /\ \A x : Quick!Contains(Behind(p, b), x) <=> (x = p \/ Quick!Contains(b, x))
      /\ \A x \in Nat : Append(Behind(p, b), x) = Behind(p, Append(b, x))
  BY <1>1, BehindIs
<1>3. above = next
  BY <1>2
<1>4. Quick!Higher(list, p, Behind(p, b)) =
        IF Quick!Namer(list, above) = 0 \/ Quick!Contains(Behind(p, b), above)
        THEN Behind(p, b) ELSE Append(Behind(p, b), above)
  BY DEF Quick!Higher
<1>5. Quick!Higher(list, q, b) =
        IF Quick!Namer(list, next) = 0 \/ Quick!Contains(b, next) THEN b ELSE Append(b, next)
  BY DEF Quick!Higher
<1>6. ~Quick!Contains(Quick!Higher(list, q, b), p)
  OBVIOUS
<1> HIDE DEF next, above, q
<1>7. CASE Quick!Namer(list, next) = 0 \/ Quick!Contains(b, next)
  BY <1>2, <1>3, <1>4, <1>5, <1>7 DEF q
<1>8. CASE ~(Quick!Namer(list, next) = 0 \/ Quick!Contains(b, next))
  <2>1. next \in Nat
    <3>1. Quick!Namer(list, next) \in Namers(list, next)
      BY <1>8, NamerIs
    <3> QED
      BY <3>1 DEF Namers, IsList
  <2>2. next # p
    <3> SUFFICES ASSUME next = p PROVE FALSE
      OBVIOUS
    <3>1. Quick!Higher(list, q, b) = Append(b, p)
      BY <1>5, <1>8
    <3>2. Len(b) + 1 \in 1 .. Len(Append(b, p)) /\ Append(b, p)[Len(b) + 1] = p
      BY <1>1
    <3>3. Quick!Contains(Append(b, p), p)
      BY <3>2 DEF Quick!Contains
    <3> QED
      BY <1>6, <3>1, <3>3
  <2>3. Quick!Higher(list, p, Behind(p, b)) = Append(Behind(p, b), next)
    BY <1>2, <1>3, <1>4, <1>8, <2>2
  <2> QED
    BY <1>2, <1>5, <1>8, <2>1, <2>3 DEF q
<1> QED
  BY <1>7, <1>8

\* The way up from a known number is the number and the way up from its parent,
\* when the number is not on that.
LEMMA WayBehind ==
  ASSUME Quick!QuickScanAssumption, NEW list, IsList(list), NEW p \in Nat, NEW u, u = Quick!Namer(list, p), u # 0,
         ~Quick!Contains(Quick!Ancestors(list, list[u].parent), p)
  PROVE  \A k \in 0 .. MaxSegments - 2 :
           Quick!WayUp(list, p)[k + 1] = Behind(p, Quick!WayUp(list, list[u].parent)[k])
<1> DEFINE n == MaxSegments - 1
           q == list[u].parent
           one == Quick!WayUp(list, p)
           two == Quick!WayUp(list, q)
           T == {k \in Nat : k + 1 <= n => one[k + 1] = Behind(p, two[k])}
<1>1. /\ n \in Nat /\ one[0] = <<>> /\ two[0] = <<>>
      /\ \A k \in 1 .. n : one[k] = Quick!Higher(list, p, one[k - 1])
      /\ \A k \in 1 .. n : two[k] = Quick!Higher(list, q, two[k - 1])
      /\ \A k \in 0 .. n : two[k] \in Ways(list)
  BY WayIs
<1>2. \A k \in 0 .. n : ~Quick!Contains(two[k], p)
  <2>1. n \in 0 .. n /\ ~Quick!Contains(two[n], p)
    BY <1>1 DEF Quick!Ancestors
  <2>2. \A j \in 0 .. n : Quick!Contains(two[j], p) => Quick!Contains(two[n], p)
    BY <2>1, WaysGrow
  <2> QED
    BY <2>1, <2>2
<1> HIDE DEF one, two, n
<1>3. T \subseteq Nat /\ 0 \in T
  <2> SUFFICES ASSUME 1 <= n PROVE one[1] = Behind(p, <<>>)
    BY <1>1
  <2>1. one[1] = Quick!Higher(list, p, <<>>)
    <3>1. 1 \in 1 .. n /\ 1 - 1 = 0
      BY <1>1
    <3> QED
      BY <1>1, <3>1
  <2>2. Quick!Higher(list, p, <<>>) = Append(<<>>, p)
    <3>1. ~Quick!Contains(<<>>, p)
      BY DEF Quick!Contains
    <3> QED
      BY <3>1 DEF Quick!Higher
  <2>3. Append(<<>>, p) = Behind(p, <<>>)
    <3>1. Behind(p, <<>>) = [j \in 1 .. 1 |-> p]
      BY DEF Behind
    <3>2. Append(<<>>, p) \in [1 .. 1 -> Nat] /\ Append(<<>>, p)[1] = p
      <4>1. Append(<<>>, p) = <<p>>
        OBVIOUS
      <4>2. <<p>> \in Seq(Nat) /\ Len(<<p>>) = 1 /\ <<p>>[1] = p
        OBVIOUS
      <4>3. <<p>> \in [1 .. Len(<<p>>) -> Nat]
        BY <4>2
      <4> QED
        BY <4>1, <4>2, <4>3
    <3>3. \A j \in 1 .. 1 : j = 1
      OBVIOUS
    <3> QED
      BY <3>1, <3>2, <3>3
  <2> QED
    BY <2>1, <2>2, <2>3
<1>4. ASSUME NEW k \in T PROVE k + 1 \in T
  <2> SUFFICES ASSUME (k + 1) + 1 <= n PROVE one[(k + 1) + 1] = Behind(p, two[k + 1])
    OBVIOUS
  <2>1. /\ k \in Nat /\ (k + 1) + 1 \in 1 .. n /\ ((k + 1) + 1) - 1 = k + 1
        /\ k + 1 \in 1 .. n /\ (k + 1) - 1 = k /\ k \in 0 .. n /\ k + 1 \in 0 .. n /\ k + 1 <= n
    BY <1>1
  <2>2. one[k + 1] = Behind(p, two[k])
    BY <2>1
  <2>3. one[(k + 1) + 1] = Quick!Higher(list, p, Behind(p, two[k]))
    BY <1>1, <2>1, <2>2
  <2>4. two[k + 1] = Quick!Higher(list, q, two[k]) /\ two[k] \in Ways(list)
    BY <1>1, <2>1
  <2>5. ~Quick!Contains(Quick!Higher(list, q, two[k]), p)
    BY <1>2, <2>1, <2>4
  <2> HIDE DEF T
  <2>6. Quick!Higher(list, p, Behind(p, two[k])) = Behind(p, Quick!Higher(list, q, two[k]))
    BY <2>4, <2>5, HigherBehind
  <2> QED
    BY <2>3, <2>4, <2>6
<1>5. T = Nat
  <2> HIDE DEF T
  <2> QED
    BY <1>3, <1>4, Inductive
<1>6. ASSUME NEW k \in 0 .. MaxSegments - 2 PROVE one[k + 1] = Behind(p, two[k])
  <2>1. k \in Nat /\ k + 1 <= n
    BY <1>1 DEF n, Quick!QuickScanAssumption
  <2>2. k \in T
    BY <1>5, <2>1, Zenon
  <2> QED
    BY <2>1, <2>2
<1> QED
  BY <1>6 DEF one, two, q

\* The path below a directory is the path of the directory and the name.
LEMMA PathBelow ==
  ASSUME Quick!QuickScanAssumption, NEW list, IsList(list), NEW c,
         NEW u, u = Quick!Namer(list, c.parent), u # 0,
         ~Quick!Contains(Quick!Ancestors(list, list[u].parent), c.parent),
         Len(Quick!PathOf(list, list[u])) < MaxSegments
  PROVE  Quick!PathOf(list, c) = Append(Quick!PathOf(list, list[u]), c.name)
<1> DEFINE p == c.parent
           q == list[u].parent
           n == MaxSegments - 1
           w == Quick!Ancestors(list, q)
           two == Quick!WayUp(list, q)
<1>1. p \in Nat
  <2>1. u \in Namers(list, p)
    BY NamerIs
  <2> QED
    BY <2>1 DEF Namers, IsList
<1>2. w \in Ways(list) /\ w \in Seq(Nat) /\ Len(w) \in Nat
  BY AncestorsAre
<1>3. Len(w) < n /\ n \in Nat /\ n = MaxSegments - 1 /\ MaxSegments - 2 = n - 1
  <2>1. Len(Quick!PathOf(list, list[u])) = Len(w) + 1
    BY PathLength
  <2> HIDE DEF w
  <2> QED
    BY <1>2, <2>1 DEF Quick!QuickScanAssumption
<1>4. w = two[n]
  BY DEF Quick!Ancestors
<1>5. two[n - 1] = w
  <2> HIDE DEF w, two, n
  <2>1. n \in 1 .. n /\ n - 1 \in 0 .. n /\ n \in 0 .. n
    BY <1>2, <1>3
  <2>2. two[n] = Quick!Higher(list, q, two[n - 1]) /\ two[n - 1] \in Ways(list)
    BY <2>1, WayIs DEF n, two
  <2>3. Len(two[n - 1]) < n - 1 => Quick!Higher(list, q, two[n - 1]) = two[n - 1]
    BY <2>1, WaysGrow DEF n, two
  <2>4. two[n] = two[n - 1] \/ Len(two[n]) = Len(two[n - 1]) + 1
    BY <2>2, HigherAdds
  <2>5. Len(two[n - 1]) \in Nat
    BY <2>2 DEF Ways
  <2>6. CASE Len(two[n]) = Len(two[n - 1]) + 1
    <3>1. Len(two[n - 1]) < n - 1
      BY <1>2, <1>3, <1>4, <2>5, <2>6
    <3> QED
      BY <1>4, <2>2, <2>3, <3>1
  <2> QED
    BY <1>4, <2>4, <2>6
<1>6. Quick!Ancestors(list, p) = Behind(p, w)
  <2>1. n - 1 \in 0 .. MaxSegments - 2 /\ (n - 1) + 1 = n
    <3> HIDE DEF w, two, n
    <3> QED
      BY <1>2, <1>3
  <2>2. Quick!WayUp(list, p)[(n - 1) + 1] = Behind(p, two[n - 1])
    <3> HIDE DEF n
    <3> QED
      BY <1>1, <2>1, WayBehind
  <2>3. Quick!Ancestors(list, p) = Quick!WayUp(list, p)[n]
    BY DEF Quick!Ancestors
  <2> HIDE DEF w, two, n
  <2> QED
    BY <1>5, <2>1, <2>2, <2>3
<1>7. Quick!PathOf(list, list[u]) = Append(NamesAlong(list, w), list[u].name)
  BY PathIs
<1>8. Quick!PathOf(list, c) = Append(NamesAlong(list, Behind(p, w)), c.name)
  BY <1>6, PathIs
<1> HIDE DEF w, two, n
<1>9. NamesAlong(list, Behind(p, w)) = Append(NamesAlong(list, w), list[u].name)
  <2> DEFINE v == Behind(p, w)
             s == NamesAlong(list, w)
             t == NamesAlong(list, v)
             last == list[u].name
  <2>1. Len(v) = Len(w) + 1 /\ \A j \in 1 .. Len(w) + 1 : v[j] = IF j = 1 THEN p ELSE w[j - 1]
    <3>1. Len(v) = Len(w) + 1
      BY <1>1, <1>2, BehindIs
    <3> QED
      BY <3>1 DEF Behind
  <2> HIDE DEF v
  <2>2. t = [k \in 1 .. Len(w) + 1 |-> list[Quick!Namer(list, v[(Len(w) + 1 - k) + 1])].name]
    BY <2>1 DEF NamesAlong
  <2>3. /\ DOMAIN s = 1 .. Len(w) /\ Len(s) = Len(w)
        /\ \A k \in 1 .. Len(w) : s[k] = list[Quick!Namer(list, w[(Len(w) - k) + 1])].name
    <3>1. DOMAIN s = 1 .. Len(w) /\ Len(s) = Len(w)
      BY <1>2, NamesAre
    <3> QED
      BY <3>1 DEF NamesAlong
  <2>4. PICK S : s \in Seq(S)
    <3>1. \E S : s \in Seq(S)
      BY <1>2, NamesAre
    <3> QED
      BY <3>1
  <2> HIDE DEF s
  <2>5. Append(s, last) \in [1 .. Len(w) + 1 -> S \cup {last}]
        /\ \A k \in 1 .. Len(w) + 1 : Append(s, last)[k] = IF k = Len(w) + 1 THEN last ELSE s[k]
    <3> HIDE DEF last
    <3>1. s \in Seq(S \cup {last})
      BY <2>4
    <3>2. Append(s, last) \in Seq(S \cup {last}) /\ Len(Append(s, last)) = Len(s) + 1
          /\ \A k \in 1 .. Len(s) + 1 : Append(s, last)[k] = IF k = Len(s) + 1 THEN last ELSE s[k]
      <4> DEFINE all == S \cup {last}
      <4>1. s \in Seq(all) /\ last \in all
        BY <3>1
      <4> HIDE DEF all
      <4>2. Append(s, last) \in Seq(all) /\ Len(Append(s, last)) = Len(s) + 1 /\ Len(s) \in Nat
        BY <4>1
      <4>3. \A k \in 1 .. Len(s) + 1 : Append(s, last)[k] = IF k = Len(s) + 1 THEN last ELSE s[k]
        BY <4>1
      <4> QED
        BY <4>2, <4>3 DEF all
    <3> DEFINE longer == Append(s, last)
    <3>3. longer \in [1 .. Len(longer) -> S \cup {last}]
      <4>1. longer \in Seq(S \cup {last})
        BY <3>2
      <4> HIDE DEF longer
      <4> QED
        BY <4>1
    <3> QED
      BY <2>3, <3>2, <3>3
  <2>6. ASSUME NEW k \in 1 .. Len(w) + 1 PROVE t[k] = Append(s, last)[k]
    <3>1. t[k] = list[Quick!Namer(list, v[(Len(w) + 1 - k) + 1])].name
      BY <2>2
    <3> HIDE DEF t
    <3>2. CASE k = Len(w) + 1
      <4>1. (Len(w) + 1 - k) + 1 = 1 /\ v[1] = p
        BY <1>2, <2>1, <3>2
      <4> QED
        BY <2>5, <3>1, <3>2, <4>1
    <3>3. CASE k # Len(w) + 1
      <4>1. k \in 1 .. Len(w) /\ (Len(w) + 1 - k) + 1 \in 1 .. Len(w) + 1 /\ (Len(w) + 1 - k) + 1 # 1
            /\ ((Len(w) + 1 - k) + 1) - 1 = (Len(w) - k) + 1
        BY <1>2, <3>3
      <4>2. v[(Len(w) + 1 - k) + 1] = w[(Len(w) - k) + 1]
        BY <2>1, <4>1
      <4> QED
        BY <2>3, <2>5, <3>1, <3>3, <4>1, <4>2
    <3> QED
      BY <3>2, <3>3
  <2>7. DOMAIN t = 1 .. Len(w) + 1 /\ t = [k \in 1 .. Len(w) + 1 |-> t[k]]
    BY <2>2
  <2> HIDE DEF t, last
  <2>8. t = Append(s, last)
    BY <2>5, <2>6, <2>7
  <2> QED
    BY <2>8 DEF s, t, v, last
<1> QED
  BY <1>7, <1>8, <1>9

\* A candidate whose parent nobody names stands at the top.
LEMMA PathAtTop ==
  ASSUME Quick!QuickScanAssumption, NEW list, IsList(list), NEW c, Quick!Namer(list, c.parent) = 0
  PROVE  Quick!PathOf(list, c) = <<c.name>>
<1> DEFINE n == MaxSegments - 1
           way == Quick!WayUp(list, c.parent)
           T == {k \in Nat : k <= n => way[k] = <<>>}
<1>1. /\ n \in Nat /\ way[0] = <<>>
      /\ \A k \in 1 .. n : way[k] = Quick!Higher(list, c.parent, way[k - 1])
  BY WayIs
<1>2. Quick!Higher(list, c.parent, <<>>) = <<>>
  BY DEF Quick!Higher
<1> HIDE DEF way, n
<1>3. T \subseteq Nat /\ 0 \in T
  BY <1>1
<1>4. ASSUME NEW k \in T PROVE k + 1 \in T
  <2> SUFFICES ASSUME k + 1 <= n PROVE way[k + 1] = <<>>
    OBVIOUS
  <2>1. k + 1 \in 1 .. n /\ (k + 1) - 1 = k /\ way[k] = <<>>
    BY <1>1
  <2> QED
    BY <1>1, <1>2, <2>1
<1>5. T = Nat
  <2> HIDE DEF T
  <2> QED
    BY <1>3, <1>4, Inductive
<1>6. Quick!Ancestors(list, c.parent) = <<>>
  <2>1. way[n] = <<>>
    BY <1>1, <1>5
  <2> QED
    BY <2>1 DEF Quick!Ancestors, way, n
<1>7. Quick!PathOf(list, c) = Append(NamesAlong(list, <<>>), c.name)
  BY <1>6, PathIs
<1>8. NamesAlong(list, <<>>) = <<>>
  <2>1. Len(<<>>) \in Nat /\ Len(<<>>) = 0
    OBVIOUS
  <2>2. (\E S : NamesAlong(list, <<>>) \in Seq(S)) /\ Len(NamesAlong(list, <<>>)) = 0
    BY <2>1, NamesAre
  <2> QED
    BY <2>2
<1>9. \A x : Append(<<>>, x) = <<x>>
  OBVIOUS
<1> QED
  BY <1>7, <1>8, <1>9

-----------------------------------------------------------------------------
(* Candidates *)

Fields ==
  {"index", "number", "ghost", "deleted", "directory", "named", "packed", "name",
   "parent", "time", "path", "evidence", "reasons"}

IsCandidate(c) ==
  /\ Fields \subseteq DOMAIN c
  /\ c.number \in Nat /\ c.index \in Int /\ c.time \in Int
  /\ c.ghost \in BOOLEAN /\ c.deleted \in BOOLEAN
  /\ c.named \in BOOLEAN /\ c.packed \in BOOLEAN

\* What neither the paths nor the journal change.
SameFile(c, d) ==
  /\ c.number = d.number /\ c.index = d.index /\ c.time = d.time /\ c.ghost = d.ghost
  /\ c.deleted = d.deleted /\ c.named = d.named /\ c.packed = d.packed

LEMMA PathSet ==
  ASSUME NEW c, IsCandidate(c), NEW x
  PROVE  LET d == [c EXCEPT !.path = x]
         IN  /\ IsCandidate(d) /\ SameFile(c, d)
             /\ d.name = c.name /\ d.parent = c.parent /\ d.path = x
             /\ d.evidence = c.evidence /\ d.reasons = c.reasons
<1> DEFINE d == [c EXCEPT !.path = x]
<1>1. DOMAIN d = DOMAIN c /\ d.path = x
  BY DEF IsCandidate, Fields
<1>2. \A f \in Fields \ {"path"} : d[f] = c[f]
  BY DEF IsCandidate, Fields
<1> HIDE DEF d
<1>3. /\ d.number = c.number /\ d.index = c.index /\ d.time = c.time /\ d.ghost = c.ghost
      /\ d.deleted = c.deleted /\ d.named = c.named /\ d.packed = c.packed
      /\ d.name = c.name /\ d.parent = c.parent /\ d.evidence = c.evidence /\ d.reasons = c.reasons
  BY <1>2 DEF Fields
<1>4. IsCandidate(d) /\ SameFile(c, d)
  BY <1>1, <1>3 DEF IsCandidate, SameFile
<1> QED
  BY <1>1, <1>3, <1>4 DEF d

Naming(c, x, p) == [c EXCEPT !.name = x, !.parent = p]

LEMMA NameSet ==
  ASSUME NEW c, IsCandidate(c), NEW x, NEW p
  PROVE  LET d == Naming(c, x, p)
         IN  /\ IsCandidate(d) /\ SameFile(c, d)
             /\ d.name = x /\ d.parent = p /\ d.path = c.path
             /\ d.evidence = c.evidence /\ d.reasons = c.reasons
<1> DEFINE d == Naming(c, x, p)
<1>1. DOMAIN d = DOMAIN c /\ d.name = x /\ d.parent = p
  BY DEF IsCandidate, Fields, Naming
<1>2. \A f \in Fields \ {"name", "parent"} : d[f] = c[f]
  BY DEF IsCandidate, Fields, Naming
<1> HIDE DEF d
<1>3. /\ d.number = c.number /\ d.index = c.index /\ d.time = c.time /\ d.ghost = c.ghost
      /\ d.deleted = c.deleted /\ d.named = c.named /\ d.packed = c.packed
      /\ d.path = c.path /\ d.evidence = c.evidence /\ d.reasons = c.reasons
  BY <1>2 DEF Fields
<1>4. IsCandidate(d) /\ SameFile(c, d)
  BY <1>1, <1>3 DEF IsCandidate, SameFile
<1> QED
  BY <1>1, <1>3, <1>4 DEF d

LEMMA EvidenceSet ==
  ASSUME NEW c, IsCandidate(c), NEW r
  PROVE  LET d == [c EXCEPT !.evidence = @ \cup {"usn"}, !.reasons = @ \cup r]
         IN  /\ IsCandidate(d) /\ SameFile(c, d)
             /\ d.name = c.name /\ d.parent = c.parent /\ d.path = c.path
             /\ d.evidence = c.evidence \cup {"usn"}
<1> DEFINE d == [c EXCEPT !.evidence = @ \cup {"usn"}, !.reasons = @ \cup r]
<1>1. DOMAIN d = DOMAIN c /\ d.evidence = c.evidence \cup {"usn"}
  BY DEF IsCandidate, Fields
<1>2. \A f \in Fields \ {"evidence", "reasons"} : d[f] = c[f]
  BY DEF IsCandidate, Fields
<1> HIDE DEF d
<1>3. /\ d.number = c.number /\ d.index = c.index /\ d.time = c.time /\ d.ghost = c.ghost
      /\ d.deleted = c.deleted /\ d.named = c.named /\ d.packed = c.packed
      /\ d.path = c.path /\ d.name = c.name /\ d.parent = c.parent
  BY <1>2 DEF Fields
<1>4. IsCandidate(d) /\ SameFile(c, d)
  BY <1>1, <1>3 DEF IsCandidate, SameFile
<1> QED
  BY <1>1, <1>3, <1>4 DEF d

\* A list of candidates with numbers of their own.
IsFileList(list) ==
  /\ IsList(list)
  /\ \A i \in DOMAIN list : IsCandidate(list[i])
  /\ \A i, k \in DOMAIN list : list[i].number = list[k].number => i = k

\* The names and parents of one list are those of another, in whatever order.
NamesFrom(one, two) ==
  \A i \in DOMAIN one : \E k \in DOMAIN two :
    one[i].number = two[k].number /\ one[i].name = two[k].name /\ one[i].parent = two[k].parent

LEMMA AgreeByNumber ==
  ASSUME NEW one, NEW two, IsFileList(one), IsFileList(two), NamesFrom(one, two), NamesFrom(two, one)
  PROVE  Agree(one, two)
<1> SUFFICES ASSUME NEW number
             PROVE  /\ Quick!Namer(one, number) = 0 <=> Quick!Namer(two, number) = 0
                    /\ Quick!Namer(one, number) # 0 =>
                         /\ one[Quick!Namer(one, number)].name = two[Quick!Namer(two, number)].name
                         /\ one[Quick!Namer(one, number)].parent = two[Quick!Namer(two, number)].parent
  BY Zenon DEF Agree
<1>0. IsList(one) /\ IsList(two)
  BY DEF IsFileList
<1>1. ASSUME Quick!Namer(one, number) # 0
      PROVE  /\ Quick!Namer(two, number) # 0
             /\ one[Quick!Namer(one, number)].name = two[Quick!Namer(two, number)].name
             /\ one[Quick!Namer(one, number)].parent = two[Quick!Namer(two, number)].parent
  <2> DEFINE i == Quick!Namer(one, number)
  <2>1. i \in DOMAIN one /\ one[i].number = number /\ one[i].name # Quick!None
    BY <1>0, <1>1, NamerIs DEF Namers
  <2> HIDE DEF i
  <2>2. PICK k \in DOMAIN two :
          one[i].number = two[k].number /\ one[i].name = two[k].name /\ one[i].parent = two[k].parent
    BY <2>1 DEF NamesFrom
  <2>3. k \in Namers(two, number)
    BY <2>1, <2>2 DEF Namers
  <2>4. Quick!Namer(two, number) # 0 /\ Quick!Namer(two, number) \in Namers(two, number)
    BY <1>0, <2>3, NamerIs
  <2>5. Quick!Namer(two, number) = k
    BY <2>3, <2>4 DEF Namers, IsFileList
  <2> QED
    BY <2>2, <2>4, <2>5 DEF i
<1>2. ASSUME Quick!Namer(two, number) # 0 PROVE Quick!Namer(one, number) # 0
  <2> DEFINE i == Quick!Namer(two, number)
  <2>1. i \in DOMAIN two /\ two[i].number = number /\ two[i].name # Quick!None
    BY <1>0, <1>2, NamerIs DEF Namers
  <2> HIDE DEF i
  <2>2. PICK k \in DOMAIN one :
          two[i].number = one[k].number /\ two[i].name = one[k].name /\ two[i].parent = one[k].parent
    BY <2>1 DEF NamesFrom
  <2>3. k \in Namers(one, number)
    BY <2>1, <2>2 DEF Namers
  <2> QED
    BY <1>0, <2>3, NamerIs
<1> QED
  BY <1>1, <1>2

\* Every named candidate has the path that the list gives it.
HasPaths(list) ==
  \A i \in DOMAIN list :
    list[i].name # Quick!None => list[i].path = Quick!PathOf(list, list[i])

LEMMA SamePathOf ==
  ASSUME NEW list, NEW c, NEW d, c.name = d.name, c.parent = d.parent
  PROVE  Quick!PathOf(list, c) = Quick!PathOf(list, d)
BY DEF Quick!PathOf

LEMMA WithPathsIs ==
  ASSUME Quick!QuickScanAssumption, NEW list, IsFileList(list)
  PROVE  /\ IsFileList(Quick!WithPaths(list)) /\ HasPaths(Quick!WithPaths(list))
         /\ DOMAIN Quick!WithPaths(list) = DOMAIN list
         /\ \A i \in DOMAIN list :
              /\ SameFile(list[i], Quick!WithPaths(list)[i])
              /\ Quick!WithPaths(list)[i].name = list[i].name
              /\ Quick!WithPaths(list)[i].parent = list[i].parent
              /\ Quick!WithPaths(list)[i].evidence = list[i].evidence
<1> DEFINE more == Quick!WithPaths(list)
           e(i) == IF list[i].name = Quick!None THEN list[i]
                   ELSE [list[i] EXCEPT !.path = Quick!PathOf(list, list[i])]
<1>1. more = [i \in DOMAIN list |-> e(i)]
  BY DEF Quick!WithPaths
<1>2. ASSUME NEW i \in DOMAIN list
      PROVE  /\ IsCandidate(e(i)) /\ SameFile(list[i], e(i))
             /\ e(i).name = list[i].name /\ e(i).parent = list[i].parent /\ e(i).evidence = list[i].evidence
             /\ list[i].name # Quick!None => e(i).path = Quick!PathOf(list, list[i])
  <2>1. IsCandidate(list[i])
    BY DEF IsFileList
  <2>2. CASE list[i].name = Quick!None
    BY <2>1, <2>2 DEF SameFile
  <2>3. CASE list[i].name # Quick!None
    <3> DEFINE d == [list[i] EXCEPT !.path = Quick!PathOf(list, list[i])]
    <3>1. /\ IsCandidate(d) /\ SameFile(list[i], d)
          /\ d.name = list[i].name /\ d.parent = list[i].parent /\ d.path = Quick!PathOf(list, list[i])
          /\ d.evidence = list[i].evidence
      BY <2>1, PathSet
    <3>2. e(i) = d
      BY <2>3
    <3> HIDE DEF e, d
    <3> QED
      BY <2>3, <3>1, <3>2
  <2> QED
    BY <2>2, <2>3
<1> HIDE DEF e
<1>3. DOMAIN more = DOMAIN list /\ \A i \in DOMAIN list : more[i] = e(i)
  BY <1>1
<1>4. IsList(more)
  <2>1. Len(list) \in Nat /\ DOMAIN list = 1 .. Len(list)
    BY ListIs DEF IsFileList
  <2> DEFINE S == {e(i) : i \in DOMAIN list}
  <2>2. more \in [1 .. Len(list) -> S]
    BY <1>1, <2>1
  <2> HIDE DEF S
  <2>3. more \in Seq(S)
    BY <2>1, <2>2
  <2>4. \A i \in DOMAIN more : more[i].number \in Nat
    BY <1>2, <1>3 DEF IsCandidate
  <2> QED
    BY <2>3, <2>4 DEF IsList
<1> HIDE DEF more
<1>5. IsFileList(more)
  <2>1. \A i \in DOMAIN more : IsCandidate(more[i]) /\ more[i].number = list[i].number
    BY <1>2, <1>3 DEF SameFile
  <2> QED
    BY <1>3, <1>4, <2>1 DEF IsFileList
<1>6. Agree(list, more)
  <2>1. NamesFrom(list, more) /\ NamesFrom(more, list)
    BY <1>2, <1>3 DEF NamesFrom, SameFile
  <2> QED
    BY <1>5, <2>1, AgreeByNumber
<1>7. HasPaths(more)
  <2> SUFFICES ASSUME NEW i \in DOMAIN more, more[i].name # Quick!None
               PROVE  more[i].path = Quick!PathOf(more, more[i])
    BY DEF HasPaths
  <2>1. more[i].path = Quick!PathOf(list, list[i])
    BY <1>2, <1>3
  <2>2. Quick!PathOf(list, list[i]) = Quick!PathOf(list, more[i])
    BY <1>2, <1>3, SamePathOf
  <2>3. Quick!PathOf(list, more[i]) = Quick!PathOf(more, more[i])
    BY <1>5, <1>6, SamePaths DEF IsFileList
  <2> QED
    BY <2>1, <2>2, <2>3
<1> QED
  BY <1>2, <1>3, <1>5, <1>7 DEF more

\* A list with the same names and paths in another order has its paths too.
LEMMA PathsStay ==
  ASSUME Quick!QuickScanAssumption, NEW one, NEW two, IsFileList(one), IsFileList(two), HasPaths(one),
         NamesFrom(one, two),
         \A i \in DOMAIN two : \E k \in DOMAIN one :
           two[i].number = one[k].number /\ two[i].name = one[k].name
             /\ two[i].parent = one[k].parent /\ two[i].path = one[k].path
  PROVE  HasPaths(two)
<1>1. NamesFrom(two, one)
  BY Zenon DEF NamesFrom
<1>2. Agree(one, two)
  BY <1>1, AgreeByNumber
<1> SUFFICES ASSUME NEW i \in DOMAIN two, two[i].name # Quick!None
             PROVE  two[i].path = Quick!PathOf(two, two[i])
  BY DEF HasPaths
<1>3. PICK k \in DOMAIN one :
        two[i].number = one[k].number /\ two[i].name = one[k].name
          /\ two[i].parent = one[k].parent /\ two[i].path = one[k].path
  OBVIOUS
<1>4. one[k].path = Quick!PathOf(one, one[k])
  BY <1>3 DEF HasPaths
<1>5. Quick!PathOf(one, one[k]) = Quick!PathOf(one, two[i])
  BY <1>3, SamePathOf
<1>6. Quick!PathOf(one, two[i]) = Quick!PathOf(two, two[i])
  BY <1>2, SamePaths DEF IsFileList
<1> QED
  BY <1>3, <1>4, <1>5, <1>6

\* In such a list the path of what lies in a directory is that of the directory
\* and a name.
LEMMA PathsFollow ==
  ASSUME Quick!QuickScanAssumption, NEW list, IsFileList(list), HasPaths(list),
         NEW i \in DOMAIN list, list[i].name # Quick!None
  PROVE  LET c == list[i]
             up == Quick!Namer(list, c.parent)
         IN  IF up = 0 THEN c.path = <<c.name>>
             ELSE (~Quick!Contains(Quick!Ancestors(list, list[up].parent), list[up].number)
                     /\ Len(list[up].path) < MaxSegments) =>
                    c.path = Append(list[up].path, c.name)
<1> DEFINE c == list[i]
           up == Quick!Namer(list, c.parent)
<1>1. IsList(list) /\ c.path = Quick!PathOf(list, c)
  BY DEF IsFileList, HasPaths
<1> HIDE DEF c, up
<1>2. CASE up = 0
  BY <1>1, <1>2, PathAtTop DEF up, c
<1>3. CASE up # 0
  <2> SUFFICES ASSUME ~Quick!Contains(Quick!Ancestors(list, list[up].parent), list[up].number),
                      Len(list[up].path) < MaxSegments
               PROVE  c.path = Append(list[up].path, c.name)
    BY <1>3 DEF c, up
  <2>1. up \in DOMAIN list /\ list[up].number = c.parent /\ list[up].name # Quick!None
    BY <1>1, <1>3, NamerIs DEF up, Namers
  <2>2. list[up].path = Quick!PathOf(list, list[up])
    BY <2>1 DEF HasPaths
  <2>3. Quick!PathOf(list, c) = Append(Quick!PathOf(list, list[up]), c.name)
    BY <1>1, <1>3, <2>1, <2>2, PathBelow DEF up
  <2> QED
    BY <1>1, <2>2, <2>3
<1> QED
  BY <1>2, <1>3 DEF c, up

-----------------------------------------------------------------------------
(* The order of the list *)

LEMMA QuickCounts == \A S : Quick!Cardinality(S) = Cardinality(S)
BY DEF Quick!Cardinality, Cardinality

Files(list) == {list[i] : i \in DOMAIN list}
InFrontOf(list) == {p \in Files(list) \X Files(list) : Quick!Before(p[1], p[2])}

LEMMA FilesAreOrdered ==
  ASSUME NEW list, IsFileList(list),
         \A i, k \in DOMAIN list : list[i].index = list[k].index => i = k
  PROVE  /\ IsFiniteSet(Files(list)) /\ Cardinality(Files(list)) = Len(list)
         /\ Orders(Files(list), InFrontOf(list))
         /\ \A c \in Files(list) :
              {d \in Quick!Range(list) : Quick!Before(d, c)} = Preceding(Files(list), InFrontOf(list), c)
<1> DEFINE all == Files(list)
           n == Len(list)
<1>1. n \in Nat /\ DOMAIN list = 1 .. n
  BY ListIs DEF IsFileList
<1>2. IsFiniteSet(all) /\ Cardinality(all) = n
  <2> DEFINE f == [i \in 1 .. n |-> list[i]]
  <2>1. IsFiniteSet(1 .. n) /\ Cardinality(1 .. n) = n
    <3>1. IsFiniteSet(1 .. n) /\ Cardinality(1 .. n) = IF 1 > n THEN 0 ELSE n - 1 + 1
      <4>1. 1 \in Int /\ n \in Int
        BY <1>1
      <4> HIDE DEF n
      <4> QED
        BY <4>1, FS_Interval
    <3> QED
      BY <1>1, <3>1
  <2>2. f \in [1 .. n -> all]
    BY <1>1 DEF Files
  <2>3. \A i, k \in 1 .. n : f[i] = f[k] => i = k
    BY <1>1 DEF IsFileList
  <2>4. \A c \in all : \E i \in 1 .. n : f[i] = c
    BY <1>1 DEF Files
  <2> HIDE DEF f, all
  <2>5. f \in Bijection(1 .. n, all)
    <3>1. f \in Injection(1 .. n, all)
      BY <2>2, <2>3 DEF Injection, IsInjective
    <3>2. f \in Surjection(1 .. n, all)
      BY <2>2, <2>4 DEF Surjection
    <3> QED
      BY <3>1, <3>2 DEF Bijection
  <2>6. ExistsBijection(1 .. n, all)
    BY <2>5 DEF ExistsBijection
  <2> QED
    BY <2>1, <2>6, FS_Bijection
<1>3. \A c \in all : c.index \in Int /\ c.time \in Int /\ c.deleted \in BOOLEAN
  BY DEF Files, IsFileList, IsCandidate
<1>4. \A c, d \in all : c.index = d.index => c = d
  BY DEF Files
<1> HIDE DEF all
<1>5. \A c, d \in all : <<c, d>> \in InFrontOf(list) <=> Quick!Before(c, d)
  BY DEF InFrontOf, all
<1>6. ASSUME NEW a \in all, NEW b \in all, NEW c \in all, Quick!Before(a, b), Quick!Before(b, c)
      PROVE  Quick!Before(a, c)
  BY <1>3, <1>6 DEF Quick!Before
<1>7. \A a \in all : ~Quick!Before(a, a)
  BY <1>3 DEF Quick!Before
<1>8. ASSUME NEW a \in all, NEW b \in all, a # b PROVE Quick!Before(a, b) \/ Quick!Before(b, a)
  BY <1>3, <1>4, <1>8 DEF Quick!Before
<1>9. Orders(all, InFrontOf(list))
  BY <1>5, <1>6, <1>7, <1>8 DEF Orders
<1>10. Quick!Range(list) = all
  BY DEF Quick!Range, all, Files
<1>11. \A c \in all : {d \in Quick!Range(list) : Quick!Before(d, c)} = Preceding(all, InFrontOf(list), c)
  BY <1>5, <1>10 DEF Preceding
<1> QED
  BY <1>2, <1>9, <1>11 DEF all

\* What Sort makes of a list.
InOrder(list) ==
  LET all == Quick!Range(list)
  IN  [i \in DOMAIN list |->
         CHOOSE c \in all : Quick!Cardinality({d \in all : Quick!Before(d, c)}) = i - 1]

LEMMA SortIs ==
  ASSUME NEW list, IsFileList(list),
         \A i, k \in DOMAIN list : list[i].index = list[k].index => i = k
  PROVE  LET more == InOrder(list)
         IN  /\ DOMAIN more = DOMAIN list
             /\ \A i \in DOMAIN list : \E k \in DOMAIN list : more[i] = list[k]
             /\ \A k \in DOMAIN list : \E i \in DOMAIN list : more[i] = list[k]
             /\ \A i, k \in DOMAIN list : i < k => Quick!Before(more[i], more[k])
             /\ IsFileList(more)
<1> DEFINE all == Files(list)
           R == InFrontOf(list)
           rank(c) == Cardinality(Preceding(all, R, c))
           more == InOrder(list)
           n == Len(list)
<1>1. n \in Nat /\ DOMAIN list = 1 .. n
  BY ListIs DEF IsFileList
<1>2. IsFiniteSet(all) /\ Cardinality(all) = n /\ Orders(all, R)
      /\ \A c \in all : {d \in Quick!Range(list) : Quick!Before(d, c)} = Preceding(all, R, c)
  BY FilesAreOrdered
<1>3. Quick!Range(list) = all
  BY DEF Quick!Range, Files
<1> HIDE DEF all, R, n, more
<1>4. DOMAIN more = 1 .. n /\ \A i \in 1 .. n :
        more[i] = CHOOSE c \in all : Quick!Cardinality({d \in all : Quick!Before(d, c)}) = i - 1
  BY <1>1, <1>3 DEF more, InOrder
<1>5. \A c \in all : Quick!Cardinality({d \in all : Quick!Before(d, c)}) = rank(c)
  BY <1>2, <1>3, QuickCounts
<1> HIDE DEF rank
<1>6. ASSUME NEW i \in 1 .. n PROVE more[i] \in all /\ rank(more[i]) = i - 1
  <2>1. \E c \in all : rank(c) = i - 1
    BY <1>2, Ranks DEF rank
  <2>2. \E c \in all : Quick!Cardinality({d \in all : Quick!Before(d, c)}) = i - 1
    BY <1>5, <2>1
  <2>3. more[i] \in all /\ Quick!Cardinality({d \in all : Quick!Before(d, more[i])}) = i - 1
    BY <1>4, <2>2, Zenon
  <2> QED
    BY <1>5, <2>3
<1>7. \A i \in 1 .. n : \E k \in 1 .. n : more[i] = list[k]
  BY <1>1, <1>6 DEF all, Files
<1>8. ASSUME NEW k \in 1 .. n PROVE \E i \in 1 .. n : more[i] = list[k]
  <2>1. list[k] \in all
    BY <1>1 DEF all, Files
  <2>2. rank(list[k]) \in 0 .. n - 1
    BY <1>2, <2>1, RankBelow DEF rank
  <2>3. rank(list[k]) + 1 \in 1 .. n /\ (rank(list[k]) + 1) - 1 = rank(list[k])
    BY <1>1, <2>2
  <2>4. more[rank(list[k]) + 1] \in all /\ rank(more[rank(list[k]) + 1]) = rank(list[k])
    BY <1>6, <2>3
  <2>5. more[rank(list[k]) + 1] = list[k]
    BY <1>2, <2>1, <2>4, RanksDiffer DEF rank
  <2> QED
    BY <2>3, <2>5
<1>9. ASSUME NEW i \in 1 .. n, NEW k \in 1 .. n, i < k PROVE Quick!Before(more[i], more[k])
  <2>1. more[i] \in all /\ more[k] \in all /\ rank(more[i]) < rank(more[k])
    BY <1>1, <1>6, <1>9
  <2>2. rank(more[i]) \in Nat /\ rank(more[k]) \in Nat
    BY <1>2, <2>1, RankBelow DEF rank
  <2>3. more[i] # more[k]
    BY <2>1, <2>2
  <2>4. <<more[k], more[i]>> \notin R
    <3> SUFFICES ASSUME <<more[k], more[i]>> \in R PROVE FALSE
      OBVIOUS
    <3>1. rank(more[k]) < rank(more[i])
      BY <1>2, <2>1, RankGrows DEF rank
    <3> QED
      BY <2>1, <2>2, <3>1
  <2>5. <<more[i], more[k]>> \in R
    BY <1>2, <2>1, <2>3, <2>4 DEF Orders
  <2> QED
    BY <2>5 DEF R, InFrontOf
<1>10. IsFileList(more)
  <2>1. more \in [1 .. n -> all]
    <3> DEFINE ranked == Quick!Range(list)
               e(i) == CHOOSE c \in ranked : Quick!Cardinality({d \in ranked : Quick!Before(d, c)}) = i - 1
    <3>1. more = [i \in DOMAIN list |-> e(i)]
      BY Zenon DEF more, InOrder
    <3> HIDE DEF e
    <3> QED
      BY <1>1, <1>6, <3>1
  <2>2. more \in Seq(all)
    BY <1>1, <2>1
  <2>3. \A c \in all : IsCandidate(c)
    BY DEF all, Files, IsFileList
  <2>4. \A c, d \in all : c.number = d.number => c = d
    BY DEF all, Files, IsFileList
  <2>5. \A i, k \in 1 .. n : more[i] = more[k] => i = k
    <3> TAKE i, k \in 1 .. n
    <3>1. more[i] = more[k] => i - 1 = k - 1
      BY <1>6
    <3> QED
      BY <1>1, <3>1
  <2>6. \A i, k \in DOMAIN more : more[i].number = more[k].number => i = k
    BY <1>4, <1>6, <2>4, <2>5
  <2>7. IsList(more) /\ \A i \in DOMAIN more : IsCandidate(more[i])
    BY <1>4, <1>6, <2>2, <2>3 DEF IsList, IsCandidate
  <2> QED
    BY <2>6, <2>7 DEF IsFileList
<1> QED
  BY <1>1, <1>4, <1>7, <1>8, <1>9, <1>10 DEF more

-----------------------------------------------------------------------------
(* The records of the table *)

LEMMA FirstNameIs ==
  ASSUME NEW s, Quick!IsSlot(s)
  PROVE  Quick!FirstName(s.names).time \in Int
<1> DEFINE names == s.names
           ok == {i \in DOMAIN names : names[i].ok}
           none == [name |-> Quick!None, parent |-> Quick!NoNumber, time |-> 0]
           first == CHOOSE i \in ok : \A k \in ok : i <= k
           found == [name |-> names[first].name, parent |-> names[first].parent, time |-> names[first].time]
<1>1. DOMAIN names \subseteq Nat /\ \A i \in DOMAIN names : names[i].time \in Nat
  BY DEF Quick!IsSlot, Quick!IsName
<1>2. Quick!FirstName(names) = IF ok = {} THEN none ELSE found
  BY DEF Quick!FirstName
<1>3. CASE ok = {}
  BY <1>2, <1>3
<1>4. CASE ok # {}
  <2>1. \E i \in ok : \A k \in ok : i <= k
    <3>1. ok \subseteq Nat
      BY <1>1
    <3> HIDE DEF ok
    <3> QED
      BY <1>4, <3>1, NatLeast
  <2>2. first \in DOMAIN names
    <3>1. first \in ok
      <4> HIDE DEF ok
      <4> QED
        BY <2>1
    <3> HIDE DEF first
    <3> QED
      BY <3>1
  <2> HIDE DEF first
  <2>3. names[first].time \in Nat
    BY <1>1, <2>2
  <2> HIDE DEF ok, names, none
  <2>4. Quick!FirstName(names) = found
    BY <1>2, <1>4
  <2>5. found.time = names[first].time
    OBVIOUS
  <2> HIDE DEF found
  <2> QED
    BY <2>3, <2>4, <2>5 DEF names
<1> QED
  BY <1>3, <1>4

LEMMA CandidateOf ==
  ASSUME NEW s, Quick!IsSlot(s), NEW n \in Nat
  PROVE  LET c == Quick!Candidate(s, n)
             first == Quick!FirstName(s.names)
         IN  /\ IsCandidate(c) /\ c.number = n /\ c.index = n /\ c.ghost = FALSE
             /\ c.deleted = ~s.inUse /\ c.named = s.named /\ c.packed = s.packed
             /\ c.name = first.name /\ c.parent = first.parent /\ c.time = first.time
             /\ c.path = <<>> /\ c.evidence = {"mft"}
<1> DEFINE first == Quick!FirstName(s.names)
<1>1. first.time \in Int
  BY FirstNameIs
<1> HIDE DEF first
<1>2. Quick!Candidate(s, n) =
        [index |-> n, number |-> n, ghost |-> FALSE, deleted |-> ~s.inUse,
         directory |-> s.directory, named |-> s.named, packed |-> s.packed,
         name |-> first.name, parent |-> first.parent, time |-> first.time,
         path |-> <<>>, evidence |-> {"mft"}, reasons |-> {}]
  BY DEF Quick!Candidate, first
<1>3. s.named \in BOOLEAN /\ s.packed \in BOOLEAN
  BY DEF Quick!IsSlot
<1> QED
  BY <1>1, <1>2, <1>3 DEF IsCandidate, Fields, first

\* What stays true of the candidate of a record.
OfTable(v, x, c) ==
  /\ c.ghost = FALSE /\ c.index = c.number /\ c.number < x
  /\ LET s == v.slots[c.number + 1]
         first == Quick!FirstName(s.names)
     IN  /\ s.kind = "record"
         /\ c.deleted = ~s.inUse /\ c.named = s.named /\ c.packed = s.packed
         /\ c.time = first.time
         /\ first.name # Quick!None => c.name # Quick!None
  /\ "mft" \in c.evidence

TableList(v, x, list) == IsFileList(list) /\ \A i \in DOMAIN list : OfTable(v, x, list[i])

\* Every record up to a place is in a list.
HoldsTable(v, x, list) ==
  \A n \in 1 .. x : v.slots[n].kind = "record" =>
    \E i \in DOMAIN list : list[i].number = n - 1 /\ list[i].ghost = FALSE

\* Where the scan stands.
Swept(v, x, run, bad) ==
  /\ x \in Nat /\ x <= Len(v.slots)
  /\ run \in Nat /\ run <= x /\ run <= EmptyLimit
  /\ \A n \in (x - run) + 1 .. x : v.slots[n].kind = "empty"
  /\ \A n \in 1 .. x : v.slots[n].kind = "bad" => n - 1 \in bad

LimitOf(v) == IF v.records = 0 THEN 4096 ELSE v.records

\* The scan has come to the last record it reads.
Ended(v, x, run) == x >= LimitOf(v) \/ x >= Len(v.slots) \/ run = EmptyLimit

\* The deleted files first, then those of the last times.
Recency(list) ==
  \A i, k \in DOMAIN list :
    (i < k /\ ~list[i].ghost /\ ~list[k].ghost) =>
      /\ list[k].deleted => list[i].deleted
      /\ list[i].deleted = list[k].deleted => list[i].time >= list[k].time

\* A list of the same files, which may have got paths, names and evidence.
Updates(one, two) ==
  /\ DOMAIN two = DOMAIN one
  /\ \A i \in DOMAIN one :
       /\ SameFile(one[i], two[i])
       /\ one[i].evidence \subseteq two[i].evidence
       /\ one[i].name # Quick!None => two[i].name # Quick!None

LEMMA SameOfTable ==
  ASSUME NEW v, NEW x, NEW c, NEW d, OfTable(v, x, c), SameFile(c, d),
         c.evidence \subseteq d.evidence, c.name # Quick!None => d.name # Quick!None
  PROVE  OfTable(v, x, d)
BY DEF OfTable, SameFile

LEMMA UpdatesKeep ==
  ASSUME NEW v, NEW x, NEW one, NEW two, TableList(v, x, one), HoldsTable(v, x, one),
         IsFileList(two), Updates(one, two)
  PROVE  TableList(v, x, two) /\ HoldsTable(v, x, two)
<1>1. \A i \in DOMAIN two : OfTable(v, x, two[i])
  BY SameOfTable DEF TableList, Updates
<1>2. \A i \in DOMAIN one : i \in DOMAIN two /\ two[i].number = one[i].number /\ two[i].ghost = one[i].ghost
  BY DEF Updates, SameFile
<1>3. HoldsTable(v, x, two)
  BY <1>2, Zenon DEF HoldsTable
<1> QED
  BY <1>1, <1>3 DEF TableList

LEMMA UpdatesInOrder ==
  ASSUME NEW one, NEW two, Updates(one, two), Recency(one)
  PROVE  Recency(two)
<1>1. \A i \in DOMAIN two : i \in DOMAIN one /\ two[i].ghost = one[i].ghost
        /\ two[i].deleted = one[i].deleted /\ two[i].time = one[i].time
  BY DEF Updates, SameFile
<1>2. DOMAIN two = DOMAIN one
  BY DEF Updates
<1> SUFFICES ASSUME NEW i \in DOMAIN two, NEW k \in DOMAIN two, i < k, ~two[i].ghost, ~two[k].ghost
             PROVE  /\ two[k].deleted => two[i].deleted
                    /\ two[i].deleted = two[k].deleted => two[i].time >= two[k].time
  BY DEF Recency
<1>3. ~one[i].ghost /\ ~one[k].ghost
  BY <1>1
<1>4. /\ one[k].deleted => one[i].deleted
      /\ one[i].deleted = one[k].deleted => one[i].time >= one[k].time
  BY <1>2, <1>3 DEF Recency
<1> QED
  BY <1>1, <1>4

-----------------------------------------------------------------------------
(* The journal *)

IsJournal(es) == (\E S : es \in Seq(S)) /\ \A i \in DOMAIN es : Quick!IsEntry(es[i])

Told(es, n) == {i \in DOMAIN es : es[i].number = n}
Known(es) == {es[i].number : i \in DOMAIN es}
Why(es, n) == UNION {es[i].reasons : i \in Told(es, n)}
Newest(es, n) ==
  es[CHOOSE i \in Told(es, n) : \A k \in Told(es, n) :
       es[k].usn < es[i].usn \/ (es[k].usn = es[i].usn /\ k <= i)]

LEMMA JournalNames ==
  /\ Quick!Numbers = Known(Quick!Entries)
  /\ \A n : Quick!EntriesOf(n) = Told(Quick!Entries, n)
  /\ \A n : Quick!ReasonsOf(n) = Why(Quick!Entries, n)
  /\ \A n : Quick!Latest(n) = Newest(Quick!Entries, n)
<1>1. \A n : Quick!EntriesOf(n) = Told(Quick!Entries, n)
  BY Zenon DEF Quick!EntriesOf, Told
<1>2. Quick!Numbers = Known(Quick!Entries)
  BY Zenon DEF Quick!Numbers, Known
<1>3. \A n : Quick!ReasonsOf(n) = Why(Quick!Entries, n)
  BY <1>1, Zenon DEF Quick!ReasonsOf, Why
<1>4. \A n : Quick!Latest(n) = Newest(Quick!Entries, n)
  BY <1>1, Zenon DEF Quick!Latest, Newest
<1> QED
  BY <1>1, <1>2, <1>3, <1>4

LEMMA SameJournal ==
  ASSUME volume' = volume
  PROVE  (Quick!Entries)' = Quick!Entries
BY DEF Quick!Entries, Quick!FirstOther

LEMMA VolumeIs ==
  ASSUME Quick!QuickScanAssumption, volume \in QuickVolumes
  PROVE  Quick!IsVolume(volume)
BY DEF Quick!QuickScanAssumption

LEMMA JournalIs ==
  ASSUME Quick!IsVolume(volume)
  PROVE  IsJournal(Quick!Entries)
<1> DEFINE all == volume.journal
           S == Quick!Range(all)
           other == {i \in DOMAIN all : all[i].kind # "record"}
           m == Quick!FirstOther
<1>1. all \in Seq(S) /\ \A i \in DOMAIN all : Quick!IsEntry(all[i])
  BY DEF Quick!IsVolume
<1>2. m = IF other = {} THEN Len(all) + 1 ELSE CHOOSE i \in other : \A k \in other : i <= k
  BY DEF Quick!FirstOther
<1>3. Quick!Entries = SubSeq(all, 1, m - 1)
  BY DEF Quick!Entries
<1> HIDE DEF all, S, m
<1>4. Len(all) \in Nat /\ DOMAIN all = 1 .. Len(all)
  BY <1>1
<1>5. m \in 1 .. Len(all) + 1
  <2>1. CASE other = {}
    BY <1>2, <1>4, <2>1
  <2>2. CASE other # {}
    <3>1. \E i \in other : \A k \in other : i <= k
      <4>1. other \subseteq Nat
        BY <1>4
      <4> HIDE DEF other
      <4> QED
        BY <2>2, <4>1, NatLeast
    <3>2. m \in other
      <4> HIDE DEF other
      <4> QED
        BY <1>2, <2>2, <3>1
    <3> QED
      BY <1>4, <3>2
  <2> QED
    BY <2>1, <2>2
<1>6. SubSeq(all, 1, m - 1) \in Seq(S) /\ Len(SubSeq(all, 1, m - 1)) = m - 1
      /\ \A i \in 1 .. m - 1 : SubSeq(all, 1, m - 1)[i] = all[i]
  <2>1. m - 1 \in 0 .. Len(all)
    BY <1>4, <1>5
  <2>2. \A i \in 1 .. m - 1 : all[i] \in S
    BY <1>1, <1>4, <2>1
  <2> QED
    BY <1>1, <1>4, <2>1, <2>2
<1>7. \A i \in DOMAIN SubSeq(all, 1, m - 1) : i \in 1 .. m - 1 /\ i \in DOMAIN all
  BY <1>4, <1>5, <1>6
<1> QED
  BY <1>1, <1>3, <1>6, <1>7 DEF IsJournal

\* The newest entry of a file is one of its entries, and no other is newer.
LEMMA NewestIs ==
  ASSUME NEW es, IsJournal(es), NEW n \in Known(es)
  PROVE  \E i \in Told(es, n) :
           /\ Newest(es, n) = es[i]
           /\ \A k \in Told(es, n) : es[k].usn < es[i].usn \/ (es[k].usn = es[i].usn /\ k <= i)
<1> DEFINE T == Told(es, n)
           later(k, i) == es[k].usn < es[i].usn \/ (es[k].usn = es[i].usn /\ k <= i)
           R == {p \in T \X T : later(p[2], p[1]) /\ p[1] # p[2]}
<1>1. Len(es) \in Nat /\ DOMAIN es = 1 .. Len(es)
  BY DEF IsJournal
<1>2. T \subseteq 1 .. Len(es) /\ T # {} /\ \A i \in T : i \in Nat /\ es[i].usn \in Int
  BY <1>1 DEF Told, Known, IsJournal, Quick!IsEntry
<1>3. IsFiniteSet(T) /\ 1 \in 1 .. Cardinality(T)
  <2>1. IsFiniteSet(1 .. Len(es))
    <3>1. 1 \in Int /\ Len(es) \in Int
      BY <1>1
    <3> QED
      BY <3>1, FS_Interval
  <2> HIDE DEF T
  <2>2. IsFiniteSet(T)
    BY <1>2, <2>1, FS_Subset
  <2>3. Cardinality(T) \in Nat /\ Cardinality(T) # 0
    BY <1>2, <2>2, FS_CardinalityType, FS_EmptySet
  <2> QED
    BY <2>2, <2>3
<1> HIDE DEF T
<1>4. Orders(T, R)
  <2>1. \A a, b, c \in T : <<a, b>> \in R /\ <<b, c>> \in R => <<a, c>> \in R
    BY <1>2
  <2>2. \A a \in T : <<a, a>> \notin R
    OBVIOUS
  <2>3. \A a, b \in T : a # b => <<a, b>> \in R \/ <<b, a>> \in R
    BY <1>2
  <2> HIDE DEF R
  <2> QED
    BY <2>1, <2>2, <2>3 DEF Orders
<1>5. PICK i \in T : Cardinality(Preceding(T, R, i)) = 0
  <2> HIDE DEF R
  <2>1. \E i \in T : Cardinality(Preceding(T, R, i)) = 1 - 1
    BY <1>3, <1>4, Ranks
  <2> QED
    BY <2>1
<1>6. Preceding(T, R, i) = {}
  <2>1. Preceding(T, R, i) \subseteq T
    BY DEF Preceding
  <2>2. IsFiniteSet(Preceding(T, R, i))
    BY <1>3, <2>1, FS_Subset
  <2> QED
    BY <1>5, <2>2, FS_EmptySet
<1>7. \A k \in T : later(k, i)
  <2> SUFFICES ASSUME NEW k \in T, ~later(k, i) PROVE FALSE
    OBVIOUS
  <2>1. k # i
    BY <1>2
  <2>2. later(i, k)
    BY <1>2
  <2>3. <<k, i>> \in R
    BY <2>1, <2>2
  <2>4. k \in Preceding(T, R, i)
    BY <2>3 DEF Preceding
  <2> QED
    BY <1>6, <2>4
<1>8. Newest(es, n) = es[CHOOSE j \in T : \A k \in T : later(k, j)]
  BY DEF Newest, T
<1> HIDE DEF later
<1>9. (CHOOSE j \in T : \A k \in T : later(k, j)) \in T
      /\ \A k \in T : later(k, CHOOSE j \in T : \A k2 \in T : later(k2, j))
  BY <1>7
<1> QED
  BY <1>8, <1>9 DEF T, later

LEMMA NewestEntry ==
  ASSUME NEW es, IsJournal(es), NEW n \in Known(es)
  PROVE  Quick!IsEntry(Newest(es, n)) /\ Newest(es, n).number = n
<1>1. PICK i \in Told(es, n) : Newest(es, n) = es[i]
  BY NewestIs
<1> QED
  BY <1>1 DEF Told, IsJournal

\* An entry that is newer than every other of its file is the newest.
LEMMA NewestAlone ==
  ASSUME NEW es, IsJournal(es), NEW n, NEW k \in Told(es, n),
         \A o \in Told(es, n) \ {k} : es[o].usn < es[k].usn
  PROVE  n \in Known(es) /\ Newest(es, n) = es[k]
<1>1. n \in Known(es)
  BY DEF Told, Known
<1>2. PICK i \in Told(es, n) :
        /\ Newest(es, n) = es[i]
        /\ es[k].usn < es[i].usn \/ (es[k].usn = es[i].usn /\ k <= i)
  BY <1>1, NewestIs
<1>3. es[i].usn \in Int /\ es[k].usn \in Int
  BY DEF Told, IsJournal, Quick!IsEntry
<1>4. i = k
  BY <1>2, <1>3
<1> QED
  BY <1>1, <1>2, <1>4

\* What the journal says of a file is in its candidate.
Noted(es, c) ==
  c.number \in Known(es) =>
    /\ Why(es, c.number) # {} => "usn" \in c.evidence
    /\ Quick!Renames(Newest(es, c.number)) =>
         c.name = Newest(es, c.number).name /\ c.parent = Newest(es, c.number).parent

LEMMA RenamedIs ==
  ASSUME Quick!IsVolume(volume), NEW c, IsCandidate(c)
  PROVE  LET d == Quick!Renamed(c)
         IN  /\ IsCandidate(d) /\ SameFile(c, d) /\ d.path = c.path /\ d.evidence = c.evidence
             /\ c.name # Quick!None => d.name # Quick!None
             /\ (c.number \in Known(Quick!Entries) /\ Quick!Renames(Newest(Quick!Entries, c.number))) =>
                  d.name = Newest(Quick!Entries, c.number).name
                    /\ d.parent = Newest(Quick!Entries, c.number).parent
<1> DEFINE es == Quick!Entries
           latest == Newest(es, c.number)
           changed == Naming(c, latest.name, latest.parent)
           d == Quick!Renamed(c)
<1>1. d = IF c.number \in Known(es) /\ Quick!Renames(latest) THEN changed ELSE c
  BY JournalNames DEF Quick!Renamed, Naming
<1>2. IsCandidate(changed) /\ SameFile(c, changed) /\ changed.path = c.path /\ changed.evidence = c.evidence
      /\ changed.name = latest.name /\ changed.parent = latest.parent
  <2> HIDE DEF latest
  <2> QED
    BY NameSet
<1>3. c.number \in Known(es) => latest.name # Quick!None
  BY JournalIs, NewestEntry DEF Quick!IsEntry
<1>4. SameFile(c, c)
  BY DEF SameFile
<1> HIDE DEF es, latest, changed, d
<1>5. CASE c.number \in Known(es) /\ Quick!Renames(latest)
  BY <1>1, <1>2, <1>3, <1>5 DEF d, es, latest
<1>6. CASE ~(c.number \in Known(es) /\ Quick!Renames(latest))
  BY <1>1, <1>4, <1>6 DEF d, es, latest
<1> QED
  BY <1>5, <1>6

LEMMA EvidenceIs ==
  ASSUME Quick!IsVolume(volume), NEW c, IsCandidate(c)
  PROVE  LET d == Quick!WithEvidence(c)
         IN  /\ IsCandidate(d) /\ SameFile(c, d) /\ d.path = c.path
             /\ c.evidence \subseteq d.evidence
             /\ c.name # Quick!None => d.name # Quick!None
             /\ d.name = Quick!Renamed(c).name /\ d.parent = Quick!Renamed(c).parent
             /\ Noted(Quick!Entries, d)
<1> DEFINE es == Quick!Entries
           r == Quick!Renamed(c)
           m == Quick!Matched(c)
           more == [r EXCEPT !.evidence = @ \cup {"usn"}, !.reasons = @ \cup m]
           d == Quick!WithEvidence(c)
<1>1. d = IF m = {} THEN r ELSE more
  BY DEF Quick!WithEvidence
<1>2. /\ IsCandidate(r) /\ SameFile(c, r) /\ r.path = c.path /\ r.evidence = c.evidence
      /\ c.name # Quick!None => r.name # Quick!None
      /\ (c.number \in Known(es) /\ Quick!Renames(Newest(es, c.number))) =>
           r.name = Newest(es, c.number).name /\ r.parent = Newest(es, c.number).parent
  BY RenamedIs
<1>3. (c.number \in Known(es) /\ Why(es, c.number) # {}) => m = Why(es, c.number)
  BY JournalNames DEF Quick!Matched
<1> HIDE DEF es, r, m
<1>4. /\ IsCandidate(more) /\ SameFile(r, more)
      /\ more.name = r.name /\ more.parent = r.parent /\ more.path = r.path
      /\ more.evidence = r.evidence \cup {"usn"}
  BY <1>2, EvidenceSet
<1> HIDE DEF more, d
<1>5. /\ IsCandidate(d) /\ SameFile(c, d) /\ d.path = c.path /\ d.name = r.name /\ d.parent = r.parent
      /\ c.evidence \subseteq d.evidence /\ (m # {} => "usn" \in d.evidence)
  <2>1. CASE m = {}
    BY <1>1, <1>2, <2>1
  <2>2. CASE m # {}
    BY <1>1, <1>2, <1>4, <2>2 DEF SameFile
  <2> QED
    BY <2>1, <2>2
<1>6. d.number = c.number
  BY <1>5 DEF SameFile
<1>7. Noted(es, d)
  BY <1>2, <1>3, <1>5, <1>6 DEF Noted
<1> QED
  BY <1>2, <1>5, <1>7 DEF d, r, es

LEMMA NotedStays ==
  ASSUME NEW es, NEW c, NEW d, Noted(es, c), d.number = c.number, d.name = c.name,
         d.parent = c.parent, c.evidence \subseteq d.evidence
  PROVE  Noted(es, d)
BY DEF Noted

\* The candidate of a file that only the journal knows.
LEMMA GhostIs ==
  ASSUME Quick!IsVolume(volume), NEW n \in Known(Quick!Entries)
  PROVE  LET g == Quick!Ghost(n)
         IN  /\ IsCandidate(g) /\ g.number = n /\ g.ghost = TRUE /\ g.deleted = TRUE
             /\ "usn" \in g.evidence /\ Noted(Quick!Entries, g)
<1> DEFINE es == Quick!Entries
           latest == Newest(es, n)
           why == Why(es, n)
           label == IF Quick!Blank(latest.name) THEN Quick!None ELSE latest.name
           moment == IF latest.time > 0 THEN latest.time ELSE 0
           g == Quick!Ghost(n)
<1>1. g = [index |-> Quick!NoNumber, number |-> n, ghost |-> TRUE, deleted |-> TRUE,
           directory |-> latest.directory, named |-> "stream" \in why,
           packed |-> latest.packed, name |-> label, parent |-> latest.parent, time |-> moment,
           path |-> <<>>, evidence |-> {"usn"}, reasons |-> why]
  BY JournalNames DEF Quick!Ghost
<1>2. Quick!IsEntry(latest) /\ latest.number = n
  BY JournalIs, NewestEntry
<1>3. n \in Nat /\ moment \in Int /\ latest.packed \in BOOLEAN
  BY <1>2 DEF Quick!IsEntry
<1>4. Quick!Renames(latest) => label = latest.name
  BY DEF Quick!Renames
<1> HIDE DEF es, latest, why, label, moment, g
<1>5. /\ Fields \subseteq DOMAIN g /\ g.index = Quick!NoNumber /\ g.number = n /\ g.ghost = TRUE
      /\ g.deleted = TRUE /\ g.packed = latest.packed /\ g.name = label /\ g.parent = latest.parent
      /\ g.time = moment /\ g.evidence = {"usn"} /\ g.named \in BOOLEAN
  <2>1. Fields \subseteq DOMAIN g
    BY <1>1 DEF Fields
  <2>2. g.named = ("stream" \in why)
    BY <1>1
  <2>3. ("stream" \in why) \in BOOLEAN
    OBVIOUS
  <2>4. g.named \in BOOLEAN
    BY <2>2, <2>3, Zenon
  <2>5. g.index = Quick!NoNumber /\ g.number = n /\ g.ghost = TRUE /\ g.deleted = TRUE
    BY <1>1
  <2>6. g.packed = latest.packed /\ g.name = label /\ g.parent = latest.parent
    BY <1>1
  <2>7. g.time = moment /\ g.evidence = {"usn"}
    BY <1>1
  <2> QED
    BY <2>1, <2>4, <2>5, <2>6, <2>7
<1>6. IsCandidate(g)
  <2>1. g.index \in Int
    BY <1>5 DEF Quick!NoNumber
  <2>2. g.number \in Nat /\ g.time \in Int
    BY <1>3, <1>5
  <2>3. g.ghost \in BOOLEAN /\ g.deleted \in BOOLEAN /\ g.named \in BOOLEAN /\ g.packed \in BOOLEAN
    BY <1>3, <1>5
  <2> QED
    BY <1>5, <2>1, <2>2, <2>3 DEF IsCandidate
<1>7. Noted(es, g)
  BY <1>4, <1>5 DEF Noted, latest
<1> QED
  BY <1>5, <1>6, <1>7 DEF g, es

-----------------------------------------------------------------------------
(* The invariant of the quick scan *)

\* What the table gave, and the numbers the scan keeps.
Collected ==
  /\ Swept(volume, index, empties, errors)
  /\ TableList(volume, index, candidates) /\ HoldsTable(volume, index, candidates)

Gathered == Collected /\ Ended(volume, index, empties)
Ordered == Gathered /\ HasPaths(candidates) /\ Recency(candidates)

\* What the journal says of a list.
FromJournal(es, list) ==
  /\ \A i \in DOMAIN list : Noted(es, list[i])
  /\ \A i \in DOMAIN list : list[i].ghost => "usn" \in list[i].evidence /\ list[i].deleted = TRUE
  /\ \A n \in Known(es) :
       (n <= MaxNumber /\ "delete" \in Why(es, n)) => \E i \in DOMAIN list : list[i].number = n

AllFiles(v, x, list) ==
  IsFileList(list) /\ \A i \in DOMAIN list : list[i].ghost = FALSE => OfTable(v, x, list[i])

Complete ==
  /\ Swept(volume, index, empties, errors) /\ Ended(volume, index, empties)
  /\ AllFiles(volume, index, candidates) /\ HoldsTable(volume, index, candidates)
  /\ HasPaths(candidates) /\ Recency(candidates)
  /\ volume.journal # <<>> => FromJournal(Quick!Entries, candidates)

\* What is known of the list from phase to phase.
QuickInv ==
  /\ volume \in QuickVolumes
  /\ pc = "open" => index = 0 /\ empties = 0 /\ errors = {} /\ candidates = <<>>
  /\ pc = "scan" => Collected /\ empties < EmptyLimit
  /\ pc = "paths" => Gathered
  /\ pc = "sort" => Gathered /\ HasPaths(candidates)
  /\ pc \in {"journal", "match"} => Ordered
  /\ pc = "ghosts" => Ordered /\ \A i \in DOMAIN candidates : Noted(Quick!Entries, candidates[i])
  /\ pc = "encode" => Complete
  /\ (pc = "done" /\ status = 0) => Complete

LEMMA QuickStarts ==
  ASSUME Quick!QuickScanAssumption, Quick!Init
  PROVE  QuickInv
BY DEF Quick!Init, QuickInv

LEMMA ReturnKeeps ==
  ASSUME QuickInv, NEW s, s # 0, Quick!Return(s)
  PROVE  QuickInv'
<1>1. pc' = "done" /\ status' = s /\ volume' = volume
  BY DEF Quick!Return
<1> QED
  BY <1>1 DEF QuickInv

LEMMA OpenKeeps ==
  ASSUME Quick!QuickScanAssumption, QuickInv, Quick!Open
  PROVE  QuickInv'
<1>1. CASE Quick!OpenStatus # 0
  <2>1. Quick!Return(Quick!OpenStatus)
    BY <1>1 DEF Quick!Open
  <2> DEFINE s == Quick!OpenStatus
  <2> HIDE DEF s
  <2>2. s # 0 /\ Quick!Return(s)
    BY <1>1, <2>1 DEF s
  <2> QED
    BY <2>2, ReturnKeeps
<1>2. CASE Quick!OpenStatus = 0
  <2>1. /\ pc = "open" /\ pc' = "scan" /\ volume' = volume /\ index' = index /\ empties' = empties
        /\ errors' = errors /\ candidates' = candidates
    BY <1>2 DEF Quick!Open
  <2>2. index = 0 /\ empties = 0 /\ errors = {} /\ candidates = <<>> /\ volume \in QuickVolumes
    BY <2>1 DEF QuickInv
  <2>3. Swept(volume, 0, 0, {})
    <3>1. Len(volume.slots) \in Nat
      BY <2>2, VolumeIs DEF Quick!IsVolume
    <3>2. EmptyLimit \in Nat
      BY DEF Quick!QuickScanAssumption
    <3> QED
      BY <3>1, <3>2 DEF Swept
  <2>4. TableList(volume, 0, <<>>) /\ HoldsTable(volume, 0, <<>>)
    <3>1. <<>> \in Seq({}) /\ DOMAIN <<>> = {}
      OBVIOUS
    <3> QED
      BY <3>1 DEF TableList, HoldsTable, IsFileList, IsList
  <2>5. 0 < EmptyLimit
    BY DEF Quick!QuickScanAssumption
  <2>6. Collected' /\ (empties < EmptyLimit)'
    BY <2>1, <2>2, <2>3, <2>4, <2>5 DEF Collected
  <2> QED
    BY <2>1, <2>2, <2>6 DEF QuickInv
<1> QED
  BY <1>1, <1>2

LEMMA AppendFile ==
  ASSUME NEW list, IsFileList(list), NEW c, IsCandidate(c), \A i \in DOMAIN list : list[i].number # c.number
  PROVE  /\ IsFileList(Append(list, c))
         /\ DOMAIN Append(list, c) = 1 .. Len(list) + 1 /\ Len(list) \in Nat /\ DOMAIN list = 1 .. Len(list)
         /\ \A i \in 1 .. Len(list) + 1 : Append(list, c)[i] = IF i = Len(list) + 1 THEN c ELSE list[i]
<1>1. PICK S : list \in Seq(S)
  BY DEF IsFileList, IsList
<1> DEFINE T == S \cup {c}
           more == Append(list, c)
<1>2. list \in Seq(T) /\ c \in T
  BY <1>1
<1> HIDE DEF T
<1>3. /\ more \in Seq(T) /\ Len(more) = Len(list) + 1 /\ DOMAIN more = 1 .. Len(list) + 1
      /\ Len(list) \in Nat /\ DOMAIN list = 1 .. Len(list)
      /\ \A i \in 1 .. Len(list) + 1 : more[i] = IF i = Len(list) + 1 THEN c ELSE list[i]
  BY <1>2
<1> HIDE DEF more
<1>4. \A i \in 1 .. Len(list) + 1 : i # Len(list) + 1 => i \in DOMAIN list
  BY <1>3
<1>5. \A i \in DOMAIN more : IsCandidate(more[i])
  BY <1>3, <1>4 DEF IsFileList
<1>6. \A i, k \in DOMAIN more : more[i].number = more[k].number => i = k
  BY <1>3, <1>4 DEF IsFileList
<1>7. IsFileList(more)
  BY <1>3, <1>5, <1>6 DEF IsFileList, IsList, IsCandidate
<1> QED
  BY <1>3, <1>7 DEF more

LEMMA ScanRecordKeeps ==
  ASSUME Quick!QuickScanAssumption, QuickInv, Quick!ScanRecord
  PROVE  QuickInv'
<1> DEFINE slots == volume.slots
           s == slots[index + 1]
           run == IF s.kind = "empty" THEN empties + 1 ELSE 0
           list == candidates
           c == Quick!Candidate(s, index)
<1>1. /\ pc = "scan" /\ index < Len(slots) /\ volume' = volume /\ index' = index + 1
      /\ empties' = run /\ pc' = IF run >= EmptyLimit THEN "paths" ELSE "scan"
      /\ candidates' = IF s.kind = "record" THEN Append(list, c) ELSE list
      /\ errors' = IF s.kind = "bad" THEN errors \cup {index} ELSE errors
  BY DEF Quick!ScanRecord, Quick!Scanning, Quick!Slot, Quick!EmptiesAfter
<1>2. /\ volume \in QuickVolumes /\ Swept(volume, index, empties, errors) /\ empties < EmptyLimit
      /\ TableList(volume, index, list) /\ HoldsTable(volume, index, list)
  BY <1>1 DEF QuickInv, Collected
<1>3. Len(slots) \in Nat /\ index \in Nat /\ empties \in Nat /\ empties <= index
      /\ EmptyLimit \in Nat /\ index + 1 \in 1 .. Len(slots)
  BY <1>1, <1>2, VolumeIs DEF Swept, Quick!IsVolume, Quick!QuickScanAssumption
<1>4. Quick!IsSlot(s)
  <2>1. DOMAIN slots = 1 .. Len(slots)
    BY <1>2, VolumeIs DEF Quick!IsVolume
  <2> QED
    BY <1>2, <1>3, <2>1, VolumeIs DEF Quick!IsVolume
<1> HIDE DEF slots, s, run, list, c
<1>5. run \in Nat /\ run <= index + 1 /\ run <= EmptyLimit
  BY <1>2, <1>3 DEF run
<1>6. Swept(volume, index + 1, run, errors')
  <2>1. \A n \in ((index + 1) - run) + 1 .. index + 1 : slots[n].kind = "empty"
    <3> TAKE n \in ((index + 1) - run) + 1 .. index + 1
    <3>1. CASE s.kind # "empty"
      BY <1>3, <3>1 DEF run
    <3>2. CASE s.kind = "empty" /\ n = index + 1
      BY <3>2 DEF s
    <3>3. CASE s.kind = "empty" /\ n # index + 1
      <4>1. n \in (index - empties) + 1 .. index
        BY <1>3, <3>3 DEF run
      <4> QED
        BY <1>2, <4>1 DEF Swept, slots
    <3> QED
      BY <3>1, <3>2, <3>3
  <2>2. \A n \in 1 .. index + 1 : slots[n].kind = "bad" => n - 1 \in errors'
    <3> TAKE n \in 1 .. index + 1
    <3>1. CASE n = index + 1
      BY <1>1, <1>3, <3>1 DEF s
    <3>2. CASE n # index + 1
      <4>1. n \in 1 .. index
        BY <1>3, <3>2
      <4>2. slots[n].kind = "bad" => n - 1 \in errors
        BY <1>2, <4>1 DEF Swept, slots
      <4> QED
        BY <1>1, <4>2
    <3> QED
      BY <3>1, <3>2
  <2> QED
    BY <1>3, <1>5, <2>1, <2>2 DEF Swept, slots
<1>7. \A d : OfTable(volume, index, d) /\ IsCandidate(d) => OfTable(volume, index + 1, d)
  BY <1>3 DEF OfTable, IsCandidate
<1>8. /\ IsFileList(list) /\ \A i \in DOMAIN list : IsCandidate(list[i]) /\ OfTable(volume, index, list[i])
  BY <1>2 DEF TableList, IsFileList
<1>9. TableList(volume, index + 1, candidates') /\ HoldsTable(volume, index + 1, candidates')
  <2>1. CASE s.kind = "record"
    <3> DEFINE more == Append(list, c)
    <3>1. /\ IsCandidate(c) /\ c.number = index /\ c.index = index /\ c.ghost = FALSE
          /\ c.deleted = ~s.inUse /\ c.named = s.named /\ c.packed = s.packed
          /\ c.name = Quick!FirstName(s.names).name /\ c.time = Quick!FirstName(s.names).time
          /\ c.evidence = {"mft"}
      <4> DEFINE d == Quick!Candidate(s, index)
                 first == Quick!FirstName(s.names)
      <4>1. index \in Nat
        BY <1>3
      <4>2. /\ IsCandidate(d) /\ d.number = index /\ d.index = index /\ d.ghost = FALSE
            /\ d.deleted = ~s.inUse /\ d.named = s.named /\ d.packed = s.packed
            /\ d.name = first.name /\ d.time = first.time /\ d.evidence = {"mft"}
        BY <1>4, <4>1, CandidateOf
      <4>3. c = d
        BY DEF c
      <4> HIDE DEF d, first
      <4>4. /\ c.name = first.name /\ c.time = first.time
        BY <4>2, <4>3
      <4> QED
        BY <4>2, <4>3, <4>4 DEF first
    <3>2. \A i \in DOMAIN list : list[i].number # c.number
      BY <1>3, <1>8, <3>1 DEF OfTable, IsCandidate
    <3>3. /\ IsFileList(more) /\ DOMAIN more = 1 .. Len(list) + 1
          /\ Len(list) \in Nat /\ DOMAIN list = 1 .. Len(list)
          /\ \A i \in 1 .. Len(list) + 1 : more[i] = IF i = Len(list) + 1 THEN c ELSE list[i]
      BY <1>8, <3>1, <3>2, AppendFile
    <3> HIDE DEF more
    <3>4. OfTable(volume, index + 1, c)
      <4>1. c.number < index + 1 /\ volume.slots[c.number + 1] = s /\ "mft" \in c.evidence
        BY <1>3, <3>1 DEF s, slots
      <4> QED
        BY <2>1, <3>1, <4>1 DEF OfTable
    <3>5. \A i \in 1 .. Len(list) + 1 : OfTable(volume, index + 1, more[i])
      <4> TAKE i \in 1 .. Len(list) + 1
      <4>1. CASE i = Len(list) + 1
        BY <3>3, <3>4, <4>1
      <4>2. CASE i # Len(list) + 1
        <5>1. i \in DOMAIN list /\ more[i] = list[i]
          BY <3>3, <4>2
        <5> QED
          BY <1>7, <1>8, <5>1
      <4> QED
        BY <4>1, <4>2
    <3>6. TableList(volume, index + 1, more)
      BY <3>3, <3>5 DEF TableList
    <3>7. HoldsTable(volume, index + 1, more)
      <4> SUFFICES ASSUME NEW n \in 1 .. index + 1, volume.slots[n].kind = "record"
                   PROVE  \E i \in DOMAIN more : more[i].number = n - 1 /\ more[i].ghost = FALSE
        BY DEF HoldsTable
      <4>1. CASE n = index + 1
        <5>1. Len(list) + 1 \in DOMAIN more /\ more[Len(list) + 1] = c /\ n - 1 = index
          BY <1>3, <3>3, <4>1
        <5> QED
          BY <3>1, <5>1
      <4>2. CASE n # index + 1
        <5>1. n \in 1 .. index
          BY <1>3, <4>2
        <5>2. PICK i \in DOMAIN list : list[i].number = n - 1 /\ list[i].ghost = FALSE
          BY <1>2, <5>1 DEF HoldsTable
        <5>3. i \in DOMAIN more /\ more[i] = list[i]
          BY <3>3
        <5> QED
          BY <5>2, <5>3
      <4> QED
        BY <4>1, <4>2
    <3> QED
      BY <1>1, <2>1, <3>6, <3>7 DEF more
  <2>2. CASE s.kind # "record"
    <3>1. TableList(volume, index + 1, list)
      BY <1>7, <1>8 DEF TableList
    <3>2. HoldsTable(volume, index + 1, list)
      <4> SUFFICES ASSUME NEW n \in 1 .. index + 1, volume.slots[n].kind = "record"
                   PROVE  \E i \in DOMAIN list : list[i].number = n - 1 /\ list[i].ghost = FALSE
        BY DEF HoldsTable
      <4>1. n # index + 1
        BY <2>2 DEF s, slots
      <4>2. n \in 1 .. index
        BY <1>3, <4>1
      <4> QED
        BY <1>2, <4>2 DEF HoldsTable
    <3> QED
      BY <1>1, <2>2, <3>1, <3>2
  <2> QED
    BY <2>1, <2>2
<1>10. Collected'
  BY <1>1, <1>6, <1>9 DEF Collected
<1>11. CASE run >= EmptyLimit
  <2>1. run = EmptyLimit
    BY <1>3, <1>5, <1>11
  <2>2. Ended(volume, index + 1, run)
    BY <2>1 DEF Ended
  <2>3. Gathered' /\ pc' = "paths"
    BY <1>1, <1>10, <1>11, <2>2 DEF Gathered
  <2> QED
    BY <1>1, <1>2, <2>3 DEF QuickInv
<1>12. CASE ~(run >= EmptyLimit)
  <2>1. pc' = "scan" /\ empties' < EmptyLimit
    BY <1>1, <1>3, <1>5, <1>12
  <2> QED
    BY <1>1, <1>2, <1>10, <2>1 DEF QuickInv
<1> QED
  BY <1>11, <1>12

LEMMA ScanEndsKeeps ==
  ASSUME Quick!QuickScanAssumption, QuickInv, Quick!ScanEnds
  PROVE  QuickInv'
<1>1. /\ pc = "scan" /\ ~(index < Quick!MaxRecords /\ index < Len(volume.slots)) /\ pc' = "paths"
      /\ volume' = volume /\ index' = index /\ empties' = empties /\ errors' = errors
      /\ candidates' = candidates
  BY DEF Quick!ScanEnds, Quick!AtEnd, Quick!Scanning
<1>2. Collected /\ volume \in QuickVolumes
  BY <1>1 DEF QuickInv
<1>3. Quick!MaxRecords = LimitOf(volume)
  BY DEF Quick!MaxRecords, LimitOf
<1>4. LimitOf(volume) \in Nat /\ Len(volume.slots) \in Nat
  BY <1>2, VolumeIs DEF LimitOf, Quick!IsVolume
<1>5. index \in Nat
  BY <1>2 DEF Collected, Swept
<1>6. Ended(volume, index, empties)
  BY <1>1, <1>3, <1>4, <1>5 DEF Ended
<1>7. Gathered'
  BY <1>1, <1>2, <1>6 DEF Gathered, Collected
<1> QED
  BY <1>1, <1>2, <1>7 DEF QuickInv

LEMMA BuildPathsKeeps ==
  ASSUME Quick!QuickScanAssumption, QuickInv, Quick!BuildPaths
  PROVE  QuickInv'
<1>1. /\ pc = "paths" /\ pc' = "sort" /\ candidates' = Quick!WithPaths(candidates)
      /\ volume' = volume /\ index' = index /\ empties' = empties /\ errors' = errors
  BY DEF Quick!BuildPaths
<1>2. Gathered /\ volume \in QuickVolumes
  BY <1>1 DEF QuickInv
<1>3. PICK list : list = candidates
  OBVIOUS
<1>4. TableList(volume, index, list) /\ HoldsTable(volume, index, list)
  BY <1>2, <1>3 DEF Gathered, Collected
<1> DEFINE more == Quick!WithPaths(list)
<1>5. IsFileList(more) /\ HasPaths(more) /\ Updates(list, more)
  BY <1>4, WithPathsIs DEF TableList, Updates
<1> HIDE DEF more
<1>6. TableList(volume, index, more) /\ HoldsTable(volume, index, more)
  BY <1>4, <1>5, UpdatesKeep
<1>7. candidates' = more
  BY <1>1, <1>3 DEF more
<1>8. Gathered' /\ HasPaths(candidates)'
  BY <1>1, <1>2, <1>5, <1>6, <1>7 DEF Gathered, Collected
<1> QED
  BY <1>1, <1>2, <1>8 DEF QuickInv

LEMMA SortKeeps ==
  ASSUME Quick!QuickScanAssumption, QuickInv, Quick!Sort
  PROVE  QuickInv'
<1>1. /\ pc = "sort" /\ pc' = (IF volume.journal = <<>> THEN "encode" ELSE "journal")
      /\ candidates' = InOrder(candidates)
      /\ volume' = volume /\ index' = index /\ empties' = empties /\ errors' = errors
  BY DEF Quick!Sort, InOrder
<1>2. Gathered /\ HasPaths(candidates) /\ volume \in QuickVolumes
  BY <1>1 DEF QuickInv
<1>3. PICK list : list = candidates
  OBVIOUS
<1>4. TableList(volume, index, list) /\ HoldsTable(volume, index, list) /\ HasPaths(list)
  BY <1>2, <1>3 DEF Gathered, Collected
<1>5. IsFileList(list) /\ \A i \in DOMAIN list : OfTable(volume, index, list[i])
  BY <1>4 DEF TableList
<1> DEFINE more == InOrder(list)
<1>6. /\ DOMAIN more = DOMAIN list
      /\ \A i \in DOMAIN list : \E k \in DOMAIN list : more[i] = list[k]
      /\ \A k \in DOMAIN list : \E i \in DOMAIN list : more[i] = list[k]
      /\ \A i, k \in DOMAIN list : i < k => Quick!Before(more[i], more[k])
      /\ IsFileList(more)
  <2>1. \A i, k \in DOMAIN list : list[i].index = list[k].index => i = k
    BY <1>5 DEF OfTable, IsFileList
  <2> QED
    BY <1>5, <2>1, SortIs
<1> HIDE DEF more
<1>7. \A i \in DOMAIN more : OfTable(volume, index, more[i]) /\ IsCandidate(more[i])
  BY <1>5, <1>6 DEF IsFileList
<1>8. TableList(volume, index, more)
  BY <1>6, <1>7 DEF TableList
<1>9. HoldsTable(volume, index, more)
  <2> SUFFICES ASSUME NEW n \in 1 .. index, volume.slots[n].kind = "record"
               PROVE  \E i \in DOMAIN more : more[i].number = n - 1 /\ more[i].ghost = FALSE
    BY DEF HoldsTable
  <2>1. PICK k \in DOMAIN list : list[k].number = n - 1 /\ list[k].ghost = FALSE
    BY <1>4 DEF HoldsTable
  <2>2. PICK i \in DOMAIN list : more[i] = list[k]
    BY <1>6
  <2> QED
    BY <1>6, <2>1, <2>2
<1>10. HasPaths(more)
  <2>1. NamesFrom(list, more)
    BY <1>6 DEF NamesFrom
  <2>2. \A i \in DOMAIN more : \E k \in DOMAIN list :
          more[i].number = list[k].number /\ more[i].name = list[k].name
            /\ more[i].parent = list[k].parent /\ more[i].path = list[k].path
    BY <1>6
  <2> QED
    BY <1>4, <1>5, <1>6, <2>1, <2>2, PathsStay
<1>11. Recency(more)
  <2> SUFFICES ASSUME NEW i \in DOMAIN more, NEW k \in DOMAIN more, i < k
               PROVE  /\ more[k].deleted => more[i].deleted
                      /\ more[i].deleted = more[k].deleted => more[i].time >= more[k].time
    BY DEF Recency
  <2>1. Quick!Before(more[i], more[k])
    BY <1>6
  <2>2. /\ more[i].deleted \in BOOLEAN /\ more[k].deleted \in BOOLEAN
        /\ more[i].time \in Int /\ more[k].time \in Int
    BY <1>7 DEF IsCandidate
  <2> QED
    BY <2>1, <2>2 DEF Quick!Before
<1>12. candidates' = more
  BY <1>1, <1>3 DEF more
<1>13. Ordered'
  BY <1>1, <1>2, <1>8, <1>9, <1>10, <1>11, <1>12 DEF Ordered, Gathered, Collected
<1>14. CASE volume.journal # <<>>
  <2>1. pc' = "journal"
    BY <1>1, <1>14
  <2> QED
    BY <1>1, <1>2, <1>13, <2>1 DEF QuickInv
<1>15. CASE volume.journal = <<>>
  <2>1. pc' = "encode"
    BY <1>1, <1>15
  <2>2. AllFiles(volume, index, more)
    BY <1>6, <1>7 DEF AllFiles
  <2>3. Complete'
    BY <1>1, <1>12, <1>13, <1>15, <2>2 DEF Complete, Ordered, Gathered, Collected
  <2> QED
    BY <1>1, <1>2, <2>1, <2>3 DEF QuickInv
<1> QED
  BY <1>14, <1>15

LEMMA ReadJournalKeeps ==
  ASSUME Quick!QuickScanAssumption, QuickInv, Quick!ReadJournal
  PROVE  QuickInv'
<1>1. CASE Quick!JournalStatus # 0
  <2>1. Quick!Return(Quick!JournalStatus)
    BY <1>1 DEF Quick!ReadJournal
  <2> DEFINE s == Quick!JournalStatus
  <2> HIDE DEF s
  <2>2. s # 0 /\ Quick!Return(s)
    BY <1>1, <2>1 DEF s
  <2> QED
    BY <2>2, ReturnKeeps
<1>2. CASE Quick!JournalStatus = 0
  <2>1. /\ pc = "journal" /\ pc' = (IF Quick!Entries = <<>> THEN "encode" ELSE "match")
        /\ volume' = volume /\ index' = index /\ empties' = empties /\ errors' = errors
        /\ candidates' = candidates
    BY <1>2 DEF Quick!ReadJournal
  <2>2. Ordered /\ volume \in QuickVolumes
    BY <2>1 DEF QuickInv
  <2>3. Ordered'
    BY <2>1, <2>2 DEF Ordered, Gathered, Collected
  <2>4. CASE Quick!Entries # <<>>
    <3>1. pc' = "match"
      BY <2>1, <2>4
    <3> QED
      BY <2>1, <2>2, <2>3, <3>1 DEF QuickInv
  <2>5. CASE Quick!Entries = <<>>
    <3>1. pc' = "encode"
      BY <2>1, <2>5
    <3>2. PICK list : list = candidates
      OBVIOUS
    <3>3. TableList(volume, index, list)
      BY <2>2, <3>2 DEF Ordered, Gathered, Collected
    <3>4. \A i \in DOMAIN list : list[i].ghost = FALSE
      BY <3>3 DEF TableList, OfTable
    <3>5. Known(<<>>) = {}
      BY DEF Known
    <3>6. FromJournal(<<>>, list)
      BY <3>4, <3>5 DEF FromJournal, Noted
    <3>7. AllFiles(volume, index, list)
      BY <3>3 DEF AllFiles, TableList
    <3>8. Complete
      BY <2>2, <2>5, <3>2, <3>6, <3>7 DEF Complete, Ordered, Gathered, Collected
    <3>9. Complete'
      BY <2>1, <3>8, SameJournal DEF Complete
    <3> QED
      BY <2>1, <2>2, <3>1, <3>9 DEF QuickInv
  <2> QED
    BY <2>4, <2>5
<1> QED
  BY <1>1, <1>2

LEMMA UpdatesFollow ==
  ASSUME NEW one, NEW two, NEW three, Updates(one, two), Updates(two, three)
  PROVE  Updates(one, three)
BY DEF Updates, SameFile

\* The list with what the journal says, before its paths are built again.
WithJournal == [i \in DOMAIN candidates |-> Quick!WithEvidence(candidates[i])]

LEMMA JournalAdds ==
  ASSUME Quick!IsVolume(volume), IsFileList(candidates)
  PROVE  /\ IsFileList(WithJournal) /\ Updates(candidates, WithJournal)
         /\ \A i \in DOMAIN candidates :
              /\ Noted(Quick!Entries, WithJournal[i]) /\ WithJournal[i].path = candidates[i].path
              /\ WithJournal[i].number = candidates[i].number
              /\ WithJournal[i].name = Quick!Renamed(candidates[i]).name
              /\ WithJournal[i].parent = Quick!Renamed(candidates[i]).parent
<1> DEFINE list == candidates
           more == WithJournal
<1>1. DOMAIN more = DOMAIN list /\ \A i \in DOMAIN list : more[i] = Quick!WithEvidence(list[i])
  BY DEF WithJournal
<1>2. IsFileList(list)
  OBVIOUS
<1>3. ASSUME NEW i \in DOMAIN list
      PROVE  /\ IsCandidate(more[i]) /\ SameFile(list[i], more[i]) /\ more[i].path = list[i].path
             /\ list[i].evidence \subseteq more[i].evidence
             /\ list[i].name # Quick!None => more[i].name # Quick!None
             /\ more[i].name = Quick!Renamed(list[i]).name /\ more[i].parent = Quick!Renamed(list[i]).parent
             /\ Noted(Quick!Entries, more[i])
  <2>1. PICK c : c = list[i]
    OBVIOUS
  <2>2. IsCandidate(c)
    BY <1>2, <2>1 DEF IsFileList
  <2>3. PICK d : d = Quick!WithEvidence(c)
    OBVIOUS
  <2>4. /\ IsCandidate(d) /\ SameFile(c, d) /\ d.path = c.path
        /\ c.evidence \subseteq d.evidence
        /\ c.name # Quick!None => d.name # Quick!None
        /\ d.name = Quick!Renamed(c).name /\ d.parent = Quick!Renamed(c).parent
        /\ Noted(Quick!Entries, d)
    BY <2>2, <2>3, EvidenceIs
  <2>5. more[i] = d
    BY <1>1, <2>1, <2>3
  <2> HIDE DEF more, list
  <2> QED
    BY <2>1, <2>4, <2>5
<1>4. \A i \in DOMAIN list : more[i].number = list[i].number
  BY <1>3 DEF SameFile
<1>5. \E S : more \in Seq(S)
  <2> DEFINE S == {Quick!WithEvidence(list[i]) : i \in DOMAIN list}
  <2>1. Len(list) \in Nat /\ DOMAIN list = 1 .. Len(list)
    BY <1>2, ListIs DEF IsFileList
  <2>2. \A i \in DOMAIN list : Quick!WithEvidence(list[i]) \in S
    OBVIOUS
  <2> HIDE DEF S
  <2>3. more \in [DOMAIN list -> S]
    BY <2>2 DEF WithJournal
  <2> HIDE DEF more, list
  <2>4. more \in Seq(S)
    BY <2>1, <2>3
  <2> QED
    BY <2>4
<1> HIDE DEF more, list
<1>6. IsFileList(more)
  <2>1. \A i \in DOMAIN more : IsCandidate(more[i]) /\ more[i].number \in Nat
    BY <1>1, <1>3 DEF IsCandidate
  <2>2. \A i, k \in DOMAIN more : more[i].number = more[k].number => i = k
    BY <1>1, <1>2, <1>4 DEF IsFileList
  <2> QED
    BY <1>5, <2>1, <2>2 DEF IsFileList, IsList
<1>7. Updates(list, more)
  BY <1>1, <1>3 DEF Updates
<1> QED
  BY <1>3, <1>4, <1>6, <1>7 DEF more, list

LEMMA MatchKeeps ==
  ASSUME Quick!QuickScanAssumption, QuickInv, Quick!Match
  PROVE  QuickInv'
<1>1. /\ pc = "match" /\ pc' = "ghosts" /\ candidates' = Quick!PathsAfterMatch(WithJournal)
      /\ volume' = volume /\ index' = index /\ empties' = empties /\ errors' = errors
  BY DEF Quick!Match, WithJournal
<1>2. Ordered /\ volume \in QuickVolumes /\ Quick!IsVolume(volume)
  BY <1>1, VolumeIs DEF QuickInv
<1>3. PICK list : list = candidates
  OBVIOUS
<1>4. PICK half : half = WithJournal
  OBVIOUS
<1>5. PICK more : more = candidates'
  OBVIOUS
<1>6. PICK es : es = Quick!Entries
  OBVIOUS
<1>7. TableList(volume, index, list) /\ HoldsTable(volume, index, list) /\ IsFileList(list)
      /\ HasPaths(list) /\ Recency(list)
  BY <1>2, <1>3 DEF Ordered, Gathered, Collected, TableList
<1>8. /\ IsFileList(half) /\ Updates(list, half)
      /\ \A i \in DOMAIN list :
           /\ Noted(es, half[i]) /\ half[i].path = list[i].path
           /\ half[i].number = list[i].number
           /\ half[i].name = Quick!Renamed(list[i]).name
           /\ half[i].parent = Quick!Renamed(list[i]).parent
  BY <1>2, <1>3, <1>4, <1>6, <1>7, JournalAdds
<1>9. DOMAIN half = DOMAIN list
  BY <1>8 DEF Updates
<1>10. IsFileList(more) /\ HasPaths(more) /\ Updates(half, more) /\ \A i \in DOMAIN more : Noted(es, more[i])
  <2>1. CASE \E i \in DOMAIN half : Quick!Renamed(candidates[i]) # candidates[i]
    <3>1. more = Quick!WithPaths(half)
      BY <1>1, <1>4, <1>5, <2>1 DEF Quick!PathsAfterMatch
    <3>2. /\ IsFileList(more) /\ HasPaths(more) /\ DOMAIN more = DOMAIN half
          /\ \A i \in DOMAIN half :
               /\ SameFile(half[i], more[i]) /\ more[i].name = half[i].name
               /\ more[i].parent = half[i].parent /\ more[i].evidence = half[i].evidence
      BY <1>8, <3>1, WithPathsIs
    <3>3. Updates(half, more)
      BY <3>2 DEF Updates
    <3>4. \A i \in DOMAIN more : Noted(es, more[i])
      BY <1>8, <1>9, <3>2, NotedStays DEF SameFile
    <3> QED
      BY <3>2, <3>3, <3>4
  <2>2. CASE ~\E i \in DOMAIN half : Quick!Renamed(candidates[i]) # candidates[i]
    <3>1. more = half
      BY <1>1, <1>4, <1>5, <2>2 DEF Quick!PathsAfterMatch
    <3>2. \A i \in DOMAIN list :
            half[i].number = list[i].number /\ half[i].name = list[i].name
              /\ half[i].parent = list[i].parent /\ half[i].path = list[i].path
      BY <1>3, <1>8, <1>9, <2>2
    <3>3. NamesFrom(list, half)
      BY <1>9, <3>2 DEF NamesFrom
    <3>4. \A i \in DOMAIN half : \E k \in DOMAIN list :
            half[i].number = list[k].number /\ half[i].name = list[k].name
              /\ half[i].parent = list[k].parent /\ half[i].path = list[k].path
      BY <1>9, <3>2
    <3>5. HasPaths(half)
      BY <1>7, <1>8, <3>3, <3>4, PathsStay
    <3>6. Updates(half, half)
      BY DEF Updates, SameFile
    <3> QED
      BY <1>8, <1>9, <3>1, <3>5, <3>6
  <2> QED
    BY <2>1, <2>2
<1>11. Updates(list, more)
  BY <1>8, <1>10, UpdatesFollow
<1>12. TableList(volume, index, more) /\ HoldsTable(volume, index, more) /\ Recency(more)
  BY <1>7, <1>10, <1>11, UpdatesKeep, UpdatesInOrder
<1>13. Ordered'
  BY <1>1, <1>2, <1>5, <1>10, <1>12 DEF Ordered, Gathered, Collected
<1>14. (\A i \in DOMAIN candidates : Noted(Quick!Entries, candidates[i]))'
  BY <1>1, <1>5, <1>6, <1>10, SameJournal
<1> QED
  BY <1>1, <1>2, <1>13, <1>14 DEF QuickInv

LEMMA KnownIsFinite ==
  ASSUME NEW es, IsJournal(es)
  PROVE  IsFiniteSet(Known(es))
<1> DEFINE f == [i \in DOMAIN es |-> es[i].number]
<1>1. Len(es) \in Nat /\ DOMAIN es = 1 .. Len(es)
  BY DEF IsJournal
<1>2. IsFiniteSet(DOMAIN es)
  <2>1. 1 \in Int /\ Len(es) \in Int
    BY <1>1
  <2> QED
    BY <1>1, <2>1, FS_Interval
<1>3. f \in [DOMAIN es -> Known(es)]
  BY DEF Known
<1>4. \A n \in Known(es) : \E i \in DOMAIN es : f[i] = n
  BY DEF Known
<1> HIDE DEF f
<1>5. f \in Surjection(DOMAIN es, Known(es))
  BY <1>3, <1>4 DEF Surjection
<1> QED
  BY <1>2, <1>5, FS_Surjection

\* An order of a finite set has every element of it once.
LEMMA OrderOf ==
  ASSUME NEW S, IsFiniteSet(S), NEW order \in Quick!SetToSeqs(S)
  PROVE  /\ Cardinality(S) \in Nat /\ DOMAIN order = 1 .. Cardinality(S)
         /\ \A i \in DOMAIN order : order[i] \in S
         /\ \A i, k \in DOMAIN order : order[i] = order[k] => i = k
         /\ \A n \in S : \E i \in DOMAIN order : order[i] = n
<1> DEFINE m == Cardinality(S)
           D == 1 .. m
<1>1. m \in Nat
  BY FS_CardinalityType
<1>2. order \in [D -> S] /\ \A i, k \in D : i # k => order[i] # order[k]
  BY QuickCounts DEF Quick!SetToSeqs
<1>3. IsFiniteSet(D) /\ Cardinality(D) = m
  <2>1. IsFiniteSet(D) /\ Cardinality(D) = IF 1 > m THEN 0 ELSE m - 1 + 1
    <3>1. 1 \in Int /\ m \in Int
      BY <1>1
    <3> HIDE DEF m
    <3> QED
      BY <3>1, FS_Interval
  <2> QED
    BY <1>1, <2>1
<1> HIDE DEF D
<1>4. order \in Injection(D, S)
  BY <1>2 DEF Injection, IsInjective
<1>5. order \in Surjection(D, S)
  BY <1>3, <1>4, FS_Injection
<1> QED
  BY <1>1, <1>2, <1>5 DEF Surjection, D

\* A list with further files behind it.
LEMMA Joined ==
  ASSUME NEW one, IsFileList(one), NEW two, IsFileList(two),
         \A i \in DOMAIN one : \A k \in DOMAIN two : one[i].number # two[k].number
  PROVE  /\ IsFileList(one \o two)
         /\ Len(one) \in Nat /\ Len(two) \in Nat
         /\ DOMAIN one = 1 .. Len(one) /\ DOMAIN two = 1 .. Len(two)
         /\ DOMAIN (one \o two) = 1 .. Len(one) + Len(two)
         /\ \A i \in 1 .. Len(one) + Len(two) :
              (one \o two)[i] = IF i <= Len(one) THEN one[i] ELSE two[i - Len(one)]
<1>1. PICK S : one \in Seq(S)
  BY DEF IsFileList, IsList
<1>2. PICK T : two \in Seq(T)
  BY DEF IsFileList, IsList
<1> DEFINE U == S \cup T
           all == one \o two
<1>3. one \in Seq(U) /\ two \in Seq(U)
  BY <1>1, <1>2
<1> HIDE DEF U
<1>4. /\ all \in Seq(U) /\ Len(one) \in Nat /\ Len(two) \in Nat
      /\ DOMAIN one = 1 .. Len(one) /\ DOMAIN two = 1 .. Len(two)
      /\ Len(all) = Len(one) + Len(two)
  BY <1>3
<1>5. \A i \in 1 .. Len(one) + Len(two) : all[i] = IF i <= Len(one) THEN one[i] ELSE two[i - Len(one)]
  BY <1>3
<1> HIDE DEF all
<1>6. DOMAIN all = 1 .. Len(one) + Len(two)
  BY <1>4
<1>7. \A i \in DOMAIN all :
        (i <= Len(one) => i \in DOMAIN one) /\ (~(i <= Len(one)) => i - Len(one) \in DOMAIN two)
  BY <1>4, <1>6
<1>8. \A i \in DOMAIN all : IsCandidate(all[i]) /\ all[i].number \in Nat
  BY <1>5, <1>6, <1>7 DEF IsFileList, IsCandidate
<1>9. ASSUME NEW i \in DOMAIN all, NEW k \in DOMAIN all, all[i].number = all[k].number PROVE i = k
  <2>1. i \in Nat /\ k \in Nat
    BY <1>4, <1>6
  <2>2. CASE i <= Len(one) /\ k <= Len(one)
    BY <1>5, <1>6, <1>7, <1>9, <2>2 DEF IsFileList
  <2>3. CASE i <= Len(one) /\ ~(k <= Len(one))
    BY <1>5, <1>6, <1>7, <1>9, <2>3
  <2>4. CASE ~(i <= Len(one)) /\ k <= Len(one)
    BY <1>5, <1>6, <1>7, <1>9, <2>4
  <2>5. CASE ~(i <= Len(one)) /\ ~(k <= Len(one))
    <3>1. i - Len(one) = k - Len(one)
      <4>1. all[i] = two[i - Len(one)] /\ all[k] = two[k - Len(one)]
        BY <1>5, <1>6, <2>5
      <4> QED
        BY <1>7, <1>9, <2>5, <4>1 DEF IsFileList
    <3> QED
      BY <1>4, <2>1, <3>1
  <2> QED
    BY <2>2, <2>3, <2>4, <2>5
<1>10. IsFileList(all)
  BY <1>4, <1>8, <1>9 DEF IsFileList, IsList
<1> QED
  BY <1>4, <1>5, <1>6, <1>10 DEF all

\* The ghosts, in some order.
LEMMA GhostsAre ==
  ASSUME Quick!IsVolume(volume), NEW order \in Quick!SetToSeqs(Quick!GhostNumbers)
  PROVE  LET ghosts == [i \in DOMAIN order |-> Quick!Ghost(order[i])]
         IN  /\ IsFileList(ghosts)
             /\ \A i \in DOMAIN ghosts :
                  /\ ghosts[i].number \in Quick!GhostNumbers
                  /\ ghosts[i].ghost = TRUE /\ ghosts[i].deleted = TRUE
                  /\ "usn" \in ghosts[i].evidence /\ Noted(Quick!Entries, ghosts[i])
             /\ \A n \in Quick!GhostNumbers : \E i \in DOMAIN ghosts : ghosts[i].number = n
<1> DEFINE wanted == Quick!GhostNumbers
           g(i) == Quick!Ghost(order[i])
           ghosts == [i \in DOMAIN order |-> g(i)]
           m == Cardinality(wanted)
<1>1. IsFiniteSet(wanted) /\ wanted \subseteq Known(Quick!Entries)
  <2>1. wanted \subseteq Known(Quick!Entries)
    BY JournalNames DEF Quick!GhostNumbers
  <2> HIDE DEF wanted
  <2> QED
    BY <2>1, JournalIs, KnownIsFinite, FS_Subset
<1> HIDE DEF wanted
<1>2. /\ m \in Nat /\ DOMAIN order = 1 .. m
      /\ \A i \in DOMAIN order : order[i] \in wanted
      /\ \A i, k \in DOMAIN order : order[i] = order[k] => i = k
      /\ \A n \in wanted : \E i \in DOMAIN order : order[i] = n
  <2>1. order \in Quick!SetToSeqs(wanted)
    BY DEF wanted
  <2> QED
    BY <1>1, <2>1, OrderOf
<1> HIDE DEF m
<1>3. ASSUME NEW i \in DOMAIN order
      PROVE  /\ IsCandidate(g(i)) /\ g(i).number = order[i] /\ g(i).ghost = TRUE /\ g(i).deleted = TRUE
             /\ "usn" \in g(i).evidence /\ Noted(Quick!Entries, g(i))
  <2>1. PICK n : n = order[i]
    OBVIOUS
  <2>2. n \in Known(Quick!Entries)
    BY <1>1, <1>2, <2>1
  <2>3. PICK c : c = Quick!Ghost(n)
    OBVIOUS
  <2>4. /\ IsCandidate(c) /\ c.number = n /\ c.ghost = TRUE /\ c.deleted = TRUE
        /\ "usn" \in c.evidence /\ Noted(Quick!Entries, c)
    BY <2>2, <2>3, GhostIs
  <2>5. c = g(i)
    BY <2>1, <2>3
  <2> HIDE DEF g
  <2> QED
    BY <2>1, <2>4, <2>5
<1> HIDE DEF g
<1>4. DOMAIN ghosts = 1 .. m /\ \A i \in DOMAIN ghosts : i \in DOMAIN order /\ ghosts[i] = g(i)
  BY <1>2
<1>5. \E S : ghosts \in Seq(S)
  <2> DEFINE S == {g(i) : i \in DOMAIN order}
  <2>1. \A i \in DOMAIN order : g(i) \in S
    OBVIOUS
  <2> HIDE DEF S
  <2>2. ghosts \in [1 .. m -> S]
    BY <1>2, <2>1
  <2>3. ghosts \in Seq(S)
    BY <1>2, <2>2
  <2> QED
    BY <2>3
<1> HIDE DEF ghosts
<1>9. ASSUME NEW i \in DOMAIN ghosts
      PROVE  /\ i \in DOMAIN order /\ IsCandidate(ghosts[i]) /\ ghosts[i].number = order[i]
             /\ ghosts[i].ghost = TRUE /\ ghosts[i].deleted = TRUE
             /\ "usn" \in ghosts[i].evidence /\ Noted(Quick!Entries, ghosts[i])
  <2>1. i \in DOMAIN order /\ ghosts[i] = g(i)
    BY <1>4
  <2> QED
    BY <1>3, <2>1
<1>10. \A i \in DOMAIN order : i \in DOMAIN ghosts
  BY <1>2, <1>4
<1>6. IsFileList(ghosts)
  <2>1. \A i \in DOMAIN ghosts : IsCandidate(ghosts[i]) /\ ghosts[i].number \in Nat
    BY <1>9 DEF IsCandidate
  <2>2. \A i, k \in DOMAIN ghosts : ghosts[i].number = ghosts[k].number => i = k
    <3> TAKE i, k \in DOMAIN ghosts
    <3>1. i \in DOMAIN order /\ k \in DOMAIN order
          /\ ghosts[i].number = order[i] /\ ghosts[k].number = order[k]
      BY <1>9
    <3> QED
      BY <1>2, <3>1
  <2> QED
    BY <1>5, <2>1, <2>2 DEF IsFileList, IsList
<1>7. \A n \in wanted : \E i \in DOMAIN ghosts : ghosts[i].number = n
  <2> TAKE n \in wanted
  <2>1. PICK i \in DOMAIN order : order[i] = n
    BY <1>2
  <2>2. i \in DOMAIN ghosts
    BY <1>10, <2>1
  <2> QED
    BY <1>9, <2>1, <2>2
<1>8. \A i \in DOMAIN ghosts :
        /\ ghosts[i].number \in wanted
        /\ ghosts[i].ghost = TRUE /\ ghosts[i].deleted = TRUE
        /\ "usn" \in ghosts[i].evidence /\ Noted(Quick!Entries, ghosts[i])
  BY <1>2, <1>9
<1> QED
  BY <1>6, <1>7, <1>8 DEF ghosts, g, wanted

LEMMA AddGhostsKeeps ==
  ASSUME Quick!QuickScanAssumption, QuickInv, Quick!AddGhosts
  PROVE  QuickInv'
<1>1. /\ pc = "ghosts" /\ pc' = "encode"
      /\ volume' = volume /\ index' = index /\ empties' = empties /\ errors' = errors
  BY DEF Quick!AddGhosts
<1>2. /\ Ordered /\ volume \in QuickVolumes /\ Quick!IsVolume(volume)
      /\ \A i \in DOMAIN candidates : Noted(Quick!Entries, candidates[i])
  BY <1>1, VolumeIs DEF QuickInv
<1>3. PICK order \in Quick!SetToSeqs(Quick!GhostNumbers) :
        candidates' = IF [i \in DOMAIN order |-> Quick!Ghost(order[i])] = <<>> THEN candidates
                      ELSE Quick!WithPaths(candidates \o [i \in DOMAIN order |-> Quick!Ghost(order[i])])
  BY DEF Quick!AddGhosts
<1>4. PICK list : list = candidates
  OBVIOUS
<1>5. PICK ghosts : ghosts = [i \in DOMAIN order |-> Quick!Ghost(order[i])]
  OBVIOUS
<1>6. PICK more : more = candidates'
  OBVIOUS
<1>7. PICK es : es = Quick!Entries
  OBVIOUS
<1>8. TableList(volume, index, list) /\ HoldsTable(volume, index, list) /\ IsFileList(list)
      /\ HasPaths(list) /\ Recency(list) /\ \A i \in DOMAIN list : Noted(es, list[i])
  BY <1>2, <1>4, <1>7 DEF Ordered, Gathered, Collected, TableList
<1>9. more = IF ghosts = <<>> THEN list ELSE Quick!WithPaths(list \o ghosts)
  BY <1>3, <1>4, <1>5, <1>6
<1>10. PICK wanted : wanted = Quick!GhostNumbers
  OBVIOUS
<1>11. /\ IsFileList(ghosts)
       /\ \A i \in DOMAIN ghosts :
            /\ ghosts[i].number \in wanted /\ ghosts[i].ghost = TRUE /\ ghosts[i].deleted = TRUE
            /\ "usn" \in ghosts[i].evidence /\ Noted(es, ghosts[i])
       /\ \A n \in wanted : \E i \in DOMAIN ghosts : ghosts[i].number = n
  BY <1>2, <1>5, <1>7, <1>10, GhostsAre
<1>12. /\ \A n \in wanted : \A i \in DOMAIN list : list[i].number # n
       /\ \A n \in Known(es) :
            (n <= MaxNumber /\ "delete" \in Why(es, n) /\ \A i \in DOMAIN list : list[i].number # n) =>
              n \in wanted
  BY <1>4, <1>7, <1>10, JournalNames DEF Quick!GhostNumbers, Quick!Surfaces
<1> DEFINE all == list \o ghosts
<1>13. /\ IsFileList(all)
       /\ Len(list) \in Nat /\ Len(ghosts) \in Nat
       /\ DOMAIN list = 1 .. Len(list) /\ DOMAIN ghosts = 1 .. Len(ghosts)
       /\ DOMAIN all = 1 .. Len(list) + Len(ghosts)
       /\ \A i \in 1 .. Len(list) + Len(ghosts) :
            all[i] = IF i <= Len(list) THEN list[i] ELSE ghosts[i - Len(list)]
  BY <1>8, <1>11, <1>12, Joined
<1> HIDE DEF all
<1>14. \A i \in DOMAIN list : i \in DOMAIN all /\ all[i] = list[i]
  BY <1>13
<1>15. ASSUME NEW k \in DOMAIN ghosts PROVE \E i \in DOMAIN all : all[i] = ghosts[k]
  <2>1. Len(list) + k \in 1 .. Len(list) + Len(ghosts) /\ ~(Len(list) + k <= Len(list))
        /\ (Len(list) + k) - Len(list) = k
    BY <1>13
  <2> QED
    BY <1>13, <2>1
<1>16. ASSUME NEW i \in DOMAIN all
       PROVE  \/ i \in DOMAIN list /\ all[i] = list[i]
              \/ i > Len(list) /\ i - Len(list) \in DOMAIN ghosts /\ all[i] = ghosts[i - Len(list)]
  BY <1>13
<1>17. \A i \in DOMAIN list : OfTable(volume, index, list[i]) /\ list[i].ghost = FALSE
  BY <1>8 DEF TableList, OfTable
<1>18. \A i \in DOMAIN all : all[i].ghost = FALSE => OfTable(volume, index, all[i]) /\ i \in DOMAIN list
  BY <1>11, <1>16, <1>17
<1>19. HoldsTable(volume, index, all)
  BY <1>8, <1>14 DEF HoldsTable
<1>20. Recency(all)
  <2> SUFFICES ASSUME NEW i \in DOMAIN all, NEW k \in DOMAIN all, i < k, ~all[i].ghost, ~all[k].ghost
               PROVE  /\ all[k].deleted => all[i].deleted
                      /\ all[i].deleted = all[k].deleted => all[i].time >= all[k].time
    BY DEF Recency
  <2>1. all[i].ghost = FALSE /\ all[k].ghost = FALSE
    BY <1>13 DEF IsFileList, IsCandidate
  <2>2. i \in DOMAIN list /\ k \in DOMAIN list /\ all[i] = list[i] /\ all[k] = list[k]
    BY <1>14, <1>18, <2>1
  <2>3. ~list[i].ghost /\ ~list[k].ghost
    BY <2>2
  <2>4. /\ list[k].deleted => list[i].deleted
        /\ list[i].deleted = list[k].deleted => list[i].time >= list[k].time
    BY <1>8, <2>2, <2>3 DEF Recency
  <2> QED
    BY <2>2, <2>4
<1>21. FromJournal(es, all)
  <2>1. \A i \in DOMAIN all : Noted(es, all[i])
    BY <1>8, <1>11, <1>16
  <2>2. \A i \in DOMAIN all : all[i].ghost => "usn" \in all[i].evidence /\ all[i].deleted = TRUE
    BY <1>11, <1>16, <1>17
  <2>3. ASSUME NEW n \in Known(es), n <= MaxNumber, "delete" \in Why(es, n)
        PROVE  \E i \in DOMAIN all : all[i].number = n
    <3>1. CASE \E i \in DOMAIN list : list[i].number = n
      BY <1>14, <3>1
    <3>2. CASE \A i \in DOMAIN list : list[i].number # n
      <4>1. n \in wanted
        BY <1>12, <2>3, <3>2
      <4>2. PICK k \in DOMAIN ghosts : ghosts[k].number = n
        BY <1>11, <4>1
      <4> QED
        BY <1>15, <4>2
    <3> QED
      BY <3>1, <3>2
  <2> QED
    BY <2>1, <2>2, <2>3 DEF FromJournal
<1>22. /\ AllFiles(volume, index, more) /\ HoldsTable(volume, index, more)
       /\ HasPaths(more) /\ Recency(more) /\ FromJournal(es, more)
  <2>1. CASE ghosts = <<>>
    <3>1. more = list
      BY <1>9, <2>1
    <3>2. DOMAIN ghosts = {}
      BY <2>1
    <3>3. FromJournal(es, list)
      <4>1. ASSUME NEW n \in Known(es), n <= MaxNumber, "delete" \in Why(es, n)
            PROVE  \E i \in DOMAIN list : list[i].number = n
        <5>1. n \notin wanted
          BY <1>11, <3>2
        <5> QED
          BY <1>12, <4>1, <5>1
      <4>2. \A i \in DOMAIN list : list[i].ghost => "usn" \in list[i].evidence /\ list[i].deleted = TRUE
        BY <1>17
      <4> QED
        BY <1>8, <4>1, <4>2 DEF FromJournal
    <3>4. AllFiles(volume, index, list)
      BY <1>8 DEF AllFiles, TableList
    <3> QED
      BY <1>8, <3>1, <3>3, <3>4
  <2>2. CASE ghosts # <<>>
    <3>1. more = Quick!WithPaths(all)
      BY <1>9, <2>2 DEF all
    <3>2. /\ IsFileList(more) /\ HasPaths(more) /\ DOMAIN more = DOMAIN all
          /\ \A i \in DOMAIN all :
               /\ SameFile(all[i], more[i]) /\ more[i].name = all[i].name
               /\ more[i].parent = all[i].parent /\ more[i].evidence = all[i].evidence
      BY <1>13, <3>1, WithPathsIs
    <3>3. Updates(all, more)
      BY <3>2 DEF Updates
    <3>4. Recency(more)
      BY <1>20, <3>3, UpdatesInOrder
    <3>5. \A i \in DOMAIN all : /\ more[i].number = all[i].number /\ more[i].ghost = all[i].ghost
                                /\ more[i].deleted = all[i].deleted
      BY <3>2 DEF SameFile
    <3>6. AllFiles(volume, index, more)
      <4>1. \A i \in DOMAIN more : more[i].ghost = FALSE => OfTable(volume, index, more[i])
        <5> TAKE i \in DOMAIN more
        <5> HAVE more[i].ghost = FALSE
        <5>1. OfTable(volume, index, all[i])
          BY <1>18, <3>2, <3>5
        <5> QED
          BY <3>2, <5>1, SameOfTable
      <4> QED
        BY <3>2, <4>1 DEF AllFiles
    <3>7. HoldsTable(volume, index, more)
      BY <1>19, <3>2, <3>5, Zenon DEF HoldsTable
    <3>8. FromJournal(es, more)
      <4>1. \A i \in DOMAIN more : Noted(es, more[i])
        <5> TAKE i \in DOMAIN more
        <5>1. Noted(es, all[i])
          BY <1>21, <3>2 DEF FromJournal
        <5> QED
          BY <3>2, <3>5, <5>1, NotedStays
      <4>2. \A i \in DOMAIN more : more[i].ghost => "usn" \in more[i].evidence /\ more[i].deleted = TRUE
        BY <1>21, <3>2, <3>5 DEF FromJournal
      <4>3. \A n \in Known(es) :
              (n <= MaxNumber /\ "delete" \in Why(es, n)) => \E i \in DOMAIN more : more[i].number = n
        BY <1>21, <3>2, <3>5 DEF FromJournal
      <4> QED
        BY <4>1, <4>2, <4>3 DEF FromJournal
    <3> QED
      BY <3>2, <3>4, <3>6, <3>7, <3>8
  <2> QED
    BY <2>1, <2>2
<1>23. Complete'
  <2>1. Swept(volume, index, empties, errors) /\ Ended(volume, index, empties)
    BY <1>2 DEF Ordered, Gathered, Collected
  <2> QED
    BY <1>1, <1>6, <1>7, <1>22, <2>1, SameJournal DEF Complete
<1> QED
  BY <1>1, <1>2, <1>23 DEF QuickInv

LEMMA EncodeKeeps ==
  ASSUME Quick!QuickScanAssumption, QuickInv, Quick!Encode
  PROVE  QuickInv'
<1>1. /\ pc = "encode" /\ pc' = "done" /\ candidates' = candidates
      /\ volume' = volume /\ index' = index /\ empties' = empties /\ errors' = errors
  BY DEF Quick!Encode
<1>2. Complete /\ volume \in QuickVolumes
  BY <1>1 DEF QuickInv
<1>3. Complete'
  BY <1>1, <1>2, SameJournal DEF Complete
<1> QED
  BY <1>1, <1>2, <1>3 DEF QuickInv

LEMMA QuickContinues ==
  ASSUME Quick!QuickScanAssumption, QuickInv, Quick!Next
  PROVE  QuickInv'
<1>1. CASE Quick!ScanFails
  <2>1. Quick!Return(15)
    BY <1>1 DEF Quick!ScanFails
  <2>2. 15 # 0
    OBVIOUS
  <2> QED
    BY <2>1, <2>2, ReturnKeeps
<1> QED
  BY <1>1, OpenKeeps, ScanRecordKeeps, ScanEndsKeeps, BuildPathsKeeps, SortKeeps, ReadJournalKeeps,
     MatchKeeps, AddGhostsKeeps, EncodeKeeps DEF Quick!Next

LEMMA QuickStutters ==
  ASSUME QuickInv, UNCHANGED <<volume, pc, status>>, UNCHANGED quickVars
  PROVE  QuickInv'
<1>1. /\ volume' = volume /\ pc' = pc /\ status' = status /\ index' = index /\ empties' = empties
      /\ errors' = errors /\ candidates' = candidates
  BY DEF quickVars
<1>2. (Quick!Entries)' = Quick!Entries
  BY <1>1, SameJournal
<1> QED
  BY <1>1, <1>2 DEF QuickInv, Complete, Ordered, Gathered, Collected

-----------------------------------------------------------------------------
(* What a quick scan that succeeds promises *)

LEMMA TableSeen ==
  ASSUME Quick!QuickScanAssumption, Quick!IsVolume(volume), Complete
  PROVE  Quick!TableIsSeen
<1> DEFINE slots == volume.slots
<1> SUFFICES ASSUME NEW i \in 1 .. Quick!SmallerOf(Len(slots), Quick!MaxRecords),
                    slots[i].kind \in {"record", "bad"}, ~Quick!LongGapBefore(i)
             PROVE  \/ i - 1 \in errors
                    \/ \E k \in DOMAIN candidates :
                         candidates[k].number = i - 1 /\ candidates[k].deleted = ~slots[i].inUse
  BY DEF Quick!TableIsSeen
<1>1. /\ Swept(volume, index, empties, errors) /\ Ended(volume, index, empties)
      /\ AllFiles(volume, index, candidates) /\ HoldsTable(volume, index, candidates)
  BY DEF Complete
<1>2. /\ Len(slots) \in Nat /\ index \in Nat /\ empties \in Nat /\ empties <= index
      /\ EmptyLimit \in Nat \ {0} /\ LimitOf(volume) \in Nat
  BY <1>1 DEF Swept, Quick!IsVolume, Quick!QuickScanAssumption, LimitOf
<1>3. Quick!MaxRecords = LimitOf(volume)
  BY DEF Quick!MaxRecords, LimitOf
<1> HIDE DEF slots
<1>4. i \in Nat /\ i >= 1 /\ i <= Len(slots) /\ i <= LimitOf(volume)
  BY <1>2, <1>3 DEF Quick!SmallerOf
<1>5. i <= index
  <2> SUFFICES ASSUME index < i PROVE FALSE
    BY <1>2, <1>4
  <2>1. empties = EmptyLimit
    BY <1>1, <1>2, <1>4 DEF Ended, slots
  <2> DEFINE k == (index - EmptyLimit) + 1
  <2>2. k \in 1 .. i - EmptyLimit /\ k = (index - empties) + 1 /\ k + EmptyLimit - 1 = index
    BY <1>2, <1>4, <2>1
  <2> HIDE DEF k
  <2>3. \A n \in k .. k + EmptyLimit - 1 : volume.slots[n].kind = "empty"
    BY <1>1, <2>2 DEF Swept
  <2> QED
    BY <2>2, <2>3 DEF Quick!LongGapBefore
<1>6. i \in 1 .. index
  BY <1>2, <1>4, <1>5
<1>7. CASE slots[i].kind = "bad"
  BY <1>1, <1>6, <1>7 DEF Swept, slots
<1>8. CASE slots[i].kind = "record"
  <2>1. PICK k \in DOMAIN candidates : candidates[k].number = i - 1 /\ candidates[k].ghost = FALSE
    BY <1>1, <1>6, <1>8 DEF HoldsTable, slots
  <2>2. OfTable(volume, index, candidates[k])
    BY <1>1, <2>1 DEF AllFiles
  <2>3. (i - 1) + 1 = i
    BY <1>4
  <2> QED
    BY <2>1, <2>2, <2>3 DEF OfTable, slots
<1> QED
  BY <1>7, <1>8

LEMMA DeletionsAreListed ==
  ASSUME Complete
  PROVE  volume.journal # <<>> =>
           \A n \in {k \in Quick!Numbers : "delete" \in Quick!ReasonsOf(k) /\ k <= MaxNumber} :
             \E i \in DOMAIN candidates :
               /\ candidates[i].number = n
               /\ "usn" \in candidates[i].evidence
               /\ candidates[i].deleted \/ volume.slots[n + 1].inUse
               /\ \A k \in DOMAIN candidates : candidates[k].number = n => k = i
<1> SUFFICES ASSUME volume.journal # <<>>, NEW n \in Quick!Numbers, "delete" \in Quick!ReasonsOf(n), n <= MaxNumber
             PROVE  \E i \in DOMAIN candidates :
                      /\ candidates[i].number = n
                      /\ "usn" \in candidates[i].evidence
                      /\ candidates[i].deleted \/ volume.slots[n + 1].inUse
                      /\ \A k \in DOMAIN candidates : candidates[k].number = n => k = i
  OBVIOUS
<1>1. PICK list : list = candidates
  OBVIOUS
<1>2. PICK es : es = Quick!Entries
  OBVIOUS
<1>3. /\ AllFiles(volume, index, list) /\ FromJournal(es, list)
  BY <1>1, <1>2 DEF Complete
<1>4. n \in Known(es) /\ "delete" \in Why(es, n) /\ Why(es, n) # {}
  BY <1>2, JournalNames
<1>5. PICK i \in DOMAIN list : list[i].number = n
  BY <1>3, <1>4 DEF FromJournal
<1>6. "usn" \in list[i].evidence
  BY <1>3, <1>4, <1>5 DEF FromJournal, Noted
<1>7. list[i].deleted \/ volume.slots[n + 1].inUse
  <2>1. IsCandidate(list[i])
    BY <1>3 DEF AllFiles, IsFileList
  <2>2. CASE list[i].ghost = TRUE
    BY <1>3, <2>2 DEF FromJournal
  <2>3. CASE list[i].ghost = FALSE
    <3>1. list[i].deleted = ~volume.slots[n + 1].inUse
      BY <1>3, <1>5, <2>3 DEF AllFiles, OfTable
    <3> QED
      BY <3>1
  <2> QED
    BY <2>1, <2>2, <2>3 DEF IsCandidate
<1>8. \A k \in DOMAIN list : list[k].number = n => k = i
  BY <1>3, <1>5 DEF AllFiles, IsFileList
<1> QED
  BY <1>1, <1>5, <1>6, <1>7, <1>8

LEMMA NewestNamed ==
  ASSUME Quick!IsVolume(volume), Complete
  PROVE  volume.journal # <<>> =>
           \A i \in DOMAIN candidates :
             \A k \in Quick!EntriesOf(candidates[i].number) :
               ( /\ Quick!Renames(Quick!Entries[k])
                 /\ \A o \in Quick!EntriesOf(candidates[i].number) \ {k} :
                      Quick!Entries[o].usn < Quick!Entries[k].usn ) =>
                 /\ candidates[i].name = Quick!Entries[k].name
                 /\ candidates[i].parent = Quick!Entries[k].parent
<1> SUFFICES ASSUME volume.journal # <<>>, NEW i \in DOMAIN candidates,
                    NEW k \in Quick!EntriesOf(candidates[i].number),
                    Quick!Renames(Quick!Entries[k]),
                    \A o \in Quick!EntriesOf(candidates[i].number) \ {k} :
                      Quick!Entries[o].usn < Quick!Entries[k].usn
             PROVE  /\ candidates[i].name = Quick!Entries[k].name
                    /\ candidates[i].parent = Quick!Entries[k].parent
  OBVIOUS
<1>1. PICK c : c = candidates[i]
  OBVIOUS
<1>2. PICK es : es = Quick!Entries
  OBVIOUS
<1>3. Noted(es, c)
  BY <1>1, <1>2 DEF Complete, FromJournal
<1>4. Quick!EntriesOf(c.number) = Told(es, c.number)
  BY <1>2, JournalNames
<1>5. k \in Told(es, c.number) /\ \A o \in Told(es, c.number) \ {k} : es[o].usn < es[k].usn
  BY <1>1, <1>2, <1>4
<1>6. IsJournal(es)
  BY <1>2, JournalIs
<1>7. c.number \in Known(es) /\ Newest(es, c.number) = es[k]
  BY <1>5, <1>6, NewestAlone
<1>8. c.name = es[k].name /\ c.parent = es[k].parent
  BY <1>2, <1>3, <1>7 DEF Noted
<1> QED
  BY <1>1, <1>2, <1>8

LEMMA RecentAreFirst ==
  ASSUME Complete
  PROVE  Quick!RecentFirst
<1> DEFINE time(c) == Quick!FirstName(volume.slots[c.number + 1].names).time
<1> SUFFICES ASSUME NEW i \in DOMAIN candidates, NEW k \in DOMAIN candidates, i < k,
                    ~candidates[i].ghost, ~candidates[k].ghost
             PROVE  /\ candidates[k].deleted => candidates[i].deleted
                    /\ candidates[i].deleted = candidates[k].deleted =>
                         time(candidates[i]) >= time(candidates[k])
  BY DEF Quick!RecentFirst
<1>1. PICK list : list = candidates
  OBVIOUS
<1>2. AllFiles(volume, index, list) /\ Recency(list)
  BY <1>1 DEF Complete
<1>3. i \in DOMAIN list /\ k \in DOMAIN list /\ ~list[i].ghost /\ ~list[k].ghost
  BY <1>1
<1>4. list[i].ghost = FALSE /\ list[k].ghost = FALSE
  BY <1>2, <1>3 DEF AllFiles, IsFileList, IsCandidate
<1>5. list[i].time = time(list[i]) /\ list[k].time = time(list[k])
  BY <1>2, <1>3, <1>4 DEF AllFiles, OfTable
<1> HIDE DEF time
<1>6. /\ list[k].deleted => list[i].deleted
      /\ list[i].deleted = list[k].deleted => list[i].time >= list[k].time
  BY <1>2, <1>3 DEF Recency
<1> QED
  BY <1>1, <1>5, <1>6

\* A candidate of the table with its path, alone.
LEMMA AloneIs ==
  ASSUME Quick!QuickScanAssumption, NEW c, IsCandidate(c)
  PROVE  LET d == Quick!WithPaths(<<c>>)[1]
         IN  /\ d.name = c.name /\ d.named = c.named /\ d.packed = c.packed /\ d.evidence = c.evidence
             /\ c.name # Quick!None => d.path # <<>>
<1> DEFINE list == <<c>>
           more == Quick!WithPaths(list)
<1>1. list \in Seq({c}) /\ DOMAIN list = 1 .. 1 /\ list[1] = c
  OBVIOUS
<1> HIDE DEF list
<1>2. \A i \in DOMAIN list : i = 1
  BY <1>1
<1>3. IsFileList(list)
  BY <1>1, <1>2 DEF IsFileList, IsList, IsCandidate
<1>4. /\ IsFileList(more) /\ HasPaths(more) /\ DOMAIN more = DOMAIN list
      /\ \A i \in DOMAIN list :
           /\ SameFile(list[i], more[i]) /\ more[i].name = list[i].name
           /\ more[i].evidence = list[i].evidence
  BY <1>3, WithPathsIs
<1> HIDE DEF more
<1>5. 1 \in DOMAIN list /\ 1 \in DOMAIN more
  BY <1>1, <1>4
<1>6. more[1].name = c.name /\ more[1].named = c.named /\ more[1].packed = c.packed
      /\ more[1].evidence = c.evidence
  BY <1>1, <1>4, <1>5 DEF SameFile
<1>7. c.name # Quick!None => more[1].path # <<>>
  <2> HAVE c.name # Quick!None
  <2>1. more[1].path = Quick!PathOf(more, more[1])
    BY <1>4, <1>5, <1>6 DEF HasPaths
  <2>2. Quick!PathOf(more, more[1]) # <<>>
    BY <1>4, PathLength DEF IsFileList
  <2> QED
    BY <2>1, <2>2
<1> QED
  BY <1>6, <1>7 DEF more, list

LEMMA TierFalls ==
  ASSUME NEW c, NEW d, Quick!Score(c) \in Nat, Quick!Score(d) \in Nat, Quick!Score(c) >= Quick!Score(d)
  PROVE  Quick!Tier(c) <= Quick!Tier(d)
BY DEF Quick!Tier

LEMMA CertaintyIsKept ==
  ASSUME Quick!QuickScanAssumption, Quick!IsVolume(volume), Complete
  PROVE  \A i \in DOMAIN candidates :
           ~candidates[i].ghost =>
             Quick!Tier(candidates[i])
               <= Quick!Tier(Quick!WithPaths(<<Quick!Candidate(volume.slots[candidates[i].number + 1],
                                             candidates[i].number)>>)[1])
<1> SUFFICES ASSUME NEW i \in DOMAIN candidates, ~candidates[i].ghost
             PROVE  Quick!Tier(candidates[i])
                      <= Quick!Tier(Quick!WithPaths(<<Quick!Candidate(volume.slots[candidates[i].number + 1],
                                                    candidates[i].number)>>)[1])
  OBVIOUS
<1>1. PICK list : list = candidates
  OBVIOUS
<1>2. AllFiles(volume, index, list) /\ HasPaths(list) /\ Swept(volume, index, empties, errors)
  BY <1>1 DEF Complete
<1>3. PICK c : c = list[i]
  OBVIOUS
<1>4. IsCandidate(c) /\ c.ghost = FALSE /\ OfTable(volume, index, c)
  BY <1>1, <1>2, <1>3 DEF AllFiles, IsFileList, IsCandidate
<1>5. PICK s : s = volume.slots[c.number + 1]
  OBVIOUS
<1>6. Quick!IsSlot(s) /\ c.number \in Nat
  <2>1. c.number \in Nat /\ index \in Nat /\ index <= Len(volume.slots) /\ c.number < index
    BY <1>2, <1>4 DEF IsCandidate, OfTable, Swept
  <2>2. Len(volume.slots) \in Nat /\ DOMAIN volume.slots = 1 .. Len(volume.slots)
    BY DEF Quick!IsVolume
  <2>3. c.number + 1 \in DOMAIN volume.slots
    BY <2>1, <2>2
  <2> QED
    BY <1>5, <2>1, <2>3 DEF Quick!IsVolume
<1>7. PICK b : b = Quick!Candidate(s, c.number)
  OBVIOUS
<1>8. PICK d : d = Quick!WithPaths(<<b>>)[1]
  OBVIOUS
<1>9. /\ IsCandidate(b) /\ b.named = s.named /\ b.packed = s.packed
      /\ b.name = Quick!FirstName(s.names).name /\ b.evidence = {"mft"}
  BY <1>6, <1>7, CandidateOf
<1>10. /\ d.name = b.name /\ d.named = b.named /\ d.packed = b.packed /\ d.evidence = b.evidence
       /\ b.name # Quick!None => d.path # <<>>
  BY <1>8, <1>9, AloneIs
<1>11. /\ "mft" \in c.evidence /\ c.named = d.named /\ c.packed = d.packed
       /\ d.name # Quick!None => c.name # Quick!None
  BY <1>4, <1>5, <1>9, <1>10 DEF OfTable
<1>12. c.name # Quick!None => c.path # <<>>
  <2> HAVE c.name # Quick!None
  <2>1. c.path = Quick!PathOf(list, c)
    BY <1>1, <1>2, <1>3 DEF HasPaths
  <2>2. Quick!PathOf(list, c) # <<>>
    BY <1>2, PathLength DEF AllFiles, IsFileList
  <2> QED
    BY <2>1, <2>2
<1>13. Quick!Score(c) \in Nat /\ Quick!Score(d) \in Nat /\ Quick!Score(c) >= Quick!Score(d)
  <2> DEFINE plus(e) == (IF "mft" \in e.evidence THEN 80 ELSE 0)
                          + (IF "usn" \in e.evidence THEN 12 ELSE 0)
             whole(e) == IF e.name # Quick!None /\ e.path # <<>> THEN 8 ELSE -15
             part(e) == IF Quick!Partial(e) THEN -30 ELSE 0
             sum(e) == (plus(e) + whole(e)) + part(e)
  <2>1. \A e : Quick!Score(e) = IF sum(e) < 0 THEN 0 ELSE IF sum(e) > 100 THEN 100 ELSE sum(e)
    BY DEF Quick!Score
  <2>2. plus(d) = 80 /\ plus(c) \in {80, 92}
    <3>1. "mft" \in d.evidence /\ "usn" \notin d.evidence
      BY <1>9, <1>10
    <3>2. plus(d) = 80
      BY <3>1
    <3>3. plus(c) \in {80, 92}
      BY <1>11
    <3> QED
      BY <3>2, <3>3
  <2>3. whole(c) \in {8, -15} /\ whole(d) \in {8, -15} /\ whole(c) >= whole(d)
    BY <1>11, <1>12
  <2>4. part(c) \in {-30, 0} /\ part(d) \in {-30, 0} /\ part(c) >= part(d)
    BY <1>10, <1>11, <1>12 DEF Quick!Partial
  <2> HIDE DEF plus, whole, part
  <2> QED
    BY <2>1, <2>2, <2>3, <2>4
<1>14. Quick!Tier(c) <= Quick!Tier(d)
  BY <1>13, TierFalls
<1> QED
  BY <1>1, <1>3, <1>5, <1>7, <1>8, <1>14

LEMMA QuickPromises ==
  ASSUME Quick!QuickScanAssumption, QuickInv
  PROVE  /\ Quick!TableIsSeen /\ Quick!DeletionsListed /\ Quick!CertaintyKept
         /\ Quick!PathsAgree /\ Quick!NewestName /\ Quick!RecentFirst
<1>1. CASE Quick!Finished
  <2>1. Complete /\ Quick!IsVolume(volume)
    BY <1>1, VolumeIs DEF Quick!Finished, QuickInv
  <2>2. Quick!TableIsSeen
    BY <2>1, TableSeen
  <2>3. Quick!DeletionsListed
    BY <2>1, DeletionsAreListed DEF Quick!DeletionsListed
  <2>4. Quick!CertaintyKept
    BY <2>1, CertaintyIsKept DEF Quick!CertaintyKept
  <2>5. Quick!NewestName
    BY <2>1, NewestNamed DEF Quick!NewestName
  <2>6. Quick!RecentFirst
    BY <2>1, RecentAreFirst
  <2>7. Quick!PathsAgree
    <3>1. PICK list : list = candidates
      OBVIOUS
    <3>2. IsFileList(list) /\ HasPaths(list)
      BY <2>1, <3>1 DEF Complete, AllFiles
    <3>3. \A i \in DOMAIN list : list[i].name # Quick!None =>
            LET c == list[i]
                up == Quick!Namer(list, c.parent)
            IN  IF up = 0 THEN c.path = <<c.name>>
                ELSE (~Quick!Contains(Quick!Ancestors(list, list[up].parent), list[up].number)
                        /\ Len(list[up].path) < MaxSegments) =>
                       c.path = Append(list[up].path, c.name)
      BY <3>2, PathsFollow
    <3> QED
      BY <3>1, <3>3, Zenon DEF Quick!PathsAgree, Quick!OnLoop
  <2> QED
    BY <2>2, <2>3, <2>4, <2>5, <2>6, <2>7
<1>2. CASE ~Quick!Finished
  BY <1>2 DEF Quick!TableIsSeen, Quick!DeletionsListed, Quick!CertaintyKept,
     Quick!PathsAgree, Quick!NewestName, Quick!RecentFirst
<1> QED
  BY <1>1, <1>2

-----------------------------------------------------------------------------
(* The directories of a FAT volume *)

\* The slots of the directory that begins at a cluster.
FatDir(c) == Fat!Joined(Fat!Chain(c).clusters)

FatSlot == Fat!Slot \cup {Fat!Outside}

\* FAT32 knows three kinds of slots; what lies outside cannot be read.
OfFat32(s) == \A i \in 1 .. Len(s) : s[i].kind \in {"end", "long", "short", "outside"}

\* Every long slot stands before one of the same file.
LongsLead(s) ==
  \A i \in 1 .. Len(s) :
    s[i].kind = "long" => i < Len(s) /\ s[i + 1].text[1] = s[i].text[1]

\* What holds of the slots of a cluster and of a directory.
AreSlots(s) ==
  /\ s \in Seq(FatSlot)
  /\ ~volume.exfat => OfFat32(s)
  /\ Fat!LongBeforeOwn => LongsLead(s)

LEMMA OutsideIs == AreSlots(<<Fat!Outside>>)
<1>1. Fat!Outside \in FatSlot /\ Fat!Outside.kind = "outside"
  BY DEF Fat!Outside, FatSlot
<1>2. /\ <<Fat!Outside>> \in Seq(FatSlot) /\ Len(<<Fat!Outside>>) = 1
      /\ <<Fat!Outside>>[1] = Fat!Outside
  BY <1>1
<1>3. \A i \in 1 .. Len(<<Fat!Outside>>) : <<Fat!Outside>>[i].kind = "outside"
  BY <1>1, <1>2
<1> QED
  BY <1>2, <1>3 DEF AreSlots, OfFat32, LongsLead

LEMMA SlotsAre ==
  ASSUME Fat!IsVolume(volume), NEW c
  PROVE  AreSlots(Fat!SlotsOf(c))
<1>1. CASE c \in volume.inside
  <2>1. c \in 2 .. volume.last /\ Fat!SlotsOf(c) = volume.slots[c]
    BY <1>1 DEF Fat!IsVolume, Fat!SlotsOf
  <2>2. PICK s : s = volume.slots[c]
    OBVIOUS
  <2>3. s \in Seq(FatSlot)
    <3>1. volume.slots \in [2 .. volume.last -> Seq(Fat!Slot)]
      BY DEF Fat!IsVolume
    <3>2. PICK S : S = Fat!Slot
      OBVIOUS
    <3>3. s \in Seq(S) /\ S \subseteq FatSlot
      BY <2>1, <2>2, <3>1, <3>2 DEF FatSlot
    <3> QED
      BY <3>3
  <2>4. DOMAIN s = 1 .. Len(s)
    BY <2>3
  <2>5. ~volume.exfat => OfFat32(s)
    BY <2>1, <2>2, <2>4 DEF Fat!IsVolume, OfFat32
  <2>6. Fat!LongBeforeOwn => LongsLead(s)
    <3>1. c \in DOMAIN volume.slots
      BY <2>1 DEF Fat!IsVolume
    <3> QED
      BY <2>2, <2>4, <3>1 DEF Fat!LongBeforeOwn, LongsLead
  <2> QED
    BY <2>1, <2>2, <2>3, <2>5, <2>6 DEF AreSlots
<1>2. CASE c \notin volume.inside
  <2>1. Fat!SlotsOf(c) = <<Fat!Outside>>
    BY <1>2 DEF Fat!SlotsOf
  <2> QED
    BY <2>1, OutsideIs
<1> QED
  BY <1>1, <1>2

\* One after the other, they are such slots again.
LEMMA SlotsJoin ==
  ASSUME NEW s, NEW t, AreSlots(s), AreSlots(t)
  PROVE  AreSlots(s \o t)
<1>1. s \in Seq(FatSlot) /\ t \in Seq(FatSlot)
  BY DEF AreSlots
<1>2. /\ s \o t \in Seq(FatSlot)
      /\ Len(s \o t) = Len(s) + Len(t) /\ Len(s) \in Nat /\ Len(t) \in Nat
      /\ \A i \in 1 .. Len(s) : (s \o t)[i] = s[i]
      /\ \A i \in Len(s) + 1 .. Len(s) + Len(t) : (s \o t)[i] = t[i - Len(s)]
  BY <1>1
<1>3. PICK r : r = s \o t
  OBVIOUS
<1>4. ASSUME ~volume.exfat PROVE OfFat32(r)
  <2>1. OfFat32(s) /\ OfFat32(t)
    BY <1>4 DEF AreSlots
  <2> SUFFICES ASSUME NEW i \in 1 .. Len(r)
               PROVE  r[i].kind \in {"end", "long", "short", "outside"}
    BY DEF OfFat32
  <2>2. CASE i \in 1 .. Len(s)
    BY <1>2, <1>3, <2>1, <2>2 DEF OfFat32
  <2>3. CASE i \notin 1 .. Len(s)
    <3>1. i - Len(s) \in 1 .. Len(t) /\ r[i] = t[i - Len(s)]
      BY <1>2, <1>3, <2>3
    <3> QED
      BY <2>1, <3>1 DEF OfFat32
  <2> QED
    BY <2>2, <2>3
<1>5. ASSUME Fat!LongBeforeOwn PROVE LongsLead(r)
  <2>1. LongsLead(s) /\ LongsLead(t)
    BY <1>5 DEF AreSlots
  <2> SUFFICES ASSUME NEW i \in 1 .. Len(r), r[i].kind = "long"
               PROVE  i < Len(r) /\ r[i + 1].text[1] = r[i].text[1]
    BY DEF LongsLead
  <2>2. CASE i \in 1 .. Len(s)
    <3>1. r[i] = s[i]
      BY <1>2, <1>3, <2>2
    <3>2. i < Len(s) /\ s[i + 1].text[1] = s[i].text[1]
      BY <2>1, <2>2, <3>1 DEF LongsLead
    <3>3. i + 1 \in 1 .. Len(s) /\ i < Len(r)
      BY <1>2, <1>3, <2>2, <3>2
    <3>4. r[i + 1] = s[i + 1]
      BY <1>2, <1>3, <3>3
    <3> QED
      BY <3>1, <3>2, <3>3, <3>4
  <2>3. CASE i \notin 1 .. Len(s)
    <3>1. PICK j : j = i - Len(s)
      OBVIOUS
    <3>2. j \in 1 .. Len(t) /\ r[i] = t[j]
      BY <1>2, <1>3, <2>3, <3>1
    <3>3. j < Len(t) /\ t[j + 1].text[1] = t[j].text[1]
      BY <2>1, <3>2 DEF LongsLead
    <3>4. i + 1 \in Len(s) + 1 .. Len(s) + Len(t) /\ (i + 1) - Len(s) = j + 1 /\ i < Len(r)
      BY <1>2, <1>3, <2>3, <3>1, <3>2, <3>3
    <3>5. r[i + 1] = t[j + 1]
      BY <1>2, <1>3, <3>4
    <3> QED
      BY <3>2, <3>3, <3>4, <3>5
  <2> QED
    BY <2>2, <2>3
<1> QED
  BY <1>2, <1>3, <1>4, <1>5 DEF AreSlots

\* f joins the slots of the clusters one by one.
Joins(cs, n, f) ==
  f = [k \in 0 .. n |-> IF k = 0 THEN <<>> ELSE f[k - 1] \o Fat!SlotsOf(cs[k])]

LEMMA JoinsExist ==
  ASSUME NEW cs
  PROVE  \A n \in Nat : \E f : Joins(cs, n, f)
<1> DEFINE T == {n \in Nat : \E f : Joins(cs, n, f)}
<1>1. 0 \in T
  <2> DEFINE f == [k \in 0 .. 0 |-> <<>>]
  <2>1. f = [k \in 0 .. 0 |-> IF k = 0 THEN <<>> ELSE f[k - 1] \o Fat!SlotsOf(cs[k])]
    OBVIOUS
  <2>2. Joins(cs, 0, f)
    <3> HIDE DEF f
    <3> QED
      BY <2>1 DEF Joins
  <2> QED
    BY <2>2
<1>2. ASSUME NEW n \in T PROVE n + 1 \in T
  <2>1. PICK f : Joins(cs, n, f)
    OBVIOUS
  <2> DEFINE g == [k \in 0 .. n + 1 |-> IF k = 0 THEN <<>> ELSE f[k - 1] \o Fat!SlotsOf(cs[k])]
  <2>2. \A k \in 0 .. n : g[k] = f[k]
    BY <2>1 DEF Joins
  <2>3. \A k \in 0 .. n + 1 : k # 0 => k - 1 \in 0 .. n
    OBVIOUS
  <2>4. \A k \in 0 .. n + 1 : k # 0 => f[k - 1] \o Fat!SlotsOf(cs[k]) = g[k - 1] \o Fat!SlotsOf(cs[k])
    BY <2>2, <2>3
  <2>5. g = [k \in 0 .. n + 1 |-> IF k = 0 THEN <<>> ELSE g[k - 1] \o Fat!SlotsOf(cs[k])]
    BY <2>4
  <2>6. Joins(cs, n + 1, g)
    <3> HIDE DEF g
    <3> QED
      BY <2>5 DEF Joins
  <2> QED
    BY <2>6
<1>3. T = Nat
  <2>1. T \subseteq Nat
    OBVIOUS
  <2> HIDE DEF T
  <2> QED
    BY <1>1, <1>2, <2>1, Inductive
<1> QED
  BY <1>3

LEMMA JoinedAre ==
  ASSUME Fat!IsVolume(volume), NEW cs, Len(cs) \in Nat
  PROVE  AreSlots(Fat!Joined(cs))
<1> DEFINE n == Len(cs)
           f == CHOOSE g : Joins(cs, n, g)
<1>1. Fat!Joined(cs) = f[n]
  BY DEF Fat!Joined, Joins
<1>2. Joins(cs, n, f)
  BY JoinsExist
<1> HIDE DEF f, n
<1>3. \A k \in 0 .. n : f[k] = IF k = 0 THEN <<>> ELSE f[k - 1] \o Fat!SlotsOf(cs[k])
  BY <1>2 DEF Joins
<1> DEFINE T == {k \in Nat : k <= n => AreSlots(f[k])}
<1>4. n \in Nat
  BY DEF n
<1>5. 0 \in T
  <2>1. f[0] = <<>>
    BY <1>3, <1>4
  <2>2. AreSlots(<<>>)
    BY DEF AreSlots, OfFat32, LongsLead
  <2> QED
    BY <2>1, <2>2
<1>6. ASSUME NEW k \in T PROVE k + 1 \in T
  <2> SUFFICES ASSUME k + 1 <= n PROVE AreSlots(f[k + 1])
    OBVIOUS
  <2>1. AreSlots(f[k]) /\ k + 1 \in 0 .. n /\ (k + 1) - 1 = k /\ k + 1 # 0
    BY <1>4
  <2>2. f[k + 1] = f[k] \o Fat!SlotsOf(cs[k + 1])
    BY <1>3, <2>1
  <2>3. AreSlots(Fat!SlotsOf(cs[k + 1]))
    BY SlotsAre
  <2> QED
    BY <2>1, <2>2, <2>3, SlotsJoin
<1>7. T = Nat
  <2>1. T \subseteq Nat
    OBVIOUS
  <2> HIDE DEF T
  <2> QED
    BY <1>5, <1>6, <2>1, Inductive
<1>8. AreSlots(f[n])
  BY <1>4, <1>7
<1> QED
  BY <1>1, <1>8

\* A set of numbers that is not empty has its least one as minimum.
LEMMA MinIs ==
  ASSUME NEW S \in SUBSET Nat, S # {}
  PROVE  Fat!Min(S) \in S /\ \A m \in S : Fat!Min(S) <= m
<1>1. \E n \in S : \A m \in S : n <= m
  BY NatLeast
<1> QED
  BY <1>1 DEF Fat!Min

LEMMA DirAre ==
  ASSUME Fat!IsVolume(volume), NEW c \in Nat
  PROVE  AreSlots(FatDir(c))
<1>1. Len(Fat!Chain(c).clusters) \in Nat
  <2> DEFINE d[k \in 1 .. MaxClusters] ==
               IF k = 1 THEN c
               ELSE IF d[k - 1] \in DOMAIN volume.table THEN volume.table[d[k - 1]] ELSE 0
             stops == {k \in 1 .. MaxClusters :
                  \/ d[k] \notin DOMAIN volume.table
                  \/ \E j \in 1 .. k - 1 : d[j] = d[k]
                  \/ Fat!EndsChain(volume.table[d[k]]) \/ Fat!BadEntry(volume.table[d[k]])}
             last == Fat!Min(stops)
  <2>1. Fat!Chain(c) =
          CASE c < 2 -> [status |-> 71, clusters |-> <<>>]
            [] c >= 2 /\ stops = {} -> [status |-> 72, clusters |-> <<>>]
            [] OTHER -> [status |-> Fat!ChainStatusAt(d, last),
                         clusters |-> [k \in 1 .. last |-> d[k]]]
    BY DEF Fat!Chain
  <2>2. stops \subseteq Nat
    OBVIOUS
  <2> HIDE DEF d, stops
  <2>3. CASE c < 2 \/ stops = {}
    <3>1. c < 2 \/ c >= 2
      OBVIOUS
    <3>2. Fat!Chain(c).clusters = <<>>
      BY <2>1, <2>3, <3>1
    <3> QED
      BY <3>2
  <2>4. CASE ~(c < 2 \/ stops = {})
    <3>1. c >= 2 /\ stops # {}
      BY <2>4
    <3>2. last \in Nat
      BY <2>2, <3>1, MinIs
    <3> HIDE DEF last
    <3>3. Fat!Chain(c).clusters = [k \in 1 .. last |-> d[k]]
      BY <2>1, <2>4, <3>1
    <3> QED
      BY <3>2, <3>3
  <2> QED
    BY <2>3, <2>4
<1> QED
  BY <1>1, JoinedAre DEF FatDir
-----------------------------------------------------------------------------
(* One directory of a FAT32 volume *)

\* The entries that were listed under a directory.
EntriesOf(es, c) == {i \in DOMAIN es : es[i].directory = c}

\* The first n slots have no end among them.
Clear(s, n) == n \in 0 .. Len(s) /\ \A i \in 1 .. n : s[i].kind # "end"

DeletedTo(s, n) == {i \in Fat!Named(s) : i <= n /\ s[i].deleted}

\* What the scan has done with the first n slots of directory c: as many entries
\* as there are deleted ones, and it knows the directories they lead to.
Taken(s, n, c, es, known) ==
  /\ Clear(s, n)
  /\ Cardinality(EntriesOf(es, c)) = Cardinality(DeletedTo(s, n))
  /\ \A i \in Fat!Leading(s) : i <= n => s[i].start \in known

ReadOut(s, n) == n < Len(s) => s[n + 1].kind = "end"

\* The long parts gathered after n slots are texts of the long slots right before,
\* and there are some if there is one with a text.
PartsAre(s, n, q) ==
  /\ q \in Seq({s[j].text : j \in Fat!LongBefore(s, n + 1)})
  /\ q = <<>> => Fat!LongBefore(s, n + 1) = {}

\* They belong to the slot that follows.
SameOwner(s, n, q) ==
  q # <<>> => n < Len(s) /\ \A k \in DOMAIN q : q[k][1] = s[n + 1].text[1]

\* The name of a slot after the parts q.
NameAfter(q, slot) ==
  IF q # <<>> THEN q ELSE IF slot.text = Fat!NoText THEN <<>> ELSE <<slot.text>>

LEMMA LongBeforeIs ==
  ASSUME NEW s, NEW n \in Nat
  PROVE  /\ s[n + 1].kind = "long" =>
              Fat!LongBefore(s, n + 2) =
                Fat!LongBefore(s, n + 1)
                  \cup (IF s[n + 1].text = Fat!NoText THEN {} ELSE {n + 1})
         /\ s[n + 1].kind # "long" => Fat!LongBefore(s, n + 2) = {}
<1>1. ASSUME s[n + 1].kind = "long", NEW j
      PROVE  j \in Fat!LongBefore(s, n + 2) <=>
                j \in Fat!LongBefore(s, n + 1)
                  \cup (IF s[n + 1].text = Fat!NoText THEN {} ELSE {n + 1})
  <2>1. CASE j \in 1 .. n
    <3>1. (\A k \in j .. (n + 2) - 1 : s[k].kind = "long")
             <=> (\A k \in j .. (n + 1) - 1 : s[k].kind = "long")
      BY <1>1, <2>1
    <3> QED
      BY <2>1, <3>1 DEF Fat!LongBefore
  <2>2. CASE j = n + 1
    BY <1>1, <2>2 DEF Fat!LongBefore
  <2>3. CASE j \notin 1 .. n + 1
    BY <2>3 DEF Fat!LongBefore
  <2> QED
    BY <2>1, <2>2, <2>3
<1>2. ASSUME s[n + 1].kind # "long" PROVE Fat!LongBefore(s, n + 2) = {}
  <2> SUFFICES ASSUME NEW j \in Fat!LongBefore(s, n + 2) PROVE FALSE
    OBVIOUS
  <2>1. j \in 1 .. n + 1 /\ \A k \in j .. n + 1 : s[k].kind = "long"
    BY DEF Fat!LongBefore
  <2> QED
    BY <1>2, <2>1
<1> QED
  BY <1>1, <1>2

\* A slot counts if the scan finds a name for it.
LEMMA NamedIs ==
  ASSUME NEW s \in Seq(FatSlot), NEW n \in Nat, n < Len(s), NEW q, PartsAre(s, n, q),
         s[n + 1].kind = "short"
  PROVE  n + 1 \in Fat!Named(s) <=> ~s[n + 1].label /\ NameAfter(q, s[n + 1]) # <<>>
<1>1. n + 1 \in DOMAIN s
  OBVIOUS
<1>2. q # <<>> <=> Fat!LongBefore(s, n + 1) # {}
  <2>1. q # <<>> => \E j : j \in Fat!LongBefore(s, n + 1)
    <3> HAVE q # <<>>
    <3>1. q[1] \in {s[j].text : j \in Fat!LongBefore(s, n + 1)}
      BY DEF PartsAre
    <3> QED
      BY <3>1
  <2> QED
    BY <2>1 DEF PartsAre
<1>3. <<s[n + 1].text>> # <<>>
  OBVIOUS
<1> QED
  BY <1>1, <1>2, <1>3 DEF Fat!Named, NameAfter

\* A directory whose name has nothing of a dot is entered.
LEMMA LeadingIs ==
  ASSUME NEW s \in Seq(FatSlot), NEW n \in Nat, n < Len(s), NEW q, PartsAre(s, n, q),
         n + 1 \in Fat!Leading(s)
  PROVE  /\ s[n + 1].dir /\ s[n + 1].start >= 2
         /\ ~Fat!IsDot(NameAfter(q, s[n + 1]))
<1>1. n + 1 \in Fat!Named(s) /\ s[n + 1].dir /\ s[n + 1].start >= 2 /\ Fat!Dotless(s, n + 1)
  BY DEF Fat!Leading
<1>2. ASSUME Fat!IsDot(NameAfter(q, s[n + 1])) PROVE FALSE
  <2>1. Len(NameAfter(q, s[n + 1])) = 1 /\ NameAfter(q, s[n + 1])[1] \in Fat!Dots
    BY <1>2 DEF Fat!IsDot
  <2>2. CASE q # <<>>
    <3>1. q[1] \in {s[j].text : j \in Fat!LongBefore(s, n + 1)}
      BY <2>2 DEF PartsAre
    <3>2. NameAfter(q, s[n + 1]) = q
      BY <2>2 DEF NameAfter
    <3> QED
      BY <1>1, <2>1, <3>1, <3>2 DEF Fat!Dotless
  <2>3. CASE q = <<>>
    <3>1. NameAfter(q, s[n + 1]) \in {<<>>, <<s[n + 1].text>>}
      BY <2>3 DEF NameAfter
    <3>2. NameAfter(q, s[n + 1])[1] = s[n + 1].text
      BY <2>1, <3>1
    <3> QED
      BY <1>1, <2>1, <3>2 DEF Fat!Dotless
  <2> QED
    BY <2>2, <2>3
<1> QED
  BY <1>1, <1>2

\* After a long slot its text stands before the others.
LEMMA PartsGrow ==
  ASSUME NEW s \in Seq(FatSlot), NEW n \in Nat, n < Len(s), NEW q, PartsAre(s, n, q),
         s[n + 1].kind = "long",
         NEW r, r = IF s[n + 1].text = Fat!NoText THEN q ELSE <<s[n + 1].text>> \o q
  PROVE  /\ PartsAre(s, n + 1, r)
         /\ LongsLead(s) /\ SameOwner(s, n, q) => SameOwner(s, n + 1, r)
<1> DEFINE T == {s[j].text : j \in Fat!LongBefore(s, n + 1)}
           U == {s[j].text : j \in Fat!LongBefore(s, n + 2)}
<1>1. T \subseteq U /\ (s[n + 1].text # Fat!NoText => s[n + 1].text \in U)
  BY LongBeforeIs
<1>2. q \in Seq(T) /\ (q = <<>> => Fat!LongBefore(s, n + 1) = {})
  BY DEF PartsAre
<1>3. PICK t : t = s[n + 1].text
  OBVIOUS
<1> HIDE DEF T, U
<1>4. q \in Seq(U)
  BY <1>1, <1>2
<1>5. t # Fat!NoText => <<t>> \o q \in Seq(U) /\ <<t>> \o q # <<>>
  BY <1>1, <1>3, <1>4
<1>6. r \in Seq(U)
  BY <1>3, <1>4, <1>5
<1>7. r = <<>> => Fat!LongBefore(s, n + 2) = {}
  <2> HAVE r = <<>>
  <2>1. t = Fat!NoText /\ q = <<>>
    BY <1>3, <1>5
  <2> QED
    BY <1>2, <1>3, <2>1, LongBeforeIs
<1>8. PartsAre(s, n + 1, r)
  <2>1. (n + 1) + 1 = n + 2
    OBVIOUS
  <2> QED
    BY <1>6, <1>7, <2>1 DEF PartsAre, U
<1>9. ASSUME LongsLead(s), SameOwner(s, n, q) PROVE SameOwner(s, n + 1, r)
  <2> SUFFICES ASSUME r # <<>>
               PROVE  n + 1 < Len(s) /\ \A k \in DOMAIN r : r[k][1] = s[(n + 1) + 1].text[1]
    BY DEF SameOwner
  <2>1. n + 1 < Len(s) /\ s[(n + 1) + 1].text[1] = t[1]
    BY <1>3, <1>9 DEF LongsLead
  <2>2. \A k \in DOMAIN q : q[k][1] = t[1]
    BY <1>2, <1>3, <1>9 DEF SameOwner
  <2>3. \A k \in DOMAIN r : r[k][1] = t[1]
    <3>1. CASE t = Fat!NoText
      BY <1>3, <2>2, <3>1
    <3>2. CASE t # Fat!NoText
      <4>1. r = <<t>> \o q
        BY <1>3, <3>2
      <4> TAKE k \in DOMAIN r
      <4>2. Len(r) = Len(q) + 1 /\ DOMAIN r = 1 .. Len(r) /\ DOMAIN q = 1 .. Len(q)
        BY <1>4, <1>6, <4>1
      <4>3. CASE k = 1
        <5>1. r[1] = t
          BY <1>4, <4>1
        <5> QED
          BY <4>3, <5>1
      <4>4. CASE k # 1
        <5>1. k - 1 \in 1 .. Len(q)
          BY <1>2, <4>2, <4>4
        <5>2. r[k] = q[k - 1]
          BY <1>4, <4>1, <4>2, <4>4
        <5> QED
          BY <2>2, <4>2, <5>1, <5>2
      <4> QED
        BY <4>3, <4>4
    <3> QED
      BY <3>1, <3>2
  <2> QED
    BY <2>1, <2>3
<1> QED
  BY <1>8, <1>9

\* After any other slot there are none.
LEMMA PartsCleared ==
  ASSUME NEW s, NEW n \in Nat, s[n + 1].kind # "long"
  PROVE  PartsAre(s, n + 1, <<>>) /\ SameOwner(s, n + 1, <<>>)
<1>1. (n + 1) + 1 = n + 2
  OBVIOUS
<1> QED
  BY <1>1, LongBeforeIs DEF PartsAre, SameOwner

LEMMA NoParts ==
  ASSUME NEW s
  PROVE  PartsAre(s, 0, <<>>) /\ SameOwner(s, 0, <<>>)
BY DEF PartsAre, SameOwner, Fat!LongBefore

LEMMA ClearGrows ==
  ASSUME NEW s, NEW n, Clear(s, n), Len(s) \in Nat, n < Len(s), s[n + 1].kind # "end"
  PROVE  Clear(s, n + 1)
BY DEF Clear

\* Slots that do not count change nothing.
LEMMA PassOver ==
  ASSUME NEW s \in Seq(FatSlot), NEW n, NEW c, NEW es, NEW known, Taken(s, n, c, es, known),
         n < Len(s), s[n + 1].kind # "end", n + 1 \notin Fat!Named(s)
  PROVE  Taken(s, n + 1, c, es, known)
<1>1. Clear(s, n + 1) /\ n \in Nat
  BY ClearGrows DEF Taken, Clear
<1>2. Fat!Named(s) \subseteq Nat
  BY DEF Fat!Named
<1>3. DeletedTo(s, n + 1) = DeletedTo(s, n)
  BY <1>1, <1>2 DEF DeletedTo
<1>4. \A i \in Fat!Leading(s) : i <= n + 1 => i <= n
  BY <1>1, <1>2 DEF Fat!Leading
<1> QED
  BY <1>1, <1>3, <1>4 DEF Taken

LEMMA DeletedFinite ==
  ASSUME NEW s \in Seq(FatSlot), NEW n
  PROVE  IsFiniteSet(DeletedTo(s, n))
<1>1. DeletedTo(s, n) \subseteq 1 .. Len(s)
  BY DEF DeletedTo, Fat!Named
<1>2. IsFiniteSet(1 .. Len(s))
  BY FS_Interval
<1> QED
  BY <1>1, <1>2, FS_Subset

LEMMA EntriesFinite ==
  ASSUME NEW E, NEW es \in Seq(E), NEW c
  PROVE  IsFiniteSet(EntriesOf(es, c))
<1>1. EntriesOf(es, c) \subseteq 1 .. Len(es)
  BY DEF EntriesOf
<1>2. IsFiniteSet(1 .. Len(es))
  BY FS_Interval
<1> QED
  BY <1>1, <1>2, FS_Subset

LEMMA EntriesAppended ==
  ASSUME NEW E, NEW es \in Seq(E), NEW e \in E, NEW c
  PROVE  /\ e.directory = c => EntriesOf(Append(es, e), c) = EntriesOf(es, c) \cup {Len(es) + 1}
         /\ e.directory # c => EntriesOf(Append(es, e), c) = EntriesOf(es, c)
         /\ Len(es) + 1 \notin EntriesOf(es, c)
<1>1. PICK fs : fs = Append(es, e)
  OBVIOUS
<1>2. /\ DOMAIN es = 1 .. Len(es) /\ Len(es) \in Nat
      /\ DOMAIN fs = 1 .. Len(es) + 1
      /\ fs[Len(es) + 1] = e /\ \A i \in 1 .. Len(es) : fs[i] = es[i]
  BY <1>1
<1> QED
  BY <1>1, <1>2 DEF EntriesOf

\* A slot with a name is listed if it is deleted, and entered if it leads on.
LEMMA TakeSlot ==
  ASSUME NEW s \in Seq(FatSlot), NEW n, NEW c, NEW E, NEW es \in Seq(E), NEW e \in E,
         NEW known, NEW more, Taken(s, n, c, es, known), known \subseteq more,
         n < Len(s), s[n + 1].kind # "end", n + 1 \in Fat!Named(s),
         e.directory = c,
         n + 1 \in Fat!Leading(s) => s[n + 1].start \in more
  PROVE  Taken(s, n + 1, c, IF s[n + 1].deleted THEN Append(es, e) ELSE es, more)
<1>1. Clear(s, n + 1) /\ n \in Nat
  BY ClearGrows DEF Taken, Clear
<1>2. Fat!Named(s) \subseteq Nat /\ Fat!Leading(s) \subseteq Fat!Named(s)
  BY DEF Fat!Named, Fat!Leading
<1>3. \A i \in Fat!Leading(s) : i <= n + 1 => s[i].start \in more
  <2>1. \A i \in Fat!Leading(s) : i <= n + 1 => i <= n \/ i = n + 1
    BY <1>1, <1>2
  <2> QED
    BY <2>1 DEF Taken
<1>4. CASE s[n + 1].deleted
  <2>1. DeletedTo(s, n + 1) = DeletedTo(s, n) \cup {n + 1} /\ n + 1 \notin DeletedTo(s, n)
    BY <1>1, <1>2, <1>4 DEF DeletedTo
  <2>2. Cardinality(DeletedTo(s, n + 1)) = Cardinality(DeletedTo(s, n)) + 1
    BY <2>1, DeletedFinite, FS_AddElement
  <2>3. Cardinality(EntriesOf(Append(es, e), c)) = Cardinality(EntriesOf(es, c)) + 1
    <3>1. /\ EntriesOf(Append(es, e), c) = EntriesOf(es, c) \cup {Len(es) + 1}
          /\ Len(es) + 1 \notin EntriesOf(es, c) /\ IsFiniteSet(EntriesOf(es, c))
      BY EntriesAppended, EntriesFinite
    <3> QED
      BY <3>1, FS_AddElement
  <2> QED
    BY <1>1, <1>3, <1>4, <2>2, <2>3 DEF Taken
<1>5. CASE ~s[n + 1].deleted
  <2>1. DeletedTo(s, n + 1) = DeletedTo(s, n)
    BY <1>1, <1>2, <1>5 DEF DeletedTo
  <2> QED
    BY <1>1, <1>3, <1>5, <2>1 DEF Taken
<1> QED
  BY <1>4, <1>5

\* What is done in another directory changes nothing.
LEMMA TakenElsewhere ==
  ASSUME NEW s, NEW n, NEW c, NEW E, NEW es \in Seq(E), NEW e \in E,
         NEW known, NEW more, Taken(s, n, c, es, known), known \subseteq more,
         e.directory # c, NEW fs, fs \in {es, Append(es, e)}
  PROVE  Taken(s, n, c, fs, more)
<1>1. EntriesOf(fs, c) = EntriesOf(es, c)
  <2>1. EntriesOf(Append(es, e), c) = EntriesOf(es, c)
    BY EntriesAppended
  <2> QED
    BY <2>1
<1> QED
  BY <1>1 DEF Taken
-----------------------------------------------------------------------------
(* The invariant of the walk through the directories *)

FatText == {s.text : s \in FatSlot}
FatPlace == [cluster : Nat, path : Seq(Seq(FatText))]
FatEntry == [name : Seq(FatText), path : Seq(Seq(FatText)), dir : BOOLEAN,
             start : Nat, directory : Nat]

FatTypes ==
  /\ pc \in {"open", "directories", "slots", "done"}
  /\ visited \subseteq Nat
  /\ queue \in Seq(FatPlace) /\ at \in FatPlace
  /\ parts \in Seq(FatText) /\ entries \in Seq(FatEntry)

\* The directories that were scanned or wait to be.
KnownDirs == visited \cup {queue[k].cluster : k \in DOMAIN queue}

\* Directory c has been read to its end.
Scanned(c) == \E n \in Nat : ReadOut(FatDir(c), n) /\ Taken(FatDir(c), n, c, entries, KnownDirs)

\* Where the scan stands in the directory it reads.
Standing ==
  \E n \in Nat :
    /\ rest = SubSeq(FatDir(at.cluster), n + 1, Len(FatDir(at.cluster)))
    /\ Taken(FatDir(at.cluster), n, at.cluster, entries, KnownDirs)
    /\ PartsAre(FatDir(at.cluster), n, parts)
    /\ Fat!LongBeforeOwn => SameOwner(FatDir(at.cluster), n, parts)

\* The entry is one of a deleted slot of its directory, with its own name.
OwnEntry(s, e) ==
  \E i \in Fat!Named(s) :
    /\ Clear(s, i) /\ s[i].deleted /\ s[i].start = e.start
    /\ \A k \in DOMAIN e.name : e.name[k][1] = s[i].text[1]

\* The scan goes on, or has come to its end below its limit.
Goes == pc \in {"directories", "slots"}
EndedBelow == pc = "done" /\ status = 0 /\ Len(entries) < MaxEntries

\* Where long slots stand before their own entry, no entry has a name of another.
Owned ==
  Fat!LongBeforeOwn =>
    \A i \in DOMAIN entries : OwnEntry(FatDir(entries[i].directory), entries[i])

FatWalk ==
  /\ FatTypes
  /\ \A i \in DOMAIN entries : entries[i].directory \in visited
  /\ Owned
  /\ pc = "open" => visited = {} /\ entries = <<>>
  /\ pc # "done" => status = 0
  /\ Goes \/ EndedBelow => volume.root \in KnownDirs
  /\ Goes \/ EndedBelow => \A c \in visited : (pc = "slots" => c # at.cluster) => Scanned(c)
  /\ pc = "slots" => at.cluster \in visited /\ Standing
  /\ EndedBelow => queue = <<>>

FatInv == volume \in FatVolumes /\ (~volume.exfat => FatWalk)

LEMMA FatVolumeIs ==
  ASSUME Fat!VolumesAssumption, FatInv
  PROVE  Fat!IsVolume(volume)
BY DEF Fat!VolumesAssumption, FatInv

LEMMA FatStarts ==
  ASSUME Fat!VolumesAssumption, Fat!Init
  PROVE  FatInv
<1>1. queue = <<>> /\ visited = {} /\ parts = <<>> /\ entries = <<>> /\ pc = "open"
      /\ status = 0 /\ volume \in FatVolumes /\ at = [cluster |-> 0, path |-> <<>>]
  BY DEF Fat!Init
<1>2. FatTypes
  <2>1. at \in FatPlace
    <3>1. <<>> \in Seq(Seq(FatText))
      OBVIOUS
    <3> QED
      BY <1>1, <3>1 DEF FatPlace
  <2> QED
    BY <1>1, <2>1 DEF FatTypes
<1> QED
  BY <1>1, <1>2 DEF FatInv, FatWalk, Goes, EndedBelow, Owned

\* While the volume stays the same, so do its directories.
LEMMA DirKept ==
  ASSUME volume' = volume
  PROVE  \A c : FatDir(c)' = FatDir(c)
BY DEF FatDir, Fat!Chain, Fat!Joined, Fat!SlotsOf, Fat!ChainStatusAt

LEMMA OwnKept ==
  ASSUME volume' = volume
  PROVE  Fat!LongBeforeOwn' = Fat!LongBeforeOwn
BY DEF Fat!LongBeforeOwn
LEMMA ScannedKept ==
  ASSUME volume' = volume, entries' = entries, KnownDirs \subseteq KnownDirs', NEW c, Scanned(c)
  PROVE  Scanned(c)'
<1>1. PICK n \in Nat : ReadOut(FatDir(c), n) /\ Taken(FatDir(c), n, c, entries, KnownDirs)
  BY DEF Scanned
<1>2. Taken(FatDir(c), n, c, entries, KnownDirs')
  BY <1>1 DEF Taken
<1>3. FatDir(c)' = FatDir(c)
  BY DirKept
<1> QED
  BY <1>1, <1>2, <1>3 DEF Scanned

LEMMA ScannedElsewhere ==
  ASSUME FatTypes, volume' = volume, KnownDirs \subseteq KnownDirs', NEW c, Scanned(c),
         NEW e \in FatEntry, e.directory # c, entries' \in {entries, Append(entries, e)}
  PROVE  Scanned(c)'
<1>1. PICK n \in Nat : ReadOut(FatDir(c), n) /\ Taken(FatDir(c), n, c, entries, KnownDirs)
  BY DEF Scanned
<1>2. Taken(FatDir(c), n, c, entries', KnownDirs')
  <2>1. PICK es : es = entries
    OBVIOUS
  <2>2. PICK fs : fs = entries'
    OBVIOUS
  <2>3. PICK known : known = KnownDirs
    OBVIOUS
  <2>4. PICK more : more = KnownDirs'
    OBVIOUS
  <2>5. PICK s : s = FatDir(c)
    OBVIOUS
  <2>6. es \in Seq(FatEntry) /\ fs \in {es, Append(es, e)} /\ known \subseteq more
    BY <2>1, <2>2, <2>3, <2>4 DEF FatTypes
  <2>7. Taken(s, n, c, fs, more)
    BY <1>1, <2>1, <2>3, <2>5, <2>6, TakenElsewhere
  <2> QED
    BY <2>2, <2>4, <2>5, <2>7
<1>3. FatDir(c)' = FatDir(c)
  BY DirKept
<1> QED
  BY <1>1, <1>2, <1>3 DEF Scanned

\* The entries stay what they are as long as none is added.
LEMMA OwnedKept ==
  ASSUME volume' = volume, entries' = entries, Owned
  PROVE  Owned'
<1>1. PICK es : es = entries
  OBVIOUS
<1>2. entries' = es
  BY <1>1
<1>3. \A i \in DOMAIN es : FatDir(es[i].directory)' = FatDir(es[i].directory)
  BY DirKept
<1>4. Fat!LongBeforeOwn' => \A i \in DOMAIN es : OwnEntry(FatDir(es[i].directory), es[i])
  BY <1>1, OwnKept DEF Owned
<1>5. Fat!LongBeforeOwn' => \A i \in DOMAIN es : OwnEntry(FatDir(es[i].directory)', es[i])
  BY <1>3, <1>4
<1> QED
  BY <1>2, <1>5 DEF Owned

\* The call ends with an error.
LEMMA FatErrorKeeps ==
  ASSUME FatWalk, NEW STATE s, Fat!Returns(s), s # 0
  PROVE  FatWalk'
<1>1. pc' = "done" /\ status' # 0
      /\ UNCHANGED <<volume, queue, visited, at, rest, parts, entries>>
  BY DEF Fat!Returns
<1>2. FatTypes'
  BY <1>1 DEF FatWalk, FatTypes
<1>3. \A i \in DOMAIN entries' : entries'[i].directory \in visited'
  BY <1>1 DEF FatWalk
<1>4. Owned'
  BY <1>1, OwnedKept DEF FatWalk
<1>5. ~Goes' /\ ~EndedBelow'
  BY <1>1 DEF Goes, EndedBelow
<1> QED
  BY <1>1, <1>2, <1>3, <1>4, <1>5 DEF FatWalk

LEMMA FatOpenKeeps ==
  ASSUME Fat!VolumesAssumption, Fat!IsVolume(volume), FatWalk, Fat!Open
  PROVE  FatWalk'
<1>1. CASE volume.access # "ok"
  <2>1. Fat!Returns(Fat!AccessStatus[volume.access])
    BY <1>1 DEF Fat!Open
  <2>2. Fat!AccessStatus[volume.access] # 0
    BY <1>1 DEF Fat!IsVolume, Fat!AccessStatus
  <2> QED
    BY <2>1, <2>2, FatErrorKeeps
<1>2. CASE volume.access = "ok"
  <2>1. /\ pc = "open" /\ pc' = "directories"
        /\ queue' = <<[cluster |-> volume.root, path |-> <<>>]>>
        /\ UNCHANGED <<volume, visited, at, rest, parts, entries, status>>
    BY <1>2 DEF Fat!Open
  <2>2. [cluster |-> volume.root, path |-> <<>>] \in FatPlace
    <3>1. <<>> \in Seq(Seq(FatText)) /\ volume.root \in Nat
      BY DEF Fat!IsVolume
    <3> QED
      BY <3>1 DEF FatPlace
  <2>3. FatTypes'
    BY <2>1, <2>2 DEF FatWalk, FatTypes
  <2>4. visited' = {} /\ entries' = <<>> /\ status' = 0
    BY <2>1 DEF FatWalk
  <2>5. volume.root \in KnownDirs'
    <3>1. 1 \in DOMAIN queue' /\ queue'[1].cluster = volume.root
      BY <2>1
    <3> QED
      BY <3>1 DEF KnownDirs
  <2>6. volume' = volume /\ pc' = "directories"
    BY <2>1
  <2> QED
    BY <2>3, <2>4, <2>5, <2>6 DEF FatWalk, EndedBelow, Owned
<1> QED
  BY <1>1, <1>2

\* The next directory of the queue.
LEMMA QueueFalls ==
  ASSUME NEW q \in Seq(FatPlace), q # <<>>
  PROVE  /\ Tail(q) \in Seq(FatPlace) /\ Head(q) \in FatPlace
         /\ {q[k].cluster : k \in DOMAIN q}
              = {Head(q).cluster} \cup {Tail(q)[k].cluster : k \in DOMAIN Tail(q)}
<1>1. /\ Tail(q) \in Seq(FatPlace) /\ Head(q) = q[1] /\ Head(q) \in FatPlace
      /\ Len(q) \in Nat /\ Len(q) >= 1
      /\ DOMAIN q = 1 .. Len(q) /\ DOMAIN Tail(q) = 1 .. Len(q) - 1
      /\ \A k \in 1 .. Len(q) - 1 : Tail(q)[k] = q[k + 1]
  OBVIOUS
<1>2. ASSUME NEW k \in DOMAIN q
      PROVE  q[k].cluster \in {Head(q).cluster} \cup {Tail(q)[m].cluster : m \in DOMAIN Tail(q)}
  <2>1. CASE k = 1
    BY <1>1, <2>1
  <2>2. CASE k # 1
    <3>1. k - 1 \in DOMAIN Tail(q) /\ (k - 1) + 1 = k
      BY <1>1, <2>2
    <3>2. Tail(q)[k - 1] = q[k]
      BY <1>1, <3>1
    <3> QED
      BY <3>1, <3>2
  <2> QED
    BY <2>1, <2>2
<1>3. ASSUME NEW m \in DOMAIN Tail(q)
      PROVE  \E k \in DOMAIN q : Tail(q)[m].cluster = q[k].cluster
  <2>1. m + 1 \in DOMAIN q /\ Tail(q)[m] = q[m + 1]
    BY <1>1
  <2> QED
    BY <2>1
<1>4. \E k \in DOMAIN q : Head(q).cluster = q[k].cluster
  BY <1>1
<1> QED
  BY <1>1, <1>2, <1>3, <1>4

\* A directory of which nothing is read yet and under which nothing is listed.
LEMMA NothingTaken ==
  ASSUME NEW s \in Seq(FatSlot), NEW c, NEW es, NEW known,
         \A i \in DOMAIN es : es[i].directory # c
  PROVE  Taken(s, 0, c, es, known)
<1>1. EntriesOf(es, c) = {} /\ DeletedTo(s, 0) = {}
  BY DEF EntriesOf, DeletedTo, Fat!Named
<1>2. Clear(s, 0)
  BY DEF Clear
<1>3. \A i \in Fat!Leading(s) : ~(i <= 0)
  BY DEF Fat!Leading, Fat!Named
<1> QED
  BY <1>1, <1>2, <1>3 DEF Taken

LEMMA NextDirectoryKeeps ==
  ASSUME Fat!IsVolume(volume), ~volume.exfat, FatWalk, Fat!NextDirectory
  PROVE  FatWalk'
<1>1. pc = "directories" /\ queue # <<>>
  BY DEF Fat!NextDirectory
<1>2. PICK d : d = Head(queue)
  OBVIOUS
<1>3. /\ Tail(queue) \in Seq(FatPlace) /\ d \in FatPlace /\ d.cluster \in Nat
      /\ {queue[k].cluster : k \in DOMAIN queue}
           = {d.cluster} \cup {Tail(queue)[k].cluster : k \in DOMAIN Tail(queue)}
  <2>1. PICK q : q = queue
    OBVIOUS
  <2>2. q \in Seq(FatPlace) /\ q # <<>>
    BY <1>1, <2>1 DEF FatWalk, FatTypes
  <2> QED
    BY <1>2, <2>1, <2>2, QueueFalls DEF FatPlace
<1>4. /\ volume.root \in KnownDirs /\ status = 0
      /\ \A c \in visited : Scanned(c)
  BY <1>1 DEF FatWalk, Goes
<1>5. CASE d.cluster \in visited /\ queue' = Tail(queue)
           /\ UNCHANGED <<volume, pc, visited, at, rest, parts, entries, status>>
  <2>1. KnownDirs' = KnownDirs
    BY <1>3, <1>5 DEF KnownDirs
  <2>2. FatTypes'
    BY <1>3, <1>5 DEF FatWalk, FatTypes
  <2>3. \A i \in DOMAIN entries' : entries'[i].directory \in visited'
    BY <1>5 DEF FatWalk
  <2>4. Owned'
    BY <1>5, OwnedKept DEF FatWalk
  <2>5. \A c \in visited' : Scanned(c)'
    BY <1>4, <1>5, <2>1, ScannedKept
  <2>6. pc' = "directories" /\ status' = 0 /\ volume' = volume
    BY <1>1, <1>4, <1>5
  <2>7. ~EndedBelow'
    BY <2>6 DEF EndedBelow
  <2> QED
    BY <1>4, <2>1, <2>2, <2>3, <2>4, <2>5, <2>6, <2>7 DEF FatWalk
<1>6. CASE \E s : s # 0 /\ Fat!Returns(s)
  BY <1>6, FatErrorKeeps
<1>7. CASE /\ d.cluster \notin visited
           /\ queue' = Tail(queue) /\ visited' = visited \cup {d.cluster} /\ at' = d
           /\ rest' = FatDir(d.cluster) /\ parts' = <<>> /\ pc' = "slots"
           /\ UNCHANGED <<volume, entries, status>>
  <2>1. KnownDirs' = KnownDirs
    BY <1>3, <1>7 DEF KnownDirs
  <2>2. FatTypes'
    <3>1. visited' \subseteq Nat /\ at' \in FatPlace
      BY <1>3, <1>7 DEF FatWalk, FatTypes
    <3>2. parts' \in Seq(FatText)
      BY <1>7
    <3> QED
      BY <1>3, <1>7, <3>1, <3>2 DEF FatWalk, FatTypes
  <2>3. \A i \in DOMAIN entries' : entries'[i].directory \in visited'
    BY <1>7 DEF FatWalk
  <2>4. Owned'
    BY <1>7, OwnedKept DEF FatWalk
  <2>5. \A c \in visited' : c # at'.cluster => Scanned(c)'
    BY <1>4, <1>7, <2>1, ScannedKept
  <2>6. Standing'
    <3>1. PICK s : s = FatDir(d.cluster)
      OBVIOUS
    <3>2. s \in Seq(FatSlot)
      BY <1>3, <3>1, DirAre DEF AreSlots
    <3>3. FatDir(d.cluster)' = s
      BY <1>7, <3>1, DirKept
    <3>4. Taken(s, 0, d.cluster, entries', KnownDirs')
      <4>1. PICK es : es = entries'
        OBVIOUS
      <4>2. \A i \in DOMAIN es : es[i].directory # d.cluster
        BY <1>7, <4>1 DEF FatWalk
      <4> QED
        BY <3>2, <4>1, <4>2, NothingTaken
    <3>5. rest' = SubSeq(s, 0 + 1, Len(s))
      BY <1>7, <3>1, <3>2
    <3>6. PartsAre(s, 0, <<>>) /\ SameOwner(s, 0, <<>>)
      BY NoParts
    <3> QED
      BY <1>7, <3>3, <3>4, <3>5, <3>6 DEF Standing
  <2>7. pc' = "slots" /\ status' = 0 /\ volume' = volume /\ at'.cluster \in visited'
    BY <1>4, <1>7
  <2>8. ~EndedBelow'
    BY <2>7 DEF EndedBelow
  <2> QED
    BY <1>4, <2>1, <2>2, <2>3, <2>4, <2>5, <2>6, <2>7, <2>8 DEF FatWalk
<1> QED
  BY <1>2, <1>5, <1>6, <1>7 DEF Fat!NextDirectory, Fat!Dropped, FatDir
LEMMA SeqSame ==
  ASSUME NEW S, NEW q \in Seq(S), NEW t \in Seq(S), Len(q) = Len(t),
         \A k \in 1 .. Len(t) : q[k] = t[k]
  PROVE  q = t
<1>1. q = [k \in 1 .. Len(q) |-> q[k]]
  OBVIOUS
<1>2. t = [k \in 1 .. Len(t) |-> t[k]]
  OBVIOUS
<1> QED
  BY <1>1, <1>2

\* What is left of a directory after n slots.
LEMMA RestIs ==
  ASSUME NEW S, NEW s \in Seq(S), NEW n \in Nat, n <= Len(s)
  PROVE  LET r == SubSeq(s, n + 1, Len(s))
         IN /\ r = <<>> <=> n = Len(s)
            /\ n < Len(s) => /\ Head(r) = s[n + 1] /\ s[n + 1] \in S
                             /\ Tail(r) = SubSeq(s, (n + 1) + 1, Len(s))
<1>0. PICK r : r = SubSeq(s, n + 1, Len(s))
  OBVIOUS
<1>1. Len(s) \in Nat /\ r \in Seq(S) /\ Len(r) = Len(s) - n
  BY <1>0
<1>2. ASSUME n < Len(s)
      PROVE  /\ Head(r) = s[n + 1] /\ s[n + 1] \in S
             /\ Tail(r) = SubSeq(s, (n + 1) + 1, Len(s))
  <2>1. \A k \in 1 .. Len(r) : r[k] = s[n + k]
    BY <1>0
  <2>2. Len(r) >= 1 /\ Head(r) = r[1]
    BY <1>1, <1>2
  <2>3. PICK t : t = SubSeq(s, (n + 1) + 1, Len(s))
    OBVIOUS
  <2>4. t \in Seq(S) /\ Len(t) = Len(s) - (n + 1)
    BY <1>1, <1>2, <2>3
  <2>5. \A k \in 1 .. Len(t) : t[k] = s[(n + 1) + k]
    BY <1>1, <1>2, <2>3
  <2>6. Tail(r) \in Seq(S) /\ Len(Tail(r)) = Len(t)
    <3>1. PICK q : q = r
      OBVIOUS
    <3>2. q \in Seq(S) /\ Len(q) >= 1
      BY <1>1, <2>2, <3>1
    <3>3. q # <<>>
      BY <3>2
    <3>4. Tail(q) \in Seq(S) /\ Len(Tail(q)) = Len(q) - 1
      BY <3>2, <3>3
    <3> QED
      BY <1>1, <1>2, <2>4, <3>1, <3>4
  <2>7. \A k \in 1 .. Len(t) : Tail(r)[k] = t[k]
    <3> TAKE k \in 1 .. Len(t)
    <3>1. Tail(r)[k] = r[k + 1] /\ k + 1 \in 1 .. Len(r) /\ n + (k + 1) = (n + 1) + k
      BY <1>1, <1>2, <2>2, <2>4
    <3> QED
      BY <2>1, <2>5, <3>1
  <2>8. Tail(r) = t
    <3>1. PICK q : q = Tail(r)
      OBVIOUS
    <3>2. q \in Seq(S) /\ Len(q) = Len(t) /\ \A k \in 1 .. Len(t) : q[k] = t[k]
      BY <2>6, <2>7, <3>1
    <3>3. q = t
      BY <2>4, <3>2, SeqSame
    <3> QED
      BY <3>1, <3>3
  <2> QED
    BY <1>1, <1>2, <2>1, <2>2, <2>3, <2>8
<1>3. r = <<>> <=> n = Len(s)
  <2>1. PICK q : q = r
    OBVIOUS
  <2>2. q \in Seq(S) /\ Len(q) = Len(s) - n
    BY <1>1, <2>1
  <2>3. q = <<>> <=> Len(q) = 0
    BY <2>2
  <2> QED
    BY <1>1, <2>1, <2>2, <2>3
<1> QED
  BY <1>0, <1>2, <1>3

\* Where the scan stands: a number of slots of the directory it reads.
Stands(s, n) ==
  /\ s = FatDir(at.cluster) /\ AreSlots(s) /\ n \in Nat /\ n <= Len(s)
  /\ rest = SubSeq(s, n + 1, Len(s))
  /\ Taken(s, n, at.cluster, entries, KnownDirs)
  /\ PartsAre(s, n, parts) /\ (Fat!LongBeforeOwn => SameOwner(s, n, parts))
  /\ rest = <<>> <=> n = Len(s)
  /\ n < Len(s) => /\ Head(rest) = s[n + 1] /\ s[n + 1] \in FatSlot
                   /\ Tail(rest) = SubSeq(s, (n + 1) + 1, Len(s))

LEMMA StandsSomewhere ==
  ASSUME Fat!IsVolume(volume), FatWalk, pc = "slots"
  PROVE  \E s, n : Stands(s, n)
<1>1. PICK s : s = FatDir(at.cluster)
  OBVIOUS
<1>2. AreSlots(s) /\ s \in Seq(FatSlot)
  <2>1. at.cluster \in Nat
    BY DEF FatWalk, FatTypes, FatPlace
  <2> QED
    BY <1>1, <2>1, DirAre DEF AreSlots
<1>3. PICK n \in Nat :
        /\ rest = SubSeq(s, n + 1, Len(s))
        /\ Taken(s, n, at.cluster, entries, KnownDirs)
        /\ PartsAre(s, n, parts) /\ (Fat!LongBeforeOwn => SameOwner(s, n, parts))
  BY <1>1 DEF FatWalk, Standing
<1>4. n <= Len(s)
  BY <1>2, <1>3 DEF Taken, Clear
<1>5. PICK r : r = rest
  OBVIOUS
<1>6. /\ r = <<>> <=> n = Len(s)
      /\ n < Len(s) => /\ Head(r) = s[n + 1] /\ s[n + 1] \in FatSlot
                       /\ Tail(r) = SubSeq(s, (n + 1) + 1, Len(s))
  <2>1. LET q == SubSeq(s, n + 1, Len(s))
        IN /\ q = <<>> <=> n = Len(s)
           /\ n < Len(s) => /\ Head(q) = s[n + 1] /\ s[n + 1] \in FatSlot
                            /\ Tail(q) = SubSeq(s, (n + 1) + 1, Len(s))
    BY <1>2, <1>4, RestIs
  <2> QED
    BY <1>3, <1>5, <2>1
<1> QED
  BY <1>1, <1>2, <1>3, <1>4, <1>5, <1>6 DEF Stands

LEMMA LeaveDirectoryKeeps ==
  ASSUME Fat!IsVolume(volume), ~volume.exfat, FatWalk, Fat!LeaveDirectory
  PROVE  FatWalk'
<1>1. /\ pc = "slots" /\ Fat!AtEnd /\ pc' = "directories"
      /\ UNCHANGED <<volume, queue, visited, at, parts, entries, status>>
  BY DEF Fat!LeaveDirectory
<1>2. PICK s, n : Stands(s, n)
  BY <1>1, StandsSomewhere
<1>3. Scanned(at.cluster)
  <2>1. ReadOut(s, n)
    <3>1. n < Len(s) => rest # <<>> /\ Head(rest) = s[n + 1]
      BY <1>2 DEF Stands
    <3> QED
      BY <1>1, <3>1 DEF ReadOut, Fat!AtEnd
  <2> QED
    BY <1>2, <2>1 DEF Scanned, Stands
<1>4. volume.root \in KnownDirs /\ status = 0 /\ \A c \in visited : Scanned(c)
  BY <1>1, <1>3 DEF FatWalk, Goes
<1>5. KnownDirs' = KnownDirs
  BY <1>1 DEF KnownDirs
<1>6. \A c \in visited' : Scanned(c)'
  BY <1>1, <1>4, <1>5, ScannedKept
<1>7. FatTypes' /\ \A i \in DOMAIN entries' : entries'[i].directory \in visited'
  BY <1>1 DEF FatWalk, FatTypes
<1>8. Owned'
  BY <1>1, OwnedKept DEF FatWalk
<1>9. pc' = "directories" /\ status' = 0 /\ volume' = volume
  BY <1>1, <1>4
<1>10. ~EndedBelow'
  BY <1>9 DEF EndedBelow
<1> QED
  BY <1>4, <1>5, <1>6, <1>7, <1>8, <1>9, <1>10 DEF FatWalk

\* What a slot has to keep while the directory is read on.
LEMMA SlotKeeps ==
  ASSUME FatWalk, pc = "slots",
         UNCHANGED <<volume, at, visited, status>>, pc' \in {"slots", "done"},
         FatTypes', Owned', KnownDirs \subseteq KnownDirs',
         \A i \in DOMAIN entries' : entries'[i].directory \in visited,
         \A c \in visited : c # at.cluster => Scanned(c)',
         pc' = "slots" => Standing', pc' = "done" => Len(entries') >= MaxEntries,
         MaxEntries \in Nat
  PROVE  FatWalk'
<1>1. at.cluster \in visited /\ volume.root \in KnownDirs /\ status = 0
  BY DEF FatWalk, Goes
<1>2. volume'.root \in KnownDirs'
  BY <1>1
<1>3. pc' = "done" => ~Goes' /\ ~EndedBelow'
  <2> HAVE pc' = "done"
  <2>1. Len(entries') \in Nat
    BY DEF FatTypes
  <2> QED
    BY <2>1 DEF Goes, EndedBelow
<1>4. pc' = "slots" => ~EndedBelow'
  BY DEF EndedBelow
<1>5. \A i \in DOMAIN entries' : entries'[i].directory \in visited'
  OBVIOUS
<1>6. pc' = "slots" => at'.cluster \in visited' /\ Standing'
  BY <1>1
<1>7. \A c \in visited' : c # at'.cluster => Scanned(c)'
  OBVIOUS
<1>8. pc' # "open" /\ status' = 0
  BY <1>1
<1> QED
  BY <1>2, <1>3, <1>4, <1>5, <1>6, <1>7, <1>8 DEF FatWalk

\* A slot that is not listed.
LEMMA SlotPassed ==
  ASSUME Fat!VolumesAssumption, Fat!IsVolume(volume), ~volume.exfat, FatWalk,
         pc = "slots", NEW s, NEW n, Stands(s, n), n < Len(s),
         s[n + 1].kind # "end", n + 1 \notin Fat!Named(s),
         rest' = Tail(rest), Fat!Skip, UNCHANGED <<volume, visited, at, status>>,
         NEW r, parts' = r, r \in Seq(FatText), PartsAre(s, n + 1, r),
         Fat!LongBeforeOwn => SameOwner(s, n + 1, r)
  PROVE  FatWalk'
<1>1. UNCHANGED <<queue, entries, pc>>
  BY DEF Fat!Skip
<1>2. KnownDirs' = KnownDirs
  BY <1>1 DEF KnownDirs
<1>3. FatTypes'
  BY <1>1 DEF FatWalk, FatTypes
<1>4. Owned'
  BY <1>1, OwnedKept DEF FatWalk
<1>5. \A c \in visited : c # at.cluster => Scanned(c)'
  <2>1. \A c \in visited : c # at.cluster => Scanned(c)
    BY DEF FatWalk, Goes
  <2> QED
    BY <1>1, <1>2, <2>1, ScannedKept
<1>6. Standing'
  <2>1. s \in Seq(FatSlot) /\ n + 1 \in Nat
    BY DEF Stands, AreSlots
  <2>2. Taken(s, n + 1, at.cluster, entries', KnownDirs')
    <3>1. PICK es : es = entries
      OBVIOUS
    <3>2. Taken(s, n, at.cluster, es, KnownDirs)
      BY <3>1 DEF Stands
    <3>3. PICK known : known = KnownDirs
      OBVIOUS
    <3>4. PICK c : c = at.cluster
      OBVIOUS
    <3>5. Taken(s, n + 1, c, es, known)
      BY <2>1, <3>2, <3>3, <3>4, PassOver
    <3> QED
      BY <1>1, <1>2, <3>1, <3>3, <3>4, <3>5
  <2>3. rest' = SubSeq(s, (n + 1) + 1, Len(s))
    BY DEF Stands
  <2>4. FatDir(at.cluster)' = s
    <3>1. FatDir(at.cluster)' = FatDir(at.cluster)
      BY DirKept DEF FatDir, Fat!Chain, Fat!Joined, Fat!SlotsOf, Fat!ChainStatusAt
    <3> QED
      BY <3>1 DEF Stands
  <2>5. Fat!LongBeforeOwn' => SameOwner(s, n + 1, parts')
    BY OwnKept
  <2> QED
    BY <2>1, <2>2, <2>3, <2>4, <2>5 DEF Standing
<1>7. \A i \in DOMAIN entries' : entries'[i].directory \in visited
  BY <1>1 DEF FatWalk
<1>8. MaxEntries \in Nat
  BY DEF Fat!VolumesAssumption
<1>9. pc' = "slots"
  BY <1>1
<1> QED
  BY <1>2, <1>3, <1>4, <1>5, <1>6, <1>7, <1>8, <1>9, SlotKeeps
\* A slot that has a name.
LEMMA SlotTaken ==
  ASSUME Fat!VolumesAssumption, Fat!IsVolume(volume), ~volume.exfat, FatWalk,
         pc = "slots", NEW s, NEW n, Stands(s, n), n < Len(s),
         NEW slot, slot = s[n + 1], slot.kind = "short", ~slot.label,
         NEW name, name = NameAfter(parts, slot), name # <<>>,
         Fat!Take(name, slot.deleted, slot.dir, slot.start, TRUE),
         parts' = <<>>, rest' = Tail(rest), UNCHANGED <<volume, visited, at, status>>
  PROVE  FatWalk'
<1>1. PICK way : way = Append(at.path, name)
  OBVIOUS
<1>2. PICK place : place = [cluster |-> slot.start, path |-> way]
  OBVIOUS
<1>3. PICK e : e = [name |-> name, path |-> way, dir |-> slot.dir,
                    start |-> slot.start, directory |-> at.cluster]
  OBVIOUS
<1>4. PICK es : es = entries
  OBVIOUS
<1>5. PICK c : c = at.cluster
  OBVIOUS
<1>6. PICK q : q = queue
  OBVIOUS
<1>7. /\ queue' = IF slot.dir /\ slot.start >= 2 /\ ~Fat!IsDot(name)
                  THEN Append(q, place) ELSE q
      /\ entries' = IF slot.deleted THEN Append(es, e) ELSE es
      /\ pc' = IF slot.deleted /\ Fat!Full(Len(Append(es, e))) THEN "done" ELSE pc
  BY <1>1, <1>2, <1>3, <1>4, <1>6 DEF Fat!Take
<1>8. /\ s = FatDir(c) /\ s \in Seq(FatSlot) /\ n \in Nat /\ slot \in FatSlot
      /\ Taken(s, n, c, es, KnownDirs)
      /\ PartsAre(s, n, parts) /\ (Fat!LongBeforeOwn => SameOwner(s, n, parts))
      /\ Tail(rest) = SubSeq(s, (n + 1) + 1, Len(s))
  BY <1>4, <1>5 DEF Stands, AreSlots
<1>9. slot.dir \in BOOLEAN /\ slot.start \in Nat /\ slot.text \in FatText
  BY <1>8 DEF FatSlot, Fat!Slot, Fat!Outside, FatText
<1>10. /\ visited \subseteq Nat /\ q \in Seq(FatPlace) /\ at \in FatPlace
       /\ parts \in Seq(FatText) /\ es \in Seq(FatEntry)
  BY <1>4, <1>6 DEF FatWalk, FatTypes
<1>11. name \in Seq(FatText)
  BY <1>9, <1>10 DEF NameAfter
<1>12. c \in Nat /\ way \in Seq(Seq(FatText))
  BY <1>1, <1>5, <1>10, <1>11 DEF FatPlace
<1>13. place \in FatPlace
  BY <1>2, <1>9, <1>12 DEF FatPlace
<1>14. e \in FatEntry /\ e.directory = c /\ e.start = slot.start /\ e.name = name
  BY <1>3, <1>5, <1>9, <1>11, <1>12 DEF FatEntry
<1>15. queue' \in Seq(FatPlace) /\ entries' \in Seq(FatEntry)
       /\ entries' \in {es, Append(es, e)}
  BY <1>7, <1>10, <1>13, <1>14
<1>16. FatTypes'
  <2>1. parts' \in Seq(FatText)
    OBVIOUS
  <2>2. pc' \in {"open", "directories", "slots", "done"}
    BY <1>7
  <2> QED
    BY <1>10, <1>15, <2>1, <2>2 DEF FatTypes
<1>17. /\ KnownDirs \subseteq KnownDirs'
       /\ slot.dir /\ slot.start >= 2 /\ ~Fat!IsDot(name) => slot.start \in KnownDirs'
  <2>1. /\ Len(q) \in Nat /\ DOMAIN q = 1 .. Len(q)
        /\ DOMAIN Append(q, place) = 1 .. Len(q) + 1
        /\ Append(q, place)[Len(q) + 1] = place
        /\ \A k \in 1 .. Len(q) : Append(q, place)[k] = q[k]
    BY <1>10, <1>13
  <2>2. place.cluster = slot.start
    BY <1>2
  <2>3. PICK r : r = queue'
    OBVIOUS
  <2>4. \A k \in DOMAIN q : k \in DOMAIN r /\ r[k] = q[k]
    BY <1>7, <2>1, <2>3
  <2>5. KnownDirs \subseteq KnownDirs'
    BY <1>6, <2>3, <2>4 DEF KnownDirs
  <2>6. ASSUME slot.dir /\ slot.start >= 2 /\ ~Fat!IsDot(name) PROVE slot.start \in KnownDirs'
    <3>1. Len(q) + 1 \in DOMAIN r /\ r[Len(q) + 1].cluster = slot.start
      BY <1>7, <2>1, <2>2, <2>3, <2>6
    <3> QED
      BY <2>3, <3>1 DEF KnownDirs
  <2> QED
    BY <2>5, <2>6
<1>18. n + 1 \in Fat!Named(s)
  <2>1. PICK p : p = parts
    OBVIOUS
  <2>2. PartsAre(s, n, p) /\ NameAfter(p, s[n + 1]) # <<>>
    BY <1>8, <2>1
  <2> QED
    BY <1>8, <2>2, NamedIs
<1>19. Taken(s, n + 1, c, entries', KnownDirs')
  <2>1. PICK known : known = KnownDirs
    OBVIOUS
  <2>2. PICK more : more = KnownDirs'
    OBVIOUS
  <2>3. n + 1 \in Fat!Leading(s) => s[n + 1].start \in more
    <3> HAVE n + 1 \in Fat!Leading(s)
    <3>1. PICK p : p = parts
      OBVIOUS
    <3>2. s[n + 1].dir /\ s[n + 1].start >= 2 /\ ~Fat!IsDot(NameAfter(p, s[n + 1]))
      BY <1>8, <3>1, LeadingIs
    <3> QED
      BY <1>17, <2>2, <3>1, <3>2
  <2>4. Taken(s, n + 1, c, IF s[n + 1].deleted THEN Append(es, e) ELSE es, more)
    <3>1. /\ Taken(s, n, c, es, known) /\ known \subseteq more /\ s[n + 1].kind # "end"
      BY <1>8, <1>17, <2>1, <2>2
    <3>2. PICK E : E = FatEntry
      OBVIOUS
    <3>3. es \in Seq(E) /\ e \in E
      BY <1>10, <1>14, <3>2
    <3> QED
      BY <1>8, <1>14, <1>18, <2>3, <3>1, <3>3, TakeSlot
  <2> QED
    BY <1>7, <2>2, <2>4
<1>20. \A d : FatDir(d)' = FatDir(d)
  BY DirKept
<1>21. pc' = "slots" => Standing'
  <2>1. PartsAre(s, n + 1, <<>>) /\ SameOwner(s, n + 1, <<>>)
    BY <1>8, PartsCleared
  <2>2. FatDir(at.cluster)' = s
    <3>1. FatDir(at.cluster)' = FatDir(at.cluster)
      BY DEF FatDir, Fat!Chain, Fat!Joined, Fat!SlotsOf, Fat!ChainStatusAt
    <3> QED
      BY <1>5, <1>8, <3>1
  <2>3. at'.cluster = c /\ n + 1 \in Nat /\ rest' = SubSeq(s, (n + 1) + 1, Len(s))
    BY <1>5, <1>8
  <2> QED
    BY <1>19, <2>1, <2>2, <2>3 DEF Standing
<1>22. pc' = "done" => Len(entries') >= MaxEntries
  BY <1>7 DEF Fat!Full
<1>23. pc' \in {"slots", "done"}
  BY <1>7
<1>24. \A d \in visited : d # at.cluster => Scanned(d)'
  <2>1. \A d \in visited : d # at.cluster => Scanned(d)
    BY DEF FatWalk, Goes
  <2> TAKE d \in visited
  <2> HAVE d # at.cluster
  <2>2. Scanned(d) /\ FatTypes
    BY <2>1 DEF FatWalk
  <2>3. entries' \in {entries, Append(entries, e)} /\ e.directory # d
    BY <1>4, <1>5, <1>14, <1>15
  <2> QED
    BY <1>14, <1>17, <2>2, <2>3, ScannedElsewhere
<1>25. PICK fs : fs = entries'
  OBVIOUS
<1>26. \A i \in DOMAIN fs : (i \in DOMAIN es /\ fs[i] = es[i]) \/ (slot.deleted /\ fs[i] = e)
  <2>1. /\ Len(es) \in Nat /\ DOMAIN es = 1 .. Len(es)
        /\ DOMAIN Append(es, e) = 1 .. Len(es) + 1
        /\ Append(es, e)[Len(es) + 1] = e
        /\ \A i \in 1 .. Len(es) : Append(es, e)[i] = es[i]
    BY <1>10, <1>14
  <2>2. fs = Append(es, e) \/ fs = es
    BY <1>15, <1>25
  <2>3. fs = Append(es, e) => fs = es \/ slot.deleted
    BY <1>7, <1>25
  <2>4. ASSUME fs = Append(es, e), NEW i \in DOMAIN fs
        PROVE  (i \in DOMAIN es /\ fs[i] = es[i]) \/ fs[i] = e
    BY <2>1, <2>4
  <2> QED
    BY <2>2, <2>3, <2>4
<1>27. \A i \in DOMAIN entries' : entries'[i].directory \in visited
  <2>1. \A i \in DOMAIN es : es[i].directory \in visited
    BY <1>4 DEF FatWalk
  <2>2. c \in visited
    BY <1>5 DEF FatWalk
  <2> QED
    BY <1>14, <1>25, <1>26, <2>1, <2>2
<1>28. Owned'
  <2>1. ASSUME Fat!LongBeforeOwn, slot.deleted PROVE OwnEntry(s, e)
    <3>1. Clear(s, n + 1)
      BY <1>19 DEF Taken
    <3>2. \A k \in DOMAIN name : name[k][1] = slot.text[1]
      <4>1. CASE parts # <<>>
        BY <1>8, <2>1, <4>1 DEF NameAfter, SameOwner
      <4>2. CASE parts = <<>>
        <5>1. name = <<slot.text>>
          BY <4>2 DEF NameAfter
        <5>2. DOMAIN name = {1} /\ name[1] = slot.text
          BY <5>1
        <5> QED
          BY <5>2
      <4> QED
        BY <4>1, <4>2
    <3> QED
      BY <1>14, <1>18, <2>1, <3>1, <3>2 DEF OwnEntry
  <2>2. Fat!LongBeforeOwn => \A i \in DOMAIN es : OwnEntry(FatDir(es[i].directory), es[i])
    BY <1>4 DEF FatWalk, Owned
  <2>3. Fat!LongBeforeOwn => \A i \in DOMAIN fs : OwnEntry(FatDir(fs[i].directory), fs[i])
    <3> SUFFICES ASSUME Fat!LongBeforeOwn, NEW i \in DOMAIN fs
                 PROVE  OwnEntry(FatDir(fs[i].directory), fs[i])
      OBVIOUS
    <3>1. CASE i \in DOMAIN es /\ fs[i] = es[i]
      BY <2>2, <3>1
    <3>2. CASE slot.deleted /\ fs[i] = e
      <4>1. FatDir(fs[i].directory) = s
        BY <1>8, <1>14, <3>2
      <4> QED
        BY <2>1, <3>2, <4>1
    <3> QED
      BY <1>26, <3>1, <3>2
  <2>4. \A i \in DOMAIN fs : FatDir(fs[i].directory)' = FatDir(fs[i].directory)
    BY <1>20
  <2>5. Fat!LongBeforeOwn' => \A i \in DOMAIN fs : OwnEntry(FatDir(fs[i].directory)', fs[i])
    BY <2>3, <2>4, OwnKept
  <2> QED
    BY <1>25, <2>5 DEF Owned
<1>29. MaxEntries \in Nat
  BY DEF Fat!VolumesAssumption
<1> QED
  BY <1>16, <1>17, <1>21, <1>22, <1>23, <1>24, <1>27, <1>28, <1>29, SlotKeeps
LEMMA ScanSlotKeeps ==
  ASSUME Fat!VolumesAssumption, Fat!IsVolume(volume), FatWalk, Fat!ScanFat32Slot
  PROVE  FatWalk'
<1>1. pc = "slots" /\ ~volume.exfat /\ ~Fat!AtEnd
  BY DEF Fat!ScanFat32Slot
<1>2. PICK s, n : Stands(s, n)
  BY <1>1, StandsSomewhere
<1>3. PICK slot : slot = Head(rest)
  OBVIOUS
<1>4. /\ n < Len(s) /\ slot = s[n + 1] /\ slot \in FatSlot /\ slot.kind # "end"
      /\ s \in Seq(FatSlot) /\ n \in Nat
      /\ PartsAre(s, n, parts) /\ (Fat!LongBeforeOwn => SameOwner(s, n, parts) /\ LongsLead(s))
  <2>1. n # Len(s) /\ Head(rest).kind # "end"
    BY <1>1, <1>2 DEF Fat!AtEnd, Stands
  <2>2. s \in Seq(FatSlot) /\ n \in Nat /\ n <= Len(s)
    BY <1>2 DEF Stands, AreSlots
  <2>3. n < Len(s)
    BY <2>1, <2>2
  <2> QED
    BY <1>2, <1>3, <2>1, <2>2, <2>3 DEF Stands, AreSlots
<1>5. slot.kind \in {"end", "long", "short", "outside"}
  <2>1. n + 1 \in 1 .. Len(s)
    BY <1>4
  <2> QED
    BY <1>1, <1>2, <1>4, <2>1 DEF Stands, AreSlots, OfFat32
<1>6. CASE slot.kind = "outside"
  <2>1. Fat!Returns(31)
    BY <1>3, <1>6 DEF Fat!ScanFat32Slot
  <2> QED
    BY <2>1, FatErrorKeeps
<1>7. CASE slot.kind = "long"
  <2>1. /\ parts' = IF slot.text = Fat!NoText THEN parts ELSE <<slot.text>> \o parts
        /\ rest' = Tail(rest) /\ Fat!Skip /\ UNCHANGED <<volume, visited, at, status>>
    BY <1>3, <1>7 DEF Fat!ScanFat32Slot
  <2>2. PICK q : q = parts
    OBVIOUS
  <2>3. PICK r : r = IF slot.text = Fat!NoText THEN q ELSE <<slot.text>> \o q
    OBVIOUS
  <2>4. /\ PartsAre(s, n + 1, r)
        /\ LongsLead(s) /\ SameOwner(s, n, q) => SameOwner(s, n + 1, r)
    BY <1>4, <1>7, <2>2, <2>3, PartsGrow
  <2>5. r \in Seq(FatText)
    <3>1. q \in Seq(FatText)
      BY <2>2 DEF FatWalk, FatTypes
    <3>2. slot.text \in FatText
      BY <1>4 DEF FatText
    <3>3. PICK T, t : T = FatText /\ t = slot.text
      OBVIOUS
    <3>4. <<t>> \o q \in Seq(T)
      BY <3>1, <3>2, <3>3
    <3> QED
      BY <2>3, <3>1, <3>3, <3>4
  <2>6. n + 1 \notin Fat!Named(s)
    BY <1>4, <1>7 DEF Fat!Named
  <2>7. s[n + 1].kind # "end" /\ parts' = r /\ (Fat!LongBeforeOwn => SameOwner(s, n + 1, r))
    BY <1>4, <2>1, <2>2, <2>3, <2>4
  <2> QED
    BY <1>1, <1>2, <1>4, <2>1, <2>4, <2>5, <2>6, <2>7, SlotPassed
<1>8. CASE slot.kind = "short"
  <2>1. /\ IF slot.label \/ Fat!NameOf(slot) = <<>> THEN Fat!Skip
           ELSE Fat!Take(Fat!NameOf(slot), slot.deleted, slot.dir, slot.start, TRUE)
        /\ parts' = <<>> /\ rest' = Tail(rest) /\ UNCHANGED <<volume, visited, at, status>>
    BY <1>3, <1>8 DEF Fat!ScanFat32Slot, Fat!PartsAfter
  <2>2. PICK name : name = NameAfter(parts, slot)
    OBVIOUS
  <2>3. Fat!NameOf(slot) = name
    BY <2>2 DEF Fat!NameOf, NameAfter
  <2>4. CASE slot.label \/ name = <<>>
    <3>1. Fat!Skip
      BY <2>1, <2>3, <2>4
    <3>2. n + 1 \notin Fat!Named(s)
      <4>1. PICK q : q = parts
        OBVIOUS
      <4>2. PartsAre(s, n, q) /\ s[n + 1].kind = "short"
        BY <1>4, <1>8, <4>1
      <4>3. n + 1 \in Fat!Named(s) <=> ~s[n + 1].label /\ NameAfter(q, s[n + 1]) # <<>>
        BY <1>4, <4>2, NamedIs
      <4> QED
        BY <1>4, <2>2, <2>4, <4>1, <4>3
    <3>3. PartsAre(s, n + 1, <<>>) /\ SameOwner(s, n + 1, <<>>)
      BY <1>4, <1>8, PartsCleared
    <3>4. PICK r : r = <<>>
      OBVIOUS
    <3>5. r \in Seq(FatText) /\ PartsAre(s, n + 1, r) /\ parts' = r
          /\ (Fat!LongBeforeOwn => SameOwner(s, n + 1, r))
      BY <2>1, <3>3, <3>4
    <3>6. s[n + 1].kind # "end"
      BY <1>4
    <3> QED
      BY <1>1, <1>2, <1>4, <2>1, <3>1, <3>2, <3>5, <3>6, SlotPassed
  <2>5. CASE ~(slot.label \/ name = <<>>)
    <3>1. Fat!Take(name, slot.deleted, slot.dir, slot.start, TRUE)
      BY <2>1, <2>3, <2>5
    <3> QED
      BY <1>1, <1>2, <1>4, <1>8, <2>1, <2>2, <2>5, <3>1, SlotTaken
  <2> QED
    BY <2>4, <2>5
<1> QED
  BY <1>4, <1>5, <1>6, <1>7, <1>8

LEMMA FatFinishKeeps ==
  ASSUME FatWalk, Fat!Finish
  PROVE  FatWalk'
<1>1. /\ pc = "directories" /\ queue = <<>> /\ pc' = "done" /\ status' = 0
      /\ UNCHANGED <<volume, queue, visited, at, rest, parts, entries>>
  BY DEF Fat!Finish, Fat!Returns
<1>2. volume.root \in KnownDirs /\ \A c \in visited : Scanned(c)
  BY <1>1 DEF FatWalk, Goes
<1>3. KnownDirs' = KnownDirs
  BY <1>1 DEF KnownDirs
<1>4. \A c \in visited' : Scanned(c)'
  BY <1>1, <1>2, <1>3, ScannedKept
<1>5. FatTypes' /\ \A i \in DOMAIN entries' : entries'[i].directory \in visited'
  BY <1>1 DEF FatWalk, FatTypes
<1>6. Owned'
  BY <1>1, OwnedKept DEF FatWalk
<1>7. volume'.root \in KnownDirs' /\ pc' = "done" /\ status' = 0 /\ queue' = <<>>
  BY <1>1, <1>2, <1>3
<1> QED
  BY <1>4, <1>5, <1>6, <1>7 DEF FatWalk

LEMMA FatContinues ==
  ASSUME Fat!VolumesAssumption, FatInv, Fat!Next
  PROVE  FatInv'
<1>1. volume' = volume
  BY DEF Fat!Next, Fat!Open, Fat!NextDirectory, Fat!LeaveDirectory, Fat!ScanFat32Slot,
         Fat!ScanExfatSet, Fat!Finish, Fat!Returns
<1>2. Fat!IsVolume(volume)
  BY FatVolumeIs
<1>3. ASSUME ~volume.exfat PROVE FatWalk'
  <2>1. FatWalk
    BY <1>3 DEF FatInv
  <2>2. CASE Fat!Open
    BY <1>2, <2>1, <2>2, FatOpenKeeps
  <2>3. CASE Fat!NextDirectory
    BY <1>2, <1>3, <2>1, <2>3, NextDirectoryKeeps
  <2>4. CASE Fat!LeaveDirectory
    BY <1>2, <1>3, <2>1, <2>4, LeaveDirectoryKeeps
  <2>5. CASE Fat!ScanFat32Slot
    BY <1>2, <2>1, <2>5, ScanSlotKeeps
  <2>6. CASE Fat!Finish
    BY <2>1, <2>6, FatFinishKeeps
  <2>7. ~Fat!ScanExfatSet
    BY <1>3 DEF Fat!ScanExfatSet
  <2> QED
    BY <2>2, <2>3, <2>4, <2>5, <2>6, <2>7 DEF Fat!Next
<1> QED
  BY <1>1, <1>3 DEF FatInv

LEMMA FatStutters ==
  ASSUME FatInv,
         UNCHANGED <<volume, pc, queue, visited, at, rest, parts, entries, status>>
  PROVE  FatInv'
<1>1. KnownDirs' = KnownDirs
  BY DEF KnownDirs
<1>2. ASSUME FatWalk PROVE FatWalk'
  <2>1. FatTypes' /\ \A i \in DOMAIN entries' : entries'[i].directory \in visited'
    BY <1>2 DEF FatWalk, FatTypes
  <2>2. Owned'
    BY <1>2, OwnedKept DEF FatWalk
  <2>3. \A c : Scanned(c) => Scanned(c)'
    BY <1>1, ScannedKept
  <2>4. pc = "slots" => Standing'
    <3>1. FatDir(at.cluster)' = FatDir(at.cluster)
      BY DEF FatDir, Fat!Chain, Fat!Joined, Fat!SlotsOf, Fat!ChainStatusAt
    <3> QED
      BY <1>1, <1>2, <3>1, OwnKept DEF FatWalk, Standing
  <2> QED
    BY <1>1, <1>2, <2>1, <2>2, <2>3, <2>4 DEF FatWalk, Goes, EndedBelow
<1> QED
  BY <1>2 DEF FatInv
-----------------------------------------------------------------------------
(* What a walk through all directories promises *)

\* A prefix p of m slots of a directory, up to its end.
UpToEnd(p, s, m) ==
  /\ m \in 0 .. Len(s) /\ DOMAIN p = 1 .. m
  /\ \A i \in 1 .. m : p[i] = s[i]
  /\ \A n : Clear(s, n) => n <= m
  /\ \A n : Clear(s, n) /\ ReadOut(s, n) => n = m

LEMMA PrefixIs ==
  ASSUME NEW S, NEW s \in Seq(S), NEW m \in 0 .. Len(s)
  PROVE  /\ DOMAIN SubSeq(s, 1, m) = 1 .. m
         /\ \A i \in 1 .. m : SubSeq(s, 1, m)[i] = s[i]
<1>1. PICK p : p = SubSeq(s, 1, m)
  OBVIOUS
<1>2. Len(s) \in Nat
  OBVIOUS
<1>3. p \in Seq(S) /\ Len(p) = m /\ \A i \in 1 .. m : p[i] = s[i]
  BY <1>1, <1>2
<1>4. DOMAIN p = 1 .. Len(p)
  BY <1>3
<1> QED
  BY <1>1, <1>3, <1>4

LEMMA PlacesAre ==
  ASSUME Fat!IsVolume(volume), NEW c \in Nat
  PROVE  \E m : UpToEnd(Fat!Places(c), FatDir(c), m)
<1>1. PICK s : s = FatDir(c)
  OBVIOUS
<1>2. s \in Seq(FatSlot) /\ Len(s) \in Nat /\ DOMAIN s = 1 .. Len(s)
  BY <1>1, DirAre DEF AreSlots
<1> DEFINE ends == {i \in DOMAIN s : s[i].kind = "end"}
           m == IF ends = {} THEN Len(s) ELSE Fat!Min(ends) - 1
<1>3. Fat!Places(c) = SubSeq(s, 1, m)
  BY <1>1 DEF Fat!Places, FatDir
<1>4. ends \subseteq Nat
  BY <1>2
<1>5. ends # {} => Fat!Min(ends) \in ends /\ \A k \in ends : Fat!Min(ends) <= k
  <2> HIDE DEF ends
  <2> QED
    BY <1>4, MinIs
<1>6. PICK least : least = Fat!Min(ends)
  OBVIOUS
<1>7. /\ m \in 0 .. Len(s)
      /\ m < Len(s) => s[m + 1].kind = "end"
      /\ \A i \in 1 .. m : s[i].kind # "end"
  <2>1. CASE ends = {}
    BY <1>2, <2>1
  <2>2. CASE ends # {}
    <3>1. least \in 1 .. Len(s) /\ s[least].kind = "end" /\ m = least - 1
      BY <1>2, <1>5, <1>6, <2>2
    <3>2. \A i \in 1 .. Len(s) : s[i].kind = "end" => least <= i
      BY <1>2, <1>5, <1>6, <2>2
    <3>3. (least - 1) + 1 = least /\ least - 1 \in 0 .. Len(s)
      BY <1>2, <3>1
    <3> HIDE DEF m
    <3>4. \A i \in 1 .. m : s[i].kind # "end"
      BY <1>2, <3>1, <3>2
    <3> QED
      BY <3>1, <3>3, <3>4
  <2> QED
    BY <2>1, <2>2
<1> HIDE DEF m, ends
<1>8. ASSUME NEW n, Clear(s, n) PROVE n <= m
  <2> SUFFICES ASSUME m < n PROVE FALSE
    BY <1>2, <1>7, <1>8 DEF Clear
  <2>1. n \in 0 .. Len(s) /\ \A i \in 1 .. n : s[i].kind # "end"
    BY <1>8 DEF Clear
  <2>2. m + 1 \in 1 .. n /\ m < Len(s)
    BY <1>2, <1>7, <2>1
  <2> QED
    BY <1>7, <2>1, <2>2
<1>9. ASSUME NEW n, Clear(s, n), ReadOut(s, n) PROVE n = m
  <2> SUFFICES ASSUME n < m PROVE FALSE
    BY <1>2, <1>7, <1>8, <1>9 DEF Clear
  <2>1. n + 1 \in 1 .. m /\ n < Len(s)
    BY <1>2, <1>7, <1>9 DEF Clear
  <2> QED
    BY <1>7, <1>9, <2>1 DEF ReadOut
<1>10. DOMAIN SubSeq(s, 1, m) = 1 .. m /\ \A i \in 1 .. m : SubSeq(s, 1, m)[i] = s[i]
  BY <1>2, <1>7, PrefixIs
<1>11. UpToEnd(Fat!Places(c), s, m)
  BY <1>3, <1>7, <1>8, <1>9, <1>10 DEF UpToEnd
<1> QED
  BY <1>1, <1>11

\* What counts in the directory counts in its prefix.
LEMMA PrefixCounts ==
  ASSUME NEW s \in Seq(FatSlot), NEW p, NEW m, UpToEnd(p, s, m)
  PROVE  /\ Fat!Named(p) = {i \in Fat!Named(s) : i <= m}
         /\ Fat!Leading(p) = {i \in Fat!Leading(s) : i <= m}
<1>1. /\ m \in Nat /\ m <= Len(s) /\ Len(s) \in Nat /\ DOMAIN s = 1 .. Len(s)
      /\ DOMAIN p = 1 .. m /\ \A i \in 1 .. m : p[i] = s[i]
  BY DEF UpToEnd
<1>2. \A i \in 1 .. m : Fat!LongBefore(p, i) = Fat!LongBefore(s, i)
  <2> TAKE i \in 1 .. m
  <2>1. \A j \in 1 .. i - 1 : p[j] = s[j] /\ \A k \in j .. i - 1 : p[k] = s[k]
    BY <1>1
  <2> QED
    BY <2>1 DEF Fat!LongBefore
<1>3. \A i \in 1 .. m : Fat!LongBefore(s, i) \subseteq 1 .. m
  BY <1>1 DEF Fat!LongBefore
<1>4. Fat!Named(p) = {i \in Fat!Named(s) : i <= m}
  <2>1. \A i : i \in Fat!Named(p) <=> i \in Fat!Named(s) /\ i <= m
    <3> TAKE i
    <3>1. CASE i \in 1 .. m
      <4>1. p[i] = s[i] /\ Fat!LongBefore(p, i) = Fat!LongBefore(s, i) /\ i <= m
            /\ i \in DOMAIN p /\ i \in DOMAIN s
        BY <1>1, <1>2, <3>1
      <4> QED
        BY <4>1 DEF Fat!Named
    <3>2. CASE i \notin 1 .. m
      <4>1. i \notin DOMAIN p /\ ~(i \in DOMAIN s /\ i <= m)
        BY <1>1, <3>2
      <4> QED
        BY <4>1 DEF Fat!Named
    <3> QED
      BY <3>1, <3>2
  <2> QED
    BY <2>1
<1>5. Fat!Leading(p) = {i \in Fat!Leading(s) : i <= m}
  <2>1. \A i \in Fat!Named(p) : i \in 1 .. m
    BY <1>1 DEF Fat!Named
  <2>2. \A i \in 1 .. m : Fat!Dotless(p, i) <=> Fat!Dotless(s, i)
    <3> TAKE i \in 1 .. m
    <3>1. \A j \in Fat!LongBefore(s, i) \cup {i} : p[j] = s[j]
      BY <1>1, <1>3
    <3> QED
      BY <1>2, <3>1 DEF Fat!Dotless
  <2>3. \A i \in 1 .. m : p[i] = s[i]
    BY <1>1
  <2> QED
    BY <1>4, <2>1, <2>2, <2>3 DEF Fat!Leading
<1> QED
  BY <1>4, <1>5

\* A directory read to its end is listed whole and leads to known ones.
LEMMA ScannedWhole ==
  ASSUME Fat!IsVolume(volume), NEW c \in Nat, Scanned(c)
  PROVE  /\ Cardinality(EntriesOf(entries, c))
              = Cardinality({i \in Fat!Named(Fat!Places(c)) : Fat!Places(c)[i].deleted})
         /\ \A i \in Fat!Leading(Fat!Places(c)) : Fat!Places(c)[i].start \in KnownDirs
<1>1. PICK s : s = FatDir(c)
  OBVIOUS
<1>2. PICK p : p = Fat!Places(c)
  OBVIOUS
<1>3. PICK m : UpToEnd(p, s, m)
  BY <1>1, <1>2, PlacesAre
<1>4. PICK n \in Nat : ReadOut(s, n) /\ Taken(s, n, c, entries, KnownDirs)
  BY <1>1 DEF Scanned
<1>5. n = m
  BY <1>3, <1>4 DEF UpToEnd, Taken
<1>6. s \in Seq(FatSlot)
  BY <1>1, DirAre DEF AreSlots
<1>7. /\ Fat!Named(p) = {i \in Fat!Named(s) : i <= m}
      /\ Fat!Leading(p) = {i \in Fat!Leading(s) : i <= m}
  BY <1>3, <1>6, PrefixCounts
<1>8. \A i \in Fat!Named(p) : p[i] = s[i]
  BY <1>3 DEF Fat!Named, UpToEnd
<1>9. DeletedTo(s, n) = {i \in Fat!Named(p) : p[i].deleted}
  BY <1>5, <1>7, <1>8 DEF DeletedTo
<1>10. \A i \in Fat!Leading(p) : p[i].start \in KnownDirs
  <2> TAKE i \in Fat!Leading(p)
  <2>1. i \in Fat!Leading(s) /\ i <= n /\ p[i] = s[i]
    BY <1>5, <1>7, <1>8 DEF Fat!Leading
  <2> QED
    BY <1>4, <2>1 DEF Taken
<1> QED
  BY <1>2, <1>4, <1>9, <1>10 DEF Taken

\* f collects the directories reached in ever more steps.
Reaches(n, f) ==
  f = [k \in 0 .. n |-> IF k = 0 THEN {volume.root} ELSE Fat!Below(f[k - 1])]

LEMMA ReachesExist ==
  \A n \in Nat : \E f : Reaches(n, f)
<1> DEFINE T == {n \in Nat : \E f : Reaches(n, f)}
<1>1. 0 \in T
  <2> DEFINE f == [k \in 0 .. 0 |-> {volume.root}]
  <2>1. f = [k \in 0 .. 0 |-> IF k = 0 THEN {volume.root} ELSE Fat!Below(f[k - 1])]
    OBVIOUS
  <2>2. Reaches(0, f)
    <3> HIDE DEF f
    <3> QED
      BY <2>1 DEF Reaches
  <2> QED
    BY <2>2
<1>2. ASSUME NEW n \in T PROVE n + 1 \in T
  <2>1. PICK f : Reaches(n, f)
    OBVIOUS
  <2> DEFINE g == [k \in 0 .. n + 1 |-> IF k = 0 THEN {volume.root} ELSE Fat!Below(f[k - 1])]
  <2>2. \A k \in 0 .. n : g[k] = f[k]
    <3>1. \A k \in 0 .. n : f[k] = IF k = 0 THEN {volume.root} ELSE Fat!Below(f[k - 1])
      BY <2>1 DEF Reaches
    <3>2. \A k \in 0 .. n : g[k] = IF k = 0 THEN {volume.root} ELSE Fat!Below(f[k - 1])
      OBVIOUS
    <3> HIDE DEF g
    <3> QED
      BY <3>1, <3>2
  <2>3. \A k \in 0 .. n + 1 : k # 0 => k - 1 \in 0 .. n
    OBVIOUS
  <2>4. \A k \in 0 .. n + 1 : k # 0 => Fat!Below(f[k - 1]) = Fat!Below(g[k - 1])
    BY <2>2, <2>3
  <2>5. g = [k \in 0 .. n + 1 |-> IF k = 0 THEN {volume.root} ELSE Fat!Below(g[k - 1])]
    BY <2>4
  <2>6. Reaches(n + 1, g)
    <3> HIDE DEF g
    <3> QED
      BY <2>5 DEF Reaches
  <2> QED
    BY <2>6
<1>3. T = Nat
  <2>1. T \subseteq Nat
    OBVIOUS
  <2> HIDE DEF T
  <2> QED
    BY <1>1, <1>2, <2>1, Inductive
<1> QED
  BY <1>3

\* A set that holds the root and what is below its members holds all of them.
LEMMA ReachableIs ==
  ASSUME Fat!IsVolume(volume), NEW C, volume.root \in C,
         \A cs \in SUBSET C : Fat!Below(cs) \subseteq C
  PROVE  Fat!Reachable \subseteq C
<1> DEFINE n == volume.last
           f == CHOOSE g : Reaches(n, g)
<1>1. Fat!Reachable = f[n]
  BY DEF Fat!Reachable, Reaches
<1>2. n \in Nat
  BY DEF Fat!IsVolume
<1>3. Reaches(n, f)
  BY <1>2, ReachesExist
<1> HIDE DEF f, n
<1>4. \A k \in 0 .. n : f[k] = IF k = 0 THEN {volume.root} ELSE Fat!Below(f[k - 1])
  BY <1>3 DEF Reaches
<1> DEFINE T == {k \in Nat : k <= n => f[k] \subseteq C}
<1>5. 0 \in T
  BY <1>2, <1>4
<1>6. ASSUME NEW k \in T PROVE k + 1 \in T
  <2> SUFFICES ASSUME k + 1 <= n PROVE f[k + 1] \subseteq C
    OBVIOUS
  <2>1. f[k] \subseteq C /\ k + 1 \in 0 .. n /\ (k + 1) - 1 = k /\ k + 1 # 0
    BY <1>2
  <2>2. f[k + 1] = Fat!Below(f[k])
    BY <1>4, <2>1
  <2> QED
    BY <2>1, <2>2
<1>7. T = Nat
  <2>1. T \subseteq Nat
    OBVIOUS
  <2> HIDE DEF T
  <2> QED
    BY <1>5, <1>6, <2>1, Inductive
<1>8. f[n] \subseteq C
  BY <1>2, <1>7
<1> QED
  BY <1>1, <1>8

LEMMA FatPromises ==
  ASSUME Fat!VolumesAssumption, FatInv
  PROVE  Fat!WholeTree /\ Fat!OwnName
<1>1. Fat!IsVolume(volume)
  BY FatVolumeIs
<1>2. ASSUME pc = "done", status = 0, ~volume.exfat, Len(entries) < MaxEntries,
             NEW c \in Fat!Reachable
      PROVE  Cardinality({i \in DOMAIN entries : entries[i].directory = c})
               = Cardinality({i \in Fat!Named(Fat!Places(c)) : Fat!Places(c)[i].deleted})
  <2>1. FatWalk /\ EndedBelow /\ visited \subseteq Nat
    BY <1>2 DEF FatInv, FatWalk, FatTypes, EndedBelow
  <2>2. queue = <<>> /\ volume.root \in KnownDirs /\ \A d \in visited : Scanned(d)
    BY <1>2, <2>1 DEF FatWalk
  <2>3. KnownDirs = visited
    BY <2>2 DEF KnownDirs
  <2>4. \A cs \in SUBSET visited : Fat!Below(cs) \subseteq visited
    <3> TAKE cs \in SUBSET visited
    <3>1. \A d \in cs : \A i \in Fat!Leading(Fat!Places(d)) : Fat!Places(d)[i].start \in visited
      BY <1>1, <2>1, <2>2, <2>3, ScannedWhole
    <3> QED
      BY <3>1 DEF Fat!Below
  <2>5. c \in visited
    BY <1>1, <1>2, <2>2, <2>3, <2>4, ReachableIs
  <2>6. c \in Nat /\ Scanned(c)
    BY <2>1, <2>2, <2>5
  <2> QED
    BY <1>1, <2>6, ScannedWhole DEF EntriesOf
<1>3. Fat!WholeTree
  BY <1>2 DEF Fat!WholeTree, Fat!Cardinality, Cardinality
<1>4. ASSUME pc = "done", ~volume.exfat, Fat!LongBeforeOwn,
             NEW j \in DOMAIN entries
      PROVE  \E i \in Fat!Named(Fat!Places(entries[j].directory)) :
               LET slot == Fat!Places(entries[j].directory)[i]
               IN /\ slot.deleted /\ slot.start = entries[j].start
                  /\ \A k \in DOMAIN entries[j].name : entries[j].name[k][1] = slot.text[1]
  <2>1. PICK e : e = entries[j]
    OBVIOUS
  <2>2. PICK s : s = FatDir(e.directory)
    OBVIOUS
  <2>3. PICK p : p = Fat!Places(e.directory)
    OBVIOUS
  <2>4. OwnEntry(s, e) /\ e.directory \in Nat
    BY <1>4, <2>1, <2>2 DEF FatInv, FatWalk, FatTypes, Owned
  <2>5. PICK m : UpToEnd(p, s, m)
    BY <1>1, <2>2, <2>3, <2>4, PlacesAre
  <2>6. PICK i \in Fat!Named(s) :
          /\ Clear(s, i) /\ s[i].deleted /\ s[i].start = e.start
          /\ \A k \in DOMAIN e.name : e.name[k][1] = s[i].text[1]
    BY <2>4 DEF OwnEntry
  <2>7. i <= m
    BY <2>5, <2>6 DEF UpToEnd
  <2>8. s \in Seq(FatSlot)
    BY <1>1, <2>2, <2>4, DirAre DEF AreSlots
  <2>9. i \in Fat!Named(p)
    BY <2>5, <2>6, <2>7, <2>8, PrefixCounts
  <2>10. p[i] = s[i]
    BY <2>5, <2>9 DEF UpToEnd, Fat!Named
  <2> QED
    BY <2>1, <2>3, <2>6, <2>9, <2>10
<1>5. Fat!OwnName
  BY <1>4 DEF Fat!OwnName
<1> QED
  BY <1>3, <1>5
=============================================================================
