------------------------- MODULE ExtRecoveryProofs -------------------------
(***************************************************************************)
(* Proofs about ExtRecovery, for every width of the pointer tree, every    *)
(* damage to it and every list of extents.  Where pointers are followed    *)
(* the invariant says that the node to visit next stands for the block     *)
(* after the last one written, unless the file is marked, and that no hole *)
(* is above it.  Where extents are followed, it says which item each run   *)
(* was collected from and which items are left, being written or behind    *)
(* the end of the output.  A step ends the recovery well or only lets the  *)
(* output grow: that is the contract of a recovered file.                  *)
(***************************************************************************)
EXTENDS ExtRecovery, FiniteSetTheorems, FunctionTheorems, SequenceTheorems,
  WellFoundedInduction, TLAPS

-----------------------------------------------------------------------------
(* Numbers and nodes *)


\* A set of numbers that is not empty has a least one.
LEMMA Least ==
  ASSUME NEW T, T \subseteq Nat, T # {}
  PROVE  \E x \in T : \A y \in T : x <= y
<1> DEFINE Segments == {1 .. x : x \in T}
<1>1. IsWellFoundedOn(StrictSubsetOrdering(Nat), FiniteSubsetsOf(Nat))
  BY FS_StrictSubsetOrderingWellFounded
<1>2. \A x \in T : 1 .. x \in FiniteSubsetsOf(Nat)
  <2> TAKE x \in T
  <2>1. IsFiniteSet(1 .. x)
    BY FS_Interval
  <2> QED
    BY <2>1 DEF FiniteSubsetsOf
<1>3. Segments \subseteq FiniteSubsetsOf(Nat) /\ Segments # {}
  BY <1>2
<1>4. PICK least \in Segments :
        \A s \in Segments : ~ (<<s, least>> \in StrictSubsetOrdering(Nat))
  <2> HIDE DEF Segments
  <2> QED
    BY <1>1, <1>3, WFMin
<1>5. PICK x \in T : least = 1 .. x
  OBVIOUS
<1>6. ASSUME NEW y \in T, y < x
      PROVE  FALSE
  <2>1. 1 .. y \in Segments /\ <<1 .. y, 1 .. x>> \notin StrictSubsetOrdering(Nat)
    BY <1>4, <1>5
  <2>2. 1 .. y \subseteq 1 .. x /\ x \in 1 .. x /\ x \notin 1 .. y
    BY <1>6
  <2>3. 1 .. y \in SUBSET Nat /\ 1 .. x \in SUBSET Nat
    OBVIOUS
  <2> QED
    BY <2>1, <2>2, <2>3 DEF StrictSubsetOrdering
<1> QED
  BY <1>6

-----------------------------------------------------------------------------
\* Arithmetic of the digits of a node.
LEMMA LowerDigit ==
  ASSUME NEW F \in Nat \ {0}, NEW a \in Nat, NEW b \in Nat, a < b,
         NEW c \in 1 .. F, NEW d \in 1 .. F
  PROVE  a * F + c < b * F + d
<1>1. PICK e \in Nat : b = (a + 1) + e
  <2>1. b - (a + 1) \in Nat /\ b = (a + 1) + (b - (a + 1))
    OBVIOUS
  <2> QED
    BY <2>1
<1>2. b * F = (a * F + F) + e * F
  BY <1>1
<1>3. a * F \in Nat /\ e * F \in Nat
  OBVIOUS
<1> QED
  BY <1>2, <1>3

LEMMA DigitRange ==
  ASSUME NEW F \in Nat \ {0}, NEW G \in Nat, NEW a \in Nat, a < G, NEW c \in 1 .. F
  PROVE  a * F + c \in 1 .. G * F
<1>1. PICK e \in Nat : G = (a + 1) + e
  <2>1. G - (a + 1) \in Nat /\ G = (a + 1) + (G - (a + 1))
    OBVIOUS
  <2> QED
    BY <2>1
<1>2. G * F = (a * F + F) + e * F
  BY <1>1
<1>3. a * F \in Nat /\ e * F \in Nat
  OBVIOUS
<1> QED
  BY <1>2, <1>3

-----------------------------------------------------------------------------
\* Nodes and leaves.
Depth(n) == IF Level(n) <= 1 THEN 2 ELSE Level(n) + 1

\* The leaf below n whose further digits are v.
LeafOf(n, v) == [d \in 1 .. Depth(n) |-> IF d <= Len(n) THEN n[d] ELSE v]

\* What comes before the blocks of a level.
Base(l) ==
  CASE l = 0 -> 0
    [] l = 1 -> Direct
    [] l = 2 -> Direct + Fan
    [] l = 3 -> Direct + Fan + Fan * Fan
    [] OTHER -> Direct + Fan + Fan * Fan + (Fan * Fan) * Fan

LEMMA LargerOf ==
  ASSUME NEW a \in Nat, NEW b \in Nat
  PROVE  Max({a, b}) = IF a >= b THEN a ELSE b
<1> DEFINE m == IF a >= b THEN a ELSE b
<1>1. m \in {a, b} /\ \A y \in {a, b} : m >= y
  OBVIOUS
<1>2. \A x \in {a, b} : (\A y \in {a, b} : x >= y) => x = m
  OBVIOUS
<1> HIDE DEF m
<1>3. Max({a, b}) = m
  BY <1>1, <1>2 DEF Max
<1> QED
  BY <1>3 DEF m

LEMMA NodeFacts ==
  ASSUME FilesAssumption, NEW n, IsNode(n)
  PROVE  /\ Level(n) \in 0 .. 3 /\ Len(n) \in 1 .. Depth(n) /\ DOMAIN n = 1 .. Len(n)
         /\ Depth(n) \in 2 .. 4 /\ n[1] = Level(n) /\ n \in Seq(Nat)
         /\ \A d \in 2 .. Len(n) : n[d] \in 1 .. Width(n)
         /\ Width(n) \in Nat \ {0}
         /\ Level(n) # 0 => Width(n) = Fan
         /\ Level(n) = 0 => Len(n) = 2
<1>1. /\ n \in Seq(Nat) /\ n # <<>> /\ Level(n) \in 0 .. 3
      /\ Len(n) <= Level(n) + 1 \/ Len(n) = 2
      /\ Level(n) = 0 => Len(n) = 2
      /\ \A d \in 2 .. Len(n) : n[d] \in 1 .. Width(n)
  BY DEF IsNode
<1>2. Width(n) \in Nat \ {0} /\ (Level(n) # 0 => Width(n) = Fan)
  BY DEF Width, FilesAssumption
<1>3. Len(n) \in Nat \ {0} /\ DOMAIN n = 1 .. Len(n) /\ n[1] = Level(n)
  BY <1>1 DEF Level
<1>4. Depth(n) \in 2 .. 4 /\ Len(n) \in 1 .. Depth(n)
  BY <1>1, <1>3 DEF Depth
<1> QED
  BY <1>1, <1>2, <1>3, <1>4

\* A leaf, by its digits.
IsFull(n) ==
  /\ IsNode(n) /\ Len(n) = Depth(n)

LEMMA LeafIsFull ==
  ASSUME FilesAssumption, NEW n, IsNode(n)
  PROVE  IsLeaf(n) <=> IsFull(n)
<1>1. /\ Level(n) \in 0 .. 3 /\ Len(n) \in 1 .. Depth(n)
      /\ Level(n) = 0 => Len(n) = 2
  BY NodeFacts
<1>2. Len(n) = Depth(n) <=> Level(n) = 0 \/ Len(n) = Level(n) + 1
  <2>1. Depth(n) = IF Level(n) <= 1 THEN 2 ELSE Level(n) + 1
    BY DEF Depth
  <2>2. Level(n) = 0 \/ Level(n) = 1 \/ Level(n) > 1
    BY <1>1
  <2>3. CASE Level(n) = 0
    BY <1>1, <2>1, <2>3
  <2>4. CASE Level(n) = 1
    BY <2>1, <2>4
  <2>5. CASE Level(n) > 1
    <3>1. Depth(n) = Level(n) + 1 /\ Level(n) # 0
      BY <1>1, <2>1, <2>5
    <3> QED
      BY <3>1
  <2> QED
    BY <2>2, <2>3, <2>4, <2>5
<1> QED
  BY <1>2 DEF IsLeaf, IsFull

LEMMA LeafOfIs ==
  ASSUME FilesAssumption, NEW n, IsNode(n), NEW v \in 1 .. Fan
  PROVE  /\ IsFull(LeafOf(n, v)) /\ Level(LeafOf(n, v)) = Level(n) /\ Depth(LeafOf(n, v)) = Depth(n)
         /\ \A d \in 1 .. Depth(n) : LeafOf(n, v)[d] = IF d <= Len(n) THEN n[d] ELSE v
         /\ Len(n) = Depth(n) => LeafOf(n, v) = n
<1> DEFINE f == LeafOf(n, v)
<1>1. /\ Level(n) \in 0 .. 3 /\ Len(n) \in 1 .. Depth(n) /\ DOMAIN n = 1 .. Len(n)
      /\ Depth(n) \in 2 .. 4 /\ n[1] = Level(n) /\ n \in Seq(Nat)
      /\ \A d \in 2 .. Len(n) : n[d] \in 1 .. Width(n)
      /\ Level(n) # 0 => Width(n) = Fan
      /\ Level(n) = 0 => Len(n) = 2
      /\ Fan \in Nat \ {0}
  BY NodeFacts DEF FilesAssumption
<1>2. \A d \in 1 .. Depth(n) : f[d] = IF d <= Len(n) THEN n[d] ELSE v
  BY DEF LeafOf
<1>3. f \in Seq(Nat) /\ Len(f) = Depth(n)
  <2>1. \A d \in 1 .. Depth(n) : (IF d <= Len(n) THEN n[d] ELSE v) \in Nat
    BY <1>1
  <2>2. f \in [1 .. Depth(n) -> Nat]
    BY <2>1 DEF LeafOf
  <2>3. Depth(n) \in Nat
    BY <1>1
  <2> HIDE DEF f
  <2> QED
    BY <2>2, <2>3
<1> HIDE DEF f
<1>4. Level(f) = Level(n) /\ f[1] = Level(n)
  BY <1>1, <1>2 DEF Level
<1>5. Depth(f) = Depth(n) /\ Width(f) = Width(n)
  BY <1>4 DEF Depth, Width
<1>6. \A d \in 2 .. Depth(n) : f[d] \in 1 .. Width(n)
  <2> TAKE d \in 2 .. Depth(n)
  <2>1. CASE d <= Len(n)
    BY <1>1, <1>2, <2>1
  <2>2. CASE ~(d <= Len(n))
    <3>1. Level(n) # 0
      BY <1>1, <2>2 DEF Depth
    <3> QED
      BY <1>1, <1>2, <2>2, <3>1
  <2> QED
    BY <2>1, <2>2
<1>7. IsNode(f)
  <2>1. f # <<>> /\ Level(f) \in 0 .. 3 /\ (Len(f) <= Level(f) + 1 \/ Len(f) = 2) /\ (Level(f) = 0 => Len(f) = 2)
    BY <1>1, <1>3, <1>4 DEF Depth
  <2> QED
    BY <1>3, <1>5, <1>6, <2>1 DEF IsNode
<1>8. Len(n) = Depth(n) => f = n
  <2> SUFFICES ASSUME Len(n) = Depth(n) PROVE f = n
    OBVIOUS
  <2>1. \A d \in 1 .. Len(n) : f[d] = n[d]
    BY <1>1, <1>2
  <2> QED
    BY <1>1, <1>3, <2>1
<1> QED
  BY <1>2, <1>3, <1>4, <1>5, <1>7, <1>8 DEF f, IsFull

LEMMA BelowIs ==
  ASSUME FilesAssumption, NEW n, IsNode(n)
  PROVE  Below(n) = Logical(LeafOf(n, 1)) .. Logical(LeafOf(n, Fan))
<1>1. Level(n) + 1 \in Nat /\ Level(n) \in 0 .. 3
  BY NodeFacts
<1>2. Max({2, Level(n) + 1}) = Depth(n)
  BY <1>1, LargerOf DEF Depth
<1> QED
  BY <1>2 DEF Below, LeafOf

-----------------------------------------------------------------------------
\* The number of a leaf.
\* The digits of a leaf of the triple tree but the last, as one number.
Upper(n) == (n[2] - 1) * Fan + (n[3] - 1)

LEMMA DigitsIn ==
  ASSUME FilesAssumption, NEW n, IsFull(n), NEW d \in 2 .. Depth(n)
  PROVE  /\ n[d] \in 1 .. Width(n) /\ Fan \in Nat \ {0} /\ Direct \in Nat \ {0}
         /\ Level(n) # 0 => n[d] \in 1 .. Fan
<1>1. /\ Len(n) = Depth(n) /\ \A e \in 2 .. Len(n) : n[e] \in 1 .. Width(n)
      /\ Level(n) # 0 => Width(n) = Fan
  BY NodeFacts DEF IsFull
<1> QED
  BY <1>1 DEF FilesAssumption

LEMMA DirectIs ==
  ASSUME FilesAssumption, NEW n, IsFull(n), Level(n) = 0
  PROVE  n[2] \in 1 .. Direct /\ Logical(n) = n[2]
<1>1. n[2] \in 1 .. Direct
  BY DigitsIn DEF Depth, Width
<1> QED
  BY <1>1 DEF Logical

LEMMA SingleIs ==
  ASSUME FilesAssumption, NEW n, IsFull(n), Level(n) = 1
  PROVE  n[2] \in 1 .. Fan /\ Logical(n) = Base(1) + n[2]
<1>1. n[2] \in 1 .. Fan
  BY DigitsIn DEF Depth
<1> QED
  BY <1>1 DEF Logical, Base

LEMMA DoubleIs ==
  ASSUME FilesAssumption, NEW n, IsFull(n), Level(n) = 2
  PROVE  /\ n[2] \in 1 .. Fan /\ n[3] \in 1 .. Fan
         /\ Logical(n) = Base(2) + ((n[2] - 1) * Fan + n[3])
<1>1. /\ n[2] \in 1 .. Fan /\ n[3] \in 1 .. Fan /\ Fan \in Nat \ {0} /\ Direct \in Nat \ {0}
  BY DigitsIn DEF Depth
<1>2. Logical(n) = Direct + Fan + (n[2] - 1) * Fan + n[3]
  BY DEF Logical
<1>3. (n[2] - 1) * Fan \in Nat
  BY <1>1
<1>4. Base(2) = Direct + Fan
  BY DEF Base
<1> QED
  BY <1>1, <1>2, <1>3, <1>4

LEMMA TripleIs ==
  ASSUME FilesAssumption, NEW n, IsFull(n), Level(n) = 3
  PROVE  /\ n[2] \in 1 .. Fan /\ n[3] \in 1 .. Fan /\ n[4] \in 1 .. Fan
         /\ (n[2] - 1) * Fan + n[3] \in 1 .. Fan * Fan
         /\ Upper(n) = ((n[2] - 1) * Fan + n[3]) - 1
         /\ Upper(n) \in Nat /\ Upper(n) < Fan * Fan
         /\ Logical(n) = Base(3) + (Upper(n) * Fan + n[4])
<1>1. /\ n[2] \in 1 .. Fan /\ n[3] \in 1 .. Fan /\ n[4] \in 1 .. Fan
      /\ Fan \in Nat \ {0} /\ Direct \in Nat \ {0}
  BY DigitsIn DEF Depth
<1> DEFINE i == n[2]
           j == n[3]
           k == n[4]
           G == Fan * Fan
<1>2. Logical(n) = Direct + Fan + G + ((i - 1) * Fan + j - 1) * Fan + k
  BY DEF Logical
<1>3. Upper(n) = (i - 1) * Fan + (j - 1) /\ Base(3) = Direct + Fan + G
  BY DEF Upper, Base
<1>4. i - 1 \in Nat /\ j - 1 \in Nat /\ i - 1 < Fan /\ j \in 1 .. Fan /\ k \in 1 .. Fan
  BY <1>1
<1> HIDE DEF i, j, k
<1>5. (i - 1) * Fan + j \in 1 .. G
  BY <1>1, <1>4, DigitRange
<1> HIDE DEF G
<1>6. (i - 1) * Fan \in Nat
  BY <1>1, <1>4
<1> DEFINE P == (i - 1) * Fan
<1>7. /\ P \in Nat /\ P + j \in 1 .. G /\ Upper(n) = P + (j - 1)
      /\ Logical(n) = Direct + Fan + G + (P + j - 1) * Fan + k
  BY <1>2, <1>3, <1>5, <1>6
<1> HIDE DEF P
<1>8. G \in Nat
  BY <1>1 DEF G
<1>9. Upper(n) \in Nat /\ Upper(n) < G /\ Upper(n) = (P + j) - 1 /\ P + j - 1 = Upper(n)
  BY <1>4, <1>7, <1>8
<1>10. Upper(n) * Fan \in Nat
  BY <1>1, <1>9
<1>11. Logical(n) = Direct + Fan + G + Upper(n) * Fan + k
  BY <1>7, <1>9
<1> DEFINE U == Upper(n) * Fan
<1> HIDE DEF U
<1>12. Direct + Fan + G + U + k = (Direct + Fan + G) + (U + k)
  BY <1>1, <1>4, <1>8, <1>10 DEF U
<1>13. Logical(n) = Base(3) + (Upper(n) * Fan + k)
  BY <1>3, <1>11, <1>12 DEF U
<1> QED
  BY <1>1, <1>7, <1>9, <1>13 DEF i, j, k, G, P

LEMMA BasesRise ==
  ASSUME FilesAssumption
  PROVE  /\ Base(0) = 0 /\ Base(1) = Base(0) + Direct /\ Base(2) = Base(1) + Fan
         /\ Base(3) = Base(2) + Fan * Fan /\ Base(4) = Base(3) + (Fan * Fan) * Fan
         /\ Direct \in Nat \ {0} /\ Fan \in Nat \ {0} /\ Fan * Fan \in Nat /\ (Fan * Fan) * Fan \in Nat
         /\ \A l \in 0 .. 4 : Base(l) \in Nat
<1>1. Direct \in Nat \ {0} /\ Fan \in Nat \ {0}
  BY DEF FilesAssumption
<1>2. Fan * Fan \in Nat
  BY <1>1
<1>3. (Fan * Fan) * Fan \in Nat
  BY <1>1, <1>2
<1>4. /\ Base(0) = 0 /\ Base(1) = Direct /\ Base(2) = Direct + Fan
      /\ Base(3) = Direct + Fan + Fan * Fan
      /\ Base(4) = Direct + Fan + Fan * Fan + (Fan * Fan) * Fan
  BY DEF Base
<1>5. \A l \in 0 .. 4 : l = 0 \/ l = 1 \/ l = 2 \/ l = 3 \/ l = 4
  OBVIOUS
<1> HIDE DEF Base
<1> DEFINE G == Fan * Fan
           H == (Fan * Fan) * Fan
<1>6. /\ Base(0) = 0 /\ Base(1) = Direct /\ Base(2) = Direct + Fan
      /\ Base(3) = Direct + Fan + G
      /\ Base(4) = Direct + Fan + G + H
      /\ G \in Nat /\ H \in Nat
  BY <1>2, <1>3, <1>4
<1> HIDE DEF G, H
<1>7. /\ Base(0) = 0 /\ Base(1) = Base(0) + Direct /\ Base(2) = Base(1) + Fan
      /\ Base(3) = Base(2) + G /\ Base(4) = Base(3) + H
      /\ \A l \in 0 .. 4 : Base(l) \in Nat
  BY <1>1, <1>5, <1>6
<1> QED
  BY <1>1, <1>6, <1>7 DEF G, H

LEMMA NumberRange ==
  ASSUME FilesAssumption, NEW n, IsFull(n)
  PROVE  Logical(n) \in Base(Level(n)) + 1 .. Base(Level(n) + 1)
<1>1. Level(n) \in 0 .. 3
  BY NodeFacts DEF IsFull
<1>2. CASE Level(n) = 0
  BY <1>2, DirectIs, BasesRise
<1>3. CASE Level(n) = 1
  BY <1>3, SingleIs, BasesRise
<1>4. CASE Level(n) = 2
  <2>1. /\ n[2] \in 1 .. Fan /\ n[3] \in 1 .. Fan /\ Fan \in Nat \ {0}
        /\ Logical(n) = Base(2) + ((n[2] - 1) * Fan + n[3])
    BY <1>4, DoubleIs, BasesRise
  <2> DEFINE v == (n[2] - 1) * Fan + n[3]
             G == Fan * Fan
  <2>2. v \in 1 .. G
    BY <2>1, DigitRange
  <2>3. Base(3) = Base(2) + G /\ G \in Nat /\ Base(2) \in Nat /\ Logical(n) = Base(2) + v
    BY <2>1, BasesRise
  <2> HIDE DEF v, G
  <2> QED
    BY <1>4, <2>2, <2>3
<1>5. CASE Level(n) = 3
  <2>1. /\ n[4] \in 1 .. Fan /\ Fan \in Nat \ {0} /\ Upper(n) \in Nat /\ Upper(n) < Fan * Fan
        /\ Logical(n) = Base(3) + (Upper(n) * Fan + n[4]) /\ Fan * Fan \in Nat
    BY <1>5, TripleIs, BasesRise
  <2> DEFINE v == Upper(n) * Fan + n[4]
             H == (Fan * Fan) * Fan
  <2>2. v \in 1 .. H
    BY <2>1, DigitRange
  <2>3. Base(4) = Base(3) + H /\ H \in Nat /\ Base(3) \in Nat /\ Logical(n) = Base(3) + v
    BY <2>1, BasesRise
  <2> HIDE DEF v, H
  <2> QED
    BY <1>5, <2>2, <2>3
<1> QED
  BY <1>1, <1>2, <1>3, <1>4, <1>5

\* Leaves are numbered in the order of their digits.
LEMMA NumbersRise ==
  ASSUME FilesAssumption, NEW n, IsFull(n), NEW m, IsFull(m), Level(n) = Level(m),
         NEW d \in 2 .. Depth(n), \A e \in 2 .. d - 1 : n[e] = m[e], n[d] < m[d]
  PROVE  Logical(n) < Logical(m)
<1>1. Level(n) \in 0 .. 3 /\ Depth(m) = Depth(n) /\ Base(Level(n)) \in Nat
  <2>1. Level(n) \in 0 .. 3
    BY NodeFacts DEF IsFull
  <2> QED
    BY <2>1, BasesRise DEF Depth
<1>2. CASE Level(n) = 0
  <2>1. d = 2
    BY <1>2 DEF Depth
  <2> QED
    BY <1>2, <2>1, DirectIs
<1>3. CASE Level(n) = 1
  <2>1. d = 2
    BY <1>3 DEF Depth
  <2>2. n[2] \in 1 .. Fan /\ Logical(n) = Base(1) + n[2]
    BY <1>3, SingleIs
  <2>3. m[2] \in 1 .. Fan /\ Logical(m) = Base(1) + m[2]
    BY <1>3, SingleIs
  <2>4. Base(1) \in Nat
    BY BasesRise
  <2> QED
    BY <2>1, <2>2, <2>3, <2>4
<1>4. CASE Level(n) = 2
  <2>1. /\ n[2] \in 1 .. Fan /\ n[3] \in 1 .. Fan /\ Fan \in Nat \ {0}
        /\ m[2] \in 1 .. Fan /\ m[3] \in 1 .. Fan
        /\ Logical(n) = Base(2) + ((n[2] - 1) * Fan + n[3])
        /\ Logical(m) = Base(2) + ((m[2] - 1) * Fan + m[3])
        /\ Base(2) \in Nat
    <3>1. /\ n[2] \in 1 .. Fan /\ n[3] \in 1 .. Fan
          /\ Logical(n) = Base(2) + ((n[2] - 1) * Fan + n[3])
      BY <1>4, DoubleIs
    <3>2. /\ m[2] \in 1 .. Fan /\ m[3] \in 1 .. Fan
          /\ Logical(m) = Base(2) + ((m[2] - 1) * Fan + m[3])
      BY <1>4, DoubleIs
    <3>3. Base(2) \in Nat /\ Fan \in Nat \ {0}
      BY BasesRise
    <3> QED
      BY <3>1, <3>2, <3>3
  <2>2. d = 2 \/ (d = 3 /\ n[2] = m[2])
    BY <1>4 DEF Depth
  <2>3. (n[2] - 1) * Fan + n[3] < (m[2] - 1) * Fan + m[3]
    <3>1. CASE d = 2
      <4>1. n[2] - 1 \in Nat /\ m[2] - 1 \in Nat /\ n[2] - 1 < m[2] - 1
        BY <2>1, <3>1
      <4> QED
        BY <2>1, <4>1, LowerDigit
    <3>2. CASE d = 3 /\ n[2] = m[2]
      <4>1. (n[2] - 1) * Fan \in Nat /\ (n[2] - 1) * Fan = (m[2] - 1) * Fan /\ n[3] < m[3]
        BY <2>1, <3>2
      <4> QED
        BY <2>1, <4>1
    <3> QED
      BY <2>2, <3>1, <3>2
  <2>4. (n[2] - 1) * Fan + n[3] \in Nat /\ (m[2] - 1) * Fan + m[3] \in Nat
    BY <2>1
  <2> QED
    BY <2>1, <2>3, <2>4
<1>5. CASE Level(n) = 3
  <2>1. /\ n[2] \in 1 .. Fan /\ n[3] \in 1 .. Fan /\ n[4] \in 1 .. Fan /\ Fan \in Nat \ {0}
        /\ m[2] \in 1 .. Fan /\ m[3] \in 1 .. Fan /\ m[4] \in 1 .. Fan
        /\ Upper(n) \in Nat /\ Upper(m) \in Nat
        /\ Logical(n) = Base(3) + (Upper(n) * Fan + n[4])
        /\ Logical(m) = Base(3) + (Upper(m) * Fan + m[4])
        /\ Base(3) \in Nat
    <3>1. /\ n[2] \in 1 .. Fan /\ n[3] \in 1 .. Fan /\ n[4] \in 1 .. Fan /\ Upper(n) \in Nat
          /\ Logical(n) = Base(3) + (Upper(n) * Fan + n[4])
      BY <1>5, TripleIs
    <3>2. /\ m[2] \in 1 .. Fan /\ m[3] \in 1 .. Fan /\ m[4] \in 1 .. Fan /\ Upper(m) \in Nat
          /\ Logical(m) = Base(3) + (Upper(m) * Fan + m[4])
      BY <1>5, TripleIs
    <3>3. Base(3) \in Nat /\ Fan \in Nat \ {0}
      BY BasesRise
    <3> QED
      BY <3>1, <3>2, <3>3
  <2>2. d = 2 \/ (d = 3 /\ n[2] = m[2]) \/ (d = 4 /\ n[2] = m[2] /\ n[3] = m[3])
    BY <1>5 DEF Depth
  <2>3. \/ Upper(n) < Upper(m)
        \/ Upper(n) = Upper(m) /\ n[4] < m[4]
    <3>1. CASE d = 2
      <4>1. n[2] - 1 \in Nat /\ m[2] - 1 \in Nat /\ n[2] - 1 < m[2] - 1
        BY <2>1, <3>1
      <4>2. (n[2] - 1) * Fan + n[3] < (m[2] - 1) * Fan + m[3]
        BY <2>1, <4>1, LowerDigit
      <4>3. (n[2] - 1) * Fan \in Nat /\ (m[2] - 1) * Fan \in Nat
        BY <2>1
      <4> QED
        BY <2>1, <4>2, <4>3 DEF Upper
    <3>2. CASE d = 3 /\ n[2] = m[2]
      <4>1. (n[2] - 1) * Fan \in Nat /\ (n[2] - 1) * Fan = (m[2] - 1) * Fan /\ n[3] < m[3]
        BY <2>1, <3>2
      <4> QED
        BY <2>1, <4>1 DEF Upper
    <3>3. CASE d = 4 /\ n[2] = m[2] /\ n[3] = m[3]
      BY <3>3 DEF Upper
    <3> QED
      BY <2>2, <3>1, <3>2, <3>3
  <2>4. Upper(n) * Fan + n[4] < Upper(m) * Fan + m[4]
    <3>1. CASE Upper(n) < Upper(m)
      BY <2>1, <3>1, LowerDigit
    <3>2. CASE Upper(n) = Upper(m) /\ n[4] < m[4]
      <4>1. Upper(n) * Fan \in Nat
        BY <2>1
      <4> QED
        BY <2>1, <3>2, <4>1
    <3> QED
      BY <2>3, <3>1, <3>2
  <2>5. Upper(n) * Fan + n[4] \in Nat /\ Upper(m) * Fan + m[4] \in Nat
    BY <2>1
  <2> QED
    BY <2>1, <2>4, <2>5
<1> QED
  BY <1>1, <1>2, <1>3, <1>4, <1>5

LEMMA BasesInOrder ==
  ASSUME FilesAssumption, NEW l \in 0 .. 4, NEW m \in 0 .. 4, l <= m
  PROVE  Base(l) <= Base(m) /\ Base(l) \in Nat /\ Base(m) \in Nat
<1> DEFINE G == Fan * Fan
           H == (Fan * Fan) * Fan
<1>1. /\ Base(0) = 0 /\ Base(1) = Base(0) + Direct /\ Base(2) = Base(1) + Fan
      /\ Base(3) = Base(2) + G /\ Base(4) = Base(3) + H
      /\ Direct \in Nat /\ Fan \in Nat /\ G \in Nat /\ H \in Nat
      /\ \A k \in 0 .. 4 : Base(k) \in Nat
  BY BasesRise
<1> HIDE DEF G, H
<1>2. /\ Base(0) <= Base(1) /\ Base(1) <= Base(2) /\ Base(2) <= Base(3) /\ Base(3) <= Base(4)
      /\ Base(0) \in Nat /\ Base(1) \in Nat /\ Base(2) \in Nat /\ Base(3) \in Nat /\ Base(4) \in Nat
  BY <1>1
<1>3. l = 0 \/ l = 1 \/ l = 2 \/ l = 3 \/ l = 4
  OBVIOUS
<1>4. m = 0 \/ m = 1 \/ m = 2 \/ m = 3 \/ m = 4
  OBVIOUS
<1>5. Base(l) <= Base(m)
  BY <1>2, <1>3, <1>4
<1> QED
  BY <1>1, <1>5

LEMMA LevelBases ==
  ASSUME FilesAssumption, NEW l \in 0 .. 3
  PROVE  Base(l) \in Nat /\ Base(l + 1) \in Nat /\ l \in 0 .. 4 /\ l + 1 \in 0 .. 4
<1>1. l \in 0 .. 4 /\ l + 1 \in 0 .. 4
  OBVIOUS
<1> QED
  BY <1>1, BasesInOrder

\* m is n or an ancestor of it.
Leads(m, n) == Len(m) <= Len(n) /\ \A d \in 1 .. Len(m) : m[d] = n[d]

\* A leaf whose block is below a node is below that node.
LEMMA BelowLeads ==
  ASSUME FilesAssumption, NEW m, IsNode(m), NEW n, IsFull(n), Logical(n) \in Below(m)
  PROVE  Leads(m, n)
<1> DEFINE p == LeafOf(m, 1)
           q == LeafOf(m, Fan)
<1>1. Fan \in Nat \ {0} /\ 1 \in 1 .. Fan /\ Fan \in 1 .. Fan
  BY BasesRise
<1>2. /\ IsFull(p) /\ Level(p) = Level(m) /\ Depth(p) = Depth(m)
      /\ \A d \in 1 .. Depth(m) : p[d] = IF d <= Len(m) THEN m[d] ELSE 1
  BY <1>1, LeafOfIs
<1>3. /\ IsFull(q) /\ Level(q) = Level(m) /\ Depth(q) = Depth(m)
      /\ \A d \in 1 .. Depth(m) : q[d] = IF d <= Len(m) THEN m[d] ELSE Fan
  BY <1>1, LeafOfIs
<1>4. Logical(n) \in Logical(p) .. Logical(q)
  BY BelowIs
<1> HIDE DEF p, q
<1>5. /\ Logical(p) \in Base(Level(m)) + 1 .. Base(Level(m) + 1)
      /\ Logical(q) \in Base(Level(m)) + 1 .. Base(Level(m) + 1)
      /\ Logical(n) \in Base(Level(n)) + 1 .. Base(Level(n) + 1)
  BY <1>2, <1>3, NumberRange
<1>6. /\ Level(m) \in 0 .. 3 /\ Len(m) \in 1 .. Depth(m) /\ Depth(m) \in 2 .. 4
      /\ Level(n) \in 0 .. 3 /\ Len(n) = Depth(n) /\ n[1] = Level(n) /\ m[1] = Level(m)
      /\ m \in Seq(Nat) /\ n \in Seq(Nat)
  BY NodeFacts DEF IsFull
<1>7. Level(n) = Level(m)
  <2>1. /\ Base(Level(m)) \in Nat /\ Base(Level(m) + 1) \in Nat
        /\ Base(Level(n)) \in Nat /\ Base(Level(n) + 1) \in Nat
        /\ Level(m) \in 0 .. 4 /\ Level(m) + 1 \in 0 .. 4
        /\ Level(n) \in 0 .. 4 /\ Level(n) + 1 \in 0 .. 4
    BY <1>6, LevelBases
  <2>2. CASE Level(m) < Level(n)
    <3>1. Base(Level(m) + 1) <= Base(Level(n))
      <4>1. Level(m) + 1 <= Level(n)
        BY <1>6, <2>2
      <4> QED
        BY <2>1, <4>1, BasesInOrder
    <3> QED
      BY <1>4, <1>5, <2>1, <3>1
  <2>3. CASE Level(n) < Level(m)
    <3>1. Base(Level(n) + 1) <= Base(Level(m))
      <4>1. Level(n) + 1 <= Level(m)
        BY <1>6, <2>3
      <4> QED
        BY <2>1, <4>1, BasesInOrder
    <3> QED
      BY <1>4, <1>5, <2>1, <3>1
  <2> QED
    BY <1>6, <2>2, <2>3
<1>8. Depth(n) = Depth(m)
  BY <1>7 DEF Depth
<1>9. Logical(n) \in Nat /\ Logical(p) \in Nat /\ Logical(q) \in Nat
  <2>1. /\ Base(Level(m)) \in Nat /\ Base(Level(n)) \in Nat
    BY <1>6, LevelBases
  <2> QED
    BY <1>5, <2>1
<1>10. ASSUME NEW d \in 2 .. Len(m), \A e \in 2 .. d - 1 : m[e] = n[e]
       PROVE  m[d] = n[d]
  <2>1. d \in 2 .. Depth(n) /\ d \in 2 .. Depth(m) /\ d \in 1 .. Depth(m)
    BY <1>6, <1>8
  <2>2. \A e \in 2 .. d - 1 : p[e] = n[e] /\ q[e] = n[e]
    <3> TAKE e \in 2 .. d - 1
    <3>1. e \in 1 .. Depth(m) /\ e <= Len(m)
      BY <1>6, <2>1
    <3> QED
      BY <1>2, <1>3, <1>10, <3>1
  <2>3. p[d] = m[d] /\ q[d] = m[d]
    BY <1>2, <1>3, <2>1
  <2>4. m[d] \in Nat /\ n[d] \in Nat
    BY <1>6, <1>8, <2>1
  <2>5. CASE n[d] < m[d]
    <3>1. Logical(n) < Logical(p)
      BY <1>2, <1>7, <2>1, <2>2, <2>3, <2>5, NumbersRise
    <3> QED
      BY <1>4, <1>9, <3>1
  <2>6. CASE m[d] < n[d]
    <3>1. Logical(q) < Logical(n)
      BY <1>3, <1>7, <2>1, <2>2, <2>3, <2>6, NumbersRise
    <3> QED
      BY <1>4, <1>9, <3>1
  <2> QED
    BY <2>4, <2>5, <2>6
<1>11. Len(m) >= 2 => m[2] = n[2]
  BY <1>6, <1>10
<1>12. Len(m) >= 3 => m[3] = n[3]
  <2> SUFFICES ASSUME Len(m) >= 3 PROVE m[3] = n[3]
    OBVIOUS
  <2>1. 3 \in 2 .. Len(m) /\ \A e \in 2 .. 3 - 1 : m[e] = n[e]
    BY <1>6, <1>11
  <2> QED
    BY <1>10, <2>1
<1>13. Len(m) >= 4 => m[4] = n[4]
  <2> SUFFICES ASSUME Len(m) >= 4 PROVE m[4] = n[4]
    OBVIOUS
  <2>1. 4 \in 2 .. Len(m) /\ \A e \in 2 .. 4 - 1 : m[e] = n[e]
    BY <1>6, <1>11, <1>12
  <2> QED
    BY <1>10, <2>1
<1>14. ASSUME NEW d \in 1 .. Len(m) PROVE m[d] = n[d]
  <2>1. d = 1 \/ d = 2 \/ d = 3 \/ d = 4
    BY <1>6
  <2>2. Len(m) >= d
    BY <1>6
  <2> QED
    BY <1>6, <1>7, <1>11, <1>12, <1>13, <2>1, <2>2
<1> QED
  BY <1>6, <1>8, <1>14 DEF Leads

-----------------------------------------------------------------------------
\* The walk over the nodes.
\* The first block below a node, or behind the last level.
First(n) == IF Level(n) = 4 THEN Base(4) + 1 ELSE Logical(LeafOf(n, 1))

Above(m, n) == Len(m) < Len(n) /\ \A d \in 1 .. Len(m) : m[d] = n[d]

LEMMA RootIs ==
  ASSUME FilesAssumption, NEW l \in 0 .. 4
  PROVE  /\ Level(Root(l)) = l /\ (l # 4 => IsNode(Root(l)))
         /\ First(Root(l)) = Base(l) + 1
         /\ \A m : IsNode(m) => ~Above(m, Root(l))
<1>1. Fan \in Nat \ {0} /\ Direct \in Nat \ {0} /\ 1 \in 1 .. Fan
  BY BasesRise
<1>2. Level(Root(l)) = l
  BY DEF Root, Level
<1>3. l # 4 => IsNode(Root(l))
  <2>1. CASE l = 0
    <3>1. Root(0) = <<0, 1>>
      BY DEF Root
    <3> QED
      <4> DEFINE n == <<0, 1>>
      <4>1. n \in Seq(Nat) /\ n # <<>> /\ Len(n) = 2 /\ n[1] = 0 /\ n[2] = 1
        OBVIOUS
      <4> HIDE DEF n
      <4>2. Level(n) = 0 /\ Width(n) = Direct /\ 1 \in 1 .. Direct
        BY <1>1, <4>1 DEF Level, Width
      <4>3. \A d \in 2 .. Len(n) : n[d] \in 1 .. Width(n)
        BY <4>1, <4>2
      <4>4. IsNode(n)
        BY <4>1, <4>2, <4>3 DEF IsNode
      <4> QED
        BY <2>1, <3>1, <4>4 DEF n
  <2>2. CASE l \in 1 .. 3
    <3>1. Root(l) = <<l>>
      BY <2>2 DEF Root
    <3>2. <<l>> \in Seq(Nat) /\ <<l>> # <<>> /\ Len(<<l>>) = 1 /\ <<l>>[1] = l
      OBVIOUS
    <3> QED
      BY <2>2, <3>1, <3>2 DEF IsNode, Level
  <2> QED
    BY <2>1, <2>2
<1>4. ASSUME NEW m, IsNode(m) PROVE ~Above(m, Root(l))
  <2> SUFFICES ASSUME Above(m, Root(l)) PROVE FALSE
    OBVIOUS
  <2>1. Len(m) \in Nat \ {0} /\ m[1] = Level(m)
    <3>1. Len(m) \in 1 .. Depth(m) /\ m[1] = Level(m)
      BY <1>4, NodeFacts
    <3> QED
      BY <3>1
  <2>2. Len(m) < Len(Root(l)) /\ m[1] = Root(l)[1]
    BY <2>1 DEF Above
  <2>3. CASE l = 0
    <3>1. Len(Root(l)) = 2 /\ Root(l)[1] = 0
      BY <2>3 DEF Root
    <3>2. Len(m) < 2 /\ m[1] = 0
      BY <2>2, <3>1
    <3>3. Len(m) = 1
      <4> DEFINE len == Len(m)
      <4>1. len \in Nat /\ len # 0 /\ len < 2
        BY <2>1, <3>2
      <4> HIDE DEF len
      <4>2. len = 1
        BY <4>1
      <4> QED
        BY <4>2 DEF len
    <3>4. Level(m) = 0
      BY <2>1, <3>2
    <3> QED
      BY <1>4, <3>3, <3>4 DEF IsNode
  <2>4. CASE l # 0
    <3>1. Len(Root(l)) = 1
      BY <2>4 DEF Root
    <3> QED
      BY <2>1, <2>2, <3>1
  <2> QED
    BY <2>3, <2>4
<1>5. First(Root(l)) = Base(l) + 1
  <2>1. CASE l = 4
    BY <1>2, <2>1 DEF First
  <2>2. CASE l # 4
    <3> DEFINE p == LeafOf(Root(l), 1)
    <3>1. /\ IsFull(p) /\ Level(p) = l
          /\ \A d \in 1 .. Depth(Root(l)) : p[d] = IF d <= Len(Root(l)) THEN Root(l)[d] ELSE 1
      BY <1>1, <1>2, <1>3, <2>2, LeafOfIs
    <3>2. Depth(Root(l)) = IF l <= 1 THEN 2 ELSE l + 1
      BY <1>2 DEF Depth
    <3>3. \A d \in 2 .. Depth(Root(l)) : p[d] = 1
      <4> TAKE d \in 2 .. Depth(Root(l))
      <4>1. d \in 1 .. Depth(Root(l)) /\ d >= 2
        BY <3>2
      <4>2. CASE l = 0
        <5>1. Root(l) = <<0, 1>> /\ d = 2
          BY <3>2, <4>2 DEF Root
        <5> QED
          BY <3>1, <4>1, <5>1
      <4>3. CASE l # 0
        <5>1. Len(Root(l)) = 1
          BY <4>3 DEF Root
        <5> QED
          BY <3>1, <4>1, <5>1
      <4> QED
        BY <4>2, <4>3
    <3> HIDE DEF p
    <3>4. Logical(p) = Base(l) + 1
      <4>1. CASE l = 0
        <5>1. p[2] = 1
          BY <3>2, <3>3, <4>1
        <5> QED
          BY <3>1, <4>1, <5>1, DirectIs DEF Base
      <4>2. CASE l = 1
        <5>1. p[2] = 1
          BY <3>2, <3>3, <4>2
        <5> QED
          BY <3>1, <4>2, <5>1, SingleIs
      <4>3. CASE l = 2
        <5>1. p[2] = 1 /\ p[3] = 1
          BY <3>2, <3>3, <4>3
        <5>2. (1 - 1) * Fan + 1 = 1
          BY <1>1
        <5> QED
          BY <3>1, <4>3, <5>1, <5>2, DoubleIs
      <4>4. CASE l = 3
        <5>1. p[2] = 1 /\ p[3] = 1 /\ p[4] = 1
          BY <3>2, <3>3, <4>4
        <5>2. (1 - 1) * Fan + (1 - 1) = 0 /\ 0 * Fan + 1 = 1
          BY <1>1
        <5>3. Upper(p) = 0
          BY <5>1, <5>2 DEF Upper
        <5> QED
          BY <3>1, <4>4, <5>1, <5>2, <5>3, TripleIs
      <4> QED
        BY <2>2, <4>1, <4>2, <4>3, <4>4
    <3> QED
      BY <1>2, <2>2, <3>4 DEF First, p
  <2> QED
    BY <2>1, <2>2
<1> QED
  BY <1>2, <1>3, <1>4, <1>5

LEMMA FirstIs ==
  ASSUME FilesAssumption, NEW n, IsNode(n)
  PROVE  /\ First(n) \in Base(Level(n)) + 1 .. Base(Level(n) + 1)
         /\ First(n) \in Below(n)
         /\ IsFull(n) => First(n) = Logical(n) /\ Below(n) = {Logical(n)}
<1>1. Fan \in Nat \ {0} /\ 1 \in 1 .. Fan /\ Fan \in 1 .. Fan
  BY BasesRise
<1> DEFINE p == LeafOf(n, 1)
           q == LeafOf(n, Fan)
<1>2. /\ IsFull(p) /\ Level(p) = Level(n) /\ Depth(p) = Depth(n)
      /\ \A d \in 1 .. Depth(n) : p[d] = IF d <= Len(n) THEN n[d] ELSE 1
      /\ Len(n) = Depth(n) => p = n
  BY <1>1, LeafOfIs
<1>3. /\ IsFull(q) /\ Level(q) = Level(n) /\ Depth(q) = Depth(n)
      /\ \A d \in 1 .. Depth(n) : q[d] = IF d <= Len(n) THEN n[d] ELSE Fan
      /\ Len(n) = Depth(n) => q = n
  BY <1>1, LeafOfIs
<1>4. Below(n) = Logical(p) .. Logical(q)
  BY BelowIs
<1>5. Level(n) \in 0 .. 3 /\ Len(n) \in 1 .. Depth(n) /\ Depth(n) \in 2 .. 4
  BY NodeFacts
<1>6. First(n) = Logical(p)
  BY <1>5 DEF First
<1> HIDE DEF p, q
<1>7. /\ Logical(p) \in Base(Level(n)) + 1 .. Base(Level(n) + 1)
      /\ Logical(q) \in Base(Level(n)) + 1 .. Base(Level(n) + 1)
  BY <1>2, <1>3, NumberRange
<1>8. Logical(p) \in Nat /\ Logical(q) \in Nat
  <2>1. Base(Level(n)) \in Nat
    BY <1>5, LevelBases
  <2> QED
    BY <1>7, <2>1
<1>9. Logical(p) <= Logical(q)
  <2>1. CASE Len(n) = Depth(n)
    BY <1>2, <1>3, <1>8, <2>1
  <2>2. CASE Len(n) < Depth(n) /\ Fan = 1
    <3>1. \A d \in 1 .. Depth(n) : p[d] = q[d]
      BY <1>2, <1>3, <2>2
    <3>2. p \in Seq(Nat) /\ q \in Seq(Nat) /\ Len(p) = Depth(n) /\ Len(q) = Depth(n)
      BY <1>2, <1>3 DEF IsFull, IsNode
    <3>3. p = q
      BY <1>5, <3>1, <3>2
    <3> QED
      BY <1>8, <3>3
  <2>3. CASE Len(n) < Depth(n) /\ Fan # 1
    <3> DEFINE d == Len(n) + 1
    <3>1. d \in 2 .. Depth(p) /\ d \in 1 .. Depth(n) /\ ~(d <= Len(n))
      BY <1>2, <1>5, <2>3
    <3>2. p[d] = 1 /\ q[d] = Fan /\ 1 < Fan
      BY <1>1, <1>2, <1>3, <2>3, <3>1
    <3>3. \A e \in 2 .. d - 1 : p[e] = q[e]
      <4> TAKE e \in 2 .. d - 1
      <4>1. e \in 1 .. Depth(n) /\ e <= Len(n)
        BY <1>5, <2>3
      <4> QED
        BY <1>2, <1>3, <4>1
    <3> HIDE DEF d
    <3>4. Logical(p) < Logical(q)
      BY <1>2, <1>3, <3>1, <3>2, <3>3, NumbersRise
    <3> QED
      BY <1>8, <3>4
  <2> QED
    BY <1>5, <2>1, <2>2, <2>3
<1>10. IsFull(n) => First(n) = Logical(n) /\ Below(n) = {Logical(n)}
  <2> SUFFICES ASSUME IsFull(n) PROVE First(n) = Logical(n) /\ Below(n) = {Logical(n)}
    OBVIOUS
  <2>1. p = n /\ q = n
    BY <1>2, <1>3 DEF IsFull
  <2> QED
    BY <1>4, <1>6, <1>8, <2>1
<1> QED
  BY <1>4, <1>6, <1>7, <1>8, <1>9, <1>10

LEMMA DescendIs ==
  ASSUME FilesAssumption, NEW n, IsNode(n), ~IsFull(n)
  PROVE  /\ IsNode(Append(n, 1)) /\ Level(Append(n, 1)) = Level(n)
         /\ First(Append(n, 1)) = First(n)
         /\ \A m : Above(m, Append(n, 1)) => m \notin Seq(Nat) \/ m = n \/ Above(m, n)
<1> DEFINE c == Append(n, 1)
<1>1. /\ Level(n) \in 0 .. 3 /\ Len(n) \in 1 .. Depth(n) /\ DOMAIN n = 1 .. Len(n)
      /\ Depth(n) \in 2 .. 4 /\ n[1] = Level(n) /\ n \in Seq(Nat)
      /\ \A d \in 2 .. Len(n) : n[d] \in 1 .. Width(n)
      /\ Width(n) \in Nat \ {0}
      /\ Level(n) = 0 => Len(n) = 2
  BY NodeFacts
<1>2. Len(n) < Depth(n)
  BY <1>1 DEF IsFull
<1>3. /\ c \in Seq(Nat) /\ Len(c) = Len(n) + 1 /\ c[Len(n) + 1] = 1
      /\ \A d \in 1 .. Len(n) : c[d] = n[d]
      /\ c # <<>>
  BY <1>1
<1> HIDE DEF c
<1>5. Level(c) = Level(n)
  BY <1>1, <1>3 DEF Level
<1>6. Level(n) # 0
  BY <1>1, <1>2 DEF Depth
<1>7. Width(c) = Width(n) /\ Depth(c) = Depth(n)
  BY <1>5 DEF Width, Depth
<1>8. \A d \in 2 .. Len(c) : c[d] \in 1 .. Width(c)
  <2> TAKE d \in 2 .. Len(c)
  <2>1. d \in 2 .. Len(n) \/ d = Len(n) + 1
    BY <1>1, <1>3
  <2> QED
    BY <1>1, <1>3, <1>7, <2>1
<1>9. Len(c) <= Level(c) + 1
  <2>1. Depth(n) <= Level(n) + 1
    BY <1>1, <1>6 DEF Depth
  <2> QED
    BY <1>1, <1>2, <1>3, <1>5, <2>1
<1>10. IsNode(c)
  BY <1>1, <1>3, <1>5, <1>6, <1>8, <1>9 DEF IsNode
<1>11. LeafOf(c, 1) = LeafOf(n, 1)
  <2>1. \A d \in 1 .. Depth(n) :
          (IF d <= Len(c) THEN c[d] ELSE 1) = (IF d <= Len(n) THEN n[d] ELSE 1)
    <3> TAKE d \in 1 .. Depth(n)
    <3>1. d <= Len(n) \/ d = Len(n) + 1 \/ d > Len(n) + 1
      BY <1>1
    <3> QED
      BY <1>1, <1>3, <3>1
  <2> QED
    BY <1>7, <2>1 DEF LeafOf
<1>12. First(c) = First(n)
  BY <1>5, <1>11 DEF First
<1>13. ASSUME NEW m, Above(m, c), m \in Seq(Nat), m # n
       PROVE  Above(m, n)
  <2>1. Len(m) < Len(n) + 1 /\ Len(m) \in Nat /\ \A d \in 1 .. Len(m) : m[d] = c[d]
    BY <1>3, <1>13 DEF Above
  <2>2. \A d \in 1 .. Len(m) : m[d] = n[d]
    <3> TAKE d \in 1 .. Len(m)
    <3>1. d \in 1 .. Len(n)
      BY <1>1, <2>1
    <3> QED
      BY <1>3, <2>1, <3>1
  <2>3. Len(m) # Len(n)
    <3> SUFFICES ASSUME Len(m) = Len(n) PROVE FALSE
      OBVIOUS
    <3>2. n \in Seq(Nat) /\ m \in Seq(Nat)
      BY <1>1, <1>13
    <3>1. m = n
      BY <3>2, <2>2
    <3> QED
      BY <1>13, <3>1
  <2> QED
    BY <1>1, <2>1, <2>2, <2>3 DEF Above
<1> QED
  BY <1>5, <1>10, <1>12, <1>13 DEF c

LEMMA LargestIs ==
  ASSUME NEW S, S \subseteq 2 .. 4, S # {}
  PROVE  Max(S) \in S /\ \A y \in S : Max(S) >= y
<1> DEFINE m == IF 4 \in S THEN 4 ELSE IF 3 \in S THEN 3 ELSE 2
<1>1. \A y \in S : y = 2 \/ y = 3 \/ y = 4
  OBVIOUS
<1>2. m \in S /\ \A y \in S : m >= y
  <2>1. CASE 4 \in S
    BY <1>1, <2>1
  <2>2. CASE 4 \notin S /\ 3 \in S
    BY <1>1, <2>2
  <2>3. CASE 4 \notin S /\ 3 \notin S
    <3>1. \A y \in S : y = 2
      BY <1>1, <2>3
    <3>2. 2 \in S
      BY <3>1
    <3> QED
      BY <2>3, <3>1, <3>2
  <2> QED
    BY <2>1, <2>2, <2>3
<1> HIDE DEF m
<1> QED
  BY <1>2 DEF Max

\* The node after a leaf: the last digit that can grow does.
LEMMA AfterIs ==
  ASSUME FilesAssumption, NEW n, IsFull(n)
  PROVE  \/ /\ After(n) = Root(Level(n) + 1)
            /\ \A d \in 2 .. Depth(n) : n[d] = Width(n)
         \/ \E d \in 2 .. Depth(n) :
              /\ n[d] + 1 \in 1 .. Width(n) /\ \A e \in d + 1 .. Depth(n) : n[e] = Width(n)
              /\ After(n) = [i \in 1 .. d |-> IF i = d THEN n[i] + 1 ELSE n[i]]
<1>1. /\ Len(n) = Depth(n) /\ Depth(n) \in 2 .. 4
      /\ \A d \in 2 .. Len(n) : n[d] \in 1 .. Width(n)
      /\ Width(n) \in Nat \ {0}
  BY NodeFacts DEF IsFull
<1>2. WithinLevel(n) = {d \in 2 .. Depth(n) : n[d] < Width(n)}
  BY <1>1 DEF WithinLevel
<1>3. CASE WithinLevel(n) = {}
  <2>1. After(n) = Root(Level(n) + 1)
    BY <1>3 DEF After
  <2>2. \A d \in 2 .. Depth(n) : n[d] = Width(n)
    <3> TAKE d \in 2 .. Depth(n)
    <3>1. ~(n[d] < Width(n)) /\ n[d] \in 1 .. Width(n)
      BY <1>1, <1>2, <1>3
    <3> QED
      BY <1>1, <3>1
  <2> QED
    BY <2>1, <2>2
<1>4. CASE WithinLevel(n) # {}
  <2> DEFINE d == Max(WithinLevel(n))
  <2>1. WithinLevel(n) \subseteq 2 .. 4
    BY <1>1, <1>2
  <2>2. d \in WithinLevel(n) /\ \A y \in WithinLevel(n) : d >= y
    BY <1>4, <2>1, LargestIs
  <2>3. After(n) = [i \in 1 .. d |-> IF i = d THEN n[i] + 1 ELSE n[i]]
    BY <1>4 DEF After
  <2> HIDE DEF d
  <2>4. d \in 2 .. Depth(n) /\ n[d] < Width(n) /\ n[d] \in 1 .. Width(n)
    BY <1>1, <1>2, <2>2
  <2>5. n[d] + 1 \in 1 .. Width(n)
    BY <1>1, <2>4
  <2>6. \A e \in d + 1 .. Depth(n) : n[e] = Width(n)
    <3> TAKE e \in d + 1 .. Depth(n)
    <3>1. e \in 2 .. Depth(n) /\ ~(d >= e)
      BY <1>1, <2>4
    <3>2. ~(n[e] < Width(n))
      BY <1>2, <2>2, <3>1
    <3>3. n[e] \in 1 .. Width(n)
      BY <1>1, <3>1
    <3> QED
      BY <1>1, <3>2, <3>3
  <2> QED
    BY <2>3, <2>4, <2>5, <2>6
<1> QED
  BY <1>3, <1>4

\* Counting on in a pair of digits.
LEMMA Carry ==
  ASSUME NEW F \in Nat \ {0}, NEW a \in Nat
  PROVE  /\ (a + 1) * F + 1 = (a * F + F) + 1
         /\ a * F \in Nat
<1>1. (a + 1) * F = a * F + F
  OBVIOUS
<1> QED
  BY <1>1

LEMMA AllFull ==
  ASSUME FilesAssumption, NEW n, IsFull(n), \A d \in 2 .. Depth(n) : n[d] = Width(n)
  PROVE  Logical(n) = Base(Level(n) + 1)
<1>1. Level(n) \in 0 .. 3
  BY NodeFacts DEF IsFull
<1>2. CASE Level(n) = 0
  <2>1. n[2] = Direct
    BY <1>2 DEF Depth, Width
  <2> QED
    BY <1>2, <2>1, DirectIs DEF Base
<1>3. CASE Level(n) = 1
  <2>1. n[2] = Fan
    BY <1>3 DEF Depth, Width
  <2>2. Logical(n) = Base(1) + Fan
    BY <1>3, <2>1, SingleIs
  <2> QED
    BY <1>3, <2>2, BasesRise
<1>4. CASE Level(n) = 2
  <2>1. n[2] = Fan /\ n[3] = Fan
    BY <1>4 DEF Depth, Width
  <2>2. Logical(n) = Base(2) + ((Fan - 1) * Fan + Fan)
    BY <1>4, <2>1, DoubleIs
  <2>3. Fan \in Nat \ {0} /\ Base(3) = Base(2) + Fan * Fan
    BY BasesRise
  <2>4. (Fan - 1) * Fan + Fan = Fan * Fan
    BY <2>3
  <2> QED
    BY <1>4, <2>2, <2>3, <2>4
<1>5. CASE Level(n) = 3
  <2>1. n[2] = Fan /\ n[3] = Fan /\ n[4] = Fan
    BY <1>5 DEF Depth, Width
  <2>2. Upper(n) = ((Fan - 1) * Fan + Fan) - 1 /\ Logical(n) = Base(3) + (Upper(n) * Fan + Fan)
    BY <1>5, <2>1, TripleIs
  <2>3. Fan \in Nat \ {0} /\ Base(4) = Base(3) + (Fan * Fan) * Fan
    BY BasesRise
  <2> DEFINE G == Fan * Fan
  <2>4. (Fan - 1) * Fan + Fan = G /\ G \in Nat
    BY <2>3
  <2>5. Upper(n) = G - 1
    BY <2>2, <2>4
  <2> HIDE DEF G
  <2>6. (G - 1) * Fan + Fan = G * Fan
    BY <2>3, <2>4
  <2>7. Logical(n) = Base(3) + G * Fan
    BY <2>2, <2>5, <2>6
  <2> QED
    BY <1>5, <2>3, <2>7 DEF G
<1> QED
  BY <1>1, <1>2, <1>3, <1>4, <1>5

LEMMA NextNumber ==
  ASSUME FilesAssumption, NEW n, IsFull(n), NEW p, IsFull(p), Level(p) = Level(n),
         NEW d \in 2 .. Depth(n), p[d] = n[d] + 1,
         \A e \in 2 .. d - 1 : p[e] = n[e],
         \A e \in d + 1 .. Depth(n) : n[e] = Width(n) /\ p[e] = 1
  PROVE  Logical(p) = Logical(n) + 1
<1>1. Level(n) \in 0 .. 3 /\ Fan \in Nat \ {0} /\ Direct \in Nat \ {0}
  BY NodeFacts, BasesRise DEF IsFull
<1>2. CASE Level(n) = 0
  <2>1. d = 2
    BY <1>2 DEF Depth
  <2> QED
    BY <1>2, <2>1, DirectIs
<1>3. CASE Level(n) = 1
  <2>1. d = 2
    BY <1>3 DEF Depth
  <2>2. n[2] \in Nat /\ Logical(n) = Base(1) + n[2]
    BY <1>3, SingleIs
  <2>3. Logical(p) = Base(1) + p[2]
    BY <1>3, SingleIs
  <2>4. Base(1) \in Nat
    BY LevelBases
  <2> QED
    BY <2>1, <2>2, <2>3, <2>4
<1>4. CASE Level(n) = 2
  <2>1. /\ n[2] \in 1 .. Fan /\ n[3] \in 1 .. Fan
        /\ Logical(n) = Base(2) + ((n[2] - 1) * Fan + n[3])
    BY <1>4, DoubleIs
  <2>2. /\ p[2] \in 1 .. Fan /\ p[3] \in 1 .. Fan
        /\ Logical(p) = Base(2) + ((p[2] - 1) * Fan + p[3])
    BY <1>4, DoubleIs
  <2>3. Base(2) \in Nat
    BY LevelBases
  <2>4. \/ p[2] = n[2] + 1 /\ n[3] = Fan /\ p[3] = 1
        \/ p[2] = n[2] /\ p[3] = n[3] + 1
    <3>1. Depth(n) = 3 /\ Width(n) = Fan
      BY <1>4 DEF Depth, Width
    <3>2. CASE d = 2
      BY <3>1, <3>2
    <3>3. CASE d = 3
      BY <3>1, <3>3
    <3> QED
      BY <3>1, <3>2, <3>3
  <2>5. (p[2] - 1) * Fan + p[3] = ((n[2] - 1) * Fan + n[3]) + 1
    <3> DEFINE a == n[2] - 1
    <3>1. a \in Nat /\ a + 1 = n[2]
      BY <2>1
    <3>2. (a + 1) * Fan + 1 = (a * Fan + Fan) + 1 /\ a * Fan \in Nat
      BY <1>1, <3>1, Carry
    <3> HIDE DEF a
    <3>3. CASE p[2] = n[2] + 1 /\ n[3] = Fan /\ p[3] = 1
      <4>1. p[2] - 1 = a + 1
        BY <3>1, <3>3
      <4> QED
        BY <3>2, <3>3, <4>1 DEF a
    <3>4. CASE p[2] = n[2] /\ p[3] = n[3] + 1
      <4>1. p[2] - 1 = a
        BY <3>4 DEF a
      <4>2. a * Fan + (n[3] + 1) = (a * Fan + n[3]) + 1
        BY <2>1, <3>2
      <4> QED
        BY <3>4, <4>1, <4>2 DEF a
    <3> QED
      BY <2>4, <3>3, <3>4
  <2>6. (n[2] - 1) * Fan + n[3] \in Nat
    <3>1. n[2] - 1 \in Nat /\ n[3] \in Nat
      BY <2>1
    <3>2. (n[2] - 1) * Fan \in Nat
      BY <1>1, <3>1
    <3> QED
      BY <3>1, <3>2
  <2> QED
    BY <2>1, <2>2, <2>3, <2>5, <2>6
<1>5. CASE Level(n) = 3
  <2>1. /\ n[2] \in 1 .. Fan /\ n[3] \in 1 .. Fan /\ n[4] \in 1 .. Fan /\ Upper(n) \in Nat
        /\ Logical(n) = Base(3) + (Upper(n) * Fan + n[4])
        /\ Upper(n) = ((n[2] - 1) * Fan + n[3]) - 1
    BY <1>5, TripleIs
  <2>2. /\ p[2] \in 1 .. Fan /\ p[3] \in 1 .. Fan /\ p[4] \in 1 .. Fan /\ Upper(p) \in Nat
        /\ Logical(p) = Base(3) + (Upper(p) * Fan + p[4])
        /\ Upper(p) = ((p[2] - 1) * Fan + p[3]) - 1
    BY <1>5, TripleIs
  <2>3. Base(3) \in Nat
    BY LevelBases
  <2>4. \/ p[2] = n[2] + 1 /\ n[3] = Fan /\ p[3] = 1 /\ n[4] = Fan /\ p[4] = 1
        \/ p[2] = n[2] /\ p[3] = n[3] + 1 /\ n[4] = Fan /\ p[4] = 1
        \/ p[2] = n[2] /\ p[3] = n[3] /\ p[4] = n[4] + 1
    <3>1. Depth(n) = 4 /\ Width(n) = Fan
      BY <1>5 DEF Depth, Width
    <3>2. CASE d = 2
      BY <3>1, <3>2
    <3>3. CASE d = 3
      BY <3>1, <3>3
    <3>4. CASE d = 4
      BY <3>1, <3>4
    <3> QED
      BY <3>1, <3>2, <3>3, <3>4
  <2>5. \/ Upper(p) = Upper(n) + 1 /\ n[4] = Fan /\ p[4] = 1
        \/ Upper(p) = Upper(n) /\ p[4] = n[4] + 1
    <3> DEFINE a == n[2] - 1
               u == (n[2] - 1) * Fan + n[3]
               v == (p[2] - 1) * Fan + p[3]
    <3>1. a \in Nat /\ a + 1 = n[2]
      BY <2>1
    <3>2. (a + 1) * Fan + 1 = (a * Fan + Fan) + 1 /\ a * Fan \in Nat
      BY <1>1, <3>1, Carry
    <3>3. u = a * Fan + n[3]
      OBVIOUS
    <3>4. Upper(n) = u - 1 /\ Upper(p) = v - 1
      BY <2>1, <2>2
    <3>5. v = (p[2] - 1) * Fan + p[3]
      OBVIOUS
    <3>6. u \in Nat
      BY <2>1, <3>2, <3>3
    <3> HIDE DEF a, u, v
    <3>7. CASE p[2] = n[2] + 1 /\ n[3] = Fan /\ p[3] = 1 /\ n[4] = Fan /\ p[4] = 1
      <4>1. p[2] - 1 = a + 1
        BY <3>1, <3>7
      <4>2. v = u + 1
        BY <3>2, <3>3, <3>5, <3>7, <4>1
      <4> QED
        BY <3>4, <3>6, <3>7, <4>2
    <3>8. CASE p[2] = n[2] /\ p[3] = n[3] + 1 /\ n[4] = Fan /\ p[4] = 1
      <4>1. p[2] - 1 = a
        BY <3>8 DEF a
      <4>2. a * Fan + (n[3] + 1) = (a * Fan + n[3]) + 1
        BY <2>1, <3>2
      <4>3. v = u + 1
        BY <3>3, <3>5, <3>8, <4>1, <4>2
      <4> QED
        BY <3>4, <3>6, <3>8, <4>3
    <3>9. CASE p[2] = n[2] /\ p[3] = n[3] /\ p[4] = n[4] + 1
      <4>1. v = u
        BY <3>9 DEF u, v
      <4> QED
        BY <3>4, <3>9, <4>1
    <3> QED
      BY <2>4, <3>7, <3>8, <3>9
  <2>6. Upper(p) * Fan + p[4] = (Upper(n) * Fan + n[4]) + 1
    <3>1. (Upper(n) + 1) * Fan + 1 = (Upper(n) * Fan + Fan) + 1 /\ Upper(n) * Fan \in Nat
      BY <1>1, <2>1, Carry
    <3>2. CASE Upper(p) = Upper(n) + 1 /\ n[4] = Fan /\ p[4] = 1
      BY <3>1, <3>2
    <3>3. CASE Upper(p) = Upper(n) /\ p[4] = n[4] + 1
      <4>1. Upper(n) * Fan + (n[4] + 1) = (Upper(n) * Fan + n[4]) + 1
        BY <2>1, <3>1
      <4> QED
        BY <3>3, <4>1
    <3> QED
      BY <2>5, <3>2, <3>3
  <2>7. Upper(n) * Fan + n[4] \in Nat
    BY <1>1, <2>1
  <2> QED
    BY <2>1, <2>2, <2>3, <2>6, <2>7
<1> QED
  BY <1>1, <1>2, <1>3, <1>4, <1>5

LEMMA AfterFollows ==
  ASSUME FilesAssumption, NEW n, IsFull(n)
  PROVE  /\ IsNode(After(n)) \/ After(n) = Root(4)
         /\ First(After(n)) = Logical(n) + 1
         /\ Level(After(n)) = Level(n) \/ Level(After(n)) = Level(n) + 1
         /\ Level(After(n)) # Level(n) => Logical(n) = Base(Level(n) + 1)
         /\ \A m : IsNode(m) /\ Above(m, After(n)) => Above(m, n)
<1>1. /\ Level(n) \in 0 .. 3 /\ Len(n) = Depth(n) /\ DOMAIN n = 1 .. Len(n)
      /\ Depth(n) \in 2 .. 4 /\ n[1] = Level(n) /\ n \in Seq(Nat) /\ IsNode(n)
      /\ \A d \in 2 .. Len(n) : n[d] \in 1 .. Width(n)
      /\ Width(n) \in Nat \ {0}
      /\ Level(n) # 0 => Width(n) = Fan
      /\ Fan \in Nat \ {0} /\ 1 \in 1 .. Fan
  <2>1. IsNode(n) /\ Len(n) = Depth(n)
    BY DEF IsFull
  <2>2. Fan \in Nat \ {0} /\ 1 \in 1 .. Fan
    BY DEF FilesAssumption
  <2> QED
    BY <2>1, <2>2, NodeFacts
<1>2. CASE /\ After(n) = Root(Level(n) + 1)
           /\ \A d \in 2 .. Depth(n) : n[d] = Width(n)
  <2>1. Logical(n) = Base(Level(n) + 1)
    BY <1>2, AllFull
  <2>2. Level(n) + 1 \in 0 .. 4
    BY <1>1
  <2>3. /\ Level(After(n)) = Level(n) + 1 /\ First(After(n)) = Base(Level(n) + 1) + 1
        /\ Level(n) + 1 # 4 => IsNode(After(n))
        /\ \A m : IsNode(m) => ~Above(m, After(n))
    BY <1>2, <2>2, RootIs
  <2>4. Level(n) + 1 = 4 => After(n) = Root(4)
    BY <1>2
  <2> QED
    BY <2>1, <2>3, <2>4
<1>3. ASSUME NEW d \in 2 .. Depth(n),
             n[d] + 1 \in 1 .. Width(n), \A e \in d + 1 .. Depth(n) : n[e] = Width(n),
             After(n) = [i \in 1 .. d |-> IF i = d THEN n[i] + 1 ELSE n[i]]
      PROVE  /\ IsNode(After(n)) /\ Level(After(n)) = Level(n)
             /\ First(After(n)) = Logical(n) + 1
             /\ \A m : IsNode(m) /\ Above(m, After(n)) => Above(m, n)
  <2> DEFINE a == After(n)
  <2>1. \A i \in 1 .. d : a[i] = IF i = d THEN n[i] + 1 ELSE n[i]
    BY <1>3
  <2>2. d \in Nat /\ d >= 2 /\ d <= Depth(n) /\ d \in 1 .. d /\ 1 \in 1 .. d
    BY <1>1
  <2>3. a \in Seq(Nat) /\ Len(a) = d
    <3>1. \A i \in 1 .. d : (IF i = d THEN n[i] + 1 ELSE n[i]) \in Nat
      BY <1>1, <2>2
    <3>2. a \in [1 .. d -> Nat]
      BY <1>3, <3>1
    <3> HIDE DEF a
    <3> QED
      BY <2>2, <3>2
  <2> HIDE DEF a
  <2>4. a[1] = n[1] /\ Level(a) = Level(n)
    BY <1>1, <2>1, <2>2 DEF Level
  <2>5. Width(a) = Width(n) /\ Depth(a) = Depth(n)
    BY <2>4 DEF Width, Depth
  <2>6. \A e \in 2 .. d : a[e] \in 1 .. Width(a)
    <3> TAKE e \in 2 .. d
    <3>1. e \in 1 .. d /\ e \in 2 .. Len(n)
      BY <1>1, <2>2
    <3> QED
      BY <1>1, <1>3, <2>1, <2>5, <3>1
  <2>7. IsNode(a)
    <3>1. a # <<>> /\ (Level(a) = 0 => Len(a) = 2) /\ (Len(a) <= Level(a) + 1 \/ Len(a) = 2)
      BY <1>1, <2>2, <2>3, <2>4 DEF Depth
    <3> QED
      BY <1>1, <2>3, <2>4, <2>6, <3>1 DEF IsNode
  <2> DEFINE p == LeafOf(a, 1)
  <2>8. /\ IsFull(p) /\ Level(p) = Level(n)
        /\ \A e \in 1 .. Depth(n) : p[e] = IF e <= d THEN a[e] ELSE 1
    BY <1>1, <2>3, <2>4, <2>5, <2>7, LeafOfIs
  <2>9. First(a) = Logical(p)
    BY <1>1, <2>4 DEF First
  <2> HIDE DEF p
  <2>10. p[d] = n[d] + 1
    BY <1>1, <2>1, <2>2, <2>8
  <2>11. \A e \in 2 .. d - 1 : p[e] = n[e]
    <3> TAKE e \in 2 .. d - 1
    <3>1. e \in 1 .. d /\ e # d /\ e \in 1 .. Depth(n) /\ e <= d
      BY <1>1, <2>2
    <3> QED
      BY <2>1, <2>8, <3>1
  <2>12. \A e \in d + 1 .. Depth(n) : n[e] = Width(n) /\ p[e] = 1
    <3> TAKE e \in d + 1 .. Depth(n)
    <3>1. e \in 1 .. Depth(n) /\ ~(e <= d)
      BY <1>1, <2>2
    <3> QED
      BY <1>3, <2>8, <3>1
  <2>13. Logical(p) = Logical(n) + 1
    BY <2>8, <2>10, <2>11, <2>12, NextNumber
  <2>14. ASSUME NEW m, IsNode(m), Above(m, a) PROVE Above(m, n)
    <3>1. Len(m) < d /\ Len(m) \in Nat /\ \A e \in 1 .. Len(m) : m[e] = a[e]
      BY <2>3, <2>14 DEF Above, IsNode
    <3>2. \A e \in 1 .. Len(m) : m[e] = n[e]
      <4> TAKE e \in 1 .. Len(m)
      <4>1. e \in 1 .. d /\ e # d
        BY <2>2, <3>1
      <4> QED
        BY <2>1, <3>1, <4>1
    <3>3. Len(m) < Len(n)
      BY <1>1, <2>2, <3>1
    <3> QED
      BY <3>2, <3>3 DEF Above
  <2> QED
    BY <2>4, <2>7, <2>9, <2>13, <2>14 DEF a
<1> QED
  BY <1>2, <1>3, AfterIs

\* No extent has the longest length that an initialized one can have.
NoneOfFlag(f) == \A i \in DOMAIN f.items : f.items[i].raw # Flag

\* Items.
Taken(x) == x.kind = "extent" /\ Count(x) # 0 /\ ~Missing(x)

Before(f, i, j) ==
  \/ f.items[i].logical < f.items[j].logical
  \/ f.items[i].logical = f.items[j].logical /\ i <= j

LEMMA ItemFacts ==
  ASSUME FilesAssumption, NEW f, IsFile(f), NEW i \in DOMAIN f.items
  PROVE  /\ f.items[i] \in Item /\ f.items[i].raw \in Nat /\ f.items[i].raw < 2 * Flag
         /\ f.items[i].logical \in Nat /\ f.items[i].physical \in Nat
         /\ f.items[i].kind \in ItemKinds
         /\ Count(f.items[i]) \in Nat /\ Count(f.items[i]) < Flag
         /\ f.items[i].raw # Flag => Blocks(f.items[i]) = Count(f.items[i])
         /\ f.items[i].raw # Flag => (Initialized(f.items[i]) <=> ~Uninitialized(f.items[i]))
         /\ DOMAIN f.items = 1 .. Len(f.items) /\ Len(f.items) \in Nat
<1>1. f.items \in Seq(Item) /\ f.items[i].raw < 2 * Flag /\ Flag \in Nat \ {0}
  BY DEF IsFile, FilesAssumption
<1>2. f.items[i] \in Item
  BY <1>1
<1> DEFINE raw == f.items[i].raw
<1>3. /\ raw \in Nat /\ f.items[i].logical \in Nat /\ f.items[i].physical \in Nat
      /\ f.items[i].kind \in ItemKinds
  BY <1>2 DEF Item
<1>4. /\ raw % Flag \in Nat /\ raw % Flag < Flag
      /\ raw < Flag => raw % Flag = raw
      /\ raw >= Flag /\ raw < 2 * Flag => raw % Flag = raw - Flag
  <2> HIDE DEF raw
  <2> QED
    BY <1>1, <1>3
<1> HIDE DEF raw
<1>5. Count(f.items[i]) = raw % Flag
  BY DEF Count, raw
<1>6. Blocks(f.items[i]) = IF raw <= Flag THEN raw ELSE raw - Flag
  BY DEF Blocks, Initialized, raw
<1>7. (Initialized(f.items[i]) <=> raw <= Flag) /\ (Uninitialized(f.items[i]) <=> raw >= Flag)
  BY DEF Initialized, Uninitialized, raw
<1>8. raw < 2 * Flag
  BY <1>1 DEF raw
<1>9. raw # Flag => Blocks(f.items[i]) = Count(f.items[i])
  <2>1. CASE raw < Flag
    <3>1. raw <= Flag /\ raw % Flag = raw
      BY <1>1, <1>3, <1>4, <2>1 DEF raw
    <3> QED
      BY <1>5, <1>6, <3>1
  <2>2. CASE raw > Flag
    <3>1. ~(raw <= Flag) /\ raw % Flag = raw - Flag
      BY <1>1, <1>3, <1>4, <1>8, <2>2 DEF raw
    <3> QED
      BY <1>5, <1>6, <3>1
  <2>3. raw # Flag => raw < Flag \/ raw > Flag
    BY <1>1, <1>3 DEF raw
  <2> QED
    BY <2>1, <2>2, <2>3
<1>10. raw # Flag => (Initialized(f.items[i]) <=> ~Uninitialized(f.items[i]))
  BY <1>1, <1>3, <1>7 DEF raw
<1>11. Count(f.items[i]) \in Nat /\ Count(f.items[i]) < Flag
  BY <1>4, <1>5
<1>12. DOMAIN f.items = 1 .. Len(f.items) /\ Len(f.items) \in Nat
  BY <1>1
<1> QED
  BY <1>1, <1>2, <1>3, <1>9, <1>10, <1>11, <1>12 DEF raw

\* What an extent covers.
LEMMA CoversIs ==
  ASSUME FilesAssumption, NEW f, IsFile(f), NEW i \in DOMAIN f.items, f.items[i].raw # Flag,
         NEW b \in Nat \ {0}
  PROVE  i \in Covering(f, b) <=>
           f.items[i].logical <= b - 1 /\ b - 1 < f.items[i].logical + Count(f.items[i])
<1>1. /\ f.items[i].logical \in Nat /\ Count(f.items[i]) \in Nat
      /\ Blocks(f.items[i]) = Count(f.items[i])
  BY ItemFacts
<1>2. i \in Covering(f, b) <=>
        b - 1 \in f.items[i].logical .. f.items[i].logical + (Blocks(f.items[i]) - 1)
  BY DEF Covering
<1> QED
  BY <1>1, <1>2

\* The first extent that covers a block decides what it holds.
LEMMA FirstDecides ==
  ASSUME FilesAssumption, NEW f, IsFile(f), f.kind = "extents", NEW b \in Nat \ {0},
         NEW i \in Covering(f, b), \A j \in Covering(f, b) : Before(f, i, j)
  PROVE  BlockOf(f, b) = IF ~Initialized(f.items[i]) THEN Zero
                         ELSE f.items[i].physical + b - 1 - f.items[i].logical
<1> DEFINE first == CHOOSE n \in Covering(f, b) :
                 \A j \in Covering(f, b) :
                   \/ f.items[n].logical < f.items[j].logical
                   \/ f.items[n].logical = f.items[j].logical /\ n <= j
<1>1. first \in Covering(f, b) /\ \A j \in Covering(f, b) : Before(f, first, j)
  BY DEF Before
<1>2. BlockOf(f, b) = IF Covering(f, b) = {} \/ ~Initialized(f.items[first]) THEN Zero
                      ELSE f.items[first].physical + b - 1 - f.items[first].logical
  BY DEF BlockOf
<1> HIDE DEF first
<1>3. first \in DOMAIN f.items /\ i \in DOMAIN f.items
  BY <1>1 DEF Covering
<1>4. /\ f.items[i].logical \in Nat /\ f.items[first].logical \in Nat
      /\ i \in Nat /\ first \in Nat
  BY <1>3, ItemFacts
<1>5. first = i
  BY <1>1, <1>4 DEF Before
<1> QED
  BY <1>2, <1>5

LEMMA UncoveredIsZero ==
  ASSUME NEW f, f.kind = "extents", NEW b, Covering(f, b) = {}
  PROVE  BlockOf(f, b) = Zero
BY DEF BlockOf

LEMMA OneCovers ==
  ASSUME FilesAssumption, NEW f, IsFile(f), ~Overlapping(f), NEW b \in 1 .. f.size,
         NEW i \in Covering(f, b), NEW j \in Covering(f, b)
  PROVE  i = j
<1>1. ~(Cardinality(Covering(f, b)) > 1)
  BY DEF Overlapping
<1>2. IsFiniteSet(Covering(f, b))
  <2>1. f.items \in Seq(Item)
    BY DEF IsFile
  <2>2. DOMAIN f.items = 1 .. Len(f.items) /\ Len(f.items) \in Nat
    BY <2>1
  <2>3. IsFiniteSet(1 .. Len(f.items))
    BY <2>2, FS_Interval
  <2> QED
    BY <2>2, <2>3, FS_Subset DEF Covering
<1>3. Cardinality(Covering(f, b)) \in Nat
  BY <1>2, FS_CardinalityType
<1> SUFFICES ASSUME i # j PROVE FALSE
  OBVIOUS
<1>4. Cardinality({i, j}) = 2
  <2>1. IsFiniteSet({i}) /\ Cardinality({i}) = 1
    BY FS_Singleton
  <2>2. {i, j} = {i} \cup {j} /\ j \notin {i}
    OBVIOUS
  <2>3. Cardinality({i} \cup {j}) = Cardinality({i}) + 1
    BY <2>1, <2>2, FS_AddElement
  <2> QED
    BY <2>1, <2>2, <2>3
<1>5. {i, j} \subseteq Covering(f, b)
  OBVIOUS
<1>6. Cardinality({i, j}) <= Cardinality(Covering(f, b))
  BY <1>2, <1>5, FS_Subset
<1> QED
  BY <1>1, <1>3, <1>4, <1>6

LEMMA TakenIs ==
  ASSUME FilesAssumption, NEW f, IsFile(f), NEW i \in DOMAIN f.items, Count(f.items[i]) # 0
  PROVE  f.items[i].raw # Flag
<1>1. Flag \in Nat \ {0}
  BY DEF FilesAssumption
<1>2. Flag % Flag = 0
  BY <1>1
<1> QED
  BY <1>2 DEF Count

-----------------------------------------------------------------------------
RunRecord == [logical : Nat, physical : Nat, count : Nat, zeroed : BOOLEAN]

\* The state of a recovery through extents.  source: the items the runs come
\* from; current: that of the run being written, 0 for none.
\* Each run that is left comes from an item that was taken.
Sourced(source) ==
  /\ source \in Seq(Nat) /\ Len(source) = Len(runs) /\ runs \in Seq(RunRecord)
  /\ \A n \in 1 .. Len(runs) :
       /\ source[n] \in 1 .. item - 1 /\ Taken(file.items[source[n]])
       /\ runs[n] = Collected(file.items[source[n]])
  /\ \A m, n \in 1 .. Len(runs) : m < n => source[m] < source[n]

\* The run that is written has its place, and comes before those that are left.
Writing(source, current) ==
  /\ current \in 0 .. item - 1
  /\ run = IF current = 0 THEN NoRun ELSE <<Collected(file.items[current])>>
  /\ current # 0 =>
       /\ Taken(file.items[current])
       /\ Len(output) <= file.items[current].logical + Count(file.items[current])
       /\ file.items[current].logical <= Len(output) \/ Len(output) = file.size
       /\ \A n \in 1 .. Len(runs) : source[n] # current /\ Before(file, current, source[n])

\* An item that was taken is left, being written or written.
Accounted(source, current) ==
  \A i \in 1 .. item - 1 : Taken(file.items[i]) =>
    \/ i = current
    \/ \E n \in 1 .. Len(runs) : source[n] = i
    \/ file.items[i].logical + Count(file.items[i]) <= Len(output)

\* A run that is left behind the end of the output overlaps another extent.
LateOverlaps(source) ==
  \A n \in 1 .. Len(runs) : runs[n].logical < Len(output) =>
    \E j \in DOMAIN file.items : j # source[n] /\ j \in Covering(file, runs[n].logical + 1)

Stands(source, current) ==
  Sourced(source) /\ Writing(source, current) /\ Accounted(source, current) /\ LateOverlaps(source)

Placed ==
  \A b \in 1 .. Len(output) :
    /\ ~partial => output[b] = content[b]
    /\ ~Overlapping(file) => output[b] = content[b] \/ (output[b] = Zero /\ partial)

NoneMissing == \A i \in DOMAIN file.items : ~Missing(file.items[i])

ExtentsInv ==
  /\ item \in 1 .. Len(file.items) + 1
  /\ \A i \in 1 .. item - 1 : file.items[i].kind \in {"extent", "lost"}
  /\ ~partial => \A i \in 1 .. item - 1 : file.items[i].kind = "extent" /\ ~Missing(file.items[i])
  /\ pc = "extents" => output = <<>> /\ run = NoRun
  /\ pc = "runs" => item = Len(file.items) + 1
  /\ Sound /\ NoneMissing => ~partial
  /\ NoneOfFlag(file) => Placed
  /\ \E source, current : Stands(source, current)

\* A mark on an undamaged file has one of these reasons.
Excused ==
  \/ file.kind = "pointers" /\ file.size >= FirstTriple
  \/ file.kind = "extents"
     /\ \/ Overlapping(file)
        \/ NoRuns
        \/ \E i \in DOMAIN file.items : Missing(file.items[i])

Reliable == file.kind = "extents" => NoneOfFlag(file)

\* What a step leads to when the recovery ends with it, or goes on with Placed.
EndsWell(p) ==
  /\ ~p /\ Reliable => output = content
  /\ p /\ Sound => Excused

ExtTypes ==
  /\ file \in Files /\ content = Content(file)
  /\ pc \in {"open", "pointers", "extents", "inline", "runs", "done"}
  /\ pc \notin {"open", "done", "runs"} => file.kind = pc
  /\ pc = "runs" => file.kind = "extents"
  /\ output \in Seq(Nat) /\ Len(output) <= file.size
  /\ partial \in BOOLEAN
  /\ pc # "done" => status = 0

LEMMA FileFacts ==
  ASSUME FilesAssumption, ExtTypes
  PROVE  /\ IsFile(file) /\ file.size \in Nat /\ file.items \in Seq(Item)
         /\ DOMAIN file.items = 1 .. Len(file.items) /\ Len(file.items) \in Nat
         /\ Len(content) = file.size /\ DOMAIN content = 1 .. file.size
         /\ \A b \in 1 .. file.size : content[b] = BlockOf(file, b)
         /\ Len(output) \in Nat /\ Remaining = file.size - Len(output) /\ Remaining \in Nat
<1>1. IsFile(file)
  BY DEF FilesAssumption, ExtTypes
<1>2. file.size \in Nat /\ file.items \in Seq(Item)
  BY <1>1 DEF IsFile
<1>3. content = [b \in 1 .. file.size |-> BlockOf(file, b)]
  BY DEF ExtTypes, Content
<1>4. Len(content) = file.size /\ DOMAIN content = 1 .. file.size
  BY <1>2, <1>3
<1>5. \A b \in 1 .. file.size : content[b] = BlockOf(file, b)
  BY <1>3
<1>6. Len(output) \in Nat /\ Remaining = file.size - Len(output) /\ Remaining \in Nat
  BY <1>2 DEF ExtTypes, Remaining
<1> QED
  BY <1>1, <1>2, <1>4, <1>5, <1>6

\* Where no collected extent is, there are zeros, or something is lost.
LEMMA NothingTaken ==
  ASSUME FilesAssumption, ExtTypes, ExtentsInv, pc = "runs", NoneOfFlag(file), NEW b \in 1 .. file.size,
         \A i \in DOMAIN file.items : Taken(file.items[i]) => i \notin Covering(file, b)
  PROVE  partial \/ content[b] = Zero
<1>1. /\ IsFile(file) /\ DOMAIN file.items = 1 .. Len(file.items) /\ file.size \in Nat
      /\ content[b] = BlockOf(file, b) /\ file.kind = "extents"
  BY FileFacts DEF ExtTypes
<1>2. CASE Covering(file, b) = {}
  BY <1>1, <1>2, UncoveredIsZero
<1>3. ASSUME NEW i \in Covering(file, b) PROVE partial
  <2>1. i \in DOMAIN file.items /\ b \in Nat \ {0}
    BY <1>1 DEF Covering
  <2>2. /\ file.items[i].logical \in Nat /\ Count(file.items[i]) \in Nat
        /\ file.items[i].logical <= b - 1 /\ b - 1 < file.items[i].logical + Count(file.items[i])
    BY <1>1, <1>3, <2>1, ItemFacts, CoversIs DEF NoneOfFlag
  <2>3. Count(file.items[i]) # 0
    BY <2>1, <2>2
  <2>4. i \in 1 .. item - 1
    BY <1>1, <2>1, FileFacts DEF ExtentsInv
  <2> QED
    BY <1>3, <2>1, <2>3, <2>4 DEF Taken, ExtentsInv
<1> QED
  BY <1>2, <1>3

\* What the run being written has at its place.
LEMMA CellIs ==
  ASSUME FilesAssumption, ExtTypes, ExtentsInv, pc = "runs", NoneOfFlag(file), Remaining > 0,
         NEW source, NEW current, Stands(source, current), current # 0,
         Len(output) # file.items[current].logical + Count(file.items[current]),
         ~partial \/ ~Overlapping(file)
  PROVE  content[Len(output) + 1] =
           IF Uninitialized(file.items[current]) THEN Zero
           ELSE file.items[current].physical + Len(output) - file.items[current].logical
<1> DEFINE b == Len(output) + 1
           x == file.items[current]
<1>1. /\ IsFile(file) /\ DOMAIN file.items = 1 .. Len(file.items) /\ file.size \in Nat
      /\ Len(file.items) \in Nat /\ Len(output) \in Nat
      /\ b \in 1 .. file.size /\ file.kind = "extents"
      /\ content[b] = BlockOf(file, b) /\ b - 1 = Len(output) /\ b \in Nat \ {0}
  BY FileFacts DEF ExtTypes
<1> HIDE DEF b
<1>2. current \in DOMAIN file.items /\ item = Len(file.items) + 1
  BY <1>1 DEF Stands, Sourced, Writing, Accounted, LateOverlaps, ExtentsInv
<1>3. /\ x.logical \in Nat /\ Count(x) \in Nat /\ x.physical \in Nat /\ x.raw # Flag
      /\ Initialized(x) <=> ~Uninitialized(x)
  BY <1>1, <1>2, ItemFacts DEF NoneOfFlag
<1>4. x.logical <= Len(output) /\ Len(output) < x.logical + Count(x)
  <2>1. Len(output) # file.size
    BY <1>1 DEF Remaining
  <2>2. /\ Len(output) <= x.logical + Count(x)
        /\ x.logical <= Len(output) \/ Len(output) = file.size
    BY DEF Stands, Sourced, Writing, Accounted, LateOverlaps
  <2> HIDE DEF x
  <2> QED
    BY <1>1, <1>3, <2>1, <2>2 DEF x
<1>5. current \in Covering(file, b)
  BY <1>1, <1>2, <1>3, <1>4, CoversIs
<1>6. ASSUME NEW j \in Covering(file, b)
      PROVE  Before(file, current, j)
  <2>1. j \in DOMAIN file.items /\ j \in 1 .. item - 1 /\ j \in Nat /\ current \in Nat
    BY <1>1, <1>2 DEF Covering
  <2>2. CASE j = current
    BY <2>1, <2>2, <1>3 DEF Before
  <2>3. CASE ~Overlapping(file)
    <3>1. j = current
      BY <1>1, <1>5, <1>6, <2>3, OneCovers
    <3> QED
      BY <2>2, <3>1
  <2>4. CASE ~partial /\ j # current
    <3>1. /\ file.items[j].logical \in Nat /\ Count(file.items[j]) \in Nat
          /\ file.items[j].logical <= b - 1 /\ b - 1 < file.items[j].logical + Count(file.items[j])
      BY <1>1, <1>6, <2>1, ItemFacts, CoversIs DEF NoneOfFlag
    <3>2. Taken(file.items[j])
      BY <2>1, <2>4, <3>1, <1>1 DEF Taken, ExtentsInv
    <3>3. ~(file.items[j].logical + Count(file.items[j]) <= Len(output))
      BY <1>1, <3>1
    <3>4. PICK n \in 1 .. Len(runs) : source[n] = j
      BY <2>1, <2>4, <3>2, <3>3 DEF Stands, Sourced, Writing, Accounted, LateOverlaps
    <3> QED
      BY <3>4 DEF Stands, Sourced, Writing, Accounted, LateOverlaps
  <2> QED
    BY <2>2, <2>3, <2>4
<1>7. BlockOf(file, b) = IF ~Initialized(x) THEN Zero ELSE x.physical + b - 1 - x.logical
  BY <1>1, <1>5, <1>6, FirstDecides
<1>8. b - 1 - x.logical = Len(output) - x.logical
  BY <1>1, <1>3
<1> QED
  BY <1>1, <1>3, <1>7, <1>8 DEF b

\* The state of a recovery through pointers.
PointersInv ==
  /\ IsNode(at) \/ at = Root(4)
  /\ \A m \in DOMAIN file.fate : file.fate[m] = "zero" => ~Above(m, at)
  /\ \A i \in 1 .. Len(output) :
       output[i] \in 1 .. file.size /\ output[i] < First(at) /\ output[i] \notin Holes(file)
  /\ \A i, j \in 1 .. Len(output) : i < j => output[i] < output[j]
  /\ ~partial => First(at) = Len(output) + 1 /\ \A i \in 1 .. Len(output) : output[i] = i
  /\ Sound /\ partial => file.size >= FirstTriple

-----------------------------------------------------------------------------
\* The state of every recovery.
ExtInv ==
  /\ ExtTypes
  /\ pc = "open" =>
       /\ output = <<>> /\ partial = FALSE
       /\ at = Root(0) /\ item = 1 /\ runs = <<>> /\ run = NoRun
  /\ pc = "inline" => partial = FALSE /\ (output = <<>> \/ output = content)
  /\ pc \in {"extents", "runs"} => ExtentsInv
  /\ pc = "pointers" => PointersInv
  /\ Outcome = "complete" /\ Reliable => output = content
  /\ OrderKept /\ (Reliable => ExtentsInPlace) /\ SoundIsWhole

\* A step ends the recovery, or it goes on and the output only grows.
Stops ==
  /\ pc # "done" /\ pc' = "done" /\ UNCHANGED <<file, content, output>> /\ partial' \in BOOLEAN
  /\ status' \notin {0, 76} \/ EndsWell(partial')

Continues ==
  /\ pc # "done" /\ pc' # "done" /\ status' = status /\ UNCHANGED <<file, content>>
  /\ partial' \in BOOLEAN
  /\ output' \in Seq(Nat) /\ Len(output') <= file.size /\ Len(output) <= Len(output')
  /\ SubSeq(output', 1, Len(output)) = output

LEMMA StopsKeeps ==
  ASSUME FilesAssumption, ExtInv, Stops
  PROVE  ExtInv'
<1>1. /\ pc # "done" /\ pc' = "done" /\ UNCHANGED <<file, content, output>>
      /\ partial' \in BOOLEAN
      /\ status' \notin {0, 76} \/ EndsWell(partial')
  BY DEF Stops
<1>2. ExtTypes'
  BY <1>1 DEF ExtInv, ExtTypes
<1>3. Outcome' = IF status' \in {0, 76} THEN (IF partial' THEN "partial" ELSE "complete") ELSE "failed"
  BY <1>1 DEF Outcome
<1>4. (Outcome = "complete" /\ Reliable => output = content)'
  BY <1>1, <1>3 DEF EndsWell, Reliable, NoneOfFlag
<1>5. OrderKept'
  BY <1>1 DEF ExtInv, OrderKept
<1>6. (Reliable => ExtentsInPlace)'
  BY <1>1 DEF ExtInv, ExtentsInPlace, Overlapping, Covering, Reliable, NoneOfFlag
<1>7. SoundIsWhole'
  <2>1. CASE status' \in {0, 76} /\ partial' /\ Sound
    BY <1>1, <2>1 DEF EndsWell, Excused, SoundIsWhole, Overlapping, Covering, NoRuns
  <2> QED
    BY <1>1, <1>3, <2>1 DEF SoundIsWhole, Sound
<1> QED
  BY <1>1, <1>2, <1>4, <1>5, <1>6, <1>7 DEF ExtInv

LEMMA EndsIs ==
  ASSUME pc # "done", NEW p, p \in BOOLEAN, Ends(p), EndsWell(p)
  PROVE  Stops
BY DEF Ends, Returns, Stops, fileVars

LEMMA ErrorIs ==
  ASSUME FilesAssumption, pc # "done", NEW s, s \in {20, 31, 44, 90, 91, ReadError}, Error(s)
  PROVE  Stops
<1>1. s \notin {0, 76}
  BY DEF FilesAssumption
<1> QED
  BY <1>1 DEF Error, Returns, Stops, fileVars

LEMMA AppendsIs ==
  ASSUME FilesAssumption, ExtTypes, pc # "done", partial' \in BOOLEAN,
         NEW cells, cells \in Seq(Nat), Len(output) + Len(cells) <= file.size, Appends(cells)
  PROVE  \/ Stops
         \/ /\ Continues /\ output' = output \o cells /\ pc' = pc
            /\ Len(output') = Len(output) + Len(cells)
            /\ \A b \in 1 .. Len(output) : output'[b] = output[b]
            /\ \A n \in 1 .. Len(cells) : output'[Len(output) + n] = cells[n]
<1>1. output \in Seq(Nat) /\ Len(output) \in Nat /\ Len(cells) \in Nat
  BY DEF ExtTypes
<1>2. CASE output' = output \o cells /\ UNCHANGED <<fileVars, pc, status>>
  <2>1. /\ output' \in Seq(Nat) /\ Len(output') = Len(output) + Len(cells)
        /\ \A b \in 1 .. Len(output) : output'[b] = output[b]
        /\ \A n \in 1 .. Len(cells) : output'[Len(output) + n] = cells[n]
    BY <1>1, <1>2
  <2>2. SubSeq(output', 1, Len(output)) = output
    BY <1>1, <2>1
  <2> QED
    BY <1>1, <1>2, <2>1, <2>2 DEF Continues, fileVars
<1>3. CASE pc' = "done" /\ status' = 44 /\ UNCHANGED <<fileVars, output>>
  BY <1>3 DEF Stops, fileVars
<1> QED
  BY <1>2, <1>3 DEF Appends

LEMMA ExtentsContinue ==
  ASSUME FilesAssumption, ExtInv, pc \in {"extents", "runs"}, Continues, pc' \in {"extents", "runs"},
         ExtentsInv'
  PROVE  ExtInv'
<1>1. /\ status' = status /\ UNCHANGED <<file, content>> /\ partial' \in BOOLEAN
      /\ output' \in Seq(Nat) /\ Len(output') <= file.size
  BY DEF Continues
<1>2. file.kind = "extents"
  BY DEF ExtInv, ExtTypes
<1>3. ExtTypes'
  BY <1>1, <1>2 DEF ExtInv, ExtTypes
<1>4. Outcome' = "running"
  BY DEF Outcome
<1>5. OrderKept'
  BY <1>1, <1>2 DEF OrderKept
<1>6. (Reliable => ExtentsInPlace)'
  <2>1. (Reliable => Placed)'
    BY <1>1, <1>2 DEF ExtentsInv, Reliable
  <2>2. DOMAIN output' = 1 .. Len(output')
    BY <1>1
  <2> QED
    BY <2>1, <2>2 DEF Placed, ExtentsInPlace
<1>7. SoundIsWhole'
  BY <1>4 DEF SoundIsWhole
<1> QED
  BY <1>3, <1>4, <1>5, <1>6, <1>7 DEF ExtInv

-----------------------------------------------------------------------------
\* Collecting the extents.
LEMMA CollectedIs ==
  ASSUME FilesAssumption, NEW f, IsFile(f), NEW i \in DOMAIN f.items
  PROVE  Collected(f.items[i]) \in RunRecord
<1>1. /\ f.items[i].logical \in Nat /\ f.items[i].physical \in Nat /\ Count(f.items[i]) \in Nat
  BY ItemFacts
<1>2. Uninitialized(f.items[i]) \in BOOLEAN
  BY DEF Uninitialized
<1> QED
  BY <1>1, <1>2 DEF Collected, RunRecord

LEMMA StandsStay ==
  ASSUME NEW source, NEW current, Stands(source, current),
         UNCHANGED <<file, item, runs, run, output>>
  PROVE  Stands(source, current)'
BY DEF Stands, Sourced, Writing, Accounted, LateOverlaps, Before, Covering

LEMMA CollectLeads ==
  ASSUME FilesAssumption, ExtInv, Collect
  PROVE  Stops \/ (Continues /\ ExtInv')
<1> DEFINE x == file.items[item]
<1>1. /\ pc = "extents" /\ item \in 1 .. Len(file.items) /\ item \in DOMAIN file.items
      /\ IsFile(file) /\ Len(file.items) \in Nat /\ DOMAIN file.items = 1 .. Len(file.items)
  BY FileFacts DEF Collect, ExtInv, ExtentsInv
<1>2. CASE Error(91) \/ Error(ReadError)
  BY <1>1, <1>2, ErrorIs
<1>3. CASE /\ x.kind \in {"extent", "lost"} /\ item' = item + 1 /\ partial' = (partial \/ Missing(x))
           /\ runs' = IF x.kind = "lost" \/ Count(x) = 0 \/ Missing(x) THEN runs
                      ELSE Append(runs, Collected(x))
           /\ UNCHANGED <<fileVars, pc, at, run, output, status>>
  <2>1. /\ output = <<>> /\ run = NoRun /\ partial \in BOOLEAN
        /\ \A i \in 1 .. item - 1 : file.items[i].kind \in {"extent", "lost"}
        /\ ~partial => \A i \in 1 .. item - 1 : file.items[i].kind = "extent" /\ ~Missing(file.items[i])
        /\ Sound /\ NoneMissing => ~partial
    BY <1>1 DEF ExtInv, ExtentsInv, ExtTypes
  <2>2. /\ UNCHANGED <<file, content>> /\ partial' \in BOOLEAN
    BY <1>3, <2>1 DEF fileVars, Missing, Uninitialized
  <2>3. Continues
    BY <1>1, <1>3, <2>1, <2>2 DEF Continues, ExtInv, ExtTypes
  <2>4. \A i \in 1 .. item' - 1 : i \in 1 .. item - 1 \/ i = item
    BY <1>1, <1>3
  <2>4a. 1 .. item - 1 \subseteq 1 .. item' - 1
    BY <1>1, <1>3
  <2>5. /\ \A i \in 1 .. item' - 1 : file.items[i].kind \in {"extent", "lost"}
        /\ ~partial' => \A i \in 1 .. item' - 1 : file.items[i].kind = "extent" /\ ~Missing(file.items[i])
    BY <1>3, <2>1, <2>4 DEF Missing
  <2>6. Sound /\ NoneMissing => ~partial'
    BY <1>1, <1>3, <2>1 DEF NoneMissing
  <2>7. \E source, current : Stands(source, current)'
    <3>1. PICK source, current : Stands(source, current)
      BY <1>1 DEF ExtInv, ExtentsInv
    <3>2. current = 0
      BY <2>1, <3>1 DEF Stands, Sourced, Writing, Accounted, LateOverlaps, NoRun
    <3>3. /\ source \in Seq(Nat) /\ Len(source) = Len(runs) /\ runs \in Seq(RunRecord)
          /\ Len(runs) \in Nat /\ Len(output) = 0
      BY <2>1, <3>1 DEF Stands, Sourced, Writing, Accounted, LateOverlaps, RunRecord
    <3>6. \A n \in 1 .. Len(runs) : ~(runs[n].logical < Len(output))
      <4> TAKE n \in 1 .. Len(runs)
      <4>1. runs[n] \in RunRecord
        BY <3>3
      <4>2. runs[n].logical \in Nat
        BY <4>1 DEF RunRecord
      <4> QED
        BY <3>3, <4>2
    <3>4. CASE ~Taken(x) /\ runs' = runs
      <4>1. current \in 0 .. item' - 1 /\ run' = NoRun
        BY <1>1, <1>3, <2>1, <3>2
      <4>2. \A n \in 1 .. Len(runs) :
             /\ source[n] \in 1 .. item' - 1 /\ Taken(file.items[source[n]])
             /\ runs[n] = Collected(file.items[source[n]])
        <5>1. \A n \in 1 .. Len(runs) :
               /\ source[n] \in 1 .. item - 1 /\ Taken(file.items[source[n]])
               /\ runs[n] = Collected(file.items[source[n]])
          BY <3>1 DEF Stands, Sourced, Writing, Accounted, LateOverlaps
        <5> QED
          BY <2>4a, <5>1
      <4>3. \A i \in 1 .. item' - 1 : Taken(file.items[i]) =>
             \E n \in 1 .. Len(runs) : source[n] = i
        <5> TAKE i \in 1 .. item' - 1
        <5> HAVE Taken(file.items[i])
        <5>1. i \in 1 .. item - 1
          BY <2>4, <3>4
        <5>2. i \in DOMAIN file.items /\ i # current
          BY <1>1, <3>2, <5>1
        <5>3. /\ file.items[i].logical \in Nat /\ Count(file.items[i]) \in Nat
          BY <1>1, <5>2, ItemFacts
        <5>4. ~(file.items[i].logical + Count(file.items[i]) <= Len(output))
          BY <3>3, <5>3 DEF Taken
        <5> QED
          BY <3>1, <5>1, <5>2, <5>4 DEF Stands, Sourced, Writing, Accounted, LateOverlaps
      <4>4. \A n \in 1 .. Len(runs) : ~(runs[n].logical < Len(output))
        BY <3>6
      <4>5. \A m, n \in 1 .. Len(runs) : m < n => source[m] < source[n]
        BY <3>1 DEF Stands, Sourced, Writing, Accounted, LateOverlaps
      <4> QED
        BY <1>3, <2>2, <3>2, <3>3, <3>4, <4>1, <4>2, <4>3, <4>4, <4>5 DEF Stands, Sourced, Writing, Accounted, LateOverlaps, RunRecord
    <3>5. CASE Taken(x) /\ runs' = Append(runs, Collected(x))
      <4>0. Collected(x) \in RunRecord
        BY <1>1, CollectedIs
      <4>1. /\ runs' \in Seq(RunRecord) /\ Len(runs') = Len(runs) + 1
            /\ runs'[Len(runs) + 1] = Collected(x)
            /\ \A n \in 1 .. Len(runs) : runs'[n] = runs[n]
        BY <3>3, <3>5, <4>0
      <4>2. PICK after : /\ after \in Seq(Nat) /\ Len(after) = Len(runs) + 1
                         /\ after[Len(runs) + 1] = item
                         /\ \A n \in 1 .. Len(runs) : after[n] = source[n]
        <5> DEFINE more == Append(source, item)
        <5>1. /\ more \in Seq(Nat) /\ Len(more) = Len(runs) + 1
              /\ more[Len(runs) + 1] = item
              /\ \A n \in 1 .. Len(runs) : more[n] = source[n]
          BY <1>1, <3>3
        <5> HIDE DEF more
        <5> QED
          BY <5>1
      <4>3. \A n \in 1 .. Len(runs) + 1 : n \in 1 .. Len(runs) \/ n = Len(runs) + 1
        BY <3>3
      <4>4. \A n \in 1 .. Len(runs) :
             /\ source[n] \in 1 .. item - 1 /\ Taken(file.items[source[n]])
             /\ runs[n] = Collected(file.items[source[n]])
        BY <3>1 DEF Stands, Sourced, Writing, Accounted, LateOverlaps
      <4>5. \A n \in 1 .. Len(runs) + 1 :
             /\ after[n] \in 1 .. item' - 1 /\ Taken(file.items[after[n]])
             /\ runs'[n] = Collected(file.items[after[n]])
        <5> TAKE n \in 1 .. Len(runs) + 1
        <5>1. CASE n \in 1 .. Len(runs)
          BY <2>4a, <4>1, <4>2, <4>4, <5>1
        <5>2. CASE n = Len(runs) + 1
          BY <1>1, <1>3, <3>5, <4>1, <4>2, <5>2
        <5> QED
          BY <4>3, <5>1, <5>2
      <4>6. \A m, n \in 1 .. Len(runs) + 1 : m < n => after[m] < after[n]
        <5> TAKE m, n \in 1 .. Len(runs) + 1
        <5> HAVE m < n
        <5>1. m \in 1 .. Len(runs)
          BY <3>3
        <5>2. CASE n \in 1 .. Len(runs)
          BY <3>1, <4>2, <5>1, <5>2 DEF Stands, Sourced, Writing, Accounted, LateOverlaps
        <5>3. CASE n = Len(runs) + 1
          BY <1>1, <4>2, <4>4, <5>1, <5>3
        <5> QED
          BY <4>3, <5>2, <5>3
      <4>7. \A i \in 1 .. item' - 1 : Taken(file.items[i]) =>
             \E n \in 1 .. Len(runs) + 1 : after[n] = i
        <5> TAKE i \in 1 .. item' - 1
        <5> HAVE Taken(file.items[i])
        <5>1. CASE i = item
          <6>1. Len(runs) + 1 \in 1 .. Len(runs) + 1
            BY <3>3
          <6> QED
            BY <4>2, <5>1, <6>1
        <5>2. CASE i \in 1 .. item - 1
          <6>2. i \in DOMAIN file.items /\ i # current
            BY <1>1, <3>2, <5>2
          <6>3. /\ file.items[i].logical \in Nat /\ Count(file.items[i]) \in Nat
            BY <1>1, <6>2, ItemFacts
          <6>4. ~(file.items[i].logical + Count(file.items[i]) <= Len(output))
            BY <3>3, <6>3 DEF Taken
          <6>5. PICK n \in 1 .. Len(runs) : source[n] = i
            BY <3>1, <5>2, <6>2, <6>4 DEF Stands, Sourced, Writing, Accounted, LateOverlaps
          <6>6. n \in 1 .. Len(runs) + 1
            BY <3>3
          <6> QED
            BY <4>2, <6>5, <6>6
        <5> QED
          BY <2>4, <5>1, <5>2
      <4>8. \A n \in 1 .. Len(runs) + 1 : ~(runs'[n].logical < Len(output))
        <5>1. Collected(x).logical \in Nat
          BY <4>0 DEF RunRecord
        <5> QED
          BY <3>3, <3>6, <4>1, <4>3, <5>1
      <4>9. current \in 0 .. item' - 1 /\ run' = NoRun
        BY <1>1, <1>3, <2>1, <3>2
      <4>10. Stands(after, current)'
        <5>1. UNCHANGED <<file, output, run>> /\ run = NoRun
          BY <1>3, <2>1, <2>2
        <5>2. \A n \in 1 .. Len(runs') :
               /\ after[n] \in 1 .. item' - 1 /\ Taken(file.items[after[n]])
               /\ runs'[n] = Collected(file.items[after[n]])
          BY <4>1, <4>5
        <5>3. \A m, n \in 1 .. Len(runs') : m < n => after[m] < after[n]
          BY <4>1, <4>6
        <5>4. \A i \in 1 .. item' - 1 : Taken(file.items[i]) =>
               \E n \in 1 .. Len(runs') : after[n] = i
          BY <4>1, <4>7
        <5>5. \A n \in 1 .. Len(runs') : ~(runs'[n].logical < Len(output))
          BY <4>1, <4>8
        <5>6. after \in Seq(Nat) /\ Len(after) = Len(runs') /\ runs' \in Seq(RunRecord)
          BY <4>1, <4>2
        <5> QED
          BY <3>2, <4>9, <5>1, <5>2, <5>3, <5>4, <5>5, <5>6 DEF Stands, Sourced, Writing, Accounted, LateOverlaps, RunRecord
      <4> QED
        BY <4>10
    <3> QED
      BY <1>3, <3>4, <3>5 DEF Taken
  <2>8. Placed'
    BY <1>3, <2>1 DEF Placed
  <2>9. item' \in 1 .. Len(file.items) + 1
    BY <1>1, <1>3
  <2>10. pc' = "extents" /\ output' = <<>> /\ run' = NoRun
    BY <1>1, <1>3, <2>1
  <2>11. ExtentsInv'
    BY <2>2, <2>5, <2>6, <2>7, <2>8, <2>9, <2>10 DEF ExtentsInv, Sound, NoneMissing
  <2> QED
    BY <1>1, <2>3, <2>10, <2>11, ExtentsContinue
<1> QED
  BY <1>2, <1>3 DEF Collect

LEMMA EndCollectLeads ==
  ASSUME FilesAssumption, ExtInv, EndCollect
  PROVE  Stops \/ (Continues /\ ExtInv')
<1>1. /\ pc = "extents" /\ IsFile(file) /\ file.size \in Nat /\ Len(content) = file.size
      /\ DOMAIN content = 1 .. file.size /\ output = <<>> /\ run = NoRun /\ file.kind = "extents"
      /\ file.size = 0 \/ item > Len(file.items)
      /\ DOMAIN file.items = 1 .. Len(file.items) /\ Len(file.items) \in Nat
      /\ item \in 1 .. Len(file.items) + 1
  BY FileFacts DEF EndCollect, ExtInv, ExtentsInv, ExtTypes
<1>2. CASE file.size = 0 /\ Ends(FALSE)
  <2>1. content = <<>>
    <3>1. content = [b \in 1 .. file.size |-> BlockOf(file, b)]
      BY DEF ExtInv, ExtTypes, Content
    <3>2. 1 .. file.size = {}
      BY <1>2
    <3> QED
      BY <3>1, <3>2
  <2>2. EndsWell(FALSE)
    BY <1>1, <2>1 DEF EndsWell
  <2> QED
    BY <1>1, <1>2, <2>2, EndsIs
<1>3. CASE file.size # 0 /\ runs = <<>> /\ Ends(TRUE)
  <2>1. item = Len(file.items) + 1
    BY <1>1, <1>3
  <2>2. PICK source, current : Stands(source, current)
    BY <1>1 DEF ExtInv, ExtentsInv
  <2>3. \A i \in DOMAIN file.items : ~Taken(file.items[i])
    <3> TAKE i \in DOMAIN file.items
    <3> SUFFICES ASSUME Taken(file.items[i]) PROVE FALSE
      OBVIOUS
    <3>1. i \in 1 .. item - 1
      BY <1>1, <2>1
    <3>2. current = 0 /\ Len(runs) = 0 /\ Len(output) = 0
      BY <1>1, <1>3, <2>2 DEF Stands, Sourced, Writing, Accounted, LateOverlaps, NoRun
    <3>3. /\ file.items[i].logical \in Nat /\ Count(file.items[i]) \in Nat
      BY <1>1, ItemFacts
    <3>4. /\ i # current /\ ~(file.items[i].logical + Count(file.items[i]) <= Len(output))
      BY <3>1, <3>2, <3>3 DEF Taken
    <3>5. \E n \in 1 .. Len(runs) : source[n] = i
      BY <2>2, <3>1, <3>4 DEF Stands, Sourced, Writing, Accounted, LateOverlaps
    <3> QED
      BY <3>2, <3>5
  <2>4. Sound => NoRuns
    BY <2>3 DEF Sound, NoRuns, Taken
  <2>5. EndsWell(TRUE)
    BY <1>1, <2>4 DEF EndsWell, Excused
  <2> QED
    BY <1>1, <1>3, <2>5, EndsIs
<1>4. CASE /\ file.size # 0 /\ pc' = "runs"
           /\ UNCHANGED <<fileVars, walkVars, output, partial, status>>
  <2>1. UNCHANGED <<file, content, item, runs, run, output, partial, status>>
    BY <1>4 DEF fileVars, walkVars
  <2>2. Continues
    BY <1>1, <1>4, <2>1 DEF Continues, ExtInv, ExtTypes
  <2>3. \E source, current : Stands(source, current)'
    BY <1>1, <2>1, StandsStay DEF ExtInv, ExtentsInv
  <2>4. item = Len(file.items) + 1
    BY <1>1, <1>4
  <2>5. ExtentsInv'
    BY <1>1, <1>4, <2>1, <2>3, <2>4 DEF ExtInv, ExtentsInv, Sound, NoneMissing, Placed, NoneOfFlag
  <2> QED
    BY <1>1, <1>4, <2>2, <2>5, ExtentsContinue
<1> QED
  BY <1>2, <1>3, <1>4 DEF EndCollect

-----------------------------------------------------------------------------
\* Writing the runs.
LEMMA FirstRunIs ==
  ASSUME runs \in Seq(RunRecord), runs # <<>>
  PROVE  /\ FirstRun \in 1 .. Len(runs)
         /\ \A j \in 1 .. Len(runs) :
              \/ runs[FirstRun].logical < runs[j].logical
              \/ runs[FirstRun].logical = runs[j].logical /\ FirstRun <= j
<1> DEFINE Places == {runs[n].logical : n \in 1 .. Len(runs)}
<1>1. /\ DOMAIN runs = 1 .. Len(runs) /\ Len(runs) \in Nat \ {0}
      /\ \A n \in 1 .. Len(runs) : runs[n].logical \in Nat
  <2>1. \A n \in 1 .. Len(runs) : runs[n] \in RunRecord
    OBVIOUS
  <2> QED
    BY <2>1 DEF RunRecord
<1>2. PICK v \in Places : \A w \in Places : v <= w
  <2>1. Places \subseteq Nat
    BY <1>1
  <2>2. runs[1].logical \in Places
    BY <1>1
  <2> HIDE DEF Places
  <2> QED
    BY <2>1, <2>2, Least
<1> DEFINE Firsts == {n \in 1 .. Len(runs) : runs[n].logical = v}
<1>3. PICK n \in Firsts : \A m \in Firsts : n <= m
  <2>1. Firsts \subseteq Nat /\ Firsts # {}
    OBVIOUS
  <2> HIDE DEF Firsts
  <2> QED
    BY <2>1, Least
<1>4. \A j \in 1 .. Len(runs) :
        \/ runs[n].logical < runs[j].logical
        \/ runs[n].logical = runs[j].logical /\ n <= j
  <2> TAKE j \in 1 .. Len(runs)
  <2>1. runs[n].logical = v /\ v <= runs[j].logical /\ v \in Nat /\ runs[j].logical \in Nat
    BY <1>1, <1>2
  <2>2. CASE runs[j].logical = v
    BY <1>3, <2>1, <2>2
  <2> QED
    BY <2>1, <2>2
<1>5. n \in 1 .. Len(runs)
  OBVIOUS
<1> HIDE DEF Firsts, Places
<1>6. \E m \in DOMAIN runs : \A j \in DOMAIN runs :
        \/ runs[m].logical < runs[j].logical
        \/ runs[m].logical = runs[j].logical /\ m <= j
  BY <1>1, <1>4, <1>5
<1> QED
  BY <1>1, <1>6 DEF FirstRun

LEMMA JoinedIs ==
  ASSUME NEW S, NEW a \in Seq(S), NEW b \in Seq(S)
  PROVE  /\ a \o b \in Seq(S) /\ Len(a \o b) = Len(a) + Len(b)
         /\ \A n \in 1 .. Len(a) : (a \o b)[n] = a[n]
         /\ \A n \in 1 .. Len(b) : (a \o b)[Len(a) + n] = b[n]
OBVIOUS

LEMMA CutIs ==
  ASSUME NEW S, NEW s \in Seq(S), NEW i \in 1 .. Len(s)
  PROVE  /\ SubSeq(s, 1, i - 1) \in Seq(S) /\ Len(SubSeq(s, 1, i - 1)) = i - 1
         /\ \A n \in 1 .. i - 1 : SubSeq(s, 1, i - 1)[n] = s[n]
         /\ SubSeq(s, i + 1, Len(s)) \in Seq(S) /\ Len(SubSeq(s, i + 1, Len(s))) = Len(s) - i
         /\ \A n \in 1 .. Len(s) - i : SubSeq(s, i + 1, Len(s))[n] = s[i + n]
OBVIOUS

\* The parts of a sequence before and after its element i.
AreParts(s, i, a, b) ==
  /\ Len(a) = i - 1 /\ Len(b) = Len(s) - i
  /\ \A n \in 1 .. i - 1 : a[n] = s[n]
  /\ \A n \in 1 .. Len(s) - i : b[n] = s[i + n]

LEMMA RemovedIs ==
  ASSUME NEW S, NEW s \in Seq(S), NEW i \in 1 .. Len(s), NEW a \in Seq(S), NEW b \in Seq(S),
         AreParts(s, i, a, b)
  PROVE  /\ a \o b \in Seq(S) /\ Len(a \o b) = Len(s) - 1
         /\ \A n \in 1 .. Len(s) - 1 : (a \o b)[n] = IF n < i THEN s[n] ELSE s[n + 1]
<1>0. Len(a) = i - 1 /\ Len(b) = Len(s) - i
  BY DEF AreParts
<1>1. /\ a \o b \in Seq(S) /\ Len(a \o b) = Len(a) + Len(b)
      /\ \A n \in 1 .. Len(a) : (a \o b)[n] = a[n]
      /\ \A n \in 1 .. Len(b) : (a \o b)[Len(a) + n] = b[n]
  BY JoinedIs
<1>2. Len(s) \in Nat
  BY LenProperties
<1> DEFINE t == a \o b
<1> HIDE DEF t
<1>3. \A n \in 1 .. Len(s) - 1 : t[n] = IF n < i THEN s[n] ELSE s[n + 1]
  <2> TAKE n \in 1 .. Len(s) - 1
  <2>1. CASE n < i
    <3>1. n \in 1 .. i - 1
      BY <1>2, <2>1
    <3>2. t[n] = a[n]
      BY <1>0, <1>1, <3>1 DEF t
    <3> QED
      BY <2>1, <3>1, <3>2 DEF AreParts
  <2>2. CASE ~(n < i)
    <3> DEFINE m == n - (i - 1)
    <3>1. m \in 1 .. Len(s) - i /\ i + m = n + 1 /\ (i - 1) + m = n
      BY <1>2, <2>2
    <3> HIDE DEF m
    <3>2. t[n] = b[m]
      BY <1>0, <1>1, <3>1 DEF t
    <3>3. b[m] = s[i + m]
      BY <3>1 DEF AreParts
    <3> QED
      BY <2>2, <3>1, <3>2, <3>3
  <2> QED
    BY <2>1, <2>2
<1>4. Len(a) + Len(b) = Len(s) - 1
  BY <1>0, <1>2
<1> QED
  BY <1>1, <1>3, <1>4 DEF t
LEMMA ZerosIs ==
  ASSUME NEW n \in Nat
  PROVE  /\ Zeros(n) \in Seq(Nat) /\ Len(Zeros(n)) = n
         /\ \A i \in 1 .. n : Zeros(n)[i] = Zero
BY DEF Zeros, Zero

LEMMA RunsEndLeads ==
  ASSUME FilesAssumption, ExtInv, RunsEnd
  PROVE  Stops
<1>1. /\ pc = "runs" /\ Remaining = 0 /\ Ends(partial) /\ file.kind = "extents" /\ partial \in BOOLEAN
      /\ Len(output) = file.size /\ file.size \in Nat /\ output \in Seq(Nat)
      /\ Len(content) = file.size /\ DOMAIN content = 1 .. file.size
  BY FileFacts DEF RunsEnd, ExtInv, ExtTypes
<1>2. ~partial /\ Reliable => output = content
  <2> SUFFICES ASSUME ~partial, Reliable PROVE output = content
    OBVIOUS
  <2>1. \A b \in 1 .. file.size : output[b] = content[b]
    BY <1>1 DEF ExtInv, ExtentsInv, Placed, Reliable
  <2>2. content = [b \in 1 .. file.size |-> content[b]] /\ output = [b \in 1 .. file.size |-> output[b]]
    <3>1. content = [b \in 1 .. file.size |-> BlockOf(file, b)]
      BY DEF ExtInv, ExtTypes, Content
    <3> QED
      BY <1>1, <3>1
  <2> QED
    BY <2>1, <2>2
<1>3. partial /\ Sound => Excused
  BY <1>1 DEF ExtInv, ExtentsInv, NoneMissing, Excused
<1> QED
  BY <1>1, <1>2, <1>3, EndsIs DEF EndsWell

LEMMA LeaveRunLeads ==
  ASSUME FilesAssumption, ExtInv, LeaveRun
  PROVE  Continues /\ ExtInv'
<1>1. /\ pc = "runs" /\ RunOver /\ run' = NoRun /\ Len(output) \in Nat
      /\ UNCHANGED <<file, content, pc, at, item, runs, output, partial, status>>
  BY FileFacts DEF LeaveRun, fileVars, ExtInv
<1>2. Continues
  BY <1>1 DEF Continues, ExtInv, ExtTypes
<1>3. PICK source, current : Stands(source, current)
  BY <1>1 DEF ExtInv, ExtentsInv
<1>4. current # 0 /\ run[1] = Collected(file.items[current])
  BY <1>1, <1>3 DEF RunOver, Stands, Sourced, Writing, Accounted, LateOverlaps
<1>5. Len(output) = file.items[current].logical + Count(file.items[current])
  BY <1>1, <1>4 DEF RunOver, Collected
<1>6. file.items[current].logical + Count(file.items[current]) <= Len(output)
  BY <1>1, <1>5
<1>7. item \in Nat /\ 0 \in 0 .. item - 1
  <2>1. current \in 0 .. item - 1 /\ item \in 1 .. Len(file.items) + 1 /\ Len(file.items) \in Nat
    BY <1>1, <1>3, FileFacts DEF Stands, Sourced, Writing, Accounted, LateOverlaps, ExtInv, ExtentsInv
  <2> QED
    BY <2>1
<1>8. Stands(source, 0)'
  <2>1. \A i \in 1 .. item - 1 : Taken(file.items[i]) =>
          \/ \E n \in 1 .. Len(runs) : source[n] = i
          \/ file.items[i].logical + Count(file.items[i]) <= Len(output)
    BY <1>3, <1>6 DEF Stands, Sourced, Writing, Accounted, LateOverlaps
  <2> QED
    BY <1>1, <1>3, <1>7, <2>1 DEF Stands, Sourced, Writing, Accounted, LateOverlaps, Covering
<1>9. ExtentsInv'
  BY <1>1, <1>8 DEF ExtInv, ExtentsInv, Sound, NoneMissing, Placed, NoneOfFlag, Overlapping, Covering
<1> QED
  BY <1>1, <1>2, <1>9, ExtentsContinue

\* Before the first of the runs that are left there is nothing but zeros.
LEMMA ZerosFit ==
  ASSUME FilesAssumption, ExtTypes, ExtentsInv, pc = "runs", NoneOfFlag(file),
         NEW source, Stands(source, 0), NEW b \in 1 .. file.size, Len(output) < b,
         \A n \in 1 .. Len(runs) : b - 1 < runs[n].logical
  PROVE  partial \/ content[b] = Zero
<1>1. /\ IsFile(file) /\ DOMAIN file.items = 1 .. Len(file.items) /\ file.size \in Nat
      /\ Len(output) \in Nat /\ item = Len(file.items) + 1 /\ Len(file.items) \in Nat
  BY FileFacts DEF ExtTypes, ExtentsInv
<1>2. ASSUME NEW i \in DOMAIN file.items, Taken(file.items[i])
      PROVE  i \notin Covering(file, b)
  <2> SUFFICES ASSUME i \in Covering(file, b) PROVE FALSE
    OBVIOUS
  <2>1. /\ i \in 1 .. item - 1 /\ b \in Nat \ {0}
    BY <1>1
  <2>2. /\ file.items[i].logical \in Nat /\ Count(file.items[i]) \in Nat
        /\ file.items[i].logical <= b - 1 /\ b - 1 < file.items[i].logical + Count(file.items[i])
    BY <1>1, <2>1, ItemFacts, CoversIs DEF NoneOfFlag
  <2>3. ~(file.items[i].logical + Count(file.items[i]) <= Len(output))
    BY <1>1, <2>1, <2>2
  <2>4. PICK n \in 1 .. Len(runs) : source[n] = i
    BY <1>1, <1>2, <2>1, <2>3 DEF Stands, Accounted
  <2>5. runs[n] = Collected(file.items[source[n]])
    BY DEF Stands, Sourced
  <2>6. runs[n].logical = file.items[i].logical
    BY <2>4, <2>5 DEF Collected
  <2>7. b - 1 < runs[n].logical
    OBVIOUS
  <2> QED
    BY <2>1, <2>2, <2>6, <2>7
<1> QED
  BY <1>2, NothingTaken

LEMMA StaysPlaced ==
  ASSUME FilesAssumption, ExtTypes, Placed, UNCHANGED <<file, content, partial>>,
         Len(output') \in Nat,
         \A b \in 1 .. Len(output) : output'[b] = output[b],
         \A b \in 1 .. Len(output') : Len(output) < b =>
           /\ ~partial => output'[b] = content[b]
           /\ ~Overlapping(file) => output'[b] = content[b] \/ (output'[b] = Zero /\ partial)
  PROVE  Placed'
<1>1. Len(output) \in Nat
  BY DEF ExtTypes
<1> SUFFICES ASSUME NEW b \in 1 .. Len(output')
             PROVE  /\ ~partial => output'[b] = content[b]
                    /\ ~Overlapping(file) => output'[b] = content[b] \/ (output'[b] = Zero /\ partial)
  BY DEF Placed, Overlapping, Covering
<1>2. CASE Len(output) < b
  BY <1>2
<1>3. CASE ~(Len(output) < b)
  <2>1. b \in 1 .. Len(output)
    BY <1>1, <1>3
  <2> QED
    BY <2>1 DEF Placed
<1> QED
  BY <1>2, <1>3

LEMMA WithoutIs ==
  ASSUME runs \in Seq(RunRecord), NEW i \in 1 .. Len(runs)
  PROVE  /\ Without(i) \in Seq(RunRecord) /\ Len(Without(i)) = Len(runs) - 1
         /\ \A n \in 1 .. Len(runs) - 1 : Without(i)[n] = IF n < i THEN runs[n] ELSE runs[n + 1]
<1> DEFINE a == SubSeq(runs, 1, i - 1)
           b == SubSeq(runs, i + 1, Len(runs))
<1>1. a \in Seq(RunRecord) /\ b \in Seq(RunRecord) /\ AreParts(runs, i, a, b)
  BY CutIs DEF AreParts
<1> HIDE DEF a, b
<1>2. /\ a \o b \in Seq(RunRecord) /\ Len(a \o b) = Len(runs) - 1
      /\ \A n \in 1 .. Len(runs) - 1 : (a \o b)[n] = IF n < i THEN runs[n] ELSE runs[n + 1]
  BY <1>1, RemovedIs
<1>3. Without(i) = a \o b
  BY DEF Without, a, b
<1> QED
  BY <1>2, <1>3

LEMMA SourceWithout ==
  ASSUME NEW source \in Seq(Nat), NEW i \in 1 .. Len(source)
  PROVE  \E after \in Seq(Nat) :
           /\ Len(after) = Len(source) - 1
           /\ \A n \in 1 .. Len(source) - 1 : after[n] = IF n < i THEN source[n] ELSE source[n + 1]
<1> DEFINE a == SubSeq(source, 1, i - 1)
           b == SubSeq(source, i + 1, Len(source))
<1>1. a \in Seq(Nat) /\ b \in Seq(Nat) /\ AreParts(source, i, a, b)
  BY CutIs DEF AreParts
<1> HIDE DEF a, b
<1>2. /\ a \o b \in Seq(Nat) /\ Len(a \o b) = Len(source) - 1
      /\ \A n \in 1 .. Len(source) - 1 : (a \o b)[n] = IF n < i THEN source[n] ELSE source[n + 1]
  BY <1>1, RemovedIs
<1> DEFINE after == a \o b
<1> HIDE DEF after
<1>3. /\ after \in Seq(Nat) /\ Len(after) = Len(source) - 1
      /\ \A n \in 1 .. Len(source) - 1 : after[n] = IF n < i THEN source[n] ELSE source[n + 1]
  BY <1>2 DEF after
<1> QED
  BY <1>3

\* A run that starts before the end of what has been written overlaps another extent.
LEMMA TooEarly ==
  ASSUME FilesAssumption, ExtTypes, ExtentsInv, pc = "runs",
         NEW source, NEW current, Stands(source, current),
         NEW n \in 1 .. Len(runs), runs[n].logical < Len(output)
  PROVE  Overlapping(file)
<1> DEFINE i == source[n]
           b == runs[n].logical + 1
<1>1. /\ IsFile(file) /\ DOMAIN file.items = 1 .. Len(file.items) /\ file.size \in Nat
      /\ Len(output) \in Nat /\ item = Len(file.items) + 1 /\ Len(file.items) \in Nat
      /\ Len(output) <= file.size
  BY FileFacts DEF ExtTypes, ExtentsInv
<1>2. /\ i \in DOMAIN file.items /\ Taken(file.items[i]) /\ runs[n].logical = file.items[i].logical
  <2>1. i \in 1 .. item - 1 /\ Taken(file.items[i]) /\ runs[n] = Collected(file.items[i])
    BY DEF Stands, Sourced
  <2>2. 1 .. item - 1 = DOMAIN file.items
    BY <1>1
  <2>3. runs[n].logical = file.items[i].logical
    BY <2>1 DEF Collected
  <2> HIDE DEF i
  <2> QED
    BY <2>1, <2>2, <2>3
<1>3. /\ file.items[i].logical \in Nat /\ Count(file.items[i]) \in Nat \ {0}
      /\ file.items[i].raw # Flag
  BY <1>1, <1>2, ItemFacts, TakenIs DEF Taken
<1>4. b \in 1 .. file.size /\ b \in Nat \ {0} /\ b - 1 = file.items[i].logical
  <2> DEFINE l == runs[n].logical
  <2>1. l \in Nat /\ l = file.items[i].logical /\ l < Len(output)
    BY <1>2, <1>3
  <2>2. b = l + 1
    OBVIOUS
  <2> HIDE DEF i, l, b
  <2>3. Len(output) \in Nat /\ Len(output) <= file.size /\ file.size \in Nat
    BY <1>1
  <2>4. l + 1 \in 1 .. file.size /\ (l + 1) - 1 = l
    <3> DEFINE o == Len(output)
    <3>1. o \in Nat /\ o <= file.size /\ l < o /\ l \in Nat
      BY <2>1, <2>3
    <3> HIDE DEF o
    <3> QED
      BY <2>3, <3>1
  <2> QED
    BY <2>1, <2>2, <2>3, <2>4
<1>5. PICK j \in DOMAIN file.items : j # i /\ j \in Covering(file, b)
  BY DEF Stands, Sourced, Writing, Accounted, LateOverlaps
<1> HIDE DEF i, b
<1>6. i \in Covering(file, b)
  <2>1. file.items[i].logical <= b - 1 /\ b - 1 < file.items[i].logical + Count(file.items[i])
    BY <1>3, <1>4
  <2> QED
    BY <1>1, <1>2, <1>3, <1>4, <2>1, CoversIs
<1> QED
  BY <1>1, <1>4, <1>5, <1>6, OneCovers

LEMMA TakeRunLeads ==
  ASSUME FilesAssumption, ExtInv, TakeRun
  PROVE  Stops \/ (Continues /\ ExtInv')
<1> DEFINE r == runs[FirstRun]
<1>1. /\ pc = "runs" /\ run = NoRun /\ runs # <<>> /\ Remaining > 0 /\ Len(output) \in Nat
      /\ IsFile(file) /\ file.size \in Nat /\ Remaining = file.size - Len(output)
      /\ DOMAIN file.items = 1 .. Len(file.items) /\ Len(file.items) \in Nat
      /\ ExtTypes /\ ExtentsInv /\ item = Len(file.items) + 1 /\ file.kind = "extents"
      /\ output \in Seq(Nat) /\ partial \in BOOLEAN
  BY FileFacts DEF TakeRun, ExtInv, ExtentsInv, ExtTypes
<1>2. PICK source, current : Stands(source, current)
  BY <1>1 DEF ExtentsInv
<1>3. /\ runs \in Seq(RunRecord) /\ source \in Seq(Nat) /\ Len(source) = Len(runs)
      /\ current = 0
  BY <1>1, <1>2 DEF Stands, Sourced, Writing, Accounted, LateOverlaps, RunRecord, NoRun
<1>4. PICK i \in 1 .. Len(runs) :
        /\ i = FirstRun
        /\ \A j \in 1 .. Len(runs) :
              \/ runs[i].logical < runs[j].logical
              \/ runs[i].logical = runs[j].logical /\ i <= j
  BY <1>1, <1>3, FirstRunIs
<1>5. /\ Len(runs) \in Nat /\ r \in RunRecord /\ r.logical \in Nat /\ r = runs[i]
      /\ \A n \in 1 .. Len(runs) : runs[n].logical \in Nat
  <2>1. \A n \in 1 .. Len(runs) : runs[n] \in RunRecord
    BY <1>3
  <2> QED
    BY <1>3, <1>4, <2>1 DEF RunRecord
<1> HIDE DEF r
<1>6. CASE r.logical < Len(output) /\ Ends(TRUE)
  <2>1. Overlapping(file)
    BY <1>1, <1>2, <1>4, <1>5, <1>6, TooEarly
  <2>2. EndsWell(TRUE)
    BY <1>1, <2>1 DEF EndsWell, Excused
  <2> QED
    BY <1>1, <1>6, <2>2, EndsIs
<1>7. CASE /\ ~(r.logical < Len(output))
           /\ Appends(Zeros(Gap(r))) /\ runs' = Without(FirstRun) /\ run' = <<r>>
           /\ UNCHANGED <<at, item, partial>>
  <2>1. /\ Gap(r) \in Nat /\ Len(output) + Gap(r) <= file.size
        /\ Len(output) + Gap(r) <= r.logical
        /\ r.logical <= Len(output) + Gap(r) \/ Len(output) + Gap(r) = file.size
    <3> DEFINE g == Gap(r)
               l == r.logical
               o == Len(output)
    <3>1. g = IF Remaining <= l - o THEN Remaining ELSE l - o
      BY DEF Gap, Min2
    <3>2. /\ Remaining = file.size - o /\ Remaining > 0 /\ o \in Nat /\ file.size \in Nat
          /\ l \in Nat /\ ~(l < o)
      BY <1>1, <1>5, <1>7
    <3> HIDE DEF g, l, o
    <3>3. /\ g \in Nat /\ o + g <= file.size /\ o + g <= l
          /\ l <= o + g \/ o + g = file.size
      BY <3>1, <3>2
    <3> QED
      BY <3>3 DEF g, l, o
  <2>2. /\ Zeros(Gap(r)) \in Seq(Nat) /\ Len(Zeros(Gap(r))) = Gap(r)
        /\ \A n \in 1 .. Gap(r) : Zeros(Gap(r))[n] = Zero
    BY <2>1, ZerosIs
  <2>3. \/ Stops
        \/ /\ Continues /\ pc' = pc
           /\ Len(output') = Len(output) + Gap(r)
           /\ \A b \in 1 .. Len(output) : output'[b] = output[b]
           /\ \A n \in 1 .. Gap(r) : output'[Len(output) + n] = Zero
    BY <1>1, <1>7, <2>1, <2>2, AppendsIs
  <2> SUFFICES ASSUME Continues, pc' = pc,
                      Len(output') = Len(output) + Gap(r),
                      \A b \in 1 .. Len(output) : output'[b] = output[b],
                      \A n \in 1 .. Gap(r) : output'[Len(output) + n] = Zero
               PROVE  ExtInv'
    BY <2>3
  <2>4. UNCHANGED <<file, content, item, partial>>
    BY <1>7 DEF Continues
  <2>5. ASSUME NoneOfFlag(file) PROVE Placed'
    <3>1. ASSUME NEW b \in 1 .. Len(output'), Len(output) < b
          PROVE  output'[b] = Zero /\ (partial \/ content[b] = Zero)
      <4>1. /\ b - Len(output) \in 1 .. Gap(r) /\ Len(output) + (b - Len(output)) = b
            /\ b \in 1 .. file.size /\ b - 1 < r.logical
        <5> DEFINE g == Gap(r)
                   l == r.logical
                   o == Len(output)
        <5>1. /\ g \in Nat /\ o \in Nat /\ o + g <= file.size /\ o + g <= l /\ l \in Nat
              /\ b \in 1 .. o + g /\ o < b /\ file.size \in Nat
          BY <1>1, <1>5, <2>1, <3>1
        <5> HIDE DEF g, l, o
        <5>2. b - o \in 1 .. g /\ o + (b - o) = b /\ b \in 1 .. file.size /\ b - 1 < l
          BY <5>1
        <5> QED
          BY <5>2 DEF g, l, o
      <4>2. output'[b] = Zero
        BY <4>1
      <4>3. \A n \in 1 .. Len(runs) : b - 1 < runs[n].logical
        <5> TAKE n \in 1 .. Len(runs)
        <5>1. r.logical <= runs[n].logical /\ runs[n].logical \in Nat
          BY <1>4, <1>5
        <5> QED
          BY <1>5, <4>1, <5>1
      <4>4. partial \/ content[b] = Zero
        BY <1>1, <1>2, <1>3, <2>5, <3>1, <4>1, <4>3, ZerosFit
      <4> QED
        BY <4>2, <4>4
    <3>2. Placed
      BY <1>1, <2>5 DEF ExtentsInv
    <3>3. Len(output') \in Nat
      BY <1>1, <2>1
    <3> QED
      BY <1>1, <2>4, <3>1, <3>2, <3>3, StaysPlaced
  <2>6. PICK after \in Seq(Nat) :
          /\ Len(after) = Len(runs) - 1
          /\ \A n \in 1 .. Len(runs) - 1 : after[n] = IF n < i THEN source[n] ELSE source[n + 1]
    BY <1>3, <1>4, SourceWithout
  <2>7. PICK j : j = source[i]
    OBVIOUS
  <2>8. Stands(after, j)'
    <3>1. /\ runs' \in Seq(RunRecord) /\ Len(runs') = Len(runs) - 1
          /\ \A n \in 1 .. Len(runs) - 1 : runs'[n] = IF n < i THEN runs[n] ELSE runs[n + 1]
      BY <1>3, <1>4, <1>7, WithoutIs
    <3>2. /\ \A n \in 1 .. Len(runs) :
               /\ source[n] \in 1 .. item - 1 /\ Taken(file.items[source[n]])
               /\ runs[n] = Collected(file.items[source[n]])
          /\ \A m, n \in 1 .. Len(runs) : m < n => source[m] < source[n]
      BY <1>2 DEF Stands, Sourced, Writing, Accounted, LateOverlaps
    <3>3. \A n \in 1 .. Len(runs) - 1 :
            \E m \in 1 .. Len(runs) : /\ m = (IF n < i THEN n ELSE n + 1) /\ m # i
                                      /\ runs'[n] = runs[m] /\ after[n] = source[m]
      <4> TAKE n \in 1 .. Len(runs) - 1
      <4> DEFINE m == IF n < i THEN n ELSE n + 1
      <4>1. m \in 1 .. Len(runs) /\ m # i
        BY <1>4, <1>5
      <4>2. runs'[n] = runs[m] /\ after[n] = source[m]
        BY <2>6, <3>1
      <4> HIDE DEF m
      <4>3. m = (IF n < i THEN n ELSE n + 1)
        BY DEF m
      <4> QED
        BY <4>1, <4>2, <4>3
    <3>4. \A m \in 1 .. Len(runs) : m # i =>
            \E n \in 1 .. Len(runs) - 1 : after[n] = source[m]
      <4> TAKE m \in 1 .. Len(runs)
      <4> HAVE m # i
      <4>1. CASE m < i
        <5>1. Len(runs) \in Nat /\ i \in 1 .. Len(runs)
          BY <1>4, <1>5
        <5>2. m \in 1 .. Len(runs) - 1
          BY <4>1, <5>1
        <5> QED
          BY <2>6, <4>1, <5>2
      <4>2. CASE m > i
        <5>1. m - 1 \in 1 .. Len(runs) - 1 /\ ~(m - 1 < i) /\ (m - 1) + 1 = m
          BY <1>4, <1>5, <4>2
        <5> QED
          BY <2>6, <5>1
      <4>3. m < i \/ m > i
        BY <1>5
      <4> QED
        BY <4>1, <4>2, <4>3
    <3>5. /\ j \in 1 .. item - 1 /\ Taken(file.items[j]) /\ r = Collected(file.items[j])
          /\ file.items[j].logical = r.logical
          /\ j \in DOMAIN file.items
          /\ j \in Nat
      BY <1>1, <1>4, <1>5, <2>7, <3>2 DEF Collected
    <3>6. Count(file.items[j]) \in Nat /\ file.items[j].logical \in Nat
      BY <1>1, <3>5, ItemFacts
    <3>7. \A n \in 1 .. Len(runs') :
            /\ after[n] \in 1 .. item - 1 /\ Taken(file.items[after[n]])
            /\ runs'[n] = Collected(file.items[after[n]])
      BY <3>1, <3>2, <3>3
    <3>8. \A m, n \in 1 .. Len(runs') : m < n => after[m] < after[n]
      <4> TAKE m, n \in 1 .. Len(runs')
      <4> HAVE m < n
      <4>1. PICK m1 \in 1 .. Len(runs) : m1 = (IF m < i THEN m ELSE m + 1) /\ after[m] = source[m1]
        BY <3>1, <3>3
      <4>2. PICK n1 \in 1 .. Len(runs) : n1 = (IF n < i THEN n ELSE n + 1) /\ after[n] = source[n1]
        BY <3>1, <3>3
      <4>3. m1 < n1
        BY <1>4, <1>5, <3>1, <4>1, <4>2
      <4> QED
        BY <3>2, <4>1, <4>2, <4>3
    <3>9. /\ Len(output') <= file.items[j].logical + Count(file.items[j])
          /\ file.items[j].logical <= Len(output') \/ Len(output') = file.size
      BY <1>1, <2>1, <3>5, <3>6
    <3>10. \A n \in 1 .. Len(runs') : after[n] # j /\ Before(file, j, after[n])
      <4> TAKE n \in 1 .. Len(runs')
      <4>1. PICK m \in 1 .. Len(runs) : m # i /\ after[n] = source[m] /\ runs'[n] = runs[m]
        BY <3>1, <3>3
      <4>2. m < i \/ i < m
        BY <1>4, <1>5, <4>1
      <4>3. /\ source[i] \in Nat /\ source[m] \in Nat
            /\ m < i => source[m] < source[i]
            /\ i < m => source[i] < source[m]
        BY <1>4, <3>2, <1>3
      <4>4. after[n] # j
        <5>1. source[m] # source[i]
          BY <4>2, <4>3
        <5> QED
          BY <2>7, <4>1, <5>1
      <4>5. runs[m].logical = file.items[after[n]].logical
        <5>1. runs[m] = Collected(file.items[source[m]])
          BY <3>2
        <5> QED
          BY <4>1, <5>1 DEF Collected
      <4>6. \/ r.logical < runs[m].logical
            \/ r.logical = runs[m].logical /\ i <= m
        BY <1>4, <1>5
      <4>7. i <= m => j <= after[n]
        BY <2>7, <4>1, <4>2, <4>3, <1>4, <1>5
      <4> QED
        BY <3>5, <4>4, <4>5, <4>6, <4>7 DEF Before
    <3>11. \A m \in 1 .. item - 1 : Taken(file.items[m]) =>
             \/ m = j
             \/ \E n \in 1 .. Len(runs') : after[n] = m
             \/ file.items[m].logical + Count(file.items[m]) <= Len(output')
      <4> TAKE m \in 1 .. item - 1
      <4> HAVE Taken(file.items[m])
      <4>1. m # 0 /\ m \in DOMAIN file.items
        BY <1>1
      <4>2. CASE \E n \in 1 .. Len(runs) : source[n] = m
        BY <2>7, <3>1, <3>4, <4>2
      <4>3. CASE file.items[m].logical + Count(file.items[m]) <= Len(output)
        <5>1. file.items[m].logical \in Nat /\ Count(file.items[m]) \in Nat
          BY <1>1, <4>1, ItemFacts
        <5>2. Len(output) \in Nat /\ Len(output') \in Nat /\ Len(output) <= Len(output')
          BY <1>1, <2>1
        <5> QED
          BY <4>3, <5>1, <5>2
      <4> QED
        BY <1>2, <1>3, <4>1, <4>2, <4>3 DEF Stands, Sourced, Writing, Accounted, LateOverlaps
    <3>12. \A n \in 1 .. Len(runs') : ~(runs'[n].logical < Len(output'))
      <4> TAKE n \in 1 .. Len(runs')
      <4>1. PICK m \in 1 .. Len(runs) : runs'[n] = runs[m]
        BY <3>1, <3>3
      <4>2. r.logical <= runs[m].logical /\ runs[m].logical \in Nat /\ r.logical \in Nat
        <5>1. r.logical \in Nat /\ runs[m].logical \in Nat /\ r = runs[i]
          BY <1>5
        <5>2. runs[i].logical < runs[m].logical \/ runs[i].logical = runs[m].logical
          BY <1>4
        <5> QED
          BY <5>1, <5>2
      <4>3. Len(output') <= r.logical /\ Len(output') \in Nat
        BY <1>1, <1>5, <2>1
      <4> QED
        BY <4>1, <4>2, <4>3
    <3>13. Len(after) = Len(runs') /\ after \in Seq(Nat)
      BY <2>6, <3>1
    <3>14. /\ run' = IF j = 0 THEN NoRun ELSE <<Collected(file.items[j])>>
           /\ j \in 0 .. item - 1
      BY <1>1, <1>7, <3>5
    <3> QED
      BY <2>4, <3>1, <3>5, <3>7, <3>8, <3>9, <3>10, <3>11, <3>12, <3>13, <3>14 DEF Stands, Sourced, Writing, Accounted, LateOverlaps, RunRecord, Before
  <2>9. ExtentsInv'
    BY <1>1, <2>4, <2>5, <2>8 DEF ExtentsInv, Sound, NoneMissing, NoneOfFlag
  <2> QED
    BY <1>1, <2>9, ExtentsContinue
<1> QED
  BY <1>6, <1>7 DEF TakeRun, r

LEMMA FillTailLeads ==
  ASSUME FilesAssumption, ExtInv, FillTail
  PROVE  Stops \/ (Continues /\ ExtInv')
<1>1. /\ pc = "runs" /\ run = NoRun /\ runs = <<>> /\ Remaining > 0 /\ Len(output) \in Nat
      /\ IsFile(file) /\ file.size \in Nat /\ Remaining = file.size - Len(output)
      /\ DOMAIN file.items = 1 .. Len(file.items) /\ Len(file.items) \in Nat
      /\ ExtTypes /\ ExtentsInv /\ item = Len(file.items) + 1 /\ file.kind = "extents"
      /\ output \in Seq(Nat) /\ partial \in BOOLEAN
      /\ Appends(Zeros(Remaining)) /\ UNCHANGED <<at, item, runs, run, partial>>
      /\ Remaining \in Nat
  BY FileFacts DEF FillTail, ExtInv, ExtentsInv, ExtTypes, walkVars
<1>2. PICK source, current : Stands(source, current)
  BY <1>1 DEF ExtentsInv
<1>3. current = 0
  BY <1>1, <1>2 DEF Stands, Sourced, Writing, Accounted, LateOverlaps, NoRun
<1>4. /\ Zeros(Remaining) \in Seq(Nat) /\ Len(Zeros(Remaining)) = Remaining
      /\ \A n \in 1 .. Remaining : Zeros(Remaining)[n] = Zero
  BY <1>1, ZerosIs
<1>5. Len(output) + Remaining = file.size
  BY <1>1
<1>6. \/ Stops
      \/ /\ Continues /\ pc' = pc
         /\ Len(output') = file.size
         /\ \A b \in 1 .. Len(output) : output'[b] = output[b]
         /\ \A n \in 1 .. Remaining : output'[Len(output) + n] = Zero
  <2> DEFINE cells == Zeros(Remaining)
  <2>1. /\ cells \in Seq(Nat) /\ Len(output) + Len(cells) <= file.size /\ Appends(cells)
        /\ partial' \in BOOLEAN /\ pc # "done"
    BY <1>1, <1>4, <1>5
  <2>2. Len(cells) = Remaining /\ \A n \in 1 .. Remaining : cells[n] = Zero
    BY <1>4
  <2> HIDE DEF cells
  <2>3. \/ Stops
        \/ /\ Continues /\ pc' = pc
           /\ Len(output') = Len(output) + Len(cells)
           /\ \A b \in 1 .. Len(output) : output'[b] = output[b]
           /\ \A n \in 1 .. Len(cells) : output'[Len(output) + n] = cells[n]
    BY <1>1, <2>1, AppendsIs
  <2> QED
    BY <1>5, <2>2, <2>3
<1> SUFFICES ASSUME Continues, pc' = pc, Len(output') = file.size,
                    \A b \in 1 .. Len(output) : output'[b] = output[b],
                    \A n \in 1 .. Remaining : output'[Len(output) + n] = Zero
             PROVE  ExtInv'
  BY <1>6
<1>7. UNCHANGED <<file, content, item, partial>>
  BY <1>1 DEF Continues
<1>8. ASSUME NoneOfFlag(file) PROVE Placed'
  <2>1. ASSUME NEW b \in 1 .. Len(output'), Len(output) < b
        PROVE  output'[b] = Zero /\ (partial \/ content[b] = Zero)
    <3>1. /\ b - Len(output) \in 1 .. Remaining /\ Len(output) + (b - Len(output)) = b
          /\ b \in 1 .. file.size
      BY <1>1, <2>1
    <3>2. output'[b] = Zero
      BY <3>1
    <3>3. \A n \in 1 .. Len(runs) : b - 1 < runs[n].logical
      <4>1. Len(runs) = 0
        BY <1>1
      <4> QED
        BY <4>1
    <3>4. partial \/ content[b] = Zero
      BY <1>1, <1>2, <1>3, <1>8, <2>1, <3>1, <3>3, ZerosFit
    <3> QED
      BY <3>2, <3>4
  <2>2. Placed
    BY <1>1, <1>8 DEF ExtentsInv
  <2>3. Len(output') \in Nat
    BY <1>1
  <2> QED
    BY <1>1, <1>7, <2>1, <2>2, <2>3, StaysPlaced
<1>9. Stands(source, current)'
  <2>1. \A m \in 1 .. item - 1 : Taken(file.items[m]) =>
          file.items[m].logical + Count(file.items[m]) <= Len(output')
    <3> TAKE m \in 1 .. item - 1
    <3> HAVE Taken(file.items[m])
    <3>1. m # 0 /\ m \in DOMAIN file.items /\ Len(runs) = 0
      BY <1>1
    <3>2. file.items[m].logical + Count(file.items[m]) <= Len(output)
      BY <1>2, <1>3, <3>1 DEF Stands, Sourced, Writing, Accounted, LateOverlaps
    <3>3. file.items[m].logical \in Nat /\ Count(file.items[m]) \in Nat
      BY <1>1, <3>1, ItemFacts
    <3> QED
      BY <1>1, <3>2, <3>3
  <2>2. \A n \in 1 .. Len(runs) : FALSE
    BY <1>1
  <2>3. UNCHANGED <<file, item, runs, run>> /\ current = 0 /\ Stands(source, current)
    BY <1>1, <1>2, <1>3, <1>7
  <2>4. Sourced(source)'
    BY <2>3 DEF Stands, Sourced
  <2>5. Writing(source, current)'
    BY <2>3 DEF Stands, Writing
  <2>6. Accounted(source, current)'
    BY <2>1, <2>3 DEF Accounted
  <2>7. LateOverlaps(source)'
    BY <2>2, <2>3 DEF LateOverlaps
  <2> QED
    BY <2>4, <2>5, <2>6, <2>7 DEF Stands
<1>10. ExtentsInv'
  <2>1. UNCHANGED <<file, item, run, partial>> /\ pc' = "runs"
    BY <1>1, <1>7
  <2>2. /\ (item \in 1 .. Len(file.items) + 1)'
        /\ (\A m \in 1 .. item - 1 : file.items[m].kind \in {"extent", "lost"})'
        /\ (~partial => \A m \in 1 .. item - 1 : file.items[m].kind = "extent" /\ ~Missing(file.items[m]))'
    BY <1>1, <2>1 DEF ExtentsInv, Missing
  <2>3. /\ (pc = "extents" => output = <<>> /\ run = NoRun)'
        /\ (pc = "runs" => item = Len(file.items) + 1)'
    BY <1>1, <2>1
  <2>4. (Sound /\ NoneMissing => ~partial)'
    BY <1>1, <2>1 DEF ExtentsInv, Sound, NoneMissing, Missing
  <2>5. (NoneOfFlag(file) => Placed)'
    BY <1>8, <2>1 DEF NoneOfFlag
  <2>6. (\E origin, now : Stands(origin, now))'
    BY <1>9
  <2> QED
    BY <2>2, <2>3, <2>4, <2>5, <2>6 DEF ExtentsInv
<1> QED
  BY <1>1, <1>10, ExtentsContinue

\* A block of the run that is written is added.
LEMMA BlockAdded ==
  ASSUME FilesAssumption, ExtInv, pc = "runs", run # NoRun, ~RunOver, Remaining > 0,
         UNCHANGED <<walkVars, partial>>, NEW cell \in Nat, Appends(<<cell>>),
         NEW source, NEW current, Stands(source, current), current # 0,
         cell = IF Uninitialized(file.items[current]) THEN Zero
                ELSE file.items[current].physical + Len(output) - file.items[current].logical
  PROVE  Stops \/ (Continues /\ ExtInv')
<1>1. /\ Len(output) \in Nat /\ ExtTypes /\ ExtentsInv
      /\ IsFile(file) /\ file.size \in Nat /\ Remaining = file.size - Len(output)
      /\ DOMAIN file.items = 1 .. Len(file.items) /\ Len(file.items) \in Nat
      /\ item = Len(file.items) + 1
  BY FileFacts DEF ExtInv, ExtentsInv, ExtTypes
<1>2. /\ UNCHANGED <<at, item, runs, run, partial>> /\ partial' \in BOOLEAN
  BY <1>1 DEF walkVars, ExtTypes
<1> DEFINE x == file.items[current]
<1>3. /\ Taken(x) /\ run = <<Collected(x)>> /\ current \in 1 .. item - 1
      /\ Len(output) <= x.logical + Count(x)
      /\ x.logical <= Len(output) \/ Len(output) = file.size
  <2>1. Writing(source, current)
    BY DEF Stands
  <2>2. /\ Taken(x) /\ run = <<Collected(x)>> /\ current \in 0 .. item - 1
        /\ Len(output) <= x.logical + Count(x)
        /\ x.logical <= Len(output) \/ Len(output) = file.size
    BY <2>1 DEF Writing
  <2> QED
    BY <1>1, <2>2
<1>4. current \in DOMAIN file.items /\ x.raw # Flag
  <2>1. current \in DOMAIN file.items
    BY <1>1, <1>3
  <2> QED
    BY <1>1, <1>3, <2>1, TakenIs DEF Taken
<1>5. x.logical \in Nat /\ Count(x) \in Nat
  BY <1>1, <1>4, ItemFacts
<1>6. Len(output) # x.logical + Count(x)
  <2>1. run[1].logical = x.logical /\ run[1].count = Count(x)
    BY <1>3 DEF Collected
  <2> QED
    BY <2>1 DEF RunOver
<1> HIDE DEF x
<1>7. x.logical <= Len(output) /\ Len(output) + 1 <= x.logical + Count(x) /\ Len(output) + 1 <= file.size
  BY <1>1, <1>3, <1>5, <1>6
<1>8. \/ Stops
      \/ /\ Continues /\ pc' = pc
         /\ Len(output') = Len(output) + 1
         /\ \A b \in 1 .. Len(output) : output'[b] = output[b]
         /\ output'[Len(output) + 1] = cell
  <2> DEFINE cells == <<cell>>
  <2>1. /\ cells \in Seq(Nat) /\ Len(cells) = 1 /\ cells[1] = cell /\ Appends(cells)
    OBVIOUS
  <2> HIDE DEF cells
  <2>2. Len(output) + Len(cells) <= file.size
    BY <1>1, <1>7, <2>1
  <2>3. \/ Stops
        \/ /\ Continues /\ pc' = pc
           /\ Len(output') = Len(output) + Len(cells)
           /\ \A b \in 1 .. Len(output) : output'[b] = output[b]
           /\ \A n \in 1 .. Len(cells) : output'[Len(output) + n] = cells[n]
    BY <1>1, <1>2, <2>1, <2>2, AppendsIs
  <2> QED
    BY <2>1, <2>3
<1> SUFFICES ASSUME Continues, pc' = pc, Len(output') = Len(output) + 1,
                    \A b \in 1 .. Len(output) : output'[b] = output[b],
                    output'[Len(output) + 1] = cell
             PROVE  ExtInv'
  BY <1>8
<1>9. UNCHANGED <<file, content>>
  BY DEF Continues
<1>10. ASSUME NoneOfFlag(file) PROVE Placed'
  <2>1. ~partial \/ ~Overlapping(file) => cell = content[Len(output) + 1]
    BY <1>1, <1>6, <1>10, CellIs DEF x
  <2>2. \A b \in 1 .. Len(output') : Len(output) < b =>
           /\ ~partial => output'[b] = content[b]
           /\ ~Overlapping(file) => output'[b] = content[b]
    <3> TAKE b \in 1 .. Len(output')
    <3> HAVE Len(output) < b
    <3>1. b = Len(output) + 1
      BY <1>1
    <3> QED
      BY <2>1, <3>1
  <2>3. Placed /\ Len(output') \in Nat
    BY <1>1, <1>10 DEF ExtentsInv
  <2> QED
    BY <1>1, <1>2, <1>9, <2>2, <2>3, StaysPlaced
<1>11. Sourced(source)'
  BY <1>2, <1>9 DEF Stands, Sourced
<1>12. Writing(source, current)'
  <2>1. Writing(source, current)
    BY DEF Stands
  <2>2. /\ current \in 0 .. item - 1
        /\ run = <<Collected(file.items[current])>> /\ Taken(file.items[current])
        /\ \A n \in 1 .. Len(runs) : source[n] # current /\ Before(file, current, source[n])
    BY <2>1 DEF Writing
  <2>3. /\ Len(output') <= file.items[current].logical + Count(file.items[current])
        /\ file.items[current].logical <= Len(output')
    BY <1>1, <1>5, <1>7 DEF x
  <2> QED
    BY <1>2, <1>9, <2>2, <2>3 DEF Writing, Before
<1>13. Accounted(source, current)'
  <2>1. Accounted(source, current)
    BY DEF Stands
  <2>2. ASSUME NEW i \in 1 .. item - 1,
               file.items[i].logical + Count(file.items[i]) <= Len(output)
        PROVE  file.items[i].logical + Count(file.items[i]) <= Len(output')
    <3>1. i \in DOMAIN file.items
      BY <1>1
    <3>2. file.items[i].logical \in Nat /\ Count(file.items[i]) \in Nat
      BY <1>1, <3>1, ItemFacts
    <3> QED
      BY <1>1, <2>2, <3>2
  <2> QED
    BY <1>2, <1>9, <2>1, <2>2 DEF Accounted
<1>14. LateOverlaps(source)'
  <2>1. LateOverlaps(source)
    BY DEF Stands
  <2>2. ASSUME NEW n \in 1 .. Len(runs), runs[n].logical < Len(output')
        PROVE  \E j \in DOMAIN file.items :
                 j # source[n] /\ j \in Covering(file, runs[n].logical + 1)
    <3>1. runs[n].logical \in Nat /\ source[n] # current
      <4>1. runs \in Seq(RunRecord) /\ Writing(source, current)
        BY DEF Stands, Sourced
      <4>2. runs[n] \in RunRecord
        BY <4>1
      <4> QED
        BY <4>1, <4>2 DEF RunRecord, Writing
    <3>2. CASE runs[n].logical < Len(output)
      BY <2>1, <3>2 DEF LateOverlaps
    <3>3. CASE runs[n].logical = Len(output)
      <4> DEFINE b == Len(output) + 1
      <4>1. b \in Nat \ {0} /\ b - 1 = Len(output)
        BY <1>1
      <4> HIDE DEF b
      <4>2. current \in Covering(file, b)
        <5>1. x.logical <= b - 1 /\ b - 1 < x.logical + Count(x)
          BY <1>1, <1>5, <1>7, <4>1
        <5> QED
          BY <1>1, <1>4, <4>1, <5>1, CoversIs DEF x
      <4>3. b = runs[n].logical + 1
        BY <3>3 DEF b
      <4> QED
        BY <1>4, <3>1, <4>2, <4>3
    <3> QED
      BY <1>1, <2>2, <3>1, <3>2, <3>3
  <2> QED
    BY <1>2, <1>9, <2>2 DEF LateOverlaps, Covering
<1>15. Stands(source, current)'
  BY <1>11, <1>12, <1>13, <1>14 DEF Stands
<1>16. ExtentsInv'
  BY <1>1, <1>2, <1>9, <1>10, <1>15 DEF ExtentsInv, Sound, NoneMissing, NoneOfFlag
<1> QED
  BY <1>16, ExtentsContinue

LEMMA WriteBlockLeads ==
  ASSUME FilesAssumption, ExtInv, WriteBlock
  PROVE  Stops \/ (Continues /\ ExtInv')
<1> DEFINE cell == run[1].physical + Len(output) - run[1].logical
<1>1. /\ pc = "runs" /\ run # NoRun /\ ~RunOver /\ Remaining > 0 /\ ExtTypes /\ ExtentsInv
      /\ Len(output) \in Nat /\ IsFile(file) /\ file.size \in Nat
      /\ Remaining = file.size - Len(output)
      /\ DOMAIN file.items = 1 .. Len(file.items) /\ item = Len(file.items) + 1
  BY FileFacts DEF WriteBlock, ExtInv, ExtentsInv, ExtTypes
<1>2. PICK source, current : Stands(source, current)
  BY <1>1 DEF ExtentsInv
<1> DEFINE x == file.items[current]
<1>3. /\ current # 0 /\ run = <<Collected(x)>> /\ current \in 0 .. item - 1
      /\ x.logical <= Len(output) \/ Len(output) = file.size
  BY <1>1, <1>2 DEF Stands, Writing
<1>4. current \in DOMAIN file.items
  BY <1>1, <1>3, FileFacts
<1>5. /\ run[1].logical = x.logical /\ run[1].physical = x.physical
      /\ run[1].zeroed = Uninitialized(x)
  BY <1>3 DEF Collected
<1>6. x.logical \in Nat /\ x.physical \in Nat
  BY <1>1, <1>4, ItemFacts
<1>7. cell \in Nat /\ cell = x.physical + Len(output) - x.logical
  <2>1. x.logical <= Len(output)
    BY <1>1, <1>3
  <2>2. cell = x.physical + (Len(output) - x.logical)
    BY <1>5
  <2>3. Len(output) - x.logical \in Nat
    BY <1>1, <1>6, <2>1
  <2> HIDE DEF x, cell
  <2> QED
    BY <1>6, <2>2, <2>3
<1> HIDE DEF x, cell
<1>8. CASE run[1].zeroed /\ Appends(<<Zero>>) /\ UNCHANGED <<walkVars, partial>>
  <2>1. Zero \in Nat
    BY DEF Zero
  <2> QED
    BY <1>1, <1>2, <1>3, <1>5, <1>8, <2>1, BlockAdded DEF x
<1>9. CASE ~run[1].zeroed /\ Appends(<<cell>>) /\ UNCHANGED <<walkVars, partial>>
  BY <1>1, <1>2, <1>3, <1>5, <1>7, <1>9, BlockAdded DEF x
<1>10. CASE FateOf(<<cell>>) \in {"zero", "unreadable"} /\ Ends(TRUE)
  <2>1. ~Sound
    <3> SUFFICES ASSUME DOMAIN file.fate = {} PROVE FALSE
      BY DEF Sound
    <3>1. Len(<<cell>>) = 1
      OBVIOUS
    <3>2. FateOf(<<cell>>) = "ok"
      BY <3>1 DEF FateOf
    <3> QED
      BY <1>10, <3>2
  <2>2. EndsWell(TRUE)
    BY <2>1 DEF EndsWell
  <2> QED
    BY <1>1, <1>10, <2>2, EndsIs
<1>11. CASE Error(ReadError)
  BY <1>1, <1>11, ErrorIs
<1> QED
  BY <1>8, <1>9, <1>10, <1>11 DEF WriteBlock, cell

-----------------------------------------------------------------------------
LEMMA WholeIs ==
  ASSUME NEW s \in Seq(Nat)
  PROVE  SubSeq(s, 1, Len(s)) = s
BY SubSeqFull

\* Opening, and the symlinks in the inode itself.
LEMMA OpenLeads ==
  ASSUME FilesAssumption, ExtInv, Open
  PROVE  Stops \/ (Continues /\ ExtInv')
<1>1. /\ pc = "open" /\ output = <<>> /\ partial = FALSE /\ at = Root(0) /\ item = 1
      /\ runs = <<>> /\ run = NoRun /\ ExtTypes /\ IsFile(file)
      /\ file.size \in Nat /\ file.kind \in {"pointers", "extents", "inline", "other"}
      /\ Len(output) = 0 /\ Len(file.items) \in Nat
  BY FileFacts DEF Open, ExtInv, IsFile
<1>2. CASE file.access # "ok" /\ Error(AccessStatus[file.access])
  <2>1. AccessStatus[file.access] \in {20, 31, 44, 90, 91, ReadError}
    BY <1>1, <1>2 DEF IsFile, AccessStatus
  <2> QED
    BY <1>1, <1>2, <2>1, ErrorIs
<1>3. CASE Error(91)
  BY <1>1, <1>3, ErrorIs
<1>4. CASE /\ file.kind # "other" /\ pc' = file.kind
           /\ UNCHANGED <<fileVars, walkVars, output, partial, status>>
  <2>1. /\ pc' \in {"pointers", "extents", "inline"} /\ pc' = file.kind /\ pc' # "done"
        /\ UNCHANGED <<file, content, at, item, runs, run, output, partial, status>>
    BY <1>1, <1>4 DEF fileVars, walkVars
  <2>2. Continues
    <3>1. output \in Seq(Nat)
      BY <1>1 DEF ExtTypes
    <3>2. SubSeq(output, 1, Len(output)) = output
      BY <3>1, WholeIs
    <3>3. output' = output /\ Len(output) <= file.size /\ Len(output) <= Len(output)
      <4>1. output' = output
        BY <2>1
      <4>2. Len(output) <= file.size /\ Len(output) <= Len(output)
        BY <1>1
      <4> QED
        BY <4>1, <4>2
    <3>5. partial' \in BOOLEAN
      <4>1. partial' = FALSE
        BY <1>1, <2>1
      <4> QED
        BY <4>1
    <3>4. /\ output' \in Seq(Nat) /\ Len(output') <= file.size /\ Len(output) <= Len(output')
          /\ SubSeq(output', 1, Len(output)) = output
      BY <3>1, <3>2, <3>3
    <3> QED
      BY <1>1, <2>1, <3>4, <3>5 DEF Continues
  <2>3. ExtTypes'
    BY <1>1, <2>1 DEF ExtTypes
  <2>4. Outcome' = "running"
    BY <2>1 DEF Outcome
  <2>5. OrderKept' /\ ExtentsInPlace' /\ SoundIsWhole'
    BY <1>1, <2>1, <2>4 DEF OrderKept, ExtentsInPlace, SoundIsWhole
  <2>6. ASSUME pc' = "extents" PROVE ExtentsInv'
    <3>1. Stands(<<>>, 0)'
      <4>1. Sourced(<<>>)' /\ LateOverlaps(<<>>)'
        BY <1>1, <2>1 DEF Sourced, LateOverlaps
      <4>2. Writing(<<>>, 0)' /\ Accounted(<<>>, 0)'
        BY <1>1, <2>1 DEF Writing, Accounted, NoRun
      <4> QED
        BY <4>1, <4>2 DEF Stands
    <3>2. Placed'
      BY <1>1, <2>1 DEF Placed
    <3> QED
      BY <1>1, <2>1, <2>6, <3>1, <3>2 DEF ExtentsInv
  <2>7. ASSUME pc' = "pointers" PROVE PointersInv'
    <3>1. IsNode(at) /\ First(at) = 1 /\ \A m : IsNode(m) => ~Above(m, at)
      BY <1>1, RootIs, BasesRise
    <3>2. \A m \in DOMAIN file.fate : IsNode(m)
      BY <1>1, <2>1, <2>7 DEF IsFile
    <3> QED
      BY <1>1, <2>1, <3>1, <3>2 DEF PointersInv
  <2> QED
    BY <1>1, <2>1, <2>2, <2>3, <2>4, <2>5, <2>6, <2>7 DEF ExtInv
<1> QED
  BY <1>2, <1>3, <1>4 DEF Open

LEMMA InlineSymlinkLeads ==
  ASSUME FilesAssumption, ExtInv, InlineSymlink
  PROVE  Stops \/ (Continues /\ ExtInv')
<1>1. /\ pc = "inline" /\ partial = FALSE /\ (output = <<>> \/ output = content)
      /\ ExtTypes /\ IsFile(file) /\ file.size \in Nat /\ file.kind = "inline"
      /\ Remaining = file.size - Len(output) /\ Len(content) = file.size /\ DOMAIN content = 1 .. file.size
      /\ \A b \in 1 .. file.size : content[b] = b
  BY FileFacts DEF InlineSymlink, ExtInv, ExtTypes, BlockOf
<1>2. CASE Remaining > 0
  <2>1. output = <<>> /\ Appends(content) /\ UNCHANGED <<walkVars, partial>>
    <3>1. Appends(content) /\ UNCHANGED <<walkVars, partial>>
      BY <1>2 DEF InlineSymlink
    <3>2. output # content
      BY <1>1, <1>2
    <3> QED
      BY <1>1, <3>1, <3>2
  <2>2. content \in Seq(Nat)
    <3>1. content = [b \in 1 .. file.size |-> content[b]]
      BY <1>1 DEF ExtTypes, Content
    <3>2. \A b \in 1 .. file.size : content[b] \in Nat
      BY <1>1
    <3>3. content \in [1 .. file.size -> Nat]
      <4>1. content = [b \in 1 .. file.size |-> BlockOf(file, b)]
        BY <1>1 DEF ExtTypes, Content
      <4>2. \A b \in 1 .. file.size : BlockOf(file, b) \in Nat
        BY <4>1, <3>2
      <4> QED
        BY <4>1, <4>2
    <3> QED
      BY <1>1, <3>3
  <2>3. Len(output) + Len(content) <= file.size
    BY <1>1, <2>1
  <2>4. \/ Stops
        \/ Continues /\ output' = output \o content /\ pc' = pc
    BY <1>1, <2>1, <2>2, <2>3, AppendsIs
  <2>5. ASSUME Continues, output' = output \o content, pc' = pc
        PROVE  ExtInv'
    <3>1. output' = content /\ UNCHANGED <<file, content, status>> /\ partial' = FALSE
      BY <1>1, <2>1, <2>2, <2>5 DEF Continues
    <3>2. ExtTypes'
      <4>1. /\ output' \in Seq(Nat) /\ Len(output') <= file.size
            /\ pc' = "inline" /\ file.kind = "inline" /\ status' = status /\ status = 0
            /\ file \in Files /\ content = Content(file)
        BY <1>1, <2>2, <2>5, <3>1 DEF ExtTypes
      <4> QED
        BY <3>1, <4>1 DEF ExtTypes
    <3>3. Outcome' = "running"
      BY <1>1, <2>5 DEF Outcome
    <3>4. OrderKept' /\ ExtentsInPlace' /\ SoundIsWhole'
      BY <1>1, <3>1, <3>3 DEF OrderKept, ExtentsInPlace, SoundIsWhole
    <3> QED
      BY <1>1, <2>5, <3>1, <3>2, <3>3, <3>4 DEF ExtInv
  <2> QED
    BY <2>4, <2>5
<1>3. CASE ~(Remaining > 0)
  <2>1. Ends(FALSE)
    BY <1>3 DEF InlineSymlink
  <2>2. output = content
    <3>1. CASE output = <<>>
      <4>1. file.size = 0
        BY <1>1, <1>3, <3>1
      <4>2. content = [b \in 1 .. 0 |-> BlockOf(file, b)]
        BY <1>1, <4>1 DEF ExtTypes, Content
      <4> QED
        BY <3>1, <4>2
    <3> QED
      BY <1>1, <3>1
  <2> QED
    BY <1>1, <2>1, <2>2, EndsIs DEF EndsWell
<1> QED
  BY <1>2, <1>3

-----------------------------------------------------------------------------
\* Following the pointers.
LEMMA PointersContinue ==
  ASSUME FilesAssumption, ExtInv, pc = "pointers", Continues, pc' = "pointers", PointersInv'
  PROVE  ExtInv'
<1>1. /\ status' = status /\ UNCHANGED <<file, content>> /\ partial' \in BOOLEAN
      /\ output' \in Seq(Nat) /\ Len(output') <= file.size
      /\ file.kind = "pointers" /\ status = 0
  BY DEF Continues, ExtInv, ExtTypes
<1>2. ExtTypes'
  BY <1>1 DEF ExtInv, ExtTypes
<1>3. Outcome' = "running"
  BY DEF Outcome
<1>4. OrderKept'
  <2>1. DOMAIN output' = 1 .. Len(output')
    BY <1>1
  <2>2. \A i, j \in DOMAIN output' : i < j => output'[i] < output'[j]
    BY <2>1 DEF PointersInv
  <2>3. ASSUME NEW i \in DOMAIN output' PROVE content[output'[i]] # Zero
    <3>1. output'[i] \in 1 .. file.size /\ output'[i] \notin Holes(file)
      BY <1>1, <2>1, <2>3 DEF PointersInv, Holes, Below
    <3>2. content[output'[i]] = BlockOf(file, output'[i]) /\ file.size \in Nat
      BY <3>1, FileFacts DEF ExtInv
    <3> QED
      BY <1>1, <3>1, <3>2 DEF BlockOf, Zero
  <2> QED
    BY <1>1, <2>2, <2>3 DEF OrderKept
<1>5. (Reliable => ExtentsInPlace)' /\ SoundIsWhole'
  BY <1>1, <1>3 DEF ExtentsInPlace, SoundIsWhole
<1> QED
  BY <1>2, <1>3, <1>4, <1>5 DEF ExtInv

LEMMA FateFacts ==
  ASSUME FilesAssumption, ExtInv, pc = "pointers"
  PROVE  /\ IsFile(file) /\ file.kind = "pointers"
         /\ \A m \in DOMAIN file.fate : IsNode(m) /\ file.fate[m] \in Fates
BY FileFacts DEF ExtInv, ExtTypes, IsFile

\* An undamaged file is read through, as long as nothing is left out.
LEMMA SoundIsOk ==
  ASSUME FilesAssumption, ExtInv, pc = "pointers", IsNode(at), Remaining > 0, Sound, ~partial
  PROVE  FateOf(at) = "ok"
<1>1. PointersInv /\ ExtTypes
  BY DEF ExtInv
<1>2. First(at) = Len(output) + 1 /\ DOMAIN file.fate = {}
  BY <1>1 DEF PointersInv, Sound
<1>3. First(at) \in 1 .. file.size
  BY <1>1, <1>2, FileFacts
<1>4. First(at) \in Below(at)
  BY FirstIs
<1> QED
  BY <1>2, <1>3, <1>4 DEF FateOf

\* A block that is written is in the file and in no hole.
LEMMA LeafIsReal ==
  ASSUME FilesAssumption, ExtInv, pc = "pointers", IsNode(at), IsFull(at), FateOf(at) = "ok"
  PROVE  Logical(at) \in 1 .. file.size /\ Logical(at) \notin Holes(file)
<1>1. PointersInv /\ IsFile(file) /\ \A m \in DOMAIN file.fate : IsNode(m) /\ file.fate[m] \in Fates
  BY FateFacts DEF ExtInv
<1>2. at \notin DOMAIN file.fate
  <2> SUFFICES ASSUME at \in DOMAIN file.fate PROVE FALSE
    OBVIOUS
  <2>1. FateOf(at) = file.fate[at]
    BY DEF FateOf
  <2> QED
    BY <1>1, <2>1 DEF Fates
<1>3. Below(at) \cap 1 .. file.size # {}
  <2>1. Len(at) = Depth(at) /\ Len(at) > 1
    BY NodeFacts DEF IsFull
  <2> QED
    BY <1>2, <2>1 DEF FateOf
<1>4. Logical(at) \in 1 .. file.size
  BY <1>3, FirstIs
<1>5. ASSUME NEW m \in DOMAIN file.fate, file.fate[m] = "zero", Logical(at) \in Below(m)
      PROVE  FALSE
  <2>1. IsNode(m) /\ Leads(m, at)
    BY <1>1, <1>5, BelowLeads
  <2>2. m \in Seq(Nat) /\ at \in Seq(Nat) /\ Len(m) <= Len(at) /\ \A d \in 1 .. Len(m) : m[d] = at[d]
    BY <2>1, NodeFacts DEF Leads
  <2>3. CASE Len(m) = Len(at)
    <3>1. m = at
      BY <2>2, <2>3
    <3> QED
      BY <1>2, <3>1
  <2>4. CASE Len(m) < Len(at)
    <3>1. Above(m, at)
      BY <2>2, <2>4 DEF Above
    <3> QED
      BY <1>1, <1>5, <3>1 DEF PointersInv
  <2> QED
    BY <2>2, <2>3, <2>4
<1> QED
  BY <1>4, <1>5 DEF Holes

LEMMA TripleIsLast ==
  ASSUME FilesAssumption
  PROVE  FirstTriple = Base(3) + 1 /\ Base(3) \in Nat /\ Base(4) \in Nat /\ Base(4) >= Base(3)
BY BasesRise, BasesInOrder DEF FirstTriple, Base

\* The block after a leaf.
LEMMA LeafWritten ==
  ASSUME FilesAssumption, ExtInv, pc = "pointers", IsNode(at), Remaining > 0,
         FateOf(at) = "ok", IsLeaf(at), WriteLeaf(at)
  PROVE  Stops \/ (Continues /\ ExtInv')
<1> DEFINE b == Logical(at)
           n == Len(output)
<1>1. /\ PointersInv /\ ExtTypes /\ IsFile(file) /\ file.size \in Nat /\ n \in Nat
      /\ Remaining = file.size - n /\ output \in Seq(Nat)
      /\ \A m \in DOMAIN file.fate : IsNode(m) /\ file.fate[m] \in Fates
  BY FileFacts, FateFacts DEF ExtInv, ExtTypes
<1>2. IsFull(at)
  BY LeafIsFull
<1>3. b \in 1 .. file.size /\ b \notin Holes(file) /\ b \in Nat
  BY <1>1, <1>2, LeafIsReal
<1>4. First(at) = b
  BY <1>2, FirstIs
<1>5. /\ IsNode(After(at)) \/ After(at) = Root(4)
      /\ First(After(at)) = b + 1
      /\ Level(After(at)) # Level(at) => b = Base(Level(at) + 1)
      /\ \A m : IsNode(m) /\ Above(m, After(at)) => Above(m, at)
  BY <1>2, AfterFollows
<1>6. /\ at' = After(at) /\ Appends(<<b>>) /\ partial' \in BOOLEAN
      /\ partial' <=> \/ partial
                      \/ Level(After(at)) # Level(at) /\ LevelMark(Level(at), Remaining - 1)
  BY <1>1 DEF WriteLeaf, ExtTypes
<1> HIDE DEF b
<1>7. \/ Stops
      \/ /\ Continues /\ output' = output \o <<b>> /\ pc' = pc
         /\ Len(output') = n + 1
         /\ \A c \in 1 .. n : output'[c] = output[c]
         /\ output'[n + 1] = b
  <2>1. <<b>> \in Seq(Nat) /\ Len(<<b>>) = 1 /\ n + 1 <= file.size /\ <<b>>[1] = b
    <3>1. n + 1 <= file.size
      BY <1>1
    <3> HIDE DEF n
    <3> QED
      BY <1>3, <3>1
  <2> QED
    <3>1. Len(output) + Len(<<b>>) <= file.size /\ pc # "done"
      BY <2>1
    <3>2. \/ Stops
          \/ /\ Continues /\ output' = output \o <<b>> /\ pc' = pc
             /\ Len(output') = Len(output) + Len(<<b>>)
             /\ \A c \in 1 .. Len(output) : output'[c] = output[c]
             /\ \A c \in 1 .. Len(<<b>>) : output'[Len(output) + c] = <<b>>[c]
      BY <1>1, <1>6, <2>1, <3>1, AppendsIs
    <3>3. 1 \in 1 .. Len(<<b>>)
      BY <2>1
    <3> QED
      BY <2>1, <3>2, <3>3
<1>8. SUFFICES ASSUME Continues, pc' = pc, Len(output') = n + 1,
                      \A c \in 1 .. n : output'[c] = output[c], output'[n + 1] = b
               PROVE  PointersInv'
  BY <1>7, PointersContinue
<1>9. UNCHANGED <<file, content>>
  BY <1>8 DEF Continues
<1>10. \A i \in 1 .. n : output[i] \in 1 .. file.size /\ output[i] < b /\ output[i] \notin Holes(file)
  BY <1>1, <1>4 DEF PointersInv
<1>11. \A i, j \in 1 .. n : i < j => output[i] < output[j]
  BY <1>1 DEF PointersInv
<1>12. ~partial => b = n + 1 /\ \A i \in 1 .. n : output[i] = i
  BY <1>1, <1>4 DEF PointersInv
<1>13. Sound /\ partial => file.size >= FirstTriple
  BY <1>1 DEF PointersInv
<1> HIDE DEF n
<1>14. \A m \in DOMAIN file.fate : file.fate[m] = "zero" => ~Above(m, at')
  BY <1>1, <1>5, <1>6 DEF PointersInv
<1>15. First(at)' = b + 1
  BY <1>5, <1>6 DEF First, LeafOf, Level, Depth, Logical, Base
<1>16. \A i \in 1 .. n + 1 :
         output'[i] \in 1 .. file.size /\ output'[i] < b + 1 /\ output'[i] \notin Holes(file)
  BY <1>1, <1>3, <1>8, <1>10
<1>17. \A i, j \in 1 .. n + 1 : i < j => output'[i] < output'[j]
  <2> SUFFICES ASSUME NEW i \in 1 .. n + 1, NEW j \in 1 .. n + 1, i < j
               PROVE  output'[i] < output'[j]
    OBVIOUS
  <2>1. i \in 1 .. n /\ (j \in 1 .. n \/ j = n + 1)
    BY <1>1
  <2> QED
    BY <1>8, <1>10, <1>11, <2>1
<1>18. ~partial' => b + 1 = (n + 1) + 1 /\ \A i \in 1 .. n + 1 : output'[i] = i
  BY <1>1, <1>3, <1>6, <1>8, <1>12
<1>19. Sound /\ partial' => file.size >= FirstTriple
  <2> SUFFICES ASSUME Sound, ~partial, Level(After(at)) # Level(at),
                      LevelMark(Level(at), Remaining - 1)
               PROVE  file.size >= FirstTriple
    BY <1>6, <1>13
  <2>1. Level(at) \in {2, 3} /\ Remaining - 1 > 0
    BY DEF LevelMark
  <2>2. n + 1 = Base(Level(at) + 1) /\ file.size > n + 1
    BY <1>1, <1>5, <1>12, <2>1
  <2>3. FirstTriple = Base(3) + 1 /\ Base(3) \in Nat /\ Base(4) \in Nat /\ Base(4) >= Base(3)
    BY TripleIsLast
  <2> QED
    BY <1>1, <2>1, <2>2, <2>3
<1>20. Sound' = Sound /\ Holes(file)' = Holes(file) /\ FirstTriple' = FirstTriple
  BY <1>9 DEF Sound, FirstTriple, Holes
<1>21. IsNode(at') \/ at' = Root(4)
  BY <1>5, <1>6
<1> QED
  BY <1>8, <1>9, <1>14, <1>15, <1>16, <1>17, <1>18, <1>19, <1>20, <1>21 DEF PointersInv

LEMMA Descends ==
  ASSUME FilesAssumption, ExtInv, pc = "pointers", IsNode(at), Remaining > 0,
         FateOf(at) = "ok", ~IsLeaf(at), Descend(at)
  PROVE  Continues /\ ExtInv'
<1>1. /\ PointersInv /\ ExtTypes /\ IsFile(file) /\ file.size \in Nat /\ Len(output) \in Nat
      /\ output \in Seq(Nat) /\ Len(output) <= file.size
      /\ \A m \in DOMAIN file.fate : IsNode(m) /\ file.fate[m] \in Fates
  BY FileFacts, FateFacts DEF ExtInv, ExtTypes
<1>2. ~IsFull(at)
  BY LeafIsFull
<1>3. /\ IsNode(Append(at, 1)) /\ First(Append(at, 1)) = First(at)
      /\ \A m : Above(m, Append(at, 1)) => m \notin Seq(Nat) \/ m = at \/ Above(m, at)
  BY <1>2, DescendIs
<1>4. at' = Append(at, 1) /\ UNCHANGED <<file, content, pc, output, status, partial>>
  BY DEF Descend, fileVars
<1>5. Continues
  <2>1. SubSeq(output, 1, Len(output)) = output
    BY <1>1, WholeIs
  <2>2. partial \in BOOLEAN
    BY <1>1 DEF ExtTypes
  <2> QED
    BY <1>1, <1>4, <2>1, <2>2 DEF Continues
<1>6. \A m \in DOMAIN file.fate : file.fate[m] = "zero" => ~Above(m, at')
  <2> SUFFICES ASSUME NEW m \in DOMAIN file.fate, file.fate[m] = "zero", Above(m, at')
               PROVE  FALSE
    OBVIOUS
  <2>1. m \in Seq(Nat)
    BY <1>1 DEF IsNode
  <2>2. m = at
    BY <1>1, <1>3, <1>4, <2>1 DEF PointersInv
  <2> QED
    BY <2>2 DEF FateOf
<1>7. First(at)' = First(at)
  BY <1>3, <1>4 DEF First, LeafOf, Level, Depth, Logical, Base
<1>8. PointersInv'
  BY <1>1, <1>3, <1>4, <1>6, <1>7 DEF PointersInv, Sound, Holes, FirstTriple
<1> QED
  BY <1>4, <1>5, <1>8, PointersContinue

LEMMA LeavesLevel ==
  ASSUME FilesAssumption, ExtInv, pc = "pointers", IsNode(at), Remaining > 0,
         FateOf(at) # "ok", LeaveLevel(at)
  PROVE  Continues /\ ExtInv'
<1>1. /\ PointersInv /\ ExtTypes /\ IsFile(file) /\ file.size \in Nat /\ Len(output) \in Nat
      /\ output \in Seq(Nat) /\ Len(output) <= file.size
      /\ \A m \in DOMAIN file.fate : IsNode(m) /\ file.fate[m] \in Fates
  BY FileFacts, FateFacts DEF ExtInv, ExtTypes
<1>2. /\ at' = Root(Level(at) + 1) /\ partial' = TRUE
      /\ UNCHANGED <<file, content, pc, output, status>>
  BY DEF LeaveLevel, fileVars
<1>3. Level(at) \in 0 .. 3 /\ Level(at) + 1 \in 0 .. 4
  BY NodeFacts
<1> DEFINE next == Root(Level(at) + 1)
<1>4. /\ Level(next) = Level(at) + 1 /\ (Level(at) + 1 # 4 => IsNode(next))
      /\ First(next) = Base(Level(at) + 1) + 1
      /\ \A m : IsNode(m) => ~Above(m, next)
  BY <1>3, RootIs
<1>5. Continues
  <2>1. SubSeq(output, 1, Len(output)) = output
    BY <1>1, WholeIs
  <2> QED
    BY <1>1, <1>2, <2>1 DEF Continues
<1>6. /\ First(at) \in Nat /\ First(at) <= Base(Level(at) + 1)
      /\ First(next) \in Nat /\ First(at) < First(next)
  <2>1. Base(Level(at)) \in Nat /\ Base(Level(at) + 1) \in Nat
    BY <1>3, LevelBases
  <2>2. First(at) \in Base(Level(at)) + 1 .. Base(Level(at) + 1)
    BY FirstIs
  <2> QED
    BY <1>4, <2>1, <2>2
<1>7. First(at)' = First(next)
  BY <1>2 DEF First, LeafOf, Level, Depth, Logical, Base
<1>8. \A i \in 1 .. Len(output) :
        output[i] \in 1 .. file.size /\ output[i] < First(next) /\ output[i] \notin Holes(file)
  BY <1>1, <1>6 DEF PointersInv
<1>9. IsNode(at') \/ at' = Root(4)
  BY <1>2, <1>3, <1>4
<1>10. Sound => file.size >= FirstTriple
  BY <1>1, SoundIsOk DEF PointersInv
<1>11. \A m \in DOMAIN file.fate : file.fate[m] = "zero" => ~Above(m, at')
  BY <1>1, <1>2, <1>4
<1> HIDE DEF next
<1>12. PointersInv'
  BY <1>1, <1>2, <1>7, <1>8, <1>9, <1>10, <1>11 DEF PointersInv, Sound, Holes, FirstTriple
<1> QED
  BY <1>2, <1>5, <1>12, PointersContinue

LEMMA VisitLeads ==
  ASSUME FilesAssumption, ExtInv, NEW l \in 0 .. 3, Visit(l)
  PROVE  Stops \/ (Continues /\ ExtInv')
<1>1. /\ pc = "pointers" /\ Level(at) = l /\ Remaining > 0 /\ PointersInv
  BY DEF Visit, ExtInv
<1>2. IsNode(at)
  <2>1. Level(Root(4)) = 4
    BY RootIs
  <2> QED
    BY <1>1, <2>1 DEF PointersInv
<1>3. CASE FateOf(at) = "ok" /\ IsLeaf(at) /\ WriteLeaf(at)
  BY <1>1, <1>2, <1>3, LeafWritten
<1>4. CASE FateOf(at) = "ok" /\ ~IsLeaf(at) /\ Descend(at)
  BY <1>1, <1>2, <1>4, Descends
<1>5. CASE FateOf(at) \in {"zero", "unreadable"} /\ LeaveLevel(at)
  <2>1. FateOf(at) # "ok"
    BY <1>5
  <2> QED
    BY <1>1, <1>2, <1>5, <2>1, LeavesLevel
<1>6. CASE Error(ReadError)
  BY <1>1, <1>6, ErrorIs
<1> QED
  BY <1>3, <1>4, <1>5, <1>6 DEF Visit

LEMMA PointersEndLeads ==
  ASSUME FilesAssumption, ExtInv, PointersEnd
  PROVE  Stops
<1> DEFINE p == partial \/ Remaining > 0
<1>1. /\ pc = "pointers" /\ (Remaining = 0 \/ Level(at) = 4) /\ Ends(p)
      /\ PointersInv /\ ExtTypes /\ IsFile(file) /\ file.size \in Nat /\ Len(output) \in Nat
      /\ Remaining = file.size - Len(output) /\ Remaining \in Nat /\ output \in Seq(Nat)
      /\ file.kind = "pointers" /\ Len(content) = file.size /\ DOMAIN content = 1 .. file.size
      /\ \A b \in 1 .. file.size : content[b] = BlockOf(file, b)
  BY FileFacts DEF PointersEnd, ExtInv, ExtTypes
<1>2. p \in BOOLEAN
  OBVIOUS
<1>3. ASSUME ~p PROVE output = content
  <2>1. Len(output) = file.size /\ \A i \in 1 .. Len(output) : output[i] = i /\ i \notin Holes(file)
    BY <1>1, <1>3 DEF PointersInv
  <2>2. \A i \in 1 .. file.size : content[i] = i
    BY <1>1, <2>1 DEF BlockOf
  <2>3. content = [i \in 1 .. file.size |-> BlockOf(file, i)]
    BY <1>1 DEF ExtTypes, Content
  <2>4. output = [i \in 1 .. Len(output) |-> output[i]]
    BY <1>1
  <2> QED
    BY <1>1, <2>1, <2>2, <2>3, <2>4
<1>4. ASSUME p, Sound PROVE file.size >= FirstTriple
  <2>1. CASE partial
    BY <1>1, <1>4, <2>1 DEF PointersInv
  <2>2. CASE ~partial /\ Remaining > 0
    <3>1. Level(at) = 4 /\ First(at) = Len(output) + 1
      BY <1>1, <2>2 DEF PointersInv
    <3>2. First(at) = Base(4) + 1
      BY <3>1 DEF First
    <3>3. FirstTriple = Base(3) + 1 /\ Base(3) \in Nat /\ Base(4) \in Nat /\ Base(4) >= Base(3)
      BY TripleIsLast
    <3> QED
      BY <1>1, <2>2, <3>1, <3>2, <3>3
  <2> QED
    BY <1>4, <2>1, <2>2
<1> HIDE DEF p
<1>5. EndsWell(p)
  BY <1>1, <1>3, <1>4 DEF EndsWell, Excused
<1> QED
  BY <1>1, <1>2, <1>5, EndsIs

-----------------------------------------------------------------------------
\* Every step.
LEMMA ExtNextLeads ==
  ASSUME FilesAssumption, ExtInv, Next
  PROVE  Stops \/ (Continues /\ ExtInv')
<1>1. CASE Open
  BY <1>1, OpenLeads
<1>2. CASE InlineSymlink
  BY <1>2, InlineSymlinkLeads
<1>3. CASE FollowPointers
  <2>1. CASE VisitDirect \/ VisitSingle \/ VisitDouble \/ VisitTriple
    <3>1. PICK l \in 0 .. 3 : Visit(l)
      BY <2>1 DEF VisitDirect, VisitSingle, VisitDouble, VisitTriple
    <3> QED
      BY <3>1, VisitLeads
  <2>2. CASE PointersEnd
    BY <2>2, PointersEndLeads
  <2> QED
    BY <1>3, <2>1, <2>2 DEF FollowPointers
<1>4. CASE FollowExtents
  BY <1>4, CollectLeads, EndCollectLeads, TakeRunLeads, WriteBlockLeads, LeaveRunLeads, FillTailLeads, RunsEndLeads
     DEF FollowExtents
<1> QED
  BY <1>1, <1>2, <1>3, <1>4 DEF Next

LEMMA ExtStarts ==
  ASSUME FilesAssumption, Init
  PROVE  ExtInv
<1>1. /\ file \in Files /\ content = Content(file) /\ pc = "open" /\ at = Root(0) /\ item = 1
      /\ runs = <<>> /\ run = NoRun /\ output = <<>> /\ partial = FALSE /\ status = 0
      /\ file.size \in Nat
  BY DEF Init, FilesAssumption, IsFile
<1>2. Outcome = "running"
  BY <1>1 DEF Outcome
<1>3. ExtTypes
  <2>1. output \in Seq(Nat) /\ Len(output) <= file.size
    BY <1>1
  <2> QED
    BY <1>1, <2>1 DEF ExtTypes
<1>4. OrderKept /\ ExtentsInPlace /\ SoundIsWhole
  BY <1>1, <1>2 DEF OrderKept, ExtentsInPlace, SoundIsWhole
<1> QED
  BY <1>1, <1>2, <1>3, <1>4 DEF ExtInv

LEMMA ExtContinues ==
  ASSUME FilesAssumption, ExtInv, Next
  PROVE  ExtInv'
BY ExtNextLeads, StopsKeeps

LEMMA ExtStutters ==
  ASSUME ExtInv, UNCHANGED vars
  PROVE  ExtInv'
<1>1. UNCHANGED <<file, content, pc, at, item, runs, run, output, partial, status>>
  BY DEF vars, fileVars, walkVars
<1>2. ExtTypes'
  BY <1>1 DEF ExtInv, ExtTypes
<1>3. ExtentsInv' = ExtentsInv
  BY <1>1 DEF ExtentsInv, Placed, Sound, NoneMissing, NoneOfFlag, Missing, Overlapping, Covering,
    Stands, Sourced, Writing, Accounted, LateOverlaps, Before
<1>4. PointersInv' = PointersInv
  BY <1>1 DEF PointersInv, First, LeafOf, Level, Depth, Logical, Base, Above, Holes, Sound, FirstTriple
<1>5. Outcome' = Outcome /\ OrderKept' = OrderKept /\ SoundIsWhole' = SoundIsWhole
  BY <1>1 DEF Outcome, OrderKept, SoundIsWhole, Sound, FirstTriple, Overlapping, Covering, NoRuns, Missing
<1>6. ExtentsInPlace' = ExtentsInPlace /\ Reliable' = Reliable
  BY <1>1 DEF ExtentsInPlace, Overlapping, Covering, Reliable, NoneOfFlag
<1> QED
  BY <1>1, <1>2, <1>3, <1>4, <1>5, <1>6 DEF ExtInv

-----------------------------------------------------------------------------
\* The places of the inodes.
LEMMA QuotientFacts ==
  ASSUME NEW a \in Nat, NEW p \in Nat \ {0}
  PROVE  /\ a \div p \in Nat /\ a % p \in 0 .. p - 1
         /\ a = p * (a \div p) + (a % p)
BY SMTT(20)

LEMMA Grows ==
  ASSUME NEW p \in Nat \ {0}, NEW g \in Nat, NEW q \in Nat, g >= q
  PROVE  p * g >= p * q
<1>1. PICK e \in Nat : g = q + e
  <2>1. g - q \in Nat /\ g = q + (g - q)
    OBVIOUS
  <2> QED
    BY <2>1
<1>2. p * g = p * q + p * e
  BY <1>1
<1>3. p * e \in Nat /\ p * q \in Nat
  OBVIOUS
<1> QED
  BY <1>2, <1>3

\* A number is below a bound only if its group is below the bound's, rounded up.
LEMMA GroupIsThere ==
  ASSUME NEW a \in Nat, NEW b \in Nat, a < b, NEW p \in Nat \ {0}
  PROVE  a \div p < (b + p - 1) \div p
<1> DEFINE g == a \div p
           c == b + p - 1
           q == c \div p
<1>1. c \in Nat /\ c >= a + p
  OBVIOUS
<1>2. g \in Nat /\ a % p \in 0 .. p - 1 /\ a = p * g + (a % p)
  BY QuotientFacts
<1>3. q \in Nat /\ c % p \in 0 .. p - 1 /\ c = p * q + (c % p)
  <2> HIDE DEF c
  <2> QED
    BY <1>1, QuotientFacts
<1> HIDE DEF g, q, c
<1>4. SUFFICES ASSUME g >= q PROVE FALSE
  BY <1>2, <1>3 DEF g, q, c
<1>5. p * g >= p * q
  BY <1>2, <1>3, <1>4, Grows
<1> DEFINE pg == p * g
           pq == p * q
           ra == a % p
           rc == c % p
<1>6. pg \in Nat /\ pq \in Nat /\ ra \in 0 .. p - 1 /\ rc \in 0 .. p - 1
  BY <1>2, <1>3
<1>7. a = pg + ra /\ c = pq + rc /\ pg >= pq
  BY <1>2, <1>3, <1>5
<1> HIDE DEF pg, pq, ra, rc
<1> QED
  BY <1>1, <1>6, <1>7

LEMMA OneNumber ==
  ASSUME NEW a \in Nat, NEW b \in Nat, NEW p \in Nat \ {0},
         a \div p = b \div p, a % p = b % p
  PROVE  a = b
<1>1. a = p * (a \div p) + (a % p) /\ b = p * (b \div p) + (b % p)
  BY QuotientFacts
<1> QED
  BY <1>1

\* The inodes of a volume whose tables are there have different places.
LEMMA PlacesAreThere ==
  ASSUME NEW v, IsVolume(v), v.inodesPerGroup > 0,
         \A g \in 0 .. GroupCount(v) - 1 : g \in DOMAIN v.tables /\ v.tables[g] # 0,
         NEW n \in 1 .. v.inodes
  PROVE  /\ Locate(v, n) = <<v.tables[Group(v, n)], (n - 1) % v.inodesPerGroup>>
         /\ Locate(v, n) # Nowhere /\ Group(v, n) \in DOMAIN v.tables
<1> DEFINE p == v.inodesPerGroup
           g == Group(v, n)
<1>1. /\ v.blocks \in Nat /\ v.blocksPerGroup \in Nat /\ v.inodes \in Nat
      /\ p \in Nat \ {0} /\ n \in Nat \ {0} /\ n - 1 \in Nat /\ n - 1 < v.inodes
  BY DEF IsVolume
<1>2. g \in Nat /\ g = (n - 1) \div p
  <2> HIDE DEF p
  <2>1. (n - 1) \div p \in Nat
    BY <1>1, QuotientFacts
  <2> QED
    BY <2>1 DEF Group, p
<1>3. RoundedUp(v.blocks, v.blocksPerGroup) \in Nat
  <2>1. CASE v.blocksPerGroup = 0
    BY <2>1 DEF RoundedUp
  <2>2. CASE v.blocksPerGroup # 0
    <3>1. v.blocks + v.blocksPerGroup - 1 \in Nat /\ v.blocksPerGroup \in Nat \ {0}
      BY <1>1, <2>2
    <3>2. (v.blocks + v.blocksPerGroup - 1) \div v.blocksPerGroup \in Nat
      BY <3>1, QuotientFacts
    <3> QED
      BY <2>2, <3>2 DEF RoundedUp
  <2> QED
    BY <2>1, <2>2
<1>4. RoundedUp(v.inodes, p) \in Nat /\ g < RoundedUp(v.inodes, p)
  <2> HIDE DEF p, g
  <2>1. v.inodes + p - 1 \in Nat
    BY <1>1
  <2>2. (v.inodes + p - 1) \div p \in Nat
    BY <1>1, <2>1, QuotientFacts
  <2>3. (n - 1) \div p < (v.inodes + p - 1) \div p
    BY <1>1, GroupIsThere
  <2>4. RoundedUp(v.inodes, p) = (v.inodes + p - 1) \div p
    BY <1>1 DEF RoundedUp
  <2> QED
    BY <1>2, <2>2, <2>3, <2>4
<1>5. GroupCount(v) \in Nat /\ g < GroupCount(v)
  <2> DEFINE a == RoundedUp(v.blocks, v.blocksPerGroup)
             b == RoundedUp(v.inodes, p)
  <2>1. GroupCount(v) = Max({a, b})
    BY DEF GroupCount
  <2>2. a \in Nat /\ b \in Nat /\ g < b
    BY <1>3, <1>4
  <2> HIDE DEF a, b, g
  <2>3. Max({a, b}) = IF a >= b THEN a ELSE b
    BY <2>2, LargerOf
  <2> QED
    BY <1>2, <2>1, <2>2, <2>3
<1>6. g \in 0 .. GroupCount(v) - 1
  <2> HIDE DEF g
  <2> QED
    BY <1>2, <1>5
<1>7. g \in DOMAIN v.tables /\ v.tables[g] # 0
  BY <1>6
<1>8. ~(g >= GroupCount(v))
  <2> HIDE DEF g
  <2> QED
    BY <1>2, <1>5
<1>9. Locate(v, n) = <<v.tables[g], (n - 1) % p>>
  BY <1>1, <1>7, <1>8 DEF Locate
<1> QED
  BY <1>7, <1>9 DEF Nowhere

LEMMA PlacesDiffer ==
  ASSUME NEW v, IsVolume(v), v.inodesPerGroup > 0,
         \A g \in 0 .. GroupCount(v) - 1 : g \in DOMAIN v.tables /\ v.tables[g] # 0,
         \A g, h \in DOMAIN v.tables : g # h => v.tables[g] # v.tables[h]
  PROVE  /\ Nowhere \notin {Locate(v, n) : n \in 1 .. v.inodes}
         /\ Cardinality({Locate(v, n) : n \in 1 .. v.inodes}) = v.inodes
<1> DEFINE located == {Locate(v, n) : n \in 1 .. v.inodes}
           f == [n \in 1 .. v.inodes |-> Locate(v, n)]
<1>1. v.inodes \in Nat /\ v.inodesPerGroup \in Nat \ {0}
  BY DEF IsVolume
<1>2. \A n \in 1 .. v.inodes :
        /\ Locate(v, n) = <<v.tables[Group(v, n)], (n - 1) % v.inodesPerGroup>>
        /\ Locate(v, n) # Nowhere /\ Group(v, n) \in DOMAIN v.tables
  BY PlacesAreThere
<1>3. ASSUME NEW m \in 1 .. v.inodes, NEW n \in 1 .. v.inodes, f[m] = f[n]
      PROVE  m = n
  <2>1. /\ v.tables[Group(v, m)] = v.tables[Group(v, n)]
        /\ (m - 1) % v.inodesPerGroup = (n - 1) % v.inodesPerGroup
    BY <1>2, <1>3
  <2>2. Group(v, m) = Group(v, n)
    BY <1>2, <2>1
  <2>3. m - 1 \in Nat /\ n - 1 \in Nat /\ m \in Nat /\ n \in Nat
    BY <1>1
  <2>4. m - 1 = n - 1
    BY <1>1, <2>1, <2>2, <2>3, OneNumber DEF Group
  <2> QED
    BY <2>3, <2>4
<1>4. f \in [1 .. v.inodes -> located] /\ \A t \in located : \E n \in 1 .. v.inodes : f[n] = t
  OBVIOUS
<1> HIDE DEF f
<1>5. f \in Bijection(1 .. v.inodes, located)
  <2> HIDE DEF located
  <2> QED
    BY <1>3, <1>4, Fun_IsBij
<1>6. ExistsBijection(1 .. v.inodes, located)
  BY <1>5 DEF ExistsBijection
<1>7. Cardinality(located) = v.inodes
  <2> HIDE DEF located
  <2> QED
    BY <1>1, <1>6, FS_CountingElements
<1> QED
  BY <1>2, <1>7

LEMMA PlacesHold ==
  ASSUME FilesAssumption, ExtInv
  PROVE  InodesHavePlaces
<1>1. IsVolume(file.volume)
  BY FileFacts DEF ExtInv, IsFile
<1> QED
  BY <1>1, PlacesDiffer DEF InodesHavePlaces

-----------------------------------------------------------------------------
(* What holds of every recovery. *)

\* The state of the recovery of an inode, as one formula.
THEOREM Invariance ==
  ASSUME FilesAssumption
  PROVE  Spec => []ExtInv
<1>1. Init => ExtInv
  BY ExtStarts
<1>2. ExtInv /\ [Next]_vars => ExtInv'
  BY ExtContinues, ExtStutters
<1> QED
  BY <1>1, <1>2, PTL DEF Spec

\* Whatever levels of the pointer tree are given up, each file block is written
\* at most once, in the order of the file, and holes are not; an undamaged inode
\* is marked partial only for the reasons that SoundIsWhole names; and no two
\* inodes share a place in the tables.
THEOREM InodesAreRecovered ==
  ASSUME FilesAssumption
  PROVE  Spec => [](OrderKept /\ SoundIsWhole /\ InodesHavePlaces)
<1>1. ExtInv => OrderKept /\ SoundIsWhole /\ InodesHavePlaces
  BY PlacesHold DEF ExtInv
<1> QED
  BY <1>1, Invariance, PTL

\* No inode has an initialized extent of the longest length, which the code
\* takes for an uninitialized one of no block.
NoLongest == \A f \in Files : NoneOfFlag(f)

LEMMA AllReliable ==
  ASSUME NoLongest, ExtInv
  PROVE  Reliable
BY DEF NoLongest, Reliable, ExtInv, ExtTypes

\* Every block that is copied through extents which do not overlap is at its
\* place, and what was lost is zeros or cut off, in a file that is marked.
THEOREM ExtentsCorrect ==
  ASSUME FilesAssumption, NoLongest
  PROVE  Spec => []ExtentsInPlace
<1>1. ExtInv => ExtentsInPlace
  BY AllReliable DEF ExtInv
<1> QED
  BY <1>1, Invariance, PTL

-----------------------------------------------------------------------------
(* The contract *)
Contract == INSTANCE RecoveredFile WITH outcome <- Outcome

LEMMA StepIsAllowed ==
  ASSUME FilesAssumption, NoLongest, ExtInv, [Next]_vars
  PROVE  [Contract!Next]_(Contract!vars)
<1>1. CASE UNCHANGED vars
  BY <1>1 DEF vars, fileVars, Contract!vars, Outcome
<1>2. CASE Stops
  <2>1. /\ pc # "done" /\ pc' = "done" /\ content' = content /\ output' = output
        /\ partial' \in BOOLEAN
        /\ status' \notin {0, 76} \/ EndsWell(partial')
    BY <1>2 DEF Stops
  <2>2. Outcome = "running"
    BY <2>1 DEF Outcome
  <2>3. Outcome' = IF status' \in {0, 76} THEN (IF partial' THEN "partial" ELSE "complete")
                   ELSE "failed"
    BY <2>1 DEF Outcome
  <2>4. CASE status' \in {0, 76} /\ ~partial'
    <3>1. output = content
      BY <2>1, <2>4, AllReliable DEF EndsWell
    <3> QED
      BY <2>1, <2>2, <2>3, <2>4, <3>1 DEF Contract!Next, Contract!Complete
  <2>5. CASE ~(status' \in {0, 76} /\ ~partial')
    <3>1. Outcome' \in {"partial", "failed"}
      BY <2>3, <2>5
    <3> QED
      BY <2>1, <2>2, <3>1 DEF Contract!Next, Contract!GiveUp
  <2> QED
    BY <2>4, <2>5
<1>3. CASE Continues
  <2>1. /\ pc # "done" /\ pc' # "done" /\ content' = content
        /\ output' \in Seq(Nat) /\ Len(output') <= file.size /\ Len(output) <= Len(output')
        /\ SubSeq(output', 1, Len(output)) = output
    BY <1>3 DEF Continues
  <2>2. Outcome = "running" /\ Outcome' = "running"
    BY <2>1 DEF Outcome
  <2>3. Len(output) \in Nat /\ Len(content) = file.size /\ file.size \in Nat /\ Len(output') \in Nat
    BY <2>1, FileFacts DEF ExtInv
  <2>4. CASE Len(output') = Len(output)
    <3>1. output' = output
      BY <2>1, <2>4, WholeIs
    <3> QED
      BY <2>1, <2>2, <3>1 DEF Contract!vars
  <2>5. CASE Len(output') # Len(output)
    <3>1. Len(output') \in Len(output) + 1 .. Len(content)
      BY <2>1, <2>3, <2>5
    <3> QED
      BY <2>1, <2>2, <3>1 DEF Contract!Next, Contract!Write
  <2> QED
    BY <2>4, <2>5
<1> QED
  BY <1>1, <1>2, <1>3, ExtNextLeads

\* The recovery of an inode, by pointers, extents or from the inode itself, does
\* what every recovery promises: the output only grows, within the size of the
\* file, and a recovery without a mark has written the content, holes as zeros.
THEOREM ImplementsContract ==
  ASSUME FilesAssumption, NoLongest
  PROVE  Spec => Contract!Spec
<1>1. Init => Contract!Init
  BY DEF Init, Contract!Init, Outcome
<1>2. ExtInv /\ [Next]_vars => [Contract!Next]_(Contract!vars)
  BY StepIsAllowed
<1> QED
  BY <1>1, <1>2, Invariance, PTL DEF Spec, Contract!Spec
=============================================================================
