----------------------------- MODULE RaidProofs -----------------------------
(***************************************************************************)
(* Proofs about RaidLayouts and RaidAssembly: for every stripe size, every *)
(* number of members and every size of them, the mappings of the levels    *)
(* lose and repeat no block, the chunked copy follows them, no data block  *)
(* of the members is left out of an array and no redundant one is in it,   *)
(* and a full score of the sampled stripes is true of every block.         *)
(***************************************************************************)
EXTENDS RaidAssembly, FiniteSetTheorems, SequenceTheorems,
        WellFoundedInduction, TLAPS

-----------------------------------------------------------------------------
(* Division with remainder *)

\* Quotient and remainder.
LEMMA DivMod ==
  ASSUME NEW a \in Nat, NEW m \in Nat \ {0}
  PROVE  /\ a \div m \in Nat
         /\ a % m \in 0 .. m - 1
         /\ a = m * (a \div m) + (a % m)
BY SMTT(20)

\* A product of naturals is a natural.
LEMMA Product ==
  ASSUME NEW a \in Nat, NEW b \in Nat
  PROVE  a * b \in Nat
OBVIOUS

\* More whole parts are more.
LEMMA Monotone ==
  ASSUME NEW m \in Nat, NEW p \in Nat, NEW q \in Nat, p < q
  PROVE  m * p + m <= m * q
<1>1. PICK d \in Nat : q = p + 1 + d
  <2>1. q - p - 1 \in Nat /\ q = p + 1 + (q - p - 1)
    OBVIOUS
  <2> QED
    BY <2>1
<1>2. m * d \in Nat
  BY Product
<1>3. m * q = m * p + m + m * d
  BY <1>1
<1> QED
  BY <1>2, <1>3

\* Whole parts and a rest below one part are unique.
LEMMA Parts ==
  ASSUME NEW m \in Nat \ {0}, NEW p \in Nat, NEW q \in Nat,
         NEW r \in 0 .. m - 1, NEW t \in 0 .. m - 1,
         m * p + r = m * q + t
  PROVE  p = q /\ r = t
<1>1. m * p \in Nat /\ m * q \in Nat
  BY Product
<1>2. ~(p < q)
  <2> SUFFICES ASSUME p < q PROVE FALSE
    OBVIOUS
  <2>1. m * p + m <= m * q
    BY Monotone
  <2> QED
    BY <1>1, <2>1
<1>3. ~(q < p)
  <2> SUFFICES ASSUME q < p PROVE FALSE
    OBVIOUS
  <2>1. m * q + m <= m * p
    BY Monotone
  <2> QED
    BY <1>1, <2>1
<1>4. p = q
  BY <1>2, <1>3
<1> QED
  BY <1>1, <1>4

\* What has these parts has them as its quotient and remainder.
LEMMA DivModIs ==
  ASSUME NEW a \in Nat, NEW m \in Nat \ {0}, NEW p \in Nat,
         NEW r \in 0 .. m - 1, a = m * p + r
  PROVE  a \div m = p /\ a % m = r
<1>1. /\ a \div m \in Nat /\ a % m \in 0 .. m - 1
      /\ a = m * (a \div m) + (a % m)
  BY DivMod
<1> QED
  BY <1>1, Parts

\* Quotient and remainder together say which number it was.
LEMMA DivModSame ==
  ASSUME NEW a \in Nat, NEW b \in Nat, NEW m \in Nat \ {0},
         a \div m = b \div m, a % m = b % m
  PROVE  a = b
<1>1. a = m * (a \div m) + (a % m) /\ b = m * (b \div m) + (b % m)
  BY DivMod
<1> QED
  BY <1>1

\* From the beginning of a part to its end nothing is carried over: the parts
\* of a unit that is a whole number of parts long.
NoCarry(part, n, k, j) ==
  /\ (part * k + j) \div (part * n) = (part * k) \div (part * n)
  /\ (part * k + j) % (part * n) = ((part * k) % (part * n)) + j
  /\ (part * k) % (part * n) = part * (k % n)

LEMMA StaysInside ==
  ASSUME NEW part \in Nat \ {0}, NEW n \in Nat \ {0}, NEW k \in Nat,
         NEW j \in 0 .. part - 1
  PROVE  NoCarry(part, n, k, j)
<1> DEFINE q == k \div n
           t == k % n
<1>1. q \in Nat /\ t \in 0 .. n - 1 /\ k = n * q + t
  BY DivMod
<1>2. part * n \in Nat \ {0}
  BY Product
<1>3. part * t \in Nat /\ part * t + part <= part * n
  BY <1>1, Product, Monotone
<1>4. part * k = (part * n) * q + part * t
  <2>1. part * k = part * (n * q) + part * t
    BY <1>1, Product
  <2>2. part * (n * q) = (part * n) * q
    BY <1>1
  <2> QED
    BY <2>1, <2>2
<1>5. part * k \in Nat /\ part * k + j \in Nat
  BY Product
<1>6. part * t \in 0 .. part * n - 1 /\ part * t + j \in 0 .. part * n - 1
  BY <1>2, <1>3
<1>7. (part * k) \div (part * n) = q /\ (part * k) % (part * n) = part * t
  <2> DEFINE m == part * n
             r == part * t
             x == part * k
  <2>1. m \in Nat \ {0} /\ r \in 0 .. m - 1 /\ x \in Nat /\ x = m * q + r
    BY <1>2, <1>4, <1>5, <1>6
  <2> HIDE DEF m, r, x, q
  <2>2. x \div m = q /\ x % m = r
    BY <1>1, <2>1, DivModIs
  <2> QED
    BY <2>2 DEF m, r, x
<1>8. part * k + j = (part * n) * q + (part * t + j)
  BY <1>1, <1>2, <1>3, <1>4, <1>5, Product
<1>9. (part * k + j) \div (part * n) = q
      /\ (part * k + j) % (part * n) = part * t + j
  BY <1>1, <1>2, <1>5, <1>6, <1>8, DivModIs
<1> QED
  BY <1>7, <1>9 DEF NoCarry

-----------------------------------------------------------------------------
(* The mappings lose and repeat no block *)

\* What is known of the fields of a layout.
Fields(l) ==
  /\ l.members \in Nat /\ l.stripe \in Nat /\ l.offset \in Nat

\* A valid layout has members, a stripe and an order without repetition.
LEMMA ValidFields ==
  ASSUME NEW l, Fields(l), ValidLayout(l)
  PROVE  /\ l.members \in Nat \ {0} /\ l.members >= 2
         /\ l.stripe \in Nat \ {0}
         /\ l.members - 1 \in Nat \ {0}
         /\ \A i \in 0 .. l.members - 1 : l.order[i] \in 0 .. l.members - 1
         /\ \A i, j \in 0 .. l.members - 1 :
              l.order[i] = l.order[j] => i = j
<1>1. l.members \in Nat /\ l.members >= 2
  BY DEF Fields, ValidLayout
<1>2. MinStripe \in Nat \ {0} /\ MaxStripe \in Nat
  BY StripesAssumption
<1>3. l.stripe \in MinStripe .. MaxStripe
  BY DEF ValidLayout, ValidStripe
<1>4. /\ DOMAIN l.order = 0 .. l.members - 1
      /\ \A i \in DOMAIN l.order : l.order[i] \in 0 .. l.members - 1
      /\ \A i, j \in DOMAIN l.order : l.order[i] = l.order[j] => i = j
  BY DEF ValidLayout, ValidOrder
<1>5. l.stripe \in Nat \ {0}
  BY <1>2, <1>3
<1>6. l.members \in Nat \ {0} /\ l.members - 1 \in Nat \ {0}
  BY <1>1
<1> QED
  BY <1>1, <1>4, <1>5, <1>6

\* A stripe number, its place among `width` columns and the offset in the
\* stripe: equal places and equal offsets in the member are the same block.
LEMMA StripedOnce ==
  ASSUME NEW s \in Nat \ {0}, NEW width \in Nat \ {0}, NEW base \in Nat,
         NEW x \in Nat, NEW y \in Nat,
         (x \div s) % width = (y \div s) % width,
         base + ((x \div s) \div width) * s + (x % s) =
           base + ((y \div s) \div width) * s + (y % s)
  PROVE  x = y
<1> DEFINE nx == x \div s
           ny == y \div s
           ix == nx \div width
           iy == ny \div width
<1>1. nx \in Nat /\ ny \in Nat /\ x % s \in 0 .. s - 1 /\ y % s \in 0 .. s - 1
  BY DivMod
<1>2. ix \in Nat /\ iy \in Nat
  BY <1>1, DivMod
<1> HIDE DEF ix, iy
<1>3. ix * s \in Nat /\ iy * s \in Nat /\ ix * s = s * ix /\ iy * s = s * iy
  BY <1>2, Product
<1>4. s * ix + (x % s) = s * iy + (y % s)
  BY <1>1, <1>3 DEF ix, iy
<1>5. ix = iy /\ x % s = y % s
  BY <1>1, <1>2, <1>4, Parts
<1>6. nx = ny
  BY <1>1, <1>5, DivModSame DEF ix, iy
<1> QED
  BY <1>5, <1>6, DivModSame

\* The row, the column and the offset in the stripe of a block of an array
\* with parity.
LEMMA RowParts ==
  ASSUME NEW l, Fields(l), ValidLayout(l), NEW x \in Nat
  PROVE  /\ RowSize(l) \in Nat \ {0}
         /\ Row(l, x) \in Nat
         /\ Column(l, x) \in 0 .. l.members - 2
         /\ (x % RowSize(l)) % l.stripe \in 0 .. l.stripe - 1
         /\ x = RowSize(l) * Row(l, x)
                + l.stripe * Column(l, x) + ((x % RowSize(l)) % l.stripe)
<1> DEFINE R == RowSize(l)
           r == x % R
           s == l.stripe
           w == l.members - 1
<1>1. s \in Nat \ {0} /\ w \in Nat \ {0}
  BY ValidFields
<1>2. R = s * w
  BY DEF RowSize
<1> HIDE DEF R, s, w
<1>3. R \in Nat \ {0}
  BY <1>1, <1>2, Product
<1>4. x \div R \in Nat /\ r \in 0 .. R - 1 /\ x = R * (x \div R) + r
  BY <1>3, DivMod
<1> HIDE DEF r
<1>nat. r \in Nat
  BY <1>3, <1>4
<1>5. r \in Nat /\ r \div s \in Nat /\ r % s \in 0 .. s - 1
      /\ r = s * (r \div s) + (r % s)
  BY <1>1, <1>nat, DivMod
<1>6. r \div s < w
  <2> SUFFICES ASSUME w <= r \div s PROVE FALSE
    BY <1>1, <1>5
  <2>1. s * w <= s * (r \div s)
    <3>1. CASE w = r \div s
      BY <1>1, <1>5, <3>1, Product
    <3>2. CASE w < r \div s
      <4>1. s * w + s <= s * (r \div s)
        BY <1>1, <1>5, <3>2, Monotone
      <4>2. s * w \in Nat /\ s * (r \div s) \in Nat
        BY <1>1, <1>5, Product
      <4> QED
        BY <1>1, <4>1, <4>2
    <3> QED
      BY <1>1, <1>5, <3>1, <3>2
  <2> QED
    BY <1>1, <1>2, <1>3, <1>4, <1>5, <2>1, Product
<1>8. Row(l, x) = x \div R /\ Column(l, x) = r \div s
  BY DEF R, r, s, Row, Column
<1>9. r \div s \in 0 .. l.members - 2
  BY <1>5, <1>6, ValidFields DEF w
<1>10. x = R * (x \div R) + s * (r \div s) + (r % s)
  BY <1>1, <1>3, <1>4, <1>5, Product
<1> QED
  BY <1>3, <1>4, <1>5, <1>8, <1>9, <1>10 DEF R, r, s

\* The offset in the member determines the row and the offset in the stripe.
LEMMA SameRow ==
  ASSUME NEW l, Fields(l), ValidLayout(l), NEW x \in Nat, NEW y \in Nat,
         RowOffset(l, x) = RowOffset(l, y)
  PROVE  /\ Row(l, x) = Row(l, y)
         /\ (x % RowSize(l)) % l.stripe = (y % RowSize(l)) % l.stripe
<1> DEFINE s == l.stripe
           ix == Row(l, x)
           iy == Row(l, y)
           rx == (x % RowSize(l)) % s
           ry == (y % RowSize(l)) % s
<1>1. /\ s \in Nat \ {0} /\ l.offset \in Nat /\ ix \in Nat /\ iy \in Nat
      /\ rx \in 0 .. s - 1 /\ ry \in 0 .. s - 1
  BY ValidFields, RowParts DEF Fields
<1>2. l.offset + ix * s + rx = l.offset + iy * s + ry
  BY DEF RowOffset
<1> HIDE DEF s, ix, iy, rx, ry
<1>3. ix * s \in Nat /\ iy * s \in Nat /\ ix * s = s * ix /\ iy * s = s * iy
  BY <1>1, Product
<1>4. s * ix + rx = s * iy + ry
  BY <1>1, <1>2, <1>3
<1>5. ix = iy /\ rx = ry
  BY <1>1, <1>4, Parts
<1> QED
  BY <1>5 DEF s, ix, iy, rx, ry

\* A sum of two numbers below m wraps around at most once.
LEMMA WrapsOnce ==
  ASSUME NEW m \in Nat \ {0}, NEW a \in 0 .. 2 * m - 1
  PROVE  a % m = IF a < m THEN a ELSE a - m
<1>1. CASE a < m
  <2>1. a \in Nat /\ a \in 0 .. m - 1 /\ a = m * 0 + a
    BY <1>1
  <2> QED
    BY <1>1, <2>1, DivModIs
<1>2. CASE ~(a < m)
  <2>1. a \in Nat /\ a - m \in 0 .. m - 1 /\ a = m * 1 + (a - m)
    BY <1>2
  <2>2. a % m = a - m
    BY <2>1, DivModIs
  <2> QED
    BY <1>2, <2>2
<1> QED
  BY <1>1, <1>2

\* Parity goes to one member of a row, and the data to the others, each column
\* to its own.
LEMMA Rotation ==
  ASSUME NEW l, Fields(l), ValidLayout(l), NEW row \in Nat
  PROVE  /\ ParityPosition(l, row) \in 0 .. l.members - 1
         /\ \A c \in 0 .. l.members - 2 :
              /\ DataPosition(l, row, c) \in 0 .. l.members - 1
              /\ DataPosition(l, row, c) # ParityPosition(l, row)
         /\ \A c, d \in 0 .. l.members - 2 :
              DataPosition(l, row, c) = DataPosition(l, row, d) => c = d
<1> DEFINE m == l.members
           p == ParityPosition(l, row)
<1>1. m \in Nat \ {0}
  BY ValidFields
<1>2. p \in 0 .. m - 1
  <2>1. row % m \in 0 .. m - 1
    BY <1>1, DivMod
  <2>2. m - 1 - (row % m) \in Nat
    BY <1>1, <2>1
  <2>3. (m - 1 - (row % m)) % m \in 0 .. m - 1
    BY <1>1, <2>2, DivMod
  <2> QED
    BY <2>1, <2>3 DEF ParityPosition
<1> HIDE DEF m, p
<1>3. \A c \in 0 .. m - 2 :
        DataPosition(l, row, c) = IF p + 1 + c < m THEN p + 1 + c
                                                   ELSE p + 1 + c - m
  <2> SUFFICES ASSUME NEW c \in 0 .. m - 2
               PROVE  (p + 1 + c) % m = IF p + 1 + c < m THEN p + 1 + c
                                                         ELSE p + 1 + c - m
    BY DEF DataPosition, m, p
  <2> DEFINE a == p + 1 + c
  <2>1. a \in 0 .. 2 * m - 1
    BY <1>1, <1>2
  <2> HIDE DEF a
  <2>2. a % m = IF a < m THEN a ELSE a - m
    BY <1>1, <2>1, WrapsOnce
  <2> QED
    BY <1>1, <1>2, <2>2 DEF a
<1>4. \A c \in 0 .. m - 2 :
        DataPosition(l, row, c) \in 0 .. m - 1 /\ DataPosition(l, row, c) # p
  BY <1>1, <1>2, <1>3
<1>5. \A c, d \in 0 .. m - 2 :
        DataPosition(l, row, c) = DataPosition(l, row, d) => c = d
  BY <1>1, <1>2, <1>3
<1> QED
  BY <1>2, <1>4, <1>5 DEF m, p

\* A RAID 10 has a first and a second of each pair.
LEMMA Pairs ==
  ASSUME NEW l, Fields(l), ValidLayout(l), NEW n \in Nat
  PROVE  /\ l.members \div 2 \in Nat \ {0}
         /\ n % (l.members \div 2) \in Nat
         /\ 2 * (n % (l.members \div 2)) + 1 \in 0 .. l.members - 1
<1> DEFINE m == l.members
           h == m \div 2
<1>1. m \in Nat /\ m >= 2
  BY ValidFields
<1>2. h \in Nat \ {0} /\ 2 * h <= m
  BY <1>1
<1> HIDE DEF h
<1>3. n % h \in 0 .. h - 1
  BY <1>2, DivMod
<1>4. 2 * (n % h) + 1 \in 0 .. m - 1
  BY <1>1, <1>2, <1>3
<1> QED
  BY <1>2, <1>3, <1>4 DEF h

\* map_logical_offset never sends two blocks of the array to the same block of
\* the same member, for any stripe, order and number of members.
THEOREM MappingIsInjective ==
  ASSUME NEW l, Fields(l), ValidLayout(l), MappableLevel(l),
         NEW x \in Nat, NEW y \in Nat,
         MapOffset(l, x).member = MapOffset(l, y).member,
         MapOffset(l, x).offset = MapOffset(l, y).offset
  PROVE  x = y
<1> DEFINE s == l.stripe
           m == l.members
<1>1. /\ s \in Nat \ {0} /\ m \in Nat \ {0} /\ m >= 2 /\ l.offset \in Nat
      /\ \A i, j \in 0 .. m - 1 : l.order[i] = l.order[j] => i = j
  BY ValidFields DEF Fields
<1>2. x \div s \in Nat /\ y \div s \in Nat
  BY <1>1, DivMod
<1>3. CASE l.level = "Raid0"
  <2>1. (x \div s) % m \in 0 .. m - 1 /\ (y \div s) % m \in 0 .. m - 1
    BY <1>1, <1>2, DivMod
  <2>2. /\ l.order[(x \div s) % m] = l.order[(y \div s) % m]
        /\ l.offset + ((x \div s) \div m) * s + (x % s) =
             l.offset + ((y \div s) \div m) * s + (y % s)
    BY <1>3 DEF MapOffset, MapRaid0
  <2>3. (x \div s) % m = (y \div s) % m
    BY <1>1, <2>1, <2>2
  <2> QED
    BY <1>1, <2>2, <2>3, StripedOnce
<1>4. CASE l.level = "Raid1"
  <2>1. l.offset + x = l.offset + y
    BY <1>4 DEF MapOffset, MapRaid1
  <2> QED
    BY <1>1, <2>1
<1>5. CASE l.level \in {"Raid4", "Raid5"}
  <2>1. RowOffset(l, x) = RowOffset(l, y)
    BY <1>5 DEF MapOffset, MapRaid4, MapRaid5
  <2>2. /\ Row(l, x) = Row(l, y)
        /\ (x % RowSize(l)) % s = (y % RowSize(l)) % s
    BY <2>1, SameRow
  <2>3. /\ Column(l, x) \in 0 .. m - 2 /\ Column(l, y) \in 0 .. m - 2
        /\ Row(l, x) \in Nat
        /\ x = RowSize(l) * Row(l, x) + s * Column(l, x)
               + ((x % RowSize(l)) % s)
        /\ y = RowSize(l) * Row(l, y) + s * Column(l, y)
               + ((y % RowSize(l)) % s)
    BY RowParts
  <2>4. Column(l, x) = Column(l, y)
    <3>1. CASE l.level = "Raid4"
      <4>1. l.order[Column(l, x)] = l.order[Column(l, y)]
        BY <3>1 DEF MapOffset, MapRaid4
      <4> QED
        BY <1>1, <2>3, <4>1
    <3>2. CASE l.level = "Raid5"
      <4>1. l.order[DataPosition(l, Row(l, x), Column(l, x))] =
              l.order[DataPosition(l, Row(l, y), Column(l, y))]
        BY <3>2 DEF MapOffset, MapRaid5
      <4>2. /\ DataPosition(l, Row(l, x), Column(l, x)) \in 0 .. m - 1
            /\ DataPosition(l, Row(l, x), Column(l, y)) \in 0 .. m - 1
        BY <2>3, Rotation
      <4>3. DataPosition(l, Row(l, x), Column(l, x)) =
              DataPosition(l, Row(l, x), Column(l, y))
        BY <1>1, <2>2, <4>1, <4>2
      <4> QED
        BY <2>3, <4>3, Rotation
    <3> QED
      BY <1>5, <3>1, <3>2
  <2> QED
    BY <2>2, <2>3, <2>4
<1>6. CASE l.level = "Raid10"
  <2> DEFINE h == m \div 2
             nx == (x \div s) % h
             ny == (y \div s) % h
  <2>1. /\ h \in Nat \ {0} /\ nx \in Nat /\ ny \in Nat
        /\ 2 * nx + 1 \in 0 .. m - 1 /\ 2 * ny + 1 \in 0 .. m - 1
    BY <1>2, Pairs
  <2>2. /\ l.order[2 * nx] = l.order[2 * ny]
        /\ l.offset + ((x \div s) \div h) * s + (x % s) =
             l.offset + ((y \div s) \div h) * s + (y % s)
    BY <1>6 DEF MapOffset, MapRaid10
  <2>3. nx = ny
    <3> HIDE DEF nx, ny
    <3>1. 2 * nx \in 0 .. m - 1 /\ 2 * ny \in 0 .. m - 1
      BY <1>1, <2>1
    <3>2. 2 * nx = 2 * ny
      BY <1>1, <2>2, <3>1
    <3> QED
      BY <2>1, <3>2
  <2>4. (x \div s) % h = (y \div s) % h
    BY <2>3
  <2>5. s \in Nat \ {0} /\ h \in Nat \ {0} /\ l.offset \in Nat
    BY <1>1, <2>1 DEF Fields
  <2> HIDE DEF s, h, nx, ny
  <2> QED
    BY <2>2, <2>4, <2>5, StripedOnce, Zenon
<1> QED
  BY <1>3, <1>4, <1>5, <1>6 DEF MappableLevel

\* No block of data is where the parity, or the mirror, of any block is.
THEOREM ParityHoldsNoData ==
  ASSUME NEW l, Fields(l), ValidLayout(l), MappableLevel(l),
         l.level \in {"Raid4", "Raid5", "Raid10"},
         NEW x \in Nat, NEW y \in Nat,
         MapOffset(l, x).offset = MapOffset(l, y).offset
  PROVE  MapOffset(l, x).member # MapOffset(l, y).parity
<1> DEFINE s == l.stripe
           m == l.members
<1>1. /\ s \in Nat \ {0} /\ m \in Nat \ {0} /\ m >= 2
      /\ \A i, j \in 0 .. m - 1 : l.order[i] = l.order[j] => i = j
  BY ValidFields
<1>2. CASE l.level = "Raid4"
  <2>1. Column(l, x) \in 0 .. m - 2
    BY RowParts
  <2>2. l.order[Column(l, x)] # l.order[m - 1]
    BY <1>1, <2>1
  <2> QED
    BY <1>2, <2>2 DEF MapOffset, MapRaid4
<1>3. CASE l.level = "Raid5"
  <2>1. RowOffset(l, x) = RowOffset(l, y)
    BY <1>3 DEF MapOffset, MapRaid5
  <2>2. Row(l, x) = Row(l, y) /\ Row(l, x) \in Nat
    BY <2>1, SameRow, RowParts
  <2>3. Column(l, x) \in 0 .. m - 2
    BY RowParts
  <2>4. l.order[DataPosition(l, Row(l, x), Column(l, x))] #
          l.order[ParityPosition(l, Row(l, x))]
    BY <1>1, <2>2, <2>3, Rotation
  <2> QED
    BY <1>3, <2>2, <2>4 DEF MapOffset, MapRaid5
<1>4. CASE l.level = "Raid10"
  <2> DEFINE h == m \div 2
             nx == (x \div s) % h
             ny == (y \div s) % h
  <2>1. x \div s \in Nat /\ y \div s \in Nat
    BY <1>1, DivMod
  <2>2. /\ nx \in Nat /\ ny \in Nat
        /\ 2 * nx + 1 \in 0 .. m - 1 /\ 2 * ny + 1 \in 0 .. m - 1
    BY <2>1, Pairs
  <2>3. l.order[2 * nx] # l.order[2 * ny + 1]
    <3> HIDE DEF nx, ny
    <3>1. 2 * nx \in 0 .. m - 1 /\ 2 * nx # 2 * ny + 1
      BY <1>1, <2>2
    <3> QED
      BY <1>1, <2>2, <3>1
  <2> QED
    BY <1>4, <2>3 DEF MapOffset, MapRaid10
<1> QED
  BY <1>2, <1>3, <1>4

\* A stripe is a whole number of chunks.
LEMMA ChunksOfStripe ==
  ASSUME NEW l, Fields(l), ValidLayout(l)
  PROVE  /\ ChunkSize(l) \in Nat \ {0}
         /\ \E n \in Nat \ {0} : l.stripe = ChunkSize(l) * n
<1> DEFINE s == l.stripe
<1>1. /\ MinStripe \in Nat \ {0} /\ MaxStripe \in Nat /\ MaxChunk \in Nat
      /\ MinStripe <= MaxChunk
      /\ \A t \in MaxChunk .. MaxStripe : IsPowerOfTwo(t) => t % MaxChunk = 0
  BY StripesAssumption
<1>2. s \in MinStripe .. MaxStripe /\ IsPowerOfTwo(s)
  BY DEF ValidLayout, ValidStripe
<1> HIDE DEF s
<1>3. CASE s <= MaxChunk
  <2>1. ChunkSize(l) = s
    BY <1>1, <1>2, <1>3 DEF ChunkSize, Smaller, Larger, s
  <2>2. s \in Nat \ {0} /\ s = s * 1
    BY <1>1, <1>2
  <2> QED
    BY <2>1, <2>2 DEF s
<1>4. CASE ~(s <= MaxChunk)
  <2>1. ChunkSize(l) = MaxChunk
    BY <1>1, <1>2, <1>4 DEF ChunkSize, Smaller, Larger, s
  <2>2. s \in Nat /\ MaxChunk \in Nat \ {0} /\ s % MaxChunk = 0
    BY <1>1, <1>2, <1>4
  <2>3. /\ s \div MaxChunk \in Nat
        /\ s = MaxChunk * (s \div MaxChunk) + (s % MaxChunk)
    BY <2>2, DivMod
  <2> DEFINE n == s \div MaxChunk
  <2>4. s = MaxChunk * n
    <3> HIDE DEF n
    <3>1. s = MaxChunk * n + 0 /\ n \in Nat /\ MaxChunk * n \in Nat
      BY <2>2, <2>3, Product DEF n
    <3> QED
      BY <3>1
  <2>5. n # 0
    <3> HIDE DEF n
    <3> QED
      BY <1>1, <1>4, <2>2, <2>4
  <2> QED
    BY <2>1, <2>2, <2>3, <2>4, <2>5 DEF s
<1> QED
  BY <1>3, <1>4

\* Every chunk the assembly reads lies in one stripe of one member: within a
\* chunk the offset just counts on, so one mapping per chunk is enough.
THEOREM ChunkIsContiguous ==
  ASSUME NEW l, Fields(l), ValidLayout(l), MappableLevel(l),
         NEW k \in Nat, NEW j \in 0 .. ChunkSize(l) - 1
  PROVE  /\ MapOffset(l, ChunkSize(l) * k + j).member =
              MapOffset(l, ChunkSize(l) * k).member
         /\ MapOffset(l, ChunkSize(l) * k + j).offset =
              MapOffset(l, ChunkSize(l) * k).offset + j
<1> DEFINE c == ChunkSize(l)
           s == l.stripe
           m == l.members
           x == c * k
<1>1. PICK n \in Nat \ {0} : s = c * n
  BY ChunksOfStripe
<1>2. /\ c \in Nat \ {0} /\ s \in Nat \ {0}
      /\ m - 1 \in Nat \ {0} /\ m \in Nat \ {0} /\ l.offset \in Nat
  BY ChunksOfStripe, ValidFields DEF Fields
<1>3. /\ (x + j) \div s = x \div s
      /\ (x + j) % s = (x % s) + j
  <2> HIDE DEF c, s
  <2>1. /\ (c * k + j) \div (c * n) = (c * k) \div (c * n)
        /\ (c * k + j) % (c * n) = ((c * k) % (c * n)) + j
    <3>1. j \in 0 .. c - 1
      BY DEF c
    <3>2. NoCarry(c, n, k, j)
      BY <1>2, <3>1, StaysInside
    <3> QED
      BY <3>2 DEF NoCarry
  <2> QED
    BY <1>1, <2>1
<1>4. x \in Nat /\ x + j \in Nat /\ j \in Nat
  BY <1>2, Product
<1>5. x \div s \in Nat /\ x % s \in Nat
  <2> HIDE DEF x, s
  <2>1. x % s \in 0 .. s - 1 /\ x \div s \in Nat
    BY <1>2, <1>4, DivMod
  <2> QED
    BY <1>2, <2>1
<1>6. CASE l.level = "Raid0"
  <2> DEFINE b == l.offset + ((x \div s) \div m) * s
  <2>1. b \in Nat
    <3>1. (x \div s) \div m \in Nat
      BY <1>2, <1>5, DivMod
    <3>2. ((x \div s) \div m) * s \in Nat
      BY <1>2, <3>1, Product
    <3> QED
      BY <1>2, <3>2
  <2>2. MapOffset(l, x + j).offset = b + ((x % s) + j)
    BY <1>3, <1>6 DEF MapOffset, MapRaid0
  <2>3. MapOffset(l, x).offset = b + (x % s)
    BY <1>6 DEF MapOffset, MapRaid0
  <2>4. MapOffset(l, x + j).member = MapOffset(l, x).member
    BY <1>3, <1>6 DEF MapOffset, MapRaid0
  <2> HIDE DEF b, x, s
  <2>5. b + ((x % s) + j) = b + (x % s) + j
    BY <1>4, <1>5, <2>1
  <2> QED
    BY <2>2, <2>3, <2>4, <2>5 DEF x
<1>7. CASE l.level = "Raid1"
  <2>1. l.offset + (x + j) = l.offset + x + j
    BY <1>2, <1>4
  <2> QED
    BY <1>7, <2>1 DEF MapOffset, MapRaid1
<1>8. CASE l.level = "Raid10"
  <2> DEFINE h == m \div 2
             b == l.offset + ((x \div s) \div h) * s
  <2>1. b \in Nat
    <3>1. h \in Nat \ {0}
      BY Pairs
    <3>2. (x \div s) \div h \in Nat
      BY <1>5, <3>1, DivMod
    <3>3. ((x \div s) \div h) * s \in Nat
      BY <1>2, <3>2, Product
    <3> QED
      BY <1>2, <3>3
  <2>2. MapOffset(l, x + j).offset = b + ((x % s) + j)
    BY <1>3, <1>8 DEF MapOffset, MapRaid10
  <2>3. MapOffset(l, x).offset = b + (x % s)
    BY <1>8 DEF MapOffset, MapRaid10
  <2>4. MapOffset(l, x + j).member = MapOffset(l, x).member
    BY <1>3, <1>8 DEF MapOffset, MapRaid10
  <2> HIDE DEF b, x, s
  <2>5. b + ((x % s) + j) = b + (x % s) + j
    BY <1>4, <1>5, <2>1
  <2> QED
    BY <2>2, <2>3, <2>4, <2>5 DEF x
<1>9. CASE l.level \in {"Raid4", "Raid5"}
  <2> DEFINE R == RowSize(l)
             w == n * (m - 1)
             t == k % w
             r == x % R
  <2>1. w \in Nat \ {0}
    BY <1>2, Product
  <2>2. R = c * w
    <3>1. R = (c * n) * (m - 1)
      BY <1>1 DEF RowSize
    <3>2. (c * n) * (m - 1) = c * w
      <4> HIDE DEF c, m
      <4> QED
        BY <1>2
    <3> QED
      BY <3>1, <3>2
  <2>3. /\ (x + j) \div R = x \div R
        /\ (x + j) % R = r + j
        /\ r = c * t
    <3> HIDE DEF w, R, c
    <3>1. j \in 0 .. c - 1
      BY DEF c
    <3>2. /\ (c * k + j) \div (c * w) = (c * k) \div (c * w)
          /\ (c * k + j) % (c * w) = ((c * k) % (c * w)) + j
          /\ (c * k) % (c * w) = c * (k % w)
      <4>1. NoCarry(c, w, k, j)
        BY <1>2, <2>1, <3>1, StaysInside
      <4> QED
        BY <4>1 DEF NoCarry
    <3> QED
      BY <2>2, <3>2
  <2>4. t \in Nat
    <3> HIDE DEF w
    <3>1. k % w \in 0 .. w - 1
      BY <2>1, DivMod
    <3> QED
      BY <2>1, <3>1
  <2>5. (r + j) \div s = r \div s /\ (r + j) % s = (r % s) + j
    <3> HIDE DEF c, s, t, r
    <3>1. j \in 0 .. c - 1
      BY DEF c
    <3>2. /\ (c * t + j) \div (c * n) = (c * t) \div (c * n)
          /\ (c * t + j) % (c * n) = ((c * t) % (c * n)) + j
      <4>1. NoCarry(c, n, t, j)
        BY <1>2, <2>4, <3>1, StaysInside
      <4> QED
        BY <4>1 DEF NoCarry
    <3> QED
      BY <1>1, <2>3, <3>2
  <2>6. Row(l, x + j) = Row(l, x) /\ Column(l, x + j) = Column(l, x)
    BY <2>3, <2>5 DEF Row, Column
  <2>7. RowOffset(l, x + j) = RowOffset(l, x) + j
    <3> DEFINE b == l.offset + Row(l, x) * s
    <3>1. b \in Nat /\ (x % R) % s \in Nat
      <4>1. Row(l, x) \in Nat /\ (x % R) % s \in Nat
        BY <1>2, <1>4, RowParts
      <4>2. Row(l, x) * s \in Nat
        BY <1>2, <4>1, Product
      <4> QED
        BY <1>2, <4>1, <4>2
    <3>2. RowOffset(l, x + j) = b + (((x % R) % s) + j)
      BY <2>3, <2>5, <2>6 DEF RowOffset
    <3>3. RowOffset(l, x) = b + ((x % R) % s)
      BY DEF RowOffset
    <3> HIDE DEF b, x, R, s
    <3> QED
      BY <1>4, <3>1, <3>2, <3>3
  <2> QED
    BY <1>9, <2>6, <2>7 DEF MapOffset, MapRaid4, MapRaid5
<1> QED
  BY <1>6, <1>7, <1>8, <1>9 DEF MappableLevel

\* A mapping names a member and an offset.
LEMMA MapType ==
  ASSUME NEW l, Fields(l), ValidLayout(l), MappableLevel(l), NEW x \in Nat
  PROVE  /\ MapOffset(l, x).member \in 0 .. l.members - 1
         /\ MapOffset(l, x).offset \in Nat
<1> DEFINE s == l.stripe
           m == l.members
<1>1. /\ s \in Nat \ {0} /\ m \in Nat \ {0} /\ m >= 2 /\ l.offset \in Nat
      /\ \A i \in 0 .. m - 1 : l.order[i] \in 0 .. m - 1
  BY ValidFields DEF Fields
<1>2. x \div s \in Nat /\ x % s \in Nat
  <2>1. x % s \in 0 .. s - 1 /\ x \div s \in Nat
    BY <1>1, DivMod
  <2> QED
    BY <1>1, <2>1
<1>3. ASSUME NEW i \in Nat
      PROVE  l.offset + i * s + (x % s) \in Nat
  <2>1. i * s \in Nat
    BY <1>1, Product
  <2> QED
    BY <1>1, <1>2, <2>1
<1>4. CASE l.level = "Raid0"
  <2>1. (x \div s) % m \in 0 .. m - 1 /\ (x \div s) \div m \in Nat
    BY <1>1, <1>2, DivMod
  <2>2. l.order[(x \div s) % m] \in 0 .. m - 1
    BY <1>1, <2>1
  <2>3. l.offset + ((x \div s) \div m) * s + (x % s) \in Nat
    BY <1>3, <2>1
  <2> QED
    BY <1>4, <2>2, <2>3 DEF MapOffset, MapRaid0
<1>5. CASE l.level = "Raid1"
  <2>1. l.order[0] \in 0 .. m - 1 /\ l.offset + x \in Nat
    BY <1>1
  <2> QED
    BY <1>5, <2>1 DEF MapOffset, MapRaid1
<1>6. CASE l.level = "Raid10"
  <2> DEFINE h == m \div 2
             n == (x \div s) % h
  <2>1. h \in Nat \ {0} /\ n \in Nat /\ 2 * n + 1 \in 0 .. m - 1
    BY <1>2, Pairs
  <2>2. (x \div s) \div h \in Nat
    BY <1>2, <2>1, DivMod
  <2>3. l.order[2 * n] \in 0 .. m - 1
    <3> HIDE DEF n
    <3>1. 2 * n \in 0 .. m - 1
      BY <1>1, <2>1
    <3> QED
      BY <1>1, <3>1
  <2>4. l.offset + ((x \div s) \div h) * s + (x % s) \in Nat
    BY <1>3, <2>2
  <2> QED
    BY <1>6, <2>3, <2>4 DEF MapOffset, MapRaid10
<1>7. CASE l.level \in {"Raid4", "Raid5"}
  <2>1. /\ Row(l, x) \in Nat /\ Column(l, x) \in 0 .. m - 2
        /\ (x % RowSize(l)) % s \in 0 .. s - 1
    BY RowParts
  <2>2. RowOffset(l, x) \in Nat
    <3>1. Row(l, x) * s \in Nat
      BY <1>1, <2>1, Product
    <3> QED
      BY <1>1, <2>1, <3>1 DEF RowOffset
  <2>3. l.order[Column(l, x)] \in 0 .. m - 1
    BY <1>1, <2>1
  <2>4. l.order[DataPosition(l, Row(l, x), Column(l, x))] \in 0 .. m - 1
    BY <1>1, <2>1, Rotation
  <2> QED
    BY <1>7, <2>2, <2>3, <2>4 DEF MapOffset, MapRaid4, MapRaid5
<1> QED
  BY <1>4, <1>5, <1>6, <1>7 DEF MappableLevel

-----------------------------------------------------------------------------
(* The size of the array *)

\* A set of naturals has a least element.
LEMMA Least ==
  ASSUME NEW T, T \subseteq Nat, T # {}
  PROVE  \E t \in T : \A u \in T : t <= u
<1>1. IsWellFoundedOn(OpToRel(<, Nat), Nat)
  BY NatLessThanWellFounded
<1>2. PICK t \in T : \A u \in T : ~ (<<u, t>> \in OpToRel(<, Nat))
  BY <1>1, WFMin
<1>3. \A u \in T : ~ (u < t)
  BY <1>2 DEF OpToRel
<1> QED
  BY <1>3

\* What the smallest member holds behind the data offset is a number of blocks.
LEMMA UsableType ==
  ASSUME NEW l, Fields(l), NEW f,
         NEW n \in Nat \ {0}, f \in [0 .. n - 1 -> Nat], Sizeable(l, f)
  PROVE  Usable(l, f) \in Nat
<1> DEFINE T == {f[i] : i \in DOMAIN f}
<1>1. T \subseteq Nat /\ T # {}
  <2>1. 0 \in DOMAIN f
    OBVIOUS
  <2> QED
    BY <2>1
<1>2. \E t \in T : \A u \in T : t <= u
  BY <1>1, Least
<1>3. \E i \in DOMAIN f : \A j \in DOMAIN f : f[i] <= f[j]
  BY <1>2
<1> DEFINE k == CHOOSE i \in DOMAIN f : \A j \in DOMAIN f : f[i] <= f[j]
<1>4. k \in DOMAIN f
  BY <1>3
<1>5. Usable(l, f) = f[k] - l.offset
  BY DEF Usable
<1> HIDE DEF k
<1>6. l.offset <= f[k]
  BY <1>4 DEF Sizeable
<1> QED
  BY <1>4, <1>5, <1>6 DEF Fields

\* The array's size is a number of blocks.
LEMMA SizeType ==
  ASSUME NEW l, Fields(l), l.stripe # 0, NEW f,
         NEW n \in Nat \ {0}, f \in [0 .. n - 1 -> Nat], Sizeable(l, f)
  PROVE  LogicalSize(l, f) \in Nat
<1>6. Usable(l, f) \in Nat
  BY UsableType
<1>7. CASE l.level = "Raid1"
  BY <1>6, <1>7 DEF LogicalSize
<1>8. CASE l.level # "Raid1"
  <2> DEFINE u == Usable(l, f)
             s == l.stripe
  <2>1. u - (u % s) \in Nat
    <3> HIDE DEF u, s
    <3>1. /\ u % s \in 0 .. s - 1 /\ u \div s \in Nat
          /\ u = s * (u \div s) + (u % s)
      BY <1>6, DivMod DEF Fields, u, s
    <3>2. s * (u \div s) \in Nat
      BY <3>1, Product DEF Fields, s
    <3> QED
      BY <1>6, <3>1, <3>2 DEF u
  <2>2. DataMembers(l) \in Nat
    BY <1>8 DEF DataMembers, Sizeable, Fields
  <2> QED
    BY <1>8, <2>1, <2>2, Product DEF LogicalSize
<1> QED
  BY <1>7, <1>8

-----------------------------------------------------------------------------
(* The assembly *)

Request == [supers |-> supers, sizes |-> sizes, override |-> override]

\* A layout that was accepted.
LayoutSound ==
  pc \in {"measure", "copy", "done", "assessed"} =>
    layout.stripe # 0 /\ layout.members = Count

\* What has been copied follows the mapping and ends at the end of a chunk.
OutputSound ==
  /\ pc \in {"detect", "measure"} => output = <<>>
  /\ pc = "copy" => Len(output) <= logicalSize
  /\ pc \in {"copy", "done", "assessed"} =>
       /\ Len(output) = logicalSize
          \/ \E k \in Nat : Len(output) = ChunkSize(layout) * k
       /\ Len(output) > 0 => ValidLayout(layout) /\ MappableLevel(layout)
       /\ \A i \in 1 .. Len(output) :
            output[i] = <<MapOffset(layout, i - 1).member,
                          MapOffset(layout, i - 1).offset>>
  /\ Assembled => Len(output) = logicalSize

IInv == IsRequest(Request) /\ TypeOK /\ LayoutSound /\ OutputSound

\* The members are numbered from zero.
LEMMA MembersAre ==
  ASSUME IsRequest(Request)
  PROVE  \E n \in 2 .. 32 :
           /\ Members = 0 .. n - 1 /\ Count = n
           /\ sizes \in [0 .. n - 1 -> 0 .. Limit]
           /\ supers \in [0 .. n - 1 -> Superblock \cup {NoMetadata}]
<1> DEFINE n == Cardinality(DOMAIN sizes)
<1>1. /\ n \in 2 .. 32
      /\ sizes \in [0 .. n - 1 -> 0 .. Limit]
      /\ supers \in [0 .. n - 1 -> Superblock \cup {NoMetadata}]
  BY DEF IsRequest, Request
<1>2. Members = 0 .. n - 1 /\ Count = n
  BY <1>1 DEF Members, Count
<1> QED
  BY <1>1, <1>2

\* The first layout found is that of a member's superblock.
LEMMA FirstSpeaks ==
  ASSUME IsRequest(Request), Speaking # {}
  PROVE  FirstSpeaking \in Speaking /\ supers[FirstSpeaking] \in Superblock
<1>1. PICK n \in 2 .. 32 :
        /\ Members = 0 .. n - 1
        /\ supers \in [0 .. n - 1 -> Superblock \cup {NoMetadata}]
  BY MembersAre
<1>2. Speaking \subseteq Nat
  BY <1>1 DEF Speaking
<1>3. \E i \in Speaking : \A j \in Speaking : i <= j
  BY <1>2, Least
<1>4. FirstSpeaking \in Speaking
  BY <1>3 DEF FirstSpeaking
<1>5. supers[FirstSpeaking] # NoMetadata /\ FirstSpeaking \in 0 .. n - 1
  BY <1>1, <1>4 DEF Speaking
<1> QED
  BY <1>1, <1>4, <1>5

\* A layout that is accepted has the members that were passed in.
LEMMA FoundType ==
  ASSUME IsRequest(Request), DetectStatus = 0
  PROVE  FoundLayout \in Layout /\ FoundLayout.stripe # 0
         /\ FoundLayout.members = Count
<1> DEFINE sb == supers[FirstSpeaking]
           o == override
<1>1. /\ Speaking # {} /\ sb.members = Count
      /\ OverrideAccepted(o, sb.members)
  BY DEF DetectStatus
<1>2. sb \in Superblock
  BY <1>1, FirstSpeaks
<1>3. PICK n \in 2 .. 32 : Members = 0 .. n - 1 /\ Count = n
  BY MembersAre
<1>4. /\ MinStripe \in Nat \ {0} /\ MaxStripe \in Nat
      /\ DefaultStripe \in MinStripe .. MaxStripe
  BY StripesAssumption
<1>5. \A t : ValidStripe(t) => t \in Nat \ {0}
  BY <1>4 DEF ValidStripe
<1>6. NormalizeStripe(sb.chunk) \in Nat \ {0}
  BY <1>4, <1>5 DEF NormalizeStripe
<1>7. /\ sb.level \in Levels /\ sb.offset \in Nat /\ sb.rotation \in Rotations
      /\ sb.members \in Nat
  BY <1>2 DEF Superblock
<1>8. /\ "level" \in DOMAIN o => o.level \in Levels
      /\ "stripe" \in DOMAIN o => o.stripe \in Nat \ {0}
      /\ "offset" \in DOMAIN o => o.offset \in Nat
      /\ "rotation" \in DOMAIN o => o.rotation \in Rotations
      /\ "order" \in DOMAIN o => o.order \in [Members -> Members]
  <2>1. /\ "level" \in DOMAIN o => o.level \in Levels
        /\ "offset" \in DOMAIN o => o.offset \in Nat
        /\ "rotation" \in DOMAIN o => o.rotation \in Rotations
        /\ "order" \in DOMAIN o =>
             \E k \in 0 .. Limit : o.order \in [0 .. k - 1 -> Nat]
    BY DEF IsRequest, Request
  <2>2. "stripe" \in DOMAIN o => o.stripe \in Nat \ {0}
    BY <1>1, <1>5 DEF OverrideAccepted
  <2>3. ASSUME "order" \in DOMAIN o PROVE o.order \in [Members -> Members]
    <3>1. PICK k \in 0 .. Limit : o.order \in [0 .. k - 1 -> Nat]
      BY <2>1, <2>3
    <3>2. ValidOrder(o.order, n)
      BY <1>1, <1>3, <2>3 DEF OverrideAccepted
    <3>3. /\ DOMAIN o.order = 0 .. n - 1
          /\ \A i \in 0 .. n - 1 : o.order[i] \in 0 .. n - 1
      BY <3>2 DEF ValidOrder
    <3> QED
      BY <1>3, <3>1, <3>3
  <2> QED
    BY <2>1, <2>2, <2>3
<1>9. IdentityOrder(sb.members) \in [Members -> Members]
  BY <1>1, <1>3 DEF IdentityOrder
<1>10. /\ FoundLayout.level \in Levels /\ FoundLayout.members = Count
       /\ FoundLayout.stripe \in Nat \ {0} /\ FoundLayout.offset \in Nat
       /\ FoundLayout.rotation \in Rotations
       /\ FoundLayout.order \in [Members -> Members]
  BY <1>1, <1>6, <1>7, <1>8, <1>9 DEF FoundLayout, Overridden, Detected
<1>11. FoundLayout \in Layout
  BY <1>1, <1>7, <1>10 DEF Layout, FoundLayout, Overridden
<1> QED
  BY <1>10, <1>11

\* An accepted layout has its fields.
LEMMA LayoutFields ==
  ASSUME TypeOK, pc \in {"measure", "copy", "done", "assessed"}
  PROVE  layout \in Layout /\ Fields(layout)
BY DEF TypeOK, Layout, Fields

\* A function on 1 .. n is a sequence of length n.
LEMMA FunctionIsSeq ==
  ASSUME NEW n \in Nat, NEW S, NEW f \in [1 .. n -> S]
  PROVE  f \in Seq(S) /\ Len(f) = n
<1>1. f \in Seq(S)
  BY SeqDef
<1>2. Len(f) \in Nat /\ DOMAIN f = 1 .. Len(f)
  BY <1>1, LenProperties
<1>3. 1 .. n = 1 .. Len(f)
  BY <1>2
<1> QED
  BY <1>1, <1>2, <1>3

\* A call begins with a sound request and nothing copied.
LEMMA InitIInv == Init => IInv
<1> SUFFICES ASSUME Init PROVE IInv
  OBVIOUS
<1>1. IsRequest(Request)
  <2>1. PICK r \in Requests :
          supers = r.supers /\ sizes = r.sizes /\ override = r.override
    BY DEF Init
  <2>2. IsRequest(r)
    BY <2>1, RequestsAssumption
  <2> QED
    BY <2>1, <2>2 DEF IsRequest, Request
<1>2. pc = "detect" /\ output = <<>> /\ logicalSize = 0
  BY DEF Init
<1>3. TypeOK
  BY <1>2 DEF Init, TypeOK
<1> QED
  BY <1>1, <1>2, <1>3 DEF IInv, LayoutSound, OutputSound, Assembled

\* A call that fails keeps nothing of the artifact.
LEMMA FailStep ==
  ASSUME IInv, NEW code \in {31, 44, 140, 141, 142}, Fail(code)
  PROVE  IInv'
<1>1. /\ pc' = "failed" /\ status' = code /\ output' = <<>>
      /\ layout' = layout /\ logicalSize' = logicalSize
      /\ supers' = supers /\ sizes' = sizes /\ override' = override
      /\ missing' = missing /\ samples' = samples /\ recoverable' = recoverable
  BY DEF Fail, requestVars, assessmentVars
<1>2. IsRequest(Request)'
  BY <1>1 DEF IInv, IsRequest, Request
<1>3. TypeOK'
  BY <1>1 DEF IInv, TypeOK, Members
<1> QED
  BY <1>1, <1>2, <1>3 DEF IInv, LayoutSound, OutputSound, Assembled

\* The next chunk, all of it in one stripe, is where the mapping says.
LEMMA CopyStep ==
  ASSUME IInv, CopyChunk
  PROVE  IInv'
<1> DEFINE n == Len(output)
           c == ChunkSize(layout)
           r == ReadLength
           piece == [k \in 1 .. r |-> <<Mapped.member, Mapped.offset + k - 1>>]
<1>1. /\ pc = "copy" /\ n < logicalSize /\ Maps(layout, n)
      /\ output' = output \o piece /\ pc' = pc /\ layout' = layout
      /\ logicalSize' = logicalSize /\ status' = status
      /\ supers' = supers /\ sizes' = sizes /\ override' = override
      /\ missing' = missing /\ samples' = samples /\ recoverable' = recoverable
  BY DEF CopyChunk, requestVars, assessmentVars
<1>2. /\ ValidLayout(layout) /\ MappableLevel(layout) /\ Fields(layout)
      /\ layout.members = Count
  BY <1>1, LayoutFields DEF Maps, IInv, LayoutSound
<1>3. /\ output \in Seq(Members \X Nat) /\ logicalSize \in Nat
      /\ n \in Nat /\ DOMAIN output = 1 .. n
  BY LenProperties DEF IInv, TypeOK
<1>4. c \in Nat \ {0}
  BY <1>2, ChunksOfStripe
<1>5. /\ r \in Nat \ {0} /\ r <= c /\ n + r <= logicalSize
      /\ r = c \/ n + r = logicalSize
  <2>1. r = IF logicalSize - n <= c THEN logicalSize - n ELSE c
    BY DEF ReadLength, Smaller
  <2> HIDE DEF n, c, r
  <2> QED
    BY <1>1, <1>3, <1>4, <2>1
<1>6. PICK k \in Nat : n = c * k
  <2>1. n = logicalSize \/ \E k \in Nat : n = c * k
    BY <1>1 DEF IInv, OutputSound
  <2>2. n # logicalSize
    <3> HIDE DEF n
    <3> QED
      BY <1>1, <1>3
  <2> QED
    BY <2>1, <2>2
<1>7. Mapped = MapOffset(layout, n)
  BY DEF Mapped
<1>8. Mapped.member \in Members /\ Mapped.offset \in Nat
  <2>1. PICK m \in 2 .. 32 : Members = 0 .. m - 1 /\ Count = m
    BY MembersAre DEF IInv
  <2> QED
    BY <1>2, <1>3, <1>7, <2>1, MapType
<1> HIDE DEF n, c, r
<1>9. piece \in [1 .. r -> Members \X Nat]
  BY <1>5, <1>8
<1>10. /\ piece \in Seq(Members \X Nat) /\ Len(piece) = r
       /\ \A i \in 1 .. r : piece[i] = <<Mapped.member, Mapped.offset + i - 1>>
  BY <1>5, <1>9, FunctionIsSeq
<1> HIDE DEF piece
<1>11. /\ output' \in Seq(Members \X Nat) /\ Len(output') = n + r
       /\ \A i \in 1 .. n + r :
            output'[i] = IF i <= n THEN output[i] ELSE piece[i - n]
  BY <1>1, <1>3, <1>10, ConcatProperties DEF n
<1>12. \A i \in 1 .. n + r :
         output'[i] = <<MapOffset(layout, i - 1).member,
                        MapOffset(layout, i - 1).offset>>
  <2> SUFFICES ASSUME NEW i \in 1 .. n + r
               PROVE  output'[i] = <<MapOffset(layout, i - 1).member,
                                     MapOffset(layout, i - 1).offset>>
    OBVIOUS
  <2>1. CASE i <= n
    <3>1. i \in 1 .. n
      BY <1>3, <1>5, <2>1
    <3> QED
      BY <1>1, <1>11, <2>1, <3>1 DEF IInv, OutputSound, n
  <2>2. CASE ~(i <= n)
    <3> DEFINE j == i - n - 1
    <3>1. i - n \in 1 .. r /\ j \in 0 .. c - 1 /\ i - 1 = c * k + j
          /\ Mapped.offset + (i - n) - 1 = Mapped.offset + j
      BY <1>3, <1>4, <1>5, <1>6, <1>8, <2>2
    <3>2. output'[i] = <<Mapped.member, Mapped.offset + j>>
      BY <1>3, <1>5, <1>10, <1>11, <2>2, <3>1
    <3> HIDE DEF j
    <3>3. /\ MapOffset(layout, c * k + j).member =
               MapOffset(layout, c * k).member
          /\ MapOffset(layout, c * k + j).offset =
               MapOffset(layout, c * k).offset + j
      BY <1>2, <3>1, ChunkIsContiguous DEF c
    <3> QED
      BY <1>6, <1>7, <3>1, <3>2, <3>3
  <2> QED
    BY <2>1, <2>2
<1>13. n + r = logicalSize \/ n + r = c * (k + 1)
  BY <1>4, <1>5, <1>6
<1>14. OutputSound'
  <2>1. Len(output') = logicalSize' \/ \E i \in Nat : Len(output') = c * i
    BY <1>1, <1>11, <1>13
  <2> QED
    BY <1>1, <1>2, <1>5, <1>11, <1>12, <2>1 DEF OutputSound, Assembled, c
<1>15. IsRequest(Request)'
  BY <1>1 DEF IInv, IsRequest, Request
<1>16. TypeOK'
  BY <1>1, <1>11 DEF IInv, TypeOK, Members, Layout
<1>17. LayoutSound'
  BY <1>1 DEF IInv, LayoutSound, Count, Members
<1> QED
  BY <1>14, <1>15, <1>16, <1>17 DEF IInv

\* Every step of a call keeps the parts of the invariant.
LEMMA StepIInv == IInv /\ [Next]_vars => IInv'
<1> SUFFICES ASSUME IInv, [Next]_vars PROVE IInv'
  OBVIOUS
<1> USE DEF requestVars, assessmentVars
<1>1. CASE Detect
  <2>1. /\ pc = "detect" /\ DetectStatus = 0 /\ layout' = FoundLayout
        /\ pc' = "measure" /\ output' = output /\ logicalSize' = logicalSize
        /\ supers' = supers /\ sizes' = sizes /\ override' = override
    BY <1>1 DEF Detect
  <2>2. /\ layout' \in Layout /\ layout'.stripe # 0 /\ layout'.members = Count
    BY <2>1, FoundType DEF IInv
  <2>3. TypeOK'
    BY <1>1, <2>1, <2>2 DEF Detect, IInv, TypeOK, Members, Layout
  <2> QED
    BY <2>1, <2>2, <2>3 DEF IInv, IsRequest, Request, LayoutSound, OutputSound,
       Assembled, Count, Members
<1>2. CASE DetectFails
  <2>1. DetectStatus \in {140, 141, 142}
    BY <1>2 DEF DetectFails, DetectStatus
  <2> QED
    BY <1>2, <2>1, FailStep DEF DetectFails
<1>3. CASE Measure
  <2>1. /\ pc = "measure" /\ Sizeable(layout, sizes) /\ layout' = layout
        /\ logicalSize' = LogicalSize(layout, sizes)
        /\ pc' = "copy" /\ output' = output
        /\ supers' = supers /\ sizes' = sizes /\ override' = override
    BY <1>3 DEF Measure, Measurable
  <2>2. logicalSize' \in Nat
    <3>1. PICK n \in 2 .. 32 : sizes \in [0 .. n - 1 -> 0 .. Limit]
      BY MembersAre DEF IInv
    <3>2. sizes \in [0 .. n - 1 -> Nat] /\ n \in Nat \ {0}
      BY <3>1, StripesAssumption
    <3>3. Fields(layout) /\ layout.stripe # 0
      BY <2>1, LayoutFields DEF IInv, LayoutSound
    <3> QED
      BY <2>1, <3>2, <3>3, SizeType
  <2>3. TypeOK'
    BY <1>3, <2>1, <2>2 DEF Measure, IInv, TypeOK, Members, Layout
  <2>4. output' = <<>> /\ Len(output') = 0
    BY <2>1 DEF IInv, OutputSound
  <2>5. OutputSound'
    <3>1. ChunkSize(layout) \in Int
      BY <2>1, LayoutFields, StripesAssumption
         DEF IInv, Fields, ChunkSize, Smaller, Larger
    <3>2. ChunkSize(layout)' * 0 = 0
      BY <2>1, <3>1 DEF ChunkSize, Smaller, Larger
    <3> QED
      BY <2>1, <2>2, <2>4, <3>2 DEF OutputSound, Assembled
  <2> QED
    BY <2>1, <2>3, <2>5
       DEF IInv, IsRequest, Request, LayoutSound, Count, Members
<1>4. CASE MeasureFails
  BY <1>4, FailStep DEF MeasureFails
<1>5. CASE CopyChunk
  BY <1>5, CopyStep
<1>6. CASE CopyFails
  BY <1>6, FailStep DEF CopyFails
<1>7. CASE Finish
  <2>1. /\ pc = "copy" /\ Len(output) >= logicalSize /\ pc' = "done"
        /\ layout' = layout /\ output' = output /\ logicalSize' = logicalSize
        /\ supers' = supers /\ sizes' = sizes /\ override' = override
    BY <1>7 DEF Finish
  <2>2. TypeOK'
    BY <1>7, <2>1 DEF Finish, IInv, TypeOK, Members, Layout
  <2>3. Len(output) = logicalSize
    <3>1. Len(output) \in Nat /\ logicalSize \in Nat
      BY LenProperties DEF IInv, TypeOK
    <3> QED
      BY <2>1, <3>1 DEF IInv, OutputSound
  <2> QED
    BY <2>1, <2>2, <2>3 DEF IInv, IsRequest, Request, LayoutSound, OutputSound,
       Assembled, Count, Members
<1>8. ASSUME NEW lost \in SUBSET Members, NEW count \in SampleCounts,
             Assess(lost, count)
      PROVE  IInv'
  <2>1. /\ pc = "done" /\ pc' = "assessed" /\ missing' = lost
        /\ samples' = count /\ status' = status
        /\ recoverable' = Cardinality(RecoverableSamples(layout, lost, count))
        /\ layout' = layout /\ output' = output /\ logicalSize' = logicalSize
        /\ supers' = supers /\ sizes' = sizes /\ override' = override
    BY <1>8 DEF Assess
  <2>2. recoverable' \in 0 .. count
    <3>1. count \in Nat
      BY RequestsAssumption
    <3>2. RecoverableSamples(layout, lost, count) \subseteq 0 .. count - 1
      BY DEF RecoverableSamples
    <3>3. IsFiniteSet(0 .. count - 1) /\ Cardinality(0 .. count - 1) = count
      BY <3>1, FS_Interval
    <3>4. /\ IsFiniteSet(RecoverableSamples(layout, lost, count))
          /\ Cardinality(RecoverableSamples(layout, lost, count)) <= count
      BY <3>2, <3>3, FS_Subset
    <3>5. Cardinality(RecoverableSamples(layout, lost, count)) \in Nat
      BY <3>4, FS_CardinalityType
    <3> QED
      BY <2>1, <3>1, <3>4, <3>5
  <2>3. TypeOK'
    BY <2>1, <2>2 DEF IInv, TypeOK, Members, Layout
  <2> QED
    BY <2>1, <2>3 DEF IInv, IsRequest, Request, LayoutSound, OutputSound,
       Assembled, Count, Members
<1>9. CASE UNCHANGED vars
  <2>1. /\ pc' = pc /\ status' = status /\ missing' = missing
        /\ samples' = samples /\ recoverable' = recoverable
        /\ layout' = layout /\ output' = output /\ logicalSize' = logicalSize
        /\ supers' = supers /\ sizes' = sizes /\ override' = override
    BY <1>9 DEF vars
  <2>2. TypeOK'
    BY <2>1 DEF IInv, TypeOK, Members, Layout
  <2> QED
    BY <2>1, <2>2 DEF IInv, IsRequest, Request, LayoutSound, OutputSound,
       Assembled, Count, Members
<1> QED
  BY <1>1, <1>2, <1>3, <1>4, <1>5, <1>6, <1>7, <1>8, <1>9 DEF Next

\* Every step of the assembly keeps the invariant.
THEOREM Invariance == Spec => []IInv
BY InitIInv, StepIInv, PTL DEF Spec

\* The accepted layout and what is copied under it keep to their sets of
\* values: no unsuitable metadata or override gets past the checks.
THEOREM TypeCorrect == Spec => []TypeOK
<1>1. IInv => TypeOK
  BY DEF IInv
<1> QED
  BY <1>1, Invariance, PTL

\* The assembled image is the array that map_logical_offset describes, block by
\* block, though only the beginning of each chunk is mapped.
THEOREM ImageCorrect == Spec => []ImageMatchesMap
<1>1. ASSUME IInv PROVE ImageMatchesMap
  <2> SUFFICES ASSUME Assembled PROVE
        /\ Len(output) = logicalSize
        /\ \A i \in DOMAIN output :
             output[i] = <<MapOffset(layout, i - 1).member,
                           MapOffset(layout, i - 1).offset>>
    BY DEF ImageMatchesMap
  <2>1. DOMAIN output = 1 .. Len(output)
    BY <1>1, LenProperties DEF IInv, TypeOK
  <2> QED
    BY <1>1, <2>1 DEF IInv, OutputSound, Assembled
<1> QED
  BY <1>1, Invariance, PTL

\* No block of a member is in the assembled image twice.
THEOREM BlocksOnce == Spec => []EachBlockOnce
<1>1. ASSUME IInv PROVE EachBlockOnce
  <2> SUFFICES ASSUME Assembled, NEW i \in DOMAIN output,
                      NEW j \in DOMAIN output, output[i] = output[j]
               PROVE  i = j
    BY DEF EachBlockOnce
  <2>1. DOMAIN output = 1 .. Len(output) /\ Len(output) \in Nat
    BY <1>1, LenProperties DEF IInv, TypeOK
  <2>2. /\ output[i] = <<MapOffset(layout, i - 1).member,
                         MapOffset(layout, i - 1).offset>>
        /\ output[j] = <<MapOffset(layout, j - 1).member,
                         MapOffset(layout, j - 1).offset>>
        /\ ValidLayout(layout) /\ MappableLevel(layout)
    BY <1>1, <2>1 DEF IInv, OutputSound, Assembled
  <2>3. Fields(layout)
    BY <1>1, LayoutFields DEF IInv, Assembled
  <2>4. i - 1 \in Nat /\ j - 1 \in Nat
    BY <2>1
  <2>5. /\ MapOffset(layout, i - 1).member = MapOffset(layout, j - 1).member
        /\ MapOffset(layout, i - 1).offset = MapOffset(layout, j - 1).offset
    <3> DEFINE am == MapOffset(layout, i - 1).member
               ao == MapOffset(layout, i - 1).offset
               bm == MapOffset(layout, j - 1).member
               bo == MapOffset(layout, j - 1).offset
    <3>1. <<am, ao>> = <<bm, bo>>
      BY <2>2
    <3> HIDE DEF am, ao, bm, bo
    <3>2. am = bm /\ ao = bo
      BY <3>1
    <3> QED
      BY <3>2 DEF am, ao, bm, bo
  <2>6. i - 1 = j - 1
    BY <2>2, <2>3, <2>4, <2>5, MappingIsInjective
  <2> QED
    BY <2>1, <2>6
<1> QED
  BY <1>1, Invariance, PTL

-----------------------------------------------------------------------------
(* Places and members *)

\* An order without repetition names every member.
LEMMA OrderOnto ==
  ASSUME NEW l, Fields(l), ValidLayout(l), NEW i \in 0 .. l.members - 1
  PROVE  \E p \in 0 .. l.members - 1 : l.order[p] = i
<1> DEFINE S == 0 .. l.members - 1
           f == [p \in S |-> l.order[p]]
<1>1. IsFiniteSet(S)
  BY ValidFields, FS_Interval
<1>2. f \in Injection(S, S)
  <2>1. f \in [S -> S]
    BY ValidFields
  <2>2. \A p, q \in S : f[p] = f[q] => p = q
    BY ValidFields
  <2> QED
    BY <2>1, <2>2 DEF Injection, IsInjective
<1>3. f \in Surjection(S, S)
  BY <1>1, <1>2, FS_Injection
<1>4. \A t \in S : \E p \in S : f[p] = t
  BY <1>3 DEF Surjection
<1> QED
  BY <1>4

-----------------------------------------------------------------------------
(* The assessment *)

\* The first stripe of every column of row 0.
LEMMA FirstRow ==
  ASSUME NEW l, Fields(l), ValidLayout(l), NEW k \in 0 .. l.members - 2
  PROVE  /\ k * l.stripe \in Nat
         /\ RowOffset(l, k * l.stripe) = l.offset
<1> DEFINE s == l.stripe
           w == l.members - 1
           x == k * s
<1>1. s \in Nat \ {0} /\ w \in Nat \ {0} /\ k \in 0 .. w - 1 /\ l.offset \in Nat
  BY ValidFields DEF Fields
<1>2. RowSize(l) = s * w
  BY DEF RowSize
<1> HIDE DEF s, w
<1>3. x \in Nat /\ x = s * k /\ s * w \in Nat \ {0}
  BY <1>1, Product
<1>4. s * k + s <= s * w
  BY <1>1, Monotone
<1>5. x \in 0 .. s * w - 1
  BY <1>1, <1>3, <1>4
<1>6. x = (s * w) * 0 + x
  BY <1>3
<1> HIDE DEF x
<1>7. x \div (s * w) = 0 /\ x % (s * w) = x
  BY <1>3, <1>5, <1>6, DivModIs
<1>8. x % s = 0
  <2>1. x = s * k + 0 /\ 0 \in 0 .. s - 1 /\ x \in Nat
    BY <1>1, <1>3
  <2> QED
    BY <1>1, <2>1, DivModIs
<1>9. RowOffset(l, x) = l.offset + 0 * s + 0
  BY <1>2, <1>7, <1>8 DEF RowOffset, Row, s
<1>10. RowOffset(l, x) = l.offset
  BY <1>1, <1>9
<1> QED
  BY <1>3, <1>10 DEF x, s

\* With parity, when every stripe of a row can be recovered, at most one member
\* is missing: the row has data on all members but one.
LEMMA OneLost ==
  ASSUME NEW l, Fields(l), ValidLayout(l), MappableLevel(l),
         l.level \in {"Raid4", "Raid5"},
         NEW lost, lost \subseteq 0 .. l.members - 1,
         \A k \in 0 .. l.members - 2 : Recoverable(l, MapOffset(l, k * l.stripe), lost)
  PROVE  Cardinality(lost) <= 1
<1> SUFFICES ASSUME ~(Cardinality(lost) <= 1) PROVE FALSE
  OBVIOUS
<1> DEFINE m == l.members
           All == 0 .. m - 1
           Row0 == 0 .. m - 2
           Rest == All \ lost
           f == [k \in Row0 |-> MapOffset(l, k * l.stripe).member]
<1>1. m \in Nat \ {0} /\ m >= 2 /\ l.stripe \in Nat \ {0}
  BY ValidFields
<1>2. /\ IsFiniteSet(All) /\ Cardinality(All) = m
      /\ IsFiniteSet(Row0) /\ Cardinality(Row0) = m - 1
  <2>1. 0 \in Int /\ m - 1 \in Int /\ m - 2 \in Int
    BY <1>1
  <2>2. /\ IsFiniteSet(All) /\ Cardinality(All) = IF 0 > m - 1 THEN 0 ELSE m - 1 - 0 + 1
        /\ IsFiniteSet(Row0) /\ Cardinality(Row0) = IF 0 > m - 2 THEN 0 ELSE m - 2 - 0 + 1
    BY <2>1, FS_Interval
  <2> QED
    BY <1>1, <2>2
<1>3. IsFiniteSet(lost) /\ IsFiniteSet(Rest)
  <2>1. lost \in SUBSET All /\ Rest \in SUBSET All
    OBVIOUS
  <2> QED
    BY <1>2, <2>1, FS_Subset
<1>4. Cardinality(lost) \in Nat /\ Cardinality(Rest) \in Nat
  BY <1>3, FS_CardinalityType
<1>5. Cardinality(Rest) + Cardinality(lost) = m
  <2>1. Rest \cup lost = All /\ Rest \cap lost = {}
    OBVIOUS
  <2>2. Cardinality(Rest \cup lost) =
          Cardinality(Rest) + Cardinality(lost) - Cardinality(Rest \cap lost)
    BY <1>3, FS_Union
  <2>3. Cardinality(Rest \cap lost) = 0
    BY <2>1, FS_EmptySet
  <2>4. m = Cardinality(Rest) + Cardinality(lost) - 0
    BY <1>2, <2>1, <2>2, <2>3, Zenon
  <2> DEFINE a == Cardinality(Rest)
             b == Cardinality(lost)
  <2>5. a \in Nat /\ b \in Nat /\ m = a + b - 0
    BY <1>4, <2>4
  <2> HIDE DEF a, b, m
  <2>6. a + b = m
    BY <2>5
  <2> QED
    BY <2>6 DEF a, b
<1>6. f \in Injection(Row0, Rest)
  <2>1. ASSUME NEW k \in Row0 PROVE f[k] \in Rest
    <3>1. k * l.stripe \in Nat /\ MapOffset(l, k * l.stripe).member \in All
      BY FirstRow, MapType
    <3>2. MapOffset(l, k * l.stripe).member \notin lost
      BY DEF Recoverable
    <3> QED
      BY <3>1, <3>2
  <2>2. ASSUME NEW j \in Row0, NEW k \in Row0, f[j] = f[k] PROVE j = k
    <3>1. /\ j * l.stripe \in Nat /\ k * l.stripe \in Nat
          /\ RowOffset(l, j * l.stripe) = RowOffset(l, k * l.stripe)
      BY FirstRow
    <3>2. /\ MapOffset(l, j * l.stripe).offset = MapOffset(l, k * l.stripe).offset
          /\ MapOffset(l, j * l.stripe).member = MapOffset(l, k * l.stripe).member
      BY <2>2, <3>1 DEF MapOffset, MapRaid4, MapRaid5
    <3>3. j * l.stripe = k * l.stripe
      BY <3>1, <3>2, MappingIsInjective
    <3> DEFINE s == l.stripe
    <3>4. j \in Nat /\ k \in Nat /\ s \in Nat \ {0} /\ s * j + 0 = s * k + 0
      BY <1>1, <3>1, <3>3
    <3> HIDE DEF s
    <3>5. 0 \in 0 .. s - 1
      BY <3>4
    <3> QED
      BY <3>4, <3>5, Parts
  <2> QED
    BY <2>1, <2>2 DEF Injection, IsInjective
<1>7. m - 1 <= Cardinality(Rest)
  BY <1>2, <1>3, <1>6, FS_Injection
<1> QED
  BY <1>1, <1>4, <1>5, <1>7

\* What the assessment counts is what it says it counts.
Counted ==
  pc = "assessed" =>
    /\ recoverable = Cardinality(RecoverableSamples(layout, missing, samples))
    /\ samples \in SampleCounts

LEMMA CountedCorrect == Spec => []Counted
<1>1. Init => Counted
  BY DEF Init, Counted
<1>2. Counted /\ [Next]_vars => Counted'
  <2> SUFFICES ASSUME Counted, [Next]_vars PROVE Counted'
    OBVIOUS
  <2>1. ASSUME NEW lost \in SUBSET Members, NEW count \in SampleCounts, Assess(lost, count)
        PROVE  Counted'
    BY <2>1 DEF Assess, Counted
  <2>2. CASE Detect \/ DetectFails \/ Measure \/ MeasureFails \/ CopyChunk \/ CopyFails
             \/ Finish
    <3>1. pc' # "assessed"
      BY <2>2 DEF Detect, DetectFails, Measure, MeasureFails, CopyChunk, CopyFails, Finish, Fail
    <3> QED
      BY <3>1 DEF Counted
  <2>3. CASE UNCHANGED vars
    BY <2>3 DEF vars, assessmentVars, Counted
  <2> QED
    BY <2>1, <2>2, <2>3 DEF Next
<1> QED
  BY <1>1, <1>2, PTL DEF Spec

\* A full score: every sample can be recovered.
LEMMA AllRecoverable ==
  ASSUME NEW l, NEW lost, NEW n \in Nat, Cardinality(RecoverableSamples(l, lost, n)) = n
  PROVE  \A k \in 0 .. n - 1 : Recoverable(l, MapOffset(l, k * l.stripe), lost)
<1> DEFINE All == 0 .. n - 1
           R == RecoverableSamples(l, lost, n)
<1>1. IsFiniteSet(All) /\ Cardinality(All) = n
  <2>1. 0 \in Int /\ n - 1 \in Int
    OBVIOUS
  <2>2. IsFiniteSet(All) /\ Cardinality(All) = IF 0 > n - 1 THEN 0 ELSE n - 1 - 0 + 1
    BY <2>1, FS_Interval
  <2> QED
    BY <2>2
<1>2. R \in SUBSET All
  BY DEF RecoverableSamples
<1>3. R = All
  BY <1>1, <1>2, FS_Subset
<1> QED
  BY <1>3 DEF RecoverableSamples

\* The block of a stripe number.
LEMMA OfStripe ==
  ASSUME NEW s \in Nat \ {0}, NEW k \in Nat
  PROVE  k * s \in Nat /\ (k * s) \div s = k
<1>1. k * s \in Nat /\ k * s = s * k + 0 /\ 0 \in 0 .. s - 1
  BY Product
<1> DEFINE x == k * s
<1>2. x \in Nat /\ x = s * k + 0
  BY <1>1
<1> HIDE DEF x
<1>3. x \div s = k
  BY <1>1, <1>2, DivModIs
<1> QED
  BY <1>2, <1>3 DEF x

\* The block of a stripe number below h, and its place in a row of h stripes.
LEMMA OfRow ==
  ASSUME NEW s \in Nat \ {0}, NEW h \in Nat \ {0}, NEW k \in 0 .. h - 1
  PROVE  k \in Nat /\ (k * s) \div s = k /\ k % h = k
<1>1. k \in Nat /\ k = h * 0 + k
  OBVIOUS
<1>2. (k * s) \div s = k
  BY <1>1, OfStripe
<1>3. k % h = k
  BY <1>1, DivModIs
<1> QED
  BY <1>1, <1>2, <1>3

\* When every sample counts as recoverable and the samples span a row, then
\* every block of the array can be rebuilt from what is there.
THEOREM FullMarksCorrect == Spec => []FullMarksMeanWhole
<1>1. ASSUME IInv, Counted PROVE FullMarksMeanWhole
  <2> SUFFICES ASSUME pc = "assessed", layout.level # "Raid1",
                      samples >= layout.members, recoverable = samples,
                      NEW x \in 0 .. logicalSize - 1
               PROVE  CanRebuild(layout, MapOffset(layout, x), missing)
    BY DEF FullMarksMeanWhole
  <2> DEFINE l == layout
             m == l.members
             s == l.stripe
             a == MapOffset(l, x)
             All == 0 .. m - 1
  <2>1. /\ logicalSize \in Nat /\ Len(output) = logicalSize /\ x \in Nat
        /\ samples \in Nat /\ missing \subseteq Members
    BY <1>1, RequestsAssumption DEF IInv, TypeOK, OutputSound, Assembled, Counted
  <2>2. Fields(l) /\ ValidLayout(l) /\ MappableLevel(l)
    BY <1>1, <2>1, LayoutFields DEF IInv, OutputSound
  <2>3. Members = All
    <3>1. m = Count
      BY <1>1 DEF IInv, LayoutSound
    <3> QED
      BY <1>1, <3>1, MembersAre DEF IInv
  <2>4. \A k \in 0 .. samples - 1 : Recoverable(l, MapOffset(l, k * s), missing)
    BY <1>1, <2>1, AllRecoverable DEF Counted
  <2>5. /\ m \in Nat \ {0} /\ m >= 2 /\ s \in Nat \ {0}
        /\ \A i \in All : l.order[i] \in All
    BY <2>2, ValidFields
  <2>6. a.member \in All
    BY <2>1, <2>2, MapType
  <2>7. \A k \in 0 .. m - 1 : Recoverable(l, MapOffset(l, k * s), missing)
    BY <2>1, <2>4, <2>5
  <2>8. x \div s \in Nat
    BY <2>1, <2>5, DivMod
  <2>9. CASE l.level = "Raid0"
    <3> DEFINE k == (x \div s) % m
    <3>1. k \in 0 .. m - 1
      BY <2>5, <2>8, DivMod
    <3> HIDE DEF k
    <3>2. k \in Nat /\ (k * s) \div s = k /\ k % m = k
      <4> HIDE DEF s, m
      <4> QED
        BY <2>5, <3>1, OfRow
    <3>3. MapOffset(l, k * s).member = a.member
      BY <2>9, <3>2 DEF MapOffset, MapRaid0, k
    <3>4. a.member \notin missing
      BY <2>7, <2>9, <3>1, <3>3 DEF Recoverable
    <3> QED
      BY <2>6, <3>4 DEF CanRebuild
  <2>10. CASE l.level = "Raid10"
    <3> DEFINE h == m \div 2
               k == (x \div s) % h
    <3>1. /\ h \in Nat \ {0} /\ k \in Nat /\ 2 * k + 1 \in 0 .. m - 1
      BY <2>2, <2>8, Pairs
    <3>2. k \in 0 .. h - 1
      BY <2>8, <3>1, DivMod
    <3> HIDE DEF k, h
    <3>3. k \in 0 .. m - 1
      BY <2>5, <3>1
    <3>4. (k * s) \div s = k /\ k % h = k
      <4> HIDE DEF s
      <4> QED
        BY <2>5, <3>1, <3>2, OfRow
    <3>5. /\ MapOffset(l, k * s).member = a.member
          /\ MapOffset(l, k * s).parity = a.parity
          /\ a.parity = l.order[2 * k + 1]
      BY <2>10, <3>4 DEF MapOffset, MapRaid10, k, h
    <3>6. a.member \notin missing \/ a.parity \notin missing
      BY <2>7, <2>10, <3>3, <3>5 DEF Recoverable
    <3> QED
      BY <2>5, <2>6, <2>10, <3>1, <3>5, <3>6 DEF CanRebuild
  <2>11. CASE l.level \in {"Raid4", "Raid5"}
    <3>1. Cardinality(missing) <= 1
      <4>1. \A k \in 0 .. m - 2 : Recoverable(l, MapOffset(l, k * s), missing)
        BY <2>5, <2>7
      <4> QED
        BY <2>1, <2>2, <2>3, <2>11, <4>1, OneLost
    <3>2. \A i, j \in missing : i = j
      <4>1. IsFiniteSet(missing)
        <5>1. IsFiniteSet(All)
          <6>1. 0 \in Int /\ m - 1 \in Int
            BY <2>5
          <6> QED
            BY <6>1, FS_Interval
        <5>2. missing \in SUBSET All
          BY <2>1, <2>3
        <5> QED
          BY <5>1, <5>2, FS_Subset
      <4>2. Cardinality(missing) \in Nat
        BY <4>1, FS_CardinalityType
      <4>3. Cardinality(missing) = 0 \/ Cardinality(missing) = 1
        BY <3>1, <4>2
      <4> QED
        BY <4>1, <4>3, FS_EmptySet, FS_Singleton
    <3> QED
      BY <2>6, <2>11, <3>2 DEF CanRebuild
  <2> QED
    BY <2>2, <2>9, <2>10, <2>11 DEF MappableLevel
<1> QED
  BY <1>1, Invariance, CountedCorrect, PTL

-----------------------------------------------------------------------------
(* The array is whole *)

\* The array offset x is block r of column c of row rho, for rows of w columns
\* of s blocks, in both ways of the code to take it apart.
Placed(s, w, q, rho, c, r, x) ==
  /\ x \in 0 .. s * (w * q) - 1
  /\ x \div s = w * rho + c /\ x % s = r
  /\ (x \div s) % w = c /\ (x \div s) \div w = rho
  /\ x \div (s * w) = rho
  /\ (x % (s * w)) \div s = c /\ (x % (s * w)) % s = r

LEMMA Place ==
  ASSUME NEW s \in Nat \ {0}, NEW w \in Nat \ {0}, NEW q \in Nat,
         NEW rho \in 0 .. q - 1, NEW c \in 0 .. w - 1, NEW r \in 0 .. s - 1,
         NEW x, x = s * (w * rho + c) + r
  PROVE  Placed(s, w, q, rho, c, r, x)
<1> DEFINE n == w * rho + c
<1>1. w * rho \in Nat /\ n \in Nat
  <2>1. rho \in Nat
    OBVIOUS
  <2>2. w * rho \in Nat
    BY <2>1, Product
  <2> QED
    BY <2>2
<1>2. s * n \in Nat /\ x \in Nat
  <2>1. s * n \in Nat
    BY <1>1, Product
  <2> QED
    BY <2>1
<1>3. x \div s = n /\ x % s = r
  BY <1>1, <1>2, DivModIs
<1>4. n \div w = rho /\ n % w = c
  BY <1>1, DivModIs
<1>5. w * rho + w <= w * q
  BY Monotone
<1>6. w * q \in Nat /\ n < w * q
  <2>1. w * q \in Nat
    BY Product
  <2> QED
    BY <1>1, <1>5, <2>1
<1>7. s * n + s <= s * (w * q)
  <2> HIDE DEF n
  <2> QED
    BY <1>1, <1>6, Monotone
<1>8. x \in 0 .. s * (w * q) - 1
  <2> DEFINE top == s * (w * q)
             low == s * n
  <2>1. top \in Nat /\ low \in Nat /\ low + s <= top /\ x = low + r
    BY <1>2, <1>6, <1>7, Product
  <2> HIDE DEF top, low
  <2>2. x \in 0 .. top - 1
    BY <2>1
  <2> QED
    BY <2>2 DEF top
<1>9. s * c + r \in 0 .. s * w - 1 /\ s * c \in Nat /\ s * w \in Nat \ {0}
  <2>1. s * c \in Nat /\ s * w \in Nat /\ s * c + s <= s * w
    BY Product, Monotone
  <2> DEFINE low == s * c
             top == s * w
  <2>2. low \in Nat /\ top \in Nat /\ low + s <= top
    BY <2>1
  <2> HIDE DEF low, top
  <2>3. low + r \in 0 .. top - 1 /\ top # 0
    BY <2>2
  <2> QED
    BY <2>1, <2>3 DEF low, top
<1>10. x = (s * w) * rho + (s * c + r)
  <2>1. s * (w * rho + c) = (s * w) * rho + s * c
    OBVIOUS
  <2> QED
    BY <1>1, <1>2, <1>9, <2>1
<1>11. x \div (s * w) = rho /\ x % (s * w) = s * c + r
  <2> DEFINE R == s * w
             t == s * c + r
  <2>1. R \in Nat \ {0} /\ t \in 0 .. R - 1 /\ x = R * rho + t /\ rho \in Nat
    BY <1>9, <1>10
  <2> HIDE DEF R, t
  <2>2. x \div R = rho /\ x % R = t
    BY <1>2, <2>1, DivModIs
  <2> QED
    BY <2>2 DEF R, t
<1>12. (s * c + r) \div s = c /\ (s * c + r) % s = r
  <2> DEFINE t == s * c + r
  <2>1. t \in Nat /\ t = s * c + r /\ c \in Nat
    BY <1>9
  <2> HIDE DEF t
  <2>2. t \div s = c /\ t % s = r
    BY <2>1, DivModIs
  <2> QED
    BY <2>2 DEF t
<1> QED
  BY <1>3, <1>4, <1>8, <1>11, <1>12 DEF Placed

\* A block of a member's data area, taken apart into its row and its place in
\* the stripe.
LEMMA InRow ==
  ASSUME NEW s \in Nat \ {0}, NEW q \in Nat, NEW b \in 0 .. s * q - 1
  PROVE  /\ b \div s \in 0 .. q - 1 /\ b % s \in 0 .. s - 1
         /\ b = (b \div s) * s + (b % s)
<1> DEFINE k == b \div s
           r == b % s
<1>1. b \in Nat /\ s * q \in Nat /\ b < s * q
  <2>1. s * q \in Nat
    BY Product
  <2> QED
    BY <2>1
<1>2. k \in Nat /\ r \in 0 .. s - 1 /\ b = s * k + r
  BY <1>1, DivMod
<1> HIDE DEF k, r
<1>3. k < q
  <2> SUFFICES ASSUME q <= k PROVE FALSE
    BY <1>2
  <2>1. s * q <= s * k
    <3>1. q = k \/ q < k
      BY <1>2
    <3>2. CASE q < k
      <4>1. s * q + s <= s * k
        BY <1>2, <3>2, Monotone
      <4>2. s * k \in Nat
        BY <1>2, Product
      <4> QED
        BY <1>1, <4>1, <4>2
    <3>3. CASE q = k
      BY <1>1, <3>3
    <3> QED
      BY <3>1, <3>2, <3>3
  <2>2. s * k \in Nat
    BY <1>2, Product
  <2> QED
    BY <1>1, <1>2, <2>1, <2>2
<1>4. b = k * s + r
  BY <1>2
<1> QED
  BY <1>2, <1>3, <1>4 DEF k, r

\* A row and a place in its stripe lie below the rows' end.
LEMMA BelowTop ==
  ASSUME NEW s \in Nat \ {0}, NEW q \in Nat, NEW rho \in 0 .. q - 1,
         NEW r \in 0 .. s - 1
  PROVE  rho * s + r \in 0 .. s * q - 1
<1>1. rho \in Nat /\ s * rho \in Nat /\ s * q \in Nat
  <2>1. rho \in Nat
    OBVIOUS
  <2> QED
    BY <2>1, Product
<1>2. s * rho + s <= s * q
  BY <1>1, Monotone
<1> DEFINE low == s * rho
           top == s * q
<1>3. low \in Nat /\ top \in Nat /\ low + s <= top /\ rho * s = low
  BY <1>1, <1>2
<1> HIDE DEF low, top
<1>4. low + r \in 0 .. top - 1
  BY <1>3
<1> QED
  BY <1>3, <1>4 DEF top

\* Where a block of a member may lie in its data area.
Depth(l, b, q) == b \in l.offset .. l.offset + (l.stripe * q) - 1

\* No block of the array lies outside its members' data area.
LEMMA Inside ==
  ASSUME NEW l, Fields(l), ValidLayout(l), MappableLevel(l), l.level # "Raid1",
         NEW q \in Nat, NEW x \in 0 .. l.stripe * (DataMembers(l) * q) - 1
  PROVE  Depth(l, MapOffset(l, x).offset, q)
<1> DEFINE s == l.stripe
           m == l.members
           w == DataMembers(l)
<1>1. /\ s \in Nat \ {0} /\ m \in Nat \ {0} /\ m - 1 \in Nat \ {0}
      /\ l.offset \in Nat
  BY ValidFields DEF Fields
<1>2. m \div 2 \in Nat \ {0}
  BY Pairs
<1>3. w \in Nat \ {0}
  BY <1>1, <1>2 DEF DataMembers, MappableLevel
<1>4. w * q \in Nat
  BY <1>3, Product
<1>5. x \div s \in 0 .. (w * q) - 1 /\ x % s \in 0 .. s - 1
  <2> DEFINE n == w * q
  <2>1. n \in Nat /\ x \in 0 .. s * n - 1
    BY <1>4
  <2> HIDE DEF n, s, w
  <2>2. x \div s \in 0 .. n - 1 /\ x % s \in 0 .. s - 1
    BY <1>1, <2>1, InRow
  <2> QED
    BY <2>2 DEF n
<1>6. (x \div s) \div w \in 0 .. q - 1
  <2> DEFINE n == x \div s
  <2>1. n \in 0 .. (w * q) - 1
    BY <1>5
  <2> HIDE DEF n, w
  <2>2. n \div w \in 0 .. q - 1
    BY <1>3, <2>1, InRow
  <2> QED
    BY <2>2 DEF n
<1>7. ASSUME NEW rho \in 0 .. q - 1, NEW r \in 0 .. s - 1
      PROVE  l.offset + rho * s + r \in l.offset .. l.offset + (s * q) - 1
  <2> HIDE DEF s
  <2> DEFINE low == rho * s
             top == s * q
             o == l.offset
  <2>1. low + r \in 0 .. top - 1 /\ low \in Nat /\ top \in Nat /\ r \in Nat
    <3>1. rho \in Nat
      OBVIOUS
    <3> QED
      BY <1>1, <3>1, BelowTop, Product
  <2>2. o \in Nat
    BY <1>1
  <2> HIDE DEF low, top, o
  <2>3. o + low + r \in o .. o + top - 1
    BY <2>1, <2>2
  <2> QED
    BY <2>3 DEF low, top, o
<1>8. CASE l.level = "Raid0"
  <2>1. w = m
    BY <1>8 DEF DataMembers
  <2>2. MapOffset(l, x).offset = l.offset + ((x \div s) \div w) * s + (x % s)
    BY <1>8, <2>1 DEF MapOffset, MapRaid0
  <2> QED
    BY <1>5, <1>6, <1>7, <2>2 DEF Depth
<1>9. CASE l.level = "Raid10"
  <2>1. w = m \div 2
    BY <1>9 DEF DataMembers
  <2>2. MapOffset(l, x).offset = l.offset + ((x \div s) \div w) * s + (x % s)
    BY <1>9, <2>1 DEF MapOffset, MapRaid10
  <2> QED
    BY <1>5, <1>6, <1>7, <2>2 DEF Depth
<1>10. CASE l.level \in {"Raid4", "Raid5"}
  <2>1. w = m - 1 /\ RowSize(l) = s * w
    BY <1>10 DEF DataMembers, RowSize
  <2>2. x \in Nat
    OBVIOUS
  <2>3. (x % RowSize(l)) % s \in 0 .. s - 1 /\ RowSize(l) \in Nat \ {0}
    BY <2>2, RowParts
  <2>4. Row(l, x) \in 0 .. q - 1
    <3> DEFINE R == s * w
    <3>1. s * (w * q) = R * q
      BY <1>1, <1>3
    <3>2. x \in 0 .. R * q - 1 /\ R \in Nat \ {0}
      BY <2>1, <2>3, <3>1
    <3> HIDE DEF R
    <3>3. x \div R \in 0 .. q - 1
      BY <3>2, InRow
    <3> QED
      BY <2>1, <3>3 DEF Row, R
  <2>5. MapOffset(l, x).offset = l.offset + Row(l, x) * s + ((x % RowSize(l)) % s)
    BY <1>10 DEF MapOffset, MapRaid4, MapRaid5, RowOffset
  <2> QED
    BY <1>7, <2>3, <2>4, <2>5 DEF Depth
<1> QED
  BY <1>8, <1>9, <1>10 DEF MappableLevel

\* Every place in a row is that of a column's data or that of the parity.
LEMMA RotationOnto ==
  ASSUME NEW l, Fields(l), ValidLayout(l), NEW row \in Nat,
         NEW p \in 0 .. l.members - 1, p # ParityPosition(l, row)
  PROVE  \E c \in 0 .. l.members - 2 : DataPosition(l, row, c) = p
<1> DEFINE m == l.members
           P == ParityPosition(l, row)
<1>1. m \in Nat \ {0} /\ m >= 2 /\ P \in 0 .. m - 1
  BY ValidFields, Rotation
<1> HIDE DEF P, m
<1>2. CASE p > P
  <2> DEFINE c == p - P - 1
  <2>1. c \in 0 .. m - 2 /\ P + 1 + c = p /\ p \in 0 .. 2 * m - 1
    BY <1>1, <1>2 DEF m
  <2>2. p % m = p
    BY <1>1, <2>1, WrapsOnce DEF m
  <2>3. DataPosition(l, row, c) = p
    BY <2>1, <2>2 DEF DataPosition, P, m
  <2> QED
    BY <2>1, <2>3 DEF m
<1>3. CASE p < P
  <2> DEFINE c == p + m - P - 1
             a == p + m
  <2>1. c \in 0 .. m - 2 /\ P + 1 + c = a /\ a \in 0 .. 2 * m - 1 /\ ~(a < m) /\ a - m = p
    BY <1>1, <1>3 DEF m
  <2>2. a % m = p
    <3> HIDE DEF a
    <3> QED
      BY <1>1, <2>1, WrapsOnce
  <2>3. DataPosition(l, row, c) = p
    BY <2>1, <2>2 DEF DataPosition, P, m
  <2> QED
    BY <2>1, <2>3 DEF m
<1> QED
  BY <1>1, <1>2, <1>3 DEF P, m

\* A block is data of the array or its redundancy.
Holds(l, i, b, x) ==
  /\ MapOffset(l, x).offset = l.offset + b
  /\ i \in {MapOffset(l, x).member, MapOffset(l, x).parity}

\* Every block of every member's data area is in the array or is parity or
\* mirror of a block that is.
LEMMA Covered ==
  ASSUME NEW l, Fields(l), ValidLayout(l), MappableLevel(l), l.level # "Raid1",
         NEW q \in Nat, NEW i \in 0 .. l.members - 1,
         NEW b \in 0 .. (l.stripe * q) - 1
  PROVE  \E x \in 0 .. l.stripe * (DataMembers(l) * q) - 1 : Holds(l, i, b, x)
<1> DEFINE s == l.stripe
           m == l.members
           w == DataMembers(l)
           rho == b \div s
           r == b % s
           X(c) == s * (w * rho + c) + r
<1>1. /\ s \in Nat \ {0} /\ m \in Nat \ {0} /\ m >= 2 /\ m - 1 \in Nat \ {0}
      /\ l.offset \in Nat
  BY ValidFields DEF Fields
<1>2. m \div 2 \in Nat \ {0}
  BY Pairs
<1>3. w \in Nat \ {0}
  BY <1>1, <1>2 DEF DataMembers, MappableLevel
<1>4. rho \in 0 .. q - 1 /\ r \in 0 .. s - 1 /\ b = rho * s + r
  BY <1>1, InRow
<1>5. PICK p \in 0 .. m - 1 : l.order[p] = i
  BY OrderOnto
<1>6. /\ rho \in Nat /\ rho * s \in Nat /\ r \in Nat
      /\ l.offset + rho * s + r = l.offset + b
  <2> HIDE DEF rho, r, s
  <2>1. rho \in Nat /\ r \in Nat
    BY <1>1, <1>4
  <2>2. rho * s \in Nat
    BY <1>1, <2>1, Product
  <2> DEFINE n == rho * s
             o == l.offset
  <2>3. n \in Nat /\ o \in Nat /\ b = n + r
    BY <1>1, <1>4, <2>2
  <2> HIDE DEF n, o
  <2>4. o + n + r = o + b
    BY <2>1, <2>3
  <2> QED
    BY <2>1, <2>2, <2>4 DEF n, o
<1>7. ASSUME NEW c \in 0 .. w - 1
      PROVE  /\ X(c) \in 0 .. s * (w * q) - 1
             /\ (X(c) \div s) % w = c /\ (X(c) \div s) \div w = rho
             /\ X(c) % s = r /\ X(c) \div (s * w) = rho
             /\ (X(c) % (s * w)) \div s = c /\ (X(c) % (s * w)) % s = r
  <2> DEFINE x == X(c)
  <2>1. x = s * (w * rho + c) + r
    OBVIOUS
  <2> HIDE DEF x, s, w, rho, r
  <2>2. Placed(s, w, q, rho, c, r, x)
    <3>1. /\ s \in Nat \ {0} /\ w \in Nat \ {0} /\ q \in Nat
          /\ rho \in 0 .. q - 1 /\ c \in 0 .. w - 1 /\ r \in 0 .. s - 1
      BY <1>1, <1>3, <1>4
    <3> HIDE DEF m
    <3> QED
      BY <2>1, <3>1, Place, Zenon
  <2> QED
    BY <2>2 DEF x, Placed
<1> HIDE DEF X, rho, r, w
<1>8. CASE l.level = "Raid0"
  <2>1. w = m /\ p \in 0 .. w - 1
    BY <1>5, <1>8 DEF DataMembers, w
  <2>2. /\ MapOffset(l, X(p)).offset = l.offset + rho * s + r
        /\ MapOffset(l, X(p)).member = i
    BY <1>5, <1>7, <1>8, <2>1 DEF MapOffset, MapRaid0
  <2>3. Holds(l, i, b, X(p))
    BY <1>6, <2>2 DEF Holds
  <2> QED
    BY <1>7, <2>1, <2>3 DEF w
<1>9. CASE l.level = "Raid10"
  <2>1. w = m \div 2 /\ m % 2 = 0
    BY <1>9 DEF DataMembers, MappableLevel, w
  <2>2. PICK c \in 0 .. w - 1 : p = 2 * c \/ p = 2 * c + 1
    <3> DEFINE c == p \div 2
    <3> HIDE DEF s, m
    <3>1. /\ c \in Nat /\ p % 2 \in 0 .. 1 /\ p = 2 * c + (p % 2)
          /\ w \in Nat /\ m = 2 * w + 0 /\ p < m
      BY <1>1, <1>2, <1>5, <2>1, DivMod
    <3> HIDE DEF c
    <3>2. c \in 0 .. w - 1 /\ (p = 2 * c \/ p = 2 * c + 1)
      BY <3>1
    <3> QED
      BY <3>2
  <2>3. /\ MapOffset(l, X(c)).offset = l.offset + rho * s + r
        /\ MapOffset(l, X(c)).member = l.order[2 * c]
        /\ MapOffset(l, X(c)).parity = l.order[2 * c + 1]
    BY <1>7, <1>9, <2>1 DEF MapOffset, MapRaid10
  <2>4. Holds(l, i, b, X(c))
    BY <1>5, <1>6, <2>2, <2>3 DEF Holds
  <2> QED
    BY <1>7, <2>4 DEF w
<1>10. CASE l.level \in {"Raid4", "Raid5"}
  <2>1. w = m - 1 /\ RowSize(l) = s * w
    BY <1>10 DEF DataMembers, RowSize, w
  <2>2. ASSUME NEW c \in 0 .. w - 1
        PROVE  /\ Row(l, X(c)) = rho /\ Column(l, X(c)) = c
               /\ RowOffset(l, X(c)) = l.offset + b
    BY <1>6, <1>7, <2>1 DEF Row, Column, RowOffset
  <2>3. 0 \in 0 .. w - 1
    BY <1>3
  <2>4. CASE l.level = "Raid4"
    <3>1. ASSUME NEW c \in 0 .. w - 1
          PROVE  /\ MapOffset(l, X(c)).offset = l.offset + b
                 /\ MapOffset(l, X(c)).member = l.order[c]
                 /\ MapOffset(l, X(c)).parity = l.order[m - 1]
      BY <2>2, <2>4 DEF MapOffset, MapRaid4
    <3>2. CASE p = m - 1
      <4>1. Holds(l, i, b, X(0))
        BY <1>5, <2>3, <3>1, <3>2 DEF Holds
      <4> QED
        BY <1>7, <2>3, <4>1 DEF w
    <3>3. CASE p # m - 1
      <4>1. p \in 0 .. w - 1
        BY <1>1, <1>5, <2>1, <3>3
      <4>2. Holds(l, i, b, X(p))
        BY <1>5, <3>1, <4>1 DEF Holds
      <4> QED
        BY <1>7, <4>1, <4>2 DEF w
    <3> QED
      BY <3>2, <3>3
  <2>5. CASE l.level = "Raid5"
    <3>1. ASSUME NEW c \in 0 .. w - 1
          PROVE  /\ MapOffset(l, X(c)).offset = l.offset + b
                 /\ MapOffset(l, X(c)).member = l.order[DataPosition(l, rho, c)]
                 /\ MapOffset(l, X(c)).parity = l.order[ParityPosition(l, rho)]
      BY <2>2, <2>5 DEF MapOffset, MapRaid5
    <3>2. CASE p = ParityPosition(l, rho)
      <4>1. Holds(l, i, b, X(0))
        BY <1>5, <2>3, <3>1, <3>2 DEF Holds
      <4> QED
        BY <1>7, <2>3, <4>1 DEF w
    <3>3. CASE p # ParityPosition(l, rho)
      <4>1. PICK c \in 0 .. m - 2 : DataPosition(l, rho, c) = p
        BY <1>5, <1>6, <3>3, RotationOnto
      <4>2. c \in 0 .. w - 1
        BY <1>1, <2>1
      <4>3. Holds(l, i, b, X(c))
        BY <1>5, <3>1, <4>1, <4>2 DEF Holds
      <4> QED
        BY <1>7, <4>2, <4>3 DEF w
    <3> QED
      BY <3>2, <3>3
  <2> QED
    BY <1>10, <2>4, <2>5
<1> QED
  BY <1>8, <1>9, <1>10 DEF MappableLevel

\* The size of a striped array is a number of whole rows.
WholeRows ==
  pc \in {"copy", "done", "assessed"} =>
    /\ logicalSize > 0
    /\ layout.level # "Raid1" =>
         \E q \in Nat : logicalSize = layout.stripe * (DataMembers(layout) * q)

LEMMA WholeRowsCorrect == Spec => [](IInv /\ WholeRows)
<1>1. Init => WholeRows
  BY DEF Init, WholeRows
<1>2. IInv /\ WholeRows /\ [Next]_vars => WholeRows'
  <2> SUFFICES ASSUME IInv, WholeRows, [Next]_vars PROVE WholeRows'
    OBVIOUS
  <2>1. CASE Measure
    <3> DEFINE l == layout
               s == l.stripe
               u == Usable(l, sizes)
               w == DataMembers(l)
    <3>1. /\ layout' = l /\ logicalSize' = LogicalSize(l, sizes)
          /\ LogicalSize(l, sizes) > 0 /\ Sizeable(l, sizes)
      BY <2>1 DEF Measure, Measurable
    <3>2. Fields(l) /\ s \in Nat \ {0}
      BY <2>1, LayoutFields DEF IInv, LayoutSound, Measure, Fields
    <3>3. ASSUME l.level # "Raid1"
          PROVE  \E q \in Nat : LogicalSize(l, sizes) = s * (w * q)
      <4>1. u \in Nat
        <5>1. PICK n \in 2 .. 32 : sizes \in [0 .. n - 1 -> 0 .. Limit]
          BY MembersAre DEF IInv
        <5>2. sizes \in [0 .. n - 1 -> Nat] /\ n \in Nat \ {0}
          BY <5>1, StripesAssumption
        <5> QED
          BY <3>1, <3>2, <5>2, UsableType
      <4>2. w \in Nat
        <5>1. l.members \in 2 .. 32
          BY <2>1, MembersAre DEF IInv, LayoutSound, Measure
        <5>2. l.members - 1 \in Nat /\ l.members \div 2 \in Nat /\ l.members \in Nat
          BY <5>1
        <5>3. l.level \in {"Raid0", "Raid4", "Raid5", "Raid10"}
          BY <3>1, <3>3 DEF Sizeable
        <5> QED
          BY <5>2, <5>3 DEF DataMembers
      <4>3. LogicalSize(l, sizes) = (u - (u % s)) * w
        BY <3>3 DEF LogicalSize
      <4>4. /\ u \div s \in Nat /\ u % s \in 0 .. s - 1
            /\ u = s * (u \div s) + (u % s)
        BY <3>2, <4>1, DivMod
      <4> DEFINE q == u \div s
                 r == u % s
                 n == s * q
      <4>5. n \in Nat /\ q \in Nat /\ r \in Nat /\ u = n + r
        BY <3>2, <4>4, Product
      <4> HIDE DEF u, w, s, q, r, n
      <4>6. u - r = n
        BY <4>5
      <4>7. n * w = s * (w * q)
        BY <3>2, <4>2, <4>5 DEF n
      <4> QED
        BY <4>3, <4>5, <4>6, <4>7 DEF q, r
    <3> QED
      BY <3>1, <3>3 DEF WholeRows
  <2>2. CASE CopyChunk \/ Finish
    BY <2>2 DEF CopyChunk, Finish, WholeRows
  <2>3. ASSUME NEW lost \in SUBSET Members, NEW count \in SampleCounts, Assess(lost, count)
        PROVE  WholeRows'
    BY <2>3 DEF Assess, WholeRows
  <2>4. CASE Detect \/ DetectFails \/ MeasureFails \/ CopyFails
    <3>1. pc' \in {"measure", "failed"}
      BY <2>4 DEF Detect, DetectFails, MeasureFails, CopyFails, Fail
    <3> QED
      BY <3>1 DEF WholeRows
  <2>5. CASE UNCHANGED vars
    BY <2>5 DEF vars, WholeRows
  <2> QED
    BY <2>1, <2>2, <2>3, <2>4, <2>5 DEF Next
<1> QED
  BY <1>1, <1>2, Invariance, PTL DEF Spec

\* What the array's blocks and its redundant blocks are.
LEMMA ImageAre ==
  ASSUME IInv, Assembled
  PROVE  Image = {<<MapOffset(layout, x).member, MapOffset(layout, x).offset>> :
                    x \in 0 .. logicalSize - 1}
<1>1. DOMAIN output = 1 .. logicalSize /\ logicalSize \in Nat
  BY LenProperties DEF IInv, TypeOK, OutputSound
<1>2. \A i \in 1 .. logicalSize :
        output[i] = <<MapOffset(layout, i - 1).member,
                      MapOffset(layout, i - 1).offset>>
  BY <1>1 DEF IInv, OutputSound, Assembled
<1> DEFINE At(x) == <<MapOffset(layout, x).member, MapOffset(layout, x).offset>>
<1>3. \A i \in 1 .. logicalSize : output[i] = At(i - 1)
  BY <1>2
<1> HIDE DEF At
<1>4. Image \subseteq {At(x) : x \in 0 .. logicalSize - 1}
  BY <1>1, <1>3 DEF Image
<1>5. ASSUME NEW x \in 0 .. logicalSize - 1 PROVE At(x) \in Image
  <2>1. x + 1 \in 1 .. logicalSize /\ (x + 1) - 1 = x
    BY <1>1
  <2>2. output[x + 1] = At(x)
    BY <1>3, <2>1
  <2> QED
    BY <1>1, <2>1, <2>2 DEF Image
<1>6. Image = {At(x) : x \in 0 .. logicalSize - 1}
  BY <1>4, <1>5
<1> QED
  BY <1>6 DEF At

\* The assembled array has every block of the members' data area, in it or as
\* redundancy of it, and nothing else.
THEOREM WholeCorrect == Spec => []ArrayIsWhole
<1>1. ASSUME IInv, WholeRows PROVE ArrayIsWhole
  <2> SUFFICES ASSUME Assembled
               PROVE  /\ DataArea \subseteq Image \cup Redundant
                      /\ Image \subseteq DataArea
                      /\ Image \cap Redundant = {}
    BY DEF ArrayIsWhole
  <2> DEFINE l == layout
             m == l.members
             s == l.stripe
             w == DataMembers(l)
             All == 0 .. m - 1
             Offsets == 0 .. logicalSize - 1
             M(x) == MapOffset(l, x).member
             P(x) == MapOffset(l, x).parity
             O(x) == MapOffset(l, x).offset
  <2>1. /\ logicalSize \in Nat /\ logicalSize > 0 /\ Len(output) = logicalSize
        /\ pc \in {"copy", "done", "assessed"}
    BY <1>1 DEF IInv, TypeOK, OutputSound, Assembled, WholeRows
  <2>2. Fields(l) /\ ValidLayout(l) /\ MappableLevel(l)
    BY <1>1, <2>1, LayoutFields DEF IInv, OutputSound
  <2>3. /\ m \in Nat \ {0} /\ m >= 2 /\ s \in Nat \ {0} /\ l.offset \in Nat
        /\ \A p \in All : l.order[p] \in All
        /\ \A p, r \in All : l.order[p] = l.order[r] => p = r
    BY <2>2, ValidFields DEF Fields
  <2>4. Members = All
    <3>1. m = Count
      BY <1>1, <2>1 DEF IInv, LayoutSound
    <3> QED
      BY <1>1, <3>1, MembersAre DEF IInv
  <2>5. Image = {<<M(x), O(x)>> : x \in Offsets}
    BY <1>1, ImageAre
  <2>6. \A x \in Offsets : M(x) \in All /\ O(x) \in Nat
    BY <2>1, <2>2, MapType
  <2>7. CASE l.level = "Raid1"
    <3> DEFINE Area == l.offset .. l.offset + logicalSize - 1
    <3>1. DataArea = All \X Area
      BY <2>4, <2>7 DEF DataArea
    <3>2. Redundant = {<<l.order[p], b>> : p \in 1 .. m - 1, b \in Area}
      BY <2>7 DEF Redundant
    <3>3. \A x : M(x) = l.order[0] /\ O(x) = l.offset + x
      BY <2>7 DEF MapOffset, MapRaid1
    <3> HIDE DEF M, O, l, m
    <3>4. Image \subseteq DataArea
      <4>1. \A x \in Offsets : l.offset + x \in Area
        BY <2>1, <2>3
      <4>2. l.order[0] \in All
        BY <2>3
      <4> QED
        BY <2>5, <3>1, <3>3, <4>1, <4>2
    <3>5. Image \cap Redundant = {}
      <4>1. \A p \in 1 .. m - 1 : l.order[p] # l.order[0]
        BY <2>3
      <4> QED
        BY <2>5, <3>2, <3>3, <4>1
    <3>6. ASSUME NEW i \in All, NEW b \in Area PROVE <<i, b>> \in Image \cup Redundant
      <4>1. PICK p \in All : l.order[p] = i
        BY <2>2, OrderOnto DEF m
      <4>2. CASE p = 0
        <5>1. b - l.offset \in Offsets /\ l.offset + (b - l.offset) = b
          BY <2>1, <2>3
        <5>2. <<M(b - l.offset), O(b - l.offset)>> = <<i, b>>
          BY <3>3, <4>1, <4>2, <5>1
        <5> QED
          BY <2>5, <5>1, <5>2
      <4>3. CASE p # 0
        <5>1. p \in 1 .. m - 1
          BY <2>3, <4>3
        <5> QED
          BY <3>2, <4>1, <5>1
      <4> QED
        BY <4>2, <4>3
    <3> QED
      BY <3>1, <3>4, <3>5, <3>6
  <2>8. CASE l.level # "Raid1"
    <3>1. PICK q \in Nat : logicalSize = s * (w * q)
      BY <1>1, <2>1, <2>8 DEF WholeRows
    <3> DEFINE Area == l.offset .. l.offset + (s * q) - 1
    <3>2. w \in Nat \ {0}
      <4>1. m - 1 \in Nat \ {0} /\ m \div 2 \in Nat \ {0}
        <5> HIDE DEF l
        <5>1. m \div 2 \in Nat \ {0}
          BY <2>2, Pairs
        <5> QED
          BY <2>3, <5>1
      <4> QED
        BY <2>2, <2>3, <2>8, <4>1 DEF DataMembers, MappableLevel
    <3>3. s * q \in Nat
      BY <2>3, Product
    <3>4. logicalSize \div w = s * q
      <4> DEFINE n == s * q
      <4>1. n \in Nat /\ logicalSize = w * n + 0
        BY <2>3, <3>1, <3>2, <3>3
      <4> HIDE DEF n, w
      <4>2. 0 \in 0 .. w - 1
        BY <3>2
      <4>3. logicalSize \div w = n
        BY <2>1, <3>2, <4>1, <4>2, DivModIs
      <4> QED
        BY <4>3 DEF n
    <3>5. DataArea = All \X Area
      BY <2>4, <2>8, <3>4 DEF DataArea
    <3>6. Redundant = {<<P(x), O(x)>> : x \in Offsets}
      BY <2>8 DEF Redundant
    <3>7. \A x \in Offsets : O(x) \in Area
      BY <2>2, <2>8, <3>1, Inside DEF Depth
    <3>8. Image \subseteq DataArea
      <4> HIDE DEF M, O, Area
      <4> QED
        BY <2>5, <2>6, <3>5, <3>7
    <3>9. ASSUME NEW x \in Offsets, NEW y \in Offsets, O(x) = O(y)
          PROVE  M(x) # P(y)
      <4>1. x \in Nat /\ y \in Nat
        BY <2>1
      <4>2. CASE l.level = "Raid0"
        <5>1. P(y) = -1
          BY <4>2 DEF MapOffset, MapRaid0, NoMember
        <5>2. M(x) \in Nat
          BY <2>6
        <5> HIDE DEF M, P
        <5> QED
          BY <5>1, <5>2
      <4>3. CASE l.level \in {"Raid4", "Raid5", "Raid10"}
        <5>1. MapOffset(l, x).offset = MapOffset(l, y).offset
          BY <3>9
        <5> HIDE DEF l
        <5>2. MapOffset(l, x).member # MapOffset(l, y).parity
          BY <2>2, <4>1, <4>3, <5>1, ParityHoldsNoData
        <5> QED
          BY <5>2
      <4> QED
        BY <2>2, <2>8, <4>2, <4>3 DEF MappableLevel
    <3>10. Image \cap Redundant = {}
      <4> HIDE DEF M, P, O
      <4> QED
        BY <2>5, <3>6, <3>9
    <3>11. ASSUME NEW i \in All, NEW a \in Area PROVE <<i, a>> \in Image \cup Redundant
      <4> DEFINE b == a - l.offset
      <4>1. b \in 0 .. (s * q) - 1 /\ l.offset + b = a
        <5> DEFINE n == s * q
                   o == l.offset
        <5>1. n \in Nat /\ o \in Nat /\ a \in o .. o + n - 1
          BY <2>3, <3>3
        <5> HIDE DEF n, o
        <5>2. a - o \in 0 .. n - 1 /\ o + (a - o) = a
          BY <5>1
        <5> QED
          BY <5>2 DEF n, o
      <4> HIDE DEF b
      <4>2. PICK x \in 0 .. s * (w * q) - 1 : Holds(l, i, b, x)
        BY <2>2, <2>8, <4>1, Covered
      <4>3. x \in Offsets /\ O(x) = a /\ (M(x) = i \/ P(x) = i)
        BY <3>1, <4>1, <4>2 DEF Holds
      <4> HIDE DEF M, P, O
      <4> QED
        BY <2>5, <3>6, <4>3
    <3> QED
      BY <3>5, <3>8, <3>10, <3>11
  <2> QED
    BY <2>7, <2>8
<1> QED
  BY <1>1, WholeRowsCorrect, PTL

=============================================================================
