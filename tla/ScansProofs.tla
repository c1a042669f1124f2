---------------------------- MODULE ScansProofs ----------------------------
(***************************************************************************)
(* Proofs about Scans: the probes of a volume, the list of shadow copies,  *)
(* the reads, the carving, the records of the master file table and, from  *)
(* TreeProofs, the quick scan and the walk through FAT directories.  A     *)
(* behaviour is one call: the invariant is that of the component which     *)
(* runs, and each of its steps is one of that component.                   *)
(***************************************************************************)
EXTENDS TreeProofs

-----------------------------------------------------------------------------
(* Rounding *)

\* Quotient and remainder.
LEMMA Remainder ==
  ASSUME NEW a \in Nat, NEW m \in Nat \ {0}
  PROVE  /\ (a \div m) * m \in Nat
         /\ (a \div m) * m <= a
         /\ a < (a \div m) * m + m
BY SMTT(20)

\* A range widened on both sides to multiples of a contains the range.
LEMMA Widened ==
  ASSUME NEW a \in Nat \ {0}, NEW o \in Nat, NEW n \in Nat, NEW low, NEW length,
         low = (o \div a) * a,
         length = ((o - low + n + a - 1) \div a) * a
  PROVE  /\ low \in Nat /\ length \in Nat
         /\ low <= o
         /\ o - low + n <= length
<1>1. low \in Nat /\ low <= o
  BY Remainder
<1>2. o - low + n \in Nat /\ o - low + n + a - 1 \in Nat
  BY <1>1
<1> DEFINE w == o - low + n + a - 1
<1>3. w \in Nat /\ length = (w \div a) * a
  BY <1>2
<1> HIDE DEF w
<1>4. length \in Nat /\ w < length + a
  BY <1>3, Remainder
<1> QED
  BY <1>1, <1>2, <1>4 DEF w

\* More whole parts are more.
LEMMA Larger ==
  ASSUME NEW a \in Nat \ {0}, NEW p \in Nat, NEW q \in Nat, p < q
  PROVE  a * p + a <= a * q
<1>1. PICK d \in Nat : q = p + 1 + d
  <2>1. q - p - 1 \in Nat /\ q = p + 1 + (q - p - 1)
    OBVIOUS
  <2> QED
    BY <2>1
<1>2. a * d \in Nat /\ a * q = a * p + a + a * d
  BY <1>1
<1> QED
  BY <1>2

-----------------------------------------------------------------------------
(* The invariant *)

AccessTypes ==
  /\ Access!IsDevice(device)
  /\ pc \in {"list", "open", "ready", "read", "done"}
  /\ path \in Access!Paths
  /\ status \in {0, 10, 11, 12, 13, 14, 16, 31, 61, 62, 63}
  /\ request \in [offset : Nat, length : Nat]
  /\ scratch \in Seq(Nat)
  /\ Len(output) <= request.length

\* What has been read lies behind the aligned offset without a gap.
AccessSoFar ==
  /\ pc \in {"list", "open", "ready"} =>
       request = Access!Nothing /\ scratch = <<>> /\ output = <<>>
  /\ pc = "ready" => status = 0
  /\ pc = "read" =>
       /\ device.wants # "raw" /\ output = <<>> /\ status = 0
       /\ Len(scratch) <= Access!AlignedLength
       /\ \A i \in 1 .. Len(scratch) : scratch[i] = Access!AlignedOffset + i - 1

AccessInv == AccessTypes /\ AccessSoFar /\ Access!ReadsTheRange

LEMMA AlignmentIs ==
  ASSUME Access!IsDevice(device)
  PROVE  Access!Alignment \in Nat \ {0}
BY DEF Access!Alignment, Access!IsDevice

\* The range that is read contains the range asked for.
LEMMA RangeIsWidened ==
  ASSUME AccessTypes
  PROVE  /\ Access!AlignedOffset \in Nat /\ Access!AlignedLength \in Nat
         /\ Access!AlignedOffset <= request.offset
         /\ request.offset - Access!AlignedOffset + request.length <= Access!AlignedLength
<1>1. Access!Alignment \in Nat \ {0} /\ request.offset \in Nat /\ request.length \in Nat
  BY AlignmentIs DEF AccessTypes
<1>2. /\ Access!AlignedOffset = (request.offset \div Access!Alignment) * Access!Alignment
      /\ Access!AlignedLength =
           ((request.offset - Access!AlignedOffset + request.length + Access!Alignment - 1)
              \div Access!Alignment) * Access!Alignment
  BY DEF Access!AlignedOffset, Access!AlignedLength, Access!RoundUp
<1> DEFINE a == Access!Alignment
           o == request.offset
           n == request.length
           low == Access!AlignedOffset
           length == Access!AlignedLength
<1>3. /\ a \in Nat \ {0} /\ o \in Nat /\ n \in Nat
      /\ low = (o \div a) * a
      /\ length = ((o - low + n + a - 1) \div a) * a
  BY <1>1, <1>2
<1> HIDE DEF a, o, n, low, length
<1>4. low \in Nat /\ length \in Nat /\ low <= o /\ o - low + n <= length
  BY <1>3, Widened
<1> QED
  BY <1>4 DEF o, n, low, length

LEMMA AccessStarts ==
  ASSUME Access!SourceAssumption
  PROVE  Access!Init => AccessInv
<1> SUFFICES ASSUME Access!Init PROVE AccessInv
  OBVIOUS
<1>1. Access!IsDevice(device)
  BY DEF Access!Init, Access!SourceAssumption
<1>2. path \in Access!Paths
  BY DEF Access!Init, Access!Paths, Access!InvalidPath
<1>3. Len(output) = 0 /\ scratch \in Seq(Nat) /\ request = [offset |-> 0, length |-> 0]
  BY DEF Access!Init, Access!Nothing
<1> QED
  BY <1>1, <1>2, <1>3 DEF Access!Init, AccessInv, AccessTypes, AccessSoFar, Access!ReadsTheRange

\* A call that ends with a status of failure hands nothing over.
LEMMA AccessFailureKeeps ==
  ASSUME AccessInv, NEW STATE s, s \in {10, 11, 12, 13, 14, 16, 31}, Access!Returns(s)
  PROVE  AccessInv'
BY DEF AccessInv, AccessTypes, AccessSoFar, Access!ReadsTheRange, Access!Returns

LEMMA AccessListKeeps ==
  ASSUME Access!SourceAssumption, AccessInv, Access!ListSnapshots
  PROVE  AccessInv'
<1>1. status' \in {0, 61, 62, 63}
  BY DEF Access!ListSnapshots, Access!QueryStatus
<1>2. /\ pc = "list" /\ pc' = "open"
      /\ UNCHANGED <<query, device, path, request, scratch, output>>
  BY DEF Access!ListSnapshots
<1> QED
  BY <1>1, <1>2 DEF AccessInv, AccessTypes, AccessSoFar, Access!ReadsTheRange, Access!Nothing

LEMMA AccessOpenKeeps ==
  ASSUME Access!SourceAssumption, AccessInv, Access!Open
  PROVE  AccessInv'
<1> DEFINE p == Access!Normalised(device.path, device.kind)
<1>1. CASE Access!Returns(10)
  BY <1>1, AccessFailureKeeps
<1>2. CASE device.error # 0 /\ Access!Returns(device.error)
  <2>1. device.error \in {10, 11, 12, 13, 14, 16, 31}
    BY <1>2 DEF AccessInv, AccessTypes, Access!IsDevice
  <2> QED
    BY <1>2, <2>1, AccessFailureKeeps
<1>3. CASE /\ path' = p /\ pc' = "ready" /\ status' = 0
           /\ UNCHANGED <<query, device, snapshots, request, scratch, output>>
  <2>1. Access!InvalidPath \in Access!Paths
    BY DEF Access!Paths, Access!InvalidPath
  <2>2. Access!NormalisedVolume(device.path) \in Access!Paths /\ Access!NormalisedDisk(device.path) \in Access!Paths
    BY <2>1 DEF AccessInv, AccessTypes, Access!IsDevice, Access!NormalisedVolume, Access!NormalisedDisk, Access!Paths
  <2>3. p \in Access!Paths
    BY <2>1, <2>2 DEF AccessInv, AccessTypes, Access!IsDevice, Access!Normalised
  <2> QED
    BY <1>3, <2>3 DEF AccessInv, AccessTypes, AccessSoFar, Access!ReadsTheRange, Access!Open, Access!Nothing
<1> QED
  BY <1>1, <1>2, <1>3 DEF Access!Open

LEMMA AccessRawKeeps ==
  ASSUME Access!SourceAssumption, AccessInv, Access!ReadRaw
  PROVE  AccessInv'
<1> DEFINE n == Access!Available(device.offset, device.length)
<1>1. /\ device.offset \in Nat /\ device.length \in Nat /\ device.size \in Nat
      /\ device.most \in Nat
  BY DEF AccessInv, AccessTypes, Access!IsDevice
<1>2. n \in Nat /\ n <= device.length
  BY <1>1 DEF Access!Available, Access!SmallerOf
<1>3. /\ pc = "ready" /\ pc' = "done" /\ device.wants = "raw"
      /\ request' = [offset |-> device.offset, length |-> device.length]
      /\ status' \in {0, 14, 16}
      /\ output' = output \/ output' = [i \in 1 .. n |-> device.offset + i - 1]
      /\ UNCHANGED <<query, device, snapshots, path, scratch>>
  BY DEF Access!ReadRaw
<1> HIDE DEF n
<1>4. Len(output') <= device.length
  <2>1. Len(<<>>) = 0
    OBVIOUS
  <2>2. output = <<>>
    BY <1>3 DEF AccessInv, AccessSoFar
  <2>3. Len([i \in 1 .. n |-> device.offset + i - 1]) = n
    BY <1>2
  <2> QED
    BY <1>1, <1>2, <1>3, <2>1, <2>2, <2>3
<1>5. request' \in [offset : Nat, length : Nat] /\ request'.length = device.length
  BY <1>1, <1>3
<1> QED
  BY <1>3, <1>4, <1>5 DEF AccessInv, AccessTypes, AccessSoFar, Access!ReadsTheRange

LEMMA AccessStartKeeps ==
  ASSUME Access!SourceAssumption, AccessInv, Access!StartRead
  PROVE  AccessInv'
<1>1. Access!IsDevice(device) /\ Access!Wanted \in [offset : Nat, length : Nat]
  <2>1. Access!IsDevice(device)
    BY DEF AccessInv, AccessTypes
  <2>2. Access!ScanLength \in Nat
    BY <2>1 DEF Access!ScanLength, Access!SmallerOf, Access!IsDevice, Access!SourceAssumption
  <2> QED
    BY <2>1, <2>2 DEF Access!Wanted, Access!IsDevice
<1>2. /\ pc = "ready" /\ device.wants # "raw" /\ request' = Access!Wanted
      /\ scratch = <<>> /\ output = <<>> /\ status = 0
      /\ IF Access!Wanted.length = 0 THEN pc' = "done" ELSE pc' = "read"
      /\ UNCHANGED <<query, device, path, snapshots, scratch, output, status>>
  BY DEF Access!StartRead, AccessInv, AccessSoFar
<1>3. AccessTypes'
  <2>1. Len(output') = 0
    BY <1>2
  <2> QED
    BY <1>1, <1>2, <2>1 DEF AccessInv, AccessTypes
<1>4. AccessSoFar'
  <2>1. CASE Access!Wanted.length = 0
    BY <2>1, <1>2 DEF AccessSoFar
  <2>2. CASE Access!Wanted.length # 0
    <3>1. Len(scratch') = 0
      BY <1>2
    <3>2. Access!AlignedLength' \in Nat
      <4>1. /\ Access!Alignment' \in Nat \ {0}
            /\ request'.offset \in Nat /\ request'.length \in Nat
        BY <1>3, AlignmentIs DEF AccessTypes, Access!Alignment, Access!IsDevice
      <4>2. /\ Access!AlignedOffset' = (request'.offset \div Access!Alignment') * Access!Alignment'
            /\ Access!AlignedLength' =
                 ((request'.offset - Access!AlignedOffset' + request'.length + Access!Alignment' - 1)
                    \div Access!Alignment') * Access!Alignment'
        BY DEF Access!AlignedOffset, Access!AlignedLength, Access!RoundUp
      <4> QED
        BY <4>1, <4>2, Widened
    <3> QED
      BY <1>2, <2>2, <3>1, <3>2 DEF AccessSoFar
  <2> QED
    BY <2>1, <2>2
<1>5. Access!ReadsTheRange'
  <2>1. CASE Access!Wanted.length = 0
    <3>1. [i \in 1 .. request'.length |-> request'.offset + i - 1] = <<>>
      BY <2>1, <1>2
    <3> QED
      BY <3>1, <1>2 DEF Access!ReadsTheRange
  <2>2. CASE Access!Wanted.length # 0
    BY <2>2, <1>2 DEF Access!ReadsTheRange
  <2> QED
    BY <2>1, <2>2
<1> QED
  BY <1>3, <1>4, <1>5 DEF AccessInv

LEMMA AccessReadOnKeeps ==
  ASSUME Access!SourceAssumption, AccessInv, Access!ReadOn
  PROVE  AccessInv'
<1> DEFINE start == Access!AlignedOffset + Len(scratch)
           n == Access!Available(start, Access!AlignedLength - Len(scratch))
           cells == [i \in 1 .. n |-> start + i - 1]
<1>1. CASE \E s \in {14, 16, 31} : Access!Returns(s)
  BY <1>1, AccessFailureKeeps
<1>2. CASE /\ scratch' = scratch \o cells
           /\ UNCHANGED <<query, device, pc, snapshots, path, request, output, status>>
  <2>1. /\ AccessTypes /\ pc = "read" /\ Len(scratch) \in Nat /\ scratch \in Seq(Nat)
        /\ Access!AlignedOffset \in Nat /\ Access!AlignedLength \in Nat
        /\ Len(scratch) < Access!AlignedLength
    BY RangeIsWidened DEF AccessInv, Access!ReadOn, AccessTypes
  <2>2. n \in Nat /\ n <= Access!AlignedLength - Len(scratch) /\ start \in Nat
    <3>1. device.size \in Nat /\ device.most \in Nat
      BY <2>1 DEF AccessTypes, Access!IsDevice
    <3> QED
      BY <2>1, <3>1 DEF Access!Available, Access!SmallerOf
  <2> HIDE DEF n
  <2>3. cells \in Seq(Nat) /\ Len(cells) = n
    BY <2>2
  <2>4. /\ scratch' \in Seq(Nat) /\ Len(scratch') = Len(scratch) + n
        /\ \A i \in 1 .. Len(scratch) : scratch'[i] = scratch[i]
        /\ \A i \in 1 .. n : scratch'[Len(scratch) + i] = start + i - 1
    BY <1>2, <2>1, <2>2, <2>3
  <2>5. Access!AlignedOffset' = Access!AlignedOffset /\ Access!AlignedLength' = Access!AlignedLength
    BY <1>2 DEF Access!AlignedOffset, Access!AlignedLength, Access!RoundUp, Access!Alignment
  <2>6. ASSUME NEW i \in 1 .. Len(scratch')
        PROVE  scratch'[i] = Access!AlignedOffset + i - 1
    <3>1. CASE i <= Len(scratch)
      BY <3>1, <2>1, <2>4 DEF AccessInv, AccessSoFar
    <3>2. CASE i > Len(scratch)
      <4>1. /\ i - Len(scratch) \in 1 .. n
            /\ Len(scratch) + (i - Len(scratch)) = i
        BY <3>2, <2>1, <2>2, <2>4
      <4>2. scratch'[i] = start + (i - Len(scratch)) - 1
        BY <4>1, <2>4
      <4> QED
        BY <4>2, <2>1
    <3> QED
      BY <3>1, <3>2, <2>1
  <2>7. AccessTypes'
    BY <1>2, <2>1, <2>4 DEF AccessTypes
  <2>8. AccessSoFar'
    BY <1>2, <2>1, <2>2, <2>4, <2>5, <2>6 DEF AccessInv, AccessSoFar
  <2>9. Access!ReadsTheRange'
    BY <1>2, <2>1 DEF Access!ReadsTheRange
  <2> QED
    BY <2>7, <2>8, <2>9 DEF AccessInv
<1> QED
  BY <1>1, <1>2 DEF Access!ReadOn

LEMMA AccessHandOverKeeps ==
  ASSUME Access!SourceAssumption, AccessInv, Access!HandOver
  PROVE  AccessInv'
<1>1. /\ AccessTypes /\ pc = "read" /\ pc' = "done" /\ status = 0
      /\ Len(scratch) = Access!AlignedLength
      /\ \A i \in 1 .. Len(scratch) : scratch[i] = Access!AlignedOffset + i - 1
      /\ output' = SubSeq(scratch, Access!Skipped, Access!Skipped + request.length - 1)
      /\ UNCHANGED <<query, device, snapshots, path, request, scratch, status>>
  BY RangeIsWidened DEF AccessInv, AccessSoFar, Access!HandOver, AccessTypes
<1>2. /\ Access!AlignedOffset \in Nat /\ Access!AlignedLength \in Nat
      /\ Access!AlignedOffset <= request.offset
      /\ request.offset - Access!AlignedOffset + request.length <= Access!AlignedLength
      /\ request.offset \in Nat /\ request.length \in Nat
      /\ scratch \in Seq(Nat)
  BY <1>1, RangeIsWidened DEF AccessTypes
<1>3. Access!Skipped \in 1 .. Len(scratch) + 1 /\ Access!Skipped + request.length - 1 \in 0 .. Len(scratch)
  <2>1. Len(scratch) = Access!AlignedLength
    BY <1>1
  <2>2. Access!Skipped = request.offset - Access!AlignedOffset + 1
    BY DEF Access!Skipped
  <2> DEFINE low == Access!AlignedOffset
             all == Access!AlignedLength
             from == request.offset
             n == request.length
             k == Len(scratch)
             m == Access!Skipped
  <2>3. /\ low \in Nat /\ all \in Nat /\ from \in Nat /\ n \in Nat
        /\ low <= from /\ from - low + n <= all /\ k = all /\ m = from - low + 1
    BY <1>2, <2>1, <2>2
  <2> HIDE DEF low, all, from, n, k, m
  <2>4. m \in 1 .. k + 1 /\ m + n - 1 \in 0 .. k
    BY <2>3
  <2> QED
    BY <2>4 DEF m, k, n
<1>4. output' = [i \in 1 .. request.length |-> request.offset + i - 1]
  <2>1. output' = [i \in 1 .. request.length |-> scratch[Access!Skipped + i - 1]]
    BY <1>1, <1>2, <1>3
  <2>2. ASSUME NEW i \in 1 .. request.length
        PROVE  scratch[Access!Skipped + i - 1] = request.offset + i - 1
    <3>1. Access!Skipped + i - 1 \in 1 .. Len(scratch)
      BY <1>2, <1>3
    <3>2. scratch[Access!Skipped + i - 1] = Access!AlignedOffset + (Access!Skipped + i - 1) - 1
      BY <1>1, <3>1
    <3> QED
      BY <1>2, <3>2 DEF Access!Skipped
  <2> QED
    BY <2>1, <2>2
<1>5. Len(output') = request.length
  BY <1>2, <1>4
<1>6. AccessTypes'
  <2>1. /\ AccessTypes /\ pc' = "done"
        /\ UNCHANGED <<device, path, request, scratch, status>>
    BY <1>1
  <2> QED
    BY <1>2, <1>5, <2>1 DEF AccessTypes
<1>7. AccessSoFar' /\ Access!ReadsTheRange'
  BY <1>1, <1>4 DEF AccessSoFar, Access!ReadsTheRange
<1> QED
  BY <1>6, <1>7 DEF AccessInv

\* Every step of a read keeps its invariant.
LEMMA AccessContinues ==
  ASSUME Access!SourceAssumption, AccessInv, [Access!Next]_(Access!vars)
  PROVE  AccessInv'
<1>1. CASE Access!ListSnapshots
  BY <1>1, AccessListKeeps
<1>2. CASE Access!Open
  BY <1>2, AccessOpenKeeps
<1>3. CASE Access!ReadRaw
  BY <1>3, AccessRawKeeps
<1>4. CASE Access!StartRead
  BY <1>4, AccessStartKeeps
<1>5. CASE Access!ReadOn
  BY <1>5, AccessReadOnKeeps
<1>6. CASE Access!HandOver
  BY <1>6, AccessHandOverKeeps
<1>7. CASE UNCHANGED Access!vars
  BY <1>7 DEF Access!vars, AccessInv, AccessTypes, AccessSoFar, Access!ReadsTheRange,
    Access!AlignedLength, Access!AlignedOffset, Access!RoundUp, Access!Alignment
<1> QED
  BY <1>1, <1>2, <1>3, <1>4, <1>5, <1>6, <1>7 DEF Access!Next

-----------------------------------------------------------------------------
(* Multiples of the alignment *)

\* What has no remainder is a product.
LEMMA IsProduct ==
  ASSUME NEW a \in Nat \ {0}, NEW x \in Nat, x % a = 0
  PROVE  \E k \in Nat : x = a * k
<1>1. x \div a \in Nat /\ x = a * (x \div a) + (x % a)
  BY SMTT(20)
<1>2. x = a * (x \div a)
  BY <1>1
<1> QED
  BY <1>1, <1>2

\* A product has no remainder.
LEMMA ProductIs ==
  ASSUME NEW a \in Nat \ {0}, NEW k \in Nat
  PROVE  a * k \in Nat /\ (a * k) % a = 0
<1>1. a * k \in Nat
  OBVIOUS
<1> DEFINE x == a * k
           q == x \div a
<1>2. x \in Nat /\ q \in Nat /\ x % a \in 0 .. a - 1 /\ x = a * q + (x % a)
  BY <1>1, SMTT(20)
<1>3. q = k
  <2>1. ~(q < k)
    <3> SUFFICES ASSUME q < k PROVE FALSE
      OBVIOUS
    <3>1. a * q + a <= a * k
      BY <1>2, Larger
    <3> QED
      BY <1>2, <3>1
  <2>2. ~(k < q)
    <3> SUFFICES ASSUME k < q PROVE FALSE
      OBVIOUS
    <3>1. a * k + a <= a * q
      BY <1>2, Larger
    <3> QED
      BY <1>2, <3>1
  <2> QED
    BY <1>2, <2>1, <2>2
<1> QED
  BY <1>2, <1>3

\* Sums and differences of multiples are multiples.
LEMMA Multiples ==
  ASSUME NEW a \in Nat \ {0}, NEW x \in Nat, NEW y \in Nat, x % a = 0, y % a = 0
  PROVE  /\ (x + y) % a = 0
         /\ y <= x => (x - y) % a = 0
<1>1. PICK k \in Nat : x = a * k
  BY IsProduct
<1>2. PICK m \in Nat : y = a * m
  BY IsProduct
<1>3. (x + y) % a = 0
  <2>1. x + y = a * (k + m) /\ k + m \in Nat
    BY <1>1, <1>2
  <2> QED
    BY <2>1, ProductIs
<1>4. ASSUME y <= x PROVE (x - y) % a = 0
  <2>1. m <= k
    <3> SUFFICES ASSUME k < m PROVE FALSE
      BY <1>1, <1>2
    <3>1. a * k + a <= a * m
      BY Larger
    <3> QED
      BY <1>1, <1>2, <1>4, <3>1
  <2>2. k - m \in Nat /\ x - y = a * (k - m)
    BY <1>1, <1>2, <2>1
  <2> QED
    BY <2>2, ProductIs
<1> QED
  BY <1>3, <1>4

\* Two multiples lie at least one part apart.
LEMMA Apart ==
  ASSUME NEW a \in Nat \ {0}, NEW x \in Nat, NEW y \in Nat,
         x % a = 0, y % a = 0, x < y
  PROVE  x + a <= y
<1>1. PICK k \in Nat : x = a * k
  BY IsProduct
<1>2. PICK m \in Nat : y = a * m
  BY IsProduct
<1>3. k < m
  <2> SUFFICES ASSUME m < k PROVE FALSE
    BY <1>1, <1>2
  <2>1. a * m + a <= a * k
    BY Larger
  <2> QED
    BY <1>1, <1>2, <2>1
<1>4. a * k + a <= a * m
  BY <1>3, Larger
<1> QED
  BY <1>1, <1>2, <1>4

\* Rounding up passes no multiple.
LEMMA RoundsToNext ==
  ASSUME NEW a \in Nat \ {0}, NEW w \in Nat, NEW z \in Nat, z % a = 0, w <= z
  PROVE  /\ ((w + a - 1) \div a) * a \in Nat
         /\ (((w + a - 1) \div a) * a) % a = 0
         /\ ((w + a - 1) \div a) * a <= z
<1> DEFINE q == (w + a - 1) \div a
<1>1. w + a - 1 \in Nat
  OBVIOUS
<1>2. q \in Nat
  BY <1>1, SMTT(20)
<1>3. q * a \in Nat /\ q * a <= w + a - 1
  BY <1>1, Remainder
<1> HIDE DEF q
<1>4. (q * a) % a = 0
  <2>1. q * a = a * q
    BY <1>2
  <2> QED
    BY <1>2, <2>1, ProductIs
<1>5. q * a <= z
  <2> SUFFICES ASSUME z < q * a PROVE FALSE
    BY <1>3
  <2>1. z + a <= q * a
    BY <1>3, <1>4, Apart
  <2> QED
    BY <1>3, <2>1
<1> QED
  BY <1>3, <1>4, <1>5 DEF q

-----------------------------------------------------------------------------
(* Access!Nothing readable is refused *)

\* The device has whole sectors and reads whole sectors.
AccessRegular == device.size % Access!Alignment = 0 /\ device.most % Access!Alignment = 0

\* On such a device every read goes on at the start of a sector.
AccessWhole ==
  /\ pc \in {"list", "open"} => path = Access!InvalidPath
  /\ pc = "read" => request = Access!Wanted
  /\ pc = "read" /\ AccessRegular => Len(scratch) % Access!Alignment = 0
  /\ Access!InsideIsRead
  /\ Access!PrefixIsThere

\* A range inside a device of whole sectors stays inside when it is widened.
LEMMA InsideStays ==
  ASSUME AccessTypes, AccessRegular, request.offset + request.length <= device.size
  PROVE  /\ Access!AlignedOffset % Access!Alignment = 0 /\ Access!AlignedLength % Access!Alignment = 0
         /\ Access!AlignedOffset + Access!AlignedLength <= device.size
<1> DEFINE a == Access!Alignment
           low == Access!AlignedOffset
           w == request.offset - Access!AlignedOffset + request.length
<1>1. /\ a \in Nat \ {0} /\ device.size \in Nat
      /\ request.offset \in Nat /\ request.length \in Nat
  BY AlignmentIs DEF AccessTypes, Access!IsDevice
<1>2. low \in Nat /\ low <= request.offset /\ w \in Nat
  BY <1>1, RangeIsWidened
<1>3. low % a = 0
  <2>1. request.offset \div a \in Nat /\ low = a * (request.offset \div a)
    <3>1. request.offset \div a \in Nat
      BY <1>1, SMTT(20)
    <3> QED
      BY <1>1, <3>1 DEF Access!AlignedOffset
  <2> QED
    BY <1>1, <2>1, ProductIs
<1>4. /\ device.size - low \in Nat /\ w <= device.size - low
      /\ (device.size - low) % a = 0
  <2>1. low <= device.size /\ device.size - low \in Nat /\ w <= device.size - low
    BY <1>1, <1>2
  <2> QED
    BY <1>1, <1>2, <1>3, <2>1, Multiples DEF AccessRegular
<1>5. Access!AlignedLength = ((w + a - 1) \div a) * a
  BY DEF Access!AlignedLength, Access!RoundUp
<1> HIDE DEF a, low, w
<1>6. Access!AlignedLength % a = 0 /\ Access!AlignedLength <= device.size - low /\ Access!AlignedLength \in Nat
  BY <1>1, <1>2, <1>4, <1>5, RoundsToNext
<1> QED
  BY <1>1, <1>2, <1>3, <1>6 DEF a, low

\* Zero is a multiple, and so is the range widened.
LEMMA AlignedIs ==
  ASSUME AccessTypes
  PROVE  /\ 0 % Access!Alignment = 0
         /\ Access!AlignedOffset % Access!Alignment = 0 /\ Access!AlignedLength % Access!Alignment = 0
<1> DEFINE a == Access!Alignment
           w == request.offset - Access!AlignedOffset + request.length + a - 1
<1>1. a \in Nat \ {0} /\ request.offset \in Nat /\ request.length \in Nat
  BY AlignmentIs DEF AccessTypes
<1>2. w \in Nat
  BY <1>1, RangeIsWidened
<1>3. Access!AlignedOffset = (request.offset \div a) * a /\ Access!AlignedLength = (w \div a) * a
  BY DEF Access!AlignedOffset, Access!AlignedLength, Access!RoundUp
<1> HIDE DEF a, w
<1>4. request.offset \div a \in Nat /\ w \div a \in Nat
  BY <1>1, <1>2, SMTT(20)
<1>5. Access!AlignedOffset = a * (request.offset \div a) /\ Access!AlignedLength = a * (w \div a)
  BY <1>1, <1>3, <1>4
<1>6. a * 0 = 0
  BY <1>1
<1> QED
  BY <1>1, <1>4, <1>5, <1>6, ProductIs DEF a

\* Where a read on a device of whole sectors starts, and what it yields.
LEMMA ReadsWholeSectors ==
  ASSUME AccessTypes, AccessWhole, pc = "read", Len(scratch) < Access!AlignedLength, AccessRegular,
         NEW start, NEW left, NEW n,
         start = Access!AlignedOffset + Len(scratch), left = Access!AlignedLength - Len(scratch),
         n = Access!Available(start, left)
  PROVE  /\ start % Access!Alignment = 0 /\ left % Access!Alignment = 0 /\ n % Access!Alignment = 0
         /\ start \in Nat /\ left \in Nat /\ n \in Nat /\ n <= left
         /\ request.offset + request.length <= device.size => n > 0
<1>1. /\ Access!Alignment \in Nat \ {0} /\ device.size \in Nat /\ device.most \in Nat \ {0}
      /\ Access!AlignedOffset \in Nat /\ Access!AlignedLength \in Nat /\ Len(scratch) \in Nat
  BY AlignmentIs, RangeIsWidened DEF AccessTypes, Access!IsDevice
<1>2. /\ start \in Nat /\ left \in Nat /\ left > 0
      /\ Len(scratch) <= Access!AlignedLength
  BY <1>1
<1>3. /\ Len(scratch) % Access!Alignment = 0 /\ Access!AlignedLength % Access!Alignment = 0
      /\ Access!AlignedOffset % Access!Alignment = 0 /\ 0 % Access!Alignment = 0
  BY AlignedIs DEF AccessWhole
<1>4. start % Access!Alignment = 0 /\ left % Access!Alignment = 0
  BY <1>1, <1>2, <1>3, Multiples
<1>5. start < device.size =>
        device.size - start \in Nat /\ (device.size - start) % Access!Alignment = 0
  <2> SUFFICES ASSUME start < device.size
               PROVE  device.size - start \in Nat /\ (device.size - start) % Access!Alignment = 0
    OBVIOUS
  <2>1. start <= device.size /\ device.size - start \in Nat
    BY <1>1, <1>2
  <2> QED
    BY <1>1, <1>2, <1>4, <2>1, Multiples DEF AccessRegular
<1>6. \/ n = left
      \/ n = device.most
      \/ n = 0 /\ ~(start < device.size)
      \/ n = device.size - start /\ start < device.size
  BY DEF Access!Available, Access!SmallerOf
<1>7. n % Access!Alignment = 0 /\ n \in Nat
  BY <1>1, <1>2, <1>3, <1>4, <1>5, <1>6 DEF AccessRegular
<1>8. n <= left
  BY <1>1, <1>2 DEF Access!Available, Access!SmallerOf
<1>9. ASSUME request.offset + request.length <= device.size PROVE n > 0
  <2>1. Access!AlignedOffset + Access!AlignedLength <= device.size
    BY <1>9, InsideStays
  <2>2. start < device.size /\ device.size - start > 0
    BY <1>1, <1>2, <2>1
  <2> QED
    BY <1>1, <1>2, <1>6, <2>2
<1> QED
  BY <1>2, <1>4, <1>7, <1>8, <1>9

LEMMA AccessWholeReadOn ==
  ASSUME Access!SourceAssumption, AccessInv, AccessWhole, Access!ReadOn
  PROVE  AccessWhole'
<1> DEFINE start == Access!AlignedOffset + Len(scratch)
           left == Access!AlignedLength - Len(scratch)
           n == Access!Available(start, left)
<1>1. AccessTypes /\ pc = "read" /\ Len(scratch) < Access!AlignedLength /\ request = Access!Wanted
  BY DEF AccessInv, Access!ReadOn, AccessWhole
<1>2. AccessRegular =>
        /\ start % Access!Alignment = 0 /\ left % Access!Alignment = 0 /\ n % Access!Alignment = 0
        /\ start \in Nat /\ left \in Nat /\ n \in Nat /\ n <= left
        /\ request.offset + request.length <= device.size => n > 0
  BY <1>1, ReadsWholeSectors
<1>3. /\ Access!AlignedOffset \in Nat /\ Access!AlignedLength \in Nat /\ Len(scratch) \in Nat
      /\ device.size \in Nat /\ Access!Alignment \in Nat \ {0}
  BY <1>1, RangeIsWidened, AlignmentIs DEF AccessTypes, Access!IsDevice
<1>4. device.wants = "prefix" /\ Access!SizeKnown => request.offset + request.length <= device.size
  <2>1. MaxScan \in Nat
    BY DEF Access!SourceAssumption
  <2> QED
    BY <1>1, <1>3, <2>1 DEF Access!Wanted, Access!ScanLength, Access!SmallerOf
<1>5. CASE /\ start % Access!Alignment # 0 \/ left % Access!Alignment # 0
           /\ Access!Returns(16)
  <2>1. ~AccessRegular
    BY <1>2, <1>5
  <2>2. UNCHANGED <<device, request, scratch>> /\ pc' = "done"
    BY <1>5 DEF Access!Returns
  <2> QED
    BY <2>1, <2>2 DEF AccessWhole, Access!InsideIsRead, Access!PrefixIsThere, AccessRegular, Access!Alignment
<1>6. CASE Access!Hits(start, n) /\ Access!Returns(14)
  <2>1. UNCHANGED <<device, request, scratch, path>> /\ pc' = "done" /\ status' = 14
    BY <1>6 DEF Access!Returns
  <2>2. Access!InsideIsRead'
    <3> SUFFICES ASSUME AccessRegular, request.offset + request.length <= device.size
                 PROVE  {i \in 0 .. device.size - 1 :
                           /\ i >= Access!AlignedOffset
                           /\ i < Access!AlignedOffset + Access!AlignedLength} \cap device.broken # {}
      BY <2>1 DEF Access!InsideIsRead, AccessRegular, Access!Alignment, Access!AlignedOffset, Access!AlignedLength, Access!RoundUp
    <3>1. PICK i \in start .. start + n - 1 : i \in device.broken
      BY <1>6 DEF Access!Hits
    <3>2. Access!AlignedOffset + Access!AlignedLength <= device.size
      BY <1>1, InsideStays
    <3>3. i \in 0 .. device.size - 1 /\ i >= Access!AlignedOffset /\ i < Access!AlignedOffset + Access!AlignedLength
      BY <1>2, <1>3, <3>1, <3>2
    <3> QED
      BY <3>1, <3>3
  <2> QED
    BY <2>1, <2>2 DEF AccessWhole, Access!PrefixIsThere
<1>7. CASE /\ ~(start % Access!Alignment # 0 \/ left % Access!Alignment # 0)
           /\ n = 0 /\ Access!Returns(31)
  <2>1. ~(AccessRegular /\ request.offset + request.length <= device.size)
    BY <1>2, <1>7
  <2>2. UNCHANGED <<device, request, scratch, path>> /\ pc' = "done"
    BY <1>7 DEF Access!Returns
  <2> QED
    BY <1>4, <2>1, <2>2 DEF AccessWhole, Access!InsideIsRead, Access!PrefixIsThere, AccessRegular, Access!Alignment, Access!SizeKnown
<1>8. CASE /\ scratch' = scratch \o [i \in 1 .. n |-> start + i - 1]
           /\ UNCHANGED <<query, device, pc, snapshots, path, request, output, status>>
  <2>1. AccessRegular => Len(scratch') % Access!Alignment = 0
    <3> SUFFICES ASSUME AccessRegular PROVE Len(scratch') % Access!Alignment = 0
      OBVIOUS
    <3>1. n \in Nat /\ n % Access!Alignment = 0 /\ Len(scratch) % Access!Alignment = 0
      BY <1>1, <1>2 DEF AccessWhole
    <3> HIDE DEF n
    <3>2. Len(scratch') = Len(scratch) + n
      BY <1>8, <1>1, <1>3, <3>1 DEF AccessTypes
    <3>3. (Len(scratch) + n) % Access!Alignment = 0
      <4> DEFINE l == Len(scratch)
                 a == Access!Alignment
      <4>1. l \in Nat /\ a \in Nat \ {0} /\ l % a = 0 /\ n \in Nat /\ n % a = 0
        BY <1>3, <3>1
      <4> HIDE DEF l, a
      <4>2. (l + n) % a = 0
        BY <4>1, Multiples
      <4> QED
        BY <4>2 DEF l, a
    <3> QED
      BY <3>2, <3>3
  <2>2. /\ pc' = "read" /\ request' = request /\ device' = device
        /\ Access!Alignment' = Access!Alignment /\ Access!Wanted' = Access!Wanted /\ (AccessRegular' <=> AccessRegular)
    BY <1>1, <1>8 DEF Access!Alignment, Access!Wanted, Access!ScanLength, Access!SizeKnown, AccessRegular
  <2> QED
    BY <1>1, <2>1, <2>2 DEF AccessWhole, Access!InsideIsRead, Access!PrefixIsThere
<1> QED
  BY <1>5, <1>6, <1>7, <1>8 DEF Access!ReadOn, Access!AtEnd

LEMMA AccessWholeContinues ==
  ASSUME Access!SourceAssumption, AccessInv, AccessWhole, [Access!Next]_(Access!vars)
  PROVE  AccessWhole'
<1>1. CASE Access!ListSnapshots
  <2>1. pc = "list" /\ pc' = "open" /\ path' = path
    BY <1>1 DEF Access!ListSnapshots
  <2> QED
    BY <2>1 DEF AccessWhole, Access!InsideIsRead, Access!PrefixIsThere
<1>2. CASE Access!Open
  <2>1. path = Access!InvalidPath
    BY <1>2 DEF AccessWhole, Access!Open
  <2>2. \/ pc' = "done" /\ path' = path
        \/ pc' = "ready"
    BY <1>2 DEF Access!Open, Access!Returns
  <2> QED
    BY <2>1, <2>2 DEF AccessWhole, Access!InsideIsRead, Access!PrefixIsThere
<1>3. CASE Access!ReadRaw
  <2>1. pc' = "done" /\ device.wants = "raw" /\ device' = device
    BY <1>3 DEF Access!ReadRaw
  <2> QED
    BY <2>1 DEF AccessWhole, Access!InsideIsRead, Access!PrefixIsThere
<1>4. CASE Access!StartRead
  <2>1. /\ request' = Access!Wanted /\ status' = 0 /\ device' = device
        /\ \/ pc' = "done"
           \/ pc' = "read" /\ scratch' = <<>>
        /\ pc' \in {"done", "read"}
    BY <1>4 DEF Access!StartRead, AccessInv, AccessSoFar
  <2>2. Access!Wanted' = Access!Wanted /\ Access!Alignment' = Access!Alignment
    BY <2>1 DEF Access!Wanted, Access!ScanLength, Access!SizeKnown, Access!Alignment
  <2>3. Len(<<>>) = 0 /\ 0 % Access!Alignment = 0
    BY AlignedIs DEF AccessInv
  <2> QED
    BY <2>1, <2>2, <2>3 DEF AccessWhole, Access!InsideIsRead, Access!PrefixIsThere
<1>5. CASE Access!ReadOn
  BY <1>5, AccessWholeReadOn
<1>6. CASE Access!HandOver
  <2>1. pc' = "done" /\ status' = 0
    BY <1>6 DEF Access!HandOver, AccessInv, AccessSoFar
  <2> QED
    BY <2>1 DEF AccessWhole, Access!InsideIsRead, Access!PrefixIsThere
<1>7. CASE UNCHANGED Access!vars
  BY <1>7 DEF Access!vars, AccessWhole, AccessRegular, Access!InsideIsRead, Access!PrefixIsThere, Access!Wanted, Access!ScanLength, Access!SizeKnown,
    Access!Alignment, Access!AlignedOffset, Access!AlignedLength, Access!RoundUp
<1> QED
  BY <1>1, <1>2, <1>3, <1>4, <1>5, <1>6, <1>7 DEF Access!Next

-----------------------------------------------------------------------------
(* Shadow copies *)

UsableOnes == {i \in DOMAIN query.entries : Access!Usable(query.entries[i])}

\* The sort by time, then identifier, then place, on the usable shadow copies.
InFront == {x \in UsableOnes \X UsableOnes : Access!Ahead(x[1], x[2])}

\* Two keys and a place, compared one after the other.
Lexical(t, i, n, u, j, m) ==
  t > u \/ (t = u /\ i < j) \/ (~(u > t \/ (u = t /\ j < i)) /\ n < m)

LEMMA LexicalIsOrder ==
  /\ \A t, i, n \in Nat : ~Lexical(t, i, n, t, i, n)
  /\ \A t, i, n, u, j, m \in Nat :
       /\ Lexical(t, i, n, u, j, m) => t >= u
       /\ n # m => Lexical(t, i, n, u, j, m) \/ Lexical(u, j, m, t, i, n)
  /\ \A t, i, n, u, j, m, v, k, l \in Nat :
       Lexical(t, i, n, u, j, m) /\ Lexical(u, j, m, v, k, l) => Lexical(t, i, n, v, k, l)
BY DEF Lexical

LEMMA EntriesAre ==
  ASSUME Access!IsQuery(query), NEW i \in DOMAIN query.entries
  PROVE  query.entries[i].time \in Nat /\ query.entries[i].id \in Nat /\ i \in Nat
<1> DEFINE D == {"global", "device", "doubled", "none", "other"}
           e == query.entries
           X == [id : Nat, device : D, time : Nat, typed : BOOLEAN]
<1>1. e \in Seq(X)
  BY DEF Access!IsQuery
<1> HIDE DEF X, D
<1>2. e[i] \in X /\ i \in Nat
  <2> HIDE DEF e
  <2>1. i \in 1 .. Len(e) /\ Len(e) \in Nat
    BY <1>1 DEF e
  <2> QED
    BY <1>1, <2>1
<1>3. e[i].time \in Nat /\ e[i].id \in Nat
  <2> DEFINE x == e[i]
  <2>1. x \in X
    BY <1>2
  <2> HIDE DEF x
  <2>2. x.time \in Nat /\ x.id \in Nat
    BY <2>1 DEF X
  <2> QED
    BY <2>2 DEF x
<1> QED
  BY <1>2, <1>3

LEMMA AheadIs ==
  ASSUME NEW i, NEW j
  PROVE  Access!Ahead(i, j) <=> Lexical(query.entries[i].time, query.entries[i].id, i,
                                 query.entries[j].time, query.entries[j].id, j)
BY Zenon DEF Access!Ahead, Access!Newer, Lexical

LEMMA CopiesAreOrdered ==
  ASSUME Access!IsQuery(query)
  PROVE  Orders(UsableOnes, InFront) /\ IsFiniteSet(UsableOnes)
<1> DEFINE T(i) == query.entries[i].time
           I(i) == query.entries[i].id
<1>1. \A i \in UsableOnes : T(i) \in Nat /\ I(i) \in Nat /\ i \in Nat
  BY EntriesAre DEF UsableOnes
<1>2. \A i, j : Access!Ahead(i, j) <=> Lexical(T(i), I(i), i, T(j), I(j), j)
  BY AheadIs
<1> HIDE DEF T, I
<1>3. \A a \in UsableOnes : ~Access!Ahead(a, a)
  BY <1>1, <1>2, LexicalIsOrder
<1>4. \A a, b \in UsableOnes : a # b => Access!Ahead(a, b) \/ Access!Ahead(b, a)
  BY <1>1, <1>2, LexicalIsOrder
<1>5. ASSUME NEW a \in UsableOnes, NEW b \in UsableOnes, NEW c \in UsableOnes,
             Access!Ahead(a, b), Access!Ahead(b, c)
      PROVE  Access!Ahead(a, c)
  BY <1>1, <1>2, <1>5, LexicalIsOrder
<1>6. \A a, b \in UsableOnes : <<a, b>> \in InFront <=> Access!Ahead(a, b)
  BY DEF InFront
<1>7. IsFiniteSet(UsableOnes)
  <2>1. UsableOnes \subseteq 1 .. Len(query.entries) /\ Len(query.entries) \in Nat
    BY DEF UsableOnes, Access!IsQuery
  <2>2. IsFiniteSet(1 .. Len(query.entries))
    BY <2>1, FS_Interval
  <2> QED
    BY <2>1, <2>2, FS_Subset
<1> QED
  BY <1>3, <1>4, <1>5, <1>6, <1>7 DEF Orders

LEMMA LaterIsOlder ==
  ASSUME Access!IsQuery(query), NEW i \in UsableOnes, NEW j \in UsableOnes, Access!Ahead(i, j)
  PROVE  query.entries[i].time >= query.entries[j].time
<1> DEFINE t == query.entries[i].time
           u == query.entries[j].time
           a == query.entries[i].id
           b == query.entries[j].id
<1>1. t \in Nat /\ u \in Nat /\ a \in Nat /\ b \in Nat /\ i \in Nat /\ j \in Nat
  BY EntriesAre DEF UsableOnes
<1>2. Lexical(t, a, i, u, b, j)
  BY AheadIs
<1> HIDE DEF t, u, a, b
<1>3. t >= u
  BY <1>1, <1>2, LexicalIsOrder
<1> QED
  BY <1>3 DEF t, u

LEMMA AccessCounts == \A S : Access!Cardinality(S) = Cardinality(S)
BY DEF Access!Cardinality, Cardinality

LEMMA ListedIsDefined ==
  Access!Listed = [n \in 1 .. Cardinality(UsableOnes) |->
              query.entries[CHOOSE i \in UsableOnes :
                Cardinality({j \in UsableOnes : Access!Ahead(j, i)}) + 1 = n]]
BY DEF Access!Listed, UsableOnes, Access!Cardinality, Cardinality

LEMMA ListedIs ==
  ASSUME Access!IsQuery(query)
  PROVE  /\ Cardinality(UsableOnes) \in Nat
         /\ DOMAIN Access!Listed = 1 .. Cardinality(UsableOnes) /\ Len(Access!Listed) = Cardinality(UsableOnes)
         /\ \A n \in DOMAIN Access!Listed : \E i \in UsableOnes :
              Access!Listed[n] = query.entries[i]
              /\ Cardinality(Preceding(UsableOnes, InFront, i)) = n - 1
         /\ \A i \in UsableOnes : \E n \in DOMAIN Access!Listed : Access!Listed[n] = query.entries[i]
<1> DEFINE U == UsableOnes
           k == Cardinality(U)
           Before(i) == {j \in U : Access!Ahead(j, i)}
           chosen(n) == CHOOSE i \in U : Cardinality(Before(i)) + 1 = n
           E(i) == query.entries[i]
<1>1. IsFiniteSet(U) /\ Orders(U, InFront) /\ k \in Nat
  BY CopiesAreOrdered, FS_CardinalityType
<1>2. \A i \in U : Preceding(U, InFront, i) = Before(i)
  BY DEF Preceding, InFront
<1>3. Access!Listed = [n \in 1 .. k |-> E(chosen(n))]
  BY ListedIsDefined, Zenon
<1> HIDE DEF U, k, E
<1>4. ASSUME NEW n \in 1 .. k
      PROVE  chosen(n) \in U /\ Cardinality(Before(chosen(n))) + 1 = n
             /\ Cardinality(Preceding(U, InFront, chosen(n))) = n - 1
  <2>1. PICK i \in U : Cardinality(Preceding(U, InFront, i)) = n - 1
    BY <1>1, Ranks DEF k
  <2>2. Cardinality(Before(i)) + 1 = n
    <3>1. Cardinality(Before(i)) = n - 1
      BY <1>2, <2>1, Zenon
    <3> HIDE DEF Before
    <3> QED
      BY <1>1, <3>1
  <2>3. chosen(n) \in U /\ Cardinality(Before(chosen(n))) + 1 = n
    BY <2>2
  <2>4. Cardinality(Preceding(U, InFront, chosen(n))) \in 0 .. k - 1
    BY <1>1, <2>3, RankBelow DEF k
  <2>5. Cardinality(Preceding(U, InFront, chosen(n))) = Cardinality(Before(chosen(n)))
    BY <1>2, <2>3
  <2> HIDE DEF chosen, Before
  <2>6. Cardinality(Preceding(U, InFront, chosen(n))) = n - 1
    BY <1>1, <2>3, <2>4, <2>5
  <2> QED
    BY <2>3, <2>6
<1>5. ASSUME NEW i \in U
      PROVE  \E n \in 1 .. k : chosen(n) = i
  <2> DEFINE rank == Cardinality(Preceding(U, InFront, i))
             n == rank + 1
  <2>1. rank \in 0 .. k - 1
    BY <1>1, RankBelow DEF k
  <2> HIDE DEF rank
  <2>2. n \in 1 .. k /\ rank = n - 1
    BY <1>1, <2>1
  <2>3. chosen(n) \in U /\ Cardinality(Preceding(U, InFront, chosen(n))) = n - 1
    <3> HIDE DEF n, chosen, Before
    <3> QED
      BY <1>4, <2>2
  <2>4. chosen(n) = i
    <3> HIDE DEF n, chosen, Before
    <3>1. Cardinality(Preceding(U, InFront, chosen(n))) = Cardinality(Preceding(U, InFront, i))
      BY <2>2, <2>3 DEF rank
    <3> QED
      BY <1>1, <2>3, <3>1, RanksDiffer
  <2> QED
    BY <2>2, <2>4
<1> HIDE DEF chosen, Before
<1>6. DOMAIN Access!Listed = 1 .. k /\ Len(Access!Listed) = k /\ \A n \in 1 .. k : Access!Listed[n] = E(chosen(n))
  BY <1>1, <1>3
<1>7. \A n \in DOMAIN Access!Listed : \E i \in U :
        Access!Listed[n] = E(i) /\ Cardinality(Preceding(U, InFront, i)) = n - 1
  BY <1>4, <1>6
<1>8. \A i \in U : \E n \in DOMAIN Access!Listed : Access!Listed[n] = E(i)
  BY <1>5, <1>6
<1> QED
  BY <1>1, <1>6, <1>7, <1>8, Zenon DEF U, k, E

LEMMA ListedInOrder ==
  ASSUME Access!IsQuery(query), NEW n \in DOMAIN Access!Listed, NEW m \in DOMAIN Access!Listed, n < m
  PROVE  Access!Usable(Access!Listed[n]) /\ Access!Usable(Access!Listed[m]) /\ Access!Listed[n].time >= Access!Listed[m].time
<1>1. PICK i \in UsableOnes :
        Access!Listed[n] = query.entries[i] /\ Cardinality(Preceding(UsableOnes, InFront, i)) = n - 1
  BY ListedIs, Zenon
<1>2. PICK j \in UsableOnes :
        Access!Listed[m] = query.entries[j] /\ Cardinality(Preceding(UsableOnes, InFront, j)) = m - 1
  BY ListedIs, Zenon
<1>3. n \in Nat /\ m \in Nat
  <2> DEFINE k == Cardinality(UsableOnes)
  <2>1. k \in Nat /\ DOMAIN Access!Listed = 1 .. k
    BY ListedIs, Zenon
  <2> HIDE DEF k
  <2> QED
    BY <2>1
<1>4. Orders(UsableOnes, InFront) /\ IsFiniteSet(UsableOnes)
  BY CopiesAreOrdered
<1>5. <<i, j>> \in InFront
  <2> SUFFICES ASSUME <<i, j>> \notin InFront PROVE FALSE
    OBVIOUS
  <2>1. i # j
    BY <1>1, <1>2, <1>3
  <2>2. <<j, i>> \in InFront
    BY <1>4, <2>1 DEF Orders
  <2>3. Cardinality(Preceding(UsableOnes, InFront, j)) < Cardinality(Preceding(UsableOnes, InFront, i))
    BY <1>4, <2>2, RankGrows
  <2> QED
    BY <1>1, <1>2, <1>3, <2>3
<1>6. query.entries[i].time >= query.entries[j].time
  BY <1>5, LaterIsOlder DEF InFront
<1>7. Access!Usable(query.entries[i]) /\ Access!Usable(query.entries[j])
  BY DEF UsableOnes
<1> QED
  BY <1>1, <1>2, <1>6, <1>7, Zenon

Typed == \A i \in DOMAIN query.entries : query.entries[i].typed

\* A list of shadow copies is empty or complete, and complete where it can be.
SnapInv ==
  /\ Access!IsQuery(query)
  /\ snapshots = <<>> \/ snapshots = Access!Listed
  /\ pc # "list" /\ query.shape = "list" /\ Typed => snapshots = Access!Listed

LEMMA SnapStarts ==
  ASSUME Access!SourceAssumption, Access!Init
  PROVE  SnapInv
BY DEF Access!Init, Access!SourceAssumption, SnapInv

LEMMA SameListed ==
  ASSUME query' = query
  PROVE  Access!Listed' = Access!Listed /\ Typed' = Typed
<1>1. Access!Listed' = Access!Listed
  BY DEF Access!Listed, Access!Ahead
<1>2. Typed' = Typed
  BY DEF Typed
<1> QED
  BY <1>1, <1>2

LEMMA SnapContinues ==
  ASSUME SnapInv, [Access!Next]_(Access!vars)
  PROVE  SnapInv'
<1>1. CASE Access!ListSnapshots
  <2>1. query' = query /\ pc' = "open"
    BY <1>1 DEF Access!ListSnapshots
  <2>2. snapshots' = snapshots \/ snapshots' = Access!Listed
    BY <1>1, Zenon DEF Access!ListSnapshots
  <2>3. query.shape = "list" /\ Typed => snapshots' = Access!Listed
    <3>1. query.shape = "list" => query.shape \notin DOMAIN Access!QueryStatus
      BY DEF Access!QueryStatus
    <3> QED
      BY <1>1, <3>1, Zenon DEF Access!ListSnapshots, Typed
  <2> QED
    BY <2>1, <2>2, <2>3, SameListed DEF SnapInv
<1>2. CASE query' = query /\ snapshots' = snapshots /\ pc # "list"
  BY <1>2, SameListed DEF SnapInv
<1>3. CASE Access!Open
  BY <1>2, <1>3 DEF Access!Open, Access!Returns
<1>4. CASE Access!ReadRaw
  BY <1>2, <1>4 DEF Access!ReadRaw
<1>5. CASE Access!StartRead
  BY <1>2, <1>5 DEF Access!StartRead
<1>6. CASE Access!ReadOn
  BY <1>2, <1>6 DEF Access!ReadOn, Access!Returns
<1>7. CASE Access!HandOver
  BY <1>2, <1>7 DEF Access!HandOver
<1>8. CASE UNCHANGED Access!vars
  <2>1. query' = query /\ snapshots' = snapshots /\ pc' = pc
    BY <1>8 DEF Access!vars
  <2> QED
    BY <2>1, SameListed DEF SnapInv
<1> QED
  BY <1>1, <1>3, <1>4, <1>5, <1>6, <1>7, <1>8 DEF Access!Next

LEMMA CopiesAreListed ==
  ASSUME SnapInv
  PROVE  Access!SnapshotsInOrder /\ Access!NoSnapshotLost
<1>1. Access!SnapshotsInOrder
  <2> SUFFICES ASSUME NEW i \in DOMAIN snapshots, NEW j \in DOMAIN snapshots, i < j
               PROVE  Access!Usable(snapshots[i]) /\ Access!Usable(snapshots[j])
                      /\ snapshots[i].time >= snapshots[j].time
    BY Zenon DEF Access!SnapshotsInOrder
  <2>1. snapshots = Access!Listed
    BY DEF SnapInv
  <2> QED
    BY <2>1, ListedInOrder, Zenon DEF SnapInv
<1>2. Access!NoSnapshotLost
  <2> SUFFICES ASSUME pc # "list", query.shape = "list", Typed
               PROVE  /\ Len(snapshots) = Cardinality(UsableOnes)
                      /\ \A i \in UsableOnes : \E n \in DOMAIN snapshots : snapshots[n] = query.entries[i]
    BY AccessCounts, Zenon DEF Access!NoSnapshotLost, Typed, UsableOnes
  <2>1. snapshots = Access!Listed
    BY Zenon DEF SnapInv
  <2> QED
    BY <2>1, ListedIs, Zenon DEF SnapInv
<1> QED
  BY <1>1, <1>2

-----------------------------------------------------------------------------
(* Carving *)

\* The end of a piece lies behind its head, in the window, and in the source.
LEMMA LeastIs ==
  ASSUME NEW S \in SUBSET Nat, S # {}
  PROVE  Carve!Least(S) \in S /\ \A m \in S : Carve!Least(S) <= m
<1>1. \E n \in S : \A m \in S : n <= m
  BY NatLeast
<1> QED
  BY <1>1 DEF Carve!Least

LEMMA GreatestIs ==
  ASSUME NEW to \in Nat, NEW S \in SUBSET (0 .. to), S # {}
  PROVE  Carve!Greatest(S) \in S /\ \A m \in S : m <= Carve!Greatest(S)
<1> DEFINE T == {n \in Nat : \E m \in S : n = to - m}
<1>1. T \subseteq Nat /\ T # {}
  <2>1. PICK m \in S : TRUE
    OBVIOUS
  <2>2. to - m \in Nat
    BY <2>1
  <2> QED
    BY <2>2, <2>1
<1>2. PICK n \in T : \A k \in T : n <= k
  <2> HIDE DEF T
  <2> QED
    BY <1>1, NatLeast
<1>3. PICK m \in S : n = to - m
  BY <1>2
<1>4. ASSUME NEW k \in S PROVE k <= m
  <2>1. to - k \in T
    BY <1>4
  <2>2. n <= to - k
    BY <1>2, <2>1
  <2> QED
    BY <1>3, <2>2
<1>5. \E x \in S : \A k \in S : k <= x
  BY <1>4
<1> QED
  BY <1>5 DEF Carve!Greatest

LEMMA MarksAre ==
  ASSUME NEW s, Carve!IsSource(s), source = s, NEW format, NEW from \in Nat, NEW to \in Nat
  PROVE  /\ Carve!EndMarks(format, from, to) \subseteq from .. to - 1
         /\ Carve!EndMarks(format, from, to) \subseteq Nat
         /\ Carve!EndMarks(format, from, to) \subseteq 0 .. to
BY DEF Carve!EndMarks, Carve!IsSource

LEMMA FormatsAre ==
  ASSUME NEW s, Carve!IsSource(s), NEW p \in DOMAIN s.heads
  PROVE  /\ p \in Nat /\ p < s.length /\ s.length \in Nat
         /\ s.heads[p].size \in Nat
         /\ Carve!Rule(s.heads[p].format) \in
              {"footer", "last", "chunks", "declared", "part", "capped", "text"}
<1>1. p \in 0 .. s.length - 1 /\ Carve!IsHead(s.heads[p]) /\ s.length \in Nat
  BY DEF Carve!IsSource
<1>2. s.heads[p].format \in Carve!Formats /\ s.heads[p].size \in Nat
  BY <1>1 DEF Carve!IsHead
<1> QED
  BY <1>1, <1>2 DEF Carve!Rule, Carve!Formats

LEMMA EndIsInside ==
  ASSUME Carve!CarveAssumption, NEW s, Carve!IsSource(s), source = s,
         NEW to \in Nat, NEW p \in DOMAIN s.heads, p < to
  PROVE  /\ Carve!EndOf(s.heads[p], p, to) \in Nat
         /\ p <= Carve!EndOf(s.heads[p], p, to)
         /\ Carve!EndOf(s.heads[p], p, to) <= to
<1> DEFINE h == s.heads[p]
           rule == Carve!Rule(h.format)
           first == IF rule = "last" THEN p ELSE p + 1
           footers == Carve!EndMarks(h.format, first, to)
           end == Carve!EndOf(h, p, to)
<1>1. p \in Nat /\ h.size \in Nat
  BY FormatsAre
<1>2. rule \in {"footer", "last", "chunks", "declared", "part", "capped", "text"}
  BY FormatsAre
<1>3. Carve!Cap(h.format) \in Nat
  BY DEF Carve!Cap, Carve!CarveAssumption
<1>4. first \in Nat /\ p <= first
  BY <1>1
<1>5. footers \subseteq first .. to - 1 /\ footers \subseteq Nat /\ footers \subseteq 0 .. to
  BY <1>4, MarksAre
<1>6. footers # {} => Carve!Least(footers) \in footers
  BY <1>5, LeastIs
<1>7. footers # {} => Carve!Greatest(footers) \in footers
  BY <1>5, GreatestIs
<1>8. CASE rule = "footer"
  <2>1. end = IF footers = {} THEN to ELSE Carve!Least(footers) + 1
    BY <1>8 DEF Carve!EndOf
  <2>2. footers # {} => Carve!Least(footers) \in Nat /\ p <= Carve!Least(footers) /\ Carve!Least(footers) < to
    <3>1. footers # {} => Carve!Least(footers) \in first .. to - 1
      BY <1>5, <1>6
    <3> HIDE DEF footers
    <3> QED
      BY <1>1, <1>4, <3>1
  <2> HIDE DEF footers, end
  <2>3. end \in Nat /\ p <= end /\ end <= to
    BY <1>1, <2>1, <2>2
  <2> QED
    BY <2>3 DEF end
<1>9. CASE rule = "last"
  <2>1. end = IF footers = {} THEN to ELSE Carve!Greatest(footers) + 1
    BY <1>9 DEF Carve!EndOf
  <2>2. footers # {} => Carve!Greatest(footers) \in Nat /\ p <= Carve!Greatest(footers) /\ Carve!Greatest(footers) < to
    <3>1. footers # {} => Carve!Greatest(footers) \in first .. to - 1
      BY <1>5, <1>7
    <3> HIDE DEF footers
    <3> QED
      BY <1>1, <1>4, <3>1
  <2> HIDE DEF footers, end
  <2>3. end \in Nat /\ p <= end /\ end <= to
    BY <1>1, <2>1, <2>2
  <2> QED
    BY <2>3 DEF end
<1>10. CASE rule = "text"
  <2>1. end = IF footers = {} THEN to ELSE Carve!Least(footers)
    BY <1>10 DEF Carve!EndOf
  <2>2. footers # {} => Carve!Least(footers) \in Nat /\ p <= Carve!Least(footers) /\ Carve!Least(footers) < to
    <3>1. footers # {} => Carve!Least(footers) \in first .. to - 1
      BY <1>5, <1>6
    <3> HIDE DEF footers
    <3> QED
      BY <1>1, <1>4, <3>1
  <2> HIDE DEF footers, end
  <2>3. end \in Nat /\ p <= end /\ end <= to
    BY <1>1, <2>1, <2>2
  <2> QED
    BY <2>3 DEF end
<1>11. CASE rule = "chunks"
  <2>1. end = IF p + h.size <= to THEN p + h.size ELSE to
    BY <1>11 DEF Carve!EndOf
  <2> HIDE DEF end
  <2> QED
    BY <1>1, <2>1 DEF end
<1>12. CASE rule \in {"declared", "part"}
  <2>1. end = Carve!SmallerOf(to, p + h.size)
    BY <1>12 DEF Carve!EndOf
  <2> HIDE DEF end
  <2> QED
    BY <1>1, <2>1 DEF end, Carve!SmallerOf
<1>13. CASE rule = "capped"
  <2>1. end = Carve!SmallerOf(to, p + Carve!Cap(h.format))
    BY <1>13 DEF Carve!EndOf
  <2> HIDE DEF end
  <2> QED
    BY <1>1, <1>3, <2>1 DEF end, Carve!SmallerOf
<1> QED
  BY <1>2, <1>8, <1>9, <1>10, <1>11, <1>12, <1>13

-----------------------------------------------------------------------------
\* What a window yields: every head in it that is asked for and judged valid, in
\* order.
Earlier(S) == {x \in S \X S : x[1] < x[2]}

LEMMA NumbersAreOrdered ==
  ASSUME NEW S \in SUBSET Nat
  PROVE  /\ Orders(S, Earlier(S))
         /\ \A p \in S : Preceding(S, Earlier(S), p) = {q \in S : q < p}
<1>1. \A a, b \in S : <<a, b>> \in Earlier(S) <=> a < b
  BY DEF Earlier
<1>2. \A a, b, c \in S : a < b /\ b < c => a < c
  OBVIOUS
<1>3. \A a, b \in S : ~(a < a) /\ (a # b => a < b \/ b < a)
  OBVIOUS
<1> QED
  BY <1>1, <1>2, <1>3 DEF Orders, Preceding

LEMMA CarveCounts == \A S : Carve!Cardinality(S) = Cardinality(S)
BY DEF Carve!Cardinality, Cardinality

LEMMA HeadsAreFinite ==
  ASSUME NEW s, Carve!IsSource(s), source = s, NEW from, NEW to
  PROVE  /\ IsFiniteSet(DOMAIN s.heads)
         /\ IsFiniteSet(Carve!Heads(from, to))
         /\ Carve!Heads(from, to) \in SUBSET Nat
         /\ Cardinality(DOMAIN s.heads) \in Nat
         /\ Cardinality(Carve!Heads(from, to)) \in Nat
         /\ Cardinality(Carve!Heads(from, to)) <= Cardinality(DOMAIN s.heads)
<1>1. s.length \in Nat /\ DOMAIN s.heads \subseteq 0 .. s.length - 1
  BY DEF Carve!IsSource
<1>2. IsFiniteSet(0 .. s.length - 1)
  <2>1. 0 \in Int /\ s.length - 1 \in Int
    BY <1>1
  <2> QED
    BY <2>1, FS_Interval
<1>3. Carve!Heads(from, to) \in SUBSET DOMAIN s.heads
  BY DEF Carve!Heads
<1>4. IsFiniteSet(DOMAIN s.heads)
  BY <1>1, <1>2, FS_Subset
<1> QED
  BY <1>1, <1>3, <1>4, FS_Subset, FS_CardinalityType

LEMMA CarvedIsDefined ==
  \A from, to : Carve!Carved(from, to) =
    [i \in 1 .. Cardinality(Carve!Heads(from, to)) |->
       Carve!Candidate(CHOOSE p \in Carve!Heads(from, to) :
                         Cardinality({q \in Carve!Heads(from, to) : q < p}) = i - 1, to)]
BY DEF Carve!Carved, Carve!Cardinality, Cardinality

LEMMA CarvedIs ==
  ASSUME NEW s, Carve!IsSource(s), source = s, NEW from, NEW to
  PROVE  /\ DOMAIN Carve!Carved(from, to) = 1 .. Cardinality(Carve!Heads(from, to))
         /\ Cardinality(Carve!Heads(from, to)) \in Nat
         /\ \A i \in DOMAIN Carve!Carved(from, to) :
              \E p \in Carve!Heads(from, to) : Carve!Carved(from, to)[i] = Carve!Candidate(p, to)
         /\ \A p \in Carve!Heads(from, to) :
              \E i \in DOMAIN Carve!Carved(from, to) : Carve!Carved(from, to)[i] = Carve!Candidate(p, to)
<1> DEFINE H == Carve!Heads(from, to)
           n == Cardinality(H)
           Below(p) == {q \in H : q < p}
           chosen(i) == CHOOSE p \in H : Cardinality(Below(p)) = i - 1
<1>1. n \in Nat /\ IsFiniteSet(H) /\ H \in SUBSET Nat
  BY HeadsAreFinite
<1>2. Carve!Carved(from, to) = [i \in 1 .. n |-> Carve!Candidate(chosen(i), to)]
  BY CarvedIsDefined
<1>3. Orders(H, Earlier(H)) /\ \A p \in H : Preceding(H, Earlier(H), p) = Below(p)
  BY <1>1, NumbersAreOrdered
<1> HIDE DEF H, n
<1>4. ASSUME NEW i \in 1 .. n
      PROVE  chosen(i) \in H /\ Cardinality(Below(chosen(i))) = i - 1
  <2>1. \E p \in H : Cardinality(Below(p)) = i - 1
    <3>1. PICK p \in H : Cardinality(Preceding(H, Earlier(H), p)) = i - 1
      BY <1>1, <1>3, Ranks DEF n
    <3> QED
      BY <1>3, <3>1
  <2> QED
    BY <2>1
<1>5. ASSUME NEW p \in H
      PROVE  \E i \in 1 .. n : chosen(i) = p
  <2> DEFINE i == Cardinality(Below(p)) + 1
  <2>1. i \in 1 .. n /\ Cardinality(Below(p)) = i - 1
    <3>1. Cardinality(Preceding(H, Earlier(H), p)) \in 0 .. n - 1
      BY <1>1, <1>3, RankBelow DEF n
    <3>2. Cardinality(Below(p)) \in 0 .. n - 1
      BY <1>3, <3>1
    <3> HIDE DEF Below
    <3> QED
      BY <1>1, <3>2
  <2> HIDE DEF i
  <2>2. chosen(i) \in H /\ Cardinality(Below(chosen(i))) = Cardinality(Below(p))
    BY <1>4, <2>1
  <2>3. chosen(i) = p
    <3>1. Cardinality(Preceding(H, Earlier(H), chosen(i))) = Cardinality(Preceding(H, Earlier(H), p))
      BY <1>3, <2>2
    <3> HIDE DEF chosen
    <3> QED
      BY <1>1, <1>3, <2>2, <3>1, RanksDiffer
  <2> QED
    BY <2>1, <2>3
<1> HIDE DEF chosen
<1>6. \A i \in 1 .. n : Carve!Carved(from, to)[i] = Carve!Candidate(chosen(i), to)
  BY <1>2
<1>7. DOMAIN Carve!Carved(from, to) = 1 .. n
  BY <1>2
<1> QED
  BY <1>1, <1>4, <1>5, <1>6, <1>7 DEF H, n

LEMMA CarvedIsSequence ==
  ASSUME NEW s, Carve!IsSource(s), source = s, NEW from, NEW to
  PROVE  Carve!Carved(from, to) \in Seq({Carve!Candidate(p, to) : p \in Carve!Heads(from, to)})
<1> DEFINE c == Carve!Carved(from, to)
           n == Cardinality(Carve!Heads(from, to))
           V == {Carve!Candidate(p, to) : p \in Carve!Heads(from, to)}
<1>1. n \in Nat /\ DOMAIN c = 1 .. n /\ \A i \in DOMAIN c : c[i] \in V
  <2>1. \A i \in DOMAIN c : \E p \in Carve!Heads(from, to) : c[i] = Carve!Candidate(p, to)
    BY CarvedIs
  <2> QED
    BY <2>1, CarvedIs
<1>2. c = [i \in DOMAIN c |-> c[i]]
  BY CarvedIsDefined
<1> HIDE DEF c, n, V
<1>3. c \in [1 .. n -> V]
  BY <1>1, <1>2
<1>4. c \in Seq(V)
  BY <1>1, <1>3
<1> QED
  BY <1>4 DEF c, V


-----------------------------------------------------------------------------
\* A candidate of a window that ends at to, inside the source.
Genuine(c, to) ==
  /\ to \in Nat /\ to <= source.length
  /\ c.at \in DOMAIN source.heads /\ c.at < to
  /\ c = Carve!Candidate(c.at, to)

Short(f) ==
  /\ Carve!Enabled(f.format) /\ f.plain /\ f.length \in Smallest .. Overlap
  /\ Carve!Rule(f.format) \in {"chunks", "declared", "footer"}

IsFound(f) ==
  \E c \in aggregated :
    c.at = f.at /\ c.format = f.format /\ c.length = f.length /\ ~c.partial

\* The short files that begin before n are found.
Covered(n) ==
  (source.known /\ Cardinality(DOMAIN source.heads) <= source.capacity) =>
    \A f \in source.files : Short(f) /\ f.at < n => IsFound(f)

CarveInv ==
  /\ source \in CarveSources
  /\ pc \in {"loop", "merge", "done"}
  /\ offset \in Nat
  /\ status \in {"running", "success", "failed", "refused", "canceled"}
  /\ Len(answer) <= source.capacity
  /\ \A c \in aggregated : \E to : Genuine(c, to)
  /\ pc \in {"loop", "merge"} => Covered(offset) /\ status = "running"
  /\ pc = "merge" =>
       /\ answer = Carve!Handed(Carve!Carved(offset, Carve!WindowEnd(Carve!WindowLength)))
       /\ Carve!UnknownLength \/ offset < Carve!Total
  /\ pc = "done" /\ status = "success" => Covered(source.length)

LEMMA CandidateIs ==
  ASSUME NEW s, Carve!IsSource(s), source = s, NEW p, NEW to
  PROVE  /\ Carve!Candidate(p, to).at = p
         /\ Carve!Candidate(p, to).length = Carve!EndOf(s.heads[p], p, to) - p
         /\ Carve!Candidate(p, to).format = s.heads[p].format
         /\ Carve!Candidate(p, to).partial = Carve!Cut(s.heads[p], p, Carve!EndOf(s.heads[p], p, to), to)
BY DEF Carve!Candidate

\* What a window reads lies in the source, or the window is empty.
LEMMA WindowIsInside ==
  ASSUME Carve!CarveAssumption, NEW s, Carve!IsSource(s), source = s, offset \in Nat, NEW l \in Nat
  PROVE  /\ Carve!WindowEnd(l) \in Nat
         /\ Carve!WindowEnd(l) <= s.length \/ Carve!WindowEnd(l) = offset
<1>1. s.length \in Nat /\ ScanDefault \in Nat /\ Fallback \in Nat
  BY DEF Carve!IsSource, Carve!CarveAssumption
<1> DEFINE asked == IF l = 0 THEN ScanDefault ELSE l
<1>2. asked \in Nat
  BY <1>1
<1>3. Carve!WindowEnd(l) =
        IF source.known
        THEN IF source.length <= offset THEN offset ELSE Carve!SmallerOf(source.length, offset + asked)
        ELSE IF offset + Carve!SmallerOf(asked, Fallback) > source.length THEN offset
        ELSE offset + Carve!SmallerOf(asked, Fallback)
  BY DEF Carve!WindowEnd
<1> HIDE DEF asked
<1> QED
  BY <1>1, <1>2, <1>3 DEF Carve!SmallerOf

LEMMA LengthIs ==
  ASSUME Carve!CarveAssumption, NEW s, Carve!IsSource(s), source = s, offset \in Nat,
         Carve!UnknownLength \/ offset < Carve!Total
  PROVE  Carve!WindowLength \in Nat
<1>1. s.length \in Nat /\ Chunk \in Nat /\ Overlap \in Nat /\ Carve!Total \in Nat
  BY DEF Carve!IsSource, Carve!CarveAssumption, Carve!Total
<1> QED
  BY <1>1 DEF Carve!WindowLength, Carve!SmallerOf

LEMMA CarvedAreGenuine ==
  ASSUME Carve!CarveAssumption, NEW s, Carve!IsSource(s), source = s, offset \in Nat, NEW l \in Nat,
         NEW i \in DOMAIN Carve!Carved(offset, Carve!WindowEnd(l))
  PROVE  Genuine(Carve!Carved(offset, Carve!WindowEnd(l))[i], Carve!WindowEnd(l))
<1> DEFINE to == Carve!WindowEnd(l)
<1> HIDE DEF to
<1>1. PICK p \in Carve!Heads(offset, to) : Carve!Carved(offset, to)[i] = Carve!Candidate(p, to)
  <2>1. i \in DOMAIN Carve!Carved(offset, to)
    BY DEF to
  <2>2. \A j \in DOMAIN Carve!Carved(offset, to) :
          \E p \in Carve!Heads(offset, to) : Carve!Carved(offset, to)[j] = Carve!Candidate(p, to)
    BY CarvedIs
  <2> QED
    BY <2>1, <2>2
<1>2. p \in DOMAIN s.heads /\ offset <= p /\ p < to
  BY <1>1 DEF Carve!Heads
<1>3. p \in Nat /\ to \in Nat /\ (to <= s.length \/ to = offset)
  BY <1>2, WindowIsInside, FormatsAre DEF to
<1>4. to <= s.length
  BY <1>2, <1>3
<1>5. Carve!Candidate(p, to).at = p
  BY CandidateIs
<1> QED
  BY <1>1, <1>2, <1>3, <1>4, <1>5 DEF Genuine, to

\* The caller is handed what fits, from the front.
LEMMA HandedIs ==
  ASSUME NEW s, Carve!IsSource(s), source = s, NEW from, NEW to
  PROVE  /\ Len(Carve!Handed(Carve!Carved(from, to))) <= s.capacity
         /\ \A i \in DOMAIN Carve!Handed(Carve!Carved(from, to)) :
              /\ i \in DOMAIN Carve!Carved(from, to)
              /\ Carve!Handed(Carve!Carved(from, to))[i] = Carve!Carved(from, to)[i]
         /\ Cardinality(DOMAIN s.heads) <= s.capacity =>
              DOMAIN Carve!Handed(Carve!Carved(from, to)) = DOMAIN Carve!Carved(from, to)
<1> DEFINE c == Carve!Carved(from, to)
           n == Cardinality(Carve!Heads(from, to))
           V == {Carve!Candidate(p, to) : p \in Carve!Heads(from, to)}
           k == Carve!SmallerOf(Len(c), s.capacity)
<1>1. c \in Seq(V) /\ DOMAIN c = 1 .. n /\ n \in Nat
  BY CarvedIs, CarvedIsSequence
<1>2. n <= Cardinality(DOMAIN s.heads) /\ Cardinality(DOMAIN s.heads) \in Nat
  BY HeadsAreFinite
<1>3. s.capacity \in Nat
  BY DEF Carve!IsSource
<1>4. Carve!Handed(c) = SubSeq(c, 1, k)
  BY DEF Carve!Handed
<1> HIDE DEF c, n, V
<1>5. Len(c) = n
  BY <1>1
<1>6. k \in Nat /\ k <= n /\ k <= s.capacity /\ (n <= s.capacity => k = n)
  BY <1>1, <1>3, <1>5 DEF Carve!SmallerOf
<1> HIDE DEF k
<1>7. SubSeq(c, 1, k) = [i \in 1 .. k |-> c[i]]
  BY <1>1, <1>5, <1>6
<1>8. Len(SubSeq(c, 1, k)) = k
  BY <1>6, <1>7
<1> QED
  BY <1>1, <1>2, <1>3, <1>4, <1>6, <1>7, <1>8 DEF c

-----------------------------------------------------------------------------
\* What a genuine candidate promises.
LEMMA GenuineIsReal ==
  ASSUME Carve!CarveAssumption, NEW s, Carve!IsSource(s), source = s, NEW c, NEW to, Genuine(c, to)
  PROVE  /\ c.at + c.length <= s.length
         /\ c.at \in DOMAIN s.heads
         /\ s.heads[c.at].format = c.format
<1> DEFINE p == c.at
           end == Carve!EndOf(s.heads[p], p, to)
<1>1. p \in DOMAIN s.heads /\ p < to /\ to \in Nat /\ to <= s.length /\ c = Carve!Candidate(p, to)
  BY DEF Genuine
<1>2. p \in Nat /\ s.length \in Nat
  BY <1>1, FormatsAre
<1>3. end \in Nat /\ p <= end /\ end <= to
  BY <1>1, EndIsInside
<1>4. c.length = end - p /\ c.format = s.heads[p].format
  BY <1>1, CandidateIs
<1> HIDE DEF end
<1> QED
  BY <1>1, <1>2, <1>3, <1>4

LEMMA GenuineIsWhole ==
  ASSUME Carve!CarveAssumption, NEW s, Carve!IsSource(s), source = s, NEW c, NEW to, Genuine(c, to),
         NEW f \in s.files, c.at = f.at, c.format = f.format, ~c.partial,
         Carve!Rule(f.format) \in {"chunks", "declared", "footer"}, f.plain
  PROVE  Carve!Holds(c, f)
<1> DEFINE p == c.at
           h == s.heads[p]
           end == Carve!EndOf(h, p, to)
<1>1. p \in DOMAIN s.heads /\ p < to /\ to \in Nat /\ to <= s.length /\ c = Carve!Candidate(p, to)
  BY DEF Genuine
<1>2. p \in Nat /\ s.length \in Nat /\ h.size \in Nat
  BY <1>1, FormatsAre
<1>3. end \in Nat /\ p <= end /\ end <= to
  BY <1>1, EndIsInside
<1>4. c.length = end - p /\ c.format = h.format /\ ~Carve!Cut(h, p, end, to)
  BY <1>1, CandidateIs
<1>5. Carve!IsFile(f, s)
  BY DEF Carve!IsSource
<1>6. f.at \in Nat /\ f.length \in Nat /\ f.at = p /\ h.format = f.format
  BY <1>4, <1>5 DEF Carve!IsFile
<1>7. f.at + f.length <= end
  <2>1. CASE Carve!Rule(f.format) = "footer"
    <3>1. Carve!EndMarks(h.format, p + 1, end) # {}
      BY <1>4, <1>6, <2>1 DEF Carve!Cut
    <3>2. PICK q \in Carve!EndMarks(f.format, p + 1, end) : TRUE
      BY <1>6, <3>1
    <3>3. q \in DOMAIN s.ends /\ s.ends[q] = f.format /\ p + 1 <= q /\ q < end /\ q \in Nat
      BY <3>2 DEF Carve!EndMarks, Carve!IsSource
    <3>4. q \in f.at + 1 .. f.at + f.length - 1 => q = f.at + f.length - 1
      BY <1>5, <2>1, <3>3 DEF Carve!IsFile
    <3> HIDE DEF end
    <3>5. q \in f.at + 1 .. f.at + f.length - 1 \/ q >= f.at + f.length
      BY <1>2, <1>6, <3>3
    <3> QED
      BY <1>2, <1>3, <1>6, <3>3, <3>4, <3>5
  <2>2. CASE Carve!Rule(f.format) \in {"chunks", "declared"}
    <3>1. h.size = f.length
      BY <1>5, <1>6, <2>2 DEF Carve!IsFile
    <3>2. ~(p + h.size > end)
      BY <1>4, <1>6, <2>2 DEF Carve!Cut
    <3> HIDE DEF end
    <3> QED
      BY <1>2, <1>3, <1>6, <3>1, <3>2
  <2> QED
    BY <2>1, <2>2
<1> HIDE DEF end
<1> QED
  BY <1>2, <1>3, <1>4, <1>6, <1>7 DEF Carve!Holds

\* The piece of a file that lies in a window whole is the file.
LEMMA WholeFileEnds ==
  ASSUME Carve!CarveAssumption, NEW s, Carve!IsSource(s), source = s, NEW f \in s.files, Short(f),
         NEW to \in Nat, f.at + f.length <= to
  PROVE  /\ Carve!EndOf(s.heads[f.at], f.at, to) = f.at + f.length
         /\ ~Carve!Cut(s.heads[f.at], f.at, f.at + f.length, to)
<1> DEFINE p == f.at
           h == s.heads[p]
           end == Carve!EndOf(h, p, to)
<1>1. Carve!IsFile(f, s)
  BY DEF Carve!IsSource
<1>2. /\ p \in DOMAIN s.heads /\ p \in Nat /\ f.length \in Nat \ {0}
      /\ h.format = f.format /\ f.plain
  BY <1>1 DEF Carve!IsFile, Short
<1>3. CASE Carve!Rule(f.format) = "footer"
  <2> DEFINE footers == Carve!EndMarks(f.format, p + 1, to)
             mark == f.at + f.length - 1
  <2>1. f.length > 1 /\ mark \in Nat /\ p + 1 <= mark /\ mark < to
    BY <1>1, <1>2, <1>3 DEF Carve!IsFile
  <2>2. mark \in DOMAIN s.ends /\ s.ends[mark] = f.format
    <3>1. mark \in f.at + 1 .. f.at + f.length - 1
      BY <1>2, <2>1
    <3> QED
      BY <1>1, <1>2, <1>3, <3>1 DEF Carve!IsFile
  <2>3. mark \in footers
    BY <2>1, <2>2 DEF Carve!EndMarks
  <2>4. ASSUME NEW q \in footers PROVE mark <= q
    <3>1. q \in DOMAIN s.ends /\ s.ends[q] = f.format /\ p + 1 <= q /\ q \in Nat
      BY <2>4 DEF Carve!EndMarks, Carve!IsSource
    <3>2. q \in f.at + 1 .. f.at + f.length - 1 => q = mark
      BY <1>1, <1>2, <1>3, <3>1 DEF Carve!IsFile
    <3>3. q \in f.at + 1 .. f.at + f.length - 1 \/ q >= f.at + f.length
      BY <1>2, <3>1
    <3> QED
      BY <1>2, <2>1, <3>1, <3>2, <3>3
  <2>5. footers \subseteq Nat
    BY <1>2, MarksAre
  <2>6. Carve!Least(footers) = mark
    <3>1. Carve!Least(footers) \in footers /\ \A m \in footers : Carve!Least(footers) <= m
      BY <2>3, <2>5, LeastIs
    <3>2. mark <= Carve!Least(footers) /\ Carve!Least(footers) <= mark /\ Carve!Least(footers) \in Nat
      BY <2>3, <2>4, <2>5, <3>1
    <3> HIDE DEF footers, mark
    <3> QED
      BY <2>1, <3>2
  <2>7. end = Carve!Least(footers) + 1
    BY <1>2, <1>3, <2>3 DEF Carve!EndOf
  <2>8. mark \in Carve!EndMarks(h.format, p + 1, f.at + f.length)
    BY <1>2, <2>1, <2>2 DEF Carve!EndMarks
  <2>9. ~Carve!Cut(h, p, f.at + f.length, to)
    BY <1>2, <1>3, <2>8 DEF Carve!Cut
  <2> QED
    BY <1>2, <2>1, <2>6, <2>7, <2>9
<1>4. CASE Carve!Rule(f.format) \in {"chunks", "declared"}
  <2>1. h.size = f.length
    BY <1>1, <1>2, <1>4 DEF Carve!IsFile
  <2>2. end = f.at + f.length
    BY <1>2, <1>4, <2>1 DEF Carve!EndOf, Carve!SmallerOf
  <2>3. ~Carve!Cut(h, p, f.at + f.length, to)
    BY <1>2, <1>4, <2>1 DEF Carve!Cut
  <2> QED
    BY <2>2, <2>3
<1> QED
  BY <1>3, <1>4 DEF Short

\* Such a file is among the candidates of the window.
LEMMA WholeFileIsCarved ==
  ASSUME Carve!CarveAssumption, NEW s, Carve!IsSource(s), source = s, NEW f \in s.files, Short(f),
         NEW from \in Nat, NEW to \in Nat, from <= f.at, f.at + f.length <= to,
         Cardinality(DOMAIN s.heads) <= s.capacity
  PROVE  \E i \in DOMAIN Carve!Handed(Carve!Carved(from, to)) :
           Carve!Handed(Carve!Carved(from, to))[i] = Carve!Candidate(f.at, to)
<1>1. Carve!IsFile(f, s)
  BY DEF Carve!IsSource
<1>2. /\ f.at \in DOMAIN s.heads /\ f.at \in Nat /\ f.length \in Nat \ {0}
      /\ s.heads[f.at].format = f.format /\ s.heads[f.at].plausible
  BY <1>1 DEF Carve!IsFile
<1>3. Carve!EndOf(s.heads[f.at], f.at, to) = f.at + f.length
  BY WholeFileEnds
<1>4. Smallest \in Nat /\ f.length >= Smallest /\ Carve!Enabled(f.format)
  BY <1>2 DEF Short, Carve!CarveAssumption
<1>5. Carve!Valid(s.heads[f.at], f.at, f.at + f.length)
  BY <1>2, <1>4 DEF Carve!Valid
<1>6. f.at \in Carve!Heads(from, to)
  BY <1>2, <1>3, <1>4, <1>5 DEF Carve!Heads
<1>7. PICK i \in DOMAIN Carve!Carved(from, to) : Carve!Carved(from, to)[i] = Carve!Candidate(f.at, to)
  BY <1>6, CarvedIs
<1> QED
  BY <1>7, HandedIs

\* The next window begins where one ends less the overlap, so that a short file
\* that begins in the chunk ends in the window.
LEMMA WindowReaches ==
  ASSUME Carve!CarveAssumption, NEW s, Carve!IsSource(s), source = s, s.known, offset \in Nat,
         Carve!UnknownLength \/ offset < Carve!Total,
         NEW f \in s.files, Short(f), offset <= f.at, f.at < offset + Chunk
  PROVE  /\ Carve!WindowEnd(Carve!WindowLength) \in Nat
         /\ f.at + f.length <= Carve!WindowEnd(Carve!WindowLength)
<1>1. Carve!IsFile(f, s)
  BY DEF Carve!IsSource
<1>2. /\ f.at \in Nat /\ f.length \in Nat \ {0} /\ f.at + f.length <= s.length /\ s.length \in Nat
      /\ f.length <= Overlap
      /\ Chunk \in Nat /\ Overlap \in Nat
  BY <1>1 DEF Carve!IsFile, Short, Carve!IsSource, Carve!CarveAssumption
<1>3. Carve!Total = s.length /\ offset < s.length
  BY <1>2 DEF Carve!Total
<1>4. /\ Carve!WindowLength = Carve!SmallerOf(s.length - offset, Chunk + Overlap)
      /\ Carve!WindowLength \in Nat \ {0}
  BY <1>2, <1>3 DEF Carve!WindowLength, Carve!UnknownLength, Carve!SmallerOf
<1>5. Carve!WindowEnd(Carve!WindowLength) = Carve!SmallerOf(s.length, offset + Carve!WindowLength)
  BY <1>2, <1>3, <1>4 DEF Carve!WindowEnd
<1> QED
  BY <1>2, <1>3, <1>4, <1>5 DEF Carve!SmallerOf

-----------------------------------------------------------------------------
(* The invariant is kept. *)

\* What a source yields depends on nothing else.
LEMMA SameCells ==
  ASSUME source' = source
  PROVE  /\ \A h, p, to : Carve!EndOf(h, p, to)' = Carve!EndOf(h, p, to)
         /\ \A h, p, end, to : Carve!Cut(h, p, end, to)' = Carve!Cut(h, p, end, to)
         /\ \A p, to : Carve!Candidate(p, to)' = Carve!Candidate(p, to)
         /\ \A c, to : Genuine(c, to)' <=> Genuine(c, to)
         /\ \A from, to : Carve!Carved(from, to)' = Carve!Carved(from, to)
<1>1. \A format, from, to : Carve!EndMarks(format, from, to)' = Carve!EndMarks(format, from, to)
  BY DEF Carve!EndMarks
<1>2. ASSUME NEW h, NEW p, NEW to PROVE Carve!EndOf(h, p, to)' = Carve!EndOf(h, p, to)
  BY <1>1 DEF Carve!EndOf
<1>3. ASSUME NEW h, NEW p, NEW end, NEW to PROVE Carve!Cut(h, p, end, to)' = Carve!Cut(h, p, end, to)
  BY <1>1 DEF Carve!Cut
<1>4. ASSUME NEW p, NEW to PROVE Carve!Candidate(p, to)' = Carve!Candidate(p, to)
  BY <1>2, <1>3 DEF Carve!Candidate
<1>5. ASSUME NEW c, NEW to PROVE Genuine(c, to)' <=> Genuine(c, to)
  BY <1>4 DEF Genuine
<1>6. ASSUME NEW from, NEW to PROVE Carve!Carved(from, to)' = Carve!Carved(from, to)
  <2>1. Carve!Heads(from, to)' = Carve!Heads(from, to)
    BY <1>2 DEF Carve!Heads, Carve!Enabled
  <2>2. PICK S : S = Carve!Heads(from, to)
    OBVIOUS
  <2> DEFINE chosen(i) == CHOOSE p \in S : Carve!Cardinality({q \in S : q < p}) = i - 1
  <2>3. Carve!Carved(from, to) = [i \in 1 .. Carve!Cardinality(S) |-> Carve!Candidate(chosen(i), to)]
    BY <2>2 DEF Carve!Carved
  <2>4. Carve!Carved(from, to)' = [i \in 1 .. Carve!Cardinality(S) |-> Carve!Candidate(chosen(i), to)']
    BY <2>1, <2>2 DEF Carve!Carved
  <2> HIDE DEF chosen
  <2> QED
    BY <1>4, <2>3, <2>4
<1> QED
  BY <1>2, <1>3, <1>4, <1>5, <1>6

LEMMA SameAnswer ==
  ASSUME source' = source, offset' = offset
  PROVE  Carve!Handed(Carve!Carved(offset, Carve!WindowEnd(Carve!WindowLength)))'
           = Carve!Handed(Carve!Carved(offset, Carve!WindowEnd(Carve!WindowLength)))
<1>1. Carve!WindowLength' = Carve!WindowLength
  BY DEF Carve!WindowLength, Carve!UnknownLength, Carve!Total
<1>2. Carve!WindowEnd(Carve!WindowLength)' = Carve!WindowEnd(Carve!WindowLength)
  BY <1>1 DEF Carve!WindowEnd
<1>3. PICK from, to : from = offset /\ to = Carve!WindowEnd(Carve!WindowLength)
  OBVIOUS
<1>4. Carve!Carved(offset, Carve!WindowEnd(Carve!WindowLength))' = Carve!Carved(from, to)'
  BY <1>2, <1>3
<1>5. Carve!Carved(from, to)' = Carve!Carved(from, to)
  BY SameCells
<1> QED
  BY <1>3, <1>4, <1>5 DEF Carve!Handed

LEMMA CarveStarts ==
  ASSUME Carve!CarveAssumption, Carve!Init
  PROVE  CarveInv
<1>1. source \in CarveSources /\ Carve!IsSource(source)
  BY DEF Carve!Init, Carve!CarveAssumption
<1>2. source.capacity \in Nat /\ \A f \in source.files : f.at \in Nat
  BY <1>1 DEF Carve!IsSource, Carve!IsFile
<1>3. Covered(offset)
  BY <1>2 DEF Covered, Carve!Init
<1>4. Len(answer) <= source.capacity
  BY <1>2 DEF Carve!Init
<1> QED
  BY <1>1, <1>3, <1>4 DEF CarveInv, Carve!Init

LEMMA ScanWindowKeeps ==
  ASSUME Carve!CarveAssumption, CarveInv, Carve!ScanWindow
  PROVE  CarveInv'
<1>1. Carve!IsSource(source) /\ pc = "loop" /\ offset \in Nat /\ (Carve!UnknownLength \/ offset < Carve!Total)
  BY DEF CarveInv, Carve!CarveAssumption, Carve!ScanWindow
<1>2. CASE pc' = "done" /\ UNCHANGED <<source, offset, answer, aggregated>>
           /\ status' \in {"refused", "failed"}
  <2>1. \A c, to : Genuine(c, to)' <=> Genuine(c, to)
    BY <1>2, SameCells
  <2> QED
    BY <1>2, <2>1 DEF CarveInv
<1>3. CASE /\ pc' = "merge"
           /\ answer' = Carve!Handed(Carve!Carved(offset, Carve!WindowEnd(Carve!WindowLength)))
           /\ UNCHANGED <<source, offset, aggregated, status>>
  <2>1. \A c, to : Genuine(c, to)' <=> Genuine(c, to)
    BY <1>3, SameCells
  <2>2. Len(answer') <= source'.capacity
    BY <1>1, <1>3, HandedIs
  <2>3. Covered(offset)'
    <3>1. Covered(offset)
      BY <1>1 DEF CarveInv
    <3> QED
      BY <1>3, <3>1 DEF Covered, IsFound, Short, Carve!Enabled
  <2>4. Carve!Handed(Carve!Carved(offset, Carve!WindowEnd(Carve!WindowLength)))'
          = Carve!Handed(Carve!Carved(offset, Carve!WindowEnd(Carve!WindowLength)))
    BY <1>3, SameAnswer
  <2>5. (Carve!UnknownLength \/ offset < Carve!Total)'
    BY <1>1, <1>3 DEF Carve!UnknownLength, Carve!Total
  <2> QED
    BY <1>1, <1>3, <2>1, <2>2, <2>3, <2>4, <2>5 DEF CarveInv
<1> QED
  BY <1>2, <1>3 DEF Carve!ScanWindow, Carve!Finish

\* After a window the short files that begin in its chunk are found.
LEMMA MergedCovers ==
  ASSUME Carve!CarveAssumption, CarveInv, Carve!Merge
  PROVE  \A n \in Nat : n <= offset + Chunk => Covered(n)'
<1> SUFFICES ASSUME NEW n \in Nat, n <= offset + Chunk,
                    source.known, Cardinality(DOMAIN source.heads) <= source.capacity,
                    NEW f \in source.files, Short(f), f.at < n
             PROVE  IsFound(f)'
  BY DEF Covered, Carve!Merge, Short, Carve!Enabled
<1> DEFINE s == source
           to == Carve!WindowEnd(Carve!WindowLength)
<1>1. /\ Carve!IsSource(s) /\ offset \in Nat /\ (Carve!UnknownLength \/ offset < Carve!Total)
      /\ answer = Carve!Handed(Carve!Carved(offset, to)) /\ Covered(offset)
      /\ aggregated \subseteq aggregated' /\ pc = "merge"
      /\ \A c \in aggregated : \E t : Genuine(c, t)
  BY DEF CarveInv, Carve!CarveAssumption, Carve!Merge
<1>2. f.at \in Nat /\ f.length \in Nat /\ f.at \in DOMAIN s.heads /\ Chunk \in Nat
      /\ s.heads[f.at].format = f.format
  BY <1>1 DEF Carve!IsSource, Carve!IsFile, Carve!CarveAssumption
<1>3. CASE f.at < offset
  BY <1>1, <1>3 DEF Covered, IsFound
<1>4. CASE offset <= f.at
  <2>1. f.at < offset + Chunk
    BY <1>1, <1>2
  <2>2. to \in Nat /\ f.at + f.length <= to
    BY <1>1, <1>4, <2>1, WindowReaches
  <2>3. \E i \in DOMAIN answer : answer[i] = Carve!Candidate(f.at, to)
    <3> HIDE DEF to
    <3> QED
      BY <1>1, <1>4, <2>2, WholeFileIsCarved
  <2> DEFINE c == Carve!Candidate(f.at, to)
  <2> HIDE DEF to
  <2>4. c.at = f.at /\ c.format = f.format /\ c.length = f.length /\ ~c.partial
    <3>1. /\ Carve!EndOf(s.heads[f.at], f.at, to) = f.at + f.length
          /\ ~Carve!Cut(s.heads[f.at], f.at, f.at + f.length, to)
      BY <1>1, <2>2, WholeFileEnds
    <3>2. f.at + f.length - f.at = f.length
      BY <1>2
    <3> QED
      BY <1>1, <1>2, <3>1, <3>2, CandidateIs
  <2>5. CASE \A b \in aggregated : ~Carve!SameKey(b, c)
    <3>1. c \in {answer[i] : i \in DOMAIN answer}
      BY <2>3
    <3>2. c \in Carve!NewOf(answer)
      BY <2>5, <3>1 DEF Carve!NewOf
    <3>3. c \in aggregated'
      BY <3>2 DEF Carve!Merge
    <3> QED
      BY <2>4, <3>3 DEF IsFound
  <2>6. CASE \E b \in aggregated : Carve!SameKey(b, c)
    <3>1. PICK b \in aggregated : Carve!SameKey(b, c)
      BY <2>6
    <3>2. b.at = f.at /\ b.format = f.format /\ b.length = f.length
      BY <2>4, <3>1 DEF Carve!SameKey
    <3>3. PICK t : Genuine(b, t)
      BY <1>1
    <3>4. /\ t \in Nat /\ f.at < t /\ b = Carve!Candidate(f.at, t)
          /\ b.length = Carve!EndOf(s.heads[f.at], f.at, t) - f.at
          /\ b.partial = Carve!Cut(s.heads[f.at], f.at, Carve!EndOf(s.heads[f.at], f.at, t), t)
      BY <1>1, <3>2, <3>3, CandidateIs DEF Genuine
    <3>5. /\ Carve!EndOf(s.heads[f.at], f.at, t) \in Nat
          /\ Carve!EndOf(s.heads[f.at], f.at, t) <= t
      BY <1>1, <1>2, <3>4, EndIsInside
    <3>6. Carve!EndOf(s.heads[f.at], f.at, t) = f.at + f.length
      BY <1>2, <3>2, <3>4, <3>5
    <3>7. ~Carve!Cut(s.heads[f.at], f.at, f.at + f.length, t)
      BY <1>1, <3>4, <3>5, <3>6, WholeFileEnds
    <3> QED
      BY <1>1, <3>1, <3>2, <3>4, <3>6, <3>7 DEF IsFound
  <2> QED
    BY <2>5, <2>6
<1> QED
  BY <1>1, <1>2, <1>3, <1>4

LEMMA MergeKeeps ==
  ASSUME Carve!CarveAssumption, CarveInv, Carve!Merge
  PROVE  CarveInv'
<1>1. /\ Carve!IsSource(source) /\ pc = "merge" /\ offset \in Nat /\ Chunk \in Nat
      /\ (Carve!UnknownLength \/ offset < Carve!Total)
      /\ answer = Carve!Handed(Carve!Carved(offset, Carve!WindowEnd(Carve!WindowLength)))
      /\ source' = source /\ answer' = answer
  BY DEF CarveInv, Carve!CarveAssumption, Carve!Merge
<1>2. \A c, to : Genuine(c, to)' <=> Genuine(c, to)
  BY <1>1, SameCells
<1>3. \A c \in aggregated' : \E to : Genuine(c, to)'
  <2> SUFFICES ASSUME NEW c \in aggregated' PROVE \E to : Genuine(c, to)
    BY <1>2
  <2>1. CASE c \in aggregated
    BY <2>1 DEF CarveInv
  <2>2. CASE c \in Carve!NewOf(answer)
    <3>1. PICK i \in DOMAIN answer : c = answer[i]
      BY <2>2 DEF Carve!NewOf
    <3>2. Carve!WindowLength \in Nat
      BY <1>1, LengthIs
    <3>3. /\ i \in DOMAIN Carve!Carved(offset, Carve!WindowEnd(Carve!WindowLength))
          /\ c = Carve!Carved(offset, Carve!WindowEnd(Carve!WindowLength))[i]
      BY <1>1, <3>1, HandedIs
    <3> QED
      BY <1>1, <3>2, <3>3, CarvedAreGenuine
  <2> QED
    BY <2>1, <2>2 DEF Carve!Merge
<1>4. \A n \in Nat : n <= offset + Chunk => Covered(n)'
  BY MergedCovers
<1>5. CASE Carve!IsLast /\ pc' = "done" /\ status' = "success" /\ offset' = offset
  <2>1. Covered(source.length)'
    <3> SUFFICES ASSUME source.known PROVE Covered(source.length)'
      BY <1>1 DEF Covered
    <3>1. source.length \in Nat /\ Carve!Total = source.length
      BY <1>1 DEF Carve!IsSource, Carve!Total
    <3>2. source.length <= offset + Chunk
      BY <1>1, <1>5, <3>1 DEF Carve!IsLast, Carve!UnknownLength
    <3>3. \A n \in Nat : n = source.length => Covered(n)'
      BY <1>1, <1>4, <3>1, <3>2
    <3>4. Covered(source.length)' <=> \A n : n = source.length => Covered(n)'
      BY <1>1 DEF Covered
    <3> QED
      BY <3>1, <3>3, <3>4
  <2> QED
    BY <1>1, <1>3, <1>5, <2>1 DEF CarveInv
<1>6. CASE pc' = "loop" /\ offset' = Carve!NextWindow /\ status' = status
  <2>1. offset' \in Nat /\ offset' = offset + Chunk
    BY <1>1, <1>6 DEF Carve!NextWindow
  <2>2. Covered(offset)'
    <3>1. \A n \in Nat : n = offset' => Covered(n)'
      BY <1>1, <1>4, <2>1
    <3>2. Covered(offset)' <=> \A n : n = offset' => Covered(n)'
      BY DEF Covered
    <3> QED
      BY <2>1, <3>1, <3>2
  <2> QED
    BY <1>1, <1>3, <1>6, <2>1, <2>2 DEF CarveInv
<1> QED
  BY <1>5, <1>6 DEF Carve!Merge

LEMMA CarveContinues ==
  ASSUME Carve!CarveAssumption, CarveInv, Carve!Next
  PROVE  CarveInv'
<1>1. CASE Carve!Cancel
  <2>1. \A c, to : Genuine(c, to)' <=> Genuine(c, to)
    BY <1>1, SameCells DEF Carve!Cancel, Carve!Finish
  <2> QED
    BY <1>1, <2>1 DEF Carve!Cancel, Carve!Finish, CarveInv
<1> QED
  BY <1>1, ScanWindowKeeps, MergeKeeps DEF Carve!Next

\* A step that changes nothing of the carving keeps it.
LEMMA CarveStutters ==
  ASSUME CarveInv, UNCHANGED Carve!vars
  PROVE  CarveInv'
<1>1. \A c, to : Genuine(c, to)' <=> Genuine(c, to)
  BY SameCells DEF Carve!vars
<1>2. (Covered(offset)' <=> Covered(offset)) /\ (Covered(source.length)' <=> Covered(source.length))
  BY DEF Carve!vars, Covered, IsFound, Short, Carve!Enabled
<1>3. Carve!Handed(Carve!Carved(offset, Carve!WindowEnd(Carve!WindowLength)))'
        = Carve!Handed(Carve!Carved(offset, Carve!WindowEnd(Carve!WindowLength)))
  BY SameAnswer DEF Carve!vars
<1>4. (Carve!UnknownLength \/ offset < Carve!Total)' <=> (Carve!UnknownLength \/ offset < Carve!Total)
  BY DEF Carve!vars, Carve!UnknownLength, Carve!Total
<1> QED
  BY <1>1, <1>2, <1>3, <1>4 DEF Carve!vars, CarveInv

\* What carving promises follows from the invariant.
LEMMA CarvePromises ==
  ASSUME Carve!CarveAssumption, CarveInv
  PROVE  Carve!RangesAreReal /\ Carve!UnmarkedIsWhole /\ Carve!ShortFilesFound
<1>1. Carve!IsSource(source) /\ \A c \in aggregated : \E to : Genuine(c, to)
  BY DEF CarveInv, Carve!CarveAssumption
<1>2. Carve!RangesAreReal
  BY <1>1, GenuineIsReal DEF Carve!RangesAreReal
<1>3. Carve!UnmarkedIsWhole
  BY <1>1, GenuineIsWhole DEF Carve!UnmarkedIsWhole
<1>4. Carve!ShortFilesFound
  <2> SUFFICES ASSUME Carve!Succeeded, source.known,
                      Cardinality(DOMAIN source.heads) <= source.capacity,
                      NEW f \in source.files, Short(f)
               PROVE  IsFound(f)
    BY CarveCounts DEF Carve!ShortFilesFound, Short, IsFound
  <2>1. f.at < source.length
    BY <1>1 DEF Carve!IsSource, Carve!IsFile
  <2>2. Covered(source.length)
    BY DEF CarveInv, Carve!Succeeded
  <2> QED
    BY <2>1, <2>2 DEF Covered
<1> QED
  BY <1>2, <1>3, <1>4

-----------------------------------------------------------------------------
(* Records *)

\* A remainder smaller than the divisor makes the quotient.
LEMMA QuotientIs ==
  ASSUME NEW m \in Nat \ {0}, NEW a \in Nat, NEW q \in Nat, NEW r \in Nat,
         a = m * q + r, r < m
  PROVE  a \div m = q
<1> DEFINE p == a \div m
           t == a % m
<1>1. p \in Nat /\ t \in 0 .. m - 1 /\ a = m * p + t
  BY SMTT(20)
<1> HIDE DEF p, t
<1>2. m * p \in Nat /\ m * q \in Nat
  BY <1>1
<1>3. ~(p < q)
  <2> SUFFICES ASSUME p < q PROVE FALSE
    OBVIOUS
  <2>1. m * p + m <= m * q
    BY <1>1, Larger
  <2> QED
    BY <1>1, <1>2, <2>1
<1>4. ~(q < p)
  <2> SUFFICES ASSUME q < p PROVE FALSE
    OBVIOUS
  <2>1. m * q + m <= m * p
    BY <1>1, Larger
  <2> QED
    BY <1>1, <1>2, <2>1
<1> QED
  BY <1>1, <1>3, <1>4 DEF p

-----------------------------------------------------------------------------
(* Cluster runs: what is encoded is decoded *)

Bytes == 0 .. 255

\* f reads the runs from byte n on and from each byte after it.
Reads(pairs, n, f) ==
  f = [c \in n .. Len(pairs) + 1 |->
         IF Mft!EndOfRuns(pairs, c) THEN [error |-> Mft!NoError, runs |-> <<>>]
         ELSE IF Mft!RunError(pairs, c) # Mft!NoError
         THEN [error |-> Mft!RunError(pairs, c), runs |-> <<>>]
         ELSE [error |-> f[Mft!NextHeader(pairs, c)].error,
               runs |-> <<Mft!RunAt(pairs, c)>> \o f[Mft!NextHeader(pairs, c)].runs]]

\* A piece that is not refused ends behind its header and within the pairs.
LEMMA PieceEnds ==
  ASSUME NEW pairs \in Seq(Bytes), NEW c \in 1 .. Len(pairs) + 1,
         ~Mft!EndOfRuns(pairs, c), Mft!RunError(pairs, c) = Mft!NoError
  PROVE  Mft!NextHeader(pairs, c) \in c + 1 .. Len(pairs) + 1
<1>1. c \in 1 .. Len(pairs) /\ Len(pairs) \in Nat
  BY DEF Mft!EndOfRuns
<1>2. PICK b : b = pairs[c]
  OBVIOUS
<1>3. b \in 0 .. 255
  <2>1. b \in Bytes
    BY <1>1, <1>2
  <2> QED
    BY <2>1 DEF Bytes
<1>4. b % 16 \in Nat /\ b \div 16 \in Nat
  BY <1>3
<1>5. Mft!NextHeader(pairs, c) = c + (b % 16) + (b \div 16) + 1
  BY <1>2 DEF Mft!NextHeader
<1>6. ~(Mft!NextHeader(pairs, c) > Len(pairs) + 1)
  BY DEF Mft!RunError, Mft!NoError
<1> QED
  BY <1>1, <1>4, <1>5, <1>6

LEMMA ReadsExist ==
  ASSUME NEW pairs \in Seq(Bytes)
  PROVE  \E f : Reads(pairs, 1, f)
<1> DEFINE L == Len(pairs)
           Empty == [error |-> Mft!NoError, runs |-> <<>>]
           T == {m \in Nat : m <= L => \E f : Reads(pairs, (L + 1) - m, f)}
<1>1. L \in Nat
  OBVIOUS
<1>2. 0 \in T
  <2> DEFINE f == [c \in L + 1 .. L + 1 |-> Empty]
  <2>1. \A c \in L + 1 .. L + 1 : Mft!EndOfRuns(pairs, c)
    BY <1>1 DEF Mft!EndOfRuns
  <2>2. f = [c \in L + 1 .. L + 1 |->
               IF Mft!EndOfRuns(pairs, c) THEN Empty
               ELSE IF Mft!RunError(pairs, c) # Mft!NoError
               THEN [error |-> Mft!RunError(pairs, c), runs |-> <<>>]
               ELSE [error |-> f[Mft!NextHeader(pairs, c)].error,
                     runs |-> <<Mft!RunAt(pairs, c)>> \o f[Mft!NextHeader(pairs, c)].runs]]
    BY <2>1
  <2>3. (L + 1) - 0 = L + 1
    BY <1>1
  <2>4. Reads(pairs, L + 1, f)
    <3> HIDE DEF f
    <3> QED
      BY <2>2 DEF Reads
  <2> QED
    BY <2>3, <2>4
<1>3. ASSUME NEW m \in T PROVE m + 1 \in T
  <2> SUFFICES ASSUME m + 1 <= L PROVE \E f : Reads(pairs, (L + 1) - (m + 1), f)
    OBVIOUS
  <2>1. PICK n : n = (L + 1) - m
    OBVIOUS
  <2>2. n \in 2 .. L + 1 /\ (L + 1) - (m + 1) = n - 1
    BY <1>1, <2>1
  <2>3. PICK f : Reads(pairs, n, f)
    BY <1>1, <2>1
  <2> DEFINE Body(c, h) ==
               IF Mft!EndOfRuns(pairs, c) THEN [error |-> Mft!NoError, runs |-> <<>>]
               ELSE IF Mft!RunError(pairs, c) # Mft!NoError
               THEN [error |-> Mft!RunError(pairs, c), runs |-> <<>>]
               ELSE [error |-> h[Mft!NextHeader(pairs, c)].error,
                     runs |-> <<Mft!RunAt(pairs, c)>> \o h[Mft!NextHeader(pairs, c)].runs]
             g == [c \in n - 1 .. L + 1 |-> Body(c, f)]
  <2>4. f = [c \in n .. L + 1 |-> Body(c, f)]
    BY <2>3 DEF Reads
  <2>5. \A c \in n .. L + 1 : g[c] = f[c]
    <3> HIDE DEF Body
    <3>1. \A c \in n .. L + 1 : f[c] = Body(c, f)
      BY <2>4
    <3>2. \A c \in n - 1 .. L + 1 : g[c] = Body(c, f)
      OBVIOUS
    <3>3. \A c \in n .. L + 1 : c \in n - 1 .. L + 1
      BY <1>1, <2>2
    <3> HIDE DEF g
    <3> QED
      BY <3>1, <3>2, <3>3
  <2>6. \A c \in n - 1 .. L + 1 : Body(c, f) = Body(c, g)
    <3> HIDE DEF g
    <3> TAKE c \in n - 1 .. L + 1
    <3>1. CASE Mft!EndOfRuns(pairs, c) \/ Mft!RunError(pairs, c) # Mft!NoError
      BY <3>1
    <3>2. CASE ~(Mft!EndOfRuns(pairs, c) \/ Mft!RunError(pairs, c) # Mft!NoError)
      <4>1. c \in 1 .. L + 1
        BY <1>1, <2>2
      <4>2. Mft!NextHeader(pairs, c) \in c + 1 .. L + 1
        BY <3>2, <4>1, PieceEnds
      <4>3. Mft!NextHeader(pairs, c) \in n .. L + 1
        BY <1>1, <2>2, <4>1, <4>2
      <4>4. f[Mft!NextHeader(pairs, c)] = g[Mft!NextHeader(pairs, c)]
        BY <2>5, <4>3
      <4> QED
        BY <4>4
    <3> QED
      BY <3>1, <3>2
  <2>7. g = [c \in n - 1 .. L + 1 |-> Body(c, g)]
    <3> HIDE DEF Body
    <3> QED
      BY <2>6
  <2>8. Reads(pairs, n - 1, g)
    <3> HIDE DEF g
    <3> QED
      BY <2>7 DEF Reads
  <2> QED
    BY <2>2, <2>8
<1>4. T = Nat
  <2>1. T \subseteq Nat
    OBVIOUS
  <2> HIDE DEF T
  <2> QED
    BY <1>2, <1>3, <2>1, Inductive
<1>5. \E f : Reads(pairs, (L + 1) - L, f)
  BY <1>1, <1>4
<1>6. (L + 1) - L = 1
  BY <1>1
<1> QED
  BY <1>5, <1>6

\* What is read, byte by byte.
LEMMA RawRunsAre ==
  ASSUME NEW pairs \in Seq(Bytes)
  PROVE  \E f :
           /\ Mft!RawRuns(pairs) = f[1]
           /\ \A c \in 1 .. Len(pairs) + 1 :
                f[c] = IF Mft!EndOfRuns(pairs, c) THEN [error |-> Mft!NoError, runs |-> <<>>]
                       ELSE IF Mft!RunError(pairs, c) # Mft!NoError
                       THEN [error |-> Mft!RunError(pairs, c), runs |-> <<>>]
                       ELSE [error |-> f[Mft!NextHeader(pairs, c)].error,
                             runs |-> <<Mft!RunAt(pairs, c)>>
                                        \o f[Mft!NextHeader(pairs, c)].runs]
<1> DEFINE f == CHOOSE g : Reads(pairs, 1, g)
<1>1. Mft!RawRuns(pairs) = f[1]
  BY DEF Mft!RawRuns, Reads
<1>2. Reads(pairs, 1, f)
  BY ReadsExist
<1> HIDE DEF f
<1>3. \A c \in 1 .. Len(pairs) + 1 :
        f[c] = IF Mft!EndOfRuns(pairs, c) THEN [error |-> Mft!NoError, runs |-> <<>>]
               ELSE IF Mft!RunError(pairs, c) # Mft!NoError
               THEN [error |-> Mft!RunError(pairs, c), runs |-> <<>>]
               ELSE [error |-> f[Mft!NextHeader(pairs, c)].error,
                     runs |-> <<Mft!RunAt(pairs, c)>> \o f[Mft!NextHeader(pairs, c)].runs]
  BY <1>2 DEF Reads
<1> QED
  BY <1>1, <1>3

\* h gives the headers of n runs and the byte behind them.
Headers(pairs, n, h) ==
  h = [k \in 1 .. n + 1 |-> IF k = 1 THEN 1 ELSE Mft!NextHeader(pairs, h[k - 1])]

LEMMA HeadersExist ==
  ASSUME NEW pairs
  PROVE  \A n \in Nat : \E h : Headers(pairs, n, h)
<1> DEFINE T == {n \in Nat : \E h : Headers(pairs, n, h)}
<1>1. 0 \in T
  <2> DEFINE h == [k \in 1 .. 0 + 1 |-> 1]
  <2>1. h = [k \in 1 .. 0 + 1 |-> IF k = 1 THEN 1 ELSE Mft!NextHeader(pairs, h[k - 1])]
    OBVIOUS
  <2>2. Headers(pairs, 0, h)
    <3> HIDE DEF h
    <3> QED
      BY <2>1 DEF Headers
  <2> QED
    BY <2>2
<1>2. ASSUME NEW n \in T PROVE n + 1 \in T
  <2>1. PICK h : Headers(pairs, n, h)
    OBVIOUS
  <2> DEFINE g == [k \in 1 .. (n + 1) + 1 |->
                     IF k = 1 THEN 1 ELSE Mft!NextHeader(pairs, h[k - 1])]
  <2>2. \A k \in 1 .. n + 1 : g[k] = h[k]
    <3>1. \A k \in 1 .. n + 1 : h[k] = IF k = 1 THEN 1 ELSE Mft!NextHeader(pairs, h[k - 1])
      BY <2>1 DEF Headers
    <3>2. \A k \in 1 .. n + 1 : g[k] = IF k = 1 THEN 1 ELSE Mft!NextHeader(pairs, h[k - 1])
      OBVIOUS
    <3> HIDE DEF g
    <3> QED
      BY <3>1, <3>2
  <2>3. \A k \in 1 .. (n + 1) + 1 : k # 1 => k - 1 \in 1 .. n + 1
    OBVIOUS
  <2>4. \A k \in 1 .. (n + 1) + 1 :
          k # 1 => Mft!NextHeader(pairs, h[k - 1]) = Mft!NextHeader(pairs, g[k - 1])
    BY <2>2, <2>3
  <2>5. g = [k \in 1 .. (n + 1) + 1 |-> IF k = 1 THEN 1 ELSE Mft!NextHeader(pairs, g[k - 1])]
    BY <2>4
  <2>6. Headers(pairs, n + 1, g)
    <3> HIDE DEF g
    <3> QED
      BY <2>5 DEF Headers
  <2> QED
    BY <2>6
<1>3. T = Nat
  <2>1. T \subseteq Nat
    OBVIOUS
  <2> HIDE DEF T
  <2> QED
    BY <1>1, <1>2, <2>1, Inductive
<1> QED
  BY <1>3

\* The runs as they are encoded: h gives the place of each header.
Encoded(pairs, runs, h) ==
  /\ h[1] = 1
  /\ \A k \in 1 .. Len(runs) :
       /\ h[k + 1] = Mft!NextHeader(pairs, h[k])
       /\ h[k] <= Len(pairs) /\ Mft!LegalHeader(pairs[h[k]])
       /\ h[k + 1] <= Len(pairs) + 1
       /\ Mft!RunAt(pairs, h[k]).count = runs[k].count
       /\ Mft!RunAt(pairs, h[k]).sparse = runs[k].sparse
       /\ runs[k].lcn \in Mft!Longs
       /\ runs[k].sparse => runs[k].lcn = 0
       /\ ~runs[k].sparse =>
            Mft!RunAt(pairs, h[k]).distance = runs[k].lcn - Mft!PlacedBefore(runs, k)
  /\ Mft!EndOfRuns(pairs, h[Len(runs) + 1])

LEMMA EncodedIs ==
  ASSUME NEW pairs, NEW runs, Mft!Encodes(pairs, runs)
  PROVE  runs \in Seq(Mft!Run) /\ \E h : Encoded(pairs, runs, h)
<1>1. runs \in Seq(Mft!Run) /\ Len(runs) \in Nat
  BY DEF Mft!Encodes
<1> DEFINE n == Len(runs)
           h == CHOOSE g : Headers(pairs, n, g)
<1>2. Headers(pairs, n, h)
  BY <1>1, HeadersExist
<1>3. /\ \A k \in 1 .. n :
           /\ h[k] <= Len(pairs) /\ Mft!LegalHeader(pairs[h[k]])
           /\ h[k + 1] <= Len(pairs) + 1
           /\ Mft!RunAt(pairs, h[k]).count = runs[k].count
           /\ Mft!RunAt(pairs, h[k]).sparse = runs[k].sparse
           /\ runs[k].lcn \in Mft!Longs
           /\ IF runs[k].sparse THEN runs[k].lcn = 0
              ELSE Mft!RunAt(pairs, h[k]).distance = runs[k].lcn - Mft!PlacedBefore(runs, k)
      /\ Mft!EndOfRuns(pairs, h[n + 1])
  BY DEF Mft!Encodes, Headers
<1> HIDE DEF h
<1>4. \A k \in 1 .. n + 1 : h[k] = IF k = 1 THEN 1 ELSE Mft!NextHeader(pairs, h[k - 1])
  BY <1>2 DEF Headers
<1>5. h[1] = 1
  BY <1>1, <1>4
<1>6. \A k \in 1 .. n : h[k + 1] = Mft!NextHeader(pairs, h[k])
  <2> TAKE k \in 1 .. n
  <2>1. k + 1 \in 1 .. n + 1 /\ k + 1 # 1 /\ (k + 1) - 1 = k
    BY <1>1
  <2> QED
    BY <1>4, <2>1
<1>7. Encoded(pairs, runs, h)
  BY <1>3, <1>5, <1>6 DEF Encoded
<1> QED
  BY <1>1, <1>7

\* Headers are bytes of the pairs.
LEMMA HeadersInside ==
  ASSUME NEW pairs \in Seq(Bytes), NEW runs, Len(runs) \in Nat,
         NEW h, Encoded(pairs, runs, h)
  PROVE  /\ \A k \in 1 .. Len(runs) : h[k] \in 1 .. Len(pairs)
         /\ h[Len(runs) + 1] \in 1 .. Len(pairs) + 1
<1> DEFINE n == Len(runs)
           T == {k \in Nat : k <= n => h[k + 1] \in 1 .. Len(pairs) + 1}
<1>1. Len(pairs) \in Nat /\ n \in Nat
  OBVIOUS
<1>2. 0 \in T
  BY <1>1 DEF Encoded
<1>3. ASSUME NEW k \in T PROVE k + 1 \in T
  <2> SUFFICES ASSUME k + 1 <= n PROVE h[(k + 1) + 1] \in 1 .. Len(pairs) + 1
    OBVIOUS
  <2>1. k + 1 \in 1 .. n /\ h[k + 1] \in 1 .. Len(pairs) + 1
    BY <1>1
  <2>2. /\ h[(k + 1) + 1] = Mft!NextHeader(pairs, h[k + 1])
        /\ h[k + 1] <= Len(pairs) /\ h[(k + 1) + 1] <= Len(pairs) + 1
    BY <2>1 DEF Encoded
  <2>3. PICK b : b = pairs[h[k + 1]]
    OBVIOUS
  <2>4. b \in 0 .. 255
    <3>1. h[k + 1] \in 1 .. Len(pairs)
      BY <1>1, <2>1, <2>2
    <3>2. b \in Bytes
      BY <2>3, <3>1
    <3> QED
      BY <3>2 DEF Bytes
  <2>5. b % 16 \in Nat /\ b \div 16 \in Nat
    BY <2>4
  <2>6. h[(k + 1) + 1] = h[k + 1] + (b % 16) + (b \div 16) + 1
    BY <2>2, <2>3 DEF Mft!NextHeader
  <2> QED
    BY <1>1, <2>1, <2>2, <2>5, <2>6
<1>4. T = Nat
  <2>1. T \subseteq Nat
    OBVIOUS
  <2> HIDE DEF T
  <2> QED
    BY <1>2, <1>3, <2>1, Inductive
<1>5. \A k \in 0 .. n : h[k + 1] \in 1 .. Len(pairs) + 1
  BY <1>1, <1>4
<1>6. \A k \in 1 .. n : h[k] \in 1 .. Len(pairs)
  <2> TAKE k \in 1 .. n
  <2>1. k - 1 \in 0 .. n /\ (k - 1) + 1 = k
    BY <1>1
  <2>2. h[k] \in 1 .. Len(pairs) + 1
    BY <1>5, <2>1
  <2>3. h[k] <= Len(pairs)
    BY DEF Encoded
  <2> QED
    BY <1>1, <2>2, <2>3
<1> QED
  BY <1>1, <1>5, <1>6

\* The parser finds the encoded pieces and refuses none.
LEMMA RawIs ==
  ASSUME NEW pairs \in Seq(Bytes), NEW runs \in Seq(Mft!Run),
         NEW h, Encoded(pairs, runs, h)
  PROVE  Mft!RawRuns(pairs)
           = [error |-> Mft!NoError,
              runs |-> [k \in 1 .. Len(runs) |-> Mft!RunAt(pairs, h[k])]]
<1> DEFINE n == Len(runs)
           R(k) == Mft!RunAt(pairs, h[k])
           From(m) == [j \in 1 .. m |-> R((n - m) + j)]
<1>1. PICK f :
        /\ Mft!RawRuns(pairs) = f[1]
        /\ \A c \in 1 .. Len(pairs) + 1 :
             f[c] = IF Mft!EndOfRuns(pairs, c) THEN [error |-> Mft!NoError, runs |-> <<>>]
                    ELSE IF Mft!RunError(pairs, c) # Mft!NoError
                    THEN [error |-> Mft!RunError(pairs, c), runs |-> <<>>]
                    ELSE [error |-> f[Mft!NextHeader(pairs, c)].error,
                          runs |-> <<Mft!RunAt(pairs, c)>>
                                     \o f[Mft!NextHeader(pairs, c)].runs]
  BY RawRunsAre
<1>2. n \in Nat /\ Len(pairs) \in Nat
  OBVIOUS
<1>3. /\ \A k \in 1 .. n : h[k] \in 1 .. Len(pairs)
      /\ h[n + 1] \in 1 .. Len(pairs) + 1
  BY <1>2, HeadersInside
<1> DEFINE T == {m \in Nat : m <= n =>
                   f[h[(n - m) + 1]] = [error |-> Mft!NoError, runs |-> From(m)]}
<1>4. 0 \in T
  <2>1. (n - 0) + 1 = n + 1
    BY <1>2
  <2>2. Mft!EndOfRuns(pairs, h[n + 1])
    BY DEF Encoded
  <2>3. f[h[n + 1]] = [error |-> Mft!NoError, runs |-> <<>>]
    BY <1>1, <1>3, <2>2
  <2>4. From(0) = <<>>
    <3> HIDE DEF R
    <3> QED
      OBVIOUS
  <2> QED
    BY <2>1, <2>3, <2>4
<1>5. ASSUME NEW m \in T PROVE m + 1 \in T
  <2> SUFFICES ASSUME m + 1 <= n
               PROVE  f[h[(n - (m + 1)) + 1]] = [error |-> Mft!NoError, runs |-> From(m + 1)]
    OBVIOUS
  <2>1. PICK k : k = n - m
    OBVIOUS
  <2>2. k \in 1 .. n /\ (n - (m + 1)) + 1 = k /\ (n - m) + 1 = k + 1
    BY <1>2, <2>1
  <2>3. f[h[k + 1]] = [error |-> Mft!NoError, runs |-> From(m)]
    BY <1>2, <2>2
  <2>4. /\ h[k] \in 1 .. Len(pairs) /\ h[k] \in 1 .. Len(pairs) + 1
        /\ h[k + 1] = Mft!NextHeader(pairs, h[k]) /\ h[k + 1] <= Len(pairs) + 1
        /\ Mft!LegalHeader(pairs[h[k]]) /\ R(k).count = runs[k].count
    <3>1. /\ h[k + 1] = Mft!NextHeader(pairs, h[k]) /\ h[k + 1] <= Len(pairs) + 1
          /\ Mft!LegalHeader(pairs[h[k]])
          /\ Mft!RunAt(pairs, h[k]).count = runs[k].count
      BY <2>2 DEF Encoded
    <3>2. h[k] \in 1 .. Len(pairs)
      BY <1>3, <2>2
    <3>3. h[k] \in 1 .. Len(pairs) + 1
      BY <1>2, <3>2
    <3> QED
      BY <3>1, <3>2, <3>3
  <2>5. runs[k].count # 0
    <3>1. runs[k] \in Mft!Run
      BY <2>2
    <3> QED
      BY <3>1 DEF Mft!Run
  <2>6. ~Mft!EndOfRuns(pairs, h[k])
    <3>1. pairs[h[k]] # 0
      BY <2>4 DEF Mft!LegalHeader
    <3> QED
      BY <1>2, <2>4, <3>1 DEF Mft!EndOfRuns
  <2>7. Mft!RunError(pairs, h[k]) = Mft!NoError
    <3>1. ~(Mft!NextHeader(pairs, h[k]) > Len(pairs) + 1)
      <4>1. h[k + 1] \in 1 .. Len(pairs) + 1
        <5>1. k = n \/ k + 1 \in 1 .. n
          BY <1>2, <2>2
        <5> QED
          BY <1>2, <1>3, <5>1
      <4> QED
        BY <1>2, <2>4, <4>1
    <3> QED
      BY <2>4, <2>5, <3>1 DEF Mft!RunError
  <2>8. f[h[k]] = [error |-> Mft!NoError, runs |-> <<R(k)>> \o From(m)]
    <3>1. f[h[k]] = [error |-> f[Mft!NextHeader(pairs, h[k])].error,
                     runs |-> <<R(k)>> \o f[Mft!NextHeader(pairs, h[k])].runs]
      BY <1>1, <2>4, <2>6, <2>7
    <3>2. f[Mft!NextHeader(pairs, h[k])] = [error |-> Mft!NoError, runs |-> From(m)]
      BY <2>3, <2>4
    <3> HIDE DEF From, R
    <3>3. /\ f[Mft!NextHeader(pairs, h[k])].error = Mft!NoError
          /\ f[Mft!NextHeader(pairs, h[k])].runs = From(m)
      BY <3>2
    <3> QED
      BY <3>1, <3>3
  <2>9. <<R(k)>> \o From(m) = From(m + 1)
    <3> DEFINE S == {R(i) : i \in 1 .. n}
    <3>1. From(m) \in Seq(S) /\ Len(From(m)) = m
          /\ \A j \in 1 .. m : From(m)[j] = R((n - m) + j)
      <4>1. \A j \in 1 .. m : (n - m) + j \in 1 .. n
        BY <1>2
      <4>2. \A j \in 1 .. m : R((n - m) + j) \in S
        BY <4>1
      <4> HIDE DEF R, S
      <4> QED
        BY <4>2
    <3>2. From(m + 1) \in Seq(S) /\ Len(From(m + 1)) = m + 1
          /\ \A j \in 1 .. m + 1 : From(m + 1)[j] = R((n - (m + 1)) + j)
      <4>1. \A j \in 1 .. m + 1 : (n - (m + 1)) + j \in 1 .. n
        BY <1>2
      <4>2. \A j \in 1 .. m + 1 : R((n - (m + 1)) + j) \in S
        BY <4>1
      <4> HIDE DEF R, S
      <4> QED
        BY <4>2
    <3>3. R(k) \in S
      BY <2>2
    <3>4. PICK p : p = From(m)
      OBVIOUS
    <3>5. PICK q : q = From(m + 1)
      OBVIOUS
    <3>6. PICK r : r = R(k)
      OBVIOUS
    <3>7. q[1] = r /\ \A j \in 1 .. m : q[j + 1] = p[j]
      <4>1. (n - (m + 1)) + 1 = k /\ 1 \in 1 .. m + 1
        BY <1>2, <2>2
      <4>2. \A j \in 1 .. m : j + 1 \in 1 .. m + 1 /\ (n - (m + 1)) + (j + 1) = (n - m) + j
        BY <1>2
      <4> HIDE DEF R, From
      <4> QED
        BY <3>1, <3>2, <3>4, <3>5, <3>6, <4>1, <4>2
    <3> HIDE DEF S, R, From
    <3>8. <<r>> \o p \in Seq(S) /\ Len(<<r>> \o p) = m + 1
          /\ (<<r>> \o p)[1] = r /\ \A j \in 1 .. m : (<<r>> \o p)[j + 1] = p[j]
      BY <3>1, <3>3, <3>4, <3>6
    <3>9. PICK t : t = <<r>> \o p
      OBVIOUS
    <3>10. t \in Seq(S) /\ q \in Seq(S) /\ Len(t) = m + 1 /\ Len(q) = m + 1
      BY <3>2, <3>5, <3>8, <3>9
    <3>11. \A j \in 1 .. Len(q) : t[j] = q[j]
      <4> TAKE j \in 1 .. Len(q)
      <4>1. j = 1 \/ (j - 1 \in 1 .. m /\ (j - 1) + 1 = j)
        BY <3>10
      <4> QED
        BY <3>7, <3>8, <3>9, <4>1
    <3>12. t = q
      BY <3>10, <3>11, SeqSame
    <3> QED
      BY <3>4, <3>5, <3>6, <3>9, <3>12
  <2> QED
    BY <2>2, <2>8, <2>9
<1>6. T = Nat
  <2>1. T \subseteq Nat
    OBVIOUS
  <2> HIDE DEF T
  <2> QED
    BY <1>4, <1>5, <2>1, Inductive
<1>7. f[h[(n - n) + 1]] = [error |-> Mft!NoError, runs |-> From(n)]
  <2>1. n \in T
    BY <1>2, <1>6
  <2> QED
    BY <1>2, <2>1
<1>8. (n - n) + 1 = 1 /\ h[1] = 1
  BY <1>2 DEF Encoded
<1>9. From(n) = [k \in 1 .. n |-> R(k)]
  <2>1. \A j \in 1 .. n : (n - n) + j = j
    BY <1>2
  <2> HIDE DEF R
  <2> QED
    BY <2>1
<1> QED
  BY <1>1, <1>7, <1>8, <1>9

\* p sums the distances of a list of runs.
Sums(list, n, p) ==
  p = [k \in 0 .. n |->
         IF k = 0 THEN 0
         ELSE p[k - 1] + (IF list[k].sparse THEN 0 ELSE list[k].distance)]

LEMMA SumsExist ==
  ASSUME NEW list
  PROVE  \A n \in Nat : \E p : Sums(list, n, p)
<1> DEFINE T == {n \in Nat : \E p : Sums(list, n, p)}
           By(k) == IF list[k].sparse THEN 0 ELSE list[k].distance
<1>1. 0 \in T
  <2> DEFINE p == [k \in 0 .. 0 |-> 0]
  <2>1. p = [k \in 0 .. 0 |-> IF k = 0 THEN 0
               ELSE p[k - 1] + (IF list[k].sparse THEN 0 ELSE list[k].distance)]
    OBVIOUS
  <2>2. Sums(list, 0, p)
    <3> HIDE DEF p
    <3> QED
      BY <2>1 DEF Sums
  <2> QED
    BY <2>2
<1>2. ASSUME NEW n \in T PROVE n + 1 \in T
  <2>1. PICK p : Sums(list, n, p)
    OBVIOUS
  <2> DEFINE g == [k \in 0 .. n + 1 |-> IF k = 0 THEN 0 ELSE p[k - 1] + By(k)]
  <2>2. \A k \in 0 .. n : g[k] = p[k]
    <3>1. \A k \in 0 .. n : p[k] = IF k = 0 THEN 0 ELSE p[k - 1] + By(k)
      BY <2>1 DEF Sums
    <3>2. \A k \in 0 .. n : g[k] = IF k = 0 THEN 0 ELSE p[k - 1] + By(k)
      OBVIOUS
    <3> HIDE DEF g, By
    <3> QED
      BY <3>1, <3>2
  <2>3. \A k \in 0 .. n + 1 : k # 0 => k - 1 \in 0 .. n
    OBVIOUS
  <2>4. \A k \in 0 .. n + 1 : k # 0 => p[k - 1] + By(k) = g[k - 1] + By(k)
    <3> HIDE DEF g, By
    <3> QED
      BY <2>2, <2>3
  <2>5. g = [k \in 0 .. n + 1 |-> IF k = 0 THEN 0 ELSE g[k - 1] + By(k)]
    <3> HIDE DEF By
    <3> QED
      BY <2>4
  <2>6. Sums(list, n + 1, g)
    <3> HIDE DEF g
    <3> QED
      BY <2>5 DEF Sums
  <2> QED
    BY <2>6
<1>3. T = Nat
  <2>1. T \subseteq Nat
    OBVIOUS
  <2> HIDE DEF T
  <2> QED
    BY <1>1, <1>2, <2>1, Inductive
<1> QED
  BY <1>3

\* Where the distance of the next run counts from.
LEMMA PlacedIs ==
  ASSUME NEW runs \in Seq(Mft!Run), NEW k \in 1 .. Len(runs)
  PROVE  /\ Mft!PlacedBefore(runs, 1) = 0
         /\ runs[k].sparse => Mft!PlacedBefore(runs, k + 1) = Mft!PlacedBefore(runs, k)
         /\ ~runs[k].sparse => Mft!PlacedBefore(runs, k + 1) = runs[k].lcn
<1> DEFINE P(i) == {j \in 1 .. i - 1 : ~runs[j].sparse}
<1>1. k \in Nat /\ k >= 1
  OBVIOUS
<1>2. Mft!PlacedBefore(runs, 1) = 0
  <2>1. P(1) = {}
    OBVIOUS
  <2> QED
    BY <2>1 DEF Mft!PlacedBefore
<1>3. ASSUME runs[k].sparse
      PROVE  Mft!PlacedBefore(runs, k + 1) = Mft!PlacedBefore(runs, k)
  <2>1. \A j : j \in P(k + 1) <=> j \in P(k)
    BY <1>1, <1>3
  <2>2. P(k + 1) = P(k)
    BY <2>1
  <2> QED
    BY <2>2 DEF Mft!PlacedBefore
<1>4. ASSUME ~runs[k].sparse
      PROVE  Mft!PlacedBefore(runs, k + 1) = runs[k].lcn
  <2>1. k \in P(k + 1) /\ \A j \in P(k + 1) : j \in Nat /\ k >= j
    BY <1>1, <1>4
  <2>2. PICK S : S = P(k + 1)
    OBVIOUS
  <2>3. Mft!Max(S) = k
    <3>1. k \in S /\ \A j \in S : j \in Nat /\ k >= j
      BY <2>1, <2>2
    <3>2. \E x \in S : \A y \in S : x >= y
      BY <3>1
    <3>3. Mft!Max(S) \in S /\ \A j \in S : Mft!Max(S) >= j
      BY <3>2 DEF Mft!Max
    <3> QED
      <4>1. PICK m : m = Mft!Max(S)
        OBVIOUS
      <4>2. m \in Nat /\ k >= m /\ m >= k
        BY <3>1, <3>3, <4>1
      <4>3. m = k
        BY <1>1, <4>2
      <4> QED
        BY <4>1, <4>3
  <2>4. Mft!PlacedBefore(runs, k + 1) = IF S = {} THEN 0 ELSE runs[Mft!Max(S)].lcn
    BY <2>2 DEF Mft!PlacedBefore
  <2> QED
    BY <2>1, <2>2, <2>3, <2>4
<1> QED
  BY <1>2, <1>3, <1>4

LEMMA PlacesFollow ==
  ASSUME NEW pairs, NEW runs \in Seq(Mft!Run), NEW h, Encoded(pairs, runs, h),
         NEW list, Len(list) = Len(runs),
         \A k \in 1 .. Len(runs) : list[k] = Mft!RunAt(pairs, h[k])
  PROVE  \A k \in 1 .. Len(runs) :
           /\ Mft!PlaceAfter(list, k) = Mft!PlacedBefore(runs, k + 1)
           /\ Mft!PlaceAfter(list, k) \in Mft!Longs
           /\ ~runs[k].sparse => Mft!PlaceAfter(list, k) = runs[k].lcn
<1> DEFINE n == Len(runs)
           p == CHOOSE q : Sums(list, n, q)
<1>1. n \in Nat
  OBVIOUS
<1>2. \A i : Mft!PlaceAfter(list, i) = p[i]
  BY DEF Mft!PlaceAfter, Sums
<1>3. Sums(list, n, p)
  BY <1>1, SumsExist
<1> HIDE DEF p
<1>4. \A k \in 0 .. n :
        p[k] = IF k = 0 THEN 0
               ELSE p[k - 1] + (IF list[k].sparse THEN 0 ELSE list[k].distance)
  BY <1>3 DEF Sums
<1>5. \A k \in 1 .. n : /\ runs[k].lcn \in Int /\ runs[k].sparse \in BOOLEAN
                        /\ list[k].sparse = runs[k].sparse
                        /\ runs[k].lcn \in Mft!Longs
                        /\ runs[k].sparse => runs[k].lcn = 0
                        /\ ~runs[k].sparse =>
                             list[k].distance = runs[k].lcn - Mft!PlacedBefore(runs, k)
  <2> TAKE k \in 1 .. n
  <2>1. runs[k] \in Mft!Run
    BY <1>1
  <2>2. runs[k].lcn \in Int /\ runs[k].sparse \in BOOLEAN
    BY <2>1 DEF Mft!Run
  <2> QED
    BY <2>2 DEF Encoded
<1> DEFINE T == {k \in Nat : k <= n => p[k] = Mft!PlacedBefore(runs, k + 1) /\ p[k] \in Int}
<1>6. 0 \in T
  <2>1. p[0] = 0
    BY <1>1, <1>4
  <2>2. Mft!PlacedBefore(runs, 0 + 1) = 0
    <3>1. {j \in 1 .. (0 + 1) - 1 : ~runs[j].sparse} = {}
      OBVIOUS
    <3> QED
      BY <3>1 DEF Mft!PlacedBefore
  <2> QED
    BY <2>1, <2>2
<1>7. ASSUME NEW k \in T PROVE k + 1 \in T
  <2> SUFFICES ASSUME k + 1 <= n
               PROVE  p[k + 1] = Mft!PlacedBefore(runs, (k + 1) + 1) /\ p[k + 1] \in Int
    OBVIOUS
  <2>1. k + 1 \in 1 .. n /\ k + 1 \in 0 .. n /\ (k + 1) - 1 = k /\ k + 1 # 0
    BY <1>1
  <2>2. p[k] = Mft!PlacedBefore(runs, k + 1) /\ p[k] \in Int
    BY <2>1
  <2>3. p[k + 1] = p[k] + (IF list[k + 1].sparse THEN 0 ELSE list[k + 1].distance)
    BY <1>4, <2>1
  <2>4. PICK m : m = k + 1
    OBVIOUS
  <2>5. CASE runs[m].sparse
    <3>1. Mft!PlacedBefore(runs, m + 1) = Mft!PlacedBefore(runs, m)
      BY <2>1, <2>4, <2>5, PlacedIs
    <3>2. p[m] = p[k]
      BY <1>5, <2>1, <2>2, <2>3, <2>4, <2>5
    <3> QED
      BY <2>2, <2>4, <3>1, <3>2
  <2>6. CASE ~runs[m].sparse
    <3>1. Mft!PlacedBefore(runs, m + 1) = runs[m].lcn
      BY <2>1, <2>4, <2>6, PlacedIs
    <3>2. list[m].distance = runs[m].lcn - p[k] /\ runs[m].lcn \in Int /\ ~list[m].sparse
      BY <1>5, <2>1, <2>2, <2>4, <2>6
    <3>3. p[m] = p[k] + (runs[m].lcn - p[k])
      BY <2>3, <2>4, <3>2
    <3> QED
      BY <2>2, <2>4, <3>1, <3>2, <3>3
  <2> QED
    BY <2>5, <2>6
<1>8. T = Nat
  <2>1. T \subseteq Nat
    OBVIOUS
  <2> HIDE DEF T
  <2> QED
    BY <1>6, <1>7, <2>1, Inductive
<1>9. \A k \in 1 .. n : p[k] = Mft!PlacedBefore(runs, k + 1)
  <2> TAKE k \in 1 .. n
  <2>1. k \in T
    BY <1>1, <1>8
  <2> QED
    BY <1>1, <2>1
<1>10. \A k \in 1 .. n : Mft!PlacedBefore(runs, k + 1) \in Mft!Longs
  <2> TAKE k \in 1 .. n
  <2>1. PICK S : S = {j \in 1 .. (k + 1) - 1 : ~runs[j].sparse}
    OBVIOUS
  <2>2. Mft!PlacedBefore(runs, k + 1) = IF S = {} THEN 0 ELSE runs[Mft!Max(S)].lcn
    BY <2>1 DEF Mft!PlacedBefore
  <2>3. CASE S = {}
    <3>1. runs[k].sparse
      BY <1>1, <2>1, <2>3
    <3> QED
      BY <1>5, <2>2, <2>3, <3>1
  <2>4. CASE S # {}
    <3>1. S \subseteq 0 .. k
      BY <1>1, <2>1
    <3>2. \E x \in S : \A y \in S : y <= x
      <4>1. k \in Nat
        BY <1>1
      <4> QED
        BY <2>4, <3>1, <4>1, NatGreatest
    <3>3. \E x \in S : \A y \in S : x >= y
      BY <3>1, <3>2
    <3>4. Mft!Max(S) \in S
      BY <3>3 DEF Mft!Max
    <3>5. Mft!Max(S) \in 1 .. n
      BY <1>1, <2>1, <3>4
    <3> QED
      BY <1>5, <2>2, <2>4, <3>5
  <2> QED
    BY <2>3, <2>4
<1>11. \A k \in 1 .. n : ~runs[k].sparse => Mft!PlacedBefore(runs, k + 1) = runs[k].lcn
  BY PlacedIs
<1> QED
  BY <1>2, <1>9, <1>10, <1>11

\* What a writer encoded is what is decoded.
LEMMA RunsDecode ==
  ASSUME NEW pairs, pairs \in Seq(Bytes), NEW runs, Mft!Encodes(pairs, runs)
  PROVE  Mft!ParseRuns(pairs) = [error |-> Mft!NoError, runs |-> runs]
<1>1. PICK h : Encoded(pairs, runs, h)
  BY EncodedIs
<1>2. runs \in Seq(Mft!Run) /\ Len(runs) \in Nat
  BY EncodedIs
<1> DEFINE n == Len(runs)
           list == [k \in 1 .. n |-> Mft!RunAt(pairs, h[k])]
<1>3. Mft!RawRuns(pairs) = [error |-> Mft!NoError, runs |-> list]
  BY <1>1, <1>2, RawIs
<1>4. DOMAIN list = 1 .. n /\ \A k \in 1 .. n : list[k] = Mft!RunAt(pairs, h[k])
  OBVIOUS
<1>5. Len(list) = n
  BY <1>2, <1>4
<1> HIDE DEF list
<1>6. \A k \in 1 .. n :
        /\ Mft!PlaceAfter(list, k) \in Mft!Longs
        /\ ~runs[k].sparse => Mft!PlaceAfter(list, k) = runs[k].lcn
  BY <1>1, <1>2, <1>4, <1>5, PlacesFollow
<1>7. PICK raw : raw = Mft!RawRuns(pairs)
  OBVIOUS
<1>8. raw.error = Mft!NoError /\ raw.runs = list
  BY <1>3, <1>7
<1>9. ~\E i \in DOMAIN list : Mft!PlaceAfter(list, i) \notin Mft!Longs
  BY <1>4, <1>6
<1> DEFINE found == [i \in DOMAIN list |->
                       [count |-> list[i].count, sparse |-> list[i].sparse,
                        lcn |-> IF list[i].sparse THEN 0 ELSE Mft!PlaceAfter(list, i)]]
<1>10. Mft!ParseRuns(pairs) = [error |-> Mft!NoError, runs |-> found]
  BY <1>7, <1>8, <1>9 DEF Mft!ParseRuns
<1>11. \A i \in 1 .. n : found[i] = runs[i]
  <2> TAKE i \in 1 .. n
  <2>1. PICK r : r = runs[i]
    OBVIOUS
  <2>2. r \in Mft!Run
    BY <1>2, <2>1
  <2>3. r = [count |-> r.count, sparse |-> r.sparse, lcn |-> r.lcn] /\ r.sparse \in BOOLEAN
    BY <2>2 DEF Mft!Run
  <2>4. list[i].count = r.count /\ list[i].sparse = r.sparse /\ (r.sparse => r.lcn = 0)
    BY <1>1, <1>4, <2>1 DEF Encoded
  <2>5. ~r.sparse => Mft!PlaceAfter(list, i) = r.lcn
    BY <1>6, <2>1
  <2>6. found[i] = [count |-> list[i].count, sparse |-> list[i].sparse,
                    lcn |-> IF list[i].sparse THEN 0 ELSE Mft!PlaceAfter(list, i)]
    BY <1>4
  <2> QED
    BY <2>1, <2>3, <2>4, <2>5, <2>6
<1>12. found = runs
  <2>1. found = [i \in 1 .. n |-> found[i]]
    BY <1>4
  <2>2. runs = [i \in 1 .. n |-> runs[i]]
    BY <1>2
  <2> HIDE DEF found
  <2> QED
    BY <1>11, <2>1, <2>2
<1> QED
  BY <1>10, <1>12

\* Of an attribute that was laid out nothing is wrong with its form, and its runs
\* are those that were encoded.
LEMMA LaidOutIs ==
  ASSUME NEW r, Mft!IsRecord(r), Mft!IsLaidOut(r),
         NEW o \in DOMAIN r.attributes, r.attributes[o].type = "attribute"
  PROVE  /\ Mft!FormError(r.attributes[o]) = Mft!NoError
         /\ r.attributes[o].form = 1 =>
              Mft!ParseRuns(r.attributes[o].pairs).runs = r.attributes[o].runs
<1>1. PICK a : a = r.attributes[o]
  OBVIOUS
<1>2. \/ a.form = 0 /\ Mft!ResidentError(a) = Mft!NoError
      \/ a.form = 1 /\ a.bytes >= 64 /\ a.pairsAt <= a.bytes /\ Mft!Encodes(a.pairs, a.runs)
  BY <1>1 DEF Mft!IsLaidOut
<1>3. a.pairs \in Seq(Bytes) /\ a.bytes \in Nat /\ a.pairsAt \in Nat
  BY <1>1 DEF Mft!IsRecord, Mft!IsAttribute, Bytes
<1>4. CASE a.form = 0 /\ Mft!ResidentError(a) = Mft!NoError
  BY <1>1, <1>4 DEF Mft!FormError
<1>5. CASE a.form = 1 /\ a.bytes >= 64 /\ a.pairsAt <= a.bytes /\ Mft!Encodes(a.pairs, a.runs)
  <2>1. Mft!ParseRuns(a.pairs) = [error |-> Mft!NoError, runs |-> a.runs]
    BY <1>3, <1>5, RunsDecode
  <2>2. Mft!ParseRuns(a.pairs).error = Mft!NoError /\ Mft!ParseRuns(a.pairs).runs = a.runs
    BY <2>1
  <2>3. ~(a.bytes < 64) /\ ~(a.pairsAt > a.bytes)
    BY <1>3, <1>5
  <2>4. Mft!FormError(a) = Mft!NoError
    BY <1>5, <2>2, <2>3 DEF Mft!FormError, Mft!NonResidentError
  <2> QED
    BY <1>1, <2>2, <2>4
<1> QED
  BY <1>2, <1>4, <1>5

-----------------------------------------------------------------------------
(* Mft!Sectors *)

\* The parser counts like everyone.
LEMMA MftCounts == \A S : Mft!Cardinality(S) = Cardinality(S)
BY DEF Mft!Cardinality, Cardinality

LEMMA SectorEnds ==
  ASSUME NEW m \in Nat \ {0}, NEW s \in Nat \ {0}
  PROVE  /\ s * m \in Nat /\ (s * m) % m = 0
         /\ (s * m - 1) \div m + 1 = s
<1>1. s * m = m * s /\ s * m \in Nat
  OBVIOUS
<1>2. (s * m) % m = 0
  BY <1>1, ProductIs
<1>3. s * m - 1 = m * (s - 1) + (m - 1)
  OBVIOUS
<1>4. s * m - 1 \in Nat /\ s - 1 \in Nat /\ m - 1 \in Nat /\ m - 1 < m
  <2>1. m * (s - 1) \in Nat
    OBVIOUS
  <2> QED
    BY <1>3, <2>1
<1>5. (s * m - 1) \div m = s - 1
  BY <1>3, <1>4, QuotientIs
<1> QED
  BY <1>1, <1>2, <1>5

LEMMA SectorsAre ==
  ASSUME NEW r, Mft!IsRecord(r), record = r
  PROVE  /\ r.length \div r.stride \in Nat
         /\ Cardinality(Mft!Sectors) = r.length \div r.stride
         /\ \A s \in Mft!Sectors : s \in Nat \ {0} /\ s * r.stride <= r.length
<1> DEFINE q == r.length \div r.stride
<1>1. r.length \in Nat /\ r.stride \in Nat \ {0}
  BY DEF Mft!IsRecord
<1>2. q \in Nat /\ q * r.stride <= r.length
  <2>1. q \in Nat
    BY <1>1, SMTT(20)
  <2> QED
    BY <1>1, <2>1, Remainder
<1>3. Mft!Sectors = 1 .. q
  BY DEF Mft!Sectors
<1> HIDE DEF q
<1>4. Cardinality(Mft!Sectors) = q
  <2>1. Cardinality(1 .. q) = IF 1 > q THEN 0 ELSE q - 1 + 1
    BY <1>2, FS_Interval
  <2> QED
    BY <1>2, <1>3, <2>1
<1>5. ASSUME NEW s \in Mft!Sectors PROVE s \in Nat \ {0} /\ s * r.stride <= r.length
  <2>1. s \in Nat \ {0} /\ s <= q
    BY <1>2, <1>3
  <2>2. r.stride * s <= r.stride * q
    <3>1. s = q \/ s < q
      BY <1>2, <2>1
    <3>2. CASE s < q
      BY <1>1, <1>2, <2>1, <3>2, Larger
    <3> QED
      BY <1>1, <1>2, <3>1, <3>2
  <2> QED
    BY <1>1, <1>2, <2>1, <2>2
<1> QED
  BY <1>2, <1>4, <1>5 DEF q

-----------------------------------------------------------------------------
(* The invariant of a record *)

\* Every entry of the array has been compared with the end of its sector.
SectorsFixed ==
  /\ sector \in Nat \ {0}
  /\ restored = [s \in 1 .. sector - 1 |-> s]
  /\ \A s \in 1 .. sector - 1 : Mft!Matches(s * record.perSector)

\* Attributes lie one behind the other before the cursor.
AttributesApart ==
  /\ \E S : attributes \in Seq(S)
  /\ cursor \in Nat
  /\ \A i \in DOMAIN attributes :
       /\ attributes[i].at \in Nat /\ attributes[i].bytes \in Nat
       /\ attributes[i].at + attributes[i].bytes <= cursor
       /\ attributes[i].at + attributes[i].bytes <= record.inUse
       /\ attributes[i].form = 0 =>
            attributes[i].value.from + attributes[i].value.length <= attributes[i].bytes
       /\ \A k \in 1 .. i - 1 : attributes[k].at + attributes[k].bytes <= attributes[i].at

\* Of a record that was written whole the attributes up to the cursor are those
\* that were written, and nothing has been refused.
WrittenSoFar ==
  Mft!WrittenWhole =>
    /\ pc = "done" => status = "ok"
    /\ pc = "walk" \/ status = "ok" => cursor \in DOMAIN record.attributes
    /\ status = "ok" => record.attributes[cursor].type = "end"
    /\ pc = "walk" \/ status = "ok" =>
         {attributes[i].at : i \in DOMAIN attributes} = {o \in Mft!Attributes : o < cursor}
    /\ \A i \in DOMAIN attributes :
         /\ attributes[i].at \in Mft!Attributes
         /\ attributes[i].form = record.attributes[attributes[i].at].form
         /\ attributes[i].form = 1 =>
              attributes[i].runs = Mft!ParseRuns(record.attributes[attributes[i].at].pairs).runs

MftInv ==
  /\ record \in Records
  /\ pc \in {"start", "fixup", "walk", "done"}
  /\ pc # "done" => status = Mft!NoError
  /\ status = "ok" => pc = "done"
  /\ pc \in {"fixup", "walk"} \/ status = "ok" => record.perSector >= 2
  /\ pc = "walk" \/ status = "ok" => sector >= record.usa.count
  /\ pc = "start" => sector = 1
  /\ pc \in {"start", "fixup"} => attributes = <<>>
  /\ SectorsFixed /\ AttributesApart /\ WrittenSoFar

LEMMA MftStarts ==
  ASSUME Mft!RecordsAssumption, Mft!Init
  PROVE  MftInv
<1>1. restored = [s \in 1 .. sector - 1 |-> s]
  BY DEF Mft!Init
<1>2. SectorsFixed
  BY <1>1 DEF Mft!Init, SectorsFixed
<1>3. attributes \in Seq({})
  BY DEF Mft!Init
<1>4. AttributesApart
  <2>1. \E S : attributes \in Seq(S)
    BY <1>3
  <2>2. cursor = 0 /\ DOMAIN attributes = {}
    BY DEF Mft!Init
  <2> QED
    BY <2>1, <2>2 DEF AttributesApart
<1>5. WrittenSoFar
  <2>1. pc = "start" /\ status = "none" /\ DOMAIN attributes = {}
    BY DEF Mft!Init, Mft!NoError
  <2>2. pc # "done" /\ pc # "walk" /\ status # "ok"
    BY <2>1
  <2> QED
    BY <2>1, <2>2 DEF WrittenSoFar
<1> QED
  BY <1>2, <1>4, <1>5 DEF Mft!Init, MftInv, Mft!NoError

\* What a step that refuses the record leaves.
LEMMA MftRefuseKeeps ==
  ASSUME MftInv, NEW error, Mft!Refuse(error), error # "ok", ~Mft!WrittenWhole
  PROVE  MftInv'
<1>1. SectorsFixed' /\ AttributesApart'
  BY DEF MftInv, Mft!Refuse, SectorsFixed, AttributesApart, Mft!Matches, Mft!Stamp, Mft!WriteAt
<1>2. ~Mft!WrittenWhole'
  BY DEF Mft!Refuse, Mft!WrittenWhole, Mft!WellFormed, Mft!Sectors
<1> QED
  BY <1>1, <1>2 DEF MftInv, Mft!Refuse, WrittenSoFar

\* Of a record that was written whole the header is in order.
LEMMA WholeIs ==
  ASSUME Mft!RecordsAssumption, record \in Records, Mft!WrittenWhole
  PROVE  /\ Mft!IsRecord(record) /\ Mft!IsLaidOut(record)
         /\ record.length >= 48 /\ record.perSector >= 2 /\ record.signature
         /\ record.usa.count = Cardinality(Mft!Sectors) + 1 /\ record.usa.count \in Nat \ {0}
         /\ ~(record.usa.from + record.usa.count * 2 > record.length)
         /\ \A s \in Mft!Sectors : Mft!Matches(s * record.perSector) /\ s * record.perSector <= record.length
<1>1. Mft!IsRecord(record) /\ Mft!IsLaidOut(record)
  BY DEF Mft!RecordsAssumption, Mft!WrittenWhole
<1>2. /\ record.stride = record.perSector /\ record.stride \in Nat \ {0} /\ record.perSector >= 2
      /\ record.length >= 48 /\ record.signature
      /\ record.usa.count = Cardinality(Mft!Sectors) + 1
      /\ record.usa.count \in Nat /\ record.usa.from \in Nat /\ record.length \in Nat
      /\ record.usa.from + record.usa.count * 2 <= record.length
  BY <1>1, MftCounts DEF Mft!WrittenWhole, Mft!WellFormed, Mft!IsRecord, Mft!IsLaidOut
<1>3. record.usa.count \in Nat \ {0}
  BY <1>1, <1>2, SectorsAre
<1>4. ASSUME NEW s \in Mft!Sectors
      PROVE  Mft!Matches(s * record.perSector) /\ s * record.perSector <= record.length
  <2>1. s \in Nat \ {0} /\ s * record.stride <= record.length
    BY <1>1, SectorsAre
  <2>2. (s * record.stride) % record.stride = 0 /\ (s * record.stride - 1) \div record.stride + 1 = s
    BY <1>2, <2>1, SectorEnds
  <2>3. Mft!Stamp(s * record.stride) = record.writes[s]
    BY <2>2 DEF Mft!Stamp, Mft!WriteAt
  <2>4. record.writes[s] = record.writes[1]
    BY DEF Mft!WrittenWhole
  <2> QED
    BY <1>2, <2>1, <2>3, <2>4 DEF Mft!Matches
<1> QED
  BY <1>1, <1>2, <1>3, <1>4

LEMMA MftStartKeeps ==
  ASSUME Mft!RecordsAssumption, MftInv, Mft!Start
  PROVE  MftInv'
<1>1. Mft!IsRecord(record) /\ record \in Records
  BY DEF MftInv, Mft!RecordsAssumption
<1>2. CASE Mft!Refuse("small") /\ record.length < 48
  <2>1. ~Mft!WrittenWhole
    BY <1>1, <1>2 DEF Mft!WrittenWhole, Mft!IsRecord
  <2> QED
    BY <1>2, <2>1, MftRefuseKeeps
<1>3. CASE Mft!Refuse("sector size") /\ record.perSector < 2
  <2>1. ~Mft!WrittenWhole
    <3> SUFFICES ASSUME Mft!WrittenWhole PROVE FALSE
      OBVIOUS
    <3>1. record.perSector >= 2
      BY <1>1, WholeIs
    <3>2. record.perSector \in Nat
      BY <1>1 DEF Mft!IsRecord
    <3> HIDE DEF MftInv
    <3>3. record.perSector < 2
      BY <1>3
    <3> QED
      BY <3>1, <3>2, <3>3
  <2> QED
    BY <1>3, <2>1, MftRefuseKeeps
<1>4. CASE /\ Mft!Refuse("array")
           /\ \/ record.usa.count = 0
              \/ record.usa.from + record.usa.count * 2 > record.length
  <2>1. ~Mft!WrittenWhole
    BY <1>1, <1>4, WholeIs
  <2> QED
    BY <1>4, <2>1, MftRefuseKeeps
<1>5. CASE /\ ~(record.perSector < 2) /\ pc' = "fixup"
           /\ UNCHANGED <<record, sector, restored, cursor, attributes, status>>
  <2>1. SectorsFixed' /\ AttributesApart'
    BY <1>5 DEF MftInv, SectorsFixed, AttributesApart, Mft!Matches, Mft!Stamp, Mft!WriteAt
  <2>2. pc = "start" /\ status = Mft!NoError
    BY DEF Mft!Start, MftInv
  <2>3. WrittenSoFar'
    BY <1>5, <2>2 DEF MftInv, WrittenSoFar, Mft!WrittenWhole, Mft!WellFormed, Mft!Sectors, Mft!Attributes
  <2>4. record.perSector >= 2
    BY <1>1, <1>5 DEF Mft!IsRecord
  <2> QED
    BY <1>5, <2>1, <2>2, <2>3, <2>4 DEF MftInv
<1> QED
  BY <1>2, <1>3, <1>4, <1>5 DEF Mft!Start

LEMMA MftFixSectorKeeps ==
  ASSUME Mft!RecordsAssumption, MftInv, Mft!FixSector
  PROVE  MftInv'
<1> DEFINE end == sector * record.perSector
<1>1. /\ Mft!IsRecord(record) /\ record \in Records /\ pc = "fixup" /\ status = Mft!NoError
      /\ sector < record.usa.count /\ sector \in Nat \ {0}
  BY DEF MftInv, Mft!RecordsAssumption, Mft!FixSector, SectorsFixed
<1>2. ASSUME Mft!WrittenWhole PROVE Mft!Matches(end) /\ end <= record.length
  <2>1. /\ Cardinality(Mft!Sectors) = record.length \div record.stride
        /\ record.length \div record.stride \in Nat
    BY <1>1, SectorsAre
  <2>2. record.usa.count = Cardinality(Mft!Sectors) + 1
    BY <1>1, <1>2, WholeIs
  <2>3. sector \in Mft!Sectors
    BY <1>1, <2>1, <2>2 DEF Mft!Sectors
  <2> QED
    BY <1>1, <1>2, <2>3, WholeIs
<1>3. CASE Mft!Refuse("array") /\ end > record.length
  <2>1. end \in Nat /\ record.length \in Nat
    BY <1>1 DEF Mft!IsRecord
  <2>2. ~Mft!WrittenWhole
    BY <1>2, <1>3, <2>1
  <2> QED
    BY <1>3, <2>2, MftRefuseKeeps
<1>4. CASE Mft!Refuse("mismatch") /\ ~Mft!Matches(end)
  BY <1>2, <1>4, MftRefuseKeeps
<1>5. CASE /\ Mft!Matches(end)
           /\ restored' = Append(restored, sector)
           /\ sector' = sector + 1
           /\ UNCHANGED <<record, pc, cursor, attributes, status>>
  <2>1. restored' = [s \in 1 .. sector' - 1 |-> s]
    <3>1. restored = [s \in 1 .. sector - 1 |-> s] /\ sector - 1 \in Nat
      BY <1>1 DEF MftInv, SectorsFixed
    <3>2. restored \in Seq(Nat) /\ Len(restored) = sector - 1
      BY <3>1
    <3> QED
      BY <1>1, <1>5, <3>1, <3>2
  <2>2. \A s \in 1 .. sector' - 1 : Mft!Matches(s * record.perSector)
    <3> TAKE s \in 1 .. sector' - 1
    <3>1. s = sector \/ s \in 1 .. sector - 1
      BY <1>1, <1>5
    <3> QED
      BY <1>5, <3>1 DEF MftInv, SectorsFixed
  <2>3. SectorsFixed'
    BY <1>1, <1>5, <2>1, <2>2 DEF SectorsFixed, Mft!Matches, Mft!Stamp, Mft!WriteAt
  <2>4. AttributesApart'
    BY <1>5 DEF MftInv, AttributesApart
  <2>5. WrittenSoFar'
    BY <1>1, <1>5 DEF MftInv, WrittenSoFar, Mft!WrittenWhole, Mft!WellFormed, Mft!Sectors, Mft!Attributes
  <2> QED
    BY <1>1, <1>5, <2>3, <2>4, <2>5 DEF MftInv
<1> QED
  BY <1>3, <1>4, <1>5 DEF Mft!FixSector

LEMMA MftReadHeaderKeeps ==
  ASSUME Mft!RecordsAssumption, MftInv, Mft!ReadHeader
  PROVE  MftInv'
<1>1. /\ Mft!IsRecord(record) /\ record \in Records /\ pc = "fixup" /\ status = Mft!NoError
      /\ sector >= record.usa.count /\ record.perSector >= 2
  BY DEF MftInv, Mft!RecordsAssumption, Mft!ReadHeader
<1>2. ASSUME Mft!WrittenWhole
      PROVE  /\ record.signature
             /\ ~(record.inUse = 0 \/ record.inUse > record.length)
             /\ ~(record.first >= record.inUse)
             /\ record.first \in DOMAIN record.attributes
             /\ \A o \in DOMAIN record.attributes : record.first <= o
  <2>1. Mft!IsLaidOut(record) /\ record.signature
    BY <1>1, <1>2, WholeIs
  <2>2. /\ record.inUse \in 1 .. record.length /\ record.first < record.inUse
        /\ record.first \in DOMAIN record.attributes
        /\ \A o \in DOMAIN record.attributes : record.first <= o
    BY <2>1 DEF Mft!IsLaidOut
  <2>3. record.inUse \in Nat /\ record.first \in Nat /\ record.length \in Nat
    BY <1>1 DEF Mft!IsRecord
  <2> QED
    BY <2>1, <2>2, <2>3
<1>3. CASE /\ \/ Mft!Refuse("signature") /\ ~record.signature
              \/ Mft!Refuse("in use") /\ (record.inUse = 0 \/ record.inUse > record.length)
              \/ Mft!Refuse("first") /\ record.first >= record.inUse
  BY <1>2, <1>3, MftRefuseKeeps
<1>4. CASE /\ pc' = "walk" /\ cursor' = record.first
           /\ ~(record.inUse = 0 \/ record.inUse > record.length)
           /\ ~(record.first >= record.inUse)
           /\ UNCHANGED <<record, sector, restored, attributes, status>>
  <2>1. SectorsFixed'
    BY <1>4 DEF MftInv, SectorsFixed, Mft!Matches, Mft!Stamp, Mft!WriteAt
  <2>2. attributes = <<>> /\ DOMAIN attributes = {} /\ attributes' = attributes
    BY <1>1, <1>4 DEF MftInv
  <2>3. AttributesApart'
    <3>1. record.first \in Nat
      BY <1>1 DEF Mft!IsRecord
    <3>2. \E S : attributes \in Seq(S)
      BY DEF MftInv, AttributesApart
    <3> QED
      BY <1>4, <2>2, <3>1, <3>2 DEF AttributesApart
  <2>4. WrittenSoFar'
    <3> SUFFICES ASSUME Mft!WrittenWhole PROVE WrittenSoFar'
      BY <1>4 DEF WrittenSoFar, Mft!WrittenWhole, Mft!WellFormed, Mft!Sectors
    <3>1. /\ record.first \in DOMAIN record.attributes
          /\ \A o \in DOMAIN record.attributes : record.first <= o
      BY <1>2
    <3>2. \A o \in DOMAIN record.attributes : o \in Nat
      BY <1>1 DEF Mft!IsRecord
    <3>3. {o \in Mft!Attributes : o < record.first} = {}
      BY <3>1, <3>2 DEF Mft!Attributes
    <3>4. {attributes[i].at : i \in DOMAIN attributes} = {}
      BY <2>2
    <3>5. /\ pc' = "walk" /\ pc' # "done" /\ status' = "none" /\ status' # "ok"
          /\ cursor' = record.first /\ record' = record
      BY <1>1, <1>4 DEF Mft!NoError
    <3> HIDE DEF MftInv
    <3> QED
      BY <2>2, <3>1, <3>3, <3>4, <3>5 DEF WrittenSoFar, Mft!Attributes
  <2> QED
    BY <1>1, <1>4, <2>1, <2>2, <2>3, <2>4 DEF MftInv
<1> QED
  BY <1>3, <1>4 DEF Mft!ReadHeader

\* No error leaves an attribute inside the bytes in use.
LEMMA LengthsAre ==
  ASSUME NEW a, Mft!IsAttribute(a), cursor \in Nat, record.inUse \in Nat
  PROVE  /\ Mft!LengthError(a) = Mft!NoError =>
              cursor + 16 <= record.inUse /\ a.bytes >= 16 /\ cursor + a.bytes <= record.inUse
         /\ a.bytes >= 16 /\ cursor + a.bytes <= record.inUse => Mft!LengthError(a) = Mft!NoError
         /\ Mft!LengthError(a) # "ok"
<1>1. a.bytes \in Nat
  BY DEF Mft!IsAttribute
<1> QED
  BY <1>1 DEF Mft!LengthError, Mft!NoError

LEMMA ErrorsAre ==
  ASSUME NEW a, Mft!IsAttribute(a), cursor \in Nat, record.inUse \in Nat
  PROVE  /\ Mft!ErrorOf(a) # "ok"
         /\ Mft!ErrorOf(a) = Mft!NoError <=>
              Mft!LengthError(a) = Mft!NoError /\ Mft!NameError(a) = Mft!NoError /\ Mft!FormError(a) = Mft!NoError
         /\ Mft!FormError(a) = Mft!NoError /\ a.form = 0 =>
              a.value.from + a.value.length <= a.bytes
<1>1. Mft!LengthError(a) # "ok"
  BY LengthsAre
<1>2. Mft!NameError(a) # "ok"
  BY DEF Mft!NameError, Mft!NoError
<1>3. Mft!ResidentError(a) # "ok" /\ Mft!NonResidentError(a) # "ok"
  BY DEF Mft!ResidentError, Mft!NonResidentError, Mft!NoError
<1>4. Mft!FormError(a) # "ok"
  BY <1>3 DEF Mft!FormError
<1>5. /\ a.bytes \in Nat /\ a.value.from \in Nat /\ a.value.length \in Nat
      /\ a.value.from + a.value.length \in Nat
  BY DEF Mft!IsAttribute
<1>6. ASSUME Mft!FormError(a) = Mft!NoError, a.form = 0
      PROVE  a.value.from + a.value.length <= a.bytes
  <2>1. Mft!ResidentError(a) = Mft!NoError
    BY <1>6 DEF Mft!FormError
  <2>2. ~(a.value.from + a.value.length > a.bytes)
    BY <2>1 DEF Mft!ResidentError, Mft!NoError
  <2> QED
    BY <1>5, <2>2
<1> QED
  BY <1>1, <1>2, <1>4, <1>6 DEF Mft!ErrorOf

\* Of a record that was written whole the attribute at the cursor is one the
\* writer put there, and nothing is wrong with it.
LEMMA NextIsWritten ==
  ASSUME Mft!RecordsAssumption, MftInv, Mft!WrittenWhole, pc = "walk"
  PROVE  /\ cursor \in DOMAIN record.attributes
         /\ Mft!Found = {record.attributes[cursor]}
         /\ record.attributes[cursor].type \in {"attribute", "end"}
         /\ record.attributes[cursor].type = "attribute" =>
              /\ Mft!Walking
              /\ Mft!ErrorOf(record.attributes[cursor]) = Mft!NoError
              /\ cursor + record.attributes[cursor].bytes \in DOMAIN record.attributes
              /\ \A q \in DOMAIN record.attributes :
                   q <= cursor \/ cursor + record.attributes[cursor].bytes <= q
         /\ record.attributes[cursor].type = "end" =>
              \A q \in DOMAIN record.attributes : q <= cursor
<1> DEFINE a == record.attributes[cursor]
<1>1. /\ Mft!IsRecord(record) /\ Mft!IsLaidOut(record) /\ record \in Records
      /\ cursor \in DOMAIN record.attributes
  BY WholeIs DEF MftInv, WrittenSoFar
<1>2. /\ Mft!IsAttribute(a) /\ cursor \in Nat /\ a.type \in {"attribute", "end"}
      /\ a.bytes \in Nat
  BY <1>1 DEF Mft!IsRecord, Mft!IsAttribute
<1>3. record.inUse \in Nat
  BY <1>1 DEF Mft!IsRecord
<1>4. /\ a.type = "end" => \A q \in DOMAIN record.attributes : q <= cursor
      /\ a.type = "attribute" =>
           /\ a.bytes >= 16 /\ cursor + a.bytes <= record.inUse
           /\ cursor + a.bytes \in DOMAIN record.attributes
           /\ \A q \in DOMAIN record.attributes : q <= cursor \/ cursor + a.bytes <= q
           /\ Mft!NameError(a) = Mft!NoError
  BY <1>1 DEF Mft!IsLaidOut
<1>7. a.type = "attribute" => Mft!FormError(a) = Mft!NoError
  BY <1>1, LaidOutIs
<1> HIDE DEF a
<1>5. ASSUME a.type = "attribute" PROVE Mft!Walking /\ Mft!ErrorOf(a) = Mft!NoError
  <2>1. cursor + 4 <= record.inUse
    BY <1>2, <1>3, <1>4, <1>5
  <2>2. Mft!LengthError(a) = Mft!NoError
    BY <1>2, <1>3, <1>4, <1>5, LengthsAre
  <2> QED
    BY <1>2, <1>3, <1>4, <1>5, <1>7, <2>1, <2>2, ErrorsAre DEF Mft!Walking
<1>6. Mft!Found = {a}
  BY <1>1 DEF Mft!Found, a
<1> QED
  BY <1>1, <1>2, <1>4, <1>5, <1>6 DEF a

\* The attribute that is read lies behind those that were.
LEMMA ReadApart ==
  ASSUME MftInv, Mft!RecordsAssumption, NEW a, Mft!IsAttribute(a), Mft!ErrorOf(a) = Mft!NoError,
         attributes' = Append(attributes, Mft!Result(a)),
         cursor' = cursor + a.bytes, record' = record
  PROVE  AttributesApart'
<1> DEFINE r == Mft!Result(a)
<1>1. PICK S : attributes \in Seq(S)
  BY DEF MftInv, AttributesApart
<1>2. cursor \in Nat /\ record.inUse \in Nat /\ a.bytes \in Nat
  BY DEF MftInv, AttributesApart, Mft!RecordsAssumption, Mft!IsRecord, Mft!IsAttribute
<1>3. Mft!LengthError(a) = Mft!NoError /\ Mft!FormError(a) = Mft!NoError
  BY <1>2, ErrorsAre
<1>4. /\ cursor + a.bytes <= record.inUse
      /\ a.form = 0 => a.value.from + a.value.length <= a.bytes
  BY <1>2, <1>3, LengthsAre, ErrorsAre
<1>5. /\ r.at = cursor /\ r.bytes = a.bytes /\ r.form = a.form /\ r.value = a.value
  BY DEF Mft!Result
<1> HIDE DEF r
<1>6. /\ attributes \in Seq(S \cup {r}) /\ r \in S \cup {r} /\ Len(attributes) \in Nat
      /\ DOMAIN attributes = 1 .. Len(attributes)
  BY <1>1
<1>7. /\ attributes' \in Seq(S \cup {r})
      /\ DOMAIN attributes' = 1 .. Len(attributes) + 1
      /\ \A i \in 1 .. Len(attributes) : attributes'[i] = attributes[i]
      /\ attributes'[Len(attributes) + 1] = r
  <2>1. attributes' = Append(attributes, r)
    BY DEF r
  <2> QED
    BY <1>6, <2>1
<1>8. \A i \in 1 .. Len(attributes) :
        /\ attributes[i].at \in Nat /\ attributes[i].bytes \in Nat
        /\ attributes[i].at + attributes[i].bytes <= cursor
        /\ attributes[i].at + attributes[i].bytes <= record.inUse
        /\ attributes[i].form = 0 =>
             attributes[i].value.from + attributes[i].value.length <= attributes[i].bytes
        /\ \A k \in 1 .. i - 1 : attributes[k].at + attributes[k].bytes <= attributes[i].at
  BY <1>6 DEF MftInv, AttributesApart
<1>9. ASSUME NEW i \in DOMAIN attributes'
      PROVE  /\ attributes'[i].at \in Nat /\ attributes'[i].bytes \in Nat
             /\ attributes'[i].at + attributes'[i].bytes <= cursor'
             /\ attributes'[i].at + attributes'[i].bytes <= record.inUse
             /\ attributes'[i].form = 0 =>
                  attributes'[i].value.from + attributes'[i].value.length <= attributes'[i].bytes
             /\ \A k \in 1 .. i - 1 : attributes'[k].at + attributes'[k].bytes <= attributes'[i].at
  <2>1. CASE i \in 1 .. Len(attributes)
    <3>1. attributes'[i] = attributes[i] /\ \A k \in 1 .. i - 1 : attributes'[k] = attributes[k]
      BY <1>6, <1>7, <2>1
    <3>2. attributes[i].at + attributes[i].bytes <= cursor + a.bytes
      BY <1>2, <1>8, <2>1
    <3> QED
      BY <1>8, <2>1, <3>1, <3>2
  <2>2. CASE i = Len(attributes) + 1
    <3>1. attributes'[i] = r
      BY <1>7, <2>2
    <3>2. \A k \in 1 .. i - 1 :
            attributes'[k] = attributes[k] /\ attributes[k].at + attributes[k].bytes <= cursor
      BY <1>6, <1>7, <1>8, <2>2
    <3> QED
      BY <1>2, <1>4, <1>5, <3>1, <3>2
  <2>3. i \in 1 .. Len(attributes) \/ i = Len(attributes) + 1
    BY <1>6, <1>7
  <2> QED
    BY <2>1, <2>2, <2>3
<1>10. cursor' \in Nat
  BY <1>2
<1> QED
  BY <1>7, <1>9, <1>10 DEF AttributesApart

\* ... and is the next of those that were written.
LEMMA ReadWritten ==
  ASSUME MftInv, Mft!RecordsAssumption, pc = "walk", Mft!WrittenWhole, NEW a \in Mft!Found,
         a.type = "attribute",
         attributes' = Append(attributes, Mft!Result(a)),
         cursor' = cursor + a.bytes, UNCHANGED <<record, pc, status>>
  PROVE  WrittenSoFar'
<1> DEFINE r == Mft!Result(a)
<1>1. /\ a = record.attributes[cursor] /\ cursor \in Mft!Attributes
      /\ cursor \in DOMAIN record.attributes
      /\ cursor + a.bytes \in DOMAIN record.attributes
      /\ \A q \in DOMAIN record.attributes : q <= cursor \/ cursor + a.bytes <= q
  BY NextIsWritten DEF Mft!Attributes
<1>2. Mft!IsRecord(record) /\ Mft!IsLaidOut(record) /\ status = Mft!NoError
  BY WholeIs DEF MftInv
<1>3. /\ cursor \in Nat /\ a.bytes \in Nat
      /\ \A q \in DOMAIN record.attributes : q \in Nat
  BY <1>1, <1>2 DEF Mft!IsRecord, Mft!IsAttribute
<1>4. a.bytes >= 16
  BY <1>1, <1>2 DEF Mft!IsLaidOut
<1>5. PICK S : attributes \in Seq(S)
  BY DEF MftInv, AttributesApart
<1>6. /\ r.at = cursor /\ r.form = a.form
      /\ a.form = 1 => r.runs = Mft!ParseRuns(a.pairs).runs
  BY DEF Mft!Result
<1> HIDE DEF r
<1>7. /\ attributes \in Seq(S \cup {r}) /\ r \in S \cup {r} /\ Len(attributes) \in Nat
      /\ DOMAIN attributes = 1 .. Len(attributes)
  BY <1>5
<1>8. /\ DOMAIN attributes' = 1 .. Len(attributes) + 1
      /\ \A i \in 1 .. Len(attributes) : attributes'[i] = attributes[i]
      /\ attributes'[Len(attributes) + 1] = r
  <2>1. attributes' = Append(attributes, r)
    BY DEF r
  <2> QED
    BY <1>7, <2>1
<1>9. /\ {attributes[i].at : i \in DOMAIN attributes} = {o \in Mft!Attributes : o < cursor}
      /\ \A i \in DOMAIN attributes :
           /\ attributes[i].at \in Mft!Attributes
           /\ attributes[i].form = record.attributes[attributes[i].at].form
           /\ attributes[i].form = 1 =>
                attributes[i].runs = Mft!ParseRuns(record.attributes[attributes[i].at].pairs).runs
  BY DEF MftInv, WrittenSoFar
<1>10. {attributes'[i].at : i \in DOMAIN attributes'}
         = {attributes[i].at : i \in DOMAIN attributes} \cup {cursor}
  BY <1>6, <1>7, <1>8
<1>11. {o \in Mft!Attributes : o < cursor} \cup {cursor} = {o \in Mft!Attributes : o < cursor + a.bytes}
  BY <1>1, <1>3, <1>4 DEF Mft!Attributes
<1>12. {attributes'[i].at : i \in DOMAIN attributes'} = {o \in Mft!Attributes : o < cursor'}
  BY <1>9, <1>10, <1>11
<1>13. \A i \in DOMAIN attributes' :
           /\ attributes'[i].at \in Mft!Attributes
           /\ attributes'[i].form = record.attributes[attributes'[i].at].form
           /\ attributes'[i].form = 1 =>
                attributes'[i].runs = Mft!ParseRuns(record.attributes[attributes'[i].at].pairs).runs
  <2> TAKE i \in DOMAIN attributes'
  <2>1. CASE i \in 1 .. Len(attributes)
    BY <1>7, <1>8, <1>9, <2>1
  <2>2. CASE i = Len(attributes) + 1
    BY <1>1, <1>6, <1>8, <2>2
  <2> QED
    BY <1>7, <1>8, <2>1, <2>2
<1>14. record' = record /\ pc' = "walk" /\ status' = Mft!NoError /\ Mft!Attributes' = Mft!Attributes
  BY <1>2 DEF Mft!Attributes
<1>15. pc' # "done" /\ status' # "ok"
  BY <1>14 DEF Mft!NoError
<1> HIDE DEF MftInv
<1> QED
  BY <1>1, <1>12, <1>13, <1>14, <1>15 DEF WrittenSoFar

LEMMA MftReadAttributeKeeps ==
  ASSUME Mft!RecordsAssumption, MftInv, Mft!ReadAttribute
  PROVE  MftInv'
<1>1. PICK a \in Mft!Found :
        /\ a.type = "attribute"
        /\ IF Mft!ErrorOf(a) # Mft!NoError THEN Mft!Refuse(Mft!ErrorOf(a))
           ELSE /\ attributes' = Append(attributes, Mft!Result(a))
                /\ cursor' = cursor + a.bytes
                /\ UNCHANGED <<record, pc, sector, restored, status>>
  BY DEF Mft!ReadAttribute
<1>2. Mft!IsRecord(record) /\ pc = "walk" /\ record \in Records /\ cursor \in Nat
  BY DEF MftInv, Mft!RecordsAssumption, Mft!ReadAttribute, Mft!Walking, AttributesApart
<1>3. Mft!IsAttribute(a)
  BY <1>2 DEF Mft!Found, Mft!IsRecord, Mft!RecordsAssumption
<1>4. record.inUse \in Nat
  BY <1>2 DEF Mft!IsRecord
<1>5. Mft!WrittenWhole => Mft!ErrorOf(a) = Mft!NoError
  BY <1>1, <1>2, NextIsWritten
<1>6. CASE Mft!ErrorOf(a) # Mft!NoError
  <2>1. Mft!ErrorOf(a) # "ok"
    BY <1>2, <1>3, <1>4, ErrorsAre
  <2> QED
    BY <1>1, <1>5, <1>6, <2>1, MftRefuseKeeps
<1>7. CASE Mft!ErrorOf(a) = Mft!NoError
  <2>1. AttributesApart'
    BY <1>1, <1>3, <1>7, ReadApart
  <2>2. WrittenSoFar'
    <3>1. Mft!WrittenWhole' <=> Mft!WrittenWhole
      BY <1>1, <1>7 DEF Mft!WrittenWhole, Mft!WellFormed, Mft!Sectors
    <3>2. CASE Mft!WrittenWhole
      BY <1>1, <1>2, <1>7, <3>2, ReadWritten
    <3> QED
      BY <3>1, <3>2 DEF WrittenSoFar
  <2>3. SectorsFixed'
    BY <1>1, <1>7 DEF MftInv, SectorsFixed, Mft!Matches, Mft!Stamp, Mft!WriteAt
  <2> QED
    BY <1>1, <1>2, <1>7, <2>1, <2>2, <2>3 DEF MftInv
<1> QED
  BY <1>6, <1>7

LEMMA MftFinishKeeps ==
  ASSUME Mft!RecordsAssumption, MftInv, Mft!Finish
  PROVE  MftInv'
<1>1. /\ pc = "walk" /\ Mft!AtEnd /\ pc' = "done" /\ status' = "ok"
      /\ UNCHANGED <<record, sector, restored, cursor, attributes>>
  BY DEF Mft!Finish
<1>2. SectorsFixed' /\ AttributesApart'
  BY <1>1 DEF MftInv, SectorsFixed, AttributesApart, Mft!Matches, Mft!Stamp, Mft!WriteAt
<1>3. WrittenSoFar'
  <2> SUFFICES ASSUME Mft!WrittenWhole PROVE WrittenSoFar'
    BY <1>1 DEF WrittenSoFar, Mft!WrittenWhole, Mft!WellFormed, Mft!Sectors
  <2>1. /\ cursor \in DOMAIN record.attributes
        /\ record.attributes[cursor].type = "end"
    BY <1>1, NextIsWritten DEF Mft!AtEnd
  <2>2. WrittenSoFar
    BY DEF MftInv
  <2>3. Mft!Attributes' = Mft!Attributes
    BY <1>1 DEF Mft!Attributes
  <2> HIDE DEF MftInv
  <2> QED
    BY <1>1, <2>1, <2>2, <2>3 DEF WrittenSoFar
<1> QED
  BY <1>1, <1>2, <1>3 DEF MftInv

LEMMA MftContinues ==
  ASSUME Mft!RecordsAssumption, MftInv, Mft!Next
  PROVE  MftInv'
BY MftStartKeeps, MftFixSectorKeeps, MftReadHeaderKeeps, MftReadAttributeKeeps, MftFinishKeeps DEF Mft!Next

LEMMA MftStutters ==
  ASSUME MftInv, UNCHANGED Mft!vars
  PROVE  MftInv'
<1>1. SectorsFixed' /\ AttributesApart'
  BY DEF Mft!vars, MftInv, SectorsFixed, AttributesApart, Mft!Matches, Mft!Stamp, Mft!WriteAt
<1>2. WrittenSoFar'
  BY DEF Mft!vars, MftInv, WrittenSoFar, Mft!WrittenWhole, Mft!WellFormed, Mft!Sectors, Mft!Attributes
<1> QED
  BY <1>1, <1>2 DEF Mft!vars, MftInv

-----------------------------------------------------------------------------
LEMMA OneWriteHolds ==
  ASSUME Mft!RecordsAssumption, MftInv
  PROVE  Mft!OneWrite
<1> SUFFICES ASSUME Mft!Parsed, Mft!WellFormed,
                    NEW i \in DOMAIN attributes,
                    NEW s \in Mft!SectorsOf(attributes[i].at, attributes[i].bytes)
             PROVE  record.writes[s] = record.writes[1] /\ restored[s] = s
  BY DEF Mft!OneWrite
<1>1. /\ Mft!IsRecord(record) /\ status = "ok" /\ sector >= record.usa.count
      /\ sector \in Nat \ {0} /\ SectorsFixed /\ s \in Mft!Sectors
  BY DEF MftInv, Mft!RecordsAssumption, Mft!Parsed, SectorsFixed, Mft!SectorsOf
<1>2. /\ Cardinality(Mft!Sectors) = record.length \div record.stride
      /\ record.length \div record.stride \in Nat
      /\ s \in Nat \ {0} /\ s * record.stride <= record.length
  BY <1>1, SectorsAre
<1>3. s <= record.length \div record.stride
  BY <1>1, <1>2 DEF Mft!Sectors
<1>4. /\ record.usa.count = Cardinality(Mft!Sectors) + 1 /\ record.stride = record.perSector
      /\ record.stride \in Nat \ {0}
  BY <1>1, MftCounts DEF Mft!WellFormed, Mft!IsRecord
<1>5. s \in 1 .. sector - 1
  BY <1>1, <1>2, <1>3, <1>4
<1>6. restored[s] = s /\ Mft!Matches(s * record.stride)
  BY <1>1, <1>4, <1>5 DEF SectorsFixed
<1>7. (s * record.stride) % record.stride = 0 /\ (s * record.stride - 1) \div record.stride + 1 = s
  BY <1>2, <1>4, SectorEnds
<1>8. Mft!Stamp(s * record.stride) = record.writes[s]
  BY <1>7 DEF Mft!Stamp, Mft!WriteAt
<1> QED
  BY <1>6, <1>8 DEF Mft!Matches

LEMMA MftPromises ==
  ASSUME Mft!RecordsAssumption, MftInv
  PROVE  Mft!OneWrite /\ Mft!OwnBytes /\ Mft!WrittenIsParsed
<1>1. Mft!OwnBytes
  BY DEF MftInv, AttributesApart, Mft!OwnBytes
<1>2. Mft!WrittenIsParsed
  <2> SUFFICES ASSUME pc = "done", Mft!WrittenWhole PROVE Mft!WrittenIsParsed
    BY DEF Mft!WrittenIsParsed
  <2>1. /\ status = "ok" /\ cursor \in DOMAIN record.attributes
        /\ record.attributes[cursor].type = "end"
        /\ {attributes[i].at : i \in DOMAIN attributes} = {o \in Mft!Attributes : o < cursor}
        /\ \A i \in DOMAIN attributes :
             /\ attributes[i].at \in Mft!Attributes
             /\ attributes[i].form = record.attributes[attributes[i].at].form
             /\ attributes[i].form = 1 =>
                  attributes[i].runs = Mft!ParseRuns(record.attributes[attributes[i].at].pairs).runs
    BY DEF MftInv, WrittenSoFar
  <2>2. Mft!IsRecord(record) /\ Mft!IsLaidOut(record) /\ record \in Records
    BY WholeIs DEF MftInv
  <2>3. \A q \in DOMAIN record.attributes : q <= cursor /\ q \in Nat
    BY <2>1, <2>2 DEF Mft!IsLaidOut, Mft!IsRecord
  <2>4. {o \in Mft!Attributes : o < cursor} = Mft!Attributes
    BY <2>1, <2>3 DEF Mft!Attributes
  <2>5. ASSUME NEW i \in DOMAIN attributes, attributes[i].form = 1
        PROVE  attributes[i].runs = record.attributes[attributes[i].at].runs
    <3>1. PICK o : o = attributes[i].at
      OBVIOUS
    <3>2. o \in DOMAIN record.attributes /\ record.attributes[o].type = "attribute"
      BY <2>1, <2>5, <3>1 DEF Mft!Attributes
    <3>3. /\ record.attributes[o].form = 1
          /\ attributes[i].runs = Mft!ParseRuns(record.attributes[o].pairs).runs
      BY <2>1, <2>5, <3>1
    <3>4. Mft!ParseRuns(record.attributes[o].pairs).runs = record.attributes[o].runs
      BY <2>2, <3>2, <3>3, LaidOutIs
    <3> QED
      BY <3>1, <3>3, <3>4
  <2> QED
    BY <2>1, <2>4, <2>5 DEF Mft!WrittenIsParsed, Mft!Parsed
<1> QED
  BY <1>1, <1>2, OneWriteHolds

-----------------------------------------------------------------------------
(* Powers of two *)

\* Powers double, and the small ones have small exponents.
LEMMA Doubled ==
  ASSUME NEW j \in 0 .. 31
  PROVE  /\ Probe!Pow2(j) \in Nat \ {0} /\ Probe!Pow2(j + 1) = 2 * Probe!Pow2(j)
         /\ Probe!Pow2(j) < 1073741824 => j < 30
         /\ Probe!Pow2(j) <= 255 => j <= 7
<1>1. j = 0 \/ j = 1 \/ j = 2 \/ j = 3 \/ j = 4 \/ j = 5 \/ j = 6 \/ j = 7 \/
      j = 8 \/ j = 9 \/ j = 10 \/ j = 11 \/ j = 12 \/ j = 13 \/ j = 14 \/ j = 15 \/
      j = 16 \/ j = 17 \/ j = 18 \/ j = 19 \/ j = 20 \/ j = 21 \/ j = 22 \/ j = 23 \/
      j = 24 \/ j = 25 \/ j = 26 \/ j = 27 \/ j = 28 \/ j = 29 \/ j = 30 \/ j = 31
  OBVIOUS
<1>2. CASE j = 0
  BY <1>2 DEF Probe!Pow2
<1>3. CASE j = 1
  BY <1>3 DEF Probe!Pow2
<1>4. CASE j = 2
  BY <1>4 DEF Probe!Pow2
<1>5. CASE j = 3
  BY <1>5 DEF Probe!Pow2
<1>6. CASE j = 4
  BY <1>6 DEF Probe!Pow2
<1>7. CASE j = 5
  BY <1>7 DEF Probe!Pow2
<1>8. CASE j = 6
  BY <1>8 DEF Probe!Pow2
<1>9. CASE j = 7
  BY <1>9 DEF Probe!Pow2
<1>10. CASE j = 8
  BY <1>10 DEF Probe!Pow2
<1>11. CASE j = 9
  BY <1>11 DEF Probe!Pow2
<1>12. CASE j = 10
  BY <1>12 DEF Probe!Pow2
<1>13. CASE j = 11
  BY <1>13 DEF Probe!Pow2
<1>14. CASE j = 12
  BY <1>14 DEF Probe!Pow2
<1>15. CASE j = 13
  BY <1>15 DEF Probe!Pow2
<1>16. CASE j = 14
  BY <1>16 DEF Probe!Pow2
<1>17. CASE j = 15
  BY <1>17 DEF Probe!Pow2
<1>18. CASE j = 16
  BY <1>18 DEF Probe!Pow2
<1>19. CASE j = 17
  BY <1>19 DEF Probe!Pow2
<1>20. CASE j = 18
  BY <1>20 DEF Probe!Pow2
<1>21. CASE j = 19
  BY <1>21 DEF Probe!Pow2
<1>22. CASE j = 20
  BY <1>22 DEF Probe!Pow2
<1>23. CASE j = 21
  BY <1>23 DEF Probe!Pow2
<1>24. CASE j = 22
  BY <1>24 DEF Probe!Pow2
<1>25. CASE j = 23
  BY <1>25 DEF Probe!Pow2
<1>26. CASE j = 24
  BY <1>26 DEF Probe!Pow2
<1>27. CASE j = 25
  BY <1>27 DEF Probe!Pow2
<1>28. CASE j = 26
  BY <1>28 DEF Probe!Pow2
<1>29. CASE j = 27
  BY <1>29 DEF Probe!Pow2
<1>30. CASE j = 28
  BY <1>30 DEF Probe!Pow2
<1>31. CASE j = 29
  BY <1>31 DEF Probe!Pow2
<1>32. CASE j = 30
  BY <1>32 DEF Probe!Pow2
<1>33. CASE j = 31
  BY <1>33 DEF Probe!Pow2
<1> QED
  BY <1>1, <1>2, <1>3, <1>4, <1>5, <1>6, <1>7, <1>8, <1>9, <1>10, <1>11, <1>12,
    <1>13, <1>14, <1>15, <1>16, <1>17, <1>18, <1>19, <1>20, <1>21, <1>22, <1>23,
    <1>24, <1>25, <1>26, <1>27, <1>28, <1>29, <1>30, <1>31, <1>32, <1>33

LEMMA PowerDoubles ==
  ASSUME NEW n \in Nat, Probe!IsPower(n), n < 1073741824
  PROVE  Probe!IsPower(2 * n)
<1>1. PICK k \in 0 .. 30 : n = Probe!Pow2(k)
  BY DEF Probe!IsPower
<1>2. k \in 0 .. 31
  BY <1>1
<1>3. k < 30 /\ Probe!Pow2(k + 1) = 2 * n
  BY <1>1, <1>2, Doubled
<1>4. k + 1 \in 0 .. 30
  BY <1>1, <1>3
<1> QED
  BY <1>3, <1>4 DEF Probe!IsPower

\* A sector of so many bytes, and a power of two of them.
LEMMA ClustersArePowers ==
  ASSUME NEW n \in Nat, Probe!IsPower(n), n <= 65535, NEW k \in 0 .. 7
  PROVE  Probe!IsPower(n * Probe!Pow2(k))
<1>1. Probe!IsPower(2 * n)
  BY PowerDoubles
<1>2. Probe!IsPower(4 * n)
  <2>1. Probe!IsPower(2 * (2 * n))
    BY <1>1, PowerDoubles
  <2> QED
    BY <2>1
<1>3. Probe!IsPower(8 * n)
  <2>1. Probe!IsPower(2 * (4 * n))
    BY <1>2, PowerDoubles
  <2>2. 2 * (4 * n) = 8 * n
    OBVIOUS
  <2> QED
    BY <2>1, <2>2
<1>4. Probe!IsPower(16 * n)
  <2>1. Probe!IsPower(2 * (8 * n))
    BY <1>3, PowerDoubles
  <2>2. 2 * (8 * n) = 16 * n
    OBVIOUS
  <2> QED
    BY <2>1, <2>2
<1>5. Probe!IsPower(32 * n)
  <2>1. Probe!IsPower(2 * (16 * n))
    BY <1>4, PowerDoubles
  <2>2. 2 * (16 * n) = 32 * n
    OBVIOUS
  <2> QED
    BY <2>1, <2>2
<1>6. Probe!IsPower(64 * n)
  <2>1. Probe!IsPower(2 * (32 * n))
    BY <1>5, PowerDoubles
  <2>2. 2 * (32 * n) = 64 * n
    OBVIOUS
  <2> QED
    BY <2>1, <2>2
<1>7. Probe!IsPower(128 * n)
  <2>1. Probe!IsPower(2 * (64 * n))
    BY <1>6, PowerDoubles
  <2>2. 2 * (64 * n) = 128 * n
    OBVIOUS
  <2> QED
    BY <2>1, <2>2
<1>8. k = 0 \/ k = 1 \/ k = 2 \/ k = 3 \/ k = 4 \/ k = 5 \/ k = 6 \/ k = 7
  OBVIOUS
<1>9. CASE k = 0
  <2>1. n * Probe!Pow2(k) = n
    BY <1>9 DEF Probe!Pow2
  <2> QED
    BY <2>1
<1>10. CASE k = 1
  <2>1. n * Probe!Pow2(k) = 2 * n
    BY <1>10 DEF Probe!Pow2
  <2> QED
    BY <1>1, <2>1
<1>11. CASE k = 2
  <2>1. n * Probe!Pow2(k) = 4 * n
    BY <1>11 DEF Probe!Pow2
  <2> QED
    BY <1>2, <2>1
<1>12. CASE k = 3
  <2>1. n * Probe!Pow2(k) = 8 * n
    BY <1>12 DEF Probe!Pow2
  <2> QED
    BY <1>3, <2>1
<1>13. CASE k = 4
  <2>1. n * Probe!Pow2(k) = 16 * n
    BY <1>13 DEF Probe!Pow2
  <2> QED
    BY <1>4, <2>1
<1>14. CASE k = 5
  <2>1. n * Probe!Pow2(k) = 32 * n
    BY <1>14 DEF Probe!Pow2
  <2> QED
    BY <1>5, <2>1
<1>15. CASE k = 6
  <2>1. n * Probe!Pow2(k) = 64 * n
    BY <1>15 DEF Probe!Pow2
  <2> QED
    BY <1>6, <2>1
<1>16. CASE k = 7
  <2>1. n * Probe!Pow2(k) = 128 * n
    BY <1>16 DEF Probe!Pow2
  <2> QED
    BY <1>7, <2>1
<1> QED
  BY <1>8, <1>9, <1>10, <1>11, <1>12, <1>13, <1>14, <1>15, <1>16

LEMMA PowersArePositive ==
  ASSUME NEW n, Probe!IsPower(n)
  PROVE  n \in Nat \ {0}
<1>1. PICK k \in 0 .. 30 : n = Probe!Pow2(k)
  BY DEF Probe!IsPower
<1>2. k \in 0 .. 31
  BY <1>1
<1> QED
  BY <1>1, <1>2, Doubled

LEMMA ClusterIsPower ==
  ASSUME NEW n \in Probe!Word, Probe!IsPower(n), NEW c \in Probe!Byte, Probe!IsPower(c)
  PROVE  Probe!IsPower(n * c)
<1>1. PICK k \in 0 .. 30 : c = Probe!Pow2(k)
  BY DEF Probe!IsPower
<1>2. k \in 0 .. 31
  BY <1>1
<1>3. Probe!Pow2(k) \in Nat /\ (Probe!Pow2(k) <= 255 => k <= 7)
  BY <1>2, Doubled
<1>4. k <= 7
  BY <1>1, <1>3 DEF Probe!Byte
<1>5. k \in 0 .. 7 /\ n \in Nat /\ n <= 65535
  BY <1>1, <1>4 DEF Probe!Word
<1>6. Probe!IsPower(n * Probe!Pow2(k))
  BY <1>5, ClustersArePowers
<1> QED
  BY <1>1, <1>6

-----------------------------------------------------------------------------
(* Headers *)

IsSound(g) == Probe!IsPower(g.block) /\ \A n \in g.others : n > 0

LEMMA GeometryFields ==
  ASSUME NEW block, NEW others
  PROVE  Probe!Geometry(block, others).block = block /\ Probe!Geometry(block, others).others = others
  BY DEF Probe!Geometry

LEMMA SoundGeometry ==
  ASSUME NEW block, NEW others, Probe!IsPower(block), \A n \in others : n > 0
  PROVE  IsSound(Probe!Geometry(block, others)) /\ Probe!Geometry(block, others) # Probe!NoGeometry
<1>1. block # 0
  BY PowersArePositive
<1>2. Probe!Geometry(block, others).block = block /\ Probe!Geometry(block, others).others = others
  BY GeometryFields, Zenon
<1>3. Probe!NoGeometry.block = 0
  BY DEF Probe!NoGeometry
<1> QED
  BY <1>1, <1>2, <1>3, Zenon DEF IsSound

LEMMA RecordSizes ==
  ASSUME NEW raw \in Probe!SignedByte, NEW cluster \in Nat \ {0}, Probe!RecordSize(raw, cluster) # 0
  PROVE  Probe!RecordSize(raw, cluster) > 0
<1>1. CASE raw > 0
  <2>1. Probe!RecordSize(raw, cluster) = cluster * raw
    BY <1>1 DEF Probe!RecordSize, Probe!SignedByte
  <2>2. cluster * raw \in Nat
    BY <1>1 DEF Probe!SignedByte
  <2> QED
    BY <2>1, <2>2
<1>2. CASE raw < 0 /\ raw > -32
  <2>1. -raw \in 0 .. 31
    BY <1>2 DEF Probe!SignedByte
  <2>2. Probe!RecordSize(raw, cluster) = Probe!Pow2(-raw)
    BY <1>2 DEF Probe!RecordSize, Probe!SignedByte
  <2> QED
    BY <2>1, <2>2, Doubled
<1>3. CASE ~(raw > 0) /\ ~(raw < 0 /\ raw > -32)
  BY <1>3 DEF Probe!RecordSize
<1> QED
  BY <1>1, <1>2, <1>3

LEMMA NtfsIsSound ==
  ASSUME NEW b, b.sector \in Probe!Word, b.cluster \in Probe!Byte, b.record \in Probe!SignedByte,
         b.index \in Probe!SignedByte, Probe!IsNtfs(b)
  PROVE  IsSound(Probe!NtfsGeometry(b)) /\ Probe!NtfsGeometry(b) # Probe!NoGeometry
<1>1. Probe!IsPower(b.sector) /\ Probe!IsPower(b.cluster) /\ 0 \notin Probe!NtfsSizes(b)
  BY Zenon DEF Probe!IsNtfs
<1>2. Probe!IsPower(b.sector * b.cluster)
  BY <1>1, ClusterIsPower
<1>3. b.sector * b.cluster \in Nat \ {0}
  BY <1>2, PowersArePositive
<1>4. \A n \in Probe!NtfsSizes(b) : n > 0
  <2> DEFINE cluster == b.sector * b.cluster
             recordSize == b.record
             indexSize == b.index
  <2>1. cluster \in Nat \ {0} /\ recordSize \in Probe!SignedByte /\ indexSize \in Probe!SignedByte
    BY <1>3
  <2>2. Probe!NtfsSizes(b) = {Probe!RecordSize(recordSize, cluster), Probe!RecordSize(indexSize, cluster)}
    BY DEF Probe!NtfsSizes
  <2> HIDE DEF cluster, recordSize, indexSize
  <2>3. Probe!RecordSize(recordSize, cluster) > 0 /\ Probe!RecordSize(indexSize, cluster) > 0
    BY <1>1, <2>1, <2>2, RecordSizes
  <2> QED
    BY <2>2, <2>3
<1> QED
  BY <1>2, <1>4, SoundGeometry DEF Probe!NtfsGeometry

LEMMA RefsIsSound ==
  ASSUME NEW b, b.sector \in Probe!Word, b.cluster \in Probe!Byte, Probe!IsRefs(b)
  PROVE  IsSound(Probe!RefsGeometry(b)) /\ Probe!RefsGeometry(b) # Probe!NoGeometry
<1>1. Probe!IsPower(b.sector) /\ Probe!IsPower(b.cluster)
  BY Zenon DEF Probe!IsRefs
<1>2. Probe!IsPower(b.sector * b.cluster)
  BY <1>1, ClusterIsPower
<1>3. \A n \in {b.sector} : n > 0
  <2>1. b.sector \in Nat \ {0}
    BY <1>1, PowersArePositive
  <2> QED
    BY <2>1
<1> QED
  BY <1>2, <1>3, SoundGeometry DEF Probe!RefsGeometry

LEMMA ShiftsArePowers ==
  ASSUME NEW s, NEW k \in 0 .. 7, s \in 9 .. 12
  PROVE  Probe!IsPower(Probe!Pow2(s) * Probe!Pow2(k)) /\ Probe!Pow2(s) > 0
<1>1. s \in 0 .. 31 /\ s \in 0 .. 30
  OBVIOUS
<1>2. Probe!Pow2(s) \in Nat \ {0} /\ Probe!IsPower(Probe!Pow2(s))
  BY <1>1, Doubled DEF Probe!IsPower
<1>3. Probe!Pow2(s) <= 65535
  <2>1. s = 9 \/ s = 10 \/ s = 11 \/ s = 12
    OBVIOUS
  <2>2. CASE s = 9
    BY <2>2 DEF Probe!Pow2
  <2>3. CASE s = 10
    BY <2>3 DEF Probe!Pow2
  <2>4. CASE s = 11
    BY <2>4 DEF Probe!Pow2
  <2>5. CASE s = 12
    BY <2>5 DEF Probe!Pow2
  <2> QED
    BY <2>1, <2>2, <2>3, <2>4, <2>5
<1>4. Probe!IsPower(Probe!Pow2(s) * Probe!Pow2(k))
  BY <1>2, <1>3, ClustersArePowers
<1> QED
  BY <1>2, <1>4

LEMMA ExtIsSound ==
  ASSUME NEW e, e.shift \in Nat, Probe!IsExt(e)
  PROVE  IsSound(Probe!ExtGeometry(e)) /\ Probe!ExtGeometry(e) # Probe!NoGeometry
<1>1. e.shift \in 0 .. 7 /\ e.inode \in 128 .. 4096
  BY DEF Probe!IsExt
<1> DEFINE k == e.shift
           i == e.inode
<1>2. k \in 0 .. 7 /\ i \in 128 .. 4096 /\ Probe!ExtGeometry(e) = Probe!Geometry(1024 * Probe!Pow2(k), {i})
  BY <1>1 DEF Probe!ExtGeometry
<1> HIDE DEF k, i
<1>3. Probe!IsPower(Probe!Pow2(10) * Probe!Pow2(k))
  BY <1>2, ShiftsArePowers
<1>4. Probe!Pow2(10) = 1024
  BY DEF Probe!Pow2
<1>5. Probe!IsPower(1024 * Probe!Pow2(k))
  BY <1>3, <1>4
<1>6. \A n \in {i} : n > 0
  BY <1>2
<1> QED
  BY <1>2, <1>5, <1>6, SoundGeometry

LEMMA FatIsSound ==
  ASSUME NEW b, b.sector \in Probe!Word, b.cluster \in Probe!Byte, Probe!IsFat32(b)
  PROVE  IsSound(Probe!Fat32Geometry(b)) /\ Probe!Fat32Geometry(b) # Probe!NoGeometry
<1>1. Probe!IsSectorSize(b.sector) /\ Probe!IsClusterFactor(b.cluster)
  BY Zenon DEF Probe!IsFat32
<1>2. Probe!IsPower(b.sector) /\ Probe!IsPower(b.cluster)
  BY <1>1 DEF Probe!IsSectorSize, Probe!IsClusterFactor
<1>3. Probe!IsPower(b.sector * b.cluster)
  BY <1>2, ClusterIsPower
<1>4. \A n \in {b.sector} : n > 0
  <2>1. b.sector \in Nat \ {0}
    BY <1>2, PowersArePositive
  <2> QED
    BY <2>1
<1> QED
  BY <1>3, <1>4, SoundGeometry DEF Probe!Fat32Geometry

LEMMA ExfatIsSound ==
  ASSUME NEW b, b.clusterShift \in Nat, Probe!IsExfat(b)
  PROVE  IsSound(Probe!ExfatGeometry(b)) /\ Probe!ExfatGeometry(b) # Probe!NoGeometry
<1> DEFINE s == b.sectorShift
           k == b.clusterShift
<1>1. s \in 9 .. 12 /\ Probe!IsClusterFactor(Probe!InOneByte(k)) /\ k \in Nat
  BY Zenon DEF Probe!IsExfat
<1>2. Probe!ExfatGeometry(b) = Probe!Geometry(Probe!Pow2(s) * Probe!InOneByte(k), {Probe!Pow2(s)})
  BY DEF Probe!ExfatGeometry
<1> HIDE DEF s, k
<1>3. Probe!InOneByte(k) # 0
  BY <1>1, Zenon DEF Probe!IsClusterFactor
<1>4. k \in 0 .. 7 /\ Probe!InOneByte(k) = Probe!Pow2(k)
  BY <1>1, <1>3 DEF Probe!InOneByte
<1>5. Probe!IsPower(Probe!Pow2(s) * Probe!Pow2(k)) /\ Probe!Pow2(s) > 0
  BY <1>1, <1>4, ShiftsArePowers
<1>6. \A n \in {Probe!Pow2(s)} : n > 0
  BY <1>5
<1>7. IsSound(Probe!Geometry(Probe!Pow2(s) * Probe!Pow2(k), {Probe!Pow2(s)}))
      /\ Probe!Geometry(Probe!Pow2(s) * Probe!Pow2(k), {Probe!Pow2(s)}) # Probe!NoGeometry
  BY <1>5, <1>6, SoundGeometry
<1> QED
  BY <1>2, <1>4, <1>7

LEMMA BlockIsSound ==
  ASSUME NEW block, Probe!IsPower(block)
  PROVE  IsSound(Probe!Geometry(block, {})) /\ Probe!Geometry(block, {}) # Probe!NoGeometry
  BY SoundGeometry

LEMMA UnitIsSound ==
  ASSUME NEW block, Probe!IsPower(block), NEW unit, unit > 0
  PROVE  IsSound(Probe!Geometry(block, {unit})) /\ Probe!Geometry(block, {unit}) # Probe!NoGeometry
<1>1. \A n \in {unit} : n > 0
  BY Zenon
<1> QED
  BY <1>1, SoundGeometry

LEMMA BlocksArePowers ==
  ASSUME NEW n, NEW least, Probe!IsBlock(n, least)
  PROVE  Probe!IsPower(n)
  BY Zenon DEF Probe!IsBlock

LEMMA SmallerBlocks ==
  ASSUME NEW n, NEW least \in Nat, NEW lower \in Nat, lower <= least, Probe!IsBlock(n, least)
  PROVE  Probe!IsBlock(n, lower)
<1>1. Probe!IsPower(n) /\ n \in least .. Probe!MaxBlock
  BY Zenon DEF Probe!IsBlock
<1>2. least .. Probe!MaxBlock \subseteq lower .. Probe!MaxBlock
  BY SMT DEF Probe!MaxBlock
<1> QED
  BY <1>1, <1>2, Zenon DEF Probe!IsBlock

LEMMA BlocksAre ==
  ASSUME NEW h
  PROVE  /\ Probe!IsXfs(h) => Probe!IsPower(h.block) /\ Probe!IsPower(h.inode)
         /\ Probe!IsUfs(h) => Probe!IsPower(h.block) /\ h.fragment \in 1 .. h.block
         /\ Probe!IsApfs(h) => Probe!IsPower(h.block)
         /\ Probe!IsHfs(h) => Probe!IsPower(h.block)
<1>1. Probe!IsXfs(h) => Probe!IsBlock(h.block, 512) /\ Probe!IsPower(h.inode)
  BY SMT DEF Probe!IsXfs
<1>2. Probe!IsUfs(h) => Probe!IsBlock(h.block, 512)
  BY SMT DEF Probe!IsUfs
<1>6. Probe!IsUfs(h) => h.fragment \in 1 .. h.block
  BY Zenon DEF Probe!IsUfs
<1>3. Probe!IsApfs(h) => Probe!IsPower(h.block)
  <2>1. Probe!IsApfs(h) => Probe!IsBlock(h.block, 4096)
    BY SMT DEF Probe!IsApfs
  <2> QED
    BY <2>1, BlocksArePowers, SMT
<1>4. Probe!IsHfs(h) => Probe!IsPower(h.block)
  BY SMT DEF Probe!IsHfs
<1>5. Probe!IsBlock(h.block, 512) => Probe!IsPower(h.block)
  BY BlocksArePowers, Zenon
<1> QED
  BY <1>1, <1>2, <1>3, <1>4, <1>5, <1>6

Systems == {"ntfs", "refs", "ext", "xfs", "ufs", "apfs", "hfs", "fat"}

\* What is found of a volume can be worked with, whichever probe finds it.
LEMMA MeasuredIsSound ==
  ASSUME Probe!IsVolume(volume), NEW fs \in Systems, Probe!Accepted(fs)
  PROVE  IsSound(Probe!Measured(fs)) /\ Probe!Measured(fs) # Probe!NoGeometry
<1>1. /\ volume.boot.sector \in Probe!Word /\ volume.boot.cluster \in Probe!Byte
      /\ volume.boot.record \in Probe!SignedByte /\ volume.boot.index \in Probe!SignedByte
      /\ volume.boot.clusterShift \in Nat /\ volume.ext.shift \in Nat
  BY Zenon DEF Probe!IsVolume
<1>2. CASE fs = "ntfs"
  <2>1. Probe!IsNtfs(volume.boot) /\ Probe!Measured(fs) = Probe!NtfsGeometry(volume.boot)
    BY <1>2 DEF Probe!Accepted, Probe!Measured
  <2> QED
    BY <1>1, <2>1, NtfsIsSound
<1>3. CASE fs = "refs"
  <2>1. Probe!IsRefs(volume.boot) /\ Probe!Measured(fs) = Probe!RefsGeometry(volume.boot)
    BY <1>3 DEF Probe!Accepted, Probe!Measured
  <2> QED
    BY <1>1, <2>1, RefsIsSound
<1>4. CASE fs = "ext"
  <2>1. Probe!IsExt(volume.ext) /\ Probe!Measured(fs) = Probe!ExtGeometry(volume.ext)
    BY <1>4 DEF Probe!Accepted, Probe!Measured
  <2> QED
    BY <1>1, <2>1, ExtIsSound
<1>5. CASE fs = "xfs"
  <2>1. Probe!IsXfs(volume.xfs) /\ Probe!Measured(fs) = Probe!XfsGeometry(volume.xfs)
    BY <1>5 DEF Probe!Accepted, Probe!Measured
  <2>2. Probe!IsPower(volume.xfs.block) /\ Probe!IsPower(volume.xfs.inode)
    BY <2>1, BlocksAre, Zenon
  <2>3. volume.xfs.inode \in Nat \ {0}
    BY <2>2, PowersArePositive
  <2>4. volume.xfs.inode > 0
    BY <2>3
  <2> QED
    BY <2>1, <2>2, <2>4, UnitIsSound, Zenon DEF Probe!XfsGeometry
<1>6. CASE fs = "ufs"
  <2>1. Probe!IsUfs(volume.ufs) /\ Probe!Measured(fs) = Probe!UfsGeometry(volume.ufs)
    BY <1>6 DEF Probe!Accepted, Probe!Measured
  <2>2. Probe!IsPower(volume.ufs.block) /\ volume.ufs.fragment \in 1 .. volume.ufs.block
    BY <2>1, BlocksAre, Zenon
  <2>3. volume.ufs.block \in Nat
    BY <2>2, PowersArePositive
  <2>4. volume.ufs.fragment > 0
    BY <2>2, <2>3
  <2> QED
    BY <2>1, <2>2, <2>4, UnitIsSound, Zenon DEF Probe!UfsGeometry
<1>7. CASE fs = "apfs"
  <2>1. Probe!IsApfs(volume.apfs) /\ Probe!Measured(fs) = Probe!ApfsGeometry(volume.apfs)
    BY <1>7 DEF Probe!Accepted, Probe!Measured
  <2> QED
    BY <2>1, BlockIsSound, BlocksAre, Zenon DEF Probe!ApfsGeometry
<1>8. CASE fs = "hfs"
  <2>1. Probe!IsHfs(volume.hfs) /\ Probe!Measured(fs) = Probe!HfsGeometry(volume.hfs)
    BY <1>8 DEF Probe!Accepted, Probe!Measured
  <2> QED
    BY <2>1, BlockIsSound, BlocksAre, Zenon DEF Probe!HfsGeometry
<1>9. CASE fs = "fat" /\ volume.boot.oem = "exfat"
  <2>1. Probe!IsExfat(volume.boot) /\ Probe!Measured(fs) = Probe!ExfatGeometry(volume.boot)
    BY <1>9 DEF Probe!Accepted, Probe!Measured
  <2> QED
    BY <1>1, <2>1, ExfatIsSound
<1>10. CASE fs = "fat" /\ volume.boot.oem # "exfat"
  <2>1. Probe!IsFat32(volume.boot) /\ Probe!Measured(fs) = Probe!Fat32Geometry(volume.boot)
    BY <1>10 DEF Probe!Accepted, Probe!Measured
  <2> QED
    BY <1>1, <2>1, FatIsSound
<1> QED
  BY <1>2, <1>3, <1>4, <1>5, <1>6, <1>7, <1>8, <1>9, <1>10 DEF Systems

-----------------------------------------------------------------------------
(* What formatting wrote, and the probes *)

\* No parser takes a header of another format, but for that of FAT, tried last.
LEMMA OnlyItsOwn ==
  ASSUME Probe!IsFormatted(volume), NEW fs \in Systems \ {"fat"}, Probe!Accepted(fs)
  PROVE  volume.as = fs
<1>1. /\ volume.boot.oem = "ntfs" <=> volume.as = "ntfs"
      /\ volume.boot.oem = "refs" <=> volume.as = "refs"
      /\ volume.ext.magic <=> volume.as = "ext"
      /\ volume.xfs.magic <=> volume.as = "xfs"
      /\ volume.ufs.magic <=> volume.as = "ufs"
      /\ volume.apfs.magic <=> volume.as = "apfs"
      /\ volume.hfs.magic <=> volume.as = "hfs"
  BY Zenon DEF Probe!IsFormatted, Probe!HasItsMagic
<1>2. CASE fs = "ntfs"
  BY <1>1, <1>2 DEF Probe!Accepted, Probe!IsNtfs
<1>3. CASE fs = "refs"
  BY <1>1, <1>3 DEF Probe!Accepted, Probe!IsRefs
<1>4. CASE fs = "ext"
  BY <1>1, <1>4 DEF Probe!Accepted, Probe!IsExt
<1>5. CASE fs = "xfs"
  BY <1>1, <1>5 DEF Probe!Accepted, Probe!IsXfs
<1>6. CASE fs = "ufs"
  BY <1>1, <1>6 DEF Probe!Accepted, Probe!IsUfs
<1>7. CASE fs = "apfs"
  BY <1>1, <1>7 DEF Probe!Accepted, Probe!IsApfs
<1>8. CASE fs = "hfs"
  BY <1>1, <1>8 DEF Probe!Accepted, Probe!IsHfs
<1> QED
  BY <1>2, <1>3, <1>4, <1>5, <1>6, <1>7, <1>8 DEF Systems

\* A record has a size, in clusters or as an exponent.
LEMMA RecordsHaveSizes ==
  ASSUME NEW raw \in (-31 .. -1) \cup (1 .. 127), NEW cluster \in Nat \ {0}
  PROVE  Probe!RecordSize(raw, cluster) # 0
<1>1. CASE raw > 0
  <2>1. Probe!RecordSize(raw, cluster) = cluster * raw
    BY <1>1 DEF Probe!RecordSize
  <2>2. cluster * raw > 0
    BY <1>1
  <2> QED
    BY <2>1, <2>2
<1>2. CASE raw < 0
  <2>1. -raw \in 0 .. 31
    BY <1>2
  <2>2. Probe!RecordSize(raw, cluster) = Probe!Pow2(-raw)
    BY <1>2 DEF Probe!RecordSize
  <2> QED
    BY <2>1, <2>2, Doubled
<1> QED
  BY <1>1, <1>2

LEMMA NtfsAccepted ==
  ASSUME Probe!IsVolume(volume), Probe!IsFormatted(volume), volume.as = "ntfs"
  PROVE  Probe!IsNtfs(volume.boot)
<1> DEFINE s == volume.boot.sector
           c == volume.boot.cluster
           recordSize == volume.boot.record
           indexSize == volume.boot.index
<1>1. s \in Probe!Word /\ c \in Probe!Byte
  BY Zenon DEF Probe!IsVolume
<1>2. volume.boot.oem = "ntfs" /\ volume.boot.signature
  BY DEF Probe!IsFormatted, Probe!HasItsMagic, Probe!SizesAllowed
<1>3. Probe!IsPower(s) /\ Probe!IsPower(c)
  BY SMT DEF Probe!IsFormatted, Probe!HasItsMagic, Probe!SizesAllowed
<1>4. {recordSize, indexSize} \subseteq (-31 .. -1) \cup (1 .. 127)
  BY SMT DEF Probe!IsFormatted, Probe!HasItsMagic, Probe!SizesAllowed
<1>5. Probe!NtfsSizes(volume.boot) = {Probe!RecordSize(recordSize, s * c), Probe!RecordSize(indexSize, s * c)}
  BY DEF Probe!NtfsSizes
<1> HIDE DEF s, c, recordSize, indexSize
<1>6. Probe!IsPower(s * c)
  BY <1>1, <1>3, ClusterIsPower
<1> DEFINE n == s * c
<1>7. n \in Nat \ {0} /\ recordSize \in (-31 .. -1) \cup (1 .. 127)
      /\ indexSize \in (-31 .. -1) \cup (1 .. 127)
  BY <1>4, <1>6, PowersArePositive
<1>8. Probe!NtfsSizes(volume.boot) = {Probe!RecordSize(recordSize, n), Probe!RecordSize(indexSize, n)}
  BY <1>5
<1> HIDE DEF n
<1>9. Probe!RecordSize(recordSize, n) # 0 /\ Probe!RecordSize(indexSize, n) # 0
  BY <1>7, RecordsHaveSizes
<1>10. 0 \notin Probe!NtfsSizes(volume.boot)
  BY <1>8, <1>9, Zenon
<1> QED
  BY <1>2, <1>3, <1>10, Zenon DEF Probe!IsNtfs, s, c

\* exFAT: a cluster of more than 128 sectors is kept in one byte as none.
Narrow(v) == v.boot.oem = "exfat" => v.boot.clusterShift <= 7

LEMMA ExfatAccepted ==
  ASSUME Probe!IsVolume(volume), Probe!IsFormatted(volume), volume.as = "fat", volume.boot.oem = "exfat",
         Narrow(volume)
  PROVE  Probe!IsExfat(volume.boot)
<1> DEFINE s == volume.boot.sectorShift
           k == volume.boot.clusterShift
<1>1. k \in Nat
  BY Zenon DEF Probe!IsVolume
<1>2. /\ volume.boot.signature /\ volume.boot.fats > 0 /\ volume.boot.root >= 2
      /\ s \in 9 .. 12
  BY SMT DEF Probe!IsFormatted, Probe!HasItsMagic, Probe!SizesAllowed
<1>3. k \in 0 .. 7
  BY <1>1 DEF Narrow
<1>4. volume.boot.fats # 0
  BY <1>2
<1> HIDE DEF s, k
<1>5. Probe!InOneByte(k) = Probe!Pow2(k) /\ k \in 0 .. 31 /\ k \in 0 .. 30
  BY <1>3 DEF Probe!InOneByte
<1>6. Probe!Pow2(k) # 0 /\ Probe!IsPower(Probe!Pow2(k))
  BY <1>5, Doubled DEF Probe!IsPower
<1>7. Probe!IsClusterFactor(Probe!InOneByte(k)) /\ k <= 12
  BY <1>3, <1>5, <1>6 DEF Probe!IsClusterFactor
<1> QED
  BY <1>2, <1>4, <1>7, Zenon DEF Probe!IsExfat, s, k

LEMMA Fat32Accepted ==
  ASSUME Probe!IsVolume(volume), Probe!IsFormatted(volume), volume.as = "fat", volume.boot.oem # "exfat"
  PROVE  Probe!IsFat32(volume.boot)
<1> DEFINE s == volume.boot.sector
           c == volume.boot.cluster
<1>1. volume.boot.oem = "other"
  <2>1. volume.boot.oem \in {"ntfs", "refs", "exfat", "other"}
    BY Zenon DEF Probe!IsVolume
  <2>2. volume.boot.oem # "ntfs" /\ volume.boot.oem # "refs"
    BY DEF Probe!IsFormatted, Probe!HasItsMagic, Probe!SizesAllowed
  <2> QED
    BY <2>1, <2>2
<1>2. /\ volume.boot.signature /\ volume.boot.fats > 0 /\ volume.boot.root >= 2
      /\ volume.boot.fat16 = 0 /\ volume.boot.fat32 > 0
  BY <1>1, SMT DEF Probe!IsFormatted, Probe!HasItsMagic, Probe!SizesAllowed
<1>7. Probe!IsSectorSize(s)
  BY <1>1, SMT DEF Probe!IsFormatted, Probe!HasItsMagic, Probe!SizesAllowed
<1>3. Probe!IsPower(c)
  BY <1>1, SMT DEF Probe!IsFormatted, Probe!HasItsMagic, Probe!SizesAllowed
<1>4. volume.boot.fats # 0 /\ volume.boot.fat32 # 0
  BY <1>2
<1>5. c # 0
  BY <1>3, PowersArePositive
<1> HIDE DEF s, c
<1>6. Probe!IsSectorSize(s) /\ Probe!IsClusterFactor(c)
  BY <1>3, <1>5, <1>7, SMT DEF Probe!IsClusterFactor
<1> QED
  BY <1>2, <1>4, <1>6, Zenon DEF Probe!IsFat32, s, c

LEMMA ItsSystem ==
  ASSUME Probe!IsVolume(volume), volume.as # "none"
  PROVE  volume.as \in Systems
<1>1. volume.as \in Probe!ToSet(Probe!Order)
  BY Zenon DEF Probe!IsVolume
<1>2. PICK i \in DOMAIN Probe!Order : volume.as = Probe!Order[i]
  BY <1>1 DEF Probe!ToSet
<1>3. i \in 1 .. 8
  BY <1>2 DEF Probe!Order
<1> QED
  BY <1>2, <1>3 DEF Probe!Order, Systems

\* The parser of the file system that was written accepts what was written.
LEMMA ItsOwnAccepted ==
  ASSUME Probe!IsVolume(volume), Probe!IsFormatted(volume), volume.as # "none", Narrow(volume)
  PROVE  Probe!Accepted(volume.as)
<1>1. CASE volume.as = "ntfs"
  BY <1>1, NtfsAccepted DEF Probe!Accepted
<1>2. CASE volume.as = "refs"
  <2>1. volume.boot.oem = "refs" /\ volume.boot.sector >= 512
    BY <1>2, SMT DEF Probe!IsFormatted, Probe!HasItsMagic, Probe!SizesAllowed
  <2>2. Probe!IsPower(volume.boot.sector) /\ Probe!IsPower(volume.boot.cluster)
    BY <1>2, SMT DEF Probe!IsFormatted, Probe!HasItsMagic, Probe!SizesAllowed
  <2>3. Probe!IsRefs(volume.boot)
    BY <2>1, <2>2, Zenon DEF Probe!IsRefs
  <2> QED
    BY <1>2, <2>3 DEF Probe!Accepted
<1>3. CASE volume.as = "ext"
  <2> DEFINE e == volume.ext
  <2>1. e.magic /\ e.shift <= 6 /\ e.inode \in {128, 256, 512, 1024, 2048, 4096}
    BY <1>3, SMT DEF Probe!IsFormatted, Probe!HasItsMagic, Probe!SizesAllowed
  <2> HIDE DEF e
  <2>2. Probe!IsExt(e)
    BY <2>1, SMT DEF Probe!IsExt
  <2> QED
    BY <1>3, <2>2 DEF Probe!Accepted, e
<1>4. CASE volume.as = "xfs"
  <2> DEFINE x == volume.xfs
  <2>1. x.magic /\ x.groups > 0 /\ x.blocks > 0 /\ x.inode \in 256 .. 2048
    BY <1>4, SMT DEF Probe!IsFormatted, Probe!HasItsMagic, Probe!SizesAllowed
  <2>2. Probe!IsBlock(x.block, 512) /\ Probe!IsPower(x.inode)
    BY <1>4, SMT DEF Probe!IsFormatted, Probe!HasItsMagic, Probe!SizesAllowed
  <2> HIDE DEF x
  <2>3. x.groups # 0 /\ x.blocks # 0 /\ x.inode \in 256 .. 4096
    BY <2>1
  <2>4. Probe!IsXfs(x)
    BY <2>1, <2>2, <2>3, SMT DEF Probe!IsXfs
  <2> QED
    BY <1>4, <2>4 DEF Probe!Accepted, x
<1>5. CASE volume.as = "ufs"
  <2> DEFINE u == volume.ufs
  <2>1. u.magic /\ u.blocks > 0 /\ u.fragment \in 1 .. u.block
    BY <1>5, SMT DEF Probe!IsFormatted, Probe!HasItsMagic, Probe!SizesAllowed
  <2>2. Probe!IsBlock(u.block, 4096)
    BY <1>5, SMT DEF Probe!IsFormatted, Probe!HasItsMagic, Probe!SizesAllowed
  <2> HIDE DEF u
  <2>3. Probe!IsBlock(u.block, 512) /\ u.blocks # 0
    BY <2>1, <2>2, SmallerBlocks
  <2>4. Probe!IsUfs(u)
    BY <2>1, <2>3, SMT DEF Probe!IsUfs
  <2> QED
    BY <1>5, <2>4 DEF Probe!Accepted, u
<1>6. CASE volume.as = "apfs"
  <2> DEFINE a == volume.apfs
  <2>1. a.magic /\ a.blocks > 0
    BY <1>6, SMT DEF Probe!IsFormatted, Probe!HasItsMagic, Probe!SizesAllowed
  <2>2. Probe!IsBlock(a.block, 4096)
    BY <1>6, SMT DEF Probe!IsFormatted, Probe!HasItsMagic, Probe!SizesAllowed
  <2> HIDE DEF a
  <2>3. Probe!IsApfs(a)
    BY <2>1, <2>2, SMT DEF Probe!IsApfs
  <2> QED
    BY <1>6, <2>3 DEF Probe!Accepted, a
<1>7. CASE volume.as = "hfs"
  <2> DEFINE h == volume.hfs
  <2>1. h.magic /\ h.version \in {4, 5} /\ h.block >= 512 /\ h.blocks > 0
    BY <1>7, SMT DEF Probe!IsFormatted, Probe!HasItsMagic, Probe!SizesAllowed
  <2>2. Probe!IsPower(h.block)
    BY <1>7, SMT DEF Probe!IsFormatted, Probe!HasItsMagic, Probe!SizesAllowed
  <2> HIDE DEF h
  <2>3. Probe!IsHfs(h)
    BY <2>1, <2>2, SMT DEF Probe!IsHfs
  <2> QED
    BY <1>7, <2>3 DEF Probe!Accepted, h
<1>8. CASE volume.as = "fat"
  BY <1>8, ExfatAccepted, Fat32Accepted DEF Probe!Accepted
<1>9. volume.as \in Systems
  BY ItsSystem
<1> QED
  BY <1>1, <1>2, <1>3, <1>4, <1>5, <1>6, <1>7, <1>8, <1>9 DEF Systems

-----------------------------------------------------------------------------
(* Probing *)

HasSizes(fs) ==
  /\ Probe!HeaderSize[fs] \in 512 .. Probe!LongestHeader /\ Probe!ListedFrom[fs] \in 512 .. Probe!HeaderSize[fs]
  /\ Probe!Refused[fs] \in Nat \ {0}

LEMMA SystemSizes == \A fs \in Systems : HasSizes(fs)
<1> SUFFICES ASSUME NEW fs \in Systems PROVE HasSizes(fs)
  BY Zenon
<1>1. CASE fs = "ntfs"
  BY <1>1 DEF HasSizes, Probe!HeaderSize, Probe!ListedFrom, Probe!Refused, Probe!LongestHeader
<1>2. CASE fs = "refs"
  BY <1>2 DEF HasSizes, Probe!HeaderSize, Probe!ListedFrom, Probe!Refused, Probe!LongestHeader
<1>3. CASE fs = "ext"
  BY <1>3 DEF HasSizes, Probe!HeaderSize, Probe!ListedFrom, Probe!Refused, Probe!LongestHeader
<1>4. CASE fs = "xfs"
  BY <1>4 DEF HasSizes, Probe!HeaderSize, Probe!ListedFrom, Probe!Refused, Probe!LongestHeader
<1>5. CASE fs = "ufs"
  BY <1>5 DEF HasSizes, Probe!HeaderSize, Probe!ListedFrom, Probe!Refused, Probe!LongestHeader
<1>6. CASE fs = "apfs"
  BY <1>6 DEF HasSizes, Probe!HeaderSize, Probe!ListedFrom, Probe!Refused, Probe!LongestHeader
<1>7. CASE fs = "hfs"
  BY <1>7 DEF HasSizes, Probe!HeaderSize, Probe!ListedFrom, Probe!Refused, Probe!LongestHeader
<1>8. CASE fs = "fat"
  BY <1>8 DEF HasSizes, Probe!HeaderSize, Probe!ListedFrom, Probe!Refused, Probe!LongestHeader
<1> QED
  BY <1>1, <1>2, <1>3, <1>4, <1>5, <1>6, <1>7, <1>8, Zenon DEF Systems

\* A prefix of a source is long enough for a header within that source.
LEMMA PrefixCovers ==
  ASSUME NEW size \in Nat, NEW max \in Nat, max >= Probe!LongestHeader,
         NEW header \in 512 .. Probe!LongestHeader, NEW least \in 512 .. header, header <= size
  PROVE  /\ Probe!SmallerOf(size, max) \in Nat /\ Probe!SmallerOf(size, max) # 0
         /\ Probe!SmallerOf(size, max) <= size /\ ~(Probe!SmallerOf(size, max) < least)
<1>1. CASE size <= max
  BY <1>1 DEF Probe!SmallerOf, Probe!LongestHeader
<1>2. CASE ~(size <= max)
  <2>1. Probe!SmallerOf(size, max) = max
    BY <1>2 DEF Probe!SmallerOf
  <2>2. header \in Nat /\ least \in Nat /\ header <= Probe!LongestHeader /\ least <= header
        /\ Probe!LongestHeader \in Nat \ {0}
    BY DEF Probe!LongestHeader
  <2>3. max \in Nat /\ ~(max < least) /\ max # 0
    BY <2>2
  <2>4. max <= size
    BY <1>2
  <2> QED
    BY <2>1, <2>3, <2>4, Zenon
<1> QED
  BY <1>1, <1>2

LEMMA FormattedSize ==
  ASSUME NEW v, Probe!IsFormatted(v)
  PROVE  v.size >= Probe!LongestHeader
  BY Zenon DEF Probe!IsFormatted

LEMMA OrderIs ==
  /\ Len(Probe!Order) = 8 /\ DOMAIN Probe!Order = 1 .. 8
  /\ \A i \in 1 .. 8 : Probe!Order[i] \in Systems /\ (Probe!Order[i] = "fat" => i = 8)
  /\ \A fs \in Systems : \E i \in 1 .. 8 : Probe!Order[i] = fs
<1>1. Len(Probe!Order) = 8 /\ DOMAIN Probe!Order = 1 .. 8
  BY DEF Probe!Order
<1>2. \A i \in 1 .. 8 : Probe!Order[i] \in Systems /\ (Probe!Order[i] = "fat" => i = 8)
  BY DEF Probe!Order, Systems
<1>3. \A fs \in Systems : \E i \in 1 .. 8 : Probe!Order[i] = fs
  BY DEF Probe!Order, Systems
<1> QED
  BY <1>1, <1>2, <1>3

\* A source that is read without an error, behind the headers that its format wrote.
Readable(v) == v.as # "none" /\ v.broken = {} /\ Narrow(v)

Sought(k) == \E i \in k .. 8 : Probe!Order[i] = volume.as

ProbeInv ==
  /\ volume \in ProbeVolumes /\ pc \in {"probe", "list", "done", "cancelled"} /\ at \in 1 .. 8
  /\ pc = "probe" => ~loaded /\ geometry = Probe!NoGeometry
  /\ pc = "list" => probe = 0 /\ Probe!Accepted(Probe!Order[at]) /\ geometry = Probe!Measured(Probe!Order[at])
                    /\ Probe!ProbeStatus(Probe!Order[at]) = 0
  /\ loaded => probe = 0 /\ geometry # Probe!NoGeometry
  /\ pc = "done" /\ geometry = Probe!NoGeometry => at = 8 /\ probe # 0
  /\ pc = "done" /\ probe = 0 /\ volume.known => status \in {0, 14, 72}
  /\ Readable(volume) =>
       /\ pc = "probe" => Sought(at)
       /\ pc \in {"list", "done"} => Probe!Order[at] = volume.as
       /\ pc = "done" /\ volume.known /\ volume.scanned => loaded

LEMMA StatusOfRead ==
  ASSUME Probe!IsVolume(volume), NEW n \in Nat
  PROVE  /\ Probe!ReadStatus(n) \in {0, 14, 31}
         /\ n <= volume.size => Probe!ReadStatus(n) # 31
         /\ n > volume.size => Probe!ReadStatus(n) # 0
         /\ volume.broken = {} /\ n <= volume.size => Probe!ReadStatus(n) = 0
<1> DEFINE B == \E i \in volume.broken : i * 512 < Probe!SmallerOf(n, volume.size)
<1>1. volume.size \in Nat
  BY Zenon DEF Probe!IsVolume
<1>2. Probe!ReadStatus(n) = CASE B -> 14 [] n > volume.size /\ ~B -> 31 [] OTHER -> 0
  BY Zenon DEF Probe!ReadStatus
<1>3. volume.broken = {} => ~B
  BY Zenon
<1> HIDE DEF B
<1> DEFINE size == volume.size
<1>4. size \in Nat /\ Probe!ReadStatus(n) = CASE B -> 14 [] n > size /\ ~B -> 31 [] OTHER -> 0
  BY <1>1, <1>2
<1> HIDE DEF size
<1>5. /\ Probe!ReadStatus(n) \in {0, 14, 31}
      /\ n <= size => Probe!ReadStatus(n) # 31
      /\ n > size => Probe!ReadStatus(n) # 0
      /\ ~B /\ n <= size => Probe!ReadStatus(n) = 0
  BY <1>4
<1> QED
  BY <1>3, <1>5, Zenon DEF size

\* Behind a probe that succeeded the listing reads a header that is there.
LEMMA ListedAfterProbe ==
  ASSUME Probe!VolumeAssumption, Probe!IsVolume(volume), volume.known, NEW fs \in Systems, Probe!Accepted(fs),
         Probe!ProbeStatus(fs) = 0
  PROVE  /\ Probe!ListStatus(fs) \in {0, 14, 72}
         /\ volume.broken = {} /\ volume.scanned => Probe!ListStatus(fs) = 0
<1> DEFINE size == volume.size
           header == Probe!HeaderSize[fs]
           least == Probe!ListedFrom[fs]
           p == Probe!PrefixSize
<1>1. size \in Nat /\ volume.scanned \in BOOLEAN
  BY Zenon DEF Probe!IsVolume
<1>2. header \in 512 .. Probe!LongestHeader /\ least \in 512 .. header
  <2>1. HasSizes(fs)
    BY SystemSizes
  <2> QED
    BY <2>1 DEF HasSizes
<1>3. MaxPrefix \in Nat /\ MaxPrefix >= Probe!LongestHeader
  BY DEF Probe!VolumeAssumption
<1>4. p = Probe!SmallerOf(size, MaxPrefix)
  BY Zenon DEF Probe!PrefixSize
<1>5. Probe!ReadStatus(header) = 0
  BY Zenon DEF Probe!ProbeStatus, Probe!Judged
<1>6. ~(header > volume.size)
  <2>1. header \in Nat
    <3> HIDE DEF header, least
    <3> QED
      BY <1>2
  <2> HIDE DEF header, least
  <2> QED
    BY <1>5, <2>1, StatusOfRead
<1>7. p \in Nat /\ p # 0 /\ p <= size /\ ~(p < least)
  <2> HIDE DEF header, size, least, p
  <2>1. header <= size
    <3>1. ~(header > size)
      BY <1>6 DEF size
    <3> QED
      BY <1>1, <1>2, <3>1
  <2>2. size \in Nat
    BY <1>1
  <2> QED
    BY <1>2, <1>3, <1>4, <2>1, <2>2, PrefixCovers
<1> DEFINE read == Probe!ReadStatus(p)
<1>8. read \in {0, 14} /\ (volume.broken = {} => read = 0)
  <2>1. /\ read \in {0, 14, 31} /\ (p <= volume.size => read # 31)
        /\ (volume.broken = {} /\ p <= volume.size => read = 0)
    <3>1. p \in Nat
      BY <1>7
    <3> HIDE DEF p
    <3> QED
      BY <3>1, StatusOfRead
  <2>2. p <= volume.size
    BY <1>7
  <2> QED
    BY <2>1, <2>2
<1>9. Probe!Judged(fs, read) = read
  BY <1>8 DEF Probe!Judged
<1>10. Probe!ListStatus(fs) =
         CASE fs = "ntfs" -> IF volume.scanned THEN 0 ELSE 14
           [] fs # "ntfs" /\ read = 0 /\ p < least -> 31
           [] fs = "fat" /\ Probe!Judged(fs, read) = 0 /\ ~volume.scanned -> 72
           [] OTHER -> Probe!Judged(fs, read)
  <2>1. Probe!PrefixSize # 0
    BY <1>7
  <2> QED
    BY <2>1 DEF Probe!ListStatus
<1> DEFINE small == p < least
           judged == Probe!Judged(fs, read)
           scanned == volume.scanned
           s == Probe!ListStatus(fs)
<1>12. /\ s = CASE fs = "ntfs" -> IF scanned THEN 0 ELSE 14
                [] fs # "ntfs" /\ read = 0 /\ small -> 31
                [] fs = "fat" /\ judged = 0 /\ ~scanned -> 72
                [] OTHER -> judged
       /\ ~small /\ scanned \in BOOLEAN /\ judged = read /\ read \in {0, 14}
       /\ (volume.broken = {} => read = 0)
  BY <1>1, <1>7, <1>8, <1>9, <1>10, Zenon
<1> HIDE DEF small, judged, scanned, s, read
<1>13. s \in {0, 14, 72} /\ (volume.broken = {} /\ scanned => s = 0)
  <2>1. CASE fs = "ntfs"
    BY <1>12, <2>1
  <2>2. CASE fs = "fat"
    BY <1>12, <2>2
  <2>3. CASE fs # "ntfs" /\ fs # "fat"
    BY <1>12, <2>3
  <2> QED
    BY <2>1, <2>2, <2>3
<1> QED
  BY <1>13, Zenon DEF s, scanned

LEMMA Succeeds ==
  ASSUME NEW fs \in Systems, Probe!ProbeStatus(fs) = 0
  PROVE  Probe!Accepted(fs)
<1>1. Probe!Refused[fs] # 0
  BY SystemSizes DEF HasSizes
<1> QED
  BY <1>1, Zenon DEF Probe!ProbeStatus, Probe!Judged

LEMMA ReadableIsAccepted ==
  ASSUME Probe!VolumeAssumption, volume \in ProbeVolumes, Readable(volume)
  PROVE  /\ volume.as \in Systems /\ Probe!Accepted(volume.as) /\ Probe!ProbeStatus(volume.as) = 0
         /\ Probe!IsFormatted(volume)
<1>1. Probe!IsVolume(volume) /\ Probe!IsFormatted(volume)
  BY DEF Probe!VolumeAssumption, Readable
<1>2. volume.as \in Systems
  BY <1>1, ItsSystem DEF Readable
<1>3. Probe!Accepted(volume.as)
  BY <1>1, ItsOwnAccepted DEF Readable
<1>4. Probe!ReadStatus(Probe!HeaderSize[volume.as]) = 0
  <2> DEFINE n == Probe!HeaderSize[volume.as]
  <2>1. n \in 512 .. Probe!LongestHeader
    <3>1. HasSizes(volume.as)
      BY <1>2, SystemSizes, Zenon
    <3> QED
      BY <3>1, Zenon DEF HasSizes
  <2>2. volume.size \in Nat /\ volume.broken = {}
    BY <1>1, Zenon DEF Probe!IsVolume, Readable
  <2>3. n \in Nat /\ n <= volume.size
    <3> DEFINE size == volume.size
    <3>1. size \in Nat /\ size >= Probe!LongestHeader
      BY <1>1, <2>2, FormattedSize, Zenon
    <3> HIDE DEF n, size
    <3>2. n \in Nat /\ n <= size
      BY <2>1, <3>1 DEF Probe!LongestHeader
    <3> QED
      BY <3>2 DEF size
  <2> HIDE DEF n
  <2>4. Probe!ReadStatus(n) = 0
    BY <1>1, <2>2, <2>3, StatusOfRead
  <2> QED
    BY <2>4 DEF n
<1> QED
  BY <1>1, <1>2, <1>3, <1>4 DEF Probe!ProbeStatus, Probe!Judged

LEMMA InitProbes ==
  ASSUME Probe!VolumeAssumption, Probe!Init
  PROVE  ProbeInv
<1>1. /\ volume \in ProbeVolumes /\ pc = "probe" /\ at = 1 /\ probe = 0 /\ geometry = Probe!NoGeometry
      /\ loaded = FALSE
  BY DEF Probe!Init
<1>2. Readable(volume) => Sought(at)
  <2> SUFFICES ASSUME Readable(volume) PROVE Sought(at)
    OBVIOUS
  <2>1. volume.as \in Systems
    BY <1>1, ReadableIsAccepted
  <2>2. PICK i \in 1 .. 8 : Probe!Order[i] = volume.as
    BY <2>1, OrderIs, Zenon
  <2> QED
    BY <1>1, <2>2, Zenon DEF Sought
<1>3. at \in 1 .. 8
  BY <1>1
<1> QED
  BY <1>1, <1>2, <1>3, Zenon DEF ProbeInv

LEMMA SameVolume ==
  ASSUME volume' = volume, NEW fs
  PROVE  /\ Probe!Accepted(fs)' = Probe!Accepted(fs) /\ Probe!Measured(fs)' = Probe!Measured(fs)
         /\ Probe!ProbeStatus(fs)' = Probe!ProbeStatus(fs)
<1>1. Probe!Accepted(fs)' = Probe!Accepted(fs)
  BY DEF Probe!Accepted
<1>2. Probe!Measured(fs)' = Probe!Measured(fs)
  BY DEF Probe!Measured
<1> DEFINE n == Probe!HeaderSize[fs]
<1>3. Probe!ReadStatus(n)' = Probe!ReadStatus(n)
  BY DEF Probe!ReadStatus
<1> QED
  BY <1>1, <1>2, <1>3 DEF Probe!ProbeStatus, Probe!Judged

\* A probe that does not succeed leaves the volume to a later one.
LEMMA ProbeKeeps ==
  ASSUME Probe!VolumeAssumption, ProbeInv, Probe!Probe
  PROVE  ProbeInv'
<1> DEFINE fs == Probe!Order[at]
           s == Probe!ProbeStatus(fs)
<1>1. /\ volume \in ProbeVolumes /\ at \in 1 .. 8 /\ pc = "probe" /\ ~loaded
      /\ geometry = Probe!NoGeometry
  BY DEF ProbeInv, Probe!Probe
<1>2. Probe!IsVolume(volume) /\ fs \in Systems /\ (fs = "fat" => at = 8)
  BY <1>1, OrderIs DEF Probe!VolumeAssumption
<1>3. volume' = volume /\ loaded' = loaded /\ probe' = s
  BY DEF Probe!Probe
<1>4. Readable(volume) => Sought(at)
  BY <1>1, Zenon DEF ProbeInv
<1>5. Readable(volume)' = Readable(volume)
  BY <1>3 DEF Readable, Narrow
<1>6. CASE s = 0
  <2>1. pc' = "list" /\ geometry' = Probe!Measured(fs) /\ at' = at
    BY <1>6 DEF Probe!Probe
  <2>2. Probe!Accepted(fs)
    BY <1>2, <1>6, Succeeds
  <2>3. Probe!Accepted(fs)' /\ Probe!Measured(fs)' = Probe!Measured(fs) /\ Probe!ProbeStatus(fs)' = Probe!ProbeStatus(fs)
    <3>1. PICK k : k = Probe!Order[at]
      BY Zenon
    <3>2. k = Probe!Order[at]'
      BY <2>1, <3>1
    <3> QED
      BY <1>3, <2>2, <3>1, <3>2, SameVolume, Zenon
  <2>4. Readable(volume) => fs = volume.as
    <3> SUFFICES ASSUME Readable(volume), fs # volume.as PROVE FALSE
      OBVIOUS
    <3>1. Probe!IsFormatted(volume) /\ volume.as \in Systems
      BY <1>1, ReadableIsAccepted
    <3>2. fs = "fat"
      BY <1>2, <2>2, <3>1, OnlyItsOwn
    <3>3. PICK i \in at .. 8 : Probe!Order[i] = volume.as
      BY <1>4 DEF Sought
    <3>4. i = at
      BY <1>2, <3>2, <3>3
    <3> QED
      BY <3>3, <3>4
  <2>5. at' \in 1 .. 8
    BY <1>1, <2>1
  <2> HIDE DEF fs, s
  <2>6. fs' = fs
    BY <2>1 DEF fs
  <2> QED
    BY <1>1, <1>3, <1>5, <1>6, <2>1, <2>2, <2>3, <2>4, <2>5, <2>6, Zenon DEF ProbeInv, fs, s
<1>7. CASE s # 0
  <2>1. geometry' = geometry /\ pc' = Probe!AfterRefusal /\ at' = Probe!NextAt(s)
    BY <1>7 DEF Probe!Probe
  <2>2. Readable(volume) => fs # volume.as
    BY <1>1, <1>7, ReadableIsAccepted
  <2>3. CASE at = 8
    <3>1. pc' = "done" /\ at' = 8
      BY <2>1, <2>3, OrderIs DEF Probe!AfterRefusal, Probe!NextAt
    <3>2. ~Readable(volume)
      <4> SUFFICES ASSUME Readable(volume) PROVE FALSE
        OBVIOUS
      <4>1. PICK i \in at .. 8 : Probe!Order[i] = volume.as
        BY <1>4 DEF Sought
      <4>2. i = at
        BY <2>3, <4>1
      <4> QED
        BY <2>2, <4>1, <4>2
    <3>3. at' \in 1 .. 8
      BY <3>1
    <3> QED
      BY <1>1, <1>3, <1>5, <1>7, <2>1, <3>1, <3>2, <3>3, Zenon DEF ProbeInv
  <2>4. CASE at # 8
    <3>1. pc' = "probe" /\ at' = at + 1
      BY <2>1, <2>4, OrderIs DEF Probe!AfterRefusal, Probe!NextAt
    <3>2. at' \in 1 .. 8
      BY <1>1, <2>4, <3>1
    <3>3. Readable(volume) => Sought(at)'
      <4> SUFFICES ASSUME Readable(volume) PROVE Sought(at)'
        OBVIOUS
      <4>1. PICK i \in at .. 8 : Probe!Order[i] = volume.as
        BY <1>4 DEF Sought
      <4>2. i # at
        BY <2>2, <4>1
      <4>3. i \in at' .. 8
        BY <1>1, <3>1, <4>1, <4>2
      <4>4. Probe!Order[i] = volume'.as
        BY <1>3, <4>1
      <4> QED
        BY <4>3, <4>4, Zenon DEF Sought
    <3> QED
      BY <1>1, <1>3, <1>5, <2>1, <3>1, <3>2, <3>3, Zenon DEF ProbeInv
  <2> QED
    BY <2>3, <2>4
<1> QED
  BY <1>6, <1>7

LEMMA ListKeeps ==
  ASSUME Probe!VolumeAssumption, ProbeInv, Probe!List
  PROVE  ProbeInv'
<1> DEFINE fs == Probe!Order[at]
<1>1. /\ volume \in ProbeVolumes /\ at \in 1 .. 8 /\ pc = "list" /\ probe = 0
      /\ Probe!Accepted(fs) /\ geometry = Probe!Measured(fs) /\ Probe!ProbeStatus(fs) = 0
  BY Zenon DEF ProbeInv, Probe!List
<1>2. Probe!IsVolume(volume) /\ fs \in Systems
  BY <1>1, OrderIs DEF Probe!VolumeAssumption
<1>3. geometry # Probe!NoGeometry
  BY <1>1, <1>2, MeasuredIsSound
<1>4. /\ volume' = volume /\ at' = at /\ probe' = probe /\ geometry' = geometry
      /\ pc' = "done" /\ status' = Probe!ListStatus(fs) /\ loaded' = (status' = 0)
  BY DEF Probe!List
<1>5. Readable(volume)' = Readable(volume)
  BY <1>4 DEF Readable, Narrow
<1>6. volume.known => status' \in {0, 14, 72}
                      /\ (volume.broken = {} /\ volume.scanned => status' = 0)
  <2> HIDE DEF fs
  <2> QED
    BY <1>1, <1>2, <1>4, ListedAfterProbe
<1>7. Readable(volume) => Probe!Order[at] = volume.as /\ volume.broken = {}
  BY <1>1, Zenon DEF ProbeInv, Readable
<1>8. at' \in 1 .. 8
  BY <1>1, <1>4
<1> QED
  BY <1>1, <1>3, <1>4, <1>5, <1>6, <1>7, <1>8, Zenon DEF ProbeInv

LEMMA CancelKeeps ==
  ASSUME ProbeInv, Probe!Cancel
  PROVE  ProbeInv'
<1>1. /\ pc' = "cancelled" /\ volume' = volume /\ at' = at /\ probe' = probe
      /\ geometry' = geometry /\ loaded' = loaded
  BY DEF Probe!Cancel
<1>2. at' \in 1 .. 8
  BY <1>1 DEF ProbeInv
<1> QED
  BY <1>1, <1>2, Zenon DEF ProbeInv

LEMMA ProbesKeep ==
  ASSUME Probe!VolumeAssumption, ProbeInv, Probe!Next
  PROVE  ProbeInv'
  BY ProbeKeeps, ListKeeps, CancelKeeps DEF Probe!Next

LEMMA ProbesUnchanged ==
  ASSUME ProbeInv, UNCHANGED Probe!vars
  PROVE  ProbeInv'
<1>1. /\ volume' = volume /\ at' = at /\ probe' = probe /\ geometry' = geometry
      /\ pc' = pc /\ status' = status /\ loaded' = loaded
  BY DEF Probe!vars
<1>2. Readable(volume)' = Readable(volume) /\ Sought(at)' = Sought(at)
  BY <1>1 DEF Readable, Narrow, Sought
<1>3. /\ Probe!Accepted(Probe!Order[at])' = Probe!Accepted(Probe!Order[at]) /\ Probe!Measured(Probe!Order[at])' = Probe!Measured(Probe!Order[at])
      /\ Probe!ProbeStatus(Probe!Order[at])' = Probe!ProbeStatus(Probe!Order[at])
  <2>1. PICK k : k = Probe!Order[at]
    BY Zenon
  <2>2. k = Probe!Order[at]'
    BY <1>1, <2>1
  <2> QED
    BY <1>1, <2>1, <2>2, SameVolume, Zenon
<1> QED
  BY <1>1, <1>2, <1>3, Zenon DEF ProbeInv

\* What the invariant says of the properties.
LEMMA ProbesAreRight ==
  ASSUME Probe!VolumeAssumption, ProbeInv
  PROVE  Probe!TypeOK /\ Probe!GeometrySound /\ Probe!FormattedIsListed /\ Probe!ListingAgrees
<1>1. volume \in ProbeVolumes /\ at \in 1 .. 8
  BY DEF ProbeInv
<1>2. Probe!IsVolume(volume) /\ Probe!Order[at] \in Systems
  BY <1>1, OrderIs DEF Probe!VolumeAssumption
<1>3. pc = "list" => IsSound(geometry) /\ geometry # Probe!NoGeometry
  BY <1>2, MeasuredIsSound DEF ProbeInv
<1>4. Probe!TypeOK
  <2>1. at \in DOMAIN Probe!Order /\ Len(Probe!Order) = 8
    BY <1>1, OrderIs
  <2> QED
    BY <1>3, <2>1, Zenon DEF ProbeInv, Probe!TypeOK
<1>5. Probe!GeometrySound
  BY <1>3, Zenon DEF Probe!GeometrySound, IsSound
<1>6. Probe!FormattedIsListed
  <2>1. ~(volume.boot.oem = "exfat" /\ volume.boot.clusterShift > 7) => Narrow(volume)
    <3>1. volume.boot.clusterShift \in Nat
      BY <1>2, Zenon DEF Probe!IsVolume
    <3> QED
      BY <3>1 DEF Narrow
  <2> QED
    BY <2>1, Zenon DEF Probe!FormattedIsListed, ProbeInv, Readable
<1>7. Probe!ListingAgrees
  BY Zenon DEF ProbeInv, Probe!ListingAgrees
<1> QED
  BY <1>4, <1>5, <1>6, <1>7

-----------------------------------------------------------------------------
(* The calls side by side *)

IInv ==
  /\ call \in {"probe", "fat", "quick", "end", "mft", "access", "carve"}
  /\ call = "probe" => ProbeInv
  /\ call = "access" => AccessInv /\ AccessWhole /\ SnapInv
  /\ call = "carve" => CarveInv
  /\ call = "mft" => MftInv
  /\ call = "quick" => QuickInv
  /\ call = "fat" => FatInv

LEMMA AccessWholeStarts ==
  ASSUME Access!Init
  PROVE  AccessWhole
BY DEF Access!Init, AccessWhole, Access!InsideIsRead, Access!PrefixIsThere

LEMMA InitHolds == Init => IInv
<1> SUFFICES ASSUME Init PROVE IInv
  OBVIOUS
<1>1. CASE call = "access" /\ Access!Init
  BY <1>1, ScansAssumption, AccessStarts, AccessWholeStarts, SnapStarts DEF IInv
<1>2. CASE call = "carve" /\ Carve!Init
  BY <1>2, ScansAssumption, CarveStarts DEF IInv
<1>3. CASE call = "mft" /\ Mft!Init
  BY <1>3, ScansAssumption, MftStarts DEF IInv
<1>4. CASE call = "probe" /\ Probe!Init
  BY <1>4, ScansAssumption, InitProbes DEF IInv
<1>5. CASE call = "quick" /\ Quick!Init
  BY <1>5, ScansAssumption, QuickStarts DEF IInv
<1>6. CASE call = "fat" /\ Fat!Init
  BY <1>6, ScansAssumption, FatStarts DEF IInv
<1>7. CASE call = "end"
  BY <1>7 DEF IInv
<1> QED
  BY <1>1, <1>2, <1>3, <1>4, <1>5, <1>6, <1>7 DEF Init

\* Every call keeps its invariant.
LEMMA NextKeeps ==
  ASSUME IInv, [Next]_vars
  PROVE  IInv'
<1>1. CASE AccessNext
  <2>1. call = "access" /\ call' = call /\ Access!Next
    BY <1>1 DEF AccessNext
  <2>2. AccessInv' /\ AccessWhole'
    BY <2>1, ScansAssumption, AccessContinues, AccessWholeContinues DEF IInv
  <2>3. SnapInv'
    BY <2>1, SnapContinues DEF IInv
  <2> QED
    BY <2>1, <2>2, <2>3 DEF IInv
<1>2. CASE CarveNext
  <2>1. call = "carve" /\ call' = call /\ Carve!Next
    BY <1>2 DEF CarveNext
  <2>2. CarveInv'
    BY <2>1, ScansAssumption, CarveContinues DEF IInv
  <2> QED
    BY <2>1, <2>2 DEF IInv
<1>3. CASE MftNext
  <2>1. call = "mft" /\ call' = call /\ Mft!Next
    BY <1>3 DEF MftNext
  <2>2. MftInv'
    BY <2>1, ScansAssumption, MftContinues DEF IInv
  <2> QED
    BY <2>1, <2>2 DEF IInv
<1>4. CASE ProbeNext
  <2>1. call = "probe" /\ call' = call /\ Probe!Next
    BY <1>4 DEF ProbeNext
  <2>2. ProbeInv'
    BY <2>1, ScansAssumption, ProbesKeep DEF IInv
  <2> QED
    BY <2>1, <2>2 DEF IInv
<1>5. CASE QuickNext
  <2>1. call = "quick" /\ call' = call /\ Quick!Next
    BY <1>5 DEF QuickNext
  <2>2. QuickInv'
    BY <2>1, ScansAssumption, QuickContinues DEF IInv
  <2> QED
    BY <2>1, <2>2 DEF IInv
<1>6. CASE FatNext
  <2>1. call = "fat" /\ call' = call /\ Fat!Next
    BY <1>6 DEF FatNext
  <2>2. FatInv'
    BY <2>1, ScansAssumption, FatContinues DEF IInv
  <2> QED
    BY <2>1, <2>2 DEF IInv
<1>7. CASE EndNext
  BY <1>7 DEF IInv, EndNext
<1>8. CASE UNCHANGED vars
  <2>1. /\ call' = call /\ UNCHANGED Access!vars /\ UNCHANGED Carve!vars
        /\ UNCHANGED Mft!vars /\ UNCHANGED Probe!vars
    BY <1>8 DEF vars, accessVars, carveVars, mftVars, probeVars, Access!vars, Carve!vars,
      Mft!vars, Probe!vars
  <2>2. call = "access" => AccessInv' /\ AccessWhole' /\ SnapInv'
    BY <2>1, ScansAssumption, AccessContinues, AccessWholeContinues, SnapContinues DEF IInv
  <2>3. call = "carve" => CarveInv'
    BY <2>1, CarveStutters DEF IInv
  <2>4. call = "mft" => MftInv'
    BY <2>1, MftStutters DEF IInv
  <2>5. call = "probe" => ProbeInv'
    BY <2>1, ProbesUnchanged DEF IInv
  <2>6. UNCHANGED <<volume, pc, status>> /\ UNCHANGED quickVars
    BY <1>8 DEF vars
  <2>7. call = "quick" => QuickInv'
    BY <2>6, QuickStutters DEF IInv
  <2>8. UNCHANGED <<volume, pc, queue, visited, at, rest, parts, entries, status>>
    BY <1>8 DEF vars, fatVars
  <2>9. call = "fat" => FatInv'
    BY <2>8, FatStutters DEF IInv
  <2> QED
    BY <2>1, <2>2, <2>3, <2>4, <2>5, <2>7, <2>9 DEF IInv
<1> QED
  BY <1>1, <1>2, <1>3, <1>4, <1>5, <1>6, <1>7, <1>8 DEF Next, FairNext

\* The invariant of the call that runs, whichever it is and whatever is scanned.
THEOREM Invariance == Spec => []IInv
<1>1. Init => IInv
  BY InitHolds
<1>2. IInv /\ [Next]_vars => IInv'
  BY NextKeeps
<1> QED
  BY <1>1, <1>2, PTL DEF Spec

\* An intact volume is listed as the file system it was formatted with, whichever
\* of the eight it is and whatever sizes its header gives; no header that a probe
\* accepts has a scan divide by 0, and the listing accepts what the probe did.
\* Every usable shadow copy is offered, the newest first.
THEOREM VolumesAreListedCorrect == Spec => []VolumesAreListed
<1>1. IInv => VolumesAreListed
  BY ProbesAreRight, CopiesAreListed, ScansAssumption DEF IInv, VolumesAreListed
<1> QED
  BY <1>1, Invariance, PTL

\* What is handed over is the range asked for and all of it, a range of readable
\* sectors is read however it is widened, and the prefix of a source of known
\* size is never refused as too short: for every size of device and sector, every
\* offset and length, and reads however short.
THEOREM ReadsTheRangeCorrect == Spec => []ReadsTheRange
<1>1. IInv => ReadsTheRange
  BY DEF IInv, ReadsTheRange, AccessInv, AccessWhole
<1> QED
  BY <1>1, Invariance, PTL

\* While a range is read no more is gathered than the widened range, and no more
\* is handed over than was asked for.
ReadTypes == call = "access" => Access!TypeOK

THEOREM ReadTypesCorrect == Spec => []ReadTypes
<1>1. IInv => ReadTypes
  BY DEF IInv, ReadTypes, AccessInv, AccessTypes, AccessSoFar, Access!TypeOK
<1> QED
  BY <1>1, Invariance, PTL

\* Candidates lie in the source and hold their files unless they are marked, and
\* no file that fits into the overlap is missed, wherever the windows fall.
THEOREM CarvedIsRealCorrect == Spec => []CarvedIsReal
<1>1. IInv => CarvedIsReal
  BY CarvePromises, ScansAssumption DEF IInv, CarvedIsReal
<1> QED
  BY <1>1, Invariance, PTL

\* An attribute is never put together from two writes and keeps to bytes of its
\* own, and a record that was written whole is parsed with all its attributes,
\* their cluster runs as they were encoded, however many.
THEOREM RecordsAreGenuineCorrect == Spec => []RecordsAreGenuine
<1>1. IInv => RecordsAreGenuine
  BY MftPromises, ScansAssumption DEF IInv, RecordsAreGenuine
<1> QED
  BY <1>1, Invariance, PTL

\* Quick scan: every record before the end of the table becomes a candidate, a
\* deletion that only the journal knows is listed, and what the journal adds
\* never lowers a candidate of the table to a lesser certainty: for tables,
\* journals and orders of any length.
THEOREM NothingPassedOverCorrect == Spec => []NothingPassedOver
<1>1. IInv => NothingPassedOver
  BY QuickPromises, ScansAssumption DEF IInv, NothingPassedOver
<1> QED
  BY <1>1, Invariance, PTL

\* Quick scan: the newest name of the journal wins in whatever order it was read,
\* the path of a candidate is that of its directory and its name also after the
\* journal renamed directories, however deep and however the parents lead in
\* circles, and of the table's files the deleted and newest come first.
THEOREM PathsAgreeCorrect == Spec => []PathsAgree
<1>1. IInv => PathsAgree
  BY QuickPromises, ScansAssumption DEF IInv, PathsAgree
<1> QED
  BY <1>1, Invariance, PTL

\* FAT32 scan: one that ends well and below its limit has listed every deleted
\* entry of every directory that is reached from the root, once each, and names
\* no entry after another: for volumes of any size, chains and directories that
\* lead anywhere, also back to where they came from.
THEOREM WholeTreeCorrect == Spec => []WholeTree
<1>1. IInv => WholeTree
  BY FatPromises, ScansAssumption DEF IInv, WholeTree
<1> QED
  BY <1>1, Invariance, PTL
=============================================================================
