------------------------- MODULE AcquisitionProofs -------------------------
(***************************************************************************)
(* Proofs about ImageAcquisition and RemoteAcquisition: for every size of  *)
(* the source, every set of chunk sizes and every number of calls,         *)
(* cancellations, crashes and power losses, an image whose log says        *)
(* "completed" is what the log says it is, until the power fails again;    *)
(* for any number of requests and of attempts, no file is worked on        *)
(* without the agreement it needs, and all that is proved of acquisitions  *)
(* alone holds behind the handshake too.                                   *)
(***************************************************************************)
EXTENDS RemoteAcquisition, FiniteSetTheorems, SequenceTheorems, TLAPS

-----------------------------------------------------------------------------
(* The inductive invariant *)

BeforeTry  == {"idle", "initialLog", "custodyStart"}
CopyPoints == {"copy", "checkpoint", "checkpointLog", "checkpointCustody"}

\* On the way to the "completed" state.
Vouching == pc \in VerdictPoints /\ outcome = "completed"

\* Where the streams, the counters and the hash stand at each point.
Control ==
  /\ base <= bytesWritten
  /\ bytesWritten <= sourceSize
  /\ Len(pending) <= bytesWritten - base
  /\ base <= Len(image)
  /\ pc \in BeforeTry =>
       sourceHash = <<>> /\ srcPosition = 0 /\ outcome = "completed"
  /\ pc = "idle" => ~canceled /\ bytesWritten = 0
  /\ pc \in BeforeTry \cup {"verifyPrefix", "openImage"} =>
       unreadable = {} /\ readErrorChunks = 0 /\ bytesWritten = base
  /\ pc \notin CopyPoints => pending = <<>>
  /\ pc = "verifyPrefix" => srcPosition = Len(sourceHash)
  /\ pc = "openImage" => Len(sourceHash) = base
  /\ pc \in CopyPoints => srcPosition = bytesWritten
  /\ pc \in CopyPoints \cup {"digest"} =>
       Len(sourceHash) = bytesWritten /\ imageExists
  /\ Vouching => image = sourceHash /\ Len(sourceHash) = bytesWritten
                 /\ imageExists
  /\ Len(sourceHash) <= bytesWritten
  /\ pc = "verdictRanges" => unreadable # {} /\ manifest = {}
  /\ pc \in {"verdictOpen", "verdictLog"} /\ unreadable # {} =>
       manifest = unreadable
  /\ pc \in VerdictPoints => (thrown <=> outcome # "completed")
  /\ pc # "idle" => power # "lost" /\ (thrown => pc \in VerdictPoints)

\* Versions of the source only grow.
Progression ==
  /\ \A i \in 1 .. SourceCells :
       startVersion[i] <= srcVersion[i] /\ srcVersion[i] <= srcChanges
  /\ srcShortest <= srcLength
  /\ pc = "digest" \/ Vouching =>
       bytesWritten = sourceSize \/ srcShortest <= bytesWritten

\* The position, the source version and the reason of every hashed cell.
HashSound ==
  /\ unreadable \subseteq 1 .. Len(sourceHash)
  /\ \A i \in 1 .. Len(sourceHash) :
       \/ sourceHash[i] = Zero /\ i \in unreadable
       \/ /\ i \notin unreadable
          /\ sourceHash[i] # Zero
          /\ sourceHash[i][1] = i
          /\ sourceHash[i][2] >= startVersion[i]

\* A "completed" log was written by the call that ended last, or by the running
\* one, which threw while it wrote it and is now in its handler.
LogSound ==
  /\ Completed /\ pc # "idle" =>
       pc \in VerdictPoints /\ thrown /\ unreadable = Gaps
  /\ CompletedImageHasDigest
  /\ EveryGapIsListed
  /\ CellsInPlace
  /\ NothingOutdated
  /\ ShortOnlyIfSourceShrank

IInv == TypeOK /\ Control /\ Progression /\ HashSound /\ LogSound

-----------------------------------------------------------------------------
(* Sequences of cells *)

\* A function on 1 .. n is a sequence of length n.
LEMMA FunctionIsSeq ==
  ASSUME NEW n \in Nat, NEW S, NEW f \in [1 .. n -> S]
  PROVE  f \in Seq(S) /\ Len(f) = n
<1>1. f \in Seq(S)
  BY SeqDef
<1>2. Len(f) \in Nat /\ DOMAIN f = 1 .. Len(f)
  BY <1>1, LenProperties
<1>3. 1 .. n = 1 .. Len(f)
  BY <1>2
<1> QED
  BY <1>1, <1>2, <1>3

LEMMA ZeroIsCell == Zero \in Cell
BY DEF Zero, Cell

\* What is read from the source are cells of their own positions.
LEMMA SourceReadCells ==
  ASSUME SourceCells \in Nat, MaxSourceChanges \in Nat,
         srcVersion \in [1 .. SourceCells -> Versions],
         srcPosition \in Nat, NEW n \in Nat, srcPosition + n <= SourceCells
  PROVE  /\ SourceRead(n) \in Seq(Cell)
         /\ Len(SourceRead(n)) = n
         /\ \A k \in 1 .. n :
              /\ SourceRead(n)[k] # Zero
              /\ SourceRead(n)[k][1] = srcPosition + k
              /\ SourceRead(n)[k][2] = srcVersion[srcPosition + k]
<1>1. \A k \in 1 .. n : <<srcPosition + k, srcVersion[srcPosition + k]>> \in Cell
  BY DEF Cell
<1>2. SourceRead(n) \in [1 .. n -> Cell]
  BY <1>1 DEF SourceRead
<1>3. \A k \in 1 .. n :
        SourceRead(n)[k] = <<srcPosition + k, srcVersion[srcPosition + k]>>
  BY DEF SourceRead
<1> QED
  BY <1>2, <1>3, FunctionIsSeq DEF Zero

\* Writing cells behind position `at` gives an image again, no shorter than
\* before, and changes nothing up to `at`.
LEMMA OverlayProperties ==
  ASSUME NEW file \in Seq(Cell), NEW cells \in Seq(Cell), NEW at \in Nat
  PROVE  /\ Overlay(file, at, cells) \in Seq(Cell)
         /\ Len(Overlay(file, at, cells)) >= Len(file)
         /\ \A i \in 1 .. Len(file) :
              i <= at => Overlay(file, at, cells)[i] = file[i]
<1> DEFINE n == IF Len(file) >= at + Len(cells) THEN Len(file)
                                                ELSE at + Len(cells)
<1>1. Len(file) \in Nat /\ Len(cells) \in Nat
  BY LenProperties
<1>2. n \in Nat /\ n >= Len(file)
  BY <1>1
<1>3. \A i \in 1 .. n :
        Overlay(file, at, cells)[i] =
          IF i > at /\ i <= at + Len(cells) THEN cells[i - at]
          ELSE IF i <= Len(file) THEN file[i] ELSE Zero
  BY <1>1 DEF Overlay
<1>4. \A i \in 1 .. n : Overlay(file, at, cells)[i] \in Cell
  <2> SUFFICES ASSUME NEW i \in 1 .. n
               PROVE  Overlay(file, at, cells)[i] \in Cell
    OBVIOUS
  <2>1. CASE i > at /\ i <= at + Len(cells)
    <3>1. i - at \in 1 .. Len(cells)
      BY <2>1, <1>1
    <3> QED
      BY <2>1, <3>1, <1>3, ElementOfSeq
  <2>2. CASE ~(i > at /\ i <= at + Len(cells)) /\ i <= Len(file)
    <3>1. i \in 1 .. Len(file)
      BY <2>2, <1>1
    <3> QED
      BY <2>2, <3>1, <1>3, ElementOfSeq
  <2>3. CASE ~(i > at /\ i <= at + Len(cells)) /\ ~(i <= Len(file))
    BY <2>3, <1>3, ZeroIsCell
  <2> QED
    BY <2>1, <2>2, <2>3
<1>5. Overlay(file, at, cells) \in [1 .. n -> Cell]
  BY <1>4, <1>1 DEF Overlay
<1>6. Overlay(file, at, cells) \in Seq(Cell) /\ Len(Overlay(file, at, cells)) = n
  BY <1>2, <1>5, FunctionIsSeq
<1>7. \A i \in 1 .. Len(file) :
        i <= at => Overlay(file, at, cells)[i] = file[i]
  BY <1>1, <1>2, <1>3
<1> QED
  BY <1>2, <1>6, <1>7

\* A prefix of an image is an image.
LEMMA PrefixProperties ==
  ASSUME NEW file \in Seq(Cell), NEW kept \in 0 .. Len(file)
  PROVE  /\ SubSeq(file, 1, kept) \in Seq(Cell)
         /\ Len(SubSeq(file, 1, kept)) = kept
         /\ \A i \in 1 .. kept : SubSeq(file, 1, kept)[i] = file[i]
<1>1. Len(file) \in Nat /\ \A i \in 1 .. Len(file) : file[i] \in Cell
  BY LenProperties, ElementOfSeq
<1>2. kept \in Int /\ \A i \in 1 .. kept : file[i] \in Cell
  BY <1>1
<1> QED
  BY <1>1, <1>2, SubSeqProperties

\* The chunk the image stream takes: what it still buffers is no longer than
\* before plus the chunk, and nothing at or before `base` changes.
LEMMA WriteCellsProperties ==
  ASSUME TypeOK, Control, NEW cells \in Seq(Cell), WriteCells(cells)
  PROVE  /\ pending' \in Seq(Cell)
         /\ Len(pending') <= Len(pending) + Len(cells)
         /\ image' \in Seq(Cell)
         /\ Len(image') >= Len(image)
         /\ \A i \in 1 .. base : image'[i] = image[i]
<1> DEFINE all   == pending \o cells
           first == bytesWritten - Len(pending)
<1>1. /\ pending \in Seq(Cell) /\ image \in Seq(Cell)
      /\ base \in Nat /\ bytesWritten \in Nat /\ chunk \in Nat
      /\ Len(pending) <= bytesWritten - base /\ base <= Len(image)
  BY SizesAssumption DEF TypeOK, Control
<1>2. Len(pending) \in Nat /\ Len(cells) \in Nat /\ Len(image) \in Nat
  BY <1>1, LenProperties
<1>3. all \in Seq(Cell) /\ Len(all) = Len(pending) + Len(cells)
  BY <1>1, ConcatProperties
<1>4. first \in Nat /\ base <= first
  BY <1>1, <1>2
<1>5. PICK kept \in 0 .. chunk - 1 :
        /\ kept <= Len(all)
        /\ pending' = SubSeq(all, Len(all) - kept + 1, Len(all))
        /\ image' = IF kept = Len(all) THEN image
                    ELSE Overlay(image, first, SubSeq(all, 1, Len(all) - kept))
  BY DEF WriteCells
<1> HIDE DEF all, first
<1>6. kept \in Nat /\ Len(all) \in Nat
  BY <1>1, <1>2, <1>3, <1>5
<1>7. pending' \in Seq(Cell) /\ Len(pending') <= Len(pending) + Len(cells)
  <2>1. \A i \in Len(all) - kept + 1 .. Len(all) : all[i] \in Cell
    BY <1>3, <1>5, <1>6, ElementOfSeq
  <2>2. Len(all) - kept + 1 \in Int /\ Len(all) \in Int
    BY <1>6
  <2>3. /\ pending' \in Seq(Cell)
        /\ Len(pending') = IF Len(all) - kept + 1 <= Len(all)
                           THEN Len(all) - (Len(all) - kept + 1) + 1 ELSE 0
    BY <2>1, <2>2, <1>5, SubSeqProperties
  <2> QED
    BY <2>3, <1>3, <1>5, <1>6
<1>8. SubSeq(all, 1, Len(all) - kept) \in Seq(Cell)
  BY <1>3, <1>5, <1>6, PrefixProperties
<1>9. /\ image' \in Seq(Cell)
      /\ Len(image') >= Len(image)
      /\ \A i \in 1 .. Len(image) : i <= first => image'[i] = image[i]
  <2>1. CASE kept = Len(all)
    BY <2>1, <1>1, <1>2, <1>5
  <2>2. CASE kept # Len(all)
    BY <2>2, <1>1, <1>4, <1>5, <1>8, OverlayProperties
  <2> QED
    BY <2>1, <2>2
<1>10. \A i \in 1 .. base : i \in 1 .. Len(image) /\ i <= first
  BY <1>1, <1>2, <1>4
<1> QED
  BY <1>7, <1>9, <1>10

\* The same of flushing the stream.
LEMMA FlushedProperties ==
  ASSUME TypeOK, Control
  PROVE  /\ Flushed \in Seq(Cell)
         /\ Len(Flushed) >= Len(image)
         /\ \A i \in 1 .. base : Flushed[i] = image[i]
<1> DEFINE first == bytesWritten - Len(pending)
<1>1. /\ pending \in Seq(Cell) /\ image \in Seq(Cell)
      /\ base \in Nat /\ bytesWritten \in Nat
      /\ Len(pending) <= bytesWritten - base /\ base <= Len(image)
  BY SizesAssumption DEF TypeOK, Control
<1>2. Len(pending) \in Nat /\ Len(image) \in Nat
  BY <1>1, LenProperties
<1>3. first \in Nat /\ base <= first
  BY <1>1, <1>2
<1>4. \A i \in 1 .. base : i \in 1 .. Len(image) /\ i <= first
  BY <1>1, <1>2, <1>3
<1> HIDE DEF first
<1>5. CASE pending = <<>>
  BY <1>5, <1>1, <1>2 DEF Flushed
<1>6. CASE pending # <<>>
  <2>1. Flushed = Overlay(image, first, pending)
    BY <1>6 DEF Flushed, first
  <2> QED
    BY <2>1, <1>1, <1>3, <1>4, OverlayProperties
<1> QED
  BY <1>5, <1>6

-----------------------------------------------------------------------------
(* Every variable keeps its type *)

\* The record the service writes to its log is one, whatever the status.
LEMMA StateRecordType ==
  ASSUME TypeOK, NEW status \in {"in_progress"} \cup Verdicts
  PROVE  StateRecord(status) \in LogRecord
<1>1. unreadable \in SUBSET (1 .. SourceCells) /\ SourceCells \in Nat
  BY SizesAssumption DEF TypeOK
<1>2. IsFiniteSet(1 .. SourceCells)
  BY <1>1, FS_Interval
<1>3. Cardinality(unreadable) \in Nat
  BY <1>1, <1>2, FS_Subset, FS_CardinalityType
<1>4. <<>> \in Seq(Cell)
  BY EmptySeq
<1> QED
  BY <1>3, <1>4 DEF StateRecord, LogRecord, TypeOK, Verdicts

LEMMA BlankLogType == NoLog \in LogRecord /\ Torn \in LogRecord
<1>1. <<>> \in Seq(Cell)
  BY EmptySeq
<1>2. 0 \in 0 .. SourceCells
  BY SizesAssumption
<1> QED
  BY <1>1, <1>2 DEF NoLog, Torn, BlankLog, LogRecord

LEMMA InitInv == Init => IInv
<1> SUFFICES ASSUME Init PROVE IInv
  OBVIOUS
<1>1. /\ SourceCells \in Nat /\ MaxRuns \in Nat /\ MaxSourceChanges \in Nat
      /\ <<>> \in Seq(Cell) /\ <<>> \in Seq(CustodyRecord)
      /\ Len(<<>>) = 0
  BY SizesAssumption, EmptySeq
<1>2. TypeOK
  <2>1. /\ pc \in Points /\ policy \in Policies /\ outcome \in Verdicts
        /\ canceled \in BOOLEAN /\ imageExists \in BOOLEAN
    BY DEF Init, Points, Policies, Verdicts
  <2>2. /\ srcVersion \in [1 .. SourceCells -> Versions]
        /\ startVersion \in [1 .. SourceCells -> Versions]
        /\ srcChanges \in Versions
    BY <1>1 DEF Init, Versions
  <2>3. /\ power \in {"kept", "lostBefore", "lost"} /\ thrown \in BOOLEAN
    BY DEF Init
  <2>4. /\ image \in Seq(Cell) /\ custody \in Seq(CustodyRecord)
        /\ pending \in Seq(Cell) /\ sourceHash \in Seq(Cell)
        /\ manifest = {} /\ unreadable = {} /\ log \in LogRecord
    BY <1>1, BlankLogType DEF Init
  <2>5. /\ srcLength = SourceCells /\ srcShortest = SourceCells
        /\ sourceSize = 0 /\ base = 0 /\ bytesWritten = 0 /\ srcPosition = 0
        /\ chunk = 1 /\ readErrorChunks = 0 /\ networkCheckpointCount = 0
        /\ custodySequence = 0 /\ runs = 0
    BY DEF Init
  <2> QED
    BY <1>1, <2>1, <2>2, <2>3, <2>4, <2>5 DEF TypeOK
<1>3. Control
  BY <1>1 DEF Init, Control, BeforeTry, CopyPoints, Vouching, VerdictPoints
<1>4. Progression
  BY <1>1 DEF Init, Progression, Vouching, VerdictPoints
<1>5. HashSound
  BY <1>1 DEF Init, HashSound
<1>6. LogSound
  BY DEF Init, LogSound, Completed, NoLog, BlankLog, CompletedImageHasDigest,
         EveryGapIsListed, CellsInPlace, NothingOutdated,
         ShortOnlyIfSourceShrank
<1> QED
  BY <1>2, <1>3, <1>4, <1>5, <1>6 DEF IInv

LEMMA CustodyType ==
  ASSUME TypeOK, NEW event \in Events, AppendCustody(event)
  PROVE  custody' \in Seq(CustodyRecord) /\ custodySequence' \in Nat
<1>1. custodySequence + 1 \in Nat /\ custody \in Seq(CustodyRecord)
  BY DEF TypeOK
<1>2. [sequence |-> custodySequence + 1, event |-> event] \in CustodyRecord
  BY <1>1 DEF CustodyRecord
<1> QED
  BY <1>1, <1>2, AppendProperties DEF AppendCustody

\* What an ended call leaves in memory.
LEMMA ForgetType ==
  ASSUME Forget
  PROVE  /\ pc' \in Points /\ canceled' \in BOOLEAN
         /\ policy' \in Policies /\ chunk' \in Nat \ {0}
         /\ sourceSize' \in 0 .. SourceCells /\ base' \in 0 .. SourceCells
         /\ bytesWritten' \in 0 .. SourceCells
         /\ srcPosition' \in 0 .. SourceCells
         /\ pending' \in Seq(Cell) /\ sourceHash' \in Seq(Cell)
         /\ readErrorChunks' \in Nat
         /\ unreadable' \in SUBSET (1 .. SourceCells)
         /\ networkCheckpointCount' \in Nat /\ custodySequence' \in Nat
         /\ outcome' \in Verdicts
<1>1. <<>> \in Seq(Cell) /\ 0 \in 0 .. SourceCells /\ 1 \in Nat \ {0}
  BY SizesAssumption, EmptySeq
<1>2. canceled' \in BOOLEAN
  BY DEF Forget
<1>3. pc' \in Points /\ policy' \in Policies /\ outcome' \in Verdicts
  BY DEF Forget, Points, Policies, Verdicts
<1> QED
  BY <1>1, <1>2, <1>3 DEF Forget

\* What a throw leaves of the log and of the manifest.
LEMMA LeftType ==
  ASSUME TypeOK
  PROVE  LeftInLog \subseteq LogRecord /\ LeftInManifest \subseteq SUBSET (1 .. SourceCells)
<1>1. outcome \in {"in_progress"} \cup Verdicts /\ log \in LogRecord
  BY DEF TypeOK
<1>2. StateRecord("in_progress") \in LogRecord /\ StateRecord(outcome) \in LogRecord
  BY <1>1, StateRecordType
<1>3. LeftInLog \subseteq LogRecord
  BY <1>1, <1>2 DEF LeftInLog
<1>4. LeftInManifest \subseteq SUBSET (1 .. SourceCells)
  BY DEF LeftInManifest, ListedManifest, TypeOK
<1> QED
  BY <1>3, <1>4

LEMMA CatchType ==
  ASSUME TypeOK, Control, NEW verdict \in Verdicts, CatchAs(verdict)
  PROVE  TypeOK'
<1>1. /\ image' \in Seq(Cell) /\ pending' \in Seq(Cell)
      /\ outcome' \in Verdicts /\ pc' \in Points /\ thrown' \in BOOLEAN
  BY FlushedProperties, EmptySeq
     DEF CatchAs, VerdictStart, Points, VerdictPoints
<1>2. log' \in LogRecord /\ manifest' \in SUBSET (1 .. SourceCells)
  BY LeftType DEF CatchAs
<1> QED
  BY <1>1, <1>2 DEF CatchAs, TypeOK, sourceVars, requestVars, countVars

\* What is missing after a power loss.
LEMMA LoseType ==
  ASSUME TypeOK, LoseUnflushed
  PROVE  /\ image' \in Seq(Cell) /\ log' \in LogRecord
         /\ manifest' \in SUBSET (1 .. SourceCells)
         /\ custody' \in Seq(CustodyRecord)
         /\ custody' = custody \/ custody' = SubSeq(custody, 1, Len(custody) - 1)
<1>1. /\ image \in Seq(Cell) /\ Len(image) \in Nat /\ DOMAIN image = 1 .. Len(image)
      /\ custody \in Seq(CustodyRecord) /\ Len(custody) \in Nat
      /\ log \in LogRecord /\ manifest \in SUBSET (1 .. SourceCells)
  BY LenProperties DEF TypeOK
<1>2. image # <<>> => SubSeq(image, 1, Len(image) - 1) \in Seq(Cell)
  <2> SUFFICES ASSUME image # <<>>
               PROVE  SubSeq(image, 1, Len(image) - 1) \in Seq(Cell)
    OBVIOUS
  <2>1. Len(image) - 1 \in 0 .. Len(image)
    BY <1>1, EmptySeq
  <2> QED
    BY <1>1, <2>1, PrefixProperties
<1>3. \A i \in DOMAIN image : [image EXCEPT ![i] = Zero] \in Seq(Cell)
  BY <1>1, ZeroIsCell, ExceptSeq
<1>4. custody # <<>> => SubSeq(custody, 1, Len(custody) - 1) \in Seq(CustodyRecord)
  <2>1. \A k \in 1 .. Len(custody) - 1 : custody[k] \in CustodyRecord
    BY <1>1, ElementOfSeq
  <2> QED
    BY <1>1, <2>1, SubSeqProperties
<1> QED
  BY <1>1, <1>2, <1>3, <1>4, BlankLogType DEF LoseUnflushed

\* What verifying a chunk of the prefix adds to the hash.
LEMMA HashGrows ==
  ASSUME TypeOK, NEW n \in Nat, srcPosition + n <= srcLength
  PROVE  /\ SourceRead(n) \in Seq(Cell)
         /\ sourceHash \o SourceRead(n) \in Seq(Cell)
         /\ srcPosition + n \in 0 .. SourceCells
<1>1. /\ SourceCells \in Nat /\ MaxSourceChanges \in Nat
      /\ srcVersion \in [1 .. SourceCells -> Versions]
      /\ srcPosition \in Nat /\ sourceHash \in Seq(Cell)
      /\ srcLength \in 0 .. SourceCells
  BY SizesAssumption DEF TypeOK
<1>2. srcPosition + n <= SourceCells
  BY <1>1
<1> QED
  BY <1>1, <1>2, SourceReadCells, ConcatProperties

LEMMA VerifyType ==
  ASSUME TypeOK, Control, VerifyChunk
  PROVE  TypeOK'
<1> DEFINE n == Least(chunk, base - Len(sourceHash))
<1>1. /\ n \in Nat /\ srcPosition + n <= srcLength
      /\ sourceHash' = sourceHash \o SourceRead(n)
      /\ srcPosition' = srcPosition + n
  BY LenProperties, SizesAssumption DEF VerifyChunk, HashPrefixChunk, Least, TypeOK
<1> HIDE DEF n
<1>2. sourceHash' \in Seq(Cell) /\ srcPosition' \in 0 .. SourceCells
  BY <1>1, HashGrows
<1> QED
  BY <1>2 DEF VerifyChunk, HashPrefixChunk, TypeOK, sourceVars, imageVars, requestVars,
     countVars, runVars

LEMMA RequestedType ==
  ASSUME TypeOK, Control
  PROVE  /\ Requested \in Nat
         /\ bytesWritten + Requested <= sourceSize
         /\ bytesWritten + Requested \in 0 .. SourceCells
BY SizesAssumption DEF TypeOK, Control, Requested, Least

LEMMA CopyType ==
  ASSUME TypeOK, Control, NEW n \in 1 .. SourceCells, CopyChunk(n)
  PROVE  TypeOK'
<1>1. n \in Nat /\ srcPosition + n <= srcLength /\ n <= Requested
  BY SizesAssumption, RequestedType DEF CopyChunk
<1>2. /\ SourceRead(n) \in Seq(Cell)
      /\ sourceHash' \in Seq(Cell)
      /\ srcPosition' \in 0 .. SourceCells
  BY <1>1, HashGrows DEF CopyChunk
<1>3. pending' \in Seq(Cell) /\ image' \in Seq(Cell)
  BY <1>2, WriteCellsProperties DEF CopyChunk
<1>4. bytesWritten' \in 0 .. SourceCells
  BY <1>1, RequestedType, SizesAssumption DEF CopyChunk, TypeOK
<1>5. pc' \in Points
  BY DEF CopyChunk, Points, TryPoints
<1> QED
  BY <1>2, <1>3, <1>4, <1>5 DEF CopyChunk, TypeOK, sourceVars, requestVars,
     countVars, runVars

\* The zeros written for a chunk that cannot be read.
LEMMA ZerosType ==
  ASSUME NEW n \in Nat
  PROVE  /\ [k \in 1 .. n |-> Zero] \in Seq(Cell)
         /\ Len([k \in 1 .. n |-> Zero]) = n
BY ZeroIsCell, FunctionIsSeq

LEMMA ZeroFillType ==
  ASSUME TypeOK, Control, ZeroFill
  PROVE  TypeOK'
<1> DEFINE zeros == [k \in 1 .. Requested |-> Zero]
<1>1. zeros \in Seq(Cell)
  BY RequestedType, ZerosType
<1>2. WriteCells(zeros) /\ sourceHash' = sourceHash \o zeros
  BY DEF ZeroFill, SeekPast
<1> HIDE DEF zeros
<1>3. pending' \in Seq(Cell) /\ image' \in Seq(Cell)
  BY <1>1, <1>2, WriteCellsProperties
<1>4. sourceHash' \in Seq(Cell)
  BY <1>1, <1>2, ConcatProperties DEF TypeOK
<1>5. bytesWritten' \in 0 .. SourceCells /\ srcPosition' \in 0 .. SourceCells
  BY RequestedType DEF ZeroFill, SeekPast, Control, CopyPoints
<1>6. unreadable' \in SUBSET (1 .. SourceCells) /\ readErrorChunks' \in Nat
  <2>1. /\ bytesWritten \in 0 .. SourceCells /\ Requested \in Nat
        /\ bytesWritten + Requested <= SourceCells /\ SourceCells \in Nat
    BY RequestedType, SizesAssumption DEF TypeOK
  <2>2. bytesWritten + 1 .. bytesWritten + Requested \subseteq 1 .. SourceCells
    BY <2>1
  <2>3. unreadable' \in SUBSET (1 .. SourceCells)
    BY <2>2 DEF ZeroFill, SeekPast, TypeOK
  <2>4. readErrorChunks' \in Nat
    BY DEF ZeroFill, SeekPast, TypeOK
  <2> QED
    BY <2>3, <2>4
<1>7. pc' \in Points
  BY DEF ZeroFill, SeekPast, Points, TryPoints
<1> QED
  BY <1>3, <1>4, <1>5, <1>6, <1>7 DEF ZeroFill, SeekPast, TypeOK, sourceVars,
     requestVars, countVars, runVars

\* Where a call starts, and with which counters.
LEMMA StartType ==
  ASSUME TypeOK, NEW c \in ChunkSizes, NEW p \in Policies,
         NEW allowResume \in BOOLEAN, Start(c, p, allowResume)
  PROVE  TypeOK'
<1>1. /\ base' \in 0 .. SourceCells /\ bytesWritten' = base'
      /\ networkCheckpointCount' \in Nat
  <2>1. /\ Len(image) \in Nat /\ log.written \in 0 .. SourceCells
        /\ log.checkpoints \in Nat /\ srcLength \in 0 .. SourceCells
        /\ SourceCells \in Nat
    BY LenProperties, SizesAssumption DEF TypeOK, LogRecord
  <2>2. ResumePoint \in 0 .. SourceCells
    BY <2>1 DEF ResumePoint, Least
  <2> QED
    BY <2>1, <2>2 DEF Start
<1>2. custodySequence' \in Nat
  <2>1. custody # <<>> => custody[Len(custody)].sequence \in Nat
    <3> SUFFICES ASSUME custody # <<>>
                 PROVE  custody[Len(custody)].sequence \in Nat
      OBVIOUS
    <3>1. custody \in Seq(CustodyRecord)
      BY DEF TypeOK
    <3>2. Len(custody) \in 1 .. Len(custody)
      BY <3>1, EmptySeq
    <3>3. custody[Len(custody)] \in CustodyRecord
      BY <3>1, <3>2, ElementOfSeq
    <3> QED
      BY <3>3 DEF CustodyRecord
  <2>2. log.checkpoints \in Nat
    BY DEF TypeOK, LogRecord
  <2> QED
    BY <2>1, <2>2 DEF Start, InitialSequence, LastCustody
<1>3. chunk' \in Nat \ {0} /\ policy' \in Policies /\ pc' \in Points
  BY SizesAssumption DEF Start, Points
<1>4. sourceSize' \in 0 .. SourceCells /\ runs' \in 0 .. MaxRuns
  BY SizesAssumption DEF Start, TypeOK
<1>5. power' \in {"kept", "lostBefore", "lost"} /\ thrown' \in BOOLEAN
  BY DEF Start, TypeOK
<1>6. log' \in LogRecord
  BY BlankLogType DEF Start
<1> QED
  BY <1>1, <1>2, <1>3, <1>4, <1>5, <1>6 DEF Start, TypeOK, sourceVars, imageVars

LEMMA TypeStep ==
  ASSUME TypeOK, Control, Next
  PROVE  TypeOK'
<1> USE SizesAssumption DEF sourceVars, imageVars, requestVars, copyVars,
        countVars, runVars
<1>1. ASSUME NEW c \in ChunkSizes, NEW p \in Policies,
             NEW allowResume \in BOOLEAN, Start(c, p, allowResume)
      PROVE  TypeOK'
  BY <1>1, StartType
<1>2. CASE WriteInitialLog
  BY <1>2, StateRecordType DEF WriteInitialLog, TypeOK, Points, TryPoints, VerdictPoints
<1>3. CASE RecordStart
  BY <1>3, CustodyType DEF RecordStart, TypeOK, Points, TryPoints, VerdictPoints, Events
<1>4. CASE AbortStart
  BY <1>4, ForgetType, LeftType DEF AbortStart, TypeOK
<1>5. CASE VerifyChunk
  BY <1>5, VerifyType
<1>6. CASE PrefixVerified
  BY <1>6 DEF PrefixVerified, TypeOK, Points, TryPoints, VerdictPoints
<1>7. CASE OpenImage
  BY <1>7, EmptySeq DEF OpenImage, OpenedImage, TypeOK, Points, TryPoints, VerdictPoints
<1>8. ASSUME NEW n \in 1 .. SourceCells, CopyChunk(n)
      PROVE  TypeOK'
  BY <1>8, CopyType
<1>9. CASE ZeroFill
  BY <1>9, ZeroFillType
<1>10. CASE FinishCopy
  BY <1>10, FlushedProperties, EmptySeq DEF FinishCopy, CopyDone, TypeOK, Points, TryPoints, VerdictPoints
<1>11. CASE BeginCheckpoint
  BY <1>11, BlankLogType DEF BeginCheckpoint, TypeOK, Points, TryPoints, VerdictPoints
<1>12. CASE WriteCheckpoint
  BY <1>12, StateRecordType DEF WriteCheckpoint, TypeOK, Points, TryPoints, VerdictPoints
<1>13. CASE RecordCheckpoint
  BY <1>13, CustodyType DEF RecordCheckpoint, TypeOK, Points, TryPoints, VerdictPoints, Events
<1>14. CASE DigestsMatch
  BY <1>14 DEF DigestsMatch, DigestMatches, TypeOK, Points, TryPoints, VerdictPoints, VerdictStart, Verdicts
<1>15. CASE ThrowCanceled
  BY <1>15, CatchType DEF ThrowCanceled, Verdicts
<1>16. CASE ThrowFailed
  BY <1>16, CatchType DEF ThrowFailed, Verdicts
<1>17. CASE RecordVerdict
  BY <1>17, CustodyType DEF RecordVerdict, TypeOK, Points, TryPoints, VerdictPoints, Events
<1>18. CASE WriteManifest
  BY <1>18 DEF WriteManifest, ListedManifest, TypeOK, Points, TryPoints, VerdictPoints
<1>19. CASE BeginVerdictLog
  BY <1>19, BlankLogType DEF BeginVerdictLog, TypeOK, Points, TryPoints, VerdictPoints
<1>20. CASE WriteVerdictLog
  BY <1>20, StateRecordType, ForgetType DEF WriteVerdictLog, TypeOK
<1>21. CASE AbandonVerdict
  BY <1>21, ForgetType, LeftType DEF AbandonVerdict, TypeOK
<1>22. ASSUME NEW i \in 1 .. SourceCells, RewriteSource(i)
      PROVE  TypeOK'
  <2>1. srcVersion' \in [1 .. SourceCells -> Versions] /\ srcChanges' \in Versions
    BY <1>22 DEF RewriteSource, TypeOK, Versions
  <2> QED
    BY <1>22, <2>1 DEF RewriteSource, TypeOK
<1>23. ASSUME NEW n \in 0 .. SourceCells, ResizeSource(n)
      PROVE  TypeOK'
  BY <1>23 DEF ResizeSource, TypeOK, Versions, Least
<1>24. CASE RequestCancel
  BY <1>24 DEF RequestCancel, TypeOK
<1>25. CASE Crash
  BY <1>25, ForgetType DEF Crash, TypeOK
<1>26. CASE OpenManifest
  BY <1>26 DEF OpenManifest, EmptiedManifest, TypeOK, Points, TryPoints, VerdictPoints
<1>27. CASE PowerLoss
  BY <1>27, ForgetType DEF PowerLoss, TypeOK
<1>28. CASE LoseUnflushed
  BY <1>28, LoseType DEF LoseUnflushed, TypeOK
<1> QED
  BY <1>1, <1>2, <1>3, <1>4, <1>5, <1>6, <1>7, <1>8, <1>9, <1>10, <1>11, <1>12, <1>13, <1>14, <1>15, <1>16, <1>17, <1>18, <1>19, <1>20, <1>21, <1>22, <1>23, <1>24, <1>25, <1>26, <1>27, <1>28
     DEF Next, Begin, Work, Surroundings, Outage

-----------------------------------------------------------------------------
(* The positions and counters stay in step *)

LEMMA HashLength ==
  ASSUME TypeOK, NEW n \in Nat, srcPosition + n <= srcLength
  PROVE  Len(sourceHash \o SourceRead(n)) = Len(sourceHash) + n
<1>1. /\ SourceCells \in Nat /\ MaxSourceChanges \in Nat
      /\ srcVersion \in [1 .. SourceCells -> Versions]
      /\ srcPosition \in Nat /\ sourceHash \in Seq(Cell)
      /\ srcLength \in 0 .. SourceCells
  BY SizesAssumption DEF TypeOK
<1>2. srcPosition + n <= SourceCells
  BY <1>1
<1>3. SourceRead(n) \in Seq(Cell) /\ Len(SourceRead(n)) = n
  BY <1>1, <1>2, SourceReadCells
<1> QED
  BY <1>1, <1>3, ConcatProperties

LEMMA ForgetControl ==
  ASSUME Forget, image' \in Seq(Cell)
  PROVE  Control'
<1>1. Len(<<>>) = 0 /\ Len(image') \in Nat
  BY EmptySeq, LenProperties
<1> QED
  BY <1>1 DEF Forget, Control, BeforeTry, CopyPoints, Vouching, VerdictPoints

LEMMA CatchControl ==
  ASSUME TypeOK, Control, InTry, CanThrow, NEW verdict \in {"canceled", "failed"},
         CatchAs(verdict)
  PROVE  Control'
<1>1. Len(image') >= Len(image) /\ pending' = <<>> /\ Len(pending') = 0
  BY FlushedProperties, EmptySeq DEF CatchAs
<1>2. /\ base \in Nat /\ Len(image) \in Nat /\ Len(image') \in Nat
      /\ bytesWritten \in Nat /\ Len(sourceHash) \in Nat
  BY FlushedProperties, LenProperties, SizesAssumption DEF TypeOK, CatchAs
<1>3. pc' \in {"verdictCustody", "verdictManifest"} /\ outcome' = verdict
  BY DEF CatchAs, VerdictStart
<1>4. /\ base' = base /\ bytesWritten' = bytesWritten /\ sourceSize' = sourceSize
      /\ sourceHash' = sourceHash /\ power' = power /\ thrown'
  BY DEF CatchAs, requestVars
<1>5. power # "lost"
  BY DEF Control, CanThrow, TryPoints, VerdictPoints
<1> QED
  BY <1>1, <1>2, <1>3, <1>4, <1>5
     DEF Control, BeforeTry, CopyPoints, Vouching, VerdictPoints

LEMMA StartControl ==
  ASSUME TypeOK, Control, NEW c \in ChunkSizes, NEW p \in Policies,
         NEW allowResume \in BOOLEAN, Start(c, p, allowResume)
  PROVE  Control'
<1>1. /\ Len(image) \in Nat /\ log.written \in 0 .. SourceCells
      /\ srcLength \in 0 .. SourceCells /\ SourceCells \in Nat
      /\ Len(<<>>) = 0
  BY LenProperties, SizesAssumption, EmptySeq DEF TypeOK, LogRecord
<1>2. ResumePoint \in Nat /\ ResumePoint <= Len(image) /\ ResumePoint <= srcLength
  BY <1>1 DEF ResumePoint, Least
<1>3. /\ base' \in Nat /\ base' <= Len(image) /\ base' <= srcLength
      /\ bytesWritten' = base' /\ bytesWritten' \in Nat
  BY <1>1, <1>2 DEF Start
<1>4. /\ pc = "idle" /\ pc' = "initialLog" /\ sourceSize' = srcLength
      /\ image' = image /\ pending' = pending /\ sourceHash' = sourceHash
      /\ srcPosition' = srcPosition /\ outcome' = outcome
      /\ unreadable' = unreadable /\ readErrorChunks' = readErrorChunks
      /\ power' # "lost" /\ ~thrown'
  BY DEF Start, imageVars
<1>5. /\ pending = <<>> /\ sourceHash = <<>> /\ srcPosition = 0
      /\ outcome = "completed" /\ unreadable = {} /\ readErrorChunks = 0
      /\ Len(pending') = 0 /\ Len(sourceHash') = 0 /\ ~canceled
  BY <1>1, <1>4 DEF Control, BeforeTry, CopyPoints
<1>6. /\ base' <= bytesWritten' /\ bytesWritten' <= sourceSize'
      /\ Len(pending') <= bytesWritten' - base' /\ base' <= Len(image')
  <2>1. Len(image') = Len(image) /\ Len(pending') = 0
    BY <1>4, <1>5
  <2>2. PICK from \in Nat : base' = from /\ bytesWritten' = from
    BY <1>3
  <2>3. from <= Len(image) /\ from <= srcLength
    BY <1>3, <2>2
  <2>4. from <= from /\ 0 <= from - from
    OBVIOUS
  <2> QED
    BY <1>4, <2>1, <2>2, <2>3, <2>4
<1>7. /\ pending' = <<>> /\ sourceHash' = <<>> /\ srcPosition' = 0
      /\ outcome' = "completed" /\ unreadable' = {} /\ readErrorChunks' = 0
      /\ Len(sourceHash') <= bytesWritten'
  BY <1>3, <1>4, <1>5
<1> QED
  BY <1>3, <1>4, <1>6, <1>7
     DEF Control, BeforeTry, CopyPoints, Vouching, VerdictPoints

LEMMA VerifyControl ==
  ASSUME TypeOK, Control, VerifyChunk
  PROVE  Control'
<1> DEFINE n == Least(chunk, base - Len(sourceHash))
<1>1. /\ n \in Nat /\ n <= base - Len(sourceHash)
      /\ srcPosition + n <= srcLength
      /\ sourceHash' = sourceHash \o SourceRead(n)
      /\ srcPosition' = srcPosition + n
      /\ Len(sourceHash) \in Nat /\ base \in Nat
  BY LenProperties, SizesAssumption DEF VerifyChunk, HashPrefixChunk, Least, TypeOK
<1> HIDE DEF n
<1>2. Len(sourceHash') = Len(sourceHash) + n
  BY <1>1, HashLength
<1>3. /\ pc = "verifyPrefix" /\ pc' = pc
      /\ UNCHANGED <<image, manifest, canceled, base, sourceSize, bytesWritten,
                     pending, readErrorChunks, unreadable, outcome, power, thrown>>
  BY DEF VerifyChunk, imageVars, requestVars, runVars
<1>4. Len(sourceHash') <= base
  BY <1>1, <1>2
<1> QED
  BY <1>1, <1>2, <1>3, <1>4
     DEF Control, BeforeTry, CopyPoints, Vouching, VerdictPoints

\* A chunk, read or zero-filled, moves every position by its length.
LEMMA ChunkControl ==
  ASSUME TypeOK, Control, NEW n \in Nat, n <= Requested,
         NEW cells \in Seq(Cell), Len(cells) = n, WriteCells(cells),
         pc = "copy", pc' \in {"copy", "checkpoint"},
         sourceHash' = sourceHash \o cells,
         srcPosition' = srcPosition + n, bytesWritten' = bytesWritten + n,
         UNCHANGED <<imageExists, requestVars, outcome, power, thrown>>
  PROVE  Control'
<1>1. /\ Len(image') >= Len(image) /\ Len(pending') <= Len(pending) + n
      /\ Len(image) \in Nat /\ Len(image') \in Nat
      /\ Len(pending) \in Nat /\ Len(pending') \in Nat
  BY WriteCellsProperties, LenProperties DEF TypeOK
<1>2. Len(sourceHash') = Len(sourceHash) + n /\ Len(sourceHash) \in Nat
  BY ConcatProperties, LenProperties DEF TypeOK
<1>3. /\ base \in Nat /\ bytesWritten \in Nat /\ sourceSize \in Nat
      /\ bytesWritten + n <= sourceSize
  BY RequestedType, SizesAssumption DEF TypeOK
<1>4. /\ UNCHANGED <<base, sourceSize, imageExists, outcome, power, thrown>>
      /\ pc' \in CopyPoints /\ pc' \in {"copy", "checkpoint"}
  BY DEF requestVars, CopyPoints
<1>5. /\ base <= bytesWritten /\ Len(pending) <= bytesWritten - base
      /\ base <= Len(image) /\ srcPosition = bytesWritten
      /\ Len(sourceHash) = bytesWritten /\ imageExists
      /\ power # "lost" /\ ~thrown
  BY DEF Control, CopyPoints, VerdictPoints
<1>6. /\ base' <= bytesWritten' /\ bytesWritten' <= sourceSize'
      /\ Len(pending') <= bytesWritten' - base' /\ base' <= Len(image')
      /\ srcPosition' = bytesWritten' /\ Len(sourceHash') = bytesWritten'
  BY <1>1, <1>2, <1>3, <1>4, <1>5
<1> QED
  BY <1>4, <1>5, <1>6
     DEF Control, BeforeTry, CopyPoints, Vouching, VerdictPoints

LEMMA CopyControl ==
  ASSUME TypeOK, Control, NEW n \in 1 .. SourceCells, CopyChunk(n)
  PROVE  Control'
<1>1. /\ n \in Nat /\ n <= Requested /\ srcPosition + n <= srcLength
      /\ srcPosition \in Nat /\ srcLength \in 0 .. SourceCells
      /\ SourceCells \in Nat /\ MaxSourceChanges \in Nat
      /\ srcVersion \in [1 .. SourceCells -> Versions]
  BY RequestedType, SizesAssumption DEF CopyChunk, TypeOK
<1>2. SourceRead(n) \in Seq(Cell) /\ Len(SourceRead(n)) = n
  BY <1>1, SourceReadCells
<1> QED
  BY <1>1, <1>2, ChunkControl DEF CopyChunk, runVars

LEMMA ZeroFillControl ==
  ASSUME TypeOK, Control, ZeroFill
  PROVE  Control'
<1> DEFINE zeros == [k \in 1 .. Requested |-> Zero]
<1>1. zeros \in Seq(Cell) /\ Len(zeros) = Requested /\ Requested \in Nat
  BY RequestedType, ZerosType
<1>2. WriteCells(zeros) /\ sourceHash' = sourceHash \o zeros
  BY DEF ZeroFill, SeekPast
<1>3. Requested <= Requested
  BY <1>1
<1> HIDE DEF zeros
<1> QED
  BY <1>1, <1>2, <1>3, ChunkControl DEF ZeroFill, SeekPast, runVars

LEMMA FinishControl ==
  ASSUME TypeOK, Control, FinishCopy
  PROVE  Control'
<1>1. /\ Len(image') >= Len(image) /\ Len(image) \in Nat /\ Len(image') \in Nat
      /\ pending' = <<>> /\ Len(<<>>) = 0 /\ base \in Nat /\ bytesWritten \in Nat
  BY FlushedProperties, LenProperties, EmptySeq, SizesAssumption
     DEF FinishCopy, CopyDone, TypeOK
<1> QED
  BY <1>1 DEF FinishCopy, CopyDone, Control, BeforeTry, CopyPoints, Vouching,
     VerdictPoints, requestVars, runVars

LEMMA ControlStep ==
  ASSUME TypeOK, Control, Next
  PROVE  Control'
<1> USE DEF sourceVars, imageVars, requestVars, copyVars, countVars, runVars,
        BeforeTry, CopyPoints, Vouching, VerdictPoints
<1>1. ASSUME NEW c \in ChunkSizes, NEW p \in Policies,
             NEW allowResume \in BOOLEAN, Start(c, p, allowResume)
      PROVE  Control'
  BY <1>1, StartControl
<1>2. CASE WriteInitialLog
  BY <1>2, EmptySeq, SizesAssumption DEF WriteInitialLog, Control, TypeOK
<1>3. CASE RecordStart
  BY <1>3, EmptySeq, SizesAssumption DEF RecordStart, Control, TypeOK
<1>4. CASE AbortStart
  BY <1>4, ForgetControl DEF AbortStart, TypeOK
<1>5. CASE VerifyChunk
  BY <1>5, VerifyControl
<1>6. CASE PrefixVerified
  BY <1>6 DEF PrefixVerified, Control
<1>7. CASE OpenImage
  BY <1>7 DEF OpenImage, OpenedImage, Control
<1>8. ASSUME NEW n \in 1 .. SourceCells, CopyChunk(n)
      PROVE  Control'
  BY <1>8, CopyControl
<1>9. CASE ZeroFill
  BY <1>9, ZeroFillControl
<1>10. CASE FinishCopy
  BY <1>10, FinishControl
<1>11. CASE BeginCheckpoint
  BY <1>11 DEF BeginCheckpoint, Control
<1>12. CASE WriteCheckpoint
  BY <1>12 DEF WriteCheckpoint, Control
<1>13. CASE RecordCheckpoint
  BY <1>13 DEF RecordCheckpoint, Control
<1>14. CASE DigestsMatch
  BY <1>14 DEF DigestsMatch, DigestMatches, Control, VerdictStart
<1>15. CASE ThrowCanceled
  BY <1>15, CatchControl DEF ThrowCanceled
<1>16. CASE ThrowFailed
  BY <1>16, CatchControl DEF ThrowFailed
<1>17. CASE RecordVerdict
  BY <1>17 DEF RecordVerdict, Control
<1>18. CASE WriteManifest
  BY <1>18 DEF WriteManifest, ListedManifest, Control
<1>19. CASE BeginVerdictLog
  BY <1>19 DEF BeginVerdictLog, Control
<1>20. CASE WriteVerdictLog
  BY <1>20, ForgetControl DEF WriteVerdictLog, TypeOK
<1>21. CASE AbandonVerdict
  BY <1>21, ForgetControl DEF AbandonVerdict, TypeOK
<1>22. ASSUME NEW i \in 1 .. SourceCells, RewriteSource(i)
      PROVE  Control'
  BY <1>22 DEF RewriteSource, Control
<1>23. ASSUME NEW n \in 0 .. SourceCells, ResizeSource(n)
      PROVE  Control'
  BY <1>23 DEF ResizeSource, Control
<1>24. CASE RequestCancel
  BY <1>24 DEF RequestCancel, Control
<1>25. CASE Crash
  BY <1>25, ForgetControl DEF Crash, TypeOK
<1>26. CASE OpenManifest
  BY <1>26 DEF OpenManifest, EmptiedManifest, Control
<1>27. CASE PowerLoss
  BY <1>27, ForgetControl DEF PowerLoss, TypeOK
<1>28. CASE LoseUnflushed
  <2>1. /\ pc = "idle" /\ Len(image') \in Nat /\ base = 0
    BY <1>28, LoseType, LenProperties, SizesAssumption DEF LoseUnflushed, Control, TypeOK
  <2> QED
    BY <1>28, <2>1 DEF LoseUnflushed, Control
<1> QED
  BY <1>1, <1>2, <1>3, <1>4, <1>5, <1>6, <1>7, <1>8, <1>9, <1>10, <1>11, <1>12, <1>13, <1>14, <1>15, <1>16, <1>17, <1>18, <1>19, <1>20, <1>21, <1>22, <1>23, <1>24, <1>25, <1>26, <1>27, <1>28
     DEF Next, Begin, Work, Surroundings, Outage

-----------------------------------------------------------------------------
(* Versions and lengths of the source *)

LEMMA FinishProgression ==
  ASSUME TypeOK, Control, Progression, FinishCopy
  PROVE  bytesWritten = sourceSize \/ srcShortest <= bytesWritten
<1>1. srcPosition = bytesWritten
  BY DEF FinishCopy, CopyDone, Control, CopyPoints
<1>2. /\ chunk \in Nat \ {0} /\ sourceSize \in Nat /\ bytesWritten \in Nat
      /\ srcLength \in Nat /\ srcShortest \in Nat /\ srcShortest <= srcLength
  BY SizesAssumption DEF TypeOK, Progression
<1>3. CASE Requested = 0
  BY <1>2, <1>3 DEF Requested, Least
<1>4. CASE srcPosition >= srcLength
  BY <1>1, <1>2, <1>4
<1> QED
  BY <1>3, <1>4 DEF FinishCopy, CopyDone

LEMMA ProgressionStep ==
  ASSUME TypeOK, Control, Progression, Next
  PROVE  Progression'
<1> USE DEF sourceVars, imageVars, requestVars, copyVars, countVars, runVars,
        Vouching, VerdictPoints
<1>1. ASSUME NEW c \in ChunkSizes, NEW p \in Policies,
             NEW allowResume \in BOOLEAN, Start(c, p, allowResume)
      PROVE  Progression'
  <2>1. \A i \in 1 .. SourceCells : srcVersion[i] \in Nat
    BY SizesAssumption DEF TypeOK, Versions
  <2> QED
    BY <1>1, <2>1 DEF Start, Progression
<1>2. CASE WriteInitialLog
  BY <1>2 DEF WriteInitialLog, Progression
<1>3. CASE RecordStart
  BY <1>3 DEF RecordStart, Progression
<1>4. CASE AbortStart
  BY <1>4 DEF AbortStart, Forget, Progression
<1>5. CASE VerifyChunk
  BY <1>5 DEF VerifyChunk, HashPrefixChunk, Progression
<1>6. CASE PrefixVerified
  BY <1>6 DEF PrefixVerified, Progression
<1>7. CASE OpenImage
  BY <1>7 DEF OpenImage, OpenedImage, Progression
<1>8. ASSUME NEW n \in 1 .. SourceCells, CopyChunk(n)
      PROVE  Progression'
  BY <1>8 DEF CopyChunk, Progression
<1>9. CASE ZeroFill
  BY <1>9 DEF ZeroFill, SeekPast, Progression
<1>10. CASE FinishCopy
  BY <1>10, FinishProgression DEF FinishCopy, CopyDone, Progression
<1>11. CASE BeginCheckpoint
  BY <1>11 DEF BeginCheckpoint, Progression
<1>12. CASE WriteCheckpoint
  BY <1>12 DEF WriteCheckpoint, Progression
<1>13. CASE RecordCheckpoint
  BY <1>13 DEF RecordCheckpoint, Progression
<1>14. CASE DigestsMatch
  BY <1>14 DEF DigestsMatch, DigestMatches, Progression
<1>15. CASE ThrowCanceled
  BY <1>15 DEF ThrowCanceled, CatchAs, VerdictStart, Progression
<1>16. CASE ThrowFailed
  BY <1>16 DEF ThrowFailed, CatchAs, VerdictStart, Progression
<1>17. CASE RecordVerdict
  BY <1>17 DEF RecordVerdict, Progression
<1>18. CASE WriteManifest
  BY <1>18 DEF WriteManifest, Progression
<1>19. CASE BeginVerdictLog
  BY <1>19 DEF BeginVerdictLog, Progression
<1>20. CASE WriteVerdictLog
  BY <1>20 DEF WriteVerdictLog, Forget, Progression
<1>21. CASE AbandonVerdict
  BY <1>21 DEF AbandonVerdict, Forget, Progression
<1>22. ASSUME NEW i \in 1 .. SourceCells, RewriteSource(i)
      PROVE  Progression'
  <2>1. /\ srcChanges \in Nat /\ srcChanges' = srcChanges + 1
        /\ srcVersion' = [srcVersion EXCEPT ![i] = srcChanges + 1]
        /\ srcVersion \in [1 .. SourceCells -> Versions]
        /\ startVersion \in [1 .. SourceCells -> Versions]
        /\ startVersion' = startVersion
    BY <1>22, SizesAssumption DEF RewriteSource, TypeOK, Versions
  <2>2. \A j \in 1 .. SourceCells :
          srcVersion[j] \in Nat /\ startVersion[j] \in Nat
    BY <2>1, SizesAssumption DEF Versions
  <2>3. ASSUME NEW j \in 1 .. SourceCells
        PROVE  startVersion'[j] <= srcVersion'[j] /\ srcVersion'[j] <= srcChanges'
    <3>1. CASE j = i
      BY <3>1, <2>1, <2>2, <2>3 DEF Progression
    <3>2. CASE j # i
      BY <3>2, <2>1, <2>2, <2>3 DEF Progression
    <3> QED
      BY <3>1, <3>2
  <2> QED
    BY <1>22, <2>3 DEF RewriteSource, Progression
<1>23. ASSUME NEW n \in 0 .. SourceCells, ResizeSource(n)
      PROVE  Progression'
  <2>1. /\ srcChanges \in Nat /\ srcChanges' = srcChanges + 1
        /\ srcShortest \in Nat /\ srcShortest' <= srcShortest
        /\ srcShortest' <= srcLength' /\ srcShortest' \in Nat
        /\ bytesWritten \in Nat
    BY <1>23, SizesAssumption DEF ResizeSource, TypeOK, Versions, Least
  <2>2. \A j \in 1 .. SourceCells :
          srcVersion[j] \in Nat /\ startVersion[j] \in Nat
    BY SizesAssumption DEF TypeOK, Versions
  <2>3. \A j \in 1 .. SourceCells :
          startVersion[j] <= srcVersion[j] /\ srcVersion[j] <= srcChanges'
    BY <2>1, <2>2 DEF Progression
  <2> QED
    BY <1>23, <2>1, <2>3 DEF ResizeSource, Progression
<1>24. CASE RequestCancel
  BY <1>24 DEF RequestCancel, Progression
<1>25. CASE Crash
  BY <1>25 DEF Crash, Forget, Progression
<1>26. CASE OpenManifest
  BY <1>26 DEF OpenManifest, Progression
<1>27. CASE PowerLoss
  BY <1>27 DEF PowerLoss, Forget, Progression
<1>28. CASE LoseUnflushed
  BY <1>28 DEF LoseUnflushed, Progression
<1> QED
  BY <1>1, <1>2, <1>3, <1>4, <1>5, <1>6, <1>7, <1>8, <1>9, <1>10, <1>11, <1>12, <1>13, <1>14, <1>15, <1>16, <1>17, <1>18, <1>19, <1>20, <1>21, <1>22, <1>23, <1>24, <1>25, <1>26, <1>27, <1>28
     DEF Next, Begin, Work, Surroundings, Outage

-----------------------------------------------------------------------------
(* Every hashed cell has its position, its version or its reason *)

\* Reading behind the hashed cells: the new cells come from the source as it is.
LEMMA ReadHash ==
  ASSUME TypeOK, Progression, HashSound, srcPosition = Len(sourceHash),
         NEW n \in Nat, srcPosition + n <= srcLength,
         sourceHash' = sourceHash \o SourceRead(n),
         UNCHANGED <<unreadable, startVersion>>
  PROVE  HashSound'
<1>1. /\ SourceCells \in Nat /\ MaxSourceChanges \in Nat
      /\ srcVersion \in [1 .. SourceCells -> Versions]
      /\ srcPosition \in Nat /\ sourceHash \in Seq(Cell)
      /\ srcPosition + n <= SourceCells
  BY SizesAssumption DEF TypeOK
<1>2. /\ SourceRead(n) \in Seq(Cell) /\ Len(SourceRead(n)) = n
      /\ \A k \in 1 .. n :
              /\ SourceRead(n)[k] # Zero
              /\ SourceRead(n)[k][1] = srcPosition + k
              /\ SourceRead(n)[k][2] = srcVersion[srcPosition + k]
  BY <1>1, SourceReadCells
<1>3. /\ Len(sourceHash') = srcPosition + n
      /\ \A i \in 1 .. srcPosition + n :
           sourceHash'[i] = IF i <= srcPosition THEN sourceHash[i]
                            ELSE SourceRead(n)[i - srcPosition]
  <2> DEFINE read == SourceRead(n)
  <2>1. read \in Seq(Cell) /\ Len(read) = n /\ sourceHash' = sourceHash \o read
    BY <1>2
  <2> HIDE DEF read
  <2>2. /\ Len(sourceHash \o read) = srcPosition + n
        /\ \A i \in 1 .. srcPosition + n :
             (sourceHash \o read)[i] =
               IF i <= srcPosition THEN sourceHash[i] ELSE read[i - srcPosition]
    BY <1>1, <2>1, ConcatProperties
  <2> QED
    BY <2>1, <2>2 DEF read
<1>4. unreadable \subseteq 1 .. srcPosition
  BY DEF HashSound
<1>5. ASSUME NEW i \in 1 .. srcPosition + n
      PROVE  \/ sourceHash'[i] = Zero /\ i \in unreadable
             \/ /\ i \notin unreadable
                /\ sourceHash'[i] # Zero
                /\ sourceHash'[i][1] = i
                /\ sourceHash'[i][2] >= startVersion[i]
  <2>1. CASE i <= srcPosition
    <3>1. i \in 1 .. Len(sourceHash) /\ sourceHash'[i] = sourceHash[i]
      BY <1>1, <1>3, <2>1
    <3> QED
      BY <3>1 DEF HashSound
  <2>2. CASE ~(i <= srcPosition)
    <3> DEFINE k == i - srcPosition
    <3>1. k \in 1 .. n /\ srcPosition + k = i /\ i \in 1 .. SourceCells
      BY <1>1, <2>2
    <3>2. sourceHash'[i] = SourceRead(n)[k]
      BY <1>3, <2>2
    <3>3. i \notin unreadable
      BY <1>1, <1>4, <2>2
    <3>4. startVersion[i] <= srcVersion[i]
      BY <3>1 DEF Progression
    <3>5. startVersion[i] \in Nat /\ srcVersion[i] \in Nat
      BY <3>1, SizesAssumption DEF TypeOK, Versions
    <3> HIDE DEF k
    <3>6. /\ SourceRead(n)[k] # Zero /\ SourceRead(n)[k][1] = i
          /\ SourceRead(n)[k][2] = srcVersion[i]
      BY <1>2, <3>1
    <3>7. sourceHash'[i][2] = srcVersion[i]
      BY <3>2, <3>6
    <3> QED
      BY <3>2, <3>3, <3>4, <3>5, <3>6, <3>7
  <2> QED
    BY <2>1, <2>2
<1>6. unreadable \subseteq 1 .. srcPosition + n
  BY <1>1, <1>4
<1> QED
  BY <1>3, <1>5, <1>6 DEF HashSound

\* A zero-filled chunk: the new cells are zeros and listed.
LEMMA ZeroHash ==
  ASSUME TypeOK, Control, HashSound, ZeroFill
  PROVE  HashSound'
<1> DEFINE n == Requested
           zeros == [k \in 1 .. Requested |-> Zero]
<1>1. /\ zeros \in Seq(Cell) /\ Len(zeros) = n /\ n \in Nat
      /\ \A k \in 1 .. n : zeros[k] = Zero
  BY RequestedType, ZerosType
<1>2. /\ sourceHash' = sourceHash \o zeros
      /\ unreadable' = unreadable \cup (bytesWritten + 1 .. bytesWritten + n)
      /\ startVersion' = startVersion
  BY DEF ZeroFill, SeekPast, runVars
<1>3. Len(sourceHash) = bytesWritten /\ bytesWritten \in Nat
      /\ sourceHash \in Seq(Cell)
  BY SizesAssumption DEF ZeroFill, SeekPast, Control, CopyPoints, TypeOK
<1> HIDE DEF zeros, n
<1>4. /\ Len(sourceHash') = bytesWritten + n
      /\ \A i \in 1 .. bytesWritten + n :
           sourceHash'[i] = IF i <= bytesWritten THEN sourceHash[i]
                            ELSE zeros[i - bytesWritten]
  BY <1>1, <1>2, <1>3, ConcatProperties
<1>5. ASSUME NEW i \in 1 .. bytesWritten + n
      PROVE  \/ sourceHash'[i] = Zero /\ i \in unreadable'
             \/ /\ i \notin unreadable'
                /\ sourceHash'[i] # Zero
                /\ sourceHash'[i][1] = i
                /\ sourceHash'[i][2] >= startVersion'[i]
  <2>1. CASE i <= bytesWritten
    <3>1. i \in 1 .. Len(sourceHash) /\ sourceHash'[i] = sourceHash[i]
      BY <1>1, <1>3, <1>4, <2>1
    <3>2. i \in unreadable' <=> i \in unreadable
      BY <1>1, <1>2, <1>3, <2>1
    <3> QED
      BY <1>2, <3>1, <3>2 DEF HashSound
  <2>2. CASE ~(i <= bytesWritten)
    <3>1. i - bytesWritten \in 1 .. n
      BY <1>1, <1>3, <2>2
    <3>2. sourceHash'[i] = Zero
      BY <1>1, <1>4, <2>2, <3>1
    <3>3. i \in unreadable'
      BY <1>1, <1>2, <1>3, <2>2
    <3> QED
      BY <3>2, <3>3
  <2> QED
    BY <2>1, <2>2
<1>6. unreadable' \subseteq 1 .. bytesWritten + n
  <2>1. unreadable \subseteq 1 .. bytesWritten
    BY <1>3 DEF HashSound
  <2> QED
    BY <1>1, <1>2, <1>3, <2>1
<1> QED
  BY <1>4, <1>5, <1>6 DEF HashSound

LEMMA ForgetHash ==
  ASSUME Forget
  PROVE  HashSound'
BY EmptySeq DEF Forget, HashSound

LEMMA HashStep ==
  ASSUME TypeOK, Control, Progression, HashSound, Next
  PROVE  HashSound'
<1> USE DEF sourceVars, imageVars, requestVars, copyVars, countVars, runVars
<1>1. ASSUME NEW c \in ChunkSizes, NEW p \in Policies,
             NEW allowResume \in BOOLEAN, Start(c, p, allowResume)
      PROVE  HashSound'
  <2>1. sourceHash' = <<>> /\ unreadable' = {} /\ Len(<<>>) = 0
    BY <1>1, EmptySeq DEF Start, Control, BeforeTry
  <2> QED
    BY <2>1 DEF HashSound
<1>2. CASE WriteInitialLog
  BY <1>2 DEF WriteInitialLog, HashSound
<1>3. CASE RecordStart
  BY <1>3 DEF RecordStart, HashSound
<1>4. CASE AbortStart
  BY <1>4, ForgetHash DEF AbortStart
<1>5. CASE VerifyChunk
  <2> DEFINE n == Least(chunk, base - Len(sourceHash))
  <2>1. /\ n \in Nat /\ srcPosition + n <= srcLength
        /\ sourceHash' = sourceHash \o SourceRead(n)
        /\ UNCHANGED <<unreadable, startVersion>>
    BY <1>5, LenProperties, SizesAssumption DEF VerifyChunk, HashPrefixChunk, Least, TypeOK
  <2>2. srcPosition = Len(sourceHash)
    BY <1>5 DEF VerifyChunk, HashPrefixChunk, Control
  <2> HIDE DEF n
  <2> QED
    BY <2>1, <2>2, ReadHash
<1>6. CASE PrefixVerified
  BY <1>6 DEF PrefixVerified, HashSound
<1>7. CASE OpenImage
  BY <1>7 DEF OpenImage, OpenedImage, HashSound
<1>8. ASSUME NEW n \in 1 .. SourceCells, CopyChunk(n)
      PROVE  HashSound'
  <2>1. srcPosition = Len(sourceHash)
    BY <1>8 DEF CopyChunk, Control, CopyPoints
  <2>2. /\ n \in Nat /\ srcPosition + n <= srcLength
        /\ sourceHash' = sourceHash \o SourceRead(n)
        /\ UNCHANGED <<unreadable, startVersion>>
    BY <1>8, SizesAssumption DEF CopyChunk
  <2> QED
    BY <2>1, <2>2, ReadHash
<1>9. CASE ZeroFill
  BY <1>9, ZeroHash
<1>10. CASE FinishCopy
  BY <1>10 DEF FinishCopy, CopyDone, HashSound
<1>11. CASE BeginCheckpoint
  BY <1>11 DEF BeginCheckpoint, HashSound
<1>12. CASE WriteCheckpoint
  BY <1>12 DEF WriteCheckpoint, HashSound
<1>13. CASE RecordCheckpoint
  BY <1>13 DEF RecordCheckpoint, HashSound
<1>14. CASE DigestsMatch
  BY <1>14 DEF DigestsMatch, DigestMatches, HashSound
<1>15. CASE ThrowCanceled
  BY <1>15 DEF ThrowCanceled, CatchAs, HashSound
<1>16. CASE ThrowFailed
  BY <1>16 DEF ThrowFailed, CatchAs, HashSound
<1>17. CASE RecordVerdict
  BY <1>17 DEF RecordVerdict, HashSound
<1>18. CASE WriteManifest
  BY <1>18 DEF WriteManifest, HashSound
<1>19. CASE BeginVerdictLog
  BY <1>19 DEF BeginVerdictLog, HashSound
<1>20. CASE WriteVerdictLog
  BY <1>20, ForgetHash DEF WriteVerdictLog
<1>21. CASE AbandonVerdict
  BY <1>21, ForgetHash DEF AbandonVerdict
<1>22. ASSUME NEW i \in 1 .. SourceCells, RewriteSource(i)
      PROVE  HashSound'
  BY <1>22 DEF RewriteSource, HashSound
<1>23. ASSUME NEW n \in 0 .. SourceCells, ResizeSource(n)
      PROVE  HashSound'
  BY <1>23 DEF ResizeSource, HashSound
<1>24. CASE RequestCancel
  BY <1>24 DEF RequestCancel, HashSound
<1>25. CASE Crash
  BY <1>25, ForgetHash DEF Crash
<1>26. CASE OpenManifest
  BY <1>26 DEF OpenManifest, HashSound
<1>27. CASE PowerLoss
  BY <1>27, ForgetHash DEF PowerLoss
<1>28. CASE LoseUnflushed
  BY <1>28 DEF LoseUnflushed, HashSound
<1> QED
  BY <1>1, <1>2, <1>3, <1>4, <1>5, <1>6, <1>7, <1>8, <1>9, <1>10, <1>11, <1>12, <1>13, <1>14, <1>15, <1>16, <1>17, <1>18, <1>19, <1>20, <1>21, <1>22, <1>23, <1>24, <1>25, <1>26, <1>27, <1>28
     DEF Next, Begin, Work, Surroundings, Outage

-----------------------------------------------------------------------------
(* What a "completed" log says stays true *)

\* A log that does not say "completed" says nothing that could be wrong.
LEMMA NothingSaid ==
  ASSUME log'.status # "completed"
  PROVE  LogSound'
BY DEF LogSound, Completed, CompletedImageHasDigest, EveryGapIsListed,
       CellsInPlace, NothingOutdated, ShortOnlyIfSourceShrank

\* Until a call throws behind it, the log of a running call does not say
\* "completed".
LEMMA Unsaid ==
  ASSUME LogSound, pc # "idle", pc \notin VerdictPoints \/ ~thrown
  PROVE  log.status # "completed"
BY DEF LogSound, Completed

\* The step that writes "completed": digest, gaps and cells are those of the
\* image, which the digest comparison has found equal to the hashed cells.
LEMMA CompletedIsSound ==
  ASSUME TypeOK, Control, Progression, HashSound,
         pc = "verdictLog", outcome = "completed", log' = StateRecord("completed"),
         UNCHANGED <<image, imageExists, manifest, startVersion, srcShortest>>,
         pc' # "idle" =>
           pc' \in VerdictPoints /\ thrown' /\ unreadable' = unreadable
  PROVE  LogSound' /\ Gaps' = unreadable
<1>1. /\ image = sourceHash /\ Len(sourceHash) = bytesWritten /\ imageExists
      /\ unreadable # {} => manifest = unreadable
      /\ bytesWritten <= sourceSize
  BY DEF Control, Vouching, VerdictPoints
<1>2. /\ log'.status = "completed" /\ log'.digest = sourceHash
      /\ log'.written = bytesWritten /\ log'.size = sourceSize
      /\ log'.zeroed = Cardinality(unreadable)
      /\ log'.listed = (unreadable # {})
  BY DEF StateRecord, Verdicts
<1>3. image' = sourceHash /\ Len(image') = bytesWritten /\ imageExists'
  BY <1>1
<1>4. Gaps' = unreadable
  <2>1. Gaps' = {i \in 1 .. Len(sourceHash) : sourceHash[i] = Zero}
    BY <1>1, <1>3 DEF Gaps
  <2>2. unreadable \subseteq 1 .. Len(sourceHash)
    BY DEF HashSound
  <2>3. \A i \in 1 .. Len(sourceHash) : sourceHash[i] = Zero <=> i \in unreadable
    BY DEF HashSound
  <2> QED
    BY <2>1, <2>2, <2>3
<1>5. CompletedImageHasDigest'
  BY <1>2, <1>3 DEF CompletedImageHasDigest
<1>6. EveryGapIsListed'
  BY <1>1, <1>2, <1>4 DEF EveryGapIsListed
<1>7. DOMAIN image' = 1 .. Len(sourceHash) /\ image' = sourceHash
  BY <1>3, LenProperties DEF TypeOK
<1>8. CellsInPlace'
  BY <1>7 DEF CellsInPlace, HashSound
<1>9. NothingOutdated'
  BY <1>7 DEF NothingOutdated, HashSound
<1>10. ShortOnlyIfSourceShrank'
  <2>1. bytesWritten = sourceSize \/ srcShortest <= bytesWritten
    BY DEF Progression, Vouching, VerdictPoints
  <2>2. bytesWritten \in Nat /\ sourceSize \in Nat
    BY SizesAssumption DEF TypeOK
  <2> QED
    BY <1>1, <1>2, <2>1, <2>2 DEF ShortOnlyIfSourceShrank
<1> QED
  BY <1>4, <1>5, <1>6, <1>8, <1>9, <1>10 DEF LogSound

\* A throw finds no "completed" log and may leave one, when the state was in the
\* stream already.
LEMMA ThrowIsSound ==
  ASSUME IInv, InTry, CanThrow, NEW verdict, CatchAs(verdict)
  PROVE  LogSound'
<1>1. TypeOK /\ Control /\ Progression /\ HashSound /\ LogSound
  BY DEF IInv
<1>2. pc # "idle" /\ (pc \notin VerdictPoints \/ outcome = "completed")
  BY DEF InTry, TryPoints, VerdictPoints
<1>3. log.status # "completed"
  BY <1>1, <1>2, Unsaid DEF Control
<1>4. CASE log' = log
  BY <1>3, <1>4, NothingSaid
<1>5. CASE log' = StateRecord("in_progress")
  BY <1>5, NothingSaid DEF StateRecord
<1>6. CASE pc = "verdictLog" /\ log' = StateRecord(outcome)
  <2>1. outcome = "completed"
    BY <1>2, <1>6 DEF VerdictPoints
  <2>2. pending = <<>>
    BY <1>1, <1>6 DEF Control, CopyPoints
  <2>3. image' = image /\ manifest' = manifest
    BY <1>6, <2>2 DEF CatchAs, Flushed, LeftInManifest
  <2>4. /\ UNCHANGED <<imageExists, startVersion, srcShortest, unreadable>>
        /\ pc' \in VerdictPoints /\ thrown'
    BY DEF CatchAs, sourceVars, VerdictStart, VerdictPoints
  <2> QED
    BY <1>1, <1>6, <2>1, <2>3, <2>4, CompletedIsSound
<1> QED
  BY <1>4, <1>5, <1>6 DEF CatchAs, LeftInLog

\* What the log says stays true as long as it and the image stay.  The handler of
\* a throw may rewrite the manifest meanwhile, and the source may change, which
\* can make it shorter still.
LEMMA StillSound ==
  ASSUME TypeOK, LogSound, srcShortest' \in Nat, srcShortest' <= srcShortest,
         UNCHANGED <<image, imageExists, log, startVersion, power, thrown>>,
         manifest' = manifest \/ (pc # "idle" /\ manifest' \in {{}, unreadable}),
         pc' # "idle" => /\ pc # "idle" /\ unreadable' = unreadable
                         /\ pc \in VerdictPoints => pc' \in VerdictPoints
  PROVE  LogSound'
<1>1. Gaps' = Gaps /\ Completed' = Completed
  BY DEF Gaps, Completed
<1>2. Completed' /\ pc' # "idle" =>
        pc' \in VerdictPoints /\ thrown' /\ unreadable' = Gaps'
  BY <1>1 DEF LogSound
<1>3. EveryGapIsListed'
  BY <1>1 DEF LogSound, EveryGapIsListed
<1>4. ShortOnlyIfSourceShrank'
  <2>1. srcShortest \in Nat /\ log.written \in Nat
    BY SizesAssumption DEF TypeOK, LogRecord
  <2> QED
    BY <1>1, <2>1 DEF LogSound, ShortOnlyIfSourceShrank
<1>5. CompletedImageHasDigest' /\ CellsInPlace' /\ NothingOutdated'
  BY <1>1 DEF LogSound, CompletedImageHasDigest, CellsInPlace, NothingOutdated
<1> QED
  BY <1>2, <1>3, <1>4, <1>5 DEF LogSound

\* Once the power has failed, the log vouches for nothing but its own sizes.
LEMMA OutageIsSound ==
  ASSUME LogSound, Outage
  PROVE  LogSound'
<1>1. /\ pc' = "idle" /\ power' = "lost" /\ srcShortest' = srcShortest
      /\ log' = log \/ log' = Torn
  BY DEF Outage, PowerLoss, LoseUnflushed, Forget, sourceVars, runVars
<1>2. CASE log' = log
  BY <1>1, <1>2 DEF LogSound, Completed, CompletedImageHasDigest,
     EveryGapIsListed, CellsInPlace, NothingOutdated, ShortOnlyIfSourceShrank
<1>3. CASE log' = Torn
  BY <1>3, NothingSaid DEF Torn, BlankLog
<1> QED
  BY <1>1, <1>2, <1>3

LEMMA LogStep ==
  ASSUME IInv, Next
  PROVE  LogSound'
<1> USE DEF sourceVars, imageVars, requestVars, copyVars, countVars, runVars
<1>1. TypeOK /\ Control /\ Progression /\ HashSound /\ LogSound
  BY DEF IInv
<1>2. srcShortest \in Nat /\ srcShortest <= srcShortest
  BY <1>1, SizesAssumption DEF TypeOK
<1>3. CASE Begin
  BY <1>3, NothingSaid DEF Begin, Start, Torn, BlankLog
<1>4. CASE AbortStart
  <2>1. log.status # "completed"
    BY <1>1, <1>4, Unsaid DEF AbortStart, VerdictPoints
  <2>2. log' = log \/ log' = StateRecord("in_progress")
    BY <1>4 DEF AbortStart, LeftInLog
  <2> QED
    BY <2>1, <2>2, NothingSaid DEF StateRecord
<1>5. CASE WriteInitialLog \/ WriteCheckpoint
  BY <1>5, NothingSaid DEF WriteInitialLog, WriteCheckpoint, StateRecord
<1>6. CASE BeginCheckpoint \/ BeginVerdictLog
  BY <1>6, NothingSaid DEF BeginCheckpoint, BeginVerdictLog, Torn, BlankLog
<1>7. CASE RecordStart \/ VerifyChunk \/ PrefixVerified \/ OpenImage
  <2>1. pc # "idle" /\ pc \notin VerdictPoints /\ log' = log
    BY <1>7 DEF RecordStart, VerifyChunk, PrefixVerified, OpenImage, VerdictPoints
  <2> QED
    BY <1>1, <2>1, Unsaid, NothingSaid
<1>8. CASE (\E n \in 1 .. SourceCells : CopyChunk(n)) \/ ZeroFill \/ FinishCopy
  <2>1. pc # "idle" /\ pc \notin VerdictPoints /\ log' = log
    BY <1>8 DEF CopyChunk, ZeroFill, FinishCopy, VerdictPoints
  <2> QED
    BY <1>1, <2>1, Unsaid, NothingSaid
<1>9. CASE RecordCheckpoint \/ DigestsMatch
  <2>1. pc # "idle" /\ pc \notin VerdictPoints /\ log' = log
    BY <1>9 DEF RecordCheckpoint, DigestsMatch, VerdictPoints
  <2> QED
    BY <1>1, <2>1, Unsaid, NothingSaid
<1>10. CASE ThrowCanceled \/ ThrowFailed
  BY <1>10, ThrowIsSound DEF ThrowCanceled, ThrowFailed
<1>11. CASE RecordVerdict \/ OpenManifest \/ WriteManifest
  <2>1. /\ pc \in VerdictPoints /\ pc' \in VerdictPoints
        /\ pc # "idle" /\ unreadable' = unreadable
        /\ UNCHANGED <<image, imageExists, log, startVersion, power, thrown>>
        /\ srcShortest' = srcShortest
    BY <1>11 DEF RecordVerdict, OpenManifest, WriteManifest, VerdictPoints
  <2>2. manifest' = manifest \/ manifest' \in {{}, unreadable}
    BY <1>1, <1>11 DEF RecordVerdict, OpenManifest, WriteManifest,
       EmptiedManifest, ListedManifest, Control
  <2> QED
    BY <1>1, <1>2, <2>1, <2>2, StillSound
<1>12. CASE WriteVerdictLog
  <2>1. /\ pc = "verdictLog" /\ pc' = "idle" /\ log' = StateRecord(outcome)
        /\ UNCHANGED <<image, imageExists, manifest, startVersion, srcShortest>>
    BY <1>12 DEF WriteVerdictLog, Forget
  <2>2. CASE outcome = "completed"
    BY <1>1, <2>1, <2>2, CompletedIsSound
  <2>3. CASE outcome # "completed"
    BY <2>1, <2>3, NothingSaid DEF StateRecord
  <2> QED
    BY <2>2, <2>3
<1>13. CASE AbandonVerdict
  <2>1. /\ pc # "idle" /\ pc' = "idle" /\ srcShortest' = srcShortest
        /\ UNCHANGED <<image, imageExists, startVersion, power, thrown>>
    BY <1>13 DEF AbandonVerdict, Forget, CanThrow, TryPoints, VerdictPoints
  <2>2. manifest' = manifest \/ manifest' \in {{}, unreadable}
    BY <1>1, <1>13 DEF AbandonVerdict, LeftInManifest, ListedManifest, Control
  <2>3. CASE log' = log
    BY <1>1, <1>2, <2>1, <2>2, <2>3, StillSound
  <2>4. CASE log' # log
    <3>1. pc \notin TryPoints /\ outcome # "completed"
      BY <1>13 DEF AbandonVerdict, InTry, CanThrow
    <3>2. log' = StateRecord(outcome)
      BY <1>13, <2>4, <3>1 DEF AbandonVerdict, CanThrow, LeftInLog, VerdictPoints, TryPoints
    <3> QED
      BY <3>1, <3>2, NothingSaid DEF StateRecord
  <2> QED
    BY <2>3, <2>4
<1>14. CASE Surroundings
  <2>1. ASSUME NEW i \in 1 .. SourceCells, RewriteSource(i)
        PROVE  LogSound'
    BY <1>1, <1>2, <2>1, StillSound DEF RewriteSource
  <2>2. ASSUME NEW n \in 0 .. SourceCells, ResizeSource(n)
        PROVE  LogSound'
    <3>1. srcShortest' \in Nat /\ srcShortest' <= srcShortest
      BY <1>1, <2>2, SizesAssumption DEF ResizeSource, TypeOK, Least
    <3> QED
      BY <1>1, <2>2, <3>1, StillSound DEF ResizeSource
  <2>3. CASE RequestCancel
    BY <1>1, <1>2, <2>3, StillSound DEF RequestCancel
  <2>4. CASE Crash
    BY <1>1, <1>2, <2>4, StillSound DEF Crash, Forget
  <2> QED
    BY <1>14, <2>1, <2>2, <2>3, <2>4 DEF Surroundings
<1>15. CASE Outage
  BY <1>1, <1>15, OutageIsSound
<1> QED
  BY <1>3, <1>4, <1>5, <1>6, <1>7, <1>8, <1>9, <1>10, <1>11, <1>12, <1>13,
     <1>14, <1>15 DEF Next, Work

-----------------------------------------------------------------------------
(* Theorems *)

LEMMA Stuttering ==
  ASSUME IInv, UNCHANGED vars
  PROVE  IInv'
<1> USE DEF vars, sourceVars, imageVars, requestVars, copyVars, countVars, runVars
<1>1. TypeOK'
  BY DEF IInv, TypeOK
<1>2. Control'
  BY DEF IInv, Control, Vouching
<1>3. Progression' /\ HashSound'
  BY DEF IInv, Progression, HashSound, Vouching
<1>4. LogSound'
  BY DEF IInv, LogSound, Completed, CompletedImageHasDigest, EveryGapIsListed,
         Gaps, CellsInPlace, NothingOutdated, ShortOnlyIfSourceShrank
<1> QED
  BY <1>1, <1>2, <1>3, <1>4 DEF IInv

\* The inductive invariant holds in every state of every behaviour: all the
\* theorems below rest on it.
THEOREM Invariance == Spec => []IInv
<1>1. Init => IInv
  BY InitInv
<1>2. IInv /\ [Next]_vars => IInv'
  <2> SUFFICES ASSUME IInv, [Next]_vars PROVE IInv'
    OBVIOUS
  <2>1. CASE Next
    BY <2>1, TypeStep, ControlStep, ProgressionStep, HashStep, LogStep DEF IInv
  <2>2. CASE UNCHANGED vars
    BY <2>2, Stuttering
  <2> QED
    BY <2>1, <2>2
<1> QED
  BY <1>1, <1>2, PTL DEF Spec

\* Every variable of AcquireImageAsync and every file keeps its type; the
\* positions and counters never leave 0 .. SourceCells.
THEOREM TypeCorrect == Spec => []TypeOK
<1>1. IInv => TypeOK
  BY DEF IInv
<1> QED
  BY <1>1, Invariance, PTL

\* A log that says "completed" has the digest and the length of the image file,
\* whatever calls, cancellations, errors, crashes and power losses came before the
\* call that wrote it, and until the power fails after that.
THEOREM CompletedDigestCorrect == Spec => []CompletedImageHasDigest
<1>1. IInv => CompletedImageHasDigest
  BY DEF IInv, LogSound
<1> QED
  BY <1>1, Invariance, PTL

\* A completed log counts exactly the zero-filled cells and the manifest it points
\* to lists them, until the power fails; only a call that threw behind that log may
\* have emptied the manifest.
THEOREM GapsAreListed == Spec => []EveryGapIsListed
<1>1. IInv => EveryGapIsListed
  BY DEF IInv, LogSound
<1> QED
  BY <1>1, Invariance, PTL

\* Every other cell of a completed image is the source's cell of its position,
\* until the power fails.
THEOREM CellsCorrect == Spec => []CellsInPlace
<1>1. IInv => CellsInPlace
  BY DEF IInv, LogSound
<1> QED
  BY <1>1, Invariance, PTL

\* None of these cells had been overwritten in the source before the call that
\* completed the image began: a resumed prefix is compared with the source again.
THEOREM NothingIsOutdated == Spec => []NothingOutdated
<1>1. IInv => NothingOutdated
  BY DEF IInv, LogSound
<1> QED
  BY <1>1, Invariance, PTL

\* A short read alone never ends the copy: a completed image shorter than the
\* recorded size means that the source itself had become shorter.
THEOREM NoSilentTruncation == Spec => []ShortOnlyIfSourceShrank
<1>1. IInv => ShortOnlyIfSourceShrank
  BY DEF IInv, LogSound
<1> QED
  BY <1>1, Invariance, PTL

-----------------------------------------------------------------------------
(* The resumed prefix *)

LEMMA SamePrefix ==
  ASSUME NEW old \in Seq(Cell), NEW new \in Seq(Cell), NEW n \in Nat,
         n <= Len(old), n <= Len(new), \A i \in 1 .. n : new[i] = old[i]
  PROVE  SubSeq(new, 1, n) = SubSeq(old, 1, n)
<1>1. Len(old) \in Nat /\ Len(new) \in Nat
  BY LenProperties
<1>2. n \in 0 .. Len(old) /\ n \in 0 .. Len(new)
  BY <1>1
<1>3. /\ SubSeq(new, 1, n) \in Seq(Cell) /\ Len(SubSeq(new, 1, n)) = n
      /\ \A i \in 1 .. n : SubSeq(new, 1, n)[i] = new[i]
      /\ SubSeq(old, 1, n) \in Seq(Cell) /\ Len(SubSeq(old, 1, n)) = n
      /\ \A i \in 1 .. n : SubSeq(old, 1, n)[i] = old[i]
  BY <1>2, PrefixProperties
<1> QED
  BY <1>3, SeqEqual

\* No step but a power loss touches the cells a running call resumes behind.
LEMMA PrefixStep ==
  ASSUME TypeOK, Control, Next, base > 0, power' # "lost"
  PROVE  /\ Len(image') >= base
         /\ \A i \in 1 .. base : image'[i] = image[i]
<1> USE DEF sourceVars, imageVars, requestVars, copyVars, countVars, runVars
<1>1. /\ base \in Nat /\ Len(image) \in Nat /\ base <= Len(image)
      /\ image \in Seq(Cell) /\ bytesWritten \in Nat
  BY SizesAssumption, LenProperties DEF TypeOK, Control
<1>2. CASE image' = image
  BY <1>1, <1>2
<1>3. CASE Begin
  BY <1>2, <1>3 DEF Begin, Start
<1>4. CASE image' = Flushed
  <2>1. Len(Flushed) >= Len(image) /\ \A i \in 1 .. base : Flushed[i] = image[i]
    BY FlushedProperties
  <2>2. Len(Flushed) \in Nat
    BY FlushedProperties, LenProperties
  <2> QED
    BY <1>1, <1>4, <2>1, <2>2
<1>5. ASSUME NEW cells \in Seq(Cell), WriteCells(cells)
      PROVE  /\ Len(image') >= base
             /\ \A i \in 1 .. base : image'[i] = image[i]
  <2>1. /\ image' \in Seq(Cell) /\ Len(image') >= Len(image)
        /\ \A i \in 1 .. base : image'[i] = image[i]
    BY <1>5, WriteCellsProperties
  <2>2. Len(image') \in Nat
    BY <2>1, LenProperties
  <2> QED
    BY <1>1, <2>1, <2>2
<1>6. ASSUME NEW n \in 1 .. SourceCells, CopyChunk(n)
      PROVE  /\ Len(image') >= base
             /\ \A i \in 1 .. base : image'[i] = image[i]
  <2>1. n \in Nat /\ srcPosition + n <= srcLength /\ WriteCells(SourceRead(n))
    BY <1>6, SizesAssumption DEF CopyChunk
  <2>2. SourceRead(n) \in Seq(Cell)
    BY <2>1, HashGrows
  <2> QED
    BY <2>1, <2>2, <1>5
<1>7. CASE ZeroFill
  <2> DEFINE zeros == [k \in 1 .. Requested |-> Zero]
  <2>1. zeros \in Seq(Cell) /\ WriteCells(zeros)
    BY <1>7, RequestedType, ZerosType DEF ZeroFill, SeekPast
  <2> HIDE DEF zeros
  <2> QED
    BY <2>1, <1>5
<1>8. CASE Crash
  BY <1>2, <1>8 DEF Crash
<1>9. CASE WriteInitialLog \/ RecordStart \/ AbortStart \/ VerifyChunk
            \/ PrefixVerified \/ OpenImage
  BY <1>2, <1>9 DEF WriteInitialLog, RecordStart, AbortStart, VerifyChunk,
     PrefixVerified, OpenImage, OpenedImage
<1>10. CASE FinishCopy \/ ThrowCanceled \/ ThrowFailed
  BY <1>4, <1>10 DEF FinishCopy, CopyDone, ThrowCanceled, ThrowFailed, CatchAs
<1>11. CASE BeginCheckpoint \/ WriteCheckpoint \/ RecordCheckpoint
            \/ DigestsMatch \/ RecordVerdict \/ OpenManifest \/ WriteManifest
  BY <1>2, <1>11 DEF BeginCheckpoint, WriteCheckpoint, RecordCheckpoint,
     DigestsMatch, RecordVerdict, OpenManifest, WriteManifest
<1>12. CASE BeginVerdictLog \/ WriteVerdictLog \/ AbandonVerdict \/ RequestCancel
  BY <1>2, <1>12 DEF BeginVerdictLog, WriteVerdictLog, AbandonVerdict,
     RequestCancel
<1>13. ASSUME NEW i \in 1 .. SourceCells, RewriteSource(i)
       PROVE  image' = image
  BY <1>13 DEF RewriteSource
<1>14. ASSUME NEW n \in 0 .. SourceCells, ResizeSource(n)
       PROVE  image' = image
  BY <1>14 DEF ResizeSource
<1>15. ~Outage
  BY DEF Outage, PowerLoss, LoseUnflushed
<1> QED
  BY <1>2, <1>3, <1>6, <1>7, <1>8, <1>9, <1>10, <1>11, <1>12, <1>13, <1>14, <1>15
     DEF Next, Work, Surroundings

\* A call that resumes behind a prefix, copies on, fails, is canceled or crashes
\* leaves that prefix of the image as it found it; only the power can take it.
THEOREM PrefixIsKept == Spec => ResumedPrefixIsKept
<1>1. ASSUME IInv, IInv', [Next]_vars
      PROVE  [(base > 0 /\ power' # "lost") =>
                 /\ Len(image') >= base
                 /\ SubSeq(image', 1, base) = SubSeq(image, 1, base)]_vars
  <2>1. SUFFICES ASSUME Next, base > 0, power' # "lost"
                 PROVE  /\ Len(image') >= base
                        /\ SubSeq(image', 1, base) = SubSeq(image, 1, base)
    BY <1>1
  <2>2. /\ image \in Seq(Cell) /\ image' \in Seq(Cell)
        /\ base \in Nat /\ base <= Len(image)
    BY <1>1, SizesAssumption DEF IInv, TypeOK, Control
  <2>3. Len(image') >= base /\ \A i \in 1 .. base : image'[i] = image[i]
    BY <1>1, <2>1, PrefixStep DEF IInv
  <2>4. base <= Len(image')
    BY <2>2, <2>3, LenProperties
  <2> QED
    BY <2>2, <2>3, <2>4, SamePrefix
<1> QED
  BY <1>1, Invariance, PTL DEF Spec, ResumedPrefixIsKept

-----------------------------------------------------------------------------
(* The custody log *)

\* Points at which this call has a custody event that no checkpoint count of
\* its own stands for yet.
AheadPoints == {"verifyPrefix", "openImage", "copy", "checkpoint", "digest"}

\* A call numbers its events behind the last one.  As long as no record was lost
\* with the power, the number of checkpoints never overtakes the number of events,
\* so that a resumed call continues exactly where the custody log ends.
NumbersSound ==
  /\ CustodyHasNoGap
  /\ pc # "idle" => LastCustody <= custodySequence
  /\ power = "kept" =>
       /\ log.checkpoints <= Len(custody)
       /\ networkCheckpointCount <= Len(custody)
       /\ pc # "idle" => custodySequence = Len(custody)
       /\ IsNetworkSource /\ pc \in AheadPoints =>
            networkCheckpointCount < Len(custody)

LastIsCompleted == custody # <<>> /\ custody[Len(custody)].event = "completed"

\* The "completed" event comes before the "completed" log, also when the handler
\* of a throw is to append another event.
EventsSound ==
  /\ IsNetworkSource /\ Vouching /\ pc # "verdictCustody" => LastIsCompleted
  /\ IsNetworkSource /\ Completed /\ pc = "verdictCustody" => LastIsCompleted
  /\ CustodyAgreesWithLog

CustodySound == NumbersSound /\ EventsSound

LEMMA InitCustody == Init => CustodySound
<1>1. Len(<<>>) = 0
  BY EmptySeq
<1> QED
  BY <1>1 DEF Init, CustodySound, NumbersSound, EventsSound, CustodyHasNoGap,
     CustodyAgreesWithLog, NoLog, BlankLog, AheadPoints, Vouching, VerdictPoints,
     Completed

\* One more event, numbered behind the last one.
LEMMA AppendedCustody ==
  ASSUME TypeOK, NumbersSound, pc # "idle", NEW event \in Events,
         AppendCustody(event), power' = power
  PROVE  /\ CustodyHasNoGap' /\ LastCustody' = custodySequence'
         /\ Len(custody') = Len(custody) + 1 /\ Len(custody) \in Nat
         /\ power = "kept" => custodySequence' = Len(custody')
         /\ custody' # <<>> /\ custody'[Len(custody')].event = event
         /\ DOMAIN custody' = 1 .. Len(custody) + 1
         /\ \A k \in DOMAIN custody : custody'[k] = custody[k]
<1> DEFINE new == [sequence |-> custodySequence + 1, event |-> event]
<1>1. /\ custody \in Seq(CustodyRecord) /\ Len(custody) \in Nat
      /\ power = "kept" => custodySequence = Len(custody)
      /\ LastCustody <= custodySequence /\ custodySequence \in Nat
  BY LenProperties DEF TypeOK, NumbersSound
<1>2. new \in CustodyRecord /\ new.sequence = custodySequence + 1
      /\ new.event = event
  BY <1>1 DEF CustodyRecord
<1>3. custody' = Append(custody, new) /\ custodySequence' = custodySequence + 1
  BY DEF AppendCustody
<1> HIDE DEF new
<1>4. /\ custody' \in Seq(CustodyRecord)
      /\ Len(custody') = Len(custody) + 1
      /\ \A i \in 1 .. Len(custody) : custody'[i] = custody[i]
      /\ custody'[Len(custody) + 1] = new
  BY <1>1, <1>2, <1>3, AppendProperties
<1>5. /\ DOMAIN custody' = 1 .. Len(custody) + 1
      /\ DOMAIN custody = 1 .. Len(custody)
  BY <1>1, <1>4, LenProperties
<1>6. ASSUME NEW k \in 1 .. Len(custody) + 1
      PROVE  /\ power = "kept" => custody'[k].sequence = k
             /\ k > 1 => custody'[k].sequence > custody'[k - 1].sequence
  <2>1. CASE k = Len(custody) + 1
    <3>1. custody'[k] = new
      BY <1>4, <2>1
    <3>2. ASSUME k > 1
          PROVE  custody'[k].sequence > custody'[k - 1].sequence
      <4>1. Len(custody) \in 1 .. Len(custody) /\ custody # <<>>
        BY <1>1, <2>1, <3>2, EmptySeq
      <4>2. custody'[k - 1] = custody[Len(custody)]
        <5>1. k - 1 = Len(custody)
          BY <1>1, <2>1
        <5>2. custody'[Len(custody)] = custody[Len(custody)]
          BY <1>4, <4>1
        <5> QED
          BY <5>1, <5>2, Zenon
      <4>3. custody[Len(custody)].sequence \in Nat
        <5>1. custody[Len(custody)] \in CustodyRecord
          BY <1>1, <4>1, ElementOfSeq
        <5> QED
          BY <5>1 DEF CustodyRecord
      <4>4. LastCustody = custody[Len(custody)].sequence
        BY <4>1 DEF LastCustody
      <4>5. custody[Len(custody)].sequence <= custodySequence
        BY <1>1, <4>4
      <4> QED
        BY <1>1, <1>2, <3>1, <4>2, <4>3, <4>5
    <3> QED
      BY <1>1, <1>2, <2>1, <3>1, <3>2
  <2>2. CASE k # Len(custody) + 1
    <3>1. k \in 1 .. Len(custody) /\ (k > 1 => k - 1 \in 1 .. Len(custody))
      BY <1>1, <2>2
    <3>2. custody'[k] = custody[k] /\ (k > 1 => custody'[k - 1] = custody[k - 1])
      BY <1>4, <3>1
    <3> QED
      BY <3>1, <3>2, <1>5 DEF NumbersSound, CustodyHasNoGap
  <2> QED
    BY <2>1, <2>2
<1>7. CustodyHasNoGap'
  BY <1>5, <1>6 DEF CustodyHasNoGap
<1>8. custody' # <<>>
  BY <1>1, <1>4, EmptySeq
<1>9. LastCustody' = custodySequence'
  BY <1>1, <1>2, <1>3, <1>4, <1>8 DEF LastCustody
<1> QED
  BY <1>1, <1>2, <1>3, <1>4, <1>5, <1>7, <1>8, <1>9

LEMMA LastType ==
  ASSUME TypeOK
  PROVE  LastCustody \in Nat
<1>1. custody # <<>> => Len(custody) \in 1 .. Len(custody)
  BY EmptySeq, LenProperties DEF TypeOK
<1>2. custody # <<>> => custody[Len(custody)] \in CustodyRecord
  BY <1>1, ElementOfSeq DEF TypeOK
<1> QED
  BY <1>2 DEF LastCustody, CustodyRecord

LEMMA StartCustody ==
  ASSUME TypeOK, CustodySound, NEW c \in ChunkSizes, NEW p \in Policies,
         NEW allowResume \in BOOLEAN, Start(c, p, allowResume)
  PROVE  CustodySound'
<1>1. /\ custody \in Seq(CustodyRecord) /\ Len(custody) \in Nat
      /\ DOMAIN custody = 1 .. Len(custody) /\ log.checkpoints \in Nat
      /\ LastCustody \in Nat
  BY LenProperties, LastType DEF TypeOK, LogRecord
<1>2. power = "kept" => LastCustody = Len(custody)
  <2>1. CASE custody = <<>>
    BY <2>1, EmptySeq DEF LastCustody
  <2>2. CASE custody # <<>>
    <3>1. Len(custody) \in DOMAIN custody
      BY <1>1, <2>2, EmptySeq
    <3> QED
      BY <2>2, <3>1 DEF CustodySound, NumbersSound, CustodyHasNoGap, LastCustody
  <2> QED
    BY <2>1, <2>2
<1>3. /\ networkCheckpointCount' \in {0, log.checkpoints}
      /\ custodySequence' = LastCustody \/
           (custodySequence' = networkCheckpointCount'
              /\ networkCheckpointCount' > LastCustody)
  BY DEF Start, InitialSequence
<1>4. custody' = custody /\ pc' = "initialLog" /\ log' = Torn
      /\ LastCustody' = LastCustody /\ (power' = "kept" => power = "kept")
  BY DEF Start, LastCustody
<1>5. LastCustody' <= custodySequence'
  BY <1>1, <1>3, <1>4
<1>6. ASSUME power = "kept"
      PROVE  networkCheckpointCount' <= Len(custody)
             /\ custodySequence' = Len(custody)
  <2>1. log.checkpoints <= Len(custody)
    BY <1>6 DEF CustodySound, NumbersSound
  <2> QED
    BY <1>1, <1>2, <1>3, <1>6, <2>1
<1>7. log'.checkpoints = 0 /\ log'.status = "torn"
  BY <1>4 DEF Torn, BlankLog
<1>8. CustodyHasNoGap'
  BY <1>4 DEF CustodySound, NumbersSound, CustodyHasNoGap
<1>9. NumbersSound'
  BY <1>1, <1>4, <1>5, <1>6, <1>7, <1>8 DEF NumbersSound, AheadPoints
<1>10. EventsSound'
  BY <1>4, <1>7 DEF EventsSound, Vouching, VerdictPoints, CustodyAgreesWithLog,
     Completed
<1> QED
  BY <1>9, <1>10 DEF CustodySound

\* A step that appends an event and changes no count.
LEMMA EventNumbers ==
  ASSUME TypeOK, NumbersSound, pc # "idle",
         NEW event \in Events, AppendCustody(event),
         UNCHANGED <<log, networkCheckpointCount, power>>
  PROVE  NumbersSound'
<1>1. /\ CustodyHasNoGap' /\ LastCustody' = custodySequence'
      /\ Len(custody') = Len(custody) + 1 /\ Len(custody) \in Nat
      /\ power = "kept" => custodySequence' = Len(custody')
  BY AppendedCustody
<1>2. /\ log'.checkpoints = log.checkpoints /\ log.checkpoints \in Nat
      /\ networkCheckpointCount' = networkCheckpointCount
      /\ networkCheckpointCount \in Nat /\ custodySequence' \in Nat
  BY DEF TypeOK, LogRecord, AppendCustody
<1>3. ASSUME power = "kept"
      PROVE  /\ log'.checkpoints <= Len(custody')
             /\ networkCheckpointCount' < Len(custody')
             /\ networkCheckpointCount' <= Len(custody')
  <2>1. log.checkpoints <= Len(custody) /\ networkCheckpointCount <= Len(custody)
    BY <1>3 DEF NumbersSound
  <2> QED
    BY <1>1, <1>2, <2>1
<1>4. LastCustody' <= custodySequence'
  BY <1>1, <1>2
<1> QED
  BY <1>1, <1>3, <1>4 DEF NumbersSound

\* An event of a call whose log does not say "completed".
LEMMA EventEvents ==
  ASSUME TypeOK, NumbersSound, pc # "idle", ~Completed,
         NEW event \in Events, AppendCustody(event), UNCHANGED <<log, power>>,
         Vouching' => event = "completed"
  PROVE  EventsSound'
<1>1. LastIsCompleted' \/ event # "completed"
  BY AppendedCustody DEF LastIsCompleted
<1>2. ~Completed'
  BY DEF Completed
<1> QED
  BY <1>1, <1>2 DEF EventsSound, CustodyAgreesWithLog

\* The verdict of a call, which may follow the "completed" event of the same call.
LEMMA VerdictEvents ==
  ASSUME TypeOK, Control, LogSound, CustodySound, RecordVerdict, IsNetworkSource
  PROVE  EventsSound'
<1>1. /\ pc = "verdictCustody" /\ pc' = "verdictManifest"
      /\ outcome \in Events /\ AppendCustody(outcome)
      /\ UNCHANGED <<log, power, thrown, outcome>>
  BY DEF RecordVerdict, runVars, TypeOK, Events
<1>2. CASE ~Completed
  BY <1>1, <1>2, EventEvents DEF CustodySound, Vouching
<1>3. CASE Completed
  <2>1. /\ LastIsCompleted /\ thrown /\ thrown' /\ outcome' # "completed"
    BY <1>1, <1>3 DEF CustodySound, EventsSound, LogSound, Control, VerdictPoints
  <2>2. /\ Len(custody') = Len(custody) + 1 /\ Len(custody) \in Nat
        /\ DOMAIN custody' = 1 .. Len(custody) + 1
        /\ \A k \in DOMAIN custody : custody'[k] = custody[k]
    BY <1>1, AppendedCustody DEF CustodySound
  <2>3. Len(custody) \in DOMAIN custody
    BY <2>1, <2>2, EmptySeq, LenProperties DEF TypeOK, LastIsCompleted
  <2>4. /\ Len(custody) \in DOMAIN custody'
        /\ custody'[Len(custody)].event = "completed"
        /\ Len(custody) = Len(custody') - 1
    BY <2>1, <2>2, <2>3 DEF LastIsCompleted
  <2>5. CustodyAgreesWithLog'
    BY <2>1, <2>4 DEF CustodyAgreesWithLog
  <2> QED
    BY <1>1, <2>1, <2>5 DEF EventsSound, Vouching
<1> QED
  BY <1>2, <1>3

\* A step that appends no event, counts no checkpoint and begins no call; the log
\* it may write records the count of the call.
LEMMA SameNumbers ==
  ASSUME TypeOK, NumbersSound, UNCHANGED <<custody, power>>,
         log'.checkpoints \in {0, log.checkpoints, networkCheckpointCount},
         networkCheckpointCount' \in {0, networkCheckpointCount},
         pc' # "idle" => pc # "idle" /\ custodySequence' = custodySequence,
         IsNetworkSource /\ pc' \in AheadPoints =>
           pc \in AheadPoints /\ networkCheckpointCount' = networkCheckpointCount
  PROVE  NumbersSound'
<1>1. LastCustody' = LastCustody /\ Len(custody) \in Nat
  BY LenProperties DEF LastCustody, TypeOK
<1>2. CustodyHasNoGap'
  BY DEF NumbersSound, CustodyHasNoGap
<1> QED
  BY <1>1, <1>2 DEF NumbersSound

\* What is left of the custody log after a power loss is still in order.
LEMMA OutageNumbers ==
  ASSUME TypeOK, NumbersSound, Outage
  PROVE  NumbersSound'
<1>1. power' = "lost" /\ pc' = "idle"
  BY DEF Outage, PowerLoss, LoseUnflushed, Forget, runVars
<1>2. custody' = custody \/ custody' = SubSeq(custody, 1, Len(custody) - 1)
  BY LoseType DEF Outage, PowerLoss
<1>3. /\ custody \in Seq(CustodyRecord) /\ Len(custody) \in Nat
      /\ DOMAIN custody = 1 .. Len(custody)
      /\ \A k \in 1 .. Len(custody) : custody[k] \in CustodyRecord
  BY LenProperties, ElementOfSeq DEF TypeOK
<1>4. CASE custody' = custody
  BY <1>1, <1>4 DEF NumbersSound, CustodyHasNoGap
<1>5. CASE custody' = SubSeq(custody, 1, Len(custody) - 1)
  <2> DEFINE n == Len(custody) - 1
  <2>1. n \in Int /\ n < Len(custody) /\ \A k \in 1 .. n : custody[k] \in CustodyRecord
    BY <1>3
  <2>2. /\ SubSeq(custody, 1, n) \in Seq(CustodyRecord)
        /\ Len(SubSeq(custody, 1, n)) = IF 1 <= n THEN n - 1 + 1 ELSE 0
        /\ \A k \in 1 .. n - 1 + 1 : SubSeq(custody, 1, n)[k] = custody[1 + k - 1]
    BY <2>1, SubSeqProperties
  <2>3. custody' = SubSeq(custody, 1, n)
    BY <1>5
  <2> HIDE DEF n
  <2>4. /\ DOMAIN custody' = 1 .. Len(custody')
        /\ \A k \in DOMAIN custody' :
             k \in 1 .. n /\ k \in DOMAIN custody /\ custody'[k] = custody[k]
    BY <1>3, <2>1, <2>2, <2>3, LenProperties
  <2>5. \A k \in DOMAIN custody' : k > 1 => k - 1 \in DOMAIN custody'
    BY <2>1, <2>2, <2>3, <2>4
  <2>6. \A k \in DOMAIN custody' :
          k > 1 => custody'[k].sequence > custody'[k - 1].sequence
    BY <2>4, <2>5 DEF NumbersSound, CustodyHasNoGap
  <2> QED
    BY <1>1, <2>6 DEF NumbersSound, CustodyHasNoGap
<1> QED
  BY <1>2, <1>4, <1>5

LEMMA NumbersStep ==
  ASSUME IInv, CustodySound, Next
  PROVE  NumbersSound'
<1> USE DEF sourceVars, imageVars, requestVars, copyVars, countVars, runVars
<1>1. TypeOK /\ NumbersSound
  BY DEF IInv, CustodySound
<1>2. \A status :
        StateRecord(status).checkpoints = networkCheckpointCount
  BY DEF StateRecord
<1>3. Torn.checkpoints = 0
  BY DEF Torn, BlankLog
<1>4. \A left \in LeftInLog :
        left.checkpoints \in {log.checkpoints, networkCheckpointCount}
  BY <1>2 DEF LeftInLog
<1>5. CASE Begin
  BY <1>1, <1>5, StartCustody DEF Begin, CustodySound
<1>6. CASE RecordStart
  BY <1>1, <1>6, EventNumbers DEF RecordStart, Events
<1>7. CASE RecordCheckpoint
  BY <1>1, <1>7, EventNumbers DEF RecordCheckpoint, Events
<1>8. CASE RecordVerdict
  <2>1. outcome \in Events
    BY <1>1 DEF TypeOK, Events
  <2> QED
    BY <1>1, <1>8, <2>1, EventNumbers DEF RecordVerdict
<1>9. CASE BeginCheckpoint
  <2>1. /\ UNCHANGED <<custody, custodySequence, power>>
        /\ pc = "checkpoint" /\ pc' = "checkpointLog" /\ log'.checkpoints = 0
        /\ networkCheckpointCount' =
             networkCheckpointCount + (IF IsNetworkSource THEN 1 ELSE 0)
    BY <1>3, <1>9 DEF BeginCheckpoint
  <2>2. Len(custody) \in Nat /\ networkCheckpointCount \in Nat
    BY <1>1, LenProperties DEF TypeOK
  <2>3. ASSUME power = "kept"
        PROVE  networkCheckpointCount' <= Len(custody)
    BY <1>1, <2>1, <2>2, <2>3 DEF NumbersSound, AheadPoints
  <2>4. CustodyHasNoGap' /\ LastCustody' = LastCustody
    BY <1>1, <2>1 DEF NumbersSound, CustodyHasNoGap, LastCustody
  <2> QED
    BY <1>1, <2>1, <2>2, <2>3, <2>4 DEF NumbersSound, AheadPoints
<1>10. CASE AbortStart \/ AbandonVerdict \/ WriteVerdictLog \/ Crash
  <2>1. /\ pc' = "idle" /\ networkCheckpointCount' = 0
        /\ UNCHANGED <<custody, power>>
        /\ log'.checkpoints \in {log.checkpoints, networkCheckpointCount}
    BY <1>2, <1>4, <1>10
       DEF AbortStart, AbandonVerdict, WriteVerdictLog, Crash, Forget
  <2> QED
    BY <1>1, <2>1, SameNumbers DEF AheadPoints
<1>11. CASE WriteInitialLog \/ WriteCheckpoint
  BY <1>1, <1>2, <1>11, SameNumbers DEF WriteInitialLog, WriteCheckpoint, AheadPoints
<1>12. CASE VerifyChunk \/ PrefixVerified \/ OpenImage
  BY <1>1, <1>12, SameNumbers DEF VerifyChunk, PrefixVerified, OpenImage, AheadPoints
<1>13. CASE (\E n \in 1 .. SourceCells : CopyChunk(n)) \/ ZeroFill \/ FinishCopy
  BY <1>1, <1>13, SameNumbers DEF CopyChunk, ZeroFill, FinishCopy, AheadPoints
<1>14. CASE DigestsMatch
  BY <1>1, <1>14, SameNumbers DEF DigestsMatch, VerdictStart, AheadPoints
<1>15. CASE ThrowCanceled \/ ThrowFailed
  <2>1. /\ pc # "idle" /\ pc' \in {"verdictCustody", "verdictManifest"}
        /\ log'.checkpoints \in {log.checkpoints, networkCheckpointCount}
        /\ UNCHANGED <<custody, power, networkCheckpointCount, custodySequence>>
    BY <1>4, <1>15 DEF ThrowCanceled, ThrowFailed, CatchAs, VerdictStart, CanThrow,
       TryPoints, VerdictPoints
  <2> QED
    BY <1>1, <2>1, SameNumbers DEF AheadPoints
<1>16. CASE OpenManifest \/ WriteManifest \/ BeginVerdictLog
  BY <1>1, <1>3, <1>16, SameNumbers
     DEF OpenManifest, WriteManifest, BeginVerdictLog, AheadPoints
<1>17. CASE Surroundings
  BY <1>1, <1>10, <1>17, SameNumbers
     DEF Surroundings, RewriteSource, ResizeSource, RequestCancel
<1>18. CASE Outage
  BY <1>1, <1>18, OutageNumbers
<1> QED
  BY <1>5, <1>6, <1>7, <1>8, <1>9, <1>10, <1>11, <1>12, <1>13, <1>14, <1>15,
     <1>16, <1>17, <1>18 DEF Next, Work

\* A step that appends no event and writes no "completed" log.
LEMMA SameEvents ==
  ASSUME EventsSound, UNCHANGED <<custody, thrown>>,
         log' = log \/ log'.status # "completed",
         power' # "lost" => power # "lost",
         IsNetworkSource /\ Completed' /\ pc' = "verdictCustody" =>
           pc = "verdictCustody",
         IsNetworkSource /\ Vouching' /\ pc' # "verdictCustody" =>
           Vouching /\ pc # "verdictCustody"
  PROVE  EventsSound'
<1>1. LastIsCompleted' = LastIsCompleted
  BY DEF LastIsCompleted
<1>2. Completed' => Completed
  BY DEF Completed
<1> QED
  BY <1>1, <1>2 DEF EventsSound, CustodyAgreesWithLog

LEMMA LastAgrees ==
  ASSUME TypeOK, LastIsCompleted
  PROVE  \E k \in DOMAIN custody :
           custody[k].event = "completed" /\ k = Len(custody)
<1>1. Len(custody) \in DOMAIN custody
  BY EmptySeq, LenProperties DEF TypeOK, LastIsCompleted
<1> QED
  BY <1>1 DEF LastIsCompleted

LEMMA EventsStep ==
  ASSUME IInv, CustodySound, Next
  PROVE  EventsSound'
<1> USE DEF sourceVars, imageVars, requestVars, copyVars, countVars, runVars
<1>1. TypeOK /\ Control /\ LogSound /\ EventsSound /\ NumbersSound
  BY DEF IInv, CustodySound
<1>2. /\ Torn.status # "completed"
      /\ \A status : StateRecord(status).status = status
  BY DEF StateRecord, Torn, BlankLog
<1>3. ASSUME pc # "idle", pc \notin VerdictPoints \/ ~thrown
      PROVE  ~Completed
  BY <1>1, <1>3, Unsaid DEF Completed
<1>4. CASE Begin
  BY <1>1, <1>4, StartCustody DEF Begin, CustodySound
<1>5. CASE RecordStart \/ RecordCheckpoint
  <2>1. /\ pc # "idle" /\ pc \notin VerdictPoints /\ ~Vouching'
        /\ \E event \in Events : AppendCustody(event)
        /\ UNCHANGED <<log, power>>
    BY <1>5 DEF RecordStart, RecordCheckpoint, VerdictPoints, Vouching, Events
  <2>2. ~Completed
    BY <1>3, <2>1
  <2> QED
    BY <1>1, <2>1, <2>2, EventEvents
<1>6. CASE RecordVerdict
  <2>1. CASE IsNetworkSource
    BY <1>1, <1>6, <2>1, VerdictEvents DEF CustodySound
  <2>2. CASE ~IsNetworkSource
    BY <2>2 DEF EventsSound, CustodyAgreesWithLog
  <2> QED
    BY <2>1, <2>2
<1>7. CASE WriteInitialLog \/ WriteCheckpoint \/ BeginCheckpoint \/ BeginVerdictLog
  BY <1>1, <1>2, <1>7, SameEvents DEF WriteInitialLog, WriteCheckpoint,
     BeginCheckpoint, BeginVerdictLog, Completed, Vouching, VerdictPoints
<1>8. CASE VerifyChunk \/ PrefixVerified \/ OpenImage
  BY <1>1, <1>8, SameEvents
     DEF VerifyChunk, PrefixVerified, OpenImage, Vouching, VerdictPoints
<1>9. CASE (\E n \in 1 .. SourceCells : CopyChunk(n)) \/ ZeroFill \/ FinishCopy
  BY <1>1, <1>9, SameEvents DEF CopyChunk, ZeroFill, FinishCopy, Vouching, VerdictPoints
<1>10. CASE DigestsMatch
  <2>1. ~Completed
    BY <1>3, <1>10 DEF DigestsMatch, VerdictPoints
  <2>2. /\ UNCHANGED <<custody, thrown, log, power>>
        /\ IsNetworkSource => pc' = "verdictCustody"
    BY <1>10 DEF DigestsMatch, VerdictStart
  <2>3. ~Completed'
    BY <2>1, <2>2 DEF Completed
  <2> QED
    BY <1>1, <2>2, <2>3, SameEvents
<1>11. CASE ThrowCanceled \/ ThrowFailed
  <2>1. /\ InTry /\ CanThrow /\ log' \in LeftInLog /\ ~Vouching'
        /\ UNCHANGED <<custody, power>>
        /\ pc' = "verdictCustody" \/ ~IsNetworkSource
    BY <1>11 DEF ThrowCanceled, ThrowFailed, CatchAs, VerdictStart, Vouching
  <2>2. pc # "idle" /\ (pc \notin VerdictPoints \/ Vouching)
    BY <2>1 DEF InTry, TryPoints, VerdictPoints, Vouching
  <2>3. ~Completed
    BY <1>1, <1>3, <2>2 DEF Control, Vouching
  <2>4. CASE ~Completed'
    BY <2>1, <2>4 DEF EventsSound, CustodyAgreesWithLog
  <2>5. CASE Completed' /\ IsNetworkSource
    <3>1. pc = "verdictLog"
      BY <1>2, <2>1, <2>3, <2>5 DEF LeftInLog, Completed
    <3>2. LastIsCompleted
      BY <1>1, <2>2, <2>5, <3>1 DEF EventsSound, VerdictPoints
    <3>3. LastIsCompleted'
      BY <2>1, <3>2 DEF LastIsCompleted
    <3>4. CustodyAgreesWithLog'
      BY <1>1, <2>1, <3>2, LastAgrees DEF CustodyAgreesWithLog
    <3> QED
      BY <2>1, <3>3, <3>4 DEF EventsSound
  <2>6. CASE ~IsNetworkSource
    BY <2>6 DEF EventsSound, CustodyAgreesWithLog
  <2> QED
    BY <2>4, <2>5, <2>6
<1>12. CASE OpenManifest \/ WriteManifest
  BY <1>1, <1>12, SameEvents DEF OpenManifest, WriteManifest, Vouching, VerdictPoints
<1>13. CASE WriteVerdictLog
  <2>1. /\ pc = "verdictLog" /\ pc' = "idle" /\ log' = StateRecord(outcome)
        /\ UNCHANGED <<custody, power, thrown>>
    BY <1>13 DEF WriteVerdictLog, Forget
  <2>2. CASE outcome # "completed"
    BY <1>1, <1>2, <2>1, <2>2, SameEvents DEF Vouching, VerdictPoints
  <2>3. CASE outcome = "completed"
    <3>1. IsNetworkSource => LastIsCompleted
      BY <1>1, <2>1, <2>3 DEF EventsSound, Vouching, VerdictPoints
    <3>2. CustodyAgreesWithLog'
      BY <1>1, <2>1, <3>1, LastAgrees DEF CustodyAgreesWithLog
    <3> QED
      BY <2>1, <3>2 DEF EventsSound, Vouching, VerdictPoints
  <2> QED
    BY <2>2, <2>3
<1>14. CASE AbortStart \/ AbandonVerdict
  <2>1. /\ pc # "idle" /\ pc' = "idle" /\ log' \in LeftInLog
        /\ UNCHANGED <<custody, power, thrown>>
        /\ pc = "verdictLog" => outcome # "completed"
    BY <1>14 DEF AbortStart, AbandonVerdict, CanThrow, InTry, TryPoints,
       VerdictPoints, Forget
  <2>2. log' = log \/ log'.status # "completed"
    BY <1>2, <2>1 DEF LeftInLog
  <2> QED
    BY <1>1, <2>1, <2>2, SameEvents DEF Vouching, VerdictPoints
<1>15. CASE Crash \/ Outage
  <2>1. /\ pc' = "idle"
        /\ log' = log \/ log'.status # "completed"
        /\ \/ UNCHANGED <<custody, thrown, power>>
           \/ power' = "lost"
    BY <1>2, <1>15 DEF Crash, Outage, PowerLoss, LoseUnflushed, Forget
  <2>2. CASE power' = "lost"
    BY <2>1, <2>2 DEF EventsSound, CustodyAgreesWithLog, Vouching, VerdictPoints
  <2>3. CASE UNCHANGED <<custody, thrown, power>>
    BY <1>1, <2>1, <2>3, SameEvents DEF Vouching, VerdictPoints
  <2> QED
    BY <2>1, <2>2, <2>3
<1>16. CASE Surroundings
  BY <1>1, <1>15, <1>16, SameEvents DEF Surroundings, RewriteSource, ResizeSource,
     RequestCancel, Vouching
<1> QED
  BY <1>4, <1>5, <1>6, <1>7, <1>8, <1>9, <1>10, <1>11, <1>12, <1>13, <1>14,
     <1>15, <1>16 DEF Next, Work

LEMMA CustodyInvariance == Spec => []CustodySound
<1>1. Init => CustodySound
  BY InitCustody
<1>2. IInv /\ CustodySound /\ [Next]_vars => CustodySound'
  <2> SUFFICES ASSUME IInv, CustodySound, [Next]_vars PROVE CustodySound'
    OBVIOUS
  <2>1. CASE Next
    BY <2>1, NumbersStep, EventsStep DEF CustodySound
  <2>2. CASE UNCHANGED vars
    BY <2>2 DEF vars, countVars, runVars, CustodySound, NumbersSound, EventsSound,
       CustodyHasNoGap, LastCustody, LastIsCompleted, Vouching,
       CustodyAgreesWithLog, Completed
  <2> QED
    BY <2>1, <2>2
<1> QED
  BY <1>1, <1>2, Invariance, PTL DEF Spec

\* The numbers of the custody log never repeat, over all calls, crashes and power
\* losses, and have no gap as long as the power never failed.
THEOREM CustodyCorrect == Spec => []CustodyHasNoGap
<1>1. CustodySound => CustodyHasNoGap
  BY DEF CustodySound, NumbersSound
<1> QED
  BY <1>1, CustodyInvariance, PTL

\* A completed log of a network acquisition goes with a "completed" custody event,
\* the last one, or the last but one when the call threw behind that log: until
\* the power fails.
THEOREM CustodyAgrees == Spec => []CustodyAgreesWithLog
<1>1. CustodySound => CustodyAgreesWithLog
  BY DEF CustodySound, EventsSound
<1> QED
  BY <1>1, CustodyInvariance, PTL

-----------------------------------------------------------------------------
(* The threshold for read errors *)

\* The errors of the running call, and the cells they have cost.
BudgetSound ==
  /\ MaxReadErrorChunks > 0 => readErrorChunks <= MaxReadErrorChunks
  /\ Cardinality(unreadable) <= readErrorChunks * chunk
  /\ ErrorBudget

LEMMA GapsAreFinite ==
  ASSUME TypeOK
  PROVE  IsFiniteSet(unreadable) /\ Cardinality(unreadable) \in Nat
<1>1. IsFiniteSet(1 .. SourceCells)
  BY FS_Interval, SizesAssumption
<1>2. unreadable \subseteq 1 .. SourceCells
  BY DEF TypeOK
<1> QED BY <1>1, <1>2, FS_Subset, FS_CardinalityType

\* A chunk that is filled with zeros costs at most its size.
LEMMA ZeroFillBudget ==
  ASSUME TypeOK, BudgetSound, ZeroFill
  PROVE  /\ MaxReadErrorChunks > 0 => readErrorChunks' <= MaxReadErrorChunks
         /\ Cardinality(unreadable') <= readErrorChunks' * chunk'
<1> DEFINE filled == bytesWritten + 1 .. bytesWritten + Requested
<1>1. /\ readErrorChunks \in Nat /\ MaxReadErrorChunks \in Nat
      /\ chunk \in Nat /\ bytesWritten \in Nat /\ Requested \in Nat
      /\ Requested <= chunk /\ chunk' = chunk
      /\ readErrorChunks' = readErrorChunks + 1
  BY RequestedType, SizesAssumption
     DEF TypeOK, ZeroFill, requestVars, Requested, Least
<1>2. MaxReadErrorChunks > 0 => readErrorChunks' <= MaxReadErrorChunks
  BY <1>1 DEF ZeroFill, WithinErrorBudget
<1>3. IsFiniteSet(filled) /\ Cardinality(filled) = Requested
  <2>1. /\ bytesWritten + 1 \in Int /\ bytesWritten + Requested \in Int
        /\ (bytesWritten + Requested) - (bytesWritten + 1) + 1 = Requested
    BY <1>1
  <2>2. CASE Requested = 0
    <3>1. filled = {}
      BY <1>1, <2>2
    <3> QED BY <3>1, <2>2, FS_EmptySet
  <2>3. CASE Requested > 0
    <3>1. bytesWritten + 1 <= bytesWritten + Requested
      BY <1>1, <2>3
    <3> QED BY <2>1, <3>1, FS_Interval
  <2> QED BY <1>1, <2>2, <2>3
<1>4. unreadable' = unreadable \cup filled
  BY DEF ZeroFill
<1> HIDE DEF filled
<1>5. Cardinality(unreadable') <= Cardinality(unreadable) + Requested
  <2>1. IsFiniteSet(unreadable) /\ Cardinality(unreadable) \in Nat
    BY GapsAreFinite
  <2>2. IsFiniteSet(unreadable \cap filled)
    BY <2>1, FS_Intersection
  <2>3. Cardinality(unreadable \cap filled) \in Nat
    BY <2>2, FS_CardinalityType
  <2>4. Cardinality(unreadable \cup filled) =
          Cardinality(unreadable) + Cardinality(filled) - Cardinality(unreadable \cap filled)
    BY <2>1, <1>3, FS_Union
  <2> QED BY <1>1, <1>3, <1>4, <2>1, <2>3, <2>4
<1>6. Cardinality(unreadable') <= readErrorChunks' * chunk'
  <2>1. (readErrorChunks + 1) * chunk = readErrorChunks * chunk + chunk
    BY <1>1
  <2>2. readErrorChunks * chunk \in Nat
    BY <1>1
  <2>3. Cardinality(unreadable) <= readErrorChunks * chunk
    BY DEF BudgetSound
  <2>4. Cardinality(unreadable) \in Nat /\ Cardinality(unreadable') \in Nat
    BY GapsAreFinite, <1>3, <1>4, FS_Union, FS_CardinalityType
  <2>5. DEFINE product == readErrorChunks * chunk
  <2>6. Cardinality(unreadable') <= product + chunk
    <3> HIDE DEF product
    <3>1. product \in Nat /\ Cardinality(unreadable) <= product
      BY <2>2, <2>3 DEF product
    <3> QED BY <1>1, <1>5, <2>4, <3>1
  <2> QED BY <1>1, <2>1, <2>6
<1> QED BY <1>2, <1>6

LEMMA ZeroTimes == \A n \in Nat : 0 * n = 0
OBVIOUS

\* A call that starts, or is gone, has met no error.
LEMMA FreshBudget ==
  ASSUME TypeOK', unreadable' = {}, readErrorChunks' = 0
  PROVE  /\ MaxReadErrorChunks > 0 => readErrorChunks' <= MaxReadErrorChunks
         /\ Cardinality(unreadable') <= readErrorChunks' * chunk'
<1>1. chunk' \in Nat /\ MaxReadErrorChunks \in Nat
  BY SizesAssumption DEF TypeOK
<1>2. 0 * chunk' = 0
  BY <1>1, ZeroTimes
<1>3. Cardinality(unreadable') = 0
  BY FS_EmptySet
<1> QED BY <1>1, <1>2, <1>3

\* The log that is written for a completed image.
LEMMA CompletedBudget ==
  ASSUME IInv, LogSound', BudgetSound, log' = StateRecord("completed")
  PROVE  ErrorBudget'
<1>1. /\ log'.status = "completed" /\ log'.errors = readErrorChunks
      /\ log'.zeroed = Cardinality(unreadable) /\ log'.chunk = chunk
  BY DEF StateRecord, Verdicts
<1>2. power' # "lost" => Cardinality(Gaps') = Cardinality(unreadable)
  BY <1>1 DEF LogSound, Completed, EveryGapIsListed
<1>3. /\ readErrorChunks \in Nat /\ MaxReadErrorChunks \in Nat /\ chunk \in Nat
      /\ Cardinality(unreadable) \in Nat
  BY GapsAreFinite, SizesAssumption DEF IInv, TypeOK
<1>4. ASSUME MaxReadErrorChunks > 0
      PROVE  Cardinality(unreadable) <= MaxReadErrorChunks * chunk
  <2>1. readErrorChunks <= MaxReadErrorChunks
    BY <1>4 DEF BudgetSound
  <2>2. readErrorChunks * chunk <= MaxReadErrorChunks * chunk
    BY <1>3, <2>1
  <2>3. Cardinality(unreadable) <= readErrorChunks * chunk
    BY DEF BudgetSound
  <2>4. readErrorChunks * chunk \in Nat /\ MaxReadErrorChunks * chunk \in Nat
    BY <1>3
  <2> HIDE DEF BudgetSound
  <2> QED BY <1>3, <2>2, <2>3, <2>4
<1> QED BY <1>1, <1>2, <1>4 DEF ErrorBudget, BudgetSound

\* A step that writes no "completed" log, or writes that of the running call.
LEMMA LogBudget ==
  ASSUME IInv, LogSound', BudgetSound,
         \/ log'.status # "completed"
         \/ log' = StateRecord("completed")
         \/ log' = log /\ (power' = "lost" \/ UNCHANGED <<image, power>>)
  PROVE  ErrorBudget'
<1>1. CASE log'.status # "completed"
  BY <1>1 DEF ErrorBudget, Completed
<1>2. CASE log' = StateRecord("completed")
  BY <1>2, CompletedBudget
<1>3. CASE log' = log /\ (power' = "lost" \/ UNCHANGED <<image, power>>)
  BY <1>3 DEF BudgetSound, ErrorBudget, Completed, Gaps
<1> QED BY <1>1, <1>2, <1>3

LEMMA BudgetStep ==
  ASSUME IInv, IInv', BudgetSound, Next
  PROVE  BudgetSound'
<1> USE DEF sourceVars, imageVars, requestVars, copyVars, countVars, runVars
<1>1. /\ TypeOK /\ TypeOK' /\ Control /\ LogSound /\ LogSound'
      /\ pc # "idle" /\ pc \notin VerdictPoints => log.status # "completed"
  BY Unsaid DEF IInv
<1>2. Torn.status # "completed" /\ \A status : StateRecord(status).status = status
  BY DEF Torn, BlankLog, StateRecord
<1>3. CASE Begin
  <2>1. pc = "idle" /\ log' = Torn /\ UNCHANGED <<unreadable, readErrorChunks>>
    BY <1>3 DEF Begin, Start
  <2>2. unreadable' = {} /\ readErrorChunks' = 0
    BY <1>1, <2>1 DEF Control, BeforeTry
  <2>3. ErrorBudget'
    BY <1>1, <1>2, <2>1, LogBudget
  <2> QED BY <1>1, <2>2, <2>3, FreshBudget DEF BudgetSound
<1>4. CASE AbortStart \/ AbandonVerdict \/ WriteVerdictLog
  <2>1. /\ unreadable' = {} /\ readErrorChunks' = 0 /\ UNCHANGED <<image, power>>
        /\ log' \in LeftInLog \cup {StateRecord(outcome)}
    BY <1>4 DEF AbortStart, AbandonVerdict, WriteVerdictLog, Forget
  <2>2. \/ log'.status # "completed"
        \/ log' = StateRecord("completed")
        \/ log' = log
    BY <1>2, <2>1 DEF LeftInLog
  <2>3. ErrorBudget'
    BY <1>1, <2>1, <2>2, LogBudget
  <2> QED BY <1>1, <2>1, <2>3, FreshBudget DEF BudgetSound
<1>5. CASE Crash \/ PowerLoss
  <2>1. /\ unreadable' = {} /\ readErrorChunks' = 0 /\ log' = log
        /\ power' = "lost" \/ UNCHANGED <<image, power>>
    BY <1>5 DEF Crash, PowerLoss, Forget
  <2>2. ErrorBudget'
    BY <1>1, <2>1, LogBudget
  <2> QED BY <1>1, <2>1, <2>2, FreshBudget DEF BudgetSound
<1>6. CASE ZeroFill
  <2>1. log'.status # "completed"
    BY <1>1, <1>6 DEF ZeroFill, VerdictPoints
  <2>2. ErrorBudget'
    BY <1>1, <2>1, LogBudget
  <2> QED BY <1>1, <1>6, <2>2, ZeroFillBudget DEF BudgetSound
<1>7. CASE \/ WriteInitialLog \/ RecordStart \/ VerifyChunk \/ PrefixVerified
           \/ OpenImage \/ (\E n \in 1 .. SourceCells : CopyChunk(n)) \/ FinishCopy
           \/ BeginCheckpoint \/ WriteCheckpoint \/ RecordCheckpoint \/ DigestsMatch
  <2>1. /\ pc # "idle" /\ pc \notin VerdictPoints
        /\ UNCHANGED <<unreadable, readErrorChunks, chunk>>
        /\ log' = log \/ log' = Torn \/ log' = StateRecord("in_progress")
    BY <1>7 DEF WriteInitialLog, RecordStart, VerifyChunk, HashPrefixChunk,
       PrefixVerified, OpenImage, CopyChunk, FinishCopy, BeginCheckpoint,
       WriteCheckpoint, RecordCheckpoint, DigestsMatch, VerdictPoints
  <2>2. log'.status # "completed"
    BY <1>1, <1>2, <2>1
  <2>3. ErrorBudget'
    BY <1>1, <2>2, LogBudget
  <2> QED BY <2>1, <2>3 DEF BudgetSound
<1>8. CASE ThrowCanceled \/ ThrowFailed
  <2>1. /\ UNCHANGED <<unreadable, readErrorChunks, chunk, power>>
        /\ log' \in LeftInLog /\ image' = Flushed
        /\ InTry
    BY <1>8 DEF ThrowCanceled, ThrowFailed, CatchAs
  <2>2. log.status # "completed"
    <3>1. pc # "idle" /\ (pc \notin VerdictPoints \/ outcome = "completed")
      BY <2>1 DEF InTry, TryPoints, VerdictPoints
    <3> QED BY <1>1, <3>1, Unsaid DEF Control
  <2>3. log'.status # "completed" \/ log' = StateRecord("completed")
    BY <1>2, <2>1, <2>2 DEF LeftInLog
  <2>4. ErrorBudget'
    BY <1>1, <2>3, LogBudget
  <2> QED BY <2>1, <2>4 DEF BudgetSound
<1>9. CASE \/ RecordVerdict \/ OpenManifest \/ WriteManifest \/ BeginVerdictLog
           \/ RequestCancel
  <2>1. /\ UNCHANGED <<unreadable, readErrorChunks, chunk, image, power>>
        /\ log' = log \/ log' = Torn
    BY <1>9 DEF RecordVerdict, OpenManifest, WriteManifest, BeginVerdictLog,
       RequestCancel
  <2>2. ErrorBudget'
    BY <1>1, <1>2, <2>1, LogBudget
  <2> QED BY <2>1, <2>2 DEF BudgetSound
<1>10. CASE \/ \E i \in 1 .. SourceCells : RewriteSource(i)
            \/ \E n \in 0 .. SourceCells : ResizeSource(n)
            \/ LoseUnflushed
  <2>1. /\ UNCHANGED <<unreadable, readErrorChunks, chunk>>
        /\ \/ log' = Torn
           \/ log' = log /\ (power' = "lost" \/ UNCHANGED <<image, power>>)
    BY <1>10 DEF RewriteSource, ResizeSource, LoseUnflushed
  <2>2. ErrorBudget'
    BY <1>1, <1>2, <2>1, LogBudget
  <2> QED BY <2>1, <2>2 DEF BudgetSound
<1> QED
  BY <1>3, <1>4, <1>5, <1>6, <1>7, <1>8, <1>9, <1>10
     DEF Next, Work, Surroundings, Outage

\* The threshold for read errors holds over all the calls that made a completed
\* image, and with it, until the power fails, the number of cells that may be
\* missing.
THEOREM BudgetCorrect == Spec => []ErrorBudget
<1>1. Init => BudgetSound
  <2> SUFFICES ASSUME Init PROVE BudgetSound
    OBVIOUS
  <2>1. unreadable = {} /\ readErrorChunks = 0 /\ chunk = 1 /\ ~Completed
    BY DEF Init, Completed, NoLog, BlankLog
  <2>2. Cardinality(unreadable) = 0
    BY <2>1, FS_EmptySet
  <2> QED BY <2>1, <2>2, SizesAssumption DEF BudgetSound, ErrorBudget
<1>2. IInv /\ IInv' /\ BudgetSound /\ [Next]_vars => BudgetSound'
  <2> SUFFICES ASSUME IInv, IInv', BudgetSound, [Next]_vars PROVE BudgetSound'
    OBVIOUS
  <2>1. CASE Next
    BY <2>1, BudgetStep DEF IInv
  <2>2. CASE UNCHANGED vars
    BY <2>2 DEF vars, imageVars, requestVars, copyVars, runVars, BudgetSound,
       ErrorBudget, Completed, Gaps
  <2> QED BY <2>1, <2>2
<1>3. BudgetSound => ErrorBudget
  BY DEF BudgetSound
<1> QED BY <1>1, <1>2, <1>3, Invariance, PTL DEF Spec

-----------------------------------------------------------------------------
(* The acquisition implements VerifiedImage *)

\* What the abstract specification sees of the state log and the manifest.
ListedGaps == IF Returned /\ log.listed THEN manifest ELSE {}

\* While a call is running nothing is vouched for: its log does not say
\* "completed", or it threw behind that log.
LEMMA NotReturned ==
  ASSUME LogSound, pc # "idle"
  PROVE  ~Returned
BY DEF LogSound, Returned

\* Every step of a running call that is not its last one, a change of the source
\* and every step that ends the call without a result is a Change, a stutter or a
\* GiveUp.
LEMMA QuietStep ==
  ASSUME TypeOK', pc # "idle", ~Returned, ~Returned', power' = power
  PROVE  Promise!Next
<1>1. image' \in Promise!Images
  BY DEF TypeOK, Cell, Zero, Promise!Images, Promise!Gap
<1>2. Returned = FALSE /\ Returned' = FALSE
  BY DEF Returned
<1>3. CASE pc' = "idle"
  BY <1>1, <1>2, <1>3 DEF Promise!Next, Promise!GiveUp
<1>4. CASE pc' # "idle"
  BY <1>1, <1>2, <1>4 DEF Promise!Next, Promise!Change
<1> QED
  BY <1>3, <1>4

LEMMA StartPromise ==
  ASSUME Begin
  PROVE  Promise!Next
<1>1. /\ pc = "idle" /\ pc' = "initialLog" /\ image' = image /\ log' = Torn
      /\ power' # "lost"
  BY DEF Begin, Start, imageVars
<1>2. ~Returned'
  BY <1>1 DEF Returned, Completed, Torn, BlankLog
<1> QED
  BY <1>1, <1>2 DEF Promise!Next, Promise!Withdraw

LEMMA OutagePromise ==
  ASSUME TypeOK', Outage
  PROVE  Promise!Next
<1>1. image' \in Promise!Images
  BY DEF TypeOK, Cell, Zero, Promise!Images, Promise!Gap
<1>2. power' = "lost" /\ pc' = "idle"
  BY DEF Outage, PowerLoss, LoseUnflushed, Forget, runVars
<1>3. Returned' = FALSE
  BY <1>2 DEF Returned
<1> QED
  BY <1>1, <1>2, <1>3 DEF Promise!Next, Promise!Lose

LEMMA VerdictPromise ==
  ASSUME IInv, IInv', WriteVerdictLog, outcome = "completed"
  PROVE  Promise!Next
<1>1. /\ pc = "verdictLog" /\ pc' = "idle" /\ image' = image
      /\ log' = StateRecord("completed") /\ UNCHANGED <<power, thrown>>
  BY DEF WriteVerdictLog, Forget, imageVars, runVars
<1>2. ~thrown /\ power # "lost"
  BY <1>1 DEF IInv, Control, VerdictPoints
<1>3. Completed' /\ Returned' = TRUE
  BY <1>1, <1>2 DEF Returned, Completed, StateRecord
<1>4. /\ log'.listed => manifest' = Gaps'
      /\ log'.listed <=> Gaps' # {}
      /\ \A i \in DOMAIN image : image[i] # Zero => image[i][1] = i
  BY <1>1, <1>2, <1>3 DEF IInv, LogSound, EveryGapIsListed, CellsInPlace
<1>5. Gaps' = ListedGaps'
  BY <1>3, <1>4 DEF ListedGaps
<1>6. Gaps' = {i \in DOMAIN image : image[i] = Zero}
  <2>1. DOMAIN image = 1 .. Len(image)
    BY LenProperties DEF IInv, TypeOK
  <2> QED
    BY <1>1, <2>1 DEF Gaps
<1>7. Promise!Accounted(image, ListedGaps')
  BY <1>4, <1>5, <1>6 DEF Promise!Accounted, Promise!Gap, Zero
<1> QED
  BY <1>1, <1>2, <1>3, <1>7 DEF Promise!Next, Promise!Vouch, ListedGaps

\* A step of a running call that does not return a result.
LEMMA StillNotReturned ==
  ASSUME IInv, Work \/ Crash, ~(WriteVerdictLog /\ outcome = "completed")
  PROVE  pc # "idle" /\ ~Returned /\ ~Returned' /\ power' = power
<1> USE DEF sourceVars, imageVars, requestVars, copyVars, countVars, runVars
<1>1. pc # "idle" /\ power' = power
  BY DEF Work, Crash, WriteInitialLog, RecordStart, AbortStart,
     VerifyChunk, PrefixVerified, OpenImage, CopyChunk, ZeroFill, FinishCopy,
     BeginCheckpoint, WriteCheckpoint, RecordCheckpoint, DigestsMatch,
     ThrowCanceled, ThrowFailed, CatchAs, RecordVerdict, OpenManifest,
     WriteManifest, BeginVerdictLog, WriteVerdictLog, AbandonVerdict, CanThrow,
     TryPoints, VerdictPoints
<1>2. ~Returned
  BY <1>1, NotReturned DEF IInv
<1>3. /\ Torn.status # "completed"
      /\ \A status : StateRecord(status).status = status
  BY DEF Torn, BlankLog, StateRecord
<1>4. CASE ThrowCanceled \/ ThrowFailed
  BY <1>1, <1>2, <1>4 DEF ThrowCanceled, ThrowFailed, CatchAs, Returned
<1>5. CASE AbortStart \/ AbandonVerdict \/ Crash
  <2>1. /\ log' \in LeftInLog /\ thrown' = thrown
        /\ pc = "verdictLog" => outcome # "completed"
           \/ log' = log
    BY <1>5 DEF AbortStart, AbandonVerdict, Crash, CanThrow, InTry, TryPoints,
       VerdictPoints, LeftInLog
  <2>2. log' = log \/ log'.status # "completed"
    BY <1>3, <2>1 DEF LeftInLog
  <2> QED
    BY <1>1, <1>2, <2>1, <2>2 DEF Returned, Completed
<1>6. CASE ~(ThrowCanceled \/ ThrowFailed \/ AbortStart \/ AbandonVerdict \/ Crash)
  <2>1. (log' = log \/ log'.status # "completed") /\ thrown' = thrown
    BY <1>3, <1>6 DEF Work, WriteInitialLog, RecordStart, VerifyChunk,
       PrefixVerified, OpenImage, CopyChunk, ZeroFill, FinishCopy,
       BeginCheckpoint, WriteCheckpoint, RecordCheckpoint, DigestsMatch,
       RecordVerdict, OpenManifest, WriteManifest, BeginVerdictLog,
       WriteVerdictLog
  <2> QED
    BY <1>1, <1>2, <2>1 DEF Returned, Completed
<1> QED
  BY <1>4, <1>5, <1>6

LEMMA PromiseStep ==
  ASSUME IInv, IInv', Next
  PROVE  [Promise!Next]_Promise!vars
<1> USE DEF sourceVars, imageVars, requestVars, copyVars, countVars, runVars
<1>1. CASE Begin
  BY <1>1, StartPromise
<1>2. CASE WriteVerdictLog /\ outcome = "completed"
  BY <1>2, VerdictPromise
<1>3. CASE Surroundings /\ ~Crash
  BY <1>3 DEF Surroundings, RewriteSource, ResizeSource, RequestCancel,
     Promise!vars, Returned, Completed
<1>4. CASE (Work /\ ~(WriteVerdictLog /\ outcome = "completed")) \/ Crash
  <2>1. CASE ~(WriteVerdictLog /\ outcome = "completed")
    BY <1>4, <2>1, StillNotReturned, QuietStep DEF IInv
  <2> QED
    BY <1>2, <2>1
<1>5. CASE Outage
  BY <1>5, OutagePromise DEF IInv
<1> QED
  BY <1>1, <1>2, <1>3, <1>4, <1>5 DEF Next, Surroundings

\* Acquisition, with its resumes, retries, cancellations and crashes, keeps the
\* promise VerifiedImage makes to the users of an image: what a call that returned
\* vouches for changes only behind a new call, or with the power.
THEOREM Refinement == Spec => KeepsPromise
<1>1. Init => Promise!Init
  BY DEF Init, Promise!Init, Returned, Completed, NoLog, BlankLog
<1>2. IInv /\ IInv' /\ [Next]_vars => [Promise!Next]_Promise!vars
  <2> SUFFICES ASSUME IInv, IInv', [Next]_vars
               PROVE  [Promise!Next]_Promise!vars
    OBVIOUS
  <2>1. CASE Next
    BY <2>1, PromiseStep
  <2>2. CASE UNCHANGED vars
    BY <2>2 DEF vars, imageVars, runVars, Promise!vars, Returned, Completed
  <2> QED
    BY <2>1, <2>2
<1> QED
  BY <1>1, <1>2, Invariance, PTL DEF Spec, KeepsPromise, Promise!Spec

-----------------------------------------------------------------------------
(* An acquisition behind a handshake is an acquisition *)

\* The handshake changes no file and no variable of the acquisition: with an
\* agent as without one AcquireImageAsync behaves as ImageAcquisition says.
THEOREM AcquiresAsBefore == RemoteSpec => Spec
<1>1. RemoteInit => Init
  BY DEF RemoteInit
<1>2. [RemoteNext]_allVars => [Next]_vars
  BY DEF RemoteNext, Handshake, LateExecute, BeginAgreed, RemoteWork, RemoteOutage,
     Outage, allVars, Next
<1> QED BY <1>1, <1>2, PTL DEF RemoteSpec, Spec

\* The custody log of acquisitions that ask an agent is numbered as well.
THEOREM RemoteCustodyCorrect == RemoteSpec => []CustodyHasNoGap
BY AcquiresAsBefore, CustodyCorrect, PTL

\* A completed acquisition that has asked an agent says so in the custody log, at
\* the end or, when the call threw behind the completed log, just before it.
THEOREM RemoteCustodyAgrees == RemoteSpec => []CustodyAgreesWithLog
BY AcquiresAsBefore, CustodyAgrees, PTL

-----------------------------------------------------------------------------
(* The agreement *)

\* Where a handshake stands, and with what in hand.
AgentControl ==
  /\ phase \in {"loopback", "send", "wait", "backoff", "check"} => number # 0
  /\ phase \in {"wait", "backoff"} => endpoint = "http"
  /\ phase = "send" => endpoint \in {"lan", "http"}
  /\ phase = "loopback" => endpoint \in {"blank", "path", "scheme", "odd"}
  /\ phase = "check" => endpoint \in {"scheme", "odd", "http"}
  /\ phase \in {"send", "backoff"} => attempt < MaxAttempts
  /\ phase \in {"idle", "loopback", "agreed", "used"} => attempt = 0
  /\ phase = "idle" => endpoint = "none"

\* An answer that is signed is the agent's to the request it was signed over, and
\* one that agrees over http comes from a request that was carried out.
AnswerSound ==
  phase = "check" =>
    /\ answer.signed # 0 => answer.signed \in executed /\ endpoint = "http"
    /\ answer.ok /\ endpoint = "http" => executed # {}

\* What an agreement stands for.
Agreed ==
  /\ HasSession => endpoint = "http" /\ number \in executed
  /\ endpoint \notin {"scheme", "odd"} => executed # {}

AgreementSound ==
  /\ phase \in {"agreed", "used"} /\ endpoint # "none" => Agreed
  /\ pc # "idle" => phase = "used"

RInv == AgentTypeOK /\ AgentControl /\ AnswerSound /\ AgreementSound

-----------------------------------------------------------------------------
(* The steps of a handshake *)

LEMMA AnswerFields ==
  ASSUME AgentTypeOK
  PROVE  /\ NoAnswer \in Answer /\ NoAnswer.signed = 0 /\ NoAnswer.ok = FALSE
         /\ [ok |-> TRUE, id |-> number, hash |-> "this", session |-> 0,
             signed |-> 0, time |-> "within"] \in Answer
<1>1. 0 \in 0 .. MaxRequests /\ number \in 0 .. MaxRequests
  BY RemoteAssumption DEF AgentTypeOK
<1> QED BY <1>1 DEF Answer, NoAnswer

LEMMA FilledFields ==
  ASSUME AgentTypeOK, NEW a \in Answer
  PROVE  /\ FilledIn(a) \in Answer
         /\ FilledIn(a).signed = a.signed /\ FilledIn(a).ok = a.ok
BY DEF AgentTypeOK, Answer, FilledIn

LEMMA RefusedKeeps ==
  ASSUME RInv, Refused, pc' = "idle"
  PROVE  RInv'
<1>0. NoAnswer \in Answer /\ 0 \in 0 .. MaxAttempts
  BY AnswerFields, RemoteAssumption DEF RInv
<1>1. AgentTypeOK'
  BY <1>0 DEF RInv, Refused, AgentTypeOK, Endpoints
<1>2. AgentControl' /\ AnswerSound' /\ AgreementSound'
  BY RemoteAssumption DEF RInv, Refused, AgentControl, AnswerSound, AgreementSound
<1> QED BY <1>1, <1>2 DEF RInv

LEMMA ReceiveKeeps ==
  ASSUME RInv, pc' = pc, pc = "idle", NEW a \in Answer, Receive(a),
         a.signed # 0 => a.signed \in executed, a.ok => executed # {}
  PROVE  RInv'
<1>1. /\ answer' \in Answer /\ answer'.signed = a.signed /\ answer'.ok = a.ok
  BY FilledFields DEF RInv, Receive
<1>2. AgentTypeOK'
  BY <1>1 DEF RInv, Receive, AgentTypeOK
<1>3. AgentControl' /\ AnswerSound' /\ AgreementSound'
  BY <1>1 DEF RInv, Receive, AgentControl, AnswerSound, AgreementSound
<1> QED BY <1>2, <1>3 DEF RInv

LEMMA AgreeKeeps ==
  ASSUME RInv, pc' = pc, pc = "idle", Agree
  PROVE  RInv'
<1>1. answer \in Answer /\ number \in Nat /\ phase = "check" /\ number # 0
  BY RemoteAssumption DEF RInv, AgentTypeOK, Agree, AgentControl
<1>2. Agreed
  <2>1. HasSession => answer.signed = number
    BY DEF Agree, Agrees, SessionIsValid, SignedByAgent
  <2>2. HasSession => endpoint = "http" /\ number \in executed
    BY <1>1, <2>1 DEF RInv, AnswerSound
  <2>3. endpoint \in {"scheme", "odd", "http"} /\ answer.ok
    BY <1>1 DEF RInv, AgentControl, Agree, Agrees
  <2> QED BY <1>1, <2>2, <2>3 DEF Agreed, RInv, AnswerSound
<1>3. AgentTypeOK'
  <2>1. NoAnswer \in Answer /\ 0 \in 0 .. MaxAttempts
    BY AnswerFields, RemoteAssumption DEF RInv
  <2> QED BY <2>1 DEF RInv, Agree, AgentTypeOK
<1>4. AgentControl' /\ AnswerSound'
  BY <1>1 DEF RInv, Agree, AgentControl, AnswerSound
<1>5. AgreementSound'
  BY <1>2 DEF RInv, Agree, AgreementSound, Agreed, HasSession
<1> QED BY <1>3, <1>4, <1>5 DEF RInv

LEMMA ExecuteKeeps ==
  ASSUME RInv, pc' = pc, NEW r \in Requests, Execute(r)
  PROVE  RInv'
<1>1. AgentTypeOK'
  BY DEF RInv, Execute, AgentTypeOK
<1>2. AgentControl' /\ AnswerSound'
  BY DEF RInv, Execute, AgentControl, AnswerSound
<1>3. AgreementSound'
  BY DEF RInv, Execute, AgreementSound, Agreed, HasSession
<1> QED BY <1>1, <1>2, <1>3 DEF RInv

LEMMA HandshakeKeeps ==
  ASSUME RInv, Handshake
  PROVE  RInv'
<1>1. pc = "idle" /\ pc' = pc /\ AgentNext
  BY DEF Handshake, vars
<1>2. ASSUME NEW e \in Endpoints, Ask(e)
      PROVE  RInv'
  <2>1. AgentTypeOK'
    BY <1>2, RemoteAssumption DEF RInv, Ask, AgentTypeOK, Endpoints
  <2>2. AgentControl'
    BY <1>2, RemoteAssumption DEF RInv, Ask, AgentTypeOK, AgentControl, Endpoints
  <2>3. AnswerSound' /\ AgreementSound'
    BY <1>1, <1>2 DEF Ask, AnswerSound, AgreementSound
  <2> QED BY <2>1, <2>2, <2>3 DEF RInv
<1>3. CASE Loopback
  <2>1. CASE Refused
    BY <1>1, <2>1, RefusedKeeps
  <2>2. CASE ~Refused
    <3>1. /\ endpoint \in {"scheme", "odd"} /\ phase = "loopback" /\ phase' = "check"
          /\ answer' = [ok |-> TRUE, id |-> number, hash |-> "this", session |-> 0,
                        signed |-> 0, time |-> "within"]
          /\ UNCHANGED <<hasKey, endpoint, number, attempt, sent, executed>>
      BY <1>3, <2>2 DEF Loopback
    <3>2. answer' \in Answer /\ answer'.signed = 0
      BY <3>1, AnswerFields DEF RInv
    <3>3. AgentTypeOK'
      BY <3>1, <3>2 DEF RInv, AgentTypeOK
    <3>4. AgentControl' /\ AnswerSound' /\ AgreementSound'
      BY <1>1, <3>1, <3>2 DEF RInv, AgentControl, AnswerSound, AgreementSound
    <3> QED BY <3>3, <3>4 DEF RInv
  <2> QED BY <2>1, <2>2
<1>4. CASE SendRequest
  <2>1. number \in Requests /\ attempt' \in 0 .. MaxAttempts
    BY <1>4, RemoteAssumption
       DEF RInv, AgentTypeOK, AgentControl, SendRequest, NextAttempt, Requests
  <2>2. AgentTypeOK'
    BY <1>4, <2>1 DEF RInv, SendRequest, AgentTypeOK
  <2>3. AgentControl' /\ AnswerSound' /\ AgreementSound'
    BY <1>1, <1>4 DEF RInv, SendRequest, AgentControl, AnswerSound, AgreementSound
  <2> QED BY <2>2, <2>3 DEF RInv
<1>5. CASE RetryOrGiveUp
  <2>1. CASE Refused
    BY <1>1, <2>1, RefusedKeeps
  <2>2. CASE attempt < MaxAttempts /\ phase' = "backoff" /\ phase = "wait"
             /\ UNCHANGED <<hasKey, endpoint, number, attempt, answer, sent, executed>>
    <3>1. AgentTypeOK'
      BY <2>2 DEF RInv, AgentTypeOK
    <3>2. AgentControl' /\ AnswerSound' /\ AgreementSound'
      BY <1>1, <2>2 DEF RInv, AgentControl, AnswerSound, AgreementSound
    <3> QED BY <3>1, <3>2 DEF RInv
  <2> QED BY <1>5, <2>1, <2>2 DEF RetryOrGiveUp
<1>6. CASE DelayBeforeRetry
  <2>1. AgentTypeOK'
    BY <1>6 DEF RInv, DelayBeforeRetry, AgentTypeOK
  <2>2. AgentControl' /\ AnswerSound' /\ AgreementSound'
    BY <1>1, <1>6 DEF RInv, DelayBeforeRetry, AgentControl, AnswerSound, AgreementSound
  <2> QED BY <2>1, <2>2 DEF RInv
<1>7. CASE ReceiveAny
  <2>1. CASE Receive(NoAnswer)
    BY <1>1, <2>1, ReceiveKeeps, AnswerFields DEF RInv
  <2>2. ASSUME NEW r \in executed, NEW hashes, hashes \subseteq {"this", "other", "absent"},
               NEW a \in AnswersAbout(r, hashes), Receive(a)
        PROVE  RInv'
    <3>1. r \in 1 .. MaxRequests
      BY <2>2 DEF RInv, AgentTypeOK, Requests
    <3>2. a \in [ok : {TRUE}, id : {0, r}, hash : hashes, session : {0, r},
                signed : {0, r}, time : {"early", "within", "late"}]
      BY <2>2 DEF AnswersAbout
    <3>3. {0, r} \subseteq 0 .. MaxRequests
      BY <3>1, RemoteAssumption
    <3>4. a \in Answer /\ a.signed \in {0, r} /\ a.ok
      BY <2>2, <3>2, <3>3 DEF Answer
    <3> QED BY <1>1, <2>2, <3>4, ReceiveKeeps
  <2> QED BY <1>7, <2>1, <2>2 DEF ReceiveAny
<1>8. CASE Agree
  BY <1>1, <1>8, AgreeKeeps
<1>9. CASE RejectTransport \/ BadResponse \/ Disagree \/ CancelHandshake \/ Withdraw
  BY <1>1, <1>9, RefusedKeeps
     DEF RejectTransport, BadResponse, Disagree, CancelHandshake, Withdraw
<1>10. ASSUME NEW r \in Requests, Execute(r)
       PROVE  RInv'
  BY <1>1, <1>10, ExecuteKeeps
<1> QED
  BY <1>1, <1>2, <1>3, <1>4, <1>5, <1>6, <1>7, <1>8, <1>9, <1>10
     DEF AgentNext, Client

\* Work on the files, or nothing at all.
LEMMA WorkKeeps ==
  ASSUME RInv, UNCHANGED agentVars, pc' # "idle" => pc # "idle"
  PROVE  RInv'
<1>1. AgentTypeOK'
  BY DEF RInv, AgentTypeOK, agentVars
<1>2. AgentControl' /\ AnswerSound'
  BY DEF RInv, AgentControl, AnswerSound, agentVars
<1>3. AgreementSound'
  BY DEF RInv, AgreementSound, Agreed, HasSession, agentVars
<1> QED BY <1>1, <1>2, <1>3 DEF RInv

\* No work on the files begins by itself.
LEMMA WorkIsBegun ==
  ASSUME Work \/ Surroundings, pc = "idle"
  PROVE  pc' = "idle"
BY DEF Work, Surroundings, WriteInitialLog, RecordStart, AbortStart, VerifyChunk,
   PrefixVerified, OpenImage, CopyChunk, ZeroFill, FinishCopy, BeginCheckpoint,
   WriteCheckpoint, RecordCheckpoint, DigestsMatch, ThrowCanceled, ThrowFailed,
   CanThrow, TryPoints, VerdictPoints, RecordVerdict, OpenManifest, WriteManifest,
   BeginVerdictLog, WriteVerdictLog, AbandonVerdict, RewriteSource, ResizeSource,
   RequestCancel, Crash

\* The handshake keeps its types, and what an agreement stands for.
LEMMA AgreementInvariance == RemoteSpec => []RInv
<1>1. RemoteInit => RInv
  <2> SUFFICES ASSUME RemoteInit PROVE RInv
    OBVIOUS
  <2>1. AgentTypeOK
    BY RemoteAssumption
       DEF RemoteInit, AgentInit, AgentTypeOK, Endpoints, NoAnswer, Answer
  <2>2. AgentControl /\ AnswerSound /\ AgreementSound
    BY DEF RemoteInit, AgentInit, AgentControl, AnswerSound, AgreementSound, Init
  <2> QED BY <2>1, <2>2 DEF RInv
<1>2. RInv /\ [RemoteNext]_allVars => RInv'
  <2> SUFFICES ASSUME RInv, [RemoteNext]_allVars PROVE RInv'
    OBVIOUS
  <2>1. CASE Handshake
    BY <2>1, HandshakeKeeps
  <2>2. CASE LateExecute
    <3>1. PICK r \in Requests : Execute(r)
      BY <2>2 DEF LateExecute
    <3>2. pc' = pc
      BY <2>2 DEF LateExecute, vars
    <3> QED BY <3>1, <3>2, ExecuteKeeps
  <2>3. CASE BeginAgreed
    <3>1. AgentTypeOK'
      BY <2>3 DEF RInv, BeginAgreed, AgentTypeOK
    <3>2. AgentControl' /\ AnswerSound'
      BY <2>3 DEF RInv, BeginAgreed, AgentControl, AnswerSound
    <3>3. AgreementSound'
      BY <2>3 DEF RInv, BeginAgreed, AgreementSound, Agreed, HasSession
    <3> QED BY <3>1, <3>2, <3>3 DEF RInv
  <2>4. CASE RemoteWork
    BY <2>4, WorkIsBegun, WorkKeeps DEF RemoteWork
  <2>5. CASE RemoteOutage
    <3>1. pc' = "idle"
      BY <2>5 DEF RemoteOutage, PowerLoss, LoseUnflushed, Forget
    <3>2. Refused \/ UNCHANGED agentVars
      BY <2>5 DEF RemoteOutage
    <3> QED BY <3>1, <3>2, RefusedKeeps, WorkKeeps
  <2>6. CASE UNCHANGED allVars
    BY <2>6, WorkKeeps DEF allVars, vars
  <2> QED BY <2>1, <2>2, <2>3, <2>4, <2>5, <2>6 DEF RemoteNext
<1> QED BY <1>1, <1>2, PTL DEF RemoteSpec

\* No file is worked on before the agreement this call needs, and with a shared
\* key the agreement means that the agent has carried out this very request.
THEOREM AgreementCorrect == RemoteSpec => []WorksOnAgreement
<1>1. RInv => WorksOnAgreement
  BY DEF RInv, AgreementSound, Agreed, WorksOnAgreement
<1> QED BY <1>1, AgreementInvariance, PTL

\* The variables of a handshake keep to their sets of values; in particular no
\* request is sent more often than the limit of attempts.
THEOREM AgentTypeCorrect == RemoteSpec => []AgentTypeOK
<1>1. RInv => AgentTypeOK
  BY DEF RInv
<1> QED BY <1>1, AgreementInvariance, PTL

=============================================================================
