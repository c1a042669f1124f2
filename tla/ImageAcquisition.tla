-------------------------- MODULE ImageAcquisition --------------------------
(***************************************************************************)
(* Clone-first imaging: FileImageAcquisitionService.AcquireImageAsync.     *)
(*                                                                         *)
(* One acquisition copies a source to an image file chunk by chunk.  It    *)
(* keeps a JSON state log (the checkpoint a later call resumes from), a    *)
(* manifest of the ranges it had to zero-fill and, for a network source,   *)
(* a chain-of-custody log.  The files outlive the process; everything else *)
(* is lost when the process dies.  Nothing is ever flushed to the disk, so *)
(* that a power loss may take even from files that were long complete.     *)
(* The service is called again and again on the same image: a call may     *)
(* resume what an earlier one left.                                        *)
(*                                                                         *)
(* Bytes are abstracted to cells: cell i of the source holds               *)
(* <<i, version>>, so that a cell copied to the wrong place, an outdated   *)
(* cell and a zero-filled cell are all told apart.  SHA-256 is abstracted  *)
(* to the sequence of the cells that went into it.                         *)
(***************************************************************************)
EXTENDS Integers, Sequences, FiniteSets

CONSTANTS
  SourceCells,         \* length of the source at the start, in cells
  ChunkSizes,          \* effective chunk sizes a call may use, in cells
  MaxReadErrorChunks,  \* ImageAcquisitionRequest.MaxReadErrorChunks, 0 = no limit
  IsNetworkSource,     \* SourceIsNetwork: custody events are recorded
  MaxRuns,             \* bound: calls of AcquireImageAsync
  MaxSourceChanges     \* bound: changes of the source by other programs

ASSUME SizesAssumption ==
  /\ SourceCells \in Nat
  /\ ChunkSizes \subseteq Nat \ {0}
  /\ MaxReadErrorChunks \in Nat
  /\ IsNetworkSource \in BOOLEAN
  /\ MaxRuns \in Nat
  /\ MaxSourceChanges \in Nat

VARIABLES
  \* the source medium, shared with other programs (FileShare.ReadWrite)
  srcVersion, srcLength, srcChanges,
  \* history: the shortest the source has been; its content when the call began
  srcShortest, startVersion,
  \* the files
  image, imageExists, log, manifest, custody,
  \* the running call, lost when the process dies
  pc, canceled, policy, chunk, sourceSize, base, bytesWritten,
  srcPosition, pending, sourceHash, readErrorChunks, unreadable,
  networkCheckpointCount, custodySequence, outcome,
  runs,
  \* history: whether power was lost, never, before the last call began, or
  \* since; whether the last call threw in its try block
  power, thrown

sourceVars == <<srcVersion, srcLength, srcChanges, srcShortest>>
imageVars  == <<image, imageExists>>
requestVars == <<policy, chunk, sourceSize, base>>
copyVars == <<bytesWritten, srcPosition, pending, sourceHash,
              readErrorChunks, unreadable>>
countVars == <<networkCheckpointCount, custodySequence>>
runVars == <<runs, startVersion, power, thrown>>

vars == <<sourceVars, imageVars, log, manifest, custody, pc, canceled,
          requestVars, copyVars, countVars, outcome, runVars>>

-----------------------------------------------------------------------------
(* Values *)

Versions == 0 .. MaxSourceChanges
Zero     == <<0, 0>>                        \* a cell of a zero-filled chunk
Cell     == ((1 .. SourceCells) \X Versions) \cup {Zero}

Policies == {"FailFast", "ContinueWithZeroFill"}
Verdicts == {"completed", "canceled", "failed"}
Events   == {"started", "checkpoint"} \cup Verdicts

LogRecord ==
  [status : {"absent", "torn", "in_progress"} \cup Verdicts,
   size   : 0 .. SourceCells,
   chunk  : Nat \ {0},
   written : 0 .. SourceCells,
   errors : Nat,
   zeroed : Nat,
   checkpoints : Nat,
   listed : BOOLEAN,         \* UnreadableRangesManifestPath is set
   digest : Seq(Cell)]       \* the SHA-256 of a completed image

\* No state log yet, or one that FileMode.Create has emptied and that holds no
\* JSON: nothing can be read from it.
BlankLog(status) ==
  [status |-> status, size |-> 0, chunk |-> 1, written |-> 0, errors |-> 0,
   zeroed |-> 0, checkpoints |-> 0, listed |-> FALSE, digest |-> <<>>]

NoLog == BlankLog("absent")

LogNotEmptied == log        \* mutant of Torn: FileMode.OpenOrCreate
Torn == BlankLog("torn")

CustodyRecord == [sequence : Nat, event : Events]

TryPoints == {"verifyPrefix", "openImage", "copy", "checkpoint",
              "checkpointLog", "checkpointCustody", "digest"}
VerdictPoints == {"verdictCustody", "verdictManifest", "verdictRanges",
                  "verdictOpen", "verdictLog"}
Points == {"idle", "initialLog", "custodyStart"} \cup TryPoints
            \cup VerdictPoints

Least(a, b) == IF a <= b THEN a ELSE b

Readable == log.status \notin {"absent", "torn"}

Completed == log.status = "completed"

\* The call that wrote the "completed" state did not throw on the way out, and
\* the power has not failed since it began.
Returned == Completed /\ ~thrown /\ power # "lost"

ManifestFirst == "verdictManifest"     \* mutant of VerdictStart: no event
VerdictStart == IF IsNetworkSource THEN "verdictCustody" ELSE "verdictManifest"

-----------------------------------------------------------------------------
(* Pieces of the handler *)

\* BuildState: what WriteStateAsync serialises.
StateRecord(status) ==
  [status |-> status,
   size   |-> sourceSize,
   chunk  |-> chunk,
   written |-> bytesWritten,
   errors |-> readErrorChunks,
   zeroed |-> Cardinality(unreadable),
   checkpoints |-> networkCheckpointCount,
   listed |-> status \in Verdicts /\ unreadable # {},
   digest |-> IF status = "completed" THEN sourceHash ELSE <<>>]

\* What a throw out of WriteStateAsync leaves of the log it has emptied: nothing
\* yet, or all of it.  The state is serialised into the stream's buffer, and
\* when FlushAsync then throws, DisposeAsync still writes the buffer.
LeftInLog ==
  {log} \cup (IF pc \in {"initialLog", "checkpointLog"}
                THEN {StateRecord("in_progress")}
              ELSE IF pc = "verdictLog" THEN {StateRecord(outcome)} ELSE {})

\* The list of ranges is written behind what the opened manifest holds.  A throw
\* leaves it without the list or, as with the log, with all of it.
ListedManifest == manifest \cup unreadable
LeftInManifest ==
  {manifest} \cup (IF pc = "verdictRanges" THEN {ListedManifest} ELSE {})

\* IsCompatibleResume, for the same source and the same image file: the
\* status is not looked at, only the sizes and that nothing was zero-filled.
CompatibleResume(c) ==
  /\ Readable
  /\ log.size = srcLength
  /\ log.chunk = c
  /\ log.errors = 0
  /\ log.zeroed = 0

\* The sequence number the custody events of a call continue from: the last one
\* in the log, or the checkpoint count when that is larger.
LastCustody == IF custody = <<>> THEN 0 ELSE custody[Len(custody)].sequence

CheckpointsOnly(canResume, count) == count    \* mutant of InitialSequence
InitialSequence(canResume, count) ==
  IF canResume /\ IsNetworkSource /\ count > LastCustody THEN count
                                                         ELSE LastCustody

\* Where a call picks the copy up.
ResumePoint == Least(Least(Len(image), log.written), srcLength)

\* The n cells a successful read at the stream's position returns.
SourceRead(n) ==
  [k \in 1 .. n |-> <<srcPosition + k, srcVersion[srcPosition + k]>>]

\* The image file once `cells` are written at position `at`; a gap would be
\* filled with zeros by the file system.
Overlay(file, at, cells) ==
  [i \in 1 .. (IF Len(file) >= at + Len(cells) THEN Len(file)
                                              ELSE at + Len(cells)) |->
     IF i > at /\ i <= at + Len(cells) THEN cells[i - at]
     ELSE IF i <= Len(file) THEN file[i] ELSE Zero]

\* The image when the stream's buffer reaches the file: it ends at bytesWritten.
Flushed == IF pending = <<>> THEN image
           ELSE Overlay(image, bytesWritten - Len(pending), pending)

\* destinationStream.WriteAsync: the stream buffers less than one chunk, and
\* anything before what it still buffers is in the file.
WriteCells(cells) ==
  LET all   == pending \o cells
      first == bytesWritten - Len(pending)
  IN \E kept \in 0 .. chunk - 1 :
       /\ kept <= Len(all)
       /\ pending' = SubSeq(all, Len(all) - kept + 1, Len(all))
       /\ image' = IF kept = Len(all) THEN image
                   ELSE Overlay(image, first, SubSeq(all, 1, Len(all) - kept))

\* AppendCustodyEventAsync.
AppendCustody(event) ==
  /\ custody' = Append(custody, [sequence |-> custodySequence + 1,
                                 event |-> event])
  /\ custodySequence' = custodySequence + 1

\* The call has returned or thrown, or its process is gone.
Forget ==
  /\ pc' = "idle"
  /\ canceled' = FALSE
  /\ policy' = "FailFast"
  /\ chunk' = 1
  /\ sourceSize' = 0
  /\ base' = 0
  /\ bytesWritten' = 0
  /\ srcPosition' = 0
  /\ pending' = <<>>
  /\ sourceHash' = <<>>
  /\ readErrorChunks' = 0
  /\ unreadable' = {}
  /\ networkCheckpointCount' = 0
  /\ custodySequence' = 0
  /\ outcome' = "completed"

-----------------------------------------------------------------------------
Init ==
  /\ srcVersion = [i \in 1 .. SourceCells |-> 0]
  /\ srcLength = SourceCells
  /\ srcChanges = 0
  /\ srcShortest = SourceCells
  /\ startVersion = [i \in 1 .. SourceCells |-> 0]
  /\ image = <<>>
  /\ imageExists = FALSE
  /\ log = NoLog
  /\ manifest = {}
  /\ custody = <<>>
  /\ pc = "idle"
  /\ canceled = FALSE
  /\ policy = "FailFast"
  /\ chunk = 1
  /\ sourceSize = 0
  /\ base = 0
  /\ bytesWritten = 0
  /\ srcPosition = 0
  /\ pending = <<>>
  /\ sourceHash = <<>>
  /\ readErrorChunks = 0
  /\ unreadable = {}
  /\ networkCheckpointCount = 0
  /\ custodySequence = 0
  /\ outcome = "completed"
  /\ runs = 0
  /\ power = "kept"
  /\ thrown = FALSE

-----------------------------------------------------------------------------
(* The call up to its first await that changes a file: the checkpoint and  *)
(* the last custody record are read, and WriteStateAsync has emptied the   *)
(* log.  A torn log makes TryReadStateAsync throw before anything changes, *)
(* so such a call is no step at all.                                       *)
Start(c, p, allowResume) ==
  /\ pc = "idle"
  /\ runs < MaxRuns
  /\ log.status # "torn"
  /\ LET canResume == allowResume /\ imageExists /\ CompatibleResume(c)
         from  == IF canResume THEN ResumePoint ELSE 0
         count == IF canResume THEN log.checkpoints ELSE 0
     IN /\ base' = from
        /\ bytesWritten' = from
        /\ networkCheckpointCount' = count
        /\ custodySequence' = InitialSequence(canResume, count)
  /\ chunk' = c
  /\ policy' = p
  /\ sourceSize' = srcLength
  /\ log' = Torn
  /\ pc' = "initialLog"
  /\ runs' = runs + 1
  /\ startVersion' = srcVersion
  /\ power' = IF power = "lost" THEN "lostBefore" ELSE power
  /\ thrown' = FALSE
  /\ UNCHANGED <<sourceVars, imageVars, manifest, custody, canceled, outcome,
                 srcPosition, pending, sourceHash, readErrorChunks, unreadable>>

\* The "in_progress" state is in the log.
WriteInitialLog ==
  /\ pc = "initialLog"
  /\ ~canceled
  /\ log' = StateRecord("in_progress")
  /\ pc' = IF IsNetworkSource THEN "custodyStart"
           ELSE IF base > 0 THEN "verifyPrefix" ELSE "openImage"
  /\ UNCHANGED <<sourceVars, imageVars, manifest, custody, canceled,
                 requestVars, copyVars, countVars, outcome, runVars>>

\* network_acquisition_started.
RecordStart ==
  /\ pc = "custodyStart"
  /\ ~canceled
  /\ AppendCustody("started")
  /\ pc' = IF base > 0 THEN "verifyPrefix" ELSE "openImage"
  /\ UNCHANGED <<sourceVars, imageVars, log, manifest, canceled, requestVars,
                 copyVars, networkCheckpointCount, outcome, runVars>>

\* Both writes above stand outside the try block: no handler follows a
\* cancellation or an I/O error there.
AbortStart ==
  /\ pc \in {"initialLog", "custodyStart"}
  /\ log' \in LeftInLog
  /\ Forget
  /\ UNCHANGED <<sourceVars, imageVars, manifest, custody, runVars>>

-----------------------------------------------------------------------------
(* The try block *)

\* The next n cells of the prefix: source and image are compared, and hashed
\* when they are equal.
HashWithoutCompare(n) ==    \* mutant of HashPrefixChunk
  sourceHash' = sourceHash \o SubSeq(image, srcPosition + 1, srcPosition + n)
HashPrefixChunk(n) ==
  /\ SourceRead(n) = SubSeq(image, srcPosition + 1, srcPosition + n)
  /\ sourceHash' = sourceHash \o SourceRead(n)

\* One round of VerifyAndHashResumePrefixAsync whose chunks are equal.
VerifyChunk ==
  LET n == Least(chunk, base - Len(sourceHash))
  IN /\ pc = "verifyPrefix"
     /\ ~canceled
     /\ n > 0
     /\ srcPosition + n <= srcLength
     /\ HashPrefixChunk(n)
     /\ srcPosition' = srcPosition + n
     /\ UNCHANGED <<sourceVars, imageVars, log, manifest, custody, pc,
                    canceled, requestVars, bytesWritten, pending,
                    readErrorChunks, unreadable, countVars, outcome, runVars>>

PrefixVerified ==
  /\ pc = "verifyPrefix"
  /\ Len(sourceHash) = base
  /\ pc' = "openImage"
  /\ UNCHANGED <<sourceVars, imageVars, log, manifest, custody, canceled,
                 requestVars, copyVars, countVars, outcome, runVars>>

\* FileMode.Open keeps the image, FileMode.Create empties it.
CreatedImage == <<>>        \* mutant of OpenedImage
OpenedImage == IF base > 0 THEN image ELSE <<>>

\* Both streams are then positioned at bytesWritten.
OpenImage ==
  /\ pc = "openImage"
  /\ image' = OpenedImage
  /\ imageExists' = TRUE
  /\ srcPosition' = bytesWritten
  /\ pc' = "copy"
  /\ UNCHANGED <<sourceVars, log, manifest, custody, canceled, requestVars,
                 bytesWritten, pending, sourceHash, readErrorChunks,
                 unreadable, countVars, outcome, runVars>>

WholeChunk == chunk         \* mutant of Requested
Requested == Least(chunk, sourceSize - bytesWritten)

\* A chunk, or the part of one that a short read returned, reaches the image
\* and the hash.  Once a second the loop goes on to write a checkpoint.
CopyChunk(n) ==
  /\ pc = "copy"
  /\ ~canceled
  /\ n \in 1 .. Requested
  /\ srcPosition + n <= srcLength
  /\ WriteCells(SourceRead(n))
  /\ sourceHash' = sourceHash \o SourceRead(n)
  /\ srcPosition' = srcPosition + n
  /\ bytesWritten' = bytesWritten + n
  /\ pc' \in {"copy", "checkpoint"}
  /\ UNCHANGED <<sourceVars, imageExists, log, manifest, custody, canceled,
                 requestVars, readErrorChunks, unreadable, countVars,
                 outcome, runVars>>

\* One more read error is within MaxReadErrorChunks.
OneMoreError ==             \* mutant of WithinErrorBudget
  MaxReadErrorChunks = 0 \/ readErrorChunks <= MaxReadErrorChunks
WithinErrorBudget ==
  MaxReadErrorChunks = 0 \/ readErrorChunks < MaxReadErrorChunks

\* The source stream is moved past the span that could not be read.
StayInPlace == srcPosition                  \* mutant of SeekPast
SeekPast == srcPosition + Requested

\* The read failed and the policy says to go on: the requested span is filled
\* with zeros.
ZeroFill ==
  /\ pc = "copy"
  /\ ~canceled
  /\ policy = "ContinueWithZeroFill"
  /\ WithinErrorBudget
  /\ Requested > 0
  /\ LET zeros == [k \in 1 .. Requested |-> Zero]
     IN /\ WriteCells(zeros)
        /\ sourceHash' = sourceHash \o zeros
  /\ srcPosition' = SeekPast
  /\ bytesWritten' = bytesWritten + Requested
  /\ readErrorChunks' = readErrorChunks + 1
  /\ unreadable' = unreadable \cup
                     (bytesWritten + 1 .. bytesWritten + Requested)
  /\ pc' \in {"copy", "checkpoint"}
  /\ UNCHANGED <<sourceVars, imageExists, log, manifest, custody, canceled,
                 requestVars, countVars, outcome, runVars>>

\* The loop ends at the size taken at the start, or where a read returns
\* nothing because the source has become shorter.
LastChunkDropped == Requested < chunk       \* mutant of CopyDone
CopyDone == Requested = 0 \/ srcPosition >= srcLength

\* The stream is flushed and closed.
FinishCopy ==
  /\ pc = "copy"
  /\ ~canceled
  /\ CopyDone
  /\ image' = Flushed
  /\ pending' = <<>>
  /\ pc' = "digest"
  /\ UNCHANGED <<sourceVars, imageExists, log, manifest, custody, canceled,
                 requestVars, bytesWritten, srcPosition, sourceHash,
                 readErrorChunks, unreadable, countVars, outcome, runVars>>

\* WriteStateAsync empties the log first.
BeginCheckpoint ==
  /\ pc = "checkpoint"
  /\ networkCheckpointCount' =
       networkCheckpointCount + (IF IsNetworkSource THEN 1 ELSE 0)
  /\ log' = Torn
  /\ pc' = "checkpointLog"
  /\ UNCHANGED <<sourceVars, imageVars, manifest, custody, canceled,
                 requestVars, copyVars, custodySequence, outcome, runVars>>

WriteCheckpoint ==
  /\ pc = "checkpointLog"
  /\ ~canceled
  /\ log' = StateRecord("in_progress")
  /\ pc' = IF IsNetworkSource THEN "checkpointCustody" ELSE "copy"
  /\ UNCHANGED <<sourceVars, imageVars, manifest, custody, canceled,
                 requestVars, copyVars, countVars, outcome, runVars>>

\* network_transfer_checkpoint.
RecordCheckpoint ==
  /\ pc = "checkpointCustody"
  /\ ~canceled
  /\ AppendCustody("checkpoint")
  /\ pc' = "copy"
  /\ UNCHANGED <<sourceVars, imageVars, log, manifest, canceled, requestVars,
                 copyVars, networkCheckpointCount, outcome, runVars>>

\* ComputeSha256HexAsync reads the whole file, whatever its length.
NotCompared == TRUE         \* mutant of DigestMatches
DigestMatches == image = sourceHash

DigestsMatch ==
  /\ pc = "digest"
  /\ ~canceled
  /\ DigestMatches
  /\ outcome' = "completed"
  /\ pc' = VerdictStart
  /\ UNCHANGED <<sourceVars, imageVars, log, manifest, custody, canceled,
                 requestVars, copyVars, countVars, runVars>>

\* What a throw does: the streams are disposed, which writes what they still
\* buffer, and the matching catch block is entered.
CatchAs(verdict) ==
  /\ image' = Flushed
  /\ log' \in LeftInLog
  /\ manifest' \in LeftInManifest
  /\ pending' = <<>>
  /\ outcome' = verdict
  /\ thrown' = TRUE
  /\ pc' = VerdictStart
  /\ UNCHANGED <<sourceVars, imageExists, custody, canceled, requestVars,
                 bytesWritten, srcPosition, sourceHash, readErrorChunks,
                 unreadable, countVars, runs, startVersion, power>>

\* Where something can go wrong: not in counting a checkpoint, nor in a manifest
\* with nothing to list.
CanThrow ==
  /\ pc \in TryPoints \cup VerdictPoints
  /\ pc # "checkpoint"
  /\ pc = "verdictManifest" => unreadable # {}

\* mutant of InTry: the handlers are in the try block too.
HandledForever == pc \in TryPoints \cup VerdictPoints
\* In the try block, or still in it on the way to the "completed" state.
InTry == pc \in TryPoints \/ (pc \in VerdictPoints /\ outcome = "completed")

\* Every await of the try block looks at the token, that of FlushAsync after the
\* whole state is in the stream too; opening a file does not.
ThrowCanceled ==
  /\ InTry
  /\ CanThrow
  /\ canceled
  /\ pc \notin {"openImage", "verdictManifest", "verdictOpen"}
  /\ CatchAs("canceled")

\* An I/O error of any file, a source error the policy does not continue over,
\* or a prefix or a digest that does not match.
ThrowFailed ==
  /\ InTry
  /\ CanThrow
  /\ CatchAs("failed")

-----------------------------------------------------------------------------
(* The end of the call, from the try block or from a catch block *)

\* network_acquisition_completed, _canceled or _failed.
RecordVerdict ==
  /\ pc = "verdictCustody"
  /\ outcome = "completed" => ~canceled
  /\ AppendCustody(outcome)
  /\ pc' = "verdictManifest"
  /\ UNCHANGED <<sourceVars, imageVars, log, manifest, canceled, requestVars,
                 copyVars, networkCheckpointCount, outcome, runVars>>

\* WriteUnreadableRangesManifestIfNeededAsync: an older manifest stays when
\* this run has nothing to list; otherwise FileMode.Create empties it first.
ManifestAppended == manifest              \* mutant of EmptiedManifest
EmptiedManifest == {}

OpenManifest ==
  /\ pc = "verdictManifest"
  /\ IF unreadable = {} THEN manifest' = manifest /\ pc' = "verdictOpen"
                        ELSE manifest' = EmptiedManifest /\ pc' = "verdictRanges"
  /\ UNCHANGED <<sourceVars, imageVars, log, custody, canceled, requestVars,
                 copyVars, countVars, outcome, runVars>>

WriteManifest ==
  /\ pc = "verdictRanges"
  /\ outcome = "completed" => ~canceled
  /\ manifest' = ListedManifest
  /\ pc' = "verdictOpen"
  /\ UNCHANGED <<sourceVars, imageVars, log, custody, canceled, requestVars,
                 copyVars, countVars, outcome, runVars>>

BeginVerdictLog ==
  /\ pc = "verdictOpen"
  /\ log' = Torn
  /\ pc' = "verdictLog"
  /\ UNCHANGED <<sourceVars, imageVars, manifest, custody, canceled,
                 requestVars, copyVars, countVars, outcome, runVars>>

\* The state is in the log and the call returns, or rethrows from its handler.
WriteVerdictLog ==
  /\ pc = "verdictLog"
  /\ outcome = "completed" => ~canceled
  /\ log' = StateRecord(outcome)
  /\ Forget
  /\ UNCHANGED <<sourceVars, imageVars, manifest, custody, runVars>>

\* A catch block has no handler of its own: an I/O error there ends the call.
AbandonVerdict ==
  /\ CanThrow
  /\ ~InTry
  /\ log' \in LeftInLog
  /\ manifest' \in LeftInManifest
  /\ Forget
  /\ UNCHANGED <<sourceVars, imageVars, custody, runVars>>

-----------------------------------------------------------------------------
(* The surroundings *)

\* Another program writes to the source.
RewriteSource(i) ==
  /\ srcChanges < MaxSourceChanges
  /\ srcChanges' = srcChanges + 1
  /\ srcVersion' = [srcVersion EXCEPT ![i] = srcChanges + 1]
  /\ UNCHANGED <<srcLength, srcShortest, imageVars, log, manifest, custody, pc,
                 canceled, requestVars, copyVars, countVars, outcome, runVars>>

\* Another program makes the source shorter or longer.
ResizeSource(n) ==
  /\ srcChanges < MaxSourceChanges
  /\ n # srcLength
  /\ srcChanges' = srcChanges + 1
  /\ srcLength' = n
  /\ srcShortest' = Least(srcShortest, n)
  /\ UNCHANGED <<srcVersion, imageVars, log, manifest, custody, pc, canceled,
                 requestVars, copyVars, countVars, outcome, runVars>>

\* The user's cancellation, or a new operation that takes over the scope.
RequestCancel ==
  /\ pc # "idle"
  /\ ~canceled
  /\ canceled' = TRUE
  /\ UNCHANGED <<sourceVars, imageVars, log, manifest, custody, pc,
                 requestVars, copyVars, countVars, outcome, runVars>>

\* The process dies: its buffers are lost, what it has written stays.
Crash ==
  /\ pc # "idle"
  /\ Forget
  /\ UNCHANGED <<sourceVars, imageVars, log, manifest, custody, runVars>>

\* The power fails, during a call or at any time after it.
PowerLoss ==
  /\ power' = "lost"
  /\ Forget
  /\ UNCHANGED <<sourceVars, imageVars, log, manifest, custody, runs,
                 startVersion, thrown>>

\* FlushAsync hands the data to the operating system only, so any of it may be
\* missing when the power is back: the end of the image, cells in the middle
\* (they read as zeros, which stand for anything that is not the source's cell),
\* what a log or a manifest holds, the last custody records.
LoseUnflushed ==
  /\ pc = "idle"
  /\ power = "lost"
  /\ \/ /\ image # <<>>
        /\ \/ image' = SubSeq(image, 1, Len(image) - 1)
           \/ \E i \in DOMAIN image : image' = [image EXCEPT ![i] = Zero]
        /\ UNCHANGED <<log, manifest, custody>>
     \/ /\ log # NoLog
        /\ log' = Torn
        /\ UNCHANGED <<image, manifest, custody>>
     \/ /\ manifest' = {}
        /\ UNCHANGED <<image, log, custody>>
     \/ /\ custody # <<>>
        /\ custody' = SubSeq(custody, 1, Len(custody) - 1)
        /\ UNCHANGED <<image, log, manifest>>
  /\ UNCHANGED <<sourceVars, imageExists, pc, canceled, requestVars, copyVars,
                 countVars, outcome, runVars>>

Surroundings ==
  \/ \E i \in 1 .. SourceCells : RewriteSource(i)
  \/ \E n \in 0 .. SourceCells : ResizeSource(n)
  \/ RequestCancel
  \/ Crash

Outage == PowerLoss \/ LoseUnflushed

Begin ==
  \E c \in ChunkSizes, p \in Policies, allowResume \in BOOLEAN :
    Start(c, p, allowResume)

Work ==
  \/ WriteInitialLog \/ RecordStart \/ AbortStart
  \/ VerifyChunk \/ PrefixVerified \/ OpenImage
  \/ (\E n \in 1 .. SourceCells : CopyChunk(n)) \/ ZeroFill \/ FinishCopy
  \/ BeginCheckpoint \/ WriteCheckpoint \/ RecordCheckpoint
  \/ DigestsMatch \/ ThrowCanceled \/ ThrowFailed
  \/ RecordVerdict \/ OpenManifest \/ WriteManifest
  \/ BeginVerdictLog \/ WriteVerdictLog \/ AbandonVerdict

Next == Begin \/ Work \/ Surroundings \/ Outage

Spec == Init /\ [][Next]_vars

\* Every await of the call completes: nothing is assumed of the user, the
\* source or crashes, nor that a call is ever made.
FairSpec == Spec /\ WF_vars(Work)

-----------------------------------------------------------------------------
(* Properties *)

\* Every variable keeps to its set of values.
TypeOK ==
  /\ srcVersion \in [1 .. SourceCells -> Versions]
  /\ srcLength \in 0 .. SourceCells
  /\ srcChanges \in Versions
  /\ srcShortest \in 0 .. SourceCells
  /\ startVersion \in [1 .. SourceCells -> Versions]
  /\ image \in Seq(Cell)
  /\ imageExists \in BOOLEAN
  /\ log \in LogRecord
  /\ manifest \in SUBSET (1 .. SourceCells)
  /\ custody \in Seq(CustodyRecord)
  /\ pc \in Points
  /\ canceled \in BOOLEAN
  /\ policy \in Policies
  /\ chunk \in Nat \ {0}
  /\ sourceSize \in 0 .. SourceCells
  /\ base \in 0 .. SourceCells
  /\ bytesWritten \in 0 .. SourceCells
  /\ srcPosition \in 0 .. SourceCells
  /\ pending \in Seq(Cell)
  /\ sourceHash \in Seq(Cell)
  /\ readErrorChunks \in Nat
  /\ unreadable \in SUBSET (1 .. SourceCells)
  /\ networkCheckpointCount \in Nat
  /\ custodySequence \in Nat
  /\ outcome \in Verdicts
  /\ runs \in 0 .. MaxRuns
  /\ power \in {"kept", "lostBefore", "lost"}
  /\ thrown \in BOOLEAN

Gaps == {i \in 1 .. Len(image) : image[i] = Zero}

\* Until the power fails, a log that says "completed" describes the image file
\* as it is: the file has the recorded digest and length, whatever calls,
\* cancellations, process deaths and earlier power losses came before (the
\* digest comparison before the "completed" state is written).  A power loss
\* afterwards may leave the log and take cells, as nothing is flushed to disk.
CompletedImageHasDigest ==
  (Completed /\ power # "lost") =>
    /\ imageExists
    /\ image = log.digest
    /\ Len(image) = log.written

\* The log of a completed image counts exactly its zero-filled cells, and every
\* one of them is in the manifest it points to: no gap of an earlier, resumed
\* call is forgotten (a call that filled gaps is never resumed).  Only a call
\* that threw behind the "completed" state may have emptied the manifest again.
EveryGapIsListed ==
  (Completed /\ power # "lost") =>
    /\ log.zeroed = Cardinality(Gaps)
    /\ log.listed <=> Gaps # {}
    /\ log.listed => manifest = Gaps \/ (thrown /\ manifest = {})

\* Every other cell of a completed image is the source's cell of that position:
\* the source stream and the image never slip against each other, in spite of
\* short reads and of reads that failed.
CellsInPlace ==
  (Completed /\ power # "lost") =>
    \A i \in DOMAIN image : image[i] # Zero => image[i][1] = i

\* A completed image keeps no cell that had been overwritten in the source
\* before the call that completed it began: a resumed prefix is compared with
\* the source again.
NothingOutdated ==
  (Completed /\ power # "lost") =>
    \A i \in DOMAIN image :
      image[i] # Zero => image[i][2] >= startVersion[i]

\* A completed image shorter than the size the log records comes from a source
\* that really became shorter; a short read alone never ends the copy.
ShortOnlyIfSourceShrank ==
  Completed => \/ log.written = log.size
               \/ log.written < log.size /\ srcShortest <= log.written

\* The threshold for read errors holds over all the calls that made an image.
ErrorBudget ==
  (Completed /\ MaxReadErrorChunks > 0) =>
    /\ log.errors <= MaxReadErrorChunks
    /\ power # "lost" => Cardinality(Gaps) <= MaxReadErrorChunks * log.chunk

\* The sequence numbers of the custody log never repeat, over all calls,
\* crashes and power losses, and they have no gap as long as no record was lost
\* with the power (InitializeCustodyStateAsync continues from the last record,
\* and the larger checkpoint count of the log skips none that was written).
CustodyHasNoGap ==
  \A k \in DOMAIN custody :
    /\ power = "kept" => custody[k].sequence = k
    /\ k > 1 => custody[k].sequence > custody[k - 1].sequence

\* The last custody event of a completed network acquisition says so, unless the
\* call threw when the "completed" state was already in the log: then "canceled"
\* or "failed" follows the "completed" event, and a crash before the handler
\* rewrites the log leaves the two at odds.
CustodyAgreesWithLog ==
  (Completed /\ IsNetworkSource /\ power # "lost") =>
    \E k \in DOMAIN custody :
      /\ custody[k].event = "completed"
      /\ k = Len(custody) \/ (thrown /\ k = Len(custody) - 1)

\* A resumed call never changes the prefix it resumes behind, until the power
\* fails.
ResumedPrefixIsKept ==
  [][(base > 0 /\ power' # "lost") =>
       /\ Len(image') >= base
       /\ SubSeq(image', 1, base) = SubSeq(image, 1, base)]_vars

\* The acquisition implements the promise of VerifiedImage: the log is withdrawn
\* before the image changes, a call that returns "completed" vouches for the
\* image that is there, and only a power loss can change it behind that.
Promise == INSTANCE VerifiedImage WITH
  Positions <- 1 .. SourceCells,
  Values    <- Versions,
  vouched   <- Returned,
  gaps      <- IF Returned /\ log.listed THEN manifest ELSE {},
  working   <- pc # "idle",
  lost      <- power = "lost"

KeepsPromise == Promise!Spec

\* Every call ends, with a result or an exception: a failing source, an early
\* end of file or an error while handling an error never leave it looping.
AcquisitionEnds == (pc # "idle") ~> (pc = "idle")

\* docs/architecture.md:53 promises resume-safe checkpoint logs: between calls
\* the log can be read.
LogSurvives == pc = "idle" => log.status # "torn"
=============================================================================
