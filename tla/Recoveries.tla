----------------------------- MODULE Recoveries -----------------------------
(***************************************************************************)
(* The calls of the engine that recover a deleted file, side by side.  A   *)
(* call holds the lock of all sessions until it returns, so that no two    *)
(* run at once: a behaviour is one call, of the component that call names. *)
(* The variables of the other components are the empty sequence.           *)
(***************************************************************************)
EXTENDS Naturals, Sequences

CONSTANTS
  ExtFiles, FatFiles, NtfsVolumes, Images,    \* what is recovered
  Direct, Fan, Flag,                          \* of ExtRecovery
  EOC,                                        \* of FatRecovery
  MaxRecords, MaxEmpty, MaxExponent           \* of NtfsStreams

VARIABLES
  call,
  file, content, pc, at, output, partial, status,    \* of several components
  item, runs, run,                                   \* of ExtRecovery
  current, seen,                                     \* of FatRecovery
  volume, contents, empties, k, vcn, files, exported, flags,   \* of NtfsStreams
  image, offset, candidates, chosen                  \* of TombstoneScan

\* An error of the device becomes status 32 where blocks and clusters are read,
\* and 14 where ranges are.
Ext == INSTANCE ExtRecovery WITH Files <- ExtFiles, ReadError <- 32
Fat == INSTANCE FatRecovery WITH Files <- FatFiles, ReadError <- 32
Ntfs == INSTANCE NtfsStreams WITH Volumes <- NtfsVolumes, ReadError <- 14
Tomb == INSTANCE TombstoneScan WITH ReadError <- 14

ASSUME RecoveriesAssumption ==
  /\ Ext!FilesAssumption /\ Fat!FilesAssumption
  /\ Ntfs!StreamsAssumption /\ Tomb!ImagesAssumption

fileVars == <<file, content>>
extVars == <<item, runs, run>>
fatVars == <<current, seen>>
ntfsVars == <<volume, contents, empties, k, vcn, files, exported, flags>>
tombVars == <<image, offset, candidates, chosen>>
vars == <<call, fileVars, pc, at, output, partial, status,
          extVars, fatVars, ntfsVars, tombVars>>

NoFile == file = <<>> /\ content = <<>>
NoExt == item = <<>> /\ runs = <<>> /\ run = <<>>
NoFat == current = <<>> /\ seen = <<>>
NoNtfs ==
  /\ volume = <<>> /\ contents = <<>> /\ empties = <<>> /\ k = <<>>
  /\ vcn = <<>> /\ files = <<>> /\ exported = <<>> /\ flags = <<>>
NoTomb == image = <<>> /\ offset = <<>> /\ candidates = <<>> /\ chosen = <<>>

Init ==
  \/ call = "ext" /\ Ext!Init /\ NoFat /\ NoNtfs /\ NoTomb
  \/ call = "fat" /\ Fat!Init /\ at = <<>> /\ NoExt /\ NoNtfs /\ NoTomb
  \/ call = "ntfs" /\ Ntfs!Init /\ output = <<>> /\ NoFile /\ NoExt /\ NoFat /\ NoTomb
  \/ call = "tombstone" /\ Tomb!Init /\ at = <<>> /\ NoFile /\ NoExt /\ NoFat /\ NoNtfs

ExtNext == call = "ext" /\ Ext!Next /\ UNCHANGED <<call, fatVars, ntfsVars, tombVars>>
FatNext == call = "fat" /\ Fat!Next /\ UNCHANGED <<call, at, extVars, ntfsVars, tombVars>>
NtfsNext ==
  call = "ntfs" /\ Ntfs!Next /\ UNCHANGED <<call, fileVars, output, extVars, fatVars, tombVars>>
TombNext ==
  call = "tombstone" /\ Tomb!Next /\ UNCHANGED <<call, fileVars, at, extVars, fatVars, ntfsVars>>

Next == ExtNext \/ FatNext \/ NtfsNext \/ TombNext

\* Nothing but the device and the output file is waited for, and each of their
\* calls returns: a step that can be taken is taken.
Spec == Init /\ [][Next]_vars /\ WF_vars(Next)

-----------------------------------------------------------------------------
\* Every variable of the component that runs keeps to its set of values.
TypeOK ==
  /\ call = "ext" => Ext!TypeOK
  /\ call = "fat" => Fat!TypeOK
  /\ call = "ntfs" => Ntfs!TypeOK
  /\ call = "tombstone" => Tomb!TypeOK

Written == IF call \in {"ext", "fat"} THEN output ELSE <<>>
Outcome ==
  CASE call = "ext" -> Ext!Outcome [] call = "fat" -> Fat!Outcome [] OTHER -> "running"

\* The contract of the recoveries that follow blocks or clusters: the output
\* grows and is never taken back, and a file recovered without the partial mark
\* has been written whole and in order, the holes of an inode as zeros.
Contract == INSTANCE RecoveredFile WITH output <- Written, outcome <- Outcome
KeepsContract == Contract!Spec

\* The partial mark can be relied on in both directions: an NTFS recovery that
\* reports no loss has written every stream whole, and an undamaged inode is not
\* marked partial, but for the cases that ExtRecovery names.
MarksAreRight ==
  /\ call = "ntfs" => Ntfs!UnmarkedIsWhole
  /\ call = "ext" => Ext!SoundIsWhole

\* What a recovery writes comes from the deleted file itself, each piece once and
\* in its place, whatever was given up on the way: the blocks under the pointers
\* and the extents of an inode (which has a place of its own in the tables), the
\* cells of an NTFS stream, the payload of the tombstone that was listed.
InPlace ==
  /\ call = "ext" => Ext!OrderKept /\ Ext!ExtentsInPlace /\ Ext!InodesHavePlaces
  /\ call = "ntfs" => Ntfs!CellsInPlace
  /\ call = "tombstone" => Tomb!OwnPayload

\* FAT: a chain that loops, through the table or through the neighbours taken
\* for one that was freed, puts no cluster into the file twice and takes none
\* that the table allocates to a file that exists.
NothingForeign == call = "fat" => Fat!NoClusterTwice /\ Fat!NeighboursAreFree

\* What the engine denies is not there: a stream reported as skipped was not
\* exported, a record reported missing is nowhere the search has to look, no
\* tombstone that stands free is missed, and none with a payload is refused.
NothingDenied ==
  /\ call = "ntfs" => Ntfs!SkippedIsTold /\ Ntfs!NotFoundIsAbsent
  /\ call = "tombstone" => Tomb!EveryDeletionListed /\ Tomb!RefusedIsWithoutPayload

\* Every recovery ends, whatever is on the volume, and until then its variables
\* keep to their sets of values.
Returned == []TypeOK /\ <>(pc = "done")

=============================================================================
