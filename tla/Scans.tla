------------------------------- MODULE Scans -------------------------------
(***************************************************************************)
(* The calls of the engine that look for deleted files, side by side:      *)
(* probing a volume, walking the directories of FAT and exFAT, parsing a   *)
(* record of the master file table, the quick scan over such records,      *)
(* reading a range of a source, and carving.  As in Recoveries no two      *)
(* run at once, and call says which one a behaviour is.                    *)
(***************************************************************************)
EXTENDS Naturals, Sequences

CONSTANTS
  ProbeVolumes, FatVolumes, QuickVolumes, EndVolumes, Records, Garbage,
  Inputs, CarveSources,                      \* what is scanned
  DefaultPrefix, MaxPrefix,                  \* of VolumeProbe
  Reserved, EOC, MaxClusters, MaxEntries,    \* of FatScan
  NameKey(_), EmptyLimit, MaxSegments, MaxNumber,   \* of QuickScan
  EndSegments,      \* MaxSegments where EndVolumes are scanned
  LongBytes,                                 \* of MftRecords
  DefaultScan, MaxScan,                      \* of SourceAccess
  Chunk, Overlap, Fallback, ScanDefault, Smallest   \* of CarveScan

VARIABLES
  call,
  volume, pc, status,                              \* of several components
  at,                                              \* of VolumeProbe and FatScan
  probe, geometry, loaded,                         \* of VolumeProbe
  queue, visited, rest, parts, entries,            \* of FatScan
  index, empties, errors, candidates, listed,      \* of QuickScan
  record, sector, restored, cursor, attributes,    \* of MftRecords
  query, device, snapshots, path, request, scratch, output,   \* of SourceAccess
  source, offset, answer, aggregated               \* of CarveScan

Probe == INSTANCE VolumeProbe WITH Volumes <- ProbeVolumes
Fat == INSTANCE FatScan WITH Volumes <- FatVolumes, ReadError <- 32
Quick == INSTANCE QuickScan WITH Volumes <- QuickVolumes, ReadError <- 15
\* The scans that are also checked to return: TLC would take too long to decide
\* whether the reconstruction of long paths is enabled.
End == INSTANCE QuickScan WITH
  Volumes <- EndVolumes, MaxSegments <- EndSegments, ReadError <- 15
Mft == INSTANCE MftRecords
Access == INSTANCE SourceAccess
Carve == INSTANCE CarveScan WITH Sources <- CarveSources

ASSUME ScansAssumption ==
  /\ Probe!VolumeAssumption /\ Fat!VolumesAssumption
  /\ Quick!QuickScanAssumption /\ Mft!RecordsAssumption
  /\ Access!SourceAssumption /\ Carve!CarveAssumption

probeVars == <<probe, geometry, loaded>>
fatVars == <<queue, visited, rest, parts, entries>>
quickVars == <<index, empties, errors, candidates, listed>>
mftVars == <<record, sector, restored, cursor, attributes>>
accessVars == <<query, device, snapshots, path, request, scratch, output>>
carveVars == <<source, offset, answer, aggregated>>
vars == <<call, volume, pc, status, at, probeVars, fatVars, quickVars, mftVars,
          accessVars, carveVars>>

NoProbe == probe = <<>> /\ geometry = <<>> /\ loaded = <<>>
NoFat == queue = <<>> /\ visited = <<>> /\ rest = <<>> /\ parts = <<>> /\ entries = <<>>
NoQuick ==
  index = <<>> /\ empties = <<>> /\ errors = <<>> /\ candidates = <<>> /\ listed = <<>>
NoMft ==
  record = <<>> /\ sector = <<>> /\ restored = <<>> /\ cursor = <<>> /\ attributes = <<>>
NoAccess ==
  /\ query = <<>> /\ device = <<>> /\ snapshots = <<>> /\ path = <<>>
  /\ request = <<>> /\ scratch = <<>> /\ output = <<>>
NoCarve == source = <<>> /\ offset = <<>> /\ answer = <<>> /\ aggregated = <<>>
NoList == NoProbe /\ NoFat /\ NoQuick /\ NoMft
NoRead == NoAccess /\ NoCarve

Init ==
  \/ call = "probe" /\ Probe!Init /\ NoFat /\ NoQuick /\ NoMft /\ NoRead
  \/ call = "fat" /\ Fat!Init /\ NoProbe /\ NoQuick /\ NoMft /\ NoRead
  \/ call = "quick" /\ Quick!Init /\ at = <<>> /\ NoProbe /\ NoFat /\ NoMft /\ NoRead
  \/ call = "end" /\ End!Init /\ at = <<>> /\ NoProbe /\ NoFat /\ NoMft /\ NoRead
  \/ /\ call = "mft" /\ Mft!Init
     /\ volume = <<>> /\ at = <<>> /\ NoProbe /\ NoFat /\ NoQuick /\ NoRead
  \/ call = "access" /\ Access!Init /\ volume = <<>> /\ at = <<>> /\ NoList /\ NoCarve
  \/ call = "carve" /\ Carve!Init /\ volume = <<>> /\ at = <<>> /\ NoList /\ NoAccess

readVars == <<accessVars, carveVars>>
ProbeNext ==
  call = "probe" /\ Probe!Next /\ UNCHANGED <<call, fatVars, quickVars, mftVars, readVars>>
FatNext ==
  call = "fat" /\ Fat!Next /\ UNCHANGED <<call, probeVars, quickVars, mftVars, readVars>>
QuickNext ==
  call = "quick" /\ Quick!Next /\ UNCHANGED <<call, at, probeVars, fatVars, mftVars, readVars>>
EndNext ==
  call = "end" /\ End!Next /\ UNCHANGED <<call, at, probeVars, fatVars, mftVars, readVars>>
MftNext ==
  /\ call = "mft" /\ Mft!Next
  /\ UNCHANGED <<call, volume, at, probeVars, fatVars, quickVars, readVars>>
listVars == <<volume, at, probeVars, fatVars, quickVars, mftVars>>
AccessNext == call = "access" /\ Access!Next /\ UNCHANGED <<call, listVars, carveVars>>
CarveNext == call = "carve" /\ Carve!Next /\ UNCHANGED <<call, listVars, accessVars>>

FairNext == ProbeNext \/ FatNext \/ EndNext \/ MftNext \/ AccessNext \/ CarveNext
Next == FairNext \/ QuickNext

\* A call waits for nothing but the device, which answers or fails.
Spec == Init /\ [][Next]_vars /\ WF_vars(FairNext)

-----------------------------------------------------------------------------
\* Every variable of the component that runs keeps to its set of values.
TypeOK ==
  /\ call = "probe" => Probe!TypeOK
  /\ call = "fat" => Fat!TypeOK
  /\ call = "quick" => Quick!TypeOK
  /\ call = "end" => End!TypeOK
  /\ call = "mft" => Mft!TypeOK
  /\ call = "access" => Access!TypeOK
  /\ call = "carve" => Carve!TypeOK

\* Volumes are taken for what they are: nothing a scan divides or steps by is 0
\* whatever a header says, an intact volume is listed as the file system it was
\* formatted with, and the listing accepts what the probe accepts.  The shadow
\* copies offered are the usable ones, all of them, the newest first.
VolumesAreListed ==
  /\ call = "probe" =>
       Probe!GeometrySound /\ Probe!FormattedIsListed /\ Probe!ListingAgrees
  /\ call = "access" => Access!SnapshotsInOrder /\ Access!NoSnapshotLost

\* FAT: a scan that succeeds lists every deleted entry of the tree once, and each
\* under its own name, not that of a slot before it.
WholeTree == call = "fat" => Fat!WholeTree /\ Fat!OwnName

\* Quick scan: every record before the end of the table becomes a candidate, a
\* deletion that only the journal knows is listed, and the journal takes nothing
\* away from what the table says.
NothingPassedOver ==
  call = "quick" => Quick!TableIsSeen /\ Quick!DeletionsListed /\ Quick!CertaintyKept

\* Quick scan: the journal's last name of a file wins in whatever order it was
\* read, the paths of a list agree with each other also after the journal renamed
\* directories, and of the table's files the deleted and newest come first.
PathsAgree ==
  call = "quick" => Quick!PathsAgree /\ Quick!NewestName /\ Quick!RecentFirst

\* Records: an attribute is never put together from two writes, attributes keep
\* to bytes of their own, and what was written whole is parsed, with the cluster
\* runs as encoded.
RecordsAreGenuine ==
  call = "mft" => Mft!OneWrite /\ Mft!OwnBytes /\ Mft!WrittenIsParsed

\* Reading: what is handed over is the range asked for, and all of it; widening
\* it to whole sectors never makes a readable one fail, and the prefix of a
\* source of known size is never refused as too short.
ReadsTheRange ==
  call = "access" => Access!ReadsTheRange /\ Access!InsideIsRead /\ Access!PrefixIsThere

\* Carving: a candidate lies in the source, begins with a head of its format and,
\* when it is not marked partial and its end can be told, holds its file; a file
\* no longer than the overlap is found whole, also at the seam of two windows.
CarvedIsReal ==
  call = "carve" => Carve!RangesAreReal /\ Carve!UnmarkedIsWhole /\ Carve!ShortFilesFound

\* Every call returns, whatever stands on the volume, or is canceled between two
\* probes; until then its variables keep to their sets of values.
Returned == []TypeOK /\ (call # "quick" => <>(pc \in {"done", "cancelled"}))

=============================================================================
