---------------------------- MODULE SourceAccess ----------------------------
(***************************************************************************)
(* From the list of sources to bytes: the shadow copies that Windows       *)
(* reports become sources (fr_list_vss_snapshots), a source is opened      *)
(* read-only (fr_open_source_session_readonly, fr-winio) and a range of it *)
(* is read, widened to the alignment of the device (read_from_session).    *)
(*                                                                         *)
(* The unit of a device is the granule its reads are counted in; a cell of *)
(* what was read is its place on the device.                               *)
(***************************************************************************)
EXTENDS Naturals, Sequences, FiniteSets

CONSTANTS
  Inputs,       \* what Windows answers when asked for shadow copies, and what is
                \* opened and read: see IsQuery and IsDevice
  DefaultScan,  \* DEFAULT_SCAN_BYTES, read of a source of unknown size
  MaxScan       \* MAX_SCAN_BYTES, the most that is read of a prefix

VARIABLES
  query,
  device,
  pc,
  snapshots,    \* the shadow copies listed, in order
  path,         \* the path opened, as normalised
  request,      \* what is read: its offset and length
  scratch,      \* the cells read so far, from the aligned offset on
  output,       \* the cells handed to the caller
  status

vars == <<query, device, pc, snapshots, path, request, scratch, output, status>>

-----------------------------------------------------------------------------
(* Shadow copies *)

\* shape: of the JSON PowerShell prints.  An entry without an id, or whose
\* device has no known form, is dropped; one that is mistyped fails the query.
\* time: a moment, 0 when there is none (a time no format fits is kept, and
\* ordered, as text; left out here).
IsQuery(q) ==
  /\ q.shape \in {"unavailable", "failed", "broken", "other", "empty", "list"}
  /\ q.entries \in Seq([id : Nat, device : {"global", "device", "doubled", "none", "other"},
                        time : Nat, typed : BOOLEAN])

QueryStatus == [unavailable |-> 61, failed |-> 62, broken |-> 63, other |-> 63]

\* normalize_device_object: three forms become \\?\GLOBALROOT\Device\...
HasDevice(e) == e.device \in {"global", "device", "doubled"}
Usable(e) == e.id # 0 /\ HasDevice(e)

Newer(a, b) == a.time > b.time \/ (a.time = b.time /\ a.id < b.id)

\* The sort is stable.
Ahead(i, j) ==
  LET a == query.entries[i]
      b == query.entries[j]
  IN  Newer(a, b) \/ (~Newer(b, a) /\ i < j)

Listed ==
  LET usable == {i \in DOMAIN query.entries : Usable(query.entries[i])}
      place(i) == Cardinality({j \in usable : Ahead(j, i)}) + 1
  IN  [n \in 1 .. Cardinality(usable) |->
         query.entries[CHOOSE i \in usable : place(i) = n]]

-----------------------------------------------------------------------------
(* Paths and sessions *)

\* A path: \\.\ or \\?\ or neither in front, and what it names.
Paths ==
  [prefix : {"dot", "question", "none"},
   names : {"nothing", "drive", "letter", "disk", "number", "snapshot", "file"}]

InvalidPath == [prefix |-> "none", names |-> "nothing"]

NormalisedVolume(p) ==
  CASE p.prefix = "dot" -> p
    [] p.prefix = "none" /\ p.names \in {"drive", "letter"} ->
         [prefix |-> "dot", names |-> "drive"]
    [] OTHER -> InvalidPath

NormalisedDisk(p) ==
  IF p \in {[prefix |-> "dot", names |-> "disk"], [prefix |-> "none", names |-> "number"]}
  THEN [prefix |-> "dot", names |-> "disk"]
  ELSE InvalidPath

Normalised(p, kind) ==
  CASE p = InvalidPath -> InvalidPath
    [] p # InvalidPath /\ kind = "image" -> p
    [] p # InvalidPath /\ kind = "volume" -> NormalisedVolume(p)
    [] OTHER -> NormalisedDisk(p)

\* sector: the granules of a sector, 0 where Windows does not tell; drive: the
\* 512 bytes taken then.  error: the status opening the path ends with, 0 for
\* none.  reported: does Windows tell the size.  most: the granules one read
\* returns at most.  broken: the granules that cannot be read.
IsDevice(d) ==
  /\ d.kind \in {"image", "volume", "disk"}
  /\ d.path \in Paths
  /\ d.size \in Nat /\ d.sector \in Nat /\ d.drive \in Nat \ {0}
  /\ d.error \in {0, 11, 12, 13, 14} /\ d.reported \in BOOLEAN
  /\ d.most \in Nat \ {0} /\ d.broken \subseteq Nat
  /\ d.wants \in {"range", "prefix", "raw"} /\ d.offset \in Nat /\ d.length \in Nat

SourceAssumption ==
  /\ \A i \in Inputs : IsQuery(i.query) /\ IsDevice(i.device)
  /\ DefaultScan \in Nat \ {0} /\ MaxScan \in Nat \ {0}

\* alignment_strategy; an image has none.
Alignment ==
  CASE device.kind = "image" -> 1
    [] device.kind # "image" /\ device.sector = 0 -> device.drive
    [] OTHER -> device.sector

SizeKnown == device.reported \/ (device.kind = "disk" /\ device.sector # 0)

SmallerOf(a, b) == IF a <= b THEN a ELSE b

Nothing == [offset |-> 0, length |-> 0]

Init ==
  /\ \E i \in Inputs : query = i.query /\ device = i.device
  /\ pc = "list"
  /\ snapshots = <<>>
  /\ path = InvalidPath
  /\ request = Nothing
  /\ scratch = <<>>
  /\ output = <<>>
  /\ status = 0

Returns(s) ==
  /\ pc' = "done"
  /\ status' = s
  /\ UNCHANGED <<query, device, snapshots, path, request, scratch, output>>

\* The sources are listed; a failed query only leaves out the shadow copies.
ListSnapshots ==
  /\ pc = "list"
  /\ pc' = "open"
  /\ IF query.shape \in DOMAIN QueryStatus
     THEN status' = QueryStatus[query.shape] /\ UNCHANGED snapshots
     ELSE IF \E i \in DOMAIN query.entries : ~query.entries[i].typed
     THEN status' = 63 /\ UNCHANGED snapshots
     ELSE status' = 0 /\ snapshots' = Listed
  /\ UNCHANGED <<query, device, path, request, scratch, output>>

Open ==
  /\ pc = "open"
  /\ LET p == Normalised(device.path, device.kind)
     IN IF p = InvalidPath THEN Returns(10)
        ELSE IF device.error # 0 THEN Returns(device.error)
        ELSE /\ path' = p
             /\ pc' = "ready"
             /\ status' = 0
             /\ UNCHANGED <<query, device, snapshots, request, scratch, output>>

-----------------------------------------------------------------------------
(* Reading *)

\* ReadFile: what one read at an offset yields.
Available(offset, length) ==
  SmallerOf(SmallerOf(length, device.most),
            IF offset < device.size THEN device.size - offset ELSE 0)
Hits(offset, n) == \E i \in offset .. offset + n - 1 : i \in device.broken

\* fr_read_source_session: one read, as the caller asks for it.
ReadRaw ==
  /\ pc = "ready" /\ device.wants = "raw"
  /\ request' = [offset |-> device.offset, length |-> device.length]
  /\ LET n == Available(device.offset, device.length)
     IN /\ pc' = "done"
        /\ IF device.length = 0 THEN status' = 0 /\ UNCHANGED output
           ELSE IF device.offset % Alignment # 0 \/ device.length % Alignment # 0
           THEN status' = 16 /\ UNCHANGED output
           ELSE IF Hits(device.offset, n) THEN status' = 14 /\ UNCHANGED output
           ELSE /\ status' = 0
                /\ output' = [i \in 1 .. n |-> device.offset + i - 1]
  /\ UNCHANGED <<query, device, snapshots, path, scratch>>

\* read_prefix_for_*_scan: from the start, as much as there is.
ScanLength ==
  SmallerOf(IF SizeKnown THEN device.size ELSE DefaultScan, MaxScan)

Wanted ==
  IF device.wants = "prefix" THEN [offset |-> 0, length |-> ScanLength]
  ELSE [offset |-> device.offset, length |-> device.length]

StartRead ==
  /\ pc = "ready" /\ device.wants # "raw"
  /\ request' = Wanted
  /\ IF Wanted.length = 0 THEN pc' = "done" ELSE pc' = "read"
  /\ UNCHANGED <<query, device, snapshots, path, scratch, output, status>>

\* read_with_alignment: the range is widened to the alignment on both sides.
AlignedOffset == (request.offset \div Alignment) * Alignment
NextMultiple(n) == (n \div Alignment + 1) * Alignment     \* mutant of RoundUp
RoundUp(n) == ((n + Alignment - 1) \div Alignment) * Alignment
AlignedLength == RoundUp(request.offset - AlignedOffset + request.length)

\* read_exact, one read of it: the rest of the range from where the last read
\* ended.  A read of nothing is the end of the source (31), a misaligned one an
\* error.
AtEnd(n) == n = 0

ReadOn ==
  /\ pc = "read" /\ Len(scratch) < AlignedLength
  /\ LET offset == AlignedOffset + Len(scratch)
         rest == AlignedLength - Len(scratch)
         n == Available(offset, rest)
     IN CASE offset % Alignment # 0 \/ rest % Alignment # 0 -> Returns(16)
          [] (offset % Alignment = 0 /\ rest % Alignment = 0) /\ Hits(offset, n) -> Returns(14)
          [] (offset % Alignment = 0 /\ rest % Alignment = 0) /\ AtEnd(n) -> Returns(31)
          [] OTHER ->
               /\ scratch' = scratch \o [i \in 1 .. n |-> offset + i - 1]
               /\ UNCHANGED <<query, device, pc, snapshots, path, request, output, status>>

Skipped == request.offset - AlignedOffset + 1

HandOver ==
  /\ pc = "read" /\ Len(scratch) >= AlignedLength
  /\ pc' = "done"
  /\ output' = SubSeq(scratch, Skipped, Skipped + request.length - 1)
  /\ UNCHANGED <<query, device, snapshots, path, request, scratch, status>>

Next == ListSnapshots \/ Open \/ ReadRaw \/ StartRead \/ ReadOn \/ HandOver

Spec == Init /\ [][Next]_vars

-----------------------------------------------------------------------------
(* Properties *)

\* Every variable stays in its domain; what is read never exceeds what was
\* asked for.
TypeOK ==
  /\ pc \in {"list", "open", "ready", "read", "done"}
  /\ path \in Paths
  /\ status \in {0, 10, 11, 12, 13, 14, 16, 31, 61, 62, 63}
  /\ pc = "read" => Len(scratch) <= AlignedLength
  /\ Len(output) <= request.length

\* The bytes handed to the caller are those of the range asked for, whatever
\* the alignment and however short the single reads; and all of them.
ReadsTheRange ==
  pc = "done" /\ status = 0 /\ device.wants # "raw" =>
    output = [i \in 1 .. request.length |-> request.offset + i - 1]

\* A readable range inside a device of whole sectors is read: widening it
\* neither runs over the end nor fails for a sector it does not touch.
InsideIsRead ==
  LET sectors == {i \in 0 .. device.size - 1 :
                    /\ i >= AlignedOffset
                    /\ i < AlignedOffset + AlignedLength}
  IN pc = "done" /\ path # InvalidPath /\ device.wants # "raw"
     /\ device.size % Alignment = 0 /\ device.most % Alignment = 0
     /\ request.offset + request.length <= device.size
     /\ sectors \cap device.broken = {}
     => status = 0

\* The prefix of a source whose size is known is never beyond its end: a scan
\* is refused for a read error, never as an unreadable source.
PrefixIsThere ==
  pc = "done" /\ device.wants = "prefix" /\ path # InvalidPath /\ SizeKnown
  /\ device.size % Alignment = 0 /\ device.most % Alignment = 0
  => status \in {0, 14}

\* The shadow copies offered are usable ones, the newest first and those
\* without a time last.
SnapshotsInOrder ==
  \A i, j \in DOMAIN snapshots :
    i < j => /\ Usable(snapshots[i]) /\ Usable(snapshots[j])
             /\ snapshots[i].time >= snapshots[j].time

\* No usable shadow copy is left out of a list, and none is in it twice.
NoSnapshotLost ==
  pc # "list" /\ query.shape = "list" /\ (\A i \in DOMAIN query.entries : query.entries[i].typed)
  => LET usable == {i \in DOMAIN query.entries : Usable(query.entries[i])}
     IN  /\ Len(snapshots) = Cardinality(usable)
         /\ \A i \in usable : \E n \in DOMAIN snapshots : snapshots[n] = query.entries[i]
=============================================================================
