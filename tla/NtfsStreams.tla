---------------------------- MODULE NtfsStreams ----------------------------
(***************************************************************************)
(* fr_recover_ntfs_candidate_to_file(_ex): the record of a deleted file is *)
(* looked for in the MFT, its unnamed data stream is copied to the output  *)
(* file and every named stream to a sidecar file beside it.  A stream is   *)
(* resident, mapped to clusters, or mapped to compression units.           *)
(*                                                                         *)
(* The unit is a cluster.  A cell of an output file is the cluster it was  *)
(* read from, 0 for a hole, or -i where cell i of the stream comes out of  *)
(* the decompression of its unit.                                          *)
(***************************************************************************)
EXTENDS Integers, Sequences, FiniteSets, SequencesExt

CONSTANTS
  Volumes,      \* the volumes with the record asked for: see IsVolume
  MaxRecords,   \* max_records
  MaxEmpty,     \* MAX_CONSECUTIVE_EMPTY_MFT_RECORDS
  MaxExponent,  \* NTFS_MAX_REASONABLE_COMPRESSION_UNIT_EXPONENT
  ReadError     \* the status an error of the device becomes

VARIABLES
  volume,
  contents,   \* of each selected stream, as far as it can be told
  pc,
  at,         \* the number of records read
  empties,    \* consecutive_empty_records
  k,          \* the place of the stream in Selected
  vcn,        \* the clusters of its runs behind the copy
  files,      \* the files written: their cells by path, <<>> is the output path
  partial,
  exported,   \* the streams counted as exported
  flags,      \* diagnostics_flags
  status

vars ==
  <<volume, contents, pc, at, empties, k, vcn, files, partial, exported, flags, status>>

-----------------------------------------------------------------------------
\* 1 << exponent.
UnitOf(s) ==
  LET power[e \in 0 .. s.exponent] == IF e = 0 THEN 1 ELSE 2 * power[e - 1]
  IN power[s.exponent]

InUnits(s) == s.form = "mapped" /\ s.compressed /\ ~s.encrypted

\* name: the sanitised name in lower case as a sequence, <<>> for the unnamed
\* stream; <<"a", 2>> stands for "a-2".  cells: the runs, cluster by cluster: 0
\* where the run is sparse, -1 where its cluster is negative; the value when
\* resident.  decoded: how many cells a unit decompresses to, 0 when it fails.
IsStream(s) ==
  /\ s.form \in {"resident", "mapped"}
  /\ s.compressed \in BOOLEAN /\ s.encrypted \in BOOLEAN
  /\ s.size \in Nat /\ s.exponent \in Nat
  /\ s.cells \in Seq(Int) /\ s.decoded \in Seq(Nat)
  /\ s.form = "resident" => s.size = Len(s.cells)
  /\ InUnits(s) => Len(s.cells) <= Len(s.decoded) * UnitOf(s)

Empty == -3

\* mft: the number of the record at each place, Empty for an empty one, -1 for
\* one that does not parse and -2 where reading is an error.  lost: the clusters
\* that cannot be read; far: those whose offset overflows.
IsVolume(v) ==
  /\ v.access \in {"ok", "path", "session", "short", "device", "boot",
                   "recordsize", "mft", "parent"}
  /\ v.mft \in Seq(Int) /\ v.asked \in Nat
  /\ Len(v.streams) \in Nat /\ DOMAIN v.streams = 1 .. Len(v.streams)
  /\ \A i \in DOMAIN v.streams : IsStream(v.streams[i])
  /\ v.lost \cup v.far \subseteq Nat
  /\ \A p \in v.uncreatable : IsFiniteSet(DOMAIN p)

StreamsAssumption ==
  /\ \A v \in Volumes : IsVolume(v)
  /\ MaxRecords \in Nat /\ MaxEmpty \in Nat \ {0} /\ MaxExponent \in Nat
  /\ ReadError \in Nat \ {0, 47}

AccessStatus ==
  [path |-> 43, session |-> 20, short |-> 31, device |-> ReadError, boot |-> 30,
   recordsize |-> 32, mft |-> 33]

\* The streams that are exported: the first unnamed one, then the named ones.
UnnamedOf(v) == {i \in DOMAIN v.streams : v.streams[i].name = <<>>}
NamedOf(v) ==
  LET named[n \in 0 .. Len(v.streams)] ==
        IF n = 0 THEN <<>>
        ELSE IF v.streams[n].name = <<>> THEN named[n - 1]
        ELSE Append(named[n - 1], v.streams[n])
  IN named[Len(v.streams)]
SelectedOf(v) ==
  (IF UnnamedOf(v) = {} THEN <<>>
   ELSE <<v.streams[CHOOSE i \in UnnamedOf(v) : \A j \in UnnamedOf(v) : i <= j]>>)
  \o NamedOf(v)
Selected == SelectedOf(volume)

\* build_named_stream_output_path: streams are told apart by the names that
\* sanitize_windows_path_component leaves, in lower case.  The second stream of a
\* name has "-2" after it.
Path(i) ==
  LET occurrence == Cardinality({j \in 1 .. i : Selected[j].name = Selected[i].name})
  IN IF Selected[i].name = <<>> \/ occurrence = 1 THEN Selected[i].name
     ELSE Append(Selected[i].name, occurrence)

Stream == Selected[k]
Output == files[Path(k)]
Remaining == Stream.size - Len(Output)

SmallerOf(a, b) == IF a <= b THEN a ELSE b

\* The cells of the compression unit that holds cell i, as far as runs cover it.
UnitCells(s, i) ==
  LET first == ((i - 1) \div UnitOf(s)) * UnitOf(s)
  IN SubSeq(s.cells, first + 1, SmallerOf(first + UnitOf(s), Len(s.cells)))

AllHoles(cells) == cells # <<>> /\ \A i \in DOMAIN cells : cells[i] = 0
IsRaw(s, cells) == Len(cells) = UnitOf(s) /\ \A i \in DOMAIN cells : cells[i] # 0

\* What cell i of a stream holds; beyond its runs nothing is known of it.
ContentOf(s) ==
  [i \in 1 .. s.size |->
     IF ~InUnits(s)
     THEN IF i <= Len(s.cells) THEN s.cells[i] ELSE 0 - i
     ELSE LET unit == UnitCells(s, i)
          IN CASE AllHoles(unit) -> 0
               [] IsRaw(s, unit) -> s.cells[i]
               [] OTHER -> 0 - i]

Reading(c) ==
  CASE c < 0 \/ c \in volume.lost -> "short"
    [] c \in volume.far -> "overflow"
    [] OTHER -> "ok"

\* The first cell of a sequence that cannot be read decides; holes are not read.
ReadingAll(cells) ==
  LET bad == {i \in DOMAIN cells : cells[i] # 0 /\ Reading(cells[i]) # "ok"}
  IN IF bad = {} THEN "ok"
     ELSE Reading(cells[CHOOSE i \in bad : \A j \in bad : i <= j])

-----------------------------------------------------------------------------
Init ==
  /\ volume \in Volumes
  /\ contents = [i \in DOMAIN SelectedOf(volume) |-> ContentOf(SelectedOf(volume)[i])]
  /\ pc = "open"
  /\ at = 0
  /\ empties = 0
  /\ k = 1
  /\ vcn = 0
  /\ files = [p \in {} |-> <<>>]
  /\ partial = FALSE
  /\ exported = {}
  /\ flags = {}
  /\ status = 0

Returns(s) ==
  /\ pc' = "done"
  /\ status' = s
  /\ UNCHANGED <<volume, contents, at, empties, k, vcn, files, exported>>

Error(s) == Returns(s) /\ UNCHANGED <<partial, flags>>

Open ==
  /\ pc = "open"
  /\ IF volume.access \in DOMAIN AccessStatus THEN Error(AccessStatus[volume.access])
     ELSE /\ pc' = "mft"
          /\ UNCHANGED <<volume, contents, at, empties, k, vcn, files, partial,
                         exported, flags, status>>

\* The MFT is read record by record from its first cluster, as if it were
\* contiguous.
EmptiesAfter(n) == IF n = Empty THEN empties + 1 ELSE 0

SearchRecord ==
  LET n == volume.mft[at + 1]
  IN /\ pc = "mft" /\ at < MaxRecords /\ at < Len(volume.mft)
     /\ n # -2
     /\ at' = at + 1
     /\ empties' = EmptiesAfter(n)
     /\ CASE n = Empty /\ EmptiesAfter(n) >= MaxEmpty -> pc' = "absent"
          [] n = volume.asked -> pc' = "select"
          [] OTHER -> pc' = "mft"
     /\ UNCHANGED <<volume, contents, k, vcn, files, partial, exported, flags, status>>

SearchEnds ==
  /\ \/ pc = "absent"
     \/ pc = "mft" /\ (at = MaxRecords \/ at = Len(volume.mft))
  /\ Error(41)

SearchError ==
  /\ pc = "mft" /\ at < MaxRecords /\ at < Len(volume.mft)
  /\ volume.mft[at + 1] = -2
  /\ Error(ReadError)

SelectStreams ==
  LET attributes == DOMAIN volume.streams
      has(test(_), flag) == IF \E i \in attributes : test(volume.streams[i]) THEN {flag} ELSE {}
      found == has(LAMBDA s : s.compressed, "compressed")
               \cup has(LAMBDA s : s.encrypted, "encrypted")
               \cup has(LAMBDA s : s.name # <<>>, "named")
  IN /\ pc = "select"
     /\ IF volume.access = "parent" THEN Error(44)
        ELSE IF Selected = <<>> THEN Returns(42) /\ flags' = found /\ UNCHANGED partial
        ELSE /\ pc' = "create"
             /\ partial' = (UnnamedOf(volume) = {})
             /\ flags' = found \cup (IF UnnamedOf(volume) = {} THEN {"nodefault"} ELSE {})
             /\ UNCHANGED <<volume, contents, at, empties, k, vcn, files, exported,
                            status>>

IsDefault == Stream.name = <<>>

\* The stream ends the call when it is the default one; a named stream is
\* skipped, and its file removed when it was created, as far as that works.
WithoutFile == [p \in DOMAIN files \ {Path(k)} |-> files[p]]
SkipStream(kept) ==
  /\ pc' = "create"
  /\ k' = k + 1
  /\ files' = kept
  /\ partial' = TRUE
  /\ flags' = flags \cup {"skipped"}
  /\ UNCHANGED <<volume, contents, at, empties, vcn, exported, status>>

Fails(s) ==
  \/ IsDefault /\ Error(s)
  \/ ~IsDefault /\ (SkipStream(files) \/ SkipStream(WithoutFile))

\* File::create empties the file that is there.
CreateFile ==
  /\ pc = "create" /\ k <= Len(Selected)
  /\ IF Path(k) \in volume.uncreatable
     THEN \/ IsDefault /\ Error(44)
          \/ ~IsDefault /\ SkipStream(files)
     ELSE /\ files' = [p \in DOMAIN files \cup {Path(k)} |->
                         IF p = Path(k) THEN <<>> ELSE files[p]]
          /\ pc' = "copy"
          /\ vcn' = 0
          /\ flags' = flags \cup (IF Stream.encrypted THEN {"unsupportedencrypted"} ELSE {})
          /\ UNCHANGED <<volume, contents, at, empties, k, partial, exported, status>>

Writes(cells, clusters) ==
  /\ files' = [files EXCEPT ![Path(k)] = @ \o cells]
  /\ vcn' = vcn + clusters
  /\ UNCHANGED <<volume, contents, at, empties, k, partial, exported, status>>

\* The stream is counted as exported, whole or not.
EndUnmarked(part) ==                                   \* mutant of EndStream
  /\ pc' = "create"
  /\ k' = k + 1
  /\ exported' = exported \cup {k}
  /\ partial' = (partial \/ Stream.encrypted)
  /\ UNCHANGED <<volume, contents, at, empties, vcn, files, status>>
EndStream(part) ==
  /\ pc' = "create"
  /\ k' = k + 1
  /\ exported' = exported \cup {k}
  /\ partial' = (partial \/ part \/ Stream.encrypted)
  /\ UNCHANGED <<volume, contents, at, empties, vcn, files, status>>

WriteFails == Fails(44)

CopyResident ==
  /\ pc = "copy" /\ Stream.form = "resident"
  /\ \/ Stream.compressed /\ Fails(45)
     \/ ~Stream.compressed /\ WriteFails
     \/ /\ ~Stream.compressed
        /\ pc' = "end"
        /\ Writes(Stream.cells, Len(Stream.cells))
        /\ UNCHANGED flags

\* recover_non_resident_data: a hole is written as zeros; the copy ends at the
\* first cluster that cannot be read and at the end of the runs.
CopyCluster ==
  /\ pc = "copy" /\ Stream.form = "mapped" /\ ~InUnits(Stream)
  /\ Remaining > 0 /\ vcn < Len(Stream.cells)
  /\ LET c == Stream.cells[vcn + 1]
     IN \/ c # 0 /\ Reading(c) = "short" /\ EndStream(TRUE) /\ UNCHANGED flags
        \/ c # 0 /\ Reading(c) = "overflow" /\ Fails(33)
        \/ (c = 0 \/ Reading(c) = "ok") /\ WriteFails
        \/ /\ c = 0 \/ Reading(c) = "ok"
           /\ Writes(<<c>>, 1)
           /\ flags' = flags \cup (IF c = 0 THEN {"zerofilled"} ELSE {})
           /\ UNCHANGED pc

UnitTooLarge ==
  /\ pc = "copy" /\ InUnits(Stream)
  /\ Stream.exponent > MaxExponent
  /\ Fails(45)

Target == SmallerOf(Remaining, UnitOf(Stream))

AfterUnit(decoded) == IF decoded < Target THEN "short" ELSE "copy"

\* What is left of its unit when the padding is off and it is decompressed,
\* cut to the target; 0 when nothing is or the decompression fails.
Decoded == SmallerOf(Stream.decoded[(vcn \div UnitOf(Stream)) + 1], Target)

\* recover_non_resident_compressed_data, one unit: zeros for one without
\* clusters, the clusters of a full one, the decompression of any other.
CopyUnit ==
  /\ pc = "copy" /\ InUnits(Stream) /\ Stream.exponent <= MaxExponent
  /\ Remaining > 0 /\ vcn < Len(Stream.cells)
  /\ LET unit == UnitCells(Stream, vcn + 1)
         target == Target
         decoded == Decoded
         told == flags \cup {"unsupportedcompressed"}
     IN CASE AllHoles(unit) ->
               \/ WriteFails
               \/ /\ Writes([i \in 1 .. target |-> 0], Len(unit))
                  /\ flags' = flags \cup {"zerofilled"}
                  /\ UNCHANGED pc
          [] ~AllHoles(unit) /\ ReadingAll(unit) = "short" ->
               EndStream(TRUE) /\ UNCHANGED flags
          [] ~AllHoles(unit) /\ ReadingAll(unit) = "overflow" -> Fails(33)
          [] ~AllHoles(unit) /\ ReadingAll(unit) = "ok" /\ IsRaw(Stream, unit) ->
               \/ WriteFails
               \/ Writes(SubSeq(unit, 1, target), Len(unit)) /\ UNCHANGED <<pc, flags>>
          [] OTHER ->
               \/ decoded = 0 /\ EndStream(TRUE) /\ flags' = told
               \/ decoded > 0 /\ WriteFails
               \/ /\ decoded > 0
                  /\ Writes([i \in 1 .. decoded |-> 0 - (vcn + i)], Len(unit))
                  /\ pc' = AfterUnit(decoded)
                  /\ flags' = IF decoded < target THEN told ELSE flags

\* All of the stream is written, or its runs end before.
StreamEnds == Remaining = 0 \/ vcn >= Len(Stream.cells)

FinishStream ==
  /\ \/ pc \in {"short", "end"}
     \/ /\ pc = "copy" /\ Stream.form = "mapped"
        /\ InUnits(Stream) => Stream.exponent <= MaxExponent
        /\ StreamEnds
  /\ EndStream(Remaining > 0)
  /\ UNCHANGED flags

Finish ==
  /\ pc = "create" /\ k > Len(Selected)
  /\ UNCHANGED partial
  /\ IF exported = {} THEN Returns(47) /\ flags' = flags \cup {"skipped"}
     ELSE /\ Returns(0)
          /\ flags' = flags \cup (IF \E i \in exported : Selected[i].name # <<>>
                                  THEN {"exported"} ELSE {})

Next ==
  \/ Open \/ SearchRecord \/ SearchEnds \/ SearchError \/ SelectStreams
  \/ CreateFile \/ CopyResident \/ CopyCluster \/ UnitTooLarge \/ CopyUnit
  \/ FinishStream \/ Finish

Spec == Init /\ [][Next]_vars

-----------------------------------------------------------------------------
(* Properties *)

Flags ==
  {"compressed", "encrypted", "named", "nodefault", "exported", "skipped", "zerofilled",
   "unsupportedcompressed", "unsupportedencrypted"}

\* Every variable stays in its domain, and no file is longer than its stream.
TypeOK ==
  /\ pc \in {"open", "mft", "absent", "select", "create", "copy", "short", "end", "done"}
  /\ at \in 0 .. MaxRecords
  /\ empties \in 0 .. MaxEmpty
  /\ k \in 1 .. Len(Selected) + 1
  /\ exported \subseteq DOMAIN Selected
  /\ partial \in BOOLEAN
  /\ flags \subseteq Flags
  /\ pc \in {"copy", "short", "end"} => Path(k) \in DOMAIN files /\ Remaining >= 0

Done == pc = "done" /\ status = 0

\* No two streams of the file are sent to one path.
PathsDiffer ==
  \A i, j \in DOMAIN Selected : i # j => Path(i) # Path(j)

\* A recovery that reports no loss has written every stream of the file whole:
\* also the holes, the raw and the decompressed units, also when streams have
\* the same name.
UnmarkedIsWhole ==
  Done /\ ~partial /\ PathsDiffer =>
    \A i \in DOMAIN Selected :
      /\ Path(i) \in DOMAIN files
      /\ files[Path(i)] = contents[i]

\* What is written of a stream is in its place: a failed read, a unit that does
\* not decompress or a lost sidecar shifts no data of this or another stream.
CellsInPlace ==
  PathsDiffer =>
    \A i \in DOMAIN Selected :
      Path(i) \in DOMAIN files => IsPrefix(files[Path(i)], contents[i])

\* The streams reported as skipped are those that are not there: without that
\* report every stream was exported
\* (src/docs/recovery-pipeline.md:61 "exported/skipped stream diagnostics").
SkippedIsTold ==
  Done => (("skipped" \in flags) <=> (exported # DOMAIN Selected))

\* A record is reported as not found only when none of the records that were
\* looked at has its number, and those that were not lie behind MaxEmpty empty
\* ones or MaxRecords.
NotFoundIsAbsent ==
  pc = "done" /\ status = 41 =>
    \A i \in DOMAIN volume.mft :
      volume.mft[i] = volume.asked =>
        \/ i > MaxRecords
        \/ \E j \in 1 .. i : /\ j + MaxEmpty <= i
                             /\ \A n \in j .. j + MaxEmpty - 1 : volume.mft[n] = Empty
=============================================================================
