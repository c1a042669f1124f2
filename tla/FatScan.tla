------------------------------ MODULE FatScan ------------------------------
(***************************************************************************)
(* fr_get_fat_deleted_candidates_from_session and the scan of fr-fat: the  *)
(* directories of a FAT32 or exFAT volume are walked breadth first from    *)
(* the root, deleted directories included, and deleted entries are listed. *)
(*                                                                         *)
(* A directory cluster is a sequence of slots of 32 bytes.  Only a prefix  *)
(* of the volume is in memory; what lies behind it cannot be read.         *)
(***************************************************************************)
EXTENDS Naturals, Sequences, FiniteSets, FiniteSetsExt

CONSTANTS
  Volumes,      \* the volumes scanned: see IsVolume
  Reserved,     \* the least reserved table entry (FAT_CHAIN_RESERVED_MIN)
  EOC,          \* the least entry that ends a chain (FAT_CHAIN_EOC_MIN)
  MaxClusters,  \* clusters of one directory (256 in the code)
  MaxEntries,   \* candidates of one scan
  ReadError     \* the status an error of the device becomes

VARIABLES
  volume,
  pc,
  queue,        \* directories to scan: [cluster, path]
  visited,      \* clusters of the directories scanned
  at,           \* the directory being scanned: [cluster, path]
  rest,         \* its slots not yet looked at
  parts,        \* long_name_parts
  entries,
  status

vars == <<volume, pc, queue, visited, at, rest, parts, entries, status>>

-----------------------------------------------------------------------------
\* FAT32 has long and short slots, exFAT sets of count secondary slots.  text
\* is a part of a name, <<file, number of the part>>; NoText is an empty one.
NoText == <<"none", 0>>
Slot ==
  [kind : {"end", "long", "short", "set", "stream", "name", "other", "outside"},
   text : STRING \X Nat, deleted : BOOLEAN, label : BOOLEAN, dir : BOOLEAN,
   start : Nat, count : Nat]

IsVolume(v) ==
  /\ v.access \in {"ok", "session", "device", "short", "boot"}
  /\ v.exfat \in BOOLEAN /\ v.root \in Nat /\ v.last \in Nat
  /\ v.table \in [2 .. v.last -> Nat]
  /\ v.slots \in [2 .. v.last -> Seq(Slot)]
  /\ ~v.exfat => \A c \in 2 .. v.last : \A i \in DOMAIN v.slots[c] :
                   v.slots[c][i].kind \in {"end", "long", "short"}
  /\ v.inside \subseteq 2 .. v.last

VolumesAssumption ==
  /\ \A v \in Volumes : IsVolume(v)
  /\ 2 < Reserved /\ Reserved < EOC
  /\ {MaxClusters, MaxEntries, ReadError} \subseteq Nat \ {0}

-----------------------------------------------------------------------------
(* Cluster chains *)

EndsChain(n) == n = 0 \/ n >= EOC
BadEntry(n) == n < 2 \/ n \in Reserved .. EOC - 1

\* collect_cluster_chain: the clusters from start on, and the status; 71 for
\* an entry that is no cluster, 31 for one outside the prefix, 73 for a loop,
\* 72 for a chain with no end within MaxClusters.
ChainStatusAt(c, k) ==
  IF \E j \in 1 .. k - 1 : c[j] = c[k] THEN 73
  ELSE IF c[k] \notin DOMAIN volume.table THEN 31
  ELSE IF EndsChain(volume.table[c[k]]) THEN 0
  ELSE 71

Chain(start) ==
  LET c[k \in 1 .. MaxClusters] ==
        IF k = 1 THEN start
        ELSE IF c[k - 1] \in DOMAIN volume.table THEN volume.table[c[k - 1]] ELSE 0
      stops == {k \in 1 .. MaxClusters :
                  \/ c[k] \notin DOMAIN volume.table
                  \/ \E j \in 1 .. k - 1 : c[j] = c[k]
                  \/ EndsChain(volume.table[c[k]]) \/ BadEntry(volume.table[c[k]])}
      last == Min(stops)
  IN CASE start < 2 -> [status |-> 71, clusters |-> <<>>]
       [] start >= 2 /\ stops = {} -> [status |-> 72, clusters |-> <<>>]
       [] OTHER -> [status |-> ChainStatusAt(c, last),
                    clusters |-> [k \in 1 .. last |-> c[k]]]

Outside == [kind |-> "outside", text |-> NoText, deleted |-> FALSE,
            label |-> FALSE, dir |-> FALSE, start |-> 0, count |-> 0]

SlotsOf(c) == IF c \in volume.inside THEN volume.slots[c] ELSE <<Outside>>

\* The slots of a chain, one cluster after the other.
Joined(clusters) ==
  LET upTo[k \in 0 .. Len(clusters)] ==
        IF k = 0 THEN <<>> ELSE upTo[k - 1] \o SlotsOf(clusters[k])
  IN upTo[Len(clusters)]

-----------------------------------------------------------------------------
Init ==
  /\ volume \in Volumes
  /\ pc = "open"
  /\ queue = <<>>
  /\ visited = {}
  /\ at = [cluster |-> 0, path |-> <<>>]
  /\ rest = <<>>
  /\ parts = <<>>
  /\ entries = <<>>
  /\ status = 0

Returns(s) ==
  /\ pc' = "done"
  /\ status' = s
  /\ UNCHANGED <<volume, queue, visited, at, rest, parts, entries>>

AccessStatus == [session |-> 20, device |-> ReadError, short |-> 31, boot |-> 70]

Open ==
  /\ pc = "open"
  /\ IF volume.access # "ok" THEN Returns(AccessStatus[volume.access])
     ELSE /\ pc' = "directories"
          /\ queue' = <<[cluster |-> volume.root, path |-> <<>>]>>
          /\ UNCHANGED <<volume, visited, at, rest, parts, entries, status>>

StillQueued == queue               \* mutant of Dropped: a directory seen stays
Dropped == Tail(queue)

\* The next directory; a chain that fails ends the scan.  exFAT reads the
\* whole chain at once, FAT32 cluster by cluster.
NextDirectory ==
  /\ pc = "directories" /\ queue # <<>>
  /\ LET d == Head(queue)
         chain == Chain(d.cluster)
         slots == Joined(chain.clusters)
     IN \/ /\ d.cluster \in visited
           /\ queue' = Dropped
           /\ UNCHANGED <<volume, pc, visited, at, rest, parts, entries, status>>
        \/ /\ d.cluster \notin visited /\ chain.status # 0
           /\ Returns(chain.status)
        \/ /\ d.cluster \notin visited /\ chain.status = 0
           /\ volume.exfat /\ Outside \in {slots[i] : i \in DOMAIN slots}
           /\ Returns(31)
        \/ /\ d.cluster \notin visited /\ chain.status = 0
           /\ ~volume.exfat \/ Outside \notin {slots[i] : i \in DOMAIN slots}
           /\ queue' = Dropped
           /\ visited' = visited \cup {d.cluster}
           /\ at' = d
           /\ rest' = slots
           /\ parts' = <<>>
           /\ pc' = "slots"
           /\ UNCHANGED <<volume, entries, status>>

AtEnd == IF rest = <<>> THEN TRUE ELSE Head(rest).kind = "end"

LeaveDirectory ==
  /\ pc = "slots" /\ AtEnd
  /\ pc' = "directories"
  /\ rest' = <<>>
  /\ UNCHANGED <<volume, queue, visited, at, parts, entries, status>>

-----------------------------------------------------------------------------
(* Entries *)

\* The name of an entry: the long parts before it, or its short name.
KeptParts == parts                  \* mutant of PartsAfter
PartsAfter == <<>>
NameOf(slot) ==
  IF parts # <<>> THEN parts
  ELSE IF slot.text = NoText THEN <<>> ELSE <<slot.text>>

Full(n) == n >= MaxEntries

Dots == {<<".", 0>>, <<"..", 0>>}
IsDot(name) == Len(name) = 1 /\ name[1] \in Dots

\* An entry with a name: a directory joins the queue, deleted or not; what is
\* deleted is listed, and the scan ends when it has MaxEntries.
Take(name, deleted, dir, start, dots) ==
  LET path == Append(at.path, name)
      enters == dir /\ start >= 2 /\ ~(dots /\ IsDot(name))
      listed == Append(entries, [name |-> name, path |-> path, dir |-> dir,
                                 start |-> start, directory |-> at.cluster])
  IN /\ queue' = IF enters THEN Append(queue, [cluster |-> start, path |-> path])
                 ELSE queue
     /\ entries' = IF deleted THEN listed ELSE entries
     /\ pc' = IF deleted /\ Full(Len(listed)) THEN "done" ELSE pc

Skip == UNCHANGED <<queue, entries, pc>>

ScanFat32Slot ==
  /\ pc = "slots" /\ ~volume.exfat /\ ~AtEnd
  /\ LET slot == Head(rest)
     IN CASE slot.kind = "outside" -> Returns(31)
          [] slot.kind = "long" ->
               /\ parts' = IF slot.text = NoText THEN parts ELSE <<slot.text>> \o parts
               /\ rest' = Tail(rest)
               /\ Skip
               /\ UNCHANGED <<volume, visited, at, status>>
          [] OTHER ->
               /\ IF slot.label \/ NameOf(slot) = <<>> THEN Skip
                  ELSE Take(NameOf(slot), slot.deleted, slot.dir, slot.start, TRUE)
               /\ parts' = PartsAfter
               /\ rest' = Tail(rest)
               /\ UNCHANGED <<volume, visited, at, status>>

\* The name slots of a set, in order.
NameIn(set) ==
  LET upTo[k \in 0 .. Len(set)] ==
        IF k = 0 THEN <<>>
        ELSE IF set[k].kind = "name" /\ set[k].text # NoText
             THEN Append(upTo[k - 1], set[k].text) ELSE upTo[k - 1]
  IN upTo[Len(set)]

\* A set that runs past the directory ends the scan with an error.
ScanExfatSet ==
  /\ pc = "slots" /\ volume.exfat /\ ~AtEnd
  /\ LET slot == Head(rest)
         size == IF slot.kind = "set" THEN slot.count + 1 ELSE 1
         set == SubSeq(rest, 2, size)
         streams == {k \in DOMAIN set : set[k].kind = "stream"}
     IN IF size > Len(rest) THEN Returns(74)
        ELSE /\ rest' = SubSeq(rest, size + 1, Len(rest))
             /\ UNCHANGED <<volume, visited, at, parts, status>>
             /\ IF slot.kind # "set" \/ streams = {} \/ NameIn(set) = <<>> THEN Skip
                ELSE Take(NameIn(set), slot.deleted, slot.dir,
                          set[Max(streams)].start, FALSE)

Finish == /\ pc = "directories" /\ queue = <<>>
          /\ Returns(0)

Next == \/ Open \/ NextDirectory \/ LeaveDirectory
        \/ ScanFat32Slot \/ ScanExfatSet \/ Finish

\* A scan is one call that runs to its end.
Spec == Init /\ [][Next]_vars /\ WF_vars(Next)

-----------------------------------------------------------------------------
(* Properties *)

Entry == [name : Seq(STRING \X Nat), path : Seq(Seq(STRING \X Nat)), dir : BOOLEAN,
          start : Nat, directory : Nat]

\* Every variable stays in its domain, and no more is listed than asked for.
TypeOK ==
  /\ pc \in {"open", "directories", "slots", "done"}
  /\ visited \subseteq DOMAIN volume.table
  /\ Len(entries) <= MaxEntries
  /\ \A i \in DOMAIN entries : entries[i] \in Entry
  /\ status \in {0, 20, 31, 70, 71, 72, 73, 74, ReadError}

\* The slots of a directory that count: those before the first end.
Places(c) == LET s == Joined(Chain(c).clusters)
                 ends == {i \in DOMAIN s : s[i].kind = "end"}
             IN SubSeq(s, 1, IF ends = {} THEN Len(s) ELSE Min(ends) - 1)

\* The long parts directly before a place, and the short slots with a name.
LongBefore(s, i) == {j \in 1 .. i - 1 : s[j].text # NoText
                       /\ \A k \in j .. i - 1 : s[k].kind = "long"}
Named(s) == {i \in DOMAIN s : s[i].kind = "short" /\ ~s[i].label
               /\ (s[i].text # NoText \/ LongBefore(s, i) # {})}

\* The directories that entries lead to whose names have nothing of a dot.
Dotless(s, i) == \A j \in LongBefore(s, i) \cup {i} : s[j].text \notin Dots
Leading(s) == {i \in Named(s) : s[i].dir /\ s[i].start >= 2 /\ Dotless(s, i)}
Below(cs) == cs \cup UNION {{Places(c)[i].start : i \in Leading(Places(c))} : c \in cs}

Reachable ==
  LET upTo[k \in 0 .. volume.last] ==
        IF k = 0 THEN {volume.root} ELSE Below(upTo[k - 1])
  IN upTo[volume.last]

\* A FAT32 scan that ends well and below its limit has listed every deleted
\* entry of every directory that is reached from the root, once each: live and
\* deleted directories, however they lead to each other.
WholeTree ==
  pc = "done" /\ status = 0 /\ ~volume.exfat /\ Len(entries) < MaxEntries =>
    \A c \in Reachable :
      Cardinality({i \in DOMAIN entries : entries[i].directory = c})
        = Cardinality({i \in Named(Places(c)) : Places(c)[i].deleted})

\* Where long slots stand before their own entry, no entry is listed under the
\* long name, or a part of it, of another one.
LongBeforeOwn ==
  \A c \in DOMAIN volume.slots : \A i \in DOMAIN volume.slots[c] :
    volume.slots[c][i].kind = "long" =>
      /\ i < Len(volume.slots[c])
      /\ volume.slots[c][i + 1].text[1] = volume.slots[c][i].text[1]

OwnName ==
  pc = "done" /\ ~volume.exfat /\ LongBeforeOwn =>
    \A e \in {entries[i] : i \in DOMAIN entries} :
      \E i \in Named(Places(e.directory)) :
        LET slot == Places(e.directory)[i]
        IN /\ slot.deleted /\ slot.start = e.start
           /\ \A k \in DOMAIN e.name : e.name[k][1] = slot.text[1]
=============================================================================
