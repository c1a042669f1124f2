------------------------------ MODULE QuickScan ------------------------------
(***************************************************************************)
(* The list of the deleted files of an NTFS volume                         *)
(* (fr_get_ntfs_quick_scan_candidates_from_session_with_usn): the records  *)
(* of the master file table are read one after another, paths are put      *)
(* together from names and parents, the list is ordered, and the records   *)
(* of a change journal are matched with it (fr-session, fr-usn).           *)
(*                                                                         *)
(* A file is known by the number of its record, which is also its place in *)
(* the table.  Times are small numbers, names are opaque.                  *)
(***************************************************************************)
EXTENDS Integers, Sequences, FiniteSets, SequencesExt

CONSTANTS
  Volumes,        \* what is scanned, and how it is asked for: see IsVolume
  NameKey(_),     \* the name that normalize_case_key makes of a name
  EmptyLimit,     \* MAX_CONSECUTIVE_EMPTY_MFT_RECORDS
  MaxSegments,    \* the segments of a path, 32
  MaxNumber,      \* the largest record number of a candidate, u32::MAX
  ReadError       \* the status an error of the device becomes

VARIABLES
  volume,
  pc,
  index,          \* the record read next
  empties,        \* empty records in a row
  errors,         \* the places of the records that did not parse
  candidates,
  listed,         \* what the caller was handed
  status

vars == <<volume, pc, index, empties, errors, candidates, listed, status>>

-----------------------------------------------------------------------------
None == "none"
NoNumber == -1

\* names: the FILE_NAME attributes in their order, ok when they can be read.
IsName(n) == n.ok \in BOOLEAN /\ n.name # None /\ n.parent \in Nat /\ n.time \in Nat

IsSlot(s) ==
  /\ s.kind \in {"record", "empty", "bad", "unreadable"}
  /\ s.inUse \in BOOLEAN /\ s.directory \in BOOLEAN
  /\ s.named \in BOOLEAN /\ s.packed \in BOOLEAN
  /\ s.names \in Seq(Range(s.names)) /\ \A i \in DOMAIN s.names : IsName(s.names[i])

\* A record of the journal, or why there is none at this place.
IsEntry(e) ==
  /\ e.kind \in {"record", "zero", "header", "body", "length", "name", "version"}
  /\ e.number \in Nat /\ e.parent \in Nat /\ e.usn \in Int /\ e.time \in Int
  /\ e.name # None
  /\ e.reasons \subseteq {"create", "delete", "old", "new", "stream", "data"}
  /\ e.directory \in BOOLEAN /\ e.packed \in BOOLEAN

\* records: max_records as the caller gives it.  slots are numbered from 0.
IsVolume(v) ==
  /\ v.access \in {"ok", "session", "device", "short", "boot", "size", "offset"}
  /\ v.slots \in Seq(Range(v.slots)) /\ \A i \in DOMAIN v.slots : IsSlot(v.slots[i])
  /\ v.journal \in Seq(Range(v.journal))
  /\ \A i \in DOMAIN v.journal : IsEntry(v.journal[i])
  /\ v.records \in Nat /\ v.capacity \in Nat

QuickScanAssumption ==
  /\ \A v \in Volumes : IsVolume(v)
  /\ EmptyLimit \in Nat \ {0} /\ MaxSegments \in Nat \ {0} /\ MaxNumber \in Nat
  /\ ReadError \in Nat \ {0}

\* normalize_max_records
MaxRecords == IF volume.records = 0 THEN 4096 ELSE volume.records

Init ==
  /\ volume \in Volumes
  /\ pc = "open"
  /\ index = 0
  /\ empties = 0
  /\ errors = {}
  /\ candidates = <<>>
  /\ listed = <<>>
  /\ status = NoNumber

Return(s) ==
  /\ pc' = "done"
  /\ status' = s
  /\ UNCHANGED <<volume, index, empties, errors, candidates, listed>>

OpenStatus ==
  CASE volume.access = "session" -> 20
    [] volume.access = "device" -> ReadError
    [] volume.access = "short" -> 31
    [] volume.access = "boot" -> 30
    [] volume.access = "size" -> 32
    [] volume.access = "offset" -> 33
    [] OTHER -> 0

Open ==
  /\ pc = "open"
  /\ IF OpenStatus # 0 THEN Return(OpenStatus)
     ELSE /\ pc' = "scan"
          /\ UNCHANGED <<volume, index, empties, errors, candidates, listed, status>>

-----------------------------------------------------------------------------
\* The candidate of a record: name, parent and time of the first FILE_NAME that
\* can be read (build_candidate).
FirstName(names) ==
  LET ok == {i \in DOMAIN names : names[i].ok}
  IN  IF ok = {} THEN [name |-> None, parent |-> NoNumber, time |-> 0]
      ELSE LET n == names[CHOOSE i \in ok : \A k \in ok : i <= k]
           IN  [name |-> n.name, parent |-> n.parent, time |-> n.time]

Candidate(slot, i) ==
  LET n == FirstName(slot.names)
  IN  [index |-> i, number |-> i, ghost |-> FALSE, deleted |-> ~slot.inUse,
       directory |-> slot.directory, named |-> slot.named, packed |-> slot.packed,
       name |-> n.name, parent |-> n.parent, time |-> n.time,
       path |-> <<>>, evidence |-> {"mft"}, reasons |-> {}]

Slot == volume.slots[index + 1]
Scanning == pc = "scan" /\ index < MaxRecords /\ index < Len(volume.slots)

EmptiesInAll == empties + (IF Slot.kind = "empty" THEN 1 ELSE 0)  \* mutant of EmptiesAfter
EmptiesAfter == IF Slot.kind = "empty" THEN empties + 1 ELSE 0

\* A record of zeros counts, and ends the scan when it is one too many in a row.
ScanRecord ==
  /\ Scanning /\ Slot.kind # "unreadable"
  /\ empties' = EmptiesAfter
  /\ pc' = IF EmptiesAfter >= EmptyLimit THEN "paths" ELSE "scan"
  /\ candidates' = IF Slot.kind = "record"
                   THEN Append(candidates, Candidate(Slot, index)) ELSE candidates
  /\ errors' = IF Slot.kind = "bad" THEN errors \cup {index} ELSE errors
  /\ index' = index + 1
  /\ UNCHANGED <<volume, listed, status>>

ScanFails ==
  /\ Scanning /\ Slot.kind = "unreadable"
  /\ Return(ReadError)

AtEnd == pc = "scan" /\ ~Scanning

ScanEnds ==
  /\ AtEnd
  /\ pc' = "paths"
  /\ UNCHANGED <<volume, index, empties, errors, candidates, listed, status>>

-----------------------------------------------------------------------------
\* known_names of reconstruct_paths: of several candidates with one number the
\* last counts.
Namer(list, number) ==
  LET of == {i \in DOMAIN list : list[i].number = number /\ list[i].name # None}
  IN  IF of = {} THEN 0 ELSE CHOOSE i \in of : \A k \in of : k <= i

\* The candidates above one, from its parent upwards, until a parent is unknown,
\* or was seen, or the path is long enough.
Higher(list, parent, below) ==
  LET next == IF below = <<>> THEN parent ELSE list[Namer(list, Last(below))].parent
  IN  IF Namer(list, next) = 0 \/ Contains(below, next) THEN below ELSE Append(below, next)

WayUp(list, parent) ==
  LET way[k \in 0 .. MaxSegments - 1] == IF k = 0 THEN <<>> ELSE Higher(list, parent, way[k - 1])
  IN  way

Ancestors(list, parent) == WayUp(list, parent)[MaxSegments - 1]

SmallerOf(a, b) == IF a <= b THEN a ELSE b

PathOf(list, c) ==
  LET above == Reverse(Ancestors(list, c.parent))
  IN  Append([k \in DOMAIN above |-> list[Namer(list, above[k])].name], c.name)

WithPaths(list) ==
  [i \in DOMAIN list |->
     IF list[i].name = None THEN list[i]
     ELSE [list[i] EXCEPT !.path = PathOf(list, list[i])]]

BuildPaths ==
  /\ pc = "paths"
  /\ candidates' = WithPaths(candidates)
  /\ pc' = "sort"
  /\ UNCHANGED <<volume, index, empties, errors, listed, status>>

\* The recency key is the time of the last write in the FILE_NAME.
Before(a, b) ==
  \/ a.deleted /\ ~b.deleted
  \/ a.deleted = b.deleted /\ a.time > b.time
  \/ a.deleted = b.deleted /\ a.time = b.time /\ a.index < b.index

Sort ==
  /\ pc = "sort"
  /\ candidates' =
       LET all == Range(candidates)
       IN  [i \in DOMAIN candidates |->
              CHOOSE c \in all : Cardinality({d \in all : Before(d, c)}) = i - 1]
  /\ pc' = IF volume.journal = <<>> THEN "encode" ELSE "journal"
  /\ UNCHANGED <<volume, index, empties, errors, listed, status>>

-----------------------------------------------------------------------------
\* The journal is read up to the first place that is no record: zeros end it,
\* and with anything else the whole journal is refused (parse_usn_records).
FirstOther ==
  LET other == {i \in DOMAIN volume.journal : volume.journal[i].kind # "record"}
  IN  IF other = {} THEN Len(volume.journal) + 1
      ELSE CHOOSE i \in other : \A k \in other : i <= k

Entries == SubSeq(volume.journal, 1, FirstOther - 1)

JournalStatus ==
  IF FirstOther > Len(volume.journal) THEN 0
  ELSE LET kind == volume.journal[FirstOther].kind
       IN  CASE kind = "zero" -> 0
             [] kind \in {"header", "body"} -> 51
             [] kind \in {"length", "name"} -> 52
             [] OTHER -> 53

ReadJournal ==
  /\ pc = "journal"
  /\ IF JournalStatus # 0 THEN Return(JournalStatus)
     ELSE /\ pc' = IF Entries = <<>> THEN "encode" ELSE "match"
          /\ UNCHANGED <<volume, index, empties, errors, candidates, listed, status>>

\* by_record_number: the reasons of all records of a file, and the record with
\* the highest number in the journal, the later one of equal ones.
EntriesOf(number) == {i \in DOMAIN Entries : Entries[i].number = number}
ReasonsOf(number) == UNION {Entries[i].reasons : i \in EntriesOf(number)}
Numbers == {Entries[i].number : i \in DOMAIN Entries}

Latest(number) ==
  Entries[CHOOSE i \in EntriesOf(number) : \A k \in EntriesOf(number) :
            Entries[k].usn < Entries[i].usn
              \/ (Entries[k].usn = Entries[i].usn /\ k <= i)]

\* by_name_parent
ReasonsByName(name, parent) ==
  UNION {Entries[i].reasons : i \in {k \in DOMAIN Entries :
           NameKey(Entries[k].name) = NameKey(name) /\ Entries[k].parent = parent}}

\* by_path: the first candidate of a path that the journal knows by its number.
PathKey(path) == [i \in DOMAIN path |-> NameKey(path[i])]
ReasonsByPath(c) ==
  LET same == {i \in DOMAIN candidates :
                 /\ candidates[i].name # None
                 /\ PathKey(candidates[i].path) = PathKey(c.path)
                 /\ candidates[i].number \in Numbers}
  IN  IF same = {} THEN {}
      ELSE ReasonsOf(candidates[CHOOSE i \in same : \A k \in same : i <= k].number)

Blank(name) == NameKey(name) = ""
Renames(e) == e.reasons \cap {"new", "create"} # {} /\ ~Blank(e.name)

\* The name in the journal takes the place of the one in the table.
Renamed(c) ==
  IF c.number \in Numbers /\ Renames(Latest(c.number))
  THEN [c EXCEPT !.name = Latest(c.number).name, !.parent = Latest(c.number).parent]
  ELSE c

\* Only what is not known by its number is matched by its path and name.
Matched(c) ==
  IF c.number \in Numbers /\ ReasonsOf(c.number) # {} THEN ReasonsOf(c.number)
  ELSE (IF c.name # None THEN ReasonsByPath(c) ELSE {})
         \cup (IF Renamed(c).name # None /\ Renamed(c).parent # NoNumber
               THEN ReasonsByName(Renamed(c).name, Renamed(c).parent) ELSE {})

WithEvidence(c) ==
  IF Matched(c) = {} THEN Renamed(c)
  ELSE [Renamed(c) EXCEPT !.evidence = @ \cup {"usn"}, !.reasons = @ \cup Matched(c)]

PathsKept(list) == list                                       \* mutant of PathsAfterMatch
PathsAfterMatch(list) ==
  IF \E i \in DOMAIN list : Renamed(candidates[i]) # candidates[i]
  THEN WithPaths(list) ELSE list

Match ==
  /\ pc = "match"
  /\ candidates' =
       PathsAfterMatch([i \in DOMAIN candidates |-> WithEvidence(candidates[i])])
  /\ pc' = "ghosts"
  /\ UNCHANGED <<volume, index, empties, errors, listed, status>>

\* A file that is only known from the journal (append_usn_ghost_candidates).
Ghost(number) ==
  LET latest == Latest(number)
  IN  [index |-> NoNumber, number |-> number, ghost |-> TRUE, deleted |-> TRUE,
       directory |-> latest.directory, named |-> "stream" \in ReasonsOf(number),
       packed |-> latest.packed,
       name |-> IF Blank(latest.name) THEN None ELSE latest.name,
       parent |-> latest.parent,
       time |-> IF latest.time > 0 THEN latest.time ELSE 0,
       path |-> <<>>, evidence |-> {"usn"}, reasons |-> ReasonsOf(number)]

Surfaces(number) == ReasonsOf(number) \cap {"delete", "old", "new"} # {}

GhostNumbers ==
  {n \in Numbers : /\ \A i \in DOMAIN candidates : candidates[i].number # n
                   /\ n <= MaxNumber
                   /\ Surfaces(n)}

\* In the order of a hash map: any.
AddGhosts ==
  /\ pc = "ghosts"
  /\ \E order \in SetToSeqs(GhostNumbers) :
       LET ghosts == [i \in DOMAIN order |-> Ghost(order[i])]
       IN  candidates' = IF ghosts = <<>> THEN candidates
                         ELSE WithPaths(candidates \o ghosts)
  /\ pc' = "encode"
  /\ UNCHANGED <<volume, index, empties, errors, listed, status>>

-----------------------------------------------------------------------------
\* score_candidate_with_reasons, for the evidence a quick scan finds.
Partial(c) == c.name = None \/ c.path = <<>> \/ c.named \/ c.packed

Score(c) ==
  LET sum == (IF "mft" \in c.evidence THEN 80 ELSE 0)
               + (IF "usn" \in c.evidence THEN 12 ELSE 0)
               + (IF c.name # None /\ c.path # <<>> THEN 8 ELSE -15)
               + (IF Partial(c) THEN -30 ELSE 0)
  IN  IF sum < 0 THEN 0 ELSE IF sum > 100 THEN 100 ELSE sum

\* map_score_to_tier, confidence_tier_code: 0 is the most certain.
Tier(c) ==
  CASE Score(c) >= 85 -> 0
    [] Score(c) >= 70 -> 1
    [] Score(c) >= 50 -> 2
    [] Score(c) >= 30 -> 3
    [] OTHER -> 4

\* What does not fit into the buffer of the caller is left out.
Encode ==
  /\ pc = "encode"
  /\ listed' = [i \in 1 .. SmallerOf(Len(candidates), volume.capacity) |->
                  [c |-> candidates[i], tier |-> Tier(candidates[i])]]
  /\ pc' = "done"
  /\ status' = 0
  /\ UNCHANGED <<volume, index, empties, errors, candidates>>

Next ==
  \/ Open \/ ScanRecord \/ ScanFails \/ ScanEnds \/ BuildPaths \/ Sort
  \/ ReadJournal \/ Match \/ AddGhosts \/ Encode

Spec == Init /\ [][Next]_vars /\ WF_vars(Next)

-----------------------------------------------------------------------------
Finished == pc = "done" /\ status = 0

TypeOK ==
  /\ index \in 0 .. Len(volume.slots)
  /\ empties \in 0 .. EmptyLimit
  /\ errors \subseteq 0 .. Len(volume.slots) - 1
  /\ \A i \in DOMAIN candidates : candidates[i].number \in 0 .. MaxNumber
  /\ Len(listed) <= Len(candidates)

\* Every record of the table up to max_records is a candidate or counted as not
\* parsed, however many empty ones stand between them, as long as there are
\* never too many in a row: gaps that files leave do not add up and end the scan.
LongGapBefore(i) ==
  \E k \in 1 .. i - EmptyLimit :
    \A n \in k .. k + EmptyLimit - 1 : volume.slots[n].kind = "empty"

TableIsSeen ==
  Finished =>
    \A i \in 1 .. SmallerOf(Len(volume.slots), MaxRecords) :
      (volume.slots[i].kind \in {"record", "bad"} /\ ~LongGapBefore(i)) =>
        \/ i - 1 \in errors
        \/ \E k \in DOMAIN candidates :
             candidates[k].number = i - 1 /\ candidates[k].deleted = ~volume.slots[i].inUse

\* The path of a file is that of its directory and its name, also when the
\* journal renamed or moved one of them and when the directory is only known from
\* the journal: a directory and what was in it are found under one path.
OnLoop(c) == Contains(Ancestors(candidates, c.parent), c.number)

PathsAgree ==
  Finished =>
    \A i \in DOMAIN candidates :
      LET c == candidates[i]
          up == Namer(candidates, c.parent)
      IN  c.name # None =>
            IF up = 0 THEN c.path = <<c.name>>
            ELSE (~OnLoop(candidates[up]) /\ Len(candidates[up].path) < MaxSegments) =>
                   c.path = Append(candidates[up].path, c.name)

\* A file the journal saw being deleted is in the list exactly once, marked as
\* deleted unless its record lives, whatever was recorded about it before and
\* after the deletion (append_usn_ghost_candidates, by_record_number).
DeletionsListed ==
  (Finished /\ volume.journal # <<>>) =>
    \A n \in {k \in Numbers : "delete" \in ReasonsOf(k) /\ k <= MaxNumber} :
      \E i \in DOMAIN candidates :
        /\ candidates[i].number = n
        /\ "usn" \in candidates[i].evidence
        /\ candidates[i].deleted \/ volume.slots[n + 1].inUse
        /\ \A k \in DOMAIN candidates : candidates[k].number = n => k = i

\* A file that was renamed several times has the last of its names, by the
\* numbers the journal gives its records and not by where they stand.
NewestName ==
  (Finished /\ volume.journal # <<>>) =>
    \A i \in DOMAIN candidates :
      \A k \in EntriesOf(candidates[i].number) :
        ( /\ Renames(Entries[k])
          /\ \A o \in EntriesOf(candidates[i].number) \ {k} : Entries[o].usn < Entries[k].usn ) =>
          /\ candidates[i].name = Entries[k].name
          /\ candidates[i].parent = Entries[k].parent

\* What the journal adds never makes a file of the table look less certain than
\* the table alone would (score_candidate_with_reasons).
CertaintyKept ==
  Finished =>
    \A i \in DOMAIN candidates :
      ~candidates[i].ghost =>
        Tier(candidates[i])
          <= Tier(WithPaths(<<Candidate(volume.slots[candidates[i].number + 1],
                                        candidates[i].number)>>)[1])

\* Of the files of the table the deleted ones come first, the newest of them at
\* the front: they are what a caller with a small buffer is handed.
RecentFirst ==
  Finished =>
    \A i, k \in DOMAIN candidates :
      (i < k /\ ~candidates[i].ghost /\ ~candidates[k].ghost) =>
        LET time(c) == FirstName(volume.slots[c.number + 1].names).time
        IN  /\ candidates[k].deleted => candidates[i].deleted
            /\ candidates[i].deleted = candidates[k].deleted =>
                 time(candidates[i]) >= time(candidates[k])
=============================================================================
