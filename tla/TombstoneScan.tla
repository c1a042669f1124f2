--------------------------- MODULE TombstoneScan ---------------------------
(***************************************************************************)
(* Deleted files of ReFS, APFS, HFS+, XFS and UFS volumes: the prefix of   *)
(* the volume is searched for records of deletions                         *)
(* (fr_get_*_deleted_candidates_from_session), and for one that was listed *)
(* the payload its descriptor names is copied to a file                    *)
(* (recover_metadata_payload_candidate_to_file).                           *)
(*                                                                         *)
(* The unit is 4 bytes: a scan goes on by 2 units, a search by less than   *)
(* one.  Records are scaled down and keep their place in this grid: 316    *)
(* bytes are an odd number of units, 312 bytes an even one.                *)
(***************************************************************************)
EXTENDS Naturals, Sequences, FiniteSets

CONSTANTS
  Images,       \* the volumes and what is asked of them: see IsImage
  ReadError     \* the status an error of the device becomes

VARIABLES
  image,
  pc,
  offset,
  candidates,   \* the places of the records listed, in order
  chosen,       \* the place of the record of the file that is recovered
  output,       \* the units of the device copied
  partial,
  status

vars == <<image, pc, offset, candidates, chosen, output, partial, status>>

-----------------------------------------------------------------------------
Step == 2      \* 8 bytes

\* record: the length of a record, its marker included.  invalid: the status
\* when the volume header does not parse.
RefsScan == [kind |-> "usn", record |-> 0]
ApfsScan == [kind |-> "tombstone", record |-> 3]
HfsScan == [kind |-> "tombstone", record |-> 4]
XfsScan == [kind |-> "tombstone", record |-> 3]
UfsScan == [kind |-> "tombstone", record |-> 4]

RefsList == [scan |-> RefsScan, invalid |-> 80]
ApfsList == [scan |-> ApfsScan, invalid |-> 100]
HfsList == [scan |-> HfsScan, invalid |-> 110]
XfsList == [scan |-> XfsScan, invalid |-> 120]
UfsList == [scan |-> UfsScan, invalid |-> 130]

Format ==
  [refs |-> RefsList, apfs |-> ApfsList, hfs |-> HfsList, xfs |-> XfsList,
   ufs |-> UfsList][image.volume]

\* What stands at a place that looks like a record: a length between 60 and
\* 4096 that divides by 8, or the marker of a tombstone.  path: as
\* normalize_candidate_path leaves it, in lower case.
IsMark(m) ==
  /\ m.length \in Nat \ {0} /\ m.id \in Nat
  /\ m.text \in {"", "bad", "good"}     \* name and path: empty, no text, text
  /\ m.reason \in {"delete", "rename", "other"}
  /\ m.encrypted \in BOOLEAN
  /\ m.from \in Nat /\ m.size \in Nat   \* the payload, size 0 for none

IsImage(i) ==
  /\ i.volume \in {"refs", "apfs", "hfs", "xfs", "ufs"}
  /\ i.access \in {"ok", "session", "device", "short", "header"}
  /\ i.again \in {"ok", "id", "path", "session", "device", "short", "create"}
  /\ i.length \in Nat /\ i.max \in Nat
  /\ \A o \in DOMAIN i.marks :
       /\ o \in Nat /\ IsMark(i.marks[o])
       /\ i.volume = "refs" => i.marks[o].length % Step = 0
  /\ \A o \in DOMAIN i.payloads : o \in Nat /\ IsMark(i.payloads[o])

ImagesAssumption ==
  /\ \A i \in Images : IsImage(i)
  /\ ReadError \in Nat \ {0, 170, 172}

\* max_entries, 512 when none is given.
Maximum == IF image.max = 0 THEN 512 ELSE image.max

RecordLength(m) == IF Format.scan.kind = "usn" THEN m.length ELSE Format.scan.record

\* try_extract_deleted_candidate_from_record, parse_tombstone_record: does the
\* record yield a candidate.
Yields(m) ==
  /\ m.id # 0 /\ m.text = "good"
  /\ Format.scan.kind = "usn" => m.reason \in {"delete", "rename"}

\* The key candidates are deduplicated by.
KeyOf(o) == <<image.marks[o].id, image.marks[o].path>>

Listed(o) == \E i \in DOMAIN candidates : KeyOf(candidates[i]) = KeyOf(o)

\* At the end of the image a length that does not fit is no record; a tombstone
\* there is not looked at.
MarkAt(o) == o \in DOMAIN image.marks /\ o + RecordLength(image.marks[o]) <= image.length

Scanning ==
  /\ pc = "scan"
  /\ Len(candidates) < Maximum
  /\ offset + (IF Format.scan.kind = "usn" THEN Step ELSE Format.scan.record)
       <= image.length

Init ==
  /\ image \in Images
  /\ pc = "list"
  /\ offset = 0
  /\ candidates = <<>>
  /\ chosen = 0
  /\ output = <<>>
  /\ partial = FALSE
  /\ status = 0

Returns(s) ==
  /\ pc' = "done"
  /\ status' = s
  /\ UNCHANGED <<image, offset, candidates, chosen, output, partial>>

List ==
  /\ pc = "list"
  /\ CASE image.access = "session" -> Returns(20)
       [] image.access = "device" -> Returns(ReadError)
       [] image.access = "short" -> Returns(31)
       [] image.access = "header" -> Returns(Format.invalid)
       [] OTHER -> /\ pc' = "scan"
                   /\ UNCHANGED <<image, offset, candidates, chosen, output, partial, status>>

\* A mark is jumped over whether it yields a candidate or not.
ScanMark ==
  /\ Scanning /\ MarkAt(offset)
  /\ LET m == image.marks[offset]
     IN /\ candidates' = IF Yields(m) /\ ~Listed(offset)
                         THEN Append(candidates, offset) ELSE candidates
        /\ offset' = offset + RecordLength(m)
  /\ UNCHANGED <<image, pc, chosen, output, partial, status>>

ScanOn ==
  /\ Scanning /\ ~MarkAt(offset)
  /\ offset' = offset + Step
  /\ UNCHANGED <<image, pc, candidates, chosen, output, partial, status>>

ScanEnds ==
  /\ pc = "scan" /\ ~Scanning
  /\ pc' = "listed"
  /\ UNCHANGED <<image, offset, candidates, chosen, output, partial, status>>

-----------------------------------------------------------------------------
\* A candidate of the list is recovered, in a call of its own that searches the
\* prefix again.
Recover ==
  /\ pc = "listed"
  /\ \E i \in DOMAIN candidates :
       /\ chosen' = candidates[i]
       /\ offset' = 0
       /\ CASE image.again = "id" -> pc' = "done" /\ status' = 170
            [] image.again = "path" -> pc' = "done" /\ status' = 43
            [] image.again = "session" -> pc' = "done" /\ status' = 20
            [] image.again = "device" -> pc' = "done" /\ status' = ReadError
            [] image.again = "short" -> pc' = "done" /\ status' = 31
            [] OTHER -> pc' = "search" /\ UNCHANGED status
  /\ UNCHANGED <<image, candidates, output, partial>>

Nothing ==
  /\ pc = "listed" /\ candidates = <<>>
  /\ Returns(0)

\* What the search looks for: a descriptor of its own on ReFS, the tombstone
\* with the descriptor after it elsewhere; at any place, in the grid or not.
FindRefsPayload == [marks |-> image.payloads, jump |-> 1]
FindPayload64 == [marks |-> image.marks, jump |-> Format.scan.record]
FindPayload32 == [marks |-> image.marks, jump |-> Format.scan.record]

Search ==
  CASE image.volume = "refs" -> FindRefsPayload
    [] image.volume \in {"apfs", "xfs"} -> FindPayload64
    [] image.volume \in {"hfs", "ufs"} -> FindPayload32

\* parse_payload_descriptor_after_record: the descriptor may not fit, be empty
\* or overflow.
HasPayload(o) ==
  /\ Search.marks[o].size > 0
  /\ image.volume # "refs" => o + Search.jump < image.length

Searching == pc = "search" /\ offset + Search.jump <= image.length
IsTarget(o) ==
  o \in DOMAIN Search.marks /\ Search.marks[o].id = image.marks[chosen].id

InGrid == Step                                              \* mutant of SearchStep
SearchStep == 1

SearchOn ==
  /\ Searching /\ ~IsTarget(offset)
  /\ offset' =
       offset + (IF offset \in DOMAIN Search.marks THEN Search.jump ELSE SearchStep)
  /\ UNCHANGED <<image, pc, candidates, chosen, output, partial, status>>

Found ==
  /\ Searching /\ IsTarget(offset)
  /\ CASE Search.marks[offset].encrypted -> Returns(171)
       [] ~Search.marks[offset].encrypted /\ ~HasPayload(offset) -> Returns(170)
       [] ~Search.marks[offset].encrypted /\ HasPayload(offset) /\ image.again = "create" ->
            Returns(44)
       [] OTHER ->
            /\ pc' = "copy"
            /\ UNCHANGED <<image, offset, candidates, chosen, output, partial, status>>

NotFound ==
  /\ pc = "search" /\ ~Searching
  /\ Returns(170)

\* copy_session_range_to_file, a chunk of it: the first one that cannot be read
\* fails the call, a later one ends the copy.
Payload == Search.marks[offset]

Copy ==
  /\ pc = "copy" /\ Len(output) < Payload.size
  /\ LET c == Payload.from + Len(output)
     IN \/ c \in image.lost /\ output = <<>> /\ Returns(172)
        \/ /\ c \in image.lost /\ output # <<>>
           /\ pc' = "done" /\ partial' = TRUE
           /\ UNCHANGED <<image, offset, candidates, chosen, output, status>>
        \/ c \notin image.lost /\ Returns(44)
        \/ /\ c \notin image.lost
           /\ output' = Append(output, c)
           /\ UNCHANGED <<image, pc, offset, candidates, chosen, partial, status>>

Copied ==
  /\ pc = "copy" /\ Len(output) = Payload.size
  /\ Returns(0)

Next ==
  \/ List \/ ScanMark \/ ScanOn \/ ScanEnds
  \/ Recover \/ Nothing \/ SearchOn \/ Found \/ NotFound \/ Copy \/ Copied

Spec == Init /\ [][Next]_vars

-----------------------------------------------------------------------------
(* Properties *)

\* Every variable stays in its domain; a candidate is a record that yields one.
TypeOK ==
  /\ pc \in {"list", "scan", "listed", "search", "copy", "done"}
  /\ offset \in Nat
  /\ Len(candidates) <= Maximum
  /\ \A i \in DOMAIN candidates :
       candidates[i] \in DOMAIN image.marks /\ Yields(image.marks[candidates[i]])
  /\ chosen \in DOMAIN image.marks \cup {0}
  /\ partial \in BOOLEAN
  /\ status \in {0, 20, 31, 43, 44, 80, 100, 110, 120, 130, 170, 171, 172, ReadError}

\* No mark lies in another one, and each fits into the image.
Apart(marks, length(_)) ==
  \A o \in DOMAIN marks :
    /\ o + length(marks[o]) <= image.length
    /\ \A p \in DOMAIN marks : o < p => o + length(marks[o]) <= p

Wanted ==
  {o \in DOMAIN image.marks : o % Step = 0 /\ Yields(image.marks[o])}

Complete ==
  \A o \in Wanted :
    Cardinality({i \in DOMAIN candidates : KeyOf(candidates[i]) = KeyOf(o)}) = 1

\* A scan that is not cut by the number of entries lists every deletion that
\* starts at a multiple of 8 bytes and is not inside other data that looks like
\* a record, each once: broken, foreign and doubled records hide no other one.
\* It holds where the length of a record is a multiple of the step.
EveryDeletionListed ==
  /\ pc = "listed" /\ Len(candidates) < Maximum
  /\ Apart(image.marks, RecordLength) /\ Format.scan.record % Step = 0
  => Complete

Ids(marks) == {marks[o].id : o \in DOMAIN marks}

\* The id of the file names one payload, and no mark hides the one asked for.
Unambiguous ==
  /\ \A o, p \in DOMAIN Search.marks : o # p => Search.marks[o].id # Search.marks[p].id
  /\ Apart(Search.marks, LAMBDA m : Search.jump)

\* What is copied is the payload of the deletion that was listed, in order, and
\* all of it unless the call says so: the two searches, with their different
\* steps, agree on the record.
OwnPayload ==
  pc = "done" /\ chosen # 0 /\ status = 0 /\ Unambiguous =>
    LET own == CHOOSE o \in DOMAIN Search.marks :
                 Search.marks[o].id = image.marks[chosen].id
        m == Search.marks[own]
    IN /\ \A i \in DOMAIN output : output[i] = m.from + i - 1
       /\ partial <=> (Len(output) < m.size)

\* A deletion that was listed is refused as unsupported only when it has no
\* payload descriptor.
RefusedIsWithoutPayload ==
  pc = "done" /\ chosen # 0 /\ status = 170 /\ image.again # "id" /\ Unambiguous =>
    ~\E o \in DOMAIN Search.marks :
       Search.marks[o].id = image.marks[chosen].id /\ HasPayload(o)
=============================================================================
