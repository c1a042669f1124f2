----------------------------- MODULE MftRecords -----------------------------
(***************************************************************************)
(* Records of the master file table (parse_mft_record in fr-mft): the ends *)
(* of the sectors are compared with the update sequence number and put     *)
(* back, then the attributes are walked, and the cluster runs of those     *)
(* that are not resident are decoded.                                      *)
(*                                                                         *)
(* A record is described by the places of its attributes in bytes and by   *)
(* the write each of its sectors stems from: a write that was interrupted  *)
(* leaves sectors of two.  The bytes of names and values are not kept,     *)
(* only where they stand.  Bytes of mapping pairs are kept.                *)
(***************************************************************************)
EXTENDS Integers, Sequences, FiniteSets, SequencesExt

CONSTANTS
  Records,      \* the records that may be read: see IsRecord
  Garbage,      \* what may stand where the writer left no attribute
  LongBytes     \* the bytes of an i64 or u64: 8

VARIABLES
  record,
  pc,
  sector,       \* the next sector whose end is compared
  restored,     \* the sectors whose end was put back, with the entry it came from
  cursor,
  attributes,
  status        \* none while the record is parsed, then "ok" or the error

vars == <<record, pc, sector, restored, cursor, attributes, status>>

-----------------------------------------------------------------------------
\* bytes: the length of an attribute.  form: the non-resident flag.  name,
\* value: offset and length in the attribute.  text: the name is UTF-16.
\* pairs: the mapping pairs, from the mapping pairs offset on.  runs: what the
\* writer encoded in them.
IsAttribute(a) ==
  /\ a.type \in {"attribute", "end"}
  /\ a.bytes \in Nat /\ a.form \in 0 .. 255
  /\ \A place \in {a.name, a.value} : place.from \in Nat /\ place.length \in Nat
  /\ a.text \in BOOLEAN
  /\ a.pairsAt \in Nat
  /\ a.pairs \in Seq(0 .. 255)

NoError == "none"

IsRecord(r) ==
  /\ r.length \in Nat /\ r.signature \in BOOLEAN
  /\ r.perSector \in Nat          \* bytes_per_sector of the caller
  /\ r.stride \in Nat \ {0}       \* the one the record was written with
  /\ r.usa.from \in Nat /\ r.usa.count \in Nat
  /\ \A s \in DOMAIN r.writes : r.writes[s] \in {"old", "new"}
  /\ r.inUse \in Nat /\ r.first \in Nat
  /\ r.sound \in BOOLEAN         \* see IsLaidOut
  /\ \A o \in DOMAIN r.attributes : o \in Nat /\ IsAttribute(r.attributes[o])

-----------------------------------------------------------------------------
\* Cluster runs (parse_data_runs).  A header byte gives the bytes of the length
\* and of the distance to the run before; no distance is a sparse run.
Unsigned(bytes) ==
  FoldLeft(LAMBDA sum, i : sum + bytes[i] * 256 ^ (i - 1), 0, [i \in DOMAIN bytes |-> i])

Signed(bytes) ==
  IF bytes # <<>> /\ bytes[Len(bytes)] >= 128
  THEN Unsigned(bytes) - 256 ^ Len(bytes) ELSE Unsigned(bytes)

\* Headers are legal when their two lengths are.
LegalHeader(b) == b % 16 \in 1 .. LongBytes /\ b \div 16 <= LongBytes

\* The run whose header is byte c, with its distance as it stands there.
RunAt(pairs, c) ==
  LET size == pairs[c] % 16
      last == c + size + pairs[c] \div 16
  IN  [count |-> Unsigned(SubSeq(pairs, c + 1, c + size)),
       sparse |-> pairs[c] < 16,
       distance |-> Signed(SubSeq(pairs, c + size + 1, last))]

NextHeader(pairs, c) == c + (pairs[c] % 16) + (pairs[c] \div 16) + 1

EndOfRuns(pairs, c) == IF c > Len(pairs) THEN TRUE ELSE pairs[c] = 0

RunError(pairs, c) ==
  IF ~LegalHeader(pairs[c]) THEN "header"
  ELSE IF NextHeader(pairs, c) > Len(pairs) + 1 THEN "runs"
  ELSE IF RunAt(pairs, c).count = 0 THEN "length" ELSE NoError

\* The runs from byte c on, or the error.
RawRuns(pairs) ==
  LET from[c \in 1 .. Len(pairs) + 1] ==
        IF EndOfRuns(pairs, c) THEN [error |-> NoError, runs |-> <<>>]
        ELSE IF RunError(pairs, c) # NoError
        THEN [error |-> RunError(pairs, c), runs |-> <<>>]
        ELSE LET more == from[NextHeader(pairs, c)]
             IN  [error |-> more.error, runs |-> <<RunAt(pairs, c)>> \o more.runs]
  IN  from[1]

Longs == -(256 ^ LongBytes) \div 2 .. (256 ^ LongBytes) \div 2 - 1

\* A sparse run leaves the place the next distance counts from.
PlaceAfter(runs, i) ==
  LET place[k \in 0 .. Len(runs)] ==
        IF k = 0 THEN 0
        ELSE place[k - 1] + (IF runs[k].sparse THEN 0 ELSE runs[k].distance)
  IN  place[i]

\* parse_data_runs: the count of each run and its first cluster.
ParseRuns(pairs) ==
  LET raw == RawRuns(pairs)
  IN  IF raw.error # NoError THEN raw
      ELSE IF \E i \in DOMAIN raw.runs : PlaceAfter(raw.runs, i) \notin Longs
      THEN [error |-> "overflow", runs |-> <<>>]
      ELSE [error |-> NoError,
            runs |-> [i \in DOMAIN raw.runs |->
                        [count |-> raw.runs[i].count, sparse |-> raw.runs[i].sparse,
                         lcn |-> IF raw.runs[i].sparse THEN 0
                                 ELSE PlaceAfter(raw.runs, i)]]]

-----------------------------------------------------------------------------
Init ==
  /\ record \in Records
  /\ pc = "start"
  /\ sector = 1
  /\ restored = <<>>
  /\ cursor = 0
  /\ attributes = <<>>
  /\ status = NoError

Refuse(error) ==
  /\ pc' = "done"
  /\ status' = error
  /\ UNCHANGED <<record, sector, restored, cursor, attributes>>

\* parse_mft_record and apply_update_sequence_fixup, before the first sector.
Start ==
  /\ pc = "start"
  /\ IF record.length < 48 THEN Refuse("small")
     ELSE IF record.perSector < 2 THEN Refuse("sector size")
     ELSE IF \/ record.usa.count = 0
             \/ record.usa.from + record.usa.count * 2 > record.length
     THEN Refuse("array")
     ELSE /\ pc' = "fixup"
          /\ UNCHANGED <<record, sector, restored, cursor, attributes, status>>

\* What stands in the last two bytes before an offset: the stamp of the write
\* its sector stems from, and no stamp in the middle of a sector.
WriteAt(offset) == record.writes[(offset - 1) \div record.stride + 1]
Stamp(offset) == IF offset % record.stride = 0 THEN WriteAt(offset) ELSE "data"

\* The update sequence number stands in the first sector.
MatchesAny(offset) == Stamp(offset) # "data"                 \* mutant of Matches
Matches(offset) == Stamp(offset) = record.writes[1]

FixSector ==
  /\ pc = "fixup" /\ sector < record.usa.count
  /\ LET end == sector * record.perSector
     IN  IF end > record.length THEN Refuse("array")
         ELSE IF ~Matches(end) THEN Refuse("mismatch")
         ELSE /\ restored' = Append(restored, sector)
              /\ sector' = sector + 1
              /\ UNCHANGED <<record, pc, cursor, attributes, status>>

ReadHeader ==
  /\ pc = "fixup" /\ sector >= record.usa.count
  /\ IF ~record.signature THEN Refuse("signature")
     ELSE IF record.inUse = 0 \/ record.inUse > record.length THEN Refuse("in use")
     ELSE IF record.first >= record.inUse THEN Refuse("first")
     ELSE /\ pc' = "walk"
          /\ cursor' = record.first
          /\ UNCHANGED <<record, sector, restored, attributes, status>>

\* parse_attribute_name, parse_resident_attribute, parse_non_resident_attribute
NameError(a) ==
  IF a.name.length = 0 THEN NoError
  ELSE IF a.name.from + a.name.length * 2 > a.bytes THEN "name"
  ELSE IF ~a.text THEN "utf16" ELSE NoError

ResidentError(a) ==
  IF a.bytes < 24 THEN "length"
  ELSE IF a.value.from + a.value.length > a.bytes THEN "value" ELSE NoError

NonResidentError(a) ==
  IF a.bytes < 64 THEN "length"
  ELSE IF a.pairsAt > a.bytes THEN "pairs"
  ELSE IF ParseRuns(a.pairs).error # NoError THEN "runs" ELSE NoError

FormError(a) ==
  CASE a.form = 0 -> ResidentError(a)
    [] a.form = 1 -> NonResidentError(a)
    [] OTHER -> "flag"

\* Cluster runs as a writer encodes them: one piece after another, then a zero or
\* the end; a distance counts from the last run that was not sparse.
Run == [count : Nat \ {0}, sparse : BOOLEAN, lcn : Int]

PlacedBefore(runs, k) ==
  LET placed == {j \in 1 .. k - 1 : ~runs[j].sparse}
  IN  IF placed = {} THEN 0 ELSE runs[Max(placed)].lcn

Encodes(pairs, runs) ==
  /\ runs \in Seq(Run)
  /\ LET head[k \in 1 .. Len(runs) + 1] ==
           IF k = 1 THEN 1 ELSE NextHeader(pairs, head[k - 1])
     IN  /\ \A k \in 1 .. Len(runs) :
              /\ head[k] <= Len(pairs) /\ LegalHeader(pairs[head[k]])
              /\ head[k + 1] <= Len(pairs) + 1
              /\ LET piece == RunAt(pairs, head[k])
                 IN  /\ piece.count = runs[k].count /\ piece.sparse = runs[k].sparse
                     /\ runs[k].lcn \in Longs
                     /\ IF runs[k].sparse THEN runs[k].lcn = 0
                        ELSE piece.distance = runs[k].lcn - PlacedBefore(runs, k)
         /\ EndOfRuns(pairs, head[Len(runs) + 1])

\* The attributes as a writer leaves them: one after another, from the first to
\* the end marker, each in order by itself.
IsLaidOut(r) ==
  /\ r.stride > 1
  /\ r.inUse \in 1 .. r.length /\ r.first < r.inUse
  /\ r.first \in DOMAIN r.attributes
  /\ \A o \in DOMAIN r.attributes :
       LET a == r.attributes[o]
       IN  /\ r.first <= o
           /\ a.type = "end" => o + 4 <= r.inUse /\ \A q \in DOMAIN r.attributes : q <= o
           /\ a.type = "attribute" =>
                /\ a.bytes >= 16 /\ o + a.bytes <= r.inUse
                /\ o + a.bytes \in DOMAIN r.attributes
                /\ \A q \in DOMAIN r.attributes : q <= o \/ o + a.bytes <= q
                /\ NameError(a) = NoError
                /\ \/ a.form = 0 /\ ResidentError(a) = NoError
                   \/ /\ a.form = 1 /\ a.bytes >= 64 /\ a.pairsAt <= a.bytes
                      /\ Encodes(a.pairs, a.runs)

RecordsAssumption ==
  /\ \A r \in Records : IsRecord(r) /\ (r.sound => IsLaidOut(r))
  /\ \A a \in Garbage : IsAttribute(a)
  /\ LongBytes \in Nat \ {0}

LengthError(a) ==
  IF cursor + 16 > record.inUse THEN "bounds"
  ELSE IF a.bytes < 16 THEN "length"
  ELSE IF cursor + a.bytes > record.inUse THEN "bounds" ELSE NoError

ErrorOf(a) ==
  IF LengthError(a) # NoError THEN LengthError(a)
  ELSE IF NameError(a) # NoError THEN NameError(a) ELSE FormError(a)

\* What the parser finds at the cursor.
Found == IF cursor \in DOMAIN record.attributes THEN {record.attributes[cursor]}
         ELSE Garbage

Result(a) ==
  [at |-> cursor, bytes |-> a.bytes, name |-> a.name, value |-> a.value,
   form |-> a.form, runs |-> IF a.form = 1 THEN ParseRuns(a.pairs).runs ELSE <<>>]

Walking == pc = "walk" /\ cursor + 4 <= record.inUse

ReadAttribute ==
  /\ Walking
  /\ \E a \in Found :
       /\ a.type = "attribute"
       /\ IF ErrorOf(a) # NoError THEN Refuse(ErrorOf(a))
          ELSE /\ attributes' = Append(attributes, Result(a))
               /\ cursor' = cursor + a.bytes
               /\ UNCHANGED <<record, pc, sector, restored, status>>

AtEnd == Walking => \E a \in Found : a.type = "end"

Finish ==
  /\ pc = "walk" /\ AtEnd
  /\ pc' = "done"
  /\ status' = "ok"
  /\ UNCHANGED <<record, sector, restored, cursor, attributes>>

Next == Start \/ FixSector \/ ReadHeader \/ ReadAttribute \/ Finish

Spec == Init /\ [][Next]_vars /\ WF_vars(Next)

-----------------------------------------------------------------------------
TypeOK ==
  /\ pc \in {"start", "fixup", "walk", "done"}
  /\ sector \in 1 .. Len(restored) + 1
  /\ cursor \in 0 .. record.inUse
  /\ status = "ok" => pc = "done"
  /\ \A i \in DOMAIN attributes : attributes[i].bytes \in Nat

Parsed == status = "ok"

Sectors == 1 .. record.length \div record.stride

\* The record as its writer leaves it: an entry for every sector.
WellFormed ==
  /\ record.stride = record.perSector
  /\ record.usa.count = Cardinality(Sectors) + 1

SectorsOf(from, bytes) ==
  {s \in Sectors : from < s * record.stride /\ from + bytes > (s - 1) * record.stride}

\* An attribute is never put together from two writes: every sector it reaches
\* into stems from the write of the header, and has the end that this write
\* saved for it (apply_update_sequence_fixup refuses the record otherwise).
OneWrite ==
  (Parsed /\ WellFormed) =>
    \A i \in DOMAIN attributes :
      \A s \in SectorsOf(attributes[i].at, attributes[i].bytes) :
        /\ record.writes[s] = record.writes[1]
        /\ restored[s] = s

\* Attributes of a record whatever stands in it do not overlap, and neither
\* they nor their names and values leave the bytes in use: no later reader can
\* take the text of one attribute, or what is left of a deleted one, for part of
\* another.
OwnBytes ==
  \A i \in DOMAIN attributes :
    /\ attributes[i].at + attributes[i].bytes <= record.inUse
    /\ \A k \in 1 .. i - 1 : attributes[k].at + attributes[k].bytes <= attributes[i].at
    /\ attributes[i].form = 0 =>
         attributes[i].value.from + attributes[i].value.length <= attributes[i].bytes

\* The attributes a writer put one after another, and an end marker after them.
WrittenWhole ==
  /\ WellFormed /\ record.length >= 48 /\ record.signature
  /\ record.usa.from + record.usa.count * 2 <= record.length
  /\ \A s \in Sectors : record.writes[s] = record.writes[1]
  /\ record.sound

Attributes == {o \in DOMAIN record.attributes : record.attributes[o].type = "attribute"}

\* A record that was written whole is parsed, with every attribute the writer
\* put into it and with the cluster runs it encoded: what the lists of files and
\* the recovery of streams rest on.
WrittenIsParsed ==
  (pc = "done" /\ WrittenWhole) =>
    /\ Parsed
    /\ {attributes[i].at : i \in DOMAIN attributes} = Attributes
    /\ \A i \in DOMAIN attributes :
         attributes[i].form = 1 =>
           attributes[i].runs = record.attributes[attributes[i].at].runs
=============================================================================
