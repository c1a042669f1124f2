---------------------------- MODULE RaidAssembly ----------------------------
(***************************************************************************)
(* fr_open_virtual_raid_session, seen from the data: the layout of an      *)
(* array is detected from its members and overridden by hand, the array is *)
(* copied chunk by chunk into an artifact file, and the result is assessed *)
(* for missing members.  The sessions and the locks around it are in       *)
(* EngineSessions.                                                         *)
(*                                                                         *)
(* A block of the artifact is named by where it was read:                  *)
(* <<position among the member sessions, offset in that member>>.          *)
(***************************************************************************)
EXTENDS RaidLayouts, Sequences

CONSTANTS
  Requests,       \* what is passed in: see IsRequest
  SampleCounts    \* sample counts of an assessment, clamped to 8 .. 1024

VARIABLES
  supers,       \* the superblock each member holds
  sizes,        \* the size of each member
  override,     \* the manual override: the fields it replaces
  pc,
  layout,
  logicalSize,
  output,       \* the artifact file
  status,       \* what the call returned
  missing, samples, recoverable       \* the last assessment

requestVars == <<supers, sizes, override>>
assessmentVars == <<missing, samples, recoverable>>
vars == <<requestVars, pc, layout, logicalSize, output, status,
          assessmentVars>>

-----------------------------------------------------------------------------
\* A member without readable metadata.
NoMetadata == [level |-> "none"]

\* role: the place of the member in the array, which every family's metadata
\* holds and no parser reads.
Superblock ==
  [level : Levels, members : Nat, chunk : Nat, offset : Nat,
   rotation : Rotations, role : Nat]

IsRequest(r) ==
  LET n == Cardinality(DOMAIN r.sizes)
  IN /\ n \in 2 .. 32
     /\ r.supers \in [0 .. n - 1 -> Superblock \cup {NoMetadata}]
     /\ r.sizes \in [0 .. n - 1 -> 0 .. Limit]
     /\ DOMAIN r.override \subseteq
          {"level", "stripe", "offset", "rotation", "order"}
     /\ "level" \in DOMAIN r.override => r.override.level \in Levels
     /\ "stripe" \in DOMAIN r.override => r.override.stripe \in Nat
     /\ "offset" \in DOMAIN r.override => r.override.offset \in Nat
     /\ "rotation" \in DOMAIN r.override => r.override.rotation \in Rotations
     /\ "order" \in DOMAIN r.override =>
          \E k \in 0 .. Limit : r.override.order \in [0 .. k - 1 -> Nat]

ASSUME RequestsAssumption ==
  /\ \A r \in Requests : IsRequest(r)
  /\ SampleCounts \subseteq Nat

Members == DOMAIN sizes
Count   == Cardinality(Members)

\* The members whose prefix shows metadata; an empty member is passed over.
Speaking == {i \in Members : sizes[i] > 0 /\ supers[i] # NoMetadata}
FirstSpeaking == CHOOSE i \in Speaking : \A j \in Speaking : i <= j

\* detect_virtual_raid_layout: the first layout found is the layout.
FoundLayout == Overridden(Detected(supers[FirstSpeaking]), override)

CountUnchecked ==        \* mutant of DetectStatus: every member count is taken
  IF Speaking = {} THEN 140 ELSE 0
DetectStatus ==
  CASE Speaking = {} -> 140
    [] supers[FirstSpeaking].members < 2 -> 141
    [] ~OverrideAccepted(override, supers[FirstSpeaking].members) -> 142
    [] supers[FirstSpeaking].members # Count -> 141
    [] OTHER -> 0

-----------------------------------------------------------------------------
Init ==
  /\ \E r \in Requests :
       /\ supers = r.supers
       /\ sizes = r.sizes
       /\ override = r.override
  /\ pc = "detect"
  /\ layout = Detected([level |-> "Unknown", members |-> 0, chunk |-> 0,
                        offset |-> 0, rotation |-> "Unknown"])
  /\ logicalSize = 0
  /\ output = <<>>
  /\ status = 0
  /\ missing = {}
  /\ samples = 0
  /\ recoverable = 0

\* The call returns an error; an artifact file begun is removed.
Fail(code) ==
  /\ pc' = "failed"
  /\ status' = code
  /\ output' = <<>>
  /\ UNCHANGED <<requestVars, layout, logicalSize, assessmentVars>>

Detect ==
  /\ pc = "detect"
  /\ DetectStatus = 0
  /\ layout' = FoundLayout
  /\ pc' = "measure"
  /\ UNCHANGED <<requestVars, logicalSize, output, status, assessmentVars>>

DetectFails ==
  /\ pc = "detect"
  /\ DetectStatus # 0
  /\ Fail(DetectStatus)

\* The size of the array is computed and the artifact file created.
Measurable == Sizeable(layout, sizes) /\ LogicalSize(layout, sizes) > 0

Measure ==
  /\ pc = "measure"
  /\ Measurable
  /\ logicalSize' = LogicalSize(layout, sizes)
  /\ pc' = "copy"
  /\ UNCHANGED <<requestVars, layout, output, status, assessmentVars>>

MeasureFails ==
  /\ pc = "measure"
  /\ ~Measurable
  /\ Fail(141)

\* The next chunk is read from where its first block maps to.
ReadLength == Smaller(logicalSize - Len(output), ChunkSize(layout))
Mapped == MapOffset(layout, Len(output))

CopyChunk ==
  /\ pc = "copy"
  /\ Len(output) < logicalSize
  /\ Maps(layout, Len(output))
  /\ Mapped.offset + ReadLength <= sizes[Mapped.member]
  /\ output' = output \o [k \in 1 .. ReadLength |->
                            <<Mapped.member, Mapped.offset + k - 1>>]
  /\ UNCHANGED <<requestVars, pc, layout, logicalSize, status,
                 assessmentVars>>

\* The chunk has no mapping, or the read (31) or the write (44) fails.
CopyFails ==
  /\ pc = "copy"
  /\ Len(output) < logicalSize
  /\ IF Maps(layout, Len(output)) THEN \E code \in {31, 44} : Fail(code)
     ELSE Fail(141)

Finish ==
  /\ pc = "copy"
  /\ Len(output) >= logicalSize
  /\ pc' = "done"
  /\ status' = 0
  /\ UNCHANGED <<requestVars, layout, logicalSize, output, assessmentVars>>

\* fr_assess_raid_degraded_layout of the layout of the open virtual session.
Assess(lost, count) ==
  /\ pc = "done"
  /\ missing' = lost
  /\ samples' = count
  /\ recoverable' = Cardinality(RecoverableSamples(layout, lost, count))
  /\ pc' = "assessed"
  /\ UNCHANGED <<requestVars, layout, logicalSize, output, status>>

Next ==
  \/ Detect \/ DetectFails
  \/ Measure \/ MeasureFails
  \/ CopyChunk \/ CopyFails \/ Finish
  \/ \E lost \in SUBSET Members, count \in SampleCounts : Assess(lost, count)

Spec == Init /\ [][Next]_vars

-----------------------------------------------------------------------------
(* Properties *)

Layout ==
  [level : Levels, members : Nat, stripe : Nat, offset : Nat,
   rotation : Rotations, order : [Members -> Members]]

\* The types of the variables; once a layout is accepted it is one of the
\* members that were passed in.
TypeOK ==
  /\ pc \in {"detect", "measure", "copy", "done", "assessed", "failed"}
  /\ pc \in {"measure", "copy", "done", "assessed"} => layout \in Layout
  /\ logicalSize \in Nat
  /\ output \in Seq(Members \X Nat)
  /\ status \in {0, 31, 44, 140, 141, 142}
  /\ missing \subseteq Members
  /\ samples \in {0} \cup SampleCounts
  /\ recoverable \in 0 .. samples

Assembled == pc \in {"done", "assessed"}

Image == {output[i] : i \in DOMAIN output}

\* The chunked copy gives every block what fr_map_raid_logical_offset says of
\* it, though only the first block of a chunk is mapped: no chunk crosses the
\* end of a stripe.
ImageMatchesMap ==
  Assembled =>
    /\ Len(output) = logicalSize
    /\ \A i \in DOMAIN output :
         LET m == MapOffset(layout, i - 1)
         IN output[i] = <<m.member, m.offset>>

\* No block of a member appears twice in the array.
EachBlockOnce ==
  Assembled => \A i, j \in DOMAIN output : output[i] = output[j] => i = j

\* The blocks that hold no data of their own: parity and mirrors.
Redundant ==
  IF layout.level = "Raid1"
  THEN {<<layout.order[p], b>> :
          p \in 1 .. layout.members - 1,
          b \in layout.offset .. layout.offset + logicalSize - 1}
  ELSE {<<MapOffset(layout, x).parity, MapOffset(layout, x).offset>> :
          x \in 0 .. logicalSize - 1}

\* The data area of the members, as far as whole stripes of the smallest go.
DataArea ==
  LET depth == IF layout.level = "Raid1" THEN logicalSize
               ELSE logicalSize \div DataMembers(layout)
  IN Members \X (layout.offset .. layout.offset + depth - 1)

\* The array is complete and clean: every block of the members' data area is
\* either in it or is parity or mirror of what is in it, and never both.
ArrayIsWhole ==
  Assembled =>
    /\ DataArea \subseteq Image \cup Redundant
    /\ Image \subseteq DataArea
    /\ Image \cap Redundant = {}

\* When every sampled stripe counts as recoverable, so is every block of the
\* array, provided the samples span a row: assess_degraded_layout looks at the
\* first stripes only.  Mirrors without a parity member are excepted: the code
\* counts a RAID 1 as recoverable with all members missing.
FullMarksMeanWhole ==
  (/\ pc = "assessed"
   /\ layout.level # "Raid1"
   /\ samples >= layout.members
   /\ recoverable = samples) =>
     \A x \in 0 .. logicalSize - 1 :
       CanRebuild(layout, MapOffset(layout, x), missing)

\* docs/phases/phase-14-plan.md:15: the member order is detected from the
\* metadata, unless it is overridden.
OrderIsDetected ==
  (Assembled /\ "order" \notin DOMAIN override) =>
    \A k \in Members :
      supers[layout.order[k]] # NoMetadata => supers[layout.order[k]].role = k
=============================================================================
