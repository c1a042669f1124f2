---------------------------- MODULE RaidLayouts ----------------------------
(***************************************************************************)
(* The pure part of fr-raid: which member and which offset a logical       *)
(* offset of an array maps to, how large the array is, and what can be     *)
(* rebuilt when members are missing.                                       *)
(*                                                                         *)
(* Bytes are counted in blocks.  A layout is a record                      *)
(*   [level, members, stripe, offset, rotation, order]                     *)
(* like RaidLayout; order is a function on 0 .. members - 1, a Vec<u32>.   *)
(***************************************************************************)
EXTENDS Integers, FiniteSets

CONSTANTS
  MinStripe,    \* 4 KiB, also the least chunk of the assembly
  MaxStripe,    \* 4 MiB
  DefaultStripe,  \* 64 KiB
  MaxChunk,     \* 1 MiB, the largest chunk of the assembly
  Limit         \* 2^64: an offset that reaches it overflows

IsPowerOfTwo(s) == \E k \in 0 .. 31 : k < s /\ s = 2 ^ k

\* The bounds of the code; a stripe above the largest chunk holds whole chunks.
ASSUME StripesAssumption ==
  /\ MinStripe \in Nat \ {0}
  /\ MaxStripe \in Nat
  /\ DefaultStripe \in MinStripe .. MaxStripe
  /\ MaxChunk \in Nat
  /\ MinStripe <= MaxChunk
  /\ Limit \in Nat
  /\ \A s \in MaxChunk .. MaxStripe : IsPowerOfTwo(s) => s % MaxChunk = 0

Levels    == {"Raid0", "Raid1", "Raid4", "Raid5", "Raid6", "Raid10", "Unknown"}
Rotations == {"LeftSymmetric", "RightSymmetric", "Unknown"}
NoMember  == -1                     \* parity_member_index: None

Smaller(a, b) == IF a <= b THEN a ELSE b
Larger(a, b)  == IF a >= b THEN a ELSE b

-----------------------------------------------------------------------------
(* What map_logical_offset checks before it maps *)

\* is_valid_stripe_size: a power of two between the bounds.
ValidStripe(s) ==
  /\ s \in MinStripe .. MaxStripe
  /\ IsPowerOfTwo(s)

\* validate_disk_order: every member exactly once.
AnyOrder(order, members) ==            \* mutant of ValidOrder: no seen[]
  /\ DOMAIN order = 0 .. members - 1
  /\ \A i \in DOMAIN order : order[i] \in 0 .. members - 1
ValidOrder(order, members) ==
  /\ DOMAIN order = 0 .. members - 1
  /\ \A i \in DOMAIN order : order[i] \in 0 .. members - 1
  /\ \A i, j \in DOMAIN order : order[i] = order[j] => i = j

\* The levels that can be mapped, and the members each needs.
MappableLevel(l) ==
  \/ l.level \in {"Raid0", "Raid1", "Raid4"}
  \/ l.level = "Raid5" /\ l.members >= 3
  \/ l.level = "Raid10" /\ l.members >= 4 /\ l.members % 2 = 0

ValidLayout(l) ==
  /\ l.members >= 2
  /\ ValidStripe(l.stripe)
  /\ ValidOrder(l.order, l.members)

-----------------------------------------------------------------------------
(* The mappings *)

\* Striped without redundancy.
MapRaid0(l, x) ==
  LET stripeNumber == x \div l.stripe
      position     == stripeNumber % l.members
      stripeIndex  == stripeNumber \div l.members
  IN [member |-> l.order[position],
      offset |-> l.offset + stripeIndex * l.stripe + (x % l.stripe),
      parity |-> NoMember]

\* Mirrored: the first member of the order is read.
MapRaid1(l, x) ==
  [member |-> l.order[0], offset |-> l.offset + x, parity |-> NoMember]

\* A row of members - 1 data stripes and one parity stripe.
RowSize(l)    == l.stripe * (l.members - 1)
Row(l, x)     == x \div RowSize(l)
Column(l, x)  == (x % RowSize(l)) \div l.stripe
RowOffset(l, x) ==
  l.offset + Row(l, x) * l.stripe + ((x % RowSize(l)) % l.stripe)

MapRaid4(l, x) ==
  [member |-> l.order[Column(l, x)],
   offset |-> RowOffset(l, x),
   parity |-> l.order[l.members - 1]]

\* Where the parity of a row is, by rotation; an unknown rotation counts as
\* left-symmetric.
ParityPosition(l, row) ==
  IF l.rotation = "RightSymmetric" THEN row % l.members
  ELSE (l.members - 1 - (row % l.members)) % l.members

\* The data of a row begins behind its parity and wraps around.
DataFromZero(l, row, column) == column         \* mutant of DataPosition
DataPosition(l, row, column) ==
  (ParityPosition(l, row) + 1 + column) % l.members

MapRaid5(l, x) ==
  [member |-> l.order[DataPosition(l, Row(l, x), Column(l, x))],
   offset |-> RowOffset(l, x),
   parity |-> l.order[ParityPosition(l, Row(l, x))]]

\* Striped over pairs of mirrors: the first of a pair is read.
MapRaid10(l, x) ==
  LET pairs        == l.members \div 2
      stripeNumber == x \div l.stripe
      primary      == 2 * (stripeNumber % pairs)
      stripeIndex  == stripeNumber \div pairs
  IN [member |-> l.order[primary],
      offset |-> l.offset + stripeIndex * l.stripe + (x % l.stripe),
      parity |-> l.order[primary + 1]]

\* map_logical_offset, for a layout that passes the checks.
MapOffset(l, x) ==
  CASE l.level = "Raid0"  -> MapRaid0(l, x)
    [] l.level = "Raid1"  -> MapRaid1(l, x)
    [] l.level = "Raid4"  -> MapRaid4(l, x)
    [] l.level = "Raid5"  -> MapRaid5(l, x)
    [] l.level = "Raid10" -> MapRaid10(l, x)

\* It returns a mapping and no error.  The sum of an offset is checked; every
\* term of it is smaller, so it overflows when the whole does.
Maps(l, x) ==
  /\ ValidLayout(l)
  /\ MappableLevel(l)
  /\ MapOffset(l, x).offset < Limit

-----------------------------------------------------------------------------
(* The size of the array *)

\* What the smallest of the members holds behind the data offset.
Usable(l, sizes) ==
  LET smallest == CHOOSE i \in DOMAIN sizes :
                    \A j \in DOMAIN sizes : sizes[i] <= sizes[j]
  IN sizes[smallest] - l.offset

\* How many members hold data of their own.
DataMembers(l) ==
  CASE l.level = "Raid0"            -> l.members
    [] l.level \in {"Raid4", "Raid5"} -> l.members - 1
    [] l.level = "Raid10"           -> l.members \div 2

\* compute_virtual_raid_logical_size returns a size and no error.
Sizeable(l, sizes) ==
  /\ DOMAIN sizes = 0 .. l.members - 1
  /\ \A i \in DOMAIN sizes : l.offset <= sizes[i]
  /\ l.level \in {"Raid0", "Raid1", "Raid4", "Raid5", "Raid10"}
  /\ l.level = "Raid10" => l.members >= 4 /\ l.members % 2 = 0

LogicalSize(l, sizes) ==
  IF l.level = "Raid1" THEN Usable(l, sizes)
  ELSE (Usable(l, sizes) - (Usable(l, sizes) % l.stripe)) * DataMembers(l)

\* The chunk assemble_virtual_raid_image copies at a time.
FullChunk(l) == MaxChunk                \* mutant of ChunkSize
ChunkSize(l) == Smaller(Larger(l.stripe, MinStripe), MaxChunk)

-----------------------------------------------------------------------------
(* Detection and manual override *)

\* normalize_stripe_size: an invalid chunk size becomes the default, 64 KiB.
NormalizeStripe(raw) == IF ValidStripe(raw) THEN raw ELSE DefaultStripe

IdentityOrder(members) == [i \in 0 .. members - 1 |-> i]

\* The layout a superblock describes: detect_*_layout.  No family's parser
\* reads an order of the members.
Detected(sb) ==
  [level    |-> sb.level,
   members  |-> sb.members,
   stripe   |-> NormalizeStripe(sb.chunk),
   offset   |-> sb.offset,
   rotation |-> sb.rotation,
   order    |-> IdentityOrder(sb.members)]

\* apply_manual_override: an override is a record of the fields it replaces.
OverrideAccepted(o, members) ==
  /\ "stripe" \in DOMAIN o => ValidStripe(o.stripe)
  /\ "order" \in DOMAIN o => ValidOrder(o.order, members)

Overridden(l, o) ==
  LET Field(f) == IF f \in DOMAIN o THEN o[f] ELSE l[f]
  IN [level |-> Field("level"), members |-> l.members,
      stripe |-> Field("stripe"), offset |-> Field("offset"),
      rotation |-> Field("rotation"), order |-> Field("order")]

-----------------------------------------------------------------------------
(* Missing members *)

\* is_mapping_recoverable.
TwoLost(l, m, missing) ==             \* mutant of Recoverable
  m.member \in missing => Cardinality(missing) <= 2
Recoverable(l, m, missing) ==
  CASE l.level = "Raid0" -> m.member \notin missing
    [] l.level \in {"Raid1", "Raid10"} ->
         m.member \notin missing \/ m.parity \notin missing
    [] l.level \in {"Raid4", "Raid5"} ->
         m.member \in missing => Cardinality(missing) <= 1
    [] OTHER -> FALSE

\* assess_degraded_layout: of the first `samples` stripes, those that map and
\* can be recovered.
RecoverableSamples(l, missing, samples) ==
  {k \in 0 .. samples - 1 :
     /\ Maps(l, k * l.stripe)
     /\ Recoverable(l, MapOffset(l, k * l.stripe), missing)}

\* The members that hold a copy of a block, or what its parity is made of.
CanRebuild(l, m, missing) ==
  LET present == (0 .. l.members - 1) \ missing
      others  == {i \in 0 .. l.members - 1 : i # m.member}
  IN \/ m.member \in present
     \/ l.level = "Raid1" /\ present # {}
     \/ l.level = "Raid10" /\ m.parity \in present
     \/ l.level \in {"Raid4", "Raid5"} /\ others \subseteq present
=============================================================================
