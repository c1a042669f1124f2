--------------------------- MODULE MCRaidAssembly ---------------------------
(* Instances of RaidAssembly for TLC: every level and rotation over two to  *)
(* four members, with stripes of one, two and four blocks.                  *)
EXTENDS RaidAssembly

\* The superblocks of one array; chunk 3 is invalid and becomes the default.
ArraySuperblocks ==
  [level : Levels, members : 1 .. 4, chunk : {1, 3, 4}, offset : {0, 1},
   rotation : {"LeftSymmetric", "RightSymmetric"}, role : {0}]

\* Which members show their metadata, and the order they are passed in.
Swapped(n) == [i \in 0 .. n - 1 |-> IF i = 0 THEN 1 ELSE IF i = 1 THEN 0 ELSE i]

Shown(sb, n, place, first) ==
  [i \in 0 .. n - 1 |->
     IF i < first THEN NoMetadata ELSE [sb EXCEPT !.role = place[i]]]

MemberSizes(n) ==
  {[i \in 0 .. n - 1 |-> 5],
   [i \in 0 .. n - 1 |-> IF i = n - 1 THEN 4 ELSE 6],
   [i \in 0 .. n - 1 |-> IF i = 0 THEN 0 ELSE 5]}

NoOverride == [f \in {} |-> 0]
LevelOverride == [level |-> "Raid5"]
StripeOverride == [stripe |-> 3]
OffsetOverride == [offset |-> 2, stripe |-> 2]
OrderOverride(n) == [order |-> [i \in 0 .. n - 1 |-> n - 1 - i]]
BadOrderOverride(n) == [order |-> [i \in 0 .. n - 1 |-> 0]]

\* What goes wrong before the copy is tried on RAID 0 only.
Rejected(n) ==
  {[supers |-> Shown(sb, n, IdentityOrder(n), first),
    sizes |-> s, override |-> o] :
     sb \in {b \in ArraySuperblocks :
               b.level = "Raid0" /\ b.chunk = 4 /\ b.rotation = "LeftSymmetric"},
     first \in {0, 1, n},
     s \in MemberSizes(n),
     o \in {NoOverride, BadOrderOverride(n), StripeOverride}}

Assembling(n) ==
  {[supers |-> Shown(sb, n, IdentityOrder(n), 0), sizes |-> s, override |-> o] :
     sb \in {b \in ArraySuperblocks : b.members = n},
     s \in MemberSizes(n),
     o \in {NoOverride, LevelOverride, OffsetOverride, OrderOverride(n)}}

MCRequests == UNION {Rejected(n) \cup Assembling(n) : n \in 2 .. 4}

\* Members passed in another order than that of the array.
SwappedRequests ==
  {[supers |-> Shown(sb, 3, Swapped(3), 0), sizes |-> [i \in 0 .. 2 |-> 4],
    override |-> NoOverride] :
     sb \in {b \in ArraySuperblocks : b.members = 3}}
=============================================================================
