---------------------------- MODULE MCMftRecords ----------------------------
\* Instances of MftRecords for TLC.
EXTENDS MftRecords

Place(from, length) == [from |-> from, length |-> length]

Resident(bytes, name, value) ==
  [type |-> "attribute", bytes |-> bytes, form |-> 0, name |-> name, value |-> value,
   text |-> TRUE, pairsAt |-> 0, pairs |-> <<>>, runs |-> <<>>]
NonResident(bytes, pairs, runs) ==
  [Resident(bytes, Place(0, 0), Place(0, 0)) EXCEPT
     !.form = 1, !.pairsAt = 64, !.pairs = pairs, !.runs = runs]
End == [Resident(0, Place(0, 0), Place(0, 0)) EXCEPT !.type = "end"]

\* One cluster run of 300 clusters at 5.
OneRun == <<[count |-> 300, sparse |-> FALSE, lcn |-> 5]>>
OnePairs == <<18, 44, 1, 5, 0>>

\* 4 clusters at 10, 3 that are sparse and 2 at 7, three before the first.
ThreeRuns == <<[count |-> 4, sparse |-> FALSE, lcn |-> 10],
               [count |-> 3, sparse |-> TRUE, lcn |-> 0],
               [count |-> 2, sparse |-> FALSE, lcn |-> 7]>>
ThreePairs == <<17, 4, 10, 1, 3, 17, 2, 253>>

\* Three attributes of which the second reaches over the end of a sector of 256
\* bytes and the third stands in the next one.
Written ==
  [length |-> 512, signature |-> TRUE, perSector |-> 256, stride |-> 256,
   usa |-> [from |-> 48, count |-> 3], writes |-> <<"new", "new">>,
   inUse |-> 440, first |-> 56, sound |-> TRUE,
   attributes |->
     [o \in {56, 160, 300, 400} |->
        CASE o = 56 -> Resident(104, Place(24, 2), Place(32, 72))
          [] o = 160 -> Resident(140, Place(0, 0), Place(24, 116))
          [] o = 300 -> NonResident(100, OnePairs, OneRun)
          [] OTHER -> End]]

Torn == {[r EXCEPT !.writes = <<a, b>>] :
           a, b \in {"old", "new"},
           r \in {Written, [Written EXCEPT !.attributes[300] = NonResident(100, ThreePairs, ThreeRuns)]}}

\* Records whose sector ends, array or header are not as a writer leaves them.
Headers ==
  {[Written EXCEPT !.length = 40, !.sound = FALSE], [Written EXCEPT !.perSector = 1],
   [Written EXCEPT !.perSector = 512], [Written EXCEPT !.perSector = 128],
   [Written EXCEPT !.signature = FALSE]}
    \cup {[Written EXCEPT !.usa = [from |-> f, count |-> c], !.sound = FALSE] : f \in {48, 510}, c \in {0, 1, 2, 4}}
    \cup {[Written EXCEPT !.inUse = n, !.sound = FALSE] : n \in {0, 50, 56, 60, 70, 300, 404, 513}}

Bad(o, a) == [Written EXCEPT !.attributes[o] = a, !.sound = FALSE]
Broken ==
  {Resident(0, Place(0, 0), Place(0, 0)), Resident(8, Place(0, 0), Place(0, 0)),
   Resident(16, Place(0, 0), Place(0, 0)), Resident(400, Place(0, 0), Place(24, 8)),
   Resident(104, Place(24, 60), Place(24, 8)), Resident(104, Place(0, 0), Place(24, 100)),
   Resident(32, Place(0, 0), Place(24, 8)), Resident(24, Place(0, 0), Place(24, 0)),
   [Resident(104, Place(24, 2), Place(24, 8)) EXCEPT !.text = FALSE],
   [Resident(104, Place(0, 0), Place(24, 8)) EXCEPT !.form = 2],
   NonResident(40, OnePairs, OneRun), [NonResident(104, OnePairs, OneRun) EXCEPT !.pairsAt = 110],
   NonResident(104, <<17, 0, 5>>, <<>>), NonResident(104, <<4, 1, 0, 0, 0>>, <<>>),
   NonResident(104, <<18, 1>>, <<>>), NonResident(104, <<49, 1, 1, 1, 1>>, <<>>),
   NonResident(104, <<33, 1, 255, 127, 17, 1, 1>>, <<>>), End}

MCGarbage ==
  {End, Resident(0, Place(0, 0), Place(0, 0)), Resident(24, Place(0, 0), Place(24, 0)),
   Resident(90, Place(0, 0), Place(24, 66))}
MCRecords == Torn \cup Headers \cup {Bad(o, a) : o \in {56, 160, 300}, a \in Broken}

-----------------------------------------------------------------------------
\* Cluster runs, as NTFS writes them: with the fewest bytes that hold a length
\* or a distance.
BytesOf(n) == IF n < 0 THEN n + 65536 ELSE n
SizeUnsigned(n) == IF n < 256 THEN 1 ELSE 2
SizeSigned(n) == IF n \in -128 .. 127 THEN 1 ELSE 2
LowHigh(n, size) ==
  IF size = 1 THEN <<BytesOf(n) % 256>> ELSE <<BytesOf(n) % 256, BytesOf(n) \div 256>>

Piece(run, from) ==
  LET size == SizeUnsigned(run.count)
      distance == run.lcn - from
      far == IF run.sparse THEN 0 ELSE SizeSigned(distance)
  IN  <<size + 16 * far>> \o LowHigh(run.count, size)
        \o (IF run.sparse THEN <<>> ELSE LowHigh(distance, far))

Counts == {1, 127, 128, 255, 256, 300}
Lcns == {0, 100, 127, 128, 300, 20000}
Plain == {[count |-> c, sparse |-> FALSE, lcn |-> l] : c \in Counts, l \in Lcns}
Sparse == {[count |-> c, sparse |-> TRUE, lcn |-> 0] : c \in {1, 256}}

Encoded3(a, b, c) ==
  Piece(a, 0) \o Piece(b, a.lcn)
    \o Piece(c, IF b.sparse THEN a.lcn ELSE b.lcn)

RunsRecord(a, b, c, pad) ==
  [Written EXCEPT !.attributes[300] =
     NonResident(100, Encoded3(a, b, c) \o pad, <<a, b, c>>)]

MCRunsRecords ==
  {RunsRecord(a, b, c, pad) :
     a \in {p \in Plain : p.count \in {1, 256}},
     b \in {p \in Plain : p.count \in {127, 300}} \cup Sparse,
     c \in {p \in Plain : p.count \in {128, 255}}, pad \in {<<>>, <<0, 7>>}}

=============================================================================
