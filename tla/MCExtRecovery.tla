--------------------------- MODULE MCExtRecovery ---------------------------
(* Instances of ExtRecovery for TLC: inodes with two direct pointers and    *)
(* two pointers per indirect block, and extent trees of up to three entries.*)
EXTENDS ExtRecovery

NoFate == [x \in {} |-> "ok"]
OneGroup ==
  [blocks |-> 8, blocksPerGroup |-> 8, inodes |-> 1, inodesPerGroup |-> 1,
   tables |-> [g \in {0} |-> 3]]
A(access, kind, size, fate, items) ==
  [volume |-> OneGroup, number |-> 1, access |-> access, kind |-> kind, size |-> size, fate |-> fate, items |-> items]

\* The nodes of the pointer tree of an inode.
Nodes ==
  {<<0, i>> : i \in 1 .. Direct}
  \cup UNION {{<<l>> \o p : p \in UNION {[1 .. d -> 1 .. Fan] : d \in 0 .. l}} :
                l \in 1 .. 3}

\* At most two nodes are damaged, or at most one.
Two(nodes) == UNION {[{n, m} -> Fates] : n, m \in nodes}
One(nodes) == UNION {[{n} -> Fates] : n \in nodes}

\* Double trees are damaged at two nodes, triple trees at one.
PointerFiles ==
  {A("ok", "pointers", size, fate, <<>>) :
     size \in {0, 3, 6, 8},
     fate \in {NoFate} \cup Two({n \in Nodes : Level(n) < 3})}
  \cup {A("ok", "pointers", size, fate, <<>>) :
     size \in {9, 16, 17}, fate \in {NoFate} \cup One(Nodes)}

Extent(logical, raw, physical) ==
  [kind |-> "extent", logical |-> logical, raw |-> raw, physical |-> physical]

\* Entries at three places of a file; lengths 2 and 3, and 2 uninitialized.
Entries ==
  {[Extent(logical, raw, physical) EXCEPT !.kind = k] :
     logical \in {0, 2, 3}, raw \in {2, Flag + 2}, physical \in {20},
     k \in ItemKinds}
  \cup {Extent(1, 2, 0), Extent(2, 0, 30), Extent(4, 1, 40)}

Trees == {<<>>} \cup [1 .. 1 -> Entries] \cup [1 .. 2 -> Entries]
OneBlock(fates) == {NoFate} \cup [{<<21>>} -> fates]

ExtentFiles ==
  {A("ok", "extents", size, fate, items) :
     size \in {3, 5}, fate \in OneBlock({"unreadable", "error"}), items \in Trees}

\* Up to three groups, the last one short or without a table.
Volumes ==
  {[blocks |-> b, blocksPerGroup |-> 8, inodes |-> i, inodesPerGroup |-> p,
    tables |-> [g \in 0 .. 2 |-> IF g = 2 THEN t ELSE 3 + g]] :
     b \in {8, 17}, i \in {3, 4, 5}, p \in {0, 2}, t \in {0, 9}}

OtherFiles ==
  {A(access, "pointers", 1, NoFate, <<>>) :
     access \in {"session", "header", "superblock", "device", "inode", "create"}}
  \cup {[A("ok", "inline", 1, NoFate, <<>>) EXCEPT !.volume = v, !.number = n] :
     v \in Volumes, n \in 0 .. 5}
  \cup {A("ok", kind, size, NoFate, <<>>) :
     kind \in {"inline", "extents", "other"}, size \in {0, 2}}

MCFiles == PointerFiles \cup ExtentFiles \cup OtherFiles

=============================================================================
