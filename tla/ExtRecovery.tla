---------------------------- MODULE ExtRecovery ----------------------------
(***************************************************************************)
(* fr_recover_ext_candidate_to_file: the data of a deleted ext2, ext3 or   *)
(* ext4 inode is copied to an output file, through its direct, single,     *)
(* double and triple indirect pointers, or through its extent tree.        *)
(*                                                                         *)
(* The unit is a block.  A cell of the output is the block it was read     *)
(* from: the number of a file block when pointers are followed, a physical *)
(* block when extents are; Zero is a block filled with zeros.              *)
(***************************************************************************)
EXTENDS Naturals, Sequences, FiniteSets, FiniteSetsExt

CONSTANTS
  Files,        \* the inodes recovered: see IsFile
  Direct,       \* direct pointers of an inode (12 in the code)
  Fan,          \* pointers of an indirect block (block size / 4)
  Flag,         \* the bit of an extent length that means uninitialized (2^15)
  ReadError     \* the status an error of the device becomes

VARIABLES
  file,      \* the inode and the blocks it refers to
  content,   \* the cells of the file, whatever the code makes of them
  pc,
  at,        \* pointers: the node to visit next, see Root
  item,      \* extents: the number of the tree entry to collect next
  runs,      \* extents: the runs collected and not yet written
  run,       \* extents: the run being written, or NoRun
  output,
  partial,   \* the mark returned with status 0 or 76
  status

fileVars == <<file, content>>
walkVars == <<at, item, runs, run>>
vars == <<fileVars, pc, walkVars, output, partial, status>>

Zero == 0
NoRun == <<>>
Fates == {"zero", "unreadable", "error"}

-----------------------------------------------------------------------------
(* The file.  A node is a pointer, named by its path: <<0, i>> is a direct *)
(* pointer, <<l>> the root of the l-fold indirect tree, <<l, i, ...>> an   *)
(* entry below it.                                                         *)
Root(l) == IF l = 0 THEN <<0, 1>> ELSE <<l>>
Level(n) == n[1]
IsLeaf(n) == Level(n) = 0 \/ Len(n) = Level(n) + 1
Width(n) == IF Level(n) = 0 THEN Direct ELSE Fan
IsNode(n) ==
  /\ n \in Seq(Nat) /\ n # <<>> /\ Level(n) \in 0 .. 3
  /\ Len(n) <= Level(n) + 1 \/ Len(n) = 2
  /\ Level(n) = 0 => Len(n) = 2
  /\ \A d \in 2 .. Len(n) : n[d] \in 1 .. Width(n)

\* The number of the file block that a leaf stands for, from 1.
Logical(n) ==
  CASE Level(n) = 0 -> n[2]
    [] Level(n) = 1 -> Direct + n[2]
    [] Level(n) = 2 -> Direct + Fan + (n[2] - 1) * Fan + n[3]
    [] Level(n) = 3 -> Direct + Fan + Fan * Fan
                       + ((n[2] - 1) * Fan + n[3] - 1) * Fan + n[4]

\* The file blocks below a node.
Below(n) ==
  LET depth == Max({2, Level(n) + 1})
      leaf(i) == [d \in 1 .. depth |-> IF d <= Len(n) THEN n[d] ELSE i]
  IN Logical(leaf(1)) .. Logical(leaf(Fan))

\* What reading a node, or the physical block <<p>> of an extent, finds.  The
\* pointers past the end of a file are zero.
FateOf(x) ==
  CASE x \in DOMAIN file.fate -> file.fate[x]
    [] Len(x) > 1 /\ Below(x) \cap 1 .. file.size = {} -> "zero"
    [] OTHER -> "ok"

\* An entry of the extent tree in depth-first order: an extent of a leaf, or
\* a child that holds an extent but is lost (no pointer, not readable), has a
\* bad header or fails with an error of the device.
ItemKinds == {"extent", "lost", "bad", "error"}
Item == [kind : ItemKinds, logical : Nat, raw : Nat, physical : Nat]

\* Lengths up to Flag are initialized in ext4, longer ones are not.
Initialized(x) == x.raw <= Flag
Blocks(x) == IF Initialized(x) THEN x.raw ELSE x.raw - Flag

\* The blocks of a file.  Where extents overlap, the one that starts
\* first counts.
Holes(f) == UNION {Below(n) : n \in {m \in DOMAIN f.fate : f.fate[m] = "zero"}}

Covering(f, b) ==
  {i \in DOMAIN f.items :
     b - 1 \in f.items[i].logical .. f.items[i].logical + Blocks(f.items[i]) - 1}

Overlapping(f) == \E b \in 1 .. f.size : Cardinality(Covering(f, b)) > 1

BlockOf(f, b) ==
  LET first == CHOOSE i \in Covering(f, b) :
                 \A j \in Covering(f, b) :
                   \/ f.items[i].logical < f.items[j].logical
                   \/ f.items[i].logical = f.items[j].logical /\ i <= j
      x == f.items[first]
  IN CASE f.kind = "extents" ->
            IF Covering(f, b) = {} \/ ~Initialized(x) THEN Zero
            ELSE x.physical + b - 1 - x.logical
       [] f.kind = "pointers" -> IF b \in Holes(f) THEN Zero ELSE b
       [] OTHER -> b

Content(f) == [b \in 1 .. f.size |-> BlockOf(f, b)]

-----------------------------------------------------------------------------
(* Where an inode is: in the table of its group, whose block the group's   *)
(* descriptor names.                                                       *)
RoundedUp(a, b) == IF b = 0 THEN 0 ELSE (a + b - 1) \div b

GroupCount(v) ==
  Max({RoundedUp(v.blocks, v.blocksPerGroup), RoundedUp(v.inodes, v.inodesPerGroup)})

Group(v, n) == (n - 1) \div v.inodesPerGroup

\* A descriptor that cannot be read, or that names no table, leaves the inode
\* nowhere.
Nowhere == <<>>
Locate(v, n) ==
  IF n = 0 \/ v.inodesPerGroup = 0 THEN Nowhere
  ELSE LET g == Group(v, n)
       IN IF g >= GroupCount(v) \/ g \notin DOMAIN v.tables \/ v.tables[g] = 0
          THEN Nowhere
          ELSE <<v.tables[g], (n - 1) % v.inodesPerGroup>>

IsVolume(v) ==
  /\ {v.blocks, v.blocksPerGroup, v.inodes, v.inodesPerGroup} \subseteq Nat
  /\ \A g \in DOMAIN v.tables : v.tables[g] \in Nat

IsFile(f) ==
  /\ IsVolume(f.volume) /\ f.number \in Nat
  /\ f.kind \in {"pointers", "extents", "inline", "other"}
  /\ f.size \in Nat
  /\ f.access \in {"ok", "session", "header", "superblock", "device",
                   "inode", "create"}
  /\ f.items \in Seq(Item)
  /\ \A i \in DOMAIN f.items : f.items[i].raw < 2 * Flag     \* 16 bits
  /\ \A x \in DOMAIN f.fate :
       /\ f.fate[x] \in Fates
       /\ f.kind = "pointers" => IsNode(x)

FilesAssumption ==
  /\ \A f \in Files : IsFile(f)
  /\ Direct \in Nat \ {0} /\ Fan \in Nat \ {0} /\ Flag \in Nat \ {0}
  /\ ReadError \in Nat \ {0, 76}

-----------------------------------------------------------------------------
Remaining == file.size - Len(output)
Min2(a, b) == IF a <= b THEN a ELSE b

Init ==
  /\ file \in Files
  /\ content = Content(file)
  /\ pc = "open"
  /\ at = Root(0)
  /\ item = 1
  /\ runs = <<>>
  /\ run = NoRun
  /\ output = <<>>
  /\ partial = FALSE
  /\ status = 0

Returns(s, p) ==
  /\ pc' = "done"
  /\ status' = s
  /\ partial' = p
  /\ UNCHANGED <<fileVars, walkVars, output>>

Unmarked(p) ==            \* mutant of Ends: the mark is not passed on
  Returns(IF output = <<>> /\ file.size > 0 THEN 76 ELSE 0, FALSE)
\* The result of a recovery that came to its end.
Ends(p) == Returns(IF output = <<>> /\ file.size > 0 THEN 76 ELSE 0, p)

Error(s) == Returns(s, FALSE)

\* The statuses of what goes wrong before the first block is read.
AccessStatus ==
  [session |-> 20, header |-> 31, superblock |-> 90, device |-> ReadError,
   inode |-> 91, create |-> 44]

Open ==
  /\ pc = "open"
  /\ \/ /\ file.number # 0 /\ file.access # "ok"
        /\ Error(AccessStatus[file.access])
     \/ /\ \/ file.number = 0
           \/ file.access = "ok" /\ Locate(file.volume, file.number) = Nowhere
           \/ file.access = "ok" /\ file.kind = "other"    \* no file, symlink, directory
        /\ Error(91)
     \/ /\ file.access = "ok" /\ file.kind # "other"
        /\ Locate(file.volume, file.number) # Nowhere
        /\ pc' = file.kind
        /\ UNCHANGED <<fileVars, walkVars, output, partial, status>>

Appends(cells) ==
  \/ /\ output' = output \o cells
     /\ UNCHANGED <<fileVars, pc, status>>
  \/ /\ cells # <<>>                      \* the write fails
     /\ pc' = "done"
     /\ status' = 44
     /\ UNCHANGED <<fileVars, output>>

\* A symlink of at most 60 bytes is in the inode itself.
InlineSymlink ==
  /\ pc = "inline"
  /\ IF Remaining > 0
     THEN Appends(content) /\ UNCHANGED <<walkVars, partial>>
     ELSE Ends(FALSE)

-----------------------------------------------------------------------------
(* Direct and indirect pointers *)

\* The node after a subtree: its next sibling, or that of the nearest
\* ancestor that has one, or the root of the next level.
WithinLevel(n) == {d \in 2 .. Len(n) : n[d] < Width(n)}
LevelAgain(n) ==          \* mutant of After: a level is entered again at its end
  IF WithinLevel(n) = {} THEN Root(Level(n))
  ELSE LET d == Max(WithinLevel(n))
       IN [i \in 1 .. d |-> IF i = d THEN n[i] + 1 ELSE n[i]]
After(n) ==
  IF WithinLevel(n) = {} THEN Root(Level(n) + 1)
  ELSE LET d == Max(WithinLevel(n))
       IN [i \in 1 .. d |-> IF i = d THEN n[i] + 1 ELSE n[i]]

\* A level ends without a mark of its own, except the double and the triple
\* tree, which are partial whenever something is left.
LevelMark(l, left) == l \in {2, 3} /\ left > 0

\* A missing pointer or an unreadable block ends the level; the next level
\* is tried all the same, and what it yields is appended.
ReadAgain(n) ==           \* mutant of LeaveLevel: the block is tried again
  /\ partial' = TRUE
  /\ UNCHANGED <<fileVars, pc, at, output, status, item, runs, run>>
LeaveLevel(n) ==
  /\ at' = Root(Level(n) + 1)
  /\ partial' = TRUE
  /\ UNCHANGED <<fileVars, pc, output, status, item, runs, run>>

Descend(n) ==
  /\ at' = Append(n, 1)
  /\ UNCHANGED <<fileVars, pc, output, status, partial, item, runs, run>>

WriteLeaf(n) ==
  /\ Appends(<<Logical(n)>>)
  /\ at' = After(n)
  /\ partial' = \/ partial
                \/ Level(After(n)) # Level(n) /\ LevelMark(Level(n), Remaining - 1)
  /\ UNCHANGED <<item, runs, run>>

Visit(l) ==
  /\ pc = "pointers"
  /\ Level(at) = l
  /\ Remaining > 0
  /\ \/ FateOf(at) = "ok" /\ IsLeaf(at) /\ WriteLeaf(at)
     \/ FateOf(at) = "ok" /\ ~IsLeaf(at) /\ Descend(at)
     \/ FateOf(at) \in {"zero", "unreadable"} /\ LeaveLevel(at)
     \/ FateOf(at) = "error" /\ Error(ReadError)

VisitDirect == Visit(0)
VisitSingle == Visit(1)
VisitDouble == Visit(2)
VisitTriple == Visit(3)

PointersEnd ==
  /\ pc = "pointers"
  /\ Remaining = 0 \/ Level(at) = 4
  /\ Ends(partial \/ Remaining > 0)

-----------------------------------------------------------------------------
(* Extents *)

\* A length without the flag; zero is passed over in silence.
Count(x) == x.raw % Flag
Uninitialized(x) == x.raw >= Flag

Collected(x) == [logical |-> x.logical, physical |-> x.physical,
                 count |-> Count(x), zeroed |-> Uninitialized(x)]

Missing(x) ==
  \/ x.kind = "lost"
  \/ x.kind = "extent" /\ Count(x) > 0 /\ x.physical = 0 /\ ~Uninitialized(x)

Collect ==
  /\ pc = "extents" /\ file.size > 0
  /\ item <= Len(file.items)
  /\ LET x == file.items[item]
     IN \/ x.kind = "bad" /\ Error(91)
        \/ x.kind = "error" /\ Error(ReadError)
        \/ /\ x.kind \in {"extent", "lost"}
           /\ item' = item + 1
           /\ partial' = (partial \/ Missing(x))
           /\ runs' = IF x.kind = "lost" \/ Count(x) = 0 \/ Missing(x) THEN runs
                      ELSE Append(runs, Collected(x))
           /\ UNCHANGED <<fileVars, pc, at, run, output, status>>

EndCollect ==
  /\ pc = "extents"
  /\ file.size = 0 \/ item > Len(file.items)
  /\ IF file.size = 0 THEN Ends(FALSE)
     ELSE IF runs = <<>> THEN Ends(TRUE)
     ELSE /\ pc' = "runs"
          /\ UNCHANGED <<fileVars, walkVars, output, partial, status>>

\* The runs are taken in the order of their logical blocks.
FirstRun ==
  CHOOSE k \in DOMAIN runs :
    \A j \in DOMAIN runs :
      \/ runs[k].logical < runs[j].logical
      \/ runs[k].logical = runs[j].logical /\ k <= j

Without(k) == SubSeq(runs, 1, k - 1) \o SubSeq(runs, k + 1, Len(runs))

Zeros(n) == [i \in 1 .. n |-> Zero]

Gap(r) == Min2(Remaining, r.logical - Len(output))

\* Blocks before a run are zero-filled; a run that starts too early ends it.
TakeRun ==
  /\ pc = "runs" /\ run = NoRun /\ runs # <<>> /\ Remaining > 0
  /\ LET r == runs[FirstRun]
     IN IF r.logical < Len(output) THEN Ends(TRUE)
        ELSE /\ Appends(Zeros(Gap(r)))
             /\ runs' = Without(FirstRun)
             /\ run' = <<r>>
             /\ UNCHANGED <<at, item, partial>>

RunOver == run # NoRun /\ Len(output) = run[1].logical + run[1].count

WriteBlock ==
  /\ pc = "runs" /\ run # NoRun /\ ~RunOver /\ Remaining > 0
  /\ LET source == run[1].physical + Len(output) - run[1].logical
     IN \/ run[1].zeroed /\ Appends(<<Zero>>) /\ UNCHANGED <<walkVars, partial>>
        \/ /\ ~run[1].zeroed /\ FateOf(<<source>>) = "ok"
           /\ Appends(<<source>>) /\ UNCHANGED <<walkVars, partial>>
        \/ /\ ~run[1].zeroed /\ FateOf(<<source>>) \in {"zero", "unreadable"}
           /\ Ends(TRUE)
        \/ ~run[1].zeroed /\ FateOf(<<source>>) = "error" /\ Error(ReadError)

LeaveRun ==
  /\ pc = "runs" /\ RunOver /\ Remaining > 0
  /\ run' = NoRun
  /\ UNCHANGED <<fileVars, pc, at, item, runs, output, partial, status>>

\* After the last run the rest of the file is zero-filled.
FillTail ==
  /\ pc = "runs" /\ run = NoRun /\ runs = <<>> /\ Remaining > 0
  /\ Appends(Zeros(Remaining))
  /\ UNCHANGED <<walkVars, partial>>

RunsEnd ==
  /\ pc = "runs" /\ Remaining = 0
  /\ Ends(partial)

-----------------------------------------------------------------------------
FollowPointers ==
  VisitDirect \/ VisitSingle \/ VisitDouble \/ VisitTriple \/ PointersEnd
FollowExtents ==
  Collect \/ EndCollect \/ TakeRun \/ WriteBlock \/ LeaveRun \/ FillTail \/ RunsEnd

Next == Open \/ InlineSymlink \/ FollowPointers \/ FollowExtents

\* A recovery is one call that runs to its end.
Spec == Init /\ [][Next]_vars /\ WF_vars(Next)

-----------------------------------------------------------------------------
(* Properties *)

\* Every variable stays in its domain, and no more is written than the size
\* the inode gives.
TypeOK ==
  /\ pc \in {"open", "pointers", "extents", "inline", "other", "runs", "done"}
  /\ Len(output) <= file.size
  /\ item \in 1 .. Len(file.items) + 1
  /\ partial \in BOOLEAN
  /\ status \in {0, 20, 31, 44, 76, 90, 91, ReadError}

Outcome ==
  CASE pc # "done" -> "running"
    [] pc = "done" /\ status \in {0, 76} ->
         IF partial THEN "partial" ELSE "complete"
    [] OTHER -> "failed"

\* Following pointers, each file block is written at most once and in the
\* order of the file, holes never, whatever levels were given up on the way.
OrderKept ==
  file.kind = "pointers" =>
    /\ \A i, j \in DOMAIN output : i < j => output[i] < output[j]
    /\ \A i \in DOMAIN output : content[output[i]] # Zero

\* Following extents, even a partial file has every block at its place: what
\* is lost is zero-filled or cut off, and the file is marked by then.  (Extents
\* that overlap have no one place.)
ExtentsInPlace ==
  file.kind = "extents" /\ ~Overlapping(file) =>
    \A i \in DOMAIN output :
      output[i] # content[i] =>
        output[i] = Zero /\ (partial \/ pc = "done")

Sound == DOMAIN file.fate = {} /\ \A i \in DOMAIN file.items :
                                    file.items[i].kind = "extent"
FirstTriple == Direct + Fan + Fan * Fan + 1

NoRuns == \A i \in DOMAIN file.items : Count(file.items[i]) = 0 \/ Missing(file.items[i])

\* An undamaged file is never marked partial, unless it needs the triple tree,
\* its extents overlap or it has no extent at all.
SoundIsWhole ==
  Outcome = "partial" /\ Sound =>
    \/ file.kind = "pointers" /\ file.size >= FirstTriple
    \/ file.kind = "extents"
       /\ \/ Overlapping(file)
          \/ NoRuns
          \/ \E i \in DOMAIN file.items : Missing(file.items[i])

\* Every inode of a volume whose tables are there, each in a place of its own,
\* has a place, and no two the same.
InodesHavePlaces ==
  LET v == file.volume
      located == {Locate(v, n) : n \in 1 .. v.inodes}
  IN /\ pc = "open" /\ v.inodesPerGroup > 0
     /\ \A g \in 0 .. GroupCount(v) - 1 : g \in DOMAIN v.tables /\ v.tables[g] # 0
     /\ \A g, h \in DOMAIN v.tables : g # h => v.tables[g] # v.tables[h]
     => Nowhere \notin located /\ Cardinality(located) = v.inodes
=============================================================================
