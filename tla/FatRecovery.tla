---------------------------- MODULE FatRecovery ----------------------------
(***************************************************************************)
(* fr_recover_fat_candidate_to_file: a deleted FAT32 or exFAT file is      *)
(* copied cluster by cluster along the chain the allocation table still    *)
(* holds for it.  Where the chain is cleared the copy goes on with the     *)
(* neighbours that look free.                                              *)
(*                                                                         *)
(* The unit is a cluster; a cell of the output is the cluster it was read  *)
(* from.                                                                   *)
(***************************************************************************)
EXTENDS Naturals, Sequences, FiniteSets

CONSTANTS
  Files,        \* the deleted files and the volumes they are on: see IsFile
  EOC,          \* the least table entry that ends a chain (FAT_EOC_MIN)
  ReadError     \* the status an error of the device becomes

VARIABLES
  file,
  content,    \* the clusters of the file, as far as they can be told
  pc,
  current,    \* the cluster the copy is at
  seen,       \* seen_clusters
  output,
  partial,
  status

fileVars == <<file, content>>
vars == <<fileVars, pc, current, seen, output, partial, status>>

-----------------------------------------------------------------------------
\* table: the allocation table of the clusters 2 .. last of the volume; reading
\* the entry of a cluster in broken is an error.  A cluster in lost cannot be
\* read, and reading one in failing is an error.
\* live: the clusters the table allocates to files that exist (an exFAT file
\* stored without a chain has none in the table).
IsFile(f) ==
  /\ f.access \in {"ok", "session", "short", "device", "boot", "create"}
  /\ f.start \in Nat /\ f.size \in Nat /\ f.last \in Nat
  /\ f.table \in [2 .. f.last -> Nat]
  /\ \A s \in {f.broken, f.lost, f.failing} : s \subseteq 2 .. f.last
  /\ f.live \subseteq {c \in 2 .. f.last : f.table[c] # 0}

FilesAssumption ==
  /\ \A f \in Files : IsFile(f)
  /\ EOC \in Nat \ {0, 1} /\ ReadError \in Nat \ {0, 76}

Clusters == 2 .. file.last

\* read_fat_next_cluster_from_session: past the end of the table is zero.
NextCluster(c) == IF c \in Clusters THEN file.table[c] ELSE 0
IsNext(n) == n >= 2 /\ n < EOC

Reading(c) ==
  CASE c \notin Clusters \/ c \in file.lost -> "short"
    [] c \in file.failing -> "error"
    [] OTHER -> "ok"

\* The clusters of a file: along the table, and contiguous where that ends.
Content(f) ==
  LET chain[i \in 1 .. f.size] ==
        IF i = 1 THEN f.start
        ELSE LET c == chain[i - 1]
                 n == IF c \in 2 .. f.last THEN f.table[c] ELSE 0
             IN IF IsNext(n) THEN n ELSE c + 1
  IN chain

Remaining == file.size - Len(output)

Init ==
  /\ file \in Files
  /\ content = Content(file)
  /\ pc = "open"
  /\ current = file.start
  /\ seen = {}
  /\ output = <<>>
  /\ partial = FALSE
  /\ status = 0

Returns(s, p) ==
  /\ pc' = "done"
  /\ status' = s
  /\ partial' = p
  /\ UNCHANGED <<fileVars, current, seen, output>>

Ends(p) ==
  Returns(IF output = <<>> /\ file.size > 0 THEN 76 ELSE 0, p \/ Remaining > 0)
Error(s) == Returns(s, FALSE)

Open ==
  /\ pc = "open"
  /\ CASE file.start < 2 -> Error(75)
       [] file.start >= 2 /\ file.access = "session" -> Error(20)
       [] file.start >= 2 /\ file.access = "short" -> Error(31)
       [] file.start >= 2 /\ file.access = "device" -> Error(ReadError)
       [] file.start >= 2 /\ file.access = "boot" -> Error(70)
       [] file.start >= 2 /\ file.access = "create" -> Error(44)
       [] OTHER -> /\ pc' = "chain"
                   /\ UNCHANGED <<fileVars, current, seen, output, partial, status>>

\* A cluster is read, marked as seen and written, or the call ends; the write
\* may fail.
Copied(c) ==
  /\ Reading(c) = "ok"
  /\ output' = Append(output, c)
  /\ seen' = seen \cup {c}

WriteFails(c) == Reading(c) = "ok" /\ Error(44)

\* Where the copy goes from a cluster that was written: along the chain, to
\* the end, or, when the entry is cleared or ends the chain too early, to the
\* free neighbours.
AfterCluster(c) ==
  CASE IsNext(NextCluster(c)) -> <<"chain", NextCluster(c)>>
    [] NextCluster(c) = 1 -> <<"end", c>>
    [] OTHER -> <<"neighbours", c + 1>>

SeenUnchecked(c) == FALSE            \* mutant of Stops
Stops(c) == c < 2 \/ c \in seen

CopyChain ==
  /\ pc = "chain" /\ Remaining > 0
  /\ \/ (Stops(current) \/ Reading(current) = "short") /\ Ends(TRUE)
     \/ ~Stops(current) /\ Reading(current) = "error" /\ Error(ReadError)
     \/ ~Stops(current) /\ WriteFails(current)
     \/ /\ ~Stops(current)
        /\ Copied(current)
        /\ pc' = "next"
        /\ UNCHANGED <<fileVars, current, partial, status>>

FollowTable ==
  /\ pc = "next" /\ Remaining > 0
  /\ \/ current \in file.broken /\ Error(ReadError)
     \/ /\ current \notin file.broken
        /\ pc' = AfterCluster(current)[1]
        /\ current' = AfterCluster(current)[2]
        /\ partial' = (AfterCluster(current)[1] # "chain")
        /\ UNCHANGED <<fileVars, seen, output, status>>

\* recover_fat_contiguous_fallback: the next neighbour, while its table entry
\* is zero.
LooksFree(c) == c \notin file.broken /\ NextCluster(c) = 0

CopyNeighbour ==
  /\ pc = "neighbours" /\ Remaining > 0
  /\ \/ /\ \/ current \in seen
           \/ current \notin file.broken /\ ~LooksFree(current)
           \/ LooksFree(current) /\ Reading(current) = "short"
        /\ Ends(TRUE)
     \/ current \notin seen /\ current \in file.broken /\ Error(ReadError)
     \/ /\ current \notin seen /\ LooksFree(current)
        /\ Reading(current) = "error"
        /\ Error(ReadError)
     \/ current \notin seen /\ LooksFree(current) /\ WriteFails(current)
     \/ /\ current \notin seen /\ LooksFree(current)
        /\ Copied(current)
        /\ current' = current + 1
        /\ UNCHANGED <<fileVars, pc, partial, status>>

Finish ==
  /\ \/ pc = "end"
     \/ pc \in {"chain", "next", "neighbours"} /\ Remaining = 0
  /\ Ends(partial)

Next == Open \/ CopyChain \/ FollowTable \/ CopyNeighbour \/ Finish

Spec == Init /\ [][Next]_vars

-----------------------------------------------------------------------------
(* Properties *)

\* Every variable stays in its domain, and no more is written than the size of
\* the file.
TypeOK ==
  /\ pc \in {"open", "chain", "next", "neighbours", "end", "done"}
  /\ current \in Nat
  /\ seen \subseteq Clusters
  /\ Len(output) <= file.size
  /\ \A i \in DOMAIN output : output[i] \in Clusters
  /\ partial \in BOOLEAN
  /\ status \in {0, 20, 31, 44, 70, 75, 76, ReadError}

Outcome ==
  CASE pc # "done" -> "running"
    [] pc = "done" /\ status \in {0, 76} ->
         IF partial THEN "partial" ELSE "complete"
    [] OTHER -> "failed"

\* A chain that loops, through the table or through the neighbours, puts no
\* cluster into the file twice.
NoClusterTwice == \A i, j \in DOMAIN output : i # j => output[i] # output[j]

\* A cluster that no table entry leads to is taken only if it looks free: what
\* the fallback adds is of no file that exists and has its clusters in the table
\* (the comment at src/engine/crates/fr-ffi/src/lib.rs:3776).
NeighboursAreFree ==
  \A i \in 2 .. Len(output) :
    output[i] # NextCluster(output[i - 1]) => output[i] \notin file.live

=============================================================================
