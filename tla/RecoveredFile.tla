--------------------------- MODULE RecoveredFile ---------------------------
(***************************************************************************)
(* What every recovery of a deleted file promises: the output file grows   *)
(* cell by cell, never past the size of the file, and a recovery that ends *)
(* with no mark has written exactly the content of the file.  A partial    *)
(* or failed recovery promises nothing about what it wrote.  How clusters, *)
(* runs, extents or block pointers are followed is not said here.          *)
(***************************************************************************)
EXTENDS Naturals, Sequences

VARIABLES
  content,   \* the cells of the file to recover
  output,    \* the cells written so far
  outcome    \* running, complete, partial or failed

vars == <<content, output, outcome>>

Init ==
  /\ output = <<>>
  /\ outcome = "running"

Write ==
  /\ outcome = "running"
  /\ Len(output') \in Len(output) + 1 .. Len(content)
  /\ SubSeq(output', 1, Len(output)) = output
  /\ UNCHANGED <<content, outcome>>

Complete ==
  /\ outcome = "running"
  /\ output = content
  /\ outcome' = "complete"
  /\ UNCHANGED <<content, output>>

GiveUp ==
  /\ outcome = "running"
  /\ outcome' \in {"partial", "failed"}
  /\ UNCHANGED <<content, output>>

Next == Write \/ Complete \/ GiveUp

Spec == Init /\ [][Next]_vars
=============================================================================
