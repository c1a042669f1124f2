--------------------------- MODULE MCFatRecovery ---------------------------
(* Instances of FatRecovery for TLC: volumes of four clusters with every    *)
(* allocation table over them, files of up to four clusters.                *)
EXTENDS FatRecovery

Volume(table, start, size, lost, failing, live) ==
  [access |-> "ok", start |-> start, size |-> size, last |-> 5, table |-> table,
   broken |-> {}, lost |-> lost, failing |-> failing, live |-> live]

\* Entries: free, reserved, the clusters, one past the volume, end of chain.
Tables == [2 .. 5 -> {0, 1, 2, 3, 4, 5, 6, EOC}]

\* A file that exists fills some of the clusters in use.
LiveIn(table) == {c \in 2 .. 5 : table[c] # 0}

MCFiles ==
  {Volume(t, start, size, {}, {}, LiveIn(t)) :
     t \in {u \in Tables : u[5] \in {0, 2, 6, EOC}}, start \in {2, 4}, size \in {2, 4}}
  \cup {Volume(t, 2, size, lost, failing, LiveIn(t)) :
     t \in {u \in Tables : u[2] \in {0, 3} /\ u[3] \in {0, 4, 5} /\ u[5] = 0},
     size \in 0 .. 4, lost \in {{}, {3}, {4}}, failing \in {{}, {2}, {4}}}
  \cup {[Volume([c \in 2 .. 5 |-> IF c = 2 THEN n ELSE 0], 2, 3, {}, {}, {})
          EXCEPT !.broken = b] : n \in {0, 3}, b \in {{2}, {3}, {4}}}
  \cup {[Volume([c \in 2 .. 5 |-> 0], start, 1, {}, {}, {}) EXCEPT !.access = a] :
     start \in 0 .. 2,
     a \in {"ok", "session", "short", "device", "boot", "create"}}
=============================================================================
