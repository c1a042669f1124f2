----------------------------- MODULE MCFatScan -----------------------------
(* Instances of FatScan for TLC: volumes of four clusters, the root in      *)
(* cluster 2.                                                               *)
EXTENDS FatScan

S(kind, file, deleted, dir, start) ==
  [kind |-> kind, text |-> <<file, 0>>, deleted |-> deleted, label |-> FALSE,
   dir |-> dir, start |-> start, count |-> 0]
Long(file, part) == [S("long", file, FALSE, FALSE, 0) EXCEPT !.text = <<file, part>>]
End == S("end", "none", FALSE, FALSE, 0)
File(n, start) == S("short", n, TRUE, FALSE, start)
Label == [S("short", "label", FALSE, FALSE, 0) EXCEPT !.label = TRUE]

\* Directories: what the root holds, and what the other clusters may hold.
Roots ==
  {<<Label, S("short", "d", deleted, TRUE, start), Long("x", 2), Long("x", 1),
     File("x", 0), S("short", "e", FALSE, TRUE, 4)>> :
     deleted \in BOOLEAN, start \in {0, 2, 3}}
  \cup {<<Long("x", 1), File("x", 5), File("y", 5), End, File("z", 5)>>}
Others ==
  {<<S("short", ".", FALSE, TRUE, 3), S("short", "..", FALSE, TRUE, 2), File("y", 5)>>,
   <<S("short", "up", TRUE, TRUE, 2), S("short", "on", TRUE, TRUE, 4)>>,
   <<File("none", 0), Long("w", 1), Label, File("v", 0)>>,
   <<File("w", 0), Long("v", 1)>>,
   <<>>}

\* exFAT: sets with their secondary slots, cut off or of the wrong kind.
Set(deleted, dir, count) == [S("set", "none", deleted, dir, 0) EXCEPT !.count = count]
Stream(start) == S("stream", "none", FALSE, FALSE, start)
Name(file) == S("name", file, FALSE, FALSE, 0)
Other == S("other", "none", FALSE, FALSE, 0)
ExfatRoots ==
  {<<Other, Set(deleted, TRUE, 2), Stream(start), Name("d"),
     Set(TRUE, FALSE, count), Stream(5), Name("x")>> :
     deleted \in BOOLEAN, start \in {0, 2, 3}, count \in {0, 1, 2, 3}}
ExfatOthers ==
  {<<Set(TRUE, FALSE, 3), Stream(5), Other, Name("y"), End, Other>>,
   <<Set(TRUE, TRUE, 2), Name("z"), Stream(4)>>, <<Set(TRUE, TRUE, 2), Other, Name("z")>>}

Tables == {t \in [2 .. 5 -> {0, 1, 3, 4, Reserved, EOC}] :
             t[2] \in {4, EOC} /\ t[4] \in {0, 3, EOC} /\ t[5] = 0}

V(exfat, table, root, three, four, inside) ==
  [access |-> "ok", exfat |-> exfat, root |-> 2, last |-> 5, table |-> table,
   slots |-> [c \in 2 .. 5 |-> CASE c = 2 -> root [] c = 3 -> three [] c = 4 -> four
                                 [] OTHER -> <<>>],
   inside |-> inside]

MCVolumes ==
  {V(FALSE, t, root, three, four, 2 .. 5) :
     t \in Tables, root \in Roots, three \in Others, four \in Others}
  \cup {V(TRUE, t, root, three, four, 2 .. 5) :
     t \in {u \in Tables : u[3] \in {0, EOC} /\ u[4] = EOC}, root \in ExfatRoots,
     three \in ExfatOthers, four \in ExfatOthers}
  \cup {V(exfat, t, IF exfat THEN e ELSE r, <<End>>, <<>>, inside) :
     exfat \in BOOLEAN, t \in {u \in Tables : u[2] = EOC /\ u[3] = 4},
     e \in {d \in ExfatRoots : d[2].deleted}, r \in Roots, inside \in {{2}, {3}, {2, 4}}}
  \cup {[V(FALSE, [c \in 2 .. 5 |-> EOC], <<>>, <<>>, <<>>, 2 .. 5) EXCEPT !.access = a,
          !.root = root] :
     a \in {"ok", "session", "device", "short", "boot"}, root \in {0, 2, 7}}
=============================================================================
