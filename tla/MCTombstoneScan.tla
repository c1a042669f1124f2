-------------------------- MODULE MCTombstoneScan --------------------------
(* Instances of TombstoneScan for TLC: images of up to twelve units with up  *)
(* to three marks at any place.                                              *)
EXTENDS TombstoneScan

Mark(id, path, text, size) ==
  [length |-> 4, id |-> id, path |-> path, text |-> text, reason |-> "delete",
   encrypted |-> FALSE, from |-> 20 + 5 * id, size |-> size]

Good == {Mark(1, "p", "good", 2), Mark(2, "q", "good", 2)}
Other == {Mark(1, "q", "good", 1), Mark(0, "p", "good", 2), Mark(3, "p", "bad", 2)}

Volume(volume, marks) ==
  [volume |-> volume, access |-> "ok", again |-> "ok", length |-> 12, max |-> 0,
   marks |-> marks, payloads |-> marks, lost |-> {}]

Two(m, n, a, b) == [o \in {a, b} |-> IF o = a THEN m ELSE n]
Three(m, n, k, a, b, c) == [o \in {a, b, c} |-> IF o = a THEN m ELSE IF o = b THEN n ELSE k]

Pairs == {Two(m, n, a, b) : m \in Good \cup Other, n \in Good \cup Other,
                            a \in 0 .. 4, b \in 5 .. 9}
Triples == {Three(m, n, k, a, b, c) : m \in Good \cup Other, n \in Good \cup Other,
              k \in Good, a \in {0, 1}, b \in 3 .. 5, c \in 7 .. 9}

\* ReFS: records of different length and reason, descriptors beside them.
Usn == {[m EXCEPT !.length = l, !.reason = r] :
          m \in Good \cup {Mark(0, "p", "good", 2)}, l \in {2, 4},
          r \in {"delete", "rename", "other"}}
Descriptors == {Two(m, n, a, b) : m \in Good, n \in Good \cup Other, a \in {1, 2}, b \in {2, 9}}

MCImages ==
  {Volume(v, marks) : v \in {"apfs", "hfs"}, marks \in Pairs \cup Triples}
  \cup {[Volume("refs", Three(m, n, k, 0, b, c)) EXCEPT !.payloads = d] :
     m \in Usn, n \in Usn, k \in {Mark(2, "q", "good", 2)}, b \in {2, 4}, c \in {6, 10},
     d \in {Two(Mark(1, "p", "good", 2), Mark(2, "q", "good", 2), 5, 9)}}
  \cup {[Volume("refs", Two(m, n, 0, 4)) EXCEPT !.payloads = d] :
     m \in Good, n \in Good, d \in Descriptors}
  \cup {[Volume(v, Two([m EXCEPT !.encrypted = e], n, 0, 6)) EXCEPT
           !.lost = lost, !.max = max, !.length = length] :
     v \in {"xfs", "ufs"}, m \in Good, n \in Good \cup Other, e \in BOOLEAN,
     lost \in {{}, {25}, {26}, {30}, {31}}, max \in 0 .. 2, length \in {10, 12}}
  \cup {[Volume(v, Two(m, n, 0, 6)) EXCEPT !.access = a, !.again = b] :
     v \in {"refs", "apfs", "hfs", "xfs", "ufs"}, m \in Good, n \in Good,
     a \in {"ok", "session", "device", "short", "header"},
     b \in {"ok", "id", "path", "session", "device", "short", "create"}}
=============================================================================
