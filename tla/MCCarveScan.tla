---------------------------- MODULE MCCarveScan ----------------------------
\* Instances of CarveScan for TLC.  The overlap of 1 MiB is two cells; a chunk
\* of 64 MiB is scaled down to four, so that few cells make several windows.
EXTENDS CarveScan

File(format, at, length) == [format |-> format, at |-> at, length |-> length, plain |-> TRUE]

HeadOf(f) ==
  [format |-> f.format, plausible |-> TRUE,
   size |-> IF Rule(f.format) = "part" THEN 1
            ELSE IF Rule(f.format) = "capped" THEN 1 ELSE f.length]

\* The end mark stands in the last cell, that of a zip one before it.
EndAt(f) == IF f.format = "zip" THEN f.at + f.length - 2
            ELSE IF f.format = "txt" THEN f.at + f.length ELSE f.at + f.length - 1
HasEnd(f) == Rule(f.format) \in {"footer", "last", "text"} /\ f.length > 1

On(length, files) ==
  [length |-> length, known |-> TRUE, session |-> TRUE,
   families |-> {"images", "documents", "archives", "media"}, capacity |-> 8, unreadable |-> {},
   files |-> files,
   heads |-> [p \in {f.at : f \in files} |-> HeadOf(CHOOSE f \in files : f.at = p)],
   ends |-> [p \in {EndAt(f) : f \in {g \in files : HasEnd(g)}} |->
               (CHOOSE f \in files : HasEnd(f) /\ EndAt(f) = p).format]]

\* Two files one after the other, everywhere.
Kinds == {"jpg", "png", "wav", "zip", "mp4", "gz", "txt"}
Pairs ==
  {On(n, {File(f, a, 2), File(g, b, l)}) :
     n \in {10, 12}, f \in {"jpg", "wav"}, g \in Kinds, a \in 0 .. 3, b \in 5 .. 7, l \in {2, 3}}
Singles ==
  {On(n, {File(f, a, l)}) : n \in {9, 13}, f \in Kinds, a \in 0 .. 6, l \in {2, 3}}

\* An end mark inside a file.
Nested ==
  {[On(10, {[File(f, a, 3) EXCEPT !.plain = FALSE]}) EXCEPT
      !.ends = [p \in {a + 1, a + 2} |-> f]] : f \in {"jpg", "zip"}, a \in 0 .. 6}

\* Sources that answer otherwise, and what is looked for.
Base == {On(9, {File("jpg", a, 2)}) : a \in 0 .. 6}
Others ==
  {[s EXCEPT !.known = k, !.session = o, !.unreadable = u] :
     s \in Base, k \in BOOLEAN, o \in BOOLEAN, u \in {{}, {0}, {8}}}
    \cup {[s EXCEPT !.families = v] : s \in Base \cup Singles, v \in {{}, {"media"}, {"images"}, {"artifacts"}}}
    \cup {[On(1, {}) EXCEPT !.length = n, !.known = k] : n \in {0, 1, 4, 5}, k \in BOOLEAN}
    \cup {[On(9, {File(f, 3, 3)}) EXCEPT !.heads[3].plausible = FALSE, !.files = {}] :
            f \in {"jpg", "wav"}}

\* A buffer that is smaller than what a window holds.
MCSmall ==
  {[On(8, {File("jpg", 0, 2), File(f, a, 2)}) EXCEPT !.capacity = c] :
     f \in {"jpg", "wav"}, a \in 2 .. 6, c \in {1, 2}}

MCSources == Pairs \cup Singles \cup Nested \cup Others \cup MCSmall

=============================================================================
