---------------------------- MODULE MCQuickScan ----------------------------
\* Instances of QuickScan for TLC.
EXTENDS QuickScan

Name(name, parent, time) == [name |-> name, parent |-> parent, time |-> time, ok |-> TRUE]
Broken == [Name("x", 0, 9) EXCEPT !.ok = FALSE]

Record(inUse, directory, names) ==
  [kind |-> "record", inUse |-> inUse, directory |-> directory, named |-> FALSE,
   packed |-> FALSE, names |-> names]
Other(kind) == [Record(FALSE, FALSE, <<>>) EXCEPT !.kind = kind]

\* The root directory is its own parent.
Root == Record(TRUE, TRUE, <<Name(".", 0, 1)>>)
Folders == {Record(u, TRUE, <<Name("a", p, 2)>>) : u \in BOOLEAN, p \in {0, 2, 4}}
Files ==
  {Record(u, FALSE, <<Name("b", p, t)>>) : u \in BOOLEAN, p \in {1, 3}, t \in {1, 3}}
    \cup {Record(FALSE, FALSE, <<Broken, Name("A", 1, 2)>>), Record(FALSE, FALSE, <<Broken>>),
          [Record(FALSE, FALSE, <<Name("b", 0, 1)>>) EXCEPT !.named = TRUE]}

Volume(slots, journal) ==
  [access |-> "ok", slots |-> slots, journal |-> journal, records |-> 0, capacity |-> 8]

Entry(number, usn, parent, name, reasons) ==
  [kind |-> "record", number |-> number, parent |-> parent, name |-> name, usn |-> usn,
   time |-> usn, reasons |-> reasons, directory |-> FALSE, packed |-> FALSE]
Place(kind) == [Entry(0, 0, 0, "", {}) EXCEPT !.kind = kind]

Tables == {<<Root, a, b>> : a \in Folders, b \in Files}

\* Journal records of the folder, the file, and files that are not in the table.
Entries1 ==
  {Entry(1, 5, p, "c", {"new"}) : p \in {0, 2}}
    \cup {Entry(2, u, 3, n, r) : u \in {4, 6}, n \in {"d", ""}, r \in {{"new"}, {"delete"}, {}}}
    \cup {Entry(3, u, 1, "e", r) : u \in {2, 3}, r \in {{"delete"}, {"stream"}, {"new"}}}
    \cup {Entry(4, 7, 3, "f", {"old"}), Entry(9, 7, 3, "f", {"delete"}),
          Entry(4, -1, 0, "", {"delete"})}
Few == {Record(FALSE, TRUE, <<Name("a", 0, 2)>>), Record(TRUE, TRUE, <<Name("a", 4, 2)>>)}
FewTables ==
  {<<Root, a, b>> : a \in Few,
     b \in {Record(u, FALSE, <<Name("b", 1, 3)>>) : u \in BOOLEAN} \cup {Other("bad")}}

Pairs == {Volume(t, <<a, b>>) : t \in FewTables, a, b \in Entries1}
Alone == {Volume(t, <<e>>) : t \in Tables, e \in Entries1} \cup {Volume(t, <<>>) : t \in Tables}

\* Tables with gaps, and deep ones.
Kinds == {Root, Other("empty"), Other("bad"), Other("unreadable")}
Gaps == {Volume(<<Root>> \o s, <<>>) : s \in [1 .. 4 -> Kinds]}
Deep ==
  {Volume([i \in 1 .. 6 |-> Record(FALSE, TRUE, <<Name("a", p, i)>>)], <<>>) : p \in 0 .. 6}
    \cup {Volume([i \in 1 .. 6 |-> Record(FALSE, TRUE, <<Name("a", i, i)>>)], j) :
            j \in {<<>>, <<Entry(3, 1, 6, "g", {"new"})>>}}

\* Calls that end early, and small buffers.
Refused ==
  {[Volume(<<Root>>, <<>>) EXCEPT !.access = a] :
     a \in {"session", "device", "short", "boot", "size", "offset"}}
Journals ==
  {Volume(<<Root, Other("empty")>>, <<Entry(3, 1, 0, "e", {"delete"}), Place(k), Entry(4, 2, 0, "f", {"delete"})>>) :
     k \in {"zero", "header", "body", "length", "name", "version"}}
    \cup {Volume(<<Root>>, <<Place("zero")>>)}
Small == {[v EXCEPT !.records = r, !.capacity = c] :
            v \in {Volume(t, j) : t \in FewTables, j \in {<<>>, <<Entry(3, 2, 1, "e", {"delete"})>>}},
            r \in {1, 2}, c \in {0, 1, 2}}

\* Scans that end in every way; paths are short.
MCScanVolumes == {v \in Gaps : \A i \in {4, 5} : v.slots[i].kind # "bad"} \cup Refused \cup Journals

MCVolumes == Pairs \cup Alone \cup Gaps \cup Deep \cup Refused \cup Journals \cup Small

=============================================================================
