--------------------------- MODULE MCSourceAccess ---------------------------
(* Instances of SourceAccess for TLC: devices of up to eight granules with   *)
(* sectors of one to three, every range of them, and shadow copy queries     *)
(* with up to three entries.                                                 *)
EXTENDS SourceAccess

Query(shape, entries) == [shape |-> shape, entries |-> entries]
Entry(id, dev, time, typed) == [id |-> id, device |-> dev, time |-> time, typed |-> typed]
Entries == {Entry(id, dev, time, TRUE) : id \in 0 .. 2, dev \in {"global", "other"}, time \in 0 .. 2}
           \cup {Entry(3, d, 1, typed) : d \in {"device", "doubled", "none"}, typed \in BOOLEAN}

MCQueries ==
  {Query(s, <<>>) : s \in {"unavailable", "failed", "broken", "other", "empty"}}
  \cup {Query("list", e) : e \in UNION {[1 .. n -> Entries] : n \in 0 .. 2}}
  \cup {Query("list", <<Entry(a, "global", t, TRUE), Entry(b, "global", 1, TRUE),
                        Entry(3, "global", u, TRUE)>>) :
          a \in 1 .. 3, b \in 1 .. 3, t \in 0 .. 2, u \in 0 .. 2}

Device(kind, p, size, sector, wants, offset, length) ==
  [kind |-> kind, path |-> p, size |-> size, sector |-> sector, drive |-> 2, error |-> 0,
   reported |-> TRUE, most |-> 12, broken |-> {}, wants |-> wants, offset |-> offset,
   length |-> length]

Disk == [prefix |-> "dot", names |-> "disk"]
File == [prefix |-> "none", names |-> "file"]

Ranges == {Device("disk", Disk, size, sector, w, o, l) :
             size \in {6, 7, 8}, sector \in 1 .. 3, w \in {"range", "raw"},
             o \in 0 .. 8, l \in {0, 1, 2, 3, 5, 8}}

MCDevices ==
  Ranges
  \cup {[d EXCEPT !.most = m, !.broken = b] :
     d \in {e \in Ranges : e.size = 6 /\ e.length \in {2, 3}}, m \in {1, 2, 3},
     b \in {{}, {0}, {3}, {5}}}
  \cup {[Device(kind, p, size, sector, "prefix", 0, 0) EXCEPT !.reported = r, !.broken = b] :
     kind \in {"image", "volume", "disk"}, p \in {Disk, File}, size \in 0 .. 8,
     sector \in {0, 1, 2}, r \in BOOLEAN, b \in {{}, {2}}}
  \cup {[Device(kind, p, 6, 2, "range", 0, 2) EXCEPT !.error = e] :
     kind \in {"image", "volume", "disk"}, p \in Paths, e \in {0, 12, 13}}

PlainQuery == Query("list", <<Entry(1, "global", 1, TRUE)>>)
PlainDevice == Device("disk", Disk, 6, 2, "range", 0, 2)
MCInputs ==
  {[query |-> q, device |-> PlainDevice] : q \in MCQueries}
  \cup {[query |-> PlainQuery, device |-> d] : d \in MCDevices}
=============================================================================
