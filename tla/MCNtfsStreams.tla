--------------------------- MODULE MCNtfsStreams ---------------------------
(* Instances of NtfsStreams for TLC: records of up to four streams of up    *)
(* to four clusters, compression units of two clusters, MFTs of up to five   *)
(* records.                                                                  *)
EXTENDS NtfsStreams

Mapped(name, size, cells) ==
  [name |-> name, form |-> "mapped", compressed |-> FALSE, encrypted |-> FALSE,
   size |-> size, exponent |-> 0, cells |-> cells, decoded |-> <<>>]
InTwos(name, size, cells, decoded) ==
  [Mapped(name, size, cells) EXCEPT !.compressed = TRUE, !.exponent = 1, !.decoded = decoded]
Resident(name, cells) ==
  [Mapped(name, Len(cells), cells) EXCEPT !.form = "resident"]

Volume(streams) ==
  [access |-> "ok", mft |-> <<7>>, asked |-> 7, streams |-> streams, lost |-> {},
   far |-> {}, uncreatable |-> {}]

Cells == {-1, 0, 11, 12, 13}
Runs == {<<>>} \cup [1 .. 1 -> Cells] \cup [1 .. 2 -> Cells] \cup [1 .. 3 -> Cells]
Units == {c \in [1 .. 4 -> {-1, 0, 11, 12}] : c[1] >= 0 /\ c[2] >= 0}
         \cup [1 .. 3 -> {0, 11}] \cup {<<>>}

Plain == {Volume(<<Mapped(<<>>, size, runs)>>) : size \in 0 .. 3, runs \in Runs}
Compressed ==
  {Volume(<<InTwos(<<>>, size, cells, decoded)>>) :
     size \in {0, 1, 3, 4}, cells \in Units, decoded \in {<<0, 2>>, <<1, 2>>, <<2, 0>>, <<2, 1>>, <<2, 2>>}}

Named == {<<"a">>, <<"b">>, <<"a", 2>>}
Kinds(name) ==
  {Resident(name, <<14>>), [Resident(name, <<14>>) EXCEPT !.compressed = TRUE],
   [Resident(name, <<15>>) EXCEPT !.encrypted = TRUE],
   Mapped(name, 2, <<11, 12>>), [Mapped(name, 2, <<11, 12>>) EXCEPT !.encrypted = TRUE],
   InTwos(name, 2, <<11, 0>>, <<2>>), [InTwos(name, 2, <<11, 0>>, <<2>>) EXCEPT !.exponent = 5]}

Several ==
  {Volume(<<s>> \o rest) :
     s \in UNION {Kinds(n) : n \in {<<>>, <<"a">>}},
     rest \in {<<Resident(n, <<16>>), Mapped(<<"a">>, 1, <<17>>)>> : n \in Named \cup {<<>>}}
              \cup {<<Resident(<<"a">>, <<18>>), Resident(n, <<16>>),
                      Mapped(<<"a">>, 1, <<17>>)>> : n \in Named}}

MCVolumes ==
  {[v EXCEPT !.lost = lost, !.far = far] :
     v \in Plain \cup Compressed, lost \in {{}, {12}}, far \in {{}, {11}}}
  \cup {[v EXCEPT !.lost = lost, !.uncreatable = u] :
     v \in Several, lost \in {{}, {12}, {17}},
     u \in {{}, {<<>>}, {<<"a">>}, {<<"b">>}, {<<"a">>, <<"a", 2>>, <<"b">>}}}
  \cup {[Volume(<<Resident(<<>>, <<14>>)>>) EXCEPT !.mft = m] :
     m \in UNION {[1 .. n -> {Empty, -2, -1, 5, 7}] : n \in 0 .. 5}}
  \cup {[Volume(streams) EXCEPT !.access = a] :
     streams \in {<<>>, <<Resident(<<>>, <<14>>)>>},
     a \in {"ok", "path", "session", "short", "device", "boot", "recordsize", "mft",
            "parent"}}
=============================================================================
