------------------------------ MODULE CarveScan ------------------------------
(***************************************************************************)
(* Carving: the desktop application goes through a source window by window *)
(* (RunStreamingCarveScan), the engine searches each window for the heads  *)
(* of files (fr_get_carve_candidates_from_session_window, carve_bytes),    *)
(* works out where each ends, and has the piece judged (fr-validator).     *)
(*                                                                         *)
(* A source is a row of cells.  A cell may hold the head or the end of a   *)
(* file; what else is in it is not kept.  A window is a chunk and the      *)
(* overlap with the next one.                                              *)
(***************************************************************************)
EXTENDS Naturals, Sequences, FiniteSets

CONSTANTS
  Sources,      \* what is carved, and how: see IsSource
  Chunk,        \* FullScanCarveChunkBytes
  Overlap,      \* FullScanCarveOverlapBytes
  Fallback,     \* UNKNOWN_SIZE_FALLBACK_SCAN_BYTES
  ScanDefault,  \* DEFAULT_MAX_SCAN_BYTES, for a window of no length
  Smallest      \* the cells below which no piece is valid

VARIABLES
  source,
  pc,
  offset,       \* where the window begins
  answer,       \* what the engine answered
  aggregated,   \* the candidates of all windows; the caller has them by place
  status

vars == <<source, pc, offset, answer, aggregated, status>>

-----------------------------------------------------------------------------
\* How the end of a file of a format is found.  footer: the first end mark
\* after the head.  last: the last end mark of the window.  chunks: one chunk
\* after another until the last.  declared: by the size in the head.  part: by
\* the size of the first part, and that alone.  capped: after a fixed size.
\* text: at the first zero.

Rule(format) ==
  CASE format \in {"jpg", "gif", "pdf", "rtf"} -> "footer"
    [] format \in {"zip", "docx", "xlsx", "pptx"} -> "last"
    [] format = "png" -> "chunks"
    [] format \in {"bmp", "webp", "avi", "wav"} -> "declared"
    [] format \in {"mp4", "mid"} -> "part"
    [] format \in {"tiff", "gz", "7z", "rar", "ogg", "flac", "mp3", "db"} -> "capped"
    [] format = "txt" -> "text"

Formats ==
  {"jpg", "gif", "pdf", "rtf", "zip", "docx", "xlsx", "pptx", "png", "bmp", "webp", "avi",
   "wav", "mp4", "mid", "tiff", "gz", "7z", "rar", "ogg", "flac", "mp3", "db", "txt"}

\* family_for_format
Family(format) ==
  CASE format \in {"jpg", "png", "gif", "bmp", "tiff", "webp"} -> "images"
    [] format \in {"pdf", "txt", "rtf"} -> "documents"
    [] format \in {"zip", "gz", "7z", "rar"} -> "archives"
    [] format \in {"docx", "xlsx", "pptx"} -> "office"
    [] format \in {"mp3", "wav", "mp4", "avi", "mid", "ogg", "flac"} -> "media"
    [] OTHER -> "artifacts"

\* The cap of carve_tiff and carve_thumbcache_db is eight times the other.
Cap(format) == IF format \in {"tiff", "db"} THEN 8 * Overlap ELSE Overlap

\* Heads by their place.  size: the size a head declares, of the file or of its
\* first part, or the sum of the chunks.  plausible: what the validator looks at
\* besides sizes is in order.  Places of end marks and zeros.
IsHead(h) == h.format \in Formats /\ h.size \in Nat /\ h.plausible \in BOOLEAN

\* A file as its writer leaves it: the head declares the size where the format
\* has one, an end mark stands in the last cell.  plain: and in no cell before.
IsFile(f, s) ==
  /\ f.at \in Nat /\ f.length \in Nat \ {0} /\ f.plain \in BOOLEAN
  /\ f.at + f.length <= s.length
  /\ f.at \in DOMAIN s.heads
  /\ s.heads[f.at].format = f.format /\ s.heads[f.at].plausible
  /\ Rule(f.format) \in {"chunks", "declared"} => s.heads[f.at].size = f.length
  /\ Rule(f.format) = "footer" /\ f.plain =>
       /\ f.length > 1
       /\ \A p \in f.at + 1 .. f.at + f.length - 1 :
            (p \in DOMAIN s.ends /\ s.ends[p] = f.format) <=> p = f.at + f.length - 1

\* files: what was written to the source, each whole and in order.
IsSource(s) ==
  /\ s.length \in Nat /\ s.known \in BOOLEAN /\ s.session \in BOOLEAN
  /\ s.families \subseteq {"images", "documents", "archives", "office", "media", "artifacts"}
  /\ s.capacity \in Nat
  /\ s.unreadable \subseteq Nat
  /\ \A p \in DOMAIN s.heads : p \in 0 .. s.length - 1 /\ IsHead(s.heads[p])
  /\ \A p \in DOMAIN s.ends : p \in Nat
  /\ \A f \in s.files : IsFile(f, s)

CarveAssumption ==
  /\ \A s \in Sources : IsSource(s)
  /\ Chunk \in Nat \ {0} /\ Overlap \in Nat /\ Fallback \in Nat
  /\ ScanDefault \in Nat /\ Smallest \in Nat \ {0}

SmallerOf(a, b) == IF a <= b THEN a ELSE b
Least(S) == CHOOSE n \in S : \A m \in S : n <= m
Greatest(S) == CHOOSE n \in S : \A m \in S : m <= n

\* build_carving_plan: images and documents when nothing is asked for.
Enabled(format) ==
  Family(format) \in
    (IF source.families = {} THEN {"images", "documents"} ELSE source.families)

-----------------------------------------------------------------------------
\* The search in a window of the cells from .. to - 1 (carve_bytes).
EndMarks(format, from, to) ==
  {p \in DOMAIN source.ends : source.ends[p] = format /\ from <= p /\ p < to}

EndOf(h, p, to) ==
  LET rule == Rule(h.format)
      footers == EndMarks(h.format, IF rule = "last" THEN p ELSE p + 1, to)
  IN  CASE rule = "footer" -> IF footers = {} THEN to ELSE Least(footers) + 1
        [] rule = "last" -> IF footers = {} THEN to ELSE Greatest(footers) + 1
        [] rule = "chunks" -> IF p + h.size <= to THEN p + h.size ELSE to
        [] rule \in {"declared", "part"} -> SmallerOf(to, p + h.size)
        [] rule = "capped" -> SmallerOf(to, p + Cap(h.format))
        [] rule = "text" -> IF footers = {} THEN to ELSE Least(footers)

\* validate_carved_bytes of the piece from p to end: is there enough of it to
\* judge, and does it hold what the head promises.
Valid(h, p, end) == h.plausible /\ end - p >= Smallest

Cut(h, p, end, to) ==
  IF Rule(h.format) \in {"footer", "last"} THEN EndMarks(h.format, p + 1, end) = {}
  ELSE IF Rule(h.format) = "text" THEN FALSE
  ELSE p + h.size > end

Candidate(p, to) ==
  LET h == source.heads[p]
      end == EndOf(h, p, to)
  IN  [at |-> p, length |-> end - p, format |-> h.format, partial |-> Cut(h, p, end, to)]

\* The heads that push_candidate keeps.
Heads(from, to) ==
  {p \in DOMAIN source.heads :
     /\ from <= p /\ p < to
     /\ Enabled(source.heads[p].format)
     /\ Valid(source.heads[p], p, EndOf(source.heads[p], p, to))}

\* The candidates, sorted by place.
Carved(from, to) ==
  LET heads == Heads(from, to)
  IN  [i \in 1 .. Cardinality(heads) |->
         Candidate(CHOOSE p \in heads : Cardinality({q \in heads : q < p}) = i - 1, to)]

\* read_window_for_carving: the cells that are read, none when the source ends
\* before the window or, with its size unknown, within it.
WindowEnd(length) ==
  LET asked == IF length = 0 THEN ScanDefault ELSE length
  IN  IF source.known
      THEN IF source.length <= offset THEN offset ELSE SmallerOf(source.length, offset + asked)
      ELSE IF offset + SmallerOf(asked, Fallback) > source.length THEN offset
      ELSE offset + SmallerOf(asked, Fallback)

Unreadable(from, to) == \E p \in source.unreadable : from <= p /\ p < to

-----------------------------------------------------------------------------
\* RunStreamingCarveScan
Total == IF source.known THEN source.length ELSE 0
UnknownLength == Total = 0

WindowLength ==
  IF UnknownLength THEN Chunk + Overlap ELSE SmallerOf(Total - offset, Chunk + Overlap)

Init ==
  /\ source \in Sources
  /\ pc = "loop"
  /\ offset = 0
  /\ answer = <<>>
  /\ aggregated = {}
  /\ status = "running"

Finish(s) ==
  /\ pc' = "done"
  /\ status' = s
  /\ UNCHANGED <<source, offset, answer, aggregated>>

\* The operation is canceled between two windows: what was found is lost with
\* the exception.
Cancel ==
  /\ pc = "loop"
  /\ Finish("canceled")

\* Of the candidates of a window the caller is handed as many as fit.
Handed(carved) == SubSeq(carved, 1, SmallerOf(Len(carved), source.capacity))

\* One window.
ScanWindow ==
  /\ pc = "loop"
  /\ UnknownLength \/ offset < Total
  /\ LET to == WindowEnd(WindowLength)
     IN  IF ~source.session THEN Finish("refused")
         ELSE IF Unreadable(offset, to) THEN Finish("failed")
         ELSE /\ pc' = "merge"
              /\ answer' = Handed(Carved(offset, to))
              /\ UNCHANGED <<source, offset, aggregated, status>>

\* unique: place, length and format.
SameKey(a, b) == a.at = b.at /\ a.length = b.length /\ a.format = b.format

NewOf(candidates) ==
  {c \in {candidates[i] : i \in DOMAIN candidates} : \A b \in aggregated : ~SameKey(b, c)}

NextWindowApart == offset + Chunk + Overlap                   \* mutant of NextWindow
NextWindow == offset + Chunk

IsLast == UnknownLength \/ Total - offset <= Chunk

Merge ==
  /\ pc = "merge"
  /\ aggregated' = aggregated \cup NewOf(answer)
  /\ IF IsLast
     THEN /\ pc' = "done" /\ status' = "success"
          /\ UNCHANGED <<source, offset, answer>>
     ELSE /\ pc' = "loop"
          /\ offset' = NextWindow
          /\ UNCHANGED <<source, answer, status>>

Next == Cancel \/ ScanWindow \/ Merge

Spec == Init /\ [][Next]_vars /\ WF_vars(Next)

-----------------------------------------------------------------------------
TypeOK ==
  /\ pc \in {"loop", "merge", "done"}
  /\ offset \in Nat
  /\ status \in {"running", "success", "failed", "refused", "canceled"}
  /\ Len(answer) <= source.capacity

Succeeded == pc = "done" /\ status = "success"

\* What the caller exports later by place and length lies in the source and
\* begins with a head of its format, in every window (the place in the window is
\* added to that of the window).
RangesAreReal ==
  \A c \in aggregated :
    /\ c.at + c.length <= source.length
    /\ c.at \in DOMAIN source.heads
    /\ source.heads[c.at].format = c.format

Holds(c, f) == c.at <= f.at /\ f.at + f.length <= c.at + c.length

\* A candidate that is not marked partial holds all of the file that begins
\* there, for the formats whose end the head or the last part tells (png, bmp,
\* webp, avi, wav, and jpg, gif, pdf, rtf without an end mark inside): a window
\* that ends in a file must not make it look whole.
UnmarkedIsWhole ==
  \A c \in aggregated :
    \A f \in source.files :
      ( /\ c.at = f.at /\ c.format = f.format /\ ~c.partial
        /\ Rule(f.format) \in {"chunks", "declared", "footer"} /\ f.plain ) => Holds(c, f)

\* A file of these formats that is no longer than the overlap is found with its
\* exact length, wherever in a window it begins: the reason windows overlap.
ShortFilesFound ==
  (Succeeded /\ source.known /\ Cardinality(DOMAIN source.heads) <= source.capacity) =>
    \A f \in source.files :
      ( /\ Enabled(f.format) /\ f.plain /\ f.length \in Smallest .. Overlap
        /\ Rule(f.format) \in {"chunks", "declared", "footer"} ) =>
        \E c \in aggregated :
          /\ c.at = f.at /\ c.format = f.format
          /\ c.length = f.length /\ ~c.partial
=============================================================================
