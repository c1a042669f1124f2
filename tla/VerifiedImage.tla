---------------------------- MODULE VerifiedImage ----------------------------
(***************************************************************************)
(* What image acquisition promises to whoever uses the image: an image is  *)
(* either vouched for or it is not, it is vouched for only with every cell *)
(* in its place and every gap listed, and it changes only while it is not  *)
(* vouched for.  A power loss may change it at any time, and nothing is    *)
(* vouched for from then until a new acquisition completes.  How the copy, *)
(* the checkpoints and the retries work is not said here.                  *)
(***************************************************************************)
EXTENDS Naturals, Sequences

CONSTANTS
  Positions,   \* the cells a source can have
  Values       \* the contents a cell can have

VARIABLES
  image,     \* the image file
  vouched,   \* the acquisition that completed it returned
  gaps,      \* the positions listed as unreadable, when it is vouched for
  working,   \* an acquisition is under way
  lost       \* the power has failed since an acquisition last began

vars == <<image, vouched, gaps, working, lost>>

Gap == <<0, 0>>

Images == Seq((Positions \X Values) \cup {Gap})

\* Every cell is the source's cell of its position, or a listed gap.
Accounted(img, listed) ==
  /\ listed = {i \in DOMAIN img : img[i] = Gap}
  /\ \A i \in DOMAIN img : img[i] # Gap => img[i][1] = i

Init ==
  /\ image = <<>>
  /\ vouched = FALSE
  /\ gaps = {}
  /\ working = FALSE
  /\ lost = FALSE

\* A new acquisition first withdraws what an earlier one vouched for.
Withdraw ==
  /\ ~working
  /\ working' = TRUE
  /\ vouched' = FALSE
  /\ gaps' = {}
  /\ lost' = FALSE
  /\ UNCHANGED image

Change ==
  /\ working
  /\ image' \in Images
  /\ UNCHANGED <<vouched, gaps, working, lost>>

Vouch ==
  /\ working
  /\ vouched' = TRUE
  /\ Accounted(image, gaps')
  /\ working' = FALSE
  /\ UNCHANGED <<image, lost>>

\* The acquisition fails, is canceled or crashes.
GiveUp ==
  /\ working
  /\ working' = FALSE
  /\ image' \in Images
  /\ UNCHANGED <<vouched, gaps, lost>>

\* The power fails, also when no acquisition is under way.
Lose ==
  /\ lost' = TRUE
  /\ vouched' = FALSE
  /\ gaps' = {}
  /\ working' = FALSE
  /\ image' \in Images

Next == Withdraw \/ Change \/ Vouch \/ GiveUp \/ Lose

Spec == Init /\ [][Next]_vars
=============================================================================
