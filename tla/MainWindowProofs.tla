-------------------------- MODULE MainWindowProofs --------------------------
(***************************************************************************)
(* Proofs about MainWindow: for any number of sources, of operations that  *)
(* run at once and of sessions, an operation that a newer one has          *)
(* superseded does nothing but close, and no start leaves its session      *)
(* without an outcome.                                                     *)
(***************************************************************************)
EXTENDS MainWindow, TLAPS

-----------------------------------------------------------------------------
(* The inductive invariant *)

\* The newest operation owns the cancellation source while it runs, every older
\* one is canceled, and only the newest can wait for an answer of the user.
ScopeSound ==
  /\ newest \in Running => current = newest
  /\ \A i \in Running \ {newest} : ops[i].canceled
  /\ \A i \in Running \ {newest} : ops[i].at \notin {"advised", "asked"}

\* What an operation that waits has in hand.
HandsSound ==
  \A i \in Slots :
    /\ ops[i].at \in {"advised", "custody"} => ops[i].source \in Sources
    /\ ops[i].at \in {"logs", "stored", "preview"} => ops[i].session # 0
    /\ ops[i].at = "report" => active # 0

\* A session is "initialized" only while its start writes the first logs.
OutcomesSound ==
  \A s \in DOMAIN sessions :
    sessions[s].status = "initialized" =>
      \E i \in Slots : ops[i].at = "logs" /\ ops[i].session = s

IInv == TypeOK /\ ScopeSound /\ HandsSound /\ OutcomesSound

-----------------------------------------------------------------------------
(* What the parts of the actions do *)

LEMMA FreeSlotIsFree ==
  ASSUME CanStart
  PROVE  FreeSlot \in Slots /\ FreeSlot \notin Running
<1>1. \E i \in Slots : i \notin Running
  BY DEF CanStart, Running
<1> QED BY <1>1 DEF FreeSlot

LEMMA SlotsAreNotZero == 0 \notin Slots /\ Slots \subseteq 0 .. MaxRunning
BY WindowAssumption DEF Slots

LEMMA EndedIsOperation == Ended \in Operations /\ Ended.at = "ended" /\ Ended.session = 0
BY DEF Ended, Operation, Operations, Steps

\* A new operation, one that runs or one that has already ended.
LEMMA StartKeeps ==
  ASSUME IInv, CanStart, NEW STATE op, NEW STATE owner,
         op \in Operations,
         StartScope(op, owner),
         op.session = 0, op.at \in {"ended", "custody", "advised", "asked", "acquiring"},
         op.at \in {"advised", "custody"} => op.source \in Sources,
         owner = FreeSlot \/ (owner = 0 /\ op.at = "ended"),
         listed' = listed, selected' = selected, destination' = destination,
         rows' \in Sources \cup {None}, UNCHANGED <<active, sessions, latest, preview>>
  PROVE  IInv'
<1>1. FreeSlot \in Slots /\ FreeSlot \notin Running
  BY FreeSlotIsFree
<1>2. /\ ops' \in [Slots -> Operations]
      /\ ops'[FreeSlot] = op
      /\ \A i \in Slots \ {FreeSlot} :
           /\ ops'[i].at = ops[i].at /\ ops'[i].session = ops[i].session
           /\ ops'[i].source = ops[i].source
           /\ ops'[i].canceled = ops[i].canceled \/ (i = current /\ ops'[i].canceled)
  BY <1>1 DEF StartScope, IInv, TypeOK, Operations
<1>3. \A i \in Slots \ {FreeSlot} : i = current /\ i \in Running => ops'[i].canceled
  BY <1>1 DEF StartScope, IInv, TypeOK, Operations
<1>4. newest' = FreeSlot /\ current' = owner
  BY DEF StartScope
<1>5. TypeOK'
  <2>1. sessions' = sessions /\ Len(sessions) \in Nat
    BY DEF IInv, TypeOK
  <2>2. \A i \in Slots : ops'[i].session <= Len(sessions)
    BY <1>1, <1>2, <2>1 DEF IInv, TypeOK
  <2>3. {newest', current', preview'} \subseteq 0 .. MaxRunning
    BY <1>1, <1>4, SlotsAreNotZero, WindowAssumption DEF IInv, TypeOK
  <2> QED
    BY <1>2, <2>1, <2>2, <2>3 DEF IInv, TypeOK, Slots
<1>6. ScopeSound'
  <2>1. Running' \ {FreeSlot} = Running
    BY <1>1, <1>2 DEF Running
  <2>2. newest' \in Running' => current' = newest'
    BY <1>1, <1>2, <1>4 DEF Running
  <2>3. \A i \in Running : i = newest \/ ops[i].canceled
    BY DEF IInv, ScopeSound
  <2>4. \A i \in Running : ops'[i].canceled
    BY <1>1, <1>2, <1>3, <2>3 DEF IInv, ScopeSound, Running
  <2>5. \A i \in Running : ops[i].at \notin {"advised", "asked"}
    BY DEF CanStart, Asking
  <2> QED
    BY <1>1, <1>2, <1>4, <2>1, <2>2, <2>4, <2>5 DEF ScopeSound, Running
<1>7. HandsSound'
  BY <1>1, <1>2 DEF IInv, HandsSound
<1>8. OutcomesSound'
  BY <1>1, <1>2 DEF IInv, OutcomesSound, Running
<1> QED BY <1>5, <1>6, <1>7, <1>8 DEF IInv

\* A step of operation i: its place changes, of the others at most the token of
\* the preview, and it gives up the cancellation source only when it ends.
Moves(i) ==
  /\ ops' \in [Slots -> Operations]
  /\ \A j \in Slots \ {i} :
       /\ ops'[j].at = ops[j].at /\ ops'[j].source = ops[j].source
       /\ ops'[j].session = ops[j].session /\ ops'[j].canceled = ops[j].canceled
  /\ ops'[i].at \notin {"advised", "asked"}
  /\ ops'[i].at # "ended" => ops'[i].canceled = ops[i].canceled /\ current' = current
  /\ newest' = newest
  /\ current' \in {current, Released(i)}

LEMMA MovesKeepScope ==
  ASSUME IInv, NEW i \in Running, Moves(i)
  PROVE  ScopeSound' /\ {newest', current'} \subseteq 0 .. MaxRunning
<1>1. \A j \in Slots \ {i} : j \in Running' <=> j \in Running
  BY DEF Moves, Running
<1>2. i \in Slots
  BY DEF Running
<1>3. newest' \in Running' => current' = newest'
  <2>1. CASE newest = i
    BY <2>1, <1>2 DEF Moves, Running, IInv, ScopeSound
  <2>2. CASE newest # i
    BY <2>2, <1>1 DEF Moves, Released, Running, IInv, ScopeSound
  <2> QED BY <2>1, <2>2
<1>4. \A j \in Running' \ {newest'} : j \in Running
  BY <1>1, <1>2 DEF Running
<1>5. \A j \in Running' \ {newest'} :
        ops'[j].canceled /\ ops'[j].at \notin {"advised", "asked"}
  BY <1>1, <1>2, <1>4 DEF Moves, IInv, ScopeSound, Running
<1>6. {newest', current'} \subseteq 0 .. MaxRunning
  BY WindowAssumption DEF Moves, Released, IInv, TypeOK
<1> QED BY <1>3, <1>5, <1>6 DEF ScopeSound

LEMMA AtMoves ==
  ASSUME TypeOK, NEW i \in Slots, NEW step \in Steps \ {"advised", "asked", "ended"},
         At(i, step)
  PROVE  /\ Moves(i)
         /\ ops'[i] = [ops[i] EXCEPT !.at = step]
BY DEF At, TypeOK, Moves, Operations

LEMMA EndMoves ==
  ASSUME TypeOK, NEW i \in Slots, End(i)
  PROVE  Moves(i) /\ ops'[i] = Ended
BY EndedIsOperation DEF End, TypeOK, Moves

LEMMA PreviewMoves ==
  ASSUME TypeOK, NEW i \in Slots, ops[i].at # "ended", Preview(i)
  PROVE  /\ Moves(i) /\ preview' \in 0 .. MaxRunning
         /\ ops'[i] = Ended \/ ops'[i] = [ops[i] EXCEPT !.at = "preview"]
<1>1. CASE BeginPreview(i)
  <2>1. ops' \in [Slots -> Operations]
    <3>1. \A j \in Slots : /\ [ops[j] EXCEPT !.at = "preview"] \in Operations
                          /\ [ops[j] EXCEPT !.quiet = TRUE] \in Operations
                          /\ ops[j] \in Operations
      BY DEF TypeOK, Operations, Steps
    <3> QED BY <1>1, <3>1 DEF BeginPreview
  <2>2. ops'[i] = [ops[i] EXCEPT !.at = "preview"]
    BY <1>1 DEF BeginPreview
  <2>3. \A j \in Slots \ {i} :
       /\ ops'[j].at = ops[j].at /\ ops'[j].source = ops[j].source
       /\ ops'[j].session = ops[j].session /\ ops'[j].canceled = ops[j].canceled
    BY <1>1 DEF BeginPreview, TypeOK, Operations
  <2>4. preview' = i /\ newest' = newest /\ current' = current
    BY <1>1 DEF BeginPreview
  <2>5. ops[i] \in Operations
    BY DEF TypeOK
  <2> QED
    BY <2>1, <2>2, <2>3, <2>4, <2>5, SlotsAreNotZero DEF Moves, Operations
<1>2. CASE End(i) /\ UNCHANGED preview
  BY <1>2, EndMoves DEF TypeOK
<1> QED BY <1>1, <1>2 DEF Preview

LEMMA StatusKept ==
  ASSUME TypeOK, NEW s \in DOMAIN sessions, NEW status \in Statuses, SetStatus(s, status)
  PROVE  /\ sessions' \in Seq(Records) /\ Len(sessions') = Len(sessions)
         /\ latest' \in 0 .. Len(sessions)
         /\ sessions'[s].status = status
         /\ \A t \in DOMAIN sessions \ {s} : sessions'[t] = sessions[t]
<1>1. sessions \in Seq(Records) /\ sessions[s] \in Records
  BY DEF TypeOK
<1>2. [sessions[s] EXCEPT !.status = status] \in Records
  BY <1>1 DEF Records
<1>3. sessions' = [sessions EXCEPT ![s] = [sessions[s] EXCEPT !.status = status]]
  BY DEF SetStatus
<1>4. sessions' \in Seq(Records) /\ Len(sessions') = Len(sessions)
  BY <1>1, <1>2, <1>3
<1>5. sessions'[s] = [sessions[s] EXCEPT !.status = status]
  BY <1>1, <1>3
<1>6. latest' \in 0 .. Len(sessions)
  BY <1>1 DEF SetStatus
<1> QED BY <1>1, <1>3, <1>4, <1>5, <1>6 DEF Records

\* The sessions, as far as the invariant speaks of them.
Recorded ==
  /\ sessions' \in Seq(Records) /\ Len(sessions') = Len(sessions)
  /\ latest' \in 0 .. Len(sessions')

\* An exception is recorded under a session or under none.
LEMMA FailKeeps ==
  ASSUME IInv, NEW i \in Running, NEW STATE s, s \in 0 .. Len(sessions),
         ops[i].at = "logs" => s = ops[i].session,
         NEW STATE outcomes, outcomes \subseteq {"canceled", "error", "recovery-error"},
         Fail(i, s, outcomes)
  PROVE  /\ Moves(i) /\ Recorded /\ OutcomesSound'
         /\ ops'[i] = Ended \/ ops'[i] = [ops[i] EXCEPT !.at = "closing"]
<1>1. i \in Slots /\ TypeOK /\ sessions \in Seq(Records) /\ Len(sessions) \in Nat
  BY DEF Running, IInv, TypeOK
<1>2. CASE s = 0
  <2>1. End(i) /\ UNCHANGED <<sessions, latest>>
    BY <1>2 DEF Fail
  <2>2. Moves(i) /\ ops'[i] = Ended
    BY <1>1, <2>1, EndMoves
  <2>3. ops[i].at # "logs"
    BY <1>1, <1>2 DEF IInv, HandsSound
  <2>4. OutcomesSound'
    BY <2>1, <2>2, <2>3 DEF IInv, OutcomesSound, Moves
  <2> QED BY <1>1, <2>1, <2>2, <2>4 DEF TypeOK, Recorded
<1>3. CASE s # 0
  <2>1. PICK status \in outcomes : SetStatus(s, status)
    BY <1>3 DEF Fail
  <2>2. At(i, "closing")
    BY <1>3 DEF Fail
  <2>3. s \in DOMAIN sessions /\ status \in Statuses /\ status # "initialized"
    BY <1>1, <1>3, <2>1 DEF Statuses
  <2>4. /\ sessions' \in Seq(Records) /\ Len(sessions') = Len(sessions)
        /\ latest' \in 0 .. Len(sessions)
        /\ sessions'[s].status = status
        /\ \A t \in DOMAIN sessions \ {s} : sessions'[t] = sessions[t]
    BY <1>1, <2>1, <2>3, StatusKept
  <2>5. Moves(i) /\ ops'[i] = [ops[i] EXCEPT !.at = "closing"]
    BY <1>1, <2>2, AtMoves DEF Steps
  <2>6. OutcomesSound'
    <3> SUFFICES ASSUME NEW t \in DOMAIN sessions', sessions'[t].status = "initialized"
                 PROVE  \E j \in Slots : ops'[j].at = "logs" /\ ops'[j].session = t
      BY DEF OutcomesSound
    <3>1. t \in DOMAIN sessions /\ t # s /\ sessions[t].status = "initialized"
      BY <1>1, <2>3, <2>4
    <3>2. PICK j \in Slots : ops[j].at = "logs" /\ ops[j].session = t
      BY <3>1 DEF IInv, OutcomesSound
    <3>3. j # i
      BY <3>1, <3>2
    <3> QED BY <3>2, <3>3, <2>5 DEF Moves
  <2> QED BY <2>4, <2>5, <2>6 DEF Recorded
<1> QED BY <1>2, <1>3

LEMMA StepKeeps ==
  ASSUME IInv, NEW i \in Running, Moves(i), OutcomesSound',
         listed' \subseteq Sources, selected' \in Sources \cup {None},
         destination' \in Volumes, rows' \in Sources \cup {None},
         sessions' \in Seq(Records), Len(sessions') >= Len(sessions),
         active' \in 0 .. Len(sessions'), latest' \in 0 .. Len(sessions'),
         preview' \in 0 .. MaxRunning,
         ops'[i].session <= Len(sessions'),
         ops'[i].at = "custody" => ops'[i].source \in Sources,
         ops'[i].at \in {"logs", "stored", "preview"} => ops'[i].session # 0,
         ops'[i].at = "report" => active' # 0, active # 0 => active' # 0
  PROVE  IInv'
<1>1. i \in Slots /\ TypeOK
  BY DEF Running, IInv
<1>2. ScopeSound' /\ {newest', current'} \subseteq 0 .. MaxRunning
  BY MovesKeepScope
<1>3. HandsSound'
  <2> SUFFICES ASSUME NEW j \in Slots
               PROVE  /\ ops'[j].at \in {"advised", "custody"} => ops'[j].source \in Sources
                      /\ ops'[j].at \in {"logs", "stored", "preview"} => ops'[j].session # 0
                      /\ ops'[j].at = "report" => active' # 0
    BY DEF HandsSound
  <2>1. CASE j = i
    BY <2>1 DEF Moves
  <2>2. CASE j # i
    BY <2>2, <1>1 DEF Moves, IInv, HandsSound
  <2> QED BY <2>1, <2>2
<1>4. \A j \in Slots : ops'[j].session <= Len(sessions')
  <2> SUFFICES ASSUME NEW j \in Slots, j # i
               PROVE  ops'[j].session <= Len(sessions')
    OBVIOUS
  <2>1. ops'[j].session = ops[j].session /\ ops[j].session <= Len(sessions)
    BY <1>1 DEF Moves, TypeOK
  <2>2. ops[j].session \in Nat /\ Len(sessions) \in Nat /\ Len(sessions') \in Nat
    BY <1>1 DEF TypeOK, Operations
  <2> QED BY <2>1, <2>2
<1>5. TypeOK'
  BY <1>2, <1>4 DEF TypeOK, Moves
<1> QED BY <1>2, <1>3, <1>5 DEF IInv

LEMMA OutcomesKept ==
  ASSUME IInv, NEW i \in Running, Moves(i), ops[i].at # "logs", sessions' = sessions
  PROVE  OutcomesSound'
BY DEF IInv, OutcomesSound, Moves

\* What the invariant says of an operation that runs, in one place.
LEMMA Hold ==
  ASSUME IInv, NEW i \in Slots, ops[i].at # "ended"
  PROVE  /\ i \in Running /\ TypeOK /\ ops[i] \in Operations
         /\ sessions \in Seq(Records) /\ Len(sessions) \in Nat
         /\ ops[i].session \in 0 .. Len(sessions)
BY DEF IInv, TypeOK, Running, Operations

-----------------------------------------------------------------------------
(* One lemma for each action *)

LEMMA AnswerStartKeeps ==
  ASSUME IInv, NEW i \in Slots, AnswerStart(i)
  PROVE  IInv'
<1>1. ops[i].at = "advised" /\ i \in Running
  BY DEF AnswerStart, Running
<1>2. i = newest /\ ops[i].source \in Sources
  BY <1>1 DEF IInv, ScopeSound, HandsSound
<1>3. UNCHANGED <<listed, selected, destination, active, sessions, latest, preview>>
  BY DEF AnswerStart, window
<1>4. /\ Moves(i) /\ rows' \in Sources \cup {None}
      /\ ops'[i] = Ended \/ ops'[i] = [ops[i] EXCEPT !.at = "custody"]
  <2>1. CASE ops' = [ops EXCEPT ![i] = Ended] /\ UNCHANGED <<newest, current, rows>>
    BY <2>1, EndedIsOperation DEF Moves, IInv, TypeOK
  <2>2. CASE At(i, "custody") /\ Scan(ops[i].source)
    BY <2>2, <1>2, AtMoves DEF Scan, Steps, IInv
  <2>3. CASE End(i) /\ Scan(ops[i].source)
    BY <2>3, <1>2, EndMoves DEF Scan, IInv
  <2> QED BY <2>1, <2>2, <2>3 DEF AnswerStart
<1>5. OutcomesSound'
  BY <1>1, <1>3, <1>4, OutcomesKept
<1>6. ops'[i].session <= Len(sessions) /\ ops'[i].at \notin {"logs", "stored", "preview", "report"}
      /\ (ops'[i].at = "custody" => ops'[i].source \in Sources)
  BY <1>1, <1>2, <1>4, Hold, EndedIsOperation DEF Operations
<1> QED
  BY <1>1, <1>3, <1>4, <1>5, <1>6, StepKeeps, Hold DEF TypeOK

LEMMA CreateSessionKeeps ==
  ASSUME IInv, NEW i \in Slots, CreateSession(i)
  PROVE  IInv'
<1>1. ops[i].at = "custody" /\ i \in Running /\ ops[i].source \in Sources
  BY DEF CreateSession, Running, IInv, HandsSound
<1>2. UNCHANGED <<listed, selected, destination, rows, preview>>
  BY DEF CreateSession, window
<1>3. CASE End(i) /\ UNCHANGED <<active, sessions, latest>>
  <2>1. Moves(i) /\ ops'[i] = Ended
    BY <1>1, <1>3, EndMoves, Hold
  <2>2. OutcomesSound'
    BY <1>1, <1>3, <2>1, OutcomesKept
  <2> QED
    BY <1>1, <1>2, <1>3, <2>1, <2>2, StepKeeps, Hold, EndedIsOperation DEF TypeOK
<1>4. CASE ~(End(i) /\ UNCHANGED <<active, sessions, latest>>)
  <2> DEFINE record == [status |-> "initialized", source |-> ops[i].source,
                        destination |-> destination, rows |-> None]
             here == [ops[i] EXCEPT !.at = "logs", !.source = None,
                                    !.session = Len(sessions) + 1]
  <2>1. /\ sessions' = Append(sessions, record)
        /\ active' = Len(sessions) + 1 /\ latest' = Len(sessions) + 1
        /\ ops' = [ops EXCEPT ![i] = here] /\ UNCHANGED <<newest, current>>
    BY <1>4 DEF CreateSession
  <2>2. record \in Records
    BY <1>1 DEF Records, Statuses, IInv, TypeOK
  <2>3. here \in Operations /\ here.session = Len(sessions) + 1 /\ here.at = "logs"
    <3>1. ops[i] \in Operations /\ Len(sessions) + 1 \in Nat
      BY <1>1, Hold
    <3> QED BY <3>1 DEF Operations, Steps
  <2>0. here.canceled = ops[i].canceled
    BY <1>1, Hold DEF Operations
  <2> HIDE DEF record, here
  <2>4. /\ sessions' \in Seq(Records) /\ Len(sessions') = Len(sessions) + 1
        /\ \A s \in DOMAIN sessions : sessions'[s] = sessions[s]
        /\ DOMAIN sessions' = DOMAIN sessions \cup {Len(sessions) + 1}
    BY <1>1, <2>1, <2>2, Hold
  <2>5. Moves(i) /\ ops'[i] = here
    <3>1. ops \in [Slots -> Operations]
      BY <1>1, Hold DEF TypeOK
    <3>2. /\ ops' \in [Slots -> Operations] /\ ops'[i] = here
          /\ \A j \in Slots \ {i} : ops'[j] = ops[j]
      BY <2>1, <2>3, <3>1
    <3> QED BY <2>0, <2>1, <2>3, <3>2 DEF Moves
  <2>6. OutcomesSound'
    <3> SUFFICES ASSUME NEW s \in DOMAIN sessions', sessions'[s].status = "initialized"
                 PROVE  \E j \in Slots : ops'[j].at = "logs" /\ ops'[j].session = s
      BY DEF OutcomesSound
    <3>1. CASE s = Len(sessions) + 1
      BY <3>1, <2>3, <2>5
    <3>2. CASE s \in DOMAIN sessions
      <4>1. PICK j \in Slots : ops[j].at = "logs" /\ ops[j].session = s
        BY <3>2, <2>4 DEF IInv, OutcomesSound
      <4>2. j # i
        BY <4>1, <1>1
      <4> QED BY <4>1, <4>2, <2>5 DEF Moves
    <3> QED BY <3>1, <3>2, <2>4
  <2> QED
    BY <1>1, <1>2, <2>1, <2>3, <2>4, <2>5, <2>6, StepKeeps, Hold DEF TypeOK
<1> QED BY <1>3, <1>4

LEMMA MakeReadyKeeps ==
  ASSUME IInv, NEW i \in Slots, MakeReady(i)
  PROVE  IInv'
<1> DEFINE s == ops[i].session
<1>1. /\ ops[i].at = "logs" /\ i \in Running
      /\ s # 0 /\ s \in DOMAIN sessions /\ s \in 0 .. Len(sessions)
  BY Hold DEF MakeReady, Running, IInv, HandsSound
<1>2. UNCHANGED <<listed, selected, destination, rows, active>>
  BY DEF MakeReady, window
<1>3. CASE Fail(i, s, Thrown(i, "error")) /\ UNCHANGED preview
  <2>1. Thrown(i, "error") \subseteq {"canceled", "error", "recovery-error"}
    BY DEF Thrown
  <2>2. /\ Moves(i) /\ Recorded /\ OutcomesSound'
        /\ ops'[i] = Ended \/ ops'[i] = [ops[i] EXCEPT !.at = "closing"]
    BY <1>1, <1>3, <2>1, FailKeeps
  <2>3. ops'[i].session <= Len(sessions) /\ ops'[i].at \in {"ended", "closing"}
    BY <1>1, <2>2, Hold, EndedIsOperation DEF Operations
  <2> QED
    BY <1>1, <1>2, <1>3, <2>2, <2>3, StepKeeps, Hold DEF TypeOK, Recorded
<1>4. CASE ~(Fail(i, s, Thrown(i, "error")) /\ UNCHANGED preview)
  <2> DEFINE record == [sessions[s] EXCEPT !.status = "ready", !.rows = rows]
  <2>1. /\ sessions' = [sessions EXCEPT ![s].status = "ready", ![s].rows = rows]
        /\ latest' = s
        /\ Preview(i) \/ (At(i, "stored") /\ UNCHANGED preview)
    BY <1>4 DEF MakeReady
  <2>2. sessions[s] \in Records
    BY <1>1, Hold
  <2>3. record \in Records /\ record.status = "ready"
    BY <2>2 DEF Records, Statuses, IInv, TypeOK
  <2>4. sessions' = [sessions EXCEPT ![s] = record]
    BY <1>1, <2>1, Hold
  <2>5. /\ sessions' \in Seq(Records) /\ Len(sessions') = Len(sessions)
        /\ sessions'[s].status = "ready"
        /\ \A t \in DOMAIN sessions \ {s} : sessions'[t] = sessions[t]
        /\ DOMAIN sessions' = DOMAIN sessions
    <3> HIDE DEF record
    <3> QED BY <1>1, <2>3, <2>4, Hold
  <2>6. /\ Moves(i) /\ preview' \in 0 .. MaxRunning
        /\ \/ ops'[i] = Ended
           \/ \E step \in {"preview", "stored"} : ops'[i] = [ops[i] EXCEPT !.at = step]
    BY <1>1, <2>1, PreviewMoves, AtMoves, Hold DEF Steps, TypeOK
  <2>7. OutcomesSound'
    <3> SUFFICES ASSUME NEW t \in DOMAIN sessions', sessions'[t].status = "initialized"
                 PROVE  \E j \in Slots : ops'[j].at = "logs" /\ ops'[j].session = t
      BY DEF OutcomesSound
    <3>1. t \in DOMAIN sessions /\ t # s /\ sessions[t].status = "initialized"
      BY <2>5
    <3>2. PICK j \in Slots : ops[j].at = "logs" /\ ops[j].session = t
      BY <3>1 DEF IInv, OutcomesSound
    <3>3. j # i
      BY <3>1, <3>2
    <3> QED BY <3>2, <3>3, <2>6 DEF Moves
  <2>8. /\ ops'[i].session <= Len(sessions)
        /\ ops'[i].at \notin {"custody", "report"}
        /\ ops'[i].at \in {"logs", "stored", "preview"} => ops'[i].session # 0
    BY <1>1, <2>6, Hold, EndedIsOperation DEF Operations
  <2>9. latest' \in 0 .. Len(sessions')
    BY <1>1, <2>1, <2>5
  <2> QED
    BY <1>1, <1>2, <2>5, <2>6, <2>7, <2>8, <2>9, StepKeeps, Hold DEF TypeOK
<1> QED BY <1>3, <1>4

\* A step that records nothing or a failure under the session the operation has
\* created or the active one.
LEMMA FailedStepKeeps ==
  ASSUME IInv, NEW i \in Running, NEW STATE s, s \in 0 .. Len(sessions),
         ops[i].at = "logs" => s = ops[i].session,
         NEW STATE outcomes, outcomes \subseteq {"canceled", "error", "recovery-error"},
         Fail(i, s, outcomes),
         UNCHANGED <<listed, selected, destination, rows, active, preview>>
  PROVE  IInv'
<1>1. i \in Slots /\ ops[i].at # "ended"
  BY DEF Running
<1>2. /\ Moves(i) /\ Recorded /\ OutcomesSound'
      /\ ops'[i] = Ended \/ ops'[i] = [ops[i] EXCEPT !.at = "closing"]
  BY FailKeeps
<1>3. ops'[i].session <= Len(sessions) /\ ops'[i].at \in {"ended", "closing"}
  BY <1>1, <1>2, Hold, EndedIsOperation DEF Operations
<1> QED
  BY <1>1, <1>2, <1>3, StepKeeps, Hold DEF TypeOK, Recorded

LEMMA EndKeeps ==
  ASSUME IInv, NEW i \in Running, ops[i].at # "logs", End(i), sessions' = sessions,
         listed' \subseteq Sources, selected' \in Sources \cup {None},
         UNCHANGED <<destination, rows, active, latest, preview>>
  PROVE  IInv'
<1>1. i \in Slots /\ ops[i].at # "ended"
  BY DEF Running
<1>2. Moves(i) /\ ops'[i] = Ended
  BY <1>1, EndMoves, Hold
<1>3. OutcomesSound'
  BY <1>2, OutcomesKept
<1> QED
  BY <1>1, <1>2, <1>3, StepKeeps, Hold, EndedIsOperation DEF TypeOK

LEMMA ShowStoredKeeps ==
  ASSUME IInv, NEW i \in Slots, ShowStored(i)
  PROVE  IInv'
<1> DEFINE s == ops[i].session
<1>1. /\ ops[i].at = "stored" /\ i \in Running
      /\ s \in DOMAIN sessions /\ s \in 0 .. Len(sessions)
  BY Hold DEF ShowStored, Running, IInv, HandsSound
<1>2. UNCHANGED <<listed, selected, destination, active>>
  BY DEF ShowStored, window
<1>3. CASE Fail(i, s, Thrown(i, "error")) /\ UNCHANGED <<rows, preview>>
  <2>1. Thrown(i, "error") \subseteq {"canceled", "error", "recovery-error"}
    BY DEF Thrown
  <2> QED BY <1>1, <1>2, <1>3, <2>1, FailedStepKeeps
<1>4. CASE /\ rows' = sessions[s].rows /\ Preview(i) /\ UNCHANGED <<sessions, latest>>
  <2>1. rows' \in Sources \cup {None}
    <3>1. sessions[s] \in Records
      BY <1>1, Hold
    <3> QED BY <1>4, <3>1 DEF Records
  <2>2. /\ Moves(i) /\ preview' \in 0 .. MaxRunning
        /\ ops'[i] = Ended \/ ops'[i] = [ops[i] EXCEPT !.at = "preview"]
    BY <1>1, <1>4, PreviewMoves, Hold
  <2>3. OutcomesSound'
    BY <1>1, <1>4, <2>2, OutcomesKept
  <2>4. /\ ops'[i].session <= Len(sessions)
        /\ ops'[i].at \notin {"custody", "report"}
        /\ ops'[i].at \in {"logs", "stored", "preview"} => ops'[i].session # 0
    BY <1>1, <2>2, Hold, EndedIsOperation DEF Operations, IInv, HandsSound
  <2> QED
    BY <1>1, <1>2, <1>4, <2>1, <2>2, <2>3, <2>4, StepKeeps, Hold DEF TypeOK
<1> QED BY <1>3, <1>4 DEF ShowStored

LEMMA EndPreviewKeeps ==
  ASSUME IInv, NEW i \in Slots, EndPreview(i)
  PROVE  IInv'
<1>1. /\ ops[i].at = "preview" /\ i \in Running /\ ops[i].session \in 0 .. Len(sessions)
      /\ listed \subseteq Sources /\ selected \in Sources \cup {None}
  BY Hold DEF EndPreview, Running, TypeOK
<1>2. UNCHANGED <<listed, selected, destination, rows, active, preview>>
  BY DEF EndPreview, window
<1>3. CASE End(i) /\ UNCHANGED <<sessions, latest>>
  BY <1>1, <1>2, <1>3, EndKeeps
<1>4. CASE Fail(i, ops[i].session, {"error"})
  BY <1>1, <1>2, <1>4, FailedStepKeeps
<1> QED BY <1>3, <1>4 DEF EndPreview

\* A status other than a failure, under the active session.
LEMMA NotedStepKeeps ==
  ASSUME IInv, NEW i \in Running, ops[i].at # "logs", active # 0,
         NEW status \in {"recovering", "ready"}, SetStatus(active, status),
         NEW step \in {"report", "reporting"}, At(i, step),
         UNCHANGED <<listed, selected, destination, rows, active, preview>>
  PROVE  IInv'
<1>1. i \in Slots /\ ops[i].at # "ended"
  BY DEF Running
<1>2. active \in DOMAIN sessions /\ status \in Statuses
  BY <1>1, Hold DEF TypeOK, Statuses
<1>3. /\ sessions' \in Seq(Records) /\ Len(sessions') = Len(sessions)
      /\ latest' \in 0 .. Len(sessions)
      /\ sessions'[active].status = status
      /\ \A t \in DOMAIN sessions \ {active} : sessions'[t] = sessions[t]
  BY <1>1, <1>2, StatusKept, Hold
<1>4. Moves(i) /\ ops'[i] = [ops[i] EXCEPT !.at = step]
  BY <1>1, AtMoves, Hold DEF Steps
<1>5. OutcomesSound'
  <2> SUFFICES ASSUME NEW t \in DOMAIN sessions', sessions'[t].status = "initialized"
               PROVE  \E j \in Slots : ops'[j].at = "logs" /\ ops'[j].session = t
    BY DEF OutcomesSound
  <2>1. t \in DOMAIN sessions /\ t # active /\ sessions[t].status = "initialized"
    BY <1>1, <1>3, Hold
  <2>2. PICK j \in Slots : ops[j].at = "logs" /\ ops[j].session = t
    BY <2>1 DEF IInv, OutcomesSound
  <2> QED BY <2>2, <1>4 DEF Moves
<1>6. ops'[i].session <= Len(sessions) /\ ops'[i].at \in {"report", "reporting"}
  BY <1>1, <1>4, Hold DEF Operations
<1>7. active' \in 0 .. Len(sessions') /\ active' # 0 /\ Len(sessions') >= Len(sessions)
  BY <1>1, <1>3, Hold DEF TypeOK
<1> QED
  BY <1>1, <1>7, <1>3, <1>4, <1>5, <1>6, StepKeeps, Hold DEF TypeOK

LEMMA AnswerRecoverKeeps ==
  ASSUME IInv, NEW i \in Slots, AnswerRecover(i)
  PROVE  IInv'
<1>1. /\ ops[i].at = "asked" /\ i \in Running /\ active \in 0 .. Len(sessions)
      /\ listed \subseteq Sources /\ selected \in Sources \cup {None}
  BY Hold DEF AnswerRecover, Running, TypeOK
<1>2. UNCHANGED <<listed, selected, destination, rows, active, preview>>
  BY DEF AnswerRecover, window
<1>3. CASE End(i) /\ UNCHANGED <<sessions, latest>>
  BY <1>1, <1>2, <1>3, EndKeeps
<1>4. CASE active # 0 /\ At(i, "report") /\ SetStatus(active, "recovering")
  BY <1>1, <1>2, <1>4, NotedStepKeeps
<1>5. CASE Fail(i, active, {"recovery-error"})
  BY <1>1, <1>2, <1>5, FailedStepKeeps
<1> QED BY <1>3, <1>4, <1>5 DEF AnswerRecover

LEMMA ReportKeeps ==
  ASSUME IInv, NEW i \in Slots, Report(i)
  PROVE  IInv'
<1>1. /\ ops[i].at = "report" /\ i \in Running /\ active \in 0 .. Len(sessions)
      /\ active # 0
  BY Hold DEF Report, Running, TypeOK, IInv, HandsSound
<1>2. UNCHANGED <<listed, selected, destination, rows, active, preview>>
  BY DEF Report, window
<1>3. CASE SetStatus(active, "ready") /\ At(i, "reporting")
  BY <1>1, <1>2, <1>3, NotedStepKeeps
<1>4. CASE Fail(i, active, Thrown(i, "recovery-error"))
  <2>1. Thrown(i, "recovery-error") \subseteq {"canceled", "error", "recovery-error"}
    BY DEF Thrown
  <2> QED BY <1>1, <1>2, <1>4, <2>1, FailedStepKeeps
<1> QED BY <1>3, <1>4 DEF Report

LEMMA AcquiredKeeps ==
  ASSUME IInv, NEW i \in Slots, Acquired(i)
  PROVE  IInv'
<1>1. /\ ops[i].at = "acquiring" /\ i \in Running /\ TypeOK
  BY Hold DEF Acquired
<1>2. UNCHANGED <<listed, selected, destination, rows, active, sessions, latest, preview>>
  BY DEF Acquired, window, work
<1>3. CASE At(i, "building")
  <2>1. Moves(i) /\ ops'[i] = [ops[i] EXCEPT !.at = "building"]
    BY <1>1, <1>3, AtMoves DEF Steps
  <2>2. OutcomesSound'
    BY <1>1, <1>2, <2>1, OutcomesKept
  <2>3. ops'[i].session <= Len(sessions) /\ ops'[i].at = "building"
    BY <1>1, <2>1, Hold DEF Operations
  <2>4. /\ listed' \subseteq Sources /\ selected' \in Sources \cup {None}
        /\ destination' \in Volumes /\ rows' \in Sources \cup {None}
        /\ sessions' \in Seq(Records) /\ preview' \in 0 .. MaxRunning
        /\ active' \in 0 .. Len(sessions') /\ latest' \in 0 .. Len(sessions')
        /\ active # 0 => active' # 0
    BY <1>1, <1>2 DEF TypeOK
  <2>5. /\ Len(sessions') >= Len(sessions) /\ ops'[i].session <= Len(sessions')
        /\ ops'[i].at \notin {"custody", "logs", "stored", "preview", "report"}
    BY <1>1, <1>2, <2>3, Hold
  <2>6. Moves(i)
    BY <2>1
  <2> QED BY <1>1, <2>2, <2>4, <2>5, <2>6, StepKeeps
<1>4. CASE End(i)
  BY <1>1, <1>2, <1>4, EndKeeps DEF TypeOK
<1> QED BY <1>3, <1>4 DEF Acquired

LEMMA ListImageKeeps ==
  ASSUME IInv, NEW i \in Slots, ListImage(i)
  PROVE  IInv'
<1>1. ops[i].at = "building" /\ i \in Running /\ TypeOK
  BY Hold DEF ListImage
<1>2. UNCHANGED <<destination, rows, active, sessions, latest, preview>> /\ End(i)
  BY DEF ListImage, work
<1>3. listed' \subseteq Sources /\ selected' \in Sources \cup {None}
  BY <1>1 DEF ListImage, TypeOK, Sources
<1> QED BY <1>1, <1>2, <1>3, EndKeeps

LEMMA CloseKeeps ==
  ASSUME IInv, NEW i \in Slots, Close(i)
  PROVE  IInv'
<1>1. ops[i].at \in {"closing", "reporting"} /\ i \in Running /\ TypeOK
  BY Hold DEF Close
<1>2. /\ UNCHANGED <<listed, selected, destination, rows, active, sessions, latest, preview>>
      /\ End(i)
  BY DEF Close, window, work
<1> QED BY <1>1, <1>2, EndKeeps DEF TypeOK

LEMMA NewOperation ==
  ASSUME NEW STATE step, step \in Steps, NEW STATE source, source \in Sources \cup {None},
         NEW STATE to, to \in Volumes \cup {None}
  PROVE  /\ Operation(step, source, to) \in Operations
         /\ Operation(step, source, to).at = step
         /\ Operation(step, source, to).source = source
         /\ Operation(step, source, to).session = 0
BY DEF Operation, Operations

LEMMA StartSessionKeeps ==
  ASSUME IInv, StartSession
  PROVE  IInv'
<1>1. /\ CanStart /\ TypeOK
      /\ UNCHANGED <<listed, selected, destination, active, sessions, latest, preview>>
  BY DEF StartSession, window, IInv
<1>2. CASE Run(Ended) /\ rows' = None
  BY <1>1, <1>2, StartKeeps, EndedIsOperation DEF Run
<1>3. CASE selected \in Images /\ Run(Operation("custody", selected, None)) /\ Scan(selected)
  <2>1. selected \in Sources
    BY <1>3 DEF Sources
  <2> DEFINE op == Operation("custody", selected, None)
  <2>2. op \in Operations /\ op.at = "custody" /\ op.source = selected /\ op.session = 0
    BY <2>1, NewOperation DEF Steps
  <2> HIDE DEF op
  <2> QED BY <1>1, <1>3, <2>1, <2>2, StartKeeps DEF Run, Scan, op
<1>4. CASE selected \in Disks /\ Run(Operation("advised", selected, None)) /\ rows' = None
  <2>1. selected \in Sources
    BY <1>4 DEF Sources
  <2> DEFINE op == Operation("advised", selected, None)
  <2>2. op \in Operations /\ op.at = "advised" /\ op.source = selected /\ op.session = 0
    BY <2>1, NewOperation DEF Steps
  <2>3. StartScope(op, FreeSlot)
    BY <1>4 DEF Run
  <2> HIDE DEF op
  <2> QED BY <1>1, <1>4, <2>1, <2>2, <2>3, StartKeeps
<1> QED BY <1>2, <1>3, <1>4 DEF StartSession

LEMMA RecoverKeeps ==
  ASSUME IInv, Recover
  PROVE  IInv'
<1>1. /\ CanStart /\ TypeOK
      /\ UNCHANGED <<listed, selected, destination, rows, active, sessions, latest, preview>>
  BY DEF Recover, window, work, IInv
<1>2. CASE StartScope(Ended, 0)
  BY <1>1, <1>2, StartKeeps, EndedIsOperation DEF TypeOK
<1>3. CASE selected # None /\ Run(Operation("asked", selected, destination))
  <2> DEFINE op == Operation("asked", selected, destination)
  <2>2. op \in Operations /\ op.at = "asked" /\ op.session = 0
    BY <1>1, NewOperation DEF Steps, TypeOK
  <2>3. StartScope(op, FreeSlot)
    BY <1>3 DEF Run
  <2> HIDE DEF op
  <2> QED BY <1>1, <2>2, <2>3, StartKeeps DEF TypeOK
<1> QED BY <1>2, <1>3 DEF Recover

LEMMA AcquireKeeps ==
  ASSUME IInv, Acquire
  PROVE  IInv'
<1>1. /\ CanStart /\ TypeOK
      /\ UNCHANGED <<listed, selected, destination, rows, active, sessions, latest, preview>>
  BY DEF Acquire, window, work, IInv
<1>2. CASE StartScope(Ended, 0)
  BY <1>1, <1>2, StartKeeps, EndedIsOperation DEF TypeOK
<1>3. CASE Run(Operation("acquiring", None, None))
  <2> DEFINE op == Operation("acquiring", None, None)
  <2>2. op \in Operations /\ op.at = "acquiring" /\ op.session = 0
    BY NewOperation DEF Steps
  <2>3. StartScope(op, FreeSlot)
    BY <1>3 DEF Run
  <2> HIDE DEF op
  <2> QED BY <1>1, <2>2, <2>3, StartKeeps DEF TypeOK
<1> QED BY <1>2, <1>3 DEF Acquire

LEMMA CancelKeeps ==
  ASSUME IInv, Cancel
  PROVE  IInv'
<1>1. /\ UNCHANGED <<listed, selected, destination, rows, active, sessions, latest>>
      /\ UNCHANGED <<newest, current, preview>>
  BY DEF Cancel, window, work
<1>2. ops \in [Slots -> Operations]
  BY DEF IInv, TypeOK
<1>3. /\ ops' \in [Slots -> Operations]
      /\ \A i \in Slots : /\ ops'[i].at = ops[i].at /\ ops'[i].session = ops[i].session
                          /\ ops'[i].source = ops[i].source
                          /\ ops[i].canceled => ops'[i].canceled
  BY <1>2 DEF Cancel, Operations
<1>4. TypeOK'
  BY <1>1, <1>3 DEF IInv, TypeOK, Slots
<1>5. ScopeSound'
  BY <1>1, <1>3 DEF IInv, ScopeSound, Running
<1>6. HandsSound'
  BY <1>1, <1>3 DEF IInv, HandsSound
<1>7. OutcomesSound'
  BY <1>1, <1>3 DEF IInv, OutcomesSound
<1> QED BY <1>4, <1>5, <1>6, <1>7 DEF IInv

\* Steps of the user that start and cancel nothing, and stuttering.
LEMMA IdleKeeps ==
  ASSUME IInv, UNCHANGED <<sessions, latest>>, UNCHANGED scope, listed' = listed,
         selected' \in Sources \cup {None}, destination' \in Volumes,
         rows' \in Sources \cup {None}, active' \in {active, latest},
         active # 0 => active' # 0
  PROVE  IInv'
<1>1. TypeOK'
  BY DEF IInv, TypeOK, scope, Slots
<1>2. ScopeSound'
  BY DEF IInv, ScopeSound, Running, scope
<1>3. HandsSound'
  BY DEF IInv, HandsSound, scope
<1>4. OutcomesSound'
  BY DEF IInv, OutcomesSound, scope
<1> QED BY <1>1, <1>2, <1>3, <1>4 DEF IInv

LEMMA ResumeKeeps ==
  ASSUME IInv, Resume
  PROVE  IInv'
<1>1. latest \in DOMAIN sessions /\ sessions \in Seq(Records)
  BY DEF IInv, TypeOK, Resume
<1>2. sessions[latest] \in Records
  BY <1>1
<1>3. selected' \in Sources \cup {None} /\ destination' \in Volumes /\ rows' \in Sources \cup {None}
  BY <1>2 DEF IInv, TypeOK, Resume, Records
<1> QED BY <1>3, IdleKeeps DEF Resume, IInv, TypeOK

-----------------------------------------------------------------------------
(* The theorems *)

LEMMA InitHolds == Init => IInv
<1> SUFFICES ASSUME Init PROVE IInv
  OBVIOUS
<1>1. TypeOK
  BY EndedIsOperation, WindowAssumption DEF Init, TypeOK, Sources, Slots
<1>2. ScopeSound /\ HandsSound
  BY EndedIsOperation DEF Init, ScopeSound, HandsSound, Running
<1>3. OutcomesSound
  BY DEF Init, OutcomesSound
<1> QED BY <1>1, <1>2, <1>3 DEF IInv

LEMMA NextKeeps == IInv /\ [Next]_vars => IInv'
<1> SUFFICES ASSUME IInv, [Next]_vars PROVE IInv'
  OBVIOUS
<1>1. CASE StartSession BY <1>1, StartSessionKeeps
<1>2. CASE Recover BY <1>2, RecoverKeeps
<1>3. CASE Acquire BY <1>3, AcquireKeeps
<1>4. CASE Cancel BY <1>4, CancelKeeps
<1>5. CASE Select BY <1>5, IdleKeeps DEF Select, work, IInv, TypeOK
<1>6. CASE Type BY <1>6, IdleKeeps DEF Type, work, IInv, TypeOK
<1>7. CASE Resume BY <1>7, ResumeKeeps
<1>8. CASE \E i \in Slots : AnswerStart(i) BY <1>8, AnswerStartKeeps
<1>9. CASE \E i \in Slots : AnswerRecover(i) BY <1>9, AnswerRecoverKeeps
<1>10. CASE \E i \in Slots : Continue(i)
  BY <1>10, CreateSessionKeeps, MakeReadyKeeps, ShowStoredKeeps, EndPreviewKeeps,
     ReportKeeps, AcquiredKeeps, ListImageKeeps, CloseKeeps DEF Continue
<1>11. CASE UNCHANGED vars BY <1>11, IdleKeeps DEF vars, window, work, IInv, TypeOK
<1> QED
  BY <1>1, <1>2, <1>3, <1>4, <1>5, <1>6, <1>7, <1>8, <1>9, <1>10, <1>11 DEF Next, User

\* The inductive invariant holds of every behaviour: the types, the scope of the
\* operations, what each has in hand and the outcomes of the starts.
THEOREM Invariance == Spec => []IInv
BY InitHolds, NextKeeps, PTL DEF Spec

\* Starting an operation leaves every one that runs where it was.
LEMMA StartLeaves ==
  ASSUME TypeOK, CanStart, NEW STATE op, NEW STATE owner, StartScope(op, owner),
         NEW j \in Running
  PROVE  ops'[j].at = ops[j].at
<1>1. j \in Slots /\ j # FreeSlot
  BY FreeSlotIsFree DEF Running
<1> QED BY <1>1 DEF StartScope, TypeOK, Operations

LEMMA UserLeaves ==
  ASSUME IInv, User, NEW j \in Running
  PROVE  ops'[j].at = ops[j].at
<1>1. TypeOK /\ j \in Slots
  BY DEF IInv, Running
<1>2. CASE StartSession
  BY <1>1, <1>2, StartLeaves DEF StartSession, Run
<1>3. CASE Recover
  BY <1>1, <1>3, StartLeaves DEF Recover, Run
<1>4. CASE Acquire
  BY <1>1, <1>4, StartLeaves DEF Acquire, Run
<1>5. CASE Cancel
  BY <1>1, <1>5 DEF Cancel, TypeOK, Operations
<1>6. CASE Select \/ Type \/ Resume
  BY <1>6 DEF Select, Type, Resume, scope
<1> QED BY <1>2, <1>3, <1>4, <1>5, <1>6 DEF User

\* The steps of one operation leave every other one where it was.
LEMMA PartsLeave ==
  ASSUME TypeOK, NEW k \in Slots, NEW j \in Slots \ {k},
         (\E step \in Steps : At(k, step)) \/ End(k) \/ BeginPreview(k)
  PROVE  ops'[j].at = ops[j].at
BY DEF At, End, BeginPreview, TypeOK, Operations

LEMMA FailLeaves ==
  ASSUME TypeOK, NEW k \in Slots, NEW j \in Slots \ {k}, NEW STATE s, NEW STATE outcomes,
         Fail(k, s, outcomes)
  PROVE  ops'[j].at = ops[j].at
BY PartsLeave DEF Fail, Steps

LEMMA OthersLeave ==
  ASSUME IInv, NEW k \in Slots, NEW j \in Slots \ {k},
         AnswerStart(k) \/ AnswerRecover(k) \/ Continue(k)
  PROVE  ops'[j].at = ops[j].at
<1>1. TypeOK
  BY DEF IInv
<1>2. CASE AnswerStart(k)
  BY <1>1, <1>2, PartsLeave DEF AnswerStart, Steps, TypeOK
<1>3. CASE AnswerRecover(k)
  BY <1>1, <1>3, PartsLeave, FailLeaves DEF AnswerRecover, Steps
<1>4. CASE CreateSession(k)
  BY <1>1, <1>4, PartsLeave DEF CreateSession, TypeOK
<1>5. CASE MakeReady(k)
  BY <1>1, <1>5, PartsLeave, FailLeaves DEF MakeReady, Preview, Steps
<1>6. CASE ShowStored(k)
  BY <1>1, <1>6, PartsLeave, FailLeaves DEF ShowStored, Preview
<1>7. CASE EndPreview(k)
  BY <1>1, <1>7, PartsLeave, FailLeaves DEF EndPreview
<1>8. CASE Report(k)
  BY <1>1, <1>8, PartsLeave, FailLeaves DEF Report, Steps
<1>9. CASE Acquired(k) \/ ListImage(k) \/ Close(k)
  BY <1>1, <1>9, PartsLeave DEF Acquired, ListImage, Close, Steps
<1> QED
  BY <1>2, <1>3, <1>4, <1>5, <1>6, <1>7, <1>8, <1>9 DEF Continue

\* What SupersededOnlyClose allows a superseded operation to do.
OnlyCloses ==
  /\ UNCHANGED <<active, rows, destination>>
  /\ \A s \in DOMAIN sessions :
       sessions'[s].status # sessions[s].status =>
         sessions'[s].status \in {"canceled", "error", "recovery-error"}

LEMMA FailCloses ==
  ASSUME TypeOK, NEW k \in Slots, NEW STATE s, s \in 0 .. Len(sessions),
         NEW STATE outcomes, outcomes \subseteq {"canceled", "error", "recovery-error"},
         Fail(k, s, outcomes), UNCHANGED <<active, rows, destination>>
  PROVE  OnlyCloses
<1>1. CASE s = 0
  BY <1>1 DEF Fail, OnlyCloses
<1>2. CASE s # 0
  <2>1. PICK status \in outcomes : SetStatus(s, status)
    BY <1>2 DEF Fail
  <2>2. s \in DOMAIN sessions /\ status \in Statuses
    BY <1>2, <2>1 DEF TypeOK, Statuses
  <2>3. /\ sessions'[s].status = status
        /\ \A t \in DOMAIN sessions \ {s} : sessions'[t] = sessions[t]
    BY <2>1, <2>2, StatusKept
  <2> QED BY <2>1, <2>3 DEF OnlyCloses
<1> QED BY <1>1, <1>2

LEMMA SupersededCloses ==
  ASSUME IInv, NEW i \in Running \ {newest},
         AnswerStart(i) \/ AnswerRecover(i) \/ Continue(i)
  PROVE  OnlyCloses
<1>1. /\ TypeOK /\ i \in Slots /\ ops[i].canceled
      /\ ops[i].at \notin {"advised", "asked"}
      /\ active \in 0 .. Len(sessions) /\ ops[i].session \in 0 .. Len(sessions)
  BY Hold DEF IInv, ScopeSound, Running, TypeOK
<1>2. /\ Thrown(i, "error") \subseteq {"canceled", "error", "recovery-error"}
      /\ Thrown(i, "recovery-error") \subseteq {"canceled", "error", "recovery-error"}
  BY DEF Thrown
<1>3. CASE AnswerStart(i) \/ AnswerRecover(i)
  BY <1>1, <1>3 DEF AnswerStart, AnswerRecover
<1>4. CASE CreateSession(i)
  BY <1>1, <1>4 DEF CreateSession, OnlyCloses, window
<1>5. CASE MakeReady(i)
  BY <1>1, <1>2, <1>5, FailCloses DEF MakeReady, window
<1>6. CASE ShowStored(i)
  BY <1>1, <1>2, <1>6, FailCloses DEF ShowStored, window
<1>7. CASE EndPreview(i)
  <2>1. UNCHANGED <<active, rows, destination>>
    BY <1>7 DEF EndPreview, window
  <2>2. CASE UNCHANGED <<sessions, latest>>
    BY <2>1, <2>2 DEF OnlyCloses
  <2>3. CASE Fail(i, ops[i].session, {"error"})
    BY <1>1, <2>1, <2>3, FailCloses
  <2> QED BY <1>7, <2>2, <2>3 DEF EndPreview
<1>8. CASE Report(i)
  BY <1>1, <1>2, <1>8, FailCloses DEF Report, window
<1>9. CASE Acquired(i) \/ ListImage(i) \/ Close(i)
  BY <1>9 DEF Acquired, ListImage, Close, OnlyCloses, window, work
<1> QED
  BY <1>3, <1>4, <1>5, <1>6, <1>7, <1>8, <1>9 DEF Continue

\* An operation that is not the newest one any more only closes: it changes
\* neither the active session nor the rows nor the destination, and records
\* nothing but a cancelation or an error (StartOperationScope).
THEOREM SupersededCorrect == Spec => SupersededOnlyClose
<1>1. ASSUME IInv, [Next]_vars, NEW i \in Running \ {newest}, ops'[i].at # ops[i].at
      PROVE  OnlyCloses
  <2>1. i \in Slots
    BY <1>1 DEF Running
  <2>2. CASE User
    BY <1>1, <2>2, UserLeaves
  <2>3. CASE \E k \in Slots : AnswerStart(k) \/ AnswerRecover(k) \/ Continue(k)
    <3>1. PICK k \in Slots : AnswerStart(k) \/ AnswerRecover(k) \/ Continue(k)
      BY <2>3
    <3>2. k = i
      BY <1>1, <2>1, <3>1, OthersLeave
    <3> QED BY <1>1, <3>1, <3>2, SupersededCloses
  <2>4. CASE UNCHANGED vars
    BY <1>1, <2>4 DEF vars, scope
  <2> QED BY <1>1, <2>2, <2>3, <2>4 DEF Next
<1>2. IInv /\ [Next]_vars =>
        [\A i \in Running \ {newest} :
           ops'[i].at # ops[i].at =>
             /\ UNCHANGED <<active, rows, destination>>
             /\ \A s \in DOMAIN sessions :
                  sessions'[s].status # sessions[s].status =>
                    sessions'[s].status \in {"canceled", "error", "recovery-error"}]_vars
  BY <1>1 DEF OnlyCloses
<1> QED BY <1>2, Invariance, PTL DEF Spec, SupersededOnlyClose

\* The states of CancelStops: they have their types, and no start leaves the
\* session it has created "initialized", so that when the start has ended an
\* outcome is recorded (StartSessionButton_Click and its handlers).
THEOREM StartsSettle == Spec => [](TypeOK /\ StartIsSettled)
<1>1. IInv => TypeOK /\ StartIsSettled
  BY DEF IInv, OutcomesSound, StartIsSettled, Running
<1> QED BY <1>1, Invariance, PTL
=============================================================================
