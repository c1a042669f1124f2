----------------------------- MODULE MainWindow -----------------------------
(***************************************************************************)
(* The operations of the main window: starting a session, recovering the   *)
(* selected candidates and acquiring an image, each an async handler on    *)
(* the UI thread.  A handler runs without interruption from one await that *)
(* really yields to the next; there the user may start another operation,  *)
(* and the continuations of the older ones go on in any order.  The window *)
(* has one cancellation source for all operations: starting one cancels    *)
(* the operation that owns it.                                             *)
(*                                                                         *)
(* Calls of the session store end before they yield and throw when their   *)
(* token is canceled; log writes, the custody hash, the preview and the    *)
(* acquisition yield.  While a question is on the screen no button of the  *)
(* window can be clicked.                                                  *)
(***************************************************************************)
EXTENDS Naturals, Sequences

CONSTANTS
  Disks,          \* the sources the window lists from the start
  Images,         \* the images an acquisition may produce
  Volumes,        \* the volumes a destination may be on
  VolumeOf,       \* the volume each source is on
  None,           \* no source, no rows
  MaxRunning,     \* bound: operations that run at the same time
  MaxSessions     \* bound: sessions created

Sources == Disks \cup Images

ASSUME WindowAssumption ==
  /\ VolumeOf \in [Sources -> Volumes]
  /\ None \notin Sources
  /\ MaxRunning \in Nat /\ MaxSessions \in Nat

VARIABLES
  listed,       \* _sources
  selected,     \* _selectedSource
  destination,  \* DestinationPathTextBox: the volume its path is on
  rows,         \* _quickScanCandidates: the source they were found on
  active,       \* _activeSessionId, 0 for none
  sessions,     \* the session store, in the order of creation
  latest,       \* the session updated last
  ops,          \* the operations that run, each in a slot of its own
  newest,       \* history: the slot of the operation started last
  current,      \* _operationCts: the operation that owns it, 0 for none
  preview       \* _previewReadCts: the operation that reads with it

window  == <<listed, selected, destination>>
work    == <<rows, active, sessions, latest>>
scope   == <<ops, newest, current, preview>>
vars    == <<window, work, scope>>

-----------------------------------------------------------------------------
Steps == {"advised", "custody", "logs", "stored", "preview",    \* a session start
          "asked", "report", "reporting",                     \* a recovery
          "acquiring", "building",                            \* an acquisition
          "closing", "ended"}

Statuses == {"initialized", "ready", "recovering", "canceled", "error",
             "recovery-error"}

\* An operation: its step, the source it scans or recovers from, the volume it
\* recovers to, the session it has created, and whether its token and that of its
\* preview are canceled.  "told" is history: Cancel was clicked while it ran.
Operation(step, source, to) ==
  [at |-> step, source |-> source, to |-> to, session |-> 0,
   canceled |-> FALSE, quiet |-> FALSE, told |-> FALSE]

Ended == Operation("ended", None, None)

Slots   == 1 .. MaxRunning
Running == {i \in Slots : ops[i].at # "ended"}
Asking  == \E i \in Running : ops[i].at \in {"advised", "asked"}
CanStart == ~Asking /\ Running # Slots
FreeSlot == CHOOSE i \in Slots : i \notin Running

Init ==
  /\ listed = Disks /\ selected \in Disks /\ destination \in Volumes
  /\ rows = None /\ active = 0 /\ sessions = <<>> /\ latest = 0
  /\ ops = [i \in Slots |-> Ended]
  /\ newest = 0 /\ current = 0 /\ preview = 0

-----------------------------------------------------------------------------
\* mutant of StartScope: the older operation is left alone.
StartBeside(op, owner) ==
  /\ ops' = [ops EXCEPT ![FreeSlot] = op]
  /\ newest' = FreeSlot
  /\ current' = owner

\* The owner of the cancellation source is canceled and the new operation
\* becomes its owner.
StartScope(op, owner) ==
  /\ ops' = [i \in Slots |->
       IF i = FreeSlot THEN op
       ELSE IF i = current /\ i \in Running
            THEN [ops[i] EXCEPT !.canceled = TRUE] ELSE ops[i]]
  /\ newest' = FreeSlot
  /\ current' = owner

Run(op) == StartScope(op, FreeSlot)

\* An operation gives up the source only while it is its own.
Released(i) == IF current = i THEN 0 ELSE current

At(i, step) ==
  /\ ops' = [ops EXCEPT ![i].at = step]
  /\ UNCHANGED <<newest, current>>

End(i) ==
  /\ ops' = [ops EXCEPT ![i] = Ended]
  /\ current' = Released(i)
  /\ UNCHANGED newest

SetStatus(s, status) ==
  /\ sessions' = [sessions EXCEPT ![s].status = status]
  /\ latest' = s

\* What the handlers do with an exception: the outcome is recorded under the
\* session s, if there is one, and a log write follows.
Fail(i, s, outcomes) ==
  IF s = 0 THEN End(i) /\ UNCHANGED <<sessions, latest>>
  ELSE At(i, "closing") /\ \E status \in outcomes : SetStatus(s, status)

\* A call with the token of the operation throws when that is canceled; a log
\* write may fail in any case.
Thrown(i, error) == IF ops[i].canceled THEN {"canceled", error} ELSE {error}

-----------------------------------------------------------------------------
\* The scan of the source runs on the UI thread and fills the rows, if it
\* finds any; the custody log is hashed next.
Scan(source) == rows' \in {None, source}

\* Start: the rows are cleared, the source and the destination are checked.
\* A start that is blocked keeps the cancellation source.
StartSession ==
  /\ CanStart /\ Len(sessions) < MaxSessions
  /\ \/ /\ Run(Ended)
        /\ rows' = None
     \/ /\ selected # None /\ VolumeOf[selected] # destination
        /\ \/ /\ selected \in Images
              /\ Run(Operation("custody", selected, None))
              /\ Scan(selected)
           \/ /\ selected \in Disks
              /\ Run(Operation("advised", selected, None))
              /\ rows' = None
  /\ UNCHANGED <<window, active, sessions, latest, preview>>

\* The answer to the advice to acquire an image first; the scan may be given up.
AnswerStart(i) ==
  /\ ops[i].at = "advised"
  /\ \/ /\ ops' = [ops EXCEPT ![i] = Ended]
        /\ UNCHANGED <<newest, current, rows>>
     \/ At(i, "custody") /\ Scan(ops[i].source)
     \/ End(i) /\ Scan(ops[i].source)
  /\ UNCHANGED <<window, active, sessions, latest, preview>>

\* The session is created for the destination the box shows now.
CreateSession(i) ==
  /\ ops[i].at = "custody"
  /\ \/ /\ ~ops[i].canceled
        /\ sessions' = Append(sessions,
             [status |-> "initialized", source |-> ops[i].source,
              destination |-> destination, rows |-> None])
        /\ active' = Len(sessions) + 1
        /\ latest' = Len(sessions) + 1
        /\ ops' = [ops EXCEPT ![i] =
             [@ EXCEPT !.at = "logs", !.source = None, !.session = Len(sessions) + 1]]
        /\ UNCHANGED <<newest, current>>
     \/ End(i) /\ UNCHANGED <<active, sessions, latest>>
  /\ UNCHANGED <<window, rows, preview>>

\* The preview of a session replaces the one that still reads.
BeginPreview(i) ==
  /\ ops' = [j \in Slots |->
       IF j = i THEN [ops[j] EXCEPT !.at = "preview"]
       ELSE IF j = preview /\ ops[j].at = "preview"
            THEN [ops[j] EXCEPT !.quiet = TRUE] ELSE ops[j]]
  /\ preview' = i
  /\ UNCHANGED <<newest, current>>

\* Without the native engine no preview is read.
Preview(i) == BeginPreview(i) \/ (End(i) /\ UNCHANGED preview)

\* The session is ready, and the rows the window shows now are its candidates.
MakeReady(i) ==
  LET s == ops[i].session IN
  /\ ops[i].at = "logs"
  /\ \/ /\ ~ops[i].canceled
        /\ sessions' = [sessions EXCEPT ![s].status = "ready", ![s].rows = rows]
        /\ latest' = s
        /\ IF rows = None THEN Preview(i) ELSE At(i, "stored") /\ UNCHANGED preview
     \/ Fail(i, s, Thrown(i, "error")) /\ UNCHANGED preview
  /\ UNCHANGED <<window, rows, active>>

ShowStored(i) ==
  /\ ops[i].at = "stored"
  /\ \/ /\ ~ops[i].canceled
        /\ rows' = sessions[ops[i].session].rows
        /\ Preview(i)
        /\ UNCHANGED <<sessions, latest>>
     \/ /\ Fail(i, ops[i].session, Thrown(i, "error"))
        /\ UNCHANGED <<rows, preview>>
  /\ UNCHANGED <<window, active>>

\* The token of the operation is not the token of its preview.
EndPreview(i) ==
  /\ ops[i].at = "preview"
  /\ \/ End(i) /\ UNCHANGED <<sessions, latest>>
     \/ Fail(i, ops[i].session, {"error"})
  /\ UNCHANGED <<window, rows, active, preview>>

-----------------------------------------------------------------------------
\* Recover: the source and the destination are read before the question.
Recover ==
  /\ CanStart
  /\ \/ StartScope(Ended, 0)
     \/ /\ rows # None /\ selected # None
        /\ Run(Operation("asked", selected, destination))
  /\ UNCHANGED <<window, work, preview>>

\* The files are read and written in one go, and nothing checks the volumes.
\* With no session active nothing is recorded and the operation ends.
AnswerRecover(i) ==
  /\ ops[i].at = "asked"
  /\ \/ End(i) /\ UNCHANGED <<sessions, latest>>
     \/ active # 0 /\ At(i, "report") /\ SetStatus(active, "recovering")
     \/ Fail(i, active, {"recovery-error"})
  /\ UNCHANGED <<window, rows, active, preview>>

\* The outcome is recorded under the session that is active now.
Report(i) ==
  /\ ops[i].at = "report"
  /\ \/ ~ops[i].canceled /\ SetStatus(active, "ready") /\ At(i, "reporting")
     \/ Fail(i, active, Thrown(i, "recovery-error"))
  /\ UNCHANGED <<window, rows, active, preview>>

-----------------------------------------------------------------------------
Acquire ==
  /\ CanStart /\ selected # None
  /\ \/ Run(Operation("acquiring", None, None))
     \/ StartScope(Ended, 0)
  /\ UNCHANGED <<window, work, preview>>

Acquired(i) ==
  /\ ops[i].at = "acquiring"
  /\ \/ ~ops[i].canceled /\ At(i, "building")
     \/ End(i)
  /\ UNCHANGED <<window, work, preview>>

\* The description of the image is built on another thread, which looks at the
\* token when it starts; the image is then listed and selected.
ListImage(i) ==
  /\ ops[i].at = "building"
  /\ \E image \in Images :
       \/ listed' = listed \cup {image} /\ selected' = image
       \/ UNCHANGED <<listed, selected>>
  /\ End(i)
  /\ UNCHANGED <<destination, work, preview>>

-----------------------------------------------------------------------------
\* The log writes that end an operation.
Close(i) ==
  /\ ops[i].at \in {"closing", "reporting"}
  /\ End(i)
  /\ UNCHANGED <<window, work, preview>>

\* mutant of Cancel: the preview is taken to run with the operation's token.
CancelScopeOnly ==
  /\ ~Asking
  /\ \E i \in Running : ~ops[i].told
  /\ ops' = [i \in Slots |->
       IF i \notin Running THEN ops[i]
       ELSE [ops[i] EXCEPT !.canceled = @ \/ i = current, !.told = TRUE]]
  /\ UNCHANGED <<newest, current, preview>>
  /\ UNCHANGED <<window, work>>

\* Cancel: the preview and the operation, whichever run.
Cancel ==
  /\ ~Asking
  /\ \E i \in Running : ~ops[i].told
  /\ ops' = [i \in Slots |->
       IF i \notin Running THEN ops[i]
       ELSE [ops[i] EXCEPT !.canceled = @ \/ i = current,
                           !.quiet = @ \/ (i = preview /\ ops[i].at = "preview"),
                           !.told = TRUE]]
  /\ UNCHANGED <<newest, current, preview>>
  /\ UNCHANGED <<window, work>>

\* The user selects a source (or the list is filled anew: none) or types.
Select ==
  /\ ~Asking
  /\ selected' \in (listed \cup {None}) \ {selected}
  /\ UNCHANGED <<listed, destination, work, scope>>

Type ==
  /\ ~Asking
  /\ destination' \in Volumes \ {destination}
  /\ UNCHANGED <<listed, selected, work, scope>>

\* Resume: the session updated last, its destination, source and candidates.
Resume ==
  /\ ~Asking /\ latest # 0
  /\ active' = latest
  /\ destination' = sessions[latest].destination
  /\ selected' = IF sessions[latest].source \in listed
                 THEN sessions[latest].source ELSE selected
  /\ rows' = sessions[latest].rows
  /\ UNCHANGED <<listed, sessions, latest, scope>>

-----------------------------------------------------------------------------
Continue(i) ==
  \/ CreateSession(i) \/ MakeReady(i) \/ ShowStored(i) \/ EndPreview(i)
  \/ Report(i) \/ Acquired(i) \/ ListImage(i) \/ Close(i)

User ==
  StartSession \/ Recover \/ Acquire \/ Cancel \/ Select \/ Type \/ Resume

Next ==
  \/ User
  \/ \E i \in Slots : AnswerStart(i)
  \/ \E i \in Slots : AnswerRecover(i)
  \/ \E i \in Slots : Continue(i)

\* A preview and an acquisition may read for ever unless they are canceled;
\* every other await ends.
Patient(i) ==
  /\ i \in Running
  /\ ops[i].at = "preview" => ops[i].quiet
  /\ ops[i].at = "acquiring" => ops[i].canceled
  /\ Continue(i)

Fairness == \A i \in Slots : WF_vars(Patient(i))

Spec == Init /\ [][Next]_vars /\ Fairness

-----------------------------------------------------------------------------
Operations ==
  [at: Steps, source: Sources \cup {None}, to: Volumes \cup {None}, session: Nat,
   canceled: BOOLEAN, quiet: BOOLEAN, told: BOOLEAN]

Records ==
  [status: Statuses, source: Sources, destination: Volumes, rows: Sources \cup {None}]

\* The types, and what they hang on: every id names a session that exists.
TypeOK ==
  /\ listed \subseteq Sources /\ selected \in Sources \cup {None}
  /\ destination \in Volumes /\ rows \in Sources \cup {None}
  /\ sessions \in Seq(Records)
  /\ active \in 0 .. Len(sessions) /\ latest \in 0 .. Len(sessions)
  /\ ops \in [Slots -> Operations]
  /\ \A i \in Slots : ops[i].session <= Len(sessions)
  /\ {newest, current, preview} \subseteq 0 .. MaxRunning

\* An operation that is not the newest one any more only closes: whatever it
\* was waiting for, it leaves the active session, the rows and the destination
\* to the newer operation, and records nothing but a cancelation or an error.
SupersededOnlyClose ==
  [][\A i \in Running \ {newest} :
       ops'[i].at # ops[i].at =>
         /\ UNCHANGED <<active, rows, destination>>
         /\ \A s \in DOMAIN sessions :
              sessions'[s].status # sessions[s].status =>
                sessions'[s].status \in {"canceled", "error", "recovery-error"}
    ]_vars

Told == {i \in Running : ops[i].told}

\* A session does not stay "initialized" when the start that created it has
\* ended: it is ready by then, canceled, or marked with the error.
StartIsSettled ==
  \A s \in DOMAIN sessions : sessions[s].status = "initialized" =>
    \E i \in Running : ops[i].session = s

\* Cancel reaches everything that runs, the operations a newer one has
\* superseded and the previews of older ones included: all of it ends, and no
\* start leaves its session without an outcome.
CancelStops ==
  /\ [](TypeOK /\ StartIsSettled)
  /\ \A i \in Slots : i \in Told ~> i \notin Told

\* src/docs/recovery-pipeline.md:55 "Enforce destination separation again before
\* writes.": no recovery writes to the volume it reads from.
RecoverySeparated ==
  \A i \in Running :
    ops[i].at \in {"report", "reporting"} => VolumeOf[ops[i].source] # ops[i].to

\* src/docs/user-safety.md:20 "Session status/error propagation persisted for
\* cancellation and failure outcomes.": when nothing runs, no session is
\* recorded as recovering.
StatusIsSettled ==
  Running = {} => \A s \in DOMAIN sessions : sessions[s].status # "recovering"
=============================================================================
