--------------------------- MODULE EngineSessions ---------------------------
(***************************************************************************)
(* The session registry of fr-ffi: read sessions and virtual RAID sessions *)
(* in two process-wide tables, each behind a mutex of its own, used by any *)
(* number of threads through the C ABI.  A call takes and releases the     *)
(* locks one after the other, so other calls run between its critical      *)
(* sections; each critical section is one step here.                       *)
(*                                                                         *)
(* A virtual RAID session reads an artifact file in the temporary          *)
(* directory, which must live exactly as long as the session does.  What   *)
(* the assembly writes into it is the subject of RaidAssembly.             *)
(***************************************************************************)
EXTENDS Naturals, FiniteSets, Sequences

CONSTANTS
  Callers,      \* the threads that call the engine
  MemberLists,  \* the lists of session ids passed to open a virtual session
  MaxSessions,  \* bound: session ids handed out by one process
  MaxArtifacts, \* bound: artifact files ever named
  NoArtifact    \* the session of a source; no artifact in hand

ASSUME RegistryAssumption ==
  /\ MaxSessions \in Nat
  /\ MaxArtifacts \in Nat
  /\ NoArtifact \notin Nat
  /\ MemberLists \subseteq Seq(Nat)

VARIABLES
  sessions,      \* read_sessions(): the artifact an open session reads, if any
  virtuals,      \* virtual_raid_sessions(): the artifact of a virtual session
  nextSession,   \* NEXT_SESSION_ID
  nextArtifact,  \* a new artifact path: the time and a sequence number
  files,         \* the artifact files that exist
  abandoned,     \* history: those of processes that have ended
  known,         \* history: the ids that opening calls have returned
  closed,        \* history: how often closing each id has returned 0
  call           \* the call each thread is in

tables  == <<sessions, virtuals>>
names   == <<nextSession, nextArtifact>>
history == <<abandoned, known, closed>>
vars    == <<tables, names, files, history, call>>

-----------------------------------------------------------------------------
Ids       == 1 .. MaxSessions
Artifacts == 1 .. MaxArtifacts
MaybeArtifact == Artifacts \cup {NoArtifact}

\* A call: where it is, the id it is about, the artifact it has in hand, the
\* members of the array it opens, and whether its own close removed the session.
Idle == [pc |-> "idle", id |-> 0, artifact |-> NoArtifact, members |-> <<>>,
         removed |-> FALSE]

Points ==
  {"idle", "insertSource",
   "assemble", "openArtifact", "insertRead", "insertMeta",
   "closeMeta", "closeVirtual", "closeVirtualMeta", "closeVirtualEnd"}

At(c, point) == call[c].pc = point

\* HashMap::remove and insert.
Untouched(table, id) == table             \* mutant of Without
Without(table, id) == [i \in DOMAIN table \ {id} |-> table[i]]
WithEntry(table, id, artifact) ==
  [i \in DOMAIN table \cup {id} |-> IF i = id THEN artifact ELSE table[i]]

\* fetch_add returns the counter's value before it counts.
AddedFirst == nextSession + 1             \* mutants of FreshId
FirstFree == Cardinality(DOMAIN sessions) + 1
FreshId == nextSession

\* fs::remove_file.
StillThere(artifact) == files             \* mutant of FilesWithout
FilesWithout(artifact) == files \ {artifact}

\* A thread's call goes on at another point, or returns.
GoOn(c, point) == call' = [call EXCEPT ![c].pc = point]
Return(c)      == call' = [call EXCEPT ![c] = Idle]

Init ==
  /\ sessions = <<>>
  /\ virtuals = <<>>
  /\ nextSession = 1
  /\ nextArtifact = 1
  /\ files = {}
  /\ abandoned = {}
  /\ known = {}
  /\ closed = [id \in Ids |-> 0]
  /\ call = [c \in Callers |-> Idle]

-----------------------------------------------------------------------------
(* fr_open_source_session_readonly *)

\* The source is open and the session has an id.  A source that cannot be
\* opened changes nothing.
OpenSource(c) ==
  /\ At(c, "idle")
  /\ nextSession <= MaxSessions
  /\ call' = [call EXCEPT ![c].pc = "insertSource", ![c].id = FreshId]
  /\ nextSession' = nextSession + 1
  /\ UNCHANGED <<tables, nextArtifact, files, history>>

InsertSource(c) ==
  /\ At(c, "insertSource")
  /\ sessions' = WithEntry(sessions, call[c].id, NoArtifact)
  /\ known' = known \cup {call[c].id}
  /\ Return(c)
  /\ UNCHANGED <<virtuals, names, files, abandoned, closed>>

-----------------------------------------------------------------------------
(* fr_open_virtual_raid_session *)

\* Two or more distinct members, and a layout found on one of them: the search
\* stops at the first, so only the members up to it need be open.
OpenVirtual(c, members) ==
  /\ At(c, "idle")
  /\ Len(members) >= 2
  /\ \A i, j \in DOMAIN members : members[i] = members[j] => i = j
  /\ members[1] \in DOMAIN sessions
  /\ nextArtifact <= MaxArtifacts
  /\ call' = [call EXCEPT ![c].pc = "assemble", ![c].members = members,
                         ![c].artifact = nextArtifact]
  /\ nextArtifact' = nextArtifact + 1
  /\ UNCHANGED <<tables, nextSession, files, history>>

AllMembersOpen(c) ==
  \A i \in DOMAIN call[c].members : call[c].members[i] \in DOMAIN sessions

\* The members are looked up again under a new lock and copied.
Assemble(c) ==
  /\ At(c, "assemble")
  /\ AllMembersOpen(c)
  /\ files' = files \cup {call[c].artifact}
  /\ GoOn(c, "openArtifact")
  /\ UNCHANGED <<tables, names, history>>

\* A member is gone (20), or the copy fails: what was written is removed.
AssembleFails(c) ==
  /\ At(c, "assemble")
  /\ files' = FilesWithout(call[c].artifact)
  /\ Return(c)
  /\ UNCHANGED <<tables, names, history>>

OpenArtifact(c) ==
  /\ At(c, "openArtifact")
  /\ nextSession <= MaxSessions
  /\ call' = [call EXCEPT ![c].pc = "insertRead", ![c].id = FreshId]
  /\ nextSession' = nextSession + 1
  /\ UNCHANGED <<tables, nextArtifact, files, history>>

OpenArtifactFails(c) ==
  /\ At(c, "openArtifact")
  /\ files' = FilesWithout(call[c].artifact)
  /\ Return(c)
  /\ UNCHANGED <<tables, names, history>>

\* The session is in the first table before its artifact is in the second.
InsertRead(c) ==
  /\ At(c, "insertRead")
  /\ sessions' = WithEntry(sessions, call[c].id, call[c].artifact)
  /\ GoOn(c, "insertMeta")
  /\ UNCHANGED <<virtuals, names, files, history>>

InsertMeta(c) ==
  /\ At(c, "insertMeta")
  /\ virtuals' = WithEntry(virtuals, call[c].id, call[c].artifact)
  /\ known' = known \cup {call[c].id}
  /\ Return(c)
  /\ UNCHANGED <<sessions, names, files, abandoned, closed>>

-----------------------------------------------------------------------------
(* fr_close_source_session, which also closes virtual sessions *)

RemovedAnyway(id) == TRUE                 \* mutant of IsOpen
IsOpen(id) == id \in DOMAIN sessions

\* Whoever removes the session returns 0; to everyone else it is unknown (20),
\* and the call changes nothing.
CloseSource(c, id) ==
  /\ At(c, "idle")
  /\ IsOpen(id)
  /\ sessions' = Without(sessions, id)
  /\ call' = [call EXCEPT ![c].pc = "closeMeta", ![c].id = id,
                         ![c].removed = TRUE]
  /\ UNCHANGED <<virtuals, names, files, history>>

\* The second half: if the session was a virtual one its artifact goes, too.
RemoveMeta(id) ==
  /\ virtuals' = Without(virtuals, id)
  /\ files' = IF id \in DOMAIN virtuals THEN FilesWithout(virtuals[id])
              ELSE files

CloseMeta(c) ==
  /\ At(c, "closeMeta")
  /\ RemoveMeta(call[c].id)
  /\ closed' = [closed EXCEPT ![call[c].id] = @ + 1]
  /\ Return(c)
  /\ UNCHANGED <<sessions, names, abandoned, known>>

-----------------------------------------------------------------------------
(* fr_close_virtual_raid_session *)

\* The metadata is copied out; an id that has none is unknown (20).
CloseVirtual(c, id) ==
  /\ At(c, "idle")
  /\ id \in DOMAIN virtuals
  /\ call' = [call EXCEPT ![c].pc = "closeVirtual", ![c].id = id,
                         ![c].artifact = virtuals[id]]
  /\ UNCHANGED <<tables, names, files, history>>

\* It then closes the session like any other and goes on when somebody else
\* has closed it.
CloseVirtualRead(c) ==
  /\ At(c, "closeVirtual")
  /\ call' = [call EXCEPT ![c].pc = IF IsOpen(call[c].id)
                                    THEN "closeVirtualMeta"
                                    ELSE "closeVirtualEnd",
                         ![c].removed = IsOpen(call[c].id)]
  /\ sessions' = Without(sessions, call[c].id)
  /\ UNCHANGED <<virtuals, names, files, history>>

CloseVirtualMeta(c) ==
  /\ At(c, "closeVirtualMeta")
  /\ RemoveMeta(call[c].id)
  /\ GoOn(c, "closeVirtualEnd")
  /\ UNCHANGED <<sessions, names, history>>

\* The metadata and the artifact are removed once more, whoever was first.
CloseVirtualEnd(c) ==
  /\ At(c, "closeVirtualEnd")
  /\ virtuals' = Without(virtuals, call[c].id)
  /\ files' = FilesWithout(call[c].artifact)
  /\ closed' = IF call[c].removed
               THEN [closed EXCEPT ![call[c].id] = @ + 1] ELSE closed
  /\ Return(c)
  /\ UNCHANGED <<sessions, names, abandoned, known>>

-----------------------------------------------------------------------------
\* The process ends, in the middle of any call: the tables and counters are
\* gone, the artifact files stay, and no later process looks for them.
ProcessEnds ==
  /\ sessions' = <<>>
  /\ virtuals' = <<>>
  /\ nextSession' = 1
  /\ abandoned' = files
  /\ known' = {}
  /\ closed' = [id \in Ids |-> 0]
  /\ call' = [c \in Callers |-> Idle]
  /\ UNCHANGED <<nextArtifact, files>>

Next ==
  \/ \E c \in Callers :
       \/ OpenSource(c) \/ InsertSource(c)
       \/ \E members \in MemberLists :
            /\ \A i \in DOMAIN members : members[i] \in known
            /\ OpenVirtual(c, members)
       \/ Assemble(c) \/ AssembleFails(c)
       \/ OpenArtifact(c) \/ OpenArtifactFails(c)
       \/ InsertRead(c) \/ InsertMeta(c)
       \/ \E id \in known : CloseSource(c, id) \/ CloseVirtual(c, id)
       \/ CloseMeta(c)
       \/ CloseVirtualRead(c) \/ CloseVirtualMeta(c) \/ CloseVirtualEnd(c)
  \/ ProcessEnds

Spec == Init /\ [][Next]_vars

-----------------------------------------------------------------------------
(* Properties *)

Call ==
  [pc : Points, id : 0 .. MaxSessions, artifact : MaybeArtifact,
   members : MemberLists \cup {<<>>}, removed : BOOLEAN]

\* Every variable keeps to its set of values.
TypeOK ==
  /\ DOMAIN sessions \subseteq Ids
  /\ \A id \in DOMAIN sessions : sessions[id] \in MaybeArtifact
  /\ DOMAIN virtuals \subseteq Ids
  /\ \A id \in DOMAIN virtuals : virtuals[id] \in Artifacts
  /\ nextSession \in 1 .. MaxSessions + 1
  /\ nextArtifact \in 1 .. MaxArtifacts + 1
  /\ files \subseteq Artifacts
  /\ abandoned \subseteq files
  /\ known \subseteq Ids
  /\ closed \in [Ids -> Nat]
  /\ call \in [Callers -> Call]

\* An open session's artifact is never deleted under it: it exists as long as
\* any caller can read through the session, whoever closes whatever meanwhile.
OpenIsBacked ==
  \A id \in DOMAIN sessions : sessions[id] # NoArtifact => sessions[id] \in files

\* An artifact of an open virtual session, or one that a call which has not
\* returned will still take care of.
InUse(a) == \E id \in DOMAIN virtuals \cap DOMAIN sessions : virtuals[id] = a
InHand(c, a) ==
  \/ call[c].artifact = a
  \/ /\ call[c].pc = "closeMeta"
     /\ call[c].id \in DOMAIN virtuals
     /\ virtuals[call[c].id] = a

\* No artifact of the running process is forgotten: two closes of the same
\* session, by either function, do not lose it.
NothingLeaks ==
  \A a \in files \ abandoned : InUse(a) \/ \E c \in Callers : InHand(c, a)

\* Of all the closes of a session, by both functions and from any thread, one
\* returns 0: a session that has been handed out is open, or one close has
\* succeeded, or that close is still on its way.
Removing(id) == {c \in Callers : call[c].id = id /\ call[c].removed}

ClosedOnce ==
  \A id \in known :
    closed[id] + Cardinality(Removing(id)) = IF id \in DOMAIN sessions THEN 0
                                                                       ELSE 1

\* An id that has been closed never names a session again.
NeverReopened ==
  [][\A id \in known \cap known' :
       id \notin DOMAIN sessions => id \notin DOMAIN sessions']_vars
=============================================================================
