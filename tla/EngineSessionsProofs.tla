------------------------ MODULE EngineSessionsProofs ------------------------
(***************************************************************************)
(* Proofs about EngineSessions: for every number of threads, sessions and  *)
(* artifacts, and however their calls interleave, an open session keeps    *)
(* its artifact and no artifact of the running process is forgotten.       *)
(***************************************************************************)
EXTENDS EngineSessions, FiniteSetTheorems, TLAPS

-----------------------------------------------------------------------------
(* The inductive invariant *)

Pending  == {"insertSource", "insertRead", "insertMeta"}
Building == {"assemble", "openArtifact", "insertRead", "insertMeta"}
ClosingVirtual == {"closeVirtual", "closeVirtualMeta", "closeVirtualEnd"}
Closing  == ClosingVirtual \cup {"closeMeta"}

\* A fresh id belongs to one call until it is handed out, and to the tables
\* from then on; closes are about ids that were handed out.
IdsSound ==
  /\ known \subseteq 1 .. nextSession - 1
  /\ DOMAIN sessions \subseteq 1 .. nextSession - 1
  /\ DOMAIN virtuals \subseteq known
  /\ \A c \in Callers :
       call[c].pc \in Pending =>
         call[c].id \in 1 .. nextSession - 1 /\ call[c].id \notin known
  /\ \A c \in Callers :
       call[c].pc \in {"insertSource", "insertRead"} =>
         call[c].id \notin DOMAIN sessions
  /\ \A c, d \in Callers :
       call[c].pc \in Pending /\ call[d].pc \in Pending
         /\ call[c].id = call[d].id => c = d
  /\ \A c \in Callers : call[c].pc \in Closing => call[c].id \in known
  /\ \A c \in Callers :
       call[c].pc \in Closing \ {"closeVirtual"} =>
         call[c].id \notin DOMAIN sessions

\* Every artifact in use has been named, is not one of an earlier process, and
\* exists while its call is opening it.
ArtifactsSound ==
  /\ files \subseteq 1 .. nextArtifact - 1
  /\ \A id \in DOMAIN sessions :
       sessions[id] # NoArtifact =>
         sessions[id] < nextArtifact /\ sessions[id] \notin abandoned
  /\ \A id \in DOMAIN virtuals :
       virtuals[id] < nextArtifact /\ virtuals[id] \notin abandoned
  /\ \A c \in Callers :
       call[c].pc \notin Building \cup ClosingVirtual =>
         call[c].artifact = NoArtifact
  /\ \A c \in Callers :
       call[c].pc \in Building \cup ClosingVirtual =>
         /\ call[c].artifact \in 1 .. nextArtifact - 1
         /\ call[c].artifact \notin abandoned
  /\ \A c \in Callers :
       call[c].pc \in {"openArtifact", "insertRead", "insertMeta"} =>
         call[c].artifact \in files

\* An artifact belongs to one session, or to the one call that is opening it.
OneOwner ==
  /\ \A i, j \in DOMAIN sessions :
       sessions[i] = sessions[j] /\ sessions[i] # NoArtifact => i = j
  /\ \A i, j \in DOMAIN virtuals : virtuals[i] = virtuals[j] => i = j
  /\ \A i \in DOMAIN sessions, j \in DOMAIN virtuals :
       sessions[i] = virtuals[j] => i = j
  /\ \A c, d \in Callers :
       call[c].pc \in Building /\ call[c].artifact = call[d].artifact => c = d
  /\ \A c \in Callers, i \in DOMAIN virtuals :
       call[c].pc \in Building => virtuals[i] # call[c].artifact
  /\ \A c \in Callers, i \in DOMAIN sessions :
       call[c].pc \in Building /\ sessions[i] = call[c].artifact =>
         call[c].pc = "insertMeta" /\ i = call[c].id
  /\ \A c \in Callers :
       call[c].pc = "insertMeta" =>
         /\ call[c].id \in DOMAIN sessions
         /\ sessions[call[c].id] = call[c].artifact

\* A call that closes a virtual session has that session's artifact in hand.
CloserHolds ==
  /\ \A c \in Callers, i \in DOMAIN virtuals :
       call[c].pc \in ClosingVirtual =>
         (virtuals[i] = call[c].artifact <=> i = call[c].id)
  /\ \A c \in Callers, i \in DOMAIN sessions :
       call[c].pc \in ClosingVirtual /\ sessions[i] = call[c].artifact =>
         i = call[c].id
  /\ \A c, d \in Callers :
       call[c].pc \in ClosingVirtual /\ call[d].pc \in ClosingVirtual
         /\ call[c].artifact = call[d].artifact => call[c].id = call[d].id

\* Who has removed a session, and what its closes have returned.
OneClose ==
  /\ \A c \in Callers : call[c].removed => call[c].pc \in Closing
  /\ \A c \in Callers :
       call[c].removed => call[c].pc # "closeVirtual"
  /\ \A c \in Callers :
       call[c].pc \in {"closeMeta", "closeVirtualMeta"} => call[c].removed
  /\ \A c, d \in Callers :
       call[c].removed /\ call[d].removed /\ call[c].id = call[d].id => c = d
  /\ \A c \in Callers :
       call[c].removed => closed[call[c].id] = 0
  /\ \A id \in Ids \ known : closed[id] = 0
  /\ \A id \in known :
       /\ id \in DOMAIN sessions => closed[id] = 0
       /\ id \notin DOMAIN sessions =>
            closed[id] = 1
              \/ \E c \in Callers : call[c].id = id /\ call[c].removed
       /\ closed[id] \in {0, 1}

IInv ==
  /\ TypeOK
  /\ IdsSound
  /\ ArtifactsSound
  /\ OneOwner
  /\ CloserHolds
  /\ OpenIsBacked
  /\ NothingLeaks
  /\ OneClose

-----------------------------------------------------------------------------
(* The type of the state *)

\* The bounds and the mark of a source's session.
LEMMA Bounds ==
  MaxSessions \in Nat /\ MaxArtifacts \in Nat /\ NoArtifact \notin Nat
BY RegistryAssumption

\* What opening a virtual session does to the state.
LEMMA OpenVirtualEffect ==
  ASSUME TypeOK, NEW c \in Callers, NEW members \in MemberLists,
         OpenVirtual(c, members)
  PROVE  /\ call[c].pc = "idle"
         /\ nextArtifact \in Artifacts
         /\ nextArtifact' = nextArtifact + 1
         /\ call' \in [Callers -> Call]
         /\ call' = [call EXCEPT ![c] =
              [pc |-> "assemble", id |-> call[c].id, artifact |-> nextArtifact,
               members |-> members, removed |-> call[c].removed]]
         /\ sessions' = sessions /\ virtuals' = virtuals
         /\ nextSession' = nextSession
         /\ files' = files /\ abandoned' = abandoned
         /\ known' = known /\ closed' = closed
<1>1. call[c].pc = "idle" /\ nextArtifact \in Artifacts
  BY Bounds DEF OpenVirtual, At, TypeOK, Artifacts
<1>2. call[c] \in Call
  BY DEF TypeOK
<1>3. call'[c] = [pc |-> "assemble", id |-> call[c].id,
                  artifact |-> nextArtifact, members |-> members,
                  removed |-> call[c].removed]
  BY <1>2 DEF OpenVirtual, TypeOK, Call
<1>4. call'[c] \in Call
  BY <1>1, <1>2, <1>3 DEF Call, Points, MaybeArtifact
<1>5. call' \in [Callers -> Call]
  BY <1>4 DEF OpenVirtual, TypeOK
<1>6. /\ sessions' = sessions /\ virtuals' = virtuals
      /\ nextSession' = nextSession
      /\ files' = files /\ abandoned' = abandoned
      /\ known' = known /\ closed' = closed
  BY DEF OpenVirtual, tables, history
<1>7. nextArtifact' = nextArtifact + 1
  BY DEF OpenVirtual
<1>8. call' = [call EXCEPT ![c] =
              [pc |-> "assemble", id |-> call[c].id, artifact |-> nextArtifact,
               members |-> members, removed |-> call[c].removed]]
  BY <1>3 DEF OpenVirtual, TypeOK
<1> QED
  BY <1>1, <1>3, <1>5, <1>6, <1>7, <1>8

\* Every step keeps the types; a file of an earlier process is never the one
\* that a call removes.
LEMMA TypeStep ==
  ASSUME IInv, [Next]_vars
  PROVE  TypeOK'
<1> USE Bounds DEF IInv, TypeOK, Artifacts, Ids, tables, names, history
<1>1. ASSUME NEW c \in Callers, OpenSource(c)
      PROVE  TypeOK'
  <2>1. call[c] \in Call
    OBVIOUS
  <2>2. call'[c] =
        [pc |-> "insertSource", id |-> nextSession,
         artifact |-> call[c].artifact, members |-> call[c].members,
         removed |-> call[c].removed]
    BY <2>1, <1>1 DEF OpenSource, FreshId, Call
  <2>3. call'[c] \in Call
    BY <2>1, <2>2, <1>1 DEF OpenSource, FreshId, Call, Points, MaybeArtifact
  <2>4. call' \in [Callers -> Call]
    BY <2>3, <1>1 DEF OpenSource
  <2> QED
    BY <2>4, <1>1 DEF OpenSource, FreshId
<1>2. ASSUME NEW c \in Callers, InsertSource(c)
      PROVE  TypeOK'
  <2>1. call' \in [Callers -> Call]
    BY <1>2 DEF InsertSource, Return, Idle, Call, Points, MaybeArtifact
  <2>5. call[c].id \in Ids
    BY <1>2 DEF InsertSource, At, IdsSound, Pending
  <2>6. /\ DOMAIN sessions' \subseteq Ids
        /\ \A i \in DOMAIN sessions' : sessions'[i] \in MaybeArtifact
    BY <2>5, <1>2 DEF InsertSource, WithEntry, MaybeArtifact
  <2>7. known' \subseteq Ids
    BY <2>5, <1>2 DEF InsertSource
  <2> QED
    BY <2>1, <2>5, <2>6, <2>7, <1>2 DEF InsertSource
<1>3. ASSUME NEW c \in Callers, NEW members \in MemberLists,
             OpenVirtual(c, members)
      PROVE  TypeOK'
  <2>1. nextArtifact \in Artifacts /\ nextArtifact' = nextArtifact + 1
    BY <1>3, OpenVirtualEffect
  <2>2. nextArtifact' \in 1 .. MaxArtifacts + 1
    BY <2>1
  <2>3. call' \in [Callers -> Call]
    BY <1>3, OpenVirtualEffect
  <2> QED
    BY <2>2, <2>3, <1>3, OpenVirtualEffect
<1>4. ASSUME NEW c \in Callers, Assemble(c)
      PROVE  TypeOK'
  <2>1. call' \in [Callers -> Call]
    BY <1>4 DEF Assemble, GoOn, Call, Points, MaybeArtifact
  <2>2. call[c].artifact \in Artifacts
    BY <1>4 DEF Assemble, At, ArtifactsSound, Building
  <2> QED
    BY <2>1, <2>2, <1>4 DEF Assemble
<1>5. ASSUME NEW c \in Callers, AssembleFails(c)
      PROVE  TypeOK'
  <2>1. call' \in [Callers -> Call]
    BY <1>5 DEF AssembleFails, Return, Idle, Call, Points, MaybeArtifact
  <2>2. abandoned' \subseteq files' /\ files' \subseteq Artifacts
    BY <1>5 DEF AssembleFails, FilesWithout, At, ArtifactsSound, Building
  <2> QED
    BY <2>1, <2>2, <1>5 DEF AssembleFails, FilesWithout
<1>6. ASSUME NEW c \in Callers, OpenArtifact(c)
      PROVE  TypeOK'
  <2>1. call[c] \in Call
    OBVIOUS
  <2>2. call'[c] =
        [pc |-> "insertRead", id |-> nextSession,
         artifact |-> call[c].artifact, members |-> call[c].members,
         removed |-> call[c].removed]
    BY <2>1, <1>6 DEF OpenArtifact, FreshId, Call
  <2>3. call'[c] \in Call
    BY <2>1, <2>2, <1>6 DEF OpenArtifact, FreshId, Call, Points, MaybeArtifact
  <2>4. call' \in [Callers -> Call]
    BY <2>3, <1>6 DEF OpenArtifact
  <2> QED
    BY <2>4, <1>6 DEF OpenArtifact, FreshId
<1>7. ASSUME NEW c \in Callers, OpenArtifactFails(c)
      PROVE  TypeOK'
  <2>1. call' \in [Callers -> Call]
    BY <1>7 DEF OpenArtifactFails, Return, Idle, Call, Points, MaybeArtifact
  <2>2. abandoned' \subseteq files' /\ files' \subseteq Artifacts
    BY <1>7 DEF OpenArtifactFails, FilesWithout, At, ArtifactsSound, Building
  <2> QED
    BY <2>1, <2>2, <1>7 DEF OpenArtifactFails, FilesWithout
<1>8. ASSUME NEW c \in Callers, InsertRead(c)
      PROVE  TypeOK'
  <2>1. call' \in [Callers -> Call]
    BY <1>8 DEF InsertRead, GoOn, Call, Points, MaybeArtifact
  <2>5. call[c].id \in Ids /\ call[c].artifact \in Artifacts
    BY <1>8 DEF InsertRead, At, IdsSound, Pending, ArtifactsSound, Building
  <2>6. /\ DOMAIN sessions' \subseteq Ids
        /\ \A i \in DOMAIN sessions' : sessions'[i] \in MaybeArtifact
    BY <2>5, <1>8 DEF InsertRead, WithEntry, MaybeArtifact
  <2>7. known' \subseteq Ids
    BY <2>5, <1>8 DEF InsertRead
  <2> QED
    BY <2>1, <2>5, <2>6, <2>7, <1>8 DEF InsertRead
<1>9. ASSUME NEW c \in Callers, InsertMeta(c)
      PROVE  TypeOK'
  <2>1. call' \in [Callers -> Call]
    BY <1>9 DEF InsertMeta, Return, Idle, Call, Points, MaybeArtifact
  <2>5. call[c].id \in Ids /\ call[c].artifact \in Artifacts
    BY <1>9 DEF InsertMeta, At, IdsSound, Pending, ArtifactsSound, Building
  <2>6. /\ DOMAIN virtuals' \subseteq Ids
        /\ \A i \in DOMAIN virtuals' : virtuals'[i] \in Artifacts
    BY <2>5, <1>9 DEF InsertMeta, WithEntry, MaybeArtifact
  <2>7. known' \subseteq Ids
    BY <2>5, <1>9 DEF InsertMeta
  <2> QED
    BY <2>1, <2>5, <2>6, <2>7, <1>9 DEF InsertMeta
<1>10. ASSUME NEW c \in Callers, NEW id \in known, CloseSource(c, id)
      PROVE  TypeOK'
  <2>1. call[c] \in Call
    OBVIOUS
  <2>2. call'[c] =
        [pc |-> "closeMeta", id |-> id, artifact |-> call[c].artifact,
         members |-> call[c].members, removed |-> TRUE]
    BY <2>1, <1>10 DEF CloseSource, IsOpen, Call
  <2>3. call'[c] \in Call
    BY <2>1, <2>2, <1>10 DEF CloseSource, IsOpen, Call, Points, MaybeArtifact
  <2>4. call' \in [Callers -> Call]
    BY <2>3, <1>10 DEF CloseSource
  <2> QED
    BY <2>4, <1>10 DEF CloseSource, Without, IsOpen
<1>11. ASSUME NEW c \in Callers, CloseMeta(c)
      PROVE  TypeOK'
  <2>1. call' \in [Callers -> Call]
    BY <1>11 DEF CloseMeta, Return, Idle, Call, Points, MaybeArtifact
  <2>2. abandoned' \subseteq files' /\ files' \subseteq Artifacts
    BY <1>11 DEF CloseMeta, RemoveMeta, Without, FilesWithout, At,
       ArtifactsSound
  <2>3. closed \in [Ids -> Nat] /\ \A i \in Ids : closed[i] + 1 \in Nat
    OBVIOUS
  <2>4. closed' \in [Ids -> Nat]
    BY <2>3, <1>11 DEF CloseMeta, At, IdsSound, Closing, ClosingVirtual
  <2> QED
    BY <2>1, <2>2, <2>3, <2>4, <1>11 DEF CloseMeta, RemoveMeta, Without,
       FilesWithout
<1>12. ASSUME NEW c \in Callers, NEW id \in known, CloseVirtual(c, id)
      PROVE  TypeOK'
  <2>1. call[c] \in Call
    OBVIOUS
  <2>2. call'[c] =
        [pc |-> "closeVirtual", id |-> id, artifact |-> virtuals[id],
         members |-> call[c].members, removed |-> call[c].removed]
    BY <2>1, <1>12 DEF CloseVirtual, Call
  <2>3. call'[c] \in Call
    BY <2>1, <2>2, <1>12 DEF CloseVirtual, Call, Points, MaybeArtifact
  <2>4. call' \in [Callers -> Call]
    BY <2>3, <1>12 DEF CloseVirtual
  <2> QED
    BY <2>4, <1>12 DEF CloseVirtual
<1>13. ASSUME NEW c \in Callers, CloseVirtualRead(c)
      PROVE  TypeOK'
  <2>1. call[c] \in Call
    OBVIOUS
  <2>2. call'[c] =
        [pc |-> IF IsOpen(call[c].id) THEN "closeVirtualMeta"
                ELSE "closeVirtualEnd",
         id |-> call[c].id, artifact |-> call[c].artifact,
         members |-> call[c].members, removed |-> IsOpen(call[c].id)]
    BY <2>1, <1>13 DEF CloseVirtualRead, Call
  <2>3. call'[c] \in Call
    BY <2>1, <2>2, <1>13 DEF CloseVirtualRead, IsOpen, Call, Points,
       MaybeArtifact
  <2>4. call' \in [Callers -> Call]
    BY <2>3, <1>13 DEF CloseVirtualRead
  <2> QED
    BY <2>4, <1>13 DEF CloseVirtualRead, Without, IsOpen
<1>14. ASSUME NEW c \in Callers, CloseVirtualMeta(c)
      PROVE  TypeOK'
  <2>1. call' \in [Callers -> Call]
    BY <1>14 DEF CloseVirtualMeta, GoOn, Call, Points, MaybeArtifact
  <2>2. abandoned' \subseteq files' /\ files' \subseteq Artifacts
    BY <1>14 DEF CloseVirtualMeta, RemoveMeta, Without, FilesWithout, At,
       ArtifactsSound
  <2> QED
    BY <2>1, <2>2, <1>14 DEF CloseVirtualMeta, RemoveMeta, Without,
       FilesWithout
<1>15. ASSUME NEW c \in Callers, CloseVirtualEnd(c)
      PROVE  TypeOK'
  <2>1. call' \in [Callers -> Call]
    BY <1>15 DEF CloseVirtualEnd, Return, Idle, Call, Points, MaybeArtifact
  <2>2. abandoned' \subseteq files' /\ files' \subseteq Artifacts
    BY <1>15 DEF CloseVirtualEnd, Without, FilesWithout, At, ArtifactsSound,
       ClosingVirtual
  <2>3. closed \in [Ids -> Nat] /\ \A i \in Ids : closed[i] + 1 \in Nat
    OBVIOUS
  <2>4. closed' \in [Ids -> Nat]
    BY <2>3, <1>15 DEF CloseVirtualEnd, At, IdsSound, Closing, ClosingVirtual
  <2> QED
    BY <2>1, <2>2, <2>3, <2>4, <1>15 DEF CloseVirtualEnd, Without, FilesWithout
<1>16. CASE ProcessEnds
  <2>1. call' \in [Callers -> Call]
    BY <1>16 DEF ProcessEnds, Idle, Call, Points, MaybeArtifact
  <2> QED
    BY <2>1, <1>16 DEF ProcessEnds
<1>17. CASE UNCHANGED vars
  BY <1>17 DEF vars
<1> QED
  BY <1>1, <1>2, <1>3, <1>4, <1>5, <1>6, <1>7, <1>8, <1>9, <1>10, <1>11, <1>12,
     <1>13, <1>14, <1>15, <1>16, <1>17 DEF Next

-----------------------------------------------------------------------------
(* Each part of the invariant is preserved *)

\* Every step keeps a fresh id with its call, and closes with ids that were
\* handed out.
LEMMA IdsStep ==
  ASSUME IInv, [Next]_vars
  PROVE  IdsSound'
<1> USE Bounds DEF IInv, TypeOK, Call, tables, names, history, IdsSound,
   Pending,
   Closing, ClosingVirtual
<1>1. ASSUME NEW c \in Callers, OpenSource(c)
      PROVE  IdsSound'
  BY <1>1 DEF OpenSource, FreshId, At
<1>2. ASSUME NEW c \in Callers, InsertSource(c)
      PROVE  IdsSound'
  BY <1>2 DEF InsertSource, WithEntry, Return, Idle, At
<1>3. ASSUME NEW c \in Callers, NEW members \in MemberLists,
             OpenVirtual(c, members)
      PROVE  IdsSound'
  <2>1. /\ call[c].pc = "idle"
        /\ nextArtifact \in Artifacts /\ nextArtifact' = nextArtifact + 1
        /\ call' = [call EXCEPT ![c] =
              [pc |-> "assemble", id |-> call[c].id, artifact |-> nextArtifact,
               members |-> members, removed |-> call[c].removed]]
    BY <1>3, OpenVirtualEffect
  <2>2. /\ sessions' = sessions /\ virtuals' = virtuals
        /\ nextSession' = nextSession /\ known' = known
        /\ files' = files /\ abandoned' = abandoned /\ closed' = closed
    BY <1>3, OpenVirtualEffect
  <2> QED
    BY <2>1, <2>2
<1>4. ASSUME NEW c \in Callers, Assemble(c)
      PROVE  IdsSound'
  BY <1>4 DEF Assemble, GoOn, At
<1>5. ASSUME NEW c \in Callers, AssembleFails(c)
      PROVE  IdsSound'
  BY <1>5 DEF AssembleFails, FilesWithout, Return, Idle, At
<1>6. ASSUME NEW c \in Callers, OpenArtifact(c)
      PROVE  IdsSound'
  BY <1>6 DEF OpenArtifact, FreshId, At
<1>7. ASSUME NEW c \in Callers, OpenArtifactFails(c)
      PROVE  IdsSound'
  BY <1>7 DEF OpenArtifactFails, FilesWithout, Return, Idle, At
<1>8. ASSUME NEW c \in Callers, InsertRead(c)
      PROVE  IdsSound'
  BY <1>8 DEF InsertRead, WithEntry, GoOn, At
<1>9. ASSUME NEW c \in Callers, InsertMeta(c)
      PROVE  IdsSound'
  BY <1>9 DEF InsertMeta, WithEntry, Return, Idle, At
<1>10. ASSUME NEW c \in Callers, NEW id \in known, CloseSource(c, id)
      PROVE  IdsSound'
  BY <1>10 DEF CloseSource, IsOpen, Without, At
<1>11. ASSUME NEW c \in Callers, CloseMeta(c)
      PROVE  IdsSound'
  BY <1>11 DEF CloseMeta, RemoveMeta, Without, FilesWithout, Return, Idle, At
<1>12. ASSUME NEW c \in Callers, NEW id \in known, CloseVirtual(c, id)
      PROVE  IdsSound'
  BY <1>12 DEF CloseVirtual, At
<1>13. ASSUME NEW c \in Callers, CloseVirtualRead(c)
      PROVE  IdsSound'
  BY <1>13 DEF CloseVirtualRead, IsOpen, Without, At
<1>14. ASSUME NEW c \in Callers, CloseVirtualMeta(c)
      PROVE  IdsSound'
  BY <1>14 DEF CloseVirtualMeta, RemoveMeta, Without, FilesWithout, GoOn, At
<1>15. ASSUME NEW c \in Callers, CloseVirtualEnd(c)
      PROVE  IdsSound'
  BY <1>15 DEF CloseVirtualEnd, Without, FilesWithout, Return, Idle, At
<1>16. CASE ProcessEnds
  BY <1>16 DEF ProcessEnds, Idle
<1>17. CASE UNCHANGED vars
  BY <1>17 DEF vars
<1> QED
  BY <1>1, <1>2, <1>3, <1>4, <1>5, <1>6, <1>7, <1>8, <1>9, <1>10, <1>11, <1>12,
     <1>13, <1>14, <1>15, <1>16, <1>17 DEF Next

\* Every step uses artifacts that were named, and keeps those that are being
\* opened.
LEMMA ArtifactsStep ==
  ASSUME IInv, [Next]_vars
  PROVE  ArtifactsSound'
<1> USE Bounds DEF IInv, TypeOK, Call, tables, names, history, Artifacts,
   MaybeArtifact, ArtifactsSound, Building, ClosingVirtual, OneOwner,
   CloserHolds
<1>1. ASSUME NEW c \in Callers, OpenSource(c)
      PROVE  ArtifactsSound'
  BY <1>1 DEF OpenSource, FreshId, At
<1>2. ASSUME NEW c \in Callers, InsertSource(c)
      PROVE  ArtifactsSound'
  BY <1>2 DEF InsertSource, WithEntry, Return, Idle, At
<1>3. ASSUME NEW c \in Callers, NEW members \in MemberLists,
             OpenVirtual(c, members)
      PROVE  ArtifactsSound'
  <2>1. /\ call[c].pc = "idle"
        /\ nextArtifact \in Artifacts /\ nextArtifact' = nextArtifact + 1
        /\ call' = [call EXCEPT ![c] =
              [pc |-> "assemble", id |-> call[c].id, artifact |-> nextArtifact,
               members |-> members, removed |-> call[c].removed]]
    BY <1>3, OpenVirtualEffect
  <2>2. /\ sessions' = sessions /\ virtuals' = virtuals
        /\ nextSession' = nextSession /\ known' = known
        /\ files' = files /\ abandoned' = abandoned /\ closed' = closed
    BY <1>3, OpenVirtualEffect
  <2> QED
    BY <2>1, <2>2
<1>4. ASSUME NEW c \in Callers, Assemble(c)
      PROVE  ArtifactsSound'
  BY <1>4 DEF Assemble, GoOn, At
<1>5. ASSUME NEW c \in Callers, AssembleFails(c)
      PROVE  ArtifactsSound'
  <2>1. /\ files' \subseteq files
        /\ \A i \in DOMAIN virtuals' :
             i \in DOMAIN virtuals /\ virtuals'[i] = virtuals[i]
    BY <1>5 DEF AssembleFails, FilesWithout
  <2>2. \A d \in Callers :
          call'[d].pc \in {"openArtifact", "insertRead", "insertMeta"} =>
            d # c /\ call'[d] = call[d]
    BY <1>5 DEF AssembleFails, Return, Idle
  <2>3. \A d \in Callers :
          call'[d].pc \in {"openArtifact", "insertRead", "insertMeta"} =>
            call'[d].artifact \in files'
    BY <2>2, <1>5 DEF AssembleFails, FilesWithout, At
  <2>4. \A d \in Callers :
          call'[d].pc \in Building \cup ClosingVirtual => call'[d] = call[d]
    BY <1>5 DEF AssembleFails, Return, Idle
  <2>5. \A d \in Callers :
          call'[d].pc \notin Building \cup ClosingVirtual =>
            call'[d].artifact = NoArtifact
    BY <1>5 DEF AssembleFails, Return, Idle
  <2>6. /\ nextArtifact' = nextArtifact /\ abandoned' = abandoned
        /\ sessions' = sessions
    BY <1>5 DEF AssembleFails
  <2> QED
    BY <2>1, <2>3, <2>4, <2>5, <2>6
<1>6. ASSUME NEW c \in Callers, OpenArtifact(c)
      PROVE  ArtifactsSound'
  BY <1>6 DEF OpenArtifact, FreshId, At
<1>7. ASSUME NEW c \in Callers, OpenArtifactFails(c)
      PROVE  ArtifactsSound'
  <2>1. /\ files' \subseteq files
        /\ \A i \in DOMAIN virtuals' :
             i \in DOMAIN virtuals /\ virtuals'[i] = virtuals[i]
    BY <1>7 DEF OpenArtifactFails, FilesWithout
  <2>2. \A d \in Callers :
          call'[d].pc \in {"openArtifact", "insertRead", "insertMeta"} =>
            d # c /\ call'[d] = call[d]
    BY <1>7 DEF OpenArtifactFails, Return, Idle
  <2>3. \A d \in Callers :
          call'[d].pc \in {"openArtifact", "insertRead", "insertMeta"} =>
            call'[d].artifact \in files'
    BY <2>2, <1>7 DEF OpenArtifactFails, FilesWithout, At
  <2>4. \A d \in Callers :
          call'[d].pc \in Building \cup ClosingVirtual => call'[d] = call[d]
    BY <1>7 DEF OpenArtifactFails, Return, Idle
  <2>5. \A d \in Callers :
          call'[d].pc \notin Building \cup ClosingVirtual =>
            call'[d].artifact = NoArtifact
    BY <1>7 DEF OpenArtifactFails, Return, Idle
  <2>6. /\ nextArtifact' = nextArtifact /\ abandoned' = abandoned
        /\ sessions' = sessions
    BY <1>7 DEF OpenArtifactFails
  <2> QED
    BY <2>1, <2>3, <2>4, <2>5, <2>6
<1>8. ASSUME NEW c \in Callers, InsertRead(c)
      PROVE  ArtifactsSound'
  BY <1>8 DEF InsertRead, WithEntry, GoOn, At
<1>9. ASSUME NEW c \in Callers, InsertMeta(c)
      PROVE  ArtifactsSound'
  BY <1>9 DEF InsertMeta, WithEntry, Return, Idle, At
<1>10. ASSUME NEW c \in Callers, NEW id \in known, CloseSource(c, id)
      PROVE  ArtifactsSound'
  BY <1>10 DEF CloseSource, IsOpen, Without, At
<1>11. ASSUME NEW c \in Callers, CloseMeta(c)
      PROVE  ArtifactsSound'
  <2>1. /\ files' \subseteq files
        /\ \A i \in DOMAIN virtuals' :
             i \in DOMAIN virtuals /\ virtuals'[i] = virtuals[i]
    BY <1>11 DEF CloseMeta, RemoveMeta, Without, FilesWithout
  <2>2. \A d \in Callers :
          call'[d].pc \in {"openArtifact", "insertRead", "insertMeta"} =>
            d # c /\ call'[d] = call[d]
    BY <1>11 DEF CloseMeta, Return, Idle
  <2>3. \A d \in Callers :
          call'[d].pc \in {"openArtifact", "insertRead", "insertMeta"} =>
            call'[d].artifact \in files'
    BY <2>2, <1>11 DEF CloseMeta, RemoveMeta, Without, FilesWithout, At
  <2>4. \A d \in Callers :
          call'[d].pc \in Building \cup ClosingVirtual => call'[d] = call[d]
    BY <1>11 DEF CloseMeta, Return, Idle
  <2>5. \A d \in Callers :
          call'[d].pc \notin Building \cup ClosingVirtual =>
            call'[d].artifact = NoArtifact
    BY <1>11 DEF CloseMeta, Return, Idle
  <2>6. /\ nextArtifact' = nextArtifact /\ abandoned' = abandoned
        /\ sessions' = sessions
    BY <1>11 DEF CloseMeta
  <2> QED
    BY <2>1, <2>3, <2>4, <2>5, <2>6
<1>12. ASSUME NEW c \in Callers, NEW id \in known, CloseVirtual(c, id)
      PROVE  ArtifactsSound'
  BY <1>12 DEF CloseVirtual, At
<1>13. ASSUME NEW c \in Callers, CloseVirtualRead(c)
      PROVE  ArtifactsSound'
  BY <1>13 DEF CloseVirtualRead, IsOpen, Without, At
<1>14. ASSUME NEW c \in Callers, CloseVirtualMeta(c)
      PROVE  ArtifactsSound'
  BY <1>14 DEF CloseVirtualMeta, RemoveMeta, Without, FilesWithout, GoOn, At
<1>15. ASSUME NEW c \in Callers, CloseVirtualEnd(c)
      PROVE  ArtifactsSound'
  <2>1. /\ files' \subseteq files
        /\ \A i \in DOMAIN virtuals' :
             i \in DOMAIN virtuals /\ virtuals'[i] = virtuals[i]
    BY <1>15 DEF CloseVirtualEnd, Without, FilesWithout
  <2>2. \A d \in Callers :
          call'[d].pc \in {"openArtifact", "insertRead", "insertMeta"} =>
            d # c /\ call'[d] = call[d]
    BY <1>15 DEF CloseVirtualEnd, Return, Idle
  <2>3. \A d \in Callers :
          call'[d].pc \in {"openArtifact", "insertRead", "insertMeta"} =>
            call'[d].artifact \in files'
    BY <2>2, <1>15 DEF CloseVirtualEnd, Without, FilesWithout, At
  <2>4. \A d \in Callers :
          call'[d].pc \in Building \cup ClosingVirtual => call'[d] = call[d]
    BY <1>15 DEF CloseVirtualEnd, Return, Idle
  <2>5. \A d \in Callers :
          call'[d].pc \notin Building \cup ClosingVirtual =>
            call'[d].artifact = NoArtifact
    BY <1>15 DEF CloseVirtualEnd, Return, Idle
  <2>6. /\ nextArtifact' = nextArtifact /\ abandoned' = abandoned
        /\ sessions' = sessions
    BY <1>15 DEF CloseVirtualEnd
  <2> QED
    BY <2>1, <2>3, <2>4, <2>5, <2>6
<1>16. CASE ProcessEnds
  BY <1>16 DEF ProcessEnds, Idle
<1>17. CASE UNCHANGED vars
  BY <1>17 DEF vars
<1> QED
  BY <1>1, <1>2, <1>3, <1>4, <1>5, <1>6, <1>7, <1>8, <1>9, <1>10, <1>11, <1>12,
     <1>13, <1>14, <1>15, <1>16, <1>17 DEF Next

\* Every step leaves an artifact with one session or one call.
LEMMA OwnerStep ==
  ASSUME IInv, [Next]_vars
  PROVE  OneOwner'
<1> USE Bounds DEF IInv, TypeOK, Call, tables, names, history, Artifacts,
   MaybeArtifact, IdsSound, Pending, Closing, ClosingVirtual, ArtifactsSound,
   Building, OneOwner, CloserHolds
<1>1. ASSUME NEW c \in Callers, OpenSource(c)
      PROVE  OneOwner'
  BY <1>1 DEF OpenSource, FreshId, At
<1>2. ASSUME NEW c \in Callers, InsertSource(c)
      PROVE  OneOwner'
  BY <1>2 DEF InsertSource, WithEntry, Return, Idle, At
<1>3. ASSUME NEW c \in Callers, NEW members \in MemberLists,
             OpenVirtual(c, members)
      PROVE  OneOwner'
  <2>1. /\ call[c].pc = "idle"
        /\ nextArtifact \in Artifacts /\ nextArtifact' = nextArtifact + 1
        /\ call' = [call EXCEPT ![c] =
              [pc |-> "assemble", id |-> call[c].id, artifact |-> nextArtifact,
               members |-> members, removed |-> call[c].removed]]
    BY <1>3, OpenVirtualEffect
  <2>2. /\ sessions' = sessions /\ virtuals' = virtuals
        /\ nextSession' = nextSession /\ known' = known
        /\ files' = files /\ abandoned' = abandoned /\ closed' = closed
    BY <1>3, OpenVirtualEffect
  <2>3. \A d \in Callers : call[d].artifact # nextArtifact
    BY <2>1
  <2>4. \A d, e \in Callers :
          call'[d].pc \in Building /\ call'[d].artifact = call'[e].artifact
            => d = e
    BY <2>1, <2>3
  <2>5. \A d \in Callers, i \in DOMAIN virtuals :
          call'[d].pc \in Building => virtuals[i] # call'[d].artifact
    BY <2>1
  <2>6. \A d \in Callers, i \in DOMAIN sessions :
          call'[d].pc \in Building /\ sessions[i] = call'[d].artifact =>
            call'[d].pc = "insertMeta" /\ i = call'[d].id
    BY <2>1
  <2>7. \A d \in Callers :
          call'[d].pc = "insertMeta" =>
            /\ call'[d].id \in DOMAIN sessions
            /\ sessions[call'[d].id] = call'[d].artifact
    BY <2>1
  <2> QED
    BY <2>2, <2>4, <2>5, <2>6, <2>7
<1>4. ASSUME NEW c \in Callers, Assemble(c)
      PROVE  OneOwner'
  BY <1>4 DEF Assemble, GoOn, At
<1>5. ASSUME NEW c \in Callers, AssembleFails(c)
      PROVE  OneOwner'
  BY <1>5 DEF AssembleFails, FilesWithout, Return, Idle, At
<1>6. ASSUME NEW c \in Callers, OpenArtifact(c)
      PROVE  OneOwner'
  BY <1>6 DEF OpenArtifact, FreshId, At
<1>7. ASSUME NEW c \in Callers, OpenArtifactFails(c)
      PROVE  OneOwner'
  BY <1>7 DEF OpenArtifactFails, FilesWithout, Return, Idle, At
<1>8. ASSUME NEW c \in Callers, InsertRead(c)
      PROVE  OneOwner'
  BY <1>8 DEF InsertRead, WithEntry, GoOn, At
<1>9. ASSUME NEW c \in Callers, InsertMeta(c)
      PROVE  OneOwner'
  BY <1>9 DEF InsertMeta, WithEntry, Return, Idle, At
<1>10. ASSUME NEW c \in Callers, NEW id \in known, CloseSource(c, id)
      PROVE  OneOwner'
  BY <1>10 DEF CloseSource, IsOpen, Without, At
<1>11. ASSUME NEW c \in Callers, CloseMeta(c)
      PROVE  OneOwner'
  BY <1>11 DEF CloseMeta, RemoveMeta, Without, FilesWithout, Return, Idle, At
<1>12. ASSUME NEW c \in Callers, NEW id \in known, CloseVirtual(c, id)
      PROVE  OneOwner'
  BY <1>12 DEF CloseVirtual, At
<1>13. ASSUME NEW c \in Callers, CloseVirtualRead(c)
      PROVE  OneOwner'
  BY <1>13 DEF CloseVirtualRead, IsOpen, Without, At
<1>14. ASSUME NEW c \in Callers, CloseVirtualMeta(c)
      PROVE  OneOwner'
  BY <1>14 DEF CloseVirtualMeta, RemoveMeta, Without, FilesWithout, GoOn, At
<1>15. ASSUME NEW c \in Callers, CloseVirtualEnd(c)
      PROVE  OneOwner'
  BY <1>15 DEF CloseVirtualEnd, Without, FilesWithout, Return, Idle, At
<1>16. CASE ProcessEnds
  BY <1>16 DEF ProcessEnds, Idle
<1>17. CASE UNCHANGED vars
  BY <1>17 DEF vars
<1> QED
  BY <1>1, <1>2, <1>3, <1>4, <1>5, <1>6, <1>7, <1>8, <1>9, <1>10, <1>11, <1>12,
     <1>13, <1>14, <1>15, <1>16, <1>17 DEF Next

\* Every step leaves a closing call with the artifact of its session.
LEMMA CloserStep ==
  ASSUME IInv, [Next]_vars
  PROVE  CloserHolds'
<1> USE Bounds DEF IInv, TypeOK, Call, tables, names, history, Artifacts,
   MaybeArtifact, IdsSound, Pending, Closing, ClosingVirtual, ArtifactsSound,
   Building, OneOwner, CloserHolds
<1>1. ASSUME NEW c \in Callers, OpenSource(c)
      PROVE  CloserHolds'
  BY <1>1 DEF OpenSource, FreshId, At
<1>2. ASSUME NEW c \in Callers, InsertSource(c)
      PROVE  CloserHolds'
  BY <1>2 DEF InsertSource, WithEntry, Return, Idle, At
<1>3. ASSUME NEW c \in Callers, NEW members \in MemberLists,
             OpenVirtual(c, members)
      PROVE  CloserHolds'
  <2>1. /\ call[c].pc = "idle"
        /\ nextArtifact \in Artifacts /\ nextArtifact' = nextArtifact + 1
        /\ call' = [call EXCEPT ![c] =
              [pc |-> "assemble", id |-> call[c].id, artifact |-> nextArtifact,
               members |-> members, removed |-> call[c].removed]]
    BY <1>3, OpenVirtualEffect
  <2>2. /\ sessions' = sessions /\ virtuals' = virtuals
        /\ nextSession' = nextSession /\ known' = known
        /\ files' = files /\ abandoned' = abandoned /\ closed' = closed
    BY <1>3, OpenVirtualEffect
  <2> QED
    BY <2>1, <2>2
<1>4. ASSUME NEW c \in Callers, Assemble(c)
      PROVE  CloserHolds'
  BY <1>4 DEF Assemble, GoOn, At
<1>5. ASSUME NEW c \in Callers, AssembleFails(c)
      PROVE  CloserHolds'
  BY <1>5 DEF AssembleFails, FilesWithout, Return, Idle, At
<1>6. ASSUME NEW c \in Callers, OpenArtifact(c)
      PROVE  CloserHolds'
  BY <1>6 DEF OpenArtifact, FreshId, At
<1>7. ASSUME NEW c \in Callers, OpenArtifactFails(c)
      PROVE  CloserHolds'
  BY <1>7 DEF OpenArtifactFails, FilesWithout, Return, Idle, At
<1>8. ASSUME NEW c \in Callers, InsertRead(c)
      PROVE  CloserHolds'
  BY <1>8 DEF InsertRead, WithEntry, GoOn, At
<1>9. ASSUME NEW c \in Callers, InsertMeta(c)
      PROVE  CloserHolds'
  BY <1>9 DEF InsertMeta, WithEntry, Return, Idle, At
<1>10. ASSUME NEW c \in Callers, NEW id \in known, CloseSource(c, id)
      PROVE  CloserHolds'
  BY <1>10 DEF CloseSource, IsOpen, Without, At
<1>11. ASSUME NEW c \in Callers, CloseMeta(c)
      PROVE  CloserHolds'
  BY <1>11 DEF CloseMeta, RemoveMeta, Without, FilesWithout, Return, Idle, At
<1>12. ASSUME NEW c \in Callers, NEW id \in known, CloseVirtual(c, id)
      PROVE  CloserHolds'
  <2>1. \A d \in Callers, i \in DOMAIN virtuals :
          call'[d].pc \in ClosingVirtual =>
            (virtuals[i] = call'[d].artifact <=> i = call'[d].id)
    BY <1>12 DEF CloseVirtual, At
  <2>2. \A d \in Callers, i \in DOMAIN sessions :
          call'[d].pc \in ClosingVirtual /\ sessions[i] = call'[d].artifact =>
            i = call'[d].id
    BY <1>12 DEF CloseVirtual, At
  <2>3. \A d, e \in Callers :
          call'[d].pc \in ClosingVirtual /\ call'[e].pc \in ClosingVirtual
            /\ call'[d].artifact = call'[e].artifact => call'[d].id = call'[e].id
    BY <1>12 DEF CloseVirtual, At
  <2>4. /\ virtuals' = virtuals
        /\ \A i \in DOMAIN sessions' :
             i \in DOMAIN sessions /\ sessions'[i] = sessions[i]
    BY <1>12 DEF CloseVirtual
  <2> QED
    BY <2>1, <2>2, <2>3, <2>4
<1>13. ASSUME NEW c \in Callers, CloseVirtualRead(c)
      PROVE  CloserHolds'
  <2>1. \A d \in Callers, i \in DOMAIN virtuals :
          call'[d].pc \in ClosingVirtual =>
            (virtuals[i] = call'[d].artifact <=> i = call'[d].id)
    BY <1>13 DEF CloseVirtualRead, At
  <2>2. \A d \in Callers, i \in DOMAIN sessions :
          call'[d].pc \in ClosingVirtual /\ sessions[i] = call'[d].artifact =>
            i = call'[d].id
    BY <1>13 DEF CloseVirtualRead, At
  <2>3. \A d, e \in Callers :
          call'[d].pc \in ClosingVirtual /\ call'[e].pc \in ClosingVirtual
            /\ call'[d].artifact = call'[e].artifact => call'[d].id = call'[e].id
    BY <1>13 DEF CloseVirtualRead, At
  <2>4. /\ virtuals' = virtuals
        /\ \A i \in DOMAIN sessions' :
             i \in DOMAIN sessions /\ sessions'[i] = sessions[i]
    BY <1>13 DEF CloseVirtualRead, Without
  <2> QED
    BY <2>1, <2>2, <2>3, <2>4
<1>14. ASSUME NEW c \in Callers, CloseVirtualMeta(c)
      PROVE  CloserHolds'
  BY <1>14 DEF CloseVirtualMeta, RemoveMeta, Without, FilesWithout, GoOn, At
<1>15. ASSUME NEW c \in Callers, CloseVirtualEnd(c)
      PROVE  CloserHolds'
  BY <1>15 DEF CloseVirtualEnd, Without, FilesWithout, Return, Idle, At
<1>16. CASE ProcessEnds
  BY <1>16 DEF ProcessEnds, Idle
<1>17. CASE UNCHANGED vars
  BY <1>17 DEF vars
<1> QED
  BY <1>1, <1>2, <1>3, <1>4, <1>5, <1>6, <1>7, <1>8, <1>9, <1>10, <1>11, <1>12,
     <1>13, <1>14, <1>15, <1>16, <1>17 DEF Next

\* No step removes the artifact of an open session: it is the closer's own.
LEMMA BackedStep ==
  ASSUME IInv, [Next]_vars
  PROVE  OpenIsBacked'
<1> USE Bounds DEF IInv, TypeOK, Call, tables, names, history, Artifacts,
   MaybeArtifact, IdsSound, Pending, Closing, ClosingVirtual, ArtifactsSound,
   Building, OneOwner, CloserHolds, OpenIsBacked
<1>1. ASSUME NEW c \in Callers, OpenSource(c)
      PROVE  OpenIsBacked'
  BY <1>1 DEF OpenSource, FreshId, At
<1>2. ASSUME NEW c \in Callers, InsertSource(c)
      PROVE  OpenIsBacked'
  BY <1>2 DEF InsertSource, WithEntry, Return, Idle, At
<1>3. ASSUME NEW c \in Callers, NEW members \in MemberLists,
             OpenVirtual(c, members)
      PROVE  OpenIsBacked'
  <2>1. /\ call[c].pc = "idle"
        /\ nextArtifact \in Artifacts /\ nextArtifact' = nextArtifact + 1
        /\ call' = [call EXCEPT ![c] =
              [pc |-> "assemble", id |-> call[c].id, artifact |-> nextArtifact,
               members |-> members, removed |-> call[c].removed]]
    BY <1>3, OpenVirtualEffect
  <2>2. /\ sessions' = sessions /\ virtuals' = virtuals
        /\ nextSession' = nextSession /\ known' = known
        /\ files' = files /\ abandoned' = abandoned /\ closed' = closed
    BY <1>3, OpenVirtualEffect
  <2> QED
    BY <2>1, <2>2
<1>4. ASSUME NEW c \in Callers, Assemble(c)
      PROVE  OpenIsBacked'
  BY <1>4 DEF Assemble, GoOn, At
<1>5. ASSUME NEW c \in Callers, AssembleFails(c)
      PROVE  OpenIsBacked'
  BY <1>5 DEF AssembleFails, FilesWithout, Return, Idle, At
<1>6. ASSUME NEW c \in Callers, OpenArtifact(c)
      PROVE  OpenIsBacked'
  BY <1>6 DEF OpenArtifact, FreshId, At
<1>7. ASSUME NEW c \in Callers, OpenArtifactFails(c)
      PROVE  OpenIsBacked'
  BY <1>7 DEF OpenArtifactFails, FilesWithout, Return, Idle, At
<1>8. ASSUME NEW c \in Callers, InsertRead(c)
      PROVE  OpenIsBacked'
  BY <1>8 DEF InsertRead, WithEntry, GoOn, At
<1>9. ASSUME NEW c \in Callers, InsertMeta(c)
      PROVE  OpenIsBacked'
  BY <1>9 DEF InsertMeta, WithEntry, Return, Idle, At
<1>10. ASSUME NEW c \in Callers, NEW id \in known, CloseSource(c, id)
      PROVE  OpenIsBacked'
  BY <1>10 DEF CloseSource, IsOpen, Without, At
<1>11. ASSUME NEW c \in Callers, CloseMeta(c)
      PROVE  OpenIsBacked'
  BY <1>11 DEF CloseMeta, RemoveMeta, Without, FilesWithout, Return, Idle, At
<1>12. ASSUME NEW c \in Callers, NEW id \in known, CloseVirtual(c, id)
      PROVE  OpenIsBacked'
  BY <1>12 DEF CloseVirtual, At
<1>13. ASSUME NEW c \in Callers, CloseVirtualRead(c)
      PROVE  OpenIsBacked'
  BY <1>13 DEF CloseVirtualRead, IsOpen, Without, At
<1>14. ASSUME NEW c \in Callers, CloseVirtualMeta(c)
      PROVE  OpenIsBacked'
  <2>1. \A i \in DOMAIN sessions : i # call[c].id
    BY <1>14 DEF CloseVirtualMeta, At
  <2>2. \A i \in DOMAIN sessions :
          sessions[i] # NoArtifact => sessions[i] \in files'
    BY <2>1, <1>14 DEF CloseVirtualMeta, RemoveMeta, FilesWithout, OpenIsBacked
  <2> QED
    BY <2>2, <1>14 DEF CloseVirtualMeta, OpenIsBacked
<1>15. ASSUME NEW c \in Callers, CloseVirtualEnd(c)
      PROVE  OpenIsBacked'
  BY <1>15 DEF CloseVirtualEnd, Without, FilesWithout, Return, Idle, At
<1>16. CASE ProcessEnds
  BY <1>16 DEF ProcessEnds, Idle
<1>17. CASE UNCHANGED vars
  BY <1>17 DEF vars
<1> QED
  BY <1>1, <1>2, <1>3, <1>4, <1>5, <1>6, <1>7, <1>8, <1>9, <1>10, <1>11, <1>12,
     <1>13, <1>14, <1>15, <1>16, <1>17 DEF Next

\* An artifact stays looked after when the tables keep its session, or when the
\* call that takes the step has it in hand.
LEMMA StillInHand ==
  ASSUME NothingLeaks, NEW c \in Callers, NEW a \in files \ abandoned,
         \A d \in Callers : d # c => call'[d] = call[d],
         InHand(c, a) => InHand(c, a)' \/ InUse(a)',
         \A i \in DOMAIN virtuals :
           virtuals[i] = a => i \in DOMAIN virtuals' /\ virtuals'[i] = a,
         \A i \in DOMAIN sessions \cap DOMAIN virtuals :
           virtuals[i] = a => i \in DOMAIN sessions' \/ InHand(c, a)'
  PROVE  InUse(a)' \/ \E d \in Callers : InHand(d, a)'
<1>1. CASE InUse(a)
  <2>1. PICK i \in DOMAIN virtuals \cap DOMAIN sessions : virtuals[i] = a
    BY <1>1 DEF InUse
  <2> QED
    BY <2>1 DEF InUse
<1>2. ASSUME NEW d \in Callers, InHand(d, a)
      PROVE  InUse(a)' \/ \E e \in Callers : InHand(e, a)'
  <2>1. CASE d = c
    BY <1>2, <2>1
  <2>2. CASE d # c
    <3>1. InHand(d, a)'
      BY <1>2, <2>2 DEF InHand
    <3> QED
      BY <3>1
  <2> QED
    BY <2>1, <2>2
<1> QED
  BY <1>1, <1>2 DEF NothingLeaks

\* Every step leaves each artifact with an open session or with a call.
LEMMA LeakStep ==
  ASSUME IInv, [Next]_vars
  PROVE  NothingLeaks'
<1> USE Bounds DEF IInv, TypeOK, Call, tables, names, history, Artifacts,
   MaybeArtifact, IdsSound, Pending, Closing, ClosingVirtual, ArtifactsSound,
   Building, OneOwner, CloserHolds
<1>1. ASSUME NEW c \in Callers, OpenSource(c)
      PROVE  NothingLeaks'
  <2> SUFFICES ASSUME NEW a \in files' \ abandoned'
               PROVE  InUse(a)' \/ \E d \in Callers : InHand(d, a)'
    BY DEF NothingLeaks
  <2>1. a \in files \ abandoned
    BY <1>1 DEF OpenSource
  <2>2. \A d \in Callers : d # c => call'[d] = call[d]
    BY <1>1 DEF OpenSource, FreshId
  <2>3. InHand(c, a) => InHand(c, a)' \/ InUse(a)'
    BY <1>1 DEF OpenSource, FreshId, At, InHand
  <2>4. \A i \in DOMAIN virtuals :
          virtuals[i] = a => i \in DOMAIN virtuals' /\ virtuals'[i] = a
    BY <1>1 DEF OpenSource, At
  <2>5. \A i \in DOMAIN sessions \cap DOMAIN virtuals :
          virtuals[i] = a => i \in DOMAIN sessions' \/ InHand(c, a)'
    BY <1>1 DEF OpenSource
  <2> QED
    BY <2>1, <2>2, <2>3, <2>4, <2>5, StillInHand
<1>2. ASSUME NEW c \in Callers, InsertSource(c)
      PROVE  NothingLeaks'
  <2> SUFFICES ASSUME NEW a \in files' \ abandoned'
               PROVE  InUse(a)' \/ \E d \in Callers : InHand(d, a)'
    BY DEF NothingLeaks
  <2>1. a \in files \ abandoned
    BY <1>2 DEF InsertSource
  <2>2. \A d \in Callers : d # c => call'[d] = call[d]
    BY <1>2 DEF InsertSource, Return, Idle
  <2>3. InHand(c, a) => InHand(c, a)' \/ InUse(a)'
    BY <1>2 DEF InsertSource, Return, Idle, At, InHand
  <2>4. \A i \in DOMAIN virtuals :
          virtuals[i] = a => i \in DOMAIN virtuals' /\ virtuals'[i] = a
    BY <1>2 DEF InsertSource, At
  <2>5. \A i \in DOMAIN sessions \cap DOMAIN virtuals :
          virtuals[i] = a => i \in DOMAIN sessions' \/ InHand(c, a)'
    BY <1>2 DEF InsertSource, WithEntry
  <2> QED
    BY <2>1, <2>2, <2>3, <2>4, <2>5, StillInHand
<1>3. ASSUME NEW c \in Callers, NEW members \in MemberLists,
             OpenVirtual(c, members)
      PROVE  NothingLeaks'
  <2> SUFFICES ASSUME NEW a \in files' \ abandoned'
               PROVE  InUse(a)' \/ \E d \in Callers : InHand(d, a)'
    BY DEF NothingLeaks
  <2>before. /\ call[c].pc = "idle"
        /\ nextArtifact \in Artifacts /\ nextArtifact' = nextArtifact + 1
        /\ call' = [call EXCEPT ![c] =
              [pc |-> "assemble", id |-> call[c].id, artifact |-> nextArtifact,
               members |-> members, removed |-> call[c].removed]]
    BY <1>3, OpenVirtualEffect
  <2>after. /\ sessions' = sessions /\ virtuals' = virtuals
        /\ nextSession' = nextSession /\ known' = known
        /\ files' = files /\ abandoned' = abandoned /\ closed' = closed
    BY <1>3, OpenVirtualEffect
  <2>1. a \in files \ abandoned
    BY <2>before, <2>after
  <2>2. \A d \in Callers : d # c => call'[d] = call[d]
    BY <2>before, <2>after
  <2>3. InHand(c, a) => InHand(c, a)' \/ InUse(a)'
    BY <2>before, <2>after DEF At, InHand
  <2>4. \A i \in DOMAIN virtuals :
          virtuals[i] = a => i \in DOMAIN virtuals' /\ virtuals'[i] = a
    BY <2>before, <2>after DEF At
  <2>5. \A i \in DOMAIN sessions \cap DOMAIN virtuals :
          virtuals[i] = a => i \in DOMAIN sessions' \/ InHand(c, a)'
    BY <2>before, <2>after
  <2> QED
    BY <2>1, <2>2, <2>3, <2>4, <2>5, StillInHand
<1>4. ASSUME NEW c \in Callers, Assemble(c)
      PROVE  NothingLeaks'
  <2> SUFFICES ASSUME NEW a \in files' \ abandoned'
               PROVE  InUse(a)' \/ \E d \in Callers : InHand(d, a)'
    BY DEF NothingLeaks
  <2>new. CASE a = call[c].artifact
    <3>1. InHand(c, a)'
      BY <1>4, <2>new DEF Assemble, GoOn, InHand
    <3> QED
      BY <3>1
  <2> SUFFICES ASSUME a # call[c].artifact
               PROVE  InUse(a)' \/ \E d \in Callers : InHand(d, a)'
    BY <2>new
  <2>1. a \in files \ abandoned
    BY <1>4 DEF Assemble
  <2>2. \A d \in Callers : d # c => call'[d] = call[d]
    BY <1>4 DEF Assemble, GoOn
  <2>3. InHand(c, a) => InHand(c, a)' \/ InUse(a)'
    BY <1>4 DEF Assemble, GoOn, At, InHand
  <2>4. \A i \in DOMAIN virtuals :
          virtuals[i] = a => i \in DOMAIN virtuals' /\ virtuals'[i] = a
    BY <1>4 DEF Assemble, At
  <2>5. \A i \in DOMAIN sessions \cap DOMAIN virtuals :
          virtuals[i] = a => i \in DOMAIN sessions' \/ InHand(c, a)'
    BY <1>4 DEF Assemble
  <2> QED
    BY <2>1, <2>2, <2>3, <2>4, <2>5, StillInHand
<1>5. ASSUME NEW c \in Callers, AssembleFails(c)
      PROVE  NothingLeaks'
  <2> SUFFICES ASSUME NEW a \in files' \ abandoned'
               PROVE  InUse(a)' \/ \E d \in Callers : InHand(d, a)'
    BY DEF NothingLeaks
  <2>1. a \in files \ abandoned
    BY <1>5 DEF AssembleFails, FilesWithout
  <2>2. \A d \in Callers : d # c => call'[d] = call[d]
    BY <1>5 DEF AssembleFails, Return, Idle
  <2>3. InHand(c, a) => InHand(c, a)' \/ InUse(a)'
    BY <1>5 DEF AssembleFails, Return, Idle, FilesWithout, At, InHand
  <2>4. \A i \in DOMAIN virtuals :
          virtuals[i] = a => i \in DOMAIN virtuals' /\ virtuals'[i] = a
    BY <1>5 DEF AssembleFails, FilesWithout, At
  <2>5. \A i \in DOMAIN sessions \cap DOMAIN virtuals :
          virtuals[i] = a => i \in DOMAIN sessions' \/ InHand(c, a)'
    BY <1>5 DEF AssembleFails
  <2> QED
    BY <2>1, <2>2, <2>3, <2>4, <2>5, StillInHand
<1>6. ASSUME NEW c \in Callers, OpenArtifact(c)
      PROVE  NothingLeaks'
  <2> SUFFICES ASSUME NEW a \in files' \ abandoned'
               PROVE  InUse(a)' \/ \E d \in Callers : InHand(d, a)'
    BY DEF NothingLeaks
  <2>1. a \in files \ abandoned
    BY <1>6 DEF OpenArtifact
  <2>2. \A d \in Callers : d # c => call'[d] = call[d]
    BY <1>6 DEF OpenArtifact, FreshId
  <2>3. InHand(c, a) => InHand(c, a)' \/ InUse(a)'
    BY <1>6 DEF OpenArtifact, FreshId, At, InHand
  <2>4. \A i \in DOMAIN virtuals :
          virtuals[i] = a => i \in DOMAIN virtuals' /\ virtuals'[i] = a
    BY <1>6 DEF OpenArtifact, At
  <2>5. \A i \in DOMAIN sessions \cap DOMAIN virtuals :
          virtuals[i] = a => i \in DOMAIN sessions' \/ InHand(c, a)'
    BY <1>6 DEF OpenArtifact
  <2> QED
    BY <2>1, <2>2, <2>3, <2>4, <2>5, StillInHand
<1>7. ASSUME NEW c \in Callers, OpenArtifactFails(c)
      PROVE  NothingLeaks'
  <2> SUFFICES ASSUME NEW a \in files' \ abandoned'
               PROVE  InUse(a)' \/ \E d \in Callers : InHand(d, a)'
    BY DEF NothingLeaks
  <2>1. a \in files \ abandoned
    BY <1>7 DEF OpenArtifactFails, FilesWithout
  <2>2. \A d \in Callers : d # c => call'[d] = call[d]
    BY <1>7 DEF OpenArtifactFails, Return, Idle
  <2>3. InHand(c, a) => InHand(c, a)' \/ InUse(a)'
    BY <1>7 DEF OpenArtifactFails, Return, Idle, FilesWithout, At, InHand
  <2>4. \A i \in DOMAIN virtuals :
          virtuals[i] = a => i \in DOMAIN virtuals' /\ virtuals'[i] = a
    BY <1>7 DEF OpenArtifactFails, FilesWithout, At
  <2>5. \A i \in DOMAIN sessions \cap DOMAIN virtuals :
          virtuals[i] = a => i \in DOMAIN sessions' \/ InHand(c, a)'
    BY <1>7 DEF OpenArtifactFails
  <2> QED
    BY <2>1, <2>2, <2>3, <2>4, <2>5, StillInHand
<1>8. ASSUME NEW c \in Callers, InsertRead(c)
      PROVE  NothingLeaks'
  <2> SUFFICES ASSUME NEW a \in files' \ abandoned'
               PROVE  InUse(a)' \/ \E d \in Callers : InHand(d, a)'
    BY DEF NothingLeaks
  <2>1. a \in files \ abandoned
    BY <1>8 DEF InsertRead
  <2>2. \A d \in Callers : d # c => call'[d] = call[d]
    BY <1>8 DEF InsertRead, GoOn
  <2>3. InHand(c, a) => InHand(c, a)' \/ InUse(a)'
    BY <1>8 DEF InsertRead, GoOn, At, InHand
  <2>4. \A i \in DOMAIN virtuals :
          virtuals[i] = a => i \in DOMAIN virtuals' /\ virtuals'[i] = a
    BY <1>8 DEF InsertRead, At
  <2>5. \A i \in DOMAIN sessions \cap DOMAIN virtuals :
          virtuals[i] = a => i \in DOMAIN sessions' \/ InHand(c, a)'
    BY <1>8 DEF InsertRead, WithEntry
  <2> QED
    BY <2>1, <2>2, <2>3, <2>4, <2>5, StillInHand
<1>9. ASSUME NEW c \in Callers, InsertMeta(c)
      PROVE  NothingLeaks'
  <2> SUFFICES ASSUME NEW a \in files' \ abandoned'
               PROVE  InUse(a)' \/ \E d \in Callers : InHand(d, a)'
    BY DEF NothingLeaks
  <2>1. a \in files \ abandoned
    BY <1>9 DEF InsertMeta, WithEntry
  <2>2. \A d \in Callers : d # c => call'[d] = call[d]
    BY <1>9 DEF InsertMeta, Return, Idle
  <2>3. InHand(c, a) => InHand(c, a)' \/ InUse(a)'
    BY <1>9 DEF InsertMeta, Return, Idle, WithEntry, At, InHand, InUse
  <2>4. \A i \in DOMAIN virtuals :
          virtuals[i] = a => i \in DOMAIN virtuals' /\ virtuals'[i] = a
    BY <1>9 DEF InsertMeta, WithEntry, At
  <2>5. \A i \in DOMAIN sessions \cap DOMAIN virtuals :
          virtuals[i] = a => i \in DOMAIN sessions' \/ InHand(c, a)'
    BY <1>9 DEF InsertMeta
  <2> QED
    BY <2>1, <2>2, <2>3, <2>4, <2>5, StillInHand
<1>10. ASSUME NEW c \in Callers, NEW id \in known, CloseSource(c, id)
      PROVE  NothingLeaks'
  <2> SUFFICES ASSUME NEW a \in files' \ abandoned'
               PROVE  InUse(a)' \/ \E d \in Callers : InHand(d, a)'
    BY DEF NothingLeaks
  <2>1. a \in files \ abandoned
    BY <1>10 DEF CloseSource
  <2>2. \A d \in Callers : d # c => call'[d] = call[d]
    BY <1>10 DEF CloseSource, IsOpen
  <2>3. InHand(c, a) => InHand(c, a)' \/ InUse(a)'
    BY <1>10 DEF CloseSource, IsOpen, At, InHand
  <2>4. \A i \in DOMAIN virtuals :
          virtuals[i] = a => i \in DOMAIN virtuals' /\ virtuals'[i] = a
    BY <1>10 DEF CloseSource, At
  <2>5. \A i \in DOMAIN sessions \cap DOMAIN virtuals :
          virtuals[i] = a => i \in DOMAIN sessions' \/ InHand(c, a)'
    BY <1>10 DEF CloseSource, Without, At, InHand
  <2> QED
    BY <2>1, <2>2, <2>3, <2>4, <2>5, StillInHand
<1>11. ASSUME NEW c \in Callers, CloseMeta(c)
      PROVE  NothingLeaks'
  <2> SUFFICES ASSUME NEW a \in files' \ abandoned'
               PROVE  InUse(a)' \/ \E d \in Callers : InHand(d, a)'
    BY DEF NothingLeaks
  <2>1. a \in files \ abandoned
    BY <1>11 DEF CloseMeta, RemoveMeta, Without, FilesWithout
  <2>2. \A d \in Callers : d # c => call'[d] = call[d]
    BY <1>11 DEF CloseMeta, Return, Idle
  <2>3. InHand(c, a) => InHand(c, a)' \/ InUse(a)'
    BY <1>11 DEF CloseMeta, Return, Idle, RemoveMeta, Without, FilesWithout,
       At, InHand
  <2>4. \A i \in DOMAIN virtuals :
          virtuals[i] = a => i \in DOMAIN virtuals' /\ virtuals'[i] = a
    BY <1>11 DEF CloseMeta, RemoveMeta, Without, FilesWithout, At
  <2>5. \A i \in DOMAIN sessions \cap DOMAIN virtuals :
          virtuals[i] = a => i \in DOMAIN sessions' \/ InHand(c, a)'
    BY <1>11 DEF CloseMeta
  <2> QED
    BY <2>1, <2>2, <2>3, <2>4, <2>5, StillInHand
<1>12. ASSUME NEW c \in Callers, NEW id \in known, CloseVirtual(c, id)
      PROVE  NothingLeaks'
  <2> SUFFICES ASSUME NEW a \in files' \ abandoned'
               PROVE  InUse(a)' \/ \E d \in Callers : InHand(d, a)'
    BY DEF NothingLeaks
  <2>1. a \in files \ abandoned
    BY <1>12 DEF CloseVirtual
  <2>2. \A d \in Callers : d # c => call'[d] = call[d]
    BY <1>12 DEF CloseVirtual
  <2>3. InHand(c, a) => InHand(c, a)' \/ InUse(a)'
    BY <1>12 DEF CloseVirtual, At, InHand
  <2>4. \A i \in DOMAIN virtuals :
          virtuals[i] = a => i \in DOMAIN virtuals' /\ virtuals'[i] = a
    BY <1>12 DEF CloseVirtual, At
  <2>5. \A i \in DOMAIN sessions \cap DOMAIN virtuals :
          virtuals[i] = a => i \in DOMAIN sessions' \/ InHand(c, a)'
    BY <1>12 DEF CloseVirtual
  <2> QED
    BY <2>1, <2>2, <2>3, <2>4, <2>5, StillInHand
<1>13. ASSUME NEW c \in Callers, CloseVirtualRead(c)
      PROVE  NothingLeaks'
  <2> SUFFICES ASSUME NEW a \in files' \ abandoned'
               PROVE  InUse(a)' \/ \E d \in Callers : InHand(d, a)'
    BY DEF NothingLeaks
  <2>1. a \in files \ abandoned
    BY <1>13 DEF CloseVirtualRead
  <2>2. \A d \in Callers : d # c => call'[d] = call[d]
    BY <1>13 DEF CloseVirtualRead
  <2>3. InHand(c, a) => InHand(c, a)' \/ InUse(a)'
    BY <1>13 DEF CloseVirtualRead, At, InHand
  <2>4. \A i \in DOMAIN virtuals :
          virtuals[i] = a => i \in DOMAIN virtuals' /\ virtuals'[i] = a
    BY <1>13 DEF CloseVirtualRead, At
  <2>5. \A i \in DOMAIN sessions \cap DOMAIN virtuals :
          virtuals[i] = a => i \in DOMAIN sessions' \/ InHand(c, a)'
    BY <1>13 DEF CloseVirtualRead, Without, At, InHand
  <2> QED
    BY <2>1, <2>2, <2>3, <2>4, <2>5, StillInHand
<1>14. ASSUME NEW c \in Callers, CloseVirtualMeta(c)
      PROVE  NothingLeaks'
  <2> SUFFICES ASSUME NEW a \in files' \ abandoned'
               PROVE  InUse(a)' \/ \E d \in Callers : InHand(d, a)'
    BY DEF NothingLeaks
  <2>1. a \in files \ abandoned
    BY <1>14 DEF CloseVirtualMeta, RemoveMeta, Without, FilesWithout
  <2>2. \A d \in Callers : d # c => call'[d] = call[d]
    BY <1>14 DEF CloseVirtualMeta, GoOn
  <2>3. InHand(c, a) => InHand(c, a)' \/ InUse(a)'
    BY <1>14 DEF CloseVirtualMeta, GoOn, RemoveMeta, Without, FilesWithout, At,
       InHand
  <2>4. \A i \in DOMAIN virtuals :
          virtuals[i] = a => i \in DOMAIN virtuals' /\ virtuals'[i] = a
    BY <1>14 DEF CloseVirtualMeta, RemoveMeta, Without, FilesWithout, At
  <2>5. \A i \in DOMAIN sessions \cap DOMAIN virtuals :
          virtuals[i] = a => i \in DOMAIN sessions' \/ InHand(c, a)'
    BY <1>14 DEF CloseVirtualMeta
  <2> QED
    BY <2>1, <2>2, <2>3, <2>4, <2>5, StillInHand
<1>15. ASSUME NEW c \in Callers, CloseVirtualEnd(c)
      PROVE  NothingLeaks'
  <2> SUFFICES ASSUME NEW a \in files' \ abandoned'
               PROVE  InUse(a)' \/ \E d \in Callers : InHand(d, a)'
    BY DEF NothingLeaks
  <2>1. a \in files \ abandoned
    BY <1>15 DEF CloseVirtualEnd, Without, FilesWithout
  <2>2. \A d \in Callers : d # c => call'[d] = call[d]
    BY <1>15 DEF CloseVirtualEnd, Return, Idle
  <2>3. InHand(c, a) => InHand(c, a)' \/ InUse(a)'
    BY <1>15 DEF CloseVirtualEnd, Return, Idle, Without, FilesWithout, At,
       InHand
  <2>4. \A i \in DOMAIN virtuals :
          virtuals[i] = a => i \in DOMAIN virtuals' /\ virtuals'[i] = a
    BY <1>15 DEF CloseVirtualEnd, Without, FilesWithout, At
  <2>5. \A i \in DOMAIN sessions \cap DOMAIN virtuals :
          virtuals[i] = a => i \in DOMAIN sessions' \/ InHand(c, a)'
    BY <1>15 DEF CloseVirtualEnd
  <2> QED
    BY <2>1, <2>2, <2>3, <2>4, <2>5, StillInHand
<1>16. CASE ProcessEnds
  BY <1>16 DEF ProcessEnds, NothingLeaks
<1>17. CASE UNCHANGED vars
  BY <1>17 DEF vars, NothingLeaks, InUse, InHand
<1> QED
  BY <1>1, <1>2, <1>3, <1>4, <1>5, <1>6, <1>7, <1>8, <1>9, <1>10, <1>11, <1>12,
     <1>13, <1>14, <1>15, <1>16, <1>17 DEF Next

-----------------------------------------------------------------------------
(* One close of each session succeeds *)

\* A step of a call that has removed no session, before or after it.
LEMMA ClosesKept ==
  ASSUME OneClose, closed \in [Ids -> Nat], NEW c \in Callers,
         \A d \in Callers : d # c => call'[d] = call[d],
         ~call[c].removed, ~call'[c].removed,
         call'[c].pc \notin {"closeMeta", "closeVirtualMeta"},
         closed' = closed, known' \subseteq Ids, known \subseteq known',
         \A i \in known : i \in DOMAIN sessions <=> i \in DOMAIN sessions',
         \A i \in known' : i \in known \/ i \in DOMAIN sessions'
  PROVE  OneClose'
<1>1. \A d \in Callers : d # c =>
        /\ call'[d].pc = call[d].pc /\ call'[d].id = call[d].id
        /\ call'[d].removed = call[d].removed
  OBVIOUS
<1>2. /\ \A d \in Callers : call'[d].removed => call'[d].pc \in Closing
      /\ \A d \in Callers : call'[d].removed => call'[d].pc # "closeVirtual"
      /\ \A d \in Callers :
           call'[d].pc \in {"closeMeta", "closeVirtualMeta"} => call'[d].removed
  BY <1>1 DEF OneClose
<1>3. /\ \A d \in Callers : call'[d].removed => closed'[call'[d].id] = 0
      /\ \A d, e \in Callers :
           call'[d].removed /\ call'[e].removed /\ call'[d].id = call'[e].id
             => d = e
  BY <1>1 DEF OneClose
<1>4. \A i \in Ids \ known' : closed'[i] = 0
  BY DEF OneClose
<1>5. \A i \in known' :
        /\ i \in DOMAIN sessions' => closed'[i] = 0
        /\ closed'[i] \in {0, 1}
  BY DEF OneClose
<1>6. ASSUME NEW i \in known', i \notin DOMAIN sessions', closed'[i] # 1
      PROVE  \E d \in Callers : call'[d].id = i /\ call'[d].removed
  <2>1. i \in known /\ i \notin DOMAIN sessions /\ closed[i] # 1
    BY <1>6
  <2>2. PICK d \in Callers : call[d].id = i /\ call[d].removed
    BY <2>1 DEF OneClose
  <2>3. d # c
    BY <2>2
  <2> QED
    BY <1>1, <2>2, <2>3
<1> QED
  BY <1>2, <1>3, <1>4, <1>5, <1>6 DEF OneClose

\* The step that removes a session.
LEMMA CloseRemoves ==
  ASSUME OneClose, closed \in [Ids -> Nat], known \subseteq Ids,
         NEW c \in Callers, NEW id \in known, id \in DOMAIN sessions,
         \A d \in Callers : d # c => call'[d] = call[d],
         \A d \in Callers : call[d].removed => call[d].id \notin DOMAIN sessions,
         ~call[c].removed, call'[c].id = id, call'[c].removed,
         call'[c].pc \in Closing, call'[c].pc # "closeVirtual",
         closed' = closed, known' = known,
         DOMAIN sessions' = DOMAIN sessions \ {id}
  PROVE  OneClose'
<1>1. \A d \in Callers : d # c =>
        /\ call'[d].pc = call[d].pc /\ call'[d].id = call[d].id
        /\ call'[d].removed = call[d].removed
  OBVIOUS
<1>2. /\ \A d \in Callers : call'[d].removed => call'[d].pc \in Closing
      /\ \A d \in Callers : call'[d].removed => call'[d].pc # "closeVirtual"
      /\ \A d \in Callers :
           call'[d].pc \in {"closeMeta", "closeVirtualMeta"} => call'[d].removed
  BY <1>1 DEF OneClose
<1>3. /\ \A d \in Callers : call'[d].removed => closed'[call'[d].id] = 0
      /\ \A d, e \in Callers :
           call'[d].removed /\ call'[e].removed /\ call'[d].id = call'[e].id
             => d = e
  BY <1>1 DEF OneClose
<1>4. \A i \in Ids \ known' : closed'[i] = 0
  BY DEF OneClose
<1>5. \A i \in known' :
        /\ i \in DOMAIN sessions' => closed'[i] = 0
        /\ closed'[i] \in {0, 1}
  BY DEF OneClose
<1>6. ASSUME NEW i \in known', i \notin DOMAIN sessions', closed'[i] # 1
      PROVE  \E d \in Callers : call'[d].id = i /\ call'[d].removed
  <2>1. CASE i = id
    BY <2>1
  <2>2. CASE i # id
    <3>1. i \in known /\ i \notin DOMAIN sessions /\ closed[i] # 1
      BY <1>6, <2>2
    <3>2. PICK d \in Callers : call[d].id = i /\ call[d].removed
      BY <3>1 DEF OneClose
    <3>3. d # c
      BY <3>2
    <3> QED
      BY <1>1, <3>2, <3>3
  <2> QED
    BY <2>1, <2>2
<1> QED
  BY <1>2, <1>3, <1>4, <1>5, <1>6 DEF OneClose

\* The step in which the close that removed the session returns.
LEMMA CloseReturns ==
  ASSUME OneClose, closed \in [Ids -> Nat], known \subseteq Ids,
         NEW c \in Callers, call[c].removed,
         call[c].id \in known, call[c].id \notin DOMAIN sessions,
         \A d \in Callers : d # c => call'[d] = call[d],
         call'[c] = Idle,
         closed' = [closed EXCEPT ![call[c].id] = @ + 1],
         known' = known, sessions' = sessions
  PROVE  OneClose'
<1>1. /\ \A d \in Callers : d # c =>
           /\ call'[d].pc = call[d].pc /\ call'[d].id = call[d].id
           /\ call'[d].removed = call[d].removed
      /\ call'[c].pc = "idle" /\ ~call'[c].removed
  BY DEF Idle
<1>counts. /\ closed[call[c].id] = 0 /\ closed'[call[c].id] = 1
      /\ \A i \in Ids : i # call[c].id => closed'[i] = closed[i]
  BY DEF OneClose
<1>others. \A d \in Callers :
        d # c /\ call[d].removed =>
          call[d].id # call[c].id /\ closed[call[d].id] = 0
  BY DEF OneClose
<1>2. /\ \A d \in Callers : call'[d].removed => call'[d].pc \in Closing
      /\ \A d \in Callers : call'[d].removed => call'[d].pc # "closeVirtual"
      /\ \A d \in Callers :
           call'[d].pc \in {"closeMeta", "closeVirtualMeta"} => call'[d].removed
  BY <1>1 DEF OneClose
<1>3. /\ \A d \in Callers : call'[d].removed => closed'[call'[d].id] = 0
      /\ \A d, e \in Callers :
           call'[d].removed /\ call'[e].removed /\ call'[d].id = call'[e].id
             => d = e
  BY <1>1, <1>counts, <1>others DEF OneClose
<1>4. \A i \in Ids \ known' : closed'[i] = 0
  BY <1>counts DEF OneClose
<1>5. \A i \in known' :
        /\ i \in DOMAIN sessions' => closed'[i] = 0
        /\ closed'[i] \in {0, 1}
  BY <1>counts DEF OneClose
<1>6. ASSUME NEW i \in known', i \notin DOMAIN sessions', closed'[i] # 1
      PROVE  \E d \in Callers : call'[d].id = i /\ call'[d].removed
  <2>1. i \in known /\ i \notin DOMAIN sessions /\ closed[i] # 1 /\ i # call[c].id
    BY <1>6, <1>counts
  <2>2. PICK d \in Callers : call[d].id = i /\ call[d].removed
    BY <2>1 DEF OneClose
  <2> QED
    BY <1>1, <2>1, <2>2
<1> QED
  BY <1>2, <1>3, <1>4, <1>5, <1>6 DEF OneClose

\* Every step keeps the account of who removed a session.
LEMMA CloseStep ==
  ASSUME IInv, [Next]_vars
  PROVE  OneClose'
<1> USE Bounds DEF IInv, TypeOK, Call, tables, names, history, Ids
<1>1. ASSUME NEW c \in Callers, OpenSource(c)
      PROVE  OneClose'
  <2>1. \A d \in Callers : d # c => call'[d] = call[d]
    BY <1>1 DEF OpenSource, FreshId
  <2>2. /\ ~call[c].removed /\ ~call'[c].removed
        /\ call'[c].pc \notin {"closeMeta", "closeVirtualMeta"}
    BY <1>1 DEF OpenSource, FreshId, At, OneClose, Closing, ClosingVirtual
  <2>3. closed' = closed /\ known' \subseteq Ids /\ known \subseteq known'
    BY <1>1 DEF OpenSource
  <2>4. /\ \A i \in known : i \in DOMAIN sessions <=> i \in DOMAIN sessions'
        /\ \A i \in known' : i \in known \/ i \in DOMAIN sessions'
    BY <1>1 DEF OpenSource
  <2> QED
    BY <2>1, <2>2, <2>3, <2>4, ClosesKept
<1>2. ASSUME NEW c \in Callers, InsertSource(c)
      PROVE  OneClose'
  <2>1. \A d \in Callers : d # c => call'[d] = call[d]
    BY <1>2 DEF InsertSource, Return, Idle
  <2>2. /\ ~call[c].removed /\ ~call'[c].removed
        /\ call'[c].pc \notin {"closeMeta", "closeVirtualMeta"}
    BY <1>2 DEF InsertSource, Return, Idle, At, OneClose, Closing,
       ClosingVirtual
  <2>id. call[c].id \in Ids
    BY <1>2 DEF InsertSource, At, IdsSound, Pending
  <2>3. closed' = closed /\ known' \subseteq Ids /\ known \subseteq known'
    BY <2>id, <1>2 DEF InsertSource
  <2>4. /\ \A i \in known : i \in DOMAIN sessions <=> i \in DOMAIN sessions'
        /\ \A i \in known' : i \in known \/ i \in DOMAIN sessions'
    BY <1>2 DEF InsertSource, WithEntry, At, IdsSound, Pending
  <2> QED
    BY <2>1, <2>2, <2>3, <2>4, ClosesKept
<1>3. ASSUME NEW c \in Callers, NEW members \in MemberLists,
             OpenVirtual(c, members)
      PROVE  OneClose'
  <2>before. /\ call[c].pc = "idle"
        /\ nextArtifact \in Artifacts /\ nextArtifact' = nextArtifact + 1
        /\ call' = [call EXCEPT ![c] =
              [pc |-> "assemble", id |-> call[c].id, artifact |-> nextArtifact,
               members |-> members, removed |-> call[c].removed]]
    BY <1>3, OpenVirtualEffect
  <2>after. /\ sessions' = sessions /\ virtuals' = virtuals
        /\ nextSession' = nextSession /\ known' = known
        /\ files' = files /\ abandoned' = abandoned /\ closed' = closed
    BY <1>3, OpenVirtualEffect
  <2>1. \A d \in Callers : d # c => call'[d] = call[d]
    BY <2>before, <2>after
  <2>2. /\ ~call[c].removed /\ ~call'[c].removed
        /\ call'[c].pc \notin {"closeMeta", "closeVirtualMeta"}
    BY <2>before, <2>after DEF At, OneClose, Closing, ClosingVirtual
  <2>3. closed' = closed /\ known' \subseteq Ids /\ known \subseteq known'
    BY <2>before, <2>after
  <2>4. /\ \A i \in known : i \in DOMAIN sessions <=> i \in DOMAIN sessions'
        /\ \A i \in known' : i \in known \/ i \in DOMAIN sessions'
    BY <2>before, <2>after
  <2> QED
    BY <2>1, <2>2, <2>3, <2>4, ClosesKept
<1>4. ASSUME NEW c \in Callers, Assemble(c)
      PROVE  OneClose'
  <2>1. \A d \in Callers : d # c => call'[d] = call[d]
    BY <1>4 DEF Assemble, GoOn
  <2>2. /\ ~call[c].removed /\ ~call'[c].removed
        /\ call'[c].pc \notin {"closeMeta", "closeVirtualMeta"}
    BY <1>4 DEF Assemble, GoOn, At, OneClose, Closing, ClosingVirtual
  <2>3. closed' = closed /\ known' \subseteq Ids /\ known \subseteq known'
    BY <1>4 DEF Assemble
  <2>4. /\ \A i \in known : i \in DOMAIN sessions <=> i \in DOMAIN sessions'
        /\ \A i \in known' : i \in known \/ i \in DOMAIN sessions'
    BY <1>4 DEF Assemble
  <2> QED
    BY <2>1, <2>2, <2>3, <2>4, ClosesKept
<1>5. ASSUME NEW c \in Callers, AssembleFails(c)
      PROVE  OneClose'
  <2>1. \A d \in Callers : d # c => call'[d] = call[d]
    BY <1>5 DEF AssembleFails, Return, Idle
  <2>2. /\ ~call[c].removed /\ ~call'[c].removed
        /\ call'[c].pc \notin {"closeMeta", "closeVirtualMeta"}
    BY <1>5 DEF AssembleFails, Return, Idle, At, OneClose, Closing,
       ClosingVirtual
  <2>3. closed' = closed /\ known' \subseteq Ids /\ known \subseteq known'
    BY <1>5 DEF AssembleFails
  <2>4. /\ \A i \in known : i \in DOMAIN sessions <=> i \in DOMAIN sessions'
        /\ \A i \in known' : i \in known \/ i \in DOMAIN sessions'
    BY <1>5 DEF AssembleFails
  <2> QED
    BY <2>1, <2>2, <2>3, <2>4, ClosesKept
<1>6. ASSUME NEW c \in Callers, OpenArtifact(c)
      PROVE  OneClose'
  <2>1. \A d \in Callers : d # c => call'[d] = call[d]
    BY <1>6 DEF OpenArtifact, FreshId
  <2>2. /\ ~call[c].removed /\ ~call'[c].removed
        /\ call'[c].pc \notin {"closeMeta", "closeVirtualMeta"}
    BY <1>6 DEF OpenArtifact, FreshId, At, OneClose, Closing, ClosingVirtual
  <2>3. closed' = closed /\ known' \subseteq Ids /\ known \subseteq known'
    BY <1>6 DEF OpenArtifact
  <2>4. /\ \A i \in known : i \in DOMAIN sessions <=> i \in DOMAIN sessions'
        /\ \A i \in known' : i \in known \/ i \in DOMAIN sessions'
    BY <1>6 DEF OpenArtifact
  <2> QED
    BY <2>1, <2>2, <2>3, <2>4, ClosesKept
<1>7. ASSUME NEW c \in Callers, OpenArtifactFails(c)
      PROVE  OneClose'
  <2>1. \A d \in Callers : d # c => call'[d] = call[d]
    BY <1>7 DEF OpenArtifactFails, Return, Idle
  <2>2. /\ ~call[c].removed /\ ~call'[c].removed
        /\ call'[c].pc \notin {"closeMeta", "closeVirtualMeta"}
    BY <1>7 DEF OpenArtifactFails, Return, Idle, At, OneClose, Closing,
       ClosingVirtual
  <2>3. closed' = closed /\ known' \subseteq Ids /\ known \subseteq known'
    BY <1>7 DEF OpenArtifactFails
  <2>4. /\ \A i \in known : i \in DOMAIN sessions <=> i \in DOMAIN sessions'
        /\ \A i \in known' : i \in known \/ i \in DOMAIN sessions'
    BY <1>7 DEF OpenArtifactFails
  <2> QED
    BY <2>1, <2>2, <2>3, <2>4, ClosesKept
<1>8. ASSUME NEW c \in Callers, InsertRead(c)
      PROVE  OneClose'
  <2>1. \A d \in Callers : d # c => call'[d] = call[d]
    BY <1>8 DEF InsertRead, GoOn
  <2>0. ~call[c].removed
    BY <1>8 DEF InsertRead, At, OneClose, Closing, ClosingVirtual
  <2>2. /\ ~call[c].removed /\ ~call'[c].removed
        /\ call'[c].pc \notin {"closeMeta", "closeVirtualMeta"}
    BY <2>0, <1>8 DEF InsertRead, GoOn
  <2>3. closed' = closed /\ known' \subseteq Ids /\ known \subseteq known'
    BY <1>8 DEF InsertRead
  <2>4. /\ \A i \in known : i \in DOMAIN sessions <=> i \in DOMAIN sessions'
        /\ \A i \in known' : i \in known \/ i \in DOMAIN sessions'
    BY <1>8 DEF InsertRead, WithEntry, At, IdsSound, Pending
  <2> QED
    BY <2>1, <2>2, <2>3, <2>4, ClosesKept
<1>9. ASSUME NEW c \in Callers, InsertMeta(c)
      PROVE  OneClose'
  <2>1. \A d \in Callers : d # c => call'[d] = call[d]
    BY <1>9 DEF InsertMeta, Return, Idle
  <2>2. /\ ~call[c].removed /\ ~call'[c].removed
        /\ call'[c].pc \notin {"closeMeta", "closeVirtualMeta"}
    BY <1>9 DEF InsertMeta, Return, Idle, At, OneClose, Closing, ClosingVirtual
  <2>id. call[c].id \in Ids
    BY <1>9 DEF InsertMeta, At, IdsSound, Pending
  <2>3. closed' = closed /\ known' \subseteq Ids /\ known \subseteq known'
    BY <2>id, <1>9 DEF InsertMeta
  <2>4. /\ \A i \in known : i \in DOMAIN sessions <=> i \in DOMAIN sessions'
        /\ \A i \in known' : i \in known \/ i \in DOMAIN sessions'
    BY <1>9 DEF InsertMeta, At, OneOwner
  <2> QED
    BY <2>1, <2>2, <2>3, <2>4, ClosesKept
<1>10. ASSUME NEW c \in Callers, NEW id \in known, CloseSource(c, id)
      PROVE  OneClose'
  <2>1. /\ \A d \in Callers : d # c => call'[d] = call[d]
        /\ ~call[c].removed /\ call'[c].removed
        /\ call'[c].id = id /\ call'[c].pc = "closeMeta"
    BY <1>10 DEF CloseSource, At, OneClose, Closing, ClosingVirtual
  <2>2. /\ closed' = closed /\ known' = known /\ id \in DOMAIN sessions
        /\ DOMAIN sessions' = DOMAIN sessions \ {id}
    BY <1>10 DEF CloseSource, IsOpen, Without
  <2>3. \A d \in Callers : call[d].removed => call[d].id \notin DOMAIN sessions
    BY DEF OneClose, IdsSound
  <2>4. "closeMeta" \in Closing
    BY DEF Closing
  <2> QED
    BY <2>1, <2>2, <2>3, <2>4, CloseRemoves
<1>11. ASSUME NEW c \in Callers, CloseMeta(c)
      PROVE  OneClose'
  <2>1. /\ call[c].removed /\ call[c].id \in known
        /\ call[c].id \notin DOMAIN sessions
    BY <1>11 DEF CloseMeta, At, OneClose, IdsSound, Closing, ClosingVirtual
  <2>2. /\ \A d \in Callers : d # c => call'[d] = call[d]
        /\ call'[c] = Idle
    BY <1>11 DEF CloseMeta, Return
  <2>3. /\ closed' = [closed EXCEPT ![call[c].id] = @ + 1]
        /\ known' = known /\ sessions' = sessions
    BY <1>11 DEF CloseMeta
  <2> QED
    BY <2>1, <2>2, <2>3, CloseReturns
<1>12. ASSUME NEW c \in Callers, NEW id \in known, CloseVirtual(c, id)
      PROVE  OneClose'
  <2>1. \A d \in Callers : d # c => call'[d] = call[d]
    BY <1>12 DEF CloseVirtual
  <2>2. /\ ~call[c].removed /\ ~call'[c].removed
        /\ call'[c].pc \notin {"closeMeta", "closeVirtualMeta"}
    BY <1>12 DEF CloseVirtual, At, OneClose, Closing, ClosingVirtual
  <2>3. closed' = closed /\ known' \subseteq Ids /\ known \subseteq known'
    BY <1>12 DEF CloseVirtual
  <2>4. /\ \A i \in known : i \in DOMAIN sessions <=> i \in DOMAIN sessions'
        /\ \A i \in known' : i \in known \/ i \in DOMAIN sessions'
    BY <1>12 DEF CloseVirtual
  <2> QED
    BY <2>1, <2>2, <2>3, <2>4, ClosesKept
<1>13. ASSUME NEW c \in Callers, CloseVirtualRead(c)
      PROVE  OneClose'
  <2>1. /\ \A d \in Callers : d # c => call'[d] = call[d]
        /\ ~call[c].removed /\ call'[c].removed = IsOpen(call[c].id)
        /\ call'[c].id = call[c].id /\ call[c].id \in known
        /\ call'[c].pc = IF IsOpen(call[c].id) THEN "closeVirtualMeta"
                                               ELSE "closeVirtualEnd"
    BY <1>13 DEF CloseVirtualRead, At, OneClose, IdsSound, Closing,
       ClosingVirtual
  <2>2. /\ closed' = closed /\ known' = known
        /\ DOMAIN sessions' = DOMAIN sessions \ {call[c].id}
    BY <1>13 DEF CloseVirtualRead, Without
  <2>3. CASE IsOpen(call[c].id)
    <3>1. \A d \in Callers : call[d].removed => call[d].id \notin DOMAIN sessions
      BY DEF OneClose, IdsSound
    <3>2. /\ call[c].id \in DOMAIN sessions /\ call'[c].removed
          /\ call'[c].pc \in Closing /\ call'[c].pc # "closeVirtual"
      BY <2>1, <2>3 DEF IsOpen, Closing, ClosingVirtual
    <3> QED
      BY <2>1, <2>2, <3>1, <3>2, CloseRemoves
  <2>4. CASE ~IsOpen(call[c].id)
    <3>1. /\ ~call'[c].removed
          /\ call'[c].pc \notin {"closeMeta", "closeVirtualMeta"}
      BY <2>1, <2>4
    <3>2. \A i \in known : i \in DOMAIN sessions <=> i \in DOMAIN sessions'
      BY <2>2, <2>4 DEF IsOpen
    <3> QED
      BY <2>1, <2>2, <3>1, <3>2, ClosesKept
  <2> QED
    BY <2>3, <2>4
<1>14. ASSUME NEW c \in Callers, CloseVirtualMeta(c)
      PROVE  OneClose'
  <2>1. /\ call[c].removed
        /\ \A d \in Callers :
             /\ call'[d].id = call[d].id
             /\ call'[d].removed = call[d].removed
             /\ d # c => call'[d].pc = call[d].pc
        /\ call'[c].pc = "closeVirtualEnd"
    BY <1>14 DEF CloseVirtualMeta, At, GoOn, OneClose
  <2>2. closed' = closed /\ known' = known /\ sessions' = sessions
    BY <1>14 DEF CloseVirtualMeta
  <2>3. \A d \in Callers : call'[d].removed =>
          call'[d].pc \in Closing /\ call'[d].pc # "closeVirtual"
    BY <2>1 DEF OneClose, Closing, ClosingVirtual
  <2>4. \A d \in Callers :
          call'[d].pc \in {"closeMeta", "closeVirtualMeta"} => call'[d].removed
    BY <2>1 DEF OneClose
  <2>5. /\ \A d \in Callers : call'[d].removed => closed'[call'[d].id] = 0
        /\ \A d, e \in Callers :
             call'[d].removed /\ call'[e].removed /\ call'[d].id = call'[e].id
               => d = e
    BY <2>1, <2>2 DEF OneClose
  <2>6. ASSUME NEW i \in known, i \notin DOMAIN sessions, closed[i] # 1
        PROVE  \E d \in Callers : call'[d].id = i /\ call'[d].removed
    <3>1. PICK d \in Callers : call[d].id = i /\ call[d].removed
      BY <2>6 DEF OneClose
    <3> QED
      BY <2>1, <3>1
  <2> QED
    BY <2>2, <2>3, <2>4, <2>5, <2>6 DEF OneClose
<1>15. ASSUME NEW c \in Callers, CloseVirtualEnd(c)
      PROVE  OneClose'
  <2>1. /\ \A d \in Callers : d # c => call'[d] = call[d]
        /\ call'[c] = Idle
    BY <1>15 DEF CloseVirtualEnd, Return
  <2>2. /\ call[c].id \in known /\ call[c].id \notin DOMAIN sessions
        /\ known' = known /\ sessions' = sessions
    BY <1>15 DEF CloseVirtualEnd, At, IdsSound, Closing, ClosingVirtual
  <2>3. CASE call[c].removed
    <3>1. closed' = [closed EXCEPT ![call[c].id] = @ + 1]
      BY <1>15, <2>3 DEF CloseVirtualEnd
    <3> QED
      BY <2>1, <2>2, <2>3, <3>1, CloseReturns
  <2>4. CASE ~call[c].removed
    <3>1. closed' = closed
      BY <1>15, <2>4 DEF CloseVirtualEnd
    <3>2. ~call'[c].removed /\ call'[c].pc = "idle"
      BY <2>1 DEF Idle
    <3> QED
      BY <2>1, <2>2, <2>4, <3>1, <3>2, ClosesKept
  <2> QED
    BY <2>3, <2>4
<1>16. CASE ProcessEnds
  BY <1>16 DEF ProcessEnds, Idle, OneClose
<1>17. CASE UNCHANGED vars
  BY <1>17 DEF vars, OneClose
<1> QED
  BY <1>1, <1>2, <1>3, <1>4, <1>5, <1>6, <1>7, <1>8, <1>9, <1>10, <1>11, <1>12,
     <1>13, <1>14, <1>15, <1>16, <1>17 DEF Next

-----------------------------------------------------------------------------
(* The theorems *)

\* The registry starts empty.
LEMMA InitIInv == Init => IInv
<1> SUFFICES ASSUME Init PROVE IInv
  OBVIOUS
<1>1. call \in [Callers -> Call]
  BY Bounds DEF Init, Idle, Call, Points, MaybeArtifact
<1>2. TypeOK
  BY <1>1, Bounds DEF Init, TypeOK, Ids
<1>3. \A c \in Callers : call[c].pc = "idle" /\ ~call[c].removed
                          /\ call[c].artifact = NoArtifact
  BY DEF Init, Idle
<1>4. IdsSound /\ ArtifactsSound /\ OneOwner /\ CloserHolds
  BY <1>3 DEF Init, IdsSound, ArtifactsSound, OneOwner, CloserHolds, Pending,
     Building, Closing, ClosingVirtual
<1>5. OpenIsBacked /\ NothingLeaks
  BY DEF Init, OpenIsBacked, NothingLeaks
<1>6. OneClose
  BY <1>3 DEF Init, OneClose, Ids
<1> QED
  BY <1>2, <1>4, <1>5, <1>6 DEF IInv

\* The parts together.
LEMMA StepIInv == IInv /\ [Next]_vars => IInv'
BY TypeStep, IdsStep, ArtifactsStep, OwnerStep, CloserStep, BackedStep,
   LeakStep, CloseStep DEF IInv

\* The registry's tables, counters and calls keep the invariant in every
\* interleaving of the critical sections.
THEOREM Invariance == Spec => []IInv
BY InitIInv, StepIInv, PTL DEF Spec

\* Every variable of the registry keeps to its set of values.
THEOREM TypeCorrect == Spec => []TypeOK
<1>1. IInv => TypeOK
  BY DEF IInv
<1> QED
  BY <1>1, Invariance, PTL

\* fr_close_source_session and fr_close_virtual_raid_session never delete the
\* artifact of a session that is still open, whoever else opens or closes.
THEOREM BackedCorrect == Spec => []OpenIsBacked
<1>1. IInv => OpenIsBacked
  BY DEF IInv
<1> QED
  BY <1>1, Invariance, PTL

\* The running process forgets no artifact, whichever of its calls fail or
\* meet in the middle.
THEOREM NoLeak == Spec => []NothingLeaks
<1>1. IInv => NothingLeaks
  BY DEF IInv
<1> QED
  BY <1>1, Invariance, PTL

\* Of all the closes of a session exactly one removes it and returns 0.
THEOREM ClosedOnceCorrect == Spec => []ClosedOnce
<1>1. ASSUME IInv, NEW id \in known
      PROVE  closed[id] + Cardinality(Removing(id)) =
               IF id \in DOMAIN sessions THEN 0 ELSE 1
  <2>1. CASE Removing(id) = {}
    <3>1. Cardinality(Removing(id)) = 0
      BY <2>1, FS_EmptySet
    <3>2. \A c \in Callers : ~(call[c].id = id /\ call[c].removed)
      BY <2>1 DEF Removing
    <3>3. closed[id] = IF id \in DOMAIN sessions THEN 0 ELSE 1
      BY <1>1, <3>2 DEF IInv, OneClose
    <3> QED
      BY <3>1, <3>3
  <2>2. CASE Removing(id) # {}
    <3>1. PICK c \in Callers : call[c].id = id /\ call[c].removed
      BY <2>2 DEF Removing
    <3>2. Removing(id) = {c}
      BY <1>1, <3>1 DEF Removing, IInv, OneClose
    <3>3. Cardinality(Removing(id)) = 1
      BY <3>2, FS_Singleton
    <3>4. closed[id] = 0 /\ id \notin DOMAIN sessions
      BY <1>1, <3>1 DEF IInv, OneClose, IdsSound
    <3> QED
      BY <3>3, <3>4
  <2> QED
    BY <2>1, <2>2
<1>2. IInv => ClosedOnce
  BY <1>1 DEF ClosedOnce
<1> QED
  BY <1>2, Invariance, PTL

\* The ids come from one atomic counter: one that has been closed never names a
\* session again.
THEOREM IdsNotReused == Spec => NeverReopened
<1>1. ASSUME IInv, [Next]_vars, NEW id \in known, id \in known',
             id \notin DOMAIN sessions
      PROVE  id \notin DOMAIN sessions'
  <2>1. ASSUME NEW c \in Callers, InsertSource(c)
        PROVE  id \notin DOMAIN sessions'
    BY <1>1, <2>1 DEF InsertSource, At, WithEntry, IInv, IdsSound, Pending
  <2>2. ASSUME NEW c \in Callers, InsertRead(c)
        PROVE  id \notin DOMAIN sessions'
    BY <1>1, <2>2 DEF InsertRead, At, WithEntry, IInv, IdsSound, Pending
  <2>3. ASSUME NEW c \in Callers, NEW i \in known, CloseSource(c, i)
        PROVE  id \notin DOMAIN sessions'
    BY <1>1, <2>3 DEF CloseSource, Without
  <2>4. ASSUME NEW c \in Callers, CloseVirtualRead(c)
        PROVE  id \notin DOMAIN sessions'
    BY <1>1, <2>4 DEF CloseVirtualRead, Without
  <2>5. CASE ProcessEnds
    BY <1>1, <2>5 DEF ProcessEnds
  <2>6. CASE UNCHANGED sessions
    BY <1>1, <2>6
  <2>7. ASSUME Next PROVE UNCHANGED sessions \/ ProcessEnds
          \/ \E c \in Callers :
               \/ InsertSource(c) \/ InsertRead(c) \/ CloseVirtualRead(c)
               \/ \E i \in known : CloseSource(c, i)
    BY <2>7 DEF Next, OpenSource, OpenVirtual, Assemble, AssembleFails,
       OpenArtifact, OpenArtifactFails, InsertMeta, CloseMeta, CloseVirtual,
       CloseVirtualMeta, CloseVirtualEnd, tables
  <2>8. CASE UNCHANGED vars
    BY <2>6, <2>8 DEF vars, tables
  <2> QED
    BY <1>1, <2>1, <2>2, <2>3, <2>4, <2>5, <2>6, <2>7, <2>8
<1>2. IInv /\ [Next]_vars =>
        [\A id \in known \cap known' :
           id \notin DOMAIN sessions => id \notin DOMAIN sessions']_vars
  BY <1>1
<1> QED
  BY <1>2, Invariance, PTL DEF Spec, NeverReopened
=============================================================================
