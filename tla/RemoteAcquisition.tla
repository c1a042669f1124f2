------------------------- MODULE RemoteAcquisition -------------------------
(***************************************************************************)
(* Acquisitions of which each begins with the agreement of a remote agent, *)
(* where one is asked: AcquireImageAsync as a whole.  The handshake stands *)
(* before everything that reads or changes a file; when it succeeds the    *)
(* acquisition goes on as in ImageAcquisition.                             *)
(***************************************************************************)
EXTENDS ImageAcquisition, RemoteAgent

RemoteInit == Init /\ AgentInit

\* A handshake, while no other call is at work.
Handshake == pc = "idle" /\ AgentNext /\ UNCHANGED vars

\* Late copies of a request arrive while the acquisition is at work.
LateExecute ==
  /\ pc # "idle"
  /\ \E r \in Requests : Execute(r)
  /\ UNCHANGED vars

\* The call goes on to the files, which it does once.
BeginAgreed ==
  /\ phase = "agreed"
  /\ Begin
  /\ phase' = "used"
  /\ UNCHANGED <<hasKey, endpoint, number, attempt, answer, sent, executed>>

RemoteWork == (Work \/ Surroundings) /\ UNCHANGED agentVars

\* The power fails, which ends a handshake too; what is missing on the disk is
\* missing before the next one.
RemoteOutage ==
  \/ PowerLoss /\ IF phase \in {"idle", "used"} THEN UNCHANGED agentVars ELSE Refused
  \/ LoseUnflushed /\ phase \in {"idle", "used"} /\ UNCHANGED agentVars

RemoteNext ==
  Handshake \/ LateExecute \/ BeginAgreed \/ RemoteWork \/ RemoteOutage

allVars == <<vars, agentVars>>

\* The HTTP client answers, fails or times out on every attempt, and every delay
\* ends; nothing is assumed of the agent or the network.
RemoteSpec ==
  /\ RemoteInit /\ [][RemoteNext]_allVars
  /\ WF_allVars(pc = "idle" /\ Client /\ UNCHANGED vars)

-----------------------------------------------------------------------------
\* No file is worked on before the agreement this call needs.  With a shared
\* key, an agreement means that the agent has carried out this very request:
\* neither the answer to another one, nor one completed with the fields of the
\* request, nor the loopback runtime will do (but for an endpoint that is no URI,
\* whose request has no session).  Without a key the agent of an http endpoint
\* has at least carried out some request.
WorksOnAgreement ==
  pc # "idle" /\ endpoint # "none" =>
    /\ phase = "used"
    /\ HasSession => endpoint = "http" /\ number \in executed
    /\ endpoint \notin {"scheme", "odd"} => executed # {}

Asking == phase \in {"loopback", "send", "wait", "backoff", "check"}

\* Every handshake ends, however often an attempt fails, and until then its
\* variables keep to their sets of values.
HandshakeEnds == []AgentTypeOK /\ (Asking ~> ~Asking)

=============================================================================
