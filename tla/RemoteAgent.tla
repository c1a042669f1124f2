---------------------------- MODULE RemoteAgent ----------------------------
(***************************************************************************)
(* The agreement with a remote agent that precedes an acquisition:         *)
(* ExecuteRemoteAcquisitionHandshakeAsync, ValidateRemoteResponseSession   *)
(* and the runtimes behind them (hybrid, HTTP with its retries, loopback). *)
(*                                                                         *)
(* Requests are numbered: a number stands for the GUID, the nonce and the  *)
(* session id of a request, which are fresh for every one; all attempts of *)
(* a request carry the same.  The agent and the network are not part of    *)
(* the program: a request may be lost, arrive late, be carried out without *)
(* an answer that arrives, or be answered with what answered an earlier    *)
(* one; an answer may leave fields out.                                    *)
(***************************************************************************)
EXTENDS Integers

CONSTANTS
  MaxAttempts,     \* HttpRemoteAgentRuntime.MaxAttempts
  MaxRequests      \* bound: handshakes

ASSUME RemoteAssumption == MaxAttempts \in Nat \ {0} /\ MaxRequests \in Nat

VARIABLES
  hasKey,          \* FR_REMOTE_AGENT_SHARED_KEY is set
  phase, endpoint, number, attempt,
  answer,          \* the answer that is being checked
  sent, executed   \* the requests that left, and those the agent carried out

agentVars == <<hasKey, phase, endpoint, number, attempt, answer, sent, executed>>

\* none: no agent is asked.  blank: no endpoint.  path: no scheme.  scheme:
\* another than http, for the loopback runtime.  odd: "://" in what is no URI, which
\* that runtime takes too.  lan: http to another host.  http: https, or http to
\* this host.
Endpoints == {"none", "blank", "path", "scheme", "odd", "lan", "http"}
Requests == 1 .. MaxRequests

\* An answer: the request id it names, whose hash and session it repeats, and
\* the request over which its session is signed with the shared key; 0 for what
\* is left out or is nothing of ours.  The hash is over what is asked for, so
\* that two requests for the same have the same: "this" is that of the request.
Answer ==
  [ok : BOOLEAN, id : 0 .. MaxRequests, hash : {"this", "other", "absent"},
   session : 0 .. MaxRequests, signed : 0 .. MaxRequests,
   time : {"early", "within", "late"}]
NoAnswer ==
  [ok |-> FALSE, id |-> 0, hash |-> "absent", session |-> 0, signed |-> 0, time |-> "within"]

AnswersAbout(r, hashes) ==
  {a \in [ok : {TRUE}, id : {0, r}, hash : hashes, session : {0, r}, signed : {0, r},
          time : {"early", "within", "late"}] : a.session = 0 => a.signed = 0}

AgentInit ==
  /\ hasKey \in BOOLEAN
  /\ phase = "idle"
  /\ endpoint = "none"
  /\ number = 0
  /\ attempt = 0
  /\ answer = NoAnswer
  /\ sent = {}
  /\ executed = {}

-----------------------------------------------------------------------------
(* The runtimes *)

\* The handshake ends without an agreement: AcquireImageAsync throws.
Refused ==
  /\ phase' = "idle"
  /\ endpoint' = "none"
  /\ attempt' = 0
  /\ answer' = NoAnswer
  /\ UNCHANGED <<hasKey, number, sent, executed>>

\* A new handshake is prepared: HybridRemoteAgentRuntime sends http and https to
\* the HTTP runtime and everything else to the loopback runtime.
Ask(e) ==
  /\ phase \in {"idle", "used"}
  /\ number < MaxRequests
  /\ number' = number + 1
  /\ endpoint' = e
  /\ phase' = CASE e = "none" -> "agreed"
                [] e \in {"lan", "http"} -> "send"
                [] OTHER -> "loopback"
  /\ UNCHANGED <<hasKey, attempt, answer, sent, executed>>

\* The loopback runtime repeats the hashes of a request for any endpoint with
\* "://" in it, and knows no sessions.
Loopback ==
  /\ phase = "loopback"
  /\ \/ endpoint \in {"blank", "path"} /\ Refused
     \/ /\ endpoint \in {"scheme", "odd"}
        /\ phase' = "check"
        /\ answer' = [ok |-> TRUE, id |-> number, hash |-> "this", session |-> 0,
                      signed |-> 0, time |-> "within"]
        /\ UNCHANGED <<hasKey, endpoint, number, attempt, sent, executed>>

RejectTransport ==
  /\ phase = "send" /\ endpoint = "lan"
  /\ Refused

SendAgain == attempt              \* mutant of NextAttempt
NextAttempt == attempt + 1

SendRequest ==
  /\ phase = "send" /\ endpoint = "http"
  /\ phase' = "wait"
  /\ attempt' = NextAttempt
  /\ sent' = sent \cup {number}
  /\ UNCHANGED <<hasKey, endpoint, number, answer, executed>>

\* A timeout, a connection that fails or a transient status: the same request is
\* sent again after a delay, while attempts are left.
RetryOrGiveUp ==
  /\ phase = "wait"
  /\ IF attempt < MaxAttempts
     THEN phase' = "backoff" /\ UNCHANGED <<hasKey, endpoint, number, attempt, answer, sent, executed>>
     ELSE Refused

DelayBeforeRetry ==
  /\ phase = "backoff"
  /\ phase' = "send"
  /\ UNCHANGED <<hasKey, endpoint, number, attempt, answer, sent, executed>>

\* Another status, or a body that is empty, too long or cannot be parsed.
BadResponse ==
  /\ phase = "wait"
  /\ Refused

\* BuildRemoteSessionMetadata: a request has a session when there is a key and
\* the endpoint is a URI.
HasSession == hasKey /\ endpoint # "odd"

\* What an answer leaves out is taken from the request; the session of a request
\* carries no signature of an answer.
FilledIn(a) ==
  [a EXCEPT !.id = IF @ = 0 THEN number ELSE @,
            !.hash = IF @ = "absent" THEN "this" ELSE @,
            !.session = IF @ = 0 /\ HasSession THEN number ELSE @]

Receive(a) ==
  /\ phase = "wait"
  /\ phase' = "check"
  /\ answer' = FilledIn(a)
  /\ UNCHANGED <<hasKey, endpoint, number, attempt, sent, executed>>

\* The agent's own answer to this request, or its refusal; or what a gateway
\* kept of the answer to an earlier one.
ReceiveAny ==
  \/ number \in executed /\ \E a \in AnswersAbout(number, {"this", "absent"}) : Receive(a)
  \/ Receive(NoAnswer)
  \/ \E r \in executed \ {number} :
       \E a \in AnswersAbout(r, {"this", "other", "absent"}) : Receive(a)

\* The agent carries a request out, which it may receive at any time after it
\* was sent.
Execute(r) ==
  /\ r \in sent \ executed
  /\ executed' = executed \cup {r}
  /\ UNCHANGED <<hasKey, phase, endpoint, number, attempt, answer, sent>>

-----------------------------------------------------------------------------
(* The checks of the answer *)

\* ValidateRemoteResponseSession: only of a request with a session.
SessionIsOurs(a) == a.session = number

SignedIfAtAll(a) == a.signed \in {0, number}      \* mutant of SignedByAgent
SignedByAgent(a) == a.signed = number

SessionIsValid(a) ==
  HasSession => SessionIsOurs(a) /\ a.time = "within" /\ SignedByAgent(a)

Agrees(a) == a.ok /\ a.id = number /\ a.hash = "this" /\ SessionIsValid(a)

Agree ==
  /\ phase = "check"
  /\ Agrees(answer)
  /\ phase' = "agreed"
  /\ answer' = NoAnswer
  /\ attempt' = 0
  /\ UNCHANGED <<hasKey, endpoint, number, sent, executed>>

Disagree ==
  /\ phase = "check"
  /\ ~Agrees(answer)
  /\ Refused

\* The user cancels: sending, waiting and the delay throw.
CancelHandshake ==
  /\ phase \in {"loopback", "send", "wait", "backoff"}
  /\ Refused

\* After the agreement, the source cannot be found or opened, or the state log
\* cannot be parsed: nothing is written.
Withdraw ==
  /\ phase = "agreed"
  /\ Refused

Client ==
  \/ Loopback \/ RejectTransport \/ SendRequest \/ RetryOrGiveUp
  \/ DelayBeforeRetry \/ BadResponse \/ ReceiveAny \/ Agree \/ Disagree

AgentNext ==
  \/ \E e \in Endpoints : Ask(e)
  \/ Client
  \/ CancelHandshake
  \/ Withdraw
  \/ \E r \in Requests : Execute(r)

AgentTypeOK ==
  /\ hasKey \in BOOLEAN
  /\ phase \in {"idle", "loopback", "send", "wait", "backoff", "check", "agreed", "used"}
  /\ endpoint \in Endpoints
  /\ number \in 0 .. MaxRequests
  /\ attempt \in 0 .. MaxAttempts
  /\ answer \in Answer
  /\ sent \subseteq Requests
  /\ executed \subseteq sent

=============================================================================
