-------------------------------- MODULE LocEngNi --------------------------------
(***************************************************************************)
(* Network initiated requests of loc_eng_ni.cpp: the modem asks whether    *)
(* somebody may locate the user, the framework shows the request and sends *)
(* the answer back.  There are two sessions, one for emergency requests    *)
(* ("es") and one for all others ("supl").                                 *)
(*                                                                         *)
(* The threads: the MsgTask handles the modem's requests, the engine's     *)
(* restart and the answers; every accepted request starts a detached       *)
(* ni_thread_proc that waits for the user or for its timeout; and the      *)
(* framework's thread calls loc_eng_ni_respond.  tLock of a session        *)
(* protects resp and respRecvd; rawRequest, reqID and respTimeLeft are     *)
(* also read and written without it, which is why the steps below are cut  *)
(* where they are.                                                         *)
(*                                                                         *)
(* Time is not counted: a wait may time out whenever Timeouts holds.  That *)
(* the handler mutes a session on a privacy override is in LocEngSession.  *)
(***************************************************************************)
EXTENDS Naturals, Sequences

CONSTANTS
  Kinds,         \* kinds of request the modem makes: "supl", "es"
  Answers,       \* what the user may answer: "ACCEPT", "DENY"
  MaxRequests,   \* bound: requests of the modem
  MaxRestarts,   \* bound: restarts of the engine
  MaxEvents,     \* bound: requests and restarts together
  Timeouts,      \* whether a wait may time out
  CreateFails    \* whether pthread_create may fail

ASSUME NiAssumption ==
  /\ Kinds \subseteq {"supl", "es"}
  /\ Answers \subseteq {"ACCEPT", "DENY", "NORESP"}
  /\ MaxRequests \in Nat \ {0}
  /\ MaxRestarts \in Nat
  /\ MaxEvents \in Nat
  /\ Timeouts \in BOOLEAN
  /\ CreateFails \in BOOLEAN

Sessions == {"supl", "es"}
Requests == 1..MaxRequests    \* the modem's raw requests, in their order
None == 0                     \* NULL, and the ID of no request
RespTime == 25                \* seconds: 5 + LOC_NI_NO_RESPONSE_TIME

VARIABLES
  session,        \* session and sessionEs, loc_eng_ni_session_s_type
  reqIDCounter,
  thread,         \* the ni_thread_proc started for a request
  msgTask,        \* where the MsgTask stands in the handler it runs
  outbox,         \* LocEngInformNiResponse messages, not yet handled
  framework,      \* where the framework's thread stands in respond
  request,        \* each request of the modem: its session, the ID it was
                  \* notified with, the user's answer, the answer sent to the
                  \* modem and how often it was freed
  arrived,        \* number of requests that arrived
  restarts        \* number of engine restarts

vars == <<session, reqIDCounter, thread, msgTask, outbox, framework, request,
          arrived, restarts>>

Idle == [at |-> "idle", req |-> None, session |-> "supl"]
NoThread == [at |-> "none", took |-> None, resp |-> "UNSET", waits |-> 0]
FrameworkIdle == [at |-> "idle", session |-> "supl", resp |-> "UNSET"]

Init ==
  /\ session = [s \in Sessions |-> [rawRequest |-> None, reqID |-> None, resp |-> "UNSET",
                                    respRecvd |-> FALSE, respTimeLeft |-> 0]]
  /\ reqIDCounter = 0
  /\ thread = [r \in Requests |-> NoThread]
  /\ msgTask = Idle
  /\ outbox = <<>>
  /\ framework = FrameworkIdle
  /\ request = [r \in Requests |-> [session |-> "supl", shown |-> FALSE, id |-> None,
                                    said |-> "nothing", sent |-> "nothing", freed |-> 0]]
  /\ arrived = 0
  /\ restarts = 0

-----------------------------------------------------------------------------
(* Faults: variants of the code below with a plausible bug, standing in    *)
(* for it when the project checks that a property can fail.                *)

TakeAndSend(r, resp) ==       \* an ignored request is freed and sent as well
  LET s == request[r].session  raw == session[s].rawRequest IN
  /\ session' = [session EXCEPT ![s] = [@ EXCEPT !.respRecvd = FALSE, !.resp = resp]]
  /\ thread' = [thread EXCEPT ![r] = [@ EXCEPT
       !.at = IF raw = None THEN "clears" ELSE "takes", !.took = raw, !.resp = resp]]
  /\ request' = IF resp = "IGNORE" /\ raw # None
                THEN [request EXCEPT ![raw].freed = @ + 1] ELSE request
  /\ UNCHANGED <<reqIDCounter, msgTask, outbox, framework, arrived, restarts>>

TakeKeepsFlag(r, resp) ==     \* respRecvd not reset for the next request
  LET s == request[r].session  raw == session[s].rawRequest IN
  /\ session' = [session EXCEPT ![s].resp = resp]
  /\ thread' = [thread EXCEPT ![r] = [@ EXCEPT
       !.at = IF raw = None THEN "clears" ELSE "takes", !.took = raw, !.resp = resp]]
  /\ UNCHANGED <<request, reqIDCounter, msgTask, outbox, framework, arrived, restarts>>

UnlockKeeps(r) ==             \* rawRequest not reset
  /\ thread[r].at = "takes"
  /\ thread' = [thread EXCEPT ![r].at = "clears"]
  /\ UNCHANGED <<session, reqIDCounter, msgTask, outbox, framework, request, arrived, restarts>>

ClearSendsAnswers(r) ==       \* a timeout is not reported to the modem
  /\ thread[r].at = "clears"
  /\ session' = [session EXCEPT ![request[r].session] =
       [@ EXCEPT !.respTimeLeft = 0, !.reqID = None]]
  /\ outbox' = IF thread[r].took = None \/ thread[r].resp = "NORESP" THEN outbox
               ELSE Append(outbox, [req |-> thread[r].took, resp |-> thread[r].resp])
  /\ thread' = [thread EXCEPT ![r].at = "ended"]
  /\ UNCHANGED <<reqIDCounter, msgTask, framework, request, arrived, restarts>>

-----------------------------------------------------------------------------
(* Helpers                                                                 *)

Pending(s) == session[s].rawRequest # None

\* tLock is held across a step only by a thread that takes the request
Unlocked(s) == \A r \in Requests : thread[r].at = "takes" => request[r].session # s

\* lock, leave an answer, signal, unlock
Wake(s, resp) ==
  session' = [session EXCEPT ![s] = [@ EXCEPT !.respRecvd = TRUE, !.resp = resp]]

\* The messages are freed with their payload, a request that is NULL is not.
Freed(r) == [request EXCEPT ![r].freed = @ + 1]

-----------------------------------------------------------------------------
(* The MsgTask thread                                                      *)

\* Which sessions have to be free for a request to be accepted.
Blocks(s) == IF s = "es" THEN {"es"} ELSE {"es", "supl"}

\* loc_eng_ni_request_handler, when a request is in progress
Reject(s) ==
  /\ msgTask.at = "idle" /\ arrived < MaxRequests /\ arrived + restarts < MaxEvents
  /\ \E other \in Blocks(s) : Pending(other)
  /\ arrived' = arrived + 1
  /\ request' = [request EXCEPT ![arrived + 1] = [@ EXCEPT !.session = s, !.freed = 1]]
  /\ UNCHANGED <<session, reqIDCounter, thread, msgTask, outbox, framework, restarts>>

\* loc_eng_ni_request_handler up to the request's ID
Accept(s) ==
  /\ msgTask.at = "idle" /\ arrived < MaxRequests /\ arrived + restarts < MaxEvents
  /\ \A other \in Blocks(s) : ~Pending(other)
  /\ arrived' = arrived + 1
  /\ request' = [request EXCEPT ![arrived + 1].session = s]
  /\ reqIDCounter' = reqIDCounter + 1
  /\ session' = [session EXCEPT ![s] = [@ EXCEPT !.rawRequest = arrived + 1,
                                                !.reqID = reqIDCounter + 1]]
  /\ msgTask' = [at |-> "accepted", req |-> arrived + 1, session |-> s]
  /\ UNCHANGED <<thread, outbox, framework, restarts>>

\* The rest of it: the notification gets the session's ID, the thread is
\* created, and the framework's callback is called whether it was or not.
Notify ==
  LET r == msgTask.req  s == msgTask.session IN
  /\ msgTask.at = "accepted"
  /\ request' = [request EXCEPT ![r] = [@ EXCEPT !.id = session[s].reqID, !.shown = TRUE]]
  /\ session' = [session EXCEPT ![s].respTimeLeft = RespTime]
  /\ \/ thread' = [thread EXCEPT ![r].at = "starts"]
     \/ CreateFails /\ UNCHANGED thread
  /\ msgTask' = Idle
  /\ UNCHANGED <<reqIDCounter, outbox, framework, arrived, restarts>>

\* LocEngDown calls loc_eng_ni_reset_on_engine_restart: first sessionEs.
EngineDown ==
  /\ msgTask.at = "idle" /\ restarts < MaxRestarts /\ arrived + restarts < MaxEvents
  /\ restarts' = restarts + 1
  /\ msgTask' = [at |-> "reset", req |-> None, session |-> "es"]
  /\ UNCHANGED <<session, reqIDCounter, thread, outbox, framework, request, arrived>>

AfterReset(s) == IF s = "es" THEN [at |-> "reset", req |-> None, session |-> "supl"] ELSE Idle

ResetFree ==
  LET s == msgTask.session IN
  /\ msgTask.at = "reset"
  /\ IF Pending(s)
     THEN /\ request' = Freed(session[s].rawRequest)
          /\ session' = [session EXCEPT ![s].rawRequest = None]
          /\ msgTask' = [msgTask EXCEPT !.at = "wakes"]
     ELSE UNCHANGED <<request, session>> /\ msgTask' = AfterReset(s)
  /\ UNCHANGED <<reqIDCounter, thread, outbox, framework, arrived, restarts>>

ResetWake ==
  LET s == msgTask.session IN
  /\ msgTask.at = "wakes" /\ Unlocked(s)
  /\ Wake(s, session[s].resp)
  /\ msgTask' = AfterReset(s)
  /\ UNCHANGED <<reqIDCounter, thread, outbox, framework, request, arrived, restarts>>

\* LocEngInformNiResponse: proc informs the modem, the destructor frees.
InformNiResponse ==
  LET m == Head(outbox) IN
  /\ msgTask.at = "idle" /\ outbox # <<>>
  /\ outbox' = Tail(outbox)
  /\ request' = [request EXCEPT ![m.req] = [@ EXCEPT
       !.freed = request[m.req].freed + 1, !.sent = m.resp]]
  /\ UNCHANGED <<session, reqIDCounter, thread, msgTask, framework, arrived, restarts>>

-----------------------------------------------------------------------------
(* The thread started for request r (ni_thread_proc)                       *)

Start(r) ==
  /\ thread[r].at = "starts" /\ Unlocked(request[r].session)
  /\ thread' = [thread EXCEPT ![r] = [@ EXCEPT
       !.at = "waits", !.waits = session[request[r].session].respTimeLeft]]
  /\ UNCHANGED <<session, reqIDCounter, msgTask, outbox, framework, request, arrived, restarts>>

\* The end of the wait: the answer is used up and, if the session has a
\* request, it becomes a message, or is freed if it is to be ignored.
Take(r, resp) ==
  LET s == request[r].session  raw == session[s].rawRequest IN
  /\ session' = [session EXCEPT ![s] = [@ EXCEPT !.respRecvd = FALSE, !.resp = resp]]
  /\ IF raw = None
     THEN thread' = [thread EXCEPT ![r].at = "clears"] /\ UNCHANGED request
     ELSE /\ thread' = [thread EXCEPT ![r] = [@ EXCEPT !.at = "takes", !.resp = resp,
                                      !.took = IF resp = "IGNORE" THEN None ELSE raw]]
          /\ request' = IF resp = "IGNORE" THEN Freed(raw) ELSE request
  /\ UNCHANGED <<reqIDCounter, msgTask, outbox, framework, arrived, restarts>>

Answered(r) ==
  LET s == request[r].session IN
  /\ thread[r].at = "waits" /\ Unlocked(s)
  /\ session[s].respRecvd
  /\ Take(r, session[s].resp)

\* ETIMEDOUT counts even if an answer arrived before the thread got the lock.
TimesOut(r) ==
  /\ Timeouts
  /\ thread[r].at = "waits" /\ Unlocked(request[r].session)
  /\ Take(r, "NORESP")

Unlock(r) ==
  /\ thread[r].at = "takes"
  /\ session' = [session EXCEPT ![request[r].session].rawRequest = None]
  /\ thread' = [thread EXCEPT ![r].at = "clears"]
  /\ UNCHANGED <<reqIDCounter, msgTask, outbox, framework, request, arrived, restarts>>

\* After the unlock: the session's time and ID are cleared, the answer is sent.
Clear(r) ==
  /\ thread[r].at = "clears"
  /\ session' = [session EXCEPT ![request[r].session] =
       [@ EXCEPT !.respTimeLeft = 0, !.reqID = None]]
  /\ outbox' = IF thread[r].took = None THEN outbox
               ELSE Append(outbox, [req |-> thread[r].took, resp |-> thread[r].resp])
  /\ thread' = [thread EXCEPT ![r].at = "ended"]
  /\ UNCHANGED <<reqIDCounter, msgTask, framework, request, arrived, restarts>>

-----------------------------------------------------------------------------
(* The framework's thread (loc_eng_ni_respond): one answer to every        *)
(* notification.                                                           *)

IsFor(s, id) == id = session[s].reqID /\ Pending(s)

Respond(r, resp) ==
  LET id == request[r].id IN
  /\ framework.at = "idle"
  /\ request[r].shown /\ request[r].said = "nothing"
  /\ request' = [request EXCEPT ![r].said = resp]
  /\ framework' =
       IF IsFor("es", id)
       THEN [at |-> IF resp = "ACCEPT" /\ Pending("supl") THEN "ignores" ELSE "answers",
             session |-> "es", resp |-> resp]
       ELSE IF IsFor("supl", id)
       THEN [at |-> "answers", session |-> "supl", resp |-> resp]
       ELSE framework
  /\ UNCHANGED <<session, reqIDCounter, thread, msgTask, outbox, arrived, restarts>>

IgnoreSupl ==
  /\ framework.at = "ignores" /\ Unlocked("supl")
  /\ Wake("supl", "IGNORE")
  /\ framework' = [framework EXCEPT !.at = "answers"]
  /\ UNCHANGED <<reqIDCounter, thread, msgTask, outbox, request, arrived, restarts>>

LeaveAnswer ==
  /\ framework.at = "answers" /\ Unlocked(framework.session)
  /\ Wake(framework.session, framework.resp)
  /\ framework' = FrameworkIdle
  /\ UNCHANGED <<reqIDCounter, thread, msgTask, outbox, request, arrived, restarts>>

-----------------------------------------------------------------------------
MsgTaskNext ==
  \/ \E s \in Kinds : Reject(s) \/ Accept(s)
  \/ Notify \/ EngineDown \/ ResetFree \/ ResetWake \/ InformNiResponse

ThreadNext(r) == Start(r) \/ Answered(r) \/ TimesOut(r) \/ Unlock(r) \/ Clear(r)

Next ==
  \/ MsgTaskNext
  \/ \E r \in Requests : ThreadNext(r)
  \/ \E r \in Requests, resp \in Answers : Respond(r, resp)
  \/ IgnoreSupl \/ LeaveAnswer

Spec == Init /\ [][Next]_vars

\* Threads that can go on do so; nobody has to make a request or answer one.
Fairness ==
  /\ WF_vars(Notify \/ ResetFree \/ ResetWake)
  /\ WF_vars(InformNiResponse)
  /\ \A r \in Requests : WF_vars(ThreadNext(r))
  /\ WF_vars(IgnoreSupl \/ LeaveAnswer)

FairSpec == Spec /\ Fairness

-----------------------------------------------------------------------------
(* Properties                                                              *)

Resps == {"UNSET", "ACCEPT", "DENY", "NORESP", "IGNORE"}

SessionType == [rawRequest : Requests \cup {None}, reqID : 0..MaxRequests, resp : Resps,
                respRecvd : BOOLEAN, respTimeLeft : {0, RespTime}]
ThreadType == [at : {"none", "starts", "waits", "takes", "clears", "ended"},
               took : Requests \cup {None}, resp : Resps, waits : {0, RespTime}]
RequestType == [session : Sessions, shown : BOOLEAN, id : 0..MaxRequests,
                said : Resps \cup {"nothing"}, sent : Resps \cup {"nothing"}, freed : Nat]

\* The type invariant of the variables above; no ID is used up without a
\* request (++reqIDCounter in loc_eng_ni_request_handler).
TypeOK ==
  /\ session \in [Sessions -> SessionType]
  /\ reqIDCounter \in 0..arrived
  /\ thread \in [Requests -> ThreadType]
  /\ msgTask \in [at : {"idle", "accepted", "reset", "wakes"},
                  req : Requests \cup {None}, session : Sessions]
  /\ msgTask.at = "accepted" => msgTask.req # None
  /\ outbox \in Seq([req : Requests, resp : Resps])
  /\ framework \in [at : {"idle", "ignores", "answers"}, session : Sessions, resp : Resps]
  /\ request \in [Requests -> RequestType]
  /\ arrived \in 0..MaxRequests
  /\ restarts \in 0..MaxRestarts

\* A thread that will still look at rawRequest, or just did.
Attends(r) == thread[r].at \in {"starts", "waits", "takes"}

\* A request that is in progress is never abandoned: as long as a session has
\* one, and so turns all others away, the handler is about to start its
\* thread or a thread of the session has yet to end its wait.
\* loc_eng_ni_request_handler, ni_thread_proc: "spawn a thread at this point
\* to timeout to clear up the notification status".
PendingHasThread ==
  \A s \in Sessions : Pending(s) =>
    \/ msgTask.at = "accepted" /\ msgTask.session = s
    \/ \E r \in Requests : request[r].session = s /\ Attends(r)

\* The modem's raw request is freed once, by whoever is the last to use it:
\* the handler that rejects it, the thread that ignores it, the reset, or
\* the destructor of the message that answers it.
FreedOnce == \A r \in Requests : request[r].freed <= 1

\* As long as the engine was not restarted, every request is freed once.
FreedOnceWithoutRestart == restarts = 0 => FreedOnce

\* No wait has timed out, no request was ignored for an emergency request, no
\* engine restarted, and no request lost its ID before the user was notified:
\* the thread of the request before it clears reqID after the unlock, and two
\* sessions without an ID are the same to loc_eng_ni_respond.
UsersDecided ==
  /\ restarts = 0
  /\ \A r \in Requests : thread[r].resp \notin {"NORESP", "IGNORE"}
  /\ \A r \in Requests : request[r].shown => request[r].id # None

\* While that is so, what the modem is told about a request is what the user
\* said about this request: no answer leaks from one request to another
\* through resp and respRecvd of their session.
AnswersAreTheUsers ==
  UsersDecided => \A r \in Requests : request[r].sent \in {"nothing", request[r].said}

\* Whatever the user does, every request is settled in the end: answered to
\* the modem, ignored or rejected, and its memory freed.
EveryRequestSettled == \A r \in Requests : (arrived >= r) ~> (request[r].freed > 0)
=============================================================================
