---------------------------- MODULE LocEngNiProofs ----------------------------
(***************************************************************************)
(* Proofs about the network initiated requests, for any number of requests *)
(* and of engine restarts: the type invariant; that a request in progress  *)
(* always has a thread that will still look at it, provided that           *)
(* pthread_create does not fail; that until the engine restarts a request  *)
(* is freed once; and that users are not misquoted to the modem.           *)
(***************************************************************************)
EXTENDS LocEngNi, TLAPS

-----------------------------------------------------------------------------
(* Types                                                                   *)

\* What the steps write into a request keeps its type.
LEMMA RequestUpdate ==
  ASSUME NEW q \in RequestType
  PROVE  /\ \A s \in Sessions : [q EXCEPT !.session = s] \in RequestType
         /\ \A s \in Sessions : [q EXCEPT !.session = s, !.freed = 1] \in RequestType
         /\ \A id \in 0..MaxRequests : [q EXCEPT !.id = id, !.shown = TRUE] \in RequestType
         /\ \A w \in Resps : [q EXCEPT !.said = w] \in RequestType
         /\ \A n \in Nat : [q EXCEPT !.freed = n] \in RequestType
         /\ \A n \in Nat, w \in Resps : [q EXCEPT !.freed = n, !.sent = w] \in RequestType
<1>1. \A s \in Sessions : [q EXCEPT !.session = s] \in RequestType
  BY DEF RequestType
<1>2. \A s \in Sessions : [q EXCEPT !.session = s, !.freed = 1] \in RequestType
  BY DEF RequestType
<1>3. \A id \in 0..MaxRequests : [q EXCEPT !.id = id, !.shown = TRUE] \in RequestType
  BY DEF RequestType
<1>4. \A w \in Resps : [q EXCEPT !.said = w] \in RequestType
  BY DEF RequestType
<1>5. \A n \in Nat : [q EXCEPT !.freed = n] \in RequestType
  BY DEF RequestType
<1>6. \A n \in Nat, w \in Resps : [q EXCEPT !.freed = n, !.sent = w] \in RequestType
  BY DEF RequestType
<1> QED BY <1>1, <1>2, <1>3, <1>4, <1>5, <1>6

\* The same of a session, in the assignments of the three threads.
LEMMA SessionUpdate ==
  ASSUME NEW q \in SessionType
  PROVE  /\ \A raw \in Requests, id \in 0..MaxRequests :
              [q EXCEPT !.rawRequest = raw, !.reqID = id] \in SessionType
         /\ \A w \in Resps : [q EXCEPT !.respRecvd = TRUE, !.resp = w] \in SessionType
         /\ \A w \in Resps : [q EXCEPT !.respRecvd = FALSE, !.resp = w] \in SessionType
         /\ [q EXCEPT !.rawRequest = None] \in SessionType
         /\ [q EXCEPT !.respTimeLeft = RespTime] \in SessionType
         /\ [q EXCEPT !.respTimeLeft = 0, !.reqID = None] \in SessionType
<1>1. None \in 0..MaxRequests
  BY NiAssumption DEF None
<1>2. \A raw \in Requests, id \in 0..MaxRequests :
        [q EXCEPT !.rawRequest = raw, !.reqID = id] \in SessionType
  BY DEF SessionType
<1>3. \A w \in Resps : [q EXCEPT !.respRecvd = TRUE, !.resp = w] \in SessionType
  BY DEF SessionType
<1>4. \A w \in Resps : [q EXCEPT !.respRecvd = FALSE, !.resp = w] \in SessionType
  BY DEF SessionType
<1>5. [q EXCEPT !.rawRequest = None] \in SessionType
  BY DEF SessionType
<1>6. [q EXCEPT !.respTimeLeft = RespTime] \in SessionType
  BY DEF SessionType
<1>7. [q EXCEPT !.respTimeLeft = 0, !.reqID = None] \in SessionType
  BY <1>1 DEF SessionType
<1> QED BY <1>2, <1>3, <1>4, <1>5, <1>6, <1>7

\* The same of a thread.
LEMMA ThreadUpdate ==
  ASSUME NEW q \in ThreadType
  PROVE  /\ \A t \in {0, RespTime} : [q EXCEPT !.at = "waits", !.waits = t] \in ThreadType
         /\ \A w \in Resps, raw \in Requests \cup {None} :
              [q EXCEPT !.at = "takes", !.resp = w, !.took = raw] \in ThreadType
         /\ [q EXCEPT !.at = "starts"] \in ThreadType
         /\ [q EXCEPT !.at = "clears"] \in ThreadType
         /\ [q EXCEPT !.at = "ended"] \in ThreadType
<1>1. \A t \in {0, RespTime} : [q EXCEPT !.at = "waits", !.waits = t] \in ThreadType
  BY DEF ThreadType
<1>2. \A w \in Resps, raw \in Requests \cup {None} :
        [q EXCEPT !.at = "takes", !.resp = w, !.took = raw] \in ThreadType
  BY DEF ThreadType
<1>3. /\ [q EXCEPT !.at = "starts"] \in ThreadType
      /\ [q EXCEPT !.at = "clears"] \in ThreadType
      /\ [q EXCEPT !.at = "ended"] \in ThreadType
  BY DEF ThreadType
<1> QED BY <1>1, <1>2, <1>3

\* loc_eng_ni_request_handler writes what the types allow.
LEMMA HandlerTypeKept ==
  ASSUME TypeOK, (\E s \in Kinds : Reject(s) \/ Accept(s)) \/ Notify
  PROVE  TypeOK'
<1> DEFINE new == arrived + 1  id == reqIDCounter + 1
<1>1. ASSUME NEW s \in Kinds, Reject(s) PROVE TypeOK'
  <2>0. arrived \in 0..MaxRequests /\ arrived < MaxRequests /\ reqIDCounter \in 0..arrived
    BY <1>1 DEF Reject, TypeOK
  <2>1. /\ new \in Requests /\ new \in 0..MaxRequests /\ reqIDCounter \in 0..new
        /\ s \in Sessions
    BY <2>0, NiAssumption DEF Requests, Sessions
  <2>2. request' = [request EXCEPT ![new] = [@ EXCEPT !.session = s, !.freed = 1]]
        /\ arrived' = new
    BY <1>1 DEF Reject
  <2>3. request[new] \in RequestType
    BY <2>1 DEF TypeOK
  <2> HIDE DEF new
  <2>4. request' \in [Requests -> RequestType]
    BY <2>1, <2>2, <2>3, RequestUpdate DEF TypeOK
  <2> QED BY <1>1, <2>1, <2>2, <2>4 DEF Reject, TypeOK
<1>2. ASSUME NEW s \in Kinds, Accept(s) PROVE TypeOK'
  <2>0. arrived \in 0..MaxRequests /\ arrived < MaxRequests /\ reqIDCounter \in 0..arrived
    BY <1>2 DEF Accept, TypeOK
  <2>1. /\ new \in Requests /\ new \in 0..MaxRequests /\ new # None /\ s \in Sessions
        /\ id \in 0..new /\ id \in 0..MaxRequests
    BY <2>0, NiAssumption DEF Requests, Sessions, None
  <2>2. /\ request' = [request EXCEPT ![new] = [@ EXCEPT !.session = s]]
        /\ session' = [session EXCEPT ![s] = [@ EXCEPT !.rawRequest = new, !.reqID = id]]
        /\ arrived' = new /\ reqIDCounter' = id
        /\ msgTask' = [at |-> "accepted", req |-> new, session |-> s]
    BY <1>2 DEF Accept
  <2>3. request[new] \in RequestType /\ session[s] \in SessionType
    BY <2>1 DEF TypeOK
  <2> HIDE DEF new, id
  <2>4. request' \in [Requests -> RequestType]
    BY <2>1, <2>2, <2>3, RequestUpdate DEF TypeOK
  <2>5. session' \in [Sessions -> SessionType]
    BY <2>1, <2>2, <2>3, SessionUpdate DEF TypeOK
  <2>6. /\ msgTask' \in [at : {"idle", "accepted", "reset", "wakes"},
                         req : Requests \cup {None}, session : Sessions]
        /\ msgTask'.req # None
    BY <2>1, <2>2
  <2> QED BY <1>2, <2>1, <2>2, <2>4, <2>5, <2>6 DEF Accept, TypeOK
<1>3. CASE Notify
  <2> DEFINE r == msgTask.req  k == msgTask.session  given == session[k].reqID
  <2>1. r \in Requests /\ k \in Sessions
    BY <1>3 DEF Notify, TypeOK
  <2>2. request[r] \in RequestType /\ session[k] \in SessionType /\ thread[r] \in ThreadType
    BY <2>1 DEF TypeOK
  <2>3. given \in 0..MaxRequests
    BY <2>2 DEF SessionType
  <2>4. /\ request' = [request EXCEPT ![r] = [@ EXCEPT !.id = given, !.shown = TRUE]]
        /\ session' = [session EXCEPT ![k] = [@ EXCEPT !.respTimeLeft = RespTime]]
        /\ thread' = thread \/ thread' = [thread EXCEPT ![r] = [@ EXCEPT !.at = "starts"]]
    BY <1>3 DEF Notify
  <2> HIDE DEF given, r, k
  <2>5. request' \in [Requests -> RequestType]
    BY <2>1, <2>2, <2>3, <2>4, RequestUpdate DEF TypeOK
  <2>6. session' \in [Sessions -> SessionType]
    BY <2>1, <2>2, <2>4, SessionUpdate DEF TypeOK
  <2>7. thread' \in [Requests -> ThreadType]
    BY <2>1, <2>2, <2>4, ThreadUpdate DEF TypeOK
  <2> QED BY <1>3, <2>5, <2>6, <2>7 DEF Notify, TypeOK, Idle, Sessions
<1> QED BY <1>1, <1>2, <1>3

\* So do the reset on an engine restart and the answer to the modem.
LEMMA ResetTypeKept ==
  ASSUME TypeOK, EngineDown \/ ResetFree \/ ResetWake \/ InformNiResponse
  PROVE  TypeOK'
<1> DEFINE s == msgTask.session  raw == session[s].rawRequest
<1>1. s \in Sessions /\ session[s] \in SessionType
  BY DEF TypeOK
<1>2. /\ AfterReset(s) \in [at : {"idle", "accepted", "reset", "wakes"},
                           req : Requests \cup {None}, session : Sessions]
      /\ AfterReset(s).at # "accepted"
  BY DEF AfterReset, Idle, Sessions
<1>3. CASE EngineDown
  BY <1>3, NiAssumption DEF EngineDown, TypeOK, Sessions
<1>4. CASE ResetFree /\ Pending(s)
  <2> DEFINE n == request[raw].freed + 1
  <2>1. raw \in Requests
    BY <1>1, <1>4 DEF SessionType, Pending
  <2>2. request[raw] \in RequestType /\ n \in Nat
    BY <2>1 DEF TypeOK, RequestType
  <2>3. /\ request' = [request EXCEPT ![raw] = [@ EXCEPT !.freed = n]]
        /\ session' = [session EXCEPT ![s] = [@ EXCEPT !.rawRequest = None]]
        /\ msgTask' = [msgTask EXCEPT !.at = "wakes"]
    BY <1>4 DEF ResetFree, Freed
  <2>4. /\ msgTask' \in [at : {"idle", "accepted", "reset", "wakes"},
                         req : Requests \cup {None}, session : Sessions]
        /\ msgTask'.at # "accepted"
    BY <2>3 DEF TypeOK
  <2> HIDE DEF n, raw, s
  <2>5. request' \in [Requests -> RequestType]
    BY <2>1, <2>2, <2>3, RequestUpdate DEF TypeOK
  <2>6. session' \in [Sessions -> SessionType]
    BY <1>1, <2>3, SessionUpdate DEF TypeOK
  <2> QED BY <1>4, <2>4, <2>5, <2>6 DEF ResetFree, TypeOK
<1>5. CASE ResetFree /\ ~Pending(s)
  BY <1>5, <1>2 DEF ResetFree, TypeOK
<1>6. CASE ResetWake
  <2> DEFINE w == session[s].resp
  <2>1. session' = [session EXCEPT ![s] = [@ EXCEPT !.respRecvd = TRUE, !.resp = w]]
        /\ msgTask' = AfterReset(s)
    BY <1>6 DEF ResetWake, Wake
  <2>2. w \in Resps
    BY <1>1 DEF SessionType
  <2> HIDE DEF w, s
  <2>3. session' \in [Sessions -> SessionType]
    BY <1>1, <2>1, <2>2, SessionUpdate DEF TypeOK
  <2> QED BY <1>6, <1>2, <2>1, <2>3 DEF ResetWake, TypeOK
<1>7. CASE InformNiResponse
  <2> DEFINE m == Head(outbox)  r == m.req  w == m.resp  n == request[r].freed + 1
             Messages == [req : Requests, resp : Resps]
  <2>0. m \in Messages /\ outbox' \in Seq(Messages)
    <3>1. outbox \in Seq(Messages) /\ outbox # <<>> /\ outbox' = Tail(outbox)
      BY <1>7 DEF InformNiResponse, TypeOK
    <3> HIDE DEF Messages
    <3> QED BY <3>1
  <2>1. r \in Requests /\ w \in Resps
    BY <2>0
  <2>2. request' = [request EXCEPT ![r] = [@ EXCEPT !.freed = n, !.sent = w]]
    BY <1>7 DEF InformNiResponse
  <2>3. request[r] \in RequestType /\ n \in Nat
    BY <2>1 DEF TypeOK, RequestType
  <2> HIDE DEF r, w, n
  <2>4. request' \in [Requests -> RequestType]
    BY <2>1, <2>2, <2>3, RequestUpdate DEF TypeOK
  <2> QED BY <1>7, <2>0, <2>4 DEF InformNiResponse, TypeOK
<1> QED BY <1>3, <1>4, <1>5, <1>6, <1>7

\* So does the end of the wait in ni_thread_proc.
LEMMA TakeTypeKept ==
  ASSUME TypeOK, NEW r \in Requests, NEW w \in Resps, Take(r, w)
  PROVE  TypeOK'
<1> DEFINE s == request[r].session  raw == session[s].rawRequest
           took == IF w = "IGNORE" THEN None ELSE raw
           n == request[raw].freed + 1
<1>1. s \in Sessions /\ session[s] \in SessionType /\ thread[r] \in ThreadType
  BY DEF TypeOK, RequestType
<1>2. raw \in Requests \cup {None} /\ took \in Requests \cup {None}
  BY <1>1 DEF SessionType
<1>3. session' = [session EXCEPT ![s] = [@ EXCEPT !.respRecvd = FALSE, !.resp = w]]
  BY DEF Take
<1>4. \/ thread' = [thread EXCEPT ![r] = [@ EXCEPT !.at = "clears"]]
      \/ thread' = [thread EXCEPT ![r] = [@ EXCEPT !.at = "takes", !.resp = w, !.took = took]]
  BY DEF Take
<1>5. \/ request' = request
      \/ raw # None /\ request' = [request EXCEPT ![raw] = [@ EXCEPT !.freed = n]]
  BY DEF Take, Freed
<1>6. raw \in Requests => request[raw] \in RequestType /\ n \in Nat
  BY DEF TypeOK, RequestType
<1> HIDE DEF s, raw, took, n
<1>7. session' \in [Sessions -> SessionType]
  BY <1>1, <1>3, SessionUpdate DEF TypeOK
<1>8. thread' \in [Requests -> ThreadType]
  <2>1. [thread[r] EXCEPT !.at = "clears"] \in ThreadType
    BY <1>1, ThreadUpdate
  <2>2. [thread[r] EXCEPT !.at = "takes", !.resp = w, !.took = took] \in ThreadType
    BY <1>1, <1>2, ThreadUpdate
  <2> QED BY <1>4, <2>1, <2>2 DEF TypeOK
<1>9. request' \in [Requests -> RequestType]
  <2>1. raw # None => [request[raw] EXCEPT !.freed = n] \in RequestType
    BY <1>2, <1>6, RequestUpdate
  <2> QED BY <1>2, <1>5, <2>1 DEF TypeOK
<1> QED BY <1>7, <1>8, <1>9 DEF Take, TypeOK

\* So do the other steps of ni_thread_proc.
LEMMA ThreadTypeKept ==
  ASSUME TypeOK, NEW r \in Requests, ThreadNext(r)
  PROVE  TypeOK'
<1> DEFINE s == request[r].session  time == session[s].respTimeLeft
<1>1. s \in Sessions /\ session[s] \in SessionType /\ thread[r] \in ThreadType
  BY DEF TypeOK, RequestType
<1>2. CASE Start(r)
  <2>1. thread' = [thread EXCEPT ![r] = [@ EXCEPT !.at = "waits", !.waits = time]]
    BY <1>2 DEF Start
  <2>2. time \in {0, RespTime}
    BY <1>1 DEF SessionType
  <2> HIDE DEF time
  <2>3. thread' \in [Requests -> ThreadType]
    BY <1>1, <2>1, <2>2, ThreadUpdate DEF TypeOK
  <2> QED BY <1>2, <2>3 DEF Start, TypeOK
<1>3. CASE Answered(r)
  <2>1. session[s].resp \in Resps
    BY <1>1 DEF SessionType
  <2> QED BY <1>3, <2>1, TakeTypeKept DEF Answered
<1>4. CASE TimesOut(r)
  BY <1>4, TakeTypeKept DEF TimesOut, Resps
<1>5. CASE Unlock(r)
  <2>1. /\ session' = [session EXCEPT ![s] = [@ EXCEPT !.rawRequest = None]]
        /\ thread' = [thread EXCEPT ![r] = [@ EXCEPT !.at = "clears"]]
    BY <1>5 DEF Unlock
  <2> HIDE DEF s
  <2>2. session' \in [Sessions -> SessionType]
    BY <1>1, <2>1, SessionUpdate DEF TypeOK
  <2>3. thread' \in [Requests -> ThreadType]
    BY <1>1, <2>1, ThreadUpdate DEF TypeOK
  <2> QED BY <1>5, <2>2, <2>3 DEF Unlock, TypeOK
<1>6. CASE Clear(r)
  <2> DEFINE took == thread[r].took  w == thread[r].resp
  <2>1. /\ session' = [session EXCEPT ![s] = [@ EXCEPT !.respTimeLeft = 0, !.reqID = None]]
        /\ thread' = [thread EXCEPT ![r] = [@ EXCEPT !.at = "ended"]]
    BY <1>6 DEF Clear
  <2>6. outbox' = IF took = None THEN outbox ELSE Append(outbox, [req |-> took, resp |-> w])
    BY <1>6 DEF Clear
  <2>2. took \in Requests \cup {None} /\ w \in Resps
    BY <1>1 DEF ThreadType
  <2> HIDE DEF s, took, w
  <2>3. session' \in [Sessions -> SessionType]
    BY <1>1, <2>1, SessionUpdate DEF TypeOK
  <2>4. thread' \in [Requests -> ThreadType]
    BY <1>1, <2>1, ThreadUpdate DEF TypeOK
  <2>5. outbox' \in Seq([req : Requests, resp : Resps])
    <3> DEFINE Messages == [req : Requests, resp : Resps]  m == [req |-> took, resp |-> w]
    <3>1. took # None => m \in Messages
      BY <2>2
    <3>2. outbox \in Seq(Messages)
      BY DEF TypeOK
    <3> HIDE DEF Messages, m
    <3> SUFFICES outbox' \in Seq(Messages)
      BY DEF Messages
    <3>3. CASE took = None
      BY <2>6, <3>2, <3>3
    <3>4. CASE took # None
      BY <2>6, <3>1, <3>2, <3>4 DEF m
    <3> QED BY <3>3, <3>4
  <2> QED BY <1>6, <2>3, <2>4, <2>5 DEF Clear, TypeOK
<1> QED BY <1>2, <1>3, <1>4, <1>5, <1>6 DEF ThreadNext

\* So does loc_eng_ni_respond.
LEMMA FrameworkTypeKept ==
  ASSUME TypeOK,
         \/ \E r \in Requests, resp \in Answers : Respond(r, resp)
         \/ IgnoreSupl \/ LeaveAnswer
  PROVE  TypeOK'
<1>1. ASSUME NEW r \in Requests, NEW w \in Answers, Respond(r, w) PROVE TypeOK'
  <2>1. w \in Resps /\ request[r] \in RequestType
    BY NiAssumption DEF Resps, TypeOK
  <2>2. request' = [request EXCEPT ![r] = [@ EXCEPT !.said = w]]
    BY <1>1 DEF Respond
  <2>3. request' \in [Requests -> RequestType]
    BY <2>1, <2>2, RequestUpdate DEF TypeOK
  <2>4. framework' \in [at : {"idle", "ignores", "answers"}, session : Sessions, resp : Resps]
    BY <1>1, <2>1 DEF Respond, TypeOK, Sessions
  <2> QED BY <1>1, <2>3, <2>4 DEF Respond, TypeOK
<1>2. ASSUME NEW s \in Sessions, NEW w \in Resps, Wake(s, w)
      PROVE  session' \in [Sessions -> SessionType]
  <2>1. session[s] \in SessionType /\
        session' = [session EXCEPT ![s] = [@ EXCEPT !.respRecvd = TRUE, !.resp = w]]
    BY <1>2 DEF Wake, TypeOK
  <2> QED BY <2>1, SessionUpdate DEF TypeOK
<1>3. CASE IgnoreSupl
  <2>1. session' \in [Sessions -> SessionType]
    BY <1>2, <1>3 DEF IgnoreSupl, Sessions, Resps
  <2> QED BY <1>3, <2>1 DEF IgnoreSupl, TypeOK
<1>4. CASE LeaveAnswer
  <2>1. session' \in [Sessions -> SessionType]
    BY <1>2, <1>4 DEF LeaveAnswer, TypeOK
  <2> QED BY <1>4, <2>1 DEF LeaveAnswer, TypeOK, FrameworkIdle, Sessions, Resps
<1> QED BY <1>1, <1>3, <1>4

LEMMA NextType == TypeOK /\ [Next]_vars => TypeOK'
<1> SUFFICES ASSUME TypeOK, [Next]_vars PROVE TypeOK'
  OBVIOUS
<1>1. CASE UNCHANGED vars
  BY <1>1 DEF vars, TypeOK
<1>2. CASE MsgTaskNext
  BY <1>2, HandlerTypeKept, ResetTypeKept DEF MsgTaskNext
<1> QED BY <1>1, <1>2, ThreadTypeKept, FrameworkTypeKept DEF Next

LEMMA InitTypes == Init => TypeOK
  BY NiAssumption DEF Init, TypeOK, SessionType, ThreadType, RequestType, Sessions,
     Requests, None, Resps, Idle, NoThread, FrameworkIdle

\* Every variable keeps its type, whatever the interleaving of the threads.
THEOREM TypeCorrect == Spec => []TypeOK
  BY InitTypes, NextType, PTL DEF Spec

-----------------------------------------------------------------------------
(* A request in progress has a thread                                      *)

\* Only requests that arrived are known to the threads.
KnownArrived ==
  /\ \A r \in Requests : thread[r].at # "none" => r <= arrived
  /\ \A s \in Sessions : session[s].rawRequest <= arrived
  /\ msgTask.at = "accepted" => msgTask.req <= arrived /\ thread[msgTask.req].at = "none"

\* The request that a session has in progress is the handler's, or its own
\* thread still waits, or a thread of the session is taking it.
PendingAttended ==
  \A s \in Sessions : Pending(s) =>
    LET r == session[s].rawRequest IN
    /\ request[r].session = s
    /\ \/ msgTask.at = "accepted" /\ msgTask.req = r /\ msgTask.session = s
       \/ thread[r].at \in {"starts", "waits"}
       \/ \E t \in Requests : request[t].session = s /\ thread[t].at = "takes"

NiInv == TypeOK /\ KnownArrived /\ PendingAttended

LEMMA NiInvInit == Init => KnownArrived /\ PendingAttended
  BY NiAssumption DEF Init, KnownArrived, PendingAttended, Pending, Idle, NoThread, Requests, None

\* A step that changes neither what is in progress nor what the threads do,
\* and does not leave the handler, keeps the invariant.
LEMMA NiInvFrame ==
  ASSUME NiInv,
         \A s \in Sessions : session'[s].rawRequest = session[s].rawRequest,
         \A r \in Requests : request'[r].session = request[r].session,
         \A r \in Requests :
           \/ thread'[r].at = thread[r].at
           \/ thread[r].at = "starts" /\ thread'[r].at = "waits"
           \/ thread[r].at = "clears" /\ thread'[r].at = "ended",
         msgTask' = msgTask \/ (msgTask.at # "accepted" /\ msgTask'.at # "accepted"),
         arrived' = arrived
  PROVE  KnownArrived' /\ PendingAttended'
<1>1. \A s \in Sessions : session[s].rawRequest \in Requests \cup {None}
  BY DEF NiInv, TypeOK, SessionType
<1>2. msgTask.at = "accepted" => msgTask.req \in Requests
  BY DEF NiInv, TypeOK
<1>3. KnownArrived'
  BY <1>2 DEF NiInv, KnownArrived
<1>4. PendingAttended'
  BY <1>1 DEF NiInv, PendingAttended, Pending
<1> QED BY <1>3, <1>4

\* Freeing a request does not move it to another session.
LEMMA FreedSession ==
  ASSUME TypeOK, NEW q \in Requests, request' = Freed(q)
  PROVE  \A r \in Requests : request'[r].session = request[r].session
<1>1. request[q] \in RequestType /\ DOMAIN request = Requests
  BY DEF TypeOK
<1>2. [request[q] EXCEPT !.freed = request[q].freed + 1].session = request[q].session
  BY <1>1 DEF RequestType
<1> QED BY <1>1, <1>2 DEF Freed

LEMMA AcceptNiInv ==
  ASSUME NiInv, NEW s \in Kinds, Reject(s) \/ Accept(s)
  PROVE  KnownArrived' /\ PendingAttended'
<1> DEFINE new == arrived + 1
<1>1. arrived \in 0..MaxRequests /\ arrived < MaxRequests /\ s \in Sessions
  BY NiAssumption DEF NiInv, TypeOK, Reject, Accept, Sessions
<1>2. new \in Requests /\ new # None /\ arrived' = new /\ msgTask.at = "idle"
  BY <1>1, NiAssumption DEF Requests, None, Reject, Accept
<1>3. \A r \in Requests : r <= arrived => r # new /\ r <= new
  BY <1>1 DEF Requests
<1>4. \A x \in Sessions : session[x].rawRequest \in Requests \cup {None}
  BY DEF NiInv, TypeOK, SessionType
<1>5. thread' = thread /\ \A r \in Requests : thread[r].at # "none" => r <= arrived /\ r # new
  BY <1>3 DEF NiInv, KnownArrived, Reject, Accept
<1>6. \A r \in Requests : r # new => request'[r].session = request[r].session
  BY DEF NiInv, TypeOK, Reject, Accept
<1>7. CASE Reject(s)
  <2>1. session' = session /\ msgTask' = msgTask
    BY <1>7 DEF Reject
  <2>2. KnownArrived'
    BY <2>1, <1>1, <1>2, <1>3, <1>4, <1>5 DEF NiInv, KnownArrived, None
  <2>3. \A x \in Sessions : Pending(x) => session[x].rawRequest # new
    BY <1>3, <1>4 DEF NiInv, KnownArrived, Pending
  <2>4. PendingAttended'
    BY <2>1, <2>3, <1>2, <1>3, <1>4, <1>5, <1>6 DEF NiInv, PendingAttended, Pending
  <2> QED BY <2>2, <2>4
<1>8. CASE Accept(s)
  <2>1. /\ session'[s].rawRequest = new
        /\ \A x \in Sessions : x # s => session'[x].rawRequest = session[x].rawRequest
        /\ request'[new].session = s
        /\ msgTask' = [at |-> "accepted", req |-> new, session |-> s]
    BY <1>8, <1>1, <1>2 DEF Accept, NiInv, TypeOK, SessionType, RequestType
  <2>2. KnownArrived'
    BY <2>1, <1>1, <1>2, <1>3, <1>4, <1>5 DEF NiInv, KnownArrived, None
  <2>3. \A x \in Sessions : Pending(x) => session[x].rawRequest # new
    BY <1>3, <1>4 DEF NiInv, KnownArrived, Pending
  <2>4. PendingAttended'
    BY <2>1, <2>3, <1>1, <1>2, <1>3, <1>4, <1>5, <1>6 DEF NiInv, PendingAttended, Pending
  <2> QED BY <2>2, <2>4
<1> QED BY <1>7, <1>8

LEMMA NotifyNiInv ==
  ASSUME NiInv, Notify, ~CreateFails
  PROVE  KnownArrived' /\ PendingAttended'
<1> DEFINE r == msgTask.req  k == msgTask.session
<1>1. r \in Requests /\ k \in Sessions /\ r <= arrived /\ thread[r].at = "none"
  BY DEF NiInv, TypeOK, Notify, KnownArrived
<1>2. /\ \A x \in Sessions : session'[x].rawRequest = session[x].rawRequest
      /\ \A q \in Requests : request'[q].session = request[q].session
      /\ \A q \in Requests : q # r => thread'[q].at = thread[q].at
      /\ thread'[r].at = "starts"
      /\ msgTask'.at = "idle" /\ arrived' = arrived
  <2>1. thread' = [thread EXCEPT ![r].at = "starts"] /\ msgTask'.at = "idle" /\ arrived' = arrived
    BY DEF Notify, Idle
  <2>2. session' = [session EXCEPT ![k].respTimeLeft = RespTime]
    BY DEF Notify
  <2>3. \A x \in Sessions : session'[x].rawRequest = session[x].rawRequest
    BY <2>2, <1>1 DEF NiInv, TypeOK, SessionType
  <2>4. \A q \in Requests : request'[q].session = request[q].session
    BY <1>1 DEF NiInv, TypeOK, RequestType, Notify
  <2>5. (\A q \in Requests : q # r => thread'[q].at = thread[q].at) /\ thread'[r].at = "starts"
    BY <2>1, <1>1 DEF NiInv, TypeOK, ThreadType
  <2> QED BY <2>1, <2>3, <2>4, <2>5
<1>3. \A s \in Sessions : session[s].rawRequest \in Requests \cup {None}
  BY DEF NiInv, TypeOK, SessionType
<1> HIDE DEF r, k
<1>4. KnownArrived'
  BY <1>1, <1>2, <1>3 DEF NiInv, KnownArrived
<1>5. PendingAttended'
  BY <1>1, <1>2, <1>3 DEF NiInv, PendingAttended, Pending, r
<1> QED BY <1>4, <1>5

LEMMA ResetNiInv ==
  ASSUME NiInv, EngineDown \/ ResetFree \/ ResetWake \/ InformNiResponse
  PROVE  KnownArrived' /\ PendingAttended'
<1> DEFINE s == msgTask.session
<1>1. s \in Sessions /\ session[s] \in SessionType
  BY DEF NiInv, TypeOK
<1>2. \A x \in Sessions : session[x].rawRequest \in Requests \cup {None}
  BY DEF NiInv, TypeOK, SessionType
<1>3. CASE EngineDown
  BY <1>3, NiInvFrame DEF EngineDown
<1>4. CASE ResetFree /\ Pending(s)
  <2>0. \A q \in Requests : request'[q].session = request[q].session
    <3>1. request' = Freed(session[s].rawRequest)
      BY <1>4 DEF ResetFree
    <3>2. session[s].rawRequest \in Requests
      BY <1>4, <1>1, <1>2 DEF Pending
    <3> QED BY <3>1, <3>2, FreedSession DEF NiInv
  <2>1. /\ \A q \in Requests : request'[q].session = request[q].session
        /\ thread' = thread /\ arrived' = arrived
        /\ msgTask.at # "accepted" /\ msgTask'.at # "accepted"
    BY <2>0, <1>4 DEF ResetFree, NiInv, TypeOK
  <2>2. /\ session'[s].rawRequest = None
        /\ \A x \in Sessions : x # s => session'[x].rawRequest = session[x].rawRequest
    BY <1>4, <1>1 DEF ResetFree, NiInv, TypeOK, SessionType
  <2>3. arrived \in Nat
    BY NiAssumption DEF NiInv, TypeOK
  <2> HIDE DEF s
  <2>4. KnownArrived'
    BY <2>1, <2>2, <2>3 DEF NiInv, KnownArrived, None
  <2>5. PendingAttended'
    BY <2>1, <2>2, <1>2 DEF NiInv, PendingAttended, Pending
  <2> QED BY <2>4, <2>5
<1>5. CASE ResetFree /\ ~Pending(s)
  BY <1>5, NiInvFrame DEF ResetFree, AfterReset, Idle
<1>6. CASE ResetWake
  <2>1. \A x \in Sessions : session'[x].rawRequest = session[x].rawRequest
    BY <1>6, <1>1 DEF ResetWake, Wake, NiInv, TypeOK, SessionType
  <2> QED BY <1>6, <2>1, NiInvFrame DEF ResetWake, AfterReset, Idle
<1>7. CASE InformNiResponse
  <2> DEFINE m == Head(outbox).req
  <2>1. \A q \in Requests : request'[q].session = request[q].session
    BY <1>7 DEF InformNiResponse, NiInv, TypeOK, RequestType
  <2> QED BY <1>7, <2>1, NiInvFrame DEF InformNiResponse
<1> QED BY <1>3, <1>4, <1>5, <1>6, <1>7

LEMMA TakeNiInv ==
  ASSUME NiInv, NEW r \in Requests, NEW w \in Resps, Take(r, w), thread[r].at = "waits"
  PROVE  KnownArrived' /\ PendingAttended'
<1> DEFINE s == request[r].session  raw == session[s].rawRequest
<1>1. s \in Sessions
  BY DEF NiInv, TypeOK, RequestType
<1>2. \A x \in Sessions : session[x].rawRequest \in Requests \cup {None}
  BY DEF NiInv, TypeOK, SessionType
<1>3. \A x \in Sessions : session'[x].rawRequest = session[x].rawRequest
  BY <1>1 DEF Take, NiInv, TypeOK, SessionType
<1>4. \A q \in Requests : request'[q].session = request[q].session
  <2>1. request' = request \/ (raw # None /\ request' = Freed(raw))
    BY DEF Take
  <2>2. raw # None => raw \in Requests
    BY <1>1, <1>2
  <2> QED BY <2>1, <2>2, FreedSession DEF NiInv
<1>5. /\ \A q \in Requests : q # r => thread'[q].at = thread[q].at
      /\ raw # None => thread'[r].at = "takes"
  <2>1. thread[r] \in ThreadType /\ DOMAIN thread = Requests
    BY DEF NiInv, TypeOK
  <2>2. CASE raw = None
    BY <2>1, <2>2 DEF Take
  <2>3. CASE raw # None
    BY <2>1, <2>3 DEF Take, ThreadType
  <2> QED BY <2>2, <2>3
<1>6. msgTask' = msgTask /\ arrived' = arrived
  BY DEF Take
<1>7. r <= arrived
  BY DEF NiInv, KnownArrived
<1> HIDE DEF s, raw
<1>8. KnownArrived'
  <2>1. msgTask.at = "accepted" => msgTask.req \in Requests /\ msgTask.req # r
    BY DEF NiInv, TypeOK, KnownArrived
  <2> QED BY <2>1, <1>3, <1>5, <1>6, <1>7 DEF NiInv, KnownArrived
<1>9. PendingAttended'
  BY <1>1, <1>2, <1>3, <1>4, <1>5, <1>6 DEF NiInv, PendingAttended, Pending, s, raw
<1> QED BY <1>8, <1>9

LEMMA ThreadNiInv ==
  ASSUME NiInv, NEW r \in Requests, ThreadNext(r)
  PROVE  KnownArrived' /\ PendingAttended'
<1> DEFINE s == request[r].session
<1>1. s \in Sessions /\ session[s] \in SessionType
  BY DEF NiInv, TypeOK, RequestType
<1>2. CASE Start(r)
  <2>1. \A q \in Requests :
              \/ thread'[q].at = thread[q].at
              \/ thread[q].at = "starts" /\ thread'[q].at = "waits"
    BY <1>2 DEF Start, NiInv, TypeOK, ThreadType
  <2> QED BY <1>2, <2>1, NiInvFrame DEF Start
<1>3. CASE Answered(r)
  <2>1. session[s].resp \in Resps
    BY <1>1 DEF SessionType
  <2> QED BY <1>3, <2>1, TakeNiInv DEF Answered
<1>4. CASE TimesOut(r)
  BY <1>4, TakeNiInv DEF TimesOut, Resps
<1>5. CASE Unlock(r)
  <2>1. /\ session'[s].rawRequest = None
        /\ \A x \in Sessions : x # s => session'[x].rawRequest = session[x].rawRequest
    BY <1>5, <1>1 DEF Unlock, NiInv, TypeOK, SessionType
  <2>2. /\ \A q \in Requests : q # r => thread'[q].at = thread[q].at
        /\ thread[r].at = "takes" /\ thread'[r].at = "clears"
        /\ request' = request /\ msgTask' = msgTask /\ arrived' = arrived
    BY <1>5 DEF Unlock, NiInv, TypeOK, ThreadType
  <2>3. \A x \in Sessions : session[x].rawRequest \in Requests \cup {None}
    BY DEF NiInv, TypeOK, SessionType
  <2>4. arrived \in Nat /\ (msgTask.at = "accepted" => msgTask.req \in Requests)
    BY NiAssumption DEF NiInv, TypeOK
  <2>5. KnownArrived'
    BY <1>1, <2>1, <2>2, <2>4 DEF NiInv, KnownArrived, None
  <2>6. PendingAttended'
    BY <1>1, <2>1, <2>2, <2>3 DEF NiInv, PendingAttended, Pending
  <2> QED BY <2>5, <2>6
<1>6. CASE Clear(r)
  <2>1. \A x \in Sessions : session'[x].rawRequest = session[x].rawRequest
    BY <1>6, <1>1 DEF Clear, NiInv, TypeOK, SessionType
  <2>2. \A q \in Requests :
              \/ thread'[q].at = thread[q].at
              \/ thread[q].at = "clears" /\ thread'[q].at = "ended"
    BY <1>6 DEF Clear, NiInv, TypeOK, ThreadType
  <2> QED BY <1>6, <2>1, <2>2, NiInvFrame DEF Clear
<1> QED BY <1>2, <1>3, <1>4, <1>5, <1>6 DEF ThreadNext

LEMMA FrameworkNiInv ==
  ASSUME NiInv,
         \/ \E r \in Requests, resp \in Answers : Respond(r, resp)
         \/ IgnoreSupl \/ LeaveAnswer
  PROVE  KnownArrived' /\ PendingAttended'
<1>1. ASSUME NEW r \in Requests, NEW resp \in Answers, Respond(r, resp)
      PROVE  KnownArrived' /\ PendingAttended'
  <2>1. \A q \in Requests : request'[q].session = request[q].session
    BY <1>1 DEF Respond, NiInv, TypeOK, RequestType
  <2> QED BY <1>1, <2>1, NiInvFrame DEF Respond
<1>2. ASSUME NEW s \in Sessions, NEW resp \in Resps, Wake(s, resp)
      PROVE  \A x \in Sessions : session'[x].rawRequest = session[x].rawRequest
  BY <1>2 DEF Wake, NiInv, TypeOK, SessionType
<1>3. CASE IgnoreSupl
  <2>1. \A x \in Sessions : session'[x].rawRequest = session[x].rawRequest
    BY <1>2, <1>3 DEF IgnoreSupl, Sessions, Resps
  <2> QED BY <1>3, <2>1, NiInvFrame DEF IgnoreSupl
<1>4. CASE LeaveAnswer
  <2>1. \A x \in Sessions : session'[x].rawRequest = session[x].rawRequest
    BY <1>2, <1>4 DEF LeaveAnswer, NiInv, TypeOK
  <2> QED BY <1>4, <2>1, NiInvFrame DEF LeaveAnswer
<1> QED BY <1>1, <1>3, <1>4

\* A session that turns requests away has a thread that will free it again,
\* in every interleaving of the handler, the threads of earlier requests, the
\* framework and engine restarts, as long as threads can be created.
THEOREM Attended ==
  ASSUME ~CreateFails
  PROVE  Spec => []PendingHasThread
<1>1. Init => NiInv
  BY NiInvInit, InitTypes DEF NiInv
<1>2. NiInv /\ [Next]_vars => NiInv'
  <2> SUFFICES ASSUME NiInv, [Next]_vars PROVE KnownArrived' /\ PendingAttended'
    BY NextType DEF NiInv
  <2>1. CASE UNCHANGED vars
    BY <2>1, NiInvFrame DEF vars
  <2>2. CASE MsgTaskNext
    BY <2>2, AcceptNiInv, NotifyNiInv, ResetNiInv DEF MsgTaskNext
  <2> QED BY <2>1, <2>2, ThreadNiInv, FrameworkNiInv DEF Next
<1>3. NiInv => PendingHasThread
  BY DEF NiInv, TypeOK, SessionType, PendingAttended, PendingHasThread, Pending, Attends
<1> QED BY <1>1, <1>2, <1>3, PTL DEF Spec

-----------------------------------------------------------------------------
(* As long as the engine was not restarted, a request is freed once        *)

\* Nothing happened yet to the requests that have not arrived.
Fresh ==
  \A r \in Requests : r > arrived =>
    /\ request[r].freed = 0 /\ ~request[r].shown /\ request[r].said = "nothing"
    /\ thread[r].at = "none"
    /\ \A s \in Sessions : session[s].rawRequest # r

\* A thread of a session waits for the session's request, which is the one it
\* was started for.
OwnThread ==
  /\ \A r \in Requests : Attends(r) => session[request[r].session].rawRequest = r
  /\ \A r \in Requests : thread[r].took \in {None, r}
  /\ \A s \in Sessions : Pending(s) =>
       LET r == session[s].rawRequest IN
       request[r].session = s /\ thread[r].at \notin {"clears", "ended"}
  /\ msgTask.at \in {"idle", "accepted"}
  /\ msgTask.at = "accepted" =>
       /\ session[msgTask.session].rawRequest = msgTask.req
       /\ thread[msgTask.req].at = "none"

\* Somebody will still use request r: a session, the thread that took it, or
\* a message.
InUse(r) ==
  \/ \E s \in Sessions : session[s].rawRequest = r /\ thread[r].at # "takes"
  \/ thread[r].at \in {"takes", "clears"} /\ thread[r].took = r
  \/ \E i \in 1..Len(outbox) : outbox[i].req = r

\* A request is not freed while it is in use, and only one message has it.
OneOwner ==
  /\ \A r \in Requests : request[r].freed <= 1 /\ (InUse(r) => request[r].freed = 0)
  /\ \A i, j \in 1..Len(outbox) : outbox[i].req = outbox[j].req => i = j
  /\ \A i \in 1..Len(outbox) : thread[outbox[i].req].at = "ended"

Calm == TypeOK /\ Fresh /\ OwnThread /\ OneOwner

LEMMA MessageType ==
  ASSUME TypeOK
  PROVE  /\ Len(outbox) \in Nat
         /\ \A i \in 1..Len(outbox) : outbox[i].req \in Requests /\ outbox[i].resp \in Resps
<1> DEFINE Messages == [req : Requests, resp : Resps]
<1>1. outbox \in Seq(Messages)
  BY DEF TypeOK
<1>2. \A m \in Messages : m.req \in Requests /\ m.resp \in Resps
  OBVIOUS
<1> HIDE DEF Messages
<1> QED BY <1>1, <1>2

\* A step that leaves requests, messages and what is in progress alone.
LEMMA CalmFrame ==
  ASSUME Calm,
         \A s \in Sessions : session'[s].rawRequest = session[s].rawRequest,
         \A r \in Requests : request'[r].session = request[r].session
                             /\ request'[r].freed = request[r].freed,
         \A r \in Requests : \/ request'[r].shown = request[r].shown
                                /\ request'[r].said = request[r].said
                             \/ ~(r > arrived),
         \A r \in Requests : /\ thread'[r].took = thread[r].took
                             /\ \/ thread'[r].at = thread[r].at
                                \/ thread[r].at = "starts" /\ thread'[r].at = "waits",
         msgTask' = msgTask, outbox' = outbox, arrived' = arrived
  PROVE  Fresh' /\ OwnThread' /\ OneOwner'
<1>1. \A s \in Sessions : session[s].rawRequest \in Requests \cup {None}
  BY DEF Calm, TypeOK, SessionType
<1>2. msgTask.at = "accepted" => msgTask.req \in Requests /\ msgTask.session \in Sessions
  BY DEF Calm, TypeOK
<1>3. \A r \in Requests : request[r].session \in Sessions
  BY DEF Calm, TypeOK, RequestType
<1>4. \A i \in 1..Len(outbox) : outbox[i].req \in Requests
  BY MessageType DEF Calm
<1>5. Fresh'
  BY DEF Calm, Fresh
<1>6. OwnThread'
  BY <1>1, <1>2, <1>3 DEF Calm, OwnThread, Pending, Attends
<1>7. \A r \in Requests : InUse(r)' => InUse(r)
  BY <1>1 DEF InUse
<1>8. OneOwner'
  BY <1>4, <1>7 DEF Calm, OneOwner
<1> QED BY <1>5, <1>6, <1>8

\* loc_eng_ni_request_handler: a session takes a request only when it has none.
LEMMA AcceptCalm ==
  ASSUME Calm, NEW k \in Kinds, Reject(k) \/ Accept(k)
  PROVE  Fresh' /\ OwnThread' /\ OneOwner'
<1> DEFINE new == arrived + 1
<1>1. arrived \in 0..MaxRequests /\ arrived < MaxRequests /\ k \in Sessions
  BY NiAssumption DEF Calm, TypeOK, Reject, Accept, Sessions
<1>2. /\ new \in Requests /\ new # None /\ new > arrived /\ arrived' = new
      /\ msgTask.at = "idle" /\ thread' = thread /\ outbox' = outbox
  BY <1>1, NiAssumption DEF Requests, None, Reject, Accept
<1>3. \A r \in Requests : r > new => r > arrived /\ r # new
  BY <1>1 DEF Requests
<1>4. \A s \in Sessions : session[s].rawRequest \in Requests \cup {None}
  BY DEF Calm, TypeOK, SessionType
<1>5. \A r \in Requests : request[r].session \in Sessions
  BY DEF Calm, TypeOK, RequestType
<1>6. /\ request[new].freed = 0 /\ ~request[new].shown /\ request[new].said = "nothing"
      /\ thread[new].at = "none"
      /\ \A s \in Sessions : session[s].rawRequest # new
  BY <1>2 DEF Calm, Fresh
<1>7. \A r \in Requests : r # new => request'[r] = request[r]
  BY DEF Reject, Accept, Calm, TypeOK
<1>8. \A i \in 1..Len(outbox) : outbox[i].req \in Requests /\ outbox[i].req # new
  BY <1>6, MessageType DEF Calm, OneOwner
<1>9. ~InUse(new)
  BY <1>6, <1>8 DEF InUse
<1>10. CASE Reject(k)
  <2>1. session' = session /\ msgTask' = msgTask /\ request'[new].freed = 1
    BY <1>10, <1>2 DEF Reject, Calm, TypeOK, RequestType
  <2> HIDE DEF new
  <2>2. Fresh'
    BY <2>1, <1>2, <1>3, <1>7 DEF Calm, Fresh
  <2>3. OwnThread'
    BY <2>1, <1>2, <1>4, <1>5, <1>6, <1>7 DEF Calm, OwnThread, Pending, Attends
  <2>4. \A r \in Requests : InUse(r)' => InUse(r)
    BY <2>1, <1>2 DEF InUse
  <2>5. OneOwner'
    BY <2>1, <2>4, <1>2, <1>7, <1>8, <1>9 DEF Calm, OneOwner
  <2> QED BY <2>2, <2>3, <2>5
<1>11. CASE Accept(k)
  <2>1. /\ session'[k].rawRequest = new
        /\ \A s \in Sessions : s # k => session'[s].rawRequest = session[s].rawRequest
        /\ request'[new].session = k /\ request'[new].freed = 0
        /\ msgTask' = [at |-> "accepted", req |-> new, session |-> k]
    BY <1>11, <1>1, <1>2, <1>6 DEF Accept, Calm, TypeOK, SessionType, RequestType
  <2>2. session[k].rawRequest = None
    BY <1>1, <1>11 DEF Accept, Blocks, Pending, Sessions
  <2> HIDE DEF new
  <2>3. Fresh'
    BY <2>1, <1>1, <1>2, <1>3, <1>7 DEF Calm, Fresh
  <2>4. OwnThread'
    <3>1. \A r \in Requests : Attends(r) => r # new /\ request[r].session # k
      BY <2>2, <1>2, <1>6, NiAssumption DEF Calm, OwnThread, Attends, Requests, None
    <3>2. \A r \in Requests : Attends(r)' => session'[request'[r].session].rawRequest = r
      BY <2>1, <3>1, <1>2, <1>5, <1>7 DEF Calm, OwnThread, Attends
    <3>3. ASSUME NEW s \in Sessions, Pending(s)'
          PROVE  LET r == session'[s].rawRequest IN
                 request'[r].session = s /\ thread'[r].at \notin {"clears", "ended"}
      <4>1. CASE s = k
        BY <4>1, <2>1, <1>2, <1>6
      <4>2. CASE s # k
        BY <3>3, <4>2, <2>1, <1>2, <1>4, <1>6, <1>7 DEF Calm, OwnThread, Pending
      <4> QED BY <4>1, <4>2
    <3> QED BY <2>1, <3>2, <3>3, <1>1, <1>2, <1>6 DEF Calm, OwnThread
  <2>5. \A r \in Requests : InUse(r)' => InUse(r) \/ r = new
    BY <2>1, <1>2 DEF InUse
  <2>6. OneOwner'
    BY <2>1, <2>5, <1>2, <1>7, <1>8 DEF Calm, OneOwner
  <2> QED BY <2>3, <2>4, <2>6
<1> QED BY <1>10, <1>11

\* The thread is started for the request that was just accepted.
LEMMA NotifyCalm ==
  ASSUME Calm, Notify
  PROVE  Fresh' /\ OwnThread' /\ OneOwner'
<1> DEFINE r == msgTask.req  k == msgTask.session
<1>1. /\ r \in Requests /\ k \in Sessions /\ msgTask.at = "accepted"
      /\ thread[r].at = "none" /\ session[k].rawRequest = r
  BY DEF Calm, TypeOK, OwnThread, Notify
<1>2. r # None /\ Pending(k)
  BY <1>1, NiAssumption DEF Requests, None, Pending
<1>3. request[r].session = k
  BY <1>1, <1>2 DEF Calm, OwnThread
<1>4. \A s \in Sessions : session'[s].rawRequest = session[s].rawRequest
  BY <1>1 DEF Notify, Calm, TypeOK, SessionType
<1>5. /\ \A q \in Requests : request'[q].session = request[q].session
                             /\ request'[q].freed = request[q].freed
      /\ \A q \in Requests : q # r => request'[q] = request[q]
  BY <1>1 DEF Notify, Calm, TypeOK, RequestType
<1>6. /\ \A q \in Requests : q # r => thread'[q] = thread[q]
      /\ thread'[r].at \in {"none", "starts"} /\ thread'[r].took = thread[r].took
  <2>1. thread' = thread \/ thread' = [thread EXCEPT ![r] = [@ EXCEPT !.at = "starts"]]
    BY DEF Notify
  <2>2. thread[r] \in ThreadType /\ DOMAIN thread = Requests
    BY <1>1 DEF Calm, TypeOK
  <2> HIDE DEF r
  <2> QED BY <2>1, <2>2, <1>1 DEF ThreadType
<1>7. msgTask'.at = "idle" /\ outbox' = outbox /\ arrived' = arrived
  BY DEF Notify, Idle
<1>8. \A s \in Sessions : session[s].rawRequest \in Requests \cup {None}
  BY DEF Calm, TypeOK, SessionType
<1>9. \A q \in Requests : request[q].session \in Sessions
  BY DEF Calm, TypeOK, RequestType
<1>10. \A i \in 1..Len(outbox) : outbox[i].req \in Requests /\ outbox[i].req # r
  BY <1>1, MessageType DEF Calm, OneOwner
<1>11. ~(r > arrived)
  BY <1>1 DEF Calm, Fresh
<1> HIDE DEF r, k
<1>12. Fresh'
  BY <1>1, <1>4, <1>5, <1>6, <1>7, <1>11 DEF Calm, Fresh
<1>13. OwnThread'
  BY <1>1, <1>3, <1>4, <1>5, <1>6, <1>7, <1>8, <1>9 DEF Calm, OwnThread, Pending, Attends
<1>14. \A q \in Requests : InUse(q)' => InUse(q)
  BY <1>1, <1>4, <1>6, <1>7 DEF InUse
<1>15. OneOwner'
  BY <1>5, <1>6, <1>7, <1>10, <1>14 DEF Calm, OneOwner
<1> QED BY <1>12, <1>13, <1>15

\* LocEngInformNiResponse frees a request that nobody else has.
LEMMA InformCalm ==
  ASSUME Calm, InformNiResponse
  PROVE  Fresh' /\ OwnThread' /\ OneOwner'
<1> DEFINE r == Head(outbox).req  last == Len(outbox)
<1>1. /\ outbox # <<>> /\ outbox' = Tail(outbox) /\ outbox \in Seq([req : Requests, resp : Resps])
      /\ UNCHANGED <<session, thread, msgTask, arrived>>
  BY DEF InformNiResponse, Calm, TypeOK
<1>2. /\ last \in Nat /\ last >= 1 /\ Len(outbox') = last - 1 /\ outbox[1].req = r
      /\ \A i \in 1..(last - 1) : outbox'[i] = outbox[i + 1]
  BY <1>1
<1>3. r \in Requests
  BY <1>2, MessageType DEF Calm
<1>4. /\ \A q \in Requests : q # r => request'[q] = request[q]
      /\ request'[r].session = request[r].session /\ request'[r].freed = request[r].freed + 1
      /\ request'[r].shown = request[r].shown /\ request'[r].said = request[r].said
  <2> DEFINE n == request[r].freed + 1  w == Head(outbox).resp
  <2>1. request' = [request EXCEPT ![r] = [@ EXCEPT !.freed = n, !.sent = w]]
    BY DEF InformNiResponse
  <2>2. request[r] \in RequestType /\ DOMAIN request = Requests
    BY <1>3 DEF Calm, TypeOK
  <2>3. n = request[r].freed + 1
    OBVIOUS
  <2> HIDE DEF n, w, r
  <2> QED BY <2>1, <2>2, <2>3, <1>3 DEF RequestType
<1> HIDE DEF r, last
<1>5. thread[r].at = "ended" /\ request[r].freed = 0
  BY <1>2, <1>3 DEF Calm, OneOwner, InUse, last
<1>6. \A i \in 1..(last - 1) : i + 1 \in 1..last /\ outbox[i + 1].req # r
  BY <1>2 DEF Calm, OneOwner, last
<1>7. \A s \in Sessions : session[s].rawRequest \in Requests \cup {None}
  BY DEF Calm, TypeOK, SessionType
<1>8. \A q \in Requests : request[q].session \in Sessions
  BY DEF Calm, TypeOK, RequestType
<1>9. Fresh'
  BY <1>1, <1>4, <1>5 DEF Calm, Fresh
<1>10. OwnThread'
  BY <1>1, <1>3, <1>4, <1>7, <1>8 DEF Calm, OwnThread, Pending, Attends
<1>11. \A q \in Requests : InUse(q)' => InUse(q) /\ q # r
  <2>1. ASSUME NEW s \in Sessions, session[s].rawRequest = r PROVE FALSE
    <3>1. Pending(s)
      BY <2>1, <1>3, NiAssumption DEF Pending, Requests, None
    <3> QED BY <2>1, <3>1, <1>5 DEF Calm, OwnThread
  <2>2. \A q \in Requests : (\E i \in 1..(last - 1) : outbox'[i].req = q)
                            => q # r /\ \E i \in 1..last : outbox[i].req = q
    BY <1>2, <1>6
  <2> QED BY <1>1, <1>2, <1>5, <2>1, <2>2 DEF InUse, last
<1>12. OneOwner'
  <2>1. \A q \in Requests : request'[q].freed <= 1 /\ (InUse(q)' => request'[q].freed = 0)
    BY <1>4, <1>5, <1>11 DEF Calm, OneOwner
  <2>2. \A i \in 1..Len(outbox') : outbox'[i] = outbox[i + 1] /\ i + 1 \in 1..Len(outbox)
    BY <1>2, <1>6 DEF last
  <2>3. \A i, j \in 1..Len(outbox') : outbox'[i].req = outbox'[j].req => i = j
    BY <2>2 DEF Calm, OneOwner
  <2>4. \A i \in 1..Len(outbox') : thread'[outbox'[i].req].at = "ended"
    BY <2>2, <1>1 DEF Calm, OneOwner
  <2> QED BY <2>1, <2>3, <2>4 DEF OneOwner
<1> QED BY <1>9, <1>10, <1>12

\* The end of the wait: the thread takes its own request, which from then on
\* is its message's, or frees it.
LEMMA TakeCalm ==
  ASSUME Calm, NEW r \in Requests, NEW w \in Resps, Take(r, w), thread[r].at = "waits"
  PROVE  Fresh' /\ OwnThread' /\ OneOwner'
<1> DEFINE k == request[r].session  took == IF w = "IGNORE" THEN None ELSE r
<1>1. k \in Sessions /\ session[k].rawRequest = r /\ r # None
  BY NiAssumption DEF Calm, TypeOK, RequestType, OwnThread, Attends, Requests, None
<1>2. \A s \in Sessions : session'[s].rawRequest = session[s].rawRequest
  BY <1>1 DEF Take, Calm, TypeOK, SessionType
<1>3. /\ \A q \in Requests : q # r => thread'[q] = thread[q]
      /\ thread'[r].at = "takes" /\ thread'[r].took = took
  <2>1. thread' = [thread EXCEPT ![r] = [@ EXCEPT !.at = "takes", !.resp = w, !.took = took]]
    BY <1>1 DEF Take
  <2>2. thread[r] \in ThreadType /\ DOMAIN thread = Requests
    BY DEF Calm, TypeOK
  <2> HIDE DEF took
  <2> QED BY <2>1, <2>2 DEF ThreadType
<1>4. /\ \A q \in Requests : q # r => request'[q] = request[q]
      /\ request'[r].session = k
      /\ request'[r].shown = request[r].shown /\ request'[r].said = request[r].said
      /\ request'[r].freed = IF w = "IGNORE" THEN request[r].freed + 1 ELSE request[r].freed
  <2> DEFINE n == request[r].freed + 1
  <2>1. request' = IF w = "IGNORE" THEN [request EXCEPT ![r] = [@ EXCEPT !.freed = n]] ELSE request
    BY <1>1 DEF Take, Freed
  <2>2. request[r] \in RequestType /\ DOMAIN request = Requests
    BY DEF Calm, TypeOK
  <2>3. n = request[r].freed + 1
    OBVIOUS
  <2> HIDE DEF n
  <2> QED BY <2>1, <2>2, <2>3 DEF RequestType
<1>5. msgTask' = msgTask /\ outbox' = outbox /\ arrived' = arrived
  BY DEF Take
<1>6. request[r].freed = 0 /\ ~(r > arrived)
  BY <1>1 DEF Calm, OneOwner, InUse, Fresh
<1>7. \A s \in Sessions : session[s].rawRequest \in Requests \cup {None}
  BY DEF Calm, TypeOK, SessionType
<1>8. \A q \in Requests : request[q].session \in Sessions
  BY DEF Calm, TypeOK, RequestType
<1>9. \A i \in 1..Len(outbox) : outbox[i].req \in Requests /\ outbox[i].req # r
  BY MessageType DEF Calm, OneOwner
<1>10. msgTask.at = "accepted" => msgTask.req \in Requests /\ msgTask.req # r
  BY DEF Calm, TypeOK, OwnThread
<1> HIDE DEF k
<1>11. Fresh'
  BY <1>2, <1>3, <1>4, <1>5, <1>6 DEF Calm, Fresh
<1>12. OwnThread'
  <2>1. \A q \in Requests : Attends(q)' => session'[request'[q].session].rawRequest = q
    BY <1>1, <1>2, <1>3, <1>4, <1>8 DEF Calm, OwnThread, Attends, k
  <2>2. ASSUME NEW s \in Sessions, Pending(s)'
        PROVE  LET q == session'[s].rawRequest IN
               request'[q].session = s /\ thread'[q].at \notin {"clears", "ended"}
    BY <2>2, <1>2, <1>3, <1>4, <1>7 DEF Calm, OwnThread, Pending, k
  <2>3. thread'[r].took \in {None, r}
    BY <1>3
  <2>4. msgTask.at = "accepted" => msgTask.session \in Sessions
    BY DEF Calm, TypeOK
  <2> QED BY <2>1, <2>2, <2>3, <2>4, <1>2, <1>3, <1>5, <1>10 DEF Calm, OwnThread
<1>13. \A q \in Requests : InUse(q)' => InUse(q) /\ (q = r => w # "IGNORE")
  BY <1>1, <1>2, <1>3, <1>5, <1>9 DEF InUse
<1>14. OneOwner'
  BY <1>3, <1>4, <1>5, <1>6, <1>9, <1>13 DEF Calm, OneOwner
<1> QED BY <1>11, <1>12, <1>14

\* After the wait the session is free again, and the message is sent.
LEMMA ReleaseCalm ==
  ASSUME Calm, NEW r \in Requests, Unlock(r) \/ Clear(r)
  PROVE  Fresh' /\ OwnThread' /\ OneOwner'
<1> DEFINE k == request[r].session
<1>1. k \in Sessions /\ thread[r] \in ThreadType /\ DOMAIN thread = Requests /\ r # None
  BY NiAssumption DEF Calm, TypeOK, RequestType, Requests, None
<1>2. \A s \in Sessions : session[s].rawRequest \in Requests \cup {None}
  BY DEF Calm, TypeOK, SessionType
<1>3. \A q \in Requests : request[q].session \in Sessions
  BY DEF Calm, TypeOK, RequestType
<1>4. request' = request /\ msgTask' = msgTask /\ arrived' = arrived
  BY DEF Unlock, Clear
<1>5. msgTask.at = "accepted" => msgTask.req \in Requests /\ msgTask.req # r
  BY DEF Calm, TypeOK, OwnThread, Unlock, Clear
<1>6. \A q \in Requests : q # r => thread'[q] = thread[q]
  BY DEF Unlock, Clear, Calm, TypeOK
<1>7. ~(r > arrived)
  BY DEF Calm, Fresh, Unlock, Clear
<1>8. \A i \in 1..Len(outbox) : outbox[i].req \in Requests /\ outbox[i].req # r
  BY MessageType DEF Calm, OneOwner, Unlock, Clear
<1>9. CASE Unlock(r)
  <2>1. /\ thread[r].at = "takes" /\ thread'[r].at = "clears" /\ thread'[r].took = thread[r].took
        /\ outbox' = outbox
    BY <1>1, <1>9 DEF Unlock, ThreadType
  <2>2. /\ session'[k].rawRequest = None
        /\ \A s \in Sessions : s # k => session'[s].rawRequest = session[s].rawRequest
    BY <1>1, <1>9 DEF Unlock, Calm, TypeOK, SessionType
  <2>3. session[k].rawRequest = r
    BY <2>1 DEF Calm, OwnThread, Attends
  <2>4. \A s \in Sessions : s # k => session[s].rawRequest # r
    BY <1>1 DEF Calm, OwnThread, Pending
  <2> HIDE DEF k
  <2>5. Fresh'
    <3>1. \A q \in Requests : q > arrived => q # None
      BY NiAssumption DEF Requests, None
    <3> QED BY <3>1, <2>1, <2>2, <1>4, <1>6, <1>7 DEF Calm, Fresh
  <2>6. OwnThread'
    <3>1. \A q \in Requests : Attends(q) /\ request[q].session = k => q = r
      BY <2>3 DEF Calm, OwnThread
    <3>2. msgTask.at = "accepted" => msgTask.session # k
      BY <2>3, <1>5 DEF Calm, OwnThread
    <3>3. \A q \in Requests : Attends(q)' => session'[request'[q].session].rawRequest = q
      BY <3>1, <2>1, <2>2, <1>3, <1>4, <1>6 DEF Calm, OwnThread, Attends
    <3>4. \A s \in Sessions : Pending(s)' => s # k
      BY <2>2 DEF Pending
    <3>5. ASSUME NEW s \in Sessions, Pending(s)'
          PROVE  LET q == session'[s].rawRequest IN
                 request'[q].session = s /\ thread'[q].at \notin {"clears", "ended"}
      BY <3>4, <3>5, <2>2, <2>4, <1>2, <1>4, <1>6 DEF Calm, OwnThread, Pending
    <3>6. msgTask.at = "accepted" => msgTask.session \in Sessions
      BY DEF Calm, TypeOK
    <3> QED BY <3>2, <3>3, <3>5, <3>6, <2>1, <2>2, <1>4, <1>5, <1>6 DEF Calm, OwnThread
  <2>7. \A q \in Requests : InUse(q)' => InUse(q)
    <3>1. \A q \in Requests : q # None
      BY NiAssumption DEF Requests, None
    <3> QED BY <3>1, <2>1, <2>2, <2>3, <2>4, <1>1, <1>6 DEF InUse
  <2>8. OneOwner'
    BY <2>1, <2>7, <1>4, <1>6, <1>8 DEF Calm, OneOwner
  <2> QED BY <2>5, <2>6, <2>8
<1>10. CASE Clear(r)
  <2> DEFINE m == [req |-> thread[r].took, resp |-> thread[r].resp]  last == Len(outbox)
  <2>1. /\ thread[r].at = "clears" /\ thread'[r].at = "ended" /\ thread'[r].took = thread[r].took
        /\ outbox' = IF thread[r].took = None THEN outbox ELSE Append(outbox, m)
    BY <1>1, <1>10 DEF Clear, ThreadType
  <2>2. \A s \in Sessions : session'[s].rawRequest = session[s].rawRequest
    BY <1>1, <1>10 DEF Clear, Calm, TypeOK, SessionType
  <2>3. thread[r].took \in {None, r}
    BY DEF Calm, OwnThread
  <2>4. /\ last \in Nat
        /\ \/ outbox' = outbox
           \/ /\ thread[r].took = r /\ Len(outbox') = last + 1 /\ outbox'[last + 1].req = r
              /\ \A i \in 1..last : outbox'[i] = outbox[i]
    BY <2>1, <2>3 DEF Calm, TypeOK
  <2>5. \A s \in Sessions : session[s].rawRequest # r
    BY <2>1, <1>1 DEF Calm, OwnThread, Pending
  <2> HIDE DEF k, m, last
  <2>6. Fresh'
    BY <2>2, <1>4, <1>6, <1>7 DEF Calm, Fresh
  <2>7. OwnThread'
    <3>1. \A q \in Requests : Attends(q)' => session'[request'[q].session].rawRequest = q
      BY <2>1, <2>2, <1>3, <1>4, <1>6 DEF Calm, OwnThread, Attends
    <3>2. ASSUME NEW s \in Sessions, Pending(s)'
          PROVE  LET q == session'[s].rawRequest IN
                 request'[q].session = s /\ thread'[q].at \notin {"clears", "ended"}
      BY <3>2, <2>2, <2>5, <1>2, <1>4, <1>6 DEF Calm, OwnThread, Pending
    <3>3. msgTask.at = "accepted" => msgTask.session \in Sessions
      BY DEF Calm, TypeOK
    <3> QED BY <3>1, <3>2, <3>3, <2>1, <2>2, <2>3, <1>4, <1>5, <1>6 DEF Calm, OwnThread
  <2>8. \A q \in Requests : InUse(q)' => InUse(q)
    <3>1. \A q \in Requests : (\E i \in 1..Len(outbox') : outbox'[i].req = q) =>
            (\E i \in 1..Len(outbox) : outbox[i].req = q) \/ (q = r /\ thread[r].took = r)
      BY <2>4 DEF last
    <3> QED BY <3>1, <2>1, <2>2, <2>5, <1>6 DEF InUse
  <2>9. OneOwner'
    <3>1. \A q \in Requests : request'[q].freed <= 1 /\ (InUse(q)' => request'[q].freed = 0)
      BY <2>8, <1>4 DEF Calm, OneOwner
    <3>2. \A i, j \in 1..Len(outbox') : outbox'[i].req = outbox'[j].req => i = j
      BY <2>4, <1>8 DEF Calm, OneOwner, last
    <3>3. \A i \in 1..Len(outbox') : thread'[outbox'[i].req].at = "ended"
      BY <2>1, <2>4, <1>6, <1>8 DEF Calm, OneOwner, last
    <3> QED BY <3>1, <3>2, <3>3 DEF OneOwner
  <2> QED BY <2>6, <2>7, <2>9
<1> QED BY <1>9, <1>10

\* A thread that starts and the user's answer leave the requests where they are.
LEMMA WaitCalm ==
  ASSUME Calm,
         \/ \E r \in Requests : Start(r)
         \/ \E r \in Requests, resp \in Answers : Respond(r, resp)
         \/ IgnoreSupl \/ LeaveAnswer
  PROVE  Fresh' /\ OwnThread' /\ OneOwner'
<1>1. ASSUME NEW r \in Requests, Start(r) PROVE Fresh' /\ OwnThread' /\ OneOwner'
  <2>1. \A q \in Requests :
          /\ thread'[q].took = thread[q].took
          /\ \/ thread'[q].at = thread[q].at
             \/ thread[q].at = "starts" /\ thread'[q].at = "waits"
    BY <1>1 DEF Start, Calm, TypeOK, ThreadType
  <2> QED BY <1>1, <2>1, CalmFrame DEF Start
<1>2. ASSUME NEW r \in Requests, NEW resp \in Answers, Respond(r, resp)
      PROVE  Fresh' /\ OwnThread' /\ OneOwner'
  <2>1. \A q \in Requests : /\ request'[q].session = request[q].session
                            /\ request'[q].freed = request[q].freed
                            /\ q # r => request'[q] = request[q]
    BY <1>2 DEF Respond, Calm, TypeOK, RequestType
  <2>2. ~(r > arrived)
    BY <1>2 DEF Respond, Calm, Fresh
  <2> QED BY <1>2, <2>1, <2>2, CalmFrame DEF Respond
<1>3. ASSUME NEW s \in Sessions, NEW resp \in Resps, Wake(s, resp)
      PROVE  \A x \in Sessions : session'[x].rawRequest = session[x].rawRequest
  BY <1>3 DEF Wake, Calm, TypeOK, SessionType
<1>4. CASE IgnoreSupl
  <2>1. \A x \in Sessions : session'[x].rawRequest = session[x].rawRequest
    BY <1>3, <1>4 DEF IgnoreSupl, Sessions, Resps
  <2> QED BY <1>4, <2>1, CalmFrame DEF IgnoreSupl
<1>5. CASE LeaveAnswer
  <2>1. \A x \in Sessions : session'[x].rawRequest = session[x].rawRequest
    BY <1>3, <1>5 DEF LeaveAnswer, Calm, TypeOK
  <2> QED BY <1>5, <2>1, CalmFrame DEF LeaveAnswer
<1> QED BY <1>1, <1>2, <1>4, <1>5

\* Restarts are counted.
LEMMA NextRestarts == [Next]_vars => restarts' = restarts \/ restarts' = restarts + 1
  BY DEF vars, Next, MsgTaskNext, ThreadNext, Reject, Accept, Notify, EngineDown, ResetFree,
     ResetWake, InformNiResponse, Start, Answered, TimesOut, Take, Unlock, Clear, Respond,
     IgnoreSupl, LeaveAnswer

\* The invariant until the engine restarts.
CalmInv == TypeOK /\ (restarts = 0 => Calm)

LEMMA CalmInvariant == Spec => []CalmInv
<1>1. Init => CalmInv
  <2> SUFFICES ASSUME Init PROVE CalmInv
    OBVIOUS
  <2>1. TypeOK
    BY InitTypes
  <2>2. Fresh /\ OwnThread /\ OneOwner
    BY DEF Init, Fresh, OwnThread, OneOwner, InUse, Attends, Pending, NoThread, Idle, None,
       Requests
  <2> QED BY <2>1, <2>2 DEF CalmInv, Calm
<1>2. CalmInv /\ [Next]_vars => CalmInv'
  <2> SUFFICES ASSUME CalmInv, [Next]_vars, restarts' = 0
               PROVE  Fresh' /\ OwnThread' /\ OneOwner'
    BY NextType DEF CalmInv, Calm
  <2>1. restarts \in Nat /\ (restarts' = restarts \/ restarts' = restarts + 1)
    BY NextRestarts, NiAssumption DEF CalmInv, TypeOK
  <2>2. Calm /\ restarts' = restarts
    BY <2>1 DEF CalmInv
  <2>3. msgTask.at \in {"idle", "accepted"}
    BY <2>2 DEF Calm, OwnThread
  <2>4. CASE UNCHANGED vars
    BY <2>4, <2>2, CalmFrame DEF vars
  <2>5. CASE MsgTaskNext
    <3>1. ~EngineDown /\ ~ResetFree /\ ~ResetWake
      BY <2>1, <2>2, <2>3 DEF EngineDown, ResetFree, ResetWake
    <3> QED BY <2>2, <2>5, <3>1, AcceptCalm, NotifyCalm, InformCalm DEF MsgTaskNext
  <2>6. ASSUME NEW r \in Requests, ThreadNext(r) PROVE Fresh' /\ OwnThread' /\ OneOwner'
    <3>1. CASE Answered(r)
      <4>1. session[request[r].session].resp \in Resps
        BY DEF CalmInv, TypeOK, SessionType, RequestType
      <4> QED BY <3>1, <4>1, <2>2, TakeCalm DEF Answered
    <3>2. CASE TimesOut(r)
      BY <3>2, <2>2, TakeCalm DEF TimesOut, Resps
    <3> QED BY <2>2, <2>6, <3>1, <3>2, WaitCalm, ReleaseCalm DEF ThreadNext
  <2> QED BY <2>2, <2>4, <2>5, <2>6, WaitCalm DEF Next
<1> QED BY <1>1, <1>2, PTL DEF Spec

\* Until the engine is restarted no request is freed twice, in any interleaving
\* of its thread, the handler, the message and the threads of other requests.
\* (With a restart it can be: the reset frees without the session's lock.)
THEOREM FreedOnceProved == Spec => []FreedOnceWithoutRestart
<1>1. CalmInv => FreedOnceWithoutRestart
  BY DEF CalmInv, Calm, OneOwner, FreedOnceWithoutRestart, FreedOnce
<1> QED BY <1>1, CalmInvariant, PTL

-----------------------------------------------------------------------------
(* As long as users decide, the modem is told what they said               *)

\* The notification of a request and the end of its wait are still to come.
NotYet ==
  /\ \A r \in Requests : thread[r].at \in {"none", "starts", "waits"} => thread[r].resp = "UNSET"
  /\ msgTask.at = "accepted" => ~request[msgTask.req].shown

\* An ID stands for one request: the one the session that has it works on.
OneId ==
  /\ \A r \in Requests : request[r].shown => request[r].id <= reqIDCounter
  /\ \A q, r \in Requests :
       request[q].shown /\ request[r].shown /\ request[q].id = request[r].id => q = r
  /\ \A s \in Sessions : Pending(s) =>
       LET r == session[s].rawRequest IN
       \/ request[r].shown /\ session[s].reqID \in {None, request[r].id}
       \/ /\ msgTask.at = "accepted" /\ msgTask.req = r
          /\ session[s].reqID \in {None, reqIDCounter}
          /\ \A q \in Requests : request[q].shown => request[q].id < reqIDCounter

\* An answer left in a session is for the request the session works on, unless
\* the request is to be ignored.
LeftAnswers ==
  \A s \in Sessions : session[s].respRecvd =>
    \/ session[s].resp = "IGNORE"
    \/ /\ Pending(s) /\ thread[session[s].rawRequest].at # "takes"
       /\ session[s].resp = request[session[s].rawRequest].said

\* So is the answer that the framework's thread is about to leave.
ComingAnswer ==
  /\ framework.at # "idle" =>
       LET s == framework.session IN
       /\ Pending(s) /\ thread[session[s].rawRequest].at # "takes"
       /\ framework.resp = request[session[s].rawRequest].said
       /\ session[s].respRecvd => session[s].resp = "IGNORE"
  /\ framework.at = "ignores" => framework.session = "es"

\* So are those that threads took, that are on their way and that were sent.
TakenAnswers ==
  /\ \A r \in Requests : thread[r].at \in {"takes", "clears"} => thread[r].resp = request[r].said
  /\ \A i \in 1..Len(outbox) : outbox[i].resp = request[outbox[i].req].said
  /\ \A r \in Requests : request[r].sent \in {"nothing", request[r].said}

OwnAnswer == LeftAnswers /\ ComingAnswer /\ TakenAnswers

\* What a request was notified with and how its wait ended is written once.
LEMMA WrittenOnce ==
  ASSUME Calm, NotYet, [Next]_vars, restarts' = restarts, msgTask.at \in {"idle", "accepted"}
  PROVE  /\ NotYet'
         /\ \A r \in Requests : thread'[r].resp = thread[r].resp \/ thread[r].at = "waits"
         /\ \A r \in Requests : request[r].shown => request'[r].shown /\ request'[r].id = request[r].id
<1> DEFINE Goal ==
      /\ NotYet'
      /\ \A r \in Requests : thread'[r].resp = thread[r].resp \/ thread[r].at = "waits"
      /\ \A r \in Requests : request[r].shown => request'[r].shown /\ request'[r].id = request[r].id
<1> SUFFICES Goal
  OBVIOUS
<1>1. /\ thread \in [Requests -> ThreadType] /\ request \in [Requests -> RequestType]
      /\ restarts \in Nat
      /\ msgTask.at = "accepted" => msgTask.req \in Requests
  BY NiAssumption DEF Calm, TypeOK
<1>2. CASE UNCHANGED vars
  BY <1>2 DEF vars, NotYet
<1>3. ASSUME NEW k \in Kinds, Reject(k) \/ Accept(k) PROVE Goal
  <2> DEFINE new == arrived + 1
  <2>1. /\ new \in Requests /\ ~request[new].shown
    BY <1>3, NiAssumption DEF Calm, TypeOK, Fresh, Requests, Reject, Accept
  <2>2. /\ thread' = thread /\ (msgTask'.at = "accepted" => msgTask'.req = new)
        /\ \/ request' = [request EXCEPT ![new] = [@ EXCEPT !.session = k, !.freed = 1]]
           \/ request' = [request EXCEPT ![new] = [@ EXCEPT !.session = k]]
    BY <1>3 DEF Reject, Accept
  <2> HIDE DEF new
  <2>3. /\ \A q \in Requests : q # new => request'[q] = request[q]
        /\ ~request'[new].shown
    BY <1>1, <2>1, <2>2 DEF RequestType
  <2> QED BY <2>1, <2>2, <2>3 DEF NotYet
<1>4. CASE Notify
  <2> DEFINE r == msgTask.req
  <2>1. r \in Requests /\ ~request[r].shown
    BY <1>1, <1>4 DEF NotYet, Notify
  <2>2. thread' = thread \/ thread' = [thread EXCEPT ![r] = [@ EXCEPT !.at = "starts"]]
    BY <1>4 DEF Notify
  <2>3. /\ \A q \in Requests : q # r => request'[q] = request[q]
        /\ msgTask'.at = "idle" /\ thread[r].at = "none"
    BY <1>1, <1>4, <2>1 DEF Notify, Idle, Calm, OwnThread
  <2> HIDE DEF r
  <2>4. /\ \A q \in Requests : thread'[q].resp = thread[q].resp
        /\ \A q \in Requests : q # r => thread'[q] = thread[q]
    BY <1>1, <2>1, <2>2 DEF ThreadType
  <2> QED BY <2>1, <2>3, <2>4 DEF NotYet
<1>5. CASE InformNiResponse
  <2> DEFINE r == Head(outbox).req  w == Head(outbox).resp  n == request[r].freed + 1
  <2>1. request' = [request EXCEPT ![r] = [@ EXCEPT !.freed = n, !.sent = w]]
        /\ thread' = thread /\ msgTask' = msgTask
    BY <1>5 DEF InformNiResponse
  <2> HIDE DEF r, w, n
  <2>2. \A q \in Requests : request'[q].shown = request[q].shown /\ request'[q].id = request[q].id
    BY <1>1, <2>1 DEF RequestType
  <2> QED BY <1>1, <2>1, <2>2 DEF NotYet
<1>6. ASSUME NEW r \in Requests, Start(r) \/ Unlock(r) \/ Clear(r) PROVE Goal
  <2>1. /\ \A q \in Requests : q # r => thread'[q] = thread[q]
        /\ thread'[r].resp = thread[r].resp
        /\ thread'[r].at \in {"none", "starts", "waits"} => thread[r].at = "starts"
        /\ request' = request /\ msgTask' = msgTask
    <3>1. thread[r] \in ThreadType /\ DOMAIN thread = Requests
      BY <1>1
    <3>2. CASE Start(r)
      <4> DEFINE t == session[request[r].session].respTimeLeft
      <4>1. /\ thread' = [thread EXCEPT ![r] = [@ EXCEPT !.at = "waits", !.waits = t]]
            /\ thread[r].at = "starts" /\ request' = request /\ msgTask' = msgTask
        BY <3>2 DEF Start
      <4> HIDE DEF t
      <4> QED BY <3>1, <4>1 DEF ThreadType
    <3>3. CASE Unlock(r) \/ Clear(r)
      BY <3>1, <3>3 DEF Unlock, Clear, ThreadType
    <3> QED BY <1>6, <3>2, <3>3
  <2> QED BY <1>1, <2>1 DEF NotYet
<1>7. ASSUME NEW r \in Requests, NEW w, Take(r, w), thread[r].at = "waits" PROVE Goal
  <2> DEFINE k == request[r].session  took == IF w = "IGNORE" THEN None ELSE r
             n == request[r].freed + 1
  <2>1. session[k].rawRequest = r /\ r # None
    BY <1>7, NiAssumption DEF Calm, OwnThread, Attends, Requests, None
  <2>2. /\ thread' = [thread EXCEPT ![r] = [@ EXCEPT !.at = "takes", !.resp = w, !.took = took]]
        /\ request' = request \/ request' = [request EXCEPT ![r] = [@ EXCEPT !.freed = n]]
        /\ msgTask' = msgTask
    BY <1>7, <2>1 DEF Take, Freed
  <2> HIDE DEF took, k, n
  <2>3. /\ \A q \in Requests : q # r => thread'[q] = thread[q]
        /\ thread'[r].at = "takes"
        /\ \A q \in Requests : request'[q].shown = request[q].shown /\ request'[q].id = request[q].id
    BY <1>1, <2>2 DEF ThreadType, RequestType
  <2> QED BY <1>1, <1>7, <2>2, <2>3 DEF NotYet
<1>8. ASSUME NEW r \in Requests, NEW w \in Answers, Respond(r, w) PROVE Goal
  <2>1. /\ \A q \in Requests : request'[q].shown = request[q].shown /\ request'[q].id = request[q].id
        /\ thread' = thread /\ msgTask' = msgTask
    BY <1>1, <1>8 DEF Respond, RequestType
  <2> QED BY <1>1, <2>1 DEF NotYet
<1>9. CASE IgnoreSupl \/ LeaveAnswer
  BY <1>9 DEF IgnoreSupl, LeaveAnswer, NotYet
<1>10. ~EngineDown /\ ~ResetFree /\ ~ResetWake
  BY <1>1 DEF EngineDown, ResetFree, ResetWake
<1> HIDE DEF Goal
<1>11. ASSUME NEW r \in Requests, ThreadNext(r) PROVE Goal
  BY <1>6, <1>7, <1>11 DEF ThreadNext, Answered, TimesOut
<1>12. CASE MsgTaskNext
  BY <1>3, <1>4, <1>5, <1>10, <1>12 DEF MsgTaskNext
<1>13. CASE \E r \in Requests, w \in Answers : Respond(r, w)
  BY <1>8, <1>13
<1> QED BY <1>2, <1>9, <1>11, <1>12, <1>13 DEF Next

\* So what the users decided they have decided for good.
LEMMA DecidedBefore ==
  ASSUME Calm, NotYet, [Next]_vars, restarts = 0, UsersDecided'
  PROVE  UsersDecided
<1>1. restarts' = restarts
  BY DEF UsersDecided
<1>2. msgTask.at \in {"idle", "accepted"}
  BY DEF Calm, OwnThread
<1> QED BY <1>1, <1>2, WrittenOnce DEF UsersDecided, NotYet

Decided == Calm /\ NotYet /\ OneId /\ OwnAnswer

\* Types that the steps below need.
LEMMA DecidedTypes ==
  ASSUME Calm
  PROVE  /\ thread \in [Requests -> ThreadType] /\ request \in [Requests -> RequestType]
         /\ session \in [Sessions -> SessionType]
         /\ \A s \in Sessions : session[s].rawRequest \in Requests \cup {None}
         /\ \A r \in Requests : r # None /\ request[r].session \in Sessions
         /\ \A r \in Requests : thread[r].resp \in Resps /\ thread[r].resp # "nothing"
         /\ \A s \in Sessions : session[s].resp # "nothing"
         /\ reqIDCounter \in Nat /\ arrived \in Nat /\ restarts \in Nat
         /\ framework.session \in Sessions
         /\ msgTask.at = "accepted" => msgTask.req \in Requests /\ msgTask.session \in Sessions
<1>1. /\ thread \in [Requests -> ThreadType] /\ request \in [Requests -> RequestType]
      /\ session \in [Sessions -> SessionType]
      /\ framework.session \in Sessions
      /\ msgTask.at = "accepted" => msgTask.req \in Requests /\ msgTask.session \in Sessions
  BY DEF Calm, TypeOK
<1>2. \A w \in Resps : w # "nothing"
  BY DEF Resps
<1>3. reqIDCounter \in Nat /\ arrived \in Nat /\ restarts \in Nat
  BY NiAssumption DEF Calm, TypeOK
<1>4. \A r \in Requests : r # None
  BY NiAssumption DEF Requests, None
<1> QED BY <1>1, <1>2, <1>3, <1>4 DEF ThreadType, RequestType, SessionType

\* The request of a session, and the thread of another, are not confused.
LEMMA OneSession ==
  ASSUME Calm, NEW s \in Sessions, Pending(s)
  PROVE  LET r == session[s].rawRequest IN
         r \in Requests /\ request[r].session = s /\ thread[r].at \notin {"clears", "ended"}
  BY DecidedTypes DEF Calm, OwnThread, Pending

\* What loc_eng_ni_request_handler notifies the user with is new.
LEMMA HandlerDecided ==
  ASSUME Decided, UsersDecided', (\E k \in Kinds : Reject(k) \/ Accept(k)) \/ Notify
  PROVE  OneId' /\ OwnAnswer'
<1>0. Calm
  BY DEF Decided
<1>1. ASSUME NEW k \in Kinds, Reject(k) \/ Accept(k) PROVE OneId' /\ OwnAnswer'
  <2> DEFINE new == arrived + 1
  <2>0. arrived \in 0..MaxRequests /\ arrived < MaxRequests
    BY <1>0, <1>1 DEF Calm, TypeOK, Reject, Accept
  <2>1. /\ new \in Requests /\ new # None /\ k \in Sessions
        /\ ~request[new].shown /\ request[new].said = "nothing" /\ thread[new].at = "none"
        /\ \A s \in Sessions : session[s].rawRequest # new
    BY <1>0, <2>0, NiAssumption DEF Calm, Fresh, Requests, None, Sessions
  <2>2. /\ thread' = thread /\ outbox' = outbox /\ framework' = framework /\ msgTask.at = "idle"
        /\ \/ request' = [request EXCEPT ![new] = [@ EXCEPT !.session = k, !.freed = 1]]
           \/ request' = [request EXCEPT ![new] = [@ EXCEPT !.session = k]]
    BY <1>1 DEF Reject, Accept
  <2>3. \/ session' = session /\ msgTask' = msgTask /\ reqIDCounter' = reqIDCounter
        \/ /\ reqIDCounter' = reqIDCounter + 1 /\ ~Pending(k)
           /\ session'[k].rawRequest = new /\ session'[k].reqID = reqIDCounter + 1
           /\ session'[k].resp = session[k].resp /\ session'[k].respRecvd = session[k].respRecvd
           /\ \A s \in Sessions : s # k => session'[s] = session[s]
           /\ msgTask' = [at |-> "accepted", req |-> new, session |-> k]
    <3>1. CASE Reject(k)
      BY <3>1 DEF Reject
    <3>2. CASE Accept(k)
      <4>1. ~Pending(k)
        <5>1. k \in Blocks(k)
          BY <2>1 DEF Blocks, Sessions
        <5> QED BY <3>2, <5>1 DEF Accept
      <4>2. session[k] \in SessionType /\ DOMAIN session = Sessions
        BY <2>1, <1>0, DecidedTypes
      <4> QED BY <2>1, <3>2, <4>1, <4>2 DEF Accept, SessionType
    <3> QED BY <1>1, <3>1, <3>2
  <2> HIDE DEF new
  <2>4. /\ \A q \in Requests : /\ request'[q].shown = request[q].shown
                               /\ request'[q].id = request[q].id
                               /\ request'[q].said = request[q].said
                               /\ request'[q].sent = request[q].sent
    <3>1. request[new] \in RequestType /\ DOMAIN request = Requests
      BY <2>1, <1>0, DecidedTypes
    <3>2. \A q \in Requests : q # new => request'[q] = request[q]
      BY <2>2, <3>1
    <3>3. /\ request'[new].shown = request[new].shown /\ request'[new].id = request[new].id
          /\ request'[new].said = request[new].said /\ request'[new].sent = request[new].sent
      BY <2>1, <2>2, <3>1 DEF RequestType
    <3> QED BY <3>2, <3>3
  <2>5. \A i \in 1..Len(outbox) : outbox[i].req \in Requests
    BY <1>0, MessageType DEF Calm
  <2>6. OneId'
    <3>1. /\ \A q \in Requests : request'[q].shown => request'[q].id < reqIDCounter + 1
          /\ reqIDCounter \in Nat
          /\ \A q \in Requests : request'[q].id \in Nat
      <4>1. \A q \in Requests : request[q].id \in Nat
        BY <1>0, DecidedTypes DEF RequestType
      <4> QED BY <2>4, <4>1, <1>0, DecidedTypes DEF Decided, OneId
    <3>2. \A q \in Requests : request'[q].shown => request'[q].id <= reqIDCounter'
      BY <2>3, <2>4, <3>1 DEF Decided, OneId
    <3>3. \A p, q \in Requests :
            request'[p].shown /\ request'[q].shown /\ request'[p].id = request'[q].id => p = q
      BY <2>4 DEF Decided, OneId
    <3>4. ASSUME NEW s \in Sessions, Pending(s)
          PROVE  /\ session[s].rawRequest \in Requests
                 /\ request'[session[s].rawRequest].shown
                 /\ session[s].reqID \in {None, request'[session[s].rawRequest].id}
      BY <2>2, <2>4, <3>4, <1>0, OneSession DEF Decided, OneId
    <3>5. ASSUME NEW s \in Sessions, Pending(s)'
          PROVE  LET q == session'[s].rawRequest IN
                 \/ request'[q].shown /\ session'[s].reqID \in {None, request'[q].id}
                 \/ /\ msgTask'.at = "accepted" /\ msgTask'.req = q
                    /\ session'[s].reqID \in {None, reqIDCounter'}
                    /\ \A p \in Requests : request'[p].shown => request'[p].id < reqIDCounter'
      <4>1. CASE session'[s] = session[s]
        BY <3>4, <3>5, <4>1 DEF Pending
      <4>2. CASE session'[s] # session[s]
        BY <2>3, <3>1, <4>2
      <4> QED BY <4>1, <4>2
    <3> QED BY <3>2, <3>3, <3>5 DEF OneId
  <2>7. LeftAnswers'
    BY <2>1, <2>2, <2>3, <2>4, <1>0, DecidedTypes DEF Decided, OwnAnswer, LeftAnswers, Pending
  <2>8. ComingAnswer'
    BY <2>1, <2>2, <2>3, <2>4, <1>0, DecidedTypes DEF Decided, OwnAnswer, ComingAnswer, Pending
  <2>9. TakenAnswers'
    BY <2>2, <2>4, <2>5 DEF Decided, OwnAnswer, TakenAnswers
  <2> QED BY <2>6, <2>7, <2>8, <2>9 DEF OwnAnswer
<1>2. CASE Notify
  <2> DEFINE r == msgTask.req  k == msgTask.session  given == session[k].reqID
  <2>1. /\ r \in Requests /\ k \in Sessions /\ msgTask.at = "accepted"
        /\ ~request[r].shown /\ thread[r].at = "none" /\ session[k].rawRequest = r
    BY <1>0, <1>2, DecidedTypes DEF Decided, NotYet, Calm, OwnThread, Notify
  <2>2. /\ request' = [request EXCEPT ![r] = [@ EXCEPT !.id = given, !.shown = TRUE]]
        /\ session' = [session EXCEPT ![k] = [@ EXCEPT !.respTimeLeft = RespTime]]
        /\ thread' = thread \/ thread' = [thread EXCEPT ![r] = [@ EXCEPT !.at = "starts"]]
        /\ outbox' = outbox /\ framework' = framework /\ reqIDCounter' = reqIDCounter
        /\ msgTask'.at = "idle"
    BY <1>2 DEF Notify, Idle
  <2>3. Pending(k) /\ request[r].session = k
    BY <2>1, <1>0, DecidedTypes, OneSession DEF Pending
  <2> HIDE DEF r, k, given
  <2>4. /\ \A q \in Requests : q # r => request'[q] = request[q]
        /\ request'[r].id = given /\ request'[r].shown
        /\ request'[r].said = request[r].said /\ request'[r].sent = request[r].sent
    BY <2>1, <2>2, <1>0, DecidedTypes DEF RequestType
  <2>5. \A s \in Sessions : /\ session'[s].rawRequest = session[s].rawRequest
                            /\ session'[s].reqID = session[s].reqID
                            /\ session'[s].resp = session[s].resp
                            /\ session'[s].respRecvd = session[s].respRecvd
    BY <2>1, <2>2, <1>0, DecidedTypes DEF SessionType
  <2>6. \A q \in Requests : /\ thread'[q].resp = thread[q].resp
                            /\ \/ thread'[q].at = thread[q].at
                               \/ thread'[q].at = "starts"
    BY <2>1, <2>2, <1>0, DecidedTypes DEF ThreadType
  <2>7. given = reqIDCounter /\ \A q \in Requests : request[q].shown => request[q].id < given
    <3>1. given # None
      BY <2>1, <2>4 DEF UsersDecided
    <3>2. given \in {None, reqIDCounter}
          /\ \A q \in Requests : request[q].shown => request[q].id < reqIDCounter
      BY <2>1, <2>3 DEF Decided, OneId, given
    <3> QED BY <3>1, <3>2
  <2>8. \A s \in Sessions : Pending(s) => s = k \/ session[s].rawRequest # r
    BY <1>0, <2>3, OneSession
  <2>9. \A i \in 1..Len(outbox) : outbox[i].req \in Requests
    BY <1>0, MessageType DEF Calm
  <2>10. OneId'
    <3>1. \A q \in Requests : request'[q].shown => request'[q].id <= reqIDCounter'
      BY <2>2, <2>4, <2>7, <1>0, DecidedTypes DEF Decided, OneId
    <3>2. \A p, q \in Requests :
            request'[p].shown /\ request'[q].shown /\ request'[p].id = request'[q].id => p = q
      <4>1. \A q \in Requests : q # r /\ request'[q].shown => request'[q].id # given
        BY <2>4, <2>7, <1>0, DecidedTypes DEF RequestType
      <4> QED BY <2>4, <4>1 DEF Decided, OneId
    <3>3. ASSUME NEW s \in Sessions, Pending(s)'
          PROVE  LET q == session'[s].rawRequest IN
                 request'[q].shown /\ session'[s].reqID \in {None, request'[q].id}
      <4>1. Pending(s)
        BY <2>5, <3>3 DEF Pending
      <4>2. CASE s = k
        BY <4>2, <2>1, <2>4, <2>5 DEF given
      <4>3. CASE s # k
        BY <4>1, <4>3, <2>1, <2>4, <2>5, <2>8, <1>0, OneSession DEF Decided, OneId, r
      <4> QED BY <4>2, <4>3
    <3> QED BY <3>1, <3>2, <3>3 DEF OneId
  <2>11. LeftAnswers'
    BY <2>1, <2>2, <2>4, <2>5, <2>6, <1>0, DecidedTypes DEF Decided, OwnAnswer, LeftAnswers, Pending
  <2>12. ComingAnswer'
    BY <2>1, <2>2, <2>4, <2>5, <2>6, <1>0, DecidedTypes DEF Decided, OwnAnswer, ComingAnswer, Pending
  <2>13. TakenAnswers'
    BY <2>1, <2>2, <2>4, <2>6, <2>9 DEF Decided, OwnAnswer, TakenAnswers
  <2> QED BY <2>10, <2>11, <2>12, <2>13 DEF OwnAnswer
<1> QED BY <1>1, <1>2

\* OneId depends neither on the threads nor on the messages.
LEMMA OneIdFrame ==
  ASSUME Decided,
         \A s \in Sessions : session'[s].rawRequest \in {session[s].rawRequest, None}
                             /\ session'[s].reqID \in {session[s].reqID, None},
         \A r \in Requests : request'[r].shown = request[r].shown /\ request'[r].id = request[r].id,
         msgTask' = msgTask, reqIDCounter' = reqIDCounter
  PROVE  OneId'
<1>0. Calm
  BY DEF Decided
<1>1. ASSUME NEW s \in Sessions, Pending(s)'
      PROVE  /\ Pending(s) /\ session'[s].rawRequest = session[s].rawRequest
             /\ session[s].rawRequest \in Requests
  BY <1>1, <1>0, DecidedTypes DEF Pending
<1>2. ASSUME NEW s \in Sessions, Pending(s)'
      PROVE  LET r == session'[s].rawRequest IN
             \/ request'[r].shown /\ session'[s].reqID \in {None, request'[r].id}
             \/ /\ msgTask'.at = "accepted" /\ msgTask'.req = r
                /\ session'[s].reqID \in {None, reqIDCounter'}
                /\ \A q \in Requests : request'[q].shown => request'[q].id < reqIDCounter'
  BY <1>1, <1>2 DEF Decided, OneId
<1> QED BY <1>2 DEF Decided, OneId

\* loc_eng_ni_respond finds the session of the request that is answered.
LEMMA RespondDecided ==
  ASSUME Decided, UsersDecided', NEW r \in Requests, NEW w \in Answers, Respond(r, w)
  PROVE  OneId' /\ OwnAnswer'
<1>0. Calm
  BY DEF Decided
<1>1. /\ \A q \in Requests : q # r => request'[q] = request[q]
      /\ request'[r].shown = request[r].shown /\ request'[r].id = request[r].id
      /\ request'[r].sent = request[r].sent
      /\ request'[r].said = w
      /\ request[r].shown /\ request[r].said = "nothing" /\ framework.at = "idle"
      /\ session' = session /\ thread' = thread /\ outbox' = outbox /\ msgTask' = msgTask
      /\ reqIDCounter' = reqIDCounter
  <2>1. request[r] \in RequestType /\ DOMAIN request = Requests
    BY <1>0, DecidedTypes
  <2> QED BY <2>1 DEF Respond, RequestType
<1>2. request[r].id # None
  BY <1>1 DEF UsersDecided
<1>3. ASSUME NEW s \in Sessions, IsFor(s, request[r].id)
      PROVE  Pending(s) /\ session[s].rawRequest = r
  <2> DEFINE q == session[s].rawRequest
  <2>1. Pending(s) /\ q \in Requests /\ session[s].reqID = request[r].id
    BY <1>3, <1>0, OneSession DEF IsFor
  <2>2. CASE request[q].shown /\ session[s].reqID \in {None, request[q].id}
    BY <1>1, <1>2, <2>1, <2>2 DEF Decided, OneId
  <2>3. CASE /\ session[s].reqID \in {None, reqIDCounter}
             /\ \A p \in Requests : request[p].shown => request[p].id < reqIDCounter
    BY <1>0, <1>1, <1>2, <2>1, <2>3, DecidedTypes
  <2> QED BY <2>1, <2>2, <2>3 DEF Decided, OneId
<1>4. thread[r].at \notin {"takes", "clears"}
  BY <1>0, <1>1, DecidedTypes DEF Decided, OwnAnswer, TakenAnswers
<1>5. \A s \in Sessions : session[s].rawRequest = r /\ session[s].respRecvd
                          => session[s].resp = "IGNORE"
  BY <1>0, <1>1, DecidedTypes DEF Decided, OwnAnswer, LeftAnswers
<1>6. OneId'
  <2>1. \A q \in Requests : request'[q].shown = request[q].shown /\ request'[q].id = request[q].id
    BY <1>1
  <2> QED BY <1>1, <2>1, OneIdFrame
<1>7. LeftAnswers'
  BY <1>0, <1>1, <1>5, OneSession DEF Decided, OwnAnswer, LeftAnswers, Pending
<1>8. ComingAnswer'
  <2>1. \/ framework' = framework
        \/ /\ framework'.session \in Sessions /\ IsFor(framework'.session, request[r].id)
           /\ framework'.resp = w
           /\ framework'.at = "ignores" => framework'.session = "es"
    BY DEF Respond, Sessions
  <2>2. CASE framework' = framework
    BY <1>1, <2>2 DEF ComingAnswer
  <2>3. CASE /\ framework'.session \in Sessions /\ IsFor(framework'.session, request[r].id)
             /\ framework'.resp = w
             /\ framework'.at = "ignores" => framework'.session = "es"
    BY <1>1, <1>3, <1>4, <1>5, <2>3 DEF ComingAnswer, Pending
  <2> QED BY <2>1, <2>2, <2>3
<1>9. TakenAnswers'
  <2>1. ASSUME NEW q \in Requests, thread'[q].at \in {"takes", "clears"}
        PROVE  thread'[q].resp = request'[q].said
    <3>1. thread[q].at \in {"takes", "clears"} /\ thread'[q].resp = thread[q].resp
      BY <1>1, <2>1
    <3>2. q # r
      BY <1>4, <3>1
    <3> QED BY <1>1, <3>1, <3>2 DEF Decided, OwnAnswer, TakenAnswers
  <2>2. \A i \in 1..Len(outbox) : outbox[i].req \in Requests /\ outbox[i].resp # "nothing"
    BY <1>0, MessageType DEF Calm, Resps
  <2>3. \A i \in 1..Len(outbox') : outbox'[i].resp = request'[outbox'[i].req].said
    BY <1>1, <2>2 DEF Decided, OwnAnswer, TakenAnswers
  <2>4. \A q \in Requests : request'[q].sent \in {"nothing", request'[q].said}
    BY <1>1 DEF Decided, OwnAnswer, TakenAnswers
  <2> QED BY <2>1, <2>3, <2>4 DEF TakenAnswers
<1> QED BY <1>6, <1>7, <1>8, <1>9 DEF OwnAnswer

\* The answer is left for the request that it is about.
LEMMA LeaveDecided ==
  ASSUME Decided, UsersDecided', IgnoreSupl \/ LeaveAnswer
  PROVE  OneId' /\ OwnAnswer'
<1>0. Calm
  BY DEF Decided
<1>1. /\ thread' = thread /\ outbox' = outbox /\ msgTask' = msgTask /\ request' = request
      /\ reqIDCounter' = reqIDCounter
  BY DEF IgnoreSupl, LeaveAnswer
<1>2. ASSUME NEW s \in Sessions, NEW w, Wake(s, w)
      PROVE  /\ \A x \in Sessions : /\ session'[x].rawRequest = session[x].rawRequest
                                    /\ session'[x].reqID = session[x].reqID
             /\ \A x \in Sessions : x # s => session'[x] = session[x]
             /\ session'[s].respRecvd /\ session'[s].resp = w
  <2>1. session[s] \in SessionType /\ DOMAIN session = Sessions
    BY <1>0, DecidedTypes
  <2> QED BY <1>2, <2>1 DEF Wake, SessionType
<1>3. TakenAnswers'
  BY <1>1 DEF Decided, OwnAnswer, TakenAnswers
<1>4. CASE IgnoreSupl
  <2>1. /\ "supl" \in Sessions /\ Wake("supl", "IGNORE") /\ framework.at = "ignores"
        /\ framework.session = "es"
    BY <1>4 DEF IgnoreSupl, Sessions, Decided, OwnAnswer, ComingAnswer
  <2>2. framework'.session = framework.session /\ framework'.resp = framework.resp
        /\ framework'.at = "answers"
    <3>1. framework \in [at : {"idle", "ignores", "answers"}, session : Sessions, resp : Resps]
      BY <1>0 DEF Calm, TypeOK
    <3> QED BY <1>4, <3>1 DEF IgnoreSupl
  <2>3. "es" \in Sessions /\ session'["es"] = session["es"]
    BY <1>2, <2>1 DEF Sessions
  <2>4. OneId'
    BY <1>1, <1>2, <2>1, OneIdFrame
  <2>5. LeftAnswers'
    BY <1>1, <1>2, <2>1 DEF Decided, OwnAnswer, LeftAnswers, Pending
  <2>6. ComingAnswer'
    BY <1>1, <2>1, <2>2, <2>3 DEF Decided, OwnAnswer, ComingAnswer, Pending
  <2> QED BY <1>3, <2>4, <2>5, <2>6 DEF OwnAnswer
<1>5. CASE LeaveAnswer
  <2> DEFINE s == framework.session
  <2>1. s \in Sessions /\ Wake(s, framework.resp) /\ framework'.at = "idle" /\ framework.at # "idle"
    BY <1>0, <1>5, DecidedTypes DEF LeaveAnswer, FrameworkIdle
  <2>2. /\ Pending(s) /\ thread[session[s].rawRequest].at # "takes"
        /\ framework.resp = request[session[s].rawRequest].said
    BY <2>1 DEF Decided, OwnAnswer, ComingAnswer
  <2> HIDE DEF s
  <2>3. OneId'
    BY <1>1, <1>2, <2>1, OneIdFrame
  <2>4. LeftAnswers'
    BY <1>1, <1>2, <2>1, <2>2 DEF Decided, OwnAnswer, LeftAnswers, Pending
  <2>5. ComingAnswer'
    BY <2>1 DEF ComingAnswer
  <2> QED BY <1>3, <2>3, <2>4, <2>5 DEF OwnAnswer
<1> QED BY <1>4, <1>5

\* ni_thread_proc takes the answer to its own request.
LEMMA TakeDecided ==
  ASSUME Decided, UsersDecided', NEW r \in Requests, Answered(r)
  PROVE  OneId' /\ OwnAnswer'
<1> DEFINE k == request[r].session  w == session[k].resp
<1>0. Calm
  BY DEF Decided
<1>1. /\ k \in Sessions /\ session[k].rawRequest = r /\ r # None /\ thread[r].at = "waits"
      /\ session[k].respRecvd
  BY <1>0, DecidedTypes DEF Calm, OwnThread, Attends, Answered
<1>2. /\ msgTask' = msgTask /\ reqIDCounter' = reqIDCounter /\ outbox' = outbox
      /\ framework' = framework
  BY DEF Answered, Take
<1>3. /\ \A q \in Requests : q # r => thread'[q] = thread[q]
      /\ thread'[r].at = "takes" /\ thread'[r].resp = w
  <2> DEFINE took == IF w = "IGNORE" THEN None ELSE r
  <2>1. thread' = [thread EXCEPT ![r] = [@ EXCEPT !.at = "takes", !.resp = w, !.took = took]]
    BY <1>1 DEF Answered, Take
  <2>2. thread[r] \in ThreadType /\ DOMAIN thread = Requests
    BY <1>0, DecidedTypes
  <2> HIDE DEF took, k, w
  <2> QED BY <2>1, <2>2 DEF ThreadType
<1>4. w # "IGNORE"
  BY <1>3 DEF UsersDecided
<1>5. request' = request
  BY <1>1, <1>4 DEF Answered, Take
<1>6. /\ \A s \in Sessions : /\ session'[s].rawRequest = session[s].rawRequest
                             /\ session'[s].reqID = session[s].reqID
                             /\ s # k => session'[s] = session[s]
      /\ ~session'[k].respRecvd
  <2>1. session[k] \in SessionType /\ DOMAIN session = Sessions
    BY <1>0, <1>1, DecidedTypes
  <2> QED BY <1>1, <2>1 DEF Answered, Take, SessionType
<1> HIDE DEF k, w
<1>7. w = request[r].said
  BY <1>1, <1>4 DEF Decided, OwnAnswer, LeftAnswers, w
<1>8. \A s \in Sessions : s # k => session[s].rawRequest # r
  BY <1>0, <1>1, OneSession DEF Pending, k
<1>9. OneId'
  BY <1>2, <1>5, <1>6, OneIdFrame
<1>10. LeftAnswers'
  <2>1. ASSUME NEW s \in Sessions, session'[s].respRecvd
        PROVE  \/ session'[s].resp = "IGNORE"
               \/ /\ Pending(s)' /\ thread'[session'[s].rawRequest].at # "takes"
                  /\ session'[s].resp = request'[session'[s].rawRequest].said
    <3>1. s # k /\ session'[s] = session[s] /\ session[s].rawRequest # r
      BY <1>6, <1>8, <2>1
    <3>2. Pending(s) => session[s].rawRequest \in Requests
      BY <1>0, OneSession
    <3> QED BY <1>3, <1>5, <2>1, <3>1, <3>2 DEF Decided, OwnAnswer, LeftAnswers, Pending
  <2> QED BY <2>1 DEF LeftAnswers
<1>11. ComingAnswer'
  <2> DEFINE s == framework.session
  <2>1. s \in Sessions
    BY <1>0, DecidedTypes
  <2>2. ASSUME framework.at # "idle"
        PROVE  s # k
    BY <1>1, <1>4, <2>2 DEF Decided, OwnAnswer, ComingAnswer, w
  <2>3. Pending(s) => session[s].rawRequest \in Requests
    BY <1>0, <2>1, OneSession
  <2> HIDE DEF s
  <2>4. ASSUME framework.at # "idle"
        PROVE  /\ session'[s].rawRequest # None /\ thread'[session'[s].rawRequest].at # "takes"
               /\ framework.resp = request'[session'[s].rawRequest].said
               /\ session'[s].respRecvd => session'[s].resp = "IGNORE"
    <3>1. session'[s] = session[s] /\ session[s].rawRequest # r
      BY <1>6, <1>8, <2>1, <2>2, <2>4
    <3>2. /\ Pending(s) /\ thread[session[s].rawRequest].at # "takes"
          /\ framework.resp = request[session[s].rawRequest].said
          /\ session[s].respRecvd => session[s].resp = "IGNORE"
      BY <2>4 DEF Decided, OwnAnswer, ComingAnswer, s
    <3> QED BY <1>3, <1>5, <2>3, <3>1, <3>2 DEF Pending
  <2> QED BY <1>2, <2>4 DEF Decided, OwnAnswer, ComingAnswer, Pending, s
<1>12. TakenAnswers'
  BY <1>2, <1>3, <1>5, <1>7 DEF Decided, OwnAnswer, TakenAnswers
<1> QED BY <1>9, <1>10, <1>11, <1>12 DEF OwnAnswer

\* After that nothing it does changes what it took.
LEMMA ReleaseDecided ==
  ASSUME Decided, UsersDecided', NEW r \in Requests, Start(r) \/ Unlock(r) \/ Clear(r)
  PROVE  OneId' /\ OwnAnswer'
<1> DEFINE k == request[r].session
<1>0. Calm
  BY DEF Decided
<1>1. /\ msgTask' = msgTask /\ reqIDCounter' = reqIDCounter /\ framework' = framework
      /\ request' = request /\ k \in Sessions /\ r # None
      /\ thread[r] \in ThreadType /\ DOMAIN thread = Requests
      /\ session[k] \in SessionType /\ DOMAIN session = Sessions
  BY <1>0, DecidedTypes DEF Start, Unlock, Clear
<1>2. /\ \A q \in Requests : q # r => thread'[q] = thread[q]
      /\ thread'[r].resp = thread[r].resp
      /\ \/ thread[r].at = "starts" /\ thread'[r].at = "waits"
         \/ thread[r].at = "takes" /\ thread'[r].at = "clears"
         \/ thread[r].at = "clears" /\ thread'[r].at = "ended"
  <2>1. CASE Start(r)
    <3> DEFINE t == session[k].respTimeLeft
    <3>1. /\ thread' = [thread EXCEPT ![r] = [@ EXCEPT !.at = "waits", !.waits = t]]
          /\ thread[r].at = "starts"
      BY <2>1 DEF Start
    <3> HIDE DEF t, k
    <3> QED BY <1>1, <3>1 DEF ThreadType
  <2>2. CASE Unlock(r) \/ Clear(r)
    BY <1>1, <2>2 DEF Unlock, Clear, ThreadType
  <2> QED BY <2>1, <2>2
<1>3. \A s \in Sessions :
        /\ session'[s].rawRequest \in {session[s].rawRequest, None}
        /\ session'[s].reqID \in {session[s].reqID, None}
        /\ session'[s].respRecvd = session[s].respRecvd /\ session'[s].resp = session[s].resp
        /\ session'[s].rawRequest # session[s].rawRequest => s = k /\ thread[r].at = "takes"
  <2>1. CASE Start(r)
    BY <2>1 DEF Start
  <2>2. CASE Unlock(r) \/ Clear(r)
    <3>1. \/ /\ session' = [session EXCEPT ![k] = [@ EXCEPT !.rawRequest = None]]
             /\ thread[r].at = "takes"
          \/ session' = [session EXCEPT ![k] = [@ EXCEPT !.respTimeLeft = 0, !.reqID = None]]
      BY <2>2 DEF Unlock, Clear
    <3> HIDE DEF k
    <3>2. \A s \in Sessions : s # k => session'[s] = session[s]
      BY <1>1, <3>1
    <3>3. /\ \/ session'[k].rawRequest = session[k].rawRequest
             \/ session'[k].rawRequest = None /\ thread[r].at = "takes"
          /\ session'[k].reqID \in {session[k].reqID, None}
          /\ session'[k].respRecvd = session[k].respRecvd /\ session'[k].resp = session[k].resp
      <4>1. CASE session' = [session EXCEPT ![k] = [@ EXCEPT !.respTimeLeft = 0, !.reqID = None]]
        <5>1. /\ session'[k].rawRequest = session[k].rawRequest /\ session'[k].reqID = None
              /\ session'[k].respRecvd = session[k].respRecvd /\ session'[k].resp = session[k].resp
          BY <1>1, <4>1 DEF SessionType
        <5> QED BY <5>1
      <4>2. CASE /\ session' = [session EXCEPT ![k] = [@ EXCEPT !.rawRequest = None]]
                 /\ thread[r].at = "takes"
        BY <1>1, <4>2 DEF SessionType
      <4> QED BY <3>1, <4>1, <4>2
    <3> QED BY <3>2, <3>3
  <2> QED BY <2>1, <2>2
<1> HIDE DEF k
<1>4. thread[r].at = "takes" => session[k].rawRequest = r
  BY <1>0 DEF Calm, OwnThread, Attends, k
<1>5. \A s \in Sessions : Pending(s) => /\ session[s].rawRequest \in Requests
                                        /\ thread[session[s].rawRequest].at \notin {"clears", "ended"}
  BY <1>0, OneSession
<1>6. OneId'
  BY <1>1, <1>3, OneIdFrame
<1>7. LeftAnswers'
  BY <1>1, <1>2, <1>3, <1>4, <1>5 DEF Decided, OwnAnswer, LeftAnswers, Pending
<1>8. ComingAnswer'
  BY <1>0, <1>1, <1>2, <1>3, <1>4, <1>5, DecidedTypes DEF Decided, OwnAnswer, ComingAnswer, Pending
<1>9. TakenAnswers'
  <2>1. \A q \in Requests : thread'[q].at \in {"takes", "clears"} => thread'[q].resp = request'[q].said
    BY <1>1, <1>2 DEF Decided, OwnAnswer, TakenAnswers
  <2>2. \A i \in 1..Len(outbox') : outbox'[i].resp = request'[outbox'[i].req].said
    <3> DEFINE m == [req |-> thread[r].took, resp |-> thread[r].resp]  last == Len(outbox)
    <3>1. \/ outbox' = outbox
          \/ thread[r].at = "clears" /\ thread[r].took # None /\ outbox' = Append(outbox, m)
      BY DEF Start, Unlock, Clear
    <3>2. CASE outbox' = outbox
      BY <3>2, <1>1 DEF Decided, OwnAnswer, TakenAnswers
    <3>3. CASE thread[r].at = "clears" /\ thread[r].took # None /\ outbox' = Append(outbox, m)
      <4>1. thread[r].took = r /\ thread[r].resp = request[r].said
        BY <3>3, <1>0 DEF Calm, OwnThread, Decided, OwnAnswer, TakenAnswers
      <4>2. m.req = r /\ m.resp = request[r].said
        BY <4>1
      <4> HIDE DEF m
      <4>3. /\ last \in Nat /\ Len(outbox') = last + 1 /\ outbox'[last + 1] = m
            /\ \A i \in 1..last : outbox'[i] = outbox[i]
        BY <3>3, <1>0 DEF Calm, TypeOK
      <4> QED BY <1>1, <4>2, <4>3 DEF Decided, OwnAnswer, TakenAnswers
    <3> QED BY <3>1, <3>2, <3>3
  <2> QED BY <2>1, <2>2, <1>1 DEF Decided, OwnAnswer, TakenAnswers
<1> QED BY <1>6, <1>7, <1>8, <1>9 DEF OwnAnswer

\* The modem is told what its message says.
LEMMA InformDecided ==
  ASSUME Decided, UsersDecided', InformNiResponse
  PROVE  OneId' /\ OwnAnswer'
<1> DEFINE r == Head(outbox).req  w == Head(outbox).resp  n == request[r].freed + 1
           last == Len(outbox)
<1>0. Calm
  BY DEF Decided
<1>1. /\ outbox # <<>> /\ outbox' = Tail(outbox) /\ outbox \in Seq([req : Requests, resp : Resps])
      /\ UNCHANGED <<session, reqIDCounter, thread, msgTask, framework>>
      /\ request' = [request EXCEPT ![r] = [@ EXCEPT !.freed = n, !.sent = w]]
  BY <1>0 DEF InformNiResponse, Calm, TypeOK
<1>2. /\ last \in Nat /\ last >= 1 /\ Len(outbox') = last - 1
      /\ outbox[1].req = r /\ outbox[1].resp = w
      /\ \A i \in 1..(last - 1) : outbox'[i] = outbox[i + 1] /\ i + 1 \in 1..last
  BY <1>1
<1>3. w = request[r].said /\ r \in Requests
  BY <1>0, <1>2, MessageType DEF Calm, Decided, OwnAnswer, TakenAnswers
<1> HIDE DEF r, w, n
<1>4. \A q \in Requests : /\ request'[q].shown = request[q].shown /\ request'[q].id = request[q].id
                          /\ request'[q].said = request[q].said
                          /\ request'[q].sent = request[q].sent \/ (q = r /\ request'[q].sent = w)
  BY <1>0, <1>1, <1>3, DecidedTypes DEF RequestType
<1>5. OneId'
  BY <1>1, <1>4, OneIdFrame
<1>6. \A s \in Sessions : Pending(s) => session[s].rawRequest \in Requests
  BY <1>0, OneSession
<1>7. LeftAnswers' /\ ComingAnswer'
  BY <1>0, <1>1, <1>4, <1>6, DecidedTypes DEF Decided, OwnAnswer, LeftAnswers, ComingAnswer, Pending
<1>8. TakenAnswers'
  <2>1. \A i \in 1..last : outbox[i].req \in Requests
    BY <1>0, MessageType DEF Calm
  <2> QED BY <1>1, <1>2, <1>3, <1>4, <2>1 DEF Decided, OwnAnswer, TakenAnswers
<1> QED BY <1>5, <1>7, <1>8 DEF OwnAnswer

DecidedInv == TypeOK /\ (restarts = 0 => Calm /\ NotYet /\ (UsersDecided => OneId /\ OwnAnswer))

LEMMA DecidedStep ==
  ASSUME Decided, [Next]_vars, restarts = 0, UsersDecided'
  PROVE  OneId' /\ OwnAnswer'
<1>0. Calm /\ restarts' = 0
  BY DEF Decided, UsersDecided
<1>1. ~EngineDown /\ ~ResetFree /\ ~ResetWake
  BY <1>0, DecidedTypes DEF Calm, OwnThread, EngineDown, ResetFree, ResetWake
<1>2. CASE UNCHANGED vars
  <2>1. OneId'
    BY <1>2, OneIdFrame DEF vars
  <2> QED BY <1>2, <2>1 DEF vars, Decided, OwnAnswer, LeftAnswers, ComingAnswer, TakenAnswers, Pending
<1>3. CASE MsgTaskNext
  BY <1>1, <1>3, HandlerDecided, InformDecided DEF MsgTaskNext
<1>4. ASSUME NEW r \in Requests, ThreadNext(r) PROVE OneId' /\ OwnAnswer'
  <2>1. ~TimesOut(r)
    <3> SUFFICES ASSUME TimesOut(r) PROVE FALSE
      OBVIOUS
    <3>1. session[request[r].session].rawRequest = r /\ r # None
      BY <1>0, DecidedTypes DEF TimesOut, Calm, OwnThread, Attends
    <3>2. thread'[r].resp = "NORESP"
      <4>1. thread[r] \in ThreadType /\ DOMAIN thread = Requests
        BY <1>0, DecidedTypes
      <4> QED BY <3>1, <4>1 DEF TimesOut, Take, ThreadType
    <3> QED BY <3>2 DEF UsersDecided
  <2> QED BY <1>4, <2>1, TakeDecided, ReleaseDecided DEF ThreadNext
<1> QED BY <1>2, <1>3, <1>4, RespondDecided, LeaveDecided DEF Next

LEMMA DecidedInvariant == Spec => []DecidedInv
<1>1. Init => DecidedInv
  <2> SUFFICES ASSUME Init PROVE DecidedInv
    OBVIOUS
  <2>1. TypeOK
    BY InitTypes
  <2>2. Fresh /\ OwnThread /\ OneOwner
    BY DEF Init, Fresh, OwnThread, OneOwner, InUse, Attends, Pending, NoThread, Idle, None, Requests
  <2>3. NotYet /\ OneId /\ OwnAnswer
    BY DEF Init, NotYet, OneId, OwnAnswer, LeftAnswers, ComingAnswer, TakenAnswers, Pending,
       NoThread, Idle, FrameworkIdle, None
  <2> QED BY <2>1, <2>2, <2>3 DEF DecidedInv, Calm
<1>2. CalmInv /\ CalmInv' /\ DecidedInv /\ [Next]_vars => DecidedInv'
  <2> SUFFICES ASSUME CalmInv, CalmInv', DecidedInv, [Next]_vars, restarts' = 0
               PROVE  NotYet' /\ (UsersDecided' => OneId' /\ OwnAnswer')
    BY DEF CalmInv, DecidedInv
  <2>1. restarts = 0
    BY NextRestarts, NiAssumption DEF DecidedInv, TypeOK
  <2>2. Calm /\ NotYet /\ msgTask.at \in {"idle", "accepted"}
    BY <2>1 DEF DecidedInv, Calm, OwnThread
  <2>3. NotYet'
    BY <2>1, <2>2, WrittenOnce
  <2>4. ASSUME UsersDecided' PROVE OneId' /\ OwnAnswer'
    <3>1. UsersDecided
      BY <2>1, <2>2, <2>4, DecidedBefore
    <3> QED BY <2>1, <2>2, <2>4, <3>1, DecidedStep DEF DecidedInv, Decided
  <2> QED BY <2>3, <2>4
<1> QED BY <1>1, <1>2, CalmInvariant, PTL DEF Spec

\* As long as users decide and every notification has its request's ID, the
\* modem is told about each request what the user said about it, however the
\* answers, the threads and the requests of the two sessions overtake each other.
THEOREM AnswersProved == Spec => []AnswersAreTheUsers
<1>1. DecidedInv => AnswersAreTheUsers
  BY DEF DecidedInv, UsersDecided, OwnAnswer, TakenAnswers, AnswersAreTheUsers
<1> QED BY <1>1, DecidedInvariant, PTL
=============================================================================
