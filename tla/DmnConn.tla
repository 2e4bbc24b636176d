------------------------------- MODULE DmnConn -------------------------------
(***************************************************************************)
(* The connection to the location daemons: loc_eng_dmn_conn*.{c,cpp}.      *)
(*                                                                         *)
(* The framework's thread launches a server thread and waits until it is   *)
(* ready.  The server reads the daemons' messages from a named pipe and    *)
(* posts those it understands to the MsgTask; what becomes of a request is *)
(* written, by the MsgTask thread, to the pipe of the daemon it came from. *)
(* The descriptors are static variables of both threads, without a lock.   *)
(*                                                                         *)
(* The daemons are external: each asks for its interface, may give it up,  *)
(* and reads its pipe.  The interface of each is kept as AgpsStateMachine  *)
(* does, abridged to one client and without the modem restarts that drop   *)
(* it.  A message is one write and one read, since it is shorter than what *)
(* a pipe takes at once.  Nobody calls the server's unblock and join       *)
(* functions.                                                              *)
(***************************************************************************)
EXTENDS Naturals, Sequences

CONSTANTS
  Senders,    \* the daemons: "QUIPC", "MSAPM", "MSAPU", "GPSONE_DAEMON"
  PipeSize,   \* bound: messages a pipe holds
  MaxPosted,  \* bound: daemons write only while fewer requests are posted
  Failures    \* whether the thread may not be created, pipes not open, reads
              \* fail, messages be too long

ASSUME DmnAssumption ==
  /\ Senders \subseteq {"QUIPC", "MSAPM", "MSAPU", "GPSONE_DAEMON"}
  /\ PipeSize \in Nat \ {0}
  /\ MaxPosted \in Nat \ {0}
  /\ Failures \in BOOLEAN

VARIABLES
  launcher,   \* where the framework's thread is in the launch
  thelper,    \* thread_ready and thread_exit
  server,     \* where the server thread is in thelper_main
  msgqid,     \* the descriptors: 0 until they are set, "open", "failed", "closed"
  pipe,       \* messages in the server's pipe
  buffer,     \* p_cmsgbuf: <<>> or the message read
  posted,     \* messages of the MsgTask
  nif,        \* what the MsgTask knows of each daemon's interface
  reply,      \* the answer it writes: <<>> or one
  answers,    \* each daemon's pipe
  daemon,     \* what each daemon is at
  failed,     \* whether a pipe did not open, or reading one failed
  stray       \* whether an answer was written to a closed or unset descriptor

helperVars == <<launcher, thelper, server, buffer>>
taskVars == <<nif, reply, answers, stray>>
vars == <<helperVars, msgqid, pipe, posted, taskVars, daemon, failed>>

Queues == {"LOC_API"} \cup Senders   \* each daemon's pipe goes by its name

Message(type, s) == [ctrl_type |-> type, sender |-> s, fits |-> TRUE]

\* IF_REQUEST_SENDER_ID_MODEM, and any other the handlers have no case for.
Unsupported == Message("IF_REQUEST", "MODEM")
TooLong == [Unsupported EXCEPT !.fits = FALSE]

Init ==
  /\ launcher = "idle"
  /\ thelper = [ready |-> FALSE, exit |-> FALSE]
  /\ server = "none"
  /\ msgqid = [q \in Queues |-> "unset"]
  /\ pipe = <<>> /\ buffer = <<>> /\ posted = <<>>
  /\ nif = [s \in Senders |-> "off"]
  /\ reply = <<>>
  /\ answers = [s \in Senders |-> <<>>]
  /\ daemon = [s \in Senders |-> "idle"]
  /\ failed = FALSE /\ stray = FALSE

-----------------------------------------------------------------------------
(* Faults: variants of the steps below with a plausible bug, standing in   *)
(* for them when the project checks that a property can fail.              *)

WaitAlways ==              \* the test before pthread_cond_wait forgotten
  /\ launcher = "created" /\ launcher' = "waits"
  /\ UNCHANGED <<thelper, server, buffer, msgqid, pipe, posted, taskVars, daemon, failed>>

HandleReturnsResult(m) ==  \* loc_api_server_proc returns its handler's result
  IF m.sender \in Senders THEN "receives" ELSE "exits"

PostOnTop(m) ==            \* the newest message first
  posted' = <<m>> \o posted

AnswerForgotten(s, result) ==  \* data_conn has no case for the sender
  UNCHANGED answers

-----------------------------------------------------------------------------
(* The framework's thread: loc_eng_dmn_conn_loc_api_server_launch          *)

\* thelper_signal_init, the callbacks, and create_thread_cb, whose failure goes
\* unnoticed; pthread_create, without such a callback, tells of its own.
Launch ==
  /\ launcher = "idle"
  /\ thelper' = [ready |-> FALSE, exit |-> FALSE]
  /\ \/ launcher' = "created" /\ server' = "inits"
     \/ Failures /\ launcher' \in {"created", "returned"} /\ UNCHANGED server
  /\ UNCHANGED <<buffer, msgqid, pipe, posted, taskVars, daemon, failed>>

\* thelper_signal_wait, up to its pthread_cond_wait.
SignalWait ==
  /\ launcher = "created"
  /\ launcher' = IF thelper.ready \/ thelper.exit THEN "returned" ELSE "waits"
  /\ UNCHANGED <<thelper, server, buffer, msgqid, pipe, posted, taskVars, daemon, failed>>

\* The wait is not repeated, so that a wake-up for nothing ends it as well.
WakeForNothing ==
  /\ launcher = "waits" /\ launcher' = "returned"
  /\ UNCHANGED <<thelper, server, buffer, msgqid, pipe, posted, taskVars, daemon, failed>>

-----------------------------------------------------------------------------
(* The server thread: thelper_main with the loc_api_server_proc functions  *)

\* loc_api_server_proc_init succeeds whether or not the pipes open.
ProcInit ==
  /\ server = "inits" /\ server' = "readies"
  /\ \E opened \in [Queues -> BOOLEAN] :
       /\ Failures \/ \A q \in Queues : opened[q]
       /\ msgqid' = [q \in Queues |-> IF opened[q] THEN "open" ELSE "failed"]
       /\ failed' = \E q \in Queues : ~opened[q]
  /\ UNCHANGED <<launcher, thelper, buffer, pipe, posted, taskVars, daemon>>

SignalReady ==
  /\ server = "readies" /\ server' = "receives"
  /\ thelper' = [thelper EXCEPT !.ready = TRUE]
  /\ launcher' = IF launcher = "waits" THEN "returned" ELSE launcher
  /\ UNCHANGED <<buffer, msgqid, pipe, posted, taskVars, daemon, failed>>

\* loc_eng_dmn_conn_glue_msgrcv
Receive ==
  /\ server = "receives" /\ server' = "handles"
  /\ msgqid["LOC_API"] = "open"
  /\ pipe # <<>> /\ Head(pipe).fits
  /\ buffer' = <<Head(pipe)>> /\ pipe' = Tail(pipe)
  /\ UNCHANGED <<launcher, thelper, msgqid, posted, taskVars, daemon, failed>>

\* Any failure to read makes thelper_main set thread_exit.
ReceiveReturnsError ==
  /\ server = "receives" /\ server' = "exits"
  /\ failed' = TRUE
  /\ thelper' = [thelper EXCEPT !.exit = TRUE]
  /\ UNCHANGED <<launcher, buffer, msgqid, pipe, posted, taskVars, daemon>>

MustFail == msgqid["LOC_API"] = "failed" \/ (pipe # <<>> /\ ~Head(pipe).fits)
ReceiveFails == MustFail /\ ReceiveReturnsError
ReadInterrupted == Failures /\ ReceiveReturnsError

Post(m) == posted' = Append(posted, m)

\* What the handler returns is not looked at.
AfterHandle(m) == "receives"

\* The request and release handlers post messages with a sender they know.
Handle ==
  /\ server = "handles" /\ server' = AfterHandle(buffer[1])
  /\ IF buffer[1].sender \in Senders THEN Post(buffer[1]) ELSE UNCHANGED posted
  /\ buffer' = <<>>
  /\ UNCHANGED <<launcher, thelper, msgqid, pipe, taskVars, daemon, failed>>

\* loc_api_server_proc_post: the pipes are closed and removed, with what is
\* in them; the variables keep the numbers.
ProcPost ==
  /\ server = "exits" /\ server' = "ended"
  /\ msgqid' = [q \in Queues |-> IF msgqid[q] = "open" THEN "closed" ELSE msgqid[q]]
  /\ pipe' = <<>>
  /\ UNCHANGED <<launcher, thelper, buffer, posted, taskVars, daemon, failed>>

\* An interrupted read is apart: it may happen, but nothing makes it happen.
Server == ProcInit \/ SignalReady \/ Receive \/ ReceiveFails \/ Handle \/ ProcPost

-----------------------------------------------------------------------------
(* The MsgTask thread.  Writing an answer blocks it while the pipe is full *)

Reply(s, result) == reply' = <<[sender |-> s, result |-> result]>>

\* LocEngReqRelBIT::proc, LocEngReqRelWifi::proc: a request is answered later,
\* and so is a release, unless there is nothing to release any more.
TakePosted ==
  /\ reply = <<>> /\ posted # <<>>
  /\ LET m == Head(posted) IN
       nif' = [nif EXCEPT ![m.sender] =
                 CASE m.ctrl_type = "IF_REQUEST" -> "asked"
                   [] m.ctrl_type = "IF_RELEASE" /\ @ # "off" -> "closing"
                   [] OTHER -> @]
  /\ posted' = Tail(posted)
  /\ UNCHANGED <<helperVars, msgqid, pipe, reply, answers, stray, daemon, failed>>

\* The interface comes up, is refused, or goes, and the machine tells.
NifBecomes(s, from, to, result) ==
  /\ reply = <<>>
  /\ nif[s] = from
  /\ nif' = [nif EXCEPT ![s] = to]
  /\ Reply(s, result)
  /\ UNCHANGED <<helperVars, msgqid, pipe, posted, answers, stray, daemon, failed>>

Granted(s) == NifBecomes(s, "asked", "on", "REQUEST_SUCCESS")
Denied(s) == NifBecomes(s, "asked", "off", "FAILURE")
Lost(s) == NifBecomes(s, "on", "off", "RELEASE_SUCCESS")
Closed(s) == NifBecomes(s, "closing", "off", "RELEASE_SUCCESS")

Write(s, result) ==
  /\ Len(answers[s]) < PipeSize
  /\ answers' = [answers EXCEPT ![s] = Append(@, result)]

\* loc_eng_dmn_conn_loc_api_server_data_conn
DataConn ==
  /\ reply # <<>>
  /\ LET s == reply[1].sender IN
       CASE msgqid[s] = "open" -> Write(s, reply[1].result) /\ UNCHANGED stray
         [] msgqid[s] = "failed" -> UNCHANGED <<answers, stray>>
         [] OTHER -> stray' = TRUE /\ UNCHANGED answers
  /\ reply' = <<>>
  /\ UNCHANGED <<helperVars, msgqid, pipe, posted, nif, daemon, failed>>

\* The framework answers every request of an interface and confirms every close.
MsgTask == TakePosted \/ DataConn
Framework(s) == Granted(s) \/ Denied(s) \/ Closed(s)

-----------------------------------------------------------------------------
(* The daemons                                                             *)

WritePipe(m) ==
  /\ msgqid["LOC_API"] = "open"
  /\ Len(pipe) < PipeSize /\ Len(posted) < MaxPosted
  /\ pipe' = Append(pipe, m)
  /\ UNCHANGED <<helperVars, msgqid, posted, taskVars, failed>>

Asks(s) ==
  /\ daemon[s] = "idle" /\ daemon' = [daemon EXCEPT ![s] = "asks"]
  /\ WritePipe(Message("IF_REQUEST", s))

GivesUp(s) ==
  /\ daemon[s] \in {"asks", "holds"} /\ daemon' = [daemon EXCEPT ![s] = "leaves"]
  /\ WritePipe(Message("IF_RELEASE", s))

WritesOther ==
  /\ \/ WritePipe(Unsupported)
     \/ Failures /\ WritePipe(TooLong)
  /\ UNCHANGED daemon

\* One that gives up takes a REQUEST_SUCCESS that was on its way for late.
Hears(s) ==
  /\ answers[s] # <<>>
  /\ answers' = [answers EXCEPT ![s] = Tail(@)]
  /\ daemon' = [daemon EXCEPT ![s] =
       IF Head(answers[s]) # "REQUEST_SUCCESS" THEN "idle"
       ELSE IF @ = "asks" THEN "holds" ELSE @]
  /\ UNCHANGED <<helperVars, msgqid, pipe, posted, nif, reply, stray, failed>>

-----------------------------------------------------------------------------
Next ==
  \/ Launch \/ SignalWait \/ WakeForNothing
  \/ Server \/ ReadInterrupted
  \/ MsgTask
  \/ WritesOther
  \/ \E s \in Senders : Granted(s) \/ Denied(s) \/ Lost(s) \/ Closed(s)
                        \/ Asks(s) \/ GivesUp(s) \/ Hears(s)

Spec == Init /\ [][Next]_vars

\* The threads run, the framework answers (its answer is a message that comes
\* to its turn among those of other interfaces), and daemons read their pipes;
\* that a read is interrupted is not assumed, nor that a daemon asks or gives up.
Fairness ==
  /\ WF_vars(SignalWait)
  /\ WF_vars(Server)
  /\ WF_vars(MsgTask)
  /\ \A s \in Senders : SF_vars(Framework(s)) /\ WF_vars(Hears(s))

FairSpec == Spec /\ Fairness

-----------------------------------------------------------------------------
(* Properties                                                              *)

\* Each variable has its type.
TypeOK ==
  /\ launcher \in {"idle", "created", "waits", "returned"}
  /\ thelper \in [ready : BOOLEAN, exit : BOOLEAN]
  /\ server \in {"none", "inits", "readies", "receives", "handles", "exits", "ended"}
  /\ msgqid \in [Queues -> {"unset", "open", "failed", "closed"}]
  /\ Len(pipe) <= PipeSize /\ Len(buffer) <= 1 /\ Len(reply) <= 1
  /\ nif \in [Senders -> {"off", "asked", "on", "closing"}]
  /\ daemon \in [Senders -> {"idle", "asks", "holds", "leaves"}]
  /\ failed \in BOOLEAN /\ stray \in BOOLEAN

\* No answer is written to a descriptor that was not set yet or is closed,
\* whose number may by then be another file's, unless reading failed.
AnswersReachPipes == stray => failed

\* Those of the messages that the handlers post.
Known(messages) ==
  LET among[i \in 0..Len(messages)] ==    \* the first i
        IF i = 0 THEN <<>>
        ELSE IF messages[i].sender \in Senders THEN Append(among[i - 1], messages[i])
        ELSE among[i - 1]
  IN among[Len(messages)]

\* The messages between a daemon and the MsgTask that the server passes on.
UnderWay == posted \o Known(buffer \o pipe)

\* They are handled in the order they were written, and none is lost or
\* doubled, but for those in the pipe when the server ends.
PassedOnInOrder ==
  [][\/ UnderWay' = UnderWay
     \/ \E m \in {Message(t, s) : t \in {"IF_REQUEST", "IF_RELEASE"}, s \in Senders} :
          UnderWay' = Append(UnderWay, m)
     \/ UnderWay # <<>> /\ UnderWay' = Tail(UnderWay)
     \/ ProcPost]_vars

\* A launch returns, whether the server is ready before or after it looks, or
\* has ended: loc_eng_agps_init runs on the framework's thread.  That needs a
\* server: without one, create_thread_cb having failed, nobody signals.
LaunchReturns == (launcher = "created" /\ server # "none") ~> (launcher = "returned")

\* A daemon that waits for an answer gets one, unless a modem restart drops it:
\* no two of daemon, server and MsgTask wait for each other's pipes.
DaemonsAreAnswered ==
  \A s \in Senders : (daemon[s] \in {"asks", "leaves"}) ~> (daemon[s] \in {"idle", "holds"} \/ failed)
==============================================================================
