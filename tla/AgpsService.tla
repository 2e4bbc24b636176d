----------------------------- MODULE AgpsService -----------------------------
(***************************************************************************)
(* An AGPS state machine at work: clients in the modem or in the location  *)
(* daemons post requests to the MsgTask queue, the machine handles one     *)
(* message at a time and calls the framework through agps_status_cb, the   *)
(* framework runs the connection and posts the outcome to the same queue   *)
(* (loc_eng_agps_open, loc_eng_agps_open_failed, loc_eng_agps_closed).     *)
(* Nothing in a message says which request it answers.                     *)
(*                                                                         *)
(* The framework is external: it is modelled from the way the code uses    *)
(* it.  It takes requests in order, answers a REQUEST by open or           *)
(* open_failed, may lose an open connection, and reports closed when a     *)
(* connection ends by RELEASE or by loss.                                  *)
(***************************************************************************)
EXTENDS AgpsStateMachine, Naturals, Sequences, SequencesExt

CONSTANTS
  MaxMsgs,   \* bound: clients post only while fewer messages are queued
  MaxCalls   \* bound: ... and fewer calls wait in the framework

ASSUME ServiceAssumption == MaxMsgs \in Nat /\ MaxCalls \in Nat

VARIABLES
  msgs,    \* the MsgTask queue
  calls,   \* agps_status_cb calls the framework has not acted on yet
  conn     \* the framework's connection: "off", "opening" or "open"

vars == <<machine, msgs, calls, conn>>

Msg(type, c) == [type |-> type, client |-> c]
Event(type) == [type |-> type, client |-> "framework"]
Queued(type) == \E i \in DOMAIN msgs : msgs[i].type = type

ServiceInit ==
  /\ Init
  /\ msgs = <<>>
  /\ calls = <<>>
  /\ conn = "off"

-----------------------------------------------------------------------------
(* Clients.  A client asks when it neither waits nor has the NIF, and may  *)
(* give it up at any time after it asked.  One in the modem starts afresh  *)
(* when the modem does.                                                    *)

MsgsOf(c) ==
  SelectSeq(msgs, LAMBDA m : m.client = c \/ (m.type = "UP" /\ c \notin Daemons))
Wants(c) ==
  IF MsgsOf(c) # <<>> THEN Last(MsgsOf(c)).type = "SUBSCRIBE"
                      ELSE told[c] \in {"SUBSCRIBE", "GRANTED"}

Post(m) == msgs' = Append(msgs, m)

ClientPosts(c, type) ==
  /\ Len(msgs) < MaxMsgs /\ Len(calls) < MaxCalls
  /\ Post(Msg(type, c))
  /\ UNCHANGED <<machine, calls, conn>>

Request(c) == ~Wants(c) /\ ClientPosts(c, "SUBSCRIBE")
GiveUp(c) == Wants(c) /\ ClientPosts(c, "UNSUBSCRIBE")

\* The modem comes up again after a crash: handleEngineUpEvent.
ModemRestarts ==
  /\ EngineRestarts /\ ~Queued("UP")
  /\ Len(msgs) < MaxMsgs /\ Len(calls) < MaxCalls
  /\ Post(Event("UP"))
  /\ UNCHANGED <<machine, calls, conn>>

-----------------------------------------------------------------------------
(* MsgTask                                                                 *)

\* What the machine sent reaches the framework's queue.
Forward == calls' = IF sent' = "none" THEN calls ELSE Append(calls, sent')

Take(type) ==
  /\ msgs # <<>> /\ Head(msgs).type = type
  /\ msgs' = Tail(msgs)
  /\ UNCHANGED conn

\* LocEngRequestATL, LocEngReqRelBIT, LocEngReqRelWifi
ProcSubscribe ==
  /\ Take("SUBSCRIBE")
  /\ SubscribeRefused(Head(msgs).client) \/ SubscribeAccepted(Head(msgs).client)
  /\ Forward

\* LocEngReleaseATL, LocEngReqRelBIT, LocEngReqRelWifi: a client that is not
\* on the list is at most told so, and the machine is not involved.
ProcUnsubscribe ==
  /\ Take("UNSUBSCRIBE")
  /\ \/ Unsubscribe(Head(msgs).client) /\ Forward
     \/ /\ Head(msgs).client \notin Subscribed
        /\ UNCHANGED <<mState, subs, told, sent, calls>>

\* LocEngAtlOpenSuccess, LocEngAtlOpenFailed, LocEngAtlClosed
ProcEvent(event) ==
  /\ Take(event)
  /\ OnRsrcEvent(event)
  /\ Forward

\* LocEngUp: agnss_nif and internet_nif forget their subscribers, the other
\* machines are not told of the restart.
ProcUp ==
  /\ Take("UP")
  /\ \/ DropAllSubscribers
     \/ kind # "ATL" /\ UNCHANGED <<mState, subs, told, sent>>
  /\ UNCHANGED calls

MsgTask ==
  /\ \/ ProcSubscribe
     \/ ProcUnsubscribe
     \/ ProcUp
     \/ \E event \in {"GRANTED", "DENIED", "RELEASED"} : ProcEvent(event)
  /\ UNCHANGED kind

-----------------------------------------------------------------------------
(* The framework                                                           *)

\* A connection that is up already is granted again.
FwRequest ==
  /\ calls # <<>> /\ Head(calls) = "REQUEST"
  /\ calls' = Tail(calls)
  /\ IF conn = "open"
     THEN Post(Event("GRANTED")) /\ UNCHANGED conn
     ELSE conn' = "opening" /\ UNCHANGED msgs
  /\ UNCHANGED machine

FwRelease ==
  /\ calls # <<>> /\ Head(calls) = "RELEASE"
  /\ calls' = Tail(calls)
  /\ conn' = "off"
  /\ IF conn = "off" THEN UNCHANGED msgs ELSE Post(Event("RELEASED"))
  /\ UNCHANGED machine

\* The connection comes up, fails to come up, or is lost.
FwConnection(from, to, event) ==
  /\ conn = from
  /\ conn' = to
  /\ Post(Event(event))
  /\ UNCHANGED <<machine, calls>>

FwAnswers ==
  \/ FwConnection("opening", "open", "GRANTED")
  \/ FwConnection("opening", "off", "DENIED")

FwLoses ==
  /\ Len(msgs) < MaxMsgs
  /\ FwConnection("open", "off", "RELEASED")

-----------------------------------------------------------------------------

ServiceNext ==
  \/ \E c \in Clients : Request(c) \/ GiveUp(c)
  \/ ModemRestarts
  \/ MsgTask
  \/ FwRequest \/ FwRelease
  \/ FwAnswers
  \/ FwLoses

\* The MsgTask thread loops for ever and the framework's handler thread does
\* not stop; nothing forces a client to ask or a connection to be lost.
ServiceSpec ==
  /\ ServiceInit /\ [][ServiceNext]_vars
  /\ WF_vars(MsgTask)
  /\ WF_vars(FwRequest \/ FwRelease)
  /\ WF_vars(FwAnswers)

-----------------------------------------------------------------------------
(* Properties                                                              *)

\* A client is never left with a NIF that is gone: while the machine has the
\* clients believe that the NIF is up, it is up or the message that will tell
\* them otherwise is in the queue.  This is why AgpsPendingState ignores
\* RELEASED but AgpsAcquiredState does not.
GrantedIsConnected ==
  mState = "Acquired" => conn = "open" \/ Queued("RELEASED")

\* AgpsPendingState never waits for an answer that nobody will give.
PendingHasAnswerComing ==
  mState = "Pending" =>
    \/ \E i \in DOMAIN calls : calls[i] = "REQUEST"
    \/ conn = "opening"
    \/ Queued("GRANTED") \/ Queued("DENIED")

\* Every request is answered: the client is granted the NIF or denied it, or
\* gives up first.  Only a daemon whose request was on the list when the modem
\* restarted is forgotten, and a client of ds_nif that asks again while its
\* close is awaited.
Forgettable(c) ==
  \/ EngineRestarts /\ kind = "ATL" /\ c \in Daemons
  \/ kind = "DS" /\ subs[c] = "inactive"

RequestAnswered ==
  \A c \in Clients :
    told[c] = "SUBSCRIBE" /\ ~Forgettable(c) ~> told[c] # "SUBSCRIBE"

\* A WIFI client that gave the NIF up learns that it is closed.
CloseConfirmed ==
  \A c \in Clients :
    kind = "WIFI" /\ subs[c] = "inactive" ~> subs[c] # "inactive"

\* "Each state machine tracks resource state of a particular NIF" (comment in
\* loc_eng_agps.h): with no message and no call under way, the machine knows
\* whether the NIF is up.  This holds where the machine waits for the close
\* before anything else, which makes late events of an earlier request harmless;
\* agnss_nif, which does not wait, takes them for the answer to the next one.
TracksNif ==
  msgs = <<>> /\ calls = <<>> /\ conn # "opening" =>
    (conn = "open" <=> mState = "Acquired")

\* The state of the machine fits the connection, however late the events are.
StateFitsConnection ==
  /\ GrantedIsConnected
  /\ PendingHasAnswerComing
  /\ WaitForCloseComplete => TracksNif
==============================================================================
