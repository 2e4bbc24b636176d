------------------------------- MODULE LocFront -------------------------------
(***************************************************************************)
(* The front end of the HAL and the way between the modem and the adapters.*)
(* loc.cpp is called by a thread of the framework; LocApiBase hands what   *)
(* the modem reports to its adapters, on a thread of the modem's; and the  *)
(* MsgTask works off what the two post to it.  Sessions, NI, AGPS and the  *)
(* settings have modules of their own.                                     *)
(***************************************************************************)
EXTENDS Integers, Sequences, FiniteSets, FiniteSetsExt

CONSTANTS
  Contexts,      \* builds: agps and cpi extended, vote (TARGET_QCA1530); and of
                 \* gps.conf, ondemand: CAPABILITIES has ON_DEMAND_TIME
  Others,        \* adapters that code outside of this HAL makes and deletes
  MaxAdapters,   \* MAX_ADAPTERS; 10
  MaxCalls,      \* bound: calls of the framework
  MaxRestarts,   \* bound: restarts of the modem
  MaxChanges,    \* bound: comings of the other adapters
  MaxRequests    \* bound: requests for data

ASSUME AdaptersFit ==
  /\ IsFiniteSet(Others) /\ {"none", "engine"} \cap Others = {}
  /\ MaxAdapters \in Nat /\ Cardinality(Others) < MaxAdapters

ASSUME Builds ==
  Contexts \subseteq [agps : BOOLEAN, cpi : BOOLEAN, vote : BOOLEAN, ondemand : BOOLEAN]

VARIABLES
  context,       \* the build and its gps.conf, which is not updated meanwhile
  fw,            \* where the framework's thread is in loc_init or loc_cleanup
  task,          \* the vote the MsgTask has read and is about to send; 0 if none
  queue,         \* messages of the MsgTask
  mLocAdapters,  \* the array of LocApiBase
  callbacks,     \* those that are set: gps_loc_cb ("gps"), "measurement", "xtra"
  supports,      \* mSupportsAgpsRequests, mSupportsTimeInjection, POWER_VOTE_RIGHT
  vote,          \* POWER_VOTE_VALUE of mPowerVote
  modem,
  download,      \* what the framework is about to fetch
  wants,         \* history: what the modem asked the framework for and does not have
  lastLock,      \* history: the last lock that was asked for
  lost,          \* history: these were asked for when there was no connection, or
                 \* the modem went away since
  raced,         \* history: a vote overlapped with the MsgTask sending an older one
                 \* or opening the connection
  calls, restarts, changes, requests

history == <<lastLock, lost, raced>>
adapterVars == <<mLocAdapters, changes>>
requestVars == <<download, wants, requests>>
vars == <<context, fw, task, queue, callbacks, supports, vote, modem, calls, restarts,
          history, adapterVars, requestVars>>

None == "none"
Engine == "engine"                    \* the LocEngAdapter

Initialised == Engine \in {mLocAdapters[i] : i \in DOMAIN mLocAdapters}
Post(messages) == queue' = queue \o messages

-----------------------------------------------------------------------------
(* The array of adapters                                                   *)

Slots == 0..MaxAdapters - 1

\* What a loop over the array gets to see.
Reached == {i \in Slots : \A j \in 0..i : mLocAdapters[j] # None}

\* addAdapter; a full array stays as it is.
Added(adapter) ==
  LET free == {i \in Slots : mLocAdapters[i] = None}
  IN IF free = {} \/ \E i \in Slots : mLocAdapters[i] = adapter THEN mLocAdapters
     ELSE [mLocAdapters EXCEPT ![Min(free)] = adapter]

\* removeAdapter: the last of the array comes to the place that is free.
PlaceOf(adapter) == CHOOSE i \in Slots : mLocAdapters[i] = adapter
RemovedLeavingHole(adapter) ==        \* fault: nothing moves
  [mLocAdapters EXCEPT ![PlaceOf(adapter)] = None]
Removed(adapter) ==
  [mLocAdapters EXCEPT ![PlaceOf(adapter)] = mLocAdapters[Max(Reached)],
                       ![Max(Reached)] = None]

otherVars == <<context, fw, task, callbacks, supports, vote, calls, restarts, history,
               requestVars>>

Arrive(adapter) ==
  /\ changes < MaxChanges /\ changes' = changes + 1
  /\ adapter \notin {mLocAdapters[i] : i \in Slots}
  /\ mLocAdapters' = Added(adapter)
  /\ Post(<<[type |-> "Open"]>>)
  /\ UNCHANGED <<modem, otherVars>>

\* The connection is closed at once with the last adapter; else the MsgTask
\* opens it again, with the events of those that are left.
Leave(adapter) ==
  /\ adapter \in {mLocAdapters[i] : i \in Slots}
  /\ mLocAdapters' = Removed(adapter)
  /\ IF Max(Reached) = 0
     THEN modem' = [modem EXCEPT !.open = FALSE] /\ UNCHANGED queue
     ELSE Post(<<[type |-> "Open"]>>) /\ UNCHANGED modem
  /\ UNCHANGED <<changes, otherVars>>

\* The adapters of others handle requests where they are the extended ones.
Handles(adapter) == IF adapter = Engine THEN supports.agps ELSE context.agps

Takers ==                                                  \* TO_1ST_HANDLING_ADAPTER
  {i \in Reached : Handles(mLocAdapters[i])
                     /\ \A j \in 0..i - 1 : ~Handles(mLocAdapters[j])}

AdaptersAt(places) == {mLocAdapters[i] : i \in places}

-----------------------------------------------------------------------------
(* The framework's thread                                                  *)

Call == calls < MaxCalls /\ calls' = calls + 1 /\ fw = "idle"
frontVars == <<context, task, restarts, changes, requestVars>>

\* It is lost if there is no connection when the MsgTask comes to it.
LostAfter(setting) ==
  IF modem.up /\ (modem.open \/ \E i \in 1..Len(queue) : queue[i].type = "Open")
  THEN lost \ {setting} ELSE lost \cup {setting}

\* loc_init sets the callbacks of loc.cpp; loc_eng_init clears loc_eng_data and
\* makes the adapter, once.
InitEngine ==
  /\ Call /\ fw' = "flags"
  /\ IF Initialised
     THEN callbacks' = callbacks \cup {"gps"} /\ UNCHANGED <<queue, mLocAdapters>>
     ELSE /\ callbacks' = {"gps"}
          /\ mLocAdapters' = Added(Engine)
          /\ Post(<<[type |-> "Open"]>>)
  /\ UNCHANGED <<supports, vote, modem, history, frontVars>>

InitAgpsFlag ==                       \* fault: mSupportsTimeInjection is left
  /\ fw = "flags" /\ fw' = "vote"
  /\ supports' = [supports EXCEPT !.agps = ~context.agps]
  /\ Post(<<[type |-> "Lock", lock |-> 0]>>)
  /\ lastLock' = 0 /\ lost' = LostAfter("lock")
  /\ UNCHANGED <<callbacks, vote, modem, raced, calls, mLocAdapters, frontVars>>

InitFlags ==
  /\ fw = "flags" /\ fw' = "vote"
  /\ supports' = [supports EXCEPT !.agps = ~context.agps, !.time = ~context.cpi]
  /\ Post(<<[type |-> "Lock", lock |-> 0]>>)
  /\ lastLock' = 0 /\ lost' = LostAfter("lock")
  /\ UNCHANGED <<callbacks, vote, modem, raced, calls, mLocAdapters, frontVars>>

\* setPowerVote sets the bit, and requestPowerVote tells the modem.
SetVote(up) ==
  /\ vote' = up
  /\ raced' = (task # 0)
  /\ UNCHANGED <<callbacks, queue, modem, lastLock, lost, mLocAdapters, frontVars>>

InitVote ==
  /\ fw = "vote" /\ fw' = "send_up"
  /\ supports' = [supports EXCEPT !.vote = context.vote]
  /\ SetVote(TRUE)
  /\ UNCHANGED calls

CleanupBegin ==
  /\ Initialised /\ Call /\ fw' = "send_down"
  /\ SetVote(FALSE)
  /\ UNCHANGED supports

Told(field, value) == IF modem.open THEN [modem EXCEPT ![field] = value] ELSE modem
Code(up) == IF up THEN 103 ELSE 101

RequestPowerVote(up) ==
  modem' = IF supports.vote THEN Told("vote", Code(up)) ELSE modem

\* The framework's thread does not wait for the MsgTask to open the connection.
BeforeOpen ==
  /\ modem.up /\ ~modem.open
  /\ ~\E i \in 1..Len(queue) : queue[i].type = "Up"

InitSends ==
  /\ fw = "send_up" /\ fw' = "idle"
  /\ RequestPowerVote(TRUE)
  /\ raced' = (raced \/ BeforeOpen)
  /\ UNCHANGED <<callbacks, queue, supports, vote, lastLock, lost, calls, mLocAdapters,
                 frontVars>>

\* The session is stopped, too, and the adapter stays.
CleanupSends ==
  /\ fw = "send_down" /\ fw' = "idle"
  /\ RequestPowerVote(FALSE)
  /\ Post(<<[type |-> "Lock", lock |-> 3]>>)
  /\ lastLock' = 3 /\ lost' = LostAfter("lock")
  /\ callbacks' = callbacks \ {"gps"}
  /\ raced' = (raced \/ BeforeOpen)
  /\ UNCHANGED <<supports, vote, calls, mLocAdapters, frontVars>>

measurementVars == <<supports, vote, modem, lastLock, raced, mLocAdapters, frontVars>>

\* loc_eng_gps_measurement_init is refused if there is a callback already.
MeasurementInit ==
  /\ Call /\ UNCHANGED fw
  /\ Initialised /\ "measurement" \notin callbacks
  /\ Post(<<[type |-> "Mask", on |-> TRUE]>>)
  /\ callbacks' = callbacks \cup {"measurement"}
  /\ lost' = LostAfter("measurement")
  /\ UNCHANGED measurementVars

MeasurementClose ==
  /\ Call /\ UNCHANGED fw
  /\ Initialised
  /\ Post(<<[type |-> "Mask", on |-> FALSE]>>)
  /\ callbacks' = callbacks \ {"measurement"}
  /\ lost' = LostAfter("measurement")
  /\ UNCHANGED measurementVars

XtraInit ==
  /\ Call /\ UNCHANGED fw
  /\ callbacks' = callbacks \cup {"xtra"}
  /\ UNCHANGED <<queue, supports, vote, modem, history, mLocAdapters, frontVars>>

\* What the framework fetched goes to the modem as a message; xtra data may be
\* too long for it, and are dropped.
Fetched(kind) ==
  /\ kind \in download /\ download' = download \ {kind}
  /\ Initialised /\ fw = "idle"
  /\ \/ Post(<<[type |-> "Inject", kind |-> kind]>>) /\ UNCHANGED wants
     \/ kind = "xtra" /\ wants' = wants \ {kind} /\ UNCHANGED queue
  /\ UNCHANGED <<context, fw, task, callbacks, supports, vote, modem, history, calls,
                 restarts, requests, adapterVars>>

-----------------------------------------------------------------------------
(* The MsgTask                                                             *)

taskVars == <<context, fw, callbacks, vote, calls, restarts, history, adapterVars>>

\* LocEngUp reads the vote, and sends it in a step of its own.
ProcReadsVote ==
  /\ queue # <<>> /\ Head(queue).type = "Up" /\ task = 0
  /\ queue' = Tail(queue)
  /\ task' = IF supports.vote THEN Code(vote) ELSE 0
  /\ UNCHANGED <<supports, modem, requestVars, taskVars>>

ProcSendsVote ==
  /\ task # 0 /\ task' = 0
  /\ modem' = Told("vote", task)
  /\ UNCHANGED <<queue, supports, requestVars, taskVars>>

Proc(type) ==
  /\ task = 0 /\ queue # <<>> /\ Head(queue).type = type
  /\ queue' = Tail(queue) /\ UNCHANGED task

\* LocOpenMsg and LocSsrMsg: there is a connection if the modem is up.
ProcOpen ==
  /\ Proc("Open")
  /\ modem' = [modem EXCEPT !.open = modem.up]
  /\ UNCHANGED <<supports, requestVars, taskVars>>

\* setGpsLock and updateRegistrationMask fail without a connection, and are
\* not tried again.
ProcLock ==
  /\ Proc("Lock")
  /\ modem' = Told("lock", Head(queue).lock)
  /\ UNCHANGED <<supports, requestVars, taskVars>>

ProcMask ==
  /\ Proc("Mask")
  /\ modem' = Told("measures", Head(queue).on)
  /\ UNCHANGED <<supports, requestVars, taskVars>>

\* LocEngRequestXtra calls the framework if it has given it a callback, and
\* LocEngRequestTime, whose callback comes with loc_init, if CAPABILITIES lets
\* it; else the modem, which is not told, waits for the time for nothing.
ProcRequest ==
  /\ Proc("Request")
  /\ LET kind == Head(queue).kind
         called == IF kind = "time" THEN context.ondemand ELSE "xtra" \in callbacks
     IN /\ download' = IF called THEN download \cup {kind} ELSE download
        /\ wants' = IF called \/ kind = "time" THEN wants ELSE wants \ {kind}
  /\ UNCHANGED <<supports, modem, requests, taskVars>>

\* LocEngInjectXtraData and LocEngSetTime; setTime drops the first time where
\* time injection is another's, and takes those after it.
ProcInject ==
  /\ Proc("Inject")
  /\ LET kind == Head(queue).kind
     IN IF kind = "time" /\ ~supports.time
        THEN supports' = [supports EXCEPT !.time = TRUE] /\ UNCHANGED wants
        ELSE wants' = wants \ {kind} /\ UNCHANGED supports
  /\ UNCHANGED <<modem, download, requests, taskVars>>

-----------------------------------------------------------------------------
(* The modem                                                               *)

modemVars == <<context, fw, task, callbacks, supports, vote, calls, lastLock, raced,
               adapterVars>>

\* A request for data, to the first adapter that handles it; what the others do
\* with it is not in this code.
RequestData(kind) ==
  /\ modem.open /\ kind \notin wants
  /\ requests < MaxRequests /\ requests' = requests + 1
  /\ IF Engine \in AdaptersAt(Takers)
     THEN Post(<<[type |-> "Request", kind |-> kind]>>) /\ wants' = wants \cup {kind}
     ELSE UNCHANGED <<queue, wants>>
  /\ UNCHANGED <<modem, lost, restarts, download, modemVars>>

\* The votes and registrations are gone; the lock is not told again, so it is
\* taken to be kept.
Crash ==
  /\ modem.up /\ restarts < MaxRestarts /\ restarts' = restarts + 1
  /\ modem' = [up |-> FALSE, open |-> FALSE, lock |-> modem.lock,
               vote |-> 0, measures |-> FALSE]
  /\ wants' = {}
  /\ lost' = {"lock", "measurement"}
  /\ UNCHANGED <<queue, download, requests, modemVars>>

UpBeforeOpen(up, open) == up \o open         \* fault: told before it is connected
OpenBeforeUp(up, open) == open \o up

\* handleEngineUpEvent: the connection first, then the adapters.
Return ==
  /\ ~modem.up
  /\ modem' = [modem EXCEPT !.up = TRUE]
  /\ Post(OpenBeforeUp(IF Engine \in AdaptersAt(Reached) THEN <<[type |-> "Up"]>> ELSE <<>>,
                       <<[type |-> "Open"]>>))
  /\ UNCHANGED <<lost, restarts, requestVars, modemVars>>

-----------------------------------------------------------------------------
Init ==
  /\ context \in Contexts
  /\ fw = "idle" /\ task = 0 /\ queue = <<>>
  /\ mLocAdapters = [i \in Slots |-> None]
  /\ callbacks = {} /\ vote = FALSE
  /\ supports = [agps |-> FALSE, time |-> FALSE, vote |-> FALSE]
  /\ modem = [up |-> TRUE, open |-> FALSE, lock |-> 0, vote |-> 0, measures |-> FALSE]
  /\ download = {} /\ wants = {}
  /\ lastLock = 0 /\ lost = {} /\ raced = FALSE
  /\ calls = 0 /\ restarts = 0 /\ changes = 0 /\ requests = 0

Next ==
  \/ \E adapter \in Others : Arrive(adapter) \/ Leave(adapter)
  \/ InitEngine \/ InitFlags \/ InitVote \/ InitSends
  \/ CleanupBegin \/ CleanupSends
  \/ MeasurementInit \/ MeasurementClose \/ XtraInit
  \/ \E kind \in {"xtra", "time"} : Fetched(kind) \/ RequestData(kind)
  \/ ProcReadsVote \/ ProcSendsVote
  \/ ProcOpen \/ ProcLock \/ ProcMask \/ ProcRequest \/ ProcInject
  \/ Crash \/ Return

Spec == Init /\ [][Next]_vars

-----------------------------------------------------------------------------
(* Properties                                                              *)

Settled == queue = <<>> /\ task = 0 /\ fw = "idle" /\ modem.open

\* "Do power voting according to last settings if permitted": once everything
\* is handled the modem has the last vote of loc_init and loc_cleanup, through
\* any restarts.
VoteIsLastSetting == Settled /\ supports.vote => modem.vote = Code(vote)

\* The code keeps this as long as the framework does not vote while the MsgTask
\* opens the first connection, or sends the vote it read for a modem that is back.
VoteSettles == ~raced => VoteIsLastSetting

\* The modem's lock is that of the last loc_init or loc_cleanup, and it measures
\* if and only if the framework has a callback for measurements, as long as the
\* modem did not go away after it was asked to.
SettingsSettle ==
  Settled =>
    /\ "lock" \notin lost /\ Initialised => modem.lock = lastLock
    /\ "measurement" \notin lost => modem.measures = ("measurement" \in callbacks)

\* Vote, lock and registration of the modem follow the framework's calls.
ModemFollows == VoteSettles /\ SettingsSettle

\* Whatever adapters come and go, a report reaches every one that is there, and
\* a request at most one; once loc_init is done that is the engine's, unless the
\* extended ones are there for it.
EveryAdapterIsReached ==
  /\ AdaptersAt(Reached) = AdaptersAt(Slots) \ {None}
  /\ Cardinality(Takers) <= 1
  /\ supports.agps => AdaptersAt(Takers) = {Engine}

\* What the modem asked for and the adapter took is always on its way: with the
\* MsgTask, or with the framework.  The code drops the first time injected where
\* that is another's task, and every request for the time if CAPABILITIES has no
\* ON_DEMAND_TIME; wants leaves out the xtra requests that come before the
\* callback and xtra data that are too long, and what no adapter takes.
RequestIsOnItsWay ==
  \A kind \in wants :
    \/ kind \in download
    \/ \E i \in 1..Len(queue) :
         queue[i].type \in {"Request", "Inject"} /\ queue[i].kind = kind
    \/ kind = "time" /\ (context.cpi \/ ~context.ondemand)
===============================================================================
