# Verification of the location stack of android_device_nubia_nx507j

The repository is the device tree of a phone.  Most of it is data: build files, policies, audio
and wifi settings, firmware lists.  Its program logic is the GPS HAL under `src/gps`, a
multi-threaded C++ program between the Android framework and the modem; beside it there are a lights
HAL and a small Doze service.  This directory holds TLA+ models of that logic, TLC configurations
that check them on small instances, and proofs for any instance that the TLA+ proof system checks.

To check a run: `tlc -workers 2 -config ni.cfg LocEngNi.tla` (the table of runs names the module of each
configuration).  To check the proofs: `tlapm LocEngNiProofs.tla`.

- [Inventory](#inventory): the parts of the system
- [Modules](#modules): which module models which part, and how
- [Runs](#runs): what is checked, with which bounds and which fairness
- [Proofs](#proofs): what is proved and how
- [Findings](#findings) and [observed deviations](#observed-deviations)
- [What is left out](#what-is-left-out), and the [plan](#plan)

## Inventory

### Threads and messages

| thread | created by | does |
|---|---|---|
| framework | the Android location service | calls `loc_init`, `loc_start`, ... in loc.cpp, which post messages |
| MsgTask | `LocDualContext` (one for all adapters), `LocTimerContainer` | takes one message at a time and runs its `proc()` |
| modem (RPC) | the vendor's LocApi library, not in the tree | calls `LocApiBase::reportPosition` and the like, which post messages |
| NI threads | `loc_eng_ni_request_handler`, one per request | wait for the user's answer or a timeout |
| timer poll | `LocTimerPollTask` | waits on the timer descriptors |
| `loc_timer` threads | `loc_timer_start`, one per delay | run one callback, such as the retry of a data call |
| daemon server | `loc_eng_dmn_conn_loc_api_server_launch` | reads requests of the XTRA and quipc daemons from a pipe |

Nearly every operation that changes state runs on the one MsgTask thread, one message at a time.  The
difficult behaviour is at its edges: what the framework's thread reads or writes directly, what is
queued between two events that a handler takes to be adjacent, and the few objects that two threads
share without a lock.

### Components

**AGPS state machines** (`loc_eng_agps.{h,cpp}`).  Each of `agnss_nif`, `internet_nif`, `wifi_nif` and
`ds_nif` shares one network interface (NIF) among several clients.  State: the state pointer (Released,
Pending, Acquired, Releasing) and the list of subscribers, each active or not.  Operations:
`subscribeRsrc`, `unsubscribeRsrc`, `onRsrcEvent`, `dropAllSubscribers`.  Requests come from the modem and
the location daemon, the outcome from the framework; all of them through the MsgTask queue.  Hard:
answers carry no request ID, and clients come and go while an answer is on its way.  Right if the NIF is
held exactly as long as somebody needs it and every client is told what becomes of its request.

**Data service machine** (`DSStateMachine`, `ds_nif`).  As above with many subscribers that wait for
the close to be confirmed; it starts data calls itself, through a service that may be busy or have no profile,
retries with a timer and falls back to `agnss_nif`.  Hard: the timer's thread reads the list without a
lock, a late retry meets another state.  Right if a client whose call did not start is retried or denied, and never two calls run.

**LocTimer and LocHeap** (`utils/LocTimer.*`, `utils/LocHeap.*`).  `start`, `stop` and deletion of
timers on any thread; a heap of `LocTimerDelegate`s that belongs to the MsgTask; a timerfd written by both
the MsgTask and the poll thread.  Hard: three kinds of threads, an object with two owners, a descriptor
without a lock; a tree that is rebuilt when a node leaves it.  Right if a timer that runs is called back once, after its time,
and nothing is used after it was deleted; and if the tree keeps its order and loses no node.

**Positioning session** (`loc_eng.cpp`, `LocEngAdapter.cpp`).  State: `mNavigating`, `mFixCriteria`, engine
and session status, aiding data that waits for the engine to go off, the muted session.  Operations:
start, stop, cleanup, delete aiding data, reports, engine down and up.  Hard: the modem crashes at any
moment and the session must be restored, a stop may be queued at that time, flags are updated by
reports that are late.  Right if the modem runs a session exactly when the framework asked for one.

**Network initiated requests** (`loc_eng_ni.cpp`).  State: two sessions with a raw request, an ID, an answer
and a lock; one thread per request.  Operations: request, answer, timeout, reset on an engine
restart.  Hard: three threads, fields used outside the lock, restarts while a thread waits.  Right if each
request is answered once, with the answer its user gave.

**MsgTask, msg_q, linked_list, LocThread** (`utils/`).  A queue with a mutex and a condition
variable and the thread that empties it; a delegate shared by the thread and its owner.  Hard: construction
with a thread that already runs, destruction while it waits or handles, spurious wake-ups.  Right if messages
are handled in order and one at a time, nothing is used after its deletion and nothing is left.

**LocApiBase, the adapters and the HAL front end** (`core/LocApiBase.cpp`, `LocAdapterBase.*`, `loc.cpp`).  State: the array of
adapters, the modem connection, the callbacks the framework gave, the power vote, what the adapter supports.  Operations: `loc_init` and
`loc_cleanup`, registration for measurements, XTRA and time requests, adapters that come and go, engine down and up.  Hard:
`loc_init` takes effect in steps beside the MsgTask, and the modem may go away between any two.  Right if the modem goes by the framework's last
call, each report reaches every adapter, and each request one.

**Set up** (`loc_eng_init`, `loc_eng_agps_init`, servers and configuration).  Remembers what the framework
configured and sends it to the modem, again after each restart of the modem.

**Configuration and target detection** (`loc_cfg.cpp`, `loc_target.cpp`, `loc_eng_read_config`).  Reads gps.conf and sap.conf once, applies the
framework's updates, and finds out which target it runs on, which cuts the capabilities.  Hard: counting entries to end early, files that repeat or lack a
name.  Right if each parameter has the value the last line about it gave it.

**Daemon connection** (`loc_eng_dmn_conn*`).  A thread that reads messages from a named pipe and
forwards them as AGPS requests; answers go back through pipes named by the clients.

**NMEA** (`loc_eng_nmea.cpp`).  Turns one satellite or position report into sentences; keeps the satellites in
use and the dilution between the two.  Hard: the two reports of a fix come separately, with muted sessions and intermediate
fixes among them.  Right if each satellite is listed once and a fix has its own satellites.

**XTRA**: each operation posts one message that calls one function of the
modem.  **Contexts**: created once under a lock.

**Lights HAL** (`liblight/lights.c`).  One RGB LED shared by battery, notifications, buttons and attention, under a mutex.
Hard: sources go on and off in any order, and the LED's files outlive the process.  Right if the LED shows the most important source that wants it.

**Doze service** (`doze/`).  Pulses the display on pick-up, hand-wave and pocket gestures; keeps the state of
the proximity sensor.  Hard: broadcasts of the display, starts of the service and switches of the settings come in any order.  Right if it listens just while the display
is off and a gesture is on.

The state of each of these in this project is in PROJECT.json, under "components".

## Modules

| module | models | lines of code behind it |
|---|---|---|
| SharedNif | what an AGPS state machine promises (abstract) | |
| AgpsStateMachine | the machine in its three kinds | loc_eng_agps.{h,cpp} |
| AgpsService | the machine, its message queue and the framework | loc_eng.cpp (AGPS messages) |
| AgpsProofs | the theorems of the last two | |
| DSStateMachine | the data service machine with its retries and calls | loc_eng_agps.{h,cpp} |
| DSStateMachineProofs | its theorems | |
| LocTimer | timers, heap, timerfd, poll thread | LocTimer.cpp, LocHeap.cpp |
| LocTimerProofs | its theorems | |
| RankPool | what LocTimer uses a heap as (abstract) | |
| LocHeap | the tree | LocHeap.cpp |
| LocEngSession, MCLocEngSession | the positioning session | loc_eng.cpp, LocEngAdapter.cpp, LocApiBase.cpp |
| LocEngSessionProofs | its theorems | |
| LocEngNi | network initiated requests | loc_eng_ni.cpp |
| LocEngNiProofs | its theorems | |
| Mailbox | what users of a MsgTask count on (abstract) | |
| LocThread | owner and thread of a LocThreadDelegate | LocThread.cpp |
| MsgTask | the queue, its receiver, destroy(); extends LocThread | MsgTask.cpp, msg_q.c, linked_list.c |
| DmnConn | the daemon server thread, its pipes and its answers | loc_eng_dmn_conn*, LocEngReqRel* of loc_eng.cpp |
| ThreadsProofs | the theorems of the last three | |
| LocEngSetup | initialisation and settings, told again after a restart | loc_eng.cpp, LocApiBase.cpp |
| LocEngSetupProofs | its theorems | |
| LocFront | front end, adapters, votes, registrations, requests for data | loc.cpp, loc_eng.cpp, LocApiBase.cpp, LocEngAdapter.cpp, loc_eng_xtra.cpp |
| Config | configuration files, updates, target | loc_cfg.cpp, loc_target.cpp, loc_eng.cpp, loc.cpp |
| Nmea | which sentences are sent, and with what | loc_eng_nmea.cpp |
| Lights | the LED and its sources | lights.c |
| Doze | service, sensor and settings | doze/src |
| PartsProofs | the theorems of LocFront, Lights, Doze, LocHeap, Config and Nmea | |
| MCThreads | MsgTask and DmnConn in one instance | |
| MCParts | LocFront, Lights, Doze, LocHeap, Config and Nmea in one instance | |

A model module may have variants of its operations that contain a plausible bug, marked "fault:" or in a section "Faults".  They
take no part in the specification.  PROJECT.json pairs each property with one of them: put in
place of the operation it is a variant of, it makes TLC find the property violated.

### AgpsStateMachine

`mState` is `mStatePtr`, `subs` the list (`"active"` and `"inactive"` are the values of `mIsInactive`), `told` the last
thing said between the machine and each client, `sent` what the step passed to `Servicer::requestRsrc`.
One step is one whole call of a public method, since all of them run on the MsgTask thread.  The four
states' handlers are actions of their own: `SubscribeReleased`, `SubscribeWaiting` (Pending and Releasing),
`SubscribeAcquired`; `UnsubscribeKeep`, `UnsubscribeLast`, `UnsubscribeReleasing`; `GrantPending`, `EndForAll`,
`ConfirmClose`, `Ignored`.  `kind` selects the virtual methods of the subclass.  The handling of an UNSUBSCRIBE
in Released is not an action, since the list is empty then (`ListFollowsState`) and `unsubscribeRsrc`
finds nobody to pass on.

### AgpsService

Adds `msgs` (the queue), `calls` (calls of `agps_status_cb` the framework has not acted on) and `conn` (its
connection).  `ProcSubscribe`, `ProcUnsubscribe` and `ProcEvent` are the proc methods of `LocEngRequestATL`,
`LocEngReqRelWifi`, `LocEngRsrcEvent` and the like.  The framework is not in the tree; it is modelled from the way
the code uses it: it takes calls in order, answers a request by open or open_failed, reports closed when a
connection ends, and may lose a connection at any moment.  When the modem restarts (`ModemRestarts`) its clients are gone and a
`LocEngUp` is posted, which drops the subscribers of the machines that handle ATL requests (`ProcUp`); messages of before the restart stay in the queue.

### DSStateMachine

`mState`, `inactive`, `told` and `sent` are as in AgpsStateMachine; `list` is a sequence, newest first, since a failed start concerns the first active subscriber (`FirstActive`); `Delete` leaves the others in their order.
`Start` is `sendRsrcRequest` with all it does for each result of `openAndStartDataCall`: `mRetries`, a retry timer (`timers`) or a denial with
a `LocEngRequestATL` for the client (`FallBack`; `atl` is what `agnss_nif` has listed).  `call` is the data call as the service sees it.  The timer's thread runs `retryCallback` in two steps,
`RetrySearches` and `RetryPosts`, between which the MsgTask may do anything.  A client that wants an end asks `agnss_nif` first (`ReleaseElsewhere`).

### LocTimer

`mTimer`, `delegate` (with `mClient` and `mFutureTime`), `heap` and `top`, `armed` and `polled` (the descriptor and its
epoll registration), `queue`, `task` (the local variables of the MsgTask thread in the middle of a
message) and `poller`.  A step is what happens between two accesses to something shared: `ReadClient`, `StopClient`,
`CallBack` are the three parts of `LocTimerDelegate::expire`; `Wake`, `Disarm`, `Unpoll`, `PostExpire` those of the poll
thread; `PopNext` and `SetTime` those of `LocTimerContainer::expire` with its `updateSoonestTime`.  A client whose
object was deleted reads as one with `mTimer` NULL.  The heap is a set with its top, so the order of
delegates with equal rank is left open; `OutRanks` compares whole seconds, as `ranks()` does.  One container is
modelled and exists from the start.

### LocHeap and RankPool

RankPool is what LocTimer counts on: a set of items from which `pop` takes one that no other outranks and `remove` takes the one it is given, and whose `peek` gives the same answer until another
that outranks it is pushed or it is taken out itself.

LocHeap has the tree.  Since the links of nodes never change but where a leaf is hung up or given up, a node is known by its place: 1 is the top, and `mLeft` and `mRight` of `i` are `2 * i` and `2 * i + 1`; `mTree` is a function from the
places that have a node to what is in it (`mData` and `mSize`).  A call of `push` or `pop` goes down one line of nodes, and data move along it: `Given` is what `push` hands to each place (to most of them nobody), `Gives` which nodes give up their data
in a `pop`.  `remove` searches for the item itself and leaves out a subtree only if the item outranks its top (`MayBeBelow`), since others may rank the same; `Found` is where the search ends, and the sizes of the `Ancestors` go down by one.  `last` is what the call returned.

### LocEngSession

The variables have the names of the code; `modem` is the external side: up, down or about to be announced, the
session it runs, whether its engine is on and a session was reported begun.  `asked` is what the framework asked for last.  The
framework's actions post messages (`StartFix`, `StopFix`, `SetPositionMode`, `DeleteAidingData`), but for `Cleanup`,
which reads `mNavigating` on the framework's thread.  The `Proc...` and `Handle...` actions are the handlers, among
them `HandleEngineDown`, `Reopen` and `HandleEngineUp` for the three messages of a restart.  Of a position report only that it
is final or intermediate and whether `loc_eng_report_position` passes it on is kept; the ULP proxy is the base class, which
takes no message for itself.

### LocEngNi

`session` is `loc_eng_ni_session_s_type` of the two sessions, `thread` the thread of each request, `msgTask` where
the handler of a request or of a restart stands, `framework` the thread in `loc_eng_ni_respond`, `outbox` the answers on
their way to the MsgTask.  The steps of `ni_thread_proc` are cut at its lock: `Start`, `Answered` or `TimesOut` (both
`Take`, the part from the end of the wait to `rawRequest` having been read), `Unlock`, `Clear` (the two
assignments after the unlock).  `EngineDown`, `ResetFree` and `ResetWake` are `loc_eng_ni_reset_on_engine_restart`, whose
`free` is outside the lock.  Time is not counted: `TimesOut` may happen at any moment of the wait, which also
covers spurious wake-ups.  The model starts initialised.  `AnswersAreTheUsers` holds while `UsersDecided`: no timeout, no ignored request, no restart, and every notification with its request's own ID.  The last is
needed from the fourth request on, when two threads that clear the ID after the unlock (259-260) have left both sessions without one: they are the same to `loc_eng_ni_respond`, and an answer may go to the other.

### LocThread and MsgTask

`delegate` is the `LocThreadDelegate`, `owner` and `thread` say where the two threads are, and each access of one of them to
`mRunnable`, `mJoinable` or `mRefCount` is a step.  MsgTask adds the object itself (`exists`, `mThread`), the queue, the
receiver's position in `msg_q_rcv` (`"waits"` is inside `pthread_cond_wait`, `WakeTaskForNothing` a spurious wake-up) and
the fate of each message.  `Snd`, `Unblock`, `Rcv`, `Woken` are one step each because the queue has a mutex; the wait is
what separates them.  Clients are silent after `destroy()`.  Nothing in the tree calls `destroy()` or
`LocThread::stop()`: MsgTasks live as long as the process; the module says what would happen if somebody did, since the classes offer it.

### DmnConn

`launcher` is the framework's thread in `loc_eng_dmn_conn_launch_thelper` and `thelper_signal_wait`, `server` the server thread in
`thelper_main`, `thelper` its two flags; `SignalWait`, `ProcInit`, `SignalReady`, `Receive`, `Handle`, `ProcPost` are the calls they make.
`Launch` includes a thread that cannot be created: `pthread_create` reports it and the launch returns, `create_thread_cb` does not and the launch waits for a signal nobody sends.
`msgqid` is the five static descriptors by the name of the daemon that reads them: unset, open, failed or closed.  `pipe`, `posted` and `answers` are the way of a
message: to the server, to the MsgTask and back.  `DataConn` is `loc_eng_dmn_conn_loc_api_server_data_conn`: a write, which blocks while the daemon's pipe is full.  Of the
AGPS machine that decides on a request only its outcomes are kept (`Granted`, `Denied`, `Lost`, `Closed`), since AgpsStateMachine has the rest.  A daemon asks,
gives up and reads; a message no handler knows and one that is too long come from anybody.  What the handlers know of a sequence of messages is `Known`, and `UnderWay` has all of
it from the pipe to the MsgTask.

### LocEngSetup

`supl`, `agpsStatus` and `gps_conf` are the globals in which the framework's thread stores what it is told, `queue` the messages that carry it to the modem, `task` the
MsgTask in the middle of `loc_eng_reinit`: what it has still to post (`todo`) and the value it has read and not yet posted (`hand`).  Values are the
numbers of the calls that set them, so the last one is known.  Three settings stand for all: the server (two fields and a flag of `loc_eng_data`), data availability (a plain global) and the SUPL version (in `gps_conf`,
which `loc_eng_configuration_update` copies and stores back); they differ in how they are stored, the others do not.  Each call of the framework is cut at its stores and its send.  An availability that comes without an APN is stored and, once there is an adapter, not sent (`silent`).
`ReinitPosts` is the order of the messages of `LocEngInit` and `loc_eng_handle_engine_up`.

### LocFront

`fw` says where the framework's thread is in `loc_init` (`InitEngine`, `InitFlags`, `InitVote`, `InitSends`) or `loc_cleanup` (`CleanupBegin`, `CleanupSends`): these store a vote, tell the modem
of it directly and post the rest.  `task` is the vote that `LocEngUp` has read and is about to send.  `mLocAdapters` is the array, with `Added` and `Removed` for its two operations; what loops over it get to see is `Reached`, and the first adapter that handles a request is
in `Takers`.  Other adapters come and go by `Arrive` and `Leave`.  A request of the modem (`RequestData`) goes through the MsgTask to the framework (`download`) and comes back as an injection (`Fetched`, `ProcInject`).
`context` is the build and its gps.conf: whether extended AGPS and CPI adapters are there, whether the target votes, and whether CAPABILITIES has ON_DEMAND_TIME, without which `ProcRequest` drops a request for the time.  `InitVote` is the right and the vote in one step: an old
vote that the MsgTask sends between the two is followed by that of `InitSends`, and one it sends later counts as `raced`.  `lost` and `raced` remember that a setting
went to a modem without a connection, or a vote overlapped with the MsgTask's; the code renews neither.

### Config

A line of a file is a name and a value; tables, files, updates and devices are constants.  `Fill` is what one line does and `FillAll` the lines one after the other, a recursive function of their number.  `ReadFile` is `loc_read_conf_r`, which ends after as many set entries as the table has, `UpdateTable` is `loc_update_conf`, `GetInterface` is
`get_gps_interface` with `loc_eng_read_config` before it, `AskTarget` is `loc_get_target`, and `DetectionEnds` the property another process sets.  `taken` is what the last call read, over which values.

### Nmea

A sentence is the record of what is put into it: the talker, its satellites and its number for GSV; the satellites used, the dilution and the status for the others.  The loop over the satellites puts each into the sentence that
is being filled or into a new one (`Listed`, `Filled`), and the count of all of them goes into the header of each (`InView`, `TotalSentences`).  `ReportSv` and `ReportPosition` are the two messages as `proc()` handles them, the muting included.
`sv_used_mask` and `dop` name the report they are of, which tells whether a fix has its own.

### Lights

A call is one step, since `g_lock` is held from its first change to its last.  `asked` is the four `g_...` states, `active_states` and `last_state` the statics, `led` the files of the red LED, which stand for those of all; a colour is a number
and `rgb_to_brightness` what the code computes.  Which of the battery's three patterns is shown comes from two files and is left open.  `ProcessRestarts` clears the statics and leaves the files.

### Doze

Everything of the service runs on the main thread, so a callback is a step.  `broadcasts` and `starts` are what the system has on its way to it; `near` is the sensor and `report` a value it has to tell, the first when the listener is registered.  Times
are counted in seconds up to `PocketMin`.  `saw` remembers whether a gesture was switched while a broadcast was on its way.

## Runs

Passing runs:

| run | module | shows |
|---|---|---|
| service | AgpsService | agnss_nif, wifi_nif and the list of ds_nif with 2 clients, one of them a daemon, and modem restarts: no client that waits or uses the NIF is off the list (`NobodyLeftBehind`); a granted NIF is up or its loss is queued, a machine that waits has an answer coming, and a machine that waits for the close knows at rest whether the NIF is up (`StateFitsConnection`); every request is answered and every close confirmed; the machine with its environment implements SharedNif |
| ds | DSStateMachine | 2 clients: a client whose call did not start has a retry coming (`RetryIsComing`), and does not wait for ever (`RetriesEnd`); a call is started only when the one before it has ended (`StartsOneCall`) |
| timer | LocTimer | 2 timers, 2 delegates, all threads, deletion from anywhere: the descriptor covers the soonest timer or the thread that will set it is about to (`SoonestIsArmed`); no deleted delegate is used (`NoDanglingDelegate`); every timer runs out or is stopped |
| session | MCLocEngSession | sessions in three surroundings (below): no muting outlives its session, whatever crashes come, and without restarts of the modem aiding data waits only while the engine is on (`StatusIsFollowed`); the adapter knows of each session the modem runs (`ModemSessionKnown`); a wanted session survives a restart; and every stop reaches the modem (`StopTakesEffect`) |
| ni | LocEngNi | 3 requests, 1 restart: a request in progress has a thread that will end it (`PendingHasThread`); freed once without a restart; without timeouts and ignored requests an answer is its user's; every request is freed in the end |
| threads | MCThreads | two parts.  A MsgTask with 3 messages, joinable and detached, with threads that cannot be created: delegate and queue outlive their users, Mailbox is implemented, every message ends, `destroy()` returns.  The server with a WIFI and a BIT daemon: no answer goes to a descriptor that is not set or closed (`AnswersReachPipes`); requests are handled in order, none lost or doubled (`PassedOnInOrder`); the launch returns if the server thread was created (`LaunchReturns`); a daemon that waits is answered, although every pipe may be full; the first and the last as long as reading works |
| setup | LocEngSetup | settings before, while and after the initialisation, and a modem that crashes: at rest the modem goes by the last values, unless one was set while the MsgTask was in `loc_eng_reinit` (`overlap`) or is an availability that came without an APN (`silent`), and, without a restart, the framework learnt of measurements (`SettingsArrive`); nothing stored stays untold (`NothingStaysMissing`) |
| parts | MCParts | six parts.  LocFront: vote, lock and registration of the modem follow the framework's calls (`ModemFollows`), adapters come and go without being missed by a report or a request (`EveryAdapterIsReached`), a request for data that was taken is on its way unless the code drops it, in the cases the property names (`RequestIsOnItsWay`).  LocHeap: the tree is a heap with right counts (`TreeIsHeap`) and implements RankPool.  Lights: `LedFollowsSources`.  Doze: a hand-wave pulse follows a hand that was just there (`WaveIsShort`), `ListenerFollowsDisplay`.  Nmea: a report's satellites are in one fix at most, GSV sentences list every satellite once (`SentencesAgree`).  Config: files, updates and target count (`ConfigCounts`) |

Runs whose property the code violates: ds_stuck, session_lost_stop, ni_restart, setup_wiped; see Findings.

Parts that share nothing are in one run, where the first state chooses the part: their states add up and do not multiply.  What a theorem establishes for all instances is not checked by
a run as well where the list of properties of the run would only grow: the types, `ListFollowsState`, `SingleSubscriber`, `ActiveKnowsState` and `RequestIsListed` of AgpsStateMachine,
`DelegateOutlivesUsers` of LocThread.

### Bounds

- service: `MaxMsgs` and `MaxCalls` stop *clients* from posting when 3 messages or 2 calls wait; the framework is never
  stopped.  An answer to an earlier request, the release and the next request fit.
- ds: `MaxRetries` 2 where the code has 4, so that the last retry is reached early; clients stop when 2 messages or 2 timers wait.  A result the code does not know ("Unrecognized return value") is in the
  module and not in the run, since `RetryIsComing` is not true of it.
- timer: two ticks to the second, `MaxTime` 4 and timeouts of 1 and 3 ticks: the clock starts at 1, so timers run out at ticks 2, 3 and 4, the first two in one second and the last in another, and one may outrank another.  The
  clock stops there, so the run ends and deadlock is not checked.
- session: each of the surroundings bounds the queue (2 or 3 messages) for the framework's and the modem's posts.  "Everything"
  has all disturbances together; "Restarts" has a tracking session that never fails to start and a modem that crashes;
  "Stays" has failing starts and aiding data and a modem that stays.  They exist because the strong properties are false in the
  presence of the deviations below and true elsewhere: `Tracks` and the names of the properties say where.
- ni: 3 requests and one restart, at most 3 of both together; ni_restart 3 and 1, at most 4.  Two requests race for one session and the third shows what
  the race left behind.  Requests are used up, so deadlock is not checked.
  Two notifications without an ID need a fourth request, which is too much for a run; the theorem `AnswersProved` covers them.
- threads: 3 messages: one in hand, one queued, one sent by the message in hand.  The life of the object ends, so deadlock is not checked.  `PipeSize` 1, the size that blocks soonest;
  `MaxPosted` 2 stops *daemons* from writing while two requests are posted, one of each.  A server that ended and daemons that ask for nothing leave nothing to do.
- setup: `MaxCalls` 2, so that a newer value can overtake an older one, of the same setting or of another; `MaxRestarts` 1.  `loc_init` may be called at any time.  Calls are used up, so deadlock is not checked.
- parts: LocFront has four builds (with and without ON_DEMAND_TIME), 3 calls of the framework (an init, a cleanup and an init), one other adapter, which fills an array of 2, one restart and one request.  LocHeap 5 items in 2 ranks: a tree of three
  levels with equal ranks on a path.  Lights a dark colour, one so dim that its brightness is 0, and white; pauses of 0 and not.  Doze limits of 1 and 2 seconds, 2 broadcasts and 2 starts on their way.
  Nmea sentences of 2 satellites (4 in the code) and up to 5 satellites, so that sentences are full, one short and one over; 2 satellite reports, with any number of fixes.
  Config tables of 2, 1 and 1 names, files of up to 3 lines with repeated names, updates of up to 2, and a device for each of the 7 ways through the detection.  Calls and reports are used up, so deadlock is not checked.

### Fairness

Weak fairness of each thread of the program: the MsgTask, the poll thread, the NI threads and a handler that has begun
are runnable whenever their next step is enabled, and the kernel schedules them.  Beyond that:

- timer: the clock ticks up to the bound;
- service: the framework handles each call it was given and answers it (`FwRequest`, `FwRelease`, `FwAnswers`); that it loses a connection is not
  assumed, nor that any client asks;
- ds: the timer's thread runs, and a call that was begun or is being ended gets its answer (`ServiceAnswers`); that a call starts or lasts is not assumed;
- session: a modem that crashed comes back, and is announced; crashes, reports and the framework's calls are not assumed;
- ni: a wait ends, since `pthread_cond_timedwait` has a time limit; that the user answers is not assumed, and neither are requests;
- threads: `destroy()` goes on once it was called; that it is called is not assumed, nor are messages or spurious wake-ups.  Daemons read their pipes; the framework answers every request, with strong fairness, because its answer is a message that waits in the MsgTask's queue for its turn while
  the MsgTask is busy with others; that a read is interrupted is not assumed, nor that a daemon asks or gives up.
- setup: a call of the framework that has begun goes on, a modem that crashed comes back and is announced; calls and crashes are not assumed;
- parts: none, its properties are about safety.

## Proofs

All theorems are about the same specifications the runs check, for every value of the constants that the modules' named assumptions admit: `AgpsAssumption`, `ServiceAssumption`, `DSAssumption`,
`LocTimerAssumption`, `SessionAssumption`, `NiAssumption`, `DmnAssumption`, `SetupAssumption`, `AdaptersFit`, `Builds`, `DozeAssumption`, `HeapAssumption`, `ConfAssumption`, `NmeaAssumption`.  Each says what kind of value a constant has; bounds may be any number.
`ConfAssumption` says more: the tables are finite and share no name, CAPABILITIES is a number wherever it is told, and an update may change only names of gps_conf other than that.  LocThread,
MsgTask and Lights need none.  The assumptions are evaluated in the runs.

The argument is the same everywhere: the property is not inductive, so the module names what else is always true (the inductive invariant, in parts), shows for each action what it disturbs, and concludes.  The parts were model-checked on the
instance of the run before they were proved.  Lemmas on queues (what is where after an append, after the first is taken) come first in each module.

Where a model counts over data of any length (lines of a file, satellites of a report, messages in a pipe, nodes of a tree), the operator is a recursive function, and two facts carry the proofs: that the function exists, which is shown by building it up, and
a lemma on sets of numbers (`Induction`: a set that has 0 and with each number the next has them all), which comes from finite sets of numbers having a least one.

**AgpsProofs.**  They hold of agnss_nif, internet_nif and wifi_nif, and of ds_nif as long as its data calls start: a client whose start failed stays listed in Released, and DSStateMachine has that machine.
For the machine alone `IInv`, the types with the safety properties, is inductive: what the states' handlers count on are exactly these agreements between list, state and answers.  There is a lemma per method (`SubscribeIInv`,
`UnsubscribeIInv`, `EventIInv`, `DropIInv`) for any number of clients.  `Refinement` shows with `IInv` in both states that each method is one step of SharedNif, or none.  `ServiceIsMachine` shows that every step of the service, with its queue between clients, framework
and machine, is a step of the machine or leaves it alone, so that all of the above holds in the service (`ServiceForgetsNobody`, `ServiceSharesNif`).  `StateFits` needs `Fits`: reports that say granted are true or their loss is queued
behind; a machine that waits for the close has one connection at a time (`OneAtATime`), as request, connection or report of its end, and none when Released; and its state is as far as the reports it has handled (`StateKeepsUp`).

**DSStateMachineProofs.**  `OneCallAtATime` (property `StartsOneCall`) rests on `AnswersInOrder`: the answers of the service in the queue are those of one call, nothing follows a Closed, an Opened is never there while a call starts, and a Released machine has neither call nor
answer.  `RetryIsComingProved` has as hypothesis that the service returns only results the code knows ("Unrecognized return value" is neither retried nor denied).  It counts on `InactiveListed`, by which a Released machine has no inactive subscriber, and on the first active one being a client:
that there is a first one (`SmallestOf`) comes from the well-foundedness of strict subsets.

**LocTimerProofs.**  `Books` says what is owed to each delegate (unlinked once, the removal posted once and last, what is held is allocated), `Threads` what the two threads have in hand.  `NobodyDangles` follows from both.  `SoonestArmed` needs in addition `TopFits`, that `peek` gives one of the highest rank.
`TimersUsePool` connects LocTimer with LocHeap: every step that changes `heap` and `top` is a call of RankPool, with the whole seconds of the delegates' times as ranks.  What LocHeap needs of its users holds: a delegate is pushed only if it is not on the heap (`PushedOnce`: one Push for each start,
and none is waiting for a delegate that is there), and its rank stays while it is.  What it promises is what LocTimer takes for granted, since `HeapIsRankPool` shows that the tree is such a pool.

**LocEngSessionProofs.**  `StatusFollowed`, `SessionKnown` and `SessionComesBack` are proved together; the first has muting for any surroundings, and the deletion of aiding data only for those without restarts of the modem.  `Engine` says what the surroundings let into the queue, `ReopenedFirst` that the handle is opened before the engine is said to be up; where starts succeed, `WantedIsKept` says where the
framework's last wish is (queued as a start, or taken and not stopped), and `RunsOrRestarts` that a session the adapter has is in the modem or will be started by an Up.

**LocEngNiProofs.**  `NiInv` is `TypeOK`, `KnownArrived` (what a session, a thread and the handler refer to has arrived, and a handler that
is about to create a thread is alone with its request) and `PendingAttended`, which strengthens `PendingHasThread`: a session in progress has its own handler
or a thread of the *same session* that has not passed its lock.  It is needed since after a restart the thread of an old
request may be the one that ends the new request.  `Attended` assumes that `pthread_create` succeeds: the code
leaves the request pending for ever if it does not.  `FreedOnceProved` needs, as long as there was no restart, `OneOwner`: a request that its session, the thread that took it or a message will still use (`InUse`) is not freed, and only one message has it.  `AnswersProved` needs in addition
where an answer can be: `NotYet` (before the wait), `OneId` (IDs differ), `LeftAnswers`, `ComingAnswer` and `TakenAnswers` (in a session, with the framework, with a thread: always of the request it is for).

**ThreadsProofs.**  MsgTask: `TaskIInv` is `TaskTypeOK`, `DelegateOutlivesUsers`, and four facts about where the two threads can be at the same time: `Starting` (while the
owner is in `start()` the thread has not gone past `run`), `Stopping` (it goes past only after the queue was unblocked), `Receiving`, and `TaskLives` (the
object is there until the thread deleted it, or the owner of a MsgTask without a thread did).  `DelegateSafe`, `QueueSafe` and `MailboxImplemented` follow; the latter
because the lists of the queue are those of Mailbox, and `~unblocked` is its `open`.  `DeletedProved` adds `Ending`, what a thread that lets go of the delegate has done; it says nothing of a joinable thread whose owner went first (LocThread.cpp:181), which leaves the MsgTask behind.
DmnConn: `ConnIInv` is the types with what the sequences hold, `ServerKnows` (where the server thread is decides which descriptors are set, and they are closed only after reading failed) and
`NothingEarly` (nothing is posted or answered before the descriptors are set, which is why the MsgTask never writes to one that is not).  `AnswersArrive` and `SignalNotMissed` follow, for any daemons and any messages: a launch that waits has
not missed its signal, since the flag `ready` is set only by a server that has signalled (`ServerKnows`).
`PassedOn` rests on what `Known` is of a sequence with one message more at its end (`KnownAppend`) or its front (`KnownFirst`), by induction over the length: a step of a daemon, of the server or of the MsgTask moves one message from one place to the next and leaves
the order of all of them.

**LocEngSetupProofs.**  `SettingsArriveProved`: `SettingsCome` says for each setting where its current value is on its way: the modem is about to restart or the engine to be initialised, the call that stored it has still to send it, a reinit is coming or under way, or it is in the
MsgTask's hand, in the last message of its type, or in the modem.  A message counts only if it comes behind the one that opens the connection (`Arrives`).  `MeasurementsCome` says the same of what the modem tells the framework.

**PartsProofs.**  LocFront: `AdaptersAreReached`: `ArrayOK` (no hole, nobody twice) is what `Added` and `Removed` keep, `EngineFirst` that the flags of the engine's adapter are set only once it is in the array.  That
there is a place for it is the pigeonhole principle, with `AdaptersFit`; that `Max` and `Min` of places exist (`Extremes`) comes from the well-foundedness of strict subsets.  `ModemFollowsProved` and `RequestsArrive`: `Comes` says of vote, lock and registration
that the last message about each carries what the framework asked for last and comes behind the one that opens the connection, or, without such a message, that the modem has it.
Lights: `LedFollows`: `LedIInv` says that `active_states` is the set of the sources that are lit, and that `last_state` is the most important of them and what the files show, from the first call after
a start on.  `BreathShows` and `BreathPauses` say what writing a pattern makes of the files.
Doze: `WavesAreShort`: what the listener remembers of a cover, `sinceTime`, is never less than the time since the cover, and both stop at the same limit.  `ListensWhenDark`: `Follows` says that the last broadcast on its way tells what the display is, and that without one
the listener is as it should be.
LocHeap: `TreeStaysHeap` and `HeapIsRankPool`: `HeapIInv` is `HeapTyped` (the tree is finite and each node but the top has its parent), `Distinct` (no object is in two nodes) and `TreeIsHeap`.  `DownTheTree` says that functions defined from the top down, like `Given` and `Gives`, exist.
The nodes through which `push`, `pop` and `remove` pass are each one line (`PassedLine`, `GivingLine`, `AncestorsLine`): so every size on it changes by one and the sizes still add up, each object handed down comes to exactly one node, and a node that gets other data outranks its children still.
`SearchFinds` shows that the pruning loses nothing, `PeekIs` that the top is one of the highest.
Config: `ConfigIsRead`: `FillAllTells` says what any number of lines make of a table when each name is there at most once, by induction over the lines: nothing is left unread that counts, since there are at most as many lines that are set as the table has
names.  `ConfIInv` adds that CAPABILITIES stays a number and that the target is known once the interface was handed out (`TargetKnown`).
Nmea: `SentencesAreRight`: `FilledIs` says, by induction over the satellites, that all sentences but the last are full, that they list every satellite of the talker once and in order, and that they are as many as `TotalSentences` computes by division (`DivStep`, `OneMoreSentence`).
`Unused` says that the satellites kept are of a report no fix has had, `SameReport` that a dilution kept with them is of the same report.

Every safety property of the passing runs, refinements and action properties among them, is a theorem.  Only model-checked is liveness under fairness, which is out of the prover's reach: `RequestAnswered`, `CloseConfirmed`, `RetriesEnd`, `TimerRunsOut`, `StopTakesEffect`,
`EveryRequestSettled`, `EveryMessageEnds`, `DestroyReturns`, `LaunchReturns`, `DaemonsAreAnswered` and `NothingStaysMissing`.

## Findings

Each is the counterexample of a run, against what a comment in the code says.

1. *ds_stuck, `PendingHasCall`* (loc_eng_agps.cpp:561).  When a close is confirmed and new subscribers wait, AgpsReleasingState asks for a call and goes to Pending without a look at the
   result.  If the service was busy or has no profile, the machine waits for the answer of a call nobody started, and the retry only finds its client on the list; AgpsReleasedState looks at the result, and the comment at 276 says why.
2. *session_lost_stop, `StopIsFinal`* (loc_eng.cpp:2860).  `LocEngUp` is handled before a stop that waits in the queue and posts a start after it: the session runs again although it was stopped.
3. *ni_restart, `FreedOnce`* (loc_eng_ni.cpp:283).  The reset on an engine restart frees a raw request that its thread is just sending; it is freed twice.
4. *setup_wiped, `ServerStaysBuffered`* (loc_eng.cpp:1739).  `loc_eng_init` clears `loc_eng_data` with the server address that was stored there before, although the comments at 2253 and
   2569 promise to keep it for the initialisation.

### Observed deviations

Met while modelling; the models contain them unless they are listed under "What is left out", and no run is spent on them.

- AGPS: a request that is given up and made again meets the answer to the first one: DENIED ends the new request, a later GRANTED is ignored in Released, and the connection stays
  up for nobody (loc_eng_agps.cpp:385); only for machines that do not wait for the close, which `StateFitsConnection` sets apart.  The data service client that asks again while Releasing and inactive is not made active (521, against the comment
  523-525).  A modem restart empties the list but keeps the state, so a Pending or Acquired machine is left with nobody, and the daemon
  client, which did not restart, is dropped unanswered (loc_eng.cpp:2848).  The delete loop of `notifySubscribers` reads the subscriber it has deleted (722); the model takes the old ID.
- Data service: the handle `loc_timer_start` returns is taken for an error (885), which only logs.  The client of a failed start stays listed in Released, and one that released meanwhile is retried (838-850).  `retryCallback` reads the list on the timer's thread without
  a lock.  A call that fails in Pending sends the inactive clients to `agnss_nif` as well.  Where a newer client is denied, an older one that waits behind it is never told.  `mRetries` is not reset by a success.  A result the code does not know is neither retried nor denied.
- Timer: `expire` reads `mClient` without the lock and stops the client; if the client restarted in between, the new run is stopped and called back at once
  (LocTimer.cpp:519, against the comment there).  An Expire pops the top before it compares any time with now (LocTimer.cpp:367), so an Expire overtaken by a Remove calls the next
  timer early.  A client deleted between 486 and 522 is still used.  The last Remove leaves the descriptor armed and polled (285).
- LocHeap: the comment at LocHeap.h:84 says `remove` takes a node that ranks the same; the code takes the very one it is given, as LocTimer needs.
- Session: a late final fix of a stopped single session clears the flag of the new one (loc_eng.cpp:791); a cleanup does not see a start that is still
  queued (1870); a second request to delete aiding data replaces the one that waits (1301); engine down does not delete waiting data, which waits with the engine off until its next report (2836; `WaitsOnlyWhileOn` is about modems that stay), and data may be deleted
  while an ENGINE_ON is queued (213); a restart resets the fix mode to INVALID (LocEngAdapter.cpp:403).
- NI: an answer that comes while the wait times out stays in the session for the next request (loc_eng_ni.cpp:404, 235), and likewise one that
  meets the IGNORE for an emergency request; the ID and the time are cleared after the unlock (259-260), when they may be the next request's, which is then notified
  with the ID of no request, and an answer to it may go to the other session if that has none either; a
  `pthread_create` that fails leaves the request pending (181).
- MsgTask: a joinable thread whose owner goes before it runs for the first time never deletes its runnable (LocThread.cpp:181, against MsgTask.h:50 and LocThread.h:74).  `destroy()` reads `mThread` of an object the thread may have deleted (MsgTask.cpp:67); a message refused by an unblocked queue is never freed (77).
- Daemon connection: a failed read, or a message longer than the buffer, ends the server thread, although the log says it will retry later (loc_eng_dmn_conn.cpp:136-140,
  loc_eng_dmn_conn_thread_helper.c:250-255).  The descriptors keep their numbers then, and the MsgTask goes on writing to them (170-174).  If `create_thread_cb` fails, the launch waits for ever (thread_helper.c:319-335); `LaunchReturns` is about the others.
- Set up: a value that `loc_eng_reinit` has read is posted after a newer one that the framework stores and posts meanwhile, and the older stays in the modem (loc_eng.cpp:1791-1826).  `loc_eng_configuration_update` stores back a copy of
  `gps_conf` without the MEASUREMENTS bit that the MsgTask set since (2716, 1608).  If the modem crashes before the first `LocEngGnssConstellationConfig`, the framework is never told of measurements, since only `LocEngInit`
  sends the capabilities.  The APN is not stored and not told again after a restart (1826).  An availability without an APN is stored but not sent (2646-2655): the modem keeps the old one until the next restart.
- Front end: the first vote of `loc_init` goes to the modem before the MsgTask has opened the connection; a vote that `LocEngUp` has read may follow a newer one of the framework.  Lock and measurement registration are not renewed after a restart of
  the modem.  A request of the modem before `loc_init` has set the flags is refused, and not repeated.  `setTime` drops the first time where the CPI adapter is extended.  A request for the time that was taken is dropped, and the modem not told, if CAPABILITIES has no ON_DEMAND_TIME (loc_eng.cpp:1275),
which the built-in default 0x7 has not (146) and gps.conf has.  A request for XTRA data before the framework gave a callback, and data that are too long, are dropped as well.  `loc_xtra_init` never sets `report_xtra_server_cb`, and a call of it before `loc_init` is
  undone by the memset.  `loc_xtra_inject_data` does not ask whether the engine is initialised.  A second `loc_init` replaces the status and location callbacks of loc.cpp alone.  The array of adapters is changed and read by different threads without a lock, and an Open message that was posted
  before the last adapter left opens the connection again.
- Configuration: `loc_update_conf` begins with `table_length - 1` (loc_cfg.cpp:340), so an update that names every parameter leaves the last one out; it returns lines read where its comment promises records updated.  A parameter that is there twice ends the reading
  early (291, 348).  `loc_read_conf_r` returns 0 whatever it read.  A line of more than 160 bytes is taken apart, and its tail read as a line; a number in hexadecimal leaves a floating-point parameter 0.  `LocEngSuplMode` reads `gps_conf.SUPL_MODE` when the
  MsgTask comes to it, after `loc_eng_configuration_update` restored the old value (loc_eng.cpp:2731-2740).  DEBUG_LEVEL of sap.conf overrides that of gps.conf.  A board without /dev/mdm leaves the target undetermined, so it is asked again and may differ, which `TargetCounts` sets
  apart; a detection that takes more than 15 seconds counts as "no" for ever.
- NMEA: an inner `magTrack` hides the one that is printed (loc_eng_nmea.cpp:225); RMC has status A for any fix; the fix that ends a single session gets no sentences; satellites in use are kept over an intermediate fix; `LocEngReportNmea` is sent while muted.
- Lights: a pause of 0 is not written, so the pause of the pattern before it counts.  The battery's pattern is not written again when charging begins or ends (lights.c:271).  A dim colour counts as off.  After a restart of the process the LED burns until the first call.
- Doze: what the sensor saw before it was disabled counts after it is enabled again (ProximitySensor.java:53), so a pocket pulse may come without the 2 seconds; a registration sets the time anew.  A gesture switched off while the display's broadcast is on its way leaves the listener registered.
  A restarted service with the display off listens only after the display was on.  Switching a gesture off starts the service, too.

## What is left out

Of the modelled components: the creation of the timer containers on first use and its double-checked lock (LocTimer.cpp:239), the fallback to
CLOCK_MONOTONIC (216), a NULL container (481); failing memory allocations; `loc_eng_ni_init` and what the memset of a second init would do to a session in progress; the unit test programme of LocHeap; the unblock and join functions of the daemon server, which nobody calls, and the
variant DEBUG_DMN_LOC_API, which is not built; certificates and the sensor settings (which never change) in the set up; geofences, which a vendor library implements;
`closeDataCall` (loc_eng_agps.cpp:954), by which the vendor library frees a data call that has ended; the tables of function pointers; the exchange with a ULP proxy; the formatting and the checksums of NMEA
sentences and the parsing of the lines of configuration files, of which the models have the result; files of the lights HAL that cannot be opened.

Not modelled, since they keep no state that two steps could disagree about: Contexts (created once, under a lock), logging and the platform abstractions, the CyanogenMod hardware classes (each reads or writes one file of sysfs), helpers that run once at boot, and everything that is data.
Vendor libraries, the modem and the framework are external; they appear as the environment of the models, with the behaviour the code counts on.

Two hazards of PROJECT.json have no property, because what the code does there is one of the deviations above and a single comment to hold against it is missing: aiding data replaced (loc_eng.cpp:1301),
and a `pthread_create` that fails (loc_eng_ni.cpp:181).

## Plan

Done, in this order: AgpsStateMachine with SharedNif, AgpsService, LocTimer, LocEngSession, LocEngNi, LocThread with MsgTask and Mailbox, DmnConn, LocEngSetup; then
DSStateMachine, LocHeap with RankPool, Lights, Doze, LocFront, Nmea and Config.  Proofs for all of them: every safety property that a run checks is a theorem, and LocTimer's use of
its heap is connected with the tree.

Worth doing next: the pieces of modelled components named under "What is left out", of which the creation of the timer containers under their double-checked lock and `loc_eng_ni_init` in the middle of a session are the most interesting; and a bound for
liveness, such as how many messages a request may wait for, which would be a safety property and could be proved.
