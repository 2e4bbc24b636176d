------------------------------ MODULE LocTimer ------------------------------
(***************************************************************************)
(* The timer service of gps/utils: LocTimer.{h,cpp} with LocHeap and       *)
(* LocSharedLock.                                                          *)
(*                                                                         *)
(* Client threads start and stop LocTimer objects under the object's lock; *)
(* each start makes a LocTimerDelegate and posts a Push message, each stop *)
(* posts a Remove.  One MsgTask thread owns the heap of delegates and      *)
(* writes the soonest time into a timerfd.  A poll thread waits on that fd *)
(* and, when it fires, disarms it, takes it off the poll and posts an      *)
(* Expire.  The fd is written by both threads with no lock between them.   *)
(*                                                                         *)
(* One container (heap and fd) is modelled; the program has one for timers *)
(* and one for alarms, which share nothing but the two threads.  The heap  *)
(* is a set and its top: which of the equally ranked delegates comes up    *)
(* when the top goes is left open.                                         *)
(***************************************************************************)
EXTENDS Naturals, Sequences

CONSTANTS
  Clients,       \* LocTimer objects
  Wrappers,      \* those that are LocTimerWrappers (loc_timer_start)
  Delegates,     \* memory for LocTimerDelegate objects
  Delays,        \* the timeouts asked for, in ticks
  TicksPerSec,   \* ticks in a second: ranks() sees whole seconds only
  MaxTime,       \* bound: the last moment of the clock
  OthersDelete,  \* whether a thread other than the MsgTask deletes LocTimers
  NoClient, NoTimer  \* NULL

ASSUME LocTimerAssumption ==
  /\ Wrappers \subseteq Clients
  /\ Delays \subseteq Nat
  /\ TicksPerSec \in Nat \ {0}
  /\ MaxTime \in Nat \ {0}
  /\ OthersDelete \in BOOLEAN
  /\ NoClient \notin Clients
  /\ NoTimer \notin Delegates

VARIABLES
  now,       \* CLOCK_BOOTTIME
  live,      \* the LocTimer objects that exist
  mTimer,    \* LocTimer::mTimer of each client
  delegate,  \* the LocTimerDelegate objects that exist: mClient (NULLed with
             \* mContainer by destroyLocked) and mFutureTime
  heap, top, \* the delegates in the container, and LocHeap::peek()
  armed,     \* the time in the timerfd, 0 when disarmed
  polled,    \* whether the fd is in the epoll set
  queue,     \* messages of the MsgTask
  task,      \* where the MsgTask thread is, and its local variables
  poller     \* where the poll thread is

clientVars == <<live, mTimer>>
heapVars == <<heap, top>>
fdVars == <<armed, polled>>
vars == <<now, live, mTimer, delegate, heap, top, armed, polled, queue, task, poller>>

Free == [client |-> NoClient, time |-> 0]
Allocated == {d \in Delegates : delegate[d] # Free}
Linked(d) == delegate[d].client # NoClient

Sec(t) == t \div TicksPerSec
OutRanks(d, e) == Sec(delegate[d].time) < Sec(delegate[e].time)

Msg(type, d) == [type |-> type, timer |-> d]
Idle == [pc |-> "recv", timer |-> NoTimer, client |-> NoClient, asOf |-> 0]
Readable == armed # 0 /\ armed <= now

Init ==
  /\ now = 1
  /\ live = Clients \ Wrappers
  /\ mTimer = [c \in Clients |-> NoTimer]
  /\ delegate = [d \in Delegates |-> Free]
  /\ heap = {} /\ top = NoTimer
  /\ armed = 0 /\ polled = FALSE
  /\ queue = <<>>
  /\ task = Idle
  /\ poller = "wait"

-----------------------------------------------------------------------------
(* Faults: variants of the methods below with a plausible bug, standing in *)
(* for them when the project checks that a property can fail.              *)

StopTimerAtOnce(c) ==      \* the delegate deleted by stop(), not by Remove
  /\ mTimer' = [mTimer EXCEPT ![c] = NoTimer]
  /\ delegate' = [delegate EXCEPT ![mTimer[c]] = Free]
  /\ UNCHANGED queue

SetOnlyFirst(prior) ==     \* the fd set for the first timer, not for a sooner
  IF (top' = NoTimer) # (prior = NoTimer)
  THEN polled' = (top' # NoTimer) /\ task' = [Idle EXCEPT !.pc = "settime"]
  ELSE task' = Idle /\ UNCHANGED polled

PostExpireQuiet ==         \* disarmed, but no Expire is sent
  /\ poller = "post" /\ poller' = "wait"
  /\ UNCHANGED <<now, clientVars, delegate, heapVars, fdVars, queue, task>>

-----------------------------------------------------------------------------
(* Helpers                                                                 *)

\* LocHeap::push: the tree top gives way only to a delegate that outranks it.
PushOnHeap(d) ==
  /\ heap' = heap \cup {d}
  /\ top' = IF top = NoTimer \/ OutRanks(d, top) THEN d ELSE top

\* LocHeap::pop and LocHeap::remove: one of the highest ranked is next.
TakeOffHeap(d) ==
  /\ heap' = heap \ {d}
  /\ IF d # top THEN UNCHANGED top
     ELSE IF heap' = {} THEN top' = NoTimer
     ELSE top' \in {e \in heap' : \A f \in heap' : ~OutRanks(f, e)}

\* updateSoonestTime up to its timerfd_settime, which is a step of its own.
UpdateSoonestTime(prior) ==
  IF top' # prior /\ top' = NoTimer
  THEN polled' = FALSE /\ task' = [Idle EXCEPT !.pc = "settime"]
  ELSE IF top' # prior /\ (prior = NoTimer \/ OutRanks(top', prior))
  THEN polled' = TRUE /\ task' = [Idle EXCEPT !.pc = "settime"]
  ELSE task' = Idle /\ UNCHANGED polled

-----------------------------------------------------------------------------
\* LocTimer::stop with mTimer set: destroyLocked unlinks the delegate and, the
\* first time, posts its removal.
StopTimer(c) ==
  LET d == mTimer[c] IN
    /\ mTimer' = [mTimer EXCEPT ![c] = NoTimer]
    /\ delegate' = [delegate EXCEPT ![d].client = NoClient]
    /\ queue' = IF Linked(d) THEN Append(queue, Msg("Remove", d)) ELSE queue

\* ~LocTimer stops the timer first.
DeleteTimer(c) ==
  /\ live' = live \ {c}
  /\ IF mTimer[c] # NoTimer THEN StopTimer(c) ELSE UNCHANGED <<mTimer, delegate, queue>>

Proc(type) ==
  /\ task.pc = "recv"
  /\ queue # <<>> /\ Head(queue).type = type
  /\ queue' = Tail(queue)

-----------------------------------------------------------------------------
(* Client threads                                                          *)

\* LocTimer::start; loc_timer_start makes the wrapper first.
Start(c) ==
  /\ c \in Wrappers <=> c \notin live
  /\ mTimer[c] = NoTimer
  /\ \E d \in Delegates \ Allocated, delay \in Delays :
       /\ now + delay <= MaxTime
       /\ delegate' = [delegate EXCEPT ![d] = [client |-> c, time |-> now + delay]]
       /\ mTimer' = [mTimer EXCEPT ![c] = d]
       /\ queue' = Append(queue, Msg("Push", d))
  /\ live' = live \cup {c}
  /\ UNCHANGED <<now, heapVars, fdVars, task, poller>>

\* LocTimer::stop
Stop(c) ==
  /\ c \in live \ Wrappers
  /\ mTimer[c] # NoTimer
  /\ StopTimer(c)
  /\ UNCHANGED <<now, live, heapVars, fdVars, task, poller>>

\* ~LocTimer on a client's thread: loc_timer_stop of a wrapper, or the end of
\* any other LocTimer.
Destroy(c) ==
  /\ OthersDelete
  /\ c \in live
  /\ DeleteTimer(c)
  /\ UNCHANGED <<now, heapVars, fdVars, task, poller>>

-----------------------------------------------------------------------------
(* The MsgTask thread                                                      *)

ProcPush ==
  /\ Proc("Push")
  /\ PushOnHeap(Head(queue).timer)
  /\ UpdateSoonestTime(top)
  /\ UNCHANGED <<now, clientVars, delegate, armed, poller>>

\* The fd is set anew only if the delegate was on the heap and was its top;
\* the delegate is deleted here, and only here.
ProcRemove ==
  /\ Proc("Remove")
  /\ LET d == Head(queue).timer IN
       /\ TakeOffHeap(d)
       /\ IF d = top THEN UpdateSoonestTime(NoTimer)
          ELSE task' = Idle /\ UNCHANGED polled
       /\ delegate' = [delegate EXCEPT ![d] = Free]
  /\ UNCHANGED <<now, clientVars, armed, poller>>

\* MsgTimerExpire::proc pops the first delegate whatever its time is.
ProcExpire ==
  /\ Proc("Expire")
  /\ IF top # NoTimer
     THEN /\ TakeOffHeap(top)
          /\ task' = [pc |-> "read", timer |-> top, client |-> NoClient, asOf |-> now]
          /\ UNCHANGED polled
     ELSE UNCHANGED heapVars /\ UpdateSoonestTime(NoTimer)
  /\ UNCHANGED <<now, clientVars, delegate, armed, poller>>

\* LocTimerDelegate::expire copies mClient without the lock.
ReadClient ==
  /\ task.pc = "read"
  /\ task' = [task EXCEPT !.pc = "stop", !.client = delegate[task.timer].client]
  /\ UNCHANGED <<now, clientVars, delegate, heapVars, fdVars, queue, poller>>

\* client->stop().  On a deleted object the outcome taken is that of memory
\* which still reads mTimer NULL.
StopClient ==
  /\ task.pc = "stop"
  /\ IF task.client \in live /\ mTimer[task.client] # NoTimer
     THEN StopTimer(task.client) /\ task' = [task EXCEPT !.pc = "call"]
     ELSE task' = [task EXCEPT !.pc = "next"] /\ UNCHANGED <<mTimer, delegate, queue>>
  /\ UNCHANGED <<now, live, heapVars, fdVars, poller>>

\* client->timeOutCallback(); a wrapper destroys itself after its callback,
\* unless its fields say that it is destroyed already.
CallBack ==
  /\ task.pc = "call"
  /\ IF task.client \in Wrappers \cap live
     THEN DeleteTimer(task.client)
     ELSE UNCHANGED <<live, mTimer, delegate, queue>>
  /\ task' = [task EXCEPT !.pc = "next"]
  /\ UNCHANGED <<now, heapVars, fdVars, poller>>

\* popIfOutRanks: any other delegate that is not later than now (as read when
\* the message was taken); then the fd is set for the one left on top.
PopNext ==
  /\ task.pc = "next"
  /\ IF top # NoTimer /\ ~(Sec(task.asOf) < Sec(delegate[top].time))
     THEN /\ TakeOffHeap(top)
          /\ task' = [task EXCEPT !.pc = "read", !.timer = top, !.client = NoClient]
          /\ UNCHANGED polled
     ELSE UNCHANGED heapVars /\ UpdateSoonestTime(NoTimer)
  /\ UNCHANGED <<now, clientVars, delegate, armed, queue, poller>>

\* timerfd_settime at the end of updateSoonestTime
SetTime ==
  /\ task.pc = "settime"
  /\ armed' = IF top = NoTimer THEN 0 ELSE delegate[top].time
  /\ task' = Idle
  /\ UNCHANGED <<now, clientVars, delegate, heapVars, polled, queue, poller>>

MsgTask ==
  \/ ProcPush \/ ProcRemove \/ ProcExpire
  \/ ReadClient \/ StopClient \/ CallBack \/ PopNext \/ SetTime

-----------------------------------------------------------------------------
(* The poll thread                                                         *)

\* epoll_wait returns; then LocTimerContainer::expire
Wake ==
  /\ poller = "wait" /\ polled /\ Readable
  /\ poller' = "disarm"
  /\ UNCHANGED <<now, clientVars, delegate, heapVars, fdVars, queue, task>>

Disarm ==
  /\ poller = "disarm" /\ poller' = "unpoll"
  /\ armed' = 0
  /\ UNCHANGED <<now, clientVars, delegate, heapVars, polled, queue, task>>

Unpoll ==
  /\ poller = "unpoll" /\ poller' = "post"
  /\ polled' = FALSE
  /\ UNCHANGED <<now, clientVars, delegate, heapVars, armed, queue, task>>

PostExpire ==
  /\ poller = "post" /\ poller' = "wait"
  /\ queue' = Append(queue, Msg("Expire", NoTimer))
  /\ UNCHANGED <<now, clientVars, delegate, heapVars, fdVars, task>>

PollThread == Wake \/ Disarm \/ Unpoll \/ PostExpire

-----------------------------------------------------------------------------
Tick ==
  /\ now < MaxTime
  /\ now' = now + 1
  /\ UNCHANGED <<clientVars, delegate, heapVars, fdVars, queue, task, poller>>

Next ==
  \/ \E c \in Clients : Start(c) \/ Stop(c) \/ Destroy(c)
  \/ MsgTask
  \/ PollThread
  \/ Tick

Spec == Init /\ [][Next]_vars

\* Both threads are scheduled and the clock runs; clients need not do anything.
FairSpec == Spec /\ WF_vars(MsgTask) /\ WF_vars(PollThread) /\ WF_vars(Tick)

-----------------------------------------------------------------------------
(* Properties                                                              *)

\* Each variable has its type.
TypeOK ==
  /\ now \in 1..MaxTime
  /\ live \subseteq Clients
  /\ mTimer \in [Clients -> Delegates \cup {NoTimer}]
  /\ delegate \in [Delegates -> [client : Clients \cup {NoClient}, time : 0..MaxTime]]
  /\ heap \subseteq Delegates
  /\ top \in Delegates \cup {NoTimer}
  /\ armed \in 0..MaxTime
  /\ polled \in BOOLEAN
  /\ queue \in Seq([type : {"Push", "Remove", "Expire"}, timer : Delegates \cup {NoTimer}])
  /\ task \in [pc : {"recv", "read", "stop", "call", "next", "settime"},
               timer : Delegates \cup {NoTimer},
               client : Clients \cup {NoClient}, asOf : 0..MaxTime]
  /\ poller \in {"wait", "disarm", "unpoll", "post"}

Queued(type, d) == \E i \in 1..Len(queue) : queue[i] = Msg(type, d)

\* An Expire is being worked on, or is certain to be.
ExpireComing ==
  \/ poller # "wait"
  \/ Queued("Expire", NoTimer)
  \/ task.pc \in {"read", "stop", "call", "next"}

\* The two threads that write the fd never leave it unset: while a delegate is
\* on the heap the fd is polled and armed no later (in seconds) than the
\* soonest delegate, unless the MsgTask is about to set it or an Expire, which
\* ends in setting it, is coming.
SoonestIsArmed ==
  heap # {} =>
    \/ ExpireComing
    \/ /\ polled
       /\ \/ task.pc = "settime"
          \/ /\ armed # 0
             /\ \A d \in heap : Sec(armed) <= Sec(delegate[d].time)

\* Nobody holds a delegate that was deleted: not the heap, a client, a message
\* in the queue or the MsgTask inside an Expire; a queued Remove is its last.
NoDanglingDelegate ==
  /\ heap \subseteq Allocated
  /\ \A c \in Clients : mTimer[c] # NoTimer => mTimer[c] \in Allocated /\ delegate[mTimer[c]].client = c
  /\ \A i \in 1..Len(queue) : queue[i].timer # NoTimer => queue[i].timer \in Allocated
  /\ \A i, j \in 1..Len(queue) :
       queue[i].type = "Remove" /\ queue[j].timer = queue[i].timer => j <= i
  /\ task.pc \in {"read", "stop", "call", "next"} => task.timer \in Allocated

\* A timer that was started runs out or is stopped: no disarming of the fd by
\* the poll thread loses it.
TimerRunsOut ==
  \A c \in Clients, d \in Delegates : mTimer[c] = d ~> mTimer[c] # d
==============================================================================
