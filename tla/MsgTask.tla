------------------------------- MODULE MsgTask -------------------------------
(***************************************************************************)
(* MsgTask of gps/utils: a queue of messages (msg_q over linked_list) and  *)
(* the LocThread that handles them; every other component posts its work   *)
(* to one.  The module follows one MsgTask from its constructor to its     *)
(* deletion: clients and the handled messages themselves send messages,    *)
(* the thread receives and handles them, and the owner may destroy() it,   *)
(* after which clients leave it alone.                                     *)
(*                                                                         *)
(* The queue's mutex makes each msg_q operation one step, but for the wait *)
(* on its condition variable.  After destroy() has unblocked the queue the *)
(* thread may delete the MsgTask while destroy() still reads mThread; that *)
(* read is taken to find the old value.                                    *)
(***************************************************************************)
EXTENDS LocThread, Sequences

CONSTANT Messages

VARIABLES
  exists,     \* whether the MsgTask object, with its queue, does
  mThread,    \* MsgTask::mThread, whether it is set
  msg_list,   \* the linked list of the queue, oldest first
  unblocked,  \* whether the queue is
  receiver,   \* where the thread is in run(): "out", "waits" on the condition
              \* variable, "woken" from it, or "proc"
  hand,       \* the message in hand: <<>> or <<message>>
  message     \* what became of each message

queue == <<msg_list, unblocked>>
msgTaskVars == <<locThread, exists, mThread, queue, receiver, hand, message>>

TaskInit ==
  /\ \E joinable \in BOOLEAN : LocThreadInit(joinable)
  /\ exists = TRUE
  /\ mThread = TRUE
  /\ msg_list = <<>> /\ unblocked = FALSE
  /\ receiver = "out" /\ hand = <<>>
  /\ message = [m \in Messages |-> "unsent"]

-----------------------------------------------------------------------------
(* Faults                                                                  *)

SignalLost ==               \* pthread_cond_signal before the wait
  UNCHANGED receiver

SndInFront(m) ==          \* the newest message in front
  /\ message[m] = "unsent"
  /\ msg_list' = <<m>> \o msg_list
  /\ message' = [message EXCEPT ![m] = "queued"]
  /\ receiver' = IF receiver = "waits" THEN "woken" ELSE receiver

ReadThreadDeletes ==        \* destroy() always deletes the MsgTask
  /\ owner \in {"idle", "failed"} /\ unblocked
  /\ owner' = IF mThread THEN "byes" ELSE "done"
  /\ exists' = FALSE /\ mThread' = FALSE
  /\ msg_list' = <<>>
  /\ message' = [m \in Messages |-> IF message[m] = "queued" THEN "flushed" ELSE message[m]]
  /\ UNCHANGED <<delegate, thread, runnable, unblocked, receiver, hand>>

-----------------------------------------------------------------------------
(* The queue: msg_q.c                                                      *)

\* pthread_cond_signal or _broadcast: there is one receiver
Signal == receiver' = IF receiver = "waits" THEN "woken" ELSE receiver

\* msg_q_snd: an unblocked queue refuses the message, and sendMsg does not look
\* at the result.
Snd(m) ==
  /\ message[m] = "unsent"
  /\ IF unblocked
     THEN message' = [message EXCEPT ![m] = "refused"] /\ UNCHANGED <<msg_list, receiver>>
     ELSE /\ msg_list' = Append(msg_list, m)
          /\ message' = [message EXCEPT ![m] = "queued"]
          /\ Signal

\* linked_list_remove for msg_q_rcv
Remove ==
  /\ msg_list # <<>>
  /\ hand' = <<Head(msg_list)>> /\ msg_list' = Tail(msg_list)
  /\ message' = [message EXCEPT ![Head(msg_list)] = "handled"]
  /\ receiver' = "proc"
  /\ UNCHANGED locThread

\* ~MsgTask: msg_q_flush deletes the messages left, msg_q_destroy the queue.
Delete ==
  /\ exists' = FALSE
  /\ msg_list' = <<>>
  /\ message' = [m \in Messages |->
                   IF message[m] = "queued" THEN "flushed" ELSE message[m]]

-----------------------------------------------------------------------------
(* The clients and the owner                                               *)

Send(m) ==
  /\ owner \in {"idle", "failed"} /\ ~unblocked
  /\ Snd(m)
  /\ UNCHANGED <<locThread, exists, mThread, unblocked, hand>>

\* The constructor: a LocThread that did not start is deleted.
Constructor ==
  /\ Create \/ Check \/ Reject
  /\ mThread' = (owner' # "failed")
  /\ UNCHANGED <<exists, queue, receiver, hand, message>>

\* destroy() begins with msg_q_unblock.
Unblock ==
  /\ owner \in {"idle", "failed"} /\ ~unblocked
  /\ unblocked' = TRUE
  /\ Signal
  /\ UNCHANGED <<locThread, exists, mThread, msg_list, hand, message>>

\* if (mThread) ... delete thread; else delete this;
ReadThread ==
  /\ owner \in {"idle", "failed"} /\ unblocked
  /\ IF mThread
     THEN owner' = "byes" /\ UNCHANGED <<exists, msg_list, message>>
     ELSE owner' = "done" /\ Delete
  /\ mThread' = FALSE
  /\ UNCHANGED <<delegate, thread, runnable, unblocked, receiver, hand>>

DeleteThread ==
  /\ Bye \/ Join \/ Release
  /\ UNCHANGED <<exists, mThread, queue, receiver, hand, message>>

-----------------------------------------------------------------------------
(* The thread                                                              *)

\* threadMain outside of run()
Main ==
  /\ Begin \/ Test \/ Clear \/ LetGo
  /\ UNCHANGED <<exists, mThread, queue, receiver, hand, message>>

\* msg_q_rcv up to its wait
Rcv ==
  /\ thread = "runs" /\ receiver = "out"
  /\ \/ /\ unblocked /\ RunReturns(FALSE)
        /\ UNCHANGED <<msg_list, receiver, hand, message>>
     \/ /\ ~unblocked /\ Remove
     \/ /\ ~unblocked /\ msg_list = <<>>
        /\ receiver' = "waits"
        /\ UNCHANGED <<locThread, msg_list, hand, message>>
  /\ UNCHANGED <<exists, mThread, unblocked>>

\* The wait is over: the loop around it, and the removal after it.
Woken ==
  /\ receiver = "woken"
  /\ \/ Remove
     \/ /\ msg_list = <<>> /\ unblocked
        /\ receiver' = "out" /\ RunReturns(FALSE)
        /\ UNCHANGED <<msg_list, hand, message>>
     \/ /\ msg_list = <<>> /\ ~unblocked
        /\ receiver' = "waits"
        /\ UNCHANGED <<locThread, msg_list, hand, message>>
  /\ UNCHANGED <<exists, mThread, unblocked>>

\* A condition variable may wake its waiter for no reason.
WakeTaskForNothing ==
  /\ receiver = "waits" /\ receiver' = "woken"
  /\ UNCHANGED <<locThread, exists, mThread, queue, hand, message>>

\* msg->proc() may send messages to its own task.
SendFromProc(m) ==
  /\ receiver = "proc"
  /\ Snd(m)
  /\ UNCHANGED <<locThread, exists, mThread, unblocked, hand>>

ProcEnds ==
  /\ receiver = "proc" /\ receiver' = "out"
  /\ hand' = <<>>
  /\ RunReturns(TRUE)
  /\ UNCHANGED <<exists, mThread, queue, message>>

\* delete runnable: ~MsgTask on the thread itself
DeleteTask ==
  /\ DeleteRunnable
  /\ Delete
  /\ UNCHANGED <<mThread, unblocked, receiver, hand>>

Thread == Main \/ Rcv \/ Woken \/ ProcEnds \/ DeleteTask

-----------------------------------------------------------------------------
TaskNext ==
  \/ \E m \in Messages : Send(m) \/ SendFromProc(m)
  \/ Constructor \/ Unblock \/ ReadThread \/ DeleteThread
  \/ Thread \/ WakeTaskForNothing

TaskSpec == TaskInit /\ [][TaskNext]_msgTaskVars

\* The thread is scheduled, and destroy() goes on once it was called.
TaskFairSpec == TaskSpec /\ WF_msgTaskVars(Thread) /\ WF_msgTaskVars(Constructor \/ ReadThread \/ DeleteThread)

-----------------------------------------------------------------------------
(* Properties                                                              *)

\* Each variable has its type.
TaskTypeOK ==
  /\ delegate \in Delegate
  /\ owner \in OwnerAt
  /\ thread \in ThreadAt
  /\ runnable \in BOOLEAN
  /\ exists \in BOOLEAN
  /\ mThread \in BOOLEAN
  /\ msg_list \in Seq(Messages)
  /\ unblocked \in BOOLEAN
  /\ receiver \in {"out", "waits", "woken", "proc"}
  /\ hand \in {<<>>} \cup {<<m>> : m \in Messages}
  /\ message \in [Messages -> {"unsent", "queued", "refused", "handled", "flushed"}]

\* Messages are handled one at a time in the order they were sent, and none
\* is handled once the rest was discarded.
Box == INSTANCE Mailbox WITH box <- msg_list, open <- ~unblocked
ImplementsMailbox == Box!Spec

\* The thread never waits for, removes or handles a message of a MsgTask that
\* was deleted, and deletes it only when it is done with the queue.
QueueOutlivesReceiver == thread \in {"tests", "runs", "clears", "deletes"} => exists

\* When destroy() and the thread are both over, a thread that had its runnable
\* has left nothing behind, nor has a MsgTask that never had a thread.
Over == owner = "done" /\ thread \in {"none", "ended"}
NothingLeft ==
  Over /\ (runnable \/ thread = "none") =>
    ~exists /\ ~delegate.alive /\ \A m \in Messages : message[m] # "queued"

\* The delegate is there for as long as owner or thread need it, and everything
\* goes with the last of them, but for the MsgTask of a joinable thread whose
\* owner took the runnable away before it looked: the code never deletes that.
DeletedInTime == DelegateOutlivesUsers /\ NothingLeft

\* A message that was queued is handled or, at the end, deleted, if there is a
\* thread and it had its runnable.
EveryMessageEnds ==
  \A m \in Messages : message[m] = "queued" ~>
    message[m] # "queued" \/ owner = "failed" \/ (thread = "ended" /\ ~runnable)

\* destroy() returns: the thread it joins is not left waiting for a message.
DestroyReturns == unblocked ~> owner = "done"
==============================================================================
