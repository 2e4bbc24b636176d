------------------------------ MODULE LocThread ------------------------------
(***************************************************************************)
(* LocThread of gps/utils: a thread that runs a LocRunnable until it is    *)
(* told to stop.  The owner's LocThread and the spawned thread share a     *)
(* LocThreadDelegate, and whoever lets go of it last deletes it.           *)
(*                                                                         *)
(* mRunnable and mJoinable are read and written by both threads without a  *)
(* lock, so every such access is a step of its own.  The module has the    *)
(* steps of both threads for one delegate; what run() does, when the owner *)
(* deletes its LocThread, and what it is to delete the runnable, is for    *)
(* the module that uses it (MsgTask.tla).  prerun() and postrun() have no  *)
(* effect on any of this.  Nobody calls LocThread::stop() in the program.  *)
(***************************************************************************)
EXTENDS Naturals

CONSTANT CreateFails   \* whether pthread_create may fail

VARIABLES
  delegate,   \* the LocThreadDelegate; mRunnable is whether it is set
  owner,      \* where the owner's thread is in start() or ~LocThread
  thread,     \* where the spawned thread is in threadMain
  runnable    \* its local variable of that name, whether it is set

locThread == <<delegate, owner, thread, runnable>>

Delegate == [alive : BOOLEAN, mRunnable : BOOLEAN, mJoinable : BOOLEAN, mRefCount : 0..2]
OwnerAt == {"creates", "checks", "rejects", "idle", "failed",
            "byes", "joins", "releases", "done"}
ThreadAt == {"none", "begins", "tests", "runs", "clears", "deletes", "destroys", "ended"}

LocThreadInit(joinable) ==
  /\ delegate = [alive |-> FALSE, mRunnable |-> FALSE, mJoinable |-> joinable, mRefCount |-> 0]
  /\ owner = "creates"
  /\ thread = "none"
  /\ runnable = FALSE

-----------------------------------------------------------------------------
(* Faults: variants of the methods below with a plausible bug, standing in *)
(* for them when the project checks that a property can fail.              *)

DestroyAlways ==            \* every destroy() deletes
  delegate' = [delegate EXCEPT !.alive = FALSE, !.mRefCount = @ - 1]

-----------------------------------------------------------------------------
\* LocThreadDelegate::destroy: the last one to let go deletes the object.
Destroy ==
  delegate' = [delegate EXCEPT !.mRefCount = @ - 1, !.alive = delegate.mRefCount > 1]

-----------------------------------------------------------------------------
(* The owner: LocThread::start                                             *)

\* The constructor sets everything for success before pthread_create, since
\* the thread may run at once; mJoinable holds what the owner asked for.
Create ==
  /\ owner = "creates"
  /\ \/ /\ delegate' = [delegate EXCEPT !.alive = TRUE, !.mRunnable = TRUE, !.mRefCount = 2]
        /\ thread' = "begins"
     \/ /\ CreateFails
        /\ delegate' = [delegate EXCEPT !.alive = TRUE, !.mJoinable = FALSE, !.mRefCount = 1]
        /\ UNCHANGED thread
  /\ owner' = "checks"
  /\ UNCHANGED runnable

\* create() takes a delegate whose mRunnable is NULL for one without a thread.
Check ==
  /\ owner = "checks"
  /\ owner' = IF delegate.mRunnable THEN "idle" ELSE "rejects"
  /\ UNCHANGED <<delegate, thread, runnable>>

Reject ==
  /\ owner = "rejects"
  /\ Destroy
  /\ owner' = "failed"
  /\ UNCHANGED <<thread, runnable>>

-----------------------------------------------------------------------------
(* The owner: ~LocThread                                                   *)

\* bye(): a joinable thread is stopped, a detached one is left alone.
Bye ==
  /\ owner = "byes"
  /\ IF delegate.mJoinable
     THEN delegate' = [delegate EXCEPT !.mRunnable = FALSE, !.mJoinable = FALSE] /\ owner' = "joins"
     ELSE UNCHANGED delegate /\ owner' = "releases"
  /\ UNCHANGED <<thread, runnable>>

Join ==
  /\ owner = "joins" /\ thread = "ended"
  /\ owner' = "releases"
  /\ UNCHANGED <<delegate, thread, runnable>>

Release ==
  /\ owner = "releases"
  /\ Destroy
  /\ owner' = "done"
  /\ UNCHANGED <<thread, runnable>>

-----------------------------------------------------------------------------
(* The spawned thread: threadMain                                          *)

\* A thread that finds mRunnable NULL does not have the runnable to delete.
Begin ==
  /\ thread = "begins"
  /\ runnable' = delegate.mRunnable
  /\ thread' = IF runnable' THEN "tests" ELSE "destroys"
  /\ UNCHANGED <<delegate, owner>>

\* while (isRunning() && run())
Test ==
  /\ thread = "tests"
  /\ thread' = IF delegate.mRunnable THEN "runs" ELSE "clears"
  /\ UNCHANGED <<delegate, owner, runnable>>

RunReturns(goOn) ==
  /\ thread' = IF goOn THEN "tests" ELSE "clears"
  /\ UNCHANGED <<delegate, owner, runnable>>

Clear ==
  /\ thread = "clears" /\ thread' = "deletes"
  /\ delegate' = [delegate EXCEPT !.mRunnable = FALSE]
  /\ UNCHANGED <<owner, runnable>>

\* delete runnable; its destructor is given by the module that uses this one
DeleteRunnable ==
  /\ thread = "deletes" /\ thread' = "destroys"
  /\ UNCHANGED <<delegate, owner, runnable>>

LetGo ==
  /\ thread = "destroys" /\ thread' = "ended"
  /\ Destroy
  /\ UNCHANGED <<owner, runnable>>

-----------------------------------------------------------------------------
(* Properties                                                              *)

\* The two that may still use the delegate.
OwnerHolds == owner \in {"checks", "rejects", "idle", "byes", "joins", "releases"}
ThreadHolds == thread \in {"begins", "tests", "runs", "clears", "deletes", "destroys"}

\* "when it is a detached thread, the client thread and the spawned thread can
\* both try to destroy() asynchronously.  And we delete this obj when
\* mRefCount becomes 0" (LocThread.cpp): the delegate exists exactly as long
\* as one of the two may use it, and its count says how many they are.
DelegateOutlivesUsers ==
  /\ delegate.mRefCount = (IF OwnerHolds THEN 1 ELSE 0) + (IF ThreadHolds THEN 1 ELSE 0)
  /\ delegate.alive <=> OwnerHolds \/ ThreadHolds
==============================================================================
