------------------------------- MODULE MCThreads -------------------------------
(***************************************************************************)
(* The daemon connection and the MsgTask, which share nothing, in one      *)
(* instance for TLC: the first state says which of them a behaviour is     *)
(* about, and the other stays as it is at first.                           *)
(***************************************************************************)
EXTENDS DmnConn, MsgTask

VARIABLE part      \* "dmn" or "task"

threadsVars == <<part, vars, msgTaskVars>>

ThreadsInit ==
  /\ part \in {"dmn", "task"}
  /\ Init /\ TaskInit
  /\ part = "dmn" => delegate.mJoinable

ThreadsNext ==
  \/ part = "dmn" /\ Next /\ UNCHANGED <<part, msgTaskVars>>
  \/ part = "task" /\ TaskNext /\ UNCHANGED <<part, vars>>

TaskOnly(A) == part = "task" /\ A /\ UNCHANGED <<part, vars>>

\* None of what Fairness is about can happen in a connection that stays as it
\* is at first.
ThreadsSpec ==
  /\ ThreadsInit /\ [][ThreadsNext]_threadsVars
  /\ Fairness
  /\ WF_threadsVars(TaskOnly(Thread))
  /\ WF_threadsVars(TaskOnly(Constructor \/ ReadThread \/ DeleteThread))
================================================================================
