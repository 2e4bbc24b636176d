---------------------------- MODULE ThreadsProofs ----------------------------
(***************************************************************************)
(* Theorems about the two components of the run threads, which share       *)
(* nothing: the daemon connection, for any set of daemons, any size of the *)
(* pipes and any number of requests, and the MsgTask, for any set of       *)
(* messages, whether or not threads can be created.                        *)
(***************************************************************************)
EXTENDS DmnConn, MsgTask, FiniteSetTheorems, SequenceTheorems, TLAPS

-----------------------------------------------------------------------------
(* The daemon connection                                                   *)

SenderNames == {"QUIPC", "MSAPM", "MSAPU", "GPSONE_DAEMON"}
DaemonMessages ==
  [ctrl_type : {"IF_REQUEST", "IF_RELEASE"}, sender : SenderNames \cup {"MODEM"}, fits : BOOLEAN]
Requests == {m \in DaemonMessages : m.sender \in Senders}
Results == {"REQUEST_SUCCESS", "FAILURE", "RELEASE_SUCCESS"}
Answers == [sender : Senders, result : Results]

\* TypeOK in parts, with what the sequences hold.
Threads ==
  /\ launcher \in {"idle", "created", "waits", "returned"}
  /\ thelper \in [ready : BOOLEAN, exit : BOOLEAN]
  /\ server \in {"none", "inits", "readies", "receives", "handles", "exits", "ended"}
  /\ failed \in BOOLEAN /\ stray \in BOOLEAN
Tables ==
  /\ msgqid \in [Queues -> {"unset", "open", "failed", "closed"}]
  /\ nif \in [Senders -> {"off", "asked", "on", "closing"}]
  /\ daemon \in [Senders -> {"idle", "asks", "holds", "leaves"}]
Pipes ==
  /\ pipe \in Seq(DaemonMessages) /\ Len(pipe) <= PipeSize
  /\ buffer \in Seq(DaemonMessages) /\ Len(buffer) <= 1
Tasks ==
  /\ posted \in Seq(Requests)
  /\ reply \in Seq(Answers) /\ Len(reply) <= 1
  /\ answers \in [Senders -> Seq(Results)]

\* A launch that waits has not missed the signal: it is still to come, unless
\* there is no server thread to give it (thelper_signal_wait looks at
\* thread_ready under the lock that thelper_signal_ready sets it under).
SignalStillComes == launcher = "waits" => server \in {"none", "inits", "readies"}

\* Where the server is decides what the descriptors are: all are set when it
\* takes messages, and they are closed only when reading failed.
ServerKnows ==
  /\ launcher = "idle" => server = "none"
  /\ server = "handles" <=> buffer # <<>>
  /\ server \in {"none", "inits"} <=> msgqid["LOC_API"] = "unset"
  /\ \A q \in Queues : msgqid[q] = "unset" <=> msgqid["LOC_API"] = "unset"
  /\ \A q \in Queues : msgqid[q] = "closed" => failed
  /\ server \in {"exits", "ended"} => failed
  /\ thelper.ready <=> server \in {"receives", "handles", "exits", "ended"}
  /\ SignalStillComes

\* Nothing is asked or answered before the descriptors are set.
NothingEarly ==
  server \in {"none", "inits"} =>
    /\ pipe = <<>> /\ posted = <<>> /\ reply = <<>>
    /\ nif = [s \in Senders |-> "off"]
    /\ ~stray

ConnIInv == Threads /\ Tables /\ Pipes /\ Tasks /\ ServerKnows /\ NothingEarly /\ AnswersReachPipes

-----------------------------------------------------------------------------
LEMMA FirstIn == ASSUME NEW S, NEW q \in Seq(S), q # <<>> PROVE q[1] \in S
  OBVIOUS

\* The program starts in ConnIInv.
LEMMA InitConnIInv == Init => ConnIInv
<1> SUFFICES ASSUME Init PROVE ConnIInv
  OBVIOUS
<1>1. Threads
  BY DEF Init, Threads
<1>2. Tables
  BY DEF Init, Tables
<1>3. Pipes
  <2>1. pipe \in Seq(DaemonMessages) /\ Len(pipe) <= PipeSize
    BY DmnAssumption DEF Init, DmnAssumption
  <2>2. buffer \in Seq(DaemonMessages) /\ Len(buffer) <= 1
    BY DEF Init
  <2> QED
    BY <2>1, <2>2 DEF Pipes
<1>4. Tasks
  <2>1. posted \in Seq(Requests)
    BY DEF Init
  <2>2. reply \in Seq(Answers) /\ Len(reply) <= 1
    BY DEF Init
  <2>3. answers \in [Senders -> Seq(Results)]
    BY DEF Init
  <2> QED
    BY <2>1, <2>2, <2>3 DEF Tasks
<1>5. ServerKnows
  BY DEF Init, ServerKnows, SignalStillComes, Queues
<1>6. NothingEarly /\ AnswersReachPipes
  BY DEF Init, NothingEarly, AnswersReachPipes
<1> QED
  BY <1>1, <1>2, <1>3, <1>4, <1>5, <1>6 DEF ConnIInv

\* A lemma for each action, with a step for each part of ConnIInv.

LEMMA LaunchIInv == ASSUME ConnIInv, Launch PROVE ConnIInv'
<1> USE DmnAssumption DEF ConnIInv, Launch, helperVars, taskVars
<1>1. Threads' /\ Tables' /\ Pipes' /\ Tasks'
  BY DEF Threads, Tables, Pipes, Tasks, Queues
<1>2. ServerKnows' /\ NothingEarly' /\ AnswersReachPipes'
  BY DEF Threads, Tables, Pipes, ServerKnows, SignalStillComes, NothingEarly, AnswersReachPipes, Queues
<1> QED
  BY <1>1, <1>2

LEMMA SignalWaitIInv == ASSUME ConnIInv, SignalWait PROVE ConnIInv'
<1> USE DmnAssumption DEF ConnIInv, SignalWait, helperVars, taskVars
<1>1. Threads' /\ Tables' /\ Pipes' /\ Tasks'
  BY DEF Threads, Tables, Pipes, Tasks, Queues
<1>2. ServerKnows' /\ NothingEarly' /\ AnswersReachPipes'
  BY DEF Threads, Tables, Pipes, ServerKnows, SignalStillComes, NothingEarly, AnswersReachPipes, Queues
<1> QED
  BY <1>1, <1>2

LEMMA WakeForNothingIInv == ASSUME ConnIInv, WakeForNothing PROVE ConnIInv'
<1> USE DmnAssumption DEF ConnIInv, WakeForNothing, helperVars, taskVars
<1>1. Threads' /\ Tables' /\ Pipes' /\ Tasks'
  BY DEF Threads, Tables, Pipes, Tasks, Queues
<1>2. ServerKnows' /\ NothingEarly' /\ AnswersReachPipes'
  BY DEF Threads, Tables, Pipes, ServerKnows, SignalStillComes, NothingEarly, AnswersReachPipes, Queues
<1> QED
  BY <1>1, <1>2

LEMMA ProcInitIInv == ASSUME ConnIInv, ProcInit PROVE ConnIInv'
<1> USE DmnAssumption DEF ConnIInv, ProcInit, helperVars, taskVars
<1>1. Threads' /\ Tables' /\ Pipes' /\ Tasks'
  BY DEF Threads, Tables, Pipes, Tasks, Queues
<1>2. ServerKnows' /\ NothingEarly' /\ AnswersReachPipes'
  BY DEF Threads, Tables, Pipes, ServerKnows, SignalStillComes, NothingEarly, AnswersReachPipes, Queues
<1> QED
  BY <1>1, <1>2

LEMMA SignalReadyIInv == ASSUME ConnIInv, SignalReady PROVE ConnIInv'
<1> USE DmnAssumption DEF ConnIInv, SignalReady, helperVars, taskVars
<1>1. Threads' /\ Tables' /\ Pipes' /\ Tasks'
  BY DEF Threads, Tables, Pipes, Tasks, Queues
<1>2. ServerKnows' /\ NothingEarly' /\ AnswersReachPipes'
  BY DEF Threads, Tables, Pipes, ServerKnows, SignalStillComes, NothingEarly, AnswersReachPipes, Queues
<1> QED
  BY <1>1, <1>2

LEMMA ReceiveIInv == ASSUME ConnIInv, Receive PROVE ConnIInv'
<1> USE DmnAssumption DEF ConnIInv, Receive, helperVars, taskVars
<1>1. Threads' /\ Tables' /\ Pipes' /\ Tasks'
  BY DEF Threads, Tables, Pipes, Tasks, Queues
<1>2. ServerKnows' /\ NothingEarly' /\ AnswersReachPipes'
  BY DEF Threads, Tables, Pipes, ServerKnows, SignalStillComes, NothingEarly, AnswersReachPipes, Queues
<1> QED
  BY <1>1, <1>2

LEMMA ReceiveFailsIInv == ASSUME ConnIInv, ReceiveFails PROVE ConnIInv'
<1> USE DmnAssumption DEF ConnIInv, ReceiveFails, ReceiveReturnsError, helperVars, taskVars
<1>1. Threads' /\ Tables' /\ Pipes' /\ Tasks'
  BY DEF Threads, Tables, Pipes, Tasks, Queues
<1>2. ServerKnows' /\ NothingEarly' /\ AnswersReachPipes'
  BY DEF Threads, Tables, Pipes, ServerKnows, SignalStillComes, NothingEarly, AnswersReachPipes, Queues
<1> QED
  BY <1>1, <1>2

LEMMA ReadInterruptedIInv == ASSUME ConnIInv, ReadInterrupted PROVE ConnIInv'
<1> USE DmnAssumption DEF ConnIInv, ReadInterrupted, ReceiveReturnsError, helperVars, taskVars
<1>1. Threads' /\ Tables' /\ Pipes' /\ Tasks'
  BY DEF Threads, Tables, Pipes, Tasks, Queues
<1>2. ServerKnows' /\ NothingEarly' /\ AnswersReachPipes'
  BY DEF Threads, Tables, Pipes, ServerKnows, SignalStillComes, NothingEarly, AnswersReachPipes, Queues
<1> QED
  BY <1>1, <1>2

LEMMA HandleIInv == ASSUME ConnIInv, Handle PROVE ConnIInv'
<1> USE DmnAssumption DEF ConnIInv, Handle, AfterHandle, Post, Requests, helperVars, taskVars
<1>1. Threads' /\ Tables' /\ Pipes'
  BY DEF Threads, Tables, Pipes, Queues
<1>2. Tasks'
  <2>1. buffer[1] \in DaemonMessages
    BY DEF Threads, Pipes, ServerKnows
  <2>2. posted' \in Seq(Requests)
    <3>1. CASE buffer[1].sender \in Senders
      BY <2>1, <3>1, AppendProperties DEF Tasks
    <3>2. CASE buffer[1].sender \notin Senders
      BY <3>2 DEF Tasks
    <3> QED
      BY <3>1, <3>2
  <2> QED
    BY <2>2 DEF Tasks
<1>3. ServerKnows' /\ NothingEarly' /\ AnswersReachPipes'
  BY DEF Threads, Tables, Pipes, ServerKnows, SignalStillComes, NothingEarly, AnswersReachPipes, Queues
<1> QED
  BY <1>1, <1>2, <1>3

LEMMA ProcPostIInv == ASSUME ConnIInv, ProcPost PROVE ConnIInv'
<1> USE DmnAssumption DEF ConnIInv, ProcPost, helperVars, taskVars
<1>1. Threads' /\ Tables' /\ Pipes' /\ Tasks'
  BY DEF Threads, Tables, Pipes, Tasks, Queues
<1>2. ServerKnows' /\ NothingEarly' /\ AnswersReachPipes'
  BY DEF Threads, Tables, Pipes, ServerKnows, SignalStillComes, NothingEarly, AnswersReachPipes, Queues
<1> QED
  BY <1>1, <1>2

LEMMA TakePostedIInv == ASSUME ConnIInv, TakePosted PROVE ConnIInv'
<1> USE DmnAssumption DEF ConnIInv, TakePosted, Requests, helperVars, taskVars
<1>1. Threads' /\ Tables' /\ Pipes' /\ Tasks'
  BY DEF Threads, Tables, Pipes, Tasks, Queues
<1>2. ServerKnows' /\ NothingEarly' /\ AnswersReachPipes'
  BY DEF Threads, Tables, Pipes, ServerKnows, SignalStillComes, NothingEarly, AnswersReachPipes, Queues
<1> QED
  BY <1>1, <1>2

LEMMA DataConnIInv == ASSUME ConnIInv, DataConn PROVE ConnIInv'
<1> USE DmnAssumption DEF ConnIInv, DataConn, Write, Answers, helperVars, taskVars
<1>1. Threads' /\ Tables' /\ Pipes'
  BY DEF Threads, Tables, Pipes, Queues
<1>2. Tasks'
  <2>1. reply[1] \in Answers
    <3> HIDE DEF Answers
    <3> QED
      BY FirstIn DEF Tasks
  <2>2. answers' \in [Senders -> Seq(Results)]
    <3>1. CASE answers' = answers
      BY <3>1 DEF Tasks
    <3>2. CASE answers' = [answers EXCEPT ![reply[1].sender] = Append(@, reply[1].result)]
      <4>1. Append(answers[reply[1].sender], reply[1].result) \in Seq(Results)
        BY <2>1, AppendProperties DEF Tasks
      <4> QED
        BY <3>2, <4>1 DEF Tasks
    <3> QED
      BY <3>1, <3>2
  <2>3. reply' \in Seq(Answers) /\ Len(reply') <= 1
    OBVIOUS
  <2> QED
    BY <2>2, <2>3 DEF Tasks
<1>3. ServerKnows' /\ NothingEarly'
  BY DEF Threads, Tables, Pipes, ServerKnows, SignalStillComes, NothingEarly, Queues
<1>4. AnswersReachPipes'
  <2>1. reply[1].sender \in Queues
    <3>1. reply[1] \in Answers
      <4> HIDE DEF Answers
      <4> QED
        BY FirstIn DEF Tasks
    <3> QED
      BY <3>1 DEF Queues
  <2>2. msgqid[reply[1].sender] # "unset"
    BY <2>1 DEF Threads, ServerKnows, SignalStillComes, NothingEarly
  <2>3. msgqid[reply[1].sender] \in {"open", "failed", "closed"}
    BY <2>1, <2>2 DEF Tables
  <2> QED
    BY <2>1, <2>3 DEF ServerKnows, AnswersReachPipes
<1> QED
  BY <1>1, <1>2, <1>3, <1>4

LEMMA WritesOtherIInv == ASSUME ConnIInv, WritesOther PROVE ConnIInv'
<1> USE DmnAssumption DEF ConnIInv, WritesOther, WritePipe, Unsupported, TooLong, Message,
      DaemonMessages, helperVars, taskVars
<1>1. Threads' /\ Tables' /\ Tasks'
  BY DEF Threads, Tables, Tasks, Queues
<1>2. Pipes'
  <2>1. Unsupported \in DaemonMessages /\ TooLong \in DaemonMessages
    BY DEF SenderNames
  <2>2. PICK m \in DaemonMessages : WritePipe(m)
    BY <2>1
  <2>3. pipe' \in Seq(DaemonMessages) /\ Len(pipe') = Len(pipe) + 1
    BY <2>2, AppendProperties DEF Pipes
  <2>4. Len(pipe') <= PipeSize
    BY <2>2, <2>3 DEF Pipes, DmnAssumption
  <2> QED
    BY <2>2, <2>3, <2>4 DEF Pipes
<1>3. ServerKnows' /\ NothingEarly' /\ AnswersReachPipes'
  BY DEF Threads, Tables, Pipes, ServerKnows, SignalStillComes, NothingEarly, AnswersReachPipes, Queues
<1> QED
  BY <1>1, <1>2, <1>3

LEMMA GrantedIInv == ASSUME NEW s \in Senders, ConnIInv, Granted(s) PROVE ConnIInv'
<1> USE DmnAssumption DEF ConnIInv, Granted, NifBecomes, Reply, Answers, Results, helperVars, taskVars
<1>1. Threads' /\ Tables' /\ Pipes' /\ Tasks'
  BY DEF Threads, Tables, Pipes, Tasks, Queues
<1>2. ServerKnows' /\ NothingEarly' /\ AnswersReachPipes'
  BY DEF Threads, Tables, Pipes, ServerKnows, SignalStillComes, NothingEarly, AnswersReachPipes, Queues
<1> QED
  BY <1>1, <1>2

LEMMA DeniedIInv == ASSUME NEW s \in Senders, ConnIInv, Denied(s) PROVE ConnIInv'
<1> USE DmnAssumption DEF ConnIInv, Denied, NifBecomes, Reply, Answers, Results, helperVars, taskVars
<1>1. Threads' /\ Tables' /\ Pipes' /\ Tasks'
  BY DEF Threads, Tables, Pipes, Tasks, Queues
<1>2. ServerKnows' /\ NothingEarly' /\ AnswersReachPipes'
  BY DEF Threads, Tables, Pipes, ServerKnows, SignalStillComes, NothingEarly, AnswersReachPipes, Queues
<1> QED
  BY <1>1, <1>2

LEMMA LostIInv == ASSUME NEW s \in Senders, ConnIInv, Lost(s) PROVE ConnIInv'
<1> USE DmnAssumption DEF ConnIInv, Lost, NifBecomes, Reply, Answers, Results, helperVars, taskVars
<1>1. Threads' /\ Tables' /\ Pipes' /\ Tasks'
  BY DEF Threads, Tables, Pipes, Tasks, Queues
<1>2. ServerKnows' /\ NothingEarly' /\ AnswersReachPipes'
  BY DEF Threads, Tables, Pipes, ServerKnows, SignalStillComes, NothingEarly, AnswersReachPipes, Queues
<1> QED
  BY <1>1, <1>2

LEMMA ClosedIInv == ASSUME NEW s \in Senders, ConnIInv, Closed(s) PROVE ConnIInv'
<1> USE DmnAssumption DEF ConnIInv, Closed, NifBecomes, Reply, Answers, Results, helperVars, taskVars
<1>1. Threads' /\ Tables' /\ Pipes' /\ Tasks'
  BY DEF Threads, Tables, Pipes, Tasks, Queues
<1>2. ServerKnows' /\ NothingEarly' /\ AnswersReachPipes'
  BY DEF Threads, Tables, Pipes, ServerKnows, SignalStillComes, NothingEarly, AnswersReachPipes, Queues
<1> QED
  BY <1>1, <1>2

LEMMA AsksIInv == ASSUME NEW s \in Senders, ConnIInv, Asks(s) PROVE ConnIInv'
<1> USE DmnAssumption DEF ConnIInv, Asks, WritePipe, Message, DaemonMessages, helperVars, taskVars
<1>1. Threads' /\ Tables' /\ Tasks'
  BY DEF Threads, Tables, Tasks, Queues
<1>2. Pipes'
  <2>1. Message("IF_REQUEST", s) \in DaemonMessages
    BY DEF SenderNames, DmnAssumption
  <2>2. pipe' \in Seq(DaemonMessages) /\ Len(pipe') = Len(pipe) + 1
    BY <2>1, AppendProperties DEF Pipes
  <2>3. Len(pipe') <= PipeSize
    BY <2>2 DEF Pipes, DmnAssumption
  <2> QED
    BY <2>2, <2>3 DEF Pipes
<1>3. ServerKnows' /\ NothingEarly' /\ AnswersReachPipes'
  BY DEF Threads, Tables, Pipes, ServerKnows, SignalStillComes, NothingEarly, AnswersReachPipes, Queues
<1> QED
  BY <1>1, <1>2, <1>3

LEMMA GivesUpIInv == ASSUME NEW s \in Senders, ConnIInv, GivesUp(s) PROVE ConnIInv'
<1> USE DmnAssumption DEF ConnIInv, GivesUp, WritePipe, Message, DaemonMessages, helperVars, taskVars
<1>1. Threads' /\ Tables' /\ Tasks'
  BY DEF Threads, Tables, Tasks, Queues
<1>2. Pipes'
  <2>1. Message("IF_RELEASE", s) \in DaemonMessages
    BY DEF SenderNames, DmnAssumption
  <2>2. pipe' \in Seq(DaemonMessages) /\ Len(pipe') = Len(pipe) + 1
    BY <2>1, AppendProperties DEF Pipes
  <2>3. Len(pipe') <= PipeSize
    BY <2>2 DEF Pipes, DmnAssumption
  <2> QED
    BY <2>2, <2>3 DEF Pipes
<1>3. ServerKnows' /\ NothingEarly' /\ AnswersReachPipes'
  BY DEF Threads, Tables, Pipes, ServerKnows, SignalStillComes, NothingEarly, AnswersReachPipes, Queues
<1> QED
  BY <1>1, <1>2, <1>3

LEMMA HearsIInv == ASSUME NEW s \in Senders, ConnIInv, Hears(s) PROVE ConnIInv'
<1> USE DmnAssumption DEF ConnIInv, Hears, helperVars, taskVars
<1>1. Threads' /\ Tables' /\ Pipes' /\ Tasks'
  BY DEF Threads, Tables, Pipes, Tasks, Queues
<1>2. ServerKnows' /\ NothingEarly' /\ AnswersReachPipes'
  BY DEF Threads, Tables, Pipes, ServerKnows, SignalStillComes, NothingEarly, AnswersReachPipes, Queues
<1> QED
  BY <1>1, <1>2

-----------------------------------------------------------------------------
\* Every step keeps ConnIInv.
LEMMA NextConnIInv == ASSUME ConnIInv, [Next]_vars PROVE ConnIInv'
<1>1. CASE UNCHANGED vars
  <2>1. UNCHANGED <<launcher, thelper, server, buffer, msgqid, pipe, posted, nif, reply, answers, stray, daemon, failed>>
    BY <1>1 DEF vars, helperVars, taskVars
  <2> QED
    BY <2>1 DEF ConnIInv, Threads, Tables, Pipes, Tasks, ServerKnows, SignalStillComes, NothingEarly, AnswersReachPipes
<1>2. CASE Next
  <2>1. CASE Launch \/ SignalWait \/ WakeForNothing \/ ProcInit \/ SignalReady \/ Receive \/ ReceiveFails \/ ReadInterrupted
    BY <2>1, LaunchIInv, SignalWaitIInv, WakeForNothingIInv, ProcInitIInv, SignalReadyIInv, ReceiveIInv, ReceiveFailsIInv, ReadInterruptedIInv
  <2>2. CASE Handle \/ ProcPost \/ TakePosted \/ DataConn \/ WritesOther
    BY <2>2, HandleIInv, ProcPostIInv, TakePostedIInv, DataConnIInv, WritesOtherIInv
  <2>3. ASSUME NEW s \in Senders,
               Granted(s) \/ Denied(s) \/ Lost(s) \/ Closed(s) \/ Asks(s) \/ GivesUp(s) \/ Hears(s)
        PROVE  ConnIInv'
    BY <2>3, GrantedIInv, DeniedIInv, LostIInv, ClosedIInv, AsksIInv, GivesUpIInv, HearsIInv
  <2> QED
    BY <1>2, <2>1, <2>2, <2>3 DEF Next, Server, MsgTask
<1> QED
  BY <1>1, <1>2

LEMMA ConnInvariant == Spec => []ConnIInv
  BY InitConnIInv, NextConnIInv, PTL DEF Spec

\* Every variable keeps its type, the pipes their size, and at most one message
\* is in the server's buffer and one answer in the MsgTask's hand.
THEOREM ConnTypeCorrect == Spec => []TypeOK
<1>1. ConnIInv => TypeOK
  BY DEF ConnIInv, Threads, Tables, Pipes, Tasks, TypeOK
<1> QED
  BY <1>1, ConnInvariant, PTL

\* As long as reading works, no answer goes to a descriptor that is closed or
\* was not set, whatever daemons there are and whatever they write.
THEOREM AnswersArrive == Spec => []AnswersReachPipes
<1>1. ConnIInv => AnswersReachPipes
  BY DEF ConnIInv
<1> QED
  BY <1>1, ConnInvariant, PTL

\* A launch that waits has not missed the server's signal, whichever of the two
\* threads came first.
THEOREM SignalNotMissed == Spec => []SignalStillComes
<1>1. ConnIInv => SignalStillComes
  BY DEF ConnIInv, ServerKnows
<1> QED
  BY <1>1, ConnInvariant, PTL

-----------------------------------------------------------------------------
(* Known, over sequences of any length                                     *)

\* What holds of 0, and of a number if it holds of the one before, holds of all:
\* if not of n, there is a least interval from 0 to a number it does not hold of.
LEMMA Induction ==
  ASSUME NEW T \in SUBSET Nat, 0 \in T, \A n \in T : n + 1 \in T
  PROVE  T = Nat
<1> SUFFICES ASSUME NEW n \in Nat, n \notin T  PROVE FALSE
  OBVIOUS
<1> DEFINE Others == {j \in 0..n : j \notin T}
           Intervals == {0..k : k \in Others}
<1>1. IsWellFoundedOn(StrictSubsetOrdering(0..n), SUBSET (0..n))
  <2>1. IsFiniteSet(0..n)
    BY FS_Interval
  <2> QED  BY <2>1, FS_StrictSubsetOrderingWellFounded, FS_FiniteSubsetsOfFinite
<1>2. Intervals \subseteq SUBSET (0..n) /\ Intervals # {}
  <2>1. n \in Others /\ \A k \in Others : 0..k \subseteq 0..n
    OBVIOUS
  <2> HIDE DEF Others
  <2> QED  BY <2>1
<1>3. PICK least \in Intervals : \A I \in Intervals : <<I, least>> \notin StrictSubsetOrdering(0..n)
  <2> HIDE DEF Intervals
  <2> QED  BY <1>1, <1>2, WFMin
<1>4. PICK k \in Others : least = 0..k
  BY <1>3
<1>5. k \in Nat /\ k # 0 /\ k <= n /\ k \notin T
  BY <1>4
<1>6. (k - 1) \in Others
  <2>1. k - 1 \in 0..n /\ (k - 1) + 1 = k
    BY <1>5
  <2> QED  BY <1>5, <2>1
<1>7. <<0..(k - 1), 0..k>> \in StrictSubsetOrdering(0..n)
  <2>1. 0..(k - 1) \subseteq 0..n /\ 0..k \subseteq 0..n
    BY <1>5
  <2>2. 0..(k - 1) \subseteq 0..k /\ k \in 0..k /\ k \notin 0..(k - 1)
    BY <1>5
  <2> QED  BY <2>1, <2>2 DEF StrictSubsetOrdering
<1> QED  BY <1>3, <1>4, <1>6, <1>7

\* Sequences that end, or begin, with an element of their own.
LEMMA SplitLast ==
  ASSUME NEW S, NEW p \in Seq(S), Len(p) # 0
  PROVE  \E front \in Seq(S), m \in S : p = Append(front, m) /\ Len(front) = Len(p) - 1
<1> DEFINE front == [i \in 1..(Len(p) - 1) |-> p[i]]
<1>1. Len(p) \in Nat \ {0} /\ p[Len(p)] \in S /\ \A i \in 1..Len(p) : p[i] \in S
  OBVIOUS
<1>2. front \in Seq(S) /\ Len(front) = Len(p) - 1
  BY <1>1
<1>3. p = Append(front, p[Len(p)])
  BY <1>1, <1>2
<1> QED  BY <1>1, <1>2, <1>3

LEMMA AppendLater ==
  ASSUME NEW S, NEW p \in Seq(S), NEW q \in Seq(S), NEW m \in S
  PROVE  p \o Append(q, m) = Append(p \o q, m) /\ p \o q \in Seq(S)
  OBVIOUS

LEMMA OneLong == ASSUME NEW S, NEW q \in Seq(S), q # <<>>, Len(q) <= 1  PROVE q = <<q[1]>>
<1>1. Len(q) \in Nat
  OBVIOUS
<1>2. Len(q) # 0
  BY EmptySeq
<1>3. Len(q) = 1
  BY <1>1, <1>2
<1> QED  BY <1>3

\* The recursion of Known, over the first n of the messages.
Among(f, messages, n) ==
  f = [i \in 0..n |->
        IF i = 0 THEN <<>>
        ELSE IF messages[i].sender \in Senders THEN Append(f[i - 1], messages[i])
        ELSE f[i - 1]]

LEMMA AmongThere ==
  ASSUME NEW messages, NEW n \in Nat  PROVE \E f : Among(f, messages, n)
<1> DEFINE T == {k \in Nat : \E f : Among(f, messages, k)}
<1>1. 0 \in T
  <2>1. Among([i \in 0..0 |-> <<>>], messages, 0)
    BY DEF Among
  <2> QED  BY <2>1
<1>2. ASSUME NEW k \in T  PROVE k + 1 \in T
  <2>1. PICK f : Among(f, messages, k)
    OBVIOUS
  <2> DEFINE last == IF messages[k + 1].sender \in Senders
                     THEN Append(f[k], messages[k + 1]) ELSE f[k]
             g == [i \in 0..(k + 1) |-> IF i = k + 1 THEN last ELSE f[i]]
             Step(h, i) == IF messages[i].sender \in Senders
                           THEN Append(h[i - 1], messages[i]) ELSE h[i - 1]
  <2>2. ASSUME NEW i \in 0..(k + 1)
        PROVE  g[i] = IF i = 0 THEN <<>> ELSE Step(g, i)
    <3>1. CASE i = k + 1
      <4>1. (k + 1) - 1 = k /\ k \in 0..(k + 1) /\ k # k + 1 /\ k + 1 # 0
        OBVIOUS
      <4>2. g[k] = f[k]
        BY <4>1
      <4> QED  BY <3>1, <4>1, <4>2
    <3>2. CASE i # k + 1
      <4>1. i \in 0..k /\ (i # 0 => i - 1 \in 0..k /\ i - 1 # k + 1)
        BY <3>2
      <4>2. f[i] = IF i = 0 THEN <<>> ELSE Step(f, i)
        BY <2>1, <4>1 DEF Among
      <4>3. i # 0 => g[i - 1] = f[i - 1]
        BY <4>1
      <4>4. g[i] = f[i]
        BY <3>2
      <4> QED  BY <4>2, <4>3, <4>4
    <3> QED  BY <3>1, <3>2
  <2>3. g = [i \in 0..(k + 1) |-> IF i = 0 THEN <<>> ELSE Step(g, i)]
    <3>1. g = [i \in 0..(k + 1) |-> g[i]]
      OBVIOUS
    <3> HIDE DEF g, Step
    <3> QED  BY <2>2, <3>1
  <2>4. Among(g, messages, k + 1)
    <3> HIDE DEF g
    <3> QED  BY <2>3 DEF Among
  <2> QED  BY <2>4
<1>3. T = Nat
  <2> HIDE DEF T
  <2>1. T \in SUBSET Nat
    BY DEF T
  <2> QED  BY <1>1, <1>2, <2>1, Induction
<1> QED  BY <1>3

\* What the first n messages leave depends on these alone.
LEMMA AmongSame ==
  ASSUME NEW p, NEW q, NEW n \in Nat, NEW m \in Nat, n <= m, NEW f, NEW g,
         Among(f, p, n), Among(g, q, m), \A i \in 1..n : p[i] = q[i]
  PROVE  f[n] = g[n]
<1> DEFINE T == {k \in Nat : k <= n => f[k] = g[k]}
<1>1. 0 \in T
  <2>1. 0 \in 0..n /\ 0 \in 0..m
    OBVIOUS
  <2> QED  BY <2>1 DEF Among
<1>2. ASSUME NEW k \in T  PROVE k + 1 \in T
  <2> SUFFICES ASSUME k + 1 <= n  PROVE f[k + 1] = g[k + 1]
    OBVIOUS
  <2>1. k + 1 \in 0..n /\ k + 1 \in 0..m /\ k + 1 # 0 /\ k + 1 \in 1..n /\ (k + 1) - 1 = k
    OBVIOUS
  <2>2. f[k] = g[k] /\ p[k + 1] = q[k + 1]
    BY <2>1
  <2>3. f[k + 1] = IF p[k + 1].sender \in Senders THEN Append(f[k], p[k + 1]) ELSE f[k]
    BY <2>1 DEF Among
  <2>4. g[k + 1] = IF q[k + 1].sender \in Senders THEN Append(g[k], q[k + 1]) ELSE g[k]
    BY <2>1 DEF Among
  <2> QED  BY <2>2, <2>3, <2>4
<1>3. T = Nat
  <2> HIDE DEF T
  <2>1. T \in SUBSET Nat
    BY DEF T
  <2> QED  BY <1>1, <1>2, <2>1, Induction
<1> QED  BY <1>3

LEMMA KnownIs ==
  ASSUME NEW messages, Len(messages) \in Nat
  PROVE  \E f : Among(f, messages, Len(messages)) /\ Known(messages) = f[Len(messages)]
<1> DEFINE f == CHOOSE g : Among(g, messages, Len(messages))
<1>1. Among(f, messages, Len(messages))
  BY AmongThere
<1>2. Known(messages) = f[Len(messages)]
  BY DEF Known, Among
<1> QED  BY <1>1, <1>2

LEMMA KnownAppend ==
  ASSUME NEW S, NEW q \in Seq(S), NEW m \in S
  PROVE  Known(Append(q, m)) = IF m.sender \in Senders THEN Append(Known(q), m) ELSE Known(q)
<1> DEFINE p == Append(q, m)
           n == Len(q)
<1>1. n \in Nat /\ Len(p) = n + 1 /\ p[n + 1] = m /\ \A i \in 1..n : q[i] = p[i]
  BY AppendProperties
<1>2. PICK f : Among(f, q, n) /\ Known(q) = f[n]
  BY <1>1, KnownIs
<1>3. PICK g : Among(g, p, n + 1) /\ Known(p) = g[n + 1]
  <2> HIDE DEF p
  <2> QED  BY <1>1, KnownIs
<1> HIDE DEF p, n
<1>4. f[n] = g[n]
  BY <1>1, <1>2, <1>3, AmongSame
<1>5. n + 1 \in 0..(n + 1) /\ n + 1 # 0 /\ (n + 1) - 1 = n
  BY <1>1
<1>6. g[n + 1] = IF p[n + 1].sender \in Senders THEN Append(g[n], p[n + 1]) ELSE g[n]
  BY <1>3, <1>5 DEF Among
<1> QED  BY <1>1, <1>2, <1>3, <1>4, <1>6 DEF p

LEMMA KnownNone == Known(<<>>) = <<>>
<1>1. PICK f : Among(f, <<>>, 0) /\ Known(<<>>) = f[0]
  <2>1. Len(<<>>) = 0
    OBVIOUS
  <2> QED  BY <2>1, KnownIs
<1> QED  BY <1>1 DEF Among

LEMMA KnownOne ==
  ASSUME NEW S, NEW m \in S
  PROVE  Known(<<m>>) = IF m.sender \in Senders THEN <<m>> ELSE <<>>
<1>1. <<m>> = Append(<<>>, m) /\ <<>> \in Seq(S)
  OBVIOUS
<1> QED  BY <1>1, KnownAppend, KnownNone

LEMMA KnownTyped ==
  ASSUME NEW S, NEW q \in Seq(S)  PROVE Known(q) \in Seq(S)
<1> DEFINE T == {k \in Nat : \A p \in Seq(S) : Len(p) = k => Known(p) \in Seq(S)}
<1>1. 0 \in T
  BY KnownNone, EmptySeq
<1>2. ASSUME NEW k \in T  PROVE k + 1 \in T
  <2> SUFFICES ASSUME NEW p \in Seq(S), Len(p) = k + 1  PROVE Known(p) \in Seq(S)
    OBVIOUS
  <2>1. PICK front \in Seq(S), m \in S : p = Append(front, m) /\ Len(front) = k
    <3>1. k \in Nat /\ k + 1 # 0 /\ (k + 1) - 1 = k
      OBVIOUS
    <3> QED  BY <3>1, SplitLast
  <2>2. Known(front) \in Seq(S)
    BY <2>1
  <2>3. Append(Known(front), m) \in Seq(S)
    BY <2>2, AppendProperties
  <2> QED  BY <2>1, <2>2, <2>3, KnownAppend
<1>3. T = Nat
  <2> HIDE DEF T
  <2>1. T \in SUBSET Nat
    BY DEF T
  <2> QED  BY <1>1, <1>2, <2>1, Induction
<1> QED  BY <1>3

\* A message in front of others stays in front of them, if it is posted at all.
LEMMA KnownFirst ==
  ASSUME NEW S, NEW m \in S, NEW q \in Seq(S)
  PROVE  Known(<<m>> \o q) = Known(<<m>>) \o Known(q)
<1> DEFINE T == {k \in Nat : \A p \in Seq(S) :
                   Len(p) = k => Known(<<m>> \o p) = Known(<<m>>) \o Known(p)}
<1>0. <<m>> \in Seq(S) /\ Known(<<m>>) \in Seq(S)
  <2>1. <<m>> \in Seq(S)
    OBVIOUS
  <2> QED  BY <2>1, KnownTyped
<1>1. 0 \in T
  <2> SUFFICES ASSUME NEW p \in Seq(S), Len(p) = 0
               PROVE  Known(<<m>> \o p) = Known(<<m>>) \o Known(p)
    OBVIOUS
  <2>1. p = <<>>
    OBVIOUS
  <2>2. <<m>> \o p = <<m>>
    BY <2>1
  <2>3. Known(<<m>>) \o <<>> = Known(<<m>>)
    BY <1>0
  <2> QED  BY <2>1, <2>2, <2>3, KnownNone
<1>2. ASSUME NEW k \in T  PROVE k + 1 \in T
  <2>0. k \in Nat /\ k + 1 \in Nat /\ k + 1 # 0 /\ (k + 1) - 1 = k
    OBVIOUS
  <2> SUFFICES \A p \in Seq(S) : Len(p) = k + 1 => Known(<<m>> \o p) = Known(<<m>>) \o Known(p)
    <3> HIDE DEF Known
    <3> QED  BY <2>0
  <2> SUFFICES ASSUME NEW p \in Seq(S), Len(p) = k + 1
               PROVE  Known(<<m>> \o p) = Known(<<m>>) \o Known(p)
    OBVIOUS
  <2>1. PICK front \in Seq(S), l \in S : p = Append(front, l) /\ Len(front) = k
    BY <2>0, SplitLast
  <2>2. Known(<<m>> \o front) = Known(<<m>>) \o Known(front)
    BY <2>1
  <2>3. <<m>> \o p = Append(<<m>> \o front, l) /\ <<m>> \o front \in Seq(S)
    BY <1>0, <2>1, AppendLater
  <2>4. CASE l.sender \in Senders
    <3>1. Known(<<m>> \o p) = Append(Known(<<m>> \o front), l)
      BY <2>3, <2>4, KnownAppend
    <3>2. Known(p) = Append(Known(front), l)
      BY <2>1, <2>4, KnownAppend
    <3>3. Known(<<m>>) \o Append(Known(front), l) = Append(Known(<<m>>) \o Known(front), l)
      BY <1>0, KnownTyped, AppendLater
    <3> QED  BY <2>2, <3>1, <3>2, <3>3
  <2>5. CASE l.sender \notin Senders
    <3>1. Known(<<m>> \o p) = Known(<<m>> \o front)
      BY <2>3, <2>5, KnownAppend
    <3>2. Known(p) = Known(front)
      BY <2>1, <2>5, KnownAppend
    <3> QED  BY <2>2, <3>1, <3>2
  <2> QED  BY <2>4, <2>5
<1>3. T = Nat
  <2> HIDE DEF T
  <2>1. T \in SUBSET Nat
    BY DEF T
  <2> QED  BY <1>1, <1>2, <2>1, Induction
<1>4. Len(q) \in T
  <2>1. Len(q) \in Nat
    OBVIOUS
  <2> HIDE DEF T
  <2> QED  BY <1>3, <2>1
<1> QED  BY <1>4

-----------------------------------------------------------------------------
(* What is passed on: the messages that the handlers post, in their order  *)

LEMMA SameUnderWay ==
  ASSUME UNCHANGED <<posted, buffer, pipe>>  PROVE UnderWay' = UnderWay
  BY DEF UnderWay, Known

\* The message moves from the pipe to the buffer.
LEMMA ReceiveKeepsOrder == ASSUME ConnIInv, Receive  PROVE UnderWay' = UnderWay
<1>1. buffer = <<>> /\ pipe \in Seq(DaemonMessages) /\ pipe # <<>>
  BY DEF ConnIInv, ServerKnows, Pipes, Receive
<1>2. buffer' \o pipe' = buffer \o pipe
  <2>1. <<Head(pipe)>> \o Tail(pipe) = pipe /\ <<>> \o pipe = pipe
    BY <1>1
  <2> QED  BY <1>1, <2>1 DEF Receive
<1>3. posted' = posted
  BY DEF Receive
<1> HIDE DEF Known
<1> QED  BY <1>2, <1>3 DEF UnderWay

\* It is posted behind the others, or was not among those under way.
LEMMA HandleKeepsOrder == ASSUME ConnIInv, Handle  PROVE UnderWay' = UnderWay
<1>1. PICK m \in DaemonMessages : buffer = <<m>>
  <2>1. buffer \in Seq(DaemonMessages) /\ buffer # <<>> /\ Len(buffer) <= 1
    BY DEF ConnIInv, ServerKnows, Pipes, Handle
  <2> HIDE DEF DaemonMessages
  <2> QED  BY <2>1, FirstIn, OneLong
<1>2. pipe \in Seq(DaemonMessages) /\ posted \in Seq(DaemonMessages)
  <2>1. Requests \subseteq DaemonMessages
    BY DEF Requests
  <2> QED  BY <2>1 DEF ConnIInv, Pipes, Tasks
<1>3. Known(pipe) \in Seq(DaemonMessages)
  BY <1>2, KnownTyped
<1>4. Known(buffer \o pipe) = (IF m.sender \in Senders THEN <<m>> ELSE <<>>) \o Known(pipe)
  BY <1>1, <1>2, KnownFirst, KnownOne
<1>5. Known(buffer' \o pipe') = Known(pipe)
  <2>1. <<>> \o pipe = pipe
    BY <1>2
  <2> QED  BY <2>1 DEF Handle
<1>6. buffer[1] = m
  BY <1>1
<1>7. CASE m.sender \in Senders
  <2>1. posted' = Append(posted, m)
    BY <1>6, <1>7 DEF Handle, Post
  <2>2. Append(posted, m) \o Known(pipe) = posted \o (<<m>> \o Known(pipe))
    <3> HIDE DEF Known, DaemonMessages
    <3> QED  BY <1>2, <1>3
  <2> QED  BY <1>4, <1>5, <1>7, <2>1, <2>2 DEF UnderWay
<1>8. CASE m.sender \notin Senders
  <2>1. posted' = posted
    BY <1>6, <1>8 DEF Handle
  <2>2. <<>> \o Known(pipe) = Known(pipe)
    BY <1>3
  <2> QED  BY <1>4, <1>5, <1>8, <2>1, <2>2 DEF UnderWay
<1> QED  BY <1>7, <1>8

LEMMA TakesTheFirst ==
  ASSUME ConnIInv, TakePosted  PROVE UnderWay # <<>> /\ UnderWay' = Tail(UnderWay)
<1>1. posted \in Seq(DaemonMessages) /\ posted # <<>> /\ posted' = Tail(posted)
  <2>1. Requests \subseteq DaemonMessages
    BY DEF Requests
  <2> QED  BY <2>1 DEF ConnIInv, Tasks, TakePosted
<1>2. Known(buffer \o pipe) \in Seq(DaemonMessages)
  <2>1. buffer \o pipe \in Seq(DaemonMessages)
    BY DEF ConnIInv, Pipes
  <2> QED  BY <2>1, KnownTyped
<1>3. Known(buffer' \o pipe') = Known(buffer \o pipe)
  BY DEF TakePosted, helperVars
<1> HIDE DEF Known, DaemonMessages
<1>4. posted \o Known(buffer \o pipe) # <<>>
  BY <1>1, <1>2
<1>5. Tail(posted) \o Known(buffer \o pipe) = Tail(posted \o Known(buffer \o pipe))
  BY <1>1, <1>2
<1> QED  BY <1>1, <1>3, <1>4, <1>5 DEF UnderWay

\* What a daemon writes comes last, if it is a request or a release of its own.
LEMMA WriteComesLast ==
  ASSUME ConnIInv, NEW m \in DaemonMessages, WritePipe(m)
  PROVE  UnderWay' = IF m.sender \in Senders THEN Append(UnderWay, m) ELSE UnderWay
<1>1. /\ buffer \in Seq(DaemonMessages) /\ pipe \in Seq(DaemonMessages)
      /\ posted \in Seq(DaemonMessages)
  <2>1. Requests \subseteq DaemonMessages
    BY DEF Requests
  <2> QED  BY <2>1 DEF ConnIInv, Pipes, Tasks
<1>2. buffer' \o pipe' = Append(buffer \o pipe, m) /\ buffer \o pipe \in Seq(DaemonMessages)
  <2>1. buffer' = buffer /\ pipe' = Append(pipe, m)
    BY DEF WritePipe, helperVars
  <2> QED  BY <1>1, <2>1, AppendLater
<1>3. posted' = posted
  BY DEF WritePipe
<1>4. Known(buffer \o pipe) \in Seq(DaemonMessages)
  BY <1>2, KnownTyped
<1>5. CASE m.sender \in Senders
  <2>1. Known(buffer' \o pipe') = Append(Known(buffer \o pipe), m)
    BY <1>2, <1>5, KnownAppend
  <2>2. posted \o Append(Known(buffer \o pipe), m) = Append(posted \o Known(buffer \o pipe), m)
    BY <1>1, <1>4, AppendLater
  <2> QED  BY <1>3, <1>5, <2>1, <2>2 DEF UnderWay
<1>6. CASE m.sender \notin Senders
  <2>1. Known(buffer' \o pipe') = Known(buffer \o pipe)
    BY <1>2, <1>6, KnownAppend
  <2> QED  BY <1>3, <1>6, <2>1 DEF UnderWay
<1> QED  BY <1>5, <1>6

\* The requests and releases of the daemons, of any number, come to the MsgTask
\* in the order they were written, each once: a step adds one at the end, takes
\* the first, or leaves them as they are, until the pipe is removed.
THEOREM PassedOn == Spec => PassedOnInOrder
<1> DEFINE AnyRequest == {Message(t, s) : t \in {"IF_REQUEST", "IF_RELEASE"}, s \in Senders}
           InOrder == \/ UnderWay' = UnderWay
                      \/ \E m \in AnyRequest : UnderWay' = Append(UnderWay, m)
                      \/ UnderWay # <<>> /\ UnderWay' = Tail(UnderWay)
                      \/ ProcPost
<1>1. ASSUME ConnIInv, [Next]_vars  PROVE [InOrder]_vars
  <2> SUFFICES ASSUME Next  PROVE InOrder
    BY <1>1
  <2> USE ConnIInv
  <2>1. CASE Launch \/ SignalWait \/ WakeForNothing \/ ProcInit \/ SignalReady
             \/ ReceiveFails \/ ReadInterrupted \/ DataConn
    <3>1. UNCHANGED <<posted, buffer, pipe>>
      BY <2>1 DEF Launch, SignalWait, WakeForNothing, ProcInit, SignalReady, ReceiveFails,
                  ReadInterrupted, ReceiveReturnsError, DataConn, helperVars
    <3> QED  BY <3>1, SameUnderWay
  <2>2. CASE Receive \/ Handle \/ TakePosted \/ ProcPost
    BY <1>1, <2>2, ReceiveKeepsOrder, HandleKeepsOrder, TakesTheFirst
  <2>3. CASE WritesOther
    <3>1. /\ Unsupported \in DaemonMessages /\ Unsupported.sender \notin Senders
          /\ TooLong \in DaemonMessages /\ TooLong.sender \notin Senders
      BY DmnAssumption DEF Unsupported, TooLong, Message, DaemonMessages
    <3>2. WritePipe(Unsupported) \/ WritePipe(TooLong)
      BY <2>3 DEF WritesOther
    <3>3. UnderWay' = UnderWay
      BY <1>1, <3>1, <3>2, WriteComesLast
    <3> QED  BY <3>3
  <2>4. ASSUME NEW s \in Senders,
               Granted(s) \/ Denied(s) \/ Lost(s) \/ Closed(s) \/ Hears(s)
        PROVE  InOrder
    <3>1. UNCHANGED <<posted, buffer, pipe>>
      BY <2>4 DEF Granted, Denied, Lost, Closed, NifBecomes, Hears, helperVars
    <3> QED  BY <3>1, SameUnderWay
  <2>5. ASSUME NEW s \in Senders, NEW t \in {"IF_REQUEST", "IF_RELEASE"},
               WritePipe(Message(t, s))
        PROVE  InOrder
    <3>1. Message(t, s) \in DaemonMessages /\ Message(t, s).sender = s
      BY DmnAssumption DEF Message, DaemonMessages, SenderNames
    <3>2. UnderWay' = Append(UnderWay, Message(t, s))
      BY <1>1, <2>5, <3>1, WriteComesLast
    <3> QED  BY <3>2
  <2>6. ASSUME NEW s \in Senders, Asks(s) \/ GivesUp(s)  PROVE InOrder
    BY <2>5, <2>6 DEF Asks, GivesUp
  <2> QED  BY <2>1, <2>2, <2>3, <2>4, <2>6 DEF Next, Server, MsgTask
<1> QED  BY <1>1, ConnInvariant, PTL DEF Spec, PassedOnInOrder

-----------------------------------------------------------------------------
(* The MsgTask: the delegate and the queue outlive the threads that use    *)
(* them, and the queue and its thread are a Mailbox to the users.          *)

\* While start() runs nobody can have called destroy(), so the thread cannot
\* be over, and a start() that fails has no thread.
Starting ==
  /\ owner \in {"creates", "rejects", "failed"} => thread = "none"
  /\ owner \in {"creates", "checks", "rejects"} =>
       ~unblocked /\ thread \in {"none", "begins", "tests", "runs"}
  /\ owner \in {"creates", "checks", "rejects", "idle"} => mThread
  /\ owner = "creates" => exists
  /\ owner = "failed" => ~mThread

\* A thread stops only after destroy() unblocked its queue.
Stopping ==
  /\ owner \in {"byes", "joins", "releases"} => unblocked
  /\ thread \in {"clears", "deletes"} => unblocked
  /\ thread \in {"begins", "tests", "runs"} /\ ~delegate.mRunnable => unblocked

\* Only run() receives, and it has a message in hand only while it handles it.
Receiving ==
  /\ receiver # "out" => thread = "runs"
  /\ hand # <<>> <=> receiver = "proc"

\* The MsgTask is there until its thread has deleted it.
TaskLives == thread \in {"begins", "tests", "runs", "clears", "deletes"} => exists

TaskIInv ==
  /\ TaskTypeOK
  /\ DelegateOutlivesUsers
  /\ Starting
  /\ Stopping
  /\ Receiving
  /\ TaskLives

LEMMA InitTaskIInv == TaskInit => TaskIInv
<1> SUFFICES ASSUME TaskInit PROVE TaskIInv
  OBVIOUS
<1> USE DEF TaskInit, LocThreadInit
<1>1. delegate \in Delegate
  <2>1. ASSUME NEW joinable \in BOOLEAN, NEW clear \in BOOLEAN, NEW count \in 0..2
        PROVE  [alive |-> clear, mRunnable |-> clear, mJoinable |-> joinable,
                mRefCount |-> count] \in Delegate
    BY DEF Delegate
  <2>2. 0 \in 0..2 /\ FALSE \in BOOLEAN
    OBVIOUS
  <2>. QED BY <2>1, <2>2, Zenon
<1>2. TaskTypeOK
  <2>1. owner \in OwnerAt /\ thread \in ThreadAt /\ runnable \in BOOLEAN
    BY DEF OwnerAt, ThreadAt
  <2>2. /\ exists \in BOOLEAN /\ mThread \in BOOLEAN /\ unblocked \in BOOLEAN
        /\ receiver \in {"out", "waits", "woken", "proc"}
        /\ hand \in {<<>>} \cup {<<m>> : m \in Messages}
    BY Zenon
  <2>3. msg_list \in Seq(Messages)
    OBVIOUS
  <2>4. message \in [Messages -> {"unsent", "queued", "refused", "handled", "flushed"}]
    OBVIOUS
  <2>. QED BY <1>1, <2>1, <2>2, <2>3, <2>4 DEF TaskTypeOK
<1>3. DelegateOutlivesUsers
  BY DEF DelegateOutlivesUsers, OwnerHolds, ThreadHolds
<1>4. Starting /\ Stopping /\ Receiving /\ TaskLives
  BY DEF Starting, Stopping, Receiving, TaskLives
<1>. QED BY <1>2, <1>3, <1>4 DEF TaskIInv

-----------------------------------------------------------------------------
(* What the steps on the delegate do to its members                        *)

LEMMA DestroyDelegate ==
  ASSUME delegate \in Delegate, delegate.mRefCount >= 1, Destroy
  PROVE  /\ delegate' \in Delegate
         /\ delegate'.mRefCount = delegate.mRefCount - 1
         /\ delegate'.alive <=> delegate.mRefCount > 1
         /\ delegate'.mRunnable = delegate.mRunnable
<1> DEFINE more == delegate.mRefCount > 1
           less == delegate.mRefCount - 1
<1>1. delegate' = [delegate EXCEPT !.mRefCount = less, !.alive = more]
  BY DEF Destroy
<1>2. more \in BOOLEAN
  OBVIOUS
<1>3. less \in 0..2
  BY DEF Delegate
<1>4. more <=> delegate.mRefCount > 1
  OBVIOUS
<1>5. less = delegate.mRefCount - 1
  OBVIOUS
<1> HIDE DEF more, less
<1>. QED BY <1>1, <1>2, <1>3, <1>4, <1>5 DEF Delegate

LEMMA NewDelegate ==
  ASSUME delegate \in Delegate, Create
  PROVE  /\ delegate' \in Delegate
         /\ delegate'.alive
         /\ \/ thread' = "begins" /\ delegate'.mRefCount = 2 /\ delegate'.mRunnable
            \/ thread' = thread /\ delegate'.mRefCount = 1
<1>0. 1 \in 0..2 /\ 2 \in 0..2
  OBVIOUS
<1>1. ASSUME NEW set \in BOOLEAN, NEW count \in 0..2,
             delegate' = [delegate EXCEPT !.alive = set, !.mRunnable = set, !.mRefCount = count]
      PROVE  /\ delegate' \in Delegate
             /\ delegate'.alive = set /\ delegate'.mRunnable = set /\ delegate'.mRefCount = count
  BY <1>1 DEF Delegate
<1>2. ASSUME NEW set \in BOOLEAN, NEW clear \in BOOLEAN, NEW count \in 0..2,
             delegate' = [delegate EXCEPT !.alive = set, !.mJoinable = clear, !.mRefCount = count]
      PROVE  /\ delegate' \in Delegate
             /\ delegate'.alive = set /\ delegate'.mRefCount = count
  BY <1>2 DEF Delegate
<1>3. CASE /\ delegate' = [delegate EXCEPT !.alive = TRUE, !.mRunnable = TRUE, !.mRefCount = 2]
           /\ thread' = "begins"
  BY <1>3, <1>1, <1>0, Zenon
<1>4. CASE /\ delegate' = [delegate EXCEPT !.alive = TRUE, !.mJoinable = FALSE, !.mRefCount = 1]
           /\ thread' = thread
  BY <1>4, <1>2, <1>0, Zenon
<1>. QED BY <1>3, <1>4 DEF Create

LEMMA StopDelegate ==
  ASSUME delegate \in Delegate, Bye \/ Clear
  PROVE  /\ delegate' \in Delegate
         /\ delegate'.mRefCount = delegate.mRefCount
         /\ delegate'.alive = delegate.alive
<1>1. CASE delegate' = delegate
  BY <1>1
<1>2. CASE delegate' = [delegate EXCEPT !.mRunnable = FALSE, !.mJoinable = FALSE]
  BY <1>2 DEF Delegate
<1>3. CASE delegate' = [delegate EXCEPT !.mRunnable = FALSE]
  BY <1>3 DEF Delegate
<1>. QED BY <1>1, <1>2, <1>3 DEF Bye, Clear

-----------------------------------------------------------------------------
(* The step lemmas                                                         *)

\* Sending a message leaves the two threads' positions alone.
LEMMA SendSteps ==
  ASSUME TaskIInv, NEW m \in Messages, Send(m) \/ SendFromProc(m)
  PROVE  TaskIInv'
<1> USE DEF TaskIInv, locThread, queue, Signal
<1>1. ASSUME Snd(m), UNCHANGED <<locThread, exists, mThread, unblocked, hand>> PROVE TaskIInv'
  <2>1. Append(msg_list, m) \in Seq(Messages)
    BY DEF TaskTypeOK
  <2>2. TaskTypeOK'
    BY <1>1, <2>1 DEF Snd, TaskTypeOK
  <2>3. receiver' # "out" => receiver # "out"
    BY <1>1 DEF Snd
  <2>4. receiver' = "proc" <=> receiver = "proc"
    BY <1>1 DEF Snd
  <2>5. (Receiving /\ TaskLives)'
    BY <1>1, <2>3, <2>4 DEF Receiving, TaskLives
  <2>6. (DelegateOutlivesUsers /\ Starting /\ Stopping)'
    BY <1>1 DEF DelegateOutlivesUsers, OwnerHolds, ThreadHolds, Starting, Stopping
  <2>. QED BY <2>2, <2>5, <2>6
<1>. QED BY <1>1 DEF Send, SendFromProc

\* Waking the receiver leaves everything else alone.
LEMMA WakeSteps ==
  ASSUME TaskIInv, Unblock \/ WakeTaskForNothing
  PROVE  TaskIInv'
<1> USE DEF TaskIInv, TaskTypeOK, DelegateOutlivesUsers, OwnerHolds, ThreadHolds, Starting, Stopping,
      Receiving, TaskLives, locThread, queue, Signal
<1>1. CASE Unblock
  BY <1>1 DEF Unblock
<1>2. CASE WakeTaskForNothing
  BY <1>2 DEF WakeTaskForNothing
<1>. QED BY <1>1, <1>2

\* ~MsgTask leaves the queue empty.
LEMMA DeleteTypes ==
  ASSUME TaskTypeOK, Delete
  PROVE  /\ msg_list' \in Seq(Messages)
         /\ message' \in [Messages -> {"unsent", "queued", "refused", "handled", "flushed"}]
<1> DEFINE Fate == {"unsent", "queued", "refused", "handled", "flushed"}
<1>1. msg_list' \in Seq(Messages)
  BY DEF Delete
<1>2. message \in [Messages -> Fate]
  BY DEF TaskTypeOK
<1>3. "flushed" \in Fate
  OBVIOUS
<1> HIDE DEF Fate
<1>4. message' \in [Messages -> Fate]
  BY <1>2, <1>3 DEF Delete
<1>. QED BY <1>1, <1>4 DEF Fate

\* The constructor: a thread is counted before it may run, and is there for a
\* start() that succeeds.
LEMMA ConstructorStep ==
  ASSUME TaskIInv, Constructor
  PROVE  TaskIInv'
<1> USE DEF TaskIInv, Constructor, queue
<1>1. mThread' \in BOOLEAN /\ (mThread' <=> owner' # "failed")
  OBVIOUS
<1>2. CASE Create
  <2>1. owner = "creates" /\ owner' = "checks" /\ runnable' = runnable
    BY <1>2 DEF Create
  <2>2. delegate \in Delegate /\ thread = "none"
    BY <2>1 DEF TaskTypeOK, Starting
  <2>. HIDE DEF Constructor
  <2>3. UNCHANGED <<exists, queue, receiver, hand, message>>
    BY DEF Constructor
  <2>4. TaskTypeOK'
    BY <1>1, <1>2, <2>1, <2>2, <2>3, NewDelegate DEF TaskTypeOK, OwnerAt, ThreadAt
  <2>5. (DelegateOutlivesUsers /\ Starting /\ Stopping /\ Receiving /\ TaskLives)'
    BY <1>1, <1>2, <2>1, <2>2, <2>3, NewDelegate DEF TaskTypeOK, DelegateOutlivesUsers,
       OwnerHolds, ThreadHolds, Starting, Stopping, Receiving, TaskLives
  <2>. QED BY <2>4, <2>5
<1>3. CASE Check
  BY <1>1, <1>3 DEF Check, TaskTypeOK, Delegate, OwnerAt, DelegateOutlivesUsers, OwnerHolds,
     ThreadHolds, Starting, Stopping, Receiving, TaskLives
<1>4. CASE Reject
  <2>1. delegate \in Delegate /\ delegate.mRefCount >= 1
    BY <1>4 DEF Reject, TaskTypeOK, DelegateOutlivesUsers, OwnerHolds, ThreadHolds
  <2>2. TaskTypeOK'
    BY <1>1, <1>4, <2>1, DestroyDelegate DEF Reject, TaskTypeOK, OwnerAt
  <2>3. (DelegateOutlivesUsers /\ Starting /\ Stopping /\ Receiving /\ TaskLives)'
    BY <1>1, <1>4, <2>1, DestroyDelegate DEF Reject, TaskTypeOK, DelegateOutlivesUsers,
       OwnerHolds, ThreadHolds, Starting, Stopping, Receiving, TaskLives
  <2>. QED BY <2>2, <2>3
<1>. QED BY <1>2, <1>3, <1>4

\* destroy(): it deletes the MsgTask itself only if that has no thread.
LEMMA DestroySteps ==
  ASSUME TaskIInv, ReadThread \/ DeleteThread
  PROVE  TaskIInv'
<1> USE DEF TaskIInv, queue
<1>1. CASE ReadThread
  <2>1. CASE mThread
    <3>1. /\ owner = "idle" /\ owner' = "byes" /\ unblocked
          /\ UNCHANGED <<delegate, thread, runnable, exists, queue, receiver, hand, message>>
          /\ mThread' = FALSE
      BY <1>1, <2>1 DEF ReadThread, Starting
    <3>. QED BY <3>1 DEF TaskTypeOK, OwnerAt, DelegateOutlivesUsers, OwnerHolds, ThreadHolds,
           Starting, Stopping, Receiving, TaskLives
  <2>2. CASE ~mThread
    <3>1. /\ owner = "failed" /\ owner' = "done" /\ thread = "none" /\ exists' = FALSE
          /\ msg_list' = <<>> /\ mThread' = FALSE
          /\ UNCHANGED <<delegate, thread, runnable, unblocked, receiver, hand>>
      BY <1>1, <2>2 DEF ReadThread, Starting, Delete
    <3>2. Delete
      BY <1>1, <2>2 DEF ReadThread
    <3>3. TaskTypeOK'
      BY <3>1, <3>2, DeleteTypes DEF TaskTypeOK, OwnerAt
    <3>. QED BY <3>1, <3>3 DEF TaskTypeOK, DelegateOutlivesUsers, OwnerHolds, ThreadHolds,
           Starting, Stopping, Receiving, TaskLives
  <2>. QED BY <2>1, <2>2
<1>2. CASE DeleteThread
  <2>1. UNCHANGED <<exists, mThread, queue, receiver, hand, message>>
    BY <1>2 DEF DeleteThread
  <2>2. delegate \in Delegate
    BY DEF TaskTypeOK
  <2>3. CASE Bye
    <3>1. owner = "byes" /\ owner' \in {"joins", "releases"} /\ UNCHANGED <<thread, runnable>>
      BY <2>3 DEF Bye
    <3>. QED BY <2>1, <2>2, <2>3, <3>1, StopDelegate DEF TaskTypeOK, OwnerAt,
           DelegateOutlivesUsers, OwnerHolds, ThreadHolds, Starting, Stopping, Receiving, TaskLives
  <2>4. CASE Join
    BY <2>1, <2>4 DEF Join, TaskTypeOK, OwnerAt, DelegateOutlivesUsers, OwnerHolds,
       ThreadHolds, Starting, Stopping, Receiving, TaskLives
  <2>5. CASE Release
    <3>1. delegate.mRefCount >= 1
      BY <2>5 DEF Release, TaskTypeOK, Delegate, DelegateOutlivesUsers, OwnerHolds, ThreadHolds
    <3>2. TaskTypeOK'
      BY <2>1, <2>2, <2>5, <3>1, DestroyDelegate DEF Release, TaskTypeOK, OwnerAt
    <3>3. (DelegateOutlivesUsers /\ Starting /\ Stopping /\ Receiving /\ TaskLives)'
      BY <2>1, <2>2, <2>5, <3>1, DestroyDelegate DEF Release, TaskTypeOK, DelegateOutlivesUsers,
         OwnerHolds, ThreadHolds, Starting, Stopping, Receiving, TaskLives
    <3>. QED BY <3>2, <3>3
  <2>. QED BY <1>2, <2>3, <2>4, <2>5 DEF DeleteThread
<1>. QED BY <1>1, <1>2

\* threadMain: it lets go of the delegate once, after it deleted the MsgTask.
LEMMA MainSteps ==
  ASSUME TaskIInv, Main \/ DeleteTask
  PROVE  TaskIInv'
<1> USE DEF TaskIInv, queue
<1>1. CASE Main
  <2>1. UNCHANGED <<exists, mThread, queue, receiver, hand, message>>
    BY <1>1 DEF Main
  <2>2. delegate \in Delegate
    BY DEF TaskTypeOK
  <2>3. CASE Begin
    <3>1. /\ thread = "begins" /\ UNCHANGED <<delegate, owner>>
          /\ thread' = "tests" \/ (thread' = "destroys" /\ ~delegate.mRunnable)
      BY <2>3 DEF Begin
    <3>2. runnable' \in BOOLEAN
      BY <2>2, <2>3 DEF Begin, Delegate
    <3>3. TaskTypeOK'
      BY <2>1, <3>1, <3>2 DEF TaskTypeOK, ThreadAt
    <3>4. (DelegateOutlivesUsers /\ Starting /\ Stopping /\ Receiving /\ TaskLives)'
      BY <2>1, <3>1 DEF TaskTypeOK, DelegateOutlivesUsers, OwnerHolds, ThreadHolds, Starting,
         Stopping, Receiving, TaskLives
    <3>. QED BY <3>3, <3>4
  <2>4. CASE Test
    BY <2>1, <2>4 DEF Test, TaskTypeOK, ThreadAt, DelegateOutlivesUsers, OwnerHolds,
       ThreadHolds, Starting, Stopping, Receiving, TaskLives
  <2>5. CASE Clear
    <3>1. thread = "clears" /\ thread' = "deletes" /\ UNCHANGED <<owner, runnable>>
      BY <2>5 DEF Clear
    <3>. QED BY <2>1, <2>2, <2>5, <3>1, StopDelegate DEF TaskTypeOK, ThreadAt,
           DelegateOutlivesUsers, OwnerHolds, ThreadHolds, Starting, Stopping, Receiving, TaskLives
  <2>6. CASE LetGo
    <3>1. delegate.mRefCount >= 1
      BY <2>6 DEF LetGo, TaskTypeOK, Delegate, DelegateOutlivesUsers, OwnerHolds, ThreadHolds
    <3>2. TaskTypeOK'
      BY <2>1, <2>2, <2>6, <3>1, DestroyDelegate DEF LetGo, TaskTypeOK, ThreadAt
    <3>3. (DelegateOutlivesUsers /\ Starting /\ Stopping /\ Receiving /\ TaskLives)'
      BY <2>1, <2>2, <2>6, <3>1, DestroyDelegate DEF LetGo, TaskTypeOK, DelegateOutlivesUsers,
         OwnerHolds, ThreadHolds, Starting, Stopping, Receiving, TaskLives
    <3>. QED BY <3>2, <3>3
  <2>. QED BY <1>1, <2>3, <2>4, <2>5, <2>6 DEF Main
<1>2. CASE DeleteTask
  <2>1. /\ thread = "deletes" /\ thread' = "destroys" /\ exists' = FALSE /\ msg_list' = <<>>
        /\ UNCHANGED <<delegate, owner, runnable, mThread, unblocked, receiver, hand>>
    BY <1>2 DEF DeleteTask, DeleteRunnable, Delete
  <2>2. Delete
    BY <1>2 DEF DeleteTask
  <2>3. TaskTypeOK'
    BY <2>1, <2>2, DeleteTypes DEF TaskTypeOK, ThreadAt
  <2>4. (DelegateOutlivesUsers /\ Starting /\ Stopping /\ Receiving /\ TaskLives)'
    BY <2>1 DEF DelegateOutlivesUsers, OwnerHolds, ThreadHolds, Starting, Stopping,
       Receiving, TaskLives
  <2>. QED BY <2>3, <2>4
<1>. QED BY <1>1, <1>2

\* run(): it gives up only on a queue that was unblocked.
LEMMA RunSteps ==
  ASSUME TaskIInv, Rcv \/ Woken \/ ProcEnds
  PROVE  TaskIInv'
<1> USE DEF TaskIInv, TaskTypeOK, ThreadAt, DelegateOutlivesUsers, OwnerHolds, ThreadHolds,
      Starting, Stopping, Receiving, TaskLives, locThread, queue, RunReturns
<1>1. ASSUME Remove, thread = "runs", UNCHANGED <<exists, mThread, unblocked>> PROVE TaskIInv'
  <2>1. Head(msg_list) \in Messages /\ Tail(msg_list) \in Seq(Messages)
    BY <1>1 DEF Remove
  <2>2. hand' # <<>> /\ hand' \in {<<m>> : m \in Messages}
    BY <1>1, <2>1 DEF Remove
  <2>. QED BY <1>1, <2>1, <2>2 DEF Remove
<1>2. CASE Rcv
  BY <1>1, <1>2 DEF Rcv
<1>3. CASE Woken
  BY <1>1, <1>3 DEF Woken
<1>4. CASE ProcEnds
  BY <1>4 DEF ProcEnds
<1>. QED BY <1>2, <1>3, <1>4

LEMMA NextTaskIInv == TaskIInv /\ [TaskNext]_msgTaskVars => TaskIInv'
<1> SUFFICES ASSUME TaskIInv, [TaskNext]_msgTaskVars PROVE TaskIInv'
  OBVIOUS
<1>1. CASE TaskNext
  <2>1. CASE \E m \in Messages : Send(m) \/ SendFromProc(m)
    BY <2>1, SendSteps
  <2>2. CASE Unblock \/ WakeTaskForNothing
    BY <2>2, WakeSteps
  <2>3. CASE Constructor
    BY <2>3, ConstructorStep
  <2>4. CASE ReadThread \/ DeleteThread
    BY <2>4, DestroySteps
  <2>5. CASE Thread
    BY <2>5, MainSteps, RunSteps DEF Thread
  <2>. QED BY <1>1, <2>1, <2>2, <2>3, <2>4, <2>5 DEF TaskNext
<1>2. CASE UNCHANGED msgTaskVars
  BY <1>2 DEF msgTaskVars, locThread, queue, TaskIInv, TaskTypeOK, DelegateOutlivesUsers, OwnerHolds,
     ThreadHolds, Starting, Stopping, Receiving, TaskLives
<1>. QED BY <1>1, <1>2

LEMMA TaskInvariant == TaskSpec => []TaskIInv
  BY InitTaskIInv, NextTaskIInv, PTL DEF TaskSpec

-----------------------------------------------------------------------------
(* The theorems                                                            *)

\* Each variable keeps its type.
THEOREM TaskTypeCorrect == TaskSpec => []TaskTypeOK
<1>1. TaskIInv => TaskTypeOK
  BY DEF TaskIInv
<1>. QED BY <1>1, TaskInvariant, PTL

\* The owner and the thread let go of the delegate once each, in either order,
\* and the last of them deletes it.
THEOREM DelegateSafe == TaskSpec => []DelegateOutlivesUsers
<1>1. TaskIInv => DelegateOutlivesUsers
  BY DEF TaskIInv
<1>. QED BY <1>1, TaskInvariant, PTL

\* The thread never uses the queue of a deleted MsgTask.
THEOREM QueueSafe == TaskSpec => []QueueOutlivesReceiver
<1>1. TaskIInv => QueueOutlivesReceiver
  BY DEF TaskIInv, TaskLives, QueueOutlivesReceiver
<1>. QED BY <1>1, TaskInvariant, PTL

-----------------------------------------------------------------------------
(* The queue and its thread implement Mailbox                              *)

\* msg_q_snd puts a message in, or refuses it.
LEMMA SendPuts ==
  ASSUME NEW m \in Messages, Snd(m), UNCHANGED <<unblocked, hand>>
  PROVE  Box!Next \/ UNCHANGED Box!mailbox
  BY DEF Snd, Box!Next, Box!Put, Box!mailbox

\* linked_list_remove takes the oldest message, when there is none in hand.
LEMMA RemoveTakes ==
  ASSUME TaskIInv, receiver # "proc", Remove, UNCHANGED unblocked
  PROVE  Box!Next
<1>1. hand = <<>>
  BY DEF TaskIInv, Receiving
<1>. QED BY <1>1 DEF Remove, Box!Next, Box!Take

\* ~MsgTask discards what is left, of a closed mailbox and with nothing in hand.
LEMMA DeleteDiscards ==
  ASSUME TaskIInv, Delete, unblocked, thread # "runs", UNCHANGED <<unblocked, hand>>
  PROVE  Box!Next
<1>1. hand = <<>>
  BY DEF TaskIInv, Receiving
<1>. QED BY <1>1 DEF Delete, Box!Next, Box!Discard

\* To its users a MsgTask is a mailbox: nothing is put in after destroy(),
\* messages are handled one at a time in the order they were sent, and nothing
\* is discarded before destroy() or while a message is being handled.
THEOREM MailboxImplemented == TaskSpec => ImplementsMailbox
<1>1. TaskInit => Box!Init
  BY DEF TaskInit, Box!Init
<1>2. TaskIInv /\ [TaskNext]_msgTaskVars => [Box!Next]_(Box!mailbox)
  <2> SUFFICES ASSUME TaskIInv, [TaskNext]_msgTaskVars
               PROVE  Box!Next \/ UNCHANGED Box!mailbox
    OBVIOUS
  <2>1. ASSUME NEW m \in Messages, Send(m) \/ SendFromProc(m)
        PROVE  Box!Next \/ UNCHANGED Box!mailbox
    BY <2>1, SendPuts DEF Send, SendFromProc
  <2>2. CASE Constructor \/ DeleteThread \/ Main \/ WakeTaskForNothing
    BY <2>2 DEF Constructor, DeleteThread, Main, WakeTaskForNothing, queue, Box!mailbox
  <2>3. CASE Unblock
    BY <2>3 DEF Unblock, Box!Next, Box!Close
  <2>4. CASE ReadThread
    <3>1. CASE mThread
      BY <2>4, <3>1 DEF ReadThread, Box!mailbox
    <3>2. CASE ~mThread
      <4>1. Delete /\ unblocked /\ UNCHANGED <<unblocked, hand>>
        BY <2>4, <3>2 DEF ReadThread
      <4>2. thread # "runs"
        BY <2>4, <3>2 DEF ReadThread, TaskIInv, Starting
      <4>. QED BY <4>1, <4>2, DeleteDiscards
    <3>. QED BY <3>1, <3>2
  <2>5. CASE Rcv
    BY <2>5, RemoveTakes DEF Rcv, queue, Box!mailbox
  <2>6. CASE Woken
    BY <2>6, RemoveTakes DEF Woken, queue, Box!mailbox
  <2>7. CASE ProcEnds
    BY <2>7 DEF ProcEnds, TaskIInv, Receiving, queue, Box!Next, Box!Finish
  <2>8. CASE DeleteTask
    <3>1. Delete /\ thread = "deletes" /\ UNCHANGED <<unblocked, hand>>
      BY <2>8 DEF DeleteTask, DeleteRunnable
    <3>. QED BY <3>1, DeleteDiscards DEF TaskIInv, Stopping
  <2>9. CASE UNCHANGED msgTaskVars
    BY <2>9 DEF msgTaskVars, queue, Box!mailbox
  <2>. QED BY <2>1, <2>2, <2>3, <2>4, <2>5, <2>6, <2>7, <2>8, <2>9 DEF TaskNext, Thread
<1>. QED BY <1>1, <1>2, TaskInvariant, PTL DEF TaskSpec, ImplementsMailbox, Box!Spec

-----------------------------------------------------------------------------
(* Nothing is left behind                                                  *)

Emptied == ~exists /\ \A m \in Messages : message[m] # "queued"

\* A thread that had its runnable has deleted the MsgTask and its messages when
\* it lets go of the delegate; a MsgTask without a thread was deleted by
\* destroy(); and a thread that start() reported is there.
Ending ==
  /\ thread \in {"destroys", "ended"} /\ runnable => unblocked /\ Emptied
  /\ owner = "done" /\ thread = "none" => Emptied
  /\ owner \in {"idle", "byes", "joins", "releases"} => thread # "none"
  /\ owner \in {"creates", "checks"} /\ thread = "none" => ~delegate.mRunnable

\* ~MsgTask leaves no message queued.
LEMMA DeleteEmpties ==
  ASSUME Delete
  PROVE  Emptied'
  BY DEF Delete, Emptied

\* A step that sends nothing, deletes nothing and moves neither thread.
LEMMA EndingFrame ==
  ASSUME Ending, UNCHANGED <<delegate, owner, thread, runnable, exists>>,
         unblocked' = unblocked \/ unblocked',
         \A m \in Messages : message'[m] = "queued" => message[m] = "queued"
  PROVE  Ending'
  BY DEF Ending, Emptied

LEMMA NextEnding ==
  ASSUME TaskIInv, Ending, [TaskNext]_msgTaskVars
  PROVE  Ending'
<1> USE DEF locThread, queue
<1>1. ASSUME NEW m \in Messages, Send(m) \/ SendFromProc(m) PROVE Ending'
  <2>1. UNCHANGED <<delegate, owner, thread, runnable, exists, unblocked>>
    BY <1>1 DEF Send, SendFromProc
  <2>2. ~(thread \in {"destroys", "ended"} /\ runnable) /\ ~(owner = "done" /\ thread = "none")
    <3>1. CASE Send(m)
      BY <3>1 DEF Send, Ending
    <3>2. CASE SendFromProc(m)
      BY <3>2 DEF SendFromProc, TaskIInv, Receiving
    <3> QED BY <1>1, <3>1, <3>2
  <2> QED BY <2>1, <2>2 DEF Ending, Emptied
<1>2. CASE Constructor
  <2>1. UNCHANGED <<exists, unblocked, message>>
    BY <1>2 DEF Constructor
  <2>2. CASE Create
    <3>1. owner = "creates" /\ owner' = "checks" /\ runnable' = runnable /\ thread = "none"
      BY <2>2 DEF Create, TaskIInv, Starting
    <3>2. thread' = "begins" \/ (thread' = "none" /\ delegate'.mRunnable = delegate.mRunnable)
      BY <2>2, <3>1 DEF Create, TaskIInv, TaskTypeOK, Delegate
    <3> QED BY <3>1, <3>2 DEF Ending
  <2>3. CASE Check
    BY <2>1, <2>3 DEF Check, Ending, Emptied
  <2>4. CASE Reject
    BY <2>1, <2>4 DEF Reject, Ending, Emptied
  <2> QED BY <1>2, <2>2, <2>3, <2>4 DEF Constructor
<1>3. CASE Unblock \/ WakeTaskForNothing
  BY <1>3, EndingFrame DEF Unblock, WakeTaskForNothing
<1>4. CASE ReadThread
  <2>1. CASE mThread
    BY <1>4, <2>1 DEF ReadThread, TaskIInv, Starting, Ending, Emptied
  <2>2. CASE ~mThread
    BY <1>4, <2>2, DeleteEmpties DEF ReadThread, Ending
  <2> QED BY <2>1, <2>2
<1>5. CASE DeleteThread
  <2>1. UNCHANGED <<exists, unblocked, message, thread, runnable>> /\ owner \in {"byes", "joins", "releases"}
        /\ owner' \in {"joins", "releases", "done"}
    BY <1>5 DEF DeleteThread, Bye, Join, Release
  <2> QED BY <2>1 DEF Ending, Emptied
<1>6. CASE Main
  <2>1. UNCHANGED <<exists, unblocked, message, owner>>
    BY <1>6 DEF Main, Begin, Test, Clear, LetGo
  <2>2. thread # "none" /\ thread' # "none"
    BY <1>6 DEF Main, Begin, Test, Clear, LetGo
  <2>3. thread' \in {"destroys", "ended"} /\ runnable' => thread = "destroys" /\ runnable
    BY <1>6 DEF Main, Begin, Test, Clear, LetGo
  <2> QED BY <2>1, <2>2, <2>3 DEF Ending, Emptied
<1>7. CASE Rcv \/ Woken \/ ProcEnds
  <2>1. thread = "runs" /\ thread' \in {"runs", "tests", "clears"} /\ owner' = owner
    BY <1>7 DEF Rcv, Woken, ProcEnds, Remove, RunReturns, TaskIInv, Receiving
  <2> QED BY <2>1 DEF Ending
<1>8. CASE DeleteTask
  <2>1. /\ thread = "deletes" /\ thread' = "destroys" /\ owner' = owner
        /\ unblocked' = unblocked /\ Delete
    BY <1>8 DEF DeleteTask, DeleteRunnable
  <2>2. unblocked
    BY <2>1 DEF TaskIInv, Stopping
  <2> QED BY <2>1, <2>2, DeleteEmpties DEF Ending
<1>9. CASE UNCHANGED msgTaskVars
  BY <1>9, EndingFrame DEF msgTaskVars
<1> QED BY <1>1, <1>2, <1>3, <1>4, <1>5, <1>6, <1>7, <1>8, <1>9 DEF TaskNext, Thread

\* Whichever of destroy() and the thread comes last, the delegate is there as
\* long as it is needed and nothing is left at the end (no MsgTask, no queued
\* message, no delegate) of a thread that got its runnable, or that could not be
\* created.  A joinable thread whose owner stopped it before it looked finds no
\* runnable and deletes nothing (LocThread.cpp:181).
THEOREM DeletedProved == TaskSpec => []DeletedInTime
<1>1. TaskInit => Ending
  BY DEF TaskInit, LocThreadInit, Ending
<1>2. TaskIInv /\ Ending /\ [TaskNext]_msgTaskVars => Ending'
  BY NextEnding
<1>3. TaskIInv /\ Ending => DeletedInTime
  <2> SUFFICES ASSUME TaskIInv, Ending PROVE DelegateOutlivesUsers /\ NothingLeft
    BY DEF DeletedInTime
  <2>1. DelegateOutlivesUsers
    BY DEF TaskIInv
  <2>2. ASSUME Over, runnable \/ thread = "none"
        PROVE  Emptied /\ ~delegate.alive
    <3>1. ~OwnerHolds /\ ~ThreadHolds
      BY <2>2 DEF Over, OwnerHolds, ThreadHolds
    <3> QED BY <2>1, <2>2, <3>1 DEF Over, Ending, DelegateOutlivesUsers
  <2> QED BY <2>1, <2>2 DEF NothingLeft, Emptied
<1> QED BY <1>1, <1>2, <1>3, TaskInvariant, PTL DEF TaskSpec
==============================================================================
