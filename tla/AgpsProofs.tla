----------------------------- MODULE AgpsProofs -----------------------------
(***************************************************************************)
(* Proofs about AgpsStateMachine.tla and AgpsService.tla, for any set of   *)
(* clients, for every kind of machine, with and without modem restarts and *)
(* as long as no start of ds_nif fails (DSStateMachine.tla has those):     *)
(* the type invariant of the machine, its safety invariants, and that it   *)
(* implements SharedNif.tla; that the service is one way to use the        *)
(* machine; and that the machine's state fits the framework's connection.  *)
(***************************************************************************)
EXTENDS AgpsService, TLAPS

\* The named safety properties are inductive together with the types.
IInv ==
  /\ TypeOK
  /\ ListFollowsState
  /\ HeldForSomeone
  /\ NobodyLeftBehind
  /\ ActiveKnowsState
  /\ SingleSubscriber
  /\ RequestIsListed

\* Every method of the machine leaves its variables in their types.
LEMMA TypeStep == TypeOK /\ [Next]_machine => TypeOK'
<1> USE AgpsAssumption DEF TypeOK, States, Statuses, Requests, Tell, Delete,
      AddSubscriber, SendRsrcRequest, DropOrDeactivate
<1> SUFFICES ASSUME TypeOK, [Next]_machine PROVE TypeOK'
  OBVIOUS
<1> UNCHANGED kind
  BY DEF Next, machine
<1>1. ASSUME NEW c \in Clients, SubscribeRefused(c) PROVE TypeOK'
  BY <1>1 DEF SubscribeRefused
<1>2. ASSUME NEW c \in Clients, SubscribeAccepted(c) PROVE TypeOK'
  BY <1>2 DEF SubscribeAccepted, SubscribeReleased, SubscribeWaiting, SubscribeAcquired
<1>3. ASSUME NEW c \in Clients, Unsubscribe(c) PROVE TypeOK'
  BY <1>3 DEF Unsubscribe, UnsubscribeKeep, UnsubscribeLast, UnsubscribeReleasing
<1>4. ASSUME NEW e \in {"GRANTED", "DENIED", "RELEASED"}, OnRsrcEvent(e) PROVE TypeOK'
  BY <1>4 DEF OnRsrcEvent, GrantPending, EndForAll, ConfirmClose, Ignored
<1>5. CASE DropAllSubscribers
  BY <1>5 DEF DropAllSubscribers
<1>6. CASE UNCHANGED machine
  BY <1>6 DEF machine
<1>. QED BY <1>1, <1>2, <1>3, <1>4, <1>5, <1>6 DEF Next

LEMMA TypeCorrect == Spec => []TypeOK
<1>1. Init => TypeOK
  BY AgpsAssumption DEF Init, TypeOK, States, Statuses, Requests
<1>. QED BY <1>1, TypeStep, PTL DEF Spec

-----------------------------------------------------------------------------
(* The step lemmas: each method preserves the whole inductive invariant.   *)

LEMMA InitIInv == Init => IInv
  BY AgpsAssumption DEF Init, IInv, TypeOK, States, Statuses, Requests,
     ListFollowsState, HeldForSomeone, NobodyLeftBehind, ActiveKnowsState,
     SingleSubscriber, RequestIsListed, Active, Inactive, Subscribed

\* A client asks: the lists and the answers stay in step.
LEMMA SubscribeIInv ==
  ASSUME IInv, TypeOK', UNCHANGED kind, NEW c \in Clients,
         SubscribeRefused(c) \/ SubscribeAccepted(c)
  PROVE  IInv'
<1> USE AgpsAssumption DEF IInv, TypeOK, States, Statuses, Requests,
      ListFollowsState, HeldForSomeone, NobodyLeftBehind, ActiveKnowsState,
      SingleSubscriber, RequestIsListed, Active, Inactive, Subscribed, Tell,
      EnforceSingleSubscriber, WaitForCloseComplete
<1>1. CASE SubscribeRefused(c)
  BY <1>1 DEF SubscribeRefused
<1>2. CASE SubscribeAccepted(c)
  <2> USE DEF AddSubscriber
  <2>1. CASE SubscribeReleased(c)
    BY <1>2, <2>1 DEF SubscribeAccepted, SubscribeReleased
  <2>2. CASE SubscribeWaiting(c)
    BY <1>2, <2>2 DEF SubscribeAccepted, SubscribeWaiting
  <2>3. CASE SubscribeAcquired(c)
    BY <1>2, <2>3 DEF SubscribeAccepted, SubscribeAcquired
  <2>. QED BY <1>2, <2>1, <2>2, <2>3 DEF SubscribeAccepted
<1>. QED BY <1>1, <1>2

\* A client leaves.
LEMMA UnsubscribeIInv ==
  ASSUME IInv, TypeOK', UNCHANGED kind, NEW c \in Clients, Unsubscribe(c)
  PROVE  IInv'
<1> USE AgpsAssumption DEF IInv, TypeOK, States, Statuses, Requests,
      ListFollowsState, HeldForSomeone, NobodyLeftBehind, ActiveKnowsState,
      SingleSubscriber, RequestIsListed, Active, Inactive, Subscribed, Tell,
      EnforceSingleSubscriber, WaitForCloseComplete, DropOrDeactivate, Unsubscribe
<1>1. CASE UnsubscribeKeep(c)
  BY <1>1 DEF UnsubscribeKeep
<1>2. CASE UnsubscribeLast(c)
  BY <1>2 DEF UnsubscribeLast
<1>3. CASE UnsubscribeReleasing(c)
  BY <1>3 DEF UnsubscribeReleasing
<1>. QED BY <1>1, <1>2, <1>3

\* The framework reports.
LEMMA EventIInv ==
  ASSUME IInv, TypeOK', UNCHANGED kind, NEW e \in {"GRANTED", "DENIED", "RELEASED"}, OnRsrcEvent(e)
  PROVE  IInv'
<1> USE AgpsAssumption DEF IInv, TypeOK, States, Statuses, Requests,
      ListFollowsState, HeldForSomeone, NobodyLeftBehind, ActiveKnowsState,
      SingleSubscriber, RequestIsListed, Active, Inactive, Subscribed, Tell, Delete,
      EnforceSingleSubscriber, WaitForCloseComplete
<1>1. CASE GrantPending
  BY <1>1 DEF GrantPending
<1>2. ASSUME NEW s \in {"DENIED", "RELEASED"}, EndForAll(s) PROVE IInv'
  BY <1>2 DEF EndForAll
<1>3. ASSUME NEW s \in {"DENIED", "RELEASED"}, ConfirmClose(s) PROVE IInv'
  BY <1>3 DEF ConfirmClose
<1>4. CASE Ignored(e)
  BY <1>4 DEF Ignored
<1>. QED BY <1>1, <1>2, <1>3, <1>4 DEF OnRsrcEvent

\* The modem restarts.
LEMMA DropIInv ==
  ASSUME IInv, TypeOK', UNCHANGED kind, DropAllSubscribers
  PROVE  IInv'
BY AgpsAssumption DEF IInv, TypeOK, States, Statuses, Requests,
      ListFollowsState, HeldForSomeone, NobodyLeftBehind, ActiveKnowsState,
      SingleSubscriber, RequestIsListed, Active, Inactive, Subscribed, Tell,
      EnforceSingleSubscriber, WaitForCloseComplete, DropAllSubscribers

LEMMA NextIInv ==
  ASSUME IInv, [Next]_machine  PROVE IInv'
<1>1. TypeOK'
  BY TypeStep DEF IInv
<1>2. CASE UNCHANGED machine
  BY <1>2 DEF machine, IInv, TypeOK, ListFollowsState, HeldForSomeone,
     NobodyLeftBehind, ActiveKnowsState, SingleSubscriber, RequestIsListed, Active, Inactive,
     Subscribed, WaitForCloseComplete, EnforceSingleSubscriber
<1>. QED
  BY <1>1, <1>2, SubscribeIInv, UnsubscribeIInv, EventIInv, DropIInv DEF Next

\* Whatever the clients and the framework do, in any order, the state, the
\* list and what the clients were told agree.
THEOREM Invariant == Spec => []IInv
  BY InitIInv, NextIInv, PTL DEF Spec

\* AgpsReleasedState never finds a subscriber on its list, AgpsReleasingState
\* has an inactive one, and only machines that wait for the close have any: for
\* agnss_nif, internet_nif and wifi_nif, and for ds_nif as long as no start of
\* its data call fails, which would leave the client listed in Released.
THEOREM ListAgreesWithState == Spec => []ListFollowsState
  BY Invariant, PTL DEF IInv

\* No client is forgotten: who waits for the NIF or has it stays listed.
THEOREM NoClientForgotten == Spec => []NobodyLeftBehind
  BY Invariant, PTL DEF IInv

\* Active clients were told what the state says.
THEOREM AnswersAgreeWithState == Spec => []ActiveKnowsState
  BY Invariant, PTL DEF IInv

\* The exclusive NIF has one subscriber at most.
THEOREM OneSubscriber == Spec => []SingleSubscriber
  BY Invariant, PTL DEF IInv

\* A request that is not answered is an active entry of the list.
THEOREM RequestsAreListed == Spec => []RequestIsListed
  BY Invariant, PTL DEF IInv

-----------------------------------------------------------------------------
(* The machine implements SharedNif: each method is one abstract step or   *)
(* none, whichever client calls it and however many there are.             *)

LEMMA SubscribeRefines ==
  ASSUME IInv, IInv', UNCHANGED kind, NEW c \in Clients,
         SubscribeRefused(c) \/ SubscribeAccepted(c)
  PROVE  [Nif!Next]_(Nif!nifVars)
<1> USE AgpsAssumption DEF IInv, TypeOK, States, Statuses, Requests,
      ListFollowsState, ActiveKnowsState, SingleSubscriber, RequestIsListed, Active, Inactive,
      Subscribed, Tell, EnforceSingleSubscriber, WaitForCloseComplete,
      Waiting, Using, Rebuffed, Connection, Nif!nifVars
<1>1. CASE SubscribeRefused(c)
  <2>1. UNCHANGED Nif!nifVars
    BY <1>1 DEF SubscribeRefused
  <2>. QED BY <2>1
<1>2. CASE SubscribeAccepted(c)
  <2> USE DEF AddSubscriber, SubscribeAccepted
  <2>1. CASE SubscribeReleased(c)
    <3>1. Nif!Ask(c)
      BY <1>2, <2>1 DEF SubscribeReleased, Nif!Ask
    <3>. QED BY <3>1 DEF Nif!Next
  <2>2. CASE SubscribeWaiting(c)
    <3>1. CASE subs[c] = "inactive"
      <4>1. UNCHANGED Nif!nifVars
        BY <1>2, <2>2, <3>1 DEF SubscribeWaiting
      <4>. QED BY <4>1
    <3>2. CASE subs[c] # "inactive"
      <4>1. Nif!Ask(c)
        BY <1>2, <2>2, <3>2 DEF SubscribeWaiting, Nif!Ask
      <4>. QED BY <4>1 DEF Nif!Next
    <3>. QED BY <3>1, <3>2
  <2>3. CASE SubscribeAcquired(c)
    <3>1. CASE subs[c] = "inactive"
      <4>1. UNCHANGED Nif!nifVars
        BY <1>2, <2>3, <3>1 DEF SubscribeAcquired
      <4>. QED BY <4>1
    <3>2. CASE subs[c] # "inactive"
      <4>1. Nif!Join(c)
        BY <1>2, <2>3, <3>2 DEF SubscribeAcquired, Nif!Join
      <4>. QED BY <4>1 DEF Nif!Next
    <3>. QED BY <3>1, <3>2
  <2>. QED BY <1>2, <2>1, <2>2, <2>3
<1>. QED BY <1>1, <1>2

LEMMA UnsubscribeRefines ==
  ASSUME IInv, IInv', UNCHANGED kind, NEW c \in Clients, Unsubscribe(c)
  PROVE  [Nif!Next]_(Nif!nifVars)
<1> USE AgpsAssumption DEF IInv, TypeOK, States, Statuses, Requests,
      ListFollowsState, ActiveKnowsState, SingleSubscriber, RequestIsListed, Active, Inactive,
      Subscribed, Tell, EnforceSingleSubscriber, WaitForCloseComplete,
      DropOrDeactivate, Waiting, Using, Rebuffed, Connection, Nif!nifVars
<1>1. CASE c \in Waiting \cup Using
  <2>1. Nif!Leave(c)
    BY <1>1 DEF Unsubscribe, UnsubscribeKeep, UnsubscribeLast,
       UnsubscribeReleasing, Nif!Leave
  <2>. QED BY <2>1 DEF Nif!Next
<1>2. CASE c \notin Waiting \cup Using
  <2>1. UNCHANGED Nif!nifVars \/ Nif!Ended
    BY <1>2 DEF Unsubscribe, UnsubscribeKeep, UnsubscribeLast,
       UnsubscribeReleasing, Nif!Ended
  <2>. QED BY <2>1 DEF Nif!Next
<1>. QED BY <1>1, <1>2

LEMMA EventRefines ==
  ASSUME IInv, IInv', UNCHANGED kind, NEW e \in {"GRANTED", "DENIED", "RELEASED"}, OnRsrcEvent(e)
  PROVE  [Nif!Next]_(Nif!nifVars)
<1> USE AgpsAssumption DEF IInv, TypeOK, States, Statuses, Requests,
      ListFollowsState, ActiveKnowsState, SingleSubscriber, RequestIsListed, Active, Inactive,
      Subscribed, Tell, Delete, EnforceSingleSubscriber, WaitForCloseComplete,
      Waiting, Using, Rebuffed, Connection, Nif!nifVars
<1>1. CASE GrantPending
  <2>1. Nif!Granted
    BY <1>1 DEF GrantPending, Nif!Granted
  <2>. QED BY <2>1 DEF Nif!Next
<1>2. ASSUME NEW s \in {"DENIED", "RELEASED"}, EndForAll(s)
      PROVE  [Nif!Next]_(Nif!nifVars)
  <2>1. Nif!Ended
    BY <1>2 DEF EndForAll, Nif!Ended
  <2>. QED BY <2>1 DEF Nif!Next
<1>3. ASSUME NEW s \in {"DENIED", "RELEASED"}, ConfirmClose(s)
      PROVE  [Nif!Next]_(Nif!nifVars)
  <2>1. UNCHANGED Nif!nifVars
    BY <1>3 DEF ConfirmClose
  <2>. QED BY <2>1
<1>4. CASE Ignored(e)
  <2>1. UNCHANGED Nif!nifVars
    BY <1>4 DEF Ignored
  <2>. QED BY <2>1
<1>. QED BY <1>1, <1>2, <1>3, <1>4 DEF OnRsrcEvent

LEMMA DropRefines ==
  ASSUME IInv, IInv', UNCHANGED kind, DropAllSubscribers
  PROVE  [Nif!Next]_(Nif!nifVars)
<1>1. Nif!Forget
  BY AgpsAssumption DEF IInv, TypeOK, ListFollowsState, Active, Inactive,
     Subscribed, WaitForCloseComplete, DropAllSubscribers, Waiting, Using,
     Rebuffed, Connection, Nif!Forget
<1>. QED BY <1>1 DEF Nif!Next

\* The clients of every machine share its NIF as SharedNif says: all that
\* wait are served in one step, all lose it in one step, and the NIF goes
\* with the last of them.
THEOREM Refinement == Spec => ImplementsSharedNif
<1>1. Init => Nif!Init
  BY DEF Init, Nif!Init, Waiting, Using, Rebuffed, Connection, Active
<1>2. IInv /\ IInv' /\ [Next]_machine => [Nif!Next]_(Nif!nifVars)
  <2> SUFFICES ASSUME IInv, IInv', [Next]_machine
               PROVE  [Nif!Next]_(Nif!nifVars)
    OBVIOUS
  <2>1. CASE UNCHANGED machine
    BY <2>1 DEF machine, Nif!nifVars, Waiting, Using, Rebuffed, Connection, Active
  <2>. QED
    BY <2>1, SubscribeRefines, UnsubscribeRefines, EventRefines, DropRefines DEF Next
<1>. QED BY <1>1, <1>2, Invariant, PTL DEF Spec, ImplementsSharedNif, Nif!Spec

-----------------------------------------------------------------------------
(* The service uses the machine as it is meant to be used.                 *)

Messages ==
  [type : {"SUBSCRIBE", "UNSUBSCRIBE"}, client : Clients]
  \cup [type : {"UP", "GRANTED", "DENIED", "RELEASED"}, client : {"framework"}]

QueuesOK ==
  /\ msgs \in Seq(Messages)
  /\ calls \in Seq({"REQUEST", "RELEASE"})
  /\ conn \in {"off", "opening", "open"}

\* What each message makes of the machine's state and of the calls.
Kept == UNCHANGED <<mState, calls>>
Turns(from, to, call) ==
  /\ mState = from /\ mState' = to
  /\ calls' = IF call = "none" THEN calls ELSE Append(calls, call)

\* A request opens a released machine and changes no other.
LEMMA SubscribeTurns ==
  ASSUME IInv, QueuesOK, UNCHANGED kind, ProcSubscribe
  PROVE  /\ \E c \in Clients : SubscribeRefused(c) \/ SubscribeAccepted(c)
         /\ Kept \/ Turns("Released", "Pending", "REQUEST")
<1> DEFINE c == Head(msgs).client
<1>1. Head(msgs) \in Messages /\ Head(msgs).type = "SUBSCRIBE"
  BY DEF QueuesOK, ProcSubscribe, Take
<1>2. c \in Clients
  BY <1>1 DEF Messages
<1>3. Forward /\ (SubscribeRefused(c) \/ SubscribeAccepted(c))
  BY DEF ProcSubscribe
<1> HIDE DEF c
<1>4. CASE SubscribeReleased(c) /\ ~(EnforceSingleSubscriber /\ Subscribed # {})
  <2>1. c \in Active'
    BY <1>2, <1>4 DEF SubscribeReleased, AddSubscriber, IInv, TypeOK, ListFollowsState,
       Subscribed, Active, Inactive
  <2>2. sent' = "REQUEST"
    BY <1>4, <2>1 DEF SubscribeReleased, SendRsrcRequest
  <2> QED  BY <1>2, <1>3, <1>4, <2>2 DEF SubscribeReleased, Turns, Forward
<1>5. CASE SubscribeRefused(c) \/ SubscribeWaiting(c) \/ SubscribeAcquired(c)
  <2>1. Kept
    BY <1>3, <1>5 DEF SubscribeRefused, SubscribeWaiting, SubscribeAcquired, Forward, Kept
  <2> QED  BY <1>2, <1>3, <2>1
<1> QED  BY <1>2, <1>3, <1>4, <1>5 DEF SubscribeAccepted

\* The last client that leaves makes the machine send RELEASE; one that waits
\* for the close is then releasing.
LEMMA UnsubscribeTurns ==
  ASSUME IInv, IInv', QueuesOK, UNCHANGED kind, ProcUnsubscribe
  PROVE  /\ \/ \E c \in Clients : Unsubscribe(c)
            \/ UNCHANGED machine
         /\ \/ Kept
            \/ \E from \in {"Pending", "Acquired"}, to \in {"Released", "Releasing"} :
                 Turns(from, to, "RELEASE") /\ (WaitForCloseComplete => to = "Releasing")
<1> DEFINE c == Head(msgs).client
           Goal == \E from \in {"Pending", "Acquired"}, to \in {"Released", "Releasing"} :
                     Turns(from, to, "RELEASE") /\ (WaitForCloseComplete => to = "Releasing")
<1>1. Head(msgs) \in Messages /\ Head(msgs).type = "UNSUBSCRIBE"
  BY DEF QueuesOK, ProcUnsubscribe, Take
<1>2. c \in Clients
  BY <1>1 DEF Messages
<1>3. \/ Unsubscribe(c) /\ Forward
      \/ UNCHANGED <<mState, subs, told, sent, calls>>
  BY DEF ProcUnsubscribe
<1> SUFFICES /\ (\E d \in Clients : Unsubscribe(d)) \/ UNCHANGED machine
             /\ Kept \/ Goal
  OBVIOUS
<1> HIDE DEF c, Goal
<1>4. CASE UNCHANGED <<mState, subs, told, sent, calls>>
  BY <1>4 DEF machine, Kept
<1>5. CASE Unsubscribe(c) /\ Forward
  <2>1. WaitForCloseComplete' = WaitForCloseComplete
    BY DEF WaitForCloseComplete
  <2>2. CASE UnsubscribeKeep(c)
    BY <1>2, <1>5, <2>2 DEF UnsubscribeKeep, Forward, Kept
  <2>3. CASE UnsubscribeLast(c)
    <3>1. sent' = "RELEASE" /\ mState \in {"Pending", "Acquired"}
      BY <2>3 DEF UnsubscribeLast, SendRsrcRequest
    <3>2. mState' \in {"Released", "Releasing"}
      BY <2>3 DEF UnsubscribeLast
    <3>3. WaitForCloseComplete => c \in Inactive'
      BY <1>2, <2>3 DEF UnsubscribeLast, DropOrDeactivate, Inactive, IInv, TypeOK
    <3>4. WaitForCloseComplete => mState' = "Releasing"
      BY <2>3, <3>3 DEF UnsubscribeLast, Subscribed
    <3>5. Goal
      BY <1>5, <3>1, <3>2, <3>4 DEF Goal, Turns, Forward
    <3> QED  BY <1>2, <1>5, <3>5
  <2>4. CASE UnsubscribeReleasing(c)
    <3>1. c \in Inactive'
      BY <1>2, <2>1, <2>4 DEF UnsubscribeReleasing, DropOrDeactivate, Inactive, IInv, TypeOK, ListFollowsState
    <3>2. mState' = mState
      BY <2>4, <3>1 DEF UnsubscribeReleasing, Subscribed
    <3> QED  BY <1>2, <1>5, <2>4, <3>2 DEF UnsubscribeReleasing, Forward, Kept
  <2> QED  BY <1>5, <2>2, <2>3, <2>4 DEF Unsubscribe
<1> QED  BY <1>3, <1>4, <1>5

\* What the reports of the framework do.
LEMMA EventTurns ==
  ASSUME IInv, UNCHANGED kind, NEW event \in {"GRANTED", "DENIED", "RELEASED"}, ProcEvent(event)
  PROVE  /\ OnRsrcEvent(event)
         /\ IF event = "GRANTED"
            THEN Turns("Pending", "Acquired", "none") \/ (mState # "Pending" /\ Kept)
            ELSE \/ Turns("Pending", "Released", "none")
                 \/ Turns("Acquired", "Released", "none")
                 \/ Turns("Releasing", "Released", "none")
                 \/ Turns("Releasing", "Pending", "REQUEST")
                 \/ mState = "Released" /\ Kept
                 \/ mState = "Acquired" /\ event = "DENIED" /\ Kept
                 \/ mState = "Pending" /\ event = "RELEASED" /\ Kept
<1>1. OnRsrcEvent(event) /\ Forward
  BY DEF ProcEvent
<1>2. CASE event = "GRANTED"
  BY <1>1, <1>2 DEF OnRsrcEvent, GrantPending, Ignored, Turns, Kept, Forward
<1>3. CASE event # "GRANTED"
  <2>1. ASSUME NEW s \in {"DENIED", "RELEASED"}, EndForAll(s)
        PROVE  Turns("Pending", "Released", "none") \/ Turns("Acquired", "Released", "none")
    BY <1>1, <2>1 DEF EndForAll, Turns, Forward
  <2>2. ASSUME NEW s \in {"DENIED", "RELEASED"}, ConfirmClose(s)
        PROVE  Turns("Releasing", "Released", "none") \/ Turns("Releasing", "Pending", "REQUEST")
    BY <1>1, <2>2 DEF ConfirmClose, SendRsrcRequest, Turns, Forward
  <2>3. CASE Ignored(event)
    BY <1>1, <1>3, <2>3 DEF Ignored, Kept, Forward
  <2> QED  BY <1>1, <1>3, <2>1, <2>2, <2>3 DEF OnRsrcEvent
<1> QED  BY <1>2, <1>3

\* Whatever a step of the service is, the machine takes a step of its own.
LEMMA ServiceStep ==
  ASSUME IInv, QueuesOK, [ServiceNext]_vars
  PROVE  [Next]_machine
<1>1. CASE MsgTask
  <2>1. UNCHANGED kind
    BY <1>1 DEF MsgTask
  <2>2. CASE ProcSubscribe
    BY <2>1, <2>2, SubscribeTurns DEF Next
  <2>3. CASE ProcUnsubscribe
    <3> DEFINE c == Head(msgs).client
    <3>1. Head(msgs) \in Messages /\ Head(msgs).type = "UNSUBSCRIBE"
      BY <2>3 DEF QueuesOK, ProcUnsubscribe, Take
    <3>2. c \in Clients
      BY <3>1 DEF Messages
    <3> HIDE DEF c
    <3>3. Unsubscribe(c) \/ UNCHANGED <<mState, subs, told, sent>>
      BY <2>3 DEF ProcUnsubscribe, c
    <3> QED  BY <2>1, <3>2, <3>3 DEF Next, machine
  <2>4. CASE ProcUp
    BY <2>1, <2>4 DEF ProcUp, Next, machine
  <2>5. ASSUME NEW event \in {"GRANTED", "DENIED", "RELEASED"}, ProcEvent(event)
        PROVE  [Next]_machine
    BY <2>1, <2>5 DEF ProcEvent, Next
  <2> QED  BY <1>1, <2>2, <2>3, <2>4, <2>5 DEF MsgTask
<1>2. CASE ~MsgTask
  BY <1>2 DEF ServiceNext, Request, GiveUp, ClientPosts, ModemRestarts, FwRequest,
     FwRelease, FwAnswers, FwLoses, FwConnection, vars
<1> QED  BY <1>1, <1>2

\* The queues hold what they are for.
LEMMA ServiceQueues ==
  ASSUME IInv, IInv', QueuesOK, [ServiceNext]_vars
  PROVE  QueuesOK'
<1>1. CASE MsgTask
  <2>1. msgs # <<>> /\ msgs' = Tail(msgs) /\ conn' = conn
    BY <1>1 DEF MsgTask, ProcSubscribe, ProcUnsubscribe, ProcUp, ProcEvent, Take
  <2>2. calls' = calls \/ (calls' = Append(calls, sent') /\ sent' # "none")
    BY <1>1 DEF MsgTask, ProcSubscribe, ProcUnsubscribe, ProcUp, ProcEvent, Forward
  <2>3. sent' \in {"none", "REQUEST", "RELEASE"}
    BY DEF IInv, TypeOK, Requests
  <2>4. msgs' \in Seq(Messages)
    BY <2>1 DEF QueuesOK
  <2>5. calls' \in Seq({"REQUEST", "RELEASE"})
    BY <2>2, <2>3 DEF QueuesOK
  <2> QED  BY <2>1, <2>4, <2>5 DEF QueuesOK
<1>2. ASSUME NEW c \in Clients, Request(c) \/ GiveUp(c)
      PROVE  QueuesOK'
  <2>1. Msg("SUBSCRIBE", c) \in Messages /\ Msg("UNSUBSCRIBE", c) \in Messages
    BY DEF Msg, Messages
  <2> QED  BY <1>2, <2>1 DEF Request, GiveUp, ClientPosts, Post, QueuesOK
<1>3. ASSUME NEW type \in {"UP", "GRANTED", "DENIED", "RELEASED"}  PROVE Event(type) \in Messages
  BY DEF Event, Messages
<1>4. CASE ModemRestarts
  BY <1>3, <1>4 DEF ModemRestarts, Post, QueuesOK
<1>5. CASE FwRequest \/ FwRelease
  <2>1. calls # <<>> /\ calls' = Tail(calls) /\ conn' \in {"off", "opening", "open"}
    BY <1>5 DEF FwRequest, FwRelease, QueuesOK
  <2>2. msgs' = msgs \/ msgs' = Append(msgs, Event("GRANTED")) \/ msgs' = Append(msgs, Event("RELEASED"))
    BY <1>5 DEF FwRequest, FwRelease, Post
  <2>3. calls' \in Seq({"REQUEST", "RELEASE"})
    BY <2>1 DEF QueuesOK
  <2>4. msgs' \in Seq(Messages)
    <3>1. Event("GRANTED") \in Messages /\ Event("RELEASED") \in Messages
      BY <1>3
    <3>2. msgs \in Seq(Messages)
      BY DEF QueuesOK
    <3> QED  BY <2>2, <3>1, <3>2
  <2> QED  BY <2>1, <2>3, <2>4 DEF QueuesOK
<1>6. CASE FwAnswers \/ FwLoses
  BY <1>3, <1>6 DEF FwAnswers, FwLoses, FwConnection, Post, QueuesOK
<1>7. CASE UNCHANGED vars
  BY <1>7 DEF vars, QueuesOK
<1> QED  BY <1>1, <1>2, <1>4, <1>5, <1>6, <1>7 DEF ServiceNext

LEMMA ServiceInvariant == ServiceSpec => [](IInv /\ QueuesOK)
<1>1. ServiceInit => IInv /\ QueuesOK
  BY InitIInv DEF ServiceInit, QueuesOK
<1>2. IInv /\ QueuesOK /\ [ServiceNext]_vars => IInv' /\ QueuesOK'
  BY ServiceStep, NextIInv, ServiceQueues
<1> QED  BY <1>1, <1>2, PTL DEF ServiceSpec

\* With the MsgTask queue between the clients, the framework and the machine, in
\* whatever order and however late its messages come, the machine does what
\* AgpsStateMachine.tla says: what is proved of it holds in the service.
THEOREM ServiceIsMachine == ServiceSpec => Spec
<1>1. ServiceInit => Init
  BY DEF ServiceInit
<1>2. IInv /\ QueuesOK /\ [ServiceNext]_vars => [Next]_machine
  BY ServiceStep
<1> QED  BY <1>1, <1>2, ServiceInvariant, PTL DEF ServiceSpec, Spec

\* No client of the service is forgotten.
THEOREM ServiceForgetsNobody == ServiceSpec => []NobodyLeftBehind
  BY ServiceIsMachine, NoClientForgotten, PTL

\* The service shares the NIF among its clients as SharedNif says.
THEOREM ServiceSharesNif == ServiceSpec => ImplementsSharedNif
  BY ServiceIsMachine, Refinement, PTL

-----------------------------------------------------------------------------
(* The machine and the connection                                          *)

Ends == {"DENIED", "RELEASED"}
Ended == Queued("DENIED") \/ Queued("RELEASED")
Asked == \E i \in DOMAIN calls : calls[i] = "REQUEST"
LastCall == IF calls = <<>> THEN "none" ELSE calls[Len(calls)]

\* A GRANTED that is queued is true, or the loss is queued behind it.
GrantsAreTrue ==
  \A i \in DOMAIN msgs : msgs[i].type = "GRANTED" =>
    conn = "open" \/ \E j \in DOMAIN msgs : j > i /\ msgs[j].type = "RELEASED"

\* What a pending machine waits for is what it asked for last.
LastCallFits == mState = "Pending" => LastCall \in {"none", "REQUEST"}

\* PendingHasAnswerComing, in these words.
AnswerComing ==
  mState = "Pending" => Asked \/ conn = "opening" \/ Queued("GRANTED") \/ Queued("DENIED")

AskedOnce ==
  \A i, j \in DOMAIN calls : calls[i] = "REQUEST" /\ calls[j] = "REQUEST" => i = j
EndsOnce ==
  \A i, j \in DOMAIN msgs : msgs[i].type \in Ends /\ msgs[j].type \in Ends => i = j
GrantedOnce ==
  \A i, j \in DOMAIN msgs : msgs[i].type = "GRANTED" /\ msgs[j].type = "GRANTED" => i = j

\* A machine that waits for the close has one connection under way at a time: a
\* request the framework has not taken, a connection, or the report of its end;
\* and none of them when it is released.
OneAtATime ==
  /\ AskedOnce /\ EndsOnce /\ GrantedOnce
  /\ Asked => conn = "off" /\ ~Queued("GRANTED") /\ ~Ended
  /\ conn # "off" => ~Ended
  /\ mState = "Released" <=> ~Asked /\ conn = "off" /\ ~Ended

\* ... and its state is as far as the reports it has handled.
StateKeepsUp ==
  /\ mState = "Acquired" =>
       ~Asked /\ conn # "opening" /\ ~Queued("GRANTED") /\ ~Queued("DENIED")
  /\ mState = "Pending" /\ (conn = "open" \/ Queued("RELEASED")) => Queued("GRANTED")
  /\ mState = "Releasing" => LastCall = "RELEASE" \/ (LastCall = "none" /\ conn = "off")

Fits ==
  /\ GrantsAreTrue
  /\ LastCallFits
  /\ GrantedIsConnected
  /\ AnswerComing
  /\ WaitForCloseComplete => OneAtATime /\ StateKeepsUp

(* What appending to the queues and taking from them does to these.        *)

LEMMA LastOfCalls ==
  ASSUME QueuesOK
  PROVE  /\ LastCall \in {"none", "REQUEST", "RELEASE"}
         /\ LastCall = "none" <=> calls = <<>>
         /\ LastCall = "REQUEST" => Asked
<1>1. CASE calls = <<>>
  BY <1>1 DEF LastCall
<1>2. CASE calls # <<>>
  <2>1. Len(calls) \in DOMAIN calls /\ calls[Len(calls)] \in {"REQUEST", "RELEASE"}
    BY <1>2 DEF QueuesOK
  <2> QED  BY <1>2, <2>1 DEF LastCall, Asked
<1> QED  BY <1>1, <1>2

LEMMA CallSent ==
  ASSUME QueuesOK, NEW call \in {"REQUEST", "RELEASE"}, calls' = Append(calls, call)
  PROVE  /\ LastCall' = call
         /\ Asked' <=> Asked \/ call = "REQUEST"
         /\ AskedOnce /\ (call = "REQUEST" => ~Asked) => AskedOnce'
<1>1. /\ Len(calls) \in Nat /\ DOMAIN calls = 1..Len(calls)
      /\ Len(calls') = Len(calls) + 1 /\ DOMAIN calls' = 1..(Len(calls) + 1)
      /\ \A i \in DOMAIN calls : calls'[i] = calls[i]
      /\ calls'[Len(calls) + 1] = call
  BY DEF QueuesOK
<1>2. calls' # <<>>
  BY <1>1
<1> QED  BY <1>1, <1>2 DEF LastCall, Asked, AskedOnce

LEMMA CallTaken ==
  ASSUME QueuesOK, calls # <<>>, calls' = Tail(calls)
  PROVE  /\ LastCall' = IF calls' = <<>> THEN "none" ELSE LastCall
         /\ calls' = <<>> => LastCall = Head(calls)
         /\ Asked' => Asked
         /\ Head(calls) = "REQUEST" => Asked
         /\ Head(calls) # "REQUEST" /\ Asked => Asked'
         /\ AskedOnce => AskedOnce' /\ (Head(calls) = "REQUEST" => ~Asked')
<1>1. /\ Len(calls) \in Nat \ {0} /\ DOMAIN calls = 1..Len(calls)
      /\ Len(calls') = Len(calls) - 1 /\ DOMAIN calls' = 1..(Len(calls) - 1)
      /\ \A i \in DOMAIN calls' : calls'[i] = calls[i + 1]
      /\ Head(calls) = calls[1]
  BY DEF QueuesOK
<1>2. calls' = <<>> <=> Len(calls) = 1
  <2>1. calls' = <<>> => Len(calls') = 0
    OBVIOUS
  <2>2. calls' \in Seq({"REQUEST", "RELEASE"})
    BY DEF QueuesOK
  <2>3. Len(calls') = 0 => calls' = <<>>
    BY <2>2
  <2> QED  BY <1>1, <2>1, <2>3
<1>3. \A i \in DOMAIN calls : i = 1 \/ (i - 1 \in DOMAIN calls' /\ calls'[i - 1] = calls[i])
  BY <1>1
<1>4. /\ LastCall' = IF calls' = <<>> THEN "none" ELSE LastCall
      /\ calls' = <<>> => LastCall = Head(calls)
  BY <1>1, <1>2 DEF LastCall
<1>5. (Asked' => Asked) /\ (Head(calls) = "REQUEST" => Asked)
  BY <1>1 DEF Asked
<1>6. Head(calls) # "REQUEST" /\ Asked => Asked'
  BY <1>1, <1>3 DEF Asked
<1>7. AskedOnce => AskedOnce' /\ (Head(calls) = "REQUEST" => ~Asked')
  BY <1>1 DEF Asked, AskedOnce
<1> QED  BY <1>4, <1>5, <1>6, <1>7

LEMMA MsgPosted ==
  ASSUME QueuesOK, NEW m \in Messages, msgs' = Append(msgs, m)
  PROVE  /\ \A type \in {"GRANTED", "DENIED", "RELEASED"} :
              Queued(type)' <=> Queued(type) \/ m.type = type
         /\ EndsOnce /\ (m.type \in Ends => ~Ended) => EndsOnce'
         /\ GrantedOnce /\ (m.type = "GRANTED" => ~Queued("GRANTED")) => GrantedOnce'
         /\ /\ GrantsAreTrue
            /\ m.type = "GRANTED" => conn' = "open"
            /\ conn = "open" => conn' = "open" \/ m.type = "RELEASED"
            => GrantsAreTrue'
<1>1. /\ Len(msgs) \in Nat /\ DOMAIN msgs = 1..Len(msgs)
      /\ DOMAIN msgs' = 1..(Len(msgs) + 1)
      /\ \A i \in DOMAIN msgs : msgs'[i] = msgs[i]
      /\ msgs'[Len(msgs) + 1] = m
  BY DEF QueuesOK
<1>2. \A type \in {"GRANTED", "DENIED", "RELEASED"} :
        Queued(type)' <=> Queued(type) \/ m.type = type
  BY <1>1 DEF Queued
<1>3. EndsOnce /\ (m.type \in Ends => ~Ended) => EndsOnce'
  BY <1>1 DEF EndsOnce, Ends, Ended, Queued
<1>4. GrantedOnce /\ (m.type = "GRANTED" => ~Queued("GRANTED")) => GrantedOnce'
  BY <1>1 DEF GrantedOnce, Queued
<1>5. ASSUME GrantsAreTrue, m.type = "GRANTED" => conn' = "open",
             conn = "open" => conn' = "open" \/ m.type = "RELEASED"
      PROVE  GrantsAreTrue'
  BY <1>1, <1>5 DEF GrantsAreTrue
<1> QED  BY <1>2, <1>3, <1>4, <1>5

LEMMA MsgTaken ==
  ASSUME QueuesOK, msgs # <<>>, msgs' = Tail(msgs), conn' = conn
  PROVE  /\ \A type \in {"GRANTED", "DENIED", "RELEASED"} :
              /\ Queued(type)' => Queued(type)
              /\ Head(msgs).type # type /\ Queued(type) => Queued(type)'
         /\ GrantsAreTrue => GrantsAreTrue'
         /\ EndsOnce => EndsOnce' /\ (Head(msgs).type \in Ends => ~Ended')
         /\ GrantedOnce => GrantedOnce' /\ (Head(msgs).type = "GRANTED" => ~Queued("GRANTED")')
         /\ GrantsAreTrue /\ EndsOnce /\ Head(msgs).type \in Ends /\ Queued("GRANTED")
            => conn = "open"
<1>1. /\ Len(msgs) \in Nat \ {0} /\ DOMAIN msgs = 1..Len(msgs)
      /\ DOMAIN msgs' = 1..(Len(msgs) - 1)
      /\ \A i \in DOMAIN msgs' : msgs'[i] = msgs[i + 1]
      /\ Head(msgs) = msgs[1]
  BY DEF QueuesOK
<1>2. \A i \in DOMAIN msgs : i = 1 \/ (i - 1 \in DOMAIN msgs' /\ msgs'[i - 1] = msgs[i])
  BY <1>1
<1>3. \A type \in {"GRANTED", "DENIED", "RELEASED"} :
        /\ Queued(type)' => Queued(type)
        /\ Head(msgs).type # type /\ Queued(type) => Queued(type)'
  <2> SUFFICES ASSUME NEW type \in {"GRANTED", "DENIED", "RELEASED"}
               PROVE  /\ Queued(type)' => Queued(type)
                      /\ Head(msgs).type # type /\ Queued(type) => Queued(type)'
    OBVIOUS
  <2>1. Queued(type)' => Queued(type)
    BY <1>1 DEF Queued
  <2>2. ASSUME Head(msgs).type # type, Queued(type)  PROVE Queued(type)'
    <3>1. PICK i \in DOMAIN msgs : msgs[i].type = type
      BY <2>2 DEF Queued
    <3>2. i # 1
      BY <1>1, <2>2, <3>1
    <3> QED  BY <1>2, <3>1, <3>2 DEF Queued
  <2> QED  BY <2>1, <2>2
<1>4. ASSUME GrantsAreTrue  PROVE GrantsAreTrue'
  <2> SUFFICES ASSUME NEW i \in DOMAIN msgs', msgs'[i].type = "GRANTED", conn' # "open"
               PROVE  \E j \in DOMAIN msgs' : j > i /\ msgs'[j].type = "RELEASED"
    BY DEF GrantsAreTrue
  <2>1. i + 1 \in DOMAIN msgs /\ msgs[i + 1].type = "GRANTED"
    BY <1>1
  <2>2. PICK j \in DOMAIN msgs : j > i + 1 /\ msgs[j].type = "RELEASED"
    BY <1>4, <2>1 DEF GrantsAreTrue
  <2>3. j - 1 \in DOMAIN msgs' /\ j - 1 > i /\ msgs'[j - 1].type = "RELEASED"
    BY <1>1, <1>2, <2>2
  <2> QED  BY <2>3
<1>5. EndsOnce => EndsOnce' /\ (Head(msgs).type \in Ends => ~Ended')
  BY <1>1 DEF EndsOnce, Ended, Ends, Queued
<1>6. GrantedOnce => GrantedOnce' /\ (Head(msgs).type = "GRANTED" => ~Queued("GRANTED")')
  BY <1>1 DEF GrantedOnce, Queued
<1>7. GrantsAreTrue /\ EndsOnce /\ Head(msgs).type \in Ends /\ Queued("GRANTED") => conn = "open"
  BY <1>1 DEF GrantsAreTrue, EndsOnce, Ends, Queued
<1> QED  BY <1>3, <1>4, <1>5, <1>6, <1>7

\* A GRANTED in the queue tells of a connection that is up or was lost since, and
\* of two ends one is not queued.
LEMMA GrantQueued ==
  ASSUME Fits
  PROVE  /\ Queued("GRANTED") => conn = "open" \/ Queued("RELEASED")
         /\ EndsOnce => ~(Queued("DENIED") /\ Queued("RELEASED"))
<1>1. Queued("GRANTED") => conn = "open" \/ Queued("RELEASED")
  BY DEF Fits, GrantsAreTrue, Queued
<1>2. EndsOnce => ~(Queued("DENIED") /\ Queued("RELEASED"))
  BY DEF EndsOnce, Ends, Queued
<1> QED  BY <1>1, <1>2

(* The steps.                                                              *)

LEMMA ClientFits ==
  ASSUME QueuesOK, Fits, NEW m \in Messages, m.type \notin {"GRANTED", "DENIED", "RELEASED"},
         msgs' = Append(msgs, m), UNCHANGED <<kind, mState, calls, conn>>
  PROVE  Fits'
<1>1. Asked' = Asked /\ LastCall' = LastCall /\ WaitForCloseComplete' = WaitForCloseComplete /\ AskedOnce' = AskedOnce
  BY DEF Asked, LastCall, WaitForCloseComplete, AskedOnce
<1>2. /\ Queued("GRANTED")' = Queued("GRANTED") /\ Queued("DENIED")' = Queued("DENIED")
      /\ Queued("RELEASED")' = Queued("RELEASED")
  BY MsgPosted DEF Queued
<1>3. (EndsOnce => EndsOnce') /\ (GrantedOnce => GrantedOnce') /\ (GrantsAreTrue => GrantsAreTrue')
  BY MsgPosted DEF Ends
<1> QED
  BY <1>1, <1>2, <1>3 DEF Fits, LastCallFits, GrantedIsConnected, AnswerComing,
     OneAtATime, StateKeepsUp, Ended

\* A message of a client or of the modem is handled.
LEMMA RequestFits ==
  ASSUME IInv, QueuesOK, Fits, UNCHANGED <<kind, conn>>,
         msgs # <<>>, msgs' = Tail(msgs),
         Head(msgs).type \notin {"GRANTED", "DENIED", "RELEASED"},
         \/ Kept
         \/ Turns("Released", "Pending", "REQUEST")
         \/ \E from \in {"Pending", "Acquired"}, to \in {"Released", "Releasing"} :
              Turns(from, to, "RELEASE") /\ (WaitForCloseComplete => to = "Releasing")
  PROVE  Fits'
<1>1. WaitForCloseComplete' = WaitForCloseComplete
  BY DEF WaitForCloseComplete
<1>2. /\ Queued("GRANTED")' = Queued("GRANTED") /\ Queued("DENIED")' = Queued("DENIED")
      /\ Queued("RELEASED")' = Queued("RELEASED")
  BY MsgTaken DEF Queued
<1>3. (EndsOnce => EndsOnce') /\ (GrantedOnce => GrantedOnce') /\ (GrantsAreTrue => GrantsAreTrue')
  BY MsgTaken
<1> USE DEF Fits, LastCallFits, GrantedIsConnected, AnswerComing, OneAtATime, StateKeepsUp, Ended
<1>4. CASE Kept
  <2>1. Asked' = Asked /\ LastCall' = LastCall /\ AskedOnce' = AskedOnce
    BY <1>4 DEF Kept, Asked, LastCall, AskedOnce
  <2> QED  BY <1>1, <1>2, <1>3, <1>4, <2>1 DEF Kept
<1>5. CASE Turns("Released", "Pending", "REQUEST")
  <2>1. calls' = Append(calls, "REQUEST") /\ mState = "Released" /\ mState' = "Pending"
    BY <1>5 DEF Turns
  <2>2. Asked' /\ LastCall' = "REQUEST" /\ (AskedOnce /\ ~Asked => AskedOnce')
    BY <2>1, CallSent
  <2> QED  BY <1>1, <1>2, <1>3, <2>1, <2>2, GrantQueued
<1>6. ASSUME NEW from \in {"Pending", "Acquired"}, NEW to \in {"Released", "Releasing"},
             Turns(from, to, "RELEASE"), WaitForCloseComplete => to = "Releasing"
      PROVE  Fits'
  <2>1. calls' = Append(calls, "RELEASE") /\ mState = from /\ mState' = to
    BY <1>6 DEF Turns
  <2>2. Asked' = Asked /\ LastCall' = "RELEASE" /\ (AskedOnce => AskedOnce')
    BY <2>1, CallSent DEF Asked
  <2> QED  BY <1>1, <1>2, <1>3, <1>6, <2>1, <2>2
<1> QED  BY <1>4, <1>5, <1>6

\* A report of the framework is handled.
LEMMA ReportFits ==
  ASSUME IInv, QueuesOK, Fits, UNCHANGED kind,
         NEW event \in {"GRANTED", "DENIED", "RELEASED"}, ProcEvent(event)
  PROVE  Fits'
<1>1. WaitForCloseComplete' = WaitForCloseComplete
  BY DEF WaitForCloseComplete
<1>2. msgs # <<>> /\ Head(msgs).type = event /\ msgs' = Tail(msgs) /\ conn' = conn
  BY DEF ProcEvent, Take
<1>3. \A type \in {"GRANTED", "DENIED", "RELEASED"} :
        /\ Queued(type)' => Queued(type)
        /\ event # type /\ Queued(type) => Queued(type)'
  BY <1>2, MsgTaken
<1>4. Queued(event)
  BY <1>2 DEF Queued, QueuesOK
<1>5. /\ GrantsAreTrue'
      /\ EndsOnce => EndsOnce' /\ (event \in Ends => ~Ended')
      /\ GrantedOnce => GrantedOnce' /\ (event = "GRANTED" => ~Queued("GRANTED")')
      /\ EndsOnce /\ event \in Ends /\ Queued("GRANTED") => conn = "open"
  BY <1>2, MsgTaken DEF Fits
<1> USE DEF Fits, LastCallFits, GrantedIsConnected, AnswerComing, OneAtATime, StateKeepsUp, Ended
<1>6. CASE event = "GRANTED"
  <2>1. Queued("DENIED")' = Queued("DENIED") /\ Queued("RELEASED")' = Queued("RELEASED")
    BY <1>3, <1>6 DEF Queued
  <2>2. Asked' = Asked /\ LastCall' = LastCall /\ AskedOnce' = AskedOnce
    BY <1>6, EventTurns DEF Turns, Kept, Asked, LastCall, AskedOnce
  <2>3. \/ mState = "Pending" /\ mState' = "Acquired"
        \/ mState # "Pending" /\ mState' = mState
    BY <1>6, EventTurns DEF Turns, Kept
  <2>4. GrantedIsConnected'
    <3>1. conn = "open" \/ Queued("RELEASED")
      BY <1>2, <1>4, <1>6 DEF GrantsAreTrue, Queued
    <3> QED  BY <1>2, <2>1, <3>1
  <2> QED  BY <1>1, <1>2, <1>4, <1>5, <1>6, <2>1, <2>2, <2>3, <2>4, GrantQueued
<1>7. CASE event # "GRANTED"
  <2>1. Queued("GRANTED")' = Queued("GRANTED")
    BY <1>3, <1>7 DEF Queued
  <2>2. event \in Ends
    BY <1>7 DEF Ends
  <2>3. CASE mState' = "Released" /\ calls' = calls
    <3>1. Asked' = Asked /\ LastCall' = LastCall /\ AskedOnce' = AskedOnce
      BY <2>3 DEF Asked, LastCall, AskedOnce
    <3> QED  BY <1>1, <1>2, <1>4, <1>5, <1>7, <2>1, <2>2, <2>3, <3>1
  <2>4. CASE Turns("Releasing", "Pending", "REQUEST")
    <3>1. calls' = Append(calls, "REQUEST") /\ mState = "Releasing" /\ mState' = "Pending"
      BY <2>4 DEF Turns
    <3>2. Asked' /\ LastCall' = "REQUEST" /\ (AskedOnce /\ ~Asked => AskedOnce')
      BY <3>1, CallSent
    <3> QED  BY <1>1, <1>2, <1>4, <1>5, <1>7, <2>1, <2>2, <3>1, <3>2
  <2>5. CASE Kept /\ mState = "Acquired" /\ event = "DENIED"
    <3>1. Asked' = Asked /\ LastCall' = LastCall /\ AskedOnce' = AskedOnce /\ mState' = "Acquired"
      BY <2>5 DEF Kept, Asked, LastCall, AskedOnce
    <3>2. Queued("RELEASED") => Queued("RELEASED")'
      BY <1>3, <2>5
    <3> QED  BY <1>1, <1>2, <1>4, <1>5, <2>1, <2>5, <3>1, <3>2
  <2>6. CASE Kept /\ mState = "Pending" /\ event = "RELEASED"
    <3>1. Asked' = Asked /\ LastCall' = LastCall /\ AskedOnce' = AskedOnce /\ mState' = "Pending"
      BY <2>6 DEF Kept, Asked, LastCall, AskedOnce
    <3>2. Queued("DENIED") => Queued("DENIED")'
      BY <1>3, <2>6
    <3> QED  BY <1>1, <1>2, <1>4, <1>5, <2>1, <2>2, <2>6, <3>1, <3>2
  <2> QED
    BY <1>7, <2>3, <2>4, <2>5, <2>6, EventTurns DEF Turns, Kept
<1> QED  BY <1>6, <1>7

\* The framework takes a call.
LEMMA CallFits ==
  ASSUME QueuesOK, Fits, FwRequest \/ FwRelease
  PROVE  Fits'
<1>1. UNCHANGED <<kind, mState>> /\ calls # <<>> /\ calls' = Tail(calls)
  BY DEF FwRequest, FwRelease, machine
<1>2. WaitForCloseComplete' = WaitForCloseComplete
  BY <1>1 DEF WaitForCloseComplete
<1>3. /\ LastCall' = IF calls' = <<>> THEN "none" ELSE LastCall
      /\ calls' = <<>> => LastCall = Head(calls)
      /\ Asked' => Asked
      /\ Head(calls) = "REQUEST" => Asked
      /\ Head(calls) # "REQUEST" /\ Asked => Asked'
      /\ AskedOnce => AskedOnce' /\ (Head(calls) = "REQUEST" => ~Asked')
  BY <1>1, CallTaken
<1>4. LastCall' = "none" <=> calls' = <<>>
  <2>1. LastCall # "none"
    BY <1>1, LastOfCalls
  <2> QED  BY <1>3, <2>1
<1>5. LastCall' = "REQUEST" => Asked'
  <2>1. calls' \in Seq({"REQUEST", "RELEASE"})
    BY <1>1 DEF QueuesOK
  <2>2. calls' # <<>> => Len(calls') \in DOMAIN calls'
    BY <2>1
  <2> QED  BY <2>2 DEF LastCall, Asked
<1>6. LastCall = "REQUEST" => Asked
  BY LastOfCalls
<1>7. Event("GRANTED") \in Messages /\ Event("RELEASED") \in Messages
      /\ Event("GRANTED").type = "GRANTED" /\ Event("RELEASED").type = "RELEASED"
  BY DEF Event, Messages
<1> USE DEF Fits, LastCallFits, GrantedIsConnected, AnswerComing, OneAtATime, StateKeepsUp, Ended
<1>8. CASE \/ Head(calls) = "REQUEST" /\ conn # "open" /\ conn' = "opening" /\ msgs' = msgs
           \/ Head(calls) = "RELEASE" /\ conn = "off" /\ conn' = "off" /\ msgs' = msgs
  <2>1. /\ Queued("GRANTED")' = Queued("GRANTED") /\ Queued("DENIED")' = Queued("DENIED")
        /\ Queued("RELEASED")' = Queued("RELEASED")
        /\ EndsOnce' = EndsOnce /\ GrantedOnce' = GrantedOnce
    BY <1>8 DEF Queued, EndsOnce, GrantedOnce
  <2>2. GrantsAreTrue'
    BY <1>8 DEF GrantsAreTrue
  <2> QED  BY <1>1, <1>2, <1>3, <1>4, <1>5, <1>6, <1>8, <2>1, <2>2
<1>9. CASE Head(calls) = "REQUEST" /\ conn = "open"
  <2>1. msgs' = Append(msgs, Event("GRANTED")) /\ conn' = "open"
    BY <1>9 DEF FwRequest, FwRelease, Post
  <2>2. /\ Queued("GRANTED")' /\ (Queued("DENIED")' <=> Queued("DENIED"))
        /\ Queued("RELEASED")' <=> Queued("RELEASED")
        /\ EndsOnce => EndsOnce'
        /\ GrantsAreTrue'
    BY <1>7, <1>9, <2>1, MsgPosted DEF Ends
  <2>3. ~WaitForCloseComplete
    BY <1>3, <1>9
  <2> QED  BY <1>1, <1>2, <1>3, <1>5, <1>9, <2>1, <2>2, <2>3, LastOfCalls
<1>10. CASE Head(calls) = "RELEASE" /\ conn # "off"
  <2>1. msgs' = Append(msgs, Event("RELEASED")) /\ conn' = "off"
    BY <1>10 DEF FwRequest, FwRelease, Post
  <2>2. /\ Queued("RELEASED")' /\ (Queued("DENIED")' <=> Queued("DENIED"))
        /\ Queued("GRANTED")' <=> Queued("GRANTED")
        /\ EndsOnce /\ ~Ended => EndsOnce'
        /\ GrantedOnce => GrantedOnce'
        /\ GrantsAreTrue'
    BY <1>7, <2>1, MsgPosted
  <2> QED  BY <1>1, <1>2, <1>3, <1>4, <1>5, <1>6, <1>10, <2>1, <2>2, LastOfCalls
<1> QED  BY <1>1, <1>8, <1>9, <1>10 DEF FwRequest, FwRelease

\* The connection changes by itself.
LEMMA ConnectionFits ==
  ASSUME QueuesOK, Fits, FwAnswers \/ FwLoses
  PROVE  Fits'
<1>1. UNCHANGED <<kind, mState, calls>>
  BY DEF FwAnswers, FwLoses, FwConnection, machine
<1>2. WaitForCloseComplete' = WaitForCloseComplete /\ Asked' = Asked /\ LastCall' = LastCall /\ AskedOnce' = AskedOnce
  BY <1>1 DEF WaitForCloseComplete, Asked, LastCall, AskedOnce
<1> USE DEF Fits, LastCallFits, GrantedIsConnected, AnswerComing, OneAtATime, StateKeepsUp, Ended
<1>3. ASSUME NEW event \in {"GRANTED", "DENIED", "RELEASED"}, msgs' = Append(msgs, Event(event))
      PROVE  /\ \A type \in {"GRANTED", "DENIED", "RELEASED"} :
                  Queued(type)' <=> Queued(type) \/ event = type
             /\ EndsOnce /\ (event \in Ends => ~Ended) => EndsOnce'
             /\ GrantedOnce /\ (event = "GRANTED" => ~Queued("GRANTED")) => GrantedOnce'
             /\ /\ event = "GRANTED" => conn' = "open"
                /\ conn = "open" => conn' = "open" \/ event = "RELEASED"
                => GrantsAreTrue'
  <2>1. Event(event) \in Messages /\ Event(event).type = event
    BY DEF Event, Messages
  <2> QED  BY <1>3, <2>1, MsgPosted
<1>4. CASE FwConnection("opening", "open", "GRANTED")
  <2>1. conn = "opening" /\ conn' = "open" /\ msgs' = Append(msgs, Event("GRANTED"))
    BY <1>4 DEF FwConnection, Post
  <2> QED  BY <1>1, <1>2, <1>3, <2>1, GrantQueued DEF Ends
<1>5. CASE FwConnection("opening", "off", "DENIED")
  <2>1. conn = "opening" /\ conn' = "off" /\ msgs' = Append(msgs, Event("DENIED"))
    BY <1>5 DEF FwConnection, Post
  <2> QED  BY <1>1, <1>2, <1>3, <2>1, GrantQueued DEF Ends
<1>6. CASE FwLoses
  <2>1. conn = "open" /\ conn' = "off" /\ msgs' = Append(msgs, Event("RELEASED"))
    BY <1>6 DEF FwLoses, FwConnection, Post
  <2> QED  BY <1>1, <1>2, <1>3, <2>1 DEF Ends
<1> QED  BY <1>4, <1>5, <1>6 DEF FwAnswers

\* Every step of the service keeps machine and connection in step.
LEMMA ServiceFits ==
  ASSUME IInv, IInv', QueuesOK, Fits, [ServiceNext]_vars
  PROVE  Fits'
<1>1. CASE MsgTask
  <2>1. UNCHANGED kind
    BY <1>1 DEF MsgTask
  <2>2. CASE ProcSubscribe
    <3>1. msgs # <<>> /\ Head(msgs).type = "SUBSCRIBE" /\ msgs' = Tail(msgs) /\ conn' = conn
      BY <2>2 DEF ProcSubscribe, Take
    <3>2. Kept \/ Turns("Released", "Pending", "REQUEST")
      BY <2>1, <2>2, SubscribeTurns
    <3> QED  BY <2>1, <3>1, <3>2, RequestFits
  <2>3. CASE ProcUnsubscribe
    <3>1. msgs # <<>> /\ Head(msgs).type = "UNSUBSCRIBE" /\ msgs' = Tail(msgs) /\ conn' = conn
      BY <2>3 DEF ProcUnsubscribe, Take
    <3> QED  BY <2>1, <2>3, <3>1, UnsubscribeTurns, RequestFits
  <2>4. CASE ProcUp
    <3>1. msgs # <<>> /\ Head(msgs).type = "UP" /\ msgs' = Tail(msgs) /\ conn' = conn
      BY <2>4 DEF ProcUp, Take
    <3>2. Kept
      BY <2>4 DEF ProcUp, DropAllSubscribers, Kept
    <3> QED  BY <2>1, <3>1, <3>2, RequestFits
  <2>5. ASSUME NEW event \in {"GRANTED", "DENIED", "RELEASED"}, ProcEvent(event)
        PROVE  Fits'
    BY <2>1, <2>5, ReportFits
  <2> QED  BY <1>1, <2>2, <2>3, <2>4, <2>5 DEF MsgTask
<1>2. ASSUME NEW m, m \in Messages, m.type \notin {"GRANTED", "DENIED", "RELEASED"},
             msgs' = Append(msgs, m), UNCHANGED <<machine, calls, conn>>
      PROVE  Fits'
  BY <1>2, ClientFits DEF machine
<1>3. ASSUME NEW c \in Clients, Request(c) \/ GiveUp(c)
      PROVE  Fits'
  <2>1. /\ Msg("SUBSCRIBE", c) \in Messages /\ Msg("UNSUBSCRIBE", c) \in Messages
        /\ Msg("SUBSCRIBE", c).type = "SUBSCRIBE" /\ Msg("UNSUBSCRIBE", c).type = "UNSUBSCRIBE"
    BY DEF Msg, Messages
  <2> QED  BY <1>2, <1>3, <2>1 DEF Request, GiveUp, ClientPosts, Post
<1>4. CASE ModemRestarts
  <2>1. Event("UP") \in Messages /\ Event("UP").type = "UP"
    BY DEF Event, Messages
  <2> QED  BY <1>2, <1>4, <2>1 DEF ModemRestarts, Post
<1>5. CASE UNCHANGED vars
  BY <1>5 DEF vars, machine, Fits, GrantsAreTrue, LastCallFits, GrantedIsConnected, AnswerComing,
     OneAtATime, StateKeepsUp, Ended, Queued, Asked, LastCall, AskedOnce, EndsOnce, GrantedOnce,
     WaitForCloseComplete
<1> QED  BY <1>1, <1>3, <1>4, <1>5, CallFits, ConnectionFits DEF ServiceNext

\* However late the framework's reports are, and whatever clients ask and give up
\* meanwhile: nobody is left with a NIF that is gone, no pending machine waits for
\* an answer that will not come, and with nothing under way a machine that waits
\* for the close knows whether its NIF is up.
THEOREM StateFits == ServiceSpec => []StateFitsConnection
<1>1. ServiceInit => Fits
  <2> SUFFICES ASSUME ServiceInit  PROVE Fits
    OBVIOUS
  <2>1. msgs = <<>> /\ calls = <<>> /\ conn = "off" /\ mState = "Released"
    BY DEF ServiceInit, Init
  <2>2. DOMAIN msgs = {} /\ DOMAIN calls = {}
    BY <2>1
  <2> QED
    BY <2>1, <2>2 DEF Fits, GrantsAreTrue, LastCallFits, GrantedIsConnected, AnswerComing,
       OneAtATime, StateKeepsUp, Ended, Queued, Asked, LastCall, AskedOnce, EndsOnce, GrantedOnce
<1>2. IInv /\ IInv' /\ QueuesOK /\ Fits /\ [ServiceNext]_vars => Fits'
  BY ServiceFits
<1>3. IInv /\ QueuesOK /\ Fits => StateFitsConnection
  <2> SUFFICES ASSUME IInv, QueuesOK, Fits  PROVE StateFitsConnection
    OBVIOUS
  <2>1. GrantedIsConnected /\ PendingHasAnswerComing
    BY DEF Fits, AnswerComing, PendingHasAnswerComing, Asked
  <2>2. WaitForCloseComplete => TracksNif
    <3> SUFFICES ASSUME WaitForCloseComplete, msgs = <<>>, calls = <<>>, conn # "opening"
                 PROVE  conn = "open" <=> mState = "Acquired"
      BY DEF TracksNif
    <3>1. ~Queued("GRANTED") /\ ~Queued("DENIED") /\ ~Queued("RELEASED") /\ ~Asked
      BY DEF Queued, Asked
    <3>2. LastCall = "none"
      BY DEF LastCall
    <3>3. mState \in States
      BY DEF IInv, TypeOK
    <3> QED
      BY <3>1, <3>2, <3>3 DEF Fits, GrantedIsConnected, AnswerComing, OneAtATime, StateKeepsUp, States
  <2> QED  BY <2>1, <2>2 DEF StateFitsConnection
<1> QED  BY <1>1, <1>2, <1>3, ServiceInvariant, PTL DEF ServiceSpec
==============================================================================
