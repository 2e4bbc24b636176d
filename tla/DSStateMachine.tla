---------------------------- MODULE DSStateMachine ----------------------------
(***************************************************************************)
(* ds_nif, the state machine that shares the data call of emergency SUPL:  *)
(* class DSStateMachine of loc_eng_agps.{h,cpp}.  It differs from the      *)
(* machines of AgpsStateMachine.tla in what it asks: the data service      *)
(* client of the vendor's LocApi, which may refuse to start a call.  A     *)
(* busy one is asked again after DATA_CALL_RETRY_DELAY_MSEC, a few times;  *)
(* then, or when the service has no profile, the client falls back to the  *)
(* normal connection of agnss_nif.                                         *)
(*                                                                         *)
(* Three threads: the modem's posts requests and the outcome of calls, the *)
(* MsgTask handles them one at a time, and the timer's runs retryCallback, *)
(* which searches the list of subscribers without a lock.                  *)
(***************************************************************************)
EXTENDS Naturals, Sequences, SequencesExt

CONSTANTS
  Clients,      \* the handles subscribers are created with
  Results,      \* what openAndStartDataCall may return
  MaxRetries,   \* MAX_START_DATA_CALL_RETRIES
  MaxMsgs,      \* bound: clients post only while fewer messages are queued
  MaxTimers     \* bound: ... and fewer retries wait

ASSUME DSAssumption ==
  /\ Results \subseteq {"SUCCESS", "BUSY", "UNSUPPORTED", "OTHER"}
  /\ "SUCCESS" \in Results
  /\ MaxRetries \in Nat /\ MaxMsgs \in Nat /\ MaxTimers \in Nat
  /\ "nobody" \notin Clients

VARIABLES
  mState,    \* mStatePtr
  list,      \* mSubscribers: the newest comes first
  inactive,  \* the subscribers with mIsInactive
  told,      \* the last status exchanged with each client
  mRetries,
  timers,    \* loc_timers of this machine that have not run out
  retrier,   \* the timer thread in retryCallback: the subscriber it found
  msgs,      \* the MsgTask queue
  atl,       \* the handles that are subscribers of agnss_nif
  call,      \* the data call of the service: "none", "starting", "up", "stopping"
  sent       \* what this step passed to the service: "REQUEST", "RELEASE" or "none"

machine == <<mState, list, inactive, told, mRetries>>
vars == <<machine, timers, retrier, msgs, atl, call, sent>>

Nobody == "nobody"
Listed == ToSet(list)
Active == Listed \ inactive

\* A search for active subscribers ends at the first.
FirstActive == list[Min({i \in DOMAIN list : list[i] \in Active})]

Msg(type, c) == [type |-> type, client |-> c]
Take(type) == msgs # <<>> /\ Head(msgs).type = type
Client == Head(msgs).client
Post(m) == msgs' = Append(msgs, m)
Queued(type) == \E i \in DOMAIN msgs : msgs[i].type = type

Init ==
  /\ mState = "Released"
  /\ list = <<>> /\ inactive = {}
  /\ told = [c \in Clients |-> "none"]
  /\ mRetries = 0 /\ timers = 0 /\ retrier = Nobody
  /\ msgs = <<>> /\ atl = {}
  /\ call = "none" /\ sent = "none"

-----------------------------------------------------------------------------
(* Helpers                                                                 *)

\* linked_list_add puts the newest first; an equal subscriber is kept.
AddSubscriber(c) == list' = IF c \in Listed THEN list ELSE <<c>> \o list

Before(s, c, d) == \E i, j \in DOMAIN s : i < j /\ s[i] = c /\ s[j] = d

\* BROADCAST_ALL or BROADCAST_INACTIVE with postNotifyDelete: the others stay,
\* in their order.
Delete(S) ==
  /\ \E n \in 0 .. Len(list) : \E rest \in [1 .. n -> Listed \ S] :
       /\ ToSet(rest) = Listed \ S
       /\ \A c, d \in Listed \ S : Before(rest, c, d) <=> Before(list, c, d)
       /\ list' = rest
  /\ inactive' = inactive \ S

With(status, S) == [c \in Clients |-> IF c \in S THEN status ELSE told[c]]

\* informStatus(RSRC_DENIED) to all: requestATL posts a LocEngRequestATL each.
Fallbacks == [i \in DOMAIN list |-> Msg("RequestATL", list[i])]

StartQuietly(next, otherwise, tell) ==   \* fault: a busy service is not asked again
  \E result \in Results :
    /\ sent' = "REQUEST"
    /\ mState' = IF result = "SUCCESS" THEN next ELSE otherwise
    /\ call' = IF result = "SUCCESS" THEN "starting" ELSE call
    /\ told' = tell
    /\ msgs' = Tail(msgs)
    /\ UNCHANGED <<mRetries, timers>>

StartForEver(next, otherwise, tell) ==   \* fault: incRetries forgotten
  \E result \in Results :
    /\ sent' = "REQUEST"
    /\ mState' = IF result = "SUCCESS" THEN next ELSE otherwise
    /\ call' = IF result = "SUCCESS" THEN "starting" ELSE call
    /\ timers' = IF result = "BUSY" THEN timers + 1 ELSE timers
    /\ IF result = "UNSUPPORTED"
       THEN /\ told' = [tell EXCEPT ![FirstActive'] = "DENIED"]
            /\ msgs' = Append(Tail(msgs), Msg("RequestATL", FirstActive'))
       ELSE told' = tell /\ msgs' = Tail(msgs)
    /\ UNCHANGED mRetries

\* sendRsrcRequest(GPS_REQUEST_AGPS_DATA_CONN).  A failure concerns the first
\* active subscriber, whoever asked.  loc_timer_start returns a handle, which
\* the code takes for an error; what it does then is the same.  next is the
\* state of the machine if the call starts, otherwise the state if it does not.
Start(next, otherwise, tell) ==
  LET first == FirstActive' IN
  \E result \in Results :
    /\ sent' = "REQUEST"
    /\ mState' = IF result = "SUCCESS" THEN next ELSE otherwise
    /\ call' = IF result = "SUCCESS" THEN "starting" ELSE call
    /\ IF result = "UNSUPPORTED" \/ (result = "BUSY" /\ mRetries + 1 > MaxRetries)
       THEN /\ mRetries' = 0
            /\ told' = [tell EXCEPT ![first] = "DENIED"]
            /\ msgs' = Append(Tail(msgs), Msg("RequestATL", first))
            /\ UNCHANGED timers
       ELSE /\ mRetries' = IF result = "BUSY" THEN mRetries + 1 ELSE mRetries
            /\ timers' = IF result = "BUSY" THEN timers + 1 ELSE timers
            /\ told' = tell
            /\ msgs' = Tail(msgs)

\* sendRsrcRequest(GPS_RELEASE_AGPS_DATA_CONN): stopDataCall always succeeds.
Stop ==
  /\ sent' = "RELEASE"
  /\ call' = IF call \in {"starting", "up"} THEN "stopping" ELSE call

Quiet == sent' = "none" /\ UNCHANGED call

-----------------------------------------------------------------------------
(* Faults: variants with a plausible bug; no part of the machine.          *)

UnsubscribeAtOnce ==   \* waitForCloseComplete is false, as in agnss_nif
  /\ Take("ReleaseATL") /\ Client \in Listed \ atl
  /\ mState # "Released"
  /\ Delete({Client})
  /\ told' = With("UNSUBSCRIBE", {Client})
  /\ IF mState \in {"Pending", "Acquired"} /\ Active' = {}
     THEN mState' = "Released" /\ Stop
     ELSE UNCHANGED mState /\ Quiet
  /\ msgs' = Tail(msgs)
  /\ UNCHANGED <<mRetries, timers, retrier, atl>>

-----------------------------------------------------------------------------
(* MsgTask                                                                 *)

\* LocEngRequestSuplEs: AgpsReleasedState asks for a call and waits for it if
\* it starts.
SubscribeReleased ==
  /\ Take("RequestSuplEs") /\ mState = "Released"
  /\ AddSubscriber(Client)
  /\ UNCHANGED inactive
  /\ Start("Pending", "Released", With("SUBSCRIBE", {Client}))
  /\ UNCHANGED <<retrier, atl>>

\* AgpsPendingState and AgpsReleasingState only list the subscriber,
\* AgpsAcquiredState grants it the call in hand.
SubscribeListed ==
  /\ Take("RequestSuplEs") /\ mState # "Released"
  /\ AddSubscriber(Client)
  /\ told' = With(IF mState = "Acquired" THEN "GRANTED" ELSE "SUBSCRIBE", {Client})
  /\ msgs' = Tail(msgs)
  /\ Quiet
  /\ UNCHANGED <<mState, inactive, mRetries, timers, retrier, atl>>

\* LocEngRequestATL subscribes the handle to agnss_nif, of which only the list is kept
\* here.
FallBack ==
  /\ Take("RequestATL")
  /\ atl' = atl \cup {Client}
  /\ msgs' = Tail(msgs)
  /\ Quiet
  /\ UNCHANGED <<machine, timers, retrier>>

\* LocEngReleaseATL asks agnss_nif first, and ds_nif only about a handle
\* that is unknown there.  A client unknown to both is told that nothing was
\* closed.
ReleaseElsewhere ==
  /\ Take("ReleaseATL") /\ Client \in atl \cup (Clients \ Listed)
  /\ atl' = atl \ {Client}
  /\ told' = With("UNSUBSCRIBE", {Client})
  /\ msgs' = Tail(msgs)
  /\ Quiet
  /\ UNCHANGED <<mState, list, inactive, mRetries, timers, retrier>>

\* AgpsReleasedState tells the client and leaves it on the list.
UnsubscribeReleased ==
  /\ Take("ReleaseATL") /\ Client \in Listed \ atl
  /\ mState = "Released"
  /\ told' = With("UNSUBSCRIBE", {Client})
  /\ msgs' = Tail(msgs)
  /\ Quiet
  /\ UNCHANGED <<mState, list, inactive, mRetries, timers, retrier, atl>>

\* In the other states it becomes inactive and waits for the close.  The last
\* active one stops the call.
Unsubscribe ==
  /\ Take("ReleaseATL") /\ Client \in Listed \ atl
  /\ mState # "Released"
  /\ inactive' = inactive \cup {Client}
  /\ told' = With("UNSUBSCRIBE", {Client})
  /\ IF mState \in {"Pending", "Acquired"} /\ Listed \subseteq inactive'
     THEN mState' = "Releasing" /\ Stop
     ELSE UNCHANGED mState /\ Quiet
  /\ msgs' = Tail(msgs)
  /\ UNCHANGED <<list, mRetries, timers, retrier, atl>>

\* LocEngSuplEsOpened: RSRC_GRANTED counts in AgpsPendingState.
Opened ==
  /\ Take("Opened")
  /\ mState' = IF mState = "Pending" THEN "Acquired" ELSE mState
  /\ told' = IF mState = "Pending" THEN With("GRANTED", Active) ELSE told
  /\ msgs' = Tail(msgs)
  /\ Quiet
  /\ UNCHANGED <<list, inactive, mRetries, timers, retrier, atl>>

\* LocEngSuplEsClosed: RSRC_RELEASED ends AgpsAcquiredState for everybody.
ClosedAcquired ==
  /\ Take("Closed") /\ mState = "Acquired"
  /\ mState' = "Released"
  /\ told' = With("RELEASED", Listed)
  /\ Delete(Listed)
  /\ msgs' = Tail(msgs)
  /\ Quiet
  /\ UNCHANGED <<mRetries, timers, retrier, atl>>

\* "Switching event to RSRC_DENIED": all subscribers of AgpsPendingState, the
\* inactive ones as well, fall back.
ClosedPending ==
  /\ Take("Closed") /\ mState = "Pending"
  /\ mState' = "Released"
  /\ told' = With("DENIED", Listed)
  /\ Delete(Listed)
  /\ mRetries' = 0
  /\ msgs' = Tail(msgs) \o Fallbacks
  /\ Quiet
  /\ UNCHANGED <<timers, retrier, atl>>

\* AgpsReleasingState confirms the close.  For subscribers that came
\* meanwhile it asks for a call and goes to AgpsPendingState, even if the
\* call did not start.
ClosedReleasing ==
  /\ Take("Closed") /\ mState = "Releasing"
  /\ Delete(Listed \cap inactive)
  /\ IF Active' # {}
     THEN Start("Pending", "Pending", With("RELEASED", Listed \cap inactive))
     ELSE /\ mState' = "Released"
          /\ told' = With("RELEASED", Listed \cap inactive)
          /\ msgs' = Tail(msgs)
          /\ Quiet
          /\ UNCHANGED <<mRetries, timers>>
  /\ UNCHANGED <<retrier, atl>>

\* AgpsReleasedState ignores the event, which does not occur there: a machine
\* goes to it only when its call has ended.

MsgTask ==
  \/ SubscribeReleased \/ SubscribeListed \/ FallBack
  \/ ReleaseElsewhere \/ UnsubscribeReleased \/ Unsubscribe
  \/ Opened \/ ClosedAcquired \/ ClosedPending \/ ClosedReleasing

-----------------------------------------------------------------------------
(* The timer thread                                                        *)

\* delay_callback, retryCallback: the first active subscriber ...
RetrySearches ==
  /\ timers > 0 /\ retrier = Nobody
  /\ timers' = timers - 1
  /\ retrier' = IF Active = {} THEN Nobody ELSE FirstActive
  /\ sent' = "none"
  /\ UNCHANGED <<machine, msgs, atl, call>>

\* ... asks for its call again, by the same message as the modem's.
RetryPosts ==
  /\ retrier # Nobody
  /\ Post(Msg("RequestSuplEs", retrier))
  /\ retrier' = Nobody
  /\ sent' = "none"
  /\ UNCHANGED <<machine, timers, atl, call>>

Timer == RetrySearches \/ RetryPosts

-----------------------------------------------------------------------------
(* The modem and its data service client                                   *)

MsgsOf(c) == SelectSeq(msgs, LAMBDA m : m.client = c)
Wants(c) ==
  IF MsgsOf(c) # <<>> THEN Last(MsgsOf(c)).type # "ReleaseATL"
                      ELSE told[c] \in {"SUBSCRIBE", "GRANTED", "DENIED"}

ClientPosts(c, type) ==
  /\ Len(msgs) < MaxMsgs /\ timers < MaxTimers
  /\ Post(Msg(type, c))
  /\ sent' = "none"
  /\ UNCHANGED <<machine, timers, retrier, atl, call>>

Request(c) == ~Wants(c) /\ ClientPosts(c, "RequestSuplEs")
GiveUp(c) == Wants(c) /\ ClientPosts(c, "ReleaseATL")

Reports(from, to, type) ==
  /\ call = from /\ call' = to
  /\ Post(Msg(type, "service"))
  /\ sent' = "none"
  /\ UNCHANGED <<machine, timers, retrier, atl>>

ServiceAnswers ==
  \/ Reports("starting", "up", "Opened")
  \/ Reports("starting", "none", "Closed")
  \/ Reports("stopping", "none", "Closed")

ServiceLoses == Len(msgs) < MaxMsgs /\ Reports("up", "none", "Closed")

-----------------------------------------------------------------------------

Next ==
  \/ MsgTask \/ Timer
  \/ \E c \in Clients : Request(c) \/ GiveUp(c)
  \/ ServiceAnswers \/ ServiceLoses

\* The threads run and a call that was begun ends one way or the other.
Spec ==
  /\ Init /\ [][Next]_vars
  /\ WF_vars(MsgTask) /\ WF_vars(Timer) /\ WF_vars(ServiceAnswers)

-----------------------------------------------------------------------------
(* Properties                                                              *)

\* The subscriber a retry would be for waits, and nothing is under way.
FirstWaits ==
  /\ mState = "Released"
  /\ Active # {}
  /\ told[FirstActive] = "SUBSCRIBE"

RetryIsComing ==
  FirstWaits => timers > 0 \/ retrier # Nobody \/ Queued("RequestSuplEs")

\* It does not wait for ever: the call starts or the client is denied it.
RetriesEnd == FirstWaits ~> ~FirstWaits

\* However late a retry or an answer is, a call is started only when the call
\* before it has ended: the machine never has two.
StartsOneCall == [][sent' = "REQUEST" => call = "none"]_vars

\* "if the data call setup fails for DS State Machine, we want to retry in
\* released state": AgpsPendingState waits for a call that was started.
PendingHasCall ==
  mState = "Pending" => call \in {"starting", "up"} \/ Queued("Opened") \/ Queued("Closed")
==============================================================================
