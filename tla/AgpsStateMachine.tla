-------------------------- MODULE AgpsStateMachine --------------------------
(***************************************************************************)
(* The state machine that shares one data connection (NIF) between AGPS    *)
(* clients: loc_eng_agps.{h,cpp}.  One module stands for the four          *)
(* instances of the program.  The kind an object is constructed with       *)
(* selects its virtual methods:                                            *)
(*                                                                         *)
(*   "ATL"   agnss_nif and internet_nif: subscribers are deleted when they *)
(*           unsubscribe                                                   *)
(*   "WIFI"  wifi_nif: one subscriber at a time, which stays on the list,  *)
(*           inactive, until the framework confirms the close              *)
(*   "DS"    ds_nif: many subscribers, each stays inactive until the close *)
(*           (as long as its data calls start: DSStateMachine.tla is the   *)
(*           machine whose start may fail, which leaves the client listed  *)
(*           in AgpsReleasedState)                                         *)
(*                                                                         *)
(* Every method runs on the one MsgTask thread, so a step is one whole     *)
(* call of subscribeRsrc, unsubscribeRsrc, onRsrcEvent or                  *)
(* dropAllSubscribers.  Which clients and which framework events come when *)
(* is left open here; AgpsService.tla adds the queue and the framework.    *)
(***************************************************************************)
CONSTANTS
  Clients,         \* the IDs subscribers are created with
  Daemons,         \* those of the BIT daemon: they outlive a modem restart
  Kinds,           \* the kinds of machine there are
  EngineRestarts   \* whether loc_eng_handle_engine_up may drop the list

ASSUME AgpsAssumption ==
  /\ Daemons \subseteq Clients
  /\ Kinds \subseteq {"ATL", "WIFI", "DS"}
  /\ EngineRestarts \in BOOLEAN

VARIABLES
  kind,     \* what the machine was constructed as; it never changes
  mState,   \* mStatePtr
  subs,     \* mSubscribers: "none" (not on the list), "active" or "inactive"
  told,     \* the last status exchanged with each client ("SUBSCRIBE" or
            \* "UNSUBSCRIBE": what it asked for and heard no answer to since)
  sent      \* what this step passed to Servicer::requestRsrc, if anything

machine == <<kind, mState, subs, told, sent>>

States == {"Released", "Pending", "Acquired", "Releasing"}
Statuses == {"none", "SUBSCRIBE", "GRANTED", "DENIED", "RELEASED", "UNSUBSCRIBE"}
Requests == {"none", "REQUEST", "RELEASE"}

WaitForCloseComplete == kind # "ATL"
EnforceSingleSubscriber == kind = "WIFI"

Active == {c \in Clients : subs[c] = "active"}
Inactive == {c \in Clients : subs[c] = "inactive"}
Subscribed == Active \cup Inactive

Init ==
  /\ kind \in Kinds
  /\ mState = "Released"
  /\ subs = [c \in Clients |-> "none"]
  /\ told = [c \in Clients |-> "none"]
  /\ sent = "none"

-----------------------------------------------------------------------------
(* Helpers                                                                 *)

\* Every client of S is given this status (notifyRsrcStatus).
Tell(S, status) ==
  told' = [c \in Clients |-> IF c \in S THEN status ELSE told[c]]

\* The clients of S are taken off the list (postNotifyDelete).
Delete(S) ==
  subs' = [c \in Clients |-> IF c \in S THEN "none" ELSE subs[c]]

\* addSubscriber: a clone is added unless an equal subscriber is listed.
AddSubscriber(c) ==
  subs' = [subs EXCEPT ![c] = IF @ = "none" THEN "active" ELSE @]

\* sendRsrcRequest: REQUEST needs an active subscriber, RELEASE needs none;
\* the data service machine has no such test.
SendRsrcRequest(action) ==
  sent' = IF kind = "DS" \/ ((Active' = {}) = (action = "RELEASE"))
          THEN action ELSE "none"

-----------------------------------------------------------------------------
(* Faults: variants of the methods below with a plausible bug.  Nothing    *)
(* here is part of the machine; each stands in for the method it is named  *)
(* after when the project checks that a property can fail.                 *)

SubscribeReleasedQuiet(c) ==      \* the framework is not asked
  /\ mState = "Released" /\ mState' = "Pending"
  /\ AddSubscriber(c) /\ Tell({c}, "SUBSCRIBE")
  /\ sent' = "none"

Inactivate(c) ==
  /\ subs' = [subs EXCEPT ![c] = IF WaitForCloseComplete THEN "inactive" ELSE "none"]
  /\ Tell({c}, "UNSUBSCRIBE")

UnsubscribeLastQuiet(c) ==        \* the framework is not told
  /\ mState \in {"Pending", "Acquired"}
  /\ Inactivate(c)
  /\ Active' = {}
  /\ mState' = IF Subscribed' = {} THEN "Released" ELSE "Releasing"
  /\ sent' = "none"

GrantFirst ==                     \* the search stops at its first match
  /\ mState = "Pending" /\ mState' = "Acquired"
  /\ \E c \in Active : Tell({c}, "GRANTED")
  /\ sent' = "none"
  /\ UNCHANGED subs

ConfirmCloseAll(status) ==        \* BROADCAST_ALL deletes, INACTIVE is told
  /\ mState = "Releasing" /\ mState' = "Released"
  /\ Tell(Inactive, status) /\ Delete(Subscribed)
  /\ sent' = "none"

IgnoredForced(event) ==           \* a forced release is ignored as well
  /\ mState # "Releasing" \/ event = "GRANTED"
  /\ ~(mState = "Pending" /\ event \in {"GRANTED", "DENIED"})
  /\ sent' = "none"
  /\ UNCHANGED <<mState, subs, told>>

-----------------------------------------------------------------------------
(* A client asks for the NIF                                               *)

\* An exclusive NIF that has a subscriber refuses the newcomer at once.
SubscribeRefused(c) ==
  /\ EnforceSingleSubscriber /\ Subscribed # {}
  /\ Tell({c}, "DENIED")
  /\ sent' = "none"
  /\ UNCHANGED <<mState, subs>>

\* AgpsReleasedState: the first subscriber makes the machine ask for the NIF.
SubscribeReleased(c) ==
  /\ mState = "Released"
  /\ AddSubscriber(c)
  /\ Tell({c}, "SUBSCRIBE")
  /\ SendRsrcRequest("REQUEST")
  /\ mState' = "Pending"

\* AgpsPendingState and AgpsReleasingState: the subscriber is only listed.
SubscribeWaiting(c) ==
  /\ mState \in {"Pending", "Releasing"}
  /\ AddSubscriber(c)
  /\ Tell({c}, "SUBSCRIBE")
  /\ sent' = "none"
  /\ UNCHANGED mState

\* AgpsAcquiredState: the subscriber is granted the NIF in hand, then listed.
SubscribeAcquired(c) ==
  /\ mState = "Acquired"
  /\ Tell({c}, "GRANTED")
  /\ AddSubscriber(c)
  /\ sent' = "none"
  /\ UNCHANGED mState

SubscribeAccepted(c) ==
  /\ ~(EnforceSingleSubscriber /\ Subscribed # {})
  /\ SubscribeReleased(c) \/ SubscribeWaiting(c) \/ SubscribeAcquired(c)

-----------------------------------------------------------------------------
(* A listed client gives the NIF up.  unsubscribeRsrc calls the state only *)
(* for a subscriber it finds on the list.                                  *)

\* The client is deleted or, when the close must be confirmed, marked
\* inactive.  A deleted client and a DSSubscriber get the close reported right
\* away; a WIFISubscriber hears nothing before RELEASED or DENIED.
DropOrDeactivate(c) ==
  /\ subs' = [subs EXCEPT ![c] = IF WaitForCloseComplete THEN "inactive" ELSE "none"]
  /\ Tell({c}, "UNSUBSCRIBE")

\* Another client is still active: the NIF is kept.
UnsubscribeKeep(c) ==
  /\ mState \in {"Pending", "Acquired"}
  /\ DropOrDeactivate(c)
  /\ Active' # {}
  /\ sent' = "none"
  /\ UNCHANGED mState

\* Nobody is left, or only clients that wait for the close: the framework is
\* told that it may release the NIF.
UnsubscribeLast(c) ==
  /\ mState \in {"Pending", "Acquired"}
  /\ DropOrDeactivate(c)
  /\ Active' = {}
  /\ mState' = IF Subscribed' = {} THEN "Released" ELSE "Releasing"
  /\ SendRsrcRequest("RELEASE")

\* AgpsReleasingState: the framework has been told already.
UnsubscribeReleasing(c) ==
  /\ mState = "Releasing"
  /\ DropOrDeactivate(c)
  /\ mState' = IF Subscribed' = {} THEN "Released" ELSE "Releasing"
  /\ sent' = "none"

Unsubscribe(c) ==
  /\ c \in Subscribed
  /\ UnsubscribeKeep(c) \/ UnsubscribeLast(c) \/ UnsubscribeReleasing(c)

-----------------------------------------------------------------------------
(* The framework reports                                                   *)

\* RSRC_GRANTED counts in AgpsPendingState only; all active clients are told.
GrantPending ==
  /\ mState = "Pending"
  /\ mState' = "Acquired"
  /\ Tell(Active, "GRANTED")
  /\ sent' = "none"
  /\ UNCHANGED subs

\* Everybody is told and deleted: DENIED in AgpsPendingState, RELEASED in
\* AgpsAcquiredState (a forced release).
EndForAll(status) ==
  /\ mState = IF status = "DENIED" THEN "Pending" ELSE "Acquired"
  /\ mState' = "Released"
  /\ Tell(Subscribed, status)
  /\ Delete(Subscribed)
  /\ sent' = "none"

\* AgpsReleasingState: DENIED and RELEASED both confirm the close to the
\* inactive clients.  Clients that came in the meantime need a new NIF.
ConfirmClose(status) ==
  /\ mState = "Releasing"
  /\ Tell(Inactive, status)
  /\ Delete(Inactive)
  /\ IF Active' # {}
     THEN mState' = "Pending" /\ SendRsrcRequest("REQUEST")
     ELSE mState' = "Released" /\ sent' = "none"

\* Every other event is only logged: GRANTED outside AgpsPendingState, any
\* event in AgpsReleasedState, RELEASED while pending (the data service
\* machine turns that one into DENIED), DENIED while acquired.
Ignored(event) ==
  /\ \/ event = "GRANTED" /\ mState # "Pending"
     \/ event = "RELEASED" /\ mState \in {"Released", "Pending"}
        /\ ~(kind = "DS" /\ mState = "Pending")
     \/ event = "DENIED" /\ mState \in {"Released", "Acquired"}
  /\ sent' = "none"
  /\ UNCHANGED <<mState, subs, told>>

OnRsrcEvent(event) ==
  \/ event = "GRANTED" /\ GrantPending
  \/ event \in {"DENIED", "RELEASED"} /\ EndForAll(event)
  \/ event \in {"DENIED", "RELEASED"} /\ ConfirmClose(event)
  \* DSStateMachine::onRsrcEvent: "Switching event to RSRC_DENIED"
  \/ event = "RELEASED" /\ kind = "DS" /\ EndForAll("DENIED")
  \/ Ignored(event)

\* loc_eng_handle_engine_up: the list of agnss_nif and internet_nif is flushed
\* and nobody is notified.  The
\* clients in the modem start afresh, the BIT daemon does not know; the state
\* pointer stays where it was.
DropAllSubscribers ==
  /\ EngineRestarts /\ kind = "ATL"
  /\ subs' = [c \in Clients |-> "none"]
  /\ Tell(Clients \ Daemons, "none")
  /\ sent' = "none"
  /\ UNCHANGED mState

-----------------------------------------------------------------------------

Next ==
  /\ \/ \E c \in Clients : SubscribeRefused(c)
     \/ \E c \in Clients : SubscribeAccepted(c)
     \/ \E c \in Clients : Unsubscribe(c)
     \/ \E event \in {"GRANTED", "DENIED", "RELEASED"} : OnRsrcEvent(event)
     \/ DropAllSubscribers
  /\ UNCHANGED kind

Spec == Init /\ [][Next]_machine

-----------------------------------------------------------------------------
(* Properties                                                              *)

\* Each variable has its type.
TypeOK ==
  /\ kind \in Kinds
  /\ mState \in States
  /\ subs \in [Clients -> {"none", "active", "inactive"}]
  /\ told \in [Clients -> Statuses]
  /\ sent \in Requests

\* The list and the state agree: AgpsReleasedState never sees a listed
\* subscriber (what its "subscriber list not empty!!!" error is about), only
\* the states that hold or ask for the NIF do without an inactive one, and
\* only machines that wait for the close have inactive subscribers.  Where a
\* start may fail (ds_nif) the code leaves the client listed in Released: this
\* is about the machines that only ask, and about ds_nif while its calls start.
ListFollowsState ==
  /\ mState = "Released" => Subscribed = {}
  /\ mState = "Releasing" => Inactive # {}
  /\ ~WaitForCloseComplete => Inactive = {}

\* Unless a modem restart may have emptied the list, the machine asks for or
\* holds the NIF only while some client wants it, so it will be given back.
HeldForSomeone ==
  mState \in {"Pending", "Acquired"} /\ ~(EngineRestarts /\ kind = "ATL") => Active # {}

\* A client that waits for an answer, or was granted the NIF and not yet told
\* otherwise, is on the list, where the next DENIED or RELEASED reaches it.
\* So is a WIFI client that gave the NIF up and has not heard of the close.
NobodyLeftBehind ==
  \A c \in Clients \ Daemons :
    /\ told[c] \in {"SUBSCRIBE", "GRANTED"} => subs[c] # "none"
    /\ told[c] = "UNSUBSCRIBE" /\ kind = "WIFI" => subs[c] = "inactive"

\* An active client waits while the NIF is being asked for, and knows that it
\* has the NIF when it is there.  (The holder of an exclusive NIF that asks
\* twice is told DENIED while it stays the holder.)
ActiveKnowsState ==
  \A c \in Active :
    \/ told[c] = "SUBSCRIBE" /\ mState \in {"Pending", "Releasing"}
    \/ told[c] = "GRANTED" /\ mState = "Acquired"
    \/ told[c] = "DENIED" /\ EnforceSingleSubscriber

\* The exclusive NIF never has two subscribers, whatever the order of
\* requests, releases and framework events.
SingleSubscriber ==
  kind = "WIFI" =>
    \A c, d \in Subscribed : c = d

\* "already requested for NIF resource, do nothing until we get RSRC_GRANTED
\* indication but we need to add subscriber to the list": a client that asked
\* is an active subscriber until it is answered.  (One that asks ds_nif again
\* while its close is awaited is found listed, and stays inactive.)
RequestIsListed ==
  kind # "DS" =>
    \A c \in Clients \ Daemons : told[c] = "SUBSCRIBE" => subs[c] = "active"

\* The machine shares the NIF as SharedNif.tla says.  The holder of an
\* exclusive NIF that was refused a second request still counts.
Rebuffed == {c \in Active : told[c] = "DENIED"}
Waiting == {c \in Active : told[c] = "SUBSCRIBE"}
           \cup {c \in Rebuffed : mState = "Pending"}
Using == {c \in Active : told[c] = "GRANTED"}
         \cup {c \in Rebuffed : mState = "Acquired"}
Connection ==
  IF mState = "Acquired" THEN "held"
  ELSE IF mState = "Pending" \/ (mState = "Releasing" /\ Active # {}) THEN "asked"
  ELSE "off"

Nif == INSTANCE SharedNif WITH waiting <- Waiting, using <- Using, nif <- Connection

\* Every step of the machine is a step of SharedNif or changes nothing there.
ImplementsSharedNif == Nif!Spec
==============================================================================
