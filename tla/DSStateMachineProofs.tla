-------------------------- MODULE DSStateMachineProofs --------------------------
(***************************************************************************)
(* Theorems about the data service machine, for any clients, retries and   *)
(* messages on their way.  What makes them true is the order of the        *)
(* service's answers in the queue: while one is there the machine waits    *)
(* for it, and behind the end of a call there is none.                     *)
(***************************************************************************)
EXTENDS DSStateMachine, FiniteSetTheorems, TLAPS

Requests == [type : {"RequestSuplEs", "RequestATL", "ReleaseATL"}, client : Clients]
Answers == [type : {"Opened", "Closed"}, client : {"service"}]
Messages == Requests \cup Answers

\* What the variables hold, as far as the theorems count on it.
Typed ==
  /\ mState \in {"Released", "Pending", "Acquired", "Releasing"}
  /\ list \in Seq(Clients)
  /\ told = [c \in Clients |-> told[c]]
  /\ mRetries \in Nat /\ timers \in Nat
  /\ retrier \in Clients \cup {Nobody}
  /\ msgs \in Seq(Messages)

\* Only a machine that is not Released has subscribers that wait for the close.
InactiveListed ==
  /\ inactive \subseteq Listed
  /\ mState = "Released" => inactive = {}

\* No answer of the service in the queue from position first on.
NoAnswer(first) ==
  \A i \in DOMAIN msgs : i >= first => msgs[i].type \notin {"Opened", "Closed"}

\* The answers in the queue are those of one call, and the last ends it.
AnswersInOrder ==
  /\ mState = "Released" => call = "none" /\ NoAnswer(1)
  /\ \A i \in DOMAIN msgs :
       msgs[i].type = "Closed" => call = "none" /\ NoAnswer(i + 1)
  /\ \A i, j \in DOMAIN msgs :
       msgs[i].type = "Opened" => call # "starting" /\ (msgs[j].type = "Opened" => i = j)

-----------------------------------------------------------------------------
(* The list and the queue                                                  *)

LEMMA SmallestOf ==
  ASSUME NEW n \in Nat, NEW S \in SUBSET (1 .. n), S # {}
  PROVE  Min(S) \in S
<1> DEFINE Below(x) == {y \in S : y < x}
           Belows == {Below(x) : x \in S}
<1>1. IsFiniteSet(S)
  <2>1. IsFiniteSet(1 .. n)
    BY FS_Interval
  <2> QED  BY <2>1, FS_Subset
<1>2. IsWellFoundedOn(StrictSubsetOrdering(S), SUBSET S)
  BY <1>1, FS_StrictSubsetOrderingWellFounded, FS_FiniteSubsetsOfFinite
<1>3. Belows \subseteq SUBSET S /\ Belows # {}
  BY S # {}
<1>4. PICK least \in Belows : \A U \in Belows : <<U, least>> \notin StrictSubsetOrdering(S)
  <2> HIDE DEF Belows
  <2> QED  BY <1>2, <1>3, WFMin
<1>5. PICK x \in S : least = Below(x)
  BY <1>4
<1>6. ASSUME NEW y \in S, ~(x <= y)  PROVE FALSE
  <2>1. x \in Nat /\ y \in Nat /\ y < x /\ S \subseteq Nat
    BY <1>6
  <2>2. \A z \in Nat : z < y => z < x
    BY <2>1
  <2>3. Below(y) \subseteq Below(x)
    BY <2>1, <2>2
  <2>4. y \in Below(x) /\ y \notin Below(y)
    BY <2>1
  <2>5. <<Below(y), Below(x)>> \in StrictSubsetOrdering(S)
    <3>1. Below(y) \in SUBSET S /\ Below(x) \in SUBSET S
      OBVIOUS
    <3> HIDE DEF Below
    <3> QED  BY <2>3, <2>4, <3>1 DEF StrictSubsetOrdering
  <2> QED  BY <1>4, <1>5, <2>5
<1> QED  BY <1>6 DEF Min

\* Of a list with active subscribers, the first one is a subscriber.
LEMMA FirstOf ==
  ASSUME NEW C, NEW s \in Seq(C), NEW T, ToSet(s) \cap T # {}
  PROVE  s[Min({i \in DOMAIN s : s[i] \in T})] \in C
<1> DEFINE S == {i \in DOMAIN s : s[i] \in T}
<1>1. S \in SUBSET (1 .. Len(s)) /\ S # {} /\ Len(s) \in Nat
  BY DEF ToSet
<1>2. Min(S) \in S
  <2> HIDE DEF S
  <2> QED  BY <1>1, SmallestOf
<1> QED  BY <1>2

LEMMA FirstActiveIs ==
  ASSUME list \in Seq(Clients), Active # {}
  PROVE  FirstActive \in Clients
<1>1. ToSet(list) \cap Active # {}
  BY DEF Active, Listed
<1> QED  BY <1>1, FirstOf DEF FirstActive

LEMMA FirstActiveNext ==
  ASSUME list' \in Seq(Clients), Active' # {}
  PROVE  FirstActive' \in Clients
<1>1. ToSet(list') \cap Active' # {}
  BY DEF Active, Listed
<1> QED  BY <1>1, FirstOf DEF FirstActive

\* What a step of the MsgTask does to the queue: the first message is gone, and
\* what is new are requests.
TakesFirst ==
  /\ msgs # <<>>
  /\ msgs' \in Seq(Messages)
  /\ \A i \in DOMAIN msgs' :
       msgs'[i] \in Requests \/ (i + 1 \in DOMAIN msgs /\ msgs'[i] = msgs[i + 1])
  /\ \A i \in DOMAIN msgs : i > 1 => i - 1 \in DOMAIN msgs' /\ msgs'[i - 1] = msgs[i]

LEMMA TakeAndPost ==
  ASSUME NEW q \in Seq(Messages), q # <<>>, NEW more \in Seq(Requests),
         msgs = q, msgs' = Tail(q) \o more
  PROVE  TakesFirst
<1>1. more \in Seq(Messages) /\ \A j \in 1 .. Len(more) : more[j] \in Requests
  BY DEF Messages
<1>2. /\ Tail(q) \in Seq(Messages) /\ Len(Tail(q)) = Len(q) - 1 /\ Len(q) \in Nat /\ Len(q) > 0
      /\ \A i \in 1 .. Len(q) - 1 : Tail(q)[i] = q[i + 1]
  OBVIOUS
<1> DEFINE t == Tail(q)
<1> HIDE DEF t, Messages
<1>3. /\ t \o more \in Seq(Messages)
      /\ Len(t \o more) = Len(t) + Len(more)
      /\ \A i \in 1 .. Len(t) : (t \o more)[i] = t[i]
      /\ \A i \in 1 .. Len(more) : (t \o more)[Len(t) + i] = more[i]
  BY <1>1, <1>2 DEF t
<1>4. ASSUME NEW i \in DOMAIN msgs'
      PROVE  msgs'[i] \in Requests \/ (i + 1 \in DOMAIN msgs /\ msgs'[i] = msgs[i + 1])
  <2>1. i \in 1 .. Len(t) + Len(more) /\ Len(t) \in Nat /\ Len(more) \in Nat
    BY <1>2, <1>3 DEF t
  <2>2. CASE i <= Len(t)
    BY <1>2, <1>3, <2>1, <2>2 DEF t
  <2>3. CASE i > Len(t)
    <3>1. i - Len(t) \in 1 .. Len(more) /\ i = Len(t) + (i - Len(t))
      BY <2>1, <2>3
    <3>2. msgs'[i] = more[i - Len(t)]
      BY <1>3, <3>1 DEF t
    <3> QED  BY <1>1, <3>1, <3>2
  <2> QED  BY <2>1, <2>2, <2>3
<1>5. ASSUME NEW i \in DOMAIN msgs, i > 1
      PROVE  i - 1 \in DOMAIN msgs' /\ msgs'[i - 1] = msgs[i]
  BY <1>2, <1>3, <1>5 DEF t
<1> QED  BY <1>3, <1>4, <1>5 DEF TakesFirst, t

LEMMA TakeOnly ==
  ASSUME Typed, msgs # <<>>, msgs' = Tail(msgs)
  PROVE  TakesFirst
<1>1. Tail(msgs) = Tail(msgs) \o <<>> /\ <<>> \in Seq(Requests) /\ msgs \in Seq(Messages)
  BY DEF Typed
<1> QED  BY <1>1, TakeAndPost

LEMMA TakeAndAppend ==
  ASSUME Typed, msgs # <<>>, NEW m \in Requests, msgs' = Append(Tail(msgs), m)
  PROVE  TakesFirst
<1>1. Append(Tail(msgs), m) = Tail(msgs) \o <<m>> /\ <<m>> \in Seq(Requests) /\ msgs \in Seq(Messages)
  BY DEF Typed, Messages
<1> QED  BY <1>1, TakeAndPost

\* The first message, and the client of a request.
LEMMA FirstMessage ==
  ASSUME Typed, msgs # <<>>
  PROVE  /\ 1 \in DOMAIN msgs /\ Head(msgs) = msgs[1] /\ Head(msgs) \in Messages
         /\ Head(msgs).type \in {"RequestSuplEs", "RequestATL", "ReleaseATL"} => Client \in Clients
<1>1. 1 \in DOMAIN msgs /\ Head(msgs) = msgs[1] /\ Head(msgs) \in Messages
  <2> HIDE DEF Messages
  <2> QED  BY DEF Typed
<1> QED  BY <1>1 DEF Client, Messages, Requests, Answers

\* sendRsrcRequest, called with the state the list is in after the step: the
\* call starts, or its first subscriber has a retry coming or is denied it.
LEMMA StartSteps ==
  ASSUME DSAssumption, Typed, msgs # <<>>, list' \in Seq(Clients), Active' # {},
         NEW next, NEW otherwise, NEW tell, tell = [c \in Clients |-> tell[c]],
         Start(next, otherwise, tell)
  PROVE  /\ TakesFirst
         /\ told' = [c \in Clients |-> told'[c]]
         /\ mRetries' \in Nat /\ timers' \in Nat
         /\ \/ mState' = next /\ call' = "starting"
            \/ /\ mState' = otherwise /\ call' = call
               /\ \/ "OTHER" \in Results
                  \/ timers' > 0
                  \/ told'[FirstActive'] = "DENIED"
<1>1. mRetries \in Nat /\ timers \in Nat
  BY DEF Typed
<1>2. FirstActive' \in Clients
  BY FirstActiveNext
<1>3. PICK result \in Results :
        /\ mState' = IF result = "SUCCESS" THEN next ELSE otherwise
        /\ call' = IF result = "SUCCESS" THEN "starting" ELSE call
        /\ IF result = "UNSUPPORTED" \/ (result = "BUSY" /\ mRetries + 1 > MaxRetries)
           THEN /\ mRetries' = 0
                /\ told' = [tell EXCEPT ![FirstActive'] = "DENIED"]
                /\ msgs' = Append(Tail(msgs), Msg("RequestATL", FirstActive'))
                /\ UNCHANGED timers
           ELSE /\ mRetries' = IF result = "BUSY" THEN mRetries + 1 ELSE mRetries
                /\ timers' = IF result = "BUSY" THEN timers + 1 ELSE timers
                /\ told' = tell
                /\ msgs' = Tail(msgs)
  BY DEF Start
<1>4. result \in {"SUCCESS", "BUSY", "UNSUPPORTED", "OTHER"}
  BY DEF DSAssumption
<1>5. CASE result = "UNSUPPORTED" \/ (result = "BUSY" /\ mRetries + 1 > MaxRetries)
  <2>1. Msg("RequestATL", FirstActive') \in Requests
    BY <1>2 DEF Msg, Requests
  <2>2. TakesFirst
    BY <1>3, <1>5, <2>1, TakeAndAppend
  <2>3. told' = [tell EXCEPT ![FirstActive'] = "DENIED"]
    BY <1>3, <1>5
  <2>4. told'[FirstActive'] = "DENIED" /\ told' = [c \in Clients |-> told'[c]]
    BY <1>2, <2>3
  <2>5. mRetries' \in Nat /\ timers' \in Nat
    BY <1>1, <1>3, <1>5
  <2>6. mState' = otherwise /\ call' = call
    BY <1>3, <1>5
  <2> QED  BY <2>2, <2>4, <2>5, <2>6
<1>6. CASE ~(result = "UNSUPPORTED" \/ (result = "BUSY" /\ mRetries + 1 > MaxRetries))
  <2>1. /\ mRetries' = IF result = "BUSY" THEN mRetries + 1 ELSE mRetries
        /\ timers' = IF result = "BUSY" THEN timers + 1 ELSE timers
        /\ told' = tell
        /\ msgs' = Tail(msgs)
    BY <1>3, <1>6
  <2>2. TakesFirst
    BY <2>1, TakeOnly
  <2>3. told' = [c \in Clients |-> told'[c]]
    BY <2>1
  <2>4. mRetries' \in Nat /\ timers' \in Nat /\ (result = "BUSY" => timers' > 0)
    BY <1>1, <2>1
  <2>5. CASE result = "SUCCESS"
    BY <1>3, <2>2, <2>3, <2>4, <2>5
  <2>6. CASE result \in {"BUSY", "OTHER"}
    <3>1. mState' = otherwise /\ call' = call
      BY <1>3, <2>6
    <3> QED  BY <2>2, <2>3, <2>4, <2>6, <3>1
  <2> QED  BY <1>4, <1>6, <2>5, <2>6
<1> QED  BY <1>5, <1>6

\* linked_list_add and the deletion of subscribers keep a list of clients.
LEMMA ListsOfClients ==
  ASSUME Typed
  PROVE  /\ \A c \in Clients : AddSubscriber(c) => list' \in Seq(Clients) /\ Listed' = Listed \cup {c}
         /\ \A S : Delete(S) => list' \in Seq(Clients) /\ Listed' = Listed \ S
<1>1. list \in Seq(Clients) /\ Len(list) \in Nat /\ Listed \subseteq Clients
  BY DEF Typed, Listed, ToSet
<1>2. ASSUME NEW c \in Clients, AddSubscriber(c)
      PROVE  list' \in Seq(Clients) /\ Listed' = Listed \cup {c}
  <2>1. CASE c \in Listed
    BY <1>1, <1>2, <2>1 DEF AddSubscriber, Listed
  <2>2. CASE c \notin Listed
    <3>1. list' = <<c>> \o list
      BY <1>2, <2>2 DEF AddSubscriber
    <3>2. /\ list' \in Seq(Clients) /\ Len(list') = Len(list) + 1 /\ list'[1] = c
          /\ \A i \in 1 .. Len(list) : list'[i + 1] = list[i]
      BY <1>1, <3>1
    <3>3. \A i \in DOMAIN list' : i = 1 \/ (i - 1 \in DOMAIN list /\ list'[i] = list[i - 1])
      BY <1>1, <3>2
    <3>4. \A i \in DOMAIN list : i + 1 \in DOMAIN list' /\ list'[i + 1] = list[i]
      BY <1>1, <3>2
    <3>5. 1 \in DOMAIN list'
      BY <1>1, <3>2
    <3>6. Listed' \subseteq Listed \cup {c}
      BY <3>2, <3>3 DEF Listed, ToSet
    <3>7. Listed \cup {c} \subseteq Listed'
      BY <3>2, <3>4, <3>5 DEF Listed, ToSet
    <3> QED  BY <3>2, <3>6, <3>7
  <2> QED  BY <2>1, <2>2
<1>3. ASSUME NEW S, Delete(S)  PROVE list' \in Seq(Clients) /\ Listed' = Listed \ S
  <2>1. PICK n \in 0 .. Len(list) : \E rest \in [1 .. n -> Listed \ S] :
          ToSet(rest) = Listed \ S /\ list' = rest
    BY <1>3 DEF Delete
  <2>2. PICK rest \in [1 .. n -> Listed \ S] : ToSet(rest) = Listed \ S /\ list' = rest
    BY <2>1
  <2>3. rest \in [1 .. n -> Clients] /\ n \in Nat
    BY <1>1
  <2>4. rest \in Seq(Clients)
    BY <2>3
  <2> QED  BY <2>2, <2>4 DEF Listed
<1> QED  BY <1>2, <1>3

\* RSRC_DENIED to all: a request for each, behind what is left.
LEMMA FallbacksFollow ==
  ASSUME Typed, msgs # <<>>, msgs' = Tail(msgs) \o Fallbacks
  PROVE  TakesFirst
<1>1. list \in Seq(Clients) /\ Len(list) \in Nat /\ msgs \in Seq(Messages)
  BY DEF Typed
<1>2. Fallbacks \in [1 .. Len(list) -> Requests]
  BY <1>1 DEF Fallbacks, Msg, Requests
<1>3. Fallbacks \in Seq(Requests)
  <2> HIDE DEF Requests, Fallbacks
  <2>1. \A n \in Nat : [1 .. n -> Requests] \subseteq Seq(Requests)
    OBVIOUS
  <2> QED  BY <1>1, <1>2, <2>1
<1> QED  BY <1>1, <1>3, TakeAndPost

-----------------------------------------------------------------------------
(* The two steps that ask for a call                                       *)

LEMMA SubscribeReleasedSteps ==
  ASSUME DSAssumption, Typed, InactiveListed, SubscribeReleased
  PROVE  /\ TakesFirst /\ list' \in Seq(Clients)
         /\ told' = [c \in Clients |-> told'[c]]
         /\ mRetries' \in Nat /\ timers' \in Nat /\ retrier' = retrier
         /\ mState = "Released" /\ inactive' = {}
         /\ \/ mState' = "Pending" /\ call' = "starting"
            \/ /\ mState' = "Released" /\ call' = call
               /\ "OTHER" \in Results \/ timers' > 0 \/ told'[FirstActive'] = "DENIED"
<1>1. /\ msgs # <<>> /\ Head(msgs).type = "RequestSuplEs" /\ mState = "Released"
      /\ AddSubscriber(Client) /\ inactive' = inactive /\ retrier' = retrier
      /\ Start("Pending", "Released", With("SUBSCRIBE", {Client}))
  BY DEF SubscribeReleased, Take
<1>2. Client \in Clients /\ inactive' = {}
  BY <1>1, FirstMessage DEF InactiveListed
<1>3. list' \in Seq(Clients) /\ Client \in Listed'
  BY <1>1, <1>2, ListsOfClients
<1>4. Active' # {}
  BY <1>2, <1>3 DEF Active
<1>5. PICK tell : tell = With("SUBSCRIBE", {Client})
  OBVIOUS
<1>6. tell = [c \in Clients |-> tell[c]]
  BY <1>5 DEF With
<1>7. Start("Pending", "Released", tell)
  BY <1>1, <1>5
<1>8. /\ TakesFirst
      /\ told' = [c \in Clients |-> told'[c]]
      /\ mRetries' \in Nat /\ timers' \in Nat
      /\ \/ mState' = "Pending" /\ call' = "starting"
         \/ /\ mState' = "Released" /\ call' = call
            /\ "OTHER" \in Results \/ timers' > 0 \/ told'[FirstActive'] = "DENIED"
  BY <1>1, <1>3, <1>4, <1>6, <1>7, StartSteps
<1> QED  BY <1>1, <1>2, <1>3, <1>8

LEMMA ClosedReleasingSteps ==
  ASSUME DSAssumption, Typed, InactiveListed, ClosedReleasing
  PROVE  /\ TakesFirst /\ list' \in Seq(Clients)
         /\ told' = [c \in Clients |-> told'[c]]
         /\ mRetries' \in Nat /\ timers' \in Nat /\ retrier' = retrier
         /\ msgs[1].type = "Closed" /\ inactive' = {}
         /\ \/ mState' = "Pending" /\ (call' = "starting" \/ call' = call)
            \/ mState' = "Released" /\ Active' = {} /\ call' = call /\ sent' = "none"
<1>1. /\ msgs # <<>> /\ Head(msgs).type = "Closed" /\ retrier' = retrier
      /\ Delete(Listed \cap inactive)
      /\ IF Active' # {}
         THEN Start("Pending", "Pending", With("RELEASED", Listed \cap inactive))
         ELSE /\ mState' = "Released"
              /\ told' = With("RELEASED", Listed \cap inactive)
              /\ msgs' = Tail(msgs)
              /\ sent' = "none" /\ call' = call
              /\ UNCHANGED <<mRetries, timers>>
  BY DEF ClosedReleasing, Take, Quiet
<1>2. list' \in Seq(Clients) /\ inactive' = {}
  BY <1>1, ListsOfClients DEF InactiveListed, Delete
<1>3. msgs[1].type = "Closed"
  BY <1>1, FirstMessage
<1>4. CASE Active' # {}
  <2>1. PICK tell : tell = With("RELEASED", Listed \cap inactive)
    OBVIOUS
  <2>2. tell = [c \in Clients |-> tell[c]]
    BY <2>1 DEF With
  <2>3. Start("Pending", "Pending", tell)
    BY <1>1, <1>4, <2>1
  <2>4. /\ TakesFirst
        /\ told' = [c \in Clients |-> told'[c]]
        /\ mRetries' \in Nat /\ timers' \in Nat
        /\ mState' = "Pending" /\ (call' = "starting" \/ call' = call)
    BY <1>1, <1>2, <1>4, <2>2, <2>3, StartSteps
  <2> QED  BY <1>1, <1>2, <1>3, <2>4
<1>5. CASE Active' = {}
  <2>1. /\ mState' = "Released" /\ sent' = "none" /\ call' = call
        /\ told' = With("RELEASED", Listed \cap inactive)
        /\ msgs' = Tail(msgs)
        /\ mRetries' = mRetries /\ timers' = timers
    BY <1>1, <1>5
  <2>2. TakesFirst
    BY <1>1, <2>1, TakeOnly
  <2>3. told' = [c \in Clients |-> told'[c]]
    BY <2>1 DEF With
  <2> QED  BY <1>1, <1>2, <1>3, <1>5, <2>1, <2>2, <2>3 DEF Typed
<1> QED  BY <1>4, <1>5

-----------------------------------------------------------------------------
(* Types                                                                   *)

\* What a step that posts a message does to the queue.
PostsLast(m) ==
  /\ msgs' \in Seq(Messages)
  /\ \A i \in DOMAIN msgs' :
       (i \in DOMAIN msgs /\ msgs'[i] = msgs[i]) \/ (i = Len(msgs) + 1 /\ msgs'[i] = m)
  /\ \A i \in DOMAIN msgs : i \in DOMAIN msgs' /\ msgs'[i] = msgs[i]
  /\ Len(msgs) \in Nat /\ DOMAIN msgs = 1 .. Len(msgs)

LEMMA PostSteps ==
  ASSUME Typed, NEW m \in Messages, Post(m)
  PROVE  PostsLast(m)
<1>1. msgs \in Seq(Messages) /\ msgs' = Append(msgs, m)
  BY DEF Typed, Post
<1> HIDE DEF Messages
<1> QED  BY <1>1 DEF PostsLast

LEMMA InitWell == ASSUME DSAssumption, Init PROVE Typed /\ InactiveListed
<1>1. list \in Seq(Clients) /\ msgs \in Seq(Messages)
  BY DEF Init
<1> QED  BY <1>1 DEF Init, Typed, InactiveListed, Nobody

\* The steps of the MsgTask that ask for no call.
LEMMA MsgTaskTyped ==
  ASSUME Typed, InactiveListed,
         \/ SubscribeListed \/ FallBack \/ ReleaseElsewhere
         \/ UnsubscribeReleased \/ Unsubscribe
         \/ Opened \/ ClosedAcquired \/ ClosedPending
  PROVE  TakesFirst /\ Typed' /\ InactiveListed'
<1> DEFINE Rest ==
      /\ told' = [c \in Clients |-> told'[c]]
      /\ mRetries' \in Nat /\ timers' = timers /\ retrier' = retrier
      /\ mState' \in {"Released", "Pending", "Acquired", "Releasing"}
<1>1. TakesFirst => msgs' \in Seq(Messages)
  BY DEF TakesFirst
<1>2. TakesFirst /\ list' \in Seq(Clients) /\ Rest => Typed'
  BY <1>1 DEF Typed
<1>3. CASE SubscribeListed \/ FallBack \/ ReleaseElsewhere \/ UnsubscribeReleased \/ Unsubscribe
           \/ Opened
  <2>1. msgs # <<>> /\ msgs' = Tail(msgs)
    BY <1>3 DEF SubscribeListed, FallBack, ReleaseElsewhere, UnsubscribeReleased, Unsubscribe,
       Opened, Take
  <2>2. TakesFirst
    BY <2>1, TakeOnly
  <2>3. Rest
    BY <1>3 DEF SubscribeListed, FallBack, ReleaseElsewhere, UnsubscribeReleased, Unsubscribe,
       Opened, machine, Typed, With
  <2>4. list' \in Seq(Clients) /\ InactiveListed'
    <3>1. CASE SubscribeListed
      <4>1. Client \in Clients /\ AddSubscriber(Client) /\ inactive' = inactive
            /\ mState' = mState /\ mState # "Released"
        BY <2>1, <3>1, FirstMessage DEF SubscribeListed, Take
      <4>2. list' \in Seq(Clients) /\ Listed' = Listed \cup {Client}
        BY <4>1, ListsOfClients
      <4> QED  BY <4>1, <4>2 DEF InactiveListed
    <3>2. CASE Unsubscribe
      <4>1. list' = list /\ Listed' = Listed /\ inactive' = inactive \cup {Client}
            /\ Client \in Listed /\ mState' # "Released"
        BY <3>2 DEF Unsubscribe, Listed, ToSet
      <4> QED  BY <4>1 DEF Typed, InactiveListed
    <3>3. CASE FallBack \/ ReleaseElsewhere \/ UnsubscribeReleased \/ Opened
      <4>1. list' = list /\ Listed' = Listed /\ inactive' = inactive
            /\ (mState' = "Released" => mState = "Released")
        BY <3>3 DEF FallBack, ReleaseElsewhere, UnsubscribeReleased, Opened, machine, Listed, ToSet
      <4> QED  BY <4>1 DEF Typed, InactiveListed
    <3> QED  BY <1>3, <3>1, <3>2, <3>3
  <2> QED  BY <1>2, <2>2, <2>3, <2>4
<1>4. CASE ClosedAcquired \/ ClosedPending
  <2>1. TakesFirst
    <3>1. msgs # <<>> /\ (msgs' = Tail(msgs) \/ msgs' = Tail(msgs) \o Fallbacks)
      BY <1>4 DEF ClosedAcquired, ClosedPending, Take
    <3> QED  BY <3>1, TakeOnly, FallbacksFollow
  <2>2. Delete(Listed)
    BY <1>4 DEF ClosedAcquired, ClosedPending
  <2>3. list' \in Seq(Clients) /\ inactive' = {}
    BY <2>2, ListsOfClients DEF Delete, InactiveListed
  <2>4. Rest
    BY <1>4 DEF ClosedAcquired, ClosedPending, Typed, With
  <2>5. InactiveListed'
    BY <2>3 DEF InactiveListed
  <2> QED  BY <1>2, <2>1, <2>3, <2>4, <2>5
<1> QED  BY <1>3, <1>4

\* The other threads only post, search and count.
Beside ==
  \/ Timer
  \/ \E c \in Clients : Request(c) \/ GiveUp(c)
  \/ ServiceAnswers \/ ServiceLoses

LEMMA BesideTyped ==
  ASSUME Typed, InactiveListed, Beside
  PROVE  Typed' /\ InactiveListed'
<1>1. /\ mState' = mState /\ list' = list /\ inactive' = inactive
      /\ told' = told /\ mRetries' = mRetries
  BY DEF Beside, Timer, RetrySearches, RetryPosts, Request, GiveUp, ClientPosts, ServiceAnswers,
     ServiceLoses, Reports, machine
<1>2. msgs' \in Seq(Messages)
  <2>1. msgs' = msgs \/ \E m \in Messages : Post(m)
    <3>1. \A type \in {"RequestSuplEs", "RequestATL", "ReleaseATL"} : \A c \in Clients :
            Msg(type, c) \in Messages
      BY DEF Msg, Messages, Requests
    <3>2. \A type \in {"Opened", "Closed"} : Msg(type, "service") \in Messages
      BY DEF Msg, Messages, Answers
    <3>3. CASE RetrySearches
      BY <3>3 DEF RetrySearches
    <3>4. CASE RetryPosts
      <4>1. retrier \in Clients /\ Post(Msg("RequestSuplEs", retrier))
        BY <3>4 DEF RetryPosts, Typed
      <4> QED  BY <3>1, <4>1
    <3>5. ASSUME NEW c \in Clients, Request(c) \/ GiveUp(c)
          PROVE  \E m \in Messages : Post(m)
      BY <3>1, <3>5 DEF Request, GiveUp, ClientPosts
    <3>6. CASE ServiceAnswers \/ ServiceLoses
      BY <3>2, <3>6 DEF ServiceAnswers, ServiceLoses, Reports
    <3> QED  BY <3>3, <3>4, <3>5, <3>6 DEF Beside, Timer
  <2> QED  BY <2>1, PostSteps DEF PostsLast, Typed
<1>3. timers' \in Nat /\ retrier' \in Clients \cup {Nobody}
  <2>1. CASE RetrySearches
    <3>1. Active # {} => FirstActive \in Clients
      BY FirstActiveIs DEF Typed
    <3> QED  BY <2>1, <3>1 DEF RetrySearches, Typed
  <2>2. CASE ~RetrySearches
    BY <2>2 DEF Beside, Timer, RetryPosts, Request, GiveUp, ClientPosts, ServiceAnswers,
       ServiceLoses, Reports, Typed
  <2> QED  BY <2>1, <2>2
<1> QED  BY <1>1, <1>2, <1>3 DEF Typed, InactiveListed, Listed, ToSet

LEMMA NextTyped ==
  ASSUME DSAssumption, Typed, InactiveListed, [Next]_vars
  PROVE  Typed' /\ InactiveListed'
<1>1. CASE SubscribeReleased
  <2>1. Typed'
    BY <1>1, SubscribeReleasedSteps DEF Typed, TakesFirst
  <2> QED  BY <1>1, <2>1, SubscribeReleasedSteps DEF InactiveListed
<1>2. CASE ClosedReleasing
  <2>1. Typed'
    BY <1>2, ClosedReleasingSteps DEF Typed, TakesFirst
  <2> QED  BY <1>2, <2>1, ClosedReleasingSteps DEF InactiveListed
<1>3. CASE Beside
  BY <1>3, BesideTyped
<1>4. CASE UNCHANGED vars
  BY <1>4 DEF vars, machine, Typed, InactiveListed, Listed, ToSet
<1>5. CASE MsgTask /\ ~SubscribeReleased /\ ~ClosedReleasing
  BY <1>5, MsgTaskTyped DEF MsgTask
<1> QED  BY <1>1, <1>2, <1>3, <1>4, <1>5 DEF Next, Beside

\* The list, the answers told and the queue hold clients and messages, whatever
\* happens; in Released nobody waits for a close.
THEOREM DataServiceTyped == Spec => [](Typed /\ InactiveListed)
<1>1. Init => Typed /\ InactiveListed
  BY InitWell, DSAssumption
<1>2. (Typed /\ InactiveListed) /\ [Next]_vars => (Typed /\ InactiveListed)'
  BY NextTyped, DSAssumption
<1> QED  BY <1>1, <1>2, PTL DEF Spec

-----------------------------------------------------------------------------
(* One call at a time                                                      *)

\* With no answer behind the first message, none is left when that is handled.
LEMMA NoneIsLeft ==
  ASSUME Typed, TakesFirst, NoAnswer(2), mState' = "Released" => call' = "none"
  PROVE  AnswersInOrder'
<1>1. ASSUME NEW i \in DOMAIN msgs'  PROVE msgs'[i].type \notin {"Opened", "Closed"}
  <2>1. CASE msgs'[i] \in Requests
    BY <2>1 DEF Requests
  <2>2. CASE i + 1 \in DOMAIN msgs /\ msgs'[i] = msgs[i + 1]
    <3>1. i \in Nat /\ i >= 1
      BY DEF TakesFirst
    <3>2. i + 1 >= 2
      BY <3>1
    <3> QED  BY <2>2, <3>2 DEF NoAnswer
  <2> QED  BY <2>1, <2>2 DEF TakesFirst
<1> QED  BY <1>1 DEF AnswersInOrder, NoAnswer

\* The order survives that a message is taken, if no call starts or ends.
LEMMA OrderStays ==
  ASSUME Typed, AnswersInOrder, TakesFirst,
         mState' = "Released" => mState = "Released",
         call = "none" => call' = "none",
         call' = "starting" => call = "starting"
  PROVE  AnswersInOrder'
<1>1. ASSUME NEW i \in DOMAIN msgs', msgs'[i].type \in {"Opened", "Closed"}
      PROVE  i \in Nat /\ i + 1 \in DOMAIN msgs /\ msgs'[i] = msgs[i + 1]
  <2>1. msgs'[i] \notin Requests
    BY <1>1 DEF Requests
  <2> QED  BY <2>1 DEF TakesFirst
<1>2. mState' = "Released" => call' = "none" /\ NoAnswer(1)'
  <2>1. ASSUME mState' = "Released", NEW i \in DOMAIN msgs', msgs'[i].type \in {"Opened", "Closed"}
        PROVE  FALSE
    <3>1. i \in Nat /\ i + 1 \in DOMAIN msgs /\ msgs'[i] = msgs[i + 1] /\ i + 1 >= 1
      BY <1>1, <2>1
    <3>2. NoAnswer(1)
      BY <2>1 DEF AnswersInOrder
    <3> QED  BY <2>1, <3>1, <3>2 DEF NoAnswer
  <2> QED  BY <2>1 DEF AnswersInOrder, NoAnswer
<1>3. ASSUME NEW i \in DOMAIN msgs', msgs'[i].type = "Closed"
      PROVE  call' = "none" /\ \A j \in DOMAIN msgs' :
               j >= i + 1 => msgs'[j].type \notin {"Opened", "Closed"}
  <2>1. i \in Nat /\ i + 1 \in DOMAIN msgs /\ msgs[i + 1].type = "Closed"
    BY <1>1, <1>3
  <2>2. call = "none" /\ NoAnswer((i + 1) + 1)
    BY <2>1 DEF AnswersInOrder
  <2>3. ASSUME NEW j \in DOMAIN msgs', j >= i + 1, msgs'[j].type \in {"Opened", "Closed"}
        PROVE  FALSE
    <3>1. j \in Nat /\ j + 1 \in DOMAIN msgs /\ msgs'[j] = msgs[j + 1]
      BY <1>1, <2>3
    <3>2. j + 1 >= (i + 1) + 1
      BY <2>1, <2>3, <3>1
    <3> QED  BY <2>2, <2>3, <3>1, <3>2 DEF NoAnswer
  <2> QED  BY <2>2, <2>3
<1>4. ASSUME NEW i \in DOMAIN msgs', NEW j \in DOMAIN msgs', msgs'[i].type = "Opened"
      PROVE  call' # "starting" /\ (msgs'[j].type = "Opened" => i = j)
  <2>1. i \in Nat /\ i + 1 \in DOMAIN msgs /\ msgs[i + 1].type = "Opened"
    BY <1>1, <1>4
  <2>2. call' # "starting"
    BY <2>1 DEF AnswersInOrder
  <2>3. ASSUME msgs'[j].type = "Opened"  PROVE i = j
    <3>1. j \in Nat /\ j + 1 \in DOMAIN msgs /\ msgs[j + 1].type = "Opened"
      BY <1>1, <2>3
    <3>2. i + 1 = j + 1
      BY <2>1, <3>1 DEF AnswersInOrder
    <3> QED  BY <2>1, <3>1, <3>2
  <2> QED  BY <2>2, <2>3
<1> QED  BY <1>2, <1>3, <1>4 DEF AnswersInOrder, NoAnswer

\* A request at the end disturbs nothing.
LEMMA OrderStaysPosted ==
  ASSUME Typed, AnswersInOrder, NEW m, PostsLast(m) \/ UNCHANGED msgs,
         m.type \notin {"Opened", "Closed"}, UNCHANGED <<mState, call>>
  PROVE  AnswersInOrder'
<1>1. ASSUME NEW i \in DOMAIN msgs', msgs'[i].type \in {"Opened", "Closed"}
      PROVE  i \in DOMAIN msgs /\ msgs'[i] = msgs[i]
  BY <1>1 DEF PostsLast
<1>2. mState' = mState /\ call' = call
  OBVIOUS
<1> QED  BY <1>1, <1>2 DEF AnswersInOrder, NoAnswer

\* The service opens a call that was starting, or ends one.
LEMMA AnswerPosted ==
  ASSUME Typed, AnswersInOrder, UNCHANGED mState,
         \/ PostsLast(Msg("Opened", "service")) /\ call = "starting" /\ call' = "up"
         \/ PostsLast(Msg("Closed", "service")) /\ call # "none" /\ call' = "none"
  PROVE  AnswersInOrder'
<1>1. mState' = mState /\ mState # "Released"
  BY DEF AnswersInOrder
<1>2. Len(msgs) \in Nat /\ DOMAIN msgs = 1 .. Len(msgs)
  BY DEF PostsLast
<1>3. \A i \in DOMAIN msgs : msgs[i].type # "Closed"
  BY DEF AnswersInOrder
<1>4. CASE PostsLast(Msg("Opened", "service")) /\ call = "starting" /\ call' = "up"
  <2>1. \A i \in DOMAIN msgs : msgs[i].type # "Opened"
    BY <1>4 DEF AnswersInOrder
  <2>2. \A i \in DOMAIN msgs' :
          msgs'[i].type \in {"Opened", "Closed"} => i = Len(msgs) + 1 /\ msgs'[i].type = "Opened"
    BY <1>3, <1>4, <2>1 DEF PostsLast, Msg
  <2> QED  BY <1>1, <1>4, <2>2 DEF AnswersInOrder, NoAnswer
<1>5. CASE PostsLast(Msg("Closed", "service")) /\ call # "none" /\ call' = "none"
  <2>1. \A i \in DOMAIN msgs' :
          \/ i = Len(msgs) + 1 /\ msgs'[i].type = "Closed"
          \/ i \in DOMAIN msgs /\ msgs'[i] = msgs[i] /\ msgs'[i].type # "Closed"
    BY <1>3, <1>5 DEF PostsLast, Msg
  <2>2. \A j \in DOMAIN msgs' : ~(j >= Len(msgs) + 1 + 1)
    BY <1>2, <2>1
  <2>3. ASSUME NEW i \in DOMAIN msgs', msgs'[i].type = "Closed"
        PROVE  NoAnswer(i + 1)'
    BY <2>1, <2>2, <2>3 DEF NoAnswer
  <2>4. ASSUME NEW i \in DOMAIN msgs', NEW j \in DOMAIN msgs', msgs'[i].type = "Opened",
               msgs'[j].type = "Opened"
        PROVE  i = j
    BY <2>1, <2>4 DEF AnswersInOrder
  <2> QED  BY <1>1, <1>5, <2>3, <2>4 DEF AnswersInOrder
<1> QED  BY <1>4, <1>5

LEMMA NextInOrder ==
  ASSUME DSAssumption, Typed, InactiveListed, AnswersInOrder, [Next]_vars
  PROVE  AnswersInOrder' /\ (sent' = "REQUEST" => call = "none" \/ UNCHANGED vars)
<1> USE DSAssumption
<1>1. CASE SubscribeReleased
  <2>1. TakesFirst /\ mState = "Released" /\ call = "none" /\ NoAnswer(1)
        /\ (mState' = "Released" => call' = call)
    BY <1>1, SubscribeReleasedSteps DEF AnswersInOrder
  <2>2. NoAnswer(2)
    BY <2>1 DEF NoAnswer, Typed
  <2> QED  BY <2>1, <2>2, NoneIsLeft
<1>2. CASE ClosedReleasing \/ ClosedAcquired \/ ClosedPending
  <2>1. TakesFirst /\ msgs[1].type = "Closed" /\ 1 \in DOMAIN msgs
        /\ (mState' = "Released" => call' = call)
    <3>1. CASE ClosedReleasing
      <4>1. msgs # <<>>
        BY <3>1 DEF ClosedReleasing, Take
      <4> QED  BY <3>1, <4>1, ClosedReleasingSteps, FirstMessage
    <3>2. CASE ClosedAcquired \/ ClosedPending
      <4>1. msgs # <<>> /\ Head(msgs).type = "Closed" /\ call' = call
        BY <3>2 DEF ClosedAcquired, ClosedPending, Take, Quiet
      <4> QED  BY <3>2, <4>1, MsgTaskTyped, FirstMessage
    <3> QED  BY <1>2, <3>1, <3>2
  <2>2. call = "none" /\ NoAnswer(1 + 1)
    BY <2>1 DEF AnswersInOrder
  <2> QED  BY <2>1, <2>2, NoneIsLeft
<1>3. CASE SubscribeListed \/ FallBack \/ ReleaseElsewhere \/ UnsubscribeReleased
           \/ Unsubscribe \/ Opened
  <2>1. TakesFirst
    BY <1>3, MsgTaskTyped
  <2>2. /\ mState' = "Released" => mState = "Released"
        /\ call' = call \/ (call \in {"starting", "up"} /\ call' = "stopping")
        /\ sent' # "REQUEST"
    BY <1>3 DEF SubscribeListed, FallBack, ReleaseElsewhere, UnsubscribeReleased, Unsubscribe,
       Opened, machine, Quiet, Stop
  <2> QED  BY <2>1, <2>2, OrderStays
<1>4. CASE Timer \/ \E c \in Clients : Request(c) \/ GiveUp(c)
  <2>1. UNCHANGED <<mState, call>> /\ sent' # "REQUEST"
    BY <1>4 DEF Timer, RetrySearches, RetryPosts, Request, GiveUp, ClientPosts, machine
  <2>2. UNCHANGED msgs \/ \E m \in Requests : Post(m)
    <3>1. \A type \in {"RequestSuplEs", "ReleaseATL"} : \A c \in Clients : Msg(type, c) \in Requests
      BY DEF Msg, Requests
    <3> QED  BY <1>4, <3>1 DEF Timer, RetrySearches, RetryPosts, Request, GiveUp, ClientPosts, Typed
  <2>3. PICK m \in Requests \cup {Msg("RequestATL", "nobody")} : UNCHANGED msgs \/ PostsLast(m)
    <3>1. Requests \subseteq Messages
      BY DEF Messages
    <3> QED  BY <2>2, <3>1, PostSteps
  <2>4. m.type \notin {"Opened", "Closed"}
    BY <2>3 DEF Requests, Msg
  <2> QED  BY <2>1, <2>3, <2>4, OrderStaysPosted
<1>5. CASE ServiceAnswers \/ ServiceLoses
  <2>1. UNCHANGED mState /\ sent' # "REQUEST"
    BY <1>5 DEF ServiceAnswers, ServiceLoses, Reports, machine
  <2>2. \/ Post(Msg("Opened", "service")) /\ call = "starting" /\ call' = "up"
        \/ Post(Msg("Closed", "service")) /\ call # "none" /\ call' = "none"
    BY <1>5 DEF ServiceAnswers, ServiceLoses, Reports
  <2>3. Msg("Opened", "service") \in Messages /\ Msg("Closed", "service") \in Messages
    BY DEF Msg, Messages, Answers
  <2>4. \/ PostsLast(Msg("Opened", "service")) /\ call = "starting" /\ call' = "up"
        \/ PostsLast(Msg("Closed", "service")) /\ call # "none" /\ call' = "none"
    BY <2>2, <2>3, PostSteps
  <2> QED  BY <2>1, <2>4, AnswerPosted
<1>6. CASE UNCHANGED vars
  BY <1>6 DEF vars, machine, AnswersInOrder, NoAnswer
<1> QED  BY <1>1, <1>2, <1>3, <1>4, <1>5, <1>6 DEF Next, MsgTask

\* However late retries and answers are, a call is started only when the one
\* before it has ended.
THEOREM OneCallAtATime == Spec => StartsOneCall
<1>1. Init => AnswersInOrder
  BY DEF Init, AnswersInOrder, NoAnswer
<1>2. (Typed /\ InactiveListed) /\ AnswersInOrder /\ [Next]_vars
        => AnswersInOrder' /\ [sent' = "REQUEST" => call = "none"]_vars
  BY NextInOrder, DSAssumption
<1> QED  BY <1>1, <1>2, DataServiceTyped, PTL DEF Spec, StartsOneCall

-----------------------------------------------------------------------------
(* Retries                                                                 *)

\* A step that takes another message and leaves the list and what it says of
\* the first subscriber alone.
LEMMA RetryStays ==
  ASSUME RetryIsComing, FirstWaits' => FirstWaits, timers' = timers, retrier' = retrier,
         Queued("RequestSuplEs") => Queued("RequestSuplEs")'
  PROVE  RetryIsComing'
BY DEF RetryIsComing

LEMMA StillQueued ==
  ASSUME TakesFirst, Head(msgs).type # "RequestSuplEs", Typed
  PROVE  Queued("RequestSuplEs") => Queued("RequestSuplEs")'
<1>1. ASSUME NEW i \in DOMAIN msgs, msgs[i].type = "RequestSuplEs"
      PROVE  Queued("RequestSuplEs")'
  <2>1. i > 1
    <3>1. i \in Nat /\ i >= 1
      BY DEF Typed
    <3>2. i # 1
      BY <1>1, FirstMessage DEF TakesFirst
    <3> QED  BY <3>1, <3>2
  <2>2. i - 1 \in DOMAIN msgs' /\ msgs'[i - 1] = msgs[i]
    BY <2>1 DEF TakesFirst
  <2> QED  BY <1>1, <2>2 DEF Queued
<1> QED  BY <1>1 DEF Queued

LEMMA NextRetries ==
  ASSUME DSAssumption, "OTHER" \notin Results,
         Typed, InactiveListed, RetryIsComing, [Next]_vars
  PROVE  RetryIsComing'
<1> USE DSAssumption
<1>1. CASE SubscribeReleased
  <2>1. mState' # "Released" \/ timers' > 0 \/ told'[FirstActive'] = "DENIED"
    BY <1>1, SubscribeReleasedSteps
  <2> QED  BY <2>1 DEF RetryIsComing, FirstWaits
<1>2. CASE ClosedReleasing
  <2>1. mState' # "Released" \/ Active' = {}
    BY <1>2, ClosedReleasingSteps
  <2> QED  BY <2>1 DEF RetryIsComing, FirstWaits
<1>3. CASE ClosedAcquired \/ ClosedPending
  <2>1. Delete(Listed)
    BY <1>3 DEF ClosedAcquired, ClosedPending
  <2>2. Listed' = {}
    BY <2>1, ListsOfClients
  <2>3. Active' = {}
    BY <2>2 DEF Active
  <2> QED  BY <2>3 DEF RetryIsComing, FirstWaits
<1>4. CASE SubscribeListed \/ Unsubscribe
  <2>1. mState' # "Released"
    BY <1>4 DEF SubscribeListed, Unsubscribe
  <2> QED  BY <2>1 DEF RetryIsComing, FirstWaits
<1>5. CASE FallBack \/ ReleaseElsewhere \/ UnsubscribeReleased \/ Opened
  <2>1. TakesFirst
    BY <1>5, MsgTaskTyped
  <2>2. Head(msgs).type # "RequestSuplEs" /\ timers' = timers /\ retrier' = retrier
        /\ list' = list /\ inactive' = inactive
        /\ (mState' = "Released" => mState = "Released")
    BY <1>5 DEF FallBack, ReleaseElsewhere, UnsubscribeReleased, Opened, Take, machine
  <2>3. Active' = Active /\ FirstActive' = FirstActive
    BY <2>2 DEF Active, FirstActive, Listed, ToSet
  <2>4. ASSUME FirstWaits'  PROVE FirstWaits
    <3>1. mState = "Released" /\ Active # {} /\ told'[FirstActive] = "SUBSCRIBE"
      BY <2>2, <2>3, <2>4 DEF FirstWaits
    <3>2. FirstActive \in Clients
      BY <3>1, FirstActiveIs DEF Typed
    <3>3. told' = told \/ told' = With("UNSUBSCRIBE", {Client})
      BY <1>5, <3>1 DEF FallBack, ReleaseElsewhere, UnsubscribeReleased, Opened, machine
    <3>4. told[FirstActive] = "SUBSCRIBE"
      BY <3>1, <3>2, <3>3 DEF With
    <3> QED  BY <3>1, <3>4 DEF FirstWaits
  <2>5. Queued("RequestSuplEs") => Queued("RequestSuplEs")'
    BY <2>1, <2>2, StillQueued
  <2> QED  BY <2>2, <2>4, <2>5, RetryStays
<1>6. CASE Beside \/ UNCHANGED vars
  <2>1. mState' = mState /\ list' = list /\ inactive' = inactive /\ told' = told
    BY <1>6 DEF Beside, Timer, RetrySearches, RetryPosts, Request, GiveUp, ClientPosts,
       ServiceAnswers, ServiceLoses, Reports, machine, vars
  <2>2. FirstWaits' => FirstWaits /\ Active # {}
    BY <2>1 DEF FirstWaits, Active, FirstActive, Listed, ToSet
  <2>3. CASE RetrySearches
    <3>1. Active # {} => retrier' \in Clients
      BY <2>3, FirstActiveIs DEF RetrySearches, Typed
    <3>2. Nobody \notin Clients
      BY DEF DSAssumption, Nobody
    <3>3. Active # {} => retrier' # Nobody
      BY <3>1, <3>2
    <3> QED  BY <2>2, <3>3 DEF RetryIsComing
  <2>4. CASE RetryPosts
    <3>1. Msg("RequestSuplEs", retrier) \in Messages /\ Post(Msg("RequestSuplEs", retrier))
      BY <2>4 DEF RetryPosts, Typed, Msg, Messages, Requests
    <3>2. msgs' = Append(msgs, Msg("RequestSuplEs", retrier)) /\ msgs \in Seq(Messages)
      BY <3>1 DEF Post, Typed
    <3>3. Len(msgs) + 1 \in DOMAIN msgs' /\ msgs'[Len(msgs) + 1] = Msg("RequestSuplEs", retrier)
      <4> HIDE DEF Messages
      <4> QED  BY <3>1, <3>2
    <3>4. Queued("RequestSuplEs")'
      BY <3>3 DEF Queued, Msg
    <3> QED  BY <3>4 DEF RetryIsComing
  <2>5. CASE ~RetrySearches /\ ~RetryPosts
    <3>1. timers' = timers /\ retrier' = retrier
      BY <1>6, <2>5 DEF Beside, Timer, Request, GiveUp, ClientPosts, ServiceAnswers, ServiceLoses,
         Reports, vars
    <3>2. msgs' = msgs \/ \E m : msgs' = Append(msgs, m)
      BY <1>6, <2>5 DEF Beside, Timer, Request, GiveUp, ClientPosts, ServiceAnswers, ServiceLoses,
         Reports, Post, vars
    <3>3. \A i \in DOMAIN msgs : i \in DOMAIN msgs' /\ msgs'[i] = msgs[i]
      <4>1. msgs \in Seq(Messages)
        BY DEF Typed
      <4> HIDE DEF Messages
      <4> QED  BY <3>2, <4>1
    <3>4. Queued("RequestSuplEs") => Queued("RequestSuplEs")'
      BY <3>3 DEF Queued
    <3> QED  BY <2>2, <3>1, <3>4, RetryStays
  <2> QED  BY <2>3, <2>4, <2>5
<1> QED  BY <1>1, <1>2, <1>3, <1>4, <1>5, <1>6 DEF Next, MsgTask, Beside

\* A client whose call did not start, and who was not denied it, has a retry
\* coming, as long as the service returns only results the code knows.
THEOREM RetryIsComingProved == "OTHER" \notin Results => (Spec => []RetryIsComing)
<1> SUFFICES ASSUME "OTHER" \notin Results  PROVE Spec => []RetryIsComing
  OBVIOUS
<1>1. Init => RetryIsComing
  <2>1. Init => Active = {}
    BY DEF Init, Active, Listed, ToSet
  <2> QED  BY <2>1 DEF RetryIsComing, FirstWaits
<1>2. (Typed /\ InactiveListed) /\ RetryIsComing /\ [Next]_vars => RetryIsComing'
  BY NextRetries, DSAssumption
<1> QED  BY <1>1, <1>2, DataServiceTyped, PTL DEF Spec
==============================================================================
