-------------------------- MODULE LocEngSetupProofs --------------------------
(***************************************************************************)
(* Theorems about the set up of the location engine, for any number of     *)
(* settings and of modem restarts.                                         *)
(***************************************************************************)
EXTENDS LocEngSetup, TLAPS

-----------------------------------------------------------------------------
(* The inductive invariant                                                 *)

Settings == {"SuplVer", "EnableData", "SetServer"}
Types == SettingTypes \cup {"Open", "Ssr", "Init", "EngineUp"}
Places == [host : Calls, port : Calls]
Stages == {"idle", "created", "host", "server", "network", "updated", "sent"}
Modems == [connection : {"closed", "open", "down", "back"}, ver : Calls \cup {Default},
           data : Calls \cup {Default}, server : Servers]

\* A setting is a number or, for the server, two.
Messages ==
  [type : Types \ {"SetServer"}, value : Calls] \cup [type : {"SetServer"}, value : Places]

SettingMessages == {m \in Messages : m.type \in SettingTypes}

\* What is left of the messages that reinit posts.
Todos ==
  {<<>>,
   <<"Constellation", "SuplVer", "EnableData", "Capabilities">>,
   <<"SuplVer", "EnableData", "Capabilities">>, <<"EnableData", "Capabilities">>, <<"Capabilities">>,
   <<"Constellation", "SuplVer", "EnableData", "SetServer">>,
   <<"SuplVer", "EnableData", "SetServer">>, <<"EnableData", "SetServer">>, <<"SetServer">>}

\* TypeOK with what the sequences hold.
Typed ==
  /\ adapter \in BOOLEAN /\ agps \in BOOLEAN /\ silent \in BOOLEAN /\ overlap \in BOOLEAN
  /\ supl \in [host : Calls, port : Calls, set : BOOLEAN]
  /\ agpsStatus \in Calls
  /\ gps_conf \in Versions
  /\ framework \in [at : Stages, value : Calls, tmp : Versions]
  /\ queue \in Seq(Messages)
  /\ task \in [todo : Todos, hand : {<<>>} \cup {<<m>> : m \in SettingMessages}]
  /\ modem \in Modems
  /\ told \in {{"unknown"}, {}, {"MEASUREMENTS"}}
  /\ calls \in Calls /\ restarts \in 0..MaxRestarts

\* Nothing happens before loc_eng_init.
NothingEarly ==
  ~adapter => /\ queue = <<>> /\ task = NothingToDo /\ ~agps
              /\ modem.connection = "closed" /\ framework.at # "created"
              /\ told = {"unknown"}

\* What a call has stored is what it will send.
StoredIsSent ==
  /\ framework.at \in {"host", "server"} => supl.host = framework.value
  /\ framework.at = "server" => supl.port = framework.value
  /\ framework.at = "network" => agpsStatus = framework.value
  /\ framework.at = "updated" => gps_conf.ver = framework.value

\* What the MsgTask has read is still stored.
HandIsCurrent ==
  ~overlap /\ task.hand # <<>> => task.hand[1].value = Current(task.hand[1].type)

\* A modem that is closed will be opened, and a message gets to an open one if
\* it comes behind the one that opens it.
Opens(m) == m.type \in {"Open", "Ssr"}
OpenComes == adapter /\ modem.connection = "closed" => \E i \in 1..Len(queue) : Opens(queue[i])
Connected == modem.connection = "open"
Lost == modem.connection \in {"down", "back"}
Arrives(i) == Connected \/ \E j \in 1..Len(queue) : j < i /\ Opens(queue[j])

\* Where the current value of a setting is on its way: the modem is about to
\* restart, or the engine to be initialised; the call that stores it has still to
\* send it; a reinit is coming, or under way; or it is in the hand, the last of
\* its type in the queue, or in the modem.
Unsent(type) ==
  CASE type = "SuplVer" -> framework.at = "updated"
    [] type = "EnableData" -> framework.at = "network"
    [] type = "SetServer" -> framework.at \in {"host", "server"}
Reposts(m, type) == m.type = "EngineUp" \/ (m.type = "Init" /\ type # "SetServer")
InHand(type) == task.hand # <<>> /\ task.hand[1].type = type
Holds(todo, type) == \E i \in 1..Len(todo) : todo[i] = type
ToDo(type) == Holds(task.todo, type)
NoneFrom(i, type) == \A j \in 1..Len(queue) : j >= i => queue[j].type # type
InModem(type) ==
  CASE type = "SuplVer" -> modem.ver = gps_conf.ver
    [] type = "EnableData" -> modem.data = agpsStatus
    [] type = "SetServer" -> modem.server = [host |-> supl.host, port |-> supl.port]

ReinitComes(type) == \E i \in 1..Len(queue) : Reposts(queue[i], type) /\ Arrives(i)
Queued(type) ==
  \E i \in 1..Len(queue) :
    /\ queue[i].type = type /\ queue[i].value = Current(type)
    /\ Arrives(i) /\ NoneFrom(i + 1, type)

Comes(type) ==
  \/ Lost
  \/ framework.at = "created" /\ type # "SetServer"
  \/ Unsent(type)
  \/ ReinitComes(type)
  \/ Connected /\ ToDo(type)
  \/ Connected /\ InHand(type)
  \/ Queued(type)
  \/ Connected /\ InModem(type) /\ NoneFrom(1, type)

Wanted(type) ==
  /\ adapter /\ ~overlap
  /\ type = "SetServer" => agps /\ supl.set
  /\ type = "EnableData" => ~silent
SettingsCome == \A type \in Settings : Wanted(type) => Comes(type)

-----------------------------------------------------------------------------
(* ... and its part about the capabilities                                 *)

\* Without a crash the modem is opened once, before anything else.
InOrder(i) ==
  /\ queue[i].type \notin {"Ssr", "EngineUp"}
  /\ queue[i].type = "Init" => Arrives(i)
  /\ queue[i].type \in {"Constellation", "Capabilities"} => Connected

OpenedFirst ==
  restarts = 0 =>
    /\ ~Lost
    /\ \A i \in 1..Len(queue) : InOrder(i)
    /\ Busy => Connected

InQueue(type) == \E i \in 1..Len(queue) : queue[i].type = type

\* The modem is asked for what it supports before the framework is told.
AskedInQueue ==
  \A i \in 1..Len(queue) : queue[i].type = "Capabilities" =>
    \E j \in 1..Len(queue) : j < i /\ queue[j].type = "Constellation"

AskedFirst ==
  \/ gps_conf.measurements
  \/ /\ AskedInQueue
     /\ InHand("Capabilities") => InQueue("Constellation")
     /\ ToDo("Capabilities") => ToDo("Constellation") \/ InHand("Constellation") \/ InQueue("Constellation")

CapabilitiesCome ==
  framework.at = "created" \/ InQueue("Init") \/ ToDo("Capabilities")
    \/ InHand("Capabilities") \/ InQueue("Capabilities")

\* Nothing makes gps_conf forget that the modem supports measurements.
AnswerIsKept ==
  /\ gps_conf.measurements /\ framework.at \in {"updated", "sent"} => framework.tmp.measurements
  /\ told # {}
  /\ told = {"unknown"} => CapabilitiesCome

MeasurementsCome ==
  /\ OpenedFirst
  /\ adapter /\ ~overlap /\ restarts = 0 => AskedFirst /\ AnswerIsKept

IInv ==
  /\ Typed /\ NothingEarly /\ StoredIsSent /\ HandIsCurrent /\ OpenComes
  /\ SettingsCome
  /\ MeasurementsCome

-----------------------------------------------------------------------------
(* What posting and handling a message do to the queue                     *)

\* A message posted comes last, and the others stay where they are.
LEMMA Posted ==
  ASSUME NEW q \in Seq(Messages), NEW m \in Messages
  PROVE  /\ Append(q, m) \in Seq(Messages)
         /\ Len(q) \in Nat /\ Len(Append(q, m)) = Len(q) + 1
         /\ Append(q, m)[Len(q) + 1] = m
         /\ \A i \in 1..Len(q) : Append(q, m)[i] = q[i]
<1> HIDE DEF Messages
<1> QED  OBVIOUS

\* With the first message handled the others move up.
LEMMA Handled ==
  ASSUME NEW q \in Seq(Messages), q # <<>>
  PROVE  /\ Tail(q) \in Seq(Messages)
         /\ Len(q) \in Nat \ {0}
         /\ Len(Tail(q)) = Len(q) - 1 /\ Len(Tail(q)) \in Nat
         /\ Head(q) = q[1] /\ Head(q) \in Messages
         /\ \A i \in 1..Len(Tail(q)) : i + 1 \in 1..Len(q) /\ Tail(q)[i] = q[i + 1]
<1> HIDE DEF Messages
<1> QED  OBVIOUS

\* The modem posts two at once.
LEMMA PostedTwo ==
  ASSUME NEW q \in Seq(Messages), NEW m \in Messages, NEW n \in Messages
  PROVE  q \o <<m, n>> = Append(Append(q, m), n)
<1> HIDE DEF Messages
<1> QED  OBVIOUS

LEMMA Shapes ==
  /\ \A type \in Types \ {"SetServer"} : \A v \in Calls : Msg(type, v) \in Messages
  /\ \A p \in Places : Msg("SetServer", p) \in Messages
  /\ 0 \in Calls /\ Default \notin Calls
  /\ \A type : \A v : Msg(type, v).type = type /\ Msg(type, v).value = v
<1>1. 0 \in Calls /\ Default \notin Calls
  BY SetupAssumption DEF Calls, Default, SetupAssumption
<1>2. \A type \in Types \ {"SetServer"} : \A v \in Calls : Msg(type, v) \in Messages
  BY DEF Messages, Msg
<1>3. \A p \in Places : Msg("SetServer", p) \in Messages
  BY DEF Messages, Msg
<1>4. \A type : \A v : Msg(type, v).type = type /\ Msg(type, v).value = v
  BY DEF Msg
<1> QED  BY <1>1, <1>2, <1>3, <1>4

LEMMA CurrentIs ==
  /\ Current("SuplVer") = gps_conf.ver
  /\ Current("EnableData") = agpsStatus
  /\ Current("SetServer") = [host |-> supl.host, port |-> supl.port]
  /\ \A type : type \notin Settings => Current(type) = 0
  BY DEF Current, Settings

\* What ReadSetting reads can be posted.
LEMMA CurrentFits ==
  ASSUME Typed, NEW type \in SettingTypes
  PROVE  Msg(type, Current(type)) \in Messages
<1>1. CASE type = "SuplVer"
  BY <1>1, CurrentIs, Shapes DEF Typed, Versions, Types, SettingTypes
<1>2. CASE type = "EnableData"
  BY <1>2, CurrentIs, Shapes DEF Typed, Types, SettingTypes
<1>3. CASE type = "SetServer"
  <2>1. Current(type) \in Places  BY <1>3, CurrentIs DEF Typed, Places
  <2> QED  BY <1>3, <2>1, Shapes
<1>4. CASE type \notin Settings
  <2>1. Current(type) = 0  BY <1>4, CurrentIs
  <2>2. type \in Types \ {"SetServer"}  BY <1>4 DEF Settings, Types
  <2> QED  BY <2>1, <2>2, Shapes
<1> QED  BY <1>1, <1>2, <1>3, <1>4 DEF Settings

\* What is left of a list in Todos is one, too.
LEMMA TodoSplits ==
  ASSUME NEW todo \in Todos, todo # <<>>
  PROVE  /\ Tail(todo) \in Todos
         /\ Head(todo) \in SettingTypes
         /\ \A type : Holds(todo, type) <=> type = Head(todo) \/ Holds(Tail(todo), type)
<1>1. Tail(todo) \in Todos /\ Head(todo) \in SettingTypes
  <2>1. CASE todo = <<"Constellation", "SuplVer", "EnableData", "Capabilities">>
    BY <2>1 DEF Todos, SettingTypes
  <2>2. CASE todo = <<"SuplVer", "EnableData", "Capabilities">>
    BY <2>2 DEF Todos, SettingTypes
  <2>3. CASE todo = <<"EnableData", "Capabilities">>
    BY <2>3 DEF Todos, SettingTypes
  <2>4. CASE todo = <<"Capabilities">>
    BY <2>4 DEF Todos, SettingTypes
  <2>5. CASE todo = <<"Constellation", "SuplVer", "EnableData", "SetServer">>
    BY <2>5 DEF Todos, SettingTypes
  <2>6. CASE todo = <<"SuplVer", "EnableData", "SetServer">>
    BY <2>6 DEF Todos, SettingTypes
  <2>7. CASE todo = <<"EnableData", "SetServer">>
    BY <2>7 DEF Todos, SettingTypes
  <2>8. CASE todo = <<"SetServer">>
    BY <2>8 DEF Todos, SettingTypes
  <2> QED  BY <2>1, <2>2, <2>3, <2>4, <2>5, <2>6, <2>7, <2>8 DEF Todos
<1>2. todo \in Seq(SettingTypes)
  <2>1. \A a, b, c, d \in SettingTypes :
          {<<a>>, <<a, b>>, <<a, b, c>>, <<a, b, c, d>>} \subseteq Seq(SettingTypes)
    <3> HIDE DEF SettingTypes
    <3> QED  OBVIOUS
  <2>2. {"Constellation", "SuplVer", "EnableData", "SetServer", "Capabilities"} \subseteq SettingTypes
    BY DEF SettingTypes
  <2> HIDE DEF SettingTypes
  <2> QED  BY <2>1, <2>2 DEF Todos
<1>3. /\ Len(todo) \in Nat \ {0} /\ Len(Tail(todo)) = Len(todo) - 1 /\ Head(todo) = todo[1]
      /\ \A i \in 1..Len(Tail(todo)) : i + 1 \in 1..Len(todo) /\ Tail(todo)[i] = todo[i + 1]
  <2> HIDE DEF SettingTypes
  <2> QED  BY <1>2
<1>4. ASSUME NEW type, Holds(todo, type)
      PROVE  type = Head(todo) \/ Holds(Tail(todo), type)
  <2>1. PICK i \in 1..Len(todo) : todo[i] = type  BY <1>4 DEF Holds
  <2>2. CASE i = 1  BY <1>3, <2>1, <2>2
  <2>3. CASE i # 1
    <3>1. i - 1 \in 1..Len(Tail(todo)) /\ (i - 1) + 1 = i  BY <1>3, <2>3
    <3> QED  BY <1>3, <2>1, <3>1 DEF Holds
  <2> QED  BY <2>2, <2>3
<1>5. ASSUME NEW type, type = Head(todo) \/ Holds(Tail(todo), type)
      PROVE  Holds(todo, type)
  BY <1>3, <1>5 DEF Holds
<1> QED  BY <1>1, <1>4, <1>5

\* What LocEngInit and the engine that comes up have posted.
LEMMA ListHolds ==
  ASSUME NEW type, NEW a, NEW b, NEW c, NEW d
  PROVE  Holds(<<a, b, c, d>>, type) <=> type \in {a, b, c, d}
  BY DEF Holds

LEMMA TodoStarts ==
  ASSUME NEW m, NEW type \in SettingTypes
  PROVE  /\ ReinitPosts(m) \in Todos /\ ReinitPosts(m) # <<>>
         /\ Holds(ReinitPosts(m), type)
              <=> type # (IF m.type = "Init" THEN "SetServer" ELSE "Capabilities")
<1>1. CASE m.type = "Init"
  <2>1. ReinitPosts(m) = <<"Constellation", "SuplVer", "EnableData", "Capabilities">>
    BY <1>1 DEF ReinitPosts
  <2>2. Holds(ReinitPosts(m), type)
          <=> type \in {"Constellation", "SuplVer", "EnableData", "Capabilities"}
    BY <2>1, ListHolds
  <2>3. ReinitPosts(m) \in Todos /\ ReinitPosts(m) # <<>>  BY <2>1 DEF Todos
  <2> QED  BY <1>1, <2>2, <2>3 DEF SettingTypes
<1>2. CASE m.type # "Init"
  <2>1. ReinitPosts(m) = <<"Constellation", "SuplVer", "EnableData", "SetServer">>
    BY <1>2 DEF ReinitPosts
  <2>2. Holds(ReinitPosts(m), type)
          <=> type \in {"Constellation", "SuplVer", "EnableData", "SetServer"}
    BY <2>1, ListHolds
  <2>3. ReinitPosts(m) \in Todos /\ ReinitPosts(m) # <<>>  BY <2>1 DEF Todos
  <2> QED  BY <1>2, <2>2, <2>3 DEF SettingTypes
<1> QED  BY <1>1, <1>2

-----------------------------------------------------------------------------
(* What posting and handling a message mean for what is on its way         *)

\* Whatever is behind the message that opens the modem still is.
LEMMA PostArrives ==
  ASSUME queue \in Seq(Messages), NEW m \in Messages, queue' = Append(queue, m),
         modem'.connection = modem.connection
  PROVE  /\ \A i \in 1..Len(queue) : i \in 1..Len(queue') /\ queue'[i] = queue[i]
         /\ \A i \in 1..Len(queue) : Arrives(i) => Arrives(i)'
         /\ Len(queue) \in Nat /\ Len(queue') = Len(queue) + 1
         /\ \A last : last = Len(queue) + 1 =>
              /\ last \in 1..Len(queue') /\ queue'[last] = m
              /\ (Connected \/ \E i \in 1..Len(queue) : Opens(queue[i])) => Arrives(last)'
<1>1. /\ Len(queue) \in Nat /\ Len(queue') = Len(queue) + 1 /\ queue'[Len(queue) + 1] = m
      /\ \A i \in 1..Len(queue) : queue'[i] = queue[i]
  BY Posted
<1>2. \A i \in 1..Len(queue) : i \in 1..Len(queue')  BY <1>1
<1>3. \A i \in 1..Len(queue) : Arrives(i) => Arrives(i)'
  BY <1>1, <1>2 DEF Arrives, Connected, Opens
<1>4. ASSUME NEW last, last = Len(queue) + 1
      PROVE  /\ last \in 1..Len(queue') /\ queue'[last] = m
             /\ (Connected \/ \E i \in 1..Len(queue) : Opens(queue[i])) => Arrives(last)'
  BY <1>1, <1>2, <1>4 DEF Arrives, Opens, Connected
<1> QED  BY <1>1, <1>2, <1>3, <1>4

\* A message that is posted is behind the one that opens the modem.
LEMMA PostedArrives ==
  ASSUME queue \in Seq(Messages), NEW m \in Messages, queue' = Append(queue, m),
         UNCHANGED modem, modem \in Modems, adapter, OpenComes, ~Lost,
         NEW last, last = Len(queue) + 1
  PROVE  Arrives(last)'
<1>1. Connected \/ \E i \in 1..Len(queue) : Opens(queue[i])
  BY DEF OpenComes, Modems, Lost, Connected
<1> QED  BY <1>1, PostArrives

\* Posting a message of another type changes nothing about a setting ...
LEMMA PostKeeps ==
  ASSUME queue \in Seq(Messages), NEW m \in Messages, queue' = Append(queue, m),
         modem'.connection = modem.connection, NEW type
  PROVE  /\ ReinitComes(type) => ReinitComes(type)'
         /\ m.type # type /\ UNCHANGED Current(type) /\ Queued(type) => Queued(type)'
         /\ m.type # type /\ NoneFrom(1, type) => NoneFrom(1, type)'
<1>1. ReinitComes(type) => ReinitComes(type)'
  BY PostArrives DEF ReinitComes, Reposts
<1>2. ASSUME m.type # type, NEW i \in Nat, NoneFrom(i, type)
      PROVE  NoneFrom(i, type)'
  BY <1>2, PostArrives DEF NoneFrom
<1>3. ASSUME m.type # type, UNCHANGED Current(type), Queued(type)
      PROVE  Queued(type)'
  <2>1. PICK i \in 1..Len(queue) : /\ queue[i].type = type /\ queue[i].value = Current(type)
                                   /\ Arrives(i) /\ NoneFrom(i + 1, type)
    BY <1>3 DEF Queued
  <2>2. Arrives(i)' /\ NoneFrom(i + 1, type)'
    BY <1>2, <1>3, <2>1, PostArrives
  <2>3. i \in 1..Len(queue') /\ queue'[i] = queue[i]  BY PostArrives
  <2> QED  BY <1>3, <2>1, <2>2, <2>3 DEF Queued
<1> QED  BY <1>1, <1>2, <1>3

\* ... and posting its current value brings it on its way.
LEMMA PostBrings ==
  ASSUME queue \in Seq(Messages), NEW m \in Messages, queue' = Append(queue, m),
         UNCHANGED modem, modem \in Modems, adapter, OpenComes, NEW type,
         (m.type = type /\ m.value = Current(type)') \/ Reposts(m, type)
  PROVE  Comes(type)'
<1>1. CASE Lost  BY <1>1 DEF Comes, Lost
<1>2. CASE ~Lost
  <2>0. PICK last : last = Len(queue) + 1  OBVIOUS
  <2>1. Arrives(last)'  BY <1>2, <2>0, PostedArrives
  <2>2. last \in 1..Len(queue') /\ queue'[last] = m  BY <2>0, PostArrives
  <2>3. NoneFrom(last + 1, type)'  BY <2>0, PostArrives DEF NoneFrom
  <2>4. CASE Reposts(m, type)
    BY <2>1, <2>2, <2>4 DEF ReinitComes, Comes
  <2>5. CASE m.type = type /\ m.value = Current(type)'
    BY <2>1, <2>2, <2>3, <2>5 DEF Queued, Comes
  <2> QED  BY <2>4, <2>5
<1> QED  BY <1>1, <1>2

\* Handling a message: the one that opens the modem does, if it is handled.
LEMMA TakeArrives ==
  ASSUME queue \in Seq(Messages), queue # <<>>, queue' = Tail(queue),
         Connected => Connected', Opens(Head(queue)) => Connected' \/ Lost'
  PROVE  /\ \A i \in 1..Len(queue') : i + 1 \in 1..Len(queue) /\ queue'[i] = queue[i + 1]
         /\ Len(queue) \in Nat \ {0} /\ Len(queue') \in Nat /\ Len(queue') = Len(queue) - 1
         /\ Head(queue) = queue[1]
         /\ \A i \in 1..Len(queue) : i = 1 \/ (i - 1 \in 1..Len(queue') /\ queue'[i - 1] = queue[i])
         /\ \A i \in 1..Len(queue) : Arrives(i) => Lost' \/ Connected' \/ (i # 1 /\ Arrives(i - 1)')
         /\ Arrives(1) => Connected
<1>1. /\ Len(queue) \in Nat \ {0} /\ Len(queue') = Len(queue) - 1 /\ Len(queue') \in Nat
      /\ Head(queue) = queue[1]
      /\ \A i \in 1..Len(queue') : i + 1 \in 1..Len(queue) /\ queue'[i] = queue[i + 1]
  BY Handled
<1>2. ASSUME NEW i \in 1..Len(queue), i # 1
      PROVE  i - 1 \in 1..Len(queue') /\ queue'[i - 1] = queue[i]
  <2>1. i - 1 \in 1..Len(queue') /\ (i - 1) + 1 = i  BY <1>1, <1>2
  <2> QED  BY <1>1, <2>1
<1>3. Arrives(1) => Connected  BY <1>1 DEF Arrives
<1>4. ASSUME NEW i \in 1..Len(queue), Arrives(i), ~Lost', ~Connected'
      PROVE  i # 1 /\ Arrives(i - 1)'
  <2>1. i # 1  BY <1>3, <1>4
  <2>2. PICK j \in 1..Len(queue) : j < i /\ Opens(queue[j])  BY <1>4 DEF Arrives
  <2>3. j # 1  BY <1>1, <1>4, <2>2
  <2>4. j - 1 \in 1..Len(queue') /\ Opens(queue'[j - 1])  BY <1>2, <2>2, <2>3
  <2>5. j - 1 < i - 1  BY <1>1, <2>2
  <2> QED  BY <2>1, <2>4, <2>5 DEF Arrives
<1> QED  BY <1>1, <1>2, <1>3, <1>4

\* What a handled message leaves on its way.
LEMMA TakeKeeps ==
  ASSUME queue \in Seq(Messages), queue # <<>>, queue' = Tail(queue),
         Connected => Connected', Opens(Head(queue)) => Connected' \/ Lost', NEW type
  PROVE  /\ ReinitComes(type) =>
              Lost' \/ ReinitComes(type)' \/ (Reposts(Head(queue), type) /\ Connected)
         /\ Queued(type) /\ UNCHANGED Current(type) =>
              \/ Lost' \/ Queued(type)'
              \/ /\ Head(queue).type = type /\ Head(queue).value = Current(type)
                 /\ Connected /\ NoneFrom(1, type)'
         /\ NoneFrom(1, type) => NoneFrom(1, type)' /\ Head(queue).type # type
<1>0. ASSUME NEW i \in 1..Len(queue), Arrives(i), i # 1, ~Lost'
      PROVE  Arrives(i - 1)' /\ i - 1 \in 1..Len(queue') /\ queue'[i - 1] = queue[i]
  BY <1>0, TakeArrives DEF Arrives, Connected
<1>1. ASSUME ReinitComes(type), ~Lost'
      PROVE  ReinitComes(type)' \/ (Reposts(Head(queue), type) /\ Connected)
  <2>1. PICK i \in 1..Len(queue) : Reposts(queue[i], type) /\ Arrives(i)  BY <1>1 DEF ReinitComes
  <2>2. CASE i = 1  BY <2>1, <2>2, TakeArrives
  <2>3. CASE i # 1
    BY <1>0, <1>1, <2>1, <2>3 DEF ReinitComes, Reposts
  <2> QED  BY <2>2, <2>3
<1>2. ASSUME NEW i \in Nat \ {0}, NoneFrom(i, type)
      PROVE  i # 1 => NoneFrom(i - 1, type)'
  BY <1>2, TakeArrives DEF NoneFrom
<1>3. ASSUME Queued(type), UNCHANGED Current(type), ~Lost'
      PROVE  \/ Queued(type)'
             \/ /\ Head(queue).type = type /\ Head(queue).value = Current(type)
                /\ Connected /\ NoneFrom(1, type)'
  <2>1. PICK i \in 1..Len(queue) : /\ queue[i].type = type /\ queue[i].value = Current(type)
                                   /\ Arrives(i) /\ NoneFrom(i + 1, type)
    BY <1>3 DEF Queued
  <2>2. CASE i = 1
    <3>1. NoneFrom(2, type)  BY <2>1, <2>2
    <3>2. NoneFrom(1, type)'  BY <1>2, <3>1
    <3> QED  BY <2>1, <2>2, <3>2, TakeArrives
  <2>3. CASE i # 1
    <3>1. i + 1 \in Nat \ {0} /\ i + 1 # 1 /\ (i + 1) - 1 = i /\ (i - 1) + 1 = i
      BY TakeArrives
    <3>2. NoneFrom((i - 1) + 1, type)'  BY <1>2, <2>1, <3>1
    <3>3. Arrives(i - 1)' /\ i - 1 \in 1..Len(queue') /\ queue'[i - 1] = queue[i]
      BY <1>0, <1>3, <2>1, <2>3
    <3> QED  BY <1>3, <2>1, <3>2, <3>3 DEF Queued
  <2> QED  BY <2>2, <2>3
<1>4. NoneFrom(1, type) => NoneFrom(1, type)' /\ Head(queue).type # type
  BY TakeArrives DEF NoneFrom
<1> QED  BY <1>1, <1>3, <1>4

-----------------------------------------------------------------------------
(* Types                                                                   *)

\* The parts of the state, one by one.
LEMMA TypedParts ==
  ASSUME Typed
  PROVE  /\ supl.host \in Calls /\ supl.port \in Calls /\ supl.set \in BOOLEAN
         /\ supl = [host |-> supl.host, port |-> supl.port, set |-> supl.set]
         /\ gps_conf.ver \in Calls /\ gps_conf.measurements \in BOOLEAN
         /\ framework.at \in Stages /\ framework.value \in Calls /\ framework.tmp \in Versions
         /\ task.todo \in Todos
         /\ task.hand = <<>> \/ \E m \in SettingMessages : task.hand = <<m>>
         /\ Busy <=> task.todo # <<>> \/ task.hand # <<>>
<1>1. /\ supl.host \in Calls /\ supl.port \in Calls /\ supl.set \in BOOLEAN
      /\ supl = [host |-> supl.host, port |-> supl.port, set |-> supl.set]
  BY DEF Typed
<1>2. gps_conf.ver \in Calls /\ gps_conf.measurements \in BOOLEAN
  BY DEF Typed, Versions
<1>3. framework.at \in Stages /\ framework.value \in Calls /\ framework.tmp \in Versions
  BY DEF Typed
<1>4. /\ task.todo \in Todos /\ task.hand \in {<<>>} \cup {<<m>> : m \in SettingMessages}
      /\ task = [todo |-> task.todo, hand |-> task.hand]
  <2> HIDE DEF Messages, SettingMessages, Todos
  <2> QED  BY DEF Typed
<1>5. Busy <=> task.todo # <<>> \/ task.hand # <<>>
  <2> HIDE DEF Messages, SettingMessages, Todos
  <2> QED  BY <1>4 DEF Busy, NothingToDo
<1>6. task.hand = <<>> \/ \E m \in SettingMessages : task.hand = <<m>>
  <2> HIDE DEF SettingMessages
  <2> QED  BY <1>4
<1> QED  BY <1>1, <1>2, <1>3, <1>4, <1>5, <1>6

LEMMA HandHolds ==
  ASSUME Typed, task.hand # <<>>
  PROVE  task.hand[1] \in Messages /\ task.hand[1].type \in SettingTypes
<1>1. PICK m \in SettingMessages : task.hand = <<m>>  BY TypedParts
<1> QED  BY <1>1 DEF SettingMessages

LEMMA SendTypes ==
  ASSUME queue \in Seq(Messages), NEW m \in Messages, Send(m)
  PROVE  queue' \in Seq(Messages)
  BY Posted DEF Send

LEMMA CallTypes ==
  ASSUME Typed, SetServer \/ UpdateNetworkAvailability \/ ConfigurationUpdate
  PROVE  Typed'
<1>1. \A at \in Stages : Begins(at) =>
        /\ framework' \in [at : Stages, value : Calls, tmp : Versions]
        /\ calls' \in Calls /\ calls + 1 = calls' /\ overlap' \in BOOLEAN
        /\ UNCHANGED <<adapter, agps, queue, task, modem, told, restarts>>
  BY SetupAssumption DEF Begins, Typed, Calls, SetupAssumption, Idle, Versions, Busy
<1>2. \A from \in Stages : \A to \in Stages : Goes(from, to) =>
        /\ framework' \in [at : Stages, value : Calls, tmp : Versions]
        /\ overlap' \in BOOLEAN
        /\ UNCHANGED <<adapter, agps, task, modem, told, history>>
  BY Shapes DEF Goes, Typed, Idle, Versions, Busy
<1>3. Stages = {"idle", "created", "host", "server", "network", "updated", "sent"}  BY DEF Stages
<1> HIDE DEF Messages, SettingMessages, Stages, Todos
<1>4. CASE SetServer
  <2>1. CASE Begins("host") /\ supl' = [supl EXCEPT !.host = calls + 1] /\ UNCHANGED <<agpsStatus, gps_conf, silent>>
    <3>1. /\ framework' \in [at : Stages, value : Calls, tmp : Versions]
          /\ calls' \in Calls /\ calls + 1 = calls' /\ overlap' \in BOOLEAN
          /\ UNCHANGED <<adapter, agps, queue, task, modem, told, restarts>>
      BY <1>1, <1>3, <2>1
    <3>2. supl' \in [host : Calls, port : Calls, set : BOOLEAN]  BY <2>1, <3>1 DEF Typed
    <3> QED  BY <2>1, <3>1, <3>2 DEF Typed
  <2>2. CASE /\ Goes("host", "server")
             /\ supl' = [supl EXCEPT !.port = framework.value, !.set = TRUE]
             /\ UNCHANGED <<agpsStatus, gps_conf, queue>>
    <3>1. /\ framework' \in [at : Stages, value : Calls, tmp : Versions]
          /\ overlap' \in BOOLEAN /\ UNCHANGED <<adapter, agps, task, modem, told, history>>
      BY <1>2, <1>3, <2>2
    <3>2. supl' \in [host : Calls, port : Calls, set : BOOLEAN]  BY <2>2, TypedParts DEF Typed
    <3> QED  BY <2>2, <3>1, <3>2 DEF Typed, history
  <2>3. CASE /\ Goes("server", "idle")
             /\ Send(Msg("SetServer", [host |-> framework.value, port |-> framework.value]))
             /\ UNCHANGED settings
    <3>1. /\ framework' \in [at : Stages, value : Calls, tmp : Versions]
          /\ overlap' \in BOOLEAN /\ UNCHANGED <<adapter, agps, task, modem, told, history>>
      BY <1>2, <1>3, <2>3
    <3>2. [host |-> framework.value, port |-> framework.value] \in Places
      BY TypedParts DEF Places
    <3>3. queue' \in Seq(Messages)  BY <2>3, <3>2, Shapes, SendTypes DEF Typed
    <3> QED  BY <2>3, <3>1, <3>3 DEF Typed, history, settings
  <2> QED  BY <1>4, <2>1, <2>2, <2>3 DEF SetServer
<1>5. CASE UpdateNetworkAvailability
  <2>1. CASE /\ Begins("network") /\ agpsStatus' = calls + 1
             /\ (\E apn \in BOOLEAN : silent' = (adapter /\ ~apn)) /\ UNCHANGED <<supl, gps_conf>>
    <3>1. /\ framework' \in [at : Stages, value : Calls, tmp : Versions]
          /\ calls' \in Calls /\ calls + 1 = calls' /\ overlap' \in BOOLEAN
          /\ UNCHANGED <<adapter, agps, queue, task, modem, told, restarts>>
      BY <1>1, <1>3, <2>1
    <3> QED  BY <2>1, <3>1 DEF Typed
  <2>2. CASE /\ Goes("network", "idle") /\ UNCHANGED settings
             /\ IF silent THEN UNCHANGED queue ELSE Send(Msg("EnableData", framework.value))
    <3>1. /\ framework' \in [at : Stages, value : Calls, tmp : Versions]
          /\ overlap' \in BOOLEAN /\ UNCHANGED <<adapter, agps, task, modem, told, history>>
      BY <1>2, <1>3, <2>2
    <3>2. "EnableData" \in Types \ {"SetServer"}  BY DEF Types, SettingTypes
    <3>3. queue' \in Seq(Messages)  BY <2>2, <3>2, TypedParts, Shapes, SendTypes DEF Typed
    <3> QED  BY <2>2, <3>1, <3>3 DEF Typed, history, settings
  <2> QED  BY <1>5, <2>1, <2>2 DEF UpdateNetworkAvailability
<1>6. CASE ConfigurationUpdate
  <2>1. CASE Begins("updated") /\ gps_conf' = [gps_conf EXCEPT !.ver = calls + 1] /\ UNCHANGED <<supl, agpsStatus, silent>>
    <3>1. /\ framework' \in [at : Stages, value : Calls, tmp : Versions]
          /\ calls' \in Calls /\ calls + 1 = calls' /\ overlap' \in BOOLEAN
          /\ UNCHANGED <<adapter, agps, queue, task, modem, told, restarts>>
      BY <1>1, <1>3, <2>1
    <3>2. gps_conf' \in Versions  BY <2>1, <3>1 DEF Typed, Versions
    <3> QED  BY <2>1, <3>1, <3>2 DEF Typed
  <2>2. CASE Goes("updated", "sent") /\ Send(Msg("SuplVer", framework.value)) /\ UNCHANGED settings
    <3>1. /\ framework' \in [at : Stages, value : Calls, tmp : Versions]
          /\ overlap' \in BOOLEAN /\ UNCHANGED <<adapter, agps, task, modem, told, history>>
      BY <1>2, <1>3, <2>2
    <3>2. "SuplVer" \in Types \ {"SetServer"}  BY DEF Types, SettingTypes
    <3>3. queue' \in Seq(Messages)  BY <2>2, <3>2, TypedParts, Shapes, SendTypes DEF Typed
    <3> QED  BY <2>2, <3>1, <3>3 DEF Typed, history, settings
  <2>3. CASE /\ Goes("sent", "idle")
             /\ gps_conf' = [framework.tmp EXCEPT !.ver = gps_conf.ver]
             /\ UNCHANGED <<supl, agpsStatus, queue>>
    <3>1. /\ framework' \in [at : Stages, value : Calls, tmp : Versions]
          /\ overlap' \in BOOLEAN /\ UNCHANGED <<adapter, agps, task, modem, told, history>>
      BY <1>2, <1>3, <2>3
    <3>2. gps_conf' \in Versions  BY <2>3, TypedParts DEF Versions
    <3> QED  BY <2>3, <3>1, <3>2 DEF Typed, history
  <2> QED  BY <1>6, <2>1, <2>2, <2>3 DEF ConfigurationUpdate
<1> QED  BY <1>4, <1>5, <1>6

LEMMA InitTypes ==
  ASSUME Typed, LocInit \/ PostInit \/ AgpsInit
  PROVE  Typed'
<1>1. Msg("Open", 0) \in Messages /\ Msg("Init", 0) \in Messages
  BY Shapes DEF Types
<1>2. [host |-> supl.host, port |-> supl.port] \in Places  BY TypedParts DEF Places
<1>3. Msg("SetServer", [host |-> supl.host, port |-> supl.port]) \in Messages  BY <1>2, Shapes
<1>4. Idle \in [at : Stages, value : Calls, tmp : Versions] /\ Unset \in [host : Calls, port : Calls, set : BOOLEAN]
  BY Shapes DEF Idle, Unset, Stages, Versions
<1> HIDE DEF Messages, SettingMessages, Todos
<1>5. CASE LocInit
  <2>1. CASE adapter
    <3>1. UNCHANGED vars  BY <1>5, <2>1 DEF LocInit, vars, settings, history
    <3> QED  BY <3>1 DEF Typed, vars, settings, history
  <2>2. CASE ~adapter
    <3>1. queue' \in Seq(Messages)  BY <1>1, <1>5, <2>2, Posted DEF LocInit, Typed
    <3>2. framework' \in [at : Stages, value : Calls, tmp : Versions]
      BY <1>5, <2>2 DEF LocInit, Typed, Stages
    <3> QED  BY <1>4, <1>5, <2>2, <3>1, <3>2 DEF LocInit, Typed, history
  <2> QED  BY <2>1, <2>2 DEF Typed
<1>6. CASE PostInit
  <2>1. queue' \in Seq(Messages)  BY <1>1, <1>6, Posted DEF PostInit, Typed
  <2> QED  BY <1>4, <1>6, <2>1 DEF PostInit, Typed, history, settings
<1>7. CASE AgpsInit
  <2>1. queue' \in Seq(Messages)  BY <1>3, <1>7, Posted DEF AgpsInit, Typed
  <2> QED  BY <1>7, <2>1 DEF AgpsInit, Typed, history, settings
<1> QED  BY <1>5, <1>6, <1>7

\* Setting one part of the modem.
LEMMA ModemSet ==
  ASSUME NEW m \in Modems
  PROVE  /\ \A c \in {"closed", "open", "down", "back"} :
              /\ [m EXCEPT !.connection = c] \in Modems
              /\ [m EXCEPT !.connection = c].connection = c
              /\ [m EXCEPT !.connection = c].ver = m.ver
              /\ [m EXCEPT !.connection = c].data = m.data
              /\ [m EXCEPT !.connection = c].server = m.server
         /\ \A v \in Calls : [m EXCEPT !.ver = v] \in Modems /\ [m EXCEPT !.data = v] \in Modems
         /\ \A p \in Places : [m EXCEPT !.server = p] \in Modems
<1>1. Places \subseteq Servers  BY DEF Places, Servers
<1>2. \A v \in Calls : [m EXCEPT !.ver = v] \in Modems /\ [m EXCEPT !.data = v] \in Modems
  BY DEF Modems
<1>3. \A p \in Places : [m EXCEPT !.server = p] \in Modems  BY <1>1 DEF Modems
<1>4. ASSUME NEW c \in {"closed", "open", "down", "back"}
      PROVE  /\ [m EXCEPT !.connection = c] \in Modems
             /\ [m EXCEPT !.connection = c].connection = c
             /\ [m EXCEPT !.connection = c].ver = m.ver
             /\ [m EXCEPT !.connection = c].data = m.data
             /\ [m EXCEPT !.connection = c].server = m.server
  BY DEF Modems
<1> QED  BY <1>2, <1>3, <1>4

LEMMA MessageParts ==
  ASSUME NEW m \in Messages
  PROVE  m.type \in Types /\ (m.type = "SetServer" => m.value \in Places)
                          /\ (m.type # "SetServer" => m.value \in Calls)
  BY DEF Messages, Types, SettingTypes

LEMMA TaskTypes ==
  ASSUME Typed, MsgTask
  PROVE  Typed'
<1>0. ASSUME NEW type, Proc(type)
      PROVE  /\ ~Busy /\ queue # <<>> /\ queue' = Tail(queue) /\ Head(queue).type = type
             /\ queue' \in Seq(Messages) /\ Head(queue) \in Messages
  BY <1>0, Handled DEF Proc, Typed
<1> HIDE DEF Messages, SettingMessages, Todos
<1>1. CASE ProcOpen
  <2>1. queue' \in Seq(Messages)  BY <1>0, <1>1 DEF ProcOpen
  <2>2. modem' \in Modems  BY <1>1, ModemSet DEF ProcOpen, Typed
  <2> QED  BY <1>1, <2>1, <2>2 DEF ProcOpen, Typed, settings, history
<1>2. CASE ProcReinit
  <2>1. queue' \in Seq(Messages)  BY <1>0, <1>2 DEF ProcReinit
  <2>2. ReinitPosts(Head(queue)) \in Todos
    <3>1. "SuplVer" \in SettingTypes  BY DEF SettingTypes
    <3> QED  BY <3>1, TodoStarts
  <2>3. task' \in [todo : Todos, hand : {<<>>} \cup {<<m>> : m \in SettingMessages}]
    BY <1>2, <2>2 DEF ProcReinit, Typed
  <2> QED  BY <1>2, <2>1, <2>3 DEF ProcReinit, Typed, settings, history
<1>3. CASE ReadSetting
  <2>1. Tail(task.todo) \in Todos /\ Head(task.todo) \in SettingTypes
    BY <1>3, TypedParts, TodoSplits DEF ReadSetting
  <2>2. Msg(Head(task.todo), Current(Head(task.todo))) \in SettingMessages
    BY <2>1, CurrentFits, Shapes DEF SettingMessages
  <2>3. task' \in [todo : Todos, hand : {<<>>} \cup {<<m>> : m \in SettingMessages}]
    BY <1>3, <2>1, <2>2 DEF ReadSetting
  <2> QED  BY <1>3, <2>3 DEF ReadSetting, Typed, settings, history
<1>4. CASE PostSetting
  <2>1. task.hand[1] \in Messages  BY <1>4, HandHolds DEF PostSetting
  <2>2. queue' \in Seq(Messages)  BY <1>4, <2>1, Posted DEF PostSetting, Typed
  <2>3. task' \in [todo : Todos, hand : {<<>>} \cup {<<m>> : m \in SettingMessages}]
    BY <1>4 DEF PostSetting, Typed
  <2> QED  BY <1>4, <2>2, <2>3 DEF PostSetting, Typed, settings, history
<1>5. CASE ProcSetting
  <2>1. /\ queue' \in Seq(Messages) /\ Head(queue) \in Messages
        /\ Head(queue).type \in {"SuplVer", "EnableData", "SetServer"}
    BY <1>0, <1>5 DEF ProcSetting
  <2>2. modem' \in Modems
    <3>1. CASE modem.connection # "open"  BY <1>5, <3>1 DEF ProcSetting, Typed
    <3>2. CASE modem.connection = "open"
      BY <1>5, <2>1, <3>2, ModemSet, MessageParts DEF ProcSetting, Typed
    <3> QED  BY <3>1, <3>2
  <2> QED  BY <1>5, <2>1, <2>2 DEF ProcSetting, Typed, settings, history
<1>6. CASE ProcConstellation
  <2>1. queue' \in Seq(Messages)  BY <1>0, <1>6 DEF ProcConstellation
  <2>2. gps_conf' \in Versions  BY <1>6 DEF ProcConstellation, Typed, Versions
  <2>3. overlap' \in BOOLEAN  BY <1>6 DEF ProcConstellation
  <2> QED  BY <1>6, <2>1, <2>2, <2>3 DEF ProcConstellation, Typed, history
<1>7. CASE ProcCapabilities
  <2>1. queue' \in Seq(Messages)  BY <1>0, <1>7 DEF ProcCapabilities
  <2>2. told' \in {{"unknown"}, {}, {"MEASUREMENTS"}}  BY <1>7 DEF ProcCapabilities
  <2> QED  BY <1>7, <2>1, <2>2 DEF ProcCapabilities, Typed, settings, history
<1> QED  BY <1>1, <1>2, <1>3, <1>4, <1>5, <1>6, <1>7 DEF MsgTask

LEMMA ModemTypes ==
  ASSUME Typed, Modem
  PROVE  Typed'
<1>1. Msg("Ssr", 0) \in Messages /\ Msg("EngineUp", 0) \in Messages
  BY Shapes DEF Types
<1> HIDE DEF Messages, SettingMessages, Todos
<1>2. CASE Crash
  <2>1. modem' \in Modems  BY <1>2 DEF Crash, Fresh, Modems, Servers
  <2>2. restarts' \in 0..MaxRestarts  BY <1>2, SetupAssumption DEF Crash, Typed, SetupAssumption
  <2> QED  BY <1>2, <2>1, <2>2 DEF Crash, Typed, settings
<1>3. CASE Return
  <2>1. modem' \in Modems  BY <1>3, ModemSet DEF Return, Typed
  <2> QED  BY <1>3, <2>1 DEF Return, Typed, settings, history
<1>4. CASE Announce
  <2>1. modem' \in Modems  BY <1>4, ModemSet DEF Announce, Typed
  <2>2. queue' \in Seq(Messages)  BY <1>1, <1>4, PostedTwo, Posted DEF Announce, Typed
  <2> QED  BY <1>4, <2>1, <2>2 DEF Announce, Typed, settings, history
<1> QED  BY <1>2, <1>3, <1>4 DEF Modem

LEMMA NextTypes == Typed /\ [Next]_vars => Typed'
<1>1. ASSUME Typed, UNCHANGED vars
      PROVE  Typed'
  BY <1>1 DEF Typed, vars, settings, history
<1> QED  BY <1>1, CallTypes, InitTypes, TaskTypes, ModemTypes DEF Next, Framework

-----------------------------------------------------------------------------
(* The calls of the framework that make a setting                          *)

Call == SetServer \/ UpdateNetworkAvailability \/ ConfigurationUpdate

LEMMA CurrentIsNext ==
  /\ Current("SuplVer")' = gps_conf'.ver
  /\ Current("EnableData")' = agpsStatus'
  /\ Current("SetServer")' = [host |-> supl'.host, port |-> supl'.port]
  /\ \A type : type \notin Settings => Current(type)' = 0
  BY DEF Current, Settings

LEMMA UnsentIs ==
  /\ Unsent("SuplVer") <=> framework.at = "updated"
  /\ Unsent("EnableData") <=> framework.at = "network"
  /\ Unsent("SetServer") <=> framework.at \in {"host", "server"}
  /\ Unsent("SuplVer")' <=> framework'.at = "updated"
  /\ Unsent("EnableData")' <=> framework'.at = "network"
  /\ Unsent("SetServer")' <=> framework'.at \in {"host", "server"}
  BY DEF Unsent

\* A store goes to what the call works on, and what is sent is what is stored.
LEMMA CallStores ==
  ASSUME Typed, StoredIsSent, Call
  PROVE  /\ UNCHANGED <<adapter, agps, task, modem, told, restarts>>
         /\ overlap' = (overlap \/ Busy)
         /\ framework.at # "created" /\ framework'.at # "created"
         /\ StoredIsSent'
         /\ \/ /\ UNCHANGED queue
               /\ \A type \in Settings :
                    \/ Unsent(type)'
                    \/ type = "EnableData" /\ silent'
                    \/ /\ ~Unsent(type) /\ UNCHANGED Current(type)
                       /\ type = "SetServer" => supl'.set = supl.set
                       /\ type = "EnableData" => silent' = silent
            \/ \E sent \in Settings :
                 /\ silent' = silent
                 /\ Send(Msg(sent, Current(sent)')) /\ Msg(sent, Current(sent)') \in Messages
                 /\ \A type \in Settings :
                      /\ UNCHANGED Current(type) /\ supl'.set = supl.set
                      /\ type # sent => ~Unsent(type)
<1>0. \A type \in Settings : type \in SettingTypes  BY DEF Settings, SettingTypes
<1>1. \A at : Begins(at) =>
        /\ framework.at = "idle" /\ framework'.at = at /\ framework'.value = calls + 1
        /\ overlap' = (overlap \/ Busy)
        /\ UNCHANGED <<adapter, agps, queue, task, modem, told, restarts>>
  BY DEF Begins
<1>2. \A from, to : Goes(from, to) =>
        /\ framework.at = from /\ framework'.at = to
        /\ to # "idle" => framework'.value = framework.value
        /\ overlap' = (overlap \/ Busy)
        /\ UNCHANGED <<adapter, agps, task, modem, told, history>>
  BY DEF Goes, Typed, Idle
<1>3. Typed'  BY CallTypes DEF Call
<1>4. \A type \in Settings : Msg(type, Current(type)) \in Messages  BY <1>0, CurrentFits
<1>5. CASE SetServer
  <2>1. CASE Begins("host") /\ supl' = [supl EXCEPT !.host = calls + 1] /\ UNCHANGED <<agpsStatus, gps_conf, silent>>
    <3>1. supl'.host = calls + 1 /\ supl'.set = supl.set  BY <2>1, TypedParts DEF Typed
    <3>2. StoredIsSent'  BY <1>1, <2>1, <3>1 DEF StoredIsSent
    <3>3. framework.at = "idle" /\ framework'.at = "host"  BY <1>1, <2>1
    <3> QED  BY <1>1, <2>1, <3>2, <3>3, UnsentIs, CurrentIs, CurrentIsNext DEF Settings
  <2>2. CASE /\ Goes("host", "server")
             /\ supl' = [supl EXCEPT !.port = framework.value, !.set = TRUE]
             /\ UNCHANGED <<agpsStatus, gps_conf, queue>>
    <3>1. supl'.host = supl.host /\ supl'.port = framework.value  BY <2>2, TypedParts DEF Typed
    <3>2. StoredIsSent'  BY <1>2, <2>2, <3>1 DEF StoredIsSent
    <3>3. framework.at = "host" /\ framework'.at = "server"  BY <1>2, <2>2
    <3> QED  BY <1>2, <2>2, <3>2, <3>3, UnsentIs, CurrentIs, CurrentIsNext DEF Settings, history
  <2>3. CASE /\ Goes("server", "idle")
             /\ Send(Msg("SetServer", [host |-> framework.value, port |-> framework.value]))
             /\ UNCHANGED settings
    <3>1. framework.at = "server" /\ framework'.at = "idle"  BY <1>2, <2>3
    <3>2. StoredIsSent'  BY <3>1 DEF StoredIsSent
    <3>3. supl.host = framework.value /\ supl.port = framework.value
      BY <3>1 DEF StoredIsSent
    <3>4. \A type \in Settings : UNCHANGED Current(type)
      BY <2>3, CurrentIs, CurrentIsNext DEF Settings, settings
    <3>5. Msg("SetServer", [host |-> framework.value, port |-> framework.value]) = Msg("SetServer", Current("SetServer")')
      BY <2>3, <3>3, CurrentIsNext DEF settings
    <3>6. "SetServer" \in Settings  BY DEF Settings
    <3>7. Msg("SetServer", Current("SetServer")') \in Messages  BY <1>4, <3>4, <3>6
    <3>8. \A type \in Settings : type # "SetServer" => ~Unsent(type)
      BY <3>1, UnsentIs DEF Settings
    <3> QED  BY <1>2, <2>3, <3>1, <3>2, <3>4, <3>5, <3>6, <3>7, <3>8 DEF settings, history
  <2> QED  BY <1>5, <2>1, <2>2, <2>3 DEF SetServer
<1>6. CASE UpdateNetworkAvailability
  <2>1. CASE /\ Begins("network") /\ agpsStatus' = calls + 1
             /\ (\E apn \in BOOLEAN : silent' = (adapter /\ ~apn)) /\ UNCHANGED <<supl, gps_conf>>
    <3>1. framework.at = "idle" /\ framework'.at = "network"  BY <1>1, <2>1
    <3>2. StoredIsSent'  BY <1>1, <2>1 DEF StoredIsSent
    <3> QED  BY <1>1, <2>1, <3>1, <3>2, UnsentIs, CurrentIs, CurrentIsNext DEF Settings
  <2>2. CASE /\ Goes("network", "idle") /\ UNCHANGED settings
             /\ IF silent THEN UNCHANGED queue ELSE Send(Msg("EnableData", framework.value))
    <3>1. framework.at = "network" /\ framework'.at = "idle"  BY <1>2, <2>2
    <3>2. StoredIsSent'  BY <3>1 DEF StoredIsSent
    <3>3. agpsStatus = framework.value  BY <3>1 DEF StoredIsSent
    <3>4. \A type \in Settings : UNCHANGED Current(type)
      BY <2>2, CurrentIs, CurrentIsNext DEF Settings, settings
    <3>5. Current("EnableData")' = framework.value  BY <2>2, <3>3, CurrentIsNext DEF settings
    <3>6. "EnableData" \in Settings  BY DEF Settings
    <3>7. Msg("EnableData", Current("EnableData")') \in Messages  BY <1>4, <3>4, <3>6
    <3>8. \A type \in Settings : type # "EnableData" => ~Unsent(type)
      BY <3>1, UnsentIs DEF Settings
    <3>9. CASE silent
      BY <1>2, <2>2, <3>1, <3>2, <3>4, <3>8, <3>9 DEF settings, history
    <3>10. CASE ~silent
      BY <1>2, <2>2, <3>1, <3>2, <3>4, <3>5, <3>6, <3>7, <3>8, <3>10 DEF settings, history
    <3> QED  BY <3>9, <3>10
  <2> QED  BY <1>6, <2>1, <2>2 DEF UpdateNetworkAvailability
<1>7. CASE ConfigurationUpdate
  <2>1. CASE Begins("updated") /\ gps_conf' = [gps_conf EXCEPT !.ver = calls + 1] /\ UNCHANGED <<supl, agpsStatus, silent>>
    <3>1. framework.at = "idle" /\ framework'.at = "updated"  BY <1>1, <2>1
    <3>2. gps_conf'.ver = calls + 1  BY <2>1 DEF Typed, Versions
    <3>3. StoredIsSent'  BY <1>1, <2>1, <3>2 DEF StoredIsSent
    <3> QED  BY <1>1, <2>1, <3>1, <3>3, UnsentIs, CurrentIs, CurrentIsNext DEF Settings
  <2>2. CASE Goes("updated", "sent") /\ Send(Msg("SuplVer", framework.value)) /\ UNCHANGED settings
    <3>1. framework.at = "updated" /\ framework'.at = "sent"  BY <1>2, <2>2
    <3>2. StoredIsSent'  BY <3>1 DEF StoredIsSent
    <3>3. gps_conf.ver = framework.value  BY <3>1 DEF StoredIsSent
    <3>4. \A type \in Settings : UNCHANGED Current(type)
      BY <2>2, CurrentIs, CurrentIsNext DEF Settings, settings
    <3>5. Current("SuplVer")' = framework.value  BY <2>2, <3>3, CurrentIsNext DEF settings
    <3>6. "SuplVer" \in Settings  BY DEF Settings
    <3>7. Msg("SuplVer", Current("SuplVer")') \in Messages  BY <1>4, <3>4, <3>6
    <3>8. \A type \in Settings : type # "SuplVer" => ~Unsent(type)
      BY <3>1, UnsentIs DEF Settings
    <3> QED  BY <1>2, <2>2, <3>1, <3>2, <3>4, <3>5, <3>6, <3>7, <3>8 DEF settings, history
  <2>3. CASE /\ Goes("sent", "idle")
             /\ gps_conf' = [framework.tmp EXCEPT !.ver = gps_conf.ver]
             /\ UNCHANGED <<supl, agpsStatus, queue>>
    <3>1. framework.at = "sent" /\ framework'.at = "idle"  BY <1>2, <2>3
    <3>2. gps_conf'.ver = gps_conf.ver  BY <2>3, TypedParts DEF Versions
    <3>3. StoredIsSent'  BY <3>1 DEF StoredIsSent
    <3>4. \A type \in Settings : UNCHANGED Current(type)
      BY <2>3, <3>2, CurrentIs, CurrentIsNext DEF Settings
    <3>5. \A type \in Settings : ~Unsent(type)  BY <3>1, UnsentIs DEF Settings
    <3> QED  BY <1>2, <2>3, <3>1, <3>3, <3>4, <3>5 DEF history
  <2> QED  BY <1>7, <2>1, <2>2, <2>3 DEF ConfigurationUpdate
<1> QED  BY <1>5, <1>6, <1>7 DEF Call

-----------------------------------------------------------------------------
(* What has to be kept for the settings to arrive                          *)

Basics == Typed /\ NothingEarly /\ StoredIsSent /\ HandIsCurrent /\ OpenComes

LEMMA NextEarly == Basics /\ [Next]_vars => NothingEarly'
<1> SUFFICES ASSUME Basics, [Next]_vars, ~adapter'
             PROVE  /\ queue' = <<>> /\ task' = NothingToDo /\ ~agps'
                    /\ modem'.connection = "closed" /\ framework'.at # "created" /\ told' = {"unknown"}
  BY DEF NothingEarly
<1> USE DEF Basics
<1>1. CASE Call
  <2>1. ~adapter /\ UNCHANGED <<agps, task, modem, told>> /\ framework'.at # "created"
    BY <1>1, CallStores
  <2>2. UNCHANGED queue  BY <1>1, <2>1, CallStores DEF Send
  <2> QED  BY <2>1, <2>2 DEF NothingEarly
<1>2. CASE LocInit \/ PostInit \/ AgpsInit
  BY <1>2 DEF LocInit, PostInit, AgpsInit, NothingEarly
<1>3. CASE MsgTask
  <2>1. ~adapter
    BY <1>3 DEF MsgTask, ProcOpen, ProcReinit, ReadSetting, PostSetting, ProcSetting,
                ProcConstellation, ProcCapabilities
  <2>2. queue = <<>> /\ task = NothingToDo  BY <2>1 DEF NothingEarly
  <2> QED
    BY <1>3, <2>2 DEF MsgTask, ProcOpen, ProcReinit, ReadSetting, PostSetting, ProcSetting,
                      ProcConstellation, ProcCapabilities, Proc, NothingToDo
<1>4. CASE Modem
  BY <1>4 DEF Modem, Crash, Return, Announce, NothingEarly
<1>5. CASE UNCHANGED vars
  BY <1>5 DEF vars, NothingEarly
<1> QED  BY <1>1, <1>2, <1>3, <1>4, <1>5 DEF Next, Framework, Call

LEMMA NextStored == Basics /\ [Next]_vars => StoredIsSent'
<1> SUFFICES ASSUME Basics, [Next]_vars
             PROVE  StoredIsSent'
  OBVIOUS
<1> USE DEF Basics
<1>1. CASE Call  BY <1>1, CallStores
<1>2. CASE LocInit
  <2>1. CASE adapter
    BY <1>2, <2>1 DEF LocInit, StoredIsSent
  <2>2. CASE ~adapter
    <3>1. framework'.at = "created"  BY <1>2, <2>2 DEF LocInit, Typed
    <3> QED  BY <3>1 DEF StoredIsSent
  <2> QED  BY <2>1, <2>2
<1>3. CASE PostInit
  <2>1. framework'.at = "idle"  BY <1>3 DEF PostInit, Idle
  <2> QED  BY <2>1 DEF StoredIsSent
<1>4. CASE ProcConstellation
  <2>1. gps_conf'.ver = gps_conf.ver  BY <1>4 DEF ProcConstellation, Typed, Versions
  <2> QED  BY <1>4, <2>1 DEF ProcConstellation, StoredIsSent
<1>5. CASE \/ AgpsInit \/ ProcOpen \/ ProcReinit \/ ReadSetting \/ PostSetting \/ ProcSetting
           \/ ProcCapabilities \/ Modem \/ UNCHANGED vars
  <2>1. UNCHANGED <<supl, agpsStatus, gps_conf, framework>>
    BY <1>5 DEF AgpsInit, ProcOpen, ProcReinit, ReadSetting, PostSetting, ProcSetting,
                ProcCapabilities, Modem, Crash, Return, Announce, settings, vars
  <2> QED  BY <2>1 DEF StoredIsSent
<1> QED  BY <1>1, <1>2, <1>3, <1>4, <1>5 DEF Next, Framework, Call, MsgTask

LEMMA NextHand == Basics /\ [Next]_vars => HandIsCurrent'
<1> SUFFICES ASSUME Basics, [Next]_vars, ~overlap', task'.hand # <<>>
             PROVE  (task.hand[1].value = Current(task.hand[1].type))'
  BY DEF HandIsCurrent
<1> USE DEF Basics
<1>0. task.hand # <<>> => Busy  BY TypedParts
<1>1. CASE Call
  <2>1. task' = task /\ ~Busy  BY <1>1, CallStores
  <2> QED  BY <1>0, <2>1
<1>2. CASE ReadSetting
  <2>1. /\ ~(Head(task.todo) = "SetServer" /\ ~(agps /\ supl.set))
        /\ task'.hand = <<Msg(Head(task.todo), Current(Head(task.todo)))>>
    BY <1>2 DEF ReadSetting
  <2>2. task'.hand[1] = Msg(Head(task.todo), Current(Head(task.todo)))  BY <2>1
  <2>3. \A type : UNCHANGED Current(type)
    BY <1>2 DEF ReadSetting, settings, Current
  <2> QED  BY <2>2, <2>3, Shapes
<1>3. CASE ProcOpen \/ ProcReinit \/ PostSetting \/ ProcSetting \/ ProcConstellation \/ ProcCapabilities
  <2>1. task'.hand = <<>>
    BY <1>3, TypedParts DEF ProcOpen, ProcReinit, PostSetting, ProcSetting, ProcConstellation,
                            ProcCapabilities, Proc, Typed
  <2> QED  BY <2>1
<1>4. CASE LocInit
  <2>1. CASE adapter
    <3>1. UNCHANGED vars  BY <1>4, <2>1 DEF LocInit, vars, settings, history
    <3>2. \A type : UNCHANGED Current(type)  BY <3>1 DEF vars, settings, Current
    <3> QED  BY <3>1, <3>2 DEF vars, HandIsCurrent
  <2>2. CASE ~adapter
    BY <1>4, <2>2 DEF LocInit, NothingEarly, NothingToDo
  <2> QED  BY <2>1, <2>2
<1>5. CASE PostInit \/ AgpsInit \/ Modem \/ UNCHANGED vars
  <2>1. UNCHANGED <<task, overlap, settings>>
    BY <1>5 DEF PostInit, AgpsInit, Modem, Crash, Return, Announce, settings, vars
  <2>2. \A type : UNCHANGED Current(type)  BY <2>1 DEF settings, Current
  <2> QED  BY <2>1, <2>2 DEF HandIsCurrent
<1> QED  BY <1>1, <1>2, <1>3, <1>4, <1>5 DEF Next, Framework, Call, MsgTask

LEMMA NextOpenComes == Basics /\ [Next]_vars => OpenComes'
<1> SUFFICES ASSUME Basics, [Next]_vars, adapter', modem'.connection = "closed"
             PROVE  \E i \in 1..Len(queue') : Opens(queue'[i])
  BY DEF OpenComes, Opens
<1> USE DEF Basics
<1>0. queue \in Seq(Messages) /\ modem \in Modems  BY DEF Typed
<1>1. ASSUME adapter, UNCHANGED modem, NEW m \in Messages, queue' = Append(queue, m)
      PROVE  \E i \in 1..Len(queue') : Opens(queue'[i])
  BY <1>0, <1>1, PostArrives DEF OpenComes
<1>2. ASSUME adapter, UNCHANGED <<modem, queue>>
      PROVE  \E i \in 1..Len(queue') : Opens(queue'[i])
  BY <1>2 DEF OpenComes
<1>3. ASSUME adapter, modem.connection = "closed", queue # <<>>, queue' = Tail(queue), ~Opens(Head(queue))
      PROVE  \E i \in 1..Len(queue') : Opens(queue'[i])
  <2>1. PICK i \in 1..Len(queue) : Opens(queue[i])  BY <1>3 DEF OpenComes
  <2>2. i # 1  BY <1>0, <1>3, <2>1, Handled
  <2>3. i - 1 \in 1..Len(Tail(queue)) /\ Tail(queue)[i - 1] = queue[i]
    <3>1. /\ Len(queue) \in Nat \ {0} /\ Len(Tail(queue)) = Len(queue) - 1
          /\ \A j \in 1..Len(Tail(queue)) : Tail(queue)[j] = queue[j + 1]
      BY <1>0, <1>3, Handled
    <3>2. i - 1 \in 1..Len(Tail(queue)) /\ (i - 1) + 1 = i  BY <2>2, <3>1
    <3> QED  BY <3>1, <3>2
  <2> QED  BY <1>3, <2>1, <2>3
<1>4. CASE Call
  <2>1. adapter /\ UNCHANGED modem  BY <1>4, CallStores
  <2>2. UNCHANGED queue \/ \E m \in Messages : queue' = Append(queue, m)
    BY <1>4, <2>1, CallStores DEF Send
  <2> QED  BY <1>1, <1>2, <2>1, <2>2
<1>5. CASE LocInit
  <2>1. CASE adapter  BY <1>2, <1>5, <2>1 DEF LocInit
  <2>2. CASE ~adapter
    <3>1. queue' = Append(<<>>, Msg("Open", 0))  BY <1>5, <2>2 DEF LocInit, NothingEarly
    <3>2. Len(queue') = 1 /\ queue'[1] = Msg("Open", 0)  BY <3>1
    <3> QED  BY <3>2, Shapes DEF Opens
  <2> QED  BY <2>1, <2>2
<1>6. CASE PostInit
  <2>1. Msg("Init", 0) \in Messages  BY Shapes DEF Types
  <2> QED  BY <1>1, <1>6, <2>1 DEF PostInit, NothingEarly
<1>7. CASE AgpsInit
  <2>1. Msg("SetServer", [host |-> supl.host, port |-> supl.port]) \in Messages
    BY Shapes, TypedParts DEF Places
  <2> QED  BY <1>1, <1>2, <1>7, <2>1 DEF AgpsInit
<1>8. CASE ProcOpen
  <2>1. modem.connection # "closed" /\ modem' = modem
    BY <1>8, ModemSet DEF ProcOpen, Typed
  <2> QED  BY <2>1
<1>9. CASE ProcReinit \/ ProcSetting \/ ProcConstellation \/ ProcCapabilities
  <2>1. queue # <<>> /\ queue' = Tail(queue) /\ ~Opens(Head(queue)) /\ UNCHANGED adapter
    BY <1>9 DEF ProcReinit, ProcSetting, ProcConstellation, ProcCapabilities, Proc, Opens
  <2>2. modem' = modem
    <3>1. CASE ProcSetting
      <4>1. CASE modem.connection # "open"  BY <3>1, <4>1 DEF ProcSetting
      <4>2. CASE modem.connection = "open"
        BY <3>1, <4>2 DEF ProcSetting, Typed, Modems, Proc
      <4> QED  BY <4>1, <4>2
    <3> QED  BY <1>9, <3>1 DEF ProcReinit, ProcConstellation, ProcCapabilities
  <2> QED  BY <1>3, <2>1, <2>2
<1>10. CASE ReadSetting  BY <1>2, <1>10 DEF ReadSetting
<1>11. CASE PostSetting
  BY <1>1, <1>11, HandHolds DEF PostSetting
<1>12. CASE Crash  BY <1>12 DEF Crash, Fresh
<1>13. CASE Return  BY <1>13, ModemSet DEF Return, Typed
<1>14. CASE Announce
  <2>1. Msg("Ssr", 0) \in Messages /\ Msg("EngineUp", 0) \in Messages  BY Shapes DEF Types
  <2>2. queue' = Append(Append(queue, Msg("Ssr", 0)), Msg("EngineUp", 0))
    BY <1>0, <1>14, <2>1, PostedTwo DEF Announce
  <2>3. Len(queue) + 1 \in 1..Len(queue') /\ queue'[Len(queue) + 1] = Msg("Ssr", 0)
    BY <1>0, <2>1, <2>2, Posted
  <2> QED  BY <2>3, Shapes DEF Opens
<1>15. CASE UNCHANGED vars  BY <1>2, <1>15 DEF vars
<1> QED
  BY <1>4, <1>5, <1>6, <1>7, <1>8, <1>9, <1>10, <1>11, <1>12, <1>13, <1>14, <1>15
  DEF Next, Framework, Call, MsgTask, Modem

-----------------------------------------------------------------------------
(* The settings arrive                                                     *)

LEMMA InModemIs ==
  /\ InModem("SuplVer") <=> modem.ver = Current("SuplVer")
  /\ InModem("EnableData") <=> modem.data = Current("EnableData")
  /\ InModem("SetServer") <=> modem.server = Current("SetServer")
  /\ InModem("SuplVer")' <=> modem'.ver = Current("SuplVer")'
  /\ InModem("EnableData")' <=> modem'.data = Current("EnableData")'
  /\ InModem("SetServer")' <=> modem'.server = Current("SetServer")'
  BY CurrentIs, CurrentIsNext DEF InModem

LEMMA InModemStays ==
  ASSUME NEW type \in Settings, UNCHANGED Current(type), InModem(type),
         modem'.ver = modem.ver, modem'.data = modem.data, modem'.server = modem.server
  PROVE  InModem(type)'
  BY InModemIs DEF Settings

\* A step that neither touches a setting nor takes a message.
LEMMA OtherKeeps ==
  ASSUME Basics, NEW type \in Settings, Comes(type), UNCHANGED <<modem, task>>,
         UNCHANGED Current(type), Unsent(type) => Unsent(type)',
         framework.at = "created" => framework'.at = "created",
         \/ UNCHANGED queue
         \/ \E m \in Messages : m.type # type /\ queue' = Append(queue, m)
  PROVE  Comes(type)'
<1> USE DEF Basics
<1>0. queue \in Seq(Messages)  BY DEF Typed
<1>1. /\ ReinitComes(type) => ReinitComes(type)'
      /\ Queued(type) => Queued(type)'
      /\ NoneFrom(1, type) => NoneFrom(1, type)'
  <2>1. CASE UNCHANGED queue
    BY <2>1 DEF ReinitComes, Reposts, Queued, NoneFrom, Arrives, Connected
  <2>2. CASE \E m \in Messages : m.type # type /\ queue' = Append(queue, m)
    <3>1. PICK m \in Messages : m.type # type /\ queue' = Append(queue, m)  BY <2>2
    <3> QED  BY <1>0, <3>1, PostKeeps
  <2> QED  BY <2>1, <2>2
<1>4. InModem(type) => InModem(type)'  BY InModemStays
<1>5. (Connected => Connected') /\ (ToDo(type) => ToDo(type)') /\ (InHand(type) => InHand(type)')
  BY DEF Connected, ToDo, InHand
<1> QED  BY <1>1, <1>4, <1>5 DEF Comes, Lost

\* A step that takes a message which is not the setting, and leaves the modem
\* connected if it was.
LEMMA OthersTaken ==
  ASSUME Basics, NEW type \in Settings, Comes(type), ~Busy, queue # <<>>, queue' = Tail(queue),
         Head(queue).type # type, ~Reposts(Head(queue), type),
         UNCHANGED <<task, framework>>, UNCHANGED Current(type), InModem(type) => InModem(type)',
         Lost => Lost', Connected => Connected', Opens(Head(queue)) => Connected' \/ Lost'
  PROVE  Comes(type)'
<1> USE DEF Basics
<1>0. queue \in Seq(Messages)  BY DEF Typed
<1>1. ReinitComes(type) => Lost' \/ ReinitComes(type)'
  BY <1>0, TakeKeeps
<1>2. Queued(type) => Lost' \/ Queued(type)'
  BY <1>0, TakeKeeps
<1>3. NoneFrom(1, type) => NoneFrom(1, type)'
  BY <1>0, TakeKeeps
<1>4. Unsent(type) => Unsent(type)'  BY DEF Unsent
<1>5. (ToDo(type) => ToDo(type)') /\ (InHand(type) => InHand(type)')
  BY DEF ToDo, InHand
<1>6. Lost' => Comes(type)'  BY DEF Comes, Lost
<1> QED  BY <1>1, <1>2, <1>3, <1>4, <1>5, <1>6 DEF Comes, Lost

LEMMA CallComes ==
  ASSUME Basics, SettingsCome, Call, NEW type \in Settings, Wanted(type)'
  PROVE  Comes(type)'
<1> USE DEF Basics
<1>1. /\ UNCHANGED <<adapter, agps, task, modem, told, restarts>> /\ adapter
      /\ overlap' = (overlap \/ Busy) /\ ~overlap /\ framework.at # "created"
  BY CallStores DEF Wanted
<1>2. CASE Unsent(type)'  BY <1>2 DEF Comes, Lost
<1>3. CASE /\ ~Unsent(type) /\ UNCHANGED Current(type) /\ UNCHANGED queue
           /\ type = "SetServer" => supl'.set = supl.set
           /\ type = "EnableData" => silent' = silent
  <2>1. Comes(type)  BY <1>1, <1>3 DEF SettingsCome, Wanted
  <2> QED  BY <1>1, <1>3, <2>1, OtherKeeps
<1>4. ASSUME NEW sent \in Settings, Send(Msg(sent, Current(sent)')), Msg(sent, Current(sent)') \in Messages,
             UNCHANGED Current(type), supl'.set = supl.set, silent' = silent, type # sent => ~Unsent(type)
      PROVE  Comes(type)'
  <2>1. queue' = Append(queue, Msg(sent, Current(sent)'))  BY <1>1, <1>4 DEF Send
  <2>2. PICK m \in Messages : m = Msg(sent, Current(sent)')  BY <1>4
  <2>3. m.type = sent /\ m.value = Current(sent)'  BY <2>2, Shapes
  <2>4. CASE type = sent
    <3>1. queue \in Seq(Messages) /\ modem \in Modems  BY DEF Typed
    <3> QED  BY <1>1, <2>1, <2>2, <2>3, <2>4, <3>1, PostBrings
  <2>5. CASE type # sent
    <3>1. Comes(type)  BY <1>1, <1>4 DEF SettingsCome, Wanted
    <3> QED  BY <1>1, <1>4, <2>1, <2>2, <2>3, <2>5, <3>1, OtherKeeps
  <2> QED  BY <2>4, <2>5
<1>5. ~(type = "EnableData" /\ silent')  BY DEF Wanted
<1> QED  BY <1>2, <1>3, <1>4, <1>5, CallStores

LEMMA InitComes ==
  ASSUME Basics, SettingsCome, LocInit \/ PostInit \/ AgpsInit, NEW type \in Settings, Wanted(type)'
  PROVE  Comes(type)'
<1> USE DEF Basics
<1>0. queue \in Seq(Messages) /\ modem \in Modems  BY DEF Typed
<1>1. CASE LocInit /\ ~adapter
  <2>1. framework'.at = "created" /\ ~agps'  BY <1>1 DEF LocInit, Typed
  <2> QED  BY <2>1 DEF Wanted, Comes
<1>2. CASE LocInit /\ adapter
  <2>1. UNCHANGED vars  BY <1>2 DEF LocInit, vars, settings, history
  <2>2. Comes(type) /\ UNCHANGED Current(type)
    BY <2>1 DEF SettingsCome, Wanted, vars, settings, history, Current
  <2>3. UNCHANGED framework /\ UNCHANGED <<modem, task, queue>>  BY <2>1 DEF vars
  <2>4. Unsent(type) => Unsent(type)'  BY <2>3 DEF Unsent
  <2> QED  BY <2>2, <2>3, <2>4, OtherKeeps
<1>3. CASE PostInit
  <2>1. Msg("Init", 0) \in Messages  BY Shapes DEF Types
  <2>2. /\ framework.at = "created" /\ queue' = Append(queue, Msg("Init", 0)) /\ adapter
        /\ UNCHANGED <<adapter, agps, settings, task, modem, silent, overlap>>
    BY <1>3 DEF PostInit, NothingEarly, history
  <2>3. CASE type # "SetServer"
    <3>1. Reposts(Msg("Init", 0), type)  BY <2>3, Shapes DEF Reposts
    <3> QED  BY <1>0, <2>1, <2>2, <3>1, PostBrings
  <2>4. CASE type = "SetServer"
    <3>1. Comes(type) /\ UNCHANGED Current(type)
      BY <2>2 DEF SettingsCome, Wanted, settings, Current
    <3>2. ~Unsent(type) /\ ~(framework.at = "created" /\ type # "SetServer")
      BY <2>2, <2>4, UnsentIs
    <3>3. Msg("Init", 0).type # type  BY <2>4, Shapes
    <3>4. ReinitComes(type) => ReinitComes(type)'  BY <1>0, <2>1, <2>2, PostKeeps
    <3>5. Queued(type) => Queued(type)'  BY <1>0, <2>1, <2>2, <3>1, <3>3, PostKeeps
    <3>6. NoneFrom(1, type) => NoneFrom(1, type)'  BY <1>0, <2>1, <2>2, <3>3, PostKeeps
    <3>7. InModem(type) => InModem(type)'  BY <2>2, <3>1, InModemStays
    <3>8. (Connected => Connected') /\ (ToDo(type) => ToDo(type)') /\ (InHand(type) => InHand(type)')
      BY <2>2 DEF Connected, ToDo, InHand
    <3> QED  BY <2>2, <3>1, <3>2, <3>4, <3>5, <3>6, <3>7, <3>8 DEF Comes, Lost
  <2> QED  BY <2>3, <2>4
<1>4. CASE AgpsInit
  <2>1. Msg("SetServer", [host |-> supl.host, port |-> supl.port]) \in Messages
    BY Shapes, TypedParts DEF Places
  <2>2. adapter /\ UNCHANGED <<adapter, settings, framework, task, modem, silent, overlap>>
    BY <1>4 DEF AgpsInit, history
  <2>3. UNCHANGED Current(type) /\ (Unsent(type) => Unsent(type)')
    BY <2>2 DEF settings, Current, Unsent
  <2>4. CASE type = "SetServer"
    <3>1. supl.set  BY <2>2, <2>4 DEF Wanted, settings
    <3>2. queue' = Append(queue, Msg("SetServer", [host |-> supl.host, port |-> supl.port]))
      BY <1>4, <3>1 DEF AgpsInit
    <3>3. [host |-> supl.host, port |-> supl.port] = Current("SetServer")'
      BY <2>2, CurrentIsNext DEF settings
    <3> QED  BY <1>0, <2>1, <2>2, <2>4, <3>2, <3>3, Shapes, PostBrings
  <2>5. CASE type # "SetServer"
    <3>1. Comes(type)  BY <2>2, <2>5 DEF SettingsCome, Wanted
    <3>2. \/ UNCHANGED queue
          \/ \E m \in Messages : m.type # type /\ queue' = Append(queue, m)
      BY <1>4, <2>1, <2>5, Shapes DEF AgpsInit
    <3> QED  BY <2>2, <2>3, <3>1, <3>2, OtherKeeps
  <2> QED  BY <2>4, <2>5
<1> QED  BY <1>1, <1>2, <1>3, <1>4

LEMMA ModemComes ==
  ASSUME Basics, SettingsCome, Modem, NEW type \in Settings, Wanted(type)'
  PROVE  Comes(type)'
<1> USE DEF Basics
<1>1. CASE Crash  BY <1>1 DEF Crash, Fresh, Comes, Lost
<1>2. CASE Return
  <2>1. modem'.connection = "back"  BY <1>2, ModemSet DEF Return, Typed
  <2> QED  BY <2>1 DEF Comes, Lost
<1>3. CASE Announce
  <2>1. Msg("Ssr", 0) \in Messages /\ Msg("EngineUp", 0) \in Messages  BY Shapes DEF Types
  <2>2. queue' = Append(Append(queue, Msg("Ssr", 0)), Msg("EngineUp", 0)) /\ queue \in Seq(Messages)
    BY <1>3, <2>1, PostedTwo DEF Announce, Typed
  <2>3. PICK n \in Nat : n = Len(queue) + 1  BY <2>2
  <2>4. /\ n \in 1..Len(queue') /\ queue'[n] = Msg("Ssr", 0)
        /\ n + 1 \in 1..Len(queue') /\ queue'[n + 1] = Msg("EngineUp", 0)
    <3>1. /\ Append(queue, Msg("Ssr", 0)) \in Seq(Messages)
          /\ Len(queue) \in Nat /\ Len(Append(queue, Msg("Ssr", 0))) = n
          /\ Append(queue, Msg("Ssr", 0))[n] = Msg("Ssr", 0)
      BY <2>1, <2>2, <2>3, Posted
    <3>2. Len(queue') = n + 1 /\ queue'[n + 1] = Msg("EngineUp", 0) /\ queue'[n] = Msg("Ssr", 0)
      BY <2>1, <2>2, <3>1, Posted
    <3> QED  BY <3>1, <3>2
  <2>5. Arrives(n + 1)'  BY <2>3, <2>4, Shapes DEF Arrives, Opens
  <2>6. Reposts(queue'[n + 1], type)  BY <2>4, Shapes DEF Reposts
  <2> QED  BY <2>4, <2>5, <2>6 DEF ReinitComes, Comes, Reposts
<1> QED  BY <1>1, <1>2, <1>3 DEF Modem

LEMMA NotBusy ==
  ASSUME Typed, ~Busy, NEW type
  PROVE  ~ToDo(type) /\ ~InHand(type)
  BY TypedParts DEF ToDo, InHand, Holds

LEMMA TaskComes ==
  ASSUME Basics, SettingsCome, MsgTask, NEW type \in Settings, Wanted(type)'
  PROVE  Comes(type)'
<1> USE DEF Basics
<1>0. queue \in Seq(Messages) /\ modem \in Modems  BY DEF Typed
<1>1. /\ UNCHANGED <<adapter, agps, supl, agpsStatus, silent, framework>> /\ gps_conf'.ver = gps_conf.ver
      /\ overlap => overlap'
  BY DEF MsgTask, ProcOpen, ProcReinit, ReadSetting, PostSetting, ProcSetting, ProcConstellation,
         ProcCapabilities, settings, history, Typed, Versions
<1>2. UNCHANGED Current(type)  BY <1>1, CurrentIs, CurrentIsNext DEF Settings
<1>3. Wanted(type) /\ Comes(type)  BY <1>1 DEF Wanted, SettingsCome
<1>4. (Unsent(type) => Unsent(type)')  BY <1>1 DEF Unsent
<1>5. ASSUME NEW t, Proc(t)
      PROVE  /\ ~Busy /\ queue # <<>> /\ queue' = Tail(queue) /\ Head(queue).type = t
             /\ Head(queue) \in Messages
  BY <1>0, <1>5, Handled DEF Proc
<1>6. type \notin {"Open", "Ssr", "Init", "EngineUp", "Constellation", "Capabilities"}  BY DEF Settings
<1>7. CASE ProcOpen
  <2>1. /\ ~Busy /\ queue # <<>> /\ queue' = Tail(queue) /\ Head(queue).type \in {"Open", "Ssr"}
        /\ UNCHANGED task
    BY <1>5, <1>7 DEF ProcOpen
  <2>2. /\ modem'.ver = modem.ver /\ modem'.data = modem.data /\ modem'.server = modem.server
        /\ modem.connection = "closed" => modem'.connection = "open"
        /\ modem.connection # "closed" => modem'.connection = modem.connection
    BY <1>0, <1>7, ModemSet DEF ProcOpen
  <2>3. InModem(type) => InModem(type)'  BY <1>2, <2>2, InModemStays
  <2>4. (Lost => Lost') /\ (Connected => Connected') /\ (Connected' \/ Lost')
    BY <1>0, <2>2 DEF Lost, Connected, Modems
  <2>5. ~Reposts(Head(queue), type)  BY <2>1 DEF Reposts
  <2> QED  BY <1>1, <1>2, <1>3, <1>6, <2>1, <2>3, <2>4, <2>5, OthersTaken
<1>8. CASE ProcConstellation \/ ProcCapabilities
  <2>1. /\ ~Busy /\ queue # <<>> /\ queue' = Tail(queue)
        /\ Head(queue).type \in {"Constellation", "Capabilities"}
        /\ UNCHANGED task /\ UNCHANGED modem
    BY <1>5, <1>8 DEF ProcConstellation, ProcCapabilities
  <2>2. InModem(type) => InModem(type)'  BY <1>2, <2>1, InModemStays
  <2>3. (Lost => Lost') /\ (Connected => Connected')  BY <2>1 DEF Lost, Connected
  <2>4. ~Reposts(Head(queue), type) /\ ~Opens(Head(queue))  BY <2>1 DEF Reposts, Opens
  <2> QED  BY <1>1, <1>2, <1>3, <1>6, <2>1, <2>2, <2>3, <2>4, OthersTaken
<1>9. CASE ProcReinit
  <2>1. /\ ~Busy /\ queue # <<>> /\ queue' = Tail(queue) /\ Head(queue).type \in {"Init", "EngineUp"}
        /\ UNCHANGED modem /\ task'.todo = ReinitPosts(Head(queue))
    BY <1>5, <1>9 DEF ProcReinit, Typed
  <2>2. (Lost => Lost') /\ (Connected => Connected') /\ ~Opens(Head(queue))
    BY <2>1 DEF Lost, Connected, Opens
  <2>3. ~ToDo(type) /\ ~InHand(type)  BY <2>1, NotBusy
  <2>4. ReinitComes(type) => Lost' \/ ReinitComes(type)' \/ (Reposts(Head(queue), type) /\ Connected)
    BY <1>0, <2>1, <2>2, TakeKeeps
  <2>5. Reposts(Head(queue), type) => ToDo(type)'
    <3>1. type \in SettingTypes  BY DEF Settings, SettingTypes
    <3> QED  BY <1>6, <2>1, <3>1, TodoStarts DEF Reposts, ToDo
  <2>6. Queued(type) => Lost' \/ Queued(type)'  BY <1>0, <1>2, <1>6, <2>1, <2>2, TakeKeeps
  <2>7. NoneFrom(1, type) => NoneFrom(1, type)'  BY <1>0, <2>1, <2>2, TakeKeeps
  <2>8. InModem(type) => InModem(type)'  BY <1>2, <2>1, InModemStays
  <2>9. Lost' => Comes(type)'  BY DEF Comes, Lost
  <2> QED  BY <1>1, <1>3, <1>4, <2>2, <2>3, <2>4, <2>5, <2>6, <2>7, <2>8, <2>9 DEF Comes, Lost
<1>10. CASE ReadSetting
  <2>1. UNCHANGED <<queue, modem>> /\ task.todo # <<>> /\ task.hand = <<>>  BY <1>10 DEF ReadSetting
  <2>2. ~InHand(type)  BY <2>1 DEF InHand
  <2>3. task'.todo = Tail(task.todo)  BY <1>10 DEF ReadSetting
  <2>4. ToDo(type) => ToDo(type)' \/ Head(task.todo) = type
    BY <2>1, <2>3, TypedParts, TodoSplits DEF ToDo
  <2>5. ASSUME Head(task.todo) = type
        PROVE  InHand(type)'
    <3>1. task'.hand = <<Msg(type, Current(type))>>
      BY <1>3, <1>10, <2>5 DEF ReadSetting, Wanted
    <3>2. task'.hand # <<>> /\ task'.hand[1] = Msg(type, Current(type))  BY <3>1
    <3> QED  BY <3>2, Shapes DEF InHand
  <2>6. InModem(type) => InModem(type)'  BY <1>2, <2>1, InModemStays
  <2>7. /\ ReinitComes(type) => ReinitComes(type)'
        /\ Queued(type) => Queued(type)'
        /\ NoneFrom(1, type) => NoneFrom(1, type)'
        /\ Connected => Connected'
    BY <1>2, <2>1 DEF ReinitComes, Reposts, Queued, NoneFrom, Arrives, Connected
  <2> QED  BY <1>1, <1>3, <1>4, <2>1, <2>2, <2>4, <2>5, <2>6, <2>7 DEF Comes, Lost
<1>11. CASE PostSetting
  <2>1. /\ task.hand # <<>> /\ queue' = Append(queue, task.hand[1]) /\ UNCHANGED modem
        /\ task'.todo = task.todo
    BY <1>11, TypedParts DEF PostSetting, Typed
  <2>2. task.hand[1] \in Messages /\ task.hand[1].value = Current(task.hand[1].type)
    BY <1>3, <2>1, HandHolds DEF HandIsCurrent, Wanted
  <2>3. CASE task.hand[1].type = type
    BY <1>0, <1>2, <1>3, <2>1, <2>2, <2>3, PostBrings DEF Wanted
  <2>4. CASE task.hand[1].type # type
    <3>1. ~InHand(type)  BY <2>4 DEF InHand
    <3>2. /\ ReinitComes(type) => ReinitComes(type)'
          /\ Queued(type) => Queued(type)'
          /\ NoneFrom(1, type) => NoneFrom(1, type)'
      BY <1>0, <1>2, <2>1, <2>2, <2>4, PostKeeps
    <3>3. InModem(type) => InModem(type)'  BY <1>2, <2>1, InModemStays
    <3>4. (Connected => Connected') /\ (ToDo(type) => ToDo(type)')  BY <2>1 DEF Connected, ToDo
    <3> QED  BY <1>1, <1>3, <1>4, <2>1, <3>1, <3>2, <3>3, <3>4 DEF Comes, Lost
  <2> QED  BY <2>3, <2>4
<1>12. CASE ProcSetting
  <2>1. /\ ~Busy /\ queue # <<>> /\ queue' = Tail(queue)
        /\ Head(queue).type \in Settings /\ Head(queue) \in Messages /\ UNCHANGED task
    BY <1>5, <1>12 DEF ProcSetting, Settings
  <2>2. modem'.connection = modem.connection
    <3>1. CASE modem.connection # "open"  BY <1>12, <3>1 DEF ProcSetting
    <3>2. CASE modem.connection = "open"  BY <1>0, <1>12, <2>1, <3>2 DEF ProcSetting, Modems, Settings
    <3> QED  BY <3>1, <3>2
  <2>3. (Lost => Lost') /\ (Connected => Connected')  BY <2>2 DEF Lost, Connected
  <2>4. ~Reposts(Head(queue), type) /\ ~Opens(Head(queue))  BY <2>1 DEF Reposts, Opens, Settings
  <2>5. CASE Head(queue).type = type
    <3>1. ~ToDo(type) /\ ~InHand(type)  BY <2>1, NotBusy
    <3>2. ReinitComes(type) => Lost' \/ ReinitComes(type)'  BY <1>0, <2>1, <2>3, <2>4, TakeKeeps
    <3>3. Queued(type) => \/ Lost' \/ Queued(type)'
                          \/ Head(queue).value = Current(type) /\ Connected /\ NoneFrom(1, type)'
      BY <1>0, <1>2, <2>1, <2>3, <2>4, TakeKeeps
    <3>4. ~NoneFrom(1, type)  BY <1>0, <2>1, <2>3, <2>4, <2>5, TakeKeeps
    <3>5. Head(queue).value = Current(type) /\ Connected => InModem(type)'
      <4>1. SUFFICES ASSUME Head(queue).value = Current(type), modem.connection = "open"
                     PROVE  InModem(type)'
        BY DEF Connected
      <4>2. CASE type = "SuplVer"
        BY <1>0, <1>2, <1>12, <2>5, <4>1, <4>2, InModemIs DEF ProcSetting, Modems
      <4>3. CASE type = "EnableData"
        BY <1>0, <1>2, <1>12, <2>5, <4>1, <4>3, InModemIs DEF ProcSetting, Modems
      <4>4. CASE type = "SetServer"
        BY <1>0, <1>2, <1>12, <2>5, <4>1, <4>4, InModemIs DEF ProcSetting, Modems
      <4> QED  BY <4>2, <4>3, <4>4 DEF Settings
    <3>6. Lost' => Comes(type)'  BY DEF Comes, Lost
    <3> QED  BY <1>1, <1>3, <1>4, <2>2, <2>3, <3>1, <3>2, <3>3, <3>4, <3>5, <3>6 DEF Comes, Lost
  <2>6. CASE Head(queue).type # type
    <3>1. InModem(type) => InModem(type)'
      <4>1. CASE modem.connection # "open"
        BY <1>2, <1>12, <4>1, InModemStays DEF ProcSetting
      <4>2. CASE modem.connection = "open"
        <5>1. CASE Head(queue).type = "SuplVer"
          BY <1>0, <1>2, <1>12, <2>6, <4>2, <5>1, InModemIs DEF ProcSetting, Modems, Settings
        <5>2. CASE Head(queue).type = "EnableData"
          BY <1>0, <1>2, <1>12, <2>6, <4>2, <5>2, InModemIs DEF ProcSetting, Modems, Settings
        <5>3. CASE Head(queue).type = "SetServer"
          BY <1>0, <1>2, <1>12, <2>6, <4>2, <5>3, InModemIs DEF ProcSetting, Modems, Settings
        <5> QED  BY <2>1, <5>1, <5>2, <5>3 DEF Settings
      <4> QED  BY <4>1, <4>2
    <3> QED  BY <1>1, <1>2, <1>3, <2>1, <2>3, <2>4, <2>6, <3>1, OthersTaken
  <2> QED  BY <2>5, <2>6
<1> QED  BY <1>7, <1>8, <1>9, <1>10, <1>11, <1>12 DEF MsgTask

LEMMA NextComes == Basics /\ SettingsCome /\ [Next]_vars => SettingsCome'
<1> SUFFICES ASSUME Basics, SettingsCome, [Next]_vars, NEW type \in Settings, Wanted(type)'
             PROVE  Comes(type)'
  BY DEF SettingsCome
<1>1. CASE UNCHANGED vars
  <2>1. UNCHANGED <<queue, modem, task, framework, adapter, agps, overlap>> /\ UNCHANGED <<supl, silent>>
    BY <1>1 DEF vars, settings, history
  <2>2. UNCHANGED Current(type)  BY <1>1 DEF vars, settings, Current
  <2>3. Comes(type)  BY <2>1 DEF Wanted, SettingsCome
  <2>4. Unsent(type) => Unsent(type)'  BY <2>1 DEF Unsent
  <2> QED  BY <2>1, <2>2, <2>3, <2>4, OtherKeeps
<1> QED  BY <1>1, CallComes, InitComes, TaskComes, ModemComes DEF Next, Framework, Call

-----------------------------------------------------------------------------
(* The capabilities arrive                                                 *)

\* Without a crash, what is posted comes in order ...
LEMMA PostInOrder ==
  ASSUME Basics, UNCHANGED modem, adapter, ~Lost, \A i \in 1..Len(queue) : InOrder(i),
         NEW m \in Messages, queue' = Append(queue, m), m.type \notin {"Ssr", "EngineUp"},
         m.type \in {"Constellation", "Capabilities"} => Connected
  PROVE  (\A i \in 1..Len(queue) : InOrder(i))'
<1> SUFFICES ASSUME NEW i \in 1..Len(queue')
             PROVE  InOrder(i)'
  OBVIOUS
<1>0. queue \in Seq(Messages) /\ modem \in Modems /\ OpenComes  BY DEF Basics, Typed
<1>1. Len(queue) \in Nat /\ Len(queue') = Len(queue) + 1  BY <1>0, PostArrives
<1>2. Connected => Connected'  BY DEF Connected
<1>3. CASE i \in 1..Len(queue)
  <2>1. queue'[i] = queue[i] /\ (Arrives(i) => Arrives(i)')  BY <1>0, <1>3, PostArrives
  <2>2. InOrder(i)  BY <1>3
  <2> QED  BY <1>2, <2>1, <2>2 DEF InOrder
<1>4. CASE i = Len(queue) + 1
  <2>1. queue'[i] = m  BY <1>0, <1>4, PostArrives
  <2>2. Arrives(i)'  BY <1>0, <1>4, PostedArrives
  <2> QED  BY <1>2, <2>1, <2>2 DEF InOrder
<1> QED  BY <1>1, <1>3, <1>4

\* ... and so do the others when a message is handled.
LEMMA TakeInOrder ==
  ASSUME Basics, \A i \in 1..Len(queue) : InOrder(i), queue # <<>>, queue' = Tail(queue),
         ~Lost', Connected => Connected', Opens(Head(queue)) => Connected'
  PROVE  /\ (\A i \in 1..Len(queue) : InOrder(i))'
         /\ Head(queue).type \notin {"Ssr", "EngineUp"}
         /\ Head(queue).type \in {"Init", "Constellation", "Capabilities"} => Connected
<1>0. queue \in Seq(Messages)  BY DEF Basics, Typed
<1>1. 1 \in 1..Len(queue) /\ Head(queue) = queue[1] /\ (Arrives(1) => Connected)
  BY <1>0, TakeArrives
<1>2. InOrder(1)  BY <1>1
<1>3. ASSUME NEW i \in 1..Len(queue')
      PROVE  InOrder(i)'
  <2>1. PICK j \in 1..Len(queue) : j = i + 1 /\ j # 1 /\ j - 1 = i /\ queue'[i] = queue[j]
    BY <1>0, TakeArrives
  <2>2. InOrder(j)  BY <2>1
  <2>3. Arrives(j) => Arrives(i)'
    <3>1. Arrives(j) => Lost' \/ Connected' \/ Arrives(j - 1)'  BY <1>0, TakeArrives
    <3> QED  BY <2>1, <3>1 DEF Arrives, Connected
  <2> QED  BY <2>1, <2>2, <2>3 DEF InOrder
<1> QED  BY <1>1, <1>2, <1>3 DEF InOrder

LEMMA NextOpened == Basics /\ OpenedFirst /\ [Next]_vars => OpenedFirst'
<1> SUFFICES ASSUME Basics, OpenedFirst, [Next]_vars, restarts' = 0
             PROVE  ~Lost' /\ (\A i \in 1..Len(queue) : InOrder(i))' /\ (Busy => Connected)'
  BY DEF OpenedFirst
<1> USE DEF Basics
<1>0. queue \in Seq(Messages) /\ modem \in Modems /\ restarts \in Nat
  BY SetupAssumption DEF Typed, SetupAssumption
<1>1. CASE Crash
  <2>1. restarts' # 0  BY <1>0, <1>1 DEF Crash
  <2> QED  BY <2>1
<1>2. CASE ~Crash
  <2>1. restarts = 0
    BY <1>2 DEF Next, Framework, MsgTask, Modem, LocInit, PostInit, AgpsInit, SetServer,
        UpdateNetworkAvailability, ConfigurationUpdate, Begins, Goes, ProcOpen, ProcReinit,
        ReadSetting, PostSetting, ProcSetting, ProcConstellation, ProcCapabilities, Return,
        Announce, history, vars
  <2>2. ~Lost /\ (\A i \in 1..Len(queue) : InOrder(i)) /\ (Busy => Connected)
    BY <2>1 DEF OpenedFirst
  <2>3. ASSUME UNCHANGED <<modem, queue, task>>
        PROVE  ~Lost' /\ (\A i \in 1..Len(queue) : InOrder(i))' /\ (Busy => Connected)'
    BY <2>2, <2>3 DEF Lost, InOrder, Arrives, Connected, Busy
  <2>4. ASSUME adapter, UNCHANGED modem, Busy' => Busy, NEW m \in Messages, queue' = Append(queue, m),
               m.type \notin {"Ssr", "EngineUp"}, m.type \in {"Constellation", "Capabilities"} => Connected
        PROVE  ~Lost' /\ (\A i \in 1..Len(queue) : InOrder(i))' /\ (Busy => Connected)'
    BY <2>2, <2>4, PostInOrder DEF Lost, Connected
  <2>5. ASSUME queue # <<>>, queue' = Tail(queue), ~Lost', Connected => Connected',
               Opens(Head(queue)) => Connected', Busy' => Connected'
        PROVE  ~Lost' /\ (\A i \in 1..Len(queue) : InOrder(i))' /\ (Busy => Connected)'
    BY <2>2, <2>5, TakeInOrder
  <2>6. CASE Call
    <3>1. UNCHANGED <<adapter, task, modem>>  BY <2>6, CallStores
    <3>2. CASE UNCHANGED queue  BY <2>3, <3>1, <3>2
    <3>3. CASE ~UNCHANGED queue
      <4>1. PICK sent \in Settings : Send(Msg(sent, Current(sent)')) /\ Msg(sent, Current(sent)') \in Messages
        BY <2>6, <3>3, CallStores
      <4>2. adapter /\ queue' = Append(queue, Msg(sent, Current(sent)'))  BY <3>3, <4>1 DEF Send
      <4>3. PICK m \in Messages : m = Msg(sent, Current(sent)')  BY <4>1
      <4>4. m.type \in Settings  BY <4>3, Shapes
      <4>5. m.type \notin {"Ssr", "EngineUp", "Constellation", "Capabilities"}  BY <4>4 DEF Settings
      <4> QED  BY <2>4, <3>1, <4>2, <4>3, <4>5 DEF Busy
    <3> QED  BY <3>2, <3>3
  <2>7. CASE LocInit
    <3>1. CASE adapter  BY <2>3, <2>7, <3>1 DEF LocInit
    <3>2. CASE ~adapter
      <4>1. queue' = Append(<<>>, Msg("Open", 0)) /\ modem' = modem /\ task' = NothingToDo
        BY <2>7, <3>2 DEF LocInit, NothingEarly
      <4>2. Len(queue') = 1 /\ queue'[1] = Msg("Open", 0)  BY <4>1
      <4>3. \A i \in 1..Len(queue') : queue'[i].type = "Open"  BY <4>2, Shapes
      <4> QED  BY <2>2, <4>1, <4>3 DEF Lost, InOrder, Busy
    <3> QED  BY <3>1, <3>2
  <2>8. CASE PostInit
    <3>1. Msg("Init", 0) \in Messages  BY Shapes DEF Types
    <3>2. adapter /\ UNCHANGED <<modem, task>> /\ queue' = Append(queue, Msg("Init", 0))
      BY <2>8 DEF PostInit, NothingEarly
    <3> QED  BY <2>4, <3>1, <3>2, Shapes DEF Busy
  <2>9. CASE AgpsInit
    <3>1. Msg("SetServer", [host |-> supl.host, port |-> supl.port]) \in Messages
      BY Shapes, TypedParts DEF Places
    <3>2. adapter /\ UNCHANGED <<modem, task>>  BY <2>9 DEF AgpsInit
    <3> QED  BY <2>3, <2>4, <2>9, <3>1, <3>2, Shapes DEF Busy, AgpsInit
  <2>10. CASE ProcOpen
    <3>1. ~Busy /\ queue # <<>> /\ queue' = Tail(queue) /\ UNCHANGED task
      BY <2>10 DEF ProcOpen, Proc
    <3>2. /\ modem.connection = "closed" => modem'.connection = "open"
          /\ modem.connection # "closed" => modem'.connection = modem.connection
      BY <1>0, <2>10, ModemSet DEF ProcOpen
    <3>3. Connected'  BY <1>0, <2>2, <3>2 DEF Lost, Connected, Modems
    <3> QED  BY <2>5, <3>1, <3>3 DEF Lost, Connected
  <2>11. CASE ProcReinit
    <3>1. /\ queue # <<>> /\ queue' = Tail(queue) /\ UNCHANGED modem
          /\ Head(queue).type \in {"Init", "EngineUp"}
      BY <2>11 DEF ProcReinit, Proc
    <3>2. ~Opens(Head(queue)) /\ ~Lost' /\ (Connected => Connected')
      BY <2>2, <3>1 DEF Opens, Lost, Connected
    <3>3. Connected'
      BY <2>2, <3>1, <3>2, TakeInOrder
    <3> QED  BY <2>5, <3>1, <3>2, <3>3
  <2>12. CASE ReadSetting
    <3>1. UNCHANGED <<queue, modem>> /\ Busy
      BY <2>12, TypedParts DEF ReadSetting
    <3>2. ~Lost' /\ Connected'  BY <2>2, <3>1 DEF Lost, Connected
    <3>3. (\A i \in 1..Len(queue) : InOrder(i))'
      BY <2>2, <3>1 DEF InOrder, Arrives, Connected
    <3> QED  BY <3>2, <3>3
  <2>13. CASE PostSetting
    <3>1. /\ task.hand[1] \in Messages /\ UNCHANGED modem /\ Busy
          /\ queue' = Append(queue, task.hand[1])
      BY <2>13, HandHolds, TypedParts DEF PostSetting
    <3>2. Connected  BY <2>2, <3>1
    <3>3. adapter
      BY <3>1 DEF NothingEarly, Busy
    <3>4. task.hand[1].type \notin {"Ssr", "EngineUp"}
      BY <2>13, HandHolds DEF PostSetting, SettingTypes
    <3> QED  BY <2>4, <3>1, <3>2, <3>3, <3>4
  <2>14. CASE ProcSetting
    <3>1. /\ ~Busy /\ queue # <<>> /\ queue' = Tail(queue) /\ UNCHANGED task
          /\ Head(queue).type \in Settings
      BY <2>14 DEF ProcSetting, Proc, Settings
    <3>2. modem'.connection = modem.connection
      <4>1. CASE modem.connection # "open"  BY <2>14, <4>1 DEF ProcSetting
      <4>2. CASE modem.connection = "open"  BY <1>0, <2>14, <3>1, <4>2 DEF ProcSetting, Modems, Settings
      <4> QED  BY <4>1, <4>2
    <3>3. ~Opens(Head(queue)) /\ ~Lost' /\ (Connected => Connected') /\ ~Busy'
      BY <2>2, <3>1, <3>2 DEF Opens, Settings, Lost, Connected, Busy
    <3> QED  BY <2>5, <3>1, <3>3
  <2>15. CASE ProcConstellation \/ ProcCapabilities
    <3>1. /\ ~Busy /\ queue # <<>> /\ queue' = Tail(queue) /\ UNCHANGED <<task, modem>>
          /\ Head(queue).type \in {"Constellation", "Capabilities"}
      BY <2>15 DEF ProcConstellation, ProcCapabilities, Proc
    <3>2. ~Opens(Head(queue)) /\ ~Lost' /\ (Connected => Connected') /\ ~Busy'
      BY <2>2, <3>1 DEF Opens, Lost, Connected, Busy
    <3> QED  BY <2>5, <3>1, <3>2
  <2>16. CASE Return \/ Announce
    BY <2>2, <2>16 DEF Return, Announce, Lost
  <2>17. CASE UNCHANGED vars  BY <2>3, <2>17 DEF vars
  <2> QED
    BY <1>2, <2>6, <2>7, <2>8, <2>9, <2>10, <2>11, <2>12, <2>13, <2>14, <2>15, <2>16, <2>17
    DEF Next, Framework, Call, MsgTask, Modem
<1> QED  BY <1>1, <1>2

LEMMA PostInQueue ==
  ASSUME queue \in Seq(Messages), NEW m \in Messages, queue' = Append(queue, m)
  PROVE  /\ \A type : InQueue(type) => InQueue(type)'
         /\ InQueue(m.type)'
         /\ AskedInQueue /\ (m.type = "Capabilities" => InQueue("Constellation")) => AskedInQueue'
<1>1. /\ Len(queue) \in Nat /\ Len(queue') = Len(queue) + 1 /\ queue'[Len(queue) + 1] = m
      /\ \A i \in 1..Len(queue) : queue'[i] = queue[i] /\ i \in 1..Len(queue')
  BY Posted
<1>2. \A type : InQueue(type) => InQueue(type)'  BY <1>1 DEF InQueue
<1>3. \E i \in 1..Len(queue') : queue'[i] = m  BY <1>1
<1>4. InQueue(m.type)'  BY <1>3 DEF InQueue
<1>5. ASSUME AskedInQueue, m.type = "Capabilities" => InQueue("Constellation")
      PROVE  AskedInQueue'
  BY <1>1, <1>5 DEF AskedInQueue, InQueue
<1> QED  BY <1>2, <1>4, <1>5

LEMMA TakeInQueue ==
  ASSUME queue \in Seq(Messages), queue # <<>>, queue' = Tail(queue)
  PROVE  /\ \A type : InQueue(type) => InQueue(type)' \/ Head(queue).type = type
         /\ AskedInQueue => Head(queue).type # "Capabilities"
         /\ AskedInQueue /\ Head(queue).type # "Constellation" => AskedInQueue'
<1>1. /\ Len(queue) \in Nat \ {0} /\ Len(queue') \in Nat /\ Len(queue') = Len(queue) - 1
      /\ Head(queue) = queue[1]
      /\ \A i \in 1..Len(queue') : i + 1 \in 1..Len(queue) /\ queue'[i] = queue[i + 1]
  BY Handled
<1>2. ASSUME NEW i \in 1..Len(queue), i # 1
      PROVE  i - 1 \in 1..Len(queue') /\ queue'[i - 1] = queue[i]
  <2>1. i - 1 \in 1..Len(queue') /\ (i - 1) + 1 = i  BY <1>1, <1>2
  <2> QED  BY <1>1, <2>1
<1>3. \A type : InQueue(type) => InQueue(type)' \/ Head(queue).type = type
  BY <1>1, <1>2 DEF InQueue
<1>4. AskedInQueue => Head(queue).type # "Capabilities"
  BY <1>1 DEF AskedInQueue
<1>5. ASSUME AskedInQueue, Head(queue).type # "Constellation",
             NEW i \in 1..Len(queue'), queue'[i].type = "Capabilities"
      PROVE  \E j \in 1..Len(queue') : j < i /\ queue'[j].type = "Constellation"
  <2>1. i + 1 \in 1..Len(queue) /\ queue[i + 1].type = "Capabilities"  BY <1>1, <1>5
  <2>2. PICK j \in 1..Len(queue) : j < i + 1 /\ queue[j].type = "Constellation"
    BY <1>5, <2>1 DEF AskedInQueue
  <2>3. j # 1  BY <1>1, <1>5, <2>2
  <2>4. j - 1 \in 1..Len(queue') /\ queue'[j - 1] = queue[j]  BY <1>2, <2>3
  <2>5. j - 1 < i  BY <1>1, <2>2
  <2> QED  BY <2>2, <2>4, <2>5
<1> QED  BY <1>3, <1>4, <1>5 DEF AskedInQueue

\* A configuration update keeps what the modem answered, if it copied that.
LEMMA CallMeasures ==
  ASSUME Typed, Call,
         gps_conf.measurements /\ framework.at \in {"updated", "sent"} => framework.tmp.measurements
  PROVE  /\ gps_conf.measurements => gps_conf'.measurements
         /\ gps_conf'.measurements /\ framework'.at \in {"updated", "sent"} => framework'.tmp.measurements
<1>1. CASE SetServer \/ UpdateNetworkAvailability
  <2>1. UNCHANGED gps_conf
    BY <1>1 DEF SetServer, UpdateNetworkAvailability, settings
  <2>2. framework'.at \notin {"updated", "sent"}
    BY <1>1 DEF SetServer, UpdateNetworkAvailability, Begins, Goes, Typed, Idle
  <2> QED  BY <2>1, <2>2
<1>2. CASE ConfigurationUpdate
  <2>1. CASE Begins("updated") /\ gps_conf' = [gps_conf EXCEPT !.ver = calls + 1]
    BY <2>1 DEF Begins, Typed, Versions
  <2>2. CASE Goes("updated", "sent") /\ UNCHANGED settings
    BY <2>2 DEF Goes, Typed, settings
  <2>3. CASE Goes("sent", "idle") /\ gps_conf' = [framework.tmp EXCEPT !.ver = gps_conf.ver]
    <3>1. framework.at = "sent" /\ framework'.at = "idle"  BY <2>3 DEF Goes, Idle
    <3>2. gps_conf'.measurements = framework.tmp.measurements  BY <2>3, TypedParts DEF Versions
    <3> QED  BY <3>1, <3>2
  <2> QED  BY <1>2, <2>1, <2>2, <2>3 DEF ConfigurationUpdate
<1> QED  BY <1>1, <1>2 DEF Call

\* The capabilities are the last that LocEngInit posts.
LEMMA CapabilitiesLast ==
  ASSUME NEW todo \in Todos, todo # <<>>, Head(todo) = "Capabilities"
  PROVE  ~Holds(todo, "Constellation")
  BY DEF Todos, Holds

Alone == adapter /\ ~overlap /\ restarts = 0

LEMMA NextAsked ==
  Basics /\ OpenedFirst /\ (Alone => AskedFirst /\ AnswerIsKept) /\ [Next]_vars
    => (Alone => AskedFirst /\ AnswerIsKept)'
<1> SUFFICES ASSUME Basics, OpenedFirst, Alone => AskedFirst /\ AnswerIsKept, [Next]_vars,
                    adapter', ~overlap', restarts' = 0
             PROVE  AskedFirst' /\ AnswerIsKept'
  BY DEF Alone
<1> USE DEF Basics
<1>0. queue \in Seq(Messages) /\ modem \in Modems /\ restarts \in Nat
  BY SetupAssumption DEF Typed, SetupAssumption
<1>1. CASE LocInit /\ ~adapter
  <2>1. queue' = Append(<<>>, Msg("Open", 0)) /\ task' = NothingToDo /\ told' = {"unknown"}
        /\ framework'.at = "created"
    BY <1>1 DEF LocInit, NothingEarly, Typed
  <2>2. Len(queue') = 1 /\ queue'[1] = Msg("Open", 0)  BY <2>1
  <2>3. \A i \in 1..Len(queue') : queue'[i].type = "Open"  BY <2>2, Shapes
  <2>4. ~InHand("Capabilities")' /\ ~ToDo("Capabilities")'
    BY <2>1 DEF NothingToDo, InHand, ToDo, Holds
  <2> QED  BY <2>1, <2>3, <2>4 DEF AskedFirst, AskedInQueue, AnswerIsKept, CapabilitiesCome
<1>2. CASE adapter /\ Crash
  <2>1. restarts' # 0  BY <1>0, <1>2 DEF Crash
  <2> QED  BY <2>1
<1>3. CASE adapter /\ ~Crash
  <2>0. restarts = 0 /\ ~overlap
    <3>1. CASE Call  BY <3>1, CallStores
    <3>2. CASE ProcConstellation  BY <3>2 DEF ProcConstellation, history
    <3>3. CASE ~Call /\ ~ProcConstellation
      <4>1. restarts' = restarts /\ overlap' = overlap
        <5>1. CASE LocInit \/ PostInit \/ AgpsInit
          BY <5>1 DEF LocInit, PostInit, AgpsInit, history
        <5>2. CASE MsgTask
          BY <3>3, <5>2 DEF MsgTask, ProcOpen, ProcReinit, ReadSetting, PostSetting, ProcSetting,
                            ProcCapabilities, history
        <5>3. CASE Return \/ Announce \/ UNCHANGED vars
          BY <5>3 DEF Return, Announce, history, vars
        <5> QED  BY <1>3, <3>3, <5>1, <5>2, <5>3 DEF Next, Framework, Call, Modem
      <4> QED  BY <4>1
    <3> QED  BY <3>1, <3>2, <3>3
  <2>1. AskedFirst /\ AnswerIsKept  BY <1>3, <2>0 DEF Alone
  <2>2. /\ ~Lost /\ (\A i \in 1..Len(queue) : InOrder(i)) /\ (Busy => Connected)
    BY <2>0 DEF OpenedFirst
  <2>3. /\ gps_conf.measurements /\ framework.at \in {"updated", "sent"} => framework.tmp.measurements
        /\ told # {} /\ (told = {"unknown"} => CapabilitiesCome)
    BY <2>1 DEF AnswerIsKept
  <2>4. CASE Call
    <3>1. UNCHANGED <<task, told>> /\ framework.at # "created"  BY <2>4, CallStores
    <3>2. UNCHANGED queue \/ \E m \in Messages : m.type \in Settings /\ queue' = Append(queue, m)
      BY <1>3, <2>4, CallStores, Shapes DEF Send
    <3>3. /\ gps_conf.measurements => gps_conf'.measurements
          /\ gps_conf'.measurements /\ framework'.at \in {"updated", "sent"} => framework'.tmp.measurements
      BY <2>3, <2>4, CallMeasures
    <3>4. \A type : InQueue(type) => InQueue(type)'
      BY <1>0, <3>2, PostInQueue DEF InQueue
    <3>5. AskedInQueue => AskedInQueue'
      BY <1>0, <3>2, PostInQueue DEF AskedInQueue, Settings
    <3>6. \A type : (InHand(type) <=> InHand(type)') /\ (ToDo(type) <=> ToDo(type)')
      BY <3>1 DEF InHand, ToDo
    <3>7. AskedFirst'  BY <2>1, <3>3, <3>4, <3>5, <3>6 DEF AskedFirst
    <3>8. CapabilitiesCome => CapabilitiesCome'  BY <3>1, <3>4, <3>6 DEF CapabilitiesCome
    <3> QED  BY <2>3, <3>1, <3>3, <3>7, <3>8 DEF AnswerIsKept
  <2>5. CASE LocInit \/ UNCHANGED vars
    <3>1. UNCHANGED <<queue, framework, task, told>> /\ UNCHANGED gps_conf
      BY <1>3, <2>5 DEF LocInit, vars, settings
    <3>2. \A type : (InHand(type) <=> InHand(type)') /\ (ToDo(type) <=> ToDo(type)')
                    /\ (InQueue(type) <=> InQueue(type)')
      BY <3>1 DEF InHand, ToDo, InQueue
    <3>3. AskedInQueue => AskedInQueue'  BY <3>1 DEF AskedInQueue
    <3> QED  BY <2>1, <3>1, <3>2, <3>3 DEF AskedFirst, AnswerIsKept, CapabilitiesCome
  <2>6. CASE PostInit \/ AgpsInit
    <3>1. /\ UNCHANGED <<task, told>> /\ UNCHANGED gps_conf
          /\ framework'.at \in {"updated", "sent"} => framework' = framework
      <4>1. CASE PostInit
        <5>1. framework'.at = "idle"  BY <4>1 DEF PostInit, Idle
        <5> QED  BY <4>1, <5>1 DEF PostInit, settings
      <4>2. CASE AgpsInit  BY <4>2 DEF AgpsInit, settings
      <4> QED  BY <2>6, <4>1, <4>2
    <3>2. Msg("SetServer", [host |-> supl.host, port |-> supl.port]) \in Messages
      BY Shapes, TypedParts DEF Places
    <3>3. Msg("Init", 0) \in Messages  BY Shapes DEF Types
    <3>4. \/ UNCHANGED queue
          \/ \E m \in Messages : m.type \in {"Init", "SetServer"} /\ queue' = Append(queue, m)
      BY <2>6, <3>2, <3>3, Shapes DEF PostInit, AgpsInit
    <3>5. \A type : InQueue(type) => InQueue(type)'
      BY <1>0, <3>4, PostInQueue DEF InQueue
    <3>6. AskedInQueue => AskedInQueue'
      BY <1>0, <3>4, PostInQueue DEF AskedInQueue
    <3>7. \A type : (InHand(type) <=> InHand(type)') /\ (ToDo(type) <=> ToDo(type)')
      BY <3>1 DEF InHand, ToDo
    <3>8. AskedFirst'  BY <2>1, <3>1, <3>5, <3>6, <3>7 DEF AskedFirst
    <3>9. CapabilitiesCome => CapabilitiesCome'
      <4>1. CASE PostInit
        <5>1. queue' = Append(queue, Msg("Init", 0))  BY <4>1 DEF PostInit
        <5>2. InQueue(Msg("Init", 0).type)'  BY <1>0, <3>3, <5>1, PostInQueue
        <5> QED  BY <5>2, Shapes DEF CapabilitiesCome
      <4>2. CASE AgpsInit
        BY <3>5, <3>7, <4>2 DEF AgpsInit, CapabilitiesCome
      <4> QED  BY <2>6, <4>1, <4>2
    <3> QED  BY <2>3, <3>1, <3>8, <3>9 DEF AnswerIsKept
  <2>7. CASE ReadSetting
    <3>1. /\ UNCHANGED <<queue, framework, told>> /\ UNCHANGED gps_conf
          /\ task.todo # <<>> /\ task.hand = <<>> /\ task'.todo = Tail(task.todo)
      BY <2>7 DEF ReadSetting, settings
    <3>2. \A type : InQueue(type) <=> InQueue(type)'  BY <3>1 DEF InQueue
    <3>3. AskedInQueue => AskedInQueue'  BY <3>1 DEF AskedInQueue
    <3>4. \A type : ToDo(type) <=> type = Head(task.todo) \/ ToDo(type)'
      BY <3>1, TypedParts, TodoSplits DEF ToDo
    <3>5. \A type : type # "SetServer" => (InHand(type)' <=> type = Head(task.todo))
      <4>1. CASE Head(task.todo) # "SetServer"
        <5>1. task'.hand = <<Msg(Head(task.todo), Current(Head(task.todo)))>>
          BY <2>7, <4>1 DEF ReadSetting
        <5>2. task'.hand # <<>> /\ task'.hand[1] = Msg(Head(task.todo), Current(Head(task.todo)))
          BY <5>1
        <5> QED  BY <5>2, Shapes DEF InHand
      <4>2. CASE Head(task.todo) = "SetServer"
        <5>1. \/ task'.hand = <<>>
              \/ task'.hand = <<Msg("SetServer", Current("SetServer"))>>
          BY <2>7, <4>2 DEF ReadSetting
        <5>2. task'.hand # <<>> => task'.hand[1] = Msg("SetServer", Current("SetServer"))
          BY <5>1
        <5> QED  BY <4>2, <5>2, Shapes DEF InHand
      <4> QED  BY <4>1, <4>2
    <3>6. ~InHand("Constellation")  BY <3>1 DEF InHand
    <3>7. ~gps_conf.measurements =>
            (InHand("Capabilities")' => InQueue("Constellation")')
      <4>1. Head(task.todo) = "Capabilities" => ~ToDo("Constellation")
        BY <3>1, TypedParts, CapabilitiesLast DEF ToDo
      <4> QED  BY <2>1, <3>2, <3>4, <3>5, <3>6, <4>1 DEF AskedFirst
    <3>8. AskedFirst'
      <4>1. CASE gps_conf.measurements  BY <3>1, <4>1 DEF AskedFirst
      <4>2. CASE ~gps_conf.measurements
        <5>1. /\ AskedInQueue
              /\ ToDo("Capabilities") => ToDo("Constellation") \/ InQueue("Constellation")
          BY <2>1, <3>6, <4>2 DEF AskedFirst
        <5>2. ToDo("Capabilities")' => ToDo("Constellation")' \/ InHand("Constellation")' \/ InQueue("Constellation")'
          BY <3>2, <3>4, <3>5, <5>1
        <5> QED  BY <3>3, <3>7, <4>2, <5>1, <5>2 DEF AskedFirst
      <4> QED  BY <4>1, <4>2
    <3>9. CapabilitiesCome => CapabilitiesCome'
      <4>1. ~InHand("Capabilities")  BY <3>1 DEF InHand
      <4> QED  BY <3>1, <3>2, <3>4, <3>5, <4>1 DEF CapabilitiesCome
    <3> QED  BY <2>3, <3>1, <3>8, <3>9 DEF AnswerIsKept
  <2>8. CASE PostSetting
    <3>1. /\ UNCHANGED <<framework, told>> /\ UNCHANGED gps_conf
          /\ task.hand # <<>> /\ task'.todo = task.todo /\ task'.hand = <<>>
          /\ queue' = Append(queue, task.hand[1])
      BY <2>8, TypedParts DEF PostSetting, settings, Typed
    <3>2. task.hand[1] \in Messages  BY <3>1, HandHolds
    <3>3. \A type : InQueue(type) => InQueue(type)'  BY <1>0, <3>1, <3>2, PostInQueue
    <3>4. \A type : InHand(type) => InQueue(type)'
      BY <1>0, <3>1, <3>2, PostInQueue DEF InHand
    <3>5. \A type : ~InHand(type)'  BY <3>1 DEF InHand
    <3>6. \A type : ToDo(type) <=> ToDo(type)'  BY <3>1 DEF ToDo
    <3>7. AskedInQueue /\ (InHand("Capabilities") => InQueue("Constellation")) => AskedInQueue'
      BY <1>0, <3>1, <3>2, PostInQueue DEF InHand
    <3> QED  BY <2>1, <3>1, <3>3, <3>4, <3>5, <3>6, <3>7 DEF AskedFirst, AnswerIsKept, CapabilitiesCome
  <2>9. CASE ProcOpen \/ ProcReinit \/ ProcSetting
    <3>1. /\ UNCHANGED <<framework, told>> /\ UNCHANGED gps_conf /\ ~Busy
          /\ queue # <<>> /\ queue' = Tail(queue)
          /\ Head(queue).type \notin {"Constellation", "Capabilities"}
          /\ Head(queue).type = "Init" => ProcReinit
      BY <2>9 DEF ProcOpen, ProcReinit, ProcSetting, Proc, settings
    <3>2. \A type : InQueue(type) => InQueue(type)' \/ Head(queue).type = type
      BY <1>0, <3>1, TakeInQueue
    <3>3. AskedInQueue => AskedInQueue'  BY <1>0, <3>1, TakeInQueue
    <3>4. \A type : ~InHand(type) /\ ~ToDo(type)  BY <3>1, NotBusy
    <3>5. CASE ProcReinit
      <4>1. task'.todo = ReinitPosts(Head(queue)) /\ task'.hand = task.hand
        BY <3>5 DEF ProcReinit, Typed
      <4>2. \A type : ~InHand(type)'  BY <3>4, <4>1 DEF InHand
      <4>3. "Capabilities" \in SettingTypes /\ "Constellation" \in SettingTypes  BY DEF SettingTypes
      <4>4. ToDo("Constellation")'  BY <4>1, <4>3, TodoStarts DEF ToDo
      <4>5. Head(queue).type = "Init" => ToDo("Capabilities")'
        BY <4>1, <4>3, TodoStarts DEF ToDo
      <4> QED  BY <2>1, <3>1, <3>2, <3>3, <3>4, <4>2, <4>4, <4>5 DEF AskedFirst, AnswerIsKept, CapabilitiesCome
    <3>6. CASE ProcOpen \/ ProcSetting
      <4>1. UNCHANGED task /\ Head(queue).type # "Init"
        BY <3>6 DEF ProcOpen, ProcSetting, Proc
      <4>2. \A type : ~InHand(type)' /\ ~ToDo(type)'  BY <3>4, <4>1 DEF InHand, ToDo
      <4> QED  BY <2>1, <3>1, <3>2, <3>3, <3>4, <4>1, <4>2 DEF AskedFirst, AnswerIsKept, CapabilitiesCome
    <3> QED  BY <2>9, <3>5, <3>6
  <2>10. CASE ProcConstellation
    <3>1. /\ UNCHANGED <<framework, told, task>> /\ ~Busy
          /\ queue # <<>> /\ queue' = Tail(queue) /\ Head(queue).type = "Constellation"
          /\ UNCHANGED modem
      BY <2>10 DEF ProcConstellation, Proc
    <3>2. Connected
      <4>1. ~Opens(Head(queue)) /\ ~Lost' /\ (Connected => Connected')
        BY <2>2, <3>1 DEF Opens, Lost, Connected
      <4> QED  BY <2>2, <3>1, <4>1, TakeInOrder
    <3>3. gps_conf'.measurements  BY <2>10, <3>2 DEF ProcConstellation, Connected, Typed, Versions
    <3>4. framework.at \notin {"updated", "sent"}
      BY <2>10 DEF ProcConstellation
    <3>5. \A type : InQueue(type) => InQueue(type)' \/ Head(queue).type = type
      BY <1>0, <3>1, TakeInQueue
    <3>6. \A type : (InHand(type) <=> InHand(type)') /\ (ToDo(type) <=> ToDo(type)')
      BY <3>1 DEF InHand, ToDo
    <3>7. CapabilitiesCome => CapabilitiesCome'  BY <3>1, <3>5, <3>6 DEF CapabilitiesCome
    <3> QED  BY <2>3, <3>1, <3>3, <3>4, <3>7 DEF AskedFirst, AnswerIsKept
  <2>11. CASE ProcCapabilities
    <3>1. /\ UNCHANGED <<framework, task>> /\ UNCHANGED gps_conf
          /\ queue # <<>> /\ queue' = Tail(queue) /\ Head(queue).type = "Capabilities"
          /\ told' = IF gps_conf.measurements THEN {"MEASUREMENTS"} ELSE {}
      BY <2>11 DEF ProcCapabilities, Proc, settings
    <3>2. gps_conf.measurements  BY <1>0, <2>1, <3>1, TakeInQueue DEF AskedFirst
    <3>3. told' = {"MEASUREMENTS"}  BY <3>1, <3>2
    <3>4. told' # {} /\ told' # {"unknown"}  BY <3>3
    <3> QED  BY <2>3, <3>1, <3>2, <3>4 DEF AskedFirst, AnswerIsKept
  <2>12. CASE Return \/ Announce
    BY <2>2, <2>12 DEF Return, Announce, Lost
  <2> QED
    BY <1>3, <2>4, <2>5, <2>6, <2>7, <2>8, <2>9, <2>10, <2>11, <2>12
    DEF Next, Framework, Call, MsgTask, Modem
<1>4. CASE ~adapter /\ ~LocInit
  <2>1. ~adapter'
    BY <1>4 DEF Next, Framework, MsgTask, Modem, PostInit, AgpsInit, SetServer,
        UpdateNetworkAvailability, ConfigurationUpdate, Begins, Goes, ProcOpen, ProcReinit,
        ReadSetting, PostSetting, ProcSetting, ProcConstellation, ProcCapabilities, Crash, Return,
        Announce, vars
  <2> QED  BY <2>1
<1> QED  BY <1>1, <1>2, <1>3, <1>4

-----------------------------------------------------------------------------
(* The theorems                                                            *)

LEMMA InitIInv == Init => IInv
<1> SUFFICES ASSUME Init
             PROVE  IInv
  OBVIOUS
<1>1. Typed
  <2>1. 0 \in Calls /\ Default \in Calls \cup {Default}  BY Shapes
  <2>2. queue \in Seq(Messages)
    <3> HIDE DEF Messages
    <3> QED  BY DEF Init
  <2>3. supl \in [host : Calls, port : Calls, set : BOOLEAN]  BY <2>1 DEF Init, Unset
  <2>4. framework \in [at : Stages, value : Calls, tmp : Versions] /\ gps_conf \in Versions
    BY <2>1 DEF Init, Idle, Stages, Versions
  <2>5. task \in [todo : Todos, hand : {<<>>} \cup {<<m>> : m \in SettingMessages}]
    <3> HIDE DEF SettingMessages
    <3> QED  BY DEF Init, NothingToDo, Todos
  <2>6. modem \in Modems  BY DEF Init, Fresh, Modems, Servers
  <2>7. restarts \in 0..MaxRestarts  BY SetupAssumption DEF Init, SetupAssumption
  <2> HIDE DEF Messages, SettingMessages, Todos
  <2> QED  BY <2>1, <2>2, <2>3, <2>4, <2>5, <2>6, <2>7 DEF Init, Typed
<1>2. NothingEarly  BY DEF Init, NothingEarly, Fresh, Idle
<1>3. StoredIsSent  BY DEF Init, StoredIsSent, Idle
<1>4. HandIsCurrent  BY DEF Init, HandIsCurrent, NothingToDo
<1>5. OpenComes  BY DEF Init, OpenComes
<1>6. SettingsCome  BY DEF Init, SettingsCome, Wanted
<1>7. MeasurementsCome
  BY DEF Init, MeasurementsCome, OpenedFirst, Lost, Fresh, Busy
<1> QED  BY <1>1, <1>2, <1>3, <1>4, <1>5, <1>6, <1>7 DEF IInv

LEMMA NextIInv == IInv /\ [Next]_vars => IInv'
<1> SUFFICES ASSUME IInv, [Next]_vars
             PROVE  IInv'
  OBVIOUS
<1>1. Basics /\ SettingsCome /\ OpenedFirst /\ (Alone => AskedFirst /\ AnswerIsKept)
  BY DEF IInv, Basics, MeasurementsCome, Alone
<1>2. Typed'  BY <1>1, NextTypes DEF Basics
<1>3. NothingEarly' /\ StoredIsSent' /\ HandIsCurrent' /\ OpenComes'
  BY <1>1, NextEarly, NextStored, NextHand, NextOpenComes
<1>4. SettingsCome'  BY <1>1, NextComes
<1>5. MeasurementsCome'  BY <1>1, NextOpened, NextAsked DEF MeasurementsCome, Alone
<1> QED  BY <1>2, <1>3, <1>4, <1>5 DEF IInv

LEMMA Invariant == Spec => []IInv
  BY InitIInv, NextIInv, PTL DEF Spec

\* Each variable has its type: in particular the MsgTask holds at most one
\* message that it has read and not yet posted.
THEOREM TypeCorrect == Spec => []TypeOK
<1>1. ASSUME IInv
      PROVE  TypeOK
  <2> USE DEF IInv
  <2>1. \A i \in 1..Len(queue) : queue[i].type \in SettingTypes \cup {"Open", "Ssr", "Init", "EngineUp"}
    <3>1. \A i \in 1..Len(queue) : queue[i] \in Messages
      <4> HIDE DEF Messages
      <4> QED  BY <1>1 DEF Typed
    <3> QED  BY <3>1, MessageParts DEF Types
  <2>2. \A i \in 1..Len(task.todo) : task.todo[i] \in SettingTypes
    <3>1. task.todo \in Todos  BY <1>1, TypedParts
    <3> QED  BY <3>1 DEF Todos, SettingTypes
  <2>3. Len(task.hand) <= 1
    <3>1. task.hand = <<>> \/ \E m \in SettingMessages : task.hand = <<m>>  BY <1>1, TypedParts
    <3>2. CASE task.hand = <<>>  BY <3>2
    <3>3. CASE \E m \in SettingMessages : task.hand = <<m>>
      <4>1. PICK m \in SettingMessages : task.hand = <<m>>  BY <3>3
      <4> QED  BY <4>1
    <3> QED  BY <3>1, <3>2, <3>3
  <2> QED  BY <1>1, <2>1, <2>2, <2>3 DEF Typed, TypeOK, Stages, Modems
<1> QED  BY <1>1, Invariant, PTL

\* Settings and capabilities, which take opposite ways through the MsgTask,
\* arrive however the two threads and modem restarts interleave
\* (loc_eng_reinit, loc_eng_agps_reinit, loc_eng_configuration_update), but for
\* settings made during a reinit, an availability stored without an APN, and
\* the capabilities after a modem restart.
THEOREM SettingsArriveProved == Spec => []SettingsArrive
<1>1. ASSUME IInv
      PROVE  SettingsArrive
  <2> USE DEF IInv
  <2>1. ASSUME Quiet
        PROVE  /\ modem.connection = "open" /\ ~Lost /\ framework.at = "idle"
               /\ \A type : ~InQueue(type) /\ ~ToDo(type) /\ ~InHand(type)
               /\ \A type : ~ReinitComes(type) /\ ~Queued(type)
               /\ adapter
    <3>1. Len(queue) = 0  BY <2>1 DEF Quiet
    <3>2. \A type : ~ToDo(type) /\ ~InHand(type)  BY <1>1, <2>1, NotBusy DEF Quiet
    <3> QED  BY <2>1, <3>1, <3>2 DEF Quiet, Lost, InQueue, ReinitComes, Queued
  <2>2. ASSUME Quiet, ~overlap, NEW type \in Settings,
               type = "SetServer" => agps /\ supl.set, type = "EnableData" => ~silent
        PROVE  InModem(type)
    <3>1. Comes(type)  BY <1>1, <2>1, <2>2 DEF SettingsCome, Wanted
    <3>2. ~Unsent(type)  BY <2>1, <2>2, UnsentIs DEF Settings
    <3> QED  BY <2>1, <2>2, <3>1, <3>2 DEF Comes
  <2>3. LastSettingCounts
    BY <2>2, InModemIs, CurrentIs DEF LastSettingCounts, Settings
  <2>4. ASSUME Quiet, ~overlap, restarts = 0
        PROVE  told = {"MEASUREMENTS"}
    <3>1. AnswerIsKept  BY <1>1, <2>1, <2>4 DEF MeasurementsCome
    <3>2. ~CapabilitiesCome  BY <2>1, <2>4 DEF CapabilitiesCome
    <3> QED  BY <1>1, <3>1, <3>2 DEF AnswerIsKept, Typed
  <2> QED  BY <2>3, <2>4 DEF SettingsArrive, MeasurementsAreTold
<1> QED  BY <1>1, Invariant, PTL
==============================================================================
