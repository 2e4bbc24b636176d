------------------------- MODULE LocEngSessionProofs -------------------------
(***************************************************************************)
(* Theorems about the positioning session, for any surroundings: whatever  *)
(* the framework asks, however starts fail and whenever the modem crashes. *)
(***************************************************************************)
EXTENDS LocEngSession, TLAPS

-----------------------------------------------------------------------------
(* The inductive invariant                                                 *)

Types == {"PositionMode", "StartFix", "StopFix", "DelAidData", "Report", "Status", "RequestNi",
          "Down", "Ssr", "Up"}
Arguments == {"", "failure", "final", "filtered", "intermediate", "ENGINE_ON", "ENGINE_OFF",
              "SESSION_BEGIN", "SESSION_END", "periodic", "single", "eph", "alm"}
Messages == [type : Types, arg : Arguments]
Criteria == [mode : {"INVALID", "VALID"}, recurrence : {"periodic", "single"}]
Modems == [state : {"up", "down", "back"}, session : {"periodic", "single", "none"},
           engine : BOOLEAN, begun : BOOLEAN]

\* What the surroundings allow: only fixes and flags that the framework asks
\* for, and no news of a crash of a modem that does not crash.
Fits(m) ==
  /\ m.type = "PositionMode" => m.arg \in surroundings.recurrences
  /\ m.type = "DelAidData" => m.arg \in surroundings.flags
  /\ m.type \in {"Down", "Ssr", "Up"} => surroundings.restarts

\* A modem runs a fix that is asked for, and none while it is down.
ModemFits(m) ==
  /\ m \in Modems
  /\ m.session \in surroundings.recurrences \cup {"none"}
  /\ m.state # "up" => surroundings.restarts
  /\ m.state = "down" => m.session = "none"

Engine ==
  /\ TypeOK
  /\ mFixCriteria.recurrence \in surroundings.recurrences
  /\ \A i \in 1..Len(queue) : Fits(queue[i])
  /\ ModemFits(modem)

\* The handle is opened anew before the engine is said to be up: a session that
\* this ends is one of a modem that is not announced yet.
UpComesAfterSsr(q) ==
  \A i \in 1..Len(q) :
    q[i].type = "Ssr" => \E j \in 1..Len(q) : j > i /\ q[j].type = "Up"
ReopenedFirst == modem.state = "up" => UpComesAfterSsr(queue)

\* Starts succeed as soon as the modem is there.
Steady == Tracks /\ surroundings.results = {"SUCCESS"}

NoStop(q) == \A i \in 1..Len(q) : q[i].type # "StopFix"
StartComes(q) ==
  \E i \in 1..Len(q) :
    /\ q[i].type = "StartFix"
    /\ \A j \in 1..Len(q) : j > i => q[j].type # "StopFix"

\* What the framework asked for last is what the adapter takes for its session
\* or will when it has handled the queue, and the adapter's session is in the
\* modem or will be started when the engine is said to be up.
WantedIsKept == asked = "on" => StartComes(queue) \/ (mNavigating /\ NoStop(queue))
RunsOrRestarts ==
  mNavigating /\ modem.session = "none" => modem.state # "up" \/ Queued("Up")

IInv ==
  /\ Engine
  /\ ReopenedFirst
  /\ StatusIsFollowed
  /\ ModemSessionKnown
  /\ Steady => WantedIsKept /\ RunsOrRestarts

-----------------------------------------------------------------------------
(* What posting and handling a message do to the queue                     *)

\* A message posted comes last, and the others stay where they are.
LEMMA Posted ==
  ASSUME NEW q \in Seq(Messages), NEW m \in Messages
  PROVE  /\ Append(q, m) \in Seq(Messages)
         /\ Len(Append(q, m)) = Len(q) + 1
         /\ Append(q, m)[Len(q) + 1] = m
         /\ \A i \in 1..Len(q) : Append(q, m)[i] = q[i]
<1> HIDE DEF Messages
<1> QED  OBVIOUS

\* With the first message handled the others move up.
LEMMA Handled ==
  ASSUME NEW q \in Seq(Messages), q # <<>>
  PROVE  /\ Tail(q) \in Seq(Messages)
         /\ Len(q) \in Nat \ {0}
         /\ Len(Tail(q)) = Len(q) - 1 /\ Len(Tail(q)) \in Nat
         /\ Head(q) = q[1] /\ Head(q) \in Messages
         /\ \A i \in 1..Len(Tail(q)) : i + 1 \in 1..Len(q) /\ Tail(q)[i] = q[i + 1]
<1> HIDE DEF Messages
<1> QED  OBVIOUS

LEMMA MessageAt ==
  ASSUME NEW q \in Seq(Messages), NEW i \in 1..Len(q)
  PROVE  q[i] \in Messages /\ q[i].type \in Types /\ q[i].arg \in Arguments
<1>1. q[i] \in Messages
  <2> HIDE DEF Messages
  <2> QED  OBVIOUS
<1> QED  BY <1>1 DEF Messages

\* TypeOK in parts.
LEMMA Typed ==
  TypeOK <=>
    /\ surroundings \in Surroundings
    /\ queue \in Seq(Messages)
    /\ mNavigating \in BOOLEAN
    /\ mFixCriteria \in Criteria
    /\ engine_status \in {"NONE", "ENGINE_ON", "ENGINE_OFF"}
    /\ fix_session_status \in {"NONE", "SESSION_BEGIN", "SESSION_END"}
    /\ mute_session_state \in {"NONE", "WAIT", "IN_SESSION"}
    /\ aiding_data_for_deletion \subseteq {"eph", "alm"}
    /\ modem \in Modems
    /\ asked \in {"on", "off"}
  BY DEF TypeOK, Messages, Types, Arguments, Criteria, Modems

LEMMA Surrounded ==
  ASSUME surroundings \in Surroundings
  PROVE  /\ surroundings.recurrences \subseteq {"periodic", "single"}
         /\ surroundings.flags \subseteq {"eph", "alm"}
         /\ surroundings.results \subseteq {"SUCCESS", "FAILURE", "PHONE_OFFLINE"}
         /\ surroundings.restarts \in BOOLEAN /\ surroundings.cleansUp \in BOOLEAN
  BY SessionAssumption DEF SessionAssumption

\* Posting a message that fits; nothing else of what Engine is about changes.
LEMMA PostFits ==
  ASSUME Engine, UNCHANGED surroundings, NEW m \in Messages, Fits(m), queue' = Append(queue, m)
  PROVE  queue' \in Seq(Messages) /\ (\A i \in 1..Len(queue) : Fits(queue[i]))'
<1>1. queue \in Seq(Messages) /\ \A i \in 1..Len(queue) : Fits(queue[i])
  BY Typed DEF Engine
<1>2. /\ queue' \in Seq(Messages) /\ Len(queue') = Len(queue) + 1 /\ queue'[Len(queue) + 1] = m
      /\ \A i \in 1..Len(queue) : queue'[i] = queue[i]
  BY <1>1, Posted
<1>3. Len(queue) \in Nat
  BY <1>1
<1>4. ASSUME NEW i \in 1..Len(queue') PROVE i = Len(queue) + 1 \/ i \in 1..Len(queue)
  BY <1>2, <1>3
<1>5. ASSUME NEW i \in 1..Len(queue') PROVE Fits(queue'[i])
  BY <1>1, <1>2, <1>4
<1>6. ASSUME NEW i \in 1..Len(queue') PROVE Fits(queue[i])'
  BY <1>5 DEF Fits
<1> QED  BY <1>2, <1>6

\* Handling one.
LEMMA ProcFits ==
  ASSUME Engine, UNCHANGED surroundings, queue # <<>>, queue' = Tail(queue)
  PROVE  /\ queue' \in Seq(Messages) /\ (\A i \in 1..Len(queue) : Fits(queue[i]))'
         /\ Fits(Head(queue)) /\ Head(queue) \in Messages
<1>1. queue \in Seq(Messages) /\ \A i \in 1..Len(queue) : Fits(queue[i])
  BY Typed DEF Engine
<1>2. /\ queue' \in Seq(Messages) /\ Head(queue) = queue[1] /\ Head(queue) \in Messages
      /\ Len(queue) \in Nat \ {0}
      /\ \A i \in 1..Len(queue') : i + 1 \in 1..Len(queue) /\ queue'[i] = queue[i + 1]
  BY <1>1, Handled
<1>3. ASSUME NEW i \in 1..Len(queue') PROVE Fits(queue[i])'
  <2>1. Fits(queue'[i])
    BY <1>1, <1>2
  <2> QED  BY <2>1 DEF Fits
<1>4. 1 \in 1..Len(queue)
  BY <1>2
<1> QED  BY <1>1, <1>2, <1>3, <1>4

-----------------------------------------------------------------------------
(* Types and what the surroundings allow                                   *)

LEMMA EnginePosts ==
  ASSUME Engine, UNCHANGED <<surroundings, locEng>>, asked' \in {"on", "off"}, ModemFits(modem'),
         NEW m \in Messages, Fits(m), queue' = Append(queue, m)
  PROVE  Engine'
<1>1. queue' \in Seq(Messages) /\ (\A i \in 1..Len(queue) : Fits(queue[i]))'
  BY PostFits
<1>2. TypeOK'
  BY <1>1, Typed DEF Engine, ModemFits, locEng, TypeOK, Messages, Types, Arguments, Modems
<1> QED  BY <1>1, <1>2 DEF Engine, ModemFits, locEng

\* Everything but the queue has its type after a step.
KeepsTypes ==
  /\ mNavigating' \in BOOLEAN
  /\ mFixCriteria' \in Criteria /\ mFixCriteria'.recurrence \in surroundings.recurrences
  /\ engine_status' \in {"NONE", "ENGINE_ON", "ENGINE_OFF"}
  /\ fix_session_status' \in {"NONE", "SESSION_BEGIN", "SESSION_END"}
  /\ mute_session_state' \in {"NONE", "WAIT", "IN_SESSION"}
  /\ aiding_data_for_deletion' \subseteq {"eph", "alm"}
  /\ ModemFits(modem')
  /\ asked' \in {"on", "off"}

LEMMA EngineKept ==
  ASSUME Engine, UNCHANGED surroundings, KeepsTypes,
         queue' \in Seq(Messages), (\A i \in 1..Len(queue) : Fits(queue[i]))'
  PROVE  Engine'
<1>1. TypeOK'
  BY Typed DEF Engine, KeepsTypes, ModemFits, TypeOK, Messages, Types, Arguments, Criteria, Modems
<1> QED  BY <1>1 DEF Engine, KeepsTypes, ModemFits

\* What becomes of the modem when one of its fields changes.
LEMMA SessionSet ==
  ASSUME NEW m \in Modems, NEW r \in {"periodic", "single", "none"}, NEW n, n = [m EXCEPT !.session = r]
  PROVE  n \in Modems /\ n.session = r /\ n.state = m.state
  BY DEF Modems

LEMMA StateSet ==
  ASSUME NEW m \in Modems, NEW s \in {"up", "down", "back"}, NEW n, n = [m EXCEPT !.state = s]
  PROVE  n \in Modems /\ n.state = s /\ n.session = m.session
  BY DEF Modems

LEMMA ReportSet ==
  ASSUME NEW m \in Modems, NEW b \in BOOLEAN, NEW n,
         n = [m EXCEPT !.engine = b] \/ n = [m EXCEPT !.begun = b]
  PROVE  n \in Modems /\ n.state = m.state /\ n.session = m.session
<1>1. CASE n = [m EXCEPT !.engine = b]
  BY <1>1 DEF Modems
<1>2. CASE n = [m EXCEPT !.begun = b]
  BY <1>2 DEF Modems
<1> QED  BY <1>1, <1>2

LEMMA NoSession == ModemOff \in Modems /\ ModemOff.session = "none"
  BY DEF ModemOff, Modems

LEMMA EngineHolds ==
  ASSUME Engine
  PROVE  /\ surroundings \in Surroundings /\ queue \in Seq(Messages)
         /\ mNavigating \in BOOLEAN
         /\ mFixCriteria \in Criteria /\ mFixCriteria.recurrence \in surroundings.recurrences
         /\ mFixCriteria.recurrence \in {"periodic", "single"}
         /\ modem \in Modems /\ ModemFits(modem)
         /\ modem.engine \in BOOLEAN /\ modem.begun \in BOOLEAN
         /\ asked \in {"on", "off"}
<1>1. modem \in Modems
  BY Typed DEF Engine
<1>2. modem.engine \in BOOLEAN /\ modem.begun \in BOOLEAN
  BY <1>1 DEF Modems
<1>3. mFixCriteria \in Criteria
  BY Typed DEF Engine
<1>4. mFixCriteria.recurrence \in {"periodic", "single"}
  BY <1>3 DEF Criteria
<1> QED  BY <1>1, <1>2, <1>3, <1>4, Typed DEF Engine, ModemFits

\* The framework only posts.
LEMMA FrameworkPosts ==
  ASSUME Engine, Framework
  PROVE  /\ UNCHANGED <<locEng, modem>> /\ asked' \in {"on", "off"}
         /\ \/ queue' = queue
            \/ \E m \in Messages :
                 /\ Fits(m) /\ queue' = Append(queue, m)
                 /\ m.type \in {"PositionMode", "StartFix", "StopFix", "DelAidData"}
<1>1. /\ surroundings.recurrences \subseteq {"periodic", "single"}
      /\ surroundings.flags \subseteq {"eph", "alm"}
  BY EngineHolds, Surrounded
<1>2. CASE SetPositionMode
  <2>1. PICK r \in surroundings.recurrences : Post(Msg("PositionMode", r))
    BY <1>2 DEF SetPositionMode
  <2>2. Msg("PositionMode", r) \in Messages /\ Fits(Msg("PositionMode", r))
    BY <1>1 DEF Msg, Messages, Types, Arguments, Fits
  <2> QED  BY <1>2, <2>1, <2>2, EngineHolds DEF SetPositionMode, Post, Msg
<1>3. CASE StartFix
  <2>1. Msg("StartFix", "") \in Messages /\ Fits(Msg("StartFix", ""))
    BY DEF Msg, Messages, Types, Arguments, Fits
  <2> QED  BY <1>3, <2>1 DEF StartFix, Post, Msg
<1>4. CASE StopFix
  <2>1. Msg("StopFix", "") \in Messages /\ Fits(Msg("StopFix", ""))
    BY DEF Msg, Messages, Types, Arguments, Fits
  <2> QED  BY <1>4, <2>1 DEF StopFix, Post, Msg
<1>5. CASE Cleanup
  <2>1. Msg("StopFix", "") \in Messages /\ Fits(Msg("StopFix", ""))
    BY DEF Msg, Messages, Types, Arguments, Fits
  <2> QED  BY <1>5, <2>1 DEF Cleanup, Post, Msg
<1>6. CASE DeleteAidingData
  <2>1. PICK f \in surroundings.flags : Post(Msg("DelAidData", f))
    BY <1>6 DEF DeleteAidingData
  <2>2. Msg("DelAidData", f) \in Messages /\ Fits(Msg("DelAidData", f))
    BY <1>1 DEF Msg, Messages, Types, Arguments, Fits
  <2> QED  BY <1>6, <2>1, <2>2, EngineHolds DEF DeleteAidingData, Post, Msg
<1> QED  BY <1>2, <1>3, <1>4, <1>5, <1>6 DEF Framework

\* The modem posts a message with each change: its sessions end by themselves
\* only if they are single, and it is not up until it has said so.
LEMMA ModemPosts ==
  ASSUME Engine, Modem
  PROVE  /\ UNCHANGED <<locEng, asked>> /\ ModemFits(modem')
         /\ \E m \in Messages :
              /\ Fits(m) /\ queue' = Append(queue, m)
              /\ m.type \in {"Report", "Status", "RequestNi", "Down", "Ssr", "Up"}
              /\ \/ /\ modem'.state = modem.state /\ m.type # "Ssr"
                    /\ \/ modem'.session = modem.session
                       \/ modem.session = "single" /\ modem'.session = "none"
                 \/ modem'.state # "up" /\ modem'.session \in {modem.session, "none"}
                 \/ modem'.state = "up" /\ m.type = "Up" /\ modem'.session = modem.session
<1>0. modem \in Modems /\ ModemFits(modem) /\ modem.engine \in BOOLEAN /\ modem.begun \in BOOLEAN
  BY EngineHolds
<1>1. ASSUME NEW kind \in {"failure", "final", "filtered", "intermediate"}, Report(kind)
      PROVE  /\ UNCHANGED <<locEng, asked>> /\ ModemFits(modem')
             /\ Msg("Report", kind) \in Messages /\ Fits(Msg("Report", kind))
             /\ queue' = Append(queue, Msg("Report", kind))
             /\ modem'.state = modem.state
             /\ \/ modem'.session = modem.session
                \/ modem.session = "single" /\ modem'.session = "none"
  <2>1. Msg("Report", kind) \in Messages /\ Fits(Msg("Report", kind))
    BY DEF Msg, Messages, Types, Arguments, Fits
  <2>2. modem' = modem \/ (modem' = [modem EXCEPT !.session = "none"] /\ modem.session = "single")
    BY <1>1 DEF Report
  <2>3. /\ modem' \in Modems /\ modem'.state = modem.state
        /\ modem'.session = modem.session \/ (modem.session = "single" /\ modem'.session = "none")
    <3>1. CASE modem' = modem
      BY <1>0, <3>1
    <3>2. CASE modem' = [modem EXCEPT !.session = "none"] /\ modem.session = "single"
      BY <1>0, <3>2, SessionSet
    <3> QED  BY <2>2, <3>1, <3>2
  <2>4. ModemFits(modem')
    BY <1>0, <2>3 DEF ModemFits
  <2> QED  BY <1>1, <2>1, <2>3, <2>4 DEF Report, Post
<1>2. ASSUME EngineTurns \/ SessionTurns
      PROVE  /\ UNCHANGED <<locEng, asked>> /\ ModemFits(modem')
             /\ modem'.state = modem.state /\ modem'.session = modem.session
             /\ \E status \in {"ENGINE_ON", "ENGINE_OFF", "SESSION_BEGIN", "SESSION_END"} :
                  queue' = Append(queue, Msg("Status", status))
  <2>1. \E b \in BOOLEAN : modem' = [modem EXCEPT !.engine = b] \/ modem' = [modem EXCEPT !.begun = b]
    BY <1>0, <1>2 DEF EngineTurns, SessionTurns
  <2>2. modem' \in Modems /\ modem'.state = modem.state /\ modem'.session = modem.session
    BY <1>0, <2>1, ReportSet
  <2>3. ModemFits(modem')
    BY <1>0, <2>2 DEF ModemFits
  <2> QED  BY <1>2, <2>2, <2>3 DEF EngineTurns, SessionTurns, Post
<1>3. ASSUME NEW status \in {"ENGINE_ON", "ENGINE_OFF", "SESSION_BEGIN", "SESSION_END"}
      PROVE  /\ Msg("Status", status) \in Messages /\ Fits(Msg("Status", status))
             /\ Msg("Status", status).type = "Status"
  BY DEF Msg, Messages, Types, Arguments, Fits
<1>4. CASE NetworkOverride
  <2>1. Msg("RequestNi", "") \in Messages /\ Fits(Msg("RequestNi", ""))
    BY DEF Msg, Messages, Types, Arguments, Fits
  <2> QED  BY <1>0, <1>4, <2>1 DEF NetworkOverride, Post, Msg
<1>5. CASE Crash
  <2>1. surroundings.restarts
    BY <1>5 DEF Crash
  <2>2. Msg("Down", "") \in Messages /\ Fits(Msg("Down", ""))
    BY <2>1 DEF Msg, Messages, Types, Arguments, Fits
  <2>3. ModemFits(modem') /\ modem'.state = "down" /\ modem'.session = "none"
    BY <1>5, <2>1, NoSession, StateSet DEF Crash, ModemFits
  <2> QED  BY <1>5, <2>2, <2>3 DEF Crash, Post, Msg
<1>6. CASE Return
  <2>1. surroundings.restarts
    BY <1>0, <1>6 DEF Return, ModemFits
  <2>2. Msg("Ssr", "") \in Messages /\ Fits(Msg("Ssr", ""))
    BY <2>1 DEF Msg, Messages, Types, Arguments, Fits
  <2>3. ModemFits(modem') /\ modem'.state = "back" /\ modem'.session = modem.session
    BY <1>0, <1>6, <2>1, StateSet DEF Return, ModemFits
  <2> QED  BY <1>6, <2>2, <2>3 DEF Return, Post, Msg
<1>7. CASE Announce
  <2>1. surroundings.restarts
    BY <1>0, <1>7 DEF Announce, ModemFits
  <2>2. Msg("Up", "") \in Messages /\ Fits(Msg("Up", ""))
    BY <2>1 DEF Msg, Messages, Types, Arguments, Fits
  <2>3. ModemFits(modem') /\ modem'.state = "up" /\ modem'.session = modem.session
    BY <1>0, <1>7, <2>1, StateSet DEF Announce, ModemFits
  <2> QED  BY <1>7, <2>2, <2>3 DEF Announce, Post, Msg
<1>8. CASE \E kind \in {"failure", "final", "filtered", "intermediate"} : Report(kind)
  <2>1. PICK kind \in {"failure", "final", "filtered", "intermediate"} : Report(kind)
    BY <1>8
  <2> QED  BY <1>1, <2>1 DEF Msg
<1>9. CASE EngineTurns \/ SessionTurns
  BY <1>2, <1>3, <1>9
<1> QED  BY <1>4, <1>5, <1>6, <1>7, <1>8, <1>9 DEF Modem

-----------------------------------------------------------------------------
(* The handlers                                                            *)

\* The queue of all handlers but HandleEngineUp.
Takes == queue # <<>> /\ queue' = Tail(queue)

\* What a handler leaves of the session and the modem: a session is started in
\* a modem that is there, and stopped with the adapter's.
LEMMA StartTypes ==
  ASSUME Engine, StartHandler, UNCHANGED surroundings
  PROVE  /\ KeepsTypes /\ modem'.state = modem.state
         /\ modem'.session = modem.session \/ (modem'.session # "none" /\ mNavigating')
         /\ mNavigating => mNavigating' /\ modem' = modem
         /\ modem.session # "none" => mNavigating'
         /\ surroundings.results = {"SUCCESS"} => mNavigating'
         /\ ~mNavigating /\ mNavigating' /\ surroundings.results = {"SUCCESS"} =>
              modem'.session # "none" \/ modem.state = "down"
<1>0. /\ modem \in Modems /\ ModemFits(modem) /\ mFixCriteria.recurrence \in {"periodic", "single"}
      /\ mNavigating \in BOOLEAN /\ mFixCriteria \in Criteria
      /\ mFixCriteria.recurrence \in surroundings.recurrences
  BY EngineHolds
<1>1. /\ engine_status' \in {"NONE", "ENGINE_ON", "ENGINE_OFF"}
      /\ fix_session_status' \in {"NONE", "SESSION_BEGIN", "SESSION_END"}
      /\ mute_session_state' \in {"NONE", "WAIT", "IN_SESSION"}
      /\ aiding_data_for_deletion' \subseteq {"eph", "alm"} /\ asked' \in {"on", "off"}
  BY Typed DEF StartHandler, Engine
<1>2. mFixCriteria' = mFixCriteria
  BY DEF StartHandler, SetInSession
<1>3. CASE mNavigating
  <2>1. UNCHANGED <<mNavigating, modem>>
    BY <1>3 DEF StartHandler
  <2> QED  BY <1>0, <1>1, <1>2, <1>3, <2>1 DEF KeepsTypes
<1>4. CASE ~mNavigating
  <2>1. PICK ret \in StartFixReturns :
          /\ modem' = IF ret = "SUCCESS" THEN [modem EXCEPT !.session = mFixCriteria.recurrence]
                      ELSE modem
          /\ IF ret \in {"SUCCESS", "ENGINE_DOWN", "PHONE_OFFLINE"}
             THEN SetInSession(TRUE) ELSE UNCHANGED <<mNavigating, mFixCriteria>>
    BY <1>4 DEF StartHandler
  <2>2. /\ ret = "ENGINE_DOWN" => modem.state = "down"
        /\ modem.state = "down" => ret = "ENGINE_DOWN"
        /\ modem.session # "none" => ret \in {"SUCCESS", "ENGINE_DOWN"}
        /\ surroundings.results = {"SUCCESS"} => ret \in {"SUCCESS", "ENGINE_DOWN"}
    BY EngineHolds, Surrounded DEF StartFixReturns
  <2>3. /\ modem' \in Modems /\ modem'.state = modem.state
        /\ ret = "SUCCESS" => modem'.session = mFixCriteria.recurrence
        /\ ret # "SUCCESS" => modem' = modem
    <3>1. CASE ret = "SUCCESS"
      BY <1>0, <2>1, <3>1, SessionSet
    <3>2. CASE ret # "SUCCESS"
      BY <1>0, <2>1, <3>2
    <3> QED  BY <3>1, <3>2
  <2>4. ModemFits(modem')
    BY <1>0, <2>2, <2>3 DEF ModemFits
  <2>5. mNavigating' \in BOOLEAN /\ (mNavigating' <=> ret \in {"SUCCESS", "ENGINE_DOWN", "PHONE_OFFLINE"})
    <3>1. CASE ret \in {"SUCCESS", "ENGINE_DOWN", "PHONE_OFFLINE"}
      <4>1. mNavigating' = TRUE
        BY <2>1, <3>1 DEF SetInSession
      <4> QED  BY <3>1, <4>1
    <3>2. CASE ret \notin {"SUCCESS", "ENGINE_DOWN", "PHONE_OFFLINE"}
      <4>1. mNavigating' = mNavigating
        BY <2>1, <3>2
      <4> QED  BY <1>0, <1>4, <3>2, <4>1
    <3> QED  BY <3>1, <3>2
  <2>6. KeepsTypes
    BY <1>0, <1>1, <1>2, <2>4, <2>5 DEF KeepsTypes
  <2> QED  BY <1>0, <1>4, <2>2, <2>3, <2>5, <2>6
<1> QED  BY <1>3, <1>4, <1>0

\* The other handlers that change the session: only a single fix ends by itself.
LEMMA StopTypes ==
  ASSUME Engine, StopHandler, UNCHANGED surroundings
  PROVE  /\ KeepsTypes /\ modem'.state = modem.state /\ ~mNavigating'
         /\ modem'.session = modem.session \/ modem'.session = "none"
         /\ modem'.session # "none" => ~mNavigating
<1>0. /\ modem \in Modems /\ ModemFits(modem) /\ mFixCriteria.recurrence \in surroundings.recurrences
      /\ mNavigating \in BOOLEAN /\ mFixCriteria \in Criteria
  BY EngineHolds
<1>1. /\ engine_status' \in {"NONE", "ENGINE_ON", "ENGINE_OFF"}
      /\ fix_session_status' \in {"NONE", "SESSION_BEGIN", "SESSION_END"}
      /\ mute_session_state' \in {"NONE", "WAIT", "IN_SESSION"}
      /\ aiding_data_for_deletion' \subseteq {"eph", "alm"} /\ asked' \in {"on", "off"}
  BY Typed DEF StopHandler, Engine
<1>2. CASE mNavigating
  <2>1. /\ modem' = [modem EXCEPT !.session = "none"] /\ mNavigating' = FALSE
        /\ mFixCriteria' = [mFixCriteria EXCEPT !.mode = "INVALID"]
    BY <1>2 DEF StopHandler, SetInSession
  <2>2. modem' \in Modems /\ modem'.state = modem.state /\ modem'.session = "none"
    BY <1>0, <2>1, SessionSet
  <2>3. mFixCriteria' \in Criteria /\ mFixCriteria'.recurrence = mFixCriteria.recurrence
    BY <1>0, <2>1 DEF Criteria
  <2>4. ModemFits(modem')
    BY <1>0, <2>2 DEF ModemFits
  <2> QED  BY <1>0, <1>1, <2>1, <2>2, <2>3, <2>4 DEF KeepsTypes
<1>3. CASE ~mNavigating
  BY <1>0, <1>1, <1>3 DEF StopHandler, KeepsTypes
<1> QED  BY <1>2, <1>3

LEMMA ReportTypes ==
  ASSUME Engine, ProcReport, UNCHANGED surroundings
  PROVE  /\ KeepsTypes /\ modem'.state = modem.state
         /\ mFixCriteria.recurrence # "single" => UNCHANGED <<modem, mNavigating>>
<1>0. /\ modem \in Modems /\ ModemFits(modem) /\ mFixCriteria.recurrence \in surroundings.recurrences
      /\ mNavigating \in BOOLEAN /\ mFixCriteria \in Criteria
  BY EngineHolds
<1>1. /\ engine_status' \in {"NONE", "ENGINE_ON", "ENGINE_OFF"}
      /\ fix_session_status' \in {"NONE", "SESSION_BEGIN", "SESSION_END"}
      /\ mute_session_state' \in {"NONE", "WAIT", "IN_SESSION"}
      /\ aiding_data_for_deletion' \subseteq {"eph", "alm"} /\ asked' \in {"on", "off"}
  BY Typed DEF ProcReport, Engine
<1>2. CASE UNCHANGED <<modem, mNavigating, mFixCriteria>>
  BY <1>0, <1>1, <1>2 DEF KeepsTypes
<1>3. CASE /\ modem' = [modem EXCEPT !.session = "none"] \/ modem' = modem
           /\ SetInSession(FALSE)
           /\ mFixCriteria.recurrence = "single"
  <2>1. mNavigating' = FALSE /\ mFixCriteria' = [mFixCriteria EXCEPT !.mode = "INVALID"]
    BY <1>3 DEF SetInSession
  <2>2. mFixCriteria' \in Criteria /\ mFixCriteria'.recurrence = mFixCriteria.recurrence
    BY <1>0, <2>1 DEF Criteria
  <2>3. /\ modem' \in Modems /\ modem'.state = modem.state
        /\ modem'.session = "none" \/ modem'.session = modem.session
    <3>1. CASE modem' = modem
      BY <1>0, <3>1
    <3>2. CASE modem' = [modem EXCEPT !.session = "none"]
      BY <1>0, <3>2, SessionSet
    <3> QED  BY <1>3, <3>1, <3>2
  <2>4. ModemFits(modem')
    BY <1>0, <2>3 DEF ModemFits
  <2> QED  BY <1>0, <1>1, <1>3, <2>1, <2>2, <2>3, <2>4 DEF KeepsTypes
<1> QED  BY <1>2, <1>3 DEF ProcReport

LEMMA ReopenTypes ==
  ASSUME Engine, Reopen, UNCHANGED surroundings
  PROVE  KeepsTypes /\ modem'.state = modem.state /\ modem'.session = "none"
<1>0. /\ modem \in Modems /\ ModemFits(modem) /\ mFixCriteria.recurrence \in surroundings.recurrences
      /\ mNavigating \in BOOLEAN /\ mFixCriteria \in Criteria
  BY EngineHolds
<1>1. /\ engine_status' \in {"NONE", "ENGINE_ON", "ENGINE_OFF"}
      /\ fix_session_status' \in {"NONE", "SESSION_BEGIN", "SESSION_END"}
      /\ mute_session_state' \in {"NONE", "WAIT", "IN_SESSION"}
      /\ aiding_data_for_deletion' \subseteq {"eph", "alm"} /\ asked' \in {"on", "off"}
  BY Typed DEF Reopen, Engine, locEng
<1>2. modem' \in Modems /\ modem'.state = modem.state /\ modem'.session = "none"
  BY <1>0, SessionSet DEF Reopen
<1>3. ModemFits(modem')
  BY <1>0, <1>2 DEF ModemFits
<1> QED  BY <1>0, <1>1, <1>2, <1>3 DEF KeepsTypes, Reopen, locEng

LEMMA UpTypes ==
  ASSUME Engine, HandleEngineUp, UNCHANGED surroundings
  PROVE  KeepsTypes /\ modem' = modem /\ asked' = asked /\ ~mNavigating'
<1>0. /\ modem \in Modems /\ ModemFits(modem) /\ mFixCriteria.recurrence \in surroundings.recurrences
      /\ mNavigating \in BOOLEAN /\ mFixCriteria \in Criteria
  BY EngineHolds
<1>1. /\ engine_status' \in {"NONE", "ENGINE_ON", "ENGINE_OFF"}
      /\ fix_session_status' \in {"NONE", "SESSION_BEGIN", "SESSION_END"}
      /\ mute_session_state' \in {"NONE", "WAIT", "IN_SESSION"}
      /\ aiding_data_for_deletion' \subseteq {"eph", "alm"} /\ asked' \in {"on", "off"}
      /\ modem' = modem /\ asked' = asked
  BY Typed DEF HandleEngineUp, Engine
<1>2. CASE mNavigating
  <2>1. mNavigating' = FALSE /\ mFixCriteria' = [mFixCriteria EXCEPT !.mode = "INVALID"]
    BY <1>2 DEF HandleEngineUp, SetInSession
  <2>2. mFixCriteria' \in Criteria /\ mFixCriteria'.recurrence = mFixCriteria.recurrence
    BY <1>0, <2>1 DEF Criteria
  <2> QED  BY <1>0, <1>1, <2>1, <2>2 DEF KeepsTypes
<1>3. CASE ~mNavigating
  BY <1>0, <1>1, <1>3 DEF HandleEngineUp, KeepsTypes
<1> QED  BY <1>2, <1>3

\* Those that leave the session alone.
LEMMA OtherTypes ==
  ASSUME Engine, UNCHANGED surroundings,
         ProcPositionMode \/ ProcStatus \/ ProcDelAidData \/ MuteOneSession \/ HandleEngineDown
  PROVE  KeepsTypes /\ UNCHANGED <<modem, mNavigating, asked>>
<1>0. /\ modem \in Modems /\ ModemFits(modem) /\ mFixCriteria.recurrence \in surroundings.recurrences
      /\ mNavigating \in BOOLEAN /\ mFixCriteria \in Criteria /\ asked \in {"on", "off"}
      /\ engine_status \in {"NONE", "ENGINE_ON", "ENGINE_OFF"}
      /\ fix_session_status \in {"NONE", "SESSION_BEGIN", "SESSION_END"}
      /\ mute_session_state \in {"NONE", "WAIT", "IN_SESSION"}
      /\ aiding_data_for_deletion \subseteq {"eph", "alm"}
  BY EngineHolds, Typed DEF Engine
<1>1. /\ surroundings.recurrences \subseteq {"periodic", "single"}
      /\ surroundings.flags \subseteq {"eph", "alm"}
  BY EngineHolds, Surrounded
<1>2. ASSUME queue # <<>>, queue' = Tail(queue) PROVE Fits(Head(queue))
  BY <1>2, ProcFits
<1>3. CASE ProcPositionMode
  <2>1. Head(queue).arg \in surroundings.recurrences
    BY <1>2, <1>3 DEF ProcPositionMode, Proc, Fits
  <2>2. mFixCriteria' \in Criteria /\ mFixCriteria'.recurrence \in surroundings.recurrences
    BY <1>1, <1>3, <2>1 DEF ProcPositionMode, Criteria
  <2> QED  BY <1>0, <1>3, <2>2 DEF ProcPositionMode, KeepsTypes
<1>4. CASE ProcStatus
  <2>1. aiding_data_for_deletion' \subseteq {"eph", "alm"}
    BY <1>0, <1>4 DEF ProcStatus, UpdateAidingData
  <2> QED  BY <1>0, <1>4, <2>1 DEF ProcStatus, ReportStatus, MuteAfter, EngineStatusAfter, KeepsTypes
<1>5. CASE ProcDelAidData
  <2>1. Head(queue).arg \in surroundings.flags
    BY <1>2, <1>5 DEF ProcDelAidData, Proc, Fits
  <2>2. aiding_data_for_deletion' \subseteq {"eph", "alm"}
    BY <1>1, <1>5, <2>1 DEF ProcDelAidData, UpdateAidingData
  <2> QED  BY <1>0, <1>5, <2>2 DEF ProcDelAidData, KeepsTypes
<1>6. CASE MuteOneSession
  BY <1>0, <1>6 DEF MuteOneSession, KeepsTypes
<1>7. CASE HandleEngineDown
  BY <1>0, <1>7 DEF HandleEngineDown, ReportStatus, MuteAfter, EngineStatusAfter, KeepsTypes
<1> QED  BY <1>3, <1>4, <1>5, <1>6, <1>7

\* What is posted at the end of the queue.
LEMMA EngineTakes ==
  ASSUME Engine, MsgTask, UNCHANGED surroundings
  PROVE  /\ queue # <<>> /\ KeepsTypes
         /\ \/ queue' = Tail(queue)
            \/ /\ HandleEngineUp /\ mNavigating
               /\ queue' = Append(Tail(queue), Msg("StartFix", ""))
<1>1. CASE ProcPositionMode \/ ProcStatus \/ ProcDelAidData \/ MuteOneSession \/ HandleEngineDown
  <2>1. queue # <<>> /\ queue' = Tail(queue)
    BY <1>1 DEF ProcPositionMode, ProcStatus, ProcDelAidData, MuteOneSession, HandleEngineDown, Proc
  <2> QED  BY <1>1, <2>1, OtherTypes
<1>2. CASE StartHandler
  BY <1>2, StartTypes DEF StartHandler, Proc
<1>3. CASE StopHandler
  BY <1>3, StopTypes DEF StopHandler, Proc
<1>4. CASE ProcReport
  BY <1>4, ReportTypes DEF ProcReport, Proc
<1>5. CASE Reopen
  BY <1>5, ReopenTypes DEF Reopen, Proc
<1>6. CASE HandleEngineUp
  BY <1>6, UpTypes DEF HandleEngineUp, Proc
<1> QED  BY <1>1, <1>2, <1>3, <1>4, <1>5, <1>6 DEF MsgTask

LEMMA StartFits == Msg("StartFix", "") \in Messages /\ Fits(Msg("StartFix", ""))
  BY DEF Msg, Messages, Types, Arguments, Fits

LEMMA EngineStutters ==
  ASSUME Engine, UNCHANGED <<surroundings, queue, locEng, modem>>, asked' \in {"on", "off"}
  PROVE  Engine'
<1>1. KeepsTypes
  <2>1. ModemFits(modem') /\ mFixCriteria.recurrence \in surroundings.recurrences
    BY EngineHolds
  <2> QED  BY <2>1, Typed DEF Engine, KeepsTypes, locEng
<1>2. queue' \in Seq(Messages) /\ (\A i \in 1..Len(queue) : Fits(queue[i]))'
  <2>1. \A i \in 1..Len(queue') : Fits(queue[i])'
    BY DEF Engine, Fits
  <2> QED  BY <2>1, EngineHolds
<1> QED  BY <1>1, <1>2, EngineKept

LEMMA NextEngine ==
  ASSUME Engine, [Next]_vars
  PROVE  Engine'
<1>1. CASE UNCHANGED vars
  BY <1>1, EngineStutters, EngineHolds DEF vars
<1>2. CASE Framework /\ UNCHANGED surroundings
  <2>1. UNCHANGED <<locEng, modem, surroundings>> /\ asked' \in {"on", "off"} /\ ModemFits(modem')
    BY <1>2, FrameworkPosts, EngineHolds
  <2>2. CASE queue' = queue
    BY <2>1, <2>2, EngineStutters
  <2>3. CASE \E m \in Messages : Fits(m) /\ queue' = Append(queue, m)
    BY <2>1, <2>3, EnginePosts
  <2> QED  BY <1>2, <2>2, <2>3, FrameworkPosts
<1>3. CASE Modem /\ UNCHANGED surroundings
  <2>1. UNCHANGED <<locEng, surroundings>> /\ asked' \in {"on", "off"} /\ ModemFits(modem')
    BY <1>3, ModemPosts, EngineHolds
  <2>2. \E m \in Messages : Fits(m) /\ queue' = Append(queue, m)
    BY <1>3, ModemPosts
  <2> QED  BY <2>1, <2>2, EnginePosts
<1>4. CASE MsgTask /\ UNCHANGED surroundings
  <2>1. queue # <<>> /\ KeepsTypes
    BY <1>4, EngineTakes
  <2>2. CASE queue' = Tail(queue)
    BY <1>4, <2>1, <2>2, ProcFits, EngineKept
  <2>3. CASE HandleEngineUp /\ queue' = Append(Tail(queue), Msg("StartFix", ""))
    <3> DEFINE q == Tail(queue)
               m == Msg("StartFix", "")
    <3>1. /\ q \in Seq(Messages) /\ m \in Messages
          /\ \A i \in 1..Len(q) : i + 1 \in 1..Len(queue) /\ q[i] = queue[i + 1]
      BY <2>1, Handled, StartFits, EngineHolds
    <3>2. /\ queue' \in Seq(Messages) /\ Len(queue') = Len(q) + 1 /\ queue'[Len(q) + 1] = m
          /\ \A i \in 1..Len(q) : queue'[i] = q[i]
      BY <2>3, <3>1, Posted
    <3>3. Len(q) \in Nat
      BY <2>1, Handled, EngineHolds
    <3> HIDE DEF q, m
    <3>4. ASSUME NEW i \in 1..Len(queue') PROVE i = Len(q) + 1 \/ i \in 1..Len(q)
      BY <3>2, <3>3
    <3>5. ASSUME NEW i \in 1..Len(queue') PROVE Fits(queue'[i])
      BY <3>1, <3>2, <3>4, StartFits DEF Engine, m
    <3>6. ASSUME NEW i \in 1..Len(queue') PROVE Fits(queue[i])'
      BY <1>4, <3>5 DEF Fits
    <3> QED  BY <1>4, <2>1, <3>2, <3>6, EngineKept
  <2> QED  BY <1>4, <2>2, <2>3, EngineTakes
<1> QED  BY <1>1, <1>2, <1>3, <1>4 DEF Next

-----------------------------------------------------------------------------
(* The queue: what is behind what                                          *)

Has(q, type) == \E i \in 1..Len(q) : q[i].type = type

LEMMA PostKeeps ==
  ASSUME NEW q \in Seq(Messages), NEW m \in Messages, NEW p, p = Append(q, m)
  PROVE  /\ \A type : Has(q, type) => Has(p, type)
         /\ Has(p, m.type)
         /\ NoStop(q) /\ m.type # "StopFix" => NoStop(p)
         /\ StartComes(q) /\ m.type # "StopFix" => StartComes(p)
         /\ m.type = "StartFix" => StartComes(p)
         /\ UpComesAfterSsr(q) /\ m.type # "Ssr" => UpComesAfterSsr(p)
         /\ m.type = "Up" => UpComesAfterSsr(p)
<1>1. /\ Len(p) = Len(q) + 1 /\ p[Len(q) + 1] = m /\ Len(q) \in Nat
      /\ \A i \in 1..Len(q) : p[i] = q[i]
  BY Posted
<1>2. 1..Len(p) = 1..Len(q) \cup {Len(q) + 1} /\ \A i \in 1..Len(q) : Len(q) + 1 > i
  BY <1>1
<1>3. \A type : Has(q, type) => Has(p, type)
  BY <1>1, <1>2 DEF Has
<1>4. Has(p, m.type)
  BY <1>1, <1>2 DEF Has
<1>5. NoStop(q) /\ m.type # "StopFix" => NoStop(p)
  BY <1>1, <1>2 DEF NoStop
<1>6. StartComes(q) /\ m.type # "StopFix" => StartComes(p)
  BY <1>1, <1>2 DEF StartComes
<1>7. m.type = "StartFix" => StartComes(p)
  BY <1>1, <1>2 DEF StartComes
<1>8. UpComesAfterSsr(q) /\ m.type # "Ssr" => UpComesAfterSsr(p)
  BY <1>1, <1>2 DEF UpComesAfterSsr
<1>9. m.type = "Up" => UpComesAfterSsr(p)
  BY <1>1, <1>2 DEF UpComesAfterSsr
<1> QED  BY <1>3, <1>4, <1>5, <1>6, <1>7, <1>8, <1>9

LEMMA TakeKeeps ==
  ASSUME NEW q \in Seq(Messages), q # <<>>, NEW p, p = Tail(q)
  PROVE  /\ \A type : Has(q, type) /\ Head(q).type # type => Has(p, type)
         /\ NoStop(q) => NoStop(p)
         /\ StartComes(q) => StartComes(p) \/ (Head(q).type = "StartFix" /\ NoStop(p))
         /\ UpComesAfterSsr(q) => UpComesAfterSsr(p)
         /\ UpComesAfterSsr(q) /\ Head(q).type = "Ssr" => Has(p, "Up")
<1>1. /\ Len(q) \in Nat \ {0} /\ Len(p) = Len(q) - 1 /\ Head(q) = q[1]
      /\ \A i \in 1..Len(p) : i + 1 \in 1..Len(q) /\ p[i] = q[i + 1]
  BY Handled
<1>2. ASSUME NEW i \in 1..Len(q), i # 1 PROVE i - 1 \in 1..Len(p) /\ p[i - 1] = q[i]
  <2>1. i - 1 \in 1..Len(p) /\ (i - 1) + 1 = i
    BY <1>1, <1>2
  <2> QED  BY <1>1, <2>1
<1>3. \A type : Has(q, type) /\ Head(q).type # type => Has(p, type)
  <2> SUFFICES ASSUME NEW type, Has(q, type), Head(q).type # type PROVE Has(p, type)
    OBVIOUS
  <2>1. PICK i \in 1..Len(q) : q[i].type = type
    BY DEF Has
  <2>2. i # 1
    BY <1>1, <2>1
  <2> QED  BY <1>2, <2>1, <2>2 DEF Has
<1>4. NoStop(q) => NoStop(p)
  BY <1>1 DEF NoStop
<1>5. ASSUME StartComes(q) PROVE StartComes(p) \/ (Head(q).type = "StartFix" /\ NoStop(p))
  <2>1. PICK i \in 1..Len(q) : /\ q[i].type = "StartFix"
                               /\ \A j \in 1..Len(q) : j > i => q[j].type # "StopFix"
    BY <1>5 DEF StartComes
  <2>2. CASE i = 1
    BY <1>1, <2>1, <2>2 DEF NoStop
  <2>3. CASE i # 1
    <3>1. i - 1 \in 1..Len(p) /\ p[i - 1].type = "StartFix"
      BY <1>2, <2>1, <2>3
    <3>2. ASSUME NEW j \in 1..Len(p), j > i - 1 PROVE p[j].type # "StopFix"
      BY <1>1, <2>1, <3>2
    <3> QED  BY <3>1, <3>2 DEF StartComes
  <2> QED  BY <2>2, <2>3
<1>6. ASSUME UpComesAfterSsr(q) PROVE UpComesAfterSsr(p)
  <2> SUFFICES ASSUME NEW i \in 1..Len(p), p[i].type = "Ssr"
               PROVE  \E j \in 1..Len(p) : j > i /\ p[j].type = "Up"
    BY DEF UpComesAfterSsr
  <2>1. PICK j \in 1..Len(q) : j > i + 1 /\ q[j].type = "Up"
    BY <1>1, <1>6 DEF UpComesAfterSsr
  <2>2. j - 1 \in 1..Len(p) /\ p[j - 1].type = "Up" /\ j - 1 > i
    BY <1>2, <2>1
  <2> QED  BY <2>2
<1>7. ASSUME UpComesAfterSsr(q), Head(q).type = "Ssr" PROVE Has(p, "Up")
  <2>1. PICK j \in 1..Len(q) : j > 1 /\ q[j].type = "Up"
    BY <1>1, <1>7 DEF UpComesAfterSsr
  <2> QED  BY <1>2, <2>1 DEF Has
<1> QED  BY <1>3, <1>4, <1>5, <1>6, <1>7

-----------------------------------------------------------------------------
(* The parts of the invariant                                              *)

\* What waits for a report of the modem ends with it.
LEMMA NextStatus ==
  ASSUME Engine, StatusIsFollowed, [Next]_vars
  PROVE  StatusIsFollowed'
<1> USE DEF StatusIsFollowed, MutesOneSession, WaitsOnlyWhileOn
<1>0. /\ mute_session_state \in {"NONE", "WAIT", "IN_SESSION"}
      /\ engine_status \in {"NONE", "ENGINE_ON", "ENGINE_OFF"}
      /\ fix_session_status \in {"NONE", "SESSION_BEGIN", "SESSION_END"}
      /\ surroundings' = surroundings
  BY Typed DEF Engine, Next, vars
<1>1. ASSUME UNCHANGED <<engine_status, fix_session_status, mute_session_state,
                         aiding_data_for_deletion>>
      PROVE  StatusIsFollowed'
  BY <1>0, <1>1
<1>2. CASE UNCHANGED vars
  BY <1>1, <1>2 DEF vars, locEng
<1>3. CASE Framework
  BY <1>1, <1>3, FrameworkPosts DEF locEng
<1>4. CASE Modem
  BY <1>1, <1>4, ModemPosts DEF locEng
<1>5. CASE ProcPositionMode \/ StartHandler \/ StopHandler \/ ProcReport \/ Reopen \/ HandleEngineUp
  BY <1>1, <1>5 DEF ProcPositionMode, StartHandler, StopHandler, ProcReport, Reopen,
     HandleEngineUp, locEng
<1>6. CASE ProcStatus
  BY <1>0, <1>6 DEF ProcStatus, ReportStatus, MuteAfter, EngineStatusAfter, UpdateAidingData
<1>7. CASE ProcDelAidData
  BY <1>0, <1>7 DEF ProcDelAidData, UpdateAidingData
<1>8. CASE MuteOneSession
  BY <1>0, <1>8 DEF MuteOneSession
<1>9. CASE HandleEngineDown
  <2>1. surroundings.restarts
    <3>1. queue # <<>> /\ Head(queue).type = "Down" /\ queue' = Tail(queue)
      BY <1>9 DEF HandleEngineDown, Proc
    <3> QED  BY <1>0, <3>1, ProcFits DEF Fits
  <2> QED  BY <1>0, <1>9, <2>1 DEF HandleEngineDown, ReportStatus, MuteAfter, EngineStatusAfter
<1> QED  BY <1>2, <1>3, <1>4, <1>5, <1>6, <1>7, <1>8, <1>9 DEF Next, MsgTask

\* Neither what the framework posts nor what a handler does brings the modem up.
LEMMA NextReopened ==
  ASSUME Engine, ReopenedFirst, [Next]_vars
  PROVE  ReopenedFirst'
<1>0. queue \in Seq(Messages) /\ surroundings' = surroundings
  BY EngineHolds DEF Next, vars
<1> SUFFICES ASSUME modem'.state = "up" PROVE UpComesAfterSsr(queue')
  BY DEF ReopenedFirst, UpComesAfterSsr
<1>1. ASSUME modem.state = "up" PROVE UpComesAfterSsr(queue)
  BY <1>1 DEF ReopenedFirst
<1>2. CASE UNCHANGED vars
  BY <1>1, <1>2 DEF vars
<1>3. CASE Framework
  <2>1. modem.state = "up"
    BY <1>3, FrameworkPosts
  <2>2. CASE queue' = queue
    BY <1>1, <2>1, <2>2
  <2>3. CASE \E m \in Messages : queue' = Append(queue, m) /\ m.type # "Ssr"
    BY <1>0, <1>1, <2>1, <2>3, PostKeeps
  <2> QED  BY <1>3, <2>2, <2>3, FrameworkPosts
<1>4. CASE Modem
  <2>1. PICK m \in Messages :
          /\ queue' = Append(queue, m)
          /\ (modem'.state = modem.state /\ m.type # "Ssr") \/ m.type = "Up"
    BY <1>4, ModemPosts
  <2> QED  BY <1>0, <1>1, <2>1, PostKeeps
<1>5. CASE MsgTask
  <2>1. modem.state = "up"
    BY <1>0, <1>5, StartTypes, StopTypes, ReportTypes, ReopenTypes, UpTypes, OtherTypes DEF MsgTask
  <2>2. queue # <<>>
    BY <1>0, <1>5, EngineTakes
  <2>3. Tail(queue) \in Seq(Messages) /\ UpComesAfterSsr(Tail(queue))
    BY <1>0, <1>1, <2>1, <2>2, TakeKeeps, Handled
  <2>4. CASE queue' = Tail(queue)
    BY <2>3, <2>4
  <2>5. CASE queue' = Append(Tail(queue), Msg("StartFix", ""))
    <3>1. Msg("StartFix", "").type # "Ssr"
      BY DEF Msg
    <3> QED  BY <2>3, <2>5, <3>1, StartFits, PostKeeps
  <2> QED  BY <1>0, <1>5, <2>4, <2>5, EngineTakes
<1> QED  BY <1>2, <1>3, <1>4, <1>5 DEF Next

\* A framework that tracks has periodic fixes only.
LEMMA TracksPeriodic ==
  ASSUME Engine, Tracks
  PROVE  mFixCriteria.recurrence = "periodic"
  BY DEF Engine, Tracks

LEMMA QueuedHas == \A type : Queued(type) <=> Has(queue, type)
  BY DEF Queued, Has

LEMMA QueuedHasNext == \A type : Has(queue', type) => Queued(type)'
  BY DEF Queued, Has

\* No session of the modem is one that the adapter forgot.
LEMMA NextKnown ==
  ASSUME Engine, ModemSessionKnown, ReopenedFirst, [Next]_vars
  PROVE  ModemSessionKnown'
<1>0. queue \in Seq(Messages) /\ surroundings' = surroundings
  BY EngineHolds DEF Next, vars
<1> SUFFICES ASSUME Tracks, modem'.session # "none", ~mNavigating' PROVE Has(queue', "StartFix")
  BY <1>0, QueuedHasNext DEF ModemSessionKnown, Tracks
<1>1. ASSUME modem.session # "none", ~mNavigating PROVE Has(queue, "StartFix")
  BY <1>1, QueuedHas DEF ModemSessionKnown
<1>2. CASE UNCHANGED vars
  BY <1>1, <1>2 DEF vars, locEng
<1>3. CASE Framework
  <2>1. modem.session # "none" /\ ~mNavigating
    BY <1>3, FrameworkPosts DEF locEng
  <2> QED  BY <1>0, <1>1, <1>3, <2>1, FrameworkPosts, PostKeeps
<1>4. CASE Modem
  <2>1. PICK m \in Messages :
          queue' = Append(queue, m) /\ modem'.session \in {modem.session, "none"} /\ mNavigating' = mNavigating
    BY <1>4, ModemPosts DEF locEng
  <2> QED  BY <1>0, <1>1, <2>1, PostKeeps
<1>5. CASE StartHandler
  <2>1. modem.session # "none" => mNavigating'
    BY <1>0, <1>5, StartTypes
  <2>2. modem'.session = modem.session \/ mNavigating'
    BY <1>0, <1>5, StartTypes
  <2> QED  BY <2>1, <2>2
<1>6. CASE HandleEngineUp
  <2>1. modem' = modem /\ Tail(queue) \in Seq(Messages) /\ queue # <<>>
    BY <1>0, <1>6, UpTypes, EngineTakes, Handled DEF MsgTask
  <2>2. CASE mNavigating
    <3>1. queue' = Append(Tail(queue), Msg("StartFix", "")) /\ Msg("StartFix", "").type = "StartFix"
      BY <1>6, <2>2 DEF HandleEngineUp, Msg
    <3>2. Has(queue', Msg("StartFix", "").type)
      BY <2>1, <3>1, StartFits, PostKeeps
    <3> QED  BY <3>1, <3>2
  <2>3. CASE ~mNavigating
    <3>1. queue' = Tail(queue) /\ Head(queue).type # "StartFix"
      BY <1>6, <2>3 DEF HandleEngineUp, Proc
    <3> QED  BY <1>0, <1>1, <2>1, <2>3, <3>1, TakeKeeps
  <2> QED  BY <2>2, <2>3
<1>7. ASSUME queue # <<>>, queue' = Tail(queue), Head(queue).type # "StartFix",
             modem.session # "none", ~mNavigating
      PROVE  Has(queue', "StartFix")
  BY <1>0, <1>1, <1>7, TakeKeeps
<1>8. CASE StopHandler
  <2>1. modem.session # "none" /\ ~mNavigating
    BY <1>0, <1>8, StopTypes
  <2> QED  BY <1>7, <1>8, <2>1 DEF StopHandler, Proc
<1>9. CASE ProcReport
  <2>1. modem.session # "none" /\ ~mNavigating
    BY <1>0, <1>9, ReportTypes, TracksPeriodic
  <2> QED  BY <1>7, <1>9, <2>1 DEF ProcReport, Proc
<1>10. CASE Reopen
  BY <1>0, <1>10, ReopenTypes
<1>11. CASE ProcPositionMode \/ ProcStatus \/ ProcDelAidData \/ MuteOneSession \/ HandleEngineDown
  <2>1. modem.session # "none" /\ ~mNavigating
    BY <1>0, <1>11, OtherTypes
  <2> QED  BY <1>7, <1>11, <2>1 DEF ProcPositionMode, ProcStatus, ProcDelAidData, MuteOneSession,
           HandleEngineDown, Proc
<1> QED  BY <1>2, <1>3, <1>4, <1>5, <1>6, <1>8, <1>9, <1>10, <1>11 DEF Next, MsgTask

\* What the framework wants of the session is kept.
LEMMA NextWanted ==
  ASSUME Engine, Steady, WantedIsKept, [Next]_vars
  PROVE  WantedIsKept'
<1>0. queue \in Seq(Messages) /\ surroundings' = surroundings
  BY EngineHolds DEF Next, vars
<1> SUFFICES ASSUME asked' = "on" PROVE StartComes(queue') \/ (mNavigating' /\ NoStop(queue'))
  BY DEF WantedIsKept, StartComes, NoStop
<1>1. ASSUME asked = "on" PROVE StartComes(queue) \/ (mNavigating /\ NoStop(queue))
  BY <1>1 DEF WantedIsKept
<1>2. CASE UNCHANGED vars
  BY <1>1, <1>2 DEF vars, locEng
<1>3. ASSUME NEW m \in Messages, queue' = Append(queue, m), m.type # "StopFix",
             asked' = asked, mNavigating' = mNavigating
      PROVE  StartComes(queue') \/ (mNavigating' /\ NoStop(queue'))
  BY <1>0, <1>1, <1>3, PostKeeps
<1>4. CASE Framework
  <2>1. PICK m \in Messages : /\ queue' = Append(queue, m)
                              /\ m.type # "StopFix"
                              /\ asked' = asked \/ m.type = "StartFix"
    <3>1. CASE SetPositionMode \/ DeleteAidingData
      <4>1. asked' = asked
        BY <3>1 DEF SetPositionMode, DeleteAidingData
      <4>2. \E type, arg : queue' = Append(queue, Msg(type, arg)) /\ Msg(type, arg).type # "StopFix"
                           /\ Msg(type, arg) \in Messages
        <5>1. /\ surroundings.recurrences \subseteq {"periodic", "single"}
              /\ surroundings.flags \subseteq {"eph", "alm"}
          BY EngineHolds, Surrounded
        <5>2. CASE SetPositionMode
          <6>1. PICK r \in surroundings.recurrences : Post(Msg("PositionMode", r))
            BY <5>2 DEF SetPositionMode
          <6>2. Msg("PositionMode", r) \in Messages /\ Msg("PositionMode", r).type # "StopFix"
            BY <5>1 DEF Msg, Messages, Types, Arguments
          <6> QED  BY <6>1, <6>2 DEF Post
        <5>3. CASE DeleteAidingData
          <6>1. PICK f \in surroundings.flags : Post(Msg("DelAidData", f))
            BY <5>3 DEF DeleteAidingData
          <6>2. Msg("DelAidData", f) \in Messages /\ Msg("DelAidData", f).type # "StopFix"
            BY <5>1 DEF Msg, Messages, Types, Arguments
          <6> QED  BY <6>1, <6>2 DEF Post
        <5> QED  BY <3>1, <5>2, <5>3
      <4> QED  BY <4>1, <4>2
    <3>2. CASE StartFix
      <4>1. queue' = Append(queue, Msg("StartFix", "")) /\ Msg("StartFix", "").type = "StartFix"
        BY <3>2 DEF StartFix, Post, Msg
      <4> QED  BY <4>1, StartFits
    <3>3. CASE StopFix \/ Cleanup
      BY <3>3 DEF StopFix, Cleanup
    <3> QED  BY <1>4, <3>1, <3>2, <3>3 DEF Framework
  <2>2. mNavigating' = mNavigating
    BY <1>4, FrameworkPosts DEF locEng
  <2>3. CASE asked' = asked
    BY <1>3, <2>1, <2>2, <2>3
  <2>4. CASE m.type = "StartFix"
    BY <1>0, <2>1, <2>4, PostKeeps
  <2> QED  BY <2>1, <2>3, <2>4
<1>5. CASE Modem
  BY <1>3, <1>5, ModemPosts DEF locEng
<1>6. CASE MsgTask
  <2>1. queue # <<>> /\ Tail(queue) \in Seq(Messages)
    BY <1>0, <1>6, EngineTakes, Handled
  <2>2. asked = "on"
    BY <1>6 DEF MsgTask, ProcPositionMode, StartHandler, StopHandler, ProcReport, ProcStatus,
       ProcDelAidData, MuteOneSession, HandleEngineDown, Reopen, HandleEngineUp
  <2>3. \/ StartComes(Tail(queue))
        \/ Head(queue).type = "StartFix" /\ NoStop(Tail(queue))
        \/ mNavigating /\ NoStop(queue) /\ NoStop(Tail(queue))
    BY <1>0, <1>1, <2>1, <2>2, TakeKeeps
  <2>4. CASE StartHandler
    <3>1. mNavigating' /\ queue' = Tail(queue)
      BY <1>0, <2>4, StartTypes DEF StartHandler, Steady
    <3> QED  BY <2>3, <3>1
  <2>5. CASE StopHandler
    <3>1. queue' = Tail(queue) /\ Head(queue).type = "StopFix"
      BY <2>5 DEF StopHandler, Proc
    <3>2. ~NoStop(queue)
      BY <1>0, <2>1, <3>1, Handled DEF NoStop
    <3> QED  BY <2>3, <3>1, <3>2
  <2>6. CASE HandleEngineUp
    <3>1. Head(queue).type = "Up"
      BY <2>6 DEF HandleEngineUp, Proc
    <3>2. CASE mNavigating
      <4>1. queue' = Append(Tail(queue), Msg("StartFix", "")) /\ Msg("StartFix", "").type = "StartFix"
        BY <2>6, <3>2 DEF HandleEngineUp, Msg
      <4> QED  BY <2>1, <4>1, StartFits, PostKeeps
    <3>3. CASE ~mNavigating
      <4>1. queue' = Tail(queue)
        BY <2>6, <3>3 DEF HandleEngineUp
      <4> QED  BY <2>3, <3>1, <3>3, <4>1
    <3> QED  BY <3>2, <3>3
  <2>7. CASE ProcReport
    <3>1. queue' = Tail(queue) /\ Head(queue).type = "Report" /\ mNavigating' = mNavigating
      BY <1>0, <2>7, ReportTypes, TracksPeriodic DEF ProcReport, Proc, Steady
    <3> QED  BY <2>3, <3>1
  <2>8. CASE Reopen
    <3>1. queue' = Tail(queue) /\ Head(queue).type = "Ssr" /\ mNavigating' = mNavigating
      BY <2>8 DEF Reopen, Proc, locEng
    <3> QED  BY <2>3, <3>1
  <2>9. CASE ProcPositionMode \/ ProcStatus \/ ProcDelAidData \/ MuteOneSession \/ HandleEngineDown
    <3>1. queue' = Tail(queue) /\ Head(queue).type # "StartFix" /\ mNavigating' = mNavigating
      BY <2>9 DEF ProcPositionMode, ProcStatus, ProcDelAidData, MuteOneSession, HandleEngineDown, Proc
    <3> QED  BY <2>3, <3>1
  <2> QED  BY <1>6, <2>4, <2>5, <2>6, <2>7, <2>8, <2>9 DEF MsgTask
<1> QED  BY <1>2, <1>4, <1>5, <1>6 DEF Next

\* A session that the modem lost is started when the engine is said to be up.
LEMMA NextRuns ==
  ASSUME Engine, Steady, ReopenedFirst, RunsOrRestarts, [Next]_vars
  PROVE  RunsOrRestarts'
<1>0. queue \in Seq(Messages) /\ surroundings' = surroundings /\ ModemFits(modem)
  BY EngineHolds DEF Next, vars
<1> SUFFICES ASSUME mNavigating', modem'.session = "none", modem'.state = "up"
             PROVE  Has(queue', "Up")
  BY QueuedHasNext DEF RunsOrRestarts
<1>1. ASSUME mNavigating, modem.session = "none", modem.state = "up" PROVE Has(queue, "Up")
  BY <1>1, QueuedHas DEF RunsOrRestarts
<1>2. mFixCriteria.recurrence = "periodic"
  BY TracksPeriodic DEF Steady
<1>3. CASE UNCHANGED vars
  BY <1>1, <1>3 DEF vars, locEng
<1>4. CASE Framework
  <2>1. mNavigating /\ modem' = modem
    BY <1>4, FrameworkPosts DEF locEng
  <2> QED  BY <1>0, <1>1, <1>4, <2>1, FrameworkPosts, PostKeeps
<1>5. CASE Modem
  <2>1. mNavigating' = mNavigating
    BY <1>5, ModemPosts DEF locEng
  <2>2. PICK m \in Messages :
          /\ queue' = Append(queue, m)
          /\ \/ /\ modem'.state = modem.state
                /\ \/ modem'.session = modem.session
                   \/ modem.session = "single"
             \/ m.type = "Up"
    BY <1>5, ModemPosts
  <2>3. modem.session # "single"
    BY <1>0 DEF Steady, Tracks, ModemFits
  <2> QED  BY <1>0, <1>1, <2>1, <2>2, <2>3, PostKeeps
<1>6. ASSUME queue # <<>>, queue' = Tail(queue), Head(queue).type # "Up",
             mNavigating, modem.session = "none", modem.state = "up"
      PROVE  Has(queue', "Up")
  BY <1>0, <1>1, <1>6, TakeKeeps
<1>7. CASE StartHandler
  <2>1. mNavigating /\ modem' = modem
    BY <1>0, <1>7, StartTypes DEF Steady
  <2> QED  BY <1>6, <1>7, <2>1 DEF StartHandler, Proc
<1>8. CASE StopHandler
  BY <1>0, <1>8, StopTypes
<1>9. CASE ProcReport
  <2>1. UNCHANGED <<modem, mNavigating>>
    BY <1>0, <1>2, <1>9, ReportTypes
  <2> QED  BY <1>6, <1>9, <2>1 DEF ProcReport, Proc
<1>10. CASE Reopen
  <2>1. modem.state = "up" /\ Head(queue).type = "Ssr" /\ queue # <<>> /\ queue' = Tail(queue)
    BY <1>0, <1>10, ReopenTypes DEF Reopen, Proc
  <2> QED  BY <1>0, <2>1, TakeKeeps DEF ReopenedFirst
<1>11. CASE HandleEngineUp
  BY <1>0, <1>11, UpTypes
<1>12. CASE ProcPositionMode \/ ProcStatus \/ ProcDelAidData \/ MuteOneSession \/ HandleEngineDown
  <2>1. UNCHANGED <<modem, mNavigating>>
    BY <1>0, <1>12, OtherTypes
  <2> QED  BY <1>6, <1>12, <2>1 DEF ProcPositionMode, ProcStatus, ProcDelAidData, MuteOneSession,
           HandleEngineDown, Proc
<1> QED  BY <1>3, <1>4, <1>5, <1>7, <1>8, <1>9, <1>10, <1>11, <1>12 DEF Next, MsgTask

-----------------------------------------------------------------------------
(* The theorems                                                            *)

LEMMA InitIInv == Init => IInv
<1> SUFFICES ASSUME Init PROVE IInv
  OBVIOUS
<1>1. queue = <<>> /\ Len(queue) = 0 /\ 1..0 = {}
  BY DEF Init
<1>2. PICK r \in surroundings.recurrences : mFixCriteria = [mode |-> "INVALID", recurrence |-> r]
  BY DEF Init
<1>3. surroundings \in Surroundings /\ surroundings.recurrences \subseteq {"periodic", "single"}
  BY Surrounded DEF Init
<1>4. mFixCriteria \in Criteria /\ mFixCriteria.recurrence \in surroundings.recurrences
  BY <1>2, <1>3 DEF Criteria
<1>5. ModemFits(modem)
  BY DEF Init, ModemOff, ModemFits, Modems
<1>6. TypeOK
  <2>1. queue \in Seq(Messages)
    BY <1>1
  <2> QED  BY <1>3, <1>4, <1>5, <2>1, Typed DEF Init, ModemFits
<1>7. Engine
  BY <1>1, <1>4, <1>5, <1>6 DEF Engine
<1>8. ReopenedFirst
  BY <1>1 DEF ReopenedFirst, UpComesAfterSsr
<1>9. StatusIsFollowed /\ ModemSessionKnown /\ WantedIsKept /\ RunsOrRestarts
  BY DEF Init, ModemOff, StatusIsFollowed, MutesOneSession, WaitsOnlyWhileOn, ModemSessionKnown,
     WantedIsKept, RunsOrRestarts
<1> QED  BY <1>7, <1>8, <1>9 DEF IInv

LEMMA NextIInv == IInv /\ [Next]_vars => IInv'
<1> SUFFICES ASSUME IInv, [Next]_vars PROVE IInv'
  OBVIOUS
<1>1. Engine' /\ ReopenedFirst' /\ StatusIsFollowed' /\ ModemSessionKnown'
  BY NextEngine, NextReopened, NextStatus, NextKnown DEF IInv
<1>2. ASSUME Steady' PROVE WantedIsKept' /\ RunsOrRestarts'
  <2>1. surroundings' = surroundings
    BY DEF Next, vars
  <2>2. Steady
    BY <1>2, <2>1 DEF Steady, Tracks
  <2> QED  BY <2>2, NextWanted, NextRuns DEF IInv
<1> QED  BY <1>1, <1>2 DEF IInv

LEMMA Invariant == Spec => []IInv
  BY InitIInv, NextIInv, PTL DEF Spec

\* Each variable has its type, for any surroundings and length of the queue.
THEOREM TypeCorrect == Spec => []TypeOK
<1>1. IInv => TypeOK
  BY DEF IInv, Engine
<1> QED  BY <1>1, Invariant, PTL

\* Muting, which waits for a status report, ends with it in loc_eng_report_status,
\* however the reports of other sessions, failed starts and crashes come in
\* between.  So does the deletion of aiding data where the modem does not restart;
\* loc_eng_handle_engine_down leaves it waiting with the engine off.
THEOREM StatusFollowed == Spec => []StatusIsFollowed
<1>1. IInv => StatusIsFollowed
  BY DEF IInv
<1> QED  BY <1>1, Invariant, PTL

\* While the framework tracks, loc_eng_start_handler, loc_eng_stop_handler and
\* loc_eng_handle_engine_up never lose sight of a session that runs in the modem.
THEOREM SessionKnown == Spec => []ModemSessionKnown
<1>1. IInv => ModemSessionKnown
  BY DEF IInv
<1> QED  BY <1>1, Invariant, PTL

\* A session that the framework still wants runs again when everything that a
\* crash of the modem brought about is handled, wherever in a start or a stop the
\* modem crashed and however often.
THEOREM SessionComesBack == Spec => []SessionSurvives
<1>1. IInv => SessionSurvives
  <2> SUFFICES ASSUME IInv, Steady, Quiet, asked = "on", modem.state = "up"
               PROVE  mNavigating /\ modem.session # "none"
    BY DEF SessionSurvives, Steady
  <2>1. 1..Len(queue) = {}
    BY DEF Quiet
  <2>2. mNavigating
    BY <2>1 DEF IInv, WantedIsKept, StartComes
  <2> QED  BY <2>1, <2>2 DEF IInv, RunsOrRestarts, Queued
<1> QED  BY <1>1, Invariant, PTL
==============================================================================
