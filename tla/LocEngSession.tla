---------------------------- MODULE LocEngSession ----------------------------
(***************************************************************************)
(* The positioning session of loc_eng.cpp and LocEngAdapter: start, stop   *)
(* and cleanup of a fix, position and status reports, aiding data to be    *)
(* deleted, the muted session and the restart after a modem crash.         *)
(*                                                                         *)
(* The framework's thread and the modem's thread only post messages; the   *)
(* MsgTask thread runs their proc methods one at a time.  What runs        *)
(* elsewhere is loc_eng_cleanup, which reads mNavigating on the            *)
(* framework's thread.  The modem, behind LocApiBase, is external: it runs *)
(* a session when asked, reports, may end a single fix itself, crashes and *)
(* comes back.                                                             *)
(***************************************************************************)
EXTENDS Naturals, Sequences

CONSTANTS
  Surroundings,     \* what the framework and the modem may do; each of them
                    \*   recurrences  fixes asked for: "periodic", "single"
                    \*   results      what startFix returns while the modem is up
                    \*   flags        kinds of aiding data
                    \*   restarts     whether the modem crashes
                    \*   cleansUp     whether the framework calls loc_cleanup
                    \*   bound        of the queue: how many messages may wait
                    \*                before anyone posts another
  IntermediatePos   \* gps.conf INTERMEDIATE_POS

ASSUME SessionAssumption ==
  /\ Surroundings \subseteq
       [recurrences : SUBSET {"periodic", "single"} \ {{}},
        results : SUBSET {"SUCCESS", "FAILURE", "PHONE_OFFLINE"} \ {{}},
        flags : SUBSET {"eph", "alm"},
        restarts : BOOLEAN, cleansUp : BOOLEAN, bound : Nat \ {0}]
  /\ IntermediatePos \in BOOLEAN

VARIABLES
  surroundings,        \* one of Surroundings; it never changes
  queue,               \* messages of the MsgTask
  mNavigating,         \* LocEngAdapter::mNavigating (isInSession)
  mFixCriteria,        \* its mode, "INVALID" or "VALID", and recurrence
  engine_status,       \* last of ENGINE_ON and ENGINE_OFF, or "NONE"
  fix_session_status,  \* last of SESSION_BEGIN and SESSION_END, or "NONE"
  mute_session_state,
  aiding_data_for_deletion,
  modem,               \* the modem: "up", "down" or "back" (up, but LocEngUp
                       \* not yet posted), the recurrence of the session it
                       \* runs, engine on, session begun as reported
  asked                \* "on" or "off": what the framework asked for last

locEng == <<mNavigating, mFixCriteria, engine_status, fix_session_status,
            mute_session_state, aiding_data_for_deletion>>
vars == <<surroundings, queue, locEng, modem, asked>>

Msg(type, arg) == [type |-> type, arg |-> arg]
Post(m) == Len(queue) < surroundings.bound /\ queue' = Append(queue, m)

ModemOff == [state |-> "up", session |-> "none", engine |-> FALSE, begun |-> FALSE]

Init ==
  /\ surroundings \in Surroundings
  /\ queue = <<>>
  /\ mNavigating = FALSE
  /\ mFixCriteria \in {[mode |-> "INVALID", recurrence |-> r] : r \in surroundings.recurrences}
  /\ engine_status = "NONE" /\ fix_session_status = "NONE"
  /\ mute_session_state = "NONE"
  /\ aiding_data_for_deletion = {}
  /\ modem = ModemOff
  /\ asked = "off"

-----------------------------------------------------------------------------
(* Faults: variants of the methods below with a plausible bug, standing in *)
(* for them when the project checks that a property can fail.              *)

MuteAfterBegin(status) ==     \* the muted session never ends
  IF status \in {"SESSION_BEGIN", "ENGINE_ON"} /\ mute_session_state = "WAIT" THEN "IN_SESSION"
  ELSE mute_session_state

-----------------------------------------------------------------------------
(* Helpers                                                                 *)

\* LocApiBase::startFix, external: a session that runs already is granted again.
StartFixReturns ==
  IF modem.state = "down" THEN {"ENGINE_DOWN"}
  ELSE IF modem.session # "none" THEN {"SUCCESS"} ELSE surroundings.results

SetInSession(inSession) ==
  /\ mNavigating' = inSession
  /\ mFixCriteria' = IF inSession THEN mFixCriteria
                     ELSE [mFixCriteria EXCEPT !.mode = "INVALID"]

\* update_aiding_data_for_deletion, on what this step leaves in the two fields
UpdateAidingData(wanted, status) ==
  IF status # "ENGINE_ON"
  THEN aiding_data_for_deletion' = {}
  ELSE aiding_data_for_deletion' = wanted

\* loc_eng_report_status
MuteAfter(status) ==
  IF status \in {"SESSION_BEGIN", "ENGINE_ON"} /\ mute_session_state = "WAIT" THEN "IN_SESSION"
  ELSE IF status \in {"SESSION_END", "ENGINE_OFF"} /\ mute_session_state = "IN_SESSION" THEN "NONE"
  ELSE mute_session_state

EngineStatusAfter(status) ==
  IF status \in {"ENGINE_ON", "ENGINE_OFF"} THEN status ELSE engine_status

ReportStatus(status) ==
  /\ mute_session_state' = MuteAfter(status)
  /\ engine_status' = EngineStatusAfter(status)
  /\ fix_session_status' = IF status \in {"SESSION_BEGIN", "SESSION_END"}
                           THEN status ELSE fix_session_status

Proc(type) == queue # <<>> /\ Head(queue).type = type

-----------------------------------------------------------------------------
(* The framework's thread (loc.cpp)                                        *)

SetPositionMode ==
  /\ \E r \in surroundings.recurrences : Post(Msg("PositionMode", r))
  /\ UNCHANGED <<locEng, modem, asked>>

StartFix ==
  /\ Post(Msg("StartFix", "")) /\ asked' = "on"
  /\ UNCHANGED <<locEng, modem>>

StopFix ==
  /\ Post(Msg("StopFix", "")) /\ asked' = "off"
  /\ UNCHANGED <<locEng, modem>>

\* loc_eng_cleanup: mNavigating is read here, not on the MsgTask.
Cleanup ==
  /\ surroundings.cleansUp
  /\ asked' = "off"
  /\ IF mNavigating THEN Post(Msg("StopFix", "")) ELSE UNCHANGED queue
  /\ UNCHANGED <<locEng, modem>>

DeleteAidingData ==
  /\ \E f \in surroundings.flags : Post(Msg("DelAidData", f))
  /\ UNCHANGED <<locEng, modem, asked>>

Framework == SetPositionMode \/ StartFix \/ StopFix \/ Cleanup \/ DeleteAidingData

-----------------------------------------------------------------------------
(* The modem, external: what it does and what it posts through LocApiBase  *)

Report(kind) ==
  /\ modem.session # "none"
  /\ Post(Msg("Report", kind))
  /\ modem' = IF modem.session = "single" /\ kind # "intermediate"
              THEN [modem EXCEPT !.session = "none"] ELSE modem
  /\ UNCHANGED <<locEng, asked>>

EngineTurns ==
  /\ modem.state # "down" /\ modem.engine # (modem.session # "none")
  /\ modem' = [modem EXCEPT !.engine = ~@]
  /\ Post(Msg("Status", IF modem.engine THEN "ENGINE_OFF" ELSE "ENGINE_ON"))
  /\ UNCHANGED <<locEng, asked>>

SessionTurns ==
  /\ modem.state # "down" /\ modem.begun # (modem.session # "none")
  /\ modem' = [modem EXCEPT !.begun = ~@]
  /\ Post(Msg("Status", IF modem.begun THEN "SESSION_END" ELSE "SESSION_BEGIN"))
  /\ UNCHANGED <<locEng, asked>>

\* A network initiated session with privacy override (loc_eng_ni.cpp)
NetworkOverride ==
  /\ modem.state # "down"
  /\ Post(Msg("RequestNi", ""))
  /\ UNCHANGED <<locEng, modem, asked>>

Crash ==
  /\ surroundings.restarts /\ modem.state = "up"
  /\ modem' = [ModemOff EXCEPT !.state = "down"]
  /\ Post(Msg("Down", ""))
  /\ UNCHANGED <<locEng, asked>>

\* LocApiBase::handleEngineUpEvent posts two messages, one after the other.
Return ==
  /\ modem.state = "down"
  /\ modem' = [modem EXCEPT !.state = "back"]
  /\ Post(Msg("Ssr", ""))
  /\ UNCHANGED <<locEng, asked>>

Announce ==
  /\ modem.state = "back"
  /\ modem' = [modem EXCEPT !.state = "up"]
  /\ Post(Msg("Up", ""))
  /\ UNCHANGED <<locEng, asked>>

Modem ==
  \/ \E kind \in {"failure", "final", "filtered", "intermediate"} : Report(kind)
  \/ EngineTurns \/ SessionTurns \/ NetworkOverride \/ Crash \/ Return \/ Announce

-----------------------------------------------------------------------------
(* Faults, of the MsgTask's handlers                                       *)

StopHandlerKeepsModem ==      \* stopFix not called
  /\ Proc("StopFix") /\ queue' = Tail(queue)
  /\ SetInSession(FALSE)
  /\ UNCHANGED <<modem, engine_status, fix_session_status, mute_session_state,
                 aiding_data_for_deletion, asked>>

EngineUpOnlyFlag ==           \* the session flag kept, so no new startFix
  /\ Proc("Up") /\ queue' = Tail(queue)
  /\ UNCHANGED <<locEng, modem, asked>>

-----------------------------------------------------------------------------
(* The MsgTask thread                                                      *)

ProcPositionMode ==
  /\ Proc("PositionMode") /\ queue' = Tail(queue)
  /\ mFixCriteria' = [mode |-> "VALID", recurrence |-> Head(queue).arg]
  /\ UNCHANGED <<mNavigating, engine_status, fix_session_status, mute_session_state,
                 aiding_data_for_deletion, modem, asked>>

\* loc_eng_start_handler: a start that failed because the modem is not there
\* counts as a session, to be started when it comes back.
StartHandler ==
  /\ Proc("StartFix") /\ queue' = Tail(queue)
  /\ \/ /\ mNavigating
        /\ UNCHANGED <<mNavigating, mFixCriteria, modem>>
     \/ /\ ~mNavigating
        /\ \E ret \in StartFixReturns :
             /\ modem' = IF ret = "SUCCESS"
                         THEN [modem EXCEPT !.session = mFixCriteria.recurrence]
                         ELSE modem
             /\ IF ret \in {"SUCCESS", "ENGINE_DOWN", "PHONE_OFFLINE"}
                THEN SetInSession(TRUE)
                ELSE UNCHANGED <<mNavigating, mFixCriteria>>
  /\ UNCHANGED <<engine_status, fix_session_status, mute_session_state,
                 aiding_data_for_deletion, asked>>

StopHandler ==
  /\ Proc("StopFix") /\ queue' = Tail(queue)
  /\ IF mNavigating
     THEN modem' = [modem EXCEPT !.session = "none"] /\ SetInSession(FALSE)
     ELSE UNCHANGED <<mNavigating, mFixCriteria, modem>>
  /\ UNCHANGED <<engine_status, fix_session_status, mute_session_state,
                 aiding_data_for_deletion, asked>>

\* LocEngReportPosition::proc: whether the fix goes to location_cb
Reported(kind) ==
  /\ mute_session_state # "IN_SESSION"
  /\ kind \in {"failure", "final"} \/ (kind = "intermediate" /\ IntermediatePos)

ProcReport ==
  /\ Proc("Report") /\ queue' = Tail(queue)
  /\ LET kind == Head(queue).arg IN
       IF Reported(kind) /\ mFixCriteria.recurrence = "single"
       THEN /\ modem' = IF kind = "intermediate"
                        THEN [modem EXCEPT !.session = "none"] ELSE modem
            /\ SetInSession(FALSE)
       ELSE UNCHANGED <<modem, mNavigating, mFixCriteria>>
  /\ UNCHANGED <<engine_status, fix_session_status, mute_session_state,
                 aiding_data_for_deletion, asked>>

ProcStatus ==
  /\ Proc("Status") /\ queue' = Tail(queue)
  /\ ReportStatus(Head(queue).arg)
  /\ UpdateAidingData(aiding_data_for_deletion, engine_status')
  /\ UNCHANGED <<mNavigating, mFixCriteria, modem, asked>>

\* LocEngDelAidData::proc: the new mask replaces the one that waits.
ProcDelAidData ==
  /\ Proc("DelAidData") /\ queue' = Tail(queue)
  /\ UpdateAidingData({Head(queue).arg}, engine_status)
  /\ UNCHANGED <<mNavigating, mFixCriteria, engine_status, fix_session_status,
                 mute_session_state, modem, asked>>

MuteOneSession ==
  /\ Proc("RequestNi") /\ queue' = Tail(queue)
  /\ mute_session_state' = "WAIT"
  /\ UNCHANGED <<mNavigating, mFixCriteria, engine_status, fix_session_status,
                 aiding_data_for_deletion, modem, asked>>

HandleEngineDown ==
  /\ Proc("Down") /\ queue' = Tail(queue)
  /\ ReportStatus("ENGINE_OFF")
  /\ UNCHANGED <<mNavigating, mFixCriteria, aiding_data_for_deletion, modem, asked>>

\* LocSsrMsg::proc: the handle is closed, and its session with it, and opened.
Reopen ==
  /\ Proc("Ssr") /\ queue' = Tail(queue)
  /\ modem' = [modem EXCEPT !.session = "none"]
  /\ UNCHANGED <<locEng, asked>>

\* The session goes on with a StartFix at the end of the queue.
HandleEngineUp ==
  /\ Proc("Up")
  /\ IF mNavigating
     THEN SetInSession(FALSE) /\ queue' = Append(Tail(queue), Msg("StartFix", ""))
     ELSE queue' = Tail(queue) /\ UNCHANGED <<mNavigating, mFixCriteria>>
  /\ UNCHANGED <<engine_status, fix_session_status, mute_session_state,
                 aiding_data_for_deletion, modem, asked>>

MsgTask ==
  \/ ProcPositionMode \/ StartHandler \/ StopHandler
  \/ ProcReport \/ ProcStatus \/ ProcDelAidData \/ MuteOneSession
  \/ HandleEngineDown \/ Reopen \/ HandleEngineUp

-----------------------------------------------------------------------------
Next == (Framework \/ Modem \/ MsgTask) /\ UNCHANGED surroundings

Spec == Init /\ [][Next]_vars

\* The MsgTask thread is scheduled, and a modem that went down comes back.
FairSpec ==
  /\ Spec
  /\ WF_vars(MsgTask /\ UNCHANGED surroundings)
  /\ WF_vars((Return \/ Announce) /\ UNCHANGED surroundings)

-----------------------------------------------------------------------------
(* Properties                                                              *)

\* Each variable has its type.
TypeOK ==
  /\ surroundings \in Surroundings
  /\ queue \in Seq([type : {"PositionMode", "StartFix", "StopFix", "DelAidData", "Report",
                            "Status", "RequestNi", "Down", "Ssr", "Up"},
                    arg : {"", "failure", "final", "filtered", "intermediate",
                           "ENGINE_ON", "ENGINE_OFF", "SESSION_BEGIN", "SESSION_END",
                           "periodic", "single", "eph", "alm"}])
  /\ mNavigating \in BOOLEAN
  /\ mFixCriteria \in [mode : {"INVALID", "VALID"}, recurrence : {"periodic", "single"}]
  /\ engine_status \in {"NONE", "ENGINE_ON", "ENGINE_OFF"}
  /\ fix_session_status \in {"NONE", "SESSION_BEGIN", "SESSION_END"}
  /\ mute_session_state \in {"NONE", "WAIT", "IN_SESSION"}
  /\ aiding_data_for_deletion \subseteq {"eph", "alm"}
  /\ modem \in [state : {"up", "down", "back"}, session : {"periodic", "single", "none"},
                engine : BOOLEAN, begun : BOOLEAN]
  /\ asked \in {"on", "off"}

Queued(type) == \E i \in 1..Len(queue) : queue[i].type = type
Quiet == queue = <<>>

\* The framework tracks: it asks for no single fix and does not clean up.
Tracks == surroundings.recurrences = {"periodic"} /\ ~surroundings.cleansUp

\* A session that runs in the modem is one the adapter knows of, so that the
\* next stop reaches it, unless a restart is about to say so.
ModemSessionKnown ==
  Tracks /\ modem.session # "none" => mNavigating \/ Queued("StartFix")

\* "modem is back up.  If we crashed in the middle of navigating, we restart":
\* with everything handled, a session that is still wanted runs again.
SessionSurvives ==
  Tracks /\ surroundings.results = {"SUCCESS"} =>
    (Quiet /\ asked = "on" /\ modem.state = "up" => mNavigating /\ modem.session # "none")

\* "Stops the tracking session": with everything handled, no session that the
\* framework stopped last is running.
StopIsFinal ==
  Quiet /\ asked = "off" => ~mNavigating /\ modem.session = "none"

\* "Otherwise, the actual action will happen when gps engine is turned off":
\* where the modem does not restart, aiding data waits only while the engine is
\* known to be on.  After an engine down the code leaves it waiting with the
\* engine off, until the next report of the engine.
WaitsOnlyWhileOn ==
  ~surroundings.restarts /\ aiding_data_for_deletion # {} => engine_status = "ENGINE_ON"

\* Only a session that has begun, or an engine that is on, is muted: muting
\* never outlives both.
MutesOneSession ==
  mute_session_state = "IN_SESSION" =>
    engine_status = "ENGINE_ON" \/ fix_session_status = "SESSION_BEGIN"

\* What waits for a status report ends with it, whatever reports of other sessions
\* and failed starts come in between: muting through any crashes of the modem,
\* deletion only where there are none.
StatusIsFollowed == MutesOneSession /\ WaitsOnlyWhileOn

\* A stop ends the session in the modem unless the framework starts another.
StopTakesEffect ==
  Tracks /\ ~surroundings.restarts /\ asked = "off" ~> modem.session = "none" \/ asked = "on"
==============================================================================
