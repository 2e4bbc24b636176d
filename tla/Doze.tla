--------------------------------- MODULE Doze ---------------------------------
(***************************************************************************)
(* The doze service: doze/src/com/cyanogenmod/settings/doze.  Settings,    *)
(* service and sensor listener run on the main thread of one process; the  *)
(* display, the sensor and the system's calls reach it in their own time.  *)
(* Durations are in seconds and saturate at PocketMin.                     *)
(***************************************************************************)
EXTENDS Integers, Sequences

CONSTANTS
  HandwaveMax,    \* HANDWAVE_MAX_DELTA_NS
  PocketMin,      \* POCKET_MIN_DELTA_NS
  MaxBroadcasts,  \* bound: broadcasts of the display on their way
  MaxStarts       \* bound: starts and stops of the service on their way

ASSUME DozeAssumption == HandwaveMax \in Nat /\ PocketMin \in Nat

VARIABLES
  ambient,      \* Settings.Secure.DOZE_ENABLED
  handwave,     \* the preference gesture_hand_wave
  pocket,       \* the preference gesture_pocket
  running,      \* the service is between onCreate and onDestroy
  listening,    \* the sensor listener is registered
  mSawNear,
  sinceTime,    \* the time since mInPocketTime
  display,      \* the display is on
  broadcasts,   \* SCREEN_ON (TRUE) and SCREEN_OFF on their way to the service
  starts,       \* "START" and "STOP" on their way
  near,         \* something covers the sensor now
  report,       \* the sensor has a value to report
  sinceNear,    \* history: the time since the sensor was covered
  pulse,        \* this step launched a pulse
  saw           \* history: what the service saw of the display since it was made:
                \* "nothing", "changes", "late" ones, after a gesture was switched

settings == <<ambient, handwave, pocket>>
sensor == <<listening, mSawNear, sinceTime>>
world == <<near, sinceNear>>
dozeVars == <<settings, sensor, world, running, display, broadcasts, starts, report,
              pulse, saw>>

-----------------------------------------------------------------------------
(* Utils                                                                   *)

sensorsEnabled == handwave \/ pocket
BothEnabled == handwave /\ pocket

CallService(call) == Len(starts) < MaxStarts /\ starts' = Append(starts, call)

(* ProximitySensor                                                         *)

enable == listening' = TRUE /\ report' = TRUE     \* the sensor tells its value
disable == listening' = FALSE /\ report' = FALSE

\* fault: the other gesture's limit
shouldPulseLate ==
  \/ handwave /\ sinceTime < PocketMin
  \/ pocket /\ sinceTime >= PocketMin

shouldPulse ==
  \/ BothEnabled
  \/ handwave /\ ~pocket /\ sinceTime < HandwaveMax
  \/ pocket /\ ~handwave /\ sinceTime >= PocketMin

\* mInPocketTime is that of the last event but for those that uncover.
onSensorChanged ==
  /\ listening /\ report
  /\ report' = FALSE
  /\ mSawNear' = near
  /\ IF mSawNear /\ ~near
     THEN pulse' = shouldPulse /\ UNCHANGED sinceTime
     ELSE pulse' = FALSE /\ sinceTime' = 0
  /\ UNCHANGED <<settings, world, listening, running, display, broadcasts, starts,
                 saw>>

(* DozeService                                                             *)

\* fault: looks for both gestures
onDisplayOnOfBoth == IF BothEnabled THEN disable ELSE UNCHANGED <<listening, report>>

onDisplayOn == IF sensorsEnabled THEN disable ELSE UNCHANGED <<listening, report>>
onDisplayOff == IF sensorsEnabled THEN enable ELSE UNCHANGED <<listening, report>>

ScreenStateReceived ==
  /\ broadcasts # <<>>
  /\ broadcasts' = Tail(broadcasts)
  /\ IF Head(broadcasts) THEN onDisplayOn ELSE onDisplayOff
  /\ pulse' = FALSE
  /\ UNCHANGED <<settings, world, mSawNear, sinceTime, running, display, starts,
                 saw>>

\* onStartCommand has nothing to do for a service that runs.  The service and
\* its ProximitySensor are made together, and mInPocketTime was long ago.
onStartCommand ==
  /\ starts # <<>> /\ Head(starts) = "START"
  /\ starts' = Tail(starts)
  /\ running' = TRUE
  /\ IF running THEN UNCHANGED <<mSawNear, sinceTime, saw>>
     ELSE mSawNear' = FALSE /\ sinceTime' = PocketMin /\ saw' = "nothing"
  /\ pulse' = FALSE
  /\ UNCHANGED <<settings, world, listening, display, broadcasts, report>>

onDestroy ==
  /\ starts # <<>> /\ Head(starts) = "STOP"
  /\ starts' = Tail(starts)
  /\ running' = FALSE
  /\ broadcasts' = <<>>           \* unregisterReceiver
  /\ IF running THEN disable ELSE UNCHANGED <<listening, report>>
  /\ pulse' = FALSE
  /\ UNCHANGED <<settings, world, mSawNear, sinceTime, display, saw>>

(* DozeSettings: the gestures can be switched while ambient display is on  *)

UserSwitches == display /\ pulse' = FALSE

onAmbientChange ==
  /\ UserSwitches
  /\ ambient' = ~ambient
  /\ CallService(IF ambient' THEN "START" ELSE "STOP")
  /\ UNCHANGED <<handwave, pocket, sensor, world, running, display, broadcasts,
                 report, saw>>

onGestureChange ==
  /\ UserSwitches /\ ambient
  /\ \/ handwave' = ~handwave /\ UNCHANGED pocket
     \/ pocket' = ~pocket /\ UNCHANGED handwave
  /\ saw' = IF broadcasts = <<>> THEN saw ELSE "late"
  /\ CallService("START")
  /\ UNCHANGED <<ambient, sensor, world, running, display, broadcasts, report>>

-----------------------------------------------------------------------------
(* The system                                                              *)

\* Every value of the settings is found at a boot: BootCompletedReceiver.
DozeInit ==
  /\ ambient \in BOOLEAN /\ handwave \in BOOLEAN /\ pocket \in BOOLEAN
  /\ running = FALSE
  /\ listening = FALSE
  /\ mSawNear = FALSE
  /\ sinceTime = PocketMin
  /\ display = TRUE
  /\ broadcasts = <<>>
  /\ starts = IF ambient /\ sensorsEnabled THEN <<"START">> ELSE <<>>
  /\ near = FALSE
  /\ report = FALSE
  /\ sinceNear = PocketMin
  /\ pulse = FALSE
  /\ saw = "nothing"

DisplayChanges ==
  /\ Len(broadcasts) < MaxBroadcasts
  /\ display' = ~display
  /\ IF running
     THEN broadcasts' = Append(broadcasts, display') /\ saw' = IF saw = "nothing" THEN "changes" ELSE saw
     ELSE UNCHANGED <<broadcasts, saw>>
  /\ pulse' = FALSE
  /\ UNCHANGED <<settings, sensor, world, running, starts, report>>

SensorChanges ==
  /\ near' = ~near
  /\ sinceNear' = 0
  /\ report' = listening
  /\ pulse' = FALSE
  /\ UNCHANGED <<settings, sensor, running, display, broadcasts, starts, saw>>

Older(since) == IF since < PocketMin THEN since + 1 ELSE since

SecondPasses ==
  /\ sinceTime' = Older(sinceTime)
  /\ sinceNear' = IF near THEN 0 ELSE Older(sinceNear)
  /\ pulse' = FALSE
  /\ UNCHANGED <<settings, near, listening, mSawNear, running, display, broadcasts,
                 starts, report, saw>>

\* START_STICKY: a service that is killed is started again.
ServiceKilled ==
  /\ running
  /\ running' = FALSE
  /\ broadcasts' = <<>>
  /\ disable
  /\ CallService("START")
  /\ pulse' = FALSE
  /\ UNCHANGED <<settings, world, mSawNear, sinceTime, display, saw>>

DozeNext ==
  \/ onSensorChanged \/ ScreenStateReceived \/ onStartCommand \/ onDestroy
  \/ onAmbientChange \/ onGestureChange
  \/ DisplayChanges \/ SensorChanges \/ SecondPasses \/ ServiceKilled

DozeSpec == DozeInit /\ [][DozeNext]_dozeVars

-----------------------------------------------------------------------------
(* Properties                                                              *)

\* The hand is gone within HANDWAVE_MAX_DELTA_NS: with this gesture alone a
\* pulse tells that something covered the sensor less than a second ago, be
\* the state of the listener from before the display was last on or not.
WaveIsShort == pulse /\ ~pocket => handwave /\ sinceNear < HandwaveMax

\* Once the service saw the display change and all broadcasts are handled, it
\* listens just while the display is off and a gesture is on: display and
\* settings may have changed in any order, but for a gesture switched while a
\* broadcast was on its way.
ListenerFollowsDisplay ==
  running /\ saw = "changes" /\ broadcasts = <<>>
    => listening = (~display /\ sensorsEnabled)
==============================================================================
