-------------------------------- MODULE Lights --------------------------------
(***************************************************************************)
(* The lights HAL: liblight/lights.c.  Four sources share one breathing    *)
(* LED; the one with the lowest number is the most important.  Every call  *)
(* holds g_lock from its first change to its last, so a call is one step.  *)
(* The files under /sys/class/leds outlive the process that writes them.   *)
(***************************************************************************)
EXTENDS Integers, FiniteSets

CONSTANTS
  Colors,     \* 0xAARRGGBB of the states asked for
  Pauses      \* milliseconds of flashOnMS and flashOffMS, 0 among them

VARIABLES
  dev,            \* the user has a device of every light: it opens them together
  asked,          \* g_notification, g_battery, g_buttons, g_attention
  active_states,  \* a set of sources for the bits of the C variable
  last_state,
  led,            \* the files of the red LED: blink, duty_pcts, lut_flags, pauses
  side,           \* blink of the LEDs of the two side buttons
  lcd,            \* brightness of the backlight
  told            \* history: the LED's sources were told something since the start

ledVars == <<dev, asked, active_states, last_state, led, side, lcd, told>>

-----------------------------------------------------------------------------
BREATH_SOURCE_NOTIFICATION == 1
BREATH_SOURCE_BATTERY == 2
BREATH_SOURCE_BUTTONS == 4
BREATH_SOURCE_ATTENTION == 8
BREATH_SOURCE_NONE == 255

Sources == {BREATH_SOURCE_NOTIFICATION, BREATH_SOURCE_BATTERY,
            BREATH_SOURCE_BUTTONS, BREATH_SOURCE_ATTENTION}

RAMP_UP == {"RAMP_UP"}
LOOP == {"LOOP", "RAMP_UP", "REVERSE"}
PAUSE_EN == {"PAUSE_HI_EN", "PAUSE_LO_EN"}

\* Only a notification's flashing is looked at.
Dark == [color |-> 0, timed |-> FALSE, onMS |-> 0, offMS |-> 0]
LightStates(source) ==
  {s \in [color : Colors, timed : BOOLEAN, onMS : Pauses, offMS : Pauses] :
     source = BREATH_SOURCE_NOTIFICATION \/ s = [Dark EXCEPT !.color = s.color]}

\* A dim colour counts as dark: the weighted sum loses its last 8 bits.
rgb_to_brightness(state) ==
  LET color == state.color % 16777216
  IN (77 * (color \div 65536) + 150 * ((color \div 256) % 256) + 29 * (color % 256))
       \div 256

Lit(state) == rgb_to_brightness(state) > 0

-----------------------------------------------------------------------------
(* set_breath_light_locked                                                 *)

\* What is shown for each source.  The battery's state is not asked of the
\* caller: the two files are read, and an unreadable one counts as 0.
Breath(duty, flags, on, off) == [duty |-> duty, flags |-> flags, hi |-> on, lo |-> off]

Flashing(state) == state.timed /\ state.onMS + state.offMS > 0

NotificationBreath(state) ==
  Breath("NOTIFICATION",
         RAMP_UP \cup (IF Flashing(state) THEN LOOP \cup PAUSE_EN ELSE {}),
         IF state.timed THEN state.onMS ELSE 0,
         IF state.timed THEN state.offMS ELSE 0)

BatteryBreaths ==
  { Breath("BATTERY", LOOP \cup PAUSE_EN, 300, 1500),   \* low, or unreadable
    Breath("CHARGING", LOOP, 0, 0),
    Breath("BATTERY", RAMP_UP, 0, 0) }                  \* full

Breaths(source, state) ==
  CASE source = BREATH_SOURCE_NOTIFICATION -> {NotificationBreath(state)}
    [] source = BREATH_SOURCE_BATTERY -> BatteryBreaths
    [] source = BREATH_SOURCE_BUTTONS -> {Breath("BUTTONS", RAMP_UP, 0, 0)}
    [] source = BREATH_SOURCE_ATTENTION -> {Breath("NOTIFICATION", {}, 0, 0)}

\* A pause of 0 is not written: the file keeps what the last pattern left.
WriteBreath(breath) ==
  led' = [blink |-> TRUE, duty |-> breath.duty, flags |-> breath.flags,
          hi |-> IF breath.hi > 0 THEN breath.hi ELSE led.hi,
          lo |-> IF breath.lo > 0 THEN breath.lo ELSE led.lo]

MostImportant(sources) == CHOOSE s \in sources : \A t \in sources : s <= t

\* The battery's and the buttons' pattern is not written again while it is
\* shown; a notification's is, for its flashing may have changed.
IsShown(source) ==
  /\ last_state = source
  /\ source \in {BREATH_SOURCE_BATTERY, BREATH_SOURCE_BUTTONS}

ShowMostImportant(active, states) ==
  LET source == MostImportant(active)
  IN IF IsShown(source)
     THEN UNCHANGED <<led, last_state>>
     ELSE /\ last_state' = source
          /\ \E breath \in Breaths(source, states[source]) : WriteBreath(breath)

TurnOffQuietly ==                   \* fault: last_state keeps its value
  led' = [led EXCEPT !.blink = FALSE] /\ UNCHANGED last_state

TurnOff ==
  /\ led' = [led EXCEPT !.blink = FALSE]
  /\ last_state' = BREATH_SOURCE_NONE

set_breath_light_locked(event_source, states) ==
  LET active == IF Lit(states[event_source]) THEN active_states \cup {event_source}
                ELSE active_states \ {event_source}
  IN /\ active_states' = active
     /\ told' = TRUE
     /\ IF active = {} THEN TurnOff
        ELSE IF last_state < event_source THEN UNCHANGED <<led, last_state>>
        ELSE ShowMostImportant(active, states)

-----------------------------------------------------------------------------
(* The calls                                                               *)

LightsInit ==
  /\ dev = FALSE
  /\ asked = [s \in Sources |-> Dark]
  /\ active_states = {}
  /\ last_state = BREATH_SOURCE_NONE
  /\ led = [blink |-> FALSE, duty |-> "none", flags |-> {}, hi |-> 0, lo |-> 0]
  /\ side = FALSE
  /\ lcd = 0
  /\ told = FALSE

\* By its name a light gets its function, as LightsNext has them.
open_lights ==
  /\ ~dev /\ dev' = TRUE
  /\ UNCHANGED <<asked, active_states, last_state, led, side, lcd, told>>

close_lights ==
  /\ dev /\ dev' = FALSE
  /\ UNCHANGED <<asked, active_states, last_state, led, side, lcd, told>>

set_light_backlight(state) ==
  /\ dev
  /\ lcd' = rgb_to_brightness(state)
  /\ UNCHANGED <<dev, asked, active_states, last_state, led, side, told>>

\* set_light_notifications, set_light_battery, set_light_attention
SetSource(source, state) ==
  /\ dev
  /\ asked' = [asked EXCEPT ![source] = state]
  /\ set_breath_light_locked(source, asked')
  /\ UNCHANGED <<dev, lcd>>

set_light_buttons(state) ==
  /\ SetSource(BREATH_SOURCE_BUTTONS, state)
  /\ side' = Lit(state)

\* The process of the HAL dies and starts anew: the statics are as at first,
\* the LEDs as they were.
ProcessRestarts ==
  /\ dev' = FALSE
  /\ asked' = [s \in Sources |-> Dark]
  /\ active_states' = {}
  /\ last_state' = BREATH_SOURCE_NONE
  /\ told' = FALSE
  /\ UNCHANGED <<led, side, lcd>>

LightsNext ==
  \/ open_lights \/ close_lights
  \/ \E state \in LightStates(BREATH_SOURCE_BUTTONS) :
       set_light_backlight(state) \/ set_light_buttons(state)
  \/ \E source \in Sources \ {BREATH_SOURCE_BUTTONS} :
       \E state \in LightStates(source) :
         SetSource(source, state) /\ UNCHANGED side
  \/ ProcessRestarts

LightsSpec == LightsInit /\ [][LightsNext]_ledVars

-----------------------------------------------------------------------------
(* Properties                                                              *)

Wanting == {s \in Sources : Lit(asked[s])}

\* The source whose pattern the LED's files hold.
Shown ==
  CASE led.duty = "NOTIFICATION" /\ led.flags # {} -> BREATH_SOURCE_NOTIFICATION
    [] led.duty = "NOTIFICATION" /\ led.flags = {} -> BREATH_SOURCE_ATTENTION
    [] led.duty = "BUTTONS" -> BREATH_SOURCE_BUTTONS
    [] OTHER -> BREATH_SOURCE_BATTERY

\* The priority of set_breath_light_locked (lights.c:245): in whatever order
\* the sources go on and off, the LED is dark when none of them wants it and
\* else shows the most important one that does, again from the first call
\* after a restart that left the LED burning.
LedShowsMostImportant ==
  told => /\ led.blink = (Wanting # {})
          /\ Wanting # {} => Shown = MostImportant(Wanting)

\* A notification that is shown flashes with the pauses last asked for: those
\* of other patterns, which stay in the files, do not get into its own.
PausesAreAsked ==
  LET n == asked[BREATH_SOURCE_NOTIFICATION]
  IN led.blink /\ told /\ Shown = BREATH_SOURCE_NOTIFICATION /\ Flashing(n)
     => /\ "LOOP" \in led.flags
        /\ n.onMS > 0 => led.hi = n.onMS
        /\ n.offMS > 0 => led.lo = n.offMS

\* The LED follows the sources: the right pattern with the right pauses.
LedFollowsSources == LedShowsMostImportant /\ PausesAreAsked
==============================================================================
