-------------------------------- MODULE MCParts --------------------------------
(***************************************************************************)
(* Six components that share nothing, in one instance for TLC: the first  *)
(* state says which of them a behaviour is about, and the others stay as   *)
(* they are at first.                                                      *)
(***************************************************************************)
EXTENDS LocFront, Lights, Doze, LocHeap, Config, Nmea

MCContexts ==
  {[agps |-> FALSE, cpi |-> FALSE, vote |-> TRUE, ondemand |-> TRUE],
   [agps |-> TRUE, cpi |-> TRUE, vote |-> FALSE, ondemand |-> FALSE],
   [agps |-> FALSE, cpi |-> TRUE, vote |-> FALSE, ondemand |-> TRUE],
   [agps |-> FALSE, cpi |-> FALSE, vote |-> FALSE, ondemand |-> FALSE]}

\* Short lists with satellites that are in no sentence, and longer ones without.
MCViews == UNION {[1..n -> {"GP", "GL", "other"}] : n \in 0..3} \cup [1..5 -> {"GP", "GL"}]

MCTables == [gps |-> {"GPS_LOCK", "CAPABILITIES"}, sap |-> {"RANDOM_WALK"},
             log |-> {"DEBUG_LEVEL"}]
MCDefault == [GPS_LOCK |-> 0, CAPABILITIES |-> 1, RANDOM_WALK |-> 0, DEBUG_LEVEL |-> 0]

\* Files that name a parameter of gps.conf twice, and the log level in either.
Line(p, v) == [name |-> p, value |-> v]
GpsLines == {Line("GPS_LOCK", 1), Line("GPS_LOCK", 2), Line("CAPABILITIES", 3),
             Line("DEBUG_LEVEL", 1)}
MCGpsFiles == UNION {[1..n -> GpsLines] : n \in 0..3}
MCSapFiles == {<<>>, <<Line("RANDOM_WALK", 1)>>, <<Line("DEBUG_LEVEL", 2)>>}
MCUpdates == UNION {[1..n -> GpsLines] : n \in 0..2}

\* One device for each way through loc_get_target.
Device(baseband, id, board, mdm) ==
  [baseband |-> baseband, id |-> id, board |-> board, mdm |-> mdm]
MCDevices ==
  {Device("auto", "other", FALSE, FALSE), Device("apq", "mpq", FALSE, FALSE),
   Device("apq", "other", FALSE, FALSE), Device("other", "other", TRUE, TRUE),
   Device("other", "other", TRUE, FALSE), Device("other", "msm8930", FALSE, FALSE),
   Device("other", "other", FALSE, FALSE)}

VARIABLE part

allVars == <<part, vars, confVars, heapVars, ledVars, dozeVars, nmeaVars>>

PartsInit ==
  /\ part \in {"front", "conf", "heap", "lights", "doze", "nmea"}
  /\ Init /\ ConfInit /\ HeapInit /\ LightsInit /\ DozeInit /\ NmeaInit
  /\ part # "front" => context = [agps |-> FALSE, cpi |-> FALSE, vote |-> TRUE, ondemand |-> TRUE]
  /\ part # "heap" => rank = [x \in Items |-> 1]
  /\ part # "conf" => qca = "no" /\ device = Device("other", "other", FALSE, FALSE)
  /\ part # "doze" => ~ambient /\ ~handwave /\ ~pocket

PartsNext ==
  /\ \/ part = "front" /\ Next
          /\ UNCHANGED <<confVars, heapVars, ledVars, dozeVars, nmeaVars>>
     \/ part = "conf" /\ ConfNext
          /\ UNCHANGED <<vars, heapVars, ledVars, dozeVars, nmeaVars>>
     \/ part = "heap" /\ HeapNext
          /\ UNCHANGED <<vars, confVars, ledVars, dozeVars, nmeaVars>>
     \/ part = "lights" /\ LightsNext
          /\ UNCHANGED <<vars, confVars, heapVars, dozeVars, nmeaVars>>
     \/ part = "doze" /\ DozeNext
          /\ UNCHANGED <<vars, confVars, heapVars, ledVars, nmeaVars>>
     \/ part = "nmea" /\ NmeaNext
          /\ UNCHANGED <<vars, confVars, heapVars, ledVars, dozeVars>>
  /\ UNCHANGED part

PartsSpec == PartsInit /\ [][PartsNext]_allVars
================================================================================
