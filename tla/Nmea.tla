--------------------------------- MODULE Nmea ---------------------------------
(***************************************************************************)
(* The NMEA sentences loc_eng_nmea.cpp makes of satellite and position     *)
(* reports, and LocEngReportPosition::proc and LocEngReportSv::proc, which *)
(* call it on the MsgTask thread.  What satellites a fix used and how good *)
(* their geometry was comes with the satellite report; it is kept for the  *)
(* position report after it.  Numbers of the reports stand for these data, *)
(* and a sentence is the record of what is put into it.                    *)
(***************************************************************************)
EXTENDS Integers, Sequences, FiniteSets

CONSTANTS
  Views,             \* sv_list of the reports: sequences of "GP", "GL" and others
  PerSentence,       \* satellites in a GSV sentence; 4
  IntermediatePos,   \* gps.conf INTERMEDIATE_POS
  MaxReports         \* bound: satellite reports of a run

ASSUME NmeaAssumption ==
  /\ Views \subseteq Seq({"GP", "GL", "other"})
  /\ PerSentence \in Nat \ {0}
  /\ IntermediatePos \in BOOLEAN
  /\ MaxReports \in Nat

VARIABLES
  inSession,         \* the adapter's; LocEngSession has what becomes of it
  recurrence,        \* "single" or "periodic"
  muted,             \* mute_session_state is IN_SESSION
  sv_used_mask,      \* the report it is of, and how many satellites are in it
  dop,               \* the report pdop, hdop and vdop are of; 0 if they are 0
  reports,           \* satellite reports so far
  view,              \* sv_list of the report this step handled
  sent,              \* the sentences this step sent
  uses               \* history: how often a report's satellites were in a fix

nmeaVars == <<inSession, recurrence, muted, sv_used_mask, dop, reports, view, sent, uses>>

-----------------------------------------------------------------------------
(* loc_eng_nmea_generate_sv                                                *)

NoneUsed == [report |-> 0, count |-> 0]

InView(svs, talker) == Cardinality({n \in 1..Len(svs) : svs[n] = talker})

TotalSentencesFloor(total) == total \div PerSentence   \* fault: the rest is dropped
TotalSentences(total) ==
  total \div PerSentence + (IF total % PerSentence # 0 THEN 1 ELSE 0)

\* A satellite goes to the sentence that is being filled, or to a new one if
\* that is full.
Listed(gsv, n) ==
  LET last == Len(gsv)
  IN IF last = 0 \/ Len(gsv[last]) = PerSentence
     THEN Append(gsv, <<n>>)
     ELSE [gsv EXCEPT ![last] = Append(@, n)]

\* The satellites of the talker as the loops come to them
Filled(svs, talker) ==
  LET among[n \in 0..Len(svs)] ==      \* the first n satellites
        IF n = 0 THEN <<>>
        ELSE IF svs[n] # talker THEN among[n - 1]
        ELSE Listed(among[n - 1], n)
  IN among[Len(svs)]

GsvSentence(svs, talker, number) ==
  [type |-> "GSV", talker |-> talker, of |-> TotalSentences(InView(svs, talker)),
   number |-> number, total |-> InView(svs, talker),
   listed |-> IF number <= Len(Filled(svs, talker)) THEN Filled(svs, talker)[number] ELSE <<>>]

BlankGsv(talker) ==
  [type |-> "GSV", talker |-> talker, of |-> 1, number |-> 1, total |-> 0, listed |-> <<>>]

Gsv(svs, talker) ==
  IF InView(svs, talker) = 0 THEN <<BlankGsv(talker)>>
  ELSE [number \in 1..TotalSentences(InView(svs, talker)) |-> GsvSentence(svs, talker, number)]

-----------------------------------------------------------------------------
(* loc_eng_nmea_generate_pos                                               *)

FixType(count) == IF count = 0 THEN "1" ELSE IF count <= 3 THEN "2" ELSE "3"

\* The data of the position report come first, then those that were kept.
OwnDop == -1
DopOf(position) == IF position.hasDop THEN OwnDop ELSE dop

Gsa(position) ==
  [type |-> "GSA", fix |-> FixType(sv_used_mask.count), used |-> sv_used_mask,
   dop |-> DopOf(position)]

\* 'N' for no fix, 'A' for autonomous, 'D' for differential
Indicator(position) ==
  IF ~position.hasLatLong THEN "N" ELSE IF position.standalone THEN "A" ELSE "D"

Vtg(position) == [type |-> "VTG", mode |-> Indicator(position)]

\* The status is "A", for valid, whatever the indicator is.
Rmc(position) == [type |-> "RMC", status |-> "A", mode |-> Indicator(position)]

Quality(position) ==
  IF ~position.hasLatLong THEN "0" ELSE IF position.standalone THEN "1" ELSE "2"

Gga(position) ==
  [type |-> "GGA", quality |-> Quality(position), count |-> sv_used_mask.count,
   dop |-> DopOf(position)]

Blank ==
  << [type |-> "GSA", fix |-> "1", used |-> NoneUsed, dop |-> 0],
     [type |-> "VTG", mode |-> "N"],
     [type |-> "RMC", status |-> "V", mode |-> "N"],
     [type |-> "GGA", quality |-> "0", count |-> 0, dop |-> 0] >>

ForgetUsed == sv_used_mask' = NoneUsed

\* The satellites are forgotten when they were told, and kept over a fix that
\* was not reported; the geometry is forgotten either way.
GeneratePos(position, final) ==
  /\ IF final
     THEN /\ sent' = <<Gsa(position), Vtg(position), Rmc(position), Gga(position)>>
          /\ ForgetUsed
          /\ uses' = IF sv_used_mask.report = 0 THEN uses
                     ELSE [uses EXCEPT ![sv_used_mask.report] = @ + 1]
     ELSE sent' = Blank /\ UNCHANGED <<sv_used_mask, uses>>
  /\ dop' = 0

-----------------------------------------------------------------------------
(* The messages                                                            *)

Positions ==
  [status : {"SUCCESS", "INTERMEDIATE", "FAILURE"}, located : BOOLEAN,
   inaccurate : BOOLEAN, hasDop : BOOLEAN, hasLatLong : BOOLEAN, standalone : BOOLEAN]

\* Whether location_cb is called: for a failure, for a final fix of satellites
\* or sensors, and for any fix that is good enough where intermediate ones
\* are accepted.
Reported(position) ==
  \/ position.status = "FAILURE"
  \/ position.status = "SUCCESS" /\ position.located
  \/ IntermediatePos /\ ~position.inaccurate

\* LocEngReportPosition::proc.  A single fix ends the session, and with it
\* the sentences, its own included.
ReportPosition(position) ==
  LET ends == Reported(position) /\ recurrence = "single"
  IN /\ IF muted THEN UNCHANGED inSession ELSE inSession' = (inSession /\ ~ends)
     /\ IF ~muted /\ inSession'
        THEN GeneratePos(position, Reported(position) /\ position.status # "FAILURE")
        ELSE sent' = <<>> /\ UNCHANGED <<sv_used_mask, dop, uses>>
     /\ view' = <<>>
     /\ UNCHANGED <<recurrence, muted, reports>>

DopAfter(number, hasDop) == IF hasDop THEN number ELSE 0

\* LocEngReportSv::proc
ReportSv(svs, count, hasDop) ==
  /\ reports < MaxReports /\ reports' = reports + 1
  /\ IF muted THEN UNCHANGED <<sv_used_mask, dop>> /\ sent' = <<>> /\ view' = <<>>
     ELSE /\ sent' = Gsv(svs, "GP") \o Gsv(svs, "GL")
          /\ view' = svs
          /\ sv_used_mask' = IF count = 0 THEN NoneUsed
                             ELSE [report |-> reports', count |-> count]
          /\ dop' = DopAfter(reports', hasDop)
  /\ UNCHANGED <<inSession, recurrence, muted, uses>>

\* What other messages do between the reports.
SessionChanges ==
  /\ inSession' \in BOOLEAN /\ recurrence' \in {"single", "periodic"} /\ muted' \in BOOLEAN
  /\ view' = <<>> /\ sent' = <<>>
  /\ UNCHANGED <<sv_used_mask, dop, reports, uses>>

\* generateNmea, where gps.conf makes the AP the NMEA provider
NmeaInit ==
  /\ inSession = FALSE /\ recurrence = "periodic" /\ muted = FALSE
  /\ sv_used_mask = NoneUsed /\ dop = 0
  /\ reports = 0
  /\ view = <<>> /\ sent = <<>>
  /\ uses = [r \in 1..MaxReports |-> 0]

NmeaNext ==
  \/ \E position \in Positions : ReportPosition(position)
  \/ \E svs \in Views, count \in {0, 3, 4}, hasDop \in BOOLEAN : ReportSv(svs, count, hasDop)
  \/ SessionChanges

NmeaSpec == NmeaInit /\ [][NmeaNext]_nmeaVars

-----------------------------------------------------------------------------
(* Properties                                                              *)

Sent(type) == {i \in 1..Len(sent) : sent[i].type = type}

\* "clear the cache so they can't be used again": the satellites and the
\* geometry of a satellite report are in the sentences of one fix at most,
\* and a fix has the two from the same report, whatever was reported, muted or
\* refused in between.
SatellitesUsedOnce ==
  /\ \A r \in 1..MaxReports : uses[r] <= 1
  /\ \A i \in Sent("GSA") :
       sent[i].used.report # 0 /\ sent[i].dop \in 1..MaxReports
         => sent[i].dop = sent[i].used.report

Talking(talker) == {i \in Sent("GSV") : sent[i].talker = talker}

\* The satellites of the talker in the order of the report, sentence by sentence:
\* each in one, all sentences full but the last one.
Lists(svs, gsv, talker) ==
  /\ \A k \in DOMAIN gsv : \A i \in DOMAIN gsv[k] :
       gsv[k][i] \in DOMAIN svs /\ svs[gsv[k][i]] = talker
  /\ \A n \in DOMAIN svs : svs[n] = talker =>
       \E k \in DOMAIN gsv : \E i \in DOMAIN gsv[k] : gsv[k][i] = n
  /\ \A k, l \in DOMAIN gsv : \A i \in DOMAIN gsv[k], j \in DOMAIN gsv[l] :
       k < l \/ (k = l /\ i < j) => gsv[k][i] < gsv[l][j]
  /\ \A k, l \in DOMAIN gsv : k < l => Len(gsv[k]) = PerSentence

\* The sentences of the talker are the next so many after those before.
Block(talker, before, count) ==
  /\ Talking(talker) = (before + 1)..(before + count)
  /\ Lists(view, [k \in 1..count |-> sent[before + k].listed], talker)
  /\ \A k \in 1..count :
       LET s == sent[before + k]
       IN /\ s.number = k /\ s.of = count
          /\ s.total = InView(view, talker)
          /\ Len(s.listed) \in (IF s.total = 0 THEN {0} ELSE 1..PerSentence)

\* Sentence by sentence the satellites of a system are told once each, in the
\* order of the report, and the header of every sentence is right.
GsvIsComplete ==
  \A talker \in {"GP", "GL"} : Talking(talker) # {} =>
    \E before \in 0..Len(sent), count \in 1..Len(sent) : Block(talker, before, count)

\* The sentences of a fix and of a satellite report agree with what was reported.
SentencesAgree == SatellitesUsedOnce /\ GsvIsComplete
==============================================================================
