-------------------------------- MODULE Config --------------------------------
(***************************************************************************)
(* gps.conf and sap.conf, the updates of the framework, and the target     *)
(* they are read for: loc_cfg.cpp, loc_target.cpp and their use.  A line   *)
(* is what loc_fill_conf_item makes of it: a name and a value; trimming    *)
(* and the parsing of numbers are left out.  CAPABILITIES is a number      *)
(* whose last bit stands for GPS_CAPABILITY_MSA and _MSB.                  *)
(***************************************************************************)
EXTENDS Integers, Sequences, FiniteSets, FiniteSetsExt

CONSTANTS
  Tables,      \* the names in gps_conf_table, sap_conf_table and loc_param_table
  Default,     \* a value for every name
  Valid,       \* names with a validity flag
  Updatable,   \* names of gps_conf that an update may change
  GpsFiles, SapFiles, Updates,  \* sequences of lines
  Devices      \* what the properties and files of the device say

Names == Tables.gps \cup Tables.sap \cup Tables.log

\* No name is in two tables; an update changes some of gps_conf, and not the
\* capabilities, which are a number wherever they are told.
ASSUME ConfAssumption ==
  /\ \A table \in {Tables.gps, Tables.sap, Tables.log} : IsFiniteSet(table)
  /\ Tables.gps \cap Tables.sap = {} /\ Tables.gps \cap Tables.log = {}
  /\ Tables.sap \cap Tables.log = {}
  /\ "CAPABILITIES" \in Tables.gps
  /\ Updatable \subseteq Tables.gps \ {"CAPABILITIES"}
  /\ Default = [p \in Names |-> Default[p]] /\ Default["CAPABILITIES"] \in Int
  /\ \A lines \in GpsFiles \cup SapFiles \cup Updates :
       /\ Len(lines) \in Nat
       /\ \A i \in 1..Len(lines) :
            lines[i].name = "CAPABILITIES" => lines[i].value \in Int
  /\ \A d \in Devices : d.board \in BOOLEAN

VARIABLES
  device, qca,         \* the device, and its property sys.qca1530
  gTarget,
  conf,                \* gps_conf, sap_conf, DEBUG_LEVEL and TIMESTAMP
  valid,               \* names whose validity flag is set
  configAlreadyRead,
  handed,              \* get_gps_interface has returned the interface
  taken                \* history: what the last call read, over which values

confVars == <<device, qca, gTarget, conf, valid, configAlreadyRead, handed, taken>>

Unset == "unset"

-----------------------------------------------------------------------------
(* loc_cfg.cpp                                                             *)

\* loc_fill_conf_item and loc_set_config_entry: num_params goes down with every
\* entry that is set.
Fill(table, state, line) ==
  IF state.num_params = 0 THEN state
  ELSE IF line.name \in table
  THEN [num_params |-> state.num_params - 1,
        conf |-> [state.conf EXCEPT ![line.name] = line.value],
        valid |-> state.valid \cup ({line.name} \cap Valid),
        read |-> state.read + 1]
  ELSE [state EXCEPT !.read = @ + 1]

FillAll(table, state, lines) ==
  LET after[i \in 0..Len(lines)] ==     \* the first i lines
        IF i = 0 THEN state ELSE Fill(table, after[i - 1], lines[i])
  IN after[Len(lines)]

\* loc_read_conf_r reads until it has set as many entries as the table has.
ReadTable(table, state, lines) ==
  FillAll(table, [num_params |-> Cardinality(table), conf |-> state.conf,
                  valid |-> state.valid \ table, read |-> 0], lines)

\* fault: loc_read_conf does not rewind the file
ReadFileOn(table, state, lines) ==
  LET first == ReadTable(table, state, lines)
  IN ReadTable(Tables.log, first, SubSeq(lines, first.read + 1, Len(lines)))

\* loc_read_conf: the file is read for the table, and from its start again for
\* the log parameters.
ReadFile(table, state, lines) ==
  ReadTable(Tables.log, ReadTable(table, state, lines), lines)

\* loc_update_conf starts with one entry less than the table has.
UpdateTable(table, old, lines) ==
  FillAll(table, [num_params |-> Cardinality(table) - 1, conf |-> old,
                  valid |-> valid, read |-> 0], lines).conf

-----------------------------------------------------------------------------
(* loc_target.cpp                                                          *)

\* is_qca1530 waits up to QCA1530_DETECT_TIMEOUT for the detection.
AfterWait == IF qca = "detect" THEN {"yes", "no", "detect"} ELSE {qca}

\* The rest of loc_get_target; on a board of the Liquid, Surf and MTP kinds
\* without /dev/mdm it stays unset.
DetectTarget ==
  IF device.baseband = "auto" THEN "AUTO"
  ELSE IF device.baseband = "apq" THEN IF device.id = "mpq" THEN "MPQ" ELSE "APQ_SA"
  ELSE IF device.board THEN IF device.mdm THEN "MDM" ELSE Unset
  ELSE IF device.id = "msm8930" THEN "MSM_NO_SSC" ELSE "UNKNOWN"

loc_get_target ==
  IF gTarget # Unset THEN UNCHANGED <<gTarget, qca>>
  ELSE \E now \in AfterWait :
         qca' = now /\ gTarget' = IF now = "yes" THEN "QCA1530" ELSE DetectTarget

-----------------------------------------------------------------------------
(* Their use                                                               *)

\* loc_eng_read_config, once: the defaults, then the two files.
ReadConfig(gps, sap) ==
  LET start == [num_params |-> 0, conf |-> Default, valid |-> {}, read |-> 0]
  IN ReadFile(Tables.sap, ReadFile(Tables.gps, start, gps), sap)

Unassisted(capabilities) == capabilities - (capabilities % 2)
Standalone == {"APQ_SA", "AUTO", "QCA1530"}

\* get_gps_interface: the capabilities go by the target.
GetInterface(gps, sap) ==
  /\ loc_get_target
  /\ configAlreadyRead' = TRUE
  /\ LET state == IF configAlreadyRead THEN [conf |-> conf, valid |-> valid]
                  ELSE ReadConfig(gps, sap)
     IN /\ conf' = IF gTarget' \in Standalone
                   THEN [state.conf EXCEPT !["CAPABILITIES"] = Unassisted(@)]
                   ELSE state.conf
        /\ valid' = state.valid
  /\ handed' = (gTarget' # "MPQ")
  /\ taken' = IF configAlreadyRead THEN [by |-> "nothing"]
              ELSE [by |-> "files", gps |-> gps, sap |-> sap]
  /\ UNCHANGED device

\* LocContext and loc_init ask for the target later.
AskTarget ==
  /\ handed
  /\ loc_get_target
  /\ UNCHANGED <<device, conf, valid, configAlreadyRead, handed, taken>>

\* loc_eng_configuration_update stores the old values back but for some.
Restored(old, new) == [p \in Names |-> IF p \in Updatable THEN new[p] ELSE old[p]]

ConfigurationUpdate(lines) ==
  /\ handed
  /\ conf' = Restored(conf, UpdateTable(Tables.gps, conf, lines))
  /\ taken' = [by |-> "update", lines |-> lines, old |-> conf]
  /\ UNCHANGED <<device, qca, gTarget, valid, configAlreadyRead, handed>>

DetectionEnds ==
  /\ qca = "detect"
  /\ qca' \in {"yes", "no"}
  /\ UNCHANGED <<device, gTarget, conf, valid, configAlreadyRead, handed, taken>>

-----------------------------------------------------------------------------
ConfInit ==
  /\ device \in Devices
  /\ qca \in {"yes", "no", "detect"}
  /\ gTarget = Unset
  /\ conf = [p \in Names |-> 0] /\ valid = {}
  /\ configAlreadyRead = FALSE /\ handed = FALSE
  /\ taken = [by |-> "nothing"]

ConfNext ==
  \/ \E gps \in GpsFiles, sap \in SapFiles :
       /\ configAlreadyRead => gps = <<>> /\ sap = <<>>
       /\ GetInterface(gps, sap)
  \/ AskTarget
  \/ \E lines \in Updates : ConfigurationUpdate(lines)
  \/ DetectionEnds

ConfSpec == ConfInit /\ [][ConfNext]_confVars

-----------------------------------------------------------------------------
(* Properties                                                              *)

Naming(lines, p) == {i \in 1..Len(lines) : lines[i].name = p}
NamesEachOnce(lines, table) == \A p \in table : Cardinality(Naming(lines, p)) <= 1
ValueIn(lines, p, otherwise) ==
  IF Naming(lines, p) = {} THEN otherwise ELSE lines[Max(Naming(lines, p))].value

\* A parameter has the value that its file gives it, whatever else is in the
\* file and in whatever order, if no parameter of the table is there twice: with
\* one that is, the rest of the file may be left unread.  A log parameter goes by
\* the last file that has it, and validity flags tell what the file had.
FilesCount ==
  taken.by = "files" =>
    /\ NamesEachOnce(taken.gps, Tables.gps) =>
         \A p \in Tables.gps :
           LET said == ValueIn(taken.gps, p, Default[p])
           IN conf[p] = said \/ (p = "CAPABILITIES" /\ conf[p] = Unassisted(said))
    /\ NamesEachOnce(taken.sap, Tables.sap) =>
         \A p \in Tables.sap : /\ conf[p] = ValueIn(taken.sap, p, Default[p])
                               /\ (p \in valid) = (p \in Valid /\ Naming(taken.sap, p) # {})
    /\ NamesEachOnce(taken.gps, Tables.log) /\ NamesEachOnce(taken.sap, Tables.log) =>
         \A p \in Tables.log :
           conf[p] = ValueIn(taken.sap, p, ValueIn(taken.gps, p, Default[p]))

\* An update that names less than all of the parameters, each once, sets those
\* that may be updated, and no update changes any other.
UpdatesCount ==
  taken.by = "update" =>
    /\ \A p \in Names \ Updatable : conf[p] = taken.old[p]
    /\ (NamesEachOnce(taken.lines, Tables.gps)
          /\ \E p \in Tables.gps : Naming(taken.lines, p) = {})
       => \A p \in Updatable : conf[p] = ValueIn(taken.lines, p, taken.old[p])

\* Where the modem has no assistance the capabilities do not say that it has,
\* whatever the files say, and updates after them; but on a board without
\* /dev/mdm, whose target stays undetermined and is asked for again.
TargetCounts == gTarget \in Standalone /\ handed /\ ~device.board
                  => conf["CAPABILITIES"] % 2 = 0

\* The configuration is what the files, the updates and the target make it.
ConfigCounts == FilesCount /\ UpdatesCount /\ TargetCounts
===============================================================================
