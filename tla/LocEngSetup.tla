------------------------------ MODULE LocEngSetup ------------------------------
(***************************************************************************)
(* Setting up the location engine: loc_eng_init and loc_eng_agps_init, the *)
(* settings the framework makes before and after them, and their return to *)
(* a modem that restarted (loc_eng_reinit, loc_eng_agps_reinit).           *)
(*                                                                         *)
(* The framework's thread stores each setting in a global and posts it to  *)
(* the MsgTask.  The MsgTask passes it to the modem, and when the engine   *)
(* was opened or came up again it reads the globals, without a lock, and   *)
(* posts all of them to itself.  Reading a global and posting what was     *)
(* read are two steps, and so are the stores of a call.                    *)
(*                                                                         *)
(* Three settings stand for all: the SUPL server (in loc_eng_data), the    *)
(* availability of data (agpsStatus) and the SUPL version (in gps_conf, as *)
(* are the LPP profile and A-GLONASS; the sensor settings never change).   *)
(* The values are the numbers of the calls that set them.  The modem is    *)
(* external; it forgets all settings when it crashes.  The GPS lock stays  *)
(* in it, and power votes are for another target.                          *)
(***************************************************************************)
EXTENDS Naturals, Sequences

CONSTANTS
  MaxCalls,      \* bound: settings the framework makes
  MaxRestarts    \* bound: crashes of the modem

ASSUME SetupAssumption ==
  MaxCalls \in Nat /\ MaxRestarts \in Nat

VARIABLES
  adapter,      \* whether loc_eng_data.adapter is set
  agps,         \* whether loc_eng_data.agps_status_cb and agnss_nif are
  supl,         \* supl_host_buf, supl_port_buf, supl_host_set of loc_eng_data
  agpsStatus,
  gps_conf,     \* SUPL_VER, and whether CAPABILITIES has MEASUREMENTS
  framework,    \* the call its thread is in, and gps_conf_tmp
  queue,        \* messages of the MsgTask
  task,         \* what the MsgTask has still to post in reinit, and the
                \* message in its hand
  modem,        \* its connection: "closed", "open", "down", "back" (up, but
                \* not announced); and the settings it has
  told,         \* the capabilities the framework was told, {"unknown"} until then
  calls, restarts,
  silent,       \* whether agpsStatus is one that was stored without a message
  overlap       \* whether a setting was made while the MsgTask was in reinit

settings == <<supl, agpsStatus, gps_conf>>
history == <<calls, restarts, silent>>
vars == <<adapter, agps, settings, framework, queue, task, modem, told, history, overlap>>

Calls == 0..MaxCalls
Default == MaxCalls + 1    \* what a modem goes by that was told nothing

Msg(type, value) == [type |-> type, value |-> value]
Idle == [at |-> "idle", value |-> 0, tmp |-> [ver |-> 0, measurements |-> FALSE]]
NothingToDo == [todo |-> <<>>, hand |-> <<>>]
Unset == [host |-> 0, port |-> 0, set |-> FALSE]
Fresh(connection) ==
  [connection |-> connection, ver |-> Default, data |-> Default,
   server |-> [host |-> Default, port |-> Default]]

Init ==
  /\ adapter = FALSE /\ agps = FALSE
  /\ supl = Unset
  /\ agpsStatus = 0
  /\ gps_conf = [ver |-> 0, measurements |-> FALSE]
  /\ framework = Idle
  /\ queue = <<>>
  /\ task = NothingToDo
  /\ modem = Fresh("closed")
  /\ told = {"unknown"}
  /\ calls = 0 /\ restarts = 0 /\ silent = FALSE
  /\ overlap = FALSE

-----------------------------------------------------------------------------
(* Faults: variants of the steps below with a plausible bug, standing in   *)
(* for them when the project checks that a property can fail.              *)

SendOnlyBeforeAgps(m) ==   \* kept for loc_eng_agps_reinit, which was already
  IF adapter /\ ~agps THEN queue' = Append(queue, m) ELSE UNCHANGED queue

ReinitWithoutAgps(m) ==    \* loc_eng_agps_reinit forgotten
  <<"Constellation", "SuplVer", "EnableData", "Capabilities">>

-----------------------------------------------------------------------------
(* The framework's thread                                                  *)

Busy == task # NothingToDo

\* loc_eng_init: the second one returns, since nobody deletes the adapter.
\* The constructor of the adapter posts a LocOpenMsg (addAdapter).
LocInit ==
  /\ framework.at = "idle"
  /\ IF adapter
     THEN UNCHANGED <<adapter, agps, supl, queue, framework>>
     ELSE /\ supl' = Unset /\ agps' = FALSE     \* memset
          /\ adapter' = TRUE
          /\ queue' = Append(queue, Msg("Open", 0))
          /\ framework' = [framework EXCEPT !.at = "created"]
  /\ UNCHANGED <<agpsStatus, gps_conf, task, modem, told, history, overlap>>

PostInit ==
  /\ framework.at = "created" /\ framework' = Idle
  /\ queue' = Append(queue, Msg("Init", 0))
  /\ UNCHANGED <<adapter, agps, settings, task, modem, told, history, overlap>>

\* loc_eng_agps_init with loc_eng_agps_reinit, where MSA or MSB is configured.
AgpsInit ==
  /\ framework.at = "idle" /\ adapter /\ ~agps
  /\ agps' = TRUE
  /\ queue' = IF supl.set THEN Append(queue, Msg("SetServer", [host |-> supl.host, port |-> supl.port]))
                          ELSE queue
  /\ UNCHANGED <<adapter, settings, framework, task, modem, told, history, overlap>>

\* A call that makes a setting: its first store, and the rest of it.
Begins(at) ==
  /\ framework.at = "idle" /\ calls < MaxCalls
  /\ calls' = calls + 1
  /\ framework' = [at |-> at, value |-> calls + 1, tmp |-> IF at = "updated" THEN gps_conf ELSE Idle.tmp]
  /\ overlap' = (overlap \/ Busy)
  /\ UNCHANGED <<adapter, agps, queue, task, modem, told, restarts>>

Goes(from, to) ==
  /\ framework.at = from
  /\ framework' = IF to = "idle" THEN Idle ELSE [framework EXCEPT !.at = to]
  /\ overlap' = (overlap \/ Busy)
  /\ UNCHANGED <<adapter, agps, task, modem, told, history>>

Send(m) == IF adapter THEN queue' = Append(queue, m) ELSE UNCHANGED queue

\* loc_eng_set_server_proxy
SetServer ==
  \/ /\ Begins("host")
     /\ supl' = [supl EXCEPT !.host = calls + 1]
     /\ UNCHANGED <<agpsStatus, gps_conf, silent>>
  \/ /\ Goes("host", "server")
     /\ supl' = [supl EXCEPT !.port = framework.value, !.set = TRUE]
     /\ UNCHANGED <<agpsStatus, gps_conf, queue>>
  \/ /\ Goes("server", "idle")
     /\ Send(Msg("SetServer", [host |-> framework.value, port |-> framework.value]))
     /\ UNCHANGED settings

\* loc_eng_agps_ril_update_network_availability: what is stored is sent only
\* with an APN.
UpdateNetworkAvailability ==
  \/ /\ Begins("network")
     /\ agpsStatus' = calls + 1
     /\ \E apn \in BOOLEAN : silent' = (adapter /\ ~apn)
     /\ UNCHANGED <<supl, gps_conf>>
  \/ /\ Goes("network", "idle")
     /\ IF silent THEN UNCHANGED queue ELSE Send(Msg("EnableData", framework.value))
     /\ UNCHANGED settings

\* loc_eng_configuration_update copies gps_conf, updates and sends what it
\* will keep, and then stores the copy with that.
ConfigurationUpdate ==
  \/ /\ Begins("updated")
     /\ gps_conf' = [gps_conf EXCEPT !.ver = calls + 1]
     /\ UNCHANGED <<supl, agpsStatus, silent>>
  \/ /\ Goes("updated", "sent")
     /\ Send(Msg("SuplVer", framework.value))
     /\ UNCHANGED settings
  \/ /\ Goes("sent", "idle")
     /\ gps_conf' = [framework.tmp EXCEPT !.ver = gps_conf.ver]
     /\ UNCHANGED <<supl, agpsStatus, queue>>

Framework ==
  LocInit \/ PostInit \/ AgpsInit \/ SetServer \/ UpdateNetworkAvailability \/ ConfigurationUpdate

-----------------------------------------------------------------------------
(* The MsgTask thread                                                      *)

Proc(type) ==
  /\ ~Busy
  /\ queue # <<>> /\ Head(queue).type = type
  /\ queue' = Tail(queue)

\* LocOpenMsg; LocSsrMsg closes first.
ProcOpen ==
  /\ Proc("Open") \/ Proc("Ssr")
  /\ modem' = IF modem.connection = "closed" THEN [modem EXCEPT !.connection = "open"] ELSE modem
  /\ UNCHANGED <<adapter, agps, settings, framework, task, told, history, overlap>>

\* What LocEngInit and loc_eng_handle_engine_up post, in this order.
ReinitPosts(m) ==
  IF m.type = "Init" THEN <<"Constellation", "SuplVer", "EnableData", "Capabilities">>
                     ELSE <<"Constellation", "SuplVer", "EnableData", "SetServer">>

ProcReinit ==
  /\ Proc("Init") \/ Proc("EngineUp")
  /\ task' = [task EXCEPT !.todo = ReinitPosts(Head(queue))]
  /\ UNCHANGED <<adapter, agps, settings, framework, modem, told, history, overlap>>

Current(type) ==
  CASE type = "SuplVer" -> gps_conf.ver
    [] type = "EnableData" -> agpsStatus
    [] type = "SetServer" -> [host |-> supl.host, port |-> supl.port]
    [] OTHER -> 0

\* The server is posted only if it was set and AGPS is initialised.
ReadSetting ==
  /\ task.todo # <<>> /\ task.hand = <<>>
  /\ LET type == Head(task.todo) IN
       task' = [todo |-> Tail(task.todo),
                hand |-> IF type = "SetServer" /\ ~(agps /\ supl.set) THEN <<>>
                         ELSE <<Msg(type, Current(type))>>]
  /\ UNCHANGED <<adapter, agps, settings, framework, queue, modem, told, history, overlap>>

PostSetting ==
  /\ task.hand # <<>> /\ task' = [task EXCEPT !.hand = <<>>]
  /\ queue' = Append(queue, task.hand[1])
  /\ UNCHANGED <<adapter, agps, settings, framework, modem, told, history, overlap>>

\* The setting reaches a modem that is connected.
ProcSetting ==
  /\ Proc("SuplVer") \/ Proc("EnableData") \/ Proc("SetServer")
  /\ LET m == Head(queue) IN
       modem' = IF modem.connection # "open" THEN modem
                ELSE CASE m.type = "SuplVer" -> [modem EXCEPT !.ver = m.value]
                       [] m.type = "EnableData" -> [modem EXCEPT !.data = m.value]
                       [] m.type = "SetServer" -> [modem EXCEPT !.server = m.value]
  /\ UNCHANGED <<adapter, agps, settings, framework, task, told, history, overlap>>

\* The modem tells whether it supports measurements, which goes to gps_conf.
ProcConstellation ==
  /\ Proc("Constellation")
  /\ gps_conf' = IF modem.connection = "open" THEN [gps_conf EXCEPT !.measurements = TRUE] ELSE gps_conf
  /\ overlap' = (overlap \/ framework.at \in {"updated", "sent"})
  /\ UNCHANGED <<adapter, agps, supl, agpsStatus, framework, task, modem, told, history>>

ProcCapabilities ==
  /\ Proc("Capabilities")
  /\ told' = IF gps_conf.measurements THEN {"MEASUREMENTS"} ELSE {}
  /\ UNCHANGED <<adapter, agps, settings, framework, task, modem, history, overlap>>

MsgTask ==
  ProcOpen \/ ProcReinit \/ ReadSetting \/ PostSetting \/ ProcSetting
    \/ ProcConstellation \/ ProcCapabilities

-----------------------------------------------------------------------------
(* The modem                                                               *)

Crash ==
  /\ adapter /\ restarts < MaxRestarts /\ modem.connection \in {"closed", "open"}
  /\ restarts' = restarts + 1
  /\ modem' = Fresh("down")
  /\ UNCHANGED <<adapter, agps, settings, framework, queue, task, told, calls, silent, overlap>>

Return ==
  /\ modem.connection = "down" /\ modem' = [modem EXCEPT !.connection = "back"]
  /\ UNCHANGED <<adapter, agps, settings, framework, queue, task, told, history, overlap>>

\* LocApiBase::handleEngineUpEvent
Announce ==
  /\ modem.connection = "back" /\ modem' = [modem EXCEPT !.connection = "closed"]
  /\ queue' = queue \o <<Msg("Ssr", 0), Msg("EngineUp", 0)>>
  /\ UNCHANGED <<adapter, agps, settings, framework, task, told, history, overlap>>

Modem == Crash \/ Return \/ Announce

-----------------------------------------------------------------------------
Next == Framework \/ MsgTask \/ Modem

Spec == Init /\ [][Next]_vars

\* The MsgTask runs, a call that has begun goes on, and a modem that crashed
\* comes back.
FairSpec ==
  Spec /\ WF_vars(MsgTask) /\ WF_vars(framework.at # "idle" /\ Framework)
       /\ WF_vars(Return \/ Announce)

-----------------------------------------------------------------------------
(* Properties                                                              *)

Versions == [ver : Calls, measurements : BOOLEAN]
Servers == [host : Calls \cup {Default}, port : Calls \cup {Default}]
SettingTypes == {"Constellation", "SuplVer", "EnableData", "SetServer", "Capabilities"}

\* Each variable has its type.
TypeOK ==
  /\ adapter \in BOOLEAN /\ agps \in BOOLEAN /\ silent \in BOOLEAN /\ overlap \in BOOLEAN
  /\ supl \in [host : Calls, port : Calls, set : BOOLEAN]
  /\ agpsStatus \in Calls
  /\ gps_conf \in Versions
  /\ framework \in [at : {"idle", "created", "host", "server", "network", "updated", "sent"},
                    value : Calls, tmp : Versions]
  /\ \A i \in 1..Len(queue) : queue[i].type \in SettingTypes \cup {"Open", "Ssr", "Init", "EngineUp"}
  /\ \A i \in 1..Len(task.todo) : task.todo[i] \in SettingTypes
  /\ Len(task.hand) <= 1
  /\ modem \in [connection : {"closed", "open", "down", "back"}, ver : Calls \cup {Default},
                data : Calls \cup {Default}, server : Servers]
  /\ told \in {{"unknown"}, {}, {"MEASUREMENTS"}}
  /\ calls \in Calls /\ restarts \in 0..MaxRestarts

\* Everything that was under way has arrived.
Quiet == adapter /\ framework.at = "idle" /\ ~Busy /\ queue = <<>> /\ modem.connection = "open"

\* Nothing that is stored stays missing in the modem, whenever it restarted
\* and however often loc_init is called: sooner or later loc_eng_reinit or
\* loc_eng_agps_reinit tells it ("singled out for modem restart to use").
NothingStaysMissing ==
  /\ (adapter /\ modem.ver = Default) ~> modem.ver # Default
  /\ (adapter /\ modem.data = Default) ~> modem.data # Default
  /\ (agps /\ supl.set /\ modem.server = Fresh("open").server) ~> modem.server # Fresh("open").server

\* The modem goes by the last value of every setting, unless one was ever made
\* while the MsgTask was between reading the stored value and posting it; not
\* by an availability that came without an APN, which is only stored; and by
\* the server that is stored, once loc_eng_agps_init was called.
LastSettingCounts ==
  Quiet /\ ~overlap =>
    /\ modem.ver = gps_conf.ver
    /\ ~silent => modem.data = agpsStatus
    /\ agps /\ supl.set => modem.server = [host |-> supl.host, port |-> supl.port]

\* The framework is told of measurements if the modem supports them, whatever
\* it does meanwhile to gps_conf, but for a copy of gps_conf that was made
\* before the modem answered, and if the modem does not crash.
MeasurementsAreTold ==
  Quiet /\ ~overlap /\ restarts = 0 => told = {"MEASUREMENTS"}

\* "If loc_eng_set_server is called before loc_eng_init, it doesn't work. This
\* proxy buffers server settings and calls loc_eng_set_server when the client
\* is open" (loc_eng.cpp:2569): a server that was buffered stays buffered.
ServerStaysBuffered == [][supl.set => supl'.set]_vars

\* Settings and capabilities, which take opposite ways through the MsgTask,
\* arrive however the two threads and modem restarts interleave, but for
\* settings made during a reinit (overlap) or stored only (silent), and for the
\* capabilities once the modem restarted.
SettingsArrive == LastSettingCounts /\ MeasurementsAreTold
==============================================================================
