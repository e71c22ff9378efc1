------------------------------ MODULE Reports ------------------------------
(***************************************************************************)
(* The entities that report a state, and who reads them: three lists that  *)
(* nothing in the code ties together.  enabled_entities (entity.rs) says   *)
(* what discovery offers and of which kind, the collectors of each system  *)
(* (collect/) what they put into a snapshot, and Snapshot::to_json_map     *)
(* publishes, for every entity, what stands under its id, or null.  On     *)
(* Windows the session helper collects with the configuration it read when *)
(* it started, which need not be that of the service.                      *)
(*                                                                         *)
(* A value is its type and the reader it is from.  A reading that finds    *)
(* nothing because there is nothing (no battery, no player) counts as one. *)
(***************************************************************************)
EXTENDS Sequences

CONSTANTS
    ReportConfigs,  \* the configuration files considered
    ProcessNames, ListenerNames   \* what `processes:` and `listeners:` may name

OptionalSensors ==
    {"gpu", "estimated_power", "active_application", "active_window_title", "tailscale",
     "wireguard", "lan_ip", "disk", "battery", "wifi", "online", "audio", "mpris", "dnd"}

\* static_entities.
MachineSensors ==
    {"operating_system", "os_version", "hostname", "chassis", "uptime", "cpu_usage",
     "cpu_frequency", "cpu_temperature", "cpu_power", "dram_power", "ram_total", "ram_used",
     "ram_available", "ram_usage", "swap_total", "swap_used", "swap_usage"}
GpuSensors ==
    {"gpu_usage", "gpu_memory_used", "gpu_temperature", "gpu_power", "gpu_driver", "gpu_fan",
     "gpu_power_limit"}
SessionSensors ==
    {"idle_time", "session_type", "desktop_environment", "suspend_inhibit_reason",
     "agent_version", "agent_uptime", "user_active", "suspend_inhibited", "locked"}
DiskSensors ==
    {"disk_root_used", "disk_root_free", "disk_root_usage",
     "disk_home_used", "disk_home_free", "disk_home_usage"}
BatterySensors ==
    {"battery_present", "battery_percent", "battery_charging", "battery_status",
     "battery_health", "battery_cycles", "ac_power"}

\* entity_enabled: the entities by the field of `sensors:` that it asks for.
Sensors ==
    [always |-> MachineSensors \cup SessionSensors,
     gpu |-> GpuSensors,
     estimated_power |-> {"estimated_power"},
     active_application |-> {"active_application"},
     active_window_title |-> {"active_window_title"},
     tailscale |-> {"tailscale_running", "tailscale_ip"},
     wireguard |-> {"wireguard_running", "wireguard_ip"},
     lan_ip |-> {"lan_ip", "lan_rx", "lan_tx"},
     disk |-> DiskSensors,
     battery |-> BatterySensors,
     wifi |-> {"wifi_ssid", "wifi_signal"},
     online |-> {"online"},
     audio |-> {"volume", "muted", "audio_sink"},
     mpris |-> {"media_title", "media_artist", "media_playing"},
     dnd |-> {}]

\* Those created with EntityMeta::binary; and those that have neither a unit nor a
\* state class, so that Home Assistant takes any text.
BinarySensors ==
    {"user_active", "suspend_inhibited", "tailscale_running", "wireguard_running",
     "battery_present", "battery_charging", "ac_power", "locked", "muted", "online",
     "media_playing", "update_available"}
TextSensors ==
    {"operating_system", "os_version", "hostname", "chassis", "gpu_driver", "session_type",
     "desktop_environment", "active_application", "active_window_title",
     "suspend_inhibit_reason", "agent_version", "tailscale_ip", "lan_ip", "wireguard_ip",
     "battery_status", "audio_sink", "wifi_ssid", "media_title", "media_artist"}

RunningId   == [n \in ProcessNames  |-> n \o "_running"]
ListeningId == [n \in ListenerNames |-> n \o "_listening"]

ProcessIds(c)  == {RunningId[n] : n \in c.processes}
ListenerIds(c) == {ListeningId[n] : n \in c.listeners}
SensorIds(c)   == UNION {Sensors[f] : f \in {"always"} \cup c.sensors}
UpdateIds      == {"update_available", "update_latest_version", "update_auto"}

\* The switches; `update_auto` is among UpdateIds.
SwitchIds(c, p) ==
    (c.actions \cap {"caffeine"})
    \cup (IF "audio" \in c.sensors THEN c.actions \cap {"mute"} ELSE {})
    \cup (IF "dnd" \in c.sensors /\ p # "windows" THEN c.actions \cap {"do_not_disturb"}
          ELSE {})

\* The entities of enabled_entities that publish a state.
Reporting(c, p) ==
    (SensorIds(c) \cup ProcessIds(c) \cup ListenerIds(c) \cup SwitchIds(c, p)
     \cup (IF c.update THEN UpdateIds ELSE {})) \ c.disabled

AllSensors == UNION {Sensors[f] : f \in DOMAIN Sensors}
FixedIds   == AllSensors \cup UpdateIds \cup {"caffeine", "mute", "do_not_disturb"}
AllIds == FixedIds \cup {RunningId[n] : n \in ProcessNames}
          \cup {ListeningId[n] : n \in ListenerNames}

\* What the endings of the ids say: no other sensor ends in `_running`, and none in
\* `_listening`.
ASSUME IdAssumption ==
    /\ \A n \in ProcessNames :
           RunningId[n] \notin FixedIds \ {"tailscale_running", "wireguard_running"}
    /\ \A m \in ListenerNames :
           /\ ListeningId[m] \notin FixedIds
           /\ \A n \in ProcessNames : RunningId[n] # ListeningId[m]

ReportConfig ==
    [sensors : SUBSET OptionalSensors, actions : SUBSET {"caffeine", "mute", "do_not_disturb"},
     update : BOOLEAN, processes : SUBSET ProcessNames, listeners : SUBSET ListenerNames,
     disabled : SUBSET AllIds]
ASSUME ReportConfigAssumption == ReportConfigs \subseteq ReportConfig /\ ReportConfigs # {}

-----------------------------------------------------------------------------
(* What the collectors read.  A definition named Fault... is a deliberate    *)
(* fault, put in place of the one that follows it to see a property fail.    *)

Reader(from, numbers, truths, texts) ==
    {[id |-> id, from |-> from, type |-> "number"] : id \in numbers}
    \cup {[id |-> id, from |-> from, type |-> "bool"] : id \in truths}
    \cup {[id |-> id, from |-> from, type |-> "text"] : id \in texts}
On(c, field, readings) == IF field \in c.sensors THEN readings ELSE {}

Identity == Reader("machine", {"uptime"}, {}, {"operating_system", "hostname", "chassis"})
Processor == Reader("machine", {"cpu_usage", "cpu_frequency", "cpu_temperature"}, {}, {"os_version"})
Memory ==
    Reader("machine", {"ram_total", "ram_used", "ram_available", "ram_usage",
                       "swap_total", "swap_used", "swap_usage"}, {}, {})
Gpu == Reader("machine", GpuSensors \ {"gpu_driver"}, {}, {"gpu_driver"})

\* Energy counters, and health and cycles of a battery, are read on Linux only.
Energy(p) == IF p = "linux" THEN Reader("machine", {"cpu_power", "dram_power"}, {}, {}) ELSE {}
Power(p) ==
    Reader("machine",
           {"battery_percent"} \cup (IF p = "linux" THEN {"battery_health", "battery_cycles"}
                                    ELSE {}),
           {"battery_present", "battery_charging", "ac_power"}, {"battery_status"})

Wifi == Reader("wifi", {"wifi_signal"}, {}, {"wifi_ssid"})

Machine(c, p) ==
    Identity \cup Processor \cup Memory \cup Energy(p)
    \cup On(c, "gpu", Gpu)
    \cup On(c, "disk", Reader("machine", DiskSensors, {}, {}))
    \cup On(c, "battery", Power(p))
    \cup On(c, "lan_ip", Reader("machine", {"lan_rx", "lan_tx"}, {}, {}))
    \cup (IF p = "windows" THEN On(c, "wifi", Wifi) ELSE {})

\* A list of processes that cannot be read is an empty one.
Processes(c) == Reader("process", {}, ProcessIds(c), {})

\* Whether tailscale is wanted is not asked.
FaultNetwork(c) ==
    Reader("network", {}, {"tailscale_running"}, {"tailscale_ip"})
    \cup On(c, "wireguard", Reader("network", {}, {"wireguard_running"}, {"wireguard_ip"}))
    \cup On(c, "lan_ip", Reader("network", {}, {}, {"lan_ip"}))
    \cup Reader("network", {}, ListenerIds(c) \ c.disabled, {})

\* WireGuard is looked for only where tailscale is.
FaultNestedNetwork(c) ==
    On(c, "tailscale", Reader("network", {}, {"tailscale_running"}, {"tailscale_ip"})
                       \cup Reader("network", {}, {"wireguard_running"}, {"wireguard_ip"}))
    \cup On(c, "lan_ip", Reader("network", {}, {}, {"lan_ip"}))
    \cup Reader("network", {}, ListenerIds(c) \ c.disabled, {})

\* apply_net: listeners that are disabled are not looked at.
Network(c) ==
    On(c, "tailscale", Reader("network", {}, {"tailscale_running"}, {"tailscale_ip"}))
    \cup On(c, "wireguard", Reader("network", {}, {"wireguard_running"}, {"wireguard_ip"}))
    \cup On(c, "lan_ip", Reader("network", {}, {}, {"lan_ip"}))
    \cup Reader("network", {}, ListenerIds(c) \ c.disabled, {})

\* LinuxSession::collect, audio and dnd; collect_session of the helper.
Session(c, p) ==
    (IF p = "linux" THEN On(c, "wifi", Wifi) ELSE {})
    \cup Reader("session", {"idle_time"},
           {"user_active", "locked", "caffeine", "suspend_inhibited"},
           {"session_type", "desktop_environment", "suspend_inhibit_reason"})
    \cup On(c, "audio", Reader("session", {"volume"}, {"muted"}, {"audio_sink"}))
    \cup On(c, "mpris", Reader("session", {}, {"media_playing"},
                               {"media_title", "media_artist"}))
    \cup On(c, "dnd", Reader("session", {}, {"do_not_disturb"}, {}))
    \cup On(c, "active_application", Reader("session", {}, {}, {"active_application"}))
    \cup On(c, "active_window_title", Reader("session", {}, {}, {"active_window_title"}))

\* What the service says of the session without its helper.
SessionDefaults(c) ==
    Reader("default", {}, {"caffeine"}, {"session_type", "desktop_environment"})
    \cup On(c, "mpris", Reader("default", {}, {"media_playing"}, {}))

\* Read on every tick, after the collectors: the agent, the probe, the update, and
\* the estimate.
Own(c) ==
    Reader("agent", {"agent_uptime"}, {}, {"agent_version"})
    \cup On(c, "online", Reader("agent", {}, {"online"}, {}))
    \cup Reader("agent", {}, {"update_available", "update_auto"},
                IF c.update THEN {"update_latest_version"} ELSE {})
    \cup On(c, "estimated_power", Reader("agent", {"estimated_power"}, {}, {}))

\* What is published beside the states, and the field it is collected for.
AttributeField ==
    [wireguard_ips |-> "wireguard", lan_iface |-> "lan_ip", audio_sink |-> "audio",
     mpris_player |-> "mpris", update_error |-> "always"]
Attributes == DOMAIN AttributeField

\* The session's are set on Linux only; what failed last is an update.
CollectedAttributes(c, p, session, failed) ==
    {a \in {"wireguard_ips", "lan_iface"} : AttributeField[a] \in c.sensors}
    \cup {a \in {"audio_sink", "mpris_player"} :
             p = "linux" /\ session /\ AttributeField[a] \in c.sensors}
    \cup (IF c.update /\ failed THEN {"update_error"} ELSE {})

\* The reading below stays.
FaultOver(below, above) == above \cup below

\* A reading put over those that stand under its id.
Over(below, above) == above \cup {r \in below : ~\E s \in above : s.id = r.id}

\* A tick collects in this order, as far as two of them may read one entity.
Collected(c, p, machine, session) ==
    Over(Over(Over(machine, Processes(c)), Network(c)),
         Over(session, Own(c)))

-----------------------------------------------------------------------------
VARIABLES
    os,        \* the system
    file,      \* the configuration file
    ours,      \* the configuration of the agent; on Windows, of the service
    theirs,    \* Windows: that of the session helper
    hub,       \* Windows: the readings SessionHub holds
    entire,    \* Windows: the helper could read everything of them
    published, \* the readings of the last state message, under the entities it has
    attributes, \* and what stands under its `attrs`
    whole      \* it is of a tick on which everything could be read

reportVars == <<os, file, ours, theirs, hub, entire, published, attributes, whole>>

\* An entity without a reading is published as null.
Null(id) == [id |-> id, from |-> "nobody", type |-> "null"]

ReportInit ==
    /\ os \in {"linux", "windows"}
    /\ file \in ReportConfigs /\ ours = file /\ theirs = file
    /\ hub = {} /\ entire = FALSE
    /\ published = {} /\ attributes = {} /\ whole = FALSE

Edit ==
    /\ file' \in ReportConfigs \ {file}
    /\ UNCHANGED <<os, ours, theirs, hub, entire, published, attributes, whole>>

RestartOurs ==
    /\ ours' = file /\ hub' = {} /\ entire' = FALSE
    /\ published' = {} /\ attributes' = {} /\ whole' = FALSE
    /\ UNCHANGED <<os, file, theirs>>

\* Another helper is started; of the one before nothing is left, or all of it where
\* the service has not noticed (SessionHub).
RestartTheirs ==
    /\ os = "windows"
    /\ theirs' = file
    /\ \/ hub' = {} /\ entire' = FALSE
       \/ UNCHANGED <<hub, entire>>
    /\ UNCHANGED <<os, file, ours, published, attributes, whole>>

\* What the helper does not have to ask Windows for.
HelperKnows == {"caffeine", "suspend_inhibited", "session_type", "desktop_environment",
                "media_playing"}

HelperReports(readable) ==
    /\ os = "windows"
    /\ hub' = IF readable THEN Session(theirs, os)
              ELSE {r \in Session(theirs, os) : r.id \in HelperKnows}
    /\ entire' = readable
    /\ UNCHANGED <<os, file, ours, theirs, published, attributes, whole>>

\* Everything that was collected is published.
FaultToJsonMap(c, p, readings, attrs) ==
    [states |-> readings \cup {Null(id) : id \in Reporting(c, p) \ {r.id : r \in readings}},
     attrs  |-> attrs]

\* Snapshot::to_json_map: states for the entities that discovery offers, attributes
\* for all.
ToJsonMap(c, p, readings, attrs) ==
    [states |-> {r \in readings : r.id \in Reporting(c, p)}
                \cup {Null(id) : id \in Reporting(c, p) \ {r.id : r \in readings}},
     attrs  |-> attrs]

\* `machine` and `session` say whether the one and the other could be read, and
\* `failed` whether an update failed last.
ReportTick(machine, session, failed) ==
    LET ofMachine == IF machine THEN Machine(ours, os) ELSE {}
        ofSession == IF os = "windows" THEN Over(SessionDefaults(ours), hub)
                     ELSE IF session THEN Session(ours, os) ELSE {}
        message == ToJsonMap(ours, os, Collected(ours, os, ofMachine, ofSession),
                             CollectedAttributes(ours, os, session, failed))
    IN /\ published' = message.states /\ attributes' = message.attrs
       /\ whole' = (machine /\ IF os = "windows" THEN entire /\ hub = Session(ours, os) ELSE session)
       /\ UNCHANGED <<os, file, ours, theirs, hub, entire>>

ReportNext ==
    \/ Edit \/ RestartOurs \/ RestartTheirs
    \/ \E readable \in BOOLEAN : HelperReports(readable)
    \/ \E machine, session, failed \in BOOLEAN : ReportTick(machine, session, failed)

ReportSpec == ReportInit /\ [][ReportNext]_reportVars

-----------------------------------------------------------------------------
(* Properties *)

Readings == [id : AllIds, from : {"machine", "process", "network", "session", "default", "wifi",
                                  "agent", "nobody"},
             type : {"number", "bool", "text", "null"}]

\* Every variable has its type, and a message has one value for an entity.
ReportTypeOK ==
    /\ os \in {"linux", "windows"}
    /\ file \in ReportConfigs /\ ours \in ReportConfigs /\ theirs \in ReportConfigs
    /\ hub \subseteq Readings /\ entire \in BOOLEAN
    /\ published \subseteq Readings /\ attributes \subseteq Attributes /\ whole \in BOOLEAN
    /\ \A r, s \in published : r.id = s.id => r = s

\* What no collector of the system ever reads: the state of the switch `mute` is
\* read under the id `muted`.
Unread(p) ==
    {"mute"} \cup (IF p = "windows" THEN {"cpu_power", "dram_power", "battery_health",
                                          "battery_cycles"} ELSE {})

\* Every entity that discovery offers is read by someone: when all could be read,
\* none of them is null, whatever the configuration, but for those of Unread.
EveryEntityRead ==
    whole => \A r \in published : r.type = "null" => r.id \in Unread(os)

\* Whoever reads a value, it is of the type its component can show: the template of
\* a binary sensor or a switch takes a truth value only, and a sensor with a unit or
\* a state class shows numbers only.
IsShowable(r) ==
    CASE r.id \in BinarySensors \cup {"caffeine", "mute", "do_not_disturb", "update_auto"}
              \cup ProcessIds(ours) \cup ListenerIds(ours) -> r.type = "bool"
      [] r.id \in TextSensors -> TRUE
      [] OTHER -> r.type = "number"

\* A version is a text, and the entity keeps the state class that the other
\* diagnostic texts are relieved of.
Unshowable == {"update_latest_version"}

\* A process monitor shows the process and no sensor does, also where it is named
\* like one that is switched off; where both are on, the network's value stands.
\* Every value can be shown, but for that of Unshowable.
OwnValues ==
    \A r \in published : r.type # "null" =>
        /\ IsShowable(r) \/ r.id \in Unshowable
        /\ r.id \notin SensorIds(ours) =>
               (r.from = "process" <=> r.id \in ProcessIds(ours))

\* No state is published of an entity that the agent's configuration excludes, by
\* `disabled` or by its field of `sensors:`, even while the helper still collects it
\* by an older configuration; nor an attribute of a field that is off.  Of an entity
\* that is disabled the attributes are published nevertheless (snapshot.rs:45-47,
\* against config.rs:167 "Entity ids excluded from discovery and collection.").
ExcludedUnpublished ==
    /\ \A r \in published :
           /\ r.id \notin ours.disabled
           /\ \A f \in OptionalSensors \ ours.sensors :
                  r.id \in Sensors[f] => r.id \in ProcessIds(ours)
    /\ \A a \in attributes : AttributeField[a] \in {"always"} \cup ours.sensors
=============================================================================
