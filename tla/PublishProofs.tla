---------------------------- MODULE PublishProofs ----------------------------
(* What a state message has.  Type correctness of PublishDecision, what is   *)
(* never held back, and for how long a number may be; then of Reports, that  *)
(* every entity is read, by whom, and that what is excluded stays out.       *)
EXTENDS PublishDecision, Reports, TLAPS

(* The initial state has the right types. *)
LEMMA TypeInit == PublishInit => PublishTypeOK
<1> SUFFICES ASSUME PublishInit PROVE PublishTypeOK
    OBVIOUS
<1>1. age \in 0..(ForceEvery - 1)
    BY TimeAssumption DEF PublishInit
<1>2. last \in [Entities -> Values \cup {NoSnapshot}]
    BY DEF PublishInit
<1>3. shown \in [Entities -> Values]
    BY DEF PublishInit, Values
<1>4. quiet \in 0..ForceEvery
    BY TimeAssumption DEF PublishInit
<1>. QED
    BY <1>1, <1>2, <1>3, <1>4 DEF PublishInit, PublishTypeOK

(* The quiet time stays within its bound. *)
LEMMA SettleTyped ==
    ASSUME PublishTypeOK, NEW gap \in 1..MaxWait, Settle(gap)
    PROVE  quiet' \in 0..ForceEvery
<1>1. gap \in Nat /\ quiet \in Nat /\ ForceEvery \in Nat
    BY TimeAssumption DEF PublishTypeOK
<1>. QED
    BY <1>1 DEF Settle

(* A step preserves the types. *)
LEMMA TypeNext == PublishTypeOK /\ [PublishNext]_publishVars => PublishTypeOK'
<1> SUFFICES ASSUME PublishTypeOK, [PublishNext]_publishVars PROVE PublishTypeOK'
    OBVIOUS
<1>1. CASE Evaluate
    <2>1. PICK gap \in 1..MaxWait :
            /\ last' = reading
            /\ Settle(gap)
            /\ IF Changed \/ Forced(age + gap)
               THEN shown' = reading /\ age' = 0 /\ started' = TRUE
               ELSE age' = age + gap /\ UNCHANGED <<shown, started>>
            /\ UNCHANGED reading
        BY <1>1 DEF Evaluate
    <2>2. gap \in Nat /\ age \in Nat /\ ForceEvery \in Nat \ {0}
        BY TimeAssumption DEF PublishTypeOK
    <2>6. quiet' \in 0..ForceEvery
        BY <2>1, SettleTyped
    <2>3. last' \in [Entities -> Values \cup {NoSnapshot}]
        BY <2>1 DEF PublishTypeOK
    <2>4. CASE Changed \/ Forced(age + gap)
        <3>1. age' \in 0..(ForceEvery - 1)
            BY <2>1, <2>2, <2>4
        <3>2. shown' \in [Entities -> Values] /\ started' \in BOOLEAN
            BY <2>1, <2>4, Zenon DEF PublishTypeOK
        <3>. QED
            BY <2>1, <2>3, <2>6, <3>1, <3>2 DEF PublishTypeOK
    <2>5. CASE ~(Changed \/ Forced(age + gap))
        <3>1. age' \in 0..(ForceEvery - 1)
            BY <2>1, <2>2, <2>5 DEF Forced
        <3>. QED
            BY <2>1, <2>3, <2>5, <2>6, <3>1 DEF PublishTypeOK
    <2>. QED
        BY <2>4, <2>5
<1>2. CASE Move
    BY <1>2 DEF Move, PublishTypeOK
<1>3. CASE UNCHANGED publishVars
    BY <1>3 DEF publishVars, PublishTypeOK
<1>. QED
    BY <1>1, <1>2, <1>3 DEF PublishNext

(* The types hold in every reachable state; in particular nothing that is    *)
(* shown is as old as force_publish_s.                                       *)
THEOREM TypeCorrect == PublishSpec => []PublishTypeOK
BY TypeInit, TypeNext, PTL DEF PublishSpec

(* Nothing has been shown at the start. *)
LEMMA ShownInit == PublishInit => DiscreteShown
BY DEF PublishInit, DiscreteShown

(* An evaluation that publishes shows everything; one that does not compares *)
(* equal, in everything but numbers, with a snapshot that was shown.         *)
LEMMA ShownNext ==
    PublishTypeOK /\ DiscreteShown /\ [PublishNext]_publishVars => DiscreteShown'
<1> SUFFICES ASSUME PublishTypeOK, DiscreteShown, [PublishNext]_publishVars, started',
                    NEW e \in Entities
             PROVE  \/ shown'[e] = last'[e]
                    \/ e \notin Discrete /\ Unavailable \notin {shown'[e], last'[e]}
    BY DEF DiscreteShown
<1>1. CASE Evaluate
    <2>1. PICK gap \in 1..MaxWait :
            /\ last' = reading
            /\ Settle(gap)
            /\ IF Changed \/ Forced(age + gap)
               THEN shown' = reading /\ age' = 0 /\ started' = TRUE
               ELSE age' = age + gap /\ UNCHANGED <<shown, started>>
        BY <1>1 DEF Evaluate
    <2>2. CASE Changed \/ Forced(age + gap)
        BY <2>1, <2>2
    <2>3. CASE ~(Changed \/ Forced(age + gap))
        <3>1. started /\ shown' = shown /\ last' = reading
            BY <2>1, <2>3
        <3>2. ~ChangedEnough(e, reading[e], last[e])
            BY <2>3 DEF Changed
        <3>3. CASE Unavailable \in {reading[e], last[e]} \/ e \in Discrete
            BY <3>1, <3>2, <3>3 DEF ChangedEnough, DiscreteShown
        <3>4. CASE ~(Unavailable \in {reading[e], last[e]} \/ e \in Discrete)
            BY <3>1, <3>4 DEF DiscreteShown
        <3>. QED
            BY <3>3, <3>4
    <2>. QED
        BY <2>2, <2>3
<1>2. CASE Move
    BY <1>2 DEF Move, DiscreteShown
<1>3. CASE UNCHANGED publishVars
    BY <1>3 DEF publishVars, DiscreteShown
<1>. QED
    BY <1>1, <1>2, <1>3 DEF PublishNext

(* Texts, truth values, attributes and availability are never held back.     *)
THEOREM NeverHeldBack == PublishSpec => []DiscreteShown
BY TypeInit, TypeNext, ShownInit, ShownNext, PTL DEF PublishSpec

(* Nothing has drifted at the start. *)
LEMMA DriftInit == PublishInit => DriftEnds
BY TimeAssumption DEF PublishInit, DriftEnds

(* While the collections find the same, the quiet time and the age of the    *)
(* message grow together.                                                    *)
LEMMA DriftNext ==
    PublishTypeOK /\ PublishTypeOK' /\ DriftEnds /\ [PublishNext]_publishVars => DriftEnds'
<1> SUFFICES ASSUME PublishTypeOK, PublishTypeOK', DriftEnds, [PublishNext]_publishVars PROVE DriftEnds'
    OBVIOUS
<1>1. CASE Evaluate
    <2>1. PICK gap \in 1..MaxWait :
            /\ last' = reading
            /\ Settle(gap)
            /\ IF Changed \/ Forced(age + gap)
               THEN shown' = reading /\ age' = 0 /\ started' = TRUE
               ELSE age' = age + gap /\ UNCHANGED <<shown, started>>
            /\ UNCHANGED reading
        BY <1>1 DEF Evaluate
    <2>2. /\ gap \in Nat /\ age \in Nat /\ quiet \in Nat /\ ForceEvery \in Nat \ {0}
          /\ age' \in Nat /\ age' < ForceEvery
        BY TimeAssumption DEF PublishTypeOK
    <2>3. CASE Changed \/ Forced(age + gap)
        BY <2>1, <2>3 DEF DriftEnds
    <2>4. CASE ~(Changed \/ Forced(age + gap))
        <3>1. started /\ shown' = shown /\ last' = reading /\ age' = age + gap
            BY <2>1, <2>4 DEF Forced
        <3>2. ASSUME shown' # last' PROVE quiet' <= age'
            <4>1. CASE reading # last
                BY <2>1, <2>2, <4>1 DEF Settle
            <4>2. CASE reading = last
                <5>1. quiet <= age
                    BY <3>1, <3>2, <4>2 DEF DriftEnds
                <5>. QED
                    BY <2>1, <2>2, <3>1, <4>2, <5>1 DEF Settle
            <4>. QED
                BY <4>1, <4>2
        <3>3. ASSUME quiet' = ForceEvery PROVE shown' = last'
            BY <2>2, <3>2, <3>3
        <3>. QED
            BY <3>2, <3>3 DEF DriftEnds
    <2>. QED
        BY <2>3, <2>4
<1>2. CASE Move
    BY <1>2 DEF Move, DriftEnds
<1>3. CASE UNCHANGED publishVars
    BY <1>3 DEF publishVars, DriftEnds
<1>. QED
    BY <1>1, <1>2, <1>3 DEF PublishNext

(* What is shown is out of date for less than force_publish_s once the       *)
(* collections find the same values.                                         *)
THEOREM DriftIsBounded == PublishSpec => []DriftEnds
BY TypeInit, TypeNext, DriftInit, DriftNext, PTL DEF PublishSpec

-----------------------------------------------------------------------------
(* What is collected and published (Reports).  The type of a value is that   *)
(* of its id, whoever reads it, which makes the collectors of a tick one     *)
(* function of the id; and every id that discovery offers is in one of them. *)

\* The ids of the readings by their type.
NumberIds ==
    {"idle_time", "agent_uptime", "uptime", "cpu_usage", "cpu_frequency", "cpu_temperature",
     "cpu_power", "dram_power", "ram_total", "ram_used", "ram_available", "ram_usage",
     "swap_total", "swap_used", "swap_usage", "gpu_usage", "gpu_memory_used",
     "gpu_temperature", "gpu_power", "gpu_fan", "gpu_power_limit", "estimated_power",
     "lan_rx", "lan_tx", "battery_percent", "battery_health", "battery_cycles",
     "wifi_signal", "volume"} \cup DiskSensors
SwitchNames == {"caffeine", "mute", "do_not_disturb"}
TextIds  == TextSensors \cup Unshowable
TruthIds == BinarySensors \cup SwitchNames \cup {"update_auto"}
\* The ids of the process and port monitors.
MonitorIds == {RunningId[n] : n \in ProcessNames} \cup {ListeningId[n] : n \in ListenerNames}

\* The type of the value that is read under an id, whoever reads it.
KindOf(id) ==
    IF id \in TruthIds \cup MonitorIds THEN "bool"
    ELSE IF id \in TextIds THEN "text" ELSE "number"

(* The entities by the field of `sensors:`, one equation for each. *)
LEMMA Fields ==
    /\ DOMAIN Sensors = {"always"} \cup OptionalSensors
    /\ Sensors["always"] = MachineSensors \cup SessionSensors
    /\ Sensors["gpu"] = GpuSensors
    /\ Sensors["estimated_power"] = {"estimated_power"}
    /\ Sensors["active_application"] = {"active_application"}
    /\ Sensors["active_window_title"] = {"active_window_title"}
    /\ Sensors["tailscale"] = {"tailscale_running", "tailscale_ip"}
    /\ Sensors["wireguard"] = {"wireguard_running", "wireguard_ip"}
    /\ Sensors["lan_ip"] = {"lan_ip", "lan_rx", "lan_tx"}
    /\ Sensors["disk"] = DiskSensors
    /\ Sensors["battery"] = BatterySensors
    /\ Sensors["wifi"] = {"wifi_ssid", "wifi_signal"}
    /\ Sensors["online"] = {"online"}
    /\ Sensors["audio"] = {"volume", "muted", "audio_sink"}
    /\ Sensors["mpris"] = {"media_title", "media_artist", "media_playing"}
    /\ Sensors["dnd"] = {}
BY DEF Sensors, OptionalSensors

(* An entity of a sensor is one of some field. *)
LEMMA AllSensorsOf ==
    \A id : id \in AllSensors <=> \E f \in {"always"} \cup OptionalSensors : id \in Sensors[f]
<1>. DEFINE Of(f) == Sensors[f]
<1>1. DOMAIN Sensors = {"always"} \cup OptionalSensors
    BY Fields
<1>2. AllSensors = UNION {Of(f) : f \in {"always"} \cup OptionalSensors}
    BY <1>1 DEF AllSensors
<1>. HIDE DEF Of
<1>3. \A id : id \in AllSensors <=> \E f \in {"always"} \cup OptionalSensors : id \in Of(f)
    BY <1>2
<1>. QED
    BY <1>3 DEF Of

(* The ids that the code names are those of numbers, of texts and of truth values. *)
LEMMA FixedSorts == FixedIds = NumberIds \cup TextIds \cup TruthIds
<1>1. \A id : id \in AllSensors <=>
                  \E f \in {"always"} \cup OptionalSensors : id \in Sensors[f]
    BY AllSensorsOf
<1>2. ASSUME NEW id \in FixedIds PROVE id \in NumberIds \cup TextIds \cup TruthIds
    <2>. CASE id \in UpdateIds \cup SwitchNames
        BY DEF UpdateIds, SwitchNames, TextIds, Unshowable, TruthIds, BinarySensors
    <2>. CASE id \in AllSensors
        <3>1. PICK f \in {"always"} \cup OptionalSensors : id \in Sensors[f]
            BY <1>1
        <3>2. CASE f = "always"
            BY <3>1, <3>2, Fields
               DEF MachineSensors, SessionSensors, NumberIds, TextIds, TextSensors,
                   TruthIds, BinarySensors
        <3>3. CASE f \in {"gpu", "battery", "disk"}
            BY <3>1, <3>3, Fields
               DEF GpuSensors, BatterySensors, NumberIds, TextIds, TextSensors,
                   TruthIds, BinarySensors
        <3>4. CASE f \notin {"always", "gpu", "battery", "disk"}
            BY <3>1, <3>4, Fields
               DEF OptionalSensors, NumberIds, TextIds, TextSensors, TruthIds,
                   BinarySensors
        <3>. QED
            BY <3>2, <3>3, <3>4
    <2>. QED
        BY DEF FixedIds, SwitchNames
<1>3. ASSUME NEW id \in NumberIds PROVE id \in FixedIds
    <2>1. CASE id \in Sensors["always"]
        BY <2>1, <1>1, Fields DEF FixedIds
    <2>2. CASE id \in GpuSensors \cup DiskSensors \cup BatterySensors
        BY <2>2, <1>1, Fields DEF FixedIds, OptionalSensors
    <2>3. CASE id \in {"estimated_power", "lan_rx", "lan_tx", "wifi_signal", "volume"}
        BY <2>3, <1>1, Fields DEF FixedIds, OptionalSensors
    <2>. QED
        BY <2>1, <2>2, <2>3, Fields
           DEF NumberIds, MachineSensors, SessionSensors, GpuSensors, BatterySensors
<1>4. ASSUME NEW id \in TextIds PROVE id \in FixedIds
    <2>1. CASE id \in Sensors["always"]
        BY <2>1, <1>1, Fields DEF FixedIds
    <2>2. CASE id \in GpuSensors \cup DiskSensors \cup BatterySensors
        BY <2>2, <1>1, Fields DEF FixedIds, OptionalSensors
    <2>3. CASE id \in {"active_application", "active_window_title", "tailscale_ip", "lan_ip",
                 "wireguard_ip", "audio_sink", "wifi_ssid", "media_title", "media_artist"}
        BY <2>3, <1>1, Fields DEF FixedIds, OptionalSensors
    <2>4. CASE id = "update_latest_version"
        BY <2>4 DEF FixedIds, UpdateIds
    <2>. QED
        BY <2>1, <2>2, <2>3, <2>4, Fields
           DEF TextIds, TextSensors, Unshowable, MachineSensors, SessionSensors,
               GpuSensors, BatterySensors
<1>5. ASSUME NEW id \in TruthIds PROVE id \in FixedIds
    <2>1. CASE id \in Sensors["always"]
        BY <2>1, <1>1, Fields DEF FixedIds
    <2>2. CASE id \in BatterySensors
        BY <2>2, <1>1, Fields DEF FixedIds, OptionalSensors
    <2>3. CASE id \in {"tailscale_running", "wireguard_running", "muted", "online", "media_playing"}
        BY <2>3, <1>1, Fields DEF FixedIds, OptionalSensors
    <2>4. CASE id \in UpdateIds \cup SwitchNames
        BY <2>4 DEF FixedIds, SwitchNames
    <2>. QED
        BY <2>1, <2>2, <2>3, <2>4, Fields
           DEF TruthIds, BinarySensors, UpdateIds, SessionSensors, BatterySensors
<1>. QED
    BY <1>2, <1>3, <1>4, <1>5

(* No id is of two types. *)
LEMMA SortsApart ==
    /\ NumberIds \cap TextIds = {} /\ NumberIds \cap TruthIds = {} /\ TextIds \cap TruthIds = {}
BY DEF NumberIds, TextIds, TextSensors, Unshowable, TruthIds, BinarySensors,
       SwitchNames, DiskSensors

(* A monitor has the id of no sensor, but for the two that end in `_running`. *)
LEMMA Monitors ==
    \A id \in MonitorIds \cap FixedIds : id \in {"tailscale_running", "wireguard_running"}
BY IdAssumption DEF MonitorIds

(* KindOf is the type that the three sets say. *)
LEMMA TypesOfIds ==
    /\ \A id \in NumberIds : KindOf(id) = "number"
    /\ \A id \in TextIds : KindOf(id) = "text"
    /\ \A id \in TruthIds \cup MonitorIds : KindOf(id) = "bool"
<1>1. MonitorIds \cap (NumberIds \cup TextIds) = {}
    <2>1. {"tailscale_running", "wireguard_running"} \subseteq TruthIds
        BY DEF TruthIds, BinarySensors
    <2>. QED
        BY <2>1, Monitors, FixedSorts, SortsApart
<1>. QED
    BY <1>1, SortsApart DEF KindOf

\* A reading of one reader, with the type of its id.
Proper(r, from) ==
    /\ r = [id |-> r.id, from |-> from, type |-> KindOf(r.id)]
    /\ r.id \in AllIds

(* A reader whose ids are of the types it gives them puts down proper readings. *)
LEMMA ReaderProper ==
    ASSUME NEW from, NEW numbers \in SUBSET NumberIds,
           NEW truths \in SUBSET (TruthIds \cup MonitorIds), NEW texts \in SUBSET TextIds,
           NEW r \in Reader(from, numbers, truths, texts)
    PROVE  Proper(r, from) /\ r.id \in numbers \cup truths \cup texts
<1>1. NumberIds \cup TextIds \cup TruthIds \cup MonitorIds \subseteq AllIds
    BY FixedSorts DEF AllIds, MonitorIds
<1>2. CASE r \in {[id |-> id, from |-> from, type |-> "number"] : id \in numbers}
    BY <1>1, <1>2, TypesOfIds DEF Proper
<1>3. CASE r \in {[id |-> id, from |-> from, type |-> "bool"] : id \in truths}
    BY <1>1, <1>3, TypesOfIds DEF Proper
<1>4. CASE r \in {[id |-> id, from |-> from, type |-> "text"] : id \in texts}
    BY <1>1, <1>4, TypesOfIds DEF Proper
<1>. QED
    BY <1>2, <1>3, <1>4 DEF Reader

\* The ids of the wireless interface, which has a reader of its own on both systems.
WifiIds == {"wifi_ssid", "wifi_signal"}

(* The collectors of the machine put down proper readings. *)
LEMMA MachineProper ==
    ASSUME NEW c, NEW p, NEW r \in Machine(c, p)
    PROVE  Proper(r, IF r.id \in WifiIds THEN "wifi" ELSE "machine")
<1>. USE DEF WifiIds
<1>1. CASE r \in Identity
    <2>1. Proper(r, "machine") /\ r.id \in {"uptime", "operating_system", "hostname", "chassis"}
        BY <1>1, ReaderProper DEF Identity, NumberIds, TextIds, TextSensors
    <2>. QED
        BY <2>1
<1>2. CASE r \in Processor
    <2>1. /\ Proper(r, "machine")
          /\ r.id \in {"cpu_usage", "cpu_frequency", "cpu_temperature", "os_version"}
        BY <1>2, ReaderProper DEF Processor, NumberIds, TextIds, TextSensors
    <2>. QED
        BY <2>1
<1>3. CASE r \in Memory
    <2>1. /\ Proper(r, "machine")
          /\ r.id \in {"ram_total", "ram_used", "ram_available", "ram_usage", "swap_total",
                       "swap_used", "swap_usage"}
        BY <1>3, ReaderProper DEF Memory, NumberIds
    <2>. QED
        BY <2>1
<1>4. CASE r \in Energy(p)
    <2>1. Proper(r, "machine") /\ r.id \in {"cpu_power", "dram_power"}
        BY <1>4, ReaderProper DEF Energy, NumberIds
    <2>. QED
        BY <2>1
<1>5. CASE r \in Gpu
    <2>1. GpuSensors \ {"gpu_driver"} \subseteq NumberIds
        BY DEF GpuSensors, NumberIds
    <2>2. Proper(r, "machine") /\ r.id \in GpuSensors
        BY <1>5, <2>1, ReaderProper DEF Gpu, GpuSensors, TextIds, TextSensors
    <2>. QED
        BY <2>2 DEF GpuSensors
<1>6. CASE r \in Reader("machine", DiskSensors, {}, {})
    <2>1. Proper(r, "machine") /\ r.id \in DiskSensors
        BY <1>6, ReaderProper DEF NumberIds
    <2>. QED
        BY <2>1 DEF DiskSensors
<1>7. CASE r \in Power(p)
    <2>1. Proper(r, "machine") /\ r.id \in BatterySensors
        BY <1>7, ReaderProper
           DEF Power, BatterySensors, NumberIds, TextIds, TextSensors, TruthIds, BinarySensors
    <2>. QED
        BY <2>1 DEF BatterySensors
<1>8. CASE r \in Reader("machine", {"lan_rx", "lan_tx"}, {}, {})
    <2>1. Proper(r, "machine") /\ r.id \in {"lan_rx", "lan_tx"}
        BY <1>8, ReaderProper DEF NumberIds
    <2>. QED
        BY <2>1
<1>9. CASE r \in Wifi
    <2>1. Proper(r, "wifi") /\ r.id \in WifiIds
        BY <1>9, ReaderProper DEF Wifi, NumberIds, TextIds, TextSensors
    <2>. QED
        BY <2>1
<1>10. \/ r \in Identity \/ r \in Processor \/ r \in Memory \/ r \in Energy(p) \/ r \in Gpu
       \/ r \in Reader("machine", DiskSensors, {}, {}) \/ r \in Power(p)
       \/ r \in Reader("machine", {"lan_rx", "lan_tx"}, {}, {}) \/ r \in Wifi
    BY DEF Machine, On
<1>. QED
    BY <1>1, <1>2, <1>3, <1>4, <1>5, <1>6, <1>7, <1>8, <1>9, <1>10

\* What the session is asked for in any configuration.
SessionTruths == {"user_active", "locked", "caffeine", "suspend_inhibited"}
SessionTexts  == {"session_type", "desktop_environment", "suspend_inhibit_reason"}

(* So do those of the session, none of which is of a monitor. *)
LEMMA SessionProper ==
    ASSUME NEW c, NEW p, NEW r \in Session(c, p)
    PROVE  /\ Proper(r, IF r.id \in WifiIds THEN "wifi" ELSE "session")
           /\ r.id \in FixedIds \ {"tailscale_running", "wireguard_running"}
<1>. USE DEF WifiIds
<1>. HIDE DEF Proper
<1>0. NumberIds \cup TextIds \cup TruthIds = FixedIds
    BY FixedSorts
<1>1. CASE r \in Wifi
    <2>1. Proper(r, "wifi") /\ r.id \in WifiIds
        BY <1>1, ReaderProper DEF Wifi, NumberIds, TextIds, TextSensors
    <2>2. WifiIds \subseteq FixedIds
        BY <1>0 DEF NumberIds, TextIds, TextSensors
    <2>. QED
        BY <2>1, <2>2
<1>2. CASE r \in Reader("session", {"idle_time"}, SessionTruths, SessionTexts)
    <2>1. /\ {"idle_time"} \subseteq NumberIds /\ SessionTruths \subseteq TruthIds
          /\ SessionTexts \subseteq TextIds
        BY DEF SessionTruths, SessionTexts, NumberIds, TextIds, TextSensors, TruthIds,
               BinarySensors, SwitchNames
    <2>2. /\ Proper(r, "session")
          /\ r.id \in {"idle_time"} \cup SessionTruths \cup SessionTexts
        BY <1>2, <2>1, ReaderProper
    <2>3. r.id \in FixedIds
        BY <1>0, <2>1, <2>2
    <2>. QED
        BY <2>2, <2>3 DEF SessionTruths, SessionTexts
<1>3. CASE r \in Reader("session", {"volume"}, {"muted"}, {"audio_sink"})
    <2>1. /\ {"volume"} \subseteq NumberIds /\ {"muted"} \subseteq TruthIds
          /\ {"audio_sink"} \subseteq TextIds
        BY DEF NumberIds, TextIds, TextSensors, TruthIds, BinarySensors
    <2>2. Proper(r, "session") /\ r.id \in {"volume", "muted", "audio_sink"}
        BY <1>3, <2>1, ReaderProper
    <2>. QED
        BY <1>0, <2>1, <2>2
<1>4. CASE r \in Reader("session", {}, {"media_playing"}, {"media_title", "media_artist"})
    <2>1. {"media_playing"} \subseteq TruthIds /\ {"media_title", "media_artist"} \subseteq TextIds
        BY DEF TextIds, TextSensors, TruthIds, BinarySensors
    <2>2. Proper(r, "session") /\ r.id \in {"media_playing", "media_title", "media_artist"}
        BY <1>4, <2>1, ReaderProper
    <2>. QED
        BY <1>0, <2>1, <2>2
<1>5. CASE r \in Reader("session", {}, {"do_not_disturb"}, {})
    <2>1. {"do_not_disturb"} \subseteq TruthIds
        BY DEF TruthIds, SwitchNames
    <2>2. Proper(r, "session") /\ r.id = "do_not_disturb"
        BY <1>5, <2>1, ReaderProper
    <2>. QED
        BY <1>0, <2>1, <2>2
<1>6. CASE \/ r \in Reader("session", {}, {}, {"active_application"})
           \/ r \in Reader("session", {}, {}, {"active_window_title"})
    <2>1. {"active_application"} \subseteq TextIds /\ {"active_window_title"} \subseteq TextIds
        BY DEF TextIds, TextSensors
    <2>2. Proper(r, "session") /\ r.id \in {"active_application", "active_window_title"}
        BY <1>6, <2>1, ReaderProper
    <2>. QED
        BY <1>0, <2>1, <2>2
<1>7. \/ r \in Wifi
      \/ r \in Reader("session", {"idle_time"}, SessionTruths, SessionTexts)
      \/ r \in Reader("session", {"volume"}, {"muted"}, {"audio_sink"})
      \/ r \in Reader("session", {}, {"media_playing"}, {"media_title", "media_artist"})
      \/ r \in Reader("session", {}, {"do_not_disturb"}, {})
      \/ r \in Reader("session", {}, {}, {"active_application"})
      \/ r \in Reader("session", {}, {}, {"active_window_title"})
    BY DEF Session, On, SessionTruths, SessionTexts
<1>. QED
    BY <1>1, <1>2, <1>3, <1>4, <1>5, <1>6, <1>7

(* So does the service for a session without a helper. *)
LEMMA DefaultsProper ==
    ASSUME NEW c, NEW r \in SessionDefaults(c)
    PROVE  /\ Proper(r, "default")
           /\ r.id \in FixedIds \ {"tailscale_running", "wireguard_running"}
<1>1. {"caffeine"} \subseteq TruthIds /\ {"media_playing"} \subseteq TruthIds
      /\ {"session_type", "desktop_environment"} \subseteq TextIds
    BY DEF TruthIds, BinarySensors, SwitchNames, TextIds, TextSensors
<1>2. CASE r \in Reader("default", {}, {"caffeine"}, {"session_type", "desktop_environment"})
    <2>1. Proper(r, "default") /\ r.id \in {"caffeine", "session_type", "desktop_environment"}
        BY <1>1, <1>2, ReaderProper
    <2>. QED
        BY <1>1, <2>1, FixedSorts
<1>3. CASE r \in Reader("default", {}, {"media_playing"}, {})
    <2>1. Proper(r, "default") /\ r.id = "media_playing"
        BY <1>1, <1>3, ReaderProper
    <2>. QED
        BY <1>1, <2>1, FixedSorts
<1>. QED
    BY <1>2, <1>3 DEF SessionDefaults, On

(* So does the agent. *)
LEMMA OwnProper ==
    ASSUME NEW c, NEW r \in Own(c)
    PROVE  /\ Proper(r, "agent")
           /\ r.id \in FixedIds \ {"tailscale_running", "wireguard_running"}
<1>1. /\ {"agent_uptime"} \subseteq NumberIds /\ {"estimated_power"} \subseteq NumberIds
      /\ {"agent_version"} \subseteq TextIds /\ {"update_latest_version"} \subseteq TextIds
      /\ {"online"} \subseteq TruthIds /\ {"update_available", "update_auto"} \subseteq TruthIds
    BY DEF NumberIds, TruthIds, BinarySensors, TextIds, TextSensors, Unshowable
<1>2. CASE r \in Reader("agent", {"agent_uptime"}, {}, {"agent_version"})
    <2>1. Proper(r, "agent") /\ r.id \in {"agent_uptime", "agent_version"}
        BY <1>1, <1>2, ReaderProper
    <2>. QED
        BY <1>1, <2>1, FixedSorts
<1>3. CASE r \in Reader("agent", {}, {"online"}, {})
    <2>1. Proper(r, "agent") /\ r.id = "online"
        BY <1>1, <1>3, ReaderProper
    <2>. QED
        BY <1>1, <2>1, FixedSorts
<1>4. CASE r \in Reader("agent", {}, {"update_available", "update_auto"},
                        IF c.update THEN {"update_latest_version"} ELSE {})
    <2>1. (IF c.update THEN {"update_latest_version"} ELSE {}) \subseteq {"update_latest_version"}
        OBVIOUS
    <2>2. /\ Proper(r, "agent")
          /\ r.id \in {"update_available", "update_auto", "update_latest_version"}
        BY <1>1, <1>4, <2>1, ReaderProper
    <2>. QED
        BY <1>1, <2>2, FixedSorts
<1>5. CASE r \in Reader("agent", {"estimated_power"}, {}, {})
    <2>1. Proper(r, "agent") /\ r.id = "estimated_power"
        BY <1>1, <1>5, ReaderProper
    <2>. QED
        BY <1>1, <2>1, FixedSorts
<1>. QED
    BY <1>2, <1>3, <1>4, <1>5 DEF Own, On

(* So do the process monitors. *)
LEMMA ProcessesProper ==
    ASSUME NEW c \in ReportConfig, NEW r \in Processes(c)
    PROVE  Proper(r, "process") /\ r.id \in ProcessIds(c)
<1>1. ProcessIds(c) \subseteq TruthIds \cup MonitorIds
    BY DEF ProcessIds, MonitorIds, ReportConfig
<1>. QED
    BY <1>1, ReaderProper DEF Processes

(* So does the network; it has the id of a monitor only for a sensor that is on. *)
LEMMA NetworkProper ==
    ASSUME NEW c \in ReportConfig, NEW r \in Network(c)
    PROVE  Proper(r, "network") /\ (r.id \in ProcessIds(c) => r.id \in SensorIds(c))
<1>1. ListenerIds(c) \subseteq MonitorIds
    BY DEF ListenerIds, MonitorIds, ReportConfig
<1>2. /\ {"tailscale_running"} \subseteq TruthIds /\ {"wireguard_running"} \subseteq TruthIds
      /\ {"tailscale_ip"} \subseteq TextIds /\ {"wireguard_ip"} \subseteq TextIds
      /\ {"lan_ip"} \subseteq TextIds
    BY DEF TruthIds, BinarySensors, TextIds, TextSensors
<1>3. \A f \in c.sensors : Sensors[f] \subseteq SensorIds(c)
    BY DEF SensorIds
<1>4. CASE /\ "tailscale" \in c.sensors
           /\ r \in Reader("network", {}, {"tailscale_running"}, {"tailscale_ip"})
    <2>1. Proper(r, "network") /\ r.id \in Sensors["tailscale"]
        BY <1>2, <1>4, ReaderProper, Fields
    <2>. QED
        BY <1>3, <1>4, <2>1
<1>5. CASE /\ "wireguard" \in c.sensors
           /\ r \in Reader("network", {}, {"wireguard_running"}, {"wireguard_ip"})
    <2>1. Proper(r, "network") /\ r.id \in Sensors["wireguard"]
        BY <1>2, <1>5, ReaderProper, Fields
    <2>. QED
        BY <1>3, <1>5, <2>1
<1>6. CASE "lan_ip" \in c.sensors /\ r \in Reader("network", {}, {}, {"lan_ip"})
    <2>1. Proper(r, "network") /\ r.id \in Sensors["lan_ip"]
        BY <1>2, <1>6, ReaderProper, Fields
    <2>. QED
        BY <1>3, <1>6, <2>1
<1>7. CASE r \in Reader("network", {}, ListenerIds(c) \ c.disabled, {})
    <2>1. Proper(r, "network") /\ r.id \in ListenerIds(c)
        BY <1>1, <1>7, ReaderProper
    <2>2. r.id \notin ProcessIds(c)
        BY <2>1, IdAssumption DEF ListenerIds, ProcessIds, ReportConfig
    <2>. QED
        BY <2>1, <2>2
<1>. QED
    BY <1>4, <1>5, <1>6, <1>7 DEF Network, On

\* At most one reading for an id.
Determined(S) == \A r, s \in S : r.id = s.id => r = s

(* Readings put over others are one for each id if both were. *)
LEMMA OverDetermined ==
    ASSUME NEW below, NEW above, Determined(below), Determined(above)
    PROVE  Determined(Over(below, above))
BY DEF Determined, Over

(* The machine is read once for each id. *)
LEMMA MachineDetermined == ASSUME NEW c, NEW p PROVE Determined(Machine(c, p))
BY MachineProper DEF Determined, Proper

(* So is the session. *)
LEMMA SessionDetermined ==
    ASSUME NEW c, NEW p, NEW S \in SUBSET Session(c, p) PROVE Determined(S)
BY SessionProper DEF Determined, Proper

(* So are the defaults. *)
LEMMA DefaultsDetermined == ASSUME NEW c PROVE Determined(SessionDefaults(c))
BY DefaultsProper DEF Determined, Proper

(* So are the values of the agent. *)
LEMMA OwnDetermined == ASSUME NEW c PROVE Determined(Own(c))
BY OwnProper DEF Determined, Proper

(* So are the processes. *)
LEMMA ProcessesDetermined == ASSUME NEW c \in ReportConfig PROVE Determined(Processes(c))
BY ProcessesProper DEF Determined, Proper

(* So is the network. *)
LEMMA NetworkDetermined == ASSUME NEW c \in ReportConfig PROVE Determined(Network(c))
BY NetworkProper DEF Determined, Proper

\* The readers.
Someone == {"machine", "process", "network", "session", "default", "wifi", "agent"}

\* A reading of somebody.
IsReading(r) == r.from \in Someone /\ Proper(r, r.from)

\* Where no sensor has its id, the value of a process monitor is the monitor's.
OfProcess(c, r) ==
    r.id \notin SensorIds(c) => (r.from = "process" <=> r.id \in ProcessIds(c))

(* A proper reading of a reader is a reading of somebody. *)
LEMMA ProperReading ==
    ASSUME NEW r, NEW from \in Someone, Proper(r, from)
    PROVE  IsReading(r) /\ r.from = from
BY DEF Proper, IsReading

\* What a tick takes for the session, on either system.
SessionSide(S) ==
    /\ Determined(S)
    /\ \A r \in S : /\ IsReading(r) /\ r.from # "process"
                    /\ r.id \in FixedIds \ {"tailscale_running", "wireguard_running"}

(* What a session collector has read is the session side of a tick. *)
LEMMA SessionIsSide ==
    ASSUME NEW c, NEW p, NEW S \in SUBSET Session(c, p) PROVE SessionSide(S)
<1>1. ASSUME NEW r \in S PROVE IsReading(r) /\ r.from # "process"
    BY SessionProper, ProperReading DEF Someone
<1>. QED
    BY <1>1, SessionProper, SessionDetermined DEF SessionSide

(* So is what a helper has reported over the defaults, by whichever configuration. *)
LEMMA HubIsSide ==
    ASSUME NEW c, NEW d, NEW p, NEW S \in SUBSET Session(d, p)
    PROVE  SessionSide(Over(SessionDefaults(c), S))
<1>1. ASSUME NEW r \in SessionDefaults(c) PROVE IsReading(r) /\ r.from # "process"
    BY DefaultsProper, ProperReading DEF Someone
<1>2. SessionSide(S)
    BY SessionIsSide
<1>3. Determined(Over(SessionDefaults(c), S))
    BY <1>2, DefaultsDetermined, OverDetermined DEF SessionSide
<1>. QED
    BY <1>1, <1>2, <1>3, DefaultsProper DEF SessionSide, Over

(* A process monitor is not under an id of the session. *)
LEMMA RunningIsAlone ==
    ASSUME NEW c \in ReportConfig,
           NEW id \in FixedIds \ {"tailscale_running", "wireguard_running"}
    PROVE  id \notin ProcessIds(c)
BY IdAssumption DEF ProcessIds, ReportConfig

(* A tick collects one reading for an id, and that of a monitor is the monitor's. *)
LEMMA CollectedReadings ==
    ASSUME NEW c \in ReportConfig, NEW p, NEW session, SessionSide(session),
           NEW machine \in SUBSET Machine(c, p)
    PROVE  /\ Determined(Collected(c, p, machine, session))
           /\ \A r \in Collected(c, p, machine, session) : IsReading(r) /\ OfProcess(c, r)
<1>. DEFINE watched == Over(machine, Processes(c))
            system  == Over(watched, Network(c))
            user    == Over(session, Own(c))
<1>1. Collected(c, p, machine, session) = Over(system, user)
    BY DEF Collected
<1>2. Determined(Over(system, user))
    <2>1. Determined(machine)
        BY MachineDetermined DEF Determined
    <2>2. Determined(watched)
        BY <2>1, ProcessesDetermined, OverDetermined
    <2>. HIDE DEF watched
    <2>3. Determined(system)
        BY <2>2, NetworkDetermined, OverDetermined
    <2>4. Determined(user)
        BY OwnDetermined, OverDetermined DEF SessionSide
    <2>. HIDE DEF system, user
    <2>. QED
        BY <2>3, <2>4, OverDetermined
<1>3. ASSUME NEW r \in user PROVE IsReading(r) /\ OfProcess(c, r)
    <2>1. r \in Own(c) \/ r \in session
        BY DEF Over
    <2>2. /\ IsReading(r) /\ r.from # "process"
          /\ r.id \in FixedIds \ {"tailscale_running", "wireguard_running"}
        <3>1. CASE r \in Own(c)
            BY <3>1, OwnProper, ProperReading DEF Someone
        <3>. QED
            BY <2>1, <3>1 DEF SessionSide
    <2>3. r.id \notin ProcessIds(c)
        BY <2>2, RunningIsAlone
    <2>. QED
        BY <2>2, <2>3 DEF OfProcess
<1>4. ASSUME NEW r \in Network(c) PROVE IsReading(r) /\ OfProcess(c, r)
    <2>1. IsReading(r) /\ r.from = "network"
        BY NetworkProper, ProperReading DEF Someone
    <2>. QED
        BY <2>1, NetworkProper DEF OfProcess
<1>5. ASSUME NEW r \in Processes(c) PROVE IsReading(r) /\ OfProcess(c, r)
    <2>1. IsReading(r) /\ r.from = "process"
        BY ProcessesProper, ProperReading DEF Someone
    <2>. QED
        BY <2>1, ProcessesProper DEF OfProcess
<1>6. ASSUME NEW r \in machine, ~\E s \in Processes(c) : s.id = r.id
      PROVE  IsReading(r) /\ OfProcess(c, r)
    <2>1. IsReading(r) /\ r.from # "process"
        BY MachineProper, ProperReading DEF Someone
    <2>2. r.id \notin ProcessIds(c)
        <3>1. SUFFICES ASSUME r.id \in ProcessIds(c) PROVE FALSE
            OBVIOUS
        <3>2. [id |-> r.id, from |-> "process", type |-> "bool"] \in Processes(c)
            BY <3>1 DEF Processes, Reader
        <3>. QED
            BY <1>6, <3>2
    <2>. QED
        BY <2>1, <2>2 DEF OfProcess
<1>7. ASSUME NEW r \in Over(system, user)
      PROVE  \/ r \in user \/ r \in Network(c) \/ r \in Processes(c)
             \/ r \in machine /\ ~\E s \in Processes(c) : s.id = r.id
    <2>1. r \in user \/ r \in system
        BY DEF Over
    <2>2. r \in system => r \in Network(c) \/ r \in watched
        BY DEF Over
    <2>3. r \in watched => \/ r \in Processes(c)
                           \/ r \in machine /\ ~\E s \in Processes(c) : s.id = r.id
        BY DEF Over
    <2>. HIDE DEF watched, system, user
    <2>. QED
        BY <2>1, <2>2, <2>3
<1>. HIDE DEF watched, system, user
<1>. QED
    BY <1>1, <1>2, <1>3, <1>4, <1>5, <1>6, <1>7

\* One of the readings is of the id.
Reads(S, id) == \E r \in S : r.id = id

(* A reader reads its ids. *)
LEMMA ReaderReads ==
    ASSUME NEW from, NEW numbers, NEW truths, NEW texts, NEW id \in numbers \cup truths \cup texts,
           NEW S, Reader(from, numbers, truths, texts) \subseteq S
    PROVE  Reads(S, id)
<1>1. CASE id \in numbers
    <2>1. [id |-> id, from |-> from, type |-> "number"] \in S
        BY <1>1 DEF Reader
    <2>. QED
        BY <2>1 DEF Reads
<1>2. CASE id \in truths
    <2>1. [id |-> id, from |-> from, type |-> "bool"] \in S
        BY <1>2 DEF Reader
    <2>. QED
        BY <2>1 DEF Reads
<1>3. CASE id \in texts
    <2>1. [id |-> id, from |-> from, type |-> "text"] \in S
        BY <1>3 DEF Reader
    <2>. QED
        BY <2>1 DEF Reads
<1>. QED
    BY <1>1, <1>2, <1>3

(* Of readings put over others no id is lost. *)
LEMMA OverReads ==
    ASSUME NEW below, NEW above, NEW id
    PROVE  Reads(Over(below, above), id) <=> Reads(below, id) \/ Reads(above, id)
BY DEF Over, Reads

(* A tick collects what any of its collectors read. *)
LEMMA CollectedReads ==
    ASSUME NEW c, NEW p, NEW machine, NEW session, NEW id
    PROVE  Reads(Collected(c, p, machine, session), id)
           <=> \/ Reads(machine, id) \/ Reads(Processes(c), id) \/ Reads(Network(c), id)
               \/ Reads(session, id) \/ Reads(Own(c), id)
<1>. DEFINE watched == Over(machine, Processes(c))
            system  == Over(watched, Network(c))
            user    == Over(session, Own(c))
<1>1. Collected(c, p, machine, session) = Over(system, user)
    BY DEF Collected
<1>2. Reads(watched, id) <=> Reads(machine, id) \/ Reads(Processes(c), id)
    BY OverReads
<1>. HIDE DEF watched
<1>3. Reads(system, id) <=> Reads(watched, id) \/ Reads(Network(c), id)
    BY OverReads
<1>4. Reads(user, id) <=> Reads(session, id) \/ Reads(Own(c), id)
    BY OverReads
<1>. HIDE DEF system, user
<1>5. Reads(Over(system, user), id) <=> Reads(system, id) \/ Reads(user, id)
    BY OverReads
<1>. QED
    BY <1>1, <1>2, <1>3, <1>4, <1>5

\* A tick on which everything can be read has a value for the id.
SomeoneReads(c, p, id) ==
    \/ Reads(Machine(c, p), id) \/ Reads(Processes(c), id) \/ Reads(Network(c), id)
    \/ Reads(Session(c, p), id) \/ Reads(Own(c), id)

(* The sensors of the machine are read. *)
LEMMA MachineSensorsRead ==
    ASSUME NEW c, NEW p \in {"linux", "windows"}, NEW id \in MachineSensors \ Unread(p)
    PROVE  Reads(Machine(c, p), id)
<1>1. CASE id \in {"uptime", "operating_system", "hostname", "chassis"}
    <2>1. Identity \subseteq Machine(c, p)
        BY DEF Machine
    <2>. QED
        BY <1>1, <2>1, ReaderReads DEF Identity
<1>2. CASE id \in {"cpu_usage", "cpu_frequency", "cpu_temperature", "os_version"}
    <2>1. Processor \subseteq Machine(c, p)
        BY DEF Machine
    <2>. QED
        BY <1>2, <2>1, ReaderReads DEF Processor
<1>3. CASE id \in {"ram_total", "ram_used", "ram_available", "ram_usage", "swap_total",
                   "swap_used", "swap_usage"}
    <2>1. Memory \subseteq Machine(c, p)
        BY DEF Machine
    <2>. QED
        BY <1>3, <2>1, ReaderReads DEF Memory
<1>4. CASE id \in {"cpu_power", "dram_power"}
    <2>1. p = "linux"
        BY <1>4 DEF Unread
    <2>2. Reader("machine", {"cpu_power", "dram_power"}, {}, {}) \subseteq Machine(c, p)
        BY <2>1 DEF Machine, Energy
    <2>. QED
        BY <1>4, <2>2, ReaderReads
<1>. QED
    BY <1>1, <1>2, <1>3, <1>4 DEF MachineSensors

(* The sensors of the session are read, and the state of `caffeine`. *)
LEMMA SessionSensorsRead ==
    ASSUME NEW c, NEW p, NEW id \in SessionSensors \cup {"caffeine"}
    PROVE  Reads(Session(c, p), id) \/ Reads(Own(c), id)
<1>1. CASE id \in {"agent_uptime", "agent_version"}
    <2>1. Reader("agent", {"agent_uptime"}, {}, {"agent_version"}) \subseteq Own(c)
        BY DEF Own
    <2>. QED
        BY <1>1, <2>1, ReaderReads
<1>2. CASE id \in {"idle_time"} \cup SessionTruths \cup SessionTexts
    <2>1. Reader("session", {"idle_time"}, SessionTruths, SessionTexts) \subseteq Session(c, p)
        BY DEF Session, SessionTruths, SessionTexts
    <2>. QED
        BY <1>2, <2>1, ReaderReads
<1>. QED
    BY <1>1, <1>2 DEF SessionSensors, SessionTruths, SessionTexts

(* The sensors of every field that is on are read. *)
LEMMA OptionalSensorsRead ==
    ASSUME NEW c, NEW p \in {"linux", "windows"}, NEW f \in OptionalSensors, f \in c.sensors,
           NEW id \in Sensors[f] \ Unread(p)
    PROVE  SomeoneReads(c, p, id)
<1>1. CASE f = "gpu"
    <2>1. Gpu \subseteq Machine(c, p)
        BY <1>1 DEF Machine, On
    <2>2. id \in (GpuSensors \ {"gpu_driver"}) \cup {} \cup {"gpu_driver"}
        BY <1>1, Fields
    <2>. QED
        BY <2>1, <2>2, ReaderReads DEF Gpu, SomeoneReads
<1>2. CASE f = "disk"
    <2>1. Reader("machine", DiskSensors, {}, {}) \subseteq Machine(c, p)
        BY <1>2 DEF Machine, On
    <2>. QED
        BY <1>2, <2>1, Fields, ReaderReads DEF SomeoneReads
<1>3. CASE f = "battery"
    <2>1. Power(p) \subseteq Machine(c, p)
        BY <1>3 DEF Machine, On
    <2>2. id \in BatterySensors \ Unread(p)
        BY <1>3, Fields
    <2>3. id \in ({"battery_percent"} \cup (IF p = "linux"
                                            THEN {"battery_health", "battery_cycles"} ELSE {}))
                 \cup {"battery_present", "battery_charging", "ac_power"} \cup {"battery_status"}
        BY <2>2 DEF BatterySensors, Unread
    <2>. QED
        BY <2>1, <2>3, ReaderReads DEF Power, SomeoneReads
<1>4. CASE f = "lan_ip"
    <2>1. Reader("machine", {"lan_rx", "lan_tx"}, {}, {}) \subseteq Machine(c, p)
        BY <1>4 DEF Machine, On
    <2>2. Reader("network", {}, {}, {"lan_ip"}) \subseteq Network(c)
        BY <1>4 DEF Network, On
    <2>3. id \in {"lan_ip", "lan_rx", "lan_tx"}
        BY <1>4, Fields
    <2>. QED
        BY <2>1, <2>2, <2>3, ReaderReads DEF SomeoneReads
<1>5. CASE f = "wifi"
    <2>1. Wifi \subseteq Machine(c, p) \/ Wifi \subseteq Session(c, p)
        BY <1>5 DEF Machine, Session, On
    <2>2. id \in {"wifi_ssid", "wifi_signal"}
        BY <1>5, Fields
    <2>. QED
        BY <2>1, <2>2, ReaderReads DEF Wifi, SomeoneReads
<1>6. CASE f = "tailscale"
    <2>1. Reader("network", {}, {"tailscale_running"}, {"tailscale_ip"}) \subseteq Network(c)
        BY <1>6 DEF Network, On
    <2>2. id \in {"tailscale_running", "tailscale_ip"}
        BY <1>6, Fields
    <2>. QED
        BY <2>1, <2>2, ReaderReads DEF SomeoneReads
<1>7. CASE f = "wireguard"
    <2>1. Reader("network", {}, {"wireguard_running"}, {"wireguard_ip"}) \subseteq Network(c)
        BY <1>7 DEF Network, On
    <2>2. id \in {"wireguard_running", "wireguard_ip"}
        BY <1>7, Fields
    <2>. QED
        BY <2>1, <2>2, ReaderReads DEF SomeoneReads
<1>8. CASE f = "audio"
    <2>1. Reader("session", {"volume"}, {"muted"}, {"audio_sink"}) \subseteq Session(c, p)
        BY <1>8 DEF Session, On
    <2>2. id \in {"volume", "muted", "audio_sink"}
        BY <1>8, Fields
    <2>. QED
        BY <2>1, <2>2, ReaderReads DEF SomeoneReads
<1>9. CASE f = "mpris"
    <2>1. Reader("session", {}, {"media_playing"}, {"media_title", "media_artist"})
          \subseteq Session(c, p)
        BY <1>9 DEF Session, On
    <2>2. id \in {"media_title", "media_artist", "media_playing"}
        BY <1>9, Fields
    <2>. QED
        BY <2>1, <2>2, ReaderReads DEF SomeoneReads
<1>10. CASE f \in {"active_application", "active_window_title"}
    <2>1. Reader("session", {}, {}, {f}) \subseteq Session(c, p)
        BY <1>10 DEF Session, On
    <2>2. id \in {f}
        BY <1>10, Fields
    <2>. QED
        BY <2>1, <2>2, ReaderReads DEF SomeoneReads
<1>11. CASE f = "online"
    <2>1. Reader("agent", {}, {"online"}, {}) \subseteq Own(c)
        BY <1>11 DEF Own, On
    <2>2. id \in {"online"}
        BY <1>11, Fields
    <2>. QED
        BY <2>1, <2>2, ReaderReads DEF SomeoneReads
<1>12. CASE f = "estimated_power"
    <2>1. Reader("agent", {"estimated_power"}, {}, {}) \subseteq Own(c)
        BY <1>12 DEF Own, On
    <2>2. id \in {"estimated_power"}
        BY <1>12, Fields
    <2>. QED
        BY <2>1, <2>2, ReaderReads DEF SomeoneReads
<1>13. f # "dnd"
    BY Fields
<1>. QED
    BY <1>1, <1>2, <1>3, <1>4, <1>5, <1>6, <1>7, <1>8, <1>9, <1>10, <1>11, <1>12, <1>13
       DEF OptionalSensors

(* Every entity that discovery offers is read by someone, but for those of Unread. *)
LEMMA EverythingRead ==
    ASSUME NEW c \in ReportConfig, NEW p \in {"linux", "windows"},
           NEW id \in Reporting(c, p) \ Unread(p)
    PROVE  SomeoneReads(c, p, id)
<1>1. CASE id \in SensorIds(c)
    <2>1. PICK f \in {"always"} \cup c.sensors : id \in Sensors[f]
        BY <1>1 DEF SensorIds
    <2>2. CASE f = "always"
        BY <2>1, <2>2, Fields, MachineSensorsRead, SessionSensorsRead DEF SomeoneReads
    <2>3. CASE f \in c.sensors
        BY <2>1, <2>3, OptionalSensorsRead DEF ReportConfig
    <2>. QED
        BY <2>2, <2>3
<1>2. CASE id \in ProcessIds(c)
    BY <1>2, ReaderReads DEF Processes, SomeoneReads
<1>3. CASE id \in ListenerIds(c)
    <2>1. id \in ListenerIds(c) \ c.disabled
        BY <1>3 DEF Reporting
    <2>2. Reader("network", {}, ListenerIds(c) \ c.disabled, {}) \subseteq Network(c)
        BY DEF Network
    <2>. QED
        BY <2>1, <2>2, ReaderReads DEF SomeoneReads
<1>4. CASE id \in SwitchIds(c, p)
    <2>1. id # "mute"
        BY DEF Unread
    <2>2. CASE id = "caffeine"
        BY <2>2, SessionSensorsRead DEF SomeoneReads
    <2>3. CASE id = "do_not_disturb" /\ "dnd" \in c.sensors
        <3>1. Reader("session", {}, {"do_not_disturb"}, {}) \subseteq Session(c, p)
            BY <2>3 DEF Session, On
        <3>. QED
            BY <2>3, <3>1, ReaderReads DEF SomeoneReads
    <2>. QED
        BY <1>4, <2>1, <2>2, <2>3 DEF SwitchIds
<1>5. CASE c.update /\ id \in UpdateIds
    <2>1. Reader("agent", {}, {"update_available", "update_auto"}, {"update_latest_version"})
          \subseteq Own(c)
        BY <1>5 DEF Own
    <2>. QED
        BY <1>5, <2>1, ReaderReads DEF UpdateIds, SomeoneReads
<1>. QED
    BY <1>1, <1>2, <1>3, <1>4, <1>5 DEF Reporting

\* The readings are of a helper that runs by one of the configurations.
FromConfig(S, p) == \E c \in ReportConfigs : S \subseteq Session(c, p)

\* The inductive invariant.  A message is as the configuration of the agent says,
\* for as long as the agent runs by it.  What the hub holds was read by some
\* configuration, which need not be that of the agent.
ReportInv ==
    /\ os \in {"linux", "windows"}
    /\ file \in ReportConfigs /\ ours \in ReportConfigs /\ theirs \in ReportConfigs
    /\ entire \in BOOLEAN /\ whole \in BOOLEAN
    /\ FromConfig(hub, os)
    /\ attributes \subseteq {a \in Attributes : AttributeField[a] \in {"always"} \cup ours.sensors}
    /\ Determined(published)
    /\ \A r \in published :
           /\ r.id \in Reporting(ours, os)
           /\ \/ IsReading(r) /\ OfProcess(ours, r)
              \/ r = Null(r.id) /\ (whole => r.id \in Unread(os))

(* No message has been published. *)
LEMMA InvInit == ReportInit => ReportInv
<1>1. ASSUME ReportInit PROVE FromConfig(hub, os)
    BY <1>1, ReportConfigAssumption DEF ReportInit, FromConfig
<1>. QED
    BY <1>1 DEF ReportInit, ReportInv, Determined

(* A null is nobody's reading. *)
LEMMA NobodyReads == \A id : Null(id).id = id /\ ~IsReading(Null(id))
BY DEF Null, IsReading, Someone

(* What to_json_map makes of a tick is as the invariant says. *)
LEMMA JsonMap ==
    ASSUME NEW c \in ReportConfig, NEW p \in {"linux", "windows"}, NEW session, SessionSide(session),
           NEW machine \in SUBSET Machine(c, p), NEW attrs, NEW all \in BOOLEAN,
           all => machine = Machine(c, p) /\ \A id : Reads(Session(c, p), id) => Reads(session, id)
    PROVE  LET message == ToJsonMap(c, p, Collected(c, p, machine, session), attrs).states IN
           /\ Determined(message)
           /\ \A r \in message :
                  /\ r.id \in Reporting(c, p)
                  /\ \/ IsReading(r) /\ OfProcess(c, r)
                     \/ r = Null(r.id) /\ (all => r.id \in Unread(p))
<1>. DEFINE C == Collected(c, p, machine, session)
            seen == {r.id : r \in C}
            message == ToJsonMap(c, p, C, attrs).states
<1>1. Determined(C) /\ \A r \in C : IsReading(r) /\ OfProcess(c, r)
    BY CollectedReadings
<1>2. \A id : id \in seen <=> Reads(C, id)
    BY DEF Reads
<1>3. ASSUME all, NEW id \in Reporting(c, p) \ Unread(p) PROVE id \in seen
    BY <1>2, <1>3, EverythingRead, CollectedReads DEF SomeoneReads
<1>4. message = {r \in C : r.id \in Reporting(c, p)} \cup {Null(id) : id \in Reporting(c, p) \ seen}
    BY DEF ToJsonMap
<1>5. \A r \in C : r.id \in seen
    OBVIOUS
<1>. HIDE DEF seen, message
<1>6. Determined(message)
    BY <1>1, <1>4, <1>5, NobodyReads DEF Determined
<1>7. \A r \in message :
          /\ r.id \in Reporting(c, p)
          /\ \/ IsReading(r) /\ OfProcess(c, r)
             \/ r = Null(r.id) /\ (all => r.id \in Unread(p))
    BY <1>1, <1>3, <1>4, <1>5, NobodyReads
<1>. QED
    BY <1>6, <1>7 DEF message

(* A step keeps the invariant. *)
LEMMA InvNext == ReportInv /\ [ReportNext]_reportVars => ReportInv'
<1>. SUFFICES ASSUME ReportInv, [ReportNext]_reportVars PROVE ReportInv'
    OBVIOUS
<1>. USE DEF ReportInv
<1>1. CASE Edit
    BY <1>1 DEF Edit
<1>2. CASE RestartOurs
    <2>1. FromConfig(hub', os')
        BY <1>2 DEF RestartOurs, FromConfig
    <2>. QED
        BY <1>2, <2>1 DEF RestartOurs, Determined
<1>3. CASE RestartTheirs
    <2>1. FromConfig(hub', os')
        BY <1>3 DEF RestartTheirs, FromConfig
    <2>. QED
        BY <1>3, <2>1 DEF RestartTheirs
<1>4. ASSUME NEW readable \in BOOLEAN, HelperReports(readable) PROVE ReportInv'
    <2>1. FromConfig(hub', os')
        BY <1>4 DEF HelperReports, FromConfig
    <2>. QED
        BY <1>4, <2>1 DEF HelperReports
<1>5. ASSUME NEW machine \in BOOLEAN, NEW session \in BOOLEAN, NEW failed \in BOOLEAN,
             ReportTick(machine, session, failed)
      PROVE  ReportInv'
    <2>. DEFINE ofMachine == IF machine THEN Machine(ours, os) ELSE {}
                ofSession == IF os = "windows" THEN Over(SessionDefaults(ours), hub)
                             ELSE IF session THEN Session(ours, os) ELSE {}
                attrs == CollectedAttributes(ours, os, session, failed)
    <2>1. ours \in ReportConfig
        BY ReportConfigAssumption
    <2>2. /\ published' = ToJsonMap(ours, os, Collected(ours, os, ofMachine, ofSession), attrs).states
          /\ whole' = (machine /\ IF os = "windows" THEN entire /\ hub = Session(ours, os)
                       ELSE session)
          /\ UNCHANGED <<os, file, ours, theirs, hub, entire>>
        BY <1>5 DEF ReportTick
    <2>3. SessionSide(ofSession)
        <3>1. CASE os = "windows"
            BY <3>1, HubIsSide DEF FromConfig
        <3>2. CASE os # "windows"
            <4>1. ofSession \in SUBSET Session(ours, os)
                BY <3>2
            <4>. QED
                BY <4>1, SessionIsSide
        <3>. QED
            BY <3>1, <3>2
    <2>4. whole' => /\ ofMachine = Machine(ours, os)
                    /\ \A id : Reads(Session(ours, os), id) => Reads(ofSession, id)
        BY <2>2, OverReads
    <2>5. ofMachine \in SUBSET Machine(ours, os) /\ whole' \in BOOLEAN
        BY <2>2
    <2>7. attributes' = attrs
        BY <1>5 DEF ReportTick, ToJsonMap
    <2>8. \A a \in attrs : a \in Attributes /\ AttributeField[a] \in {"always"} \cup ours.sensors
        BY DEF CollectedAttributes, AttributeField, Attributes
    <2>. HIDE DEF ofMachine, ofSession, attrs
    <2>. DEFINE message == ToJsonMap(ours, os, Collected(ours, os, ofMachine, ofSession), attrs).states
    <2>9. /\ Determined(message)
          /\ \A r \in message :
                 /\ r.id \in Reporting(ours, os)
                 /\ \/ IsReading(r) /\ OfProcess(ours, r)
                    \/ r = Null(r.id) /\ (whole' => r.id \in Unread(os))
        BY <2>1, <2>3, <2>4, <2>5, JsonMap
    <2>10. published' = message
        BY <2>2
    <2>. HIDE DEF message
    <2>6. /\ Determined(published')
          /\ \A r \in published' :
                 /\ r.id \in Reporting(ours, os)
                 /\ \/ IsReading(r) /\ OfProcess(ours, r)
                    \/ r = Null(r.id) /\ (whole' => r.id \in Unread(os))
        BY <2>9, <2>10
    <2>. QED
        BY <2>2, <2>5, <2>6, <2>7, <2>8
<1>6. CASE UNCHANGED reportVars
    BY <1>6 DEF reportVars
<1>. QED
    BY <1>1, <1>2, <1>3, <1>4, <1>5, <1>6 DEF ReportNext

(* Whatever is edited, restarted and collected, every message is as its
   configuration says. *)
THEOREM ReportsHold == ReportSpec => []ReportInv
<1>. QED
    BY InvInit, InvNext, PTL DEF ReportSpec

(* No entity is of two fields. *)
LEMMA FieldsApart ==
    ASSUME NEW f \in {"always"} \cup OptionalSensors, NEW g \in OptionalSensors,
           NEW id \in Sensors[f], id \in Sensors[g]
    PROVE  f = g
<1>. DEFINE Large == {"always", "gpu", "disk", "battery"}
<1>1. CASE g = "gpu"
    <2>1. id \in GpuSensors
        BY <1>1, Fields
    <2>. QED
        BY <1>1, <2>1, Fields
           DEF OptionalSensors, MachineSensors, SessionSensors, GpuSensors, DiskSensors,
               BatterySensors
<1>2. CASE g = "disk"
    <2>1. id \in DiskSensors
        BY <1>2, Fields
    <2>. QED
        BY <1>2, <2>1, Fields
           DEF OptionalSensors, MachineSensors, SessionSensors, GpuSensors, DiskSensors,
               BatterySensors
<1>3. CASE g = "battery"
    <2>1. id \in BatterySensors
        BY <1>3, Fields
    <2>. QED
        BY <1>3, <2>1, Fields
           DEF OptionalSensors, MachineSensors, SessionSensors, GpuSensors, DiskSensors,
               BatterySensors
<1>4. CASE g \notin Large /\ f \in Large
    <2>1. id \in MachineSensors \cup SessionSensors \cup GpuSensors \cup DiskSensors \cup BatterySensors
        BY <1>4, Fields
    <2>. QED
        BY <1>4, <2>1, Fields
           DEF OptionalSensors, MachineSensors, SessionSensors, GpuSensors, DiskSensors,
               BatterySensors
<1>5. CASE g \notin Large /\ f \notin Large
    BY <1>5, Fields DEF OptionalSensors
<1>. QED
    BY <1>1, <1>2, <1>3, <1>4, <1>5, Fields DEF OptionalSensors

(* The entities of the update and the switches are no sensors. *)
LEMMA ControlsApart == (UpdateIds \cup SwitchNames) \cap AllSensors = {}
<1>1. ASSUME NEW f \in {"always"} \cup OptionalSensors
      PROVE  (UpdateIds \cup SwitchNames) \cap Sensors[f] = {}
    <2>1. CASE f \in {"always", "gpu", "disk", "battery"}
        BY <2>1, Fields DEF UpdateIds, SwitchNames, MachineSensors, SessionSensors, GpuSensors,
                            DiskSensors, BatterySensors
    <2>2. CASE f \notin {"always", "gpu", "disk", "battery"}
        BY <2>2, Fields DEF UpdateIds, SwitchNames, OptionalSensors
    <2>. QED
        BY <2>1, <2>2
<1>. QED
    BY <1>1, AllSensorsOf

(* A field that is off has no entity among those of the fields that are on. *)
LEMMA SensorIdsOf ==
    ASSUME NEW c \in ReportConfig
    PROVE  /\ SensorIds(c) \subseteq AllSensors
           /\ \A f \in OptionalSensors \ c.sensors : SensorIds(c) \cap Sensors[f] = {}
<1>1. \A f \in {"always"} \cup c.sensors : f \in {"always"} \cup OptionalSensors
    BY DEF ReportConfig
<1>2. SensorIds(c) \subseteq AllSensors
    BY <1>1, AllSensorsOf DEF SensorIds
<1>3. ASSUME NEW f \in OptionalSensors \ c.sensors, NEW id \in SensorIds(c), id \in Sensors[f]
      PROVE  FALSE
    <2>1. PICK g \in {"always"} \cup c.sensors : id \in Sensors[g]
        BY DEF SensorIds
    <2>2. g = f
        BY <1>1, <1>3, <2>1, FieldsApart
    <2>. QED
        BY <2>2 DEF OptionalSensors
<1>. QED
    BY <1>2, <1>3

(* What discovery offers has a known id. *)
LEMMA ReportedIds ==
    ASSUME NEW c \in ReportConfig, NEW p PROVE Reporting(c, p) \subseteq AllIds
<1>1. SensorIds(c) \subseteq AllSensors
    BY SensorIdsOf
<1>2. ProcessIds(c) \cup ListenerIds(c) \subseteq AllIds
    BY DEF ProcessIds, ListenerIds, ReportConfig, AllIds
<1>3. SwitchIds(c, p) \subseteq FixedIds
    BY DEF SwitchIds, FixedIds
<1>. QED
    BY <1>1, <1>2, <1>3 DEF Reporting, AllIds, FixedIds

(* The invariant gives the types, and one value for an entity. *)
LEMMA InvTyped == ReportInv => ReportTypeOK
<1>. SUFFICES ASSUME ReportInv PROVE ReportTypeOK
    OBVIOUS
<1>1. ASSUME NEW r, IsReading(r) PROVE r \in Readings
    BY <1>1 DEF IsReading, Proper, Someone, KindOf, Readings
<1>2. published \subseteq Readings
    <2>1. ASSUME NEW r \in published, r = Null(r.id) PROVE r \in Readings
        BY <2>1, ReportedIds, ReportConfigAssumption DEF ReportInv, Null, Readings
    <2>. QED
        BY <1>1, <2>1 DEF ReportInv
<1>3. hub \subseteq Readings
    <2>1. PICK c \in ReportConfigs : hub \subseteq Session(c, os)
        BY DEF ReportInv, FromConfig
    <2>. QED
        BY <1>1, <2>1, SessionIsSide DEF SessionSide
<1>. QED
    BY <1>2, <1>3 DEF ReportInv, ReportTypeOK, Determined

(* Every message, and all that stands behind it, has its type, and no entity
   has two values. *)
THEOREM ReportsTyped == ReportSpec => []ReportTypeOK
BY ReportsHold, InvTyped, PTL

(* The invariant says that no entity is left null. *)
LEMMA InvRead == ReportInv => EveryEntityRead
BY DEF ReportInv, EveryEntityRead, IsReading, Proper, KindOf

(* Every entity that discovery offers is read, whatever the configuration. *)
THEOREM AllAreRead == ReportSpec => []EveryEntityRead
BY ReportsHold, InvRead, PTL

(* What is offered is not excluded, and attributes are collected by field. *)
LEMMA InvExcluded == ReportInv => ExcludedUnpublished
<1>. SUFFICES ASSUME ReportInv, NEW r \in published
              PROVE  /\ r.id \notin ours.disabled
                     /\ \A f \in OptionalSensors \ ours.sensors :
                            r.id \in Sensors[f] => r.id \in ProcessIds(ours)
    BY DEF ExcludedUnpublished, ReportInv
<1>1. ours \in ReportConfig /\ r.id \in Reporting(ours, os)
    BY ReportConfigAssumption DEF ReportInv
<1>2. ASSUME NEW f \in OptionalSensors \ ours.sensors, r.id \in Sensors[f]
      PROVE  r.id \in ProcessIds(ours)
    <2>1. r.id \in AllSensors
        BY <1>2, AllSensorsOf
    <2>2. r.id \notin SensorIds(ours)
        BY <1>1, <1>2, SensorIdsOf
    <2>3. r.id \notin ListenerIds(ours)
        BY <1>1, <2>1, IdAssumption DEF ListenerIds, ReportConfig, FixedIds
    <2>4. r.id \notin SwitchIds(ours, os) \cup UpdateIds
        BY <2>1, ControlsApart DEF SwitchIds, SwitchNames
    <2>. QED
        BY <1>1, <2>2, <2>3, <2>4 DEF Reporting
<1>. QED
    BY <1>1, <1>2 DEF Reporting

(* The state of an entity that the configuration excludes is not published,
   even while the helper still collects it, nor an attribute of a field that is
   off. *)
THEOREM ExcludedStaysOut == ReportSpec => []ExcludedUnpublished
BY ReportsHold, InvExcluded, PTL

(* The invariant says whose value it is and that it can be shown. *)
LEMMA InvOwn == ReportInv => OwnValues
<1>. SUFFICES ASSUME ReportInv, NEW r \in published, r.type # "null"
              PROVE  /\ IsShowable(r) \/ r.id \in Unshowable
                     /\ r.id \notin SensorIds(ours) =>
                            (r.from = "process" <=> r.id \in ProcessIds(ours))
    BY DEF OwnValues
<1>1. ours \in ReportConfig /\ r.id \in Reporting(ours, os)
    BY ReportConfigAssumption DEF ReportInv
<1>2. r # Null(r.id)
    BY DEF Null
<1>3. IsReading(r) /\ OfProcess(ours, r)
    BY <1>2 DEF ReportInv
<1>4. r.type = KindOf(r.id)
    BY <1>3 DEF IsReading, Proper
<1>5. ProcessIds(ours) \cup ListenerIds(ours) \subseteq MonitorIds
    BY <1>1 DEF ProcessIds, ListenerIds, MonitorIds, ReportConfig
<1>6. ASSUME r.id \in TruthIds \cup ProcessIds(ours) \cup ListenerIds(ours)
      PROVE  IsShowable(r)
    <2>1. r.type = "bool"
        BY <1>4, <1>5, <1>6, TypesOfIds
    <2>2. r.id \in BinarySensors \cup {"caffeine", "mute", "do_not_disturb", "update_auto"}
                   \cup ProcessIds(ours) \cup ListenerIds(ours)
        BY <1>6 DEF TruthIds, SwitchNames
    <2>. QED
        BY <2>1, <2>2 DEF IsShowable
<1>7. ASSUME r.id \notin TruthIds \cup ProcessIds(ours) \cup ListenerIds(ours)
      PROVE  IsShowable(r) \/ r.id \in Unshowable
    <2>0. r.id \notin BinarySensors \cup {"caffeine", "mute", "do_not_disturb", "update_auto"}
                      \cup ProcessIds(ours) \cup ListenerIds(ours)
        BY <1>7 DEF TruthIds, SwitchNames
    <2>1. r.id \in FixedIds
        BY <1>1, <1>7, SensorIdsOf DEF Reporting, FixedIds, SwitchIds
    <2>2. r.id \notin MonitorIds
        BY <2>0, <2>1, Monitors DEF BinarySensors
    <2>3. CASE r.id \in TextSensors
        BY <2>0, <2>3 DEF IsShowable
    <2>4. CASE r.id \notin TextSensors \cup Unshowable
        <3>1. r.type = "number"
            BY <1>4, <1>7, <2>2, <2>4 DEF KindOf, TextIds
        <3>. QED
            BY <2>0, <2>4, <3>1 DEF IsShowable
    <2>. QED
        BY <2>3, <2>4
<1>. QED
    BY <1>3, <1>6, <1>7 DEF OfProcess

(* Every value is its entity's own, and of the type its component can show. *)
THEOREM EachItsOwn == ReportSpec => []OwnValues
BY ReportsHold, InvOwn, PTL
=============================================================================
