------------------------------ MODULE Entities ------------------------------
(***************************************************************************)
(* The controls the agent offers Home Assistant under a configuration      *)
(* (entity.rs, config.rs, transport/discovery.rs): switches, buttons and   *)
(* notification targets, and the entries of `commands:`, each a button     *)
(* named by its id.  Nothing keeps a command from taking the id of a       *)
(* built-in control; discovery then keeps one component for the id.        *)
(* The entities that only report (sensors) are left out.                   *)
(***************************************************************************)
CONSTANT CommandIds   \* ids the `commands:` section may use

PowerButtons   == {"lock", "suspend", "hibernate", "shutdown", "reboot"}
VolumeButtons  == {"volume_up", "volume_down"}
MediaButtons   == {"media_play_pause", "media_next", "media_previous"}
NotifyTargets  == {"notify_message", "notify_urgent"}
UpdateControls == {"update_auto", "apply_update"}
Switches       == {"caffeine", "mute", "do_not_disturb", "update_auto"}

BuiltInIds == PowerButtons \cup VolumeButtons \cup MediaButtons \cup NotifyTargets
              \cup UpdateControls \cup Switches
Ids == BuiltInIds \cup CommandIds

Platforms == {"linux", "windows"}
OnOff == {"on", "off"}

\* The fields of the configuration file that the controls depend on.
Config ==
    [actions  : SUBSET (PowerButtons \cup {"caffeine", "mute", "volume", "notify", "dnd"}),
     sensors  : SUBSET {"audio", "mpris", "dnd"},
     update   : BOOLEAN,              \* update.enabled
     auto     : OnOff,                \* update.auto
     commands : SUBSET CommandIds,
     disabled : SUBSET Ids]           \* sensors.disabled

\* Config::action_enabled: whether a command for the id may be carried out.
ActionEnabled(c, id) ==
    \/ id \in PowerButtons \cup {"caffeine", "mute"} /\ id \in c.actions
    \/ id \in VolumeButtons /\ "volume" \in c.actions
    \/ id \in NotifyTargets \cup {"notify"} /\ "notify" \in c.actions
    \/ id = "do_not_disturb" /\ "dnd" \in c.actions
    \/ id \in MediaButtons /\ "mpris" \in c.sensors
    \/ id \in UpdateControls /\ c.update
    \/ id \in c.commands \ (BuiltInIds \cup {"notify"})

\* A deliberate fault, to see AdvertisedWorks fail: the switch Windows cannot
\* write is offered there too.
FaultBuiltIn(c, p) ==
    (c.actions \cap (PowerButtons \cup {"caffeine"}))
    \cup (IF {"dnd"} \subseteq c.sensors \cap c.actions THEN {"do_not_disturb"} ELSE {})

\* The built-in controls of enabled_entities, before `disabled` is applied.
BuiltIn(c, p) ==
    (c.actions \cap (PowerButtons \cup {"caffeine"}))
    \cup (IF "audio" \in c.sensors /\ "mute" \in c.actions THEN {"mute"} ELSE {})
    \cup (IF "audio" \in c.sensors /\ "volume" \in c.actions THEN VolumeButtons ELSE {})
    \cup (IF p # "windows" /\ "dnd" \in c.sensors /\ "dnd" \in c.actions
          THEN {"do_not_disturb"} ELSE {})
    \cup (IF "notify" \in c.actions THEN NotifyTargets ELSE {})
    \cup (IF "mpris" \in c.sensors THEN MediaButtons ELSE {})
    \cup (IF c.update THEN UpdateControls ELSE {})

Advertised(c, p) == (BuiltIn(c, p) \cup c.commands) \ c.disabled

\* The component of an id is the last entity inserted under it: a command
\* replaces any control of the same id but the two of `update`, which follow it.
IsCommandButton(c, id) ==
    id \in c.commands /\ ~(c.update /\ id \in UpdateControls)

\* What Home Assistant may publish on the command topic of a component.
Payloads(c, id) ==
    IF IsCommandButton(c, id)     THEN {"press"}
    ELSE IF id \in Switches       THEN OnOff
    ELSE IF id \in NotifyTargets  THEN {"text", "empty", "json"}
    ELSE                               {"press"}
=============================================================================
