---------------------------- MODULE ActionRouter ----------------------------
(***************************************************************************)
(* From a message on a command topic to its effect on the desktop, and     *)
(* back to the state Home Assistant is shown: IncomingCommand::parse and   *)
(* ActionRouter (action.rs), the two ways to the desktop (D-Bus, wpctl and *)
(* gsettings on Linux; the service and its session helper on Windows), and *)
(* what the next collection reports of the switches and the media player.  *)
(*                                                                         *)
(* The main loop handles a command or a tick at a time, so each is a step. *)
(* On Windows a call whose answer is lost may still be executed by the     *)
(* helper later, in order (module SessionHub); this module keeps those     *)
(* calls in `late`.                                                        *)
(***************************************************************************)
EXTENDS Entities, Naturals, Sequences

CONSTANTS
    Configs,      \* the configurations considered
    Players,      \* media players that may appear on the session bus
    MaxCommands,  \* bound: messages received
    MaxChanges,   \* bound: changes the user makes at the desktop
    MaxFaults     \* bound: restarts, lost pipes, readings that fail

ASSUME ConfigAssumption == Configs \subseteq Config
ASSUME BoundAssumption == MaxCommands \in Nat /\ MaxChanges \in Nat /\ MaxFaults \in Nat

NoPlayer == "no player"
ASSUME PlayerAssumption == NoPlayer \notin Players

VARIABLES
    config, platform,
    setting,      \* the desktop: what each switch really stands at
    running,      \* the media players on the bus
    owner,        \* LinuxSession.mpris_owner
    helper,       \* Windows: what the service has of the session helper
    values,       \* Windows: `caffeine` in the last snapshot of the helper
    late,         \* Windows: calls given up on that a helper has not executed
    shown,        \* the state last collected for each switch
    shownPlayer,  \* the attribute mpris_player of the last collection
    effect,       \* what the step just taken did to the desktop
    target,       \* and to which media player
    received, changes, faults

desktopVars == <<setting, running>>
windowsVars == <<helper, values, late>>
shownVars   == <<shown, shownPlayer>>
effectVars  == <<effect, target>>
boundVars   == <<received, changes, faults>>
vars == <<config, platform, desktopVars, owner, windowsVars, shownVars, effectVars, boundVars>>

Effect(op, id, value) == [op |-> op, id |-> id, value |-> value]
Nothing == Effect("none", "", "")

Effects ==
    [op : {"none", "run", "power", "volume", "media", "notify", "apply"},
     id : Ids \cup {"", "normal", "critical"},
     value : {"", "+5", "-5", "payload", "default"}]
    \cup [op : {"set"}, id : Switches, value : OnOff]

\* The service waits for a helper, or serves one; or it serves one that is gone
\* without noticing, or has refused the one that is there (module SessionHub).
HelperStates == {"none", "served", "gone", "refused"}

TypeOK ==
    /\ config \in Configs /\ platform \in Platforms
    /\ setting \in [Switches -> OnOff]
    /\ running \subseteq Players
    /\ owner \in Players \cup {NoPlayer}
    /\ helper \in HelperStates
    /\ values \in OnOff \cup {"none"}
    /\ late \in Seq(Effects)
    /\ shown \in [Switches -> OnOff \cup {"none"}]
    /\ shownPlayer \in Players \cup {NoPlayer}
    /\ effect \in Effects
    /\ target \in Players \cup {NoPlayer}
    /\ received \in 0..MaxCommands /\ changes \in 0..MaxChanges /\ faults \in 0..MaxFaults

Init ==
    /\ config \in Configs /\ platform \in Platforms
    /\ setting = [s \in Switches |-> IF s = "update_auto" THEN config.auto ELSE "off"]
    /\ running \in (IF platform = "linux" THEN SUBSET Players ELSE {{}})
    /\ owner = NoPlayer
    /\ helper = "none" /\ values = "none" /\ late = <<>>
    /\ shown = [s \in Switches |-> "none"] /\ shownPlayer = NoPlayer
    /\ effect = Nothing /\ target = NoPlayer
    /\ received = 0 /\ changes = 0 /\ faults = 0

-----------------------------------------------------------------------------
(* The definitions named Fault... are deliberate faults, each put in place of  *)
(* the definition that follows it to see a property fail; Next uses none.     *)

(* IncomingCommand::parse *)

Command(kind, id, value) == [kind |-> kind, id |-> id, value |-> value]
NoCommand == Command("none", "", "")

\* "press" is PRESS, PRESSED or LOCK; "json" an object with a body, "json
\* without body" one without; "broken json" starts with a bracket and is no
\* object; "oversized" is over 8 KiB.
AllPayloads == {"on", "off", "press", "empty", "text", "json", "json without body",
                "broken json", "oversized"}

Parse(id, payload) ==
    CASE payload = "oversized" -> NoCommand
      [] payload # "oversized" /\ id \in NotifyTargets ->
           CASE payload = "broken json" -> NoCommand
             [] payload \in {"empty", "json without body"} -> Command("notify", id, "default")
             [] OTHER -> Command("notify", id, "payload")
      [] payload \in OnOff /\ id \notin NotifyTargets -> Command("switch", id, payload)
      [] payload \in {"press", "empty"} /\ id \notin NotifyTargets -> Command("press", id, "")
      [] OTHER -> NoCommand

-----------------------------------------------------------------------------
(* The two ways from a command to the user's desktop *)

Urgency(id) == IF id = "notify_urgent" THEN "critical" ELSE "normal"
Delta(id) == IF id = "volume_up" THEN "+5" ELSE "-5"

\* Linux: LinuxSession, audio::set_muted / bump_volume and dnd::set_dnd.
LinuxEffect(cmd) ==
    CASE cmd.kind = "notify" -> Effect("notify", Urgency(cmd.id), cmd.value)
      [] cmd.kind # "notify" /\ cmd.id \in PowerButtons -> Effect("power", cmd.id, "")
      [] cmd.id \in VolumeButtons -> Effect("volume", "", Delta(cmd.id))
      [] cmd.id \in MediaButtons -> Effect("media", cmd.id, "")
      [] cmd.id \in Switches -> Effect("set", cmd.id, cmd.value)

\* Windows: the message of rpc_from_command, "" for None.
Rpc(method, arg, value) == [method |-> method, arg |-> arg, value |-> value]

RpcFromCommand(cmd) ==
    CASE cmd.kind = "notify" -> Rpc("notify", Urgency(cmd.id), cmd.value)
      [] cmd.kind = "switch" /\ cmd.id = "mute" -> Rpc("set_mute", "", cmd.value)
      [] cmd.kind = "switch" /\ cmd.id = "caffeine" -> Rpc("set_caffeine", "", cmd.value)
      [] cmd.kind = "switch" /\ cmd.id = "lock" /\ cmd.value = "on" -> Rpc("lock", "", "")
      [] cmd.kind = "press" /\ cmd.id = "lock" -> Rpc("lock", "", "")
      [] cmd.kind = "press" /\ cmd.id \in VolumeButtons ->
           Rpc("bump_volume", "", Delta(cmd.id))
      [] cmd.kind = "press" /\ cmd.id \in MediaButtons -> Rpc("mpris", cmd.id, "")
      [] OTHER -> Rpc("", "", "")

\* set_mute does not check that the message says which way.
FaultHandleRpc(m) ==
    IF m.method \in {"set_mute", "set_caffeine"} THEN Effect("set", "mute", m.arg)
    ELSE Effect("power", "lock", "")

\* Windows: what handle_rpc does with a message in the session helper.
HandleRpc(m) ==
    CASE m.method = "notify"       -> Effect("notify", m.arg, m.value)
      [] m.method = "lock"         -> Effect("power", "lock", "")
      [] m.method = "set_mute"     -> Effect("set", "mute", m.value)
      [] m.method = "set_caffeine" -> Effect("set", "caffeine", m.value)
      [] m.method = "bump_volume"  -> Effect("volume", "", m.value)
      [] m.method = "mpris"        -> Effect("media", m.arg, "")

Act(e) == [verdict |-> "act", effect |-> e]
Refused(why) == [verdict |-> why, effect |-> Nothing]

OnDesktop(p, cmd) ==
    CASE p = "linux" -> Act(LinuxEffect(cmd))
      [] p = "windows" /\ RpcFromCommand(cmd).method # "" -> Act(HandleRpc(RpcFromCommand(cmd)))
      [] OTHER -> Refused("unsupported")

-----------------------------------------------------------------------------
(* ActionRouter::handle *)

HandleSwitch(c, p, cmd) ==
    CASE cmd.id = "lock" /\ cmd.value = "off" -> Refused("ignored")
      [] cmd.id \notin Switches \cup {"lock"} -> Refused("ignored")
      [] cmd.id \in Switches \cup {"lock"} /\ ~ActionEnabled(c, cmd.id)
           /\ ~(cmd.id = "lock" /\ cmd.value = "off") -> Refused("disabled")
      [] cmd.id = "update_auto" /\ ActionEnabled(c, cmd.id) ->
           Act(Effect("set", cmd.id, cmd.value))
      [] cmd.id = "do_not_disturb" /\ p # "linux" /\ ActionEnabled(c, cmd.id) ->
           Refused("unsupported")
      [] OTHER -> OnDesktop(p, cmd)

HandleNotify(c, p, cmd) ==
    IF ActionEnabled(c, "notify") THEN OnDesktop(p, cmd) ELSE Refused("disabled")

\* A press is carried out without a look at the configuration.
FaultHandlePress(c, p, cmd) ==
    CASE cmd.id \in c.commands -> Act(Effect("run", cmd.id, ""))
      [] cmd.id \in PowerButtons \ c.commands -> Act(Effect("power", cmd.id, ""))
      [] OTHER -> Refused("ignored")

HandlePress(c, p, cmd) ==
    CASE cmd.id \in c.commands -> Act(Effect("run", cmd.id, ""))
      [] cmd.id \notin c.commands /\ ~ActionEnabled(c, cmd.id) -> Refused("disabled")
      [] OTHER ->
           CASE cmd.id \in PowerButtons \ {"lock"} /\ p = "windows" ->
                  Act(Effect("power", cmd.id, ""))       \* by the service itself
             [] cmd.id = "apply_update" -> Act(Effect("apply", "", ""))
             [] cmd.id \in {"lock"} \cup VolumeButtons \cup MediaButtons
                \/ (cmd.id \in PowerButtons /\ p = "linux") -> OnDesktop(p, cmd)
             [] OTHER -> Refused("ignored")

Handle(c, p, cmd) ==
    CASE cmd.kind = "switch" -> HandleSwitch(c, p, cmd)
      [] cmd.kind = "press"  -> HandlePress(c, p, cmd)
      [] cmd.kind = "notify" -> HandleNotify(c, p, cmd)
      [] cmd.kind = "none"   -> Refused("dropped")

-----------------------------------------------------------------------------
(* A message on the command topic *)

ByHelper(e) ==
    /\ platform = "windows"
    /\ \/ e.op \in {"volume", "media", "notify"}
       \/ e.op = "power" /\ e.id = "lock"
       \/ e.op = "set" /\ e.id # "update_auto"

\* mpris_action: the player of the last collection, else any on the bus.
MediaTarget(e) ==
    IF e.op # "media" \/ platform # "linux" THEN {NoPlayer}
    ELSE {p \in running : owner \in {p, NoPlayer}}

After(e) == IF e.op = "set" THEN [setting EXCEPT ![e.id] = e.value] ELSE setting

Perform(e) ==
    /\ effect' = e
    /\ target' \in MediaTarget(e)
    /\ setting' = After(e)

\* It takes effect; a helper still busy with older calls does those first.
Succeeds(e) ==
    /\ ByHelper(e) => helper = "served" /\ late = <<>>
    /\ Perform(e)
    /\ UNCHANGED late

\* The desktop reports an error, or the call is given up on: the helper may
\* have executed it already, or executes it when its turn comes.  One that is
\* gone never answers.
Fails(e) ==
    \/ effect' = Nothing /\ target' = NoPlayer /\ UNCHANGED <<setting, late>>
    \/ ByHelper(e) /\ helper = "served" /\ late = <<>> /\ Perform(e) /\ UNCHANGED late
    \/ /\ ByHelper(e) /\ helper = "served"
       /\ late' = Append(late, e)
       /\ effect' = Nothing /\ target' = NoPlayer /\ UNCHANGED setting

Receive(id, payload) ==
    LET r == Handle(config, platform, Parse(id, payload)) IN
    /\ received < MaxCommands /\ received' = received + 1
    /\ \/ r.verdict = "act" /\ (Succeeds(r.effect) \/ Fails(r.effect))
       \/ r.verdict # "act" /\ effect' = Nothing /\ target' = NoPlayer
          /\ UNCHANGED <<setting, late>>
    /\ UNCHANGED <<config, platform, running, owner, helper, values, shownVars,
                   changes, faults>>

Quiet == effect' = Nothing /\ target' = NoPlayer

\* The helper comes to a call the service no longer waits for.
LateEffect ==
    /\ helper = "served" /\ late # <<>>
    /\ Perform(Head(late))
    /\ late' = Tail(late)
    /\ UNCHANGED <<config, platform, running, owner, helper, values, shownVars, boundVars>>

-----------------------------------------------------------------------------
(* A tick: what the collectors report *)

\* The key the switch's value_template reads, in the snapshot of this tick;
\* the collectors report the sink's mute state under `muted` only.
Reported(s, readable) ==
    CASE s = "caffeine" /\ platform = "linux" -> setting[s]
      [] s = "caffeine" /\ platform = "windows" -> IF values = "none" THEN "off" ELSE values
      [] s = "mute" -> "none"
      [] s = "do_not_disturb" ->
           IF platform = "linux" /\ "dnd" \in config.sensors /\ readable
           THEN setting[s] ELSE "none"
      [] s = "update_auto" -> IF config.update THEN setting[s] ELSE "off"

\* The player that is reported is not remembered for the buttons.
FaultCollectMedia ==
    /\ UNCHANGED owner
    /\ shownPlayer' \in (IF platform = "linux" THEN running ELSE {}) \cup {NoPlayer}

\* collect_mpris: picks a player and remembers it; one that cannot be reached
\* leaves the remembered one.
CollectMedia ==
    IF platform # "linux" \/ "mpris" \notin config.sensors
    THEN UNCHANGED <<owner, shownPlayer>>
    ELSE \/ owner' = NoPlayer /\ shownPlayer' = NoPlayer     \* none found
         \/ \E p \in running : owner' = p /\ shownPlayer' = p
         \/ running # {} /\ shownPlayer' = NoPlayer /\ UNCHANGED owner

Tick(readable) ==
    /\ readable \/ faults < MaxFaults
    /\ faults' = IF readable THEN faults ELSE faults + 1
    /\ shown' = [s \in Switches |-> Reported(s, readable)]
    /\ CollectMedia
    /\ Quiet
    /\ UNCHANGED <<config, platform, desktopVars, windowsVars, received, changes>>

-----------------------------------------------------------------------------
(* The session helper, restarts and the user *)

\* snapshot_message, read by the service.
HelperSnapshot ==
    /\ helper = "served"
    /\ values' = setting["caffeine"]
    /\ Quiet
    /\ UNCHANGED <<config, platform, desktopVars, owner, helper, late, shownVars, boundVars>>

\* It connects, and what it was sent before is gone with the old pipe.  If it
\* comes between CreateNamedPipeW and ConnectNamedPipe, it is refused for good.
HelperConnects ==
    /\ platform = "windows" /\ helper = "none"
    /\ \/ helper' = "served" /\ UNCHANGED faults
       \/ helper' = "refused" /\ faults < MaxFaults /\ faults' = faults + 1
    /\ late' = <<>>
    /\ Quiet
    /\ UNCHANGED <<config, platform, desktopVars, owner, values, shownVars, received,
                   changes>>

CaffeineOff == [setting EXCEPT !["caffeine"] = "off"]

\* The values of the session that ended stay.
FaultHelperExits ==
    /\ platform = "windows" /\ helper # "gone"
    /\ faults < MaxFaults /\ faults' = faults + 1
    /\ helper' \in {"none", "gone"} /\ (helper' = "gone" => helper = "served")
    /\ late' = <<>> /\ setting' = CaffeineOff
    /\ Quiet
    /\ UNCHANGED <<config, platform, running, owner, values, shownVars, received,
                   changes>>

\* The helper's process ends, and Windows drops what it had requested.  The
\* server notices only if a frame was cut in the middle.
HelperExits ==
    /\ platform = "windows" /\ helper # "gone"
    /\ faults < MaxFaults /\ faults' = faults + 1
    /\ \/ helper = "served" /\ helper' = "gone" /\ UNCHANGED values
       \/ helper' = "none" /\ values' = "none"
    /\ late' = <<>> /\ setting' = CaffeineOff
    /\ Quiet
    /\ UNCHANGED <<config, platform, running, owner, shownVars, received, changes>>

\* A helper whose service has gone comes to a call it was sent before, executes
\* it, cannot write the result and exits.
LastEffect ==
    /\ helper = "none" /\ late # <<>>
    /\ effect' = Head(late) /\ target' = NoPlayer
    /\ late' = <<>>
    /\ setting' = [After(Head(late)) EXCEPT !["caffeine"] = "off"]
    /\ UNCHANGED <<config, platform, running, owner, helper, values, shownVars, boundVars>>

\* The agent starts again.  On Linux its inhibitor lock goes with its process;
\* on Windows the helper survives, or ends as well.
Restart ==
    /\ faults < MaxFaults /\ faults' = faults + 1
    /\ owner' = NoPlayer /\ shownPlayer' = NoPlayer
    /\ helper' = "none" /\ values' = "none"
    /\ \/ /\ platform = "windows"
          /\ setting' = [setting EXCEPT !["update_auto"] = config.auto]
          /\ UNCHANGED late
       \/ /\ setting' = [CaffeineOff EXCEPT !["update_auto"] = config.auto]
          /\ late' = <<>>
    /\ Quiet
    /\ UNCHANGED <<config, platform, running, shown, received, changes>>

\* The user mutes, turns banners off, starts a player or closes one.
UserActs ==
    /\ changes < MaxChanges /\ changes' = changes + 1
    /\ \/ \E s \in {"mute", "do_not_disturb"}, v \in OnOff :
              setting' = [setting EXCEPT ![s] = v] /\ UNCHANGED running
       \/ platform = "linux" /\ \E p \in Players :
              running' \in {running \cup {p}, running \ {p}} /\ UNCHANGED setting
    /\ Quiet
    /\ UNCHANGED <<config, platform, owner, windowsVars, shownVars, received, faults>>

Next ==
    \/ \E id \in Ids, payload \in AllPayloads : Receive(id, payload)
    \/ LateEffect
    \/ \E readable \in BOOLEAN : Tick(readable)
    \/ HelperSnapshot \/ HelperConnects \/ HelperExits \/ LastEffect
    \/ Restart
    \/ UserActs

\* The interval timer keeps firing and the loop of a served helper keeps running;
\* a helper that keeps Windows awake runs, and goes on trying to connect.
Fairness ==
    /\ WF_vars(Tick(TRUE))
    /\ WF_vars(HelperSnapshot) /\ WF_vars(LateEffect)
    /\ WF_vars(setting["caffeine"] = "on" /\ HelperConnects)

Spec == Init /\ [][Next]_vars
FairSpec == Spec /\ Fairness

-----------------------------------------------------------------------------
(* Properties *)

\* What the configuration permits, by what is done and not by who asked.
Permitted(c, e) ==
    CASE e.op = "none"   -> TRUE
      [] e.op = "run"    -> e.id \in c.commands
      [] e.op = "power"  -> e.id \in c.actions
      [] e.op = "volume" -> "volume" \in c.actions
      [] e.op = "notify" -> "notify" \in c.actions
      [] e.op = "media"  -> "mpris" \in c.sensors
      [] e.op = "apply"  -> c.update
      [] e.op = "set"    ->
           CASE e.id = "update_auto"    -> c.update
             [] e.id = "do_not_disturb" -> "dnd" \in c.actions
             [] OTHER                   -> e.id \in c.actions

\* Whatever id and payload arrive, the desktop is touched only in a way the
\* configuration switches on, and a program run only if `commands:` lists it,
\* also when the helper executes a call long given up (action.rs, README:115).
OnlyPermitted == Permitted(config, effect)

\* Ids that both `commands:` and a control claim, and whose topic discovery
\* and the router read differently.
Clashes(c) == c.commands \cap (NotifyTargets \cup {"apply_update"})

\* What the component of an advertised id stands for.
BuiltInStandsFor(id, payload) ==
    CASE id \in NotifyTargets ->
           Effect("notify", IF id = "notify_urgent" THEN "critical" ELSE "normal",
                  IF payload = "empty" THEN "default" ELSE "payload")
      [] id \in Switches      -> Effect("set", id, payload)
      [] id \in PowerButtons  -> Effect("power", id, "")
      [] id \in VolumeButtons -> Effect("volume", "", IF id = "volume_up" THEN "+5" ELSE "-5")
      [] id \in MediaButtons  -> Effect("media", id, "")
      [] id = "apply_update"  -> Effect("apply", "", "")

StandsFor(c, id, payload) ==
    IF IsCommandButton(c, id) THEN Effect("run", id, "") ELSE BuiltInStandsFor(id, payload)

\* On either platform a component used as discovery describes it does what it
\* stands for: it is not refused, ignored, dropped on the way or turned into
\* something else (enabled_entities against parse, action_enabled, handle,
\* rpc_from_command and handle_rpc).
AdvertisedWorks ==
    Clashes(config) = {} =>
        \A id \in Advertised(config, platform) :
            \A payload \in Payloads(config, id) :
                Handle(config, platform, Parse(id, payload))
                    = Act(StandsFor(config, id, payload))

\* A media button acts on the player Home Assistant is shown, whichever players
\* come and go between the collection and the press (collect_mpris and
\* mpris_action, Linux).
MediaFollowsShown ==
    target # NoPlayer /\ shownPlayer # NoPlayer => target = shownPlayer

\* A switch that discovery offers and the collectors report.
ShownSwitches == (Switches \ ({"mute"} \cup config.commands)) \cap Advertised(config, platform)

\* Once commands, faults and the user's changes stop, every such switch comes
\* to show the desktop as it is and stays so, after restarts, calls executed late
\* and helpers that were lost.  The exception is the caffeine switch of Windows
\* while the server goes on with a helper that is gone, whose last value stays
\* (pipe.rs:95-101, 154-191), or has refused the one that is there
\* (pipe.rs:229-236): what it shows is not what Windows holds.
SwitchesSettle ==
    <>[](\A s \in ShownSwitches :
            shown[s] = setting[s] \/ (s = "caffeine" /\ helper \in {"gone", "refused"}))
=============================================================================
