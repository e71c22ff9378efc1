------------------------- MODULE ActionRouterProofs -------------------------
(***************************************************************************)
(* For every configuration, and any number of commands, faults and changes *)
(* at the desktop: the types, that only what the configuration permits is  *)
(* done, that an advertised component does what it stands for, and that    *)
(* media buttons follow the player that is shown.                          *)
(***************************************************************************)
EXTENDS ActionRouter, TLAPS

-----------------------------------------------------------------------------
(* What handling a message can do *)

\* Every parsed command is of a kind handle knows, with the value of its kind.
Commands ==
    [kind : {"switch"}, id : Ids \ NotifyTargets, value : OnOff]
    \cup [kind : {"press"}, id : Ids \ NotifyTargets, value : {""}]
    \cup [kind : {"notify"}, id : NotifyTargets, value : {"default", "payload"}]
    \cup {NoCommand}

LEMMA ParseType ==
    ASSUME NEW id \in Ids, NEW payload \in AllPayloads
    PROVE  Parse(id, payload) \in Commands
  BY DEF Parse, Commands, Command, NoCommand, OnOff, AllPayloads

LEMMA CommandCases ==
    ASSUME NEW cmd \in Commands
    PROVE  \/ cmd.kind = "switch" /\ cmd.id \in Ids \ NotifyTargets /\ cmd.value \in OnOff
           \/ cmd.kind = "press" /\ cmd.id \in Ids \ NotifyTargets /\ cmd.value = ""
           \/ cmd.kind = "notify" /\ cmd.id \in NotifyTargets
              /\ cmd.value \in {"default", "payload"}
           \/ cmd.kind = "none"
  <1>1. CASE cmd \in [kind : {"switch"}, id : Ids \ NotifyTargets, value : OnOff]
    BY <1>1
  <1>2. CASE cmd \in [kind : {"press"}, id : Ids \ NotifyTargets, value : {""}]
    BY <1>2
  <1>3. CASE cmd \in [kind : {"notify"}, id : NotifyTargets, value : {"default", "payload"}]
    BY <1>3
  <1>4. CASE cmd = NoCommand
    BY <1>4 DEF NoCommand, Command
  <1> QED
    BY <1>1, <1>2, <1>3, <1>4 DEF Commands

\* The detour over the pipe changes nothing: what the helper does with a
\* command is what Linux does with it (rpc_from_command and handle_rpc).
LEMMA SameOnBothPlatforms ==
    ASSUME NEW cmd \in Commands, RpcFromCommand(cmd).method # ""
    PROVE  HandleRpc(RpcFromCommand(cmd)) = LinuxEffect(cmd)
  <1>1. CASE cmd.kind = "notify"
    BY <1>1, CommandCases DEF RpcFromCommand, HandleRpc, LinuxEffect, Rpc, Effect,
           PowerButtons, VolumeButtons, MediaButtons, NotifyTargets, Switches
  <1>2. CASE cmd.kind = "switch"
    <2>1. cmd.id \in {"mute", "caffeine", "lock"}
      BY <1>2 DEF RpcFromCommand, Rpc
    <2> QED
    BY <1>2, <2>1 DEF RpcFromCommand, HandleRpc, LinuxEffect, Rpc, Effect,
           PowerButtons, VolumeButtons, MediaButtons, Switches
  <1>3. CASE cmd.kind = "press" /\ cmd.id = "lock"
    BY <1>3 DEF RpcFromCommand, HandleRpc, LinuxEffect, Rpc, Effect,
           PowerButtons, VolumeButtons, MediaButtons, Switches
  <1>4. CASE cmd.kind = "press" /\ cmd.id \in VolumeButtons
    BY <1>4 DEF RpcFromCommand, HandleRpc, LinuxEffect, Rpc, Effect,
           PowerButtons, VolumeButtons, MediaButtons, Switches
  <1>5. CASE cmd.kind = "press" /\ cmd.id \in MediaButtons
    BY <1>5 DEF RpcFromCommand, HandleRpc, LinuxEffect, Rpc, Effect,
           PowerButtons, VolumeButtons, MediaButtons, Switches
  <1>6. cmd.kind \in {"notify", "switch", "press", "none"}
    BY CommandCases
  <1>7. CASE \/ cmd.kind = "none"
             \/ cmd.kind = "press" /\ cmd.id \notin {"lock"} \cup VolumeButtons \cup MediaButtons
    BY <1>7 DEF RpcFromCommand, Rpc
  <1> QED
    BY <1>1, <1>2, <1>3, <1>4, <1>5, <1>6, <1>7

\* Handing a command to the desktop does what Linux does, or nothing.
LEMMA OnDesktopEffect ==
    ASSUME NEW p \in Platforms, NEW cmd \in Commands
    PROVE  OnDesktop(p, cmd) \in {Act(LinuxEffect(cmd)), Refused("unsupported")}
  BY SameOnBothPlatforms DEF OnDesktop, Platforms

Fine(c, r) ==
    /\ r.effect \in Effects
    /\ Permitted(c, r.effect)

LEMMA RefusedFine ==
    ASSUME NEW c, NEW why
    PROVE  Fine(c, Refused(why))
  <1>1. Nothing \in Effects
    BY DEF Nothing, Effect, Effects
  <1> QED
    BY <1>1 DEF Fine, Refused, Nothing, Effect, Permitted

LEMMA EffectType ==
    /\ \A op \in {"none", "run", "power", "volume", "media", "notify", "apply"},
          id \in Ids \cup {"", "normal", "critical"},
          value \in {"", "+5", "-5", "payload", "default"} :
           Effect(op, id, value) \in Effects
    /\ \A id \in Switches, value \in OnOff : Effect("set", id, value) \in Effects
  BY DEF Effect, Effects

LEMMA ActFine ==
    ASSUME NEW c, NEW e \in Effects, Permitted(c, e)
    PROVE  Fine(c, Act(e))
  BY DEF Fine, Act

\* What Permitted asks of each kind of effect.
LEMMA PermittedCases ==
    ASSUME NEW c, NEW id, NEW value
    PROVE  /\ id \in c.commands => Permitted(c, Effect("run", id, value))
           /\ id \in c.actions => Permitted(c, Effect("power", id, value))
           /\ "volume" \in c.actions => Permitted(c, Effect("volume", id, value))
           /\ "notify" \in c.actions => Permitted(c, Effect("notify", id, value))
           /\ "mpris" \in c.sensors => Permitted(c, Effect("media", id, value))
           /\ c.update => Permitted(c, Effect("apply", id, value))
           /\ c.update => Permitted(c, Effect("set", "update_auto", value))
           /\ "dnd" \in c.actions => Permitted(c, Effect("set", "do_not_disturb", value))
           /\ id \in c.actions /\ id \notin {"update_auto", "do_not_disturb"} =>
                  Permitted(c, Effect("set", id, value))
  BY DEF Permitted, Effect

LEMMA SwitchFine ==
    ASSUME NEW c \in Config, NEW p \in Platforms,
           NEW cmd \in Commands, cmd.kind = "switch"
    PROVE  Fine(c, HandleSwitch(c, p, cmd))
  <1> DEFINE r == HandleSwitch(c, p, cmd)
  <1>0. cmd.value \in OnOff /\ cmd.id \in Ids
    BY CommandCases
  <1>1. CASE cmd.id \notin Switches \cup {"lock"}
    BY <1>1, RefusedFine DEF HandleSwitch, Switches
  <1>2. CASE cmd.id = "lock" /\ cmd.value = "off"
    BY <1>2, RefusedFine DEF HandleSwitch
  <1>3. CASE /\ cmd.id \in Switches \cup {"lock"} /\ ~ActionEnabled(c, cmd.id)
             /\ ~(cmd.id = "lock" /\ cmd.value = "off")
    BY <1>3, RefusedFine DEF HandleSwitch, Switches
  <1>4. CASE cmd.id = "update_auto" /\ ActionEnabled(c, cmd.id)
    <2>1. r = Act(Effect("set", cmd.id, cmd.value))
      BY <1>4 DEF HandleSwitch, Switches
    <2>2. c.update
      BY <1>4 DEF ActionEnabled, PowerButtons, VolumeButtons, NotifyTargets, MediaButtons,
             BuiltInIds, UpdateControls
    <2> QED
      BY <1>0, <1>4, <2>1, <2>2, PermittedCases, EffectType, ActFine DEF Switches
  <1>5. CASE cmd.id \in {"caffeine", "mute", "do_not_disturb"} /\ ActionEnabled(c, cmd.id)
    <2>1. \/ r \in {Refused("unsupported")}
          \/ r = Act(LinuxEffect(cmd))
      BY <1>5, OnDesktopEffect DEF HandleSwitch, Switches
    <2>2. LinuxEffect(cmd) = Effect("set", cmd.id, cmd.value)
      BY <1>5, <1>0 DEF LinuxEffect, PowerButtons, VolumeButtons, MediaButtons, Switches
    <2>3. IF cmd.id = "do_not_disturb" THEN "dnd" \in c.actions ELSE cmd.id \in c.actions
      BY <1>5 DEF ActionEnabled, PowerButtons, VolumeButtons, NotifyTargets, MediaButtons,
             BuiltInIds, UpdateControls, Switches
    <2>4. CASE r = Act(LinuxEffect(cmd))
      BY <1>0, <1>5, <2>2, <2>3, <2>4, PermittedCases, EffectType, ActFine DEF Switches
    <2> QED
      BY <2>1, <2>4, RefusedFine
  <1>6. CASE cmd.id = "lock" /\ cmd.value = "on" /\ ActionEnabled(c, cmd.id)
    <2>1. \/ r \in {Refused("unsupported")}
          \/ r = Act(LinuxEffect(cmd))
      BY <1>6, OnDesktopEffect DEF HandleSwitch, Switches
    <2>2. LinuxEffect(cmd) = Effect("power", "lock", "")
      BY <1>6, <1>0 DEF LinuxEffect, PowerButtons, VolumeButtons, MediaButtons, Switches
    <2>3. "lock" \in c.actions
      BY <1>6 DEF ActionEnabled, PowerButtons, VolumeButtons, NotifyTargets, MediaButtons,
             BuiltInIds, UpdateControls, Switches
    <2>4. CASE r = Act(LinuxEffect(cmd))
      BY <1>0, <1>6, <2>2, <2>3, <2>4, PermittedCases, EffectType, ActFine DEF Switches
    <2> QED
      BY <2>1, <2>4, RefusedFine
  <1> QED
    BY <1>0, <1>1, <1>2, <1>3, <1>4, <1>5, <1>6 DEF Switches, OnOff

LEMMA NotifyFine ==
    ASSUME NEW c \in Config, NEW p \in Platforms,
           NEW cmd \in Commands, cmd.kind = "notify"
    PROVE  Fine(c, HandleNotify(c, p, cmd))
  <1>0. cmd.id \in NotifyTargets /\ cmd.value \in {"default", "payload"}
    BY CommandCases
  <1>1. LinuxEffect(cmd) = Effect("notify", Urgency(cmd.id), cmd.value)
    BY <1>0 DEF LinuxEffect, PowerButtons, VolumeButtons, MediaButtons, NotifyTargets, Switches
  <1>2. CASE ActionEnabled(c, "notify")
    <2>1. "notify" \in c.actions
      BY <1>2 DEF ActionEnabled, PowerButtons, VolumeButtons, NotifyTargets, MediaButtons,
             UpdateControls
    <2>2. Fine(c, Act(LinuxEffect(cmd)))
      BY <1>0, <1>1, <2>1, PermittedCases, EffectType, ActFine DEF Urgency
    <2> QED
      BY <1>2, <2>2, OnDesktopEffect, RefusedFine DEF HandleNotify
  <1>3. CASE ~ActionEnabled(c, "notify")
    BY <1>3, RefusedFine DEF HandleNotify
  <1> QED
    BY <1>2, <1>3

LEMMA PressFine ==
    ASSUME NEW c \in Config, NEW p \in Platforms,
           NEW cmd \in Commands, cmd.kind = "press"
    PROVE  Fine(c, HandlePress(c, p, cmd))
  <1> DEFINE r == HandlePress(c, p, cmd)
  <1>0. cmd.id \in Ids /\ cmd.id \notin NotifyTargets
    BY CommandCases
  <1>1. CASE cmd.id \in c.commands
    BY <1>0, <1>1, PermittedCases, EffectType, ActFine DEF HandlePress
  <1>2. CASE cmd.id \notin c.commands /\ ~ActionEnabled(c, cmd.id)
    BY <1>2, RefusedFine DEF HandlePress
  <1>3. CASE cmd.id \notin c.commands /\ ActionEnabled(c, cmd.id)
    <2>1. CASE cmd.id \in PowerButtons
      <3>1. cmd.id \in c.actions
        BY <1>3, <2>1 DEF ActionEnabled, PowerButtons, VolumeButtons, NotifyTargets,
               MediaButtons, UpdateControls, BuiltInIds
      <3>2. LinuxEffect(cmd) = Effect("power", cmd.id, "")
        BY <2>1 DEF LinuxEffect, PowerButtons, VolumeButtons, MediaButtons, Switches
      <3>3. Fine(c, Act(LinuxEffect(cmd)))
        BY <1>0, <3>1, <3>2, PermittedCases, EffectType, ActFine
      <3>4. r \in {Act(LinuxEffect(cmd)), Refused("unsupported"), Refused("ignored")}
        BY <1>3, <2>1, <3>2, OnDesktopEffect DEF HandlePress, PowerButtons
      <3> QED
        BY <3>3, <3>4, RefusedFine
    <2>2. CASE cmd.id \in VolumeButtons
      <3>1. "volume" \in c.actions
        BY <1>3, <2>2 DEF ActionEnabled, PowerButtons, VolumeButtons, NotifyTargets,
               MediaButtons, UpdateControls, BuiltInIds
      <3>2. LinuxEffect(cmd) = Effect("volume", "", Delta(cmd.id))
        BY <2>2, CommandCases
        DEF LinuxEffect, PowerButtons, VolumeButtons, MediaButtons, Switches, NotifyTargets
      <3>3. Fine(c, Act(LinuxEffect(cmd)))
        BY <3>1, <3>2, PermittedCases, EffectType, ActFine DEF Delta
      <3>4. r \in {Act(LinuxEffect(cmd)), Refused("unsupported")}
        BY <1>3, <2>2, OnDesktopEffect DEF HandlePress, PowerButtons, VolumeButtons
      <3> QED
        BY <3>3, <3>4, RefusedFine
    <2>3. CASE cmd.id \in MediaButtons
      <3>1. "mpris" \in c.sensors
        BY <1>3, <2>3 DEF ActionEnabled, PowerButtons, VolumeButtons, NotifyTargets,
               MediaButtons, UpdateControls, BuiltInIds
      <3>2. LinuxEffect(cmd) = Effect("media", cmd.id, "")
        BY <2>3, CommandCases
        DEF LinuxEffect, PowerButtons, VolumeButtons, MediaButtons, Switches, NotifyTargets
      <3>3. Fine(c, Act(LinuxEffect(cmd)))
        BY <1>0, <3>1, <3>2, PermittedCases, EffectType, ActFine
      <3>4. r \in {Act(LinuxEffect(cmd)), Refused("unsupported")}
        BY <1>3, <2>3, OnDesktopEffect DEF HandlePress, PowerButtons, MediaButtons
      <3> QED
        BY <3>3, <3>4, RefusedFine
    <2>4. CASE cmd.id = "apply_update"
      <3>1. c.update
        BY <1>3, <2>4 DEF ActionEnabled, PowerButtons, VolumeButtons, NotifyTargets,
               MediaButtons, UpdateControls, BuiltInIds
      <3>2. r = Act(Effect("apply", "", ""))
        BY <1>3, <2>4 DEF HandlePress, PowerButtons, VolumeButtons, MediaButtons
      <3> QED
        BY <3>1, <3>2, PermittedCases, EffectType, ActFine
    <2>5. CASE cmd.id \notin PowerButtons \cup VolumeButtons \cup MediaButtons \cup {"apply_update"}
      BY <1>3, <2>5, RefusedFine DEF HandlePress, PowerButtons
    <2> QED
      BY <2>1, <2>2, <2>3, <2>4, <2>5
  <1> QED
    BY <1>1, <1>2, <1>3

LEMMA CommandFine ==
    ASSUME NEW c \in Config, NEW p \in Platforms, NEW cmd \in Commands
    PROVE  Fine(c, Handle(c, p, cmd))
  <1>1. CASE cmd.kind = "switch"
    BY <1>1, SwitchFine DEF Handle
  <1>2. CASE cmd.kind = "press"
    BY <1>2, PressFine DEF Handle
  <1>3. CASE cmd.kind = "notify"
    BY <1>3, NotifyFine DEF Handle
  <1>4. CASE cmd.kind = "none"
    BY <1>4, RefusedFine DEF Handle
  <1> QED
    BY <1>1, <1>2, <1>3, <1>4, CommandCases

\* Whatever arrives, what is done about it is permitted.
LEMMA HandleFine ==
    ASSUME NEW c \in Config, NEW p \in Platforms, NEW id \in Ids, NEW payload \in AllPayloads
    PROVE  Fine(c, Handle(c, p, Parse(id, payload)))
  BY ParseType, CommandFine

-----------------------------------------------------------------------------
(* The inductive invariant *)

\* What was done, and what the helper may still do, is permitted; only Windows
\* has a helper; and the player that is shown is the one remembered, so that a
\* button finds it.
RouterInv ==
    /\ TypeOK
    /\ Permitted(config, effect)
    /\ \A i \in 1..Len(late) : Permitted(config, late[i])
    /\ helper # "none" => platform = "windows"
    /\ shownPlayer # NoPlayer => owner = shownPlayer
    /\ MediaFollowsShown

LEMMA InitInv == Init => RouterInv
  <1> SUFFICES ASSUME Init PROVE RouterInv
    OBVIOUS
  <1>1. config.auto \in OnOff
    BY ConfigAssumption DEF Init, Config
  <1>2. Nothing \in Effects /\ Permitted(config, Nothing)
    BY RefusedFine DEF Fine, Refused
  <1>3. TypeOK
    <2>1. setting \in [Switches -> OnOff]
      BY <1>1 DEF Init, OnOff
    <2>2. running \subseteq Players
      BY DEF Init
    <2>3. late \in Seq(Effects)
      BY DEF Init
    <2>4. received \in 0..MaxCommands /\ changes \in 0..MaxChanges /\ faults \in 0..MaxFaults
      BY BoundAssumption DEF Init
    <2>5. shown \in [Switches -> OnOff \cup {"none"}]
      BY DEF Init
    <2> QED
      BY <1>2, <2>1, <2>2, <2>3, <2>4, <2>5 DEF Init, TypeOK, HelperStates
  <1>4. \A i \in 1..Len(late) : Permitted(config, late[i])
    BY DEF Init
  <1> QED
    BY <1>2, <1>3, <1>4 DEF Init, RouterInv, MediaFollowsShown, HelperStates

\* What a step that performs an effect does to the desktop.
LEMMA PerformKeeps ==
    ASSUME RouterInv, NEW e \in Effects, Permitted(config, e), Perform(e),
           UNCHANGED <<config, platform, running, owner, shownVars>>
    PROVE  /\ setting' \in [Switches -> OnOff]
           /\ effect' \in Effects /\ Permitted(config, effect)'
           /\ target' \in Players \cup {NoPlayer}
           /\ MediaFollowsShown'
  <1>1. setting' \in [Switches -> OnOff]
    <2>1. CASE e.op = "set"
      <3>1. e.id \in Switches /\ e.value \in OnOff
        BY <2>1 DEF Effects
      <3> QED
        BY <2>1, <3>1 DEF Perform, After, RouterInv, TypeOK
    <2>2. CASE e.op # "set"
      BY <2>2 DEF Perform, After, RouterInv, TypeOK
    <2> QED
      BY <2>1, <2>2
  <1>2. effect' \in Effects /\ Permitted(config, effect)'
    BY DEF Perform
  <1>3. target' \in Players \cup {NoPlayer}
    BY DEF Perform, MediaTarget, RouterInv, TypeOK
  <1>4. MediaFollowsShown'
    BY DEF Perform, MediaTarget, RouterInv, MediaFollowsShown, shownVars
  <1> QED
    BY <1>1, <1>2, <1>3, <1>4

LEMMA QuietKeeps ==
    ASSUME Quiet, UNCHANGED config
    PROVE  effect' \in Effects /\ Permitted(config, effect)' /\ target' = NoPlayer
           /\ MediaFollowsShown'
  BY RefusedFine DEF Quiet, Fine, Refused, MediaFollowsShown

LEMMA ReceiveKeeps ==
    ASSUME RouterInv, NEW id \in Ids, NEW payload \in AllPayloads, Receive(id, payload)
    PROVE  RouterInv'
  <1> DEFINE r == Handle(config, platform, Parse(id, payload))
  <1>1. config \in Config /\ platform \in Platforms
    BY ConfigAssumption DEF RouterInv, TypeOK
  <1>2. r.effect \in Effects /\ Permitted(config, r.effect)
    BY <1>1, HandleFine DEF Fine
  <1>3. UNCHANGED <<config, platform, running, owner, helper, values, shownVars, changes, faults>>
        /\ received' = received + 1 /\ received < MaxCommands
    BY DEF Receive
  <1>4. \/ Perform(r.effect) /\ UNCHANGED late
        \/ Quiet /\ UNCHANGED setting /\ late' \in {late, Append(late, r.effect)}
    BY DEF Receive, Succeeds, Fails, Quiet
  <1> HIDE DEF r
  <1>5. /\ setting' \in [Switches -> OnOff]
        /\ effect' \in Effects /\ Permitted(config, effect)'
        /\ target' \in Players \cup {NoPlayer}
        /\ MediaFollowsShown'
    <2>1. CASE Perform(r.effect)
      BY <2>1, <1>2, <1>3, PerformKeeps
    <2>2. CASE Quiet /\ UNCHANGED setting
      BY <2>2, <1>3, QuietKeeps DEF RouterInv, TypeOK
    <2> QED
      BY <1>4, <2>1, <2>2
  <1>6. late' \in Seq(Effects) /\ \A i \in 1..Len(late') : Permitted(config, late'[i])
    <2>1. late \in Seq(Effects) /\ \A i \in 1..Len(late) : Permitted(config, late[i])
      BY DEF RouterInv, TypeOK
    <2>2. CASE late' = Append(late, r.effect)
      BY <2>1, <2>2, <1>2
    <2> QED
      BY <1>4, <2>1, <2>2
  <1>7. received' \in 0..MaxCommands
    BY <1>3, BoundAssumption DEF RouterInv, TypeOK
  <1>8. TypeOK'
    BY <1>3, <1>5, <1>6, <1>7 DEF RouterInv, TypeOK, shownVars
  <1> QED
    BY <1>3, <1>5, <1>6, <1>8 DEF RouterInv, shownVars

LEMMA LateEffectKeeps ==
    ASSUME RouterInv, LateEffect
    PROVE  RouterInv'
  <1>1. late \in Seq(Effects) /\ late # <<>>
        /\ \A i \in 1..Len(late) : Permitted(config, late[i])
    BY DEF RouterInv, TypeOK, LateEffect
  <1>2. Head(late) \in Effects /\ Permitted(config, Head(late))
    BY <1>1
  <1>3. Tail(late) \in Seq(Effects) /\ \A i \in 1..Len(Tail(late)) : Permitted(config, Tail(late)[i])
    BY <1>1
  <1>4. /\ Perform(Head(late)) /\ late' = Tail(late)
        /\ UNCHANGED <<config, platform, running, owner, helper, values, shownVars, boundVars>>
    BY DEF LateEffect
  <1>5. /\ setting' \in [Switches -> OnOff]
        /\ effect' \in Effects /\ Permitted(config, effect)'
        /\ target' \in Players \cup {NoPlayer}
        /\ MediaFollowsShown'
    BY <1>2, <1>4, PerformKeeps
  <1>6. TypeOK'
    BY <1>3, <1>4, <1>5 DEF RouterInv, TypeOK, shownVars, boundVars
  <1> QED
    BY <1>3, <1>4, <1>5, <1>6 DEF RouterInv, shownVars

LEMMA TickKeeps ==
    ASSUME RouterInv, NEW readable \in BOOLEAN, Tick(readable)
    PROVE  RouterInv'
  <1>1. /\ Quiet /\ CollectMedia
        /\ UNCHANGED <<config, platform, desktopVars, windowsVars, received, changes>>
    BY DEF Tick
  <1>2. effect' \in Effects /\ Permitted(config, effect)' /\ target' = NoPlayer
        /\ MediaFollowsShown'
    BY <1>1, QuietKeeps
  <1>3. shown' \in [Switches -> OnOff \cup {"none"}]
    <2>1. ASSUME NEW s \in Switches
          PROVE  Reported(s, readable) \in OnOff \cup {"none"}
      BY DEF Reported, RouterInv, TypeOK, Platforms, Switches, OnOff
    <2> QED
      BY <2>1 DEF Tick
  <1>4. faults' \in 0..MaxFaults
    BY BoundAssumption DEF Tick, RouterInv, TypeOK
  <1>5. /\ owner' \in Players \cup {NoPlayer} /\ shownPlayer' \in Players \cup {NoPlayer}
        /\ shownPlayer' # NoPlayer => owner' = shownPlayer'
    BY <1>1 DEF CollectMedia, RouterInv, TypeOK
  <1>6. TypeOK'
    BY <1>1, <1>2, <1>3, <1>4, <1>5 DEF RouterInv, TypeOK, desktopVars, windowsVars
  <1> QED
    BY <1>1, <1>2, <1>5, <1>6 DEF RouterInv, desktopVars, windowsVars

LEMMA HelperKeeps ==
    ASSUME RouterInv, HelperSnapshot \/ HelperConnects
    PROVE  RouterInv'
  <1>1. /\ Quiet
        /\ UNCHANGED <<config, platform, desktopVars, owner, shownVars, received, changes>>
        /\ late' \in {late, <<>>}
    BY DEF HelperSnapshot, HelperConnects, boundVars
  <1>2. effect' \in Effects /\ Permitted(config, effect)' /\ target' = NoPlayer
        /\ MediaFollowsShown'
    BY <1>1, QuietKeeps
  <1>3. helper' \in HelperStates /\ values' \in OnOff \cup {"none"}
        /\ (helper' # "none" => platform' = "windows")
    BY DEF HelperSnapshot, HelperConnects, RouterInv, TypeOK, Switches, HelperStates
  <1>4. faults' \in 0..MaxFaults
    BY BoundAssumption DEF HelperSnapshot, HelperConnects, RouterInv, TypeOK, boundVars
  <1>5. late' \in Seq(Effects) /\ \A i \in 1..Len(late') : Permitted(config, late'[i])
    <2>1. CASE late' = late
      BY <2>1 DEF RouterInv, TypeOK
    <2>2. CASE late' = <<>>
      BY <2>2
    <2> QED
      BY <1>1, <2>1, <2>2
  <1>6. TypeOK'
    BY <1>1, <1>2, <1>3, <1>4, <1>5 DEF RouterInv, TypeOK, desktopVars, shownVars
  <1> QED
    BY <1>1, <1>2, <1>3, <1>5, <1>6 DEF RouterInv, shownVars

LEMMA HelperExitsKeeps ==
    ASSUME RouterInv, HelperExits
    PROVE  RouterInv'
  <1>1. /\ Quiet /\ helper' \in HelperStates /\ values' \in {values, "none"} /\ late' = <<>>
        /\ platform = "windows"
        /\ UNCHANGED <<config, platform, running, owner, shownVars, received, changes>>
    BY DEF HelperExits, HelperStates
  <1>2. effect' \in Effects /\ Permitted(config, effect)' /\ target' = NoPlayer
        /\ MediaFollowsShown'
    BY <1>1, QuietKeeps
  <1>3. setting' \in [Switches -> OnOff]
    BY DEF HelperExits, CaffeineOff, RouterInv, TypeOK, OnOff
  <1>4. faults' \in 0..MaxFaults
    BY BoundAssumption DEF HelperExits, RouterInv, TypeOK
  <1>5. late' \in Seq(Effects) /\ \A i \in 1..Len(late') : Permitted(config, late'[i])
    BY <1>1
  <1>6. TypeOK'
    BY <1>1, <1>2, <1>3, <1>4, <1>5 DEF RouterInv, TypeOK, shownVars
  <1> QED
    BY <1>1, <1>2, <1>5, <1>6 DEF RouterInv, shownVars

LEMMA LastEffectKeeps ==
    ASSUME RouterInv, LastEffect
    PROVE  RouterInv'
  <1>1. late \in Seq(Effects) /\ late # <<>>
        /\ \A i \in 1..Len(late) : Permitted(config, late[i])
    BY DEF RouterInv, TypeOK, LastEffect
  <1>2. Head(late) \in Effects /\ Permitted(config, Head(late))
    BY <1>1
  <1>3. /\ effect' = Head(late) /\ target' = NoPlayer /\ late' = <<>>
        /\ UNCHANGED <<config, platform, running, owner, helper, values, shownVars, boundVars>>
    BY DEF LastEffect
  <1>4. setting' \in [Switches -> OnOff]
    <2>1. After(Head(late)) \in [Switches -> OnOff]
      <3>1. CASE Head(late).op = "set"
        <4>1. Head(late).id \in Switches /\ Head(late).value \in OnOff
          BY <1>2, <3>1 DEF Effects
        <4> QED
          BY <3>1, <4>1 DEF After, RouterInv, TypeOK
      <3>2. CASE Head(late).op # "set"
        BY <3>2 DEF After, RouterInv, TypeOK
      <3> QED
        BY <3>1, <3>2
    <2> QED
      BY <2>1 DEF LastEffect, OnOff
  <1>5. late' \in Seq(Effects) /\ \A i \in 1..Len(late') : Permitted(config, late'[i])
    BY <1>3
  <1>6. TypeOK' /\ Permitted(config, effect)' /\ MediaFollowsShown'
    BY <1>2, <1>3, <1>4, <1>5
       DEF RouterInv, TypeOK, MediaFollowsShown, shownVars, boundVars
  <1> QED
    BY <1>3, <1>5, <1>6 DEF RouterInv, shownVars

LEMMA RestartKeeps ==
    ASSUME RouterInv, Restart
    PROVE  RouterInv'
  <1>1. /\ Quiet /\ helper' = "none" /\ values' = "none" /\ late' \in {late, <<>>}
        /\ owner' = NoPlayer /\ shownPlayer' = NoPlayer
        /\ UNCHANGED <<config, platform, running, shown, received, changes>>
    BY DEF Restart
  <1>2. effect' \in Effects /\ Permitted(config, effect)' /\ target' = NoPlayer
        /\ MediaFollowsShown'
    BY <1>1, QuietKeeps
  <1>3. setting' \in [Switches -> OnOff]
    <2>1. config.auto \in OnOff /\ setting \in [Switches -> OnOff]
      BY ConfigAssumption DEF RouterInv, TypeOK, Config
    <2>2. PICK kept \in {setting, CaffeineOff} :
              setting' = [kept EXCEPT !["update_auto"] = config.auto]
      BY DEF Restart
    <2>3. kept \in [Switches -> OnOff]
      BY <2>1, <2>2 DEF CaffeineOff, OnOff
    <2> QED
      BY <2>1, <2>2, <2>3
  <1>4. faults' \in 0..MaxFaults
    BY BoundAssumption DEF Restart, RouterInv, TypeOK
  <1>5. late' \in Seq(Effects) /\ \A i \in 1..Len(late') : Permitted(config, late'[i])
    <2>1. CASE late' = late
      BY <2>1 DEF RouterInv, TypeOK
    <2>2. CASE late' = <<>>
      BY <2>2
    <2> QED
      BY <1>1, <2>1, <2>2
  <1>6. TypeOK'
    BY <1>1, <1>2, <1>3, <1>4, <1>5 DEF RouterInv, TypeOK, HelperStates
  <1> QED
    BY <1>1, <1>2, <1>5, <1>6 DEF RouterInv

LEMMA UserActsKeeps ==
    ASSUME RouterInv, UserActs
    PROVE  RouterInv'
  <1>1. /\ Quiet
        /\ UNCHANGED <<config, platform, owner, windowsVars, shownVars, received, faults>>
    BY DEF UserActs
  <1>2. effect' \in Effects /\ Permitted(config, effect)' /\ target' = NoPlayer
        /\ MediaFollowsShown'
    BY <1>1, QuietKeeps
  <1>3. setting' \in [Switches -> OnOff] /\ running' \subseteq Players
    BY DEF UserActs, RouterInv, TypeOK
  <1>4. changes' \in 0..MaxChanges
    BY BoundAssumption DEF UserActs, RouterInv, TypeOK
  <1>5. TypeOK'
    BY <1>1, <1>2, <1>3, <1>4 DEF RouterInv, TypeOK, windowsVars, shownVars
  <1> QED
    BY <1>1, <1>2, <1>5 DEF RouterInv, windowsVars, shownVars

LEMMA StutterKeeps ==
    ASSUME RouterInv, UNCHANGED vars
    PROVE  RouterInv'
  BY DEF RouterInv, TypeOK, MediaFollowsShown, Permitted, vars, desktopVars, windowsVars,
         shownVars, effectVars, boundVars

\* Every step keeps the inductive invariant.
THEOREM Invariance == Spec => []RouterInv
  <1>1. ASSUME RouterInv, [Next]_vars
        PROVE  RouterInv'
    BY <1>1, ReceiveKeeps, LateEffectKeeps, TickKeeps, HelperKeeps, HelperExitsKeeps, LastEffectKeeps,
       RestartKeeps, UserActsKeeps, StutterKeeps DEF Next
  <1> QED
    BY <1>1, InitInv, PTL DEF Spec

-----------------------------------------------------------------------------
(* Advertised components *)

\* A component does what it stands for.
Works(c, p, id) ==
    \A payload \in Payloads(c, id) :
        Handle(c, p, Parse(id, payload)) = Act(StandsFor(c, id, payload))

LEMMA CommandButtonWorks ==
    ASSUME NEW c \in Config, NEW p \in Platforms, NEW id \in Ids,
           IsCommandButton(c, id), id \notin NotifyTargets
    PROVE  Works(c, p, id)
  <1>1. id \in c.commands /\ Payloads(c, id) = {"press"}
    BY DEF IsCommandButton, Payloads
  <1>2. Parse(id, "press") = Command("press", id, "")
    BY DEF Parse, OnOff
  <1>3. HandlePress(c, p, Command("press", id, "")) = Act(Effect("run", id, ""))
    BY <1>1 DEF HandlePress, Command
  <1>5. Handle(c, p, Command("press", id, "")) = HandlePress(c, p, Command("press", id, ""))
    BY DEF Handle, Command
  <1>4. StandsFor(c, id, "press") = Effect("run", id, "")
    BY DEF StandsFor
  <1> QED
    BY <1>1, <1>2, <1>3, <1>4, <1>5 DEF Works

LEMMA NotifyWorks ==
    ASSUME NEW c \in Config, NEW p \in Platforms, NEW id \in NotifyTargets,
           "notify" \in c.actions, id \notin c.commands
    PROVE  Works(c, p, id)
  <1> SUFFICES ASSUME NEW payload \in Payloads(c, id)
               PROVE  Handle(c, p, Parse(id, payload)) = Act(StandsFor(c, id, payload))
    BY DEF Works
  <1>1. payload \in {"text", "empty", "json"}
    BY DEF Payloads, IsCommandButton, NotifyTargets, Switches
  <1> DEFINE body == IF payload = "empty" THEN "default" ELSE "payload"
  <1>2. Parse(id, payload) = Command("notify", id, body)
    BY <1>1 DEF Parse
  <1>3. Handle(c, p, Command("notify", id, body)) = OnDesktop(p, Command("notify", id, body))
    BY DEF Handle, HandleNotify, ActionEnabled, Command
  <1>4. OnDesktop(p, Command("notify", id, body)) = Act(Effect("notify", Urgency(id), body))
    BY DEF OnDesktop, Platforms, Command, RpcFromCommand, HandleRpc, LinuxEffect, Rpc,
           Effect, NotifyTargets, Switches, PowerButtons, VolumeButtons, MediaButtons
  <1>5. StandsFor(c, id, payload) = Effect("notify", Urgency(id), body)
    BY DEF StandsFor, BuiltInStandsFor, IsCommandButton, Urgency, NotifyTargets, Switches,
           PowerButtons, VolumeButtons, MediaButtons
  <1> QED
    BY <1>2, <1>3, <1>4, <1>5

LEMMA SwitchWorks ==
    ASSUME NEW c \in Config, NEW p \in Platforms, NEW id \in BuiltIn(c, p) \cap Switches,
           ~IsCommandButton(c, id)
    PROVE  Works(c, p, id)
  <1> SUFFICES ASSUME NEW payload \in Payloads(c, id)
               PROVE  Handle(c, p, Parse(id, payload)) = Act(StandsFor(c, id, payload))
    BY DEF Works
  <1>1. payload \in OnOff
    BY DEF Payloads
  <1>2. Parse(id, payload) = Command("switch", id, payload)
    BY <1>1 DEF Parse, Switches, NotifyTargets, OnOff
  <1>3. StandsFor(c, id, payload) = Effect("set", id, payload)
    BY DEF StandsFor, BuiltInStandsFor, NotifyTargets, Switches, PowerButtons,
           VolumeButtons, MediaButtons
  <1>4. ActionEnabled(c, id)
    BY DEF BuiltIn, ActionEnabled, Switches, PowerButtons, VolumeButtons, NotifyTargets,
           MediaButtons, UpdateControls
  <1>5. CASE id = "update_auto"
    BY <1>2, <1>3, <1>4, <1>5 DEF Handle, HandleSwitch, Command, Switches
  <1>6. CASE id # "update_auto"
    <2>1. Handle(c, p, Command("switch", id, payload))
              = OnDesktop(p, Command("switch", id, payload))
      <3>1. p = "linux" \/ id # "do_not_disturb"
        BY DEF BuiltIn, Platforms, PowerButtons, VolumeButtons, NotifyTargets, MediaButtons,
               UpdateControls
      <3> QED
        BY <1>4, <1>6, <3>1 DEF Handle, HandleSwitch, Command, Switches
    <2>2. OnDesktop(p, Command("switch", id, payload)) = Act(Effect("set", id, payload))
      <3>1. CASE p = "linux"
        BY <3>1 DEF OnDesktop, Command, LinuxEffect, Switches, PowerButtons, VolumeButtons,
               MediaButtons
      <3>2. CASE p = "windows"
        <4>1. id \in {"caffeine", "mute"}
          BY <1>6, <3>2 DEF BuiltIn, Switches, PowerButtons, VolumeButtons, NotifyTargets,
                 MediaButtons, UpdateControls
        <4> QED
          BY <3>2, <4>1 DEF OnDesktop, Command, RpcFromCommand, HandleRpc, Rpc, Effect
      <3> QED
        BY <3>1, <3>2 DEF Platforms
    <2> QED
      BY <1>2, <1>3, <2>1, <2>2
  <1> QED
    BY <1>5, <1>6

LEMMA ButtonWorks ==
    ASSUME NEW c \in Config, NEW p \in Platforms, NEW id \in BuiltIn(c, p) \ Switches,
           id \notin NotifyTargets, id \notin c.commands
    PROVE  Works(c, p, id)
  <1>1. Payloads(c, id) = {"press"}
    BY DEF Payloads, IsCommandButton
  <1>2. Parse(id, "press") = Command("press", id, "")
    BY DEF Parse, OnOff
  <1>3. id \in PowerButtons \cup VolumeButtons \cup MediaButtons \cup {"apply_update"}
    BY DEF BuiltIn, Switches, UpdateControls
  <1>4. ActionEnabled(c, id)
    BY <1>3 DEF BuiltIn, ActionEnabled, Switches, PowerButtons, VolumeButtons, NotifyTargets,
           MediaButtons, UpdateControls
  <1>5. Handle(c, p, Command("press", id, "")) = HandlePress(c, p, Command("press", id, ""))
    BY DEF Handle, Command
  <1>6. HandlePress(c, p, Command("press", id, "")) = Act(StandsFor(c, id, "press"))
    <2>1. CASE id \in PowerButtons
      <3>1. StandsFor(c, id, "press") = Effect("power", id, "")
        BY <2>1 DEF StandsFor, BuiltInStandsFor, IsCommandButton, PowerButtons, VolumeButtons,
               MediaButtons, NotifyTargets, Switches, Delta
      <3> QED
        BY <1>4, <2>1, <3>1 DEF HandlePress, Command, Platforms, OnDesktop, LinuxEffect,
               RpcFromCommand, HandleRpc, Rpc, Effect, PowerButtons, VolumeButtons, MediaButtons
    <2>2. CASE id \in VolumeButtons
      <3>1. StandsFor(c, id, "press") = Effect("volume", "", Delta(id))
        BY <2>2 DEF StandsFor, BuiltInStandsFor, IsCommandButton, PowerButtons, VolumeButtons,
               MediaButtons, NotifyTargets, Switches, Delta
      <3> QED
        BY <1>4, <2>2, <3>1 DEF HandlePress, Command, Platforms, OnDesktop, LinuxEffect,
               RpcFromCommand, HandleRpc, Rpc, Effect, PowerButtons, VolumeButtons, MediaButtons
    <2>3. CASE id \in MediaButtons
      <3>1. StandsFor(c, id, "press") = Effect("media", id, "")
        BY <2>3 DEF StandsFor, BuiltInStandsFor, IsCommandButton, PowerButtons, VolumeButtons,
               MediaButtons, NotifyTargets, Switches, Delta
      <3> QED
        BY <1>4, <2>3, <3>1 DEF HandlePress, Command, Platforms, OnDesktop, LinuxEffect,
               RpcFromCommand, HandleRpc, Rpc, Effect, PowerButtons, VolumeButtons, MediaButtons
    <2>4. CASE id = "apply_update"
      <3>1. StandsFor(c, id, "press") = Effect("apply", "", "")
        BY <2>4 DEF StandsFor, BuiltInStandsFor, IsCommandButton, PowerButtons, VolumeButtons,
               MediaButtons, NotifyTargets, Switches, Delta
      <3> QED
        BY <1>4, <2>4, <3>1 DEF HandlePress, Command, PowerButtons, VolumeButtons, MediaButtons
    <2> QED
      BY <1>3, <2>1, <2>2, <2>3, <2>4
  <1> QED
    BY <1>1, <1>2, <1>5, <1>6 DEF Works

LEMMA ComponentWorks ==
    ASSUME NEW c \in Config, NEW p \in Platforms, Clashes(c) = {}, NEW id \in Advertised(c, p)
    PROVE  Works(c, p, id)
  <1>1. id \notin c.commands \/ id \notin NotifyTargets \cup {"apply_update"}
    BY DEF Clashes
  <1>2. id \in BuiltIn(c, p) \cup c.commands /\ c.commands \subseteq CommandIds
    BY DEF Advertised, Config
  <1>3. CASE IsCommandButton(c, id)
    BY <1>1, <1>2, <1>3, CommandButtonWorks DEF IsCommandButton, Ids
  <1>4. CASE ~IsCommandButton(c, id)
    <2>1. id \in BuiltIn(c, p)
      BY <1>2, <1>4 DEF IsCommandButton, BuiltIn
    <2>2. CASE id \in Switches
      BY <1>4, <2>1, <2>2, SwitchWorks
    <2>3. CASE id \in NotifyTargets
      <3>1. "notify" \in c.actions
        BY <2>1, <2>3 DEF BuiltIn, NotifyTargets, PowerButtons, VolumeButtons, MediaButtons,
               UpdateControls
      <3> QED
        BY <1>1, <2>3, <3>1, NotifyWorks
    <2>4. CASE id \notin Switches \cup NotifyTargets
      <3>1. id \notin c.commands
        BY <1>1, <1>4, <2>4 DEF IsCommandButton, UpdateControls, Switches
      <3> QED
        BY <2>1, <2>4, <3>1, ButtonWorks
    <2> QED
      BY <2>2, <2>3, <2>4
  <1> QED
    BY <1>3, <1>4

-----------------------------------------------------------------------------
(* The theorems *)

\* The variables keep their types: a command only ever becomes an effect the
\* desktop knows, at once or when the helper comes to it.
THEOREM TypeCorrect == Spec => []TypeOK
  <1>1. RouterInv => TypeOK
    BY DEF RouterInv
  <1> QED
    BY <1>1, Invariance, PTL

\* Whatever messages arrive, in whatever order the helper answers or fails to,
\* the desktop is touched only as the configuration permits (ActionRouter::handle,
\* Config::action_enabled).
THEOREM PermittedAlways == Spec => []OnlyPermitted
  <1>1. RouterInv => OnlyPermitted
    BY DEF RouterInv, OnlyPermitted
  <1> QED
    BY <1>1, Invariance, PTL

\* Under every configuration without a clash of ids, on either platform, every
\* component discovery offers is answered with what it stands for (enabled_entities,
\* build_discovery_components, ActionRouter::handle).
THEOREM WorksAlways == Spec => []AdvertisedWorks
  <1>1. RouterInv => AdvertisedWorks
    <2> SUFFICES ASSUME RouterInv, Clashes(config) = {},
                        NEW id \in Advertised(config, platform)
                 PROVE  Works(config, platform, id)
      BY DEF AdvertisedWorks, Works
    <2>1. config \in Config /\ platform \in Platforms
      BY ConfigAssumption DEF RouterInv, TypeOK
    <2> QED
      BY <2>1, ComponentWorks
  <1> QED
    BY <1>1, Invariance, PTL

\* A media button acts on the player Home Assistant is shown (collect_mpris,
\* pick_mpris_owner).
THEOREM MediaAlways == Spec => []MediaFollowsShown
  <1>1. RouterInv => MediaFollowsShown
    BY DEF RouterInv
  <1> QED
    BY <1>1, Invariance, PTL
=============================================================================
