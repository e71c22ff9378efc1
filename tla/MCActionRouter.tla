--------------------------- MODULE MCActionRouter ---------------------------
(* Configurations for ActionRouter: everything on, each field off in one,    *)
(* and commands and `disabled` entries that meet built-in controls.          *)
EXTENDS ActionRouter

MCCommandIds == {"script", "lock", "caffeine", "update_auto", "apply_update"}

AllOn ==
    [actions  |-> PowerButtons \cup {"caffeine", "mute", "volume", "notify", "dnd"},
     sensors  |-> {"audio", "mpris", "dnd"},
     update   |-> TRUE,
     auto     |-> "on",
     commands |-> {"script"},
     disabled |-> {}]

MCConfigs ==
    {AllOn}
    \cup {[AllOn EXCEPT !.sensors = {"mpris"}, !.actions = @ \ {"caffeine", "volume", "notify"}],
          [AllOn EXCEPT !.sensors = {"audio", "dnd"}, !.actions = @ \ {"lock"},
                        !.update = FALSE, !.commands = {"update_auto"}],
          [AllOn EXCEPT !.actions = {}, !.commands = {"lock", "caffeine"}],
          [AllOn EXCEPT !.auto = "off", !.commands = {"apply_update", "update_auto"},
                        !.disabled = {"lock", "mute"}]}
=============================================================================
