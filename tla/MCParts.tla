------------------------------ MODULE MCParts ------------------------------
(* What a tick collects, whether it is published, and the files of a release. *)
(* These parts share nothing, so that a behaviour follows one of them.        *)
EXTENDS LanSampler, RaplSampler, CpuSampler, PowerSupply, LinuxSession,
        PublishDecision, Reports, ReleaseFiles

MCMetric == [i \in Ifaces |-> IF i = "eth0" THEN 100 ELSE 600]

\* The package is linked from two places, two sockets have a `dram`, of which
\* one does not say where its counter ends.
MCNameOf == [z \in Zones |-> IF z = "package" THEN "package-0" ELSE "dram"]
MCWalks == {<<"package", "package">>, <<"dram1", "dram0">>}

\* A laptop with two batteries, a charging USB-C port and a mouse.
MCFacts ==
    [s \in Supplies |->
        CASE s = "ac"   -> [kind |-> "Mains",   scope |-> "none",   named |-> FALSE, place |-> 1]
          [] s = "ucsi" -> [kind |-> "USB",     scope |-> "none",   named |-> FALSE, place |-> 5]
          [] s = "bat0" -> [kind |-> "Battery", scope |-> "System", named |-> TRUE,  place |-> 2]
          [] s = "bat1" -> [kind |-> "Battery", scope |-> "none",   named |-> TRUE,  place |-> 3]
          [] OTHER      -> [kind |-> "Battery", scope |-> "none",   named |-> FALSE, place |-> 4]]

\* Beside the desktop: a text console, a shell over the network, and a desktop of
\* another user.
MCSessionFacts ==
    [s \in Sessions |->
        [own   |-> s # "other",
         seat  |-> s # "ssh",
         class |-> "user"]]

MCShells == {{}, {"saver"}, {"shell", "saver"}}

\* Half a percent for cpu_usage is two units.
MCHysteresis == [e \in Entities |-> IF e = "cpu_usage" THEN 2 ELSE 0]

\* Everything on, with a process that is named like a sensor; that sensor off;
\* some entities disabled; next to nothing.
AllOn ==
    [sensors |-> OptionalSensors, actions |-> {"caffeine", "mute", "do_not_disturb"},
     update |-> TRUE, processes |-> ProcessNames, listeners |-> ListenerNames,
     disabled |-> {}]
MCReportConfigs ==
    {AllOn,
     [AllOn EXCEPT !.sensors = @ \ {"tailscale", "mpris", "active_window_title"}],
     [AllOn EXCEPT !.disabled = {"locked", "wireguard_ip", "discord_running",
                                 "ssh_listening", "mute"}],
     [sensors |-> {"battery"}, actions |-> {}, update |-> FALSE, processes |-> {},
      listeners |-> {}, disabled |-> {"battery_status"}]}

VARIABLE followed

Parts == {"lan", "rapl", "cpu usage", "supplies", "session", "reports", "decision",
          "release"}

\* A part that is not followed begins in one state.
Init ==
    /\ followed \in Parts
    /\ LanInit /\ (followed = "lan" \/ present = {})
    /\ RaplInit /\ (followed = "rapl" \/ walk = <<"package", "package">>)
    /\ CpuInit
    /\ SupplyInit /\ (followed = "supplies" \/ (chassis = "unknown" /\ directory))
    /\ \A s \in Supplies : followed = "supplies" \/ supply[s] = "absent"
    /\ SessionInit /\ (followed = "session" \/ (conns = {} /\ services = {}))
    /\ ReportInit /\ (followed = "reports" \/ (os = "linux" /\ file = AllOn))
    /\ PublishInit /\ (followed = "decision" \/ \A e \in Entities : reading[e] = 0)
    /\ ReleaseInit /\ (followed = "release" \/ place = "deb")

\* The variables of the parts that are not followed do not change.
Others(part) ==
    /\ part # "lan" => UNCHANGED lanVars
    /\ part # "rapl" => UNCHANGED raplVars
    /\ part # "cpu usage" => UNCHANGED cpuVars
    /\ part # "supplies" => UNCHANGED supplyVars
    /\ part # "session" => UNCHANGED sessionVars
    /\ part # "reports" => UNCHANGED reportVars
    /\ part # "decision" => UNCHANGED publishVars
    /\ part # "release" => UNCHANGED releaseVars

Next ==
    /\ UNCHANGED followed
    /\ \/ followed = "lan" /\ LanNext
       \/ followed = "rapl" /\ RaplNext
       \/ followed = "cpu usage" /\ CpuNext
       \/ followed = "supplies" /\ SupplyNext
       \/ followed = "session" /\ SessionNext
       \/ followed = "reports" /\ ReportNext
       \/ followed = "decision" /\ PublishNext
       \/ followed = "release" /\ ReleaseNext
    /\ Others(followed)

Spec == Init /\ [][Next]_<<lanVars, raplVars, cpuVars, supplyVars, sessionVars,
                          reportVars, publishVars, releaseVars, followed>>

\* Every variable of the smaller parts has its type, and holds together with the
\* others as the type invariant of its module says.
PartsTypeOK ==
    /\ followed = "cpu usage" => CpuTypeOK
    /\ followed = "session" => SessionTypeOK
    /\ followed = "reports" => ReportTypeOK
    /\ followed = "release" => ReleaseTypeOK
=============================================================================
