# TLA+ models of ha-desktop-agent

This directory models the parts of the agent that are hard to test: the two
halves of its MQTT client, the pipe between the two Windows processes, the
agent's replacement of itself and the files it does that with, what a tick reads
and which of it is published, the user's session, and the way of a command to
the desktop. The models are checked with TLC on small instances, and what
matters most about them is proved with TLAPS for every value of the constants.
Paths are relative to the repository.

## 1. The system

| Component | State | Operations | Talks to |
|---|---|---|---|
| MQTT transport, `src/transport/mod.rs` | the `connected` watch, a request channel (64), a command channel (32), rumqttc's session | connect and reconnect, re-subscribe and republish `online` on every ConnAck, forward commands | the broker; the main loop over the two channels |
| main loop, `src/app.rs` | where it is; the command being handled | announce, tick (update, collect, decide, publish), handle commands, stop | everything below |
| session pipe, `src/collect/windows/pipe.rs` | the hub (values, sender of the current session, next id), the requests of a session that wait for a result | `call`, accept, drain, read, end of session; in the helper: connect, snapshot, execute | main loop by `call` and the shared values, helper by the pipe |
| Windows service, `src/collect/windows/service.rs` | status reported to the service manager | run, stop | main loop by a stop channel |
| updates, `src/update/` | last check, available release, applied version, automatic or not | tick, check, apply, restart | GitHub, the package manager, the service manager |
| verification of a release, `src/update/verify.rs`, `apply_downloaded` | the files downloaded so far | download, compare hash and signature, install | GitHub |
| publish decision, `src/snapshot.rs` | values and attributes of the last evaluation, time of the last publish | evaluate | main loop |
| routing, `src/action.rs` | none | parse, check the allowlist, run the action | session, hub, updates, configured commands |
| entities, discovery, configuration | the configuration | which entities exist, what discovery says of them | routing, publish |
| collection, `src/collect/mod.rs`, `src/collect/windows/mod.rs` | none | put the values of all collectors into a snapshot | collectors, publish; on Windows the hub |
| Linux session, `src/collect/linux_session.rs` | the buses connected to at start, caffeine descriptor, cached media player | choose the session; lock, inhibit, idle time, players, by D-Bus calls with fallbacks | logind, GNOME, freedesktop services, MPRIS |
| samplers (`rapl`, `proc`, `LanSampler`, Windows network) | counters of the last sample | sample | the operating system |
| battery and mains, `src/collect/battery.rs` | none | choose a battery and an adapter | sysfs |
| other collectors, power estimate | none | read and parse | the operating system |

What makes it hard:

* **Two tasks and two bounded channels.** The main loop waits for room in the
  request channel, the event-loop task for room in the command channel, and
  each is the only one that makes room for the other.
* **Reconnects.** The subscription, the retained availability, the last will
  and the commands of a persistent session have to fit together again after
  a lost connection or a broker that has forgotten everything.
* **Stops and kills** at any point; nothing is written to disk.
* **Two processes and a pipe** that either side may leave at any time, calls
  with a timeout whose requests cannot be taken back, ids that start again.
* **Installing a new version** from inside the old one, with a restart at the end.
* **One list of controls, decided in four places**: what discovery offers, what
  the allowlist permits, what the router does, and what the Windows helper does.
* **One list of entities, written three times**: what discovery offers and of
  which type, what the collectors of two systems put under which key, and what is
  published; on Windows by two processes with two readings of the configuration.
* **Lists in no order**: power supplies and sessions, of which one has to be chosen, and the same one on the next tick.
* **Several services that answer for the desktop**, any of which may be missing.
* **A release of several files** that are put up and replaced one by one while
  they are downloaded one by one.
* **Counters** that wrap, begin again, go back, or change their source.

## 2. Modules

| Module | What it is |
|---|---|
| `MqttLoop` | transport, ConnAck tasks, main loop, channels, connection and broker |
| `MCMqttLoop` | values for TLC, and the outage from which one run starts |
| `MqttLoopProofs` | type invariant, `OnlineIsRetracted`, the order of commands and that the circular wait lasts, proved |
| `DesktopRpc` | the promise of a call to the session helper, abstractly |
| `SessionHub` | caller, pipe server thread, pipe and helper; implements `DesktopRpc` |
| `SessionHubProofs` | type invariant and `SessionValuesOwn`, proved |
| `RpcPromiseProofs` | the refinement of `DesktopRpc`, proved |
| `UpdateController` | check, download, installation and restart, on Linux and Windows |
| `UpdateProofs` | type invariant, `NeverGoesBack` and `InstalledOnce`, proved |
| `ReleaseFiles` | the files of a release: downloaded, verified, installed |
| `PublishDecision` | which snapshots become a state message |
| `PublishProofs` | types, what is never held back and for how long a number is; of `Reports` that every entity is read, by whom, and what stays out: proved |
| `Entities` | the controls of a configuration: offered, and permitted |
| `ActionRouter` | a command from its topic to the desktop, and the state shown afterwards |
| `MCActionRouter` | five configurations for TLC |
| `ActionRouterProofs` | types, allowlist, offered controls and media buttons, proved |
| `Reports` | the entities that report, who reads them, and what is published |
| `LinuxSession` | which session is meant; lock and idleness |
| `LanSampler` | the rate of the LAN interface |
| `SamplerProofs` | types, and that rates, powers and usages are true and the battery is always the same, proved |
| `PartsProofs` | the files of a release, the Linux session, and that `parts` checks each part as it is, proved |
| `RaplSampler` | the power of the energy zones |
| `CpuSampler` | CPU usage |
| `PowerSupply` | which battery and which adapter are reported |
| `MCParts` | values for TLC of the eight modules that follow one tick |

How they fit together: `SessionHub` implements `DesktopRpc`
(`INSTANCE DesktopRpc WITH`), and `ActionRouter`, which extends `Entities`,
relies on that promise alone. `MqttLoop` takes what a handler, a collection and
the publish decision do as choices, which `ActionRouter`, `UpdateController`,
`Reports` and `PublishDecision` then refine each on its own. Failed downloads,
checksums and signatures are one choice in `UpdateController` and spelt out in
`ReleaseFiles`. A helper's values outlive it in `SessionHub`, and `Reports`
takes that over (`RestartTheirs`).

The modules `LanSampler`, `RaplSampler`, `CpuSampler`, `PowerSupply`,
`LinuxSession`, `Reports`, `PublishDecision` and `ReleaseFiles` share no
variable. Their product would multiply states and show nothing more, so a
behaviour of `MCParts` follows one of them (`followed`) and leaves the others
where they began; the properties are checked of all of them in one run.

Definitions named `Fault...` are deliberate faults. Each stands before the
definition it would replace and is used by nothing; with it in that place a
property fails, which shows that the property depends on the code it is about.

### MqttLoop

The state of the main task is `main` (the `await` it is at) and `handling`; the
event-loop task has `el`, the command it is `forwarding` and the watch `conn`;
`respawned` counts the tasks spawned on a ConnAck that wait to subscribe and to
publish `online`. `reqs` and `cmds` are the two channels. Of rumqttc, `pending`
is what it kept over a disconnect, `wire` what is written and `outgoing` the
publishes among it. The broker is a record, `queue` the commands of the
session, `unacked` those read whose acknowledgement is on its way.

One action is one step between two points at which another task can run:
`WaitConnected`, `AnnounceStep`, `Tick`, `PublishState`, `SelectCommand`,
`DrainCommand`, `DrainDone`, `CommandHandled` and `Exit` are `mqtt_loop`;
`Connect`, `PollError`, `Wake`, `SendRequest`, `ReadCommand` and
`ForwardCommand` the event-loop task; `Resubscribe` and `RepublishOnline` the
ConnAck tasks. `Kill` ends the process anywhere, `Start` starts it again.

A request is its kind and a command its number in the order in which Home
Assistant sent it. What a handler does, what is collected and whether a
publish is due are choices.

Assumed of rumqttc 0.24 and of a broker: what is written is served in order;
publishes that were not acknowledged are sent again after a reconnect when the
broker still has the session and dropped when it has not, subscribes are not;
a command is acknowledged when it is read; the broker keeps the commands of a
session that is away, and publishes the last will of a connection that broke
before it accepts the next one.

### SessionHub

`caller` is the main task inside `SessionHub::call`, which clones the sender
(`cloned`) and then waits (`waiting`). `srv` is where the server thread is in
`accept_client` (`Unserved`: `CreateInstance`, then `Listen` or, where a helper
came before, `RefuseEarly`) and in `pipe_server_loop`, with `tx` and `values` of the hub and `rx` and `pending` of
the session. `helper` is where the helper is in `run_session_client`. Calls are
numbered in the order they are made; the id on the wire is `next_id`, which a
restart of the service resets. A snapshot is the helper it came from.

Simplifications: one helper at a time (one logon task); the pipe towards the
helper is not bounded (at most `MaxCalls` small requests are ever in it, and
`IncomingCommand::parse` bounds a request far below the 64 KiB of the pipe); the
8 seconds of a call are a choice, so it may time out at any moment;
`PeekNamedPipe` on a pipe that broke and is empty leaves the count at 0, which
is what the discarded error makes of it; other failures of `accept_client` than
the one below are retried and not modelled.

A helper may open an instance of the pipe as soon as `CreateNamedPipeW` has made
it (`ConnectEarly`). `ConnectNamedPipe` then fails with `ERROR_PIPE_CONNECTED`,
which `accept_client` means to let pass (`src/collect/windows/pipe.rs:231`); but
the code it compares is the HRESULT `0x80070217`, which is neither 535 nor
`0x800700E7`, so that it gives up without closing the handle. The helper is
connected to an instance that nobody serves, its writes succeed until the buffer
is full, and nothing tells it to connect again. `HelperServed` says that a helper
that runs ends up served through crashes and restarts, with two exceptions by
name: such a helper (`Forsaken`), and the one that waits because the server has
not noticed that the helper before it is gone (`GoneUnnoticed`).

### UpdateController

The main task works for one tick or one press of the button at a time (`at`,
`by`): `Tick` and `ApplyPressed` begin, `CheckNow` and `FetchFails` are the two
outcomes of `check_now`, `Decide` is `should_apply`, and `Download`, `Install`
and `ApplyFails` are `apply_pending`. `available`, `applying`, `error`,
`applied`, `auto` and `due` are the controller's fields; a new process
(`Started`) has none of them. A version is a number and a file the version in
it, so `disk` says what is at each place the agent may be started from.
`broken` are the places that hold bytes that are not a program. The host is the
place, `home`: `"program"` is Windows, the others are Linux.

`Install` is the whole of `apply_update` and `restart_agent`. On Linux the file
is replaced under the running process (`replaced`, after which `current_exe`
has another name); on Windows a script is scheduled that five seconds later
runs the setup (`SetupCopies`, `SetupRestarts`), whether or not the service has
stopped. Around the agent, releases appear with or without their assets and are
withdrawn, the user installs and removes packages, logs on and off, and
processes are killed.

Assumed: a silent NSIS setup skips a file in use; a Windows service that is
deleted while it runs stays marked until it stops and cannot be created before;
nobody starts the service by hand in the seconds the script takes; the assets
of a withdrawn release cannot be downloaded. Checksum and signature are among
the reasons of `ApplyFails`, and are the subject of `ReleaseFiles`.

### ReleaseFiles

A release has an asset for each kind of installation, `SHA256SUMS` and its
signature; a file is the build it is of, so that two builds of one version are
told apart by their bytes only. `FindRelease` is `check_now`: it remembers the
kind of the asset and which of the other two files were listed (`found`).
`DownloadNext` is one of the downloads of `apply_downloaded`, `VerifyAndInstall`
is `verify_asset` and `apply_update`, which looks at the kind of installation
again (`place`). The maintainer puts up and takes down files (`PutUp`) and
makes a new build (`Rebuild`), the user installs the package or removes it
(`ChangePlace`), all between any two steps.

Assumed: a signature is made for one text only, and two builds have different
bytes. Windows, whose setup is one file of the same treatment, and a release
that is replaced by a newer one, are not repeated here.

### PublishDecision

`Evaluate` is one tick: collect, `PublishDecision::evaluate` and, if it says
so, publish. `last` and `age` are its fields, `shown` is the retained state
message, and `quiet` is history: for how long the evaluations have found the
same. Numbers are integers in units that make every hysteresis an integer,
texts and truth values have no order (`Discrete`), and the attributes, which
the code compares as one, are one of these. Time passes in poll intervals.
The channel and the broker behind a publish are `MqttLoop`'s.

### Entities and ActionRouter

`Entities` is the part of `enabled_entities`, of the discovery payload and of
`Config::action_enabled` that concerns controls. A configuration is the fields
these read: which actions and sensors are on, the ids of `commands:` and of
`sensors.disabled`. Since discovery keeps one component for an id, a command
that has the id of a control takes its place (`IsCommandButton`).

In `ActionRouter`, `Receive` is one command in the main loop: `Parse`, then
`Handle` with the handler of its kind, which gives an effect or a refusal. An
effect reaches the desktop directly (`LinuxEffect`) or as a message to the
session helper (`RpcFromCommand`, `HandleRpc`). `setting` is what the desktop
really stands at, `shown` what the last `Tick` collected. The pipe is reduced to
what `SessionHub` shows of it: a call is executed at most once and in order,
perhaps after the service gave up on it (`late`); and a helper is served, gone
while the server goes on with it and with its values, or refused because it came
too early (`HelperStates`). A helper whose service restarts keeps its caffeine
request; it may still execute a call it had been sent, and exits when it cannot
write the result (`LastEffect`). `owner` is the media player
remembered by the last collection. Payloads are the classes that the code
distinguishes; the text of a notification is the given or the default one.

Simplifications: no two players of one name; a command's program is its id; the
update behind `apply_update` is `UpdateController`'s; the effects that leave
nothing behind (power, volume, notifications) are remembered for one step.

### Reports

A reading is an entity, the type of its value, and who read it (`machine`,
`network`, `process`, `session`, ...): what a value is does not matter here, where
it comes from does. `Reporting` is the part of `enabled_entities` about entities
with a state; `Machine`, `Processes`, `Network`, `Session` and `Own` are what the
collectors put into a snapshot under a configuration, and `Over` and `Collected`
the order in which they overwrite each other. `ReportTick` is one tick, of which
the machine's or the session's half may fail; `ToJsonMap` is what is published:
the states of the entities that discovery offers, and every attribute that was
collected (`CollectedAttributes`).
On Windows `HelperReports` fills the `hub`, by the configuration the helper
read when it started (`theirs`), and the file may be edited and either process
restarted between any two steps.

The properties hold with three exceptions, each a definition of its own.
`Unread`: no collector ever reads the switch `mute`, because all of them report
`muted`; on Windows nobody reads `cpu_power`, `dram_power`, `battery_health` and
`battery_cycles`, which discovery offers all the same. `Unshowable`:
`update_latest_version` is a text and keeps the state class `measurement`
(`src/entity.rs:336`), for which Home Assistant expects a number. And
`ExcludedUnpublished` is about states, and about the attributes of a field that is
off: an entity in `sensors.disabled` keeps its attributes in every message, since
`to_json_map` does not look at them (`src/snapshot.rs:45`).

Simplifications: a reading that finds nothing because there is nothing counts as
read; the list of the keys of a collector is taken as a whole, so that a
collector fails entirely or not at all; names of processes and listeners are
valid ids.

### LinuxSession

`services` says which of the desktop's services answer on the session bus
(`"shell"` stands for GNOME's screen saver and idle monitor, `"saver"` for
freedesktop's screen saver), `conns` to which of the two buses the agent could
connect when it started, which is tried once. `GraphicalSessions` is what
`graphical_session_id` may come to, given that logind lists in no order.
`LockScreen` is the lock button through its fallbacks and `Collect` what a tick
reads of lock and idleness. Around it sessions begin and end, desktop services
crash and return, and the user locks, unlocks, leaves and comes back. The caffeine
switch is in `ActionRouter`.
`claimed` is history: a lock was reported to have worked and nobody undid it.

Simplifications: a property of logind that cannot be read alone, while others
can, is not modelled; a desktop that is asked to lock does so. The properties
about the screen are stated for as long as the desktop is the only session of
the user with a seat (`OneSeat`): with two, the first in the list is
taken, and which that is nothing fixes.

### Samplers

The samplers turn counters into rates and keep the counters of an earlier tick;
a rate is modelled as what is divided and by what. In `CpuSampler` a tick reads
`/proc/stat` or cannot (`CpuTick`), while the kernel spends time and lets
`iowait` go back. In `LanSampler` a tick is two steps, because the interface is
chosen (`Choose`) before its counters are read (`LanTick`) and may be gone or
back by then; `lan` is `LanSampler.prev`. In `RaplSampler` a tick is one walk
over sysfs; `rapl` is `RaplSampler.previous`, and `power` is what every place of
the walk contributes before the places of a kind are added up. `seen` and
`metered` are what an observer would have read at each tick and serve the
properties only.

In `PowerSupply` a tick chooses among the supplies, whose order is left open.
`supply` says of each how much of it can be read: it may be absent, its `type` or
the `online` of an adapter may be unreadable, or an adapter is on or off; and the
directory itself may be unreadable. `steady` is history: nothing was changed since the
last tick.
What is read of the battery is its name.

Simplifications: routes have different metrics (of equal ones the kernel's
order decides); one direction of the traffic stands for both; ticks are at least
one unit of time apart, so that the guards against no elapsed time are not
reached.

## 3. Runs

| Run | Instance | What it shows |
|---|---|---|
| `mqtt_safety` | capacities 1 and 2, 2 commands, 1 publish, 1 lost connection, 1 broker restart, 1 stop or kill | types, the last will, the order of commands |
| `mqtt_reconnect` | 1 malformed command, request channel of 1, 1 lost connection, 1 broker restart, 1 stop or kill | availability and subscription come back |
| `mqtt_commands` | 1 command that may be delivered twice, both channels of 1, 1 publish, 1 lost connection, 1 stop or kill | the command is executed, discovery arrives, a stop is honoured, unless the two tasks wait for each other; that wait lasts |
| `mqtt_outage` | an outage, 2 commands, command channel of 1 | **violated**: the circular wait below |
| `hub` | 3 calls, 2 helpers, 1 crash, 1 restart, a helper that connects early | types, whose values, the promise of a call; every call returns, a living helper ends up served but for two named cases |
| `hub_forgotten` | 1 helper that dies | **violated**: its values stay for ever |
| `update_safety` | 3 versions, every place, 1 withdrawal, 1 package by the user, 1 kill, 1 early script, restarts that fail | types; the program never goes back, and none is installed twice |
| `update_live` | 3 versions, 3 places, 1 withdrawal, 1 kill, 1 early script | the agent ends up as the latest release; offers follow GitHub |
| `update_locked` | 2 versions, Windows, a session helper | **violated**: the setup finds the program in use |
| `router` | 5 configurations, both platforms, 2 players, 2 commands of any id and payload, 1 change by the user, 2 faults | types; only what is permitted is done; what is offered works; media buttons; switches settle |
| `parts` | LAN: 2 interfaces, 2 units of traffic each, 3 ticks. Energy: walks of 2 places over 3 zones, counters up to 2, 3 units of energy. CPU: 4 units of time, 1 step back. Supplies: 5, each absent, unreadable or there, on 3 kinds of chassis. Session: 4 sessions, 3 desktops. Reports: 4 configurations, 2 systems. Decision: a number with hysteresis 2 and a truth value, 3 values each, forced every 4 intervals. Release: 2 builds, 1 change of the installation | types; rates and usage are what was carried, used or worked; the same battery twice; the lock and what is shown of it; every entity is read, by its own reader, and no state of one that is excluded; what is shown; what is installed is what was signed |
| `session_idle` | the same instance | **violated**: logind's idle time |

**Bounds.** A channel of capacity 1 or 2 is full, empty and in between with the
few messages of these instances, which is where its users behave differently;
capacities 64 and 32 add longer queues of the same kind. Two commands are needed
for an order; in `mqtt_commands` one is enough to fill both channels and bring
about the circular wait, since the broker delivers it again after a lost
connection; and three calls are needed for a late result to meet a later call; one loss,
one restart and one crash are each placed at every step. Three versions are the
fewest with one to withdraw to that is still newer than the agent; a hysteresis
of 2 is the least that holds a change back, and three values let a number drift
past it in two steps. The configurations of `router` have everything on, then
each field off in one of them and commands that take the id of a control; two
commands are a late one and one that overtakes it, and two faults (a restart, a
helper that exits or is refused, a failed reading) and one change by the user fall
between any two steps: a helper that is gone can be met by a restart. In
`parts` three ticks are a first one, one that fails and one that computes a rate
over both; a counter up to 2 has a wrap that comes back below where it was, and
one that does not. Four units of time are a sample on either side of a failed
one with work and idleness in each window, two batteries and two adapters the
fewest between which a choice can be wrong, beside a mouse that is neither. Of
the sessions one is the desktop, one another with a seat, one without and one of
another user. The four configurations of the entities have everything on, some
sensors off while a process has the name of one, some entities disabled, and
next to nothing; every pair of them meets as the service's and the helper's. Two
builds are what a file can be replaced by. Bounds on what the world may do
(`MaxWithdrawals`, `MaxUserSteps`, `MaxKills`, `MaxEarly`) do not bound what the
agent does: it checks, fails and tries again without limit. The theorems cover
all other values.

**Fairness.** tokio polls every task that is ready and wakes the waiters of a
channel in order, and `select!` picks among the ready branches at random, so a
task or branch whose step is possible again and again takes it: strong fairness
for the tasks of `MqttLoop`. The broker serves what it gets and can be reached
again and again. In `SessionHub` each thread and process runs (weak fairness); a
call's timer is part of the caller. Nothing is assumed of Home Assistant, of
log-ons, stops, restarts or losses. In `UpdateController` the main loop keeps
ticking and the interval elapses; a download ends (the client's timeout is 30
seconds) and an installation ends (a password prompt is dismissed at last);
checks, downloads and installations that are tried again and again succeed now
and then (strong fairness); a supervised agent that was stopped is started
again, and a scheduled script runs. In `ActionRouter` the loop ticks with its
readings succeeding at last, and a helper that is served writes snapshots and comes
to the calls it was sent. A helper connects at last only where it holds the
caffeine request, since it runs then and tries every two seconds; that one is
started at all is not assumed. Commands, faults and the user's changes are not
fair, and stop. Nothing in `parts` needs fairness: that the display catches up with a
drifting number is the invariant `DriftEnds`, which bounds the time it may take.

Deadlock is not checked except in `router`, where the loop always ticks:
elsewhere the agent may stop for good, and the pipe server waits for a helper
that need not come; some of `parts` stop when their time is up.

### What the violated runs show

* `mqtt_outage`: during an outage the main loop goes on publishing until the
  request channel is full and waits there (`src/app.rs:170`). When the broker
  is back it first delivers the queued commands; once they fill the command
  channel the event-loop task waits (`src/transport/mod.rs:103`) and does not
  poll. Each waits for the other. The connection is up and the availability
  stays `offline`, against the comment at `src/transport/mod.rs:76`.
* `hub_forgotten`: `bytes_available` discards the error of `PeekNamedPipe`, so
  the server thread never notices that the helper is gone. Its values stay in
  the hub, where `README.md:98` says session entities are unavailable until
  the helper is running, and no other helper is accepted until the service
  restarts.
* `update_locked`: the comment at `src/update/apply.rs:109` has the service
  unlock Program Files before the setup replaces files. The session helper runs
  the same program, nothing stops it, and it is still there five seconds later.
  The old version starts again, knows nothing of what it applied, and schedules
  the setup again for as long as somebody is logged on.
* `session_idle`: where the compositor has no idle monitor as GNOME's,
  `collect_idle` takes the time since `IdleSinceHint` for the idle time
  (`src/collect/linux_session.rs:248`). logind gives there the time of the last
  change of the hint in either direction, and 0 before the first. The run finds
  a desktop that never set the hint, where the user is inactive while at work;
  the same happens to a user who came back longer ago than the threshold. The
  entity is "User active" (`src/entity.rs:646`), and the fallback twelve lines
  below takes the hint itself.

The models show, or name among their exceptions, some more for which there is no
run of its own: a package chosen for dpkg is written as the local binary when
the user removed the installed package meanwhile; a helper that connects before
the server listens is never served (`src/collect/windows/pipe.rs:232`, above), and
the caffeine switch of Windows shows for ever what a helper last said that is gone
unnoticed (`SwitchesSettle` excepts both); a stop is never looked at in the
circular wait of `mqtt_outage` (`WaitIsForEver`), so that only a kill ends it; an
agent that nothing
supervises goes on as the old version inside a session, where `XDG_RUNTIME_DIR`
is set; an older release still on offer replaces a newer package the user
installed by hand, or one of the agent's own updates whose restart did not come,
because only the running version is compared (`NeverGoesBack` excepts a program
that was replaced while the agent ran); an entity
with hysteresis 0, such as `agent_uptime`, makes every tick publish; entities in
`sensors.disabled` are still collected and their attributes published
(`src/config.rs:167`); of two
adapters that disagree the one listed last decides (`src/collect/battery.rs:41`);
discovery is not published again to a broker that lost it; and a command whose
acknowledgement is lost is executed twice, which quality of service 1 permits.

## 4. Proofs

All theorems hold for all values of the constants that satisfy the assumptions
named in the modules (capacities positive, bounds natural numbers).

* `MqttLoopProofs`: `TypeOK` is inductive. `OnlineIsRetracted` needs in addition
  only that a broken connection has its will due, which `LoseConnection`
  establishes. `CommandsInOrder` (property
  `NoCommandOvertakes`) is not inductive either. Its invariant says that the
  broker's and the agent's queues are ascending and do not skip a command
  (`SessionOrdered`, `ProcessOrdered`), and that every command sent is executed,
  lost, malformed or in one of them (`NothingForgotten`). A retransmitted command
  is the difficulty: it may be in the session again and executed already.
  `WaitLasts` (property `WaitIsForEver`) goes through the actions: of those that
  could make room in one of the two channels each needs the other to move first.
* `SessionHubProofs`: `TypeOK`, which ties the sender the hub offers to the
  session being served; then `ValuesInv`: snapshots in the pipe come from the
  helper that holds its other end.
* `RpcPromiseProofs`: `SessionHub` implements `DesktopRpc`. The invariant
  `PromiseInv` orders the requests on their way after everything that took
  effect (`QueuesInv`, `OutstandingInv`), says that a result on its way tells
  the truth (`ResultInv`), that within a session the id determines the call
  (`IdInv`), and what the caller may conclude from a reply (`CallerInv`). Each
  step of the pipe is then a step of `DesktopRpc` or leaves its variables alone.
* `UpdateProofs`: `NoWayBack` (property `NeverGoesBack`) follows from `Newer`,
  that the release at hand is newer than the process, whose version never changes,
  over any number of failed checks; and from `FileOfAgent`, that the file the agent
  is started from is of its own version as long as nothing replaced it. Nothing in
  the code compares with the file, which is why the property has its exception. `InstalledOnce` needs `Forward`: until a release is withdrawn,
  what was applied, what is available and what is latest are in this order, and
  a tick only works on what is newer than what was applied.
* `ActionRouterProofs`: `OnlyPermitted` for every configuration, id and payload.
  `HandleFine` goes through the handlers; `RouterInv` adds that the calls the
  helper has not executed yet are permitted too, since they take effect when
  nobody looks at the configuration any more. `WorksAlways` (property
  `AdvertisedWorks`) takes each kind of component through discovery, parser,
  allowlist, handler and helper on both platforms. `SameOnBothPlatforms` says
  that the detour over the pipe changes nothing. `MediaFollowsShown` needs that
  a player that is shown is the one remembered.
* `SamplerProofs`: each sampler keeps what it read last, and the invariant ties
  that to what the machine really did. `LanRateTrue` needs that the counter that
  is kept is the one of the time and the interface it is kept with (`KeptTrue`),
  and that what was carried, and from where the counters count, only grows
  (`Grows`). That the choice of the interface is always one uses that the natural
  numbers are well-founded. `EnergyTrue` is the same with a counter that comes
  round: what is kept is the energy since the counter began, modulo the range
  (`CountsTrue`), and `WrapTrue` says what `power_from_energy` makes of two such
  counters, for every range. `CpuUsageTrue` needs that the counters have gained,
  since the sample that is kept, what passed since (`SampleTrue`), as long as none
  went back. `SupplySteady` needs that no choice is left: the place of a supply
  is its own, so that one battery is first (`OneBattery`).
* `PublishProofs`: `DiscreteShown` is inductive: an evaluation that does not
  publish has compared equal, in everything but numbers, with a snapshot that
  was shown. `PublishTypeOK` bounds the time since the last publish by
  `force_publish_s`. `DriftIsBounded` (property `DriftEnds`) follows from both:
  a message that is out of date is older than the time for which nothing has
  changed, and no message gets as old as `force_publish_s`; a number that
  drifts in steps below its hysteresis is therefore right again at most that
  long after it has come to rest.
  Of `Reports`, `ReportInv` says of every message that its entities are those the
  agent's configuration offers, each with one reading or with a null, and of the
  hub that its readings were made by some configuration, which need not be that
  of the agent; the attributes are those of fields that are on, which the
  configuration of the agent alone decides. The lemmas behind it go through the lists: the type of a value is
  that of its id whoever reads it (`KindOf`, `MachineProper` to `NetworkProper`);
  therefore readings put over others are one for each id (`CollectedReadings`);
  whatever is offered is in one of the lists (`EverythingRead`); and no entity is
  of two fields of `sensors:` (`FieldsApart`). A monitor's id is made of a name
  and an ending, which the provers do not look into: `IdAssumption` states what
  the endings give, that only `tailscale_running` and `wireguard_running` can be
  both a sensor's and a monitor's. TLC evaluates it on the names of `parts`.
* `PartsProofs`: `InstalledWhole` follows from a type invariant that ties the
  release that was found to the stage, and from `FoundHere`: until the
  installation changes, the kind of the asset is the installation's.
  `LockHolds` is inductive but for `ScreenIsChosen`: while the desktop is the only
  session with a seat, `graphical_sessions` finds nothing else, so that every way
  to lock ends at it. `LockedShown` follows from the same lemma. `PartsFollowed` shows that the specification `parts`
  checks implies that of each of its eight parts, so that the theorems about the
  parts are theorems about it; `PartsTyped` is the first of them.

Every invariant and every action property the runs check has its theorem. Only
model-checked is what needs fairness (`AvailabilityRestored`,
`CommandsSubscribed`, `CommandsExecuted`, `Discovered`, `StopHonoured`,
`EveryCallReturns`, `HelperServed`, `UpdateSettles`, `OfferRefreshed`,
`SwitchesSettle`), because TLAPS does not prove liveness from fairness here.

## 5. Not modelled, and the plan

Not modelled, with the reason:

* How a value is read and converted: parsers of system files, the focused window,
  Wi-Fi, the calls of Windows, the kinds of interfaces by their names, units. They
  keep no state, and unit tests with fixtures reach them. `Reports` has their
  keys, types and conditions.
* What other programs inhibit (`suspend_inhibited`): a function of one answer of
  logind, in one step.
* `do_not_disturb` on Windows: the helper asks for it, and no entity shows it.
* How long a user may be away on Windows, where `user_active` ends after 60 seconds
  whatever `poll.idle_threshold_s` says (`src/collect/windows/session.rs:81`).
* The power formula and its log: floating point without control.
* The command line, the validation of the configuration file, and topic names.
* The status reports to the service manager: they follow the start and the stop
  that `MqttLoop` and `SessionHub` model, and nothing reads them back.
* The keep-alive timer of MQTT: a handler that takes long while the command
  channel is full holds it up; the waiting is modelled, the timer is not.

Left to prove: the safety half of the other liveness properties, where it says
something by itself, such as the states in which no call of the hub can be lost;
and that a helper's readings are never older than its connection.

Known of the samplers and not stated as a property: the powercap directory
lists a zone at its top and again below its parent, so `RaplSampler` adds up its
power more than once (`src/collect/rapl.rs:118`); two zones of one name are both
compared with the first; and a counter that begins again after a suspend looks
like one that wrapped, so that the next power is too high. `EnergyTrue` names
these as its conditions.
