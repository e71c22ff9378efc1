-------------------------- MODULE UpdateController --------------------------
(***************************************************************************)
(* How the agent replaces itself (update/mod.rs, update/apply.rs): a tick  *)
(* or the apply_update button asks GitHub for the latest release, keeps it *)
(* as available when it is newer than the running version, downloads it,   *)
(* installs it and asks the service manager to restart the agent.          *)
(*                                                                         *)
(* All of it runs in the main task, one operation at a time; what moves    *)
(* meanwhile is the world: GitHub publishes and withdraws releases, the    *)
(* user installs and removes the package, the process is killed, and on    *)
(* Windows a scheduled script runs the setup after the agent has stopped.  *)
(* Everything the controller knows is in memory and starts anew with the   *)
(* process.                                                                *)
(*                                                                         *)
(* A version is a number, 0 for none.  A file is the version in it.        *)
(***************************************************************************)
EXTENDS Naturals

CONSTANTS
    StartPlaces,    \* where the file that the service manager starts may be
    AutoDefault,    \* update.auto of the configuration
    Supervised,     \* the agent runs as a unit or service
    RuntimeDir,     \* XDG_RUNTIME_DIR is set in the agent's environment
    RestartMayFail, \* systemctl may fail to start
    Desktop,        \* a user may be logged on (Windows), with a session helper
    MaxVersion,     \* bound: versions that exist
    MaxWithdrawals, \* bound: releases withdrawn
    MaxUserSteps,   \* bound: packages installed or removed by the user
    MaxKills,       \* bound: processes killed
    MaxEarly        \* bound: scripts for which five seconds are not enough

(* Program Files on Windows; on Linux /usr/bin, ~/.local/bin, another        *)
(* directory, and a path whose last component is not ha-desktop-agent.       *)
Places == {"program", "package", "local", "custom", "renamed"}
Versions == 1..MaxVersion
Assets == {"deb", "binary", "setup"}
Updates == [version : Versions, asset : Assets]
NoUpdate == [version |-> 0, asset |-> "none"]

ASSUME PlatformAssumption ==
    /\ AutoDefault \in BOOLEAN /\ Supervised \in BOOLEAN
    /\ RuntimeDir \in BOOLEAN /\ RestartMayFail \in BOOLEAN
    /\ Desktop \in BOOLEAN
    /\ StartPlaces \subseteq Places
    /\ "program" \in StartPlaces => Supervised  \* a Windows service
    /\ Supervised => RuntimeDir  \* the user's service manager sets it
ASSUME BoundAssumption ==
    /\ MaxVersion \in Nat \ {0} /\ MaxWithdrawals \in Nat
    /\ MaxUserSteps \in Nat /\ MaxKills \in Nat /\ MaxEarly \in Nat

VARIABLES
    (* the process *)
    at,           \* where the main task is; "down" and "exited" without one
    by,           \* what it works for: "tick" or "button"
    home,         \* the file it was started from
    running,      \* CARGO_PKG_VERSION of the process
    replaced,     \* its file was replaced or removed while it runs
    restartAsked, \* the service manager has asked it to stop
    (* UpdateController and its Inner *)
    auto,         \* automatic updates are on
    due,          \* last_check is None or older than the interval
    available, applying, error, applied,
    update,       \* the release that apply_pending works on
    (* GitHub *)
    latest,       \* version of the latest release
    assets,       \* assets of the latest release
    (* files *)
    disk,         \* the version at each place
    broken,       \* places that hold something that cannot be executed
    (* Windows *)
    script,       \* the update script: "none", "scheduled" or "copied"
    setup,        \* the version of the downloaded setup
    helper,       \* a session helper runs, from the same file
    registered,   \* the service is known to the service manager
    (* bounds *)
    withdrawals, userSteps, kills, early

taskVars    == <<at, by>>
processVars == <<home, running, replaced, restartAsked>>
innerVars   == <<due, available, applying, error, applied, update>>
githubVars  == <<latest, assets>>
fileVars    == <<disk, broken>>
windowsVars == <<script, setup, helper, registered>>
boundVars   == <<withdrawals, userSteps, kills, early>>
vars == <<taskVars, processVars, auto, innerVars, githubVars, fileVars,
          windowsVars, boundVars>>

Alive == at \notin {"down", "exited"}
Windows == home = "program"

Init ==
    /\ at = "loop" /\ by = "tick"
    /\ home \in StartPlaces
    /\ running = 1 /\ replaced = FALSE /\ restartAsked = FALSE
    /\ auto = AutoDefault
    /\ due = TRUE /\ available = NoUpdate /\ applying = FALSE /\ error = FALSE
    /\ applied = 0 /\ update = NoUpdate
    /\ latest = 1 /\ assets = Assets
    /\ disk = [p \in Places |-> IF p = home THEN 1 ELSE 0] /\ broken = {}
    /\ script = "none" /\ setup = 0 /\ helper = FALSE /\ registered = TRUE
    /\ withdrawals = 0 /\ userSteps = 0 /\ kills = 0 /\ early = 0

-----------------------------------------------------------------------------
(* What is installed here, and where a downloaded binary goes. *)

InstallKind ==
    IF Windows THEN "setup" ELSE IF disk["package"] # 0 THEN "deb" ELSE "binary"

(* Fault: a binary always goes to the documented place. *)
FaultBinaryDest == "local"

(* The path of a replaced file reads "... (deleted)", which is not the name. *)
BinaryDest == IF home # "renamed" /\ ~replaced THEN home ELSE "local"

-----------------------------------------------------------------------------
(* Checking for a release. *)

Tick ==
    /\ at = "loop"
    /\ at' = IF due THEN "checking" ELSE "deciding"
    /\ by' = "tick"
    /\ UNCHANGED <<processVars, auto, innerVars, githubVars, fileVars,
                   windowsVars, boundVars>>

ApplyPressed ==
    /\ at = "loop"
    /\ at' = "checking" /\ by' = "button"
    /\ UNCHANGED <<processVars, auto, innerVars, githubVars, fileVars,
                   windowsVars, boundVars>>

SetAuto ==
    /\ at = "loop"
    /\ \E on \in BOOLEAN : auto' = on
    /\ UNCHANGED <<taskVars, processVars, innerVars, githubVars, fileVars,
                   windowsVars, boundVars>>

(* A tick goes on after a failed check, the button returns. *)
AfterFailedCheck == at' = IF by = "tick" THEN "deciding" ELSE "loop"

(* Fault: a release that differs from the running version counts as newer. *)
FaultCheckDiffers ==
    /\ at = "checking"
    /\ LET newer == latest # running
           asset == InstallKind \in assets
       IN  /\ available' = IF newer /\ asset
                           THEN [version |-> latest, asset |-> InstallKind]
                           ELSE NoUpdate
           /\ IF newer /\ ~asset
              THEN error' = (by = "tick") /\ AfterFailedCheck
              ELSE error' = FALSE /\ at' = "deciding"
    /\ due' = FALSE
    /\ UNCHANGED <<by, processVars, auto, applying, applied, update, githubVars,
                   fileVars, windowsVars, boundVars>>

(* Fault: a release that is not newer leaves the earlier one available. *)
FaultCheckKeeps ==
    /\ at = "checking"
    /\ LET newer == latest > running
           asset == InstallKind \in assets
       IN  /\ available' = IF newer /\ asset
                           THEN [version |-> latest, asset |-> InstallKind]
                           ELSE IF newer THEN NoUpdate ELSE available
           /\ IF newer /\ ~asset
              THEN error' = (by = "tick") /\ AfterFailedCheck
              ELSE error' = FALSE /\ at' = "deciding"
    /\ due' = FALSE
    /\ UNCHANGED <<by, processVars, auto, applying, applied, update, githubVars,
                   fileVars, windowsVars, boundVars>>

CheckNow ==
    /\ at = "checking"
    /\ LET newer == latest > running
           asset == InstallKind \in assets
       IN  /\ available' = IF newer /\ asset
                           THEN [version |-> latest, asset |-> InstallKind]
                           ELSE NoUpdate
           /\ IF newer /\ ~asset
              THEN error' = (by = "tick") /\ AfterFailedCheck
              ELSE error' = FALSE /\ at' = "deciding"
    /\ due' = FALSE
    /\ UNCHANGED <<by, processVars, auto, applying, applied, update, githubVars,
                   fileVars, windowsVars, boundVars>>

FetchFails ==
    /\ at = "checking"
    /\ AfterFailedCheck
    /\ error' = (by = "tick" \/ error)
    /\ due' = (by = "button" /\ due)
    /\ UNCHANGED <<by, processVars, auto, available, applying, applied, update,
                   githubVars, fileVars, windowsVars, boundVars>>

IntervalElapses ==
    /\ Alive /\ ~due
    /\ due' = TRUE
    /\ UNCHANGED <<taskVars, processVars, auto, available, applying, error,
                   applied, update, githubVars, fileVars, windowsVars, boundVars>>

-----------------------------------------------------------------------------
(* Applying it. *)

(* Fault: the version that was applied already is not compared. *)
FaultShouldApply ==
    /\ available # NoUpdate /\ ~applying
    /\ by = "tick" => auto

ShouldApply ==
    /\ available # NoUpdate /\ ~applying
    /\ by = "tick" => auto /\ applied # available.version

Decide ==
    /\ at = "deciding"
    /\ IF ShouldApply
       THEN at' = "downloading" /\ applying' = TRUE /\ error' = FALSE /\ update' = available
       ELSE at' = "loop" /\ UNCHANGED <<applying, error, update>>
    /\ UNCHANGED <<by, processVars, auto, due, available, applied, githubVars,
                   fileVars, windowsVars, boundVars>>

(* The assets of a release that was withdrawn are gone. *)
Download ==
    /\ at = "downloading"
    /\ update.version <= latest
    /\ at' = "installing"
    /\ UNCHANGED <<by, processVars, auto, innerVars, githubVars, fileVars,
                   windowsVars, boundVars>>

(* Fault: an apply that failed goes on applying. *)
FaultApplyFails ==
    /\ at \in {"downloading", "installing"}
    /\ at' = "loop" /\ error' = TRUE
    /\ UNCHANGED <<by, processVars, auto, due, available, applying, applied,
                   update, githubVars, fileVars, windowsVars, boundVars>>

(* A failed download, a failed verification or a failed installation. *)
ApplyFails ==
    /\ at \in {"downloading", "installing"}
    /\ at' = "loop" /\ applying' = FALSE /\ error' = TRUE
    /\ UNCHANGED <<by, processVars, auto, due, available, applied, update,
                   githubVars, fileVars, windowsVars, boundVars>>

(* dpkg refuses anything but a package. *)
InstallDeb ==
    /\ InstallKind = "deb" /\ update.asset = "deb"
    /\ disk' = [disk EXCEPT !["package"] = update.version]
    /\ replaced' = (replaced \/ home = "package")
    /\ UNCHANGED <<broken, windowsVars>>

(* The bytes of the asset become the file, whatever they are. *)
InstallBinary ==
    /\ InstallKind = "binary"
    /\ disk' = [disk EXCEPT ![BinaryDest] = update.version]
    /\ broken' = IF update.asset = "binary" THEN broken \ {BinaryDest}
                                            ELSE broken \cup {BinaryDest}
    /\ replaced' = (replaced \/ home = BinaryDest)
    /\ UNCHANGED windowsVars

(* Only the script that runs the setup is scheduled. *)
ScheduleSetup ==
    /\ InstallKind = "setup" /\ script # "copied"
    /\ setup' = update.version /\ script' = "scheduled"
    /\ UNCHANGED <<fileVars, replaced, helper, registered>>

(* An agent that believes that nothing supervises it exits; otherwise the   *)
(* service manager, when it can be reached and knows the unit, asks it to   *)
(* stop and starts it again.                                                *)
RestartAgent ==
    /\ at' = IF ~Windows /\ disk'["package"] = 0 /\ ~RuntimeDir
             THEN "exited" ELSE "loop"
    /\ restartAsked' \in {Supervised} \cup
                         (IF RestartMayFail THEN {restartAsked} ELSE {})

Install ==
    /\ at = "installing"
    /\ InstallDeb \/ InstallBinary \/ ScheduleSetup
    /\ applying' = FALSE /\ applied' = update.version
    /\ RestartAgent
    /\ UNCHANGED <<by, home, running, auto, due, available, error, update,
                   githubVars, boundVars>>

-----------------------------------------------------------------------------
(* The process. *)

Ended == UNCHANGED <<by, home, running, replaced, auto, innerVars, githubVars,
                     fileVars, windowsVars>>

(* The main loop sees the signal or the service control. *)
Stop ==
    /\ at = "loop" /\ restartAsked
    /\ at' = "down"
    /\ Ended /\ UNCHANGED <<restartAsked, boundVars>>

Kill ==
    /\ Alive /\ kills < MaxKills
    /\ at' = "down" /\ kills' = kills + 1
    /\ Ended /\ UNCHANGED <<restartAsked, withdrawals, userSteps, early>>

(* The new process: main, then UpdateController::new. *)
Started ==
    /\ disk[home] # 0 /\ home \notin broken
    /\ at' = "loop" /\ by' = "tick"
    /\ running' = disk[home] /\ replaced' = FALSE /\ restartAsked' = FALSE
    /\ auto' = AutoDefault
    /\ due' = TRUE /\ available' = NoUpdate /\ applying' = FALSE /\ error' = FALSE
    /\ applied' = 0 /\ update' = NoUpdate
    /\ UNCHANGED home

(* The service manager or the user starts it; not in the seconds that the    *)
(* update script takes.                                                      *)
Start ==
    /\ ~Alive /\ registered /\ script = "none"
    /\ Started
    /\ UNCHANGED <<githubVars, fileVars, windowsVars, boundVars>>

-----------------------------------------------------------------------------
(* The Windows update script and the setup. *)

(* The setup first copies the program, whether the service has stopped by    *)
(* then or not.  A file in use cannot be written, and a silent setup skips   *)
(* it.                                                                       *)
SetupCopies ==
    /\ script = "scheduled"
    /\ \/ ~Alive /\ UNCHANGED early
       \/ Alive /\ early < MaxEarly /\ early' = early + 1
    /\ script' = "copied"
    /\ disk' = IF Alive \/ helper THEN disk ELSE [disk EXCEPT ![home] = setup]
    /\ UNCHANGED <<taskVars, processVars, auto, innerVars, githubVars, broken,
                   setup, helper, registered, withdrawals, userSteps, kills>>

(* It then removes the service and creates it again.  A service that still   *)
(* runs is only marked for removal, and cannot be created until it is gone.  *)
(* At last it starts the session helper.                                     *)
SetupRestarts ==
    /\ script = "copied"
    /\ script' = "none"
    /\ \/ ~Alive /\ Started /\ registered' = TRUE
       \/ /\ Alive
          /\ restartAsked' = TRUE /\ registered' = FALSE
          /\ UNCHANGED <<taskVars, home, running, replaced, auto, innerVars>>
    /\ helper' \in (IF Desktop THEN BOOLEAN ELSE {helper})
    /\ UNCHANGED <<githubVars, fileVars, setup, boundVars>>

(* Log-on and log-off. *)
HelperComesOrGoes ==
    /\ Windows /\ Desktop
    /\ helper' = ~helper
    /\ UNCHANGED <<taskVars, processVars, auto, innerVars, githubVars, fileVars,
                   script, setup, registered, boundVars>>

-----------------------------------------------------------------------------
(* The world. *)

Release ==
    /\ \E v \in Versions :
          v > latest /\ latest' = v
    /\ assets' \in {Assets, {}}
    /\ UNCHANGED <<taskVars, processVars, auto, innerVars, fileVars, windowsVars,
                   boundVars>>

AssetsUploaded ==
    /\ assets # Assets /\ assets' = Assets
    /\ UNCHANGED <<taskVars, processVars, auto, innerVars, latest, fileVars,
                   windowsVars, boundVars>>

Withdraw ==
    /\ withdrawals < MaxWithdrawals
    /\ withdrawals' = withdrawals + 1
    /\ \E v \in Versions : v < latest /\ latest' = v
    /\ assets' = Assets
    /\ UNCHANGED <<taskVars, processVars, auto, innerVars, fileVars, windowsVars,
                   userSteps, kills, early>>

(* The user installs a version of the package, 0 removes it. *)
UserInstalls ==
    /\ ~Windows /\ userSteps < MaxUserSteps
    /\ userSteps' = userSteps + 1
    /\ \E v \in 0..latest : disk' = [disk EXCEPT !["package"] = v]
    /\ replaced' = (replaced \/ home = "package")
    /\ UNCHANGED <<taskVars, home, running, restartAsked, auto, innerVars,
                   githubVars, broken, windowsVars, withdrawals, kills, early>>

-----------------------------------------------------------------------------
AgentStep ==
    \/ Tick \/ CheckNow \/ FetchFails \/ Decide \/ Download \/ ApplyFails
    \/ Install \/ Stop
WindowsStep == SetupCopies \/ SetupRestarts \/ HelperComesOrGoes
WorldStep ==
    \/ ApplyPressed \/ SetAuto \/ IntervalElapses \/ Kill \/ Start
    \/ Release \/ AssetsUploaded \/ Withdraw \/ UserInstalls

Next == AgentStep \/ WindowsStep \/ WorldStep

Spec == Init /\ [][Next]_vars

(* The main loop goes on; a download or an installation that does not        *)
(* succeed fails (30 seconds for the first, a password prompt that is        *)
(* dismissed for the second), and now and then GitHub answers and they       *)
(* succeed; a supervised agent is started again, and the script runs.        *)
Fairness ==
    /\ WF_vars(Tick) /\ SF_vars(CheckNow) /\ WF_vars(Decide)
    /\ WF_vars(Download \/ Install \/ ApplyFails)
    /\ SF_vars(Download) /\ SF_vars(Install) /\ SF_vars(Stop)
    /\ WF_vars(IntervalElapses)
    /\ WF_vars(Supervised /\ ~Windows /\ Start)
    /\ SF_vars(SetupCopies) /\ WF_vars(SetupRestarts)

FairSpec == Spec /\ Fairness

-----------------------------------------------------------------------------
(* Properties. *)

(* The variables have their types; in particular only one operation works,   *)
(* and `applying' is set exactly while a release is downloaded or installed. *)
TypeOK ==
    /\ at \in {"loop", "checking", "deciding", "downloading", "installing",
               "down", "exited"}
    /\ by \in {"tick", "button"}
    /\ home \in StartPlaces /\ running \in Versions
    /\ replaced \in BOOLEAN /\ restartAsked \in BOOLEAN /\ auto \in BOOLEAN
    /\ due \in BOOLEAN /\ error \in BOOLEAN /\ applying \in BOOLEAN
    /\ available \in Updates \cup {NoUpdate} /\ update \in Updates \cup {NoUpdate}
    /\ applied \in 0..MaxVersion
    /\ Alive => (applying <=> at \in {"downloading", "installing"})
    /\ at \in {"downloading", "installing"} => update \in Updates
    /\ latest \in Versions /\ assets \in SUBSET Assets
    /\ disk \in [Places -> 0..MaxVersion] /\ broken \in SUBSET Places
    /\ script \in {"none", "scheduled", "copied"} /\ setup \in 0..MaxVersion
    /\ script = "scheduled" => setup # 0
    /\ helper \in BOOLEAN /\ registered \in BOOLEAN
    /\ withdrawals \in 0..MaxWithdrawals /\ userSteps \in 0..MaxUserSteps
    /\ kills \in 0..MaxKills /\ early \in 0..MaxEarly

(* A step of the agent or of its update script never puts an older version   *)
(* where the agent is started from, over releases and withdrawals, checks    *)
(* that fail and keep an earlier release, restarts, kills and setups that    *)
(* run late: check_now compares with CARGO_PKG_VERSION, and that is the      *)
(* version of the file as long as it was not replaced since the process      *)
(* started.  Nothing compares with the file: after the user installed        *)
(* another package, or an update whose restart did not come, an older        *)
(* release may go over the newer file, and `replaced' excepts that.          *)
NeverGoesBack ==
    [][disk'[home] < disk[home] => replaced \/ userSteps' # userSteps]_vars

(* As long as no release is withdrawn, a process installs a version on its   *)
(* own at most once, and never an older one after a newer one, although it   *)
(* keeps ticking when the restart does not come (tick compares               *)
(* applied_version with what is available).                                  *)
InstalledOnce ==
    [][Install /\ by = "tick" /\ withdrawals = 0 => update.version > applied]_vars

(* With automatic updates on, an agent that is restarted after an            *)
(* installation ends up as the latest release and stays there, however often *)
(* checks, downloads and installations failed before: it installs where it   *)
(* is started from (linux_binary_dest, restart_agent, the update script).    *)
(* On Windows nobody may be logged on, the script must not have found the    *)
(* service running, which unregisters it, and a service that was killed      *)
(* waits for the next boot.                                                  *)
UpdateSettles ==
    LET Undisturbed == /\ auto /\ assets = Assets /\ withdrawals = 0
                       /\ Windows => registered /\ ~helper /\ kills = 0
    IN  <>[]Undisturbed => <>[](running = latest)

(* What Home Assistant is shown as available ends up to be the latest        *)
(* release when that is newer than the agent, and nothing otherwise: an      *)
(* offer does not outlive the release (check_now, publish_state).  A setup   *)
(* that finds a session helper makes the agent restart for ever.             *)
OfferRefreshed ==
    <>[](assets = Assets /\ ~helper) =>
        <>[](Alive => available.version = IF latest > running THEN latest ELSE 0)

(* The scheduled setup finds the program unlocked and replaces it            *)
(* (update/apply.rs:109).                                                    *)
SetupReplaces == [][SetupCopies => disk'[home] = setup]_vars
=============================================================================
