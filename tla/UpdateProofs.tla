---------------------------- MODULE UpdateProofs ----------------------------
(***************************************************************************)
(* Type correctness of UpdateController, and what it installs: never what  *)
(* is older than the file it replaces, and on its own no version twice.    *)
(***************************************************************************)
EXTENDS UpdateController, TLAPS

USE PlatformAssumption, BoundAssumption

(* The initial state has the right types. *)
LEMMA TypeInit == Init => TypeOK
<1> SUFFICES ASSUME Init PROVE TypeOK
    OBVIOUS
<1>1. 1 \in Versions /\ 0 \in 0..MaxVersion /\ 1 \in 0..MaxVersion
    BY DEF Versions
<1>2. disk \in [Places -> 0..MaxVersion]
    BY <1>1 DEF Init
<1>3. NoUpdate \notin Updates
    BY DEF NoUpdate, Updates, Versions
<1>5. /\ home \in StartPlaces /\ running \in Versions /\ auto \in BOOLEAN
       /\ latest \in Versions /\ applied \in 0..MaxVersion /\ setup \in 0..MaxVersion
    BY <1>1 DEF Init
<1>4. /\ withdrawals \in 0..MaxWithdrawals /\ userSteps \in 0..MaxUserSteps
      /\ kills \in 0..MaxKills /\ early \in 0..MaxEarly
    BY DEF Init
<1>. QED
    BY <1>2, <1>3, <1>5, <1>4, Zenon DEF Init, TypeOK, Alive

(* A step preserves the types, one step per action. *)
LEMMA TypeNext == TypeOK /\ [Next]_vars => TypeOK'
<1> SUFFICES ASSUME TypeOK, [Next]_vars PROVE TypeOK'
    OBVIOUS
<1> USE DEF Versions, NoUpdate, Alive, taskVars, processVars, innerVars,
            githubVars, fileVars, windowsVars, boundVars
<1>kind. Versions \subseteq 0..MaxVersion /\ 1 \in Versions
    OBVIOUS
<1>rec. \A u \in Updates : u.version \in Versions /\ u.asset \in Assets
    BY DEF Updates
<1>start. Started => running' \in Versions
    <2>1. home \in Places
        BY DEF TypeOK
    <2>. QED
        BY <2>1 DEF Started, TypeOK
<1>fresh. Started => /\ at' = "loop" /\ by' = "tick" /\ home' = home
                     /\ replaced' \in BOOLEAN /\ restartAsked' \in BOOLEAN
                     /\ auto' \in BOOLEAN /\ due' \in BOOLEAN
                     /\ error' \in BOOLEAN /\ applying' = FALSE
                     /\ available' = NoUpdate /\ update' = NoUpdate
                     /\ applied' \in 0..MaxVersion
    <2>1. 0 \in 0..MaxVersion /\ AutoDefault \in BOOLEAN
        OBVIOUS
    <2>. QED
        BY <2>1, Zenon DEF Started
<1>1. CASE Tick
    BY <1>1 DEF Tick, TypeOK
<1>2. CASE CheckNow
    <2>1. InstallKind \in Assets
        BY DEF InstallKind, Assets
    <2>2. available' \in Updates \cup {NoUpdate}
        BY <1>2, <2>1 DEF CheckNow, TypeOK, Updates
    <2>3. at' \in {"deciding", "loop"} /\ error' \in BOOLEAN
        BY <1>2, Zenon DEF CheckNow, AfterFailedCheck
    <2>4. ~applying
        BY <1>2 DEF CheckNow, TypeOK
    <2>. QED
        BY <1>2, <2>2, <2>3, <2>4 DEF CheckNow, TypeOK
<1>3. CASE FetchFails
    <2>1. error' \in BOOLEAN /\ due' \in BOOLEAN /\ at' \in {"deciding", "loop"}
        BY <1>3, Zenon DEF FetchFails, AfterFailedCheck
    <2>. QED
        BY <1>3, <2>1 DEF FetchFails, TypeOK
<1>4. CASE Decide
    <2>1. CASE ShouldApply
        <3>1. update' \in Updates
            BY <1>4, <2>1 DEF Decide, ShouldApply, TypeOK
        <3>. QED
            BY <1>4, <2>1, <3>1 DEF Decide, TypeOK
    <2>2. CASE ~ShouldApply
        BY <1>4, <2>2 DEF Decide, TypeOK
    <2>. QED
        BY <2>1, <2>2
<1>5. CASE Download
    BY <1>5 DEF Download, TypeOK
<1>6. CASE ApplyFails
    <2>1. at' = "loop" /\ applying' = FALSE /\ error' \in BOOLEAN
        BY <1>6 DEF ApplyFails
    <2>2. UNCHANGED <<by, processVars, auto, due, available, applied, update,
                      githubVars, fileVars, windowsVars, boundVars>>
        BY <1>6 DEF ApplyFails
    <2>3. /\ Alive' => (applying' <=> at' \in {"downloading", "installing"})
          /\ at' \in {"downloading", "installing"} => update' \in Updates
        BY <2>1
    <2>4. /\ disk' \in [Places -> 0..MaxVersion] /\ broken' \in SUBSET Places
          /\ available' \in Updates \cup {NoUpdate}
          /\ update' \in Updates \cup {NoUpdate}
        BY <2>2 DEF TypeOK
    <2>. QED
        BY <2>1, <2>2, <2>3, <2>4, Zenon DEF TypeOK
<1>7. CASE Install
    <2>1. update \in Updates /\ update.version \in Versions
        BY <1>7, <1>rec DEF Install, TypeOK
    <2>2. BinaryDest \in Places
        BY DEF BinaryDest, Places, TypeOK
    <2>3. at' \in {"loop", "exited"} /\ restartAsked' \in BOOLEAN
        BY <1>7 DEF Install, RestartAgent, TypeOK
    <2>4. /\ disk' \in [Places -> 0..MaxVersion]
          /\ broken' \in SUBSET Places
          /\ replaced' \in BOOLEAN
          /\ script' \in {"none", "scheduled", "copied"}
          /\ setup' \in 0..MaxVersion
          /\ script' = "scheduled" => setup' # 0
          /\ UNCHANGED <<helper, registered>>
        <3>1. CASE InstallDeb
            <4>1. replaced' \in BOOLEAN
                BY <3>1, Zenon DEF InstallDeb
            <4>2. disk' \in [Places -> 0..MaxVersion]
                BY <3>1, <2>1, <1>kind DEF InstallDeb, TypeOK, Places
            <4>. QED
                BY <3>1, <4>1, <4>2 DEF InstallDeb, TypeOK
        <3>2. CASE InstallBinary
            <4>1. replaced' \in BOOLEAN
                BY <3>2, Zenon DEF InstallBinary
            <4>. QED
                BY <3>2, <2>1, <2>2, <4>1 DEF InstallBinary, TypeOK
        <3>3. CASE ScheduleSetup
            BY <3>3, <2>1 DEF ScheduleSetup, TypeOK
        <3>. QED
            BY <1>7, <3>1, <3>2, <3>3 DEF Install
    <2>. QED
        <3>1. applied' \in 0..MaxVersion /\ applying' = FALSE
            BY <1>7, <2>1, <1>kind DEF Install
        <3>. QED
            BY <1>7, <2>1, <2>3, <2>4, <3>1 DEF Install, TypeOK
<1>8. CASE Stop
    BY <1>8 DEF Stop, Ended, TypeOK
<1>9. CASE SetupCopies
    <2>1. disk' \in [Places -> 0..MaxVersion]
        BY <1>9 DEF SetupCopies, TypeOK
    <2>. QED
        BY <1>9, <2>1 DEF SetupCopies, TypeOK
<1>10. CASE SetupRestarts
    <2>1. helper' \in BOOLEAN
        BY <1>10 DEF SetupRestarts, TypeOK
    <2>2. CASE ~Alive /\ Started /\ registered' = TRUE
        BY <1>10, <2>1, <2>2, <1>start, <1>fresh DEF SetupRestarts, TypeOK
    <2>3. CASE /\ Alive
               /\ restartAsked' = TRUE /\ registered' = FALSE
               /\ UNCHANGED <<taskVars, home, running, replaced, auto, innerVars>>
        BY <1>10, <2>1, <2>3 DEF SetupRestarts, TypeOK
    <2>. QED
        BY <1>10, <2>2, <2>3, Zenon DEF SetupRestarts
<1>11. CASE HelperComesOrGoes
    <2>1. helper' \in BOOLEAN
        BY <1>11, Zenon DEF HelperComesOrGoes
    <2>. QED
        BY <1>11, <2>1 DEF HelperComesOrGoes, TypeOK
<1>12. CASE ApplyPressed
    BY <1>12 DEF ApplyPressed, TypeOK
<1>13. CASE SetAuto
    BY <1>13 DEF SetAuto, TypeOK
<1>14. CASE IntervalElapses
    BY <1>14 DEF IntervalElapses, TypeOK
<1>15. CASE Kill
    BY <1>15 DEF Kill, Ended, TypeOK
<1>16. CASE Start
    BY <1>16, <1>start, <1>fresh DEF Start, TypeOK
<1>17. CASE Release
    BY <1>17 DEF Release, TypeOK
<1>18. CASE AssetsUploaded
    BY <1>18 DEF AssetsUploaded, TypeOK
<1>19. CASE Withdraw
    BY <1>19 DEF Withdraw, TypeOK
<1>20. CASE UserInstalls
    <2>1. replaced' \in BOOLEAN
        BY <1>20, Zenon DEF UserInstalls
    <2>2. disk' \in [Places -> 0..MaxVersion]
        <3>1. PICK v \in 0..latest : disk' = [disk EXCEPT !["package"] = v]
            BY <1>20 DEF UserInstalls
        <3>2. v \in 0..MaxVersion
            BY DEF TypeOK
        <3>. QED
            BY <3>1, <3>2 DEF TypeOK
    <2>. QED
        BY <1>20, <2>1, <2>2 DEF UserInstalls, TypeOK
<1>21. CASE UNCHANGED vars
    BY <1>21 DEF vars, TypeOK
<1>. QED
    BY <1>1, <1>2, <1>3, <1>4, <1>5, <1>6, <1>7, <1>8, <1>9, <1>10, <1>11,
       <1>12, <1>13, <1>14, <1>15, <1>16, <1>17, <1>18, <1>19, <1>20, <1>21
       DEF Next, AgentStep, WindowsStep, WorldStep

(* The types hold in every reachable state. *)
THEOREM TypeCorrect == Spec => []TypeOK
BY TypeInit, TypeNext, PTL DEF Spec

-----------------------------------------------------------------------------
(* The release at hand, if any, is newer than the agent.  It is kept over     *)
(* checks that fail; what makes this inductive is that the version of a       *)
(* process never changes, and a new process knows of no release.              *)
Newer ==
    /\ available # NoUpdate => available.version > running
    /\ at \in {"downloading", "installing"} => update.version > running

(* Every process starts without a release. *)
LEMMA NewerInit == Init => Newer
BY DEF Init, Newer

(* A step keeps the release at hand newer than the agent. *)
LEMMA NewerNext == TypeOK /\ Newer /\ [Next]_vars => Newer'
<1> SUFFICES ASSUME TypeOK, Newer, [Next]_vars PROVE Newer'
    OBVIOUS
<1> USE DEF taskVars, processVars, innerVars
<1>fresh. Started => Newer'
    BY DEF Started, Newer
<1>same. ASSUME UNCHANGED <<running, available, update>>,
                at' \in {"downloading", "installing"} => at \in {"downloading", "installing"}
         PROVE  Newer'
    BY <1>same DEF Newer
<1>1. CASE CheckNow
    <2>1. at' \in {"deciding", "loop"}
        BY <1>1, Zenon DEF CheckNow, AfterFailedCheck
    <2>2. available' # NoUpdate => available'.version = latest /\ latest > running
        BY <1>1 DEF CheckNow
    <2>. QED
        BY <1>1, <2>1, <2>2 DEF CheckNow, Newer
<1>2. CASE Decide
    BY <1>2 DEF Decide, ShouldApply, Newer
<1>3. CASE FetchFails
    BY <1>3 DEF FetchFails, AfterFailedCheck, Newer
<1>4. CASE Install
    <2>1. at' \in {"loop", "exited"}
        BY <1>4 DEF Install, RestartAgent
    <2>. QED
        BY <1>4, <2>1 DEF Install, Newer
<1>5. CASE SetupRestarts
    BY <1>5, <1>fresh, <1>same DEF SetupRestarts
<1>6. CASE Start
    BY <1>6, <1>fresh DEF Start
<1>7. CASE Tick \/ Download \/ ApplyFails \/ Stop
    BY <1>7, <1>same DEF Tick, Download, ApplyFails, Stop, Ended
<1>8. CASE SetupCopies \/ HelperComesOrGoes
    BY <1>8, <1>same DEF SetupCopies, HelperComesOrGoes
<1>9. CASE ApplyPressed \/ SetAuto \/ IntervalElapses \/ Kill
    BY <1>9, <1>same DEF ApplyPressed, SetAuto, IntervalElapses, Kill, Ended
<1>10. CASE Release \/ AssetsUploaded \/ Withdraw \/ UserInstalls
    BY <1>10, <1>same DEF Release, AssetsUploaded, Withdraw, UserInstalls
<1>11. CASE UNCHANGED vars
    BY <1>11, <1>same DEF vars
<1>. QED
    BY <1>1, <1>2, <1>3, <1>4, <1>5, <1>6, <1>7, <1>8, <1>9, <1>10, <1>11
       DEF Next, AgentStep, WindowsStep, WorldStep

(* The file the agent is started from is the version it runs, unless it was  *)
(* replaced since, or the setup has just copied the program of an agent that *)
(* has stopped.  A setup that waits for its turn is newer than that file.    *)
FileOfAgent ==
    /\ replaced => ~Windows
    /\ script # "none" => Windows
    /\ script = "scheduled" => setup > disk[home]
    /\ ~replaced /\ (Alive \/ script # "copied") => disk[home] = running

(* The first agent runs the file it was started from. *)
LEMMA FileInit == Init => FileOfAgent
<1> SUFFICES ASSUME Init PROVE FileOfAgent
    OBVIOUS
<1>1. home \in Places
    BY DEF Init
<1>. QED
    BY <1>1 DEF Init, FileOfAgent

(* A step keeps the file and the version of the agent together. *)
LEMMA FileNext ==
    TypeOK /\ Newer /\ FileOfAgent /\ [Next]_vars => FileOfAgent'
<1> SUFFICES ASSUME TypeOK, Newer, FileOfAgent, [Next]_vars PROVE FileOfAgent'
    OBVIOUS
<1> USE DEF taskVars, processVars, githubVars, fileVars, windowsVars, Windows
<1>type. /\ home \in Places /\ running \in Nat /\ disk[home] \in Nat
         /\ disk \in [Places -> 0..MaxVersion]
    BY DEF TypeOK, Versions
<1>same. ASSUME UNCHANGED <<home, running, replaced, disk, script, setup>>,
                script = "copied" => (Alive' => Alive)
         PROVE  FileOfAgent'
    BY <1>same DEF FileOfAgent
<1>fresh. ASSUME Started, UNCHANGED disk, script' = "none"
          PROVE  FileOfAgent'
    BY <1>fresh DEF Started, FileOfAgent
<1>1. CASE Install
    <2>1. update.version > running /\ Alive
        BY <1>1 DEF Install, Newer, Alive
    <2>2. UNCHANGED <<home, running>>
        BY <1>1 DEF Install
    <2>3. CASE InstallDeb
        <3>1. ~Windows /\ UNCHANGED <<script, setup>>
            BY <2>3 DEF InstallDeb, InstallKind
        <3>2. home # "package" => disk'[home] = disk[home] /\ (replaced' <=> replaced)
            BY <2>3, <1>type DEF InstallDeb
        <3>3. home = "package" => replaced'
            BY <2>3 DEF InstallDeb
        <3>. QED
            BY <2>1, <2>2, <3>1, <3>2, <3>3 DEF FileOfAgent
    <2>4. CASE InstallBinary
        <3>1. ~Windows /\ UNCHANGED <<script, setup>>
            BY <2>4 DEF InstallBinary, InstallKind
        <3>2. home # BinaryDest => disk'[home] = disk[home] /\ (replaced' <=> replaced)
            BY <2>4, <1>type DEF InstallBinary
        <3>3. home = BinaryDest => replaced'
            BY <2>4 DEF InstallBinary
        <3>. QED
            BY <2>1, <2>2, <3>1, <3>2, <3>3 DEF FileOfAgent
    <2>5. CASE ScheduleSetup
        <3>1. Windows /\ script # "copied"
            BY <2>5 DEF ScheduleSetup, InstallKind
        <3>2. setup' = update.version /\ script' = "scheduled"
              /\ UNCHANGED <<disk, replaced>>
            BY <2>5 DEF ScheduleSetup
        <3>3. disk[home] = running /\ ~replaced
            BY <2>1, <3>1 DEF FileOfAgent
        <3>. QED
            BY <2>1, <2>2, <3>1, <3>2, <3>3, <1>type DEF FileOfAgent
    <2>. QED
        BY <1>1, <2>3, <2>4, <2>5 DEF Install
<1>2. CASE SetupCopies
    <2>1. Windows /\ script' = "copied" /\ UNCHANGED <<at, home, running, replaced>>
        BY <1>2 DEF SetupCopies, FileOfAgent
    <2>2. Alive => UNCHANGED disk
        BY <1>2 DEF SetupCopies
    <2>3. Alive' <=> Alive
        BY <2>1 DEF Alive
    <2>. QED
        BY <2>1, <2>2, <2>3 DEF FileOfAgent
<1>3. CASE SetupRestarts
    <2>1. script = "copied" /\ script' = "none" /\ UNCHANGED disk
        BY <1>3 DEF SetupRestarts
    <2>2. CASE Started
        BY <2>1, <2>2, <1>fresh
    <2>3. CASE Alive /\ UNCHANGED <<taskVars, home, running, replaced>>
        BY <2>1, <2>3 DEF FileOfAgent
    <2>. QED
        BY <1>3, <2>2, <2>3 DEF SetupRestarts
<1>4. CASE Start
    BY <1>4, <1>fresh DEF Start
<1>5. CASE UserInstalls
    <2>1. ~Windows /\ UNCHANGED <<at, home, running, script, setup>>
        BY <1>5 DEF UserInstalls
    <2>2. home # "package" => disk'[home] = disk[home] /\ (replaced' <=> replaced)
        BY <1>5, <1>type DEF UserInstalls
    <2>3. home = "package" => replaced'
        BY <1>5 DEF UserInstalls
    <2>. QED
        BY <2>1, <2>2, <2>3 DEF FileOfAgent, Alive
<1>6. CASE Tick \/ CheckNow \/ FetchFails \/ Decide \/ Download \/ ApplyFails
    BY <1>6, <1>same
       DEF Tick, CheckNow, FetchFails, Decide, Download, ApplyFails, Alive
<1>7. CASE Stop \/ Kill
    BY <1>7, <1>same DEF Stop, Kill, Ended, Alive
<1>8. CASE HelperComesOrGoes \/ ApplyPressed \/ SetAuto \/ IntervalElapses
    BY <1>8, <1>same
       DEF HelperComesOrGoes, ApplyPressed, SetAuto, IntervalElapses, Alive
<1>9. CASE Release \/ AssetsUploaded \/ Withdraw
    BY <1>9, <1>same DEF Release, AssetsUploaded, Withdraw, Alive
<1>10. CASE UNCHANGED vars
    BY <1>10, <1>same DEF vars, Alive
<1>. QED
    BY <1>1, <1>2, <1>3, <1>4, <1>5, <1>6, <1>7, <1>8, <1>9, <1>10
       DEF Next, AgentStep, WindowsStep, WorldStep

(* Only the three ways to install, and the user, change a file; the agent's  *)
(* write a version newer than the file they replace.                         *)
LEMMA FilesGrow ==
    TypeOK /\ Newer /\ FileOfAgent /\ [Next]_vars =>
        (disk'[home] < disk[home] => replaced \/ userSteps' # userSteps)
<1> SUFFICES ASSUME TypeOK, Newer, FileOfAgent, [Next]_vars,
                    disk'[home] < disk[home], ~replaced
             PROVE  userSteps' # userSteps
    OBVIOUS
<1>type. /\ home \in Places /\ running \in Nat /\ disk[home] \in Nat
         /\ disk \in [Places -> 0..MaxVersion] /\ userSteps \in Nat
    BY DEF TypeOK, Versions
<1>changed. disk' # disk
    BY <1>type
<1>1. CASE Install
    <2>1. update.version > running /\ update.version \in Nat /\ Alive
        BY <1>1 DEF Install, Newer, Alive, TypeOK, Updates, Versions
    <2>2. disk'[home] \in {disk[home], update.version}
        <3>1. CASE InstallDeb
            BY <3>1, <1>type DEF InstallDeb
        <3>2. CASE InstallBinary
            BY <3>2, <1>type DEF InstallBinary
        <3>3. CASE ScheduleSetup
            BY <3>3 DEF ScheduleSetup, fileVars
        <3>. QED
            BY <1>1, <3>1, <3>2, <3>3 DEF Install
    <2>3. disk[home] = running
        BY <2>1 DEF FileOfAgent
    <2>. QED
        BY <2>1, <2>2, <2>3, <1>type
<1>2. CASE SetupCopies
    <2>1. setup > disk[home] /\ setup \in Nat
        BY <1>2 DEF SetupCopies, FileOfAgent, TypeOK
    <2>2. disk'[home] \in {disk[home], setup}
        BY <1>2, <1>type DEF SetupCopies
    <2>. QED
        BY <2>1, <2>2, <1>type
<1>3. CASE UserInstalls
    BY <1>3, <1>type DEF UserInstalls
<1>4. CASE SetupRestarts \/ HelperComesOrGoes \/ Start \/ Stop \/ Kill
    BY <1>4, <1>changed
       DEF SetupRestarts, HelperComesOrGoes, Start, Stop, Kill, Ended, fileVars
<1>5. CASE Tick \/ CheckNow \/ FetchFails \/ Decide \/ Download \/ ApplyFails
    BY <1>5, <1>changed
       DEF Tick, CheckNow, FetchFails, Decide, Download, ApplyFails, fileVars
<1>6. CASE ApplyPressed \/ SetAuto \/ IntervalElapses
    BY <1>6, <1>changed DEF ApplyPressed, SetAuto, IntervalElapses, fileVars
<1>7. CASE Release \/ AssetsUploaded \/ Withdraw
    BY <1>7, <1>changed DEF Release, AssetsUploaded, Withdraw, fileVars
<1>8. CASE UNCHANGED vars
    BY <1>8, <1>changed DEF vars, fileVars
<1>. QED
    BY <1>1, <1>2, <1>3, <1>4, <1>5, <1>6, <1>7, <1>8
       DEF Next, AgentStep, WindowsStep, WorldStep

(* The agent and its update script never put an older version where the      *)
(* agent is started from, unless that file was replaced while it ran.        *)
THEOREM NoWayBack == Spec => NeverGoesBack
BY FilesGrow, TypeInit, TypeNext, NewerInit, NewerNext, FileInit, FileNext, PTL
   DEF Spec, NeverGoesBack

-----------------------------------------------------------------------------
(* Without withdrawals the latest release is never older than what the       *)
(* process has seen or applied, and the one at hand is not older than the    *)
(* one applied.  Only a tick knows that it is newer.                         *)
Ordered ==
    /\ applied <= latest
    /\ available # NoUpdate => applied <= available.version /\ available.version <= latest
    /\ at \in {"downloading", "installing"} =>
          update = available /\ (by = "tick" => applied < update.version)

Forward == withdrawals = 0 => Ordered

(* A process starts with nothing applied. *)
LEMMA ForwardInit == Init => Forward
BY DEF Init, Forward, Ordered

(* A step keeps the order of versions unless it withdraws a release. *)
LEMMA ForwardNext == TypeOK /\ TypeOK' /\ Forward /\ [Next]_vars => Forward'
<1> SUFFICES ASSUME TypeOK, TypeOK', Forward, [Next]_vars, withdrawals' = 0
             PROVE  Ordered'
    BY DEF Forward
<1> USE DEF taskVars, processVars, innerVars, githubVars
<1> withdrawals = 0 /\ Ordered
    <2>1. withdrawals \in Nat
        BY DEF TypeOK
    <2>2. withdrawals' \in {withdrawals, withdrawals + 1}
        BY DEF Next, AgentStep, WindowsStep, WorldStep, Withdraw, vars, boundVars,
             Tick, CheckNow, FetchFails, Decide, Download, ApplyFails, Install, Stop,
             SetupCopies, SetupRestarts, HelperComesOrGoes, ApplyPressed, SetAuto,
             IntervalElapses, Kill, Start, Release, AssetsUploaded, UserInstalls
    <2>. QED
        BY <2>1, <2>2 DEF Forward
<1>num. /\ latest \in Nat /\ applied \in Nat /\ latest' \in Nat /\ applied' \in Nat
        /\ available # NoUpdate => available.version \in Nat
    BY DEF TypeOK, Versions, Updates
<1>fresh. Started => Ordered'
    BY <1>num DEF Started, Ordered
<1>same. ASSUME UNCHANGED <<by, applied, available, update>>, latest' >= latest,
                at' \in {"downloading", "installing"} => at \in {"downloading", "installing"}
         PROVE  Ordered'
    BY <1>same, <1>num DEF Ordered
<1>1. CASE CheckNow
    <2>1. at' \in {"deciding", "loop"}
        BY <1>1, Zenon DEF CheckNow, AfterFailedCheck
    <2>2. available' # NoUpdate => available'.version = latest
        BY <1>1 DEF CheckNow
    <2>. QED
        BY <1>1, <2>1, <2>2, <1>num DEF CheckNow, Ordered
<1>2. CASE Decide
    <2>1. CASE ShouldApply
        <3>1. by = "tick" => applied < available.version
            BY <2>1, <1>num DEF ShouldApply, Ordered
        <3>. QED
            BY <1>2, <2>1, <3>1 DEF Decide, Ordered
    <2>2. CASE ~ShouldApply
        BY <1>2, <2>2 DEF Decide, Ordered
    <2>. QED
        BY <2>1, <2>2
<1>3. CASE FetchFails
    <2>1. at' \in {"deciding", "loop"}
        BY <1>3 DEF FetchFails, AfterFailedCheck
    <2>. QED
        BY <1>3, <2>1 DEF FetchFails, Ordered
<1>4. CASE Install
    <2>1. at' \in {"loop", "exited"}
        BY <1>4 DEF Install, RestartAgent
    <2>2. available # NoUpdate /\ update = available
        BY <1>4 DEF Install, Ordered, TypeOK, NoUpdate, Updates, Versions
    <2>. QED
        BY <1>4, <2>1, <2>2, <1>num DEF Install, Ordered
<1>5. CASE SetupRestarts
    BY <1>5, <1>fresh, <1>same, <1>num DEF SetupRestarts
<1>6. CASE Start
    BY <1>6, <1>fresh DEF Start
<1>7. CASE Tick \/ ApplyPressed
    BY <1>7, <1>num DEF Tick, ApplyPressed, Ordered
<1>8. CASE Download \/ ApplyFails \/ Stop \/ SetAuto \/ IntervalElapses \/ Kill
    BY <1>8, <1>same, <1>num
       DEF Download, ApplyFails, Stop, SetAuto, IntervalElapses, Kill, Ended
<1>9. CASE SetupCopies \/ HelperComesOrGoes \/ AssetsUploaded \/ UserInstalls
    BY <1>9, <1>same, <1>num
       DEF SetupCopies, HelperComesOrGoes, AssetsUploaded, UserInstalls
<1>10. CASE Release
    <2>1. latest' >= latest
        BY <1>10, <1>num DEF Release, Versions
    <2>. QED
        BY <1>10, <2>1, <1>same DEF Release
<1>11. CASE Withdraw
    BY <1>11 DEF Withdraw, TypeOK
<1>12. CASE UNCHANGED vars
    BY <1>12, <1>same, <1>num DEF vars
<1>. QED
    BY <1>1, <1>2, <1>3, <1>4, <1>5, <1>6, <1>7, <1>8, <1>9, <1>10, <1>11, <1>12
       DEF Next, AgentStep, WindowsStep, WorldStep

(* As long as releases are not withdrawn, a process installs a version on    *)
(* its own at most once and never goes back.                                 *)
THEOREM OnlyOnce == Spec => InstalledOnce
<1>1. TypeOK /\ Forward /\ [Next]_vars =>
        [Install /\ by = "tick" /\ withdrawals = 0 => update.version > applied]_vars
    <2> SUFFICES ASSUME TypeOK, Forward, Install, by = "tick", withdrawals = 0
                 PROVE  update.version > applied
        OBVIOUS
    <2>1. update.version \in Nat /\ applied \in Nat /\ applied < update.version
        BY DEF Install, Forward, Ordered, TypeOK, Updates, Versions
    <2>. QED
        BY <2>1
<1>. QED
    BY <1>1, TypeInit, TypeNext, ForwardInit, ForwardNext, PTL DEF Spec, InstalledOnce
=============================================================================
