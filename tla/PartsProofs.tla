---------------------------- MODULE PartsProofs ----------------------------
(* The parts that `parts` follows one at a time.  The files of a release:    *)
(* what is installed is what was signed.  The Linux session: a lock reaches  *)
(* the user's screen and holds there, whoever was asked, and is shown.  And  *)
(* the parts together: the specification that is checked is that of each of  *)
(* them, so that what is proved of one holds of it.                          *)
EXTENDS MCParts, SamplerProofs, PublishProofs

-----------------------------------------------------------------------------
(* The files of a release (ReleaseFiles)                                    *)

\* The kind of the asset is that of the installation, unless that changed since.
FoundHere == \A offer \in found : moved \/ offer.kind = place

ReleaseInv == ReleaseTypeOK /\ FoundHere /\ InstalledWhole

\* At the start nothing was found, downloaded or installed.
LEMMA ReleaseInitInv == ReleaseInit => ReleaseInv
  <1> SUFFICES ASSUME ReleaseInit PROVE ReleaseInv
    OBVIOUS
  <1>1. NoFiles \in [Files -> 0..MaxBuilds] /\ 1 \in 1..MaxBuilds
    BY ReleaseBoundAssumption DEF NoFiles, Absent
  <1>2. ReleaseTypeOK
    <2>1. /\ build \in 1..MaxBuilds /\ moves \in 0..MaxMoves /\ stage \in Stages
          /\ host \in [Files -> 0..MaxBuilds] /\ got \in [Files -> 0..MaxBuilds]
      BY <1>1, ReleaseBoundAssumption DEF ReleaseInit, Stages
    <2> QED
      BY <2>1 DEF ReleaseInit, ReleaseTypeOK
  <1>3. FoundHere /\ InstalledWhole
    BY DEF ReleaseInit, FoundHere, InstalledWhole
  <1> QED
    BY <1>2, <1>3 DEF ReleaseInv

\* Every step keeps the invariant; what is installed is what was verified.
LEMMA ReleaseNextInv == ReleaseInv /\ [ReleaseNext]_releaseVars => ReleaseInv'
  <1> SUFFICES ASSUME ReleaseInv, [ReleaseNext]_releaseVars PROVE ReleaseInv'
    OBVIOUS
  <1> USE DEF ReleaseInv
  <1>1. CASE UNCHANGED releaseVars
    BY <1>1 DEF releaseVars, ReleaseTypeOK, FoundHere, InstalledWhole
  <1>2. CASE FindRelease
    <2>1. /\ found' \in SUBSET [kind : Kinds, listed : SUBSET (Files \ Kinds)]
          /\ \A u, v \in found' : u = v
      <3> DEFINE listed == {f \in Files \ Kinds : host[f] # Absent}
      <3>1. listed \in SUBSET (Files \ Kinds) /\ place \in Kinds
        BY DEF ReleaseTypeOK
      <3>2. found' = {} \/ found' = {[kind |-> place, listed |-> listed]}
        BY <1>2 DEF FindRelease
      <3> HIDE DEF listed
      <3> QED
        BY <3>1, <3>2
    <2>3. ReleaseTypeOK'
      BY <1>2, <2>1 DEF FindRelease, ReleaseTypeOK
    <2>2. FoundHere' /\ InstalledWhole'
      BY <1>2 DEF FindRelease, FoundHere, InstalledWhole
    <2> QED
      BY <2>2, <2>3
  <1>3. CASE BeginApply
    <2>1. NoFiles \in [Files -> 0..MaxBuilds]
      BY ReleaseBoundAssumption DEF NoFiles, Absent
    <2>2. ReleaseTypeOK'
      BY <1>3, <2>1 DEF BeginApply, ReleaseTypeOK, Stages
    <2>3. FoundHere' /\ InstalledWhole'
      BY <1>3 DEF BeginApply, FoundHere, InstalledWhole
    <2> QED
      BY <2>2, <2>3
  <1>4. CASE DownloadNext
    <2>1. UNCHANGED <<host, build, place, moves, found, program, moved>>
      BY <1>4 DEF DownloadNext
    <2>2. got' \in [Files -> 0..MaxBuilds] /\ stage' \in Stages /\ found # {}
      <3>1. stage \in Stages \ {"idle", "verify"}
        BY <1>4 DEF DownloadNext, ReleaseTypeOK
      <3>2. After(stage) \in Stages
        BY <3>1 DEF After, Stages
      <3> QED
        BY <1>4, <3>2 DEF DownloadNext, ReleaseTypeOK, Stages
    <2>3. ReleaseTypeOK'
      BY <2>1, <2>2 DEF ReleaseTypeOK
    <2>4. FoundHere' /\ InstalledWhole'
      BY <2>1 DEF FoundHere, InstalledWhole
    <2> QED
      BY <2>3, <2>4
  <1>5. CASE VerifyAndInstall
    <2>1. /\ UNCHANGED <<host, build, place, moves, found, got, moved>> /\ stage' = "idle"
      BY <1>5 DEF VerifyAndInstall
    <2>2. ASSUME NEW p \in program'
          PROVE  /\ p \in [kind : Kinds, build : 1..MaxBuilds, signed : 1..MaxBuilds,
                           onto : Kinds]
                 /\ p.build = p.signed /\ (moved \/ p.kind = p.onto)
      <3>1. CASE p \in program
        BY <3>1 DEF ReleaseTypeOK, InstalledWhole
      <3>2. CASE p \notin program
        <4>1. PICK offer \in found :
                /\ VerifyAsset(offer.kind)
                /\ p = [kind |-> offer.kind, build |-> got[offer.kind],
                        signed |-> got["SHA256SUMS.sig"], onto |-> place]
          BY <1>5, <3>2 DEF VerifyAndInstall
        <4>2. /\ offer.kind \in Kinds /\ place \in Kinds
              /\ got["SHA256SUMS.sig"] \in 0..MaxBuilds
          BY DEF ReleaseTypeOK, Files
        <4>3. /\ got[offer.kind] = got["SHA256SUMS.sig"]
              /\ got["SHA256SUMS.sig"] # 0
          BY <4>1 DEF VerifyAsset, Absent
        <4>4. got["SHA256SUMS.sig"] \in 1..MaxBuilds
          BY <4>2, <4>3, ReleaseBoundAssumption
        <4>5. moved \/ offer.kind = place
          BY DEF FoundHere
        <4> QED
          BY <4>1, <4>2, <4>3, <4>4, <4>5
      <3> QED
        BY <3>1, <3>2
    <2>3. ReleaseTypeOK'
      BY <2>1, <2>2 DEF ReleaseTypeOK, Stages
    <2>4. FoundHere' /\ InstalledWhole'
      BY <2>1, <2>2 DEF FoundHere, InstalledWhole
    <2> QED
      BY <2>3, <2>4
  <1>6. ASSUME NEW f \in Files, PutUp(f) PROVE ReleaseInv'
    <2>1. host' \in [Files -> 0..MaxBuilds]
      BY <1>6, ReleaseBoundAssumption DEF PutUp, ReleaseTypeOK, Absent
    <2>2. ReleaseTypeOK'
      BY <1>6, <2>1 DEF PutUp, ReleaseTypeOK
    <2>3. FoundHere' /\ InstalledWhole'
      BY <1>6 DEF PutUp, FoundHere, InstalledWhole
    <2> QED
      BY <2>2, <2>3
  <1>7. CASE Rebuild
    <2>1. ReleaseTypeOK'
      BY <1>7, ReleaseBoundAssumption DEF Rebuild, ReleaseTypeOK
    <2>2. FoundHere' /\ InstalledWhole'
      BY <1>7 DEF Rebuild, FoundHere, InstalledWhole
    <2> QED
      BY <2>1, <2>2
  <1>8. CASE ChangePlace
    <2>1. ReleaseTypeOK'
      BY <1>8, ReleaseBoundAssumption DEF ChangePlace, ReleaseTypeOK
    <2>2. FoundHere' /\ InstalledWhole'
      BY <1>8 DEF ChangePlace, FoundHere, InstalledWhole
    <2> QED
      BY <2>1, <2>2
  <1> QED
    BY <1>1, <1>2, <1>3, <1>4, <1>5, <1>6, <1>7, <1>8 DEF ReleaseNext

\* In whatever order files are put up, replaced and downloaded, and whatever the user
\* does meanwhile, what the agent installs has the signed sums (apply_downloaded and
\* verify_asset), and is of the kind of the installation it replaces while that stays
\* what it was.
THEOREM InstallsWhole == ReleaseSpec => []InstalledWhole
  <1>1. ReleaseInv => InstalledWhole
    BY DEF ReleaseInv
  <1> QED
    BY ReleaseInitInv, ReleaseNextInv, <1>1, PTL DEF ReleaseSpec

\* The types hold, and files are downloaded of a release that was found.
THEOREM ReleaseTypeCorrect == ReleaseSpec => []ReleaseTypeOK
  <1>1. ReleaseInv => ReleaseTypeOK
    BY DEF ReleaseInv
  <1> QED
    BY ReleaseInitInv, ReleaseNextInv, <1>1, PTL DEF ReleaseSpec

-----------------------------------------------------------------------------
(* The session (LinuxSession)                                               *)

USE SessionAssumption, ShellAssumption

SessionInv == SessionTypeOK /\ LockHolds

\* When the desktop is the only session with a seat, it is the one that is chosen.
LEMMA ScreenIsChosen ==
  ASSUME OneSeat PROVE GraphicalSessions = {Screen} /\ Screen \in alive
  <1> DEFINE seated == {s \in Mine : SessionFacts[s].seat}
  <1>1. seated = {Screen}
    BY DEF OneSeat
  <1>2. Screen \in alive
    BY <1>1 DEF Mine
  <1>3. seated # {}
    BY <1>1
  <1>4. GraphicalSessions = seated
    BY <1>3 DEF GraphicalSessions
  <1> QED
    BY <1>1, <1>2, <1>4

\* At the start nothing is locked or claimed.
LEMMA SessionInitInv == SessionInit => SessionInv
  <1> SUFFICES ASSUME SessionInit PROVE SessionInv
    OBVIOUS
  <1>1. NoReport \in [locked : Known, user_active : Known]
    BY DEF NoReport, Known
  <1>2. services \subseteq {"shell", "saver"}
    BY DEF SessionInit
  <1> QED
    BY <1>1, <1>2 DEF SessionInit, SessionInv, SessionTypeOK, LockHolds

\* The lock button.
LEMMA LockKeeps ==
  ASSUME SessionInv, LockScreen
  PROVE  SessionInv'
  <1>1. /\ report' = NoReport
        /\ UNCHANGED <<alive, services, input, hint, since, conns>>
    BY DEF LockScreen
  <1>2. NoReport \in [locked : Known, user_active : Known]
    BY DEF NoReport, Known
  <1>3. /\ locked' \subseteq alive /\ claimed' \in BOOLEAN
        /\ claimed' => Screen \in locked'
    <2>1. CASE LockByDesktop
      <3>1. Screen \in alive
        BY <2>1 DEF LockByDesktop, Answers, SessionInv, SessionTypeOK
      <3> QED
        BY <2>1, <3>1 DEF LockByDesktop, OneSeat, SessionInv, SessionTypeOK
    <2>2. CASE LockByLogind
      <3>1. PICK s \in GraphicalSessions \cap alive :
                /\ locked' = locked \cup ({s} \cap {t \in Sessions : SessionFacts[t].seat})
                /\ claimed' = OneSeat
        BY <2>2 DEF LockByLogind
      <3>2. locked' \subseteq alive
        BY <3>1 DEF SessionInv, SessionTypeOK
      <3>3. claimed' \in BOOLEAN
        BY <3>1 DEF OneSeat
      <3>4. ASSUME OneSeat PROVE Screen \in locked'
        <4>1. s = Screen
          BY <3>1, <3>4, ScreenIsChosen
        <4>2. Screen \in Sessions /\ SessionFacts[Screen].seat
          OBVIOUS
        <4> QED
          BY <3>1, <4>1, <4>2
      <3> QED
        BY <3>1, <3>2, <3>3, <3>4
    <2> QED
      BY <2>1, <2>2 DEF LockScreen
  <1> QED
    BY <1>1, <1>2, <1>3 DEF SessionInv, SessionTypeOK, LockHolds

\* A tick collects and changes nothing else.
LEMMA CollectKeeps ==
  ASSUME SessionInv, Collect
  PROVE  SessionInv'
  <1>1. UNCHANGED <<alive, services, locked, input, hint, since,
                    conns, claimed>>
    BY DEF Collect, machineVars
  <1>2. report' \in [locked : Known, user_active : Known]
    BY DEF Collect
  <1> QED
    BY <1>1, <1>2 DEF SessionInv, SessionTypeOK, LockHolds

\* Every step keeps the invariant; whoever unlocks the screen undoes the claim.
LEMMA SessionNextInv == SessionInv /\ [SessionNext]_sessionVars => SessionInv'
  <1> SUFFICES ASSUME SessionInv, [SessionNext]_sessionVars PROVE SessionInv'
    OBVIOUS
  <1>1. NoReport \in [locked : Known, user_active : Known]
    BY DEF NoReport, Known
  <1> USE DEF SessionInv, SessionTypeOK, LockHolds
  <1>2. CASE UNCHANGED sessionVars
    BY <1>2 DEF sessionVars, machineVars, agentVars
  <1>4. ASSUME NEW s \in Sessions, Login(s) PROVE SessionInv'
    BY <1>1, <1>4 DEF Login
  <1>5. ASSUME NEW s \in Sessions, Logout(s) PROVE SessionInv'
    BY <1>1, <1>5 DEF Logout
  <1>6. ASSUME NEW s \in Sessions, LockedByUser(s) PROVE SessionInv'
    BY <1>1, <1>6 DEF LockedByUser
  <1>8. CASE ChangeServices
    BY <1>1, <1>8 DEF ChangeServices
  <1>9. CASE Idle
    BY <1>1, <1>9 DEF Idle
  <1>10. CASE RestartAgent
    BY <1>1, <1>10 DEF RestartAgent, machineVars
  <1> QED
    BY <1>2, <1>4, <1>5, <1>6, <1>8, <1>9, <1>10, LockKeeps, CollectKeeps
       DEF SessionNext

\* The types hold, and what is locked is alive.
THEOREM SessionTypeCorrect == SessionSpec => []SessionTypeOK
  <1>1. SessionInv => SessionTypeOK
    BY DEF SessionInv
  <1> QED
    BY SessionInitInv, SessionNextInv, <1>1, PTL DEF SessionSpec

\* A lock that the agent says succeeded is on the user's screen until the user unlocks
\* it, for any sessions, services and choices of logind (lock_screen).
THEOREM LocksHold == SessionSpec => []LockHolds
  <1>1. SessionInv => LockHolds
    BY DEF SessionInv
  <1> QED
    BY SessionInitInv, SessionNextInv, <1>1, PTL DEF SessionSpec

\* Only a tick reports.
LEMMA OnlyTicksReport ==
  ASSUME SessionNext, ~Collect
  PROVE  report' = NoReport
  BY DEF SessionNext, LockScreen, Login, Logout, LockedByUser, ChangeServices, Idle,
         RestartAgent

\* What is shown of the lock is that of the screen, whoever reports it
\* (collect_locked), while the desktop is the only session with a seat.
THEOREM LockIsShown == SessionSpec => LockedShown
  <1>1. [SessionNext]_sessionVars
          => [OneSeat /\ report'.locked # "unavailable" =>
                 report'.locked = OnIf(Screen \in locked')]_sessionVars
    <2> SUFFICES ASSUME SessionNext, OneSeat, report'.locked # "unavailable"
                 PROVE  report'.locked = OnIf(Screen \in locked')
      OBVIOUS
    <2>1. Collect
      BY OnlyTicksReport DEF NoReport
    <2>2. locked' = locked
      BY <2>1 DEF Collect, machineVars
    <2>3. ReportsLocked(report'.locked)
      BY <2>1 DEF Collect
    <2>4. report'.locked = OnIf(Screen \in locked)
      BY <2>3, ScreenIsChosen DEF ReportsLocked
    <2> QED
      BY <2>2, <2>4
  <1> QED
    BY <1>1, PTL DEF SessionSpec, LockedShown

-----------------------------------------------------------------------------
(* The parts together (MCParts)                                             *)

\* One part begins in any of its states, the others in one of theirs.
LEMMA PartsInit ==
    Init => /\ LanInit /\ RaplInit /\ CpuInit /\ SupplyInit /\ SessionInit /\ ReportInit
            /\ PublishInit /\ ReleaseInit
BY DEF Init

\* A step of one part leaves the variables of the others alone.
LEMMA PartsNext ==
    [Next]_<<lanVars, raplVars, cpuVars, supplyVars, sessionVars, reportVars, publishVars,
             releaseVars, followed>>
        => /\ [LanNext]_lanVars /\ [RaplNext]_raplVars /\ [CpuNext]_cpuVars
           /\ [SupplyNext]_supplyVars /\ [SessionNext]_sessionVars /\ [ReportNext]_reportVars
           /\ [PublishNext]_publishVars /\ [ReleaseNext]_releaseVars
BY DEF Next, Others

\* Whatever is followed, each part behaves as its own specification says: its
\* theorems are theorems of the specification that is checked.
THEOREM PartsFollowed ==
    Spec => /\ LanSpec /\ RaplSpec /\ CpuSpec /\ SupplySpec /\ SessionSpec /\ ReportSpec
            /\ PublishSpec /\ ReleaseSpec
BY PartsInit, PartsNext, PTL
   DEF Spec, LanSpec, RaplSpec, CpuSpec, SupplySpec, SessionSpec, ReportSpec, PublishSpec,
       ReleaseSpec

\* The part that is followed has the types its module says, in every state.
THEOREM PartsTyped == Spec => []PartsTypeOK
<1>1. CpuTypeOK /\ SessionTypeOK /\ ReportTypeOK /\ ReleaseTypeOK => PartsTypeOK
    BY DEF PartsTypeOK
<1>. QED
    BY <1>1, PartsFollowed, CpuTypeCorrect, SessionTypeCorrect, ReportsTyped,
       ReleaseTypeCorrect, PTL
=============================================================================
