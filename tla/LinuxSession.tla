---------------------------- MODULE LinuxSession ----------------------------
(***************************************************************************)
(* The user's session on Linux (collect/linux_session.rs): the lock        *)
(* button, and what a tick collects of the lock and of idleness.  The      *)
(* agent asks whoever answers: the desktop's own services on the session   *)
(* bus first, then logind on the system bus, where it must first find out  *)
(* which of the user's sessions is the one on the screen.  Desktops come   *)
(* and go; each bus is connected to once, at start.                        *)
(*                                                                         *)
(* Caffeine and media players are in ActionRouter.  logind lists sessions  *)
(* in an order that nothing fixes.  Time is told apart only as far as the  *)
(* threshold of idleness.                                                  *)
(***************************************************************************)
EXTENDS FiniteSets

CONSTANTS
    Sessions,    \* sessions logind may know
    Screen,      \* the user's desktop, whose services are on the session bus
    SessionFacts,\* whose each is, whether it has a seat, and its class
    EnvSession,  \* $XDG_SESSION_ID
    Shells       \* the services a desktop may offer

NoSession == "no session"
Classes == {"user", "greeter", "manager"}
ASSUME SessionAssumption ==
    /\ SessionFacts \in [Sessions -> [own : BOOLEAN, seat : BOOLEAN, class : Classes]]
    /\ Screen \in Sessions /\ NoSession \notin Sessions
    /\ SessionFacts[Screen] = [own |-> TRUE, seat |-> TRUE, class |-> "user"]
    /\ EnvSession \in Sessions \cup {NoSession}

\* "shell" is GNOME's, with org.gnome.ScreenSaver and org.gnome.Mutter.IdleMonitor;
\* "saver" is org.freedesktop.ScreenSaver.
ASSUME ShellAssumption == Shells \subseteq SUBSET {"shell", "saver"}

VARIABLES
    (* the machine *)
    alive,      \* the sessions logind lists
    services,   \* the desktop services that answer
    locked,     \* sessions whose screen is locked
    input,      \* the user has been at the machine within idle_threshold_s
    hint,       \* IdleHint of the desktop
    since,      \* its IdleSinceHint, the last change, is within idle_threshold_s
    (* the agent *)
    conns,      \* the buses it could connect to when it started
    report,     \* what the step just taken collected, NoReport if it did not
    claimed     \* a lock was reported to have succeeded, and was not undone

machineVars == <<alive, services, locked, input, hint, since>>
agentVars   == <<conns, report, claimed>>
sessionVars == <<machineVars, agentVars>>

Known == {"on", "off", "unavailable"}
OnIf(truth) == IF truth THEN "on" ELSE "off"
NoReport == [locked |-> "unavailable", user_active |-> "unavailable"]

SessionInit ==
    /\ alive = {Screen} /\ services \in Shells
    /\ locked = {}
    /\ input = TRUE /\ hint = FALSE /\ since = FALSE
    /\ conns \in SUBSET {"system", "session"}
    /\ report = NoReport /\ claimed = FALSE

-----------------------------------------------------------------------------
(* Which session is meant.  A definition named Fault... is a deliberate      *)
(* fault, put in place of the one that follows it to see a property fail.    *)

Mine == {s \in alive : SessionFacts[s].own /\ SessionFacts[s].class # "manager"}

Answers(service) == "session" \in conns /\ service \in services

\* The seat is not looked at.
FaultGraphicalSessions == {s \in Mine : SessionFacts[s].class = "user"}

\* What graphical_session_id may come to: the first session with a seat, else the
\* last of class `user`, else the one of the environment.  Which is first or last
\* is open.
GraphicalSessions ==
    LET seated == {s \in Mine : SessionFacts[s].seat}
        users  == {s \in Mine : SessionFacts[s].class = "user"}
    IN CASE seated # {}                 -> seated
         [] seated = {} /\ users # {}   -> users
         [] OTHER                       -> {EnvSession}

\* There is no doubt which session is on the screen.
OneSeat == {s \in Mine : SessionFacts[s].seat} = {Screen}

-----------------------------------------------------------------------------
(* Commands *)

\* The desktop locks its own screen.
LockByDesktop ==
    /\ Answers("shell") \/ Answers("saver")
    /\ locked' = locked \cup {Screen}
    /\ claimed' = OneSeat

\* logind asks the session to lock itself, which a desktop does; it knows no
\* session that has ended.
LockByLogind ==
    /\ ~Answers("shell") /\ ~Answers("saver")
    /\ "system" \in conns
    /\ \E s \in GraphicalSessions \cap alive :
           /\ locked' = locked \cup ({s} \cap {t \in Sessions : SessionFacts[t].seat})
           /\ claimed' = OneSeat

LockScreen ==
    /\ LockByDesktop \/ LockByLogind
    /\ report' = NoReport
    /\ UNCHANGED <<alive, services, input, hint, since, conns>>

-----------------------------------------------------------------------------
(* A tick *)

ReportsLocked(value) ==
    IF Answers("shell") THEN value = OnIf(Screen \in locked)
    ELSE IF "system" \notin conns THEN value = "unavailable"
    ELSE \E s \in GraphicalSessions :
             value = IF s \in alive THEN OnIf(s \in locked) ELSE "unavailable"

\* GNOME counts from the last input; logind's time is that of the last change of
\* the hint, whichever way it changed, and long ago when there was none.  What
\* logind makes of a session without a desktop is open.
ReportsUserActive(value) ==
    IF Answers("shell") THEN value = OnIf(input)
    ELSE IF "system" \notin conns THEN value = "unavailable"
    ELSE \E s \in GraphicalSessions :
             CASE s \notin alive -> value = "unavailable"
               [] s = Screen     -> value = OnIf(since)
               [] OTHER          -> value \in {"on", "off"}

Collect ==
    /\ \E l \in Known, a \in Known :
           /\ ReportsLocked(l) /\ ReportsUserActive(a)
           /\ report' = [locked |-> l, user_active |-> a]
    /\ UNCHANGED <<machineVars, conns, claimed>>

-----------------------------------------------------------------------------
(* The machine, and a restart of the agent *)

Login(s) ==
    /\ s \notin alive /\ alive' = alive \cup {s}
    /\ services' \in (IF s = Screen THEN Shells ELSE {services})
    /\ report' = NoReport
    /\ UNCHANGED <<locked, input, hint, since, conns, claimed>>

Logout(s) ==
    /\ s \in alive /\ alive' = alive \ {s}
    /\ locked' = locked \ {s}
    /\ services' = IF s = Screen THEN {} ELSE services
    /\ claimed' = (claimed /\ s # Screen)
    /\ report' = NoReport
    /\ UNCHANGED <<input, hint, since, conns>>

\* A service of the desktop crashes or comes back.
ChangeServices ==
    /\ Screen \in alive /\ services' \in {{}} \cup Shells
    /\ report' = NoReport
    /\ UNCHANGED <<alive, locked, input, hint, since, conns, claimed>>

LockedByUser(s) ==
    /\ s \in alive /\ SessionFacts[s].seat
    /\ locked' = IF s \in locked THEN locked \ {s} ELSE locked \cup {s}
    /\ claimed' = (claimed /\ s # Screen)
    /\ report' = NoReport
    /\ UNCHANGED <<alive, services, input, hint, since, conns>>

\* The user leaves, or comes back; the desktop sets its hint when it notices; and
\* the threshold passes.
Idle ==
    /\ \/ input' = ~input /\ UNCHANGED <<hint, since>>
       \/ hint = input /\ hint' = ~input /\ since' = TRUE /\ UNCHANGED input
       \/ since /\ since' = FALSE /\ UNCHANGED <<input, hint>>
    /\ report' = NoReport
    /\ UNCHANGED <<alive, services, locked, conns, claimed>>

RestartAgent ==
    /\ conns' \in SUBSET {"system", "session"}
    /\ claimed' = FALSE /\ report' = NoReport
    /\ UNCHANGED machineVars

SessionNext ==
    \/ LockScreen \/ Collect
    \/ \E s \in Sessions : Login(s) \/ Logout(s) \/ LockedByUser(s)
    \/ ChangeServices \/ Idle \/ RestartAgent

SessionSpec == SessionInit /\ [][SessionNext]_sessionVars

-----------------------------------------------------------------------------
(* Properties *)

\* Every variable has its type, and what is locked is alive.
SessionTypeOK ==
    /\ alive \subseteq Sessions /\ locked \subseteq alive
    /\ services \subseteq {"shell", "saver"} /\ (services # {} => Screen \in alive)
    /\ input \in BOOLEAN /\ hint \in BOOLEAN /\ since \in BOOLEAN
    /\ conns \subseteq {"system", "session"}
    /\ report \in [locked : Known, user_active : Known]
    /\ claimed \in BOOLEAN

\* When the agent says that it locked the screen, the screen is locked until the
\* user unlocks it, whoever was asked to lock it, and whatever other sessions the
\* user has open, as long as the desktop is the only one with a seat.
LockHolds == claimed => Screen \in locked

\* What is shown of the lock is that of the user's screen, whoever reports it, as
\* long as the desktop is the only session with a seat.
LockedShown ==
    [][OneSeat /\ report'.locked # "unavailable" =>
          report'.locked = OnIf(Screen \in locked')]_sessionVars

\* `user_active` tells whether the user has been at the machine lately.
UserActiveTrue ==
    [][OneSeat /\ hint = ~input /\ report'.user_active # "unavailable" =>
          report'.user_active = OnIf(input)]_sessionVars
=============================================================================
