-------------------------- MODULE PublishDecision --------------------------
(***************************************************************************)
(* Which of the snapshots collected on every tick become a state message   *)
(* (snapshot.rs): one that differs enough from the snapshot before it, and *)
(* any one once nothing was published for force_publish_s.  The message    *)
(* carries every entity, and is retained.                                  *)
(*                                                                         *)
(* An entity has a number, or a text or truth value (Discrete); each may   *)
(* be unavailable.  The attributes of a snapshot, which are compared as a  *)
(* whole, are one of Discrete.  Time is in poll intervals.                 *)
(***************************************************************************)
EXTENDS Integers

CONSTANTS
    Entities,     \* those that publish a state
    Discrete,     \* the ones whose value is not a number
    Hysteresis,   \* EntityMeta::hysteresis of each entity
    ForceEvery,   \* poll.force_publish_s
    MaxValue,     \* bound: values are 0..MaxValue
    MaxWait       \* bound: time between two ticks

Unavailable == -1
Values == 0..MaxValue \cup {Unavailable}
NoSnapshot == -2  \* nothing is known of the entity yet

ASSUME EntityAssumption ==
    /\ Entities # {} /\ Discrete \subseteq Entities
    /\ Hysteresis \in [Entities -> Nat]
ASSUME TimeAssumption ==
    /\ ForceEvery \in Nat \ {0} /\ MaxValue \in Nat /\ MaxWait \in Nat \ {0}

VARIABLES
    reading,  \* what a collection would find now
    last,     \* the values of the last evaluation
    age,      \* time since the last publish
    started,  \* last_force is not None
    shown,    \* the last state message
    quiet     \* history: time for which the evaluations have found the same

publishVars == <<reading, last, age, started, shown, quiet>>

PublishInit ==
    /\ quiet = 0
    /\ reading \in [Entities -> Values]
    /\ last = [e \in Entities |-> NoSnapshot]
    /\ age = 0 /\ started = FALSE
    /\ shown = [e \in Entities |-> Unavailable]

Distance(a, b) == IF a >= b THEN a - b ELSE b - a

(* Fault: a value that becomes unavailable is not a change. *)
FaultChangedEnough(e, current, previous) ==
    IF Unavailable \in {current, previous} \/ e \in Discrete
    THEN current # previous /\ current # Unavailable
    ELSE Distance(previous, current) >= Hysteresis[e]

ChangedEnough(e, current, previous) ==
    IF Unavailable \in {current, previous} \/ e \in Discrete
    THEN current # previous
    ELSE Distance(previous, current) >= Hysteresis[e]

(* Fault: only a change of value is published. *)
FaultForced(now) == ~started

Forced(now) == ~started \/ now >= ForceEvery

Changed ==
    \E e \in Entities :
        last[e] = NoSnapshot \/ ChangedEnough(e, reading[e], last[e])

(* Two evaluations that found the same are `gap` further apart from the last *)
(* change; beyond force_publish_s it no longer matters how far.              *)
Settle(gap) ==
    quiet' = IF reading # last THEN 0
             ELSE IF quiet + gap >= ForceEvery THEN ForceEvery ELSE quiet + gap

(* Fault: the time of the last publish is set on every evaluation. *)
FaultEvaluate ==
    \E gap \in 1..MaxWait :
        /\ last' = reading
        /\ Settle(gap)
        /\ IF Changed \/ Forced(age + gap)
           THEN shown' = reading /\ age' = 0 /\ started' = TRUE
           ELSE age' = 0 /\ UNCHANGED <<shown, started>>
        /\ UNCHANGED reading

(* One tick: collect, evaluate, and publish when the evaluation says so.  The *)
(* snapshot becomes the one to compare with whether it is published or not.   *)
Evaluate ==
    \E gap \in 1..MaxWait :
        /\ last' = reading
        /\ Settle(gap)
        /\ IF Changed \/ Forced(age + gap)
           THEN shown' = reading /\ age' = 0 /\ started' = TRUE
           ELSE age' = age + gap /\ UNCHANGED <<shown, started>>
        /\ UNCHANGED reading

(* The world changes between two collections. *)
Move ==
    /\ \E e \in Entities, v \in Values : reading' = [reading EXCEPT ![e] = v]
    /\ UNCHANGED <<last, age, started, shown, quiet>>

PublishNext == Evaluate \/ Move

PublishSpec == PublishInit /\ [][PublishNext]_publishVars

-----------------------------------------------------------------------------
(* The variables have their types; nothing is older than force_publish_s.    *)
PublishTypeOK ==
    /\ reading \in [Entities -> Values] /\ shown \in [Entities -> Values]
    /\ last \in [Entities -> Values \cup {NoSnapshot}]
    /\ age \in 0..(ForceEvery - 1) /\ started \in BOOLEAN
    /\ quiet \in 0..ForceEvery

(* What Home Assistant is shown differs from the last snapshot only in       *)
(* numbers: a text, a truth value, an attribute and the (un)availability of  *)
(* anything are never held back, although evaluate compares with the last    *)
(* snapshot and not with the last message.                                   *)
DiscreteShown ==
    started => \A e \in Entities :
        \/ shown[e] = last[e]
        \/ e \notin Discrete /\ Unavailable \notin {shown[e], last[e]}

(* A number may drift away from what is shown in steps below the hysteresis, *)
(* without end while it moves.  Once the collections find the same values,   *)
(* what is shown is wrong for less than force_publish_s: the message that is *)
(* out of date is older than the last change, and no message gets that old.  *)
DriftEnds ==
    /\ started /\ shown # last => quiet <= age
    /\ quiet = ForceEvery => shown = last
=============================================================================
