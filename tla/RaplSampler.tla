----------------------------- MODULE RaplSampler -----------------------------
(***************************************************************************)
(* The power of the CPU from its energy counters: RaplSampler in           *)
(* collect/rapl.rs.  walk_rapl lists the zones in an order sysfs decides,  *)
(* and lists one again that is linked from several places; counters of an  *)
(* earlier tick are found by the name of the zone.                         *)
(*                                                                         *)
(* Power is the energy and the time it is divided by, for every place of   *)
(* the walk; the code adds up the places of a kind.  A walk, which is a    *)
(* moment long, is one step.                                               *)
(***************************************************************************)
EXTENDS Integers, Sequences, Functions

CONSTANTS
    Zones,      \* energy zones of the CPU
    NameOf,     \* the file `name` of each
    Ranged,     \* those with a file max_energy_range_uj
    Walks,      \* the orders in which walk_rapl may come to the zones
    EnergyRange,      \* the greatest value of a counter, max_energy_range_uj
    MaxEnergy,  \* bound of the energy of all zones
    MaxClock, MaxPause  \* bounds of time

ASSUME ZoneAssumption ==
    Ranged \subseteq Zones /\ Walks \subseteq Seq(Zones) /\ EnergyRange \in Nat \ {0}
ASSUME RaplBoundAssumption == MaxEnergy \in Nat /\ MaxClock \in Nat /\ MaxPause \in Nat

VARIABLES
    clock,     \* the time of the last tick
    energy,    \* what each zone has ever used, in the unit of its counter
    restart,   \* of it, what was used before its counter began at zero
    walk,      \* the zones in the order of this machine
    rapl,      \* RaplSampler.previous: the time, the places of the walk that
               \* could be read and their counters; none or one
    power,     \* what the last tick computed for every place: none or one
    metered    \* what a bystander saw of the energy at every tick, for the
               \* properties only

cpu == <<energy, restart, walk>>
raplVars == <<clock, cpu, rapl, power, metered>>

Places == DOMAIN walk
Meter == [energy |-> energy, restart |-> restart]

RaplInit ==
    /\ clock = 0
    /\ energy = [z \in Zones |-> 0] /\ restart = [z \in Zones |-> 0]
    /\ walk \in Walks
    /\ rapl = {} /\ power = [k \in Places |-> {}]
    /\ metered = [t \in 0..MaxClock |-> Meter]

-----------------------------------------------------------------------------
(* The sampler.  A definition named Fault... is a deliberate fault, put in   *)
(* place of the one that follows it to see a property fail.                  *)

EnergyUj(k) == (energy[walk[k]] - restart[walk[k]]) % (EnergyRange + 1)

\* A counter that wrapped is not seen to have.
FaultPowerFromEnergy(prev, current, ranged) == {current - prev}

\* The energy between two readings of a counter; none where it wrapped and
\* nothing says at which value.
PowerFromEnergy(prev, current, ranged) ==
    IF current >= prev THEN {current - prev}
    ELSE IF ranged THEN {current + (EnergyRange - prev)}
    ELSE {}

\* The first place of the earlier walk with the name of this one, if any.
Earlier(prev, k) ==
    {l \in prev.read :
        /\ NameOf[walk[l]] = NameOf[walk[k]]
        /\ \A m \in prev.read : NameOf[walk[m]] = NameOf[walk[k]] => l <= m}

Watts(prev, k, t) ==
    {[energy |-> e, time |-> t - prev.at] :
        e \in UNION {PowerFromEnergy(prev.count[l], EnergyUj(k),
                                     walk[k] \in Ranged \/ walk[l] \in Ranged)
                       : l \in Earlier(prev, k)}}

\* A walk that finds no zone takes the time of the earlier counters.
FaultKept(read, t) ==
    IF read = {} THEN {[prev EXCEPT !.at = t] : prev \in rapl}
    ELSE {[at |-> t, read |-> read, count |-> [k \in Places |-> EnergyUj(k)]]}

\* A walk that finds no zone leaves the earlier counters as they are.
Kept(read, t) ==
    IF read = {} THEN rapl
    ELSE {[at |-> t, read |-> read, count |-> [k \in Places |-> EnergyUj(k)]]}

\* `read` are the places whose files name and energy_uj can be read.
RaplTick(pause, read) ==
    /\ clock + pause <= MaxClock
    /\ clock' = clock + pause
    /\ power' = [k \in Places |->
                    IF k \in read THEN UNION {Watts(prev, k, clock + pause) : prev \in rapl}
                    ELSE {}]
    /\ rapl' = Kept(read, clock + pause)
    /\ metered' = [metered EXCEPT ![clock + pause] = Meter]
    /\ UNCHANGED cpu

-----------------------------------------------------------------------------
(* The machine *)

UseEnergy(z) ==
    /\ z \in {walk[k] : k \in Places}
    /\ FoldFunction(+, 0, energy) < MaxEnergy
    /\ energy' = [energy EXCEPT ![z] = @ + 1]
    /\ UNCHANGED <<clock, restart, walk, rapl, power, metered>>

\* A suspended machine comes back with its counters at zero.
Suspend ==
    /\ restart' = energy
    /\ UNCHANGED <<clock, energy, walk, rapl, power, metered>>

RaplNext ==
    \/ \E pause \in 1..MaxPause, read \in SUBSET Places : RaplTick(pause, read)
    \/ \E z \in Zones : UseEnergy(z)
    \/ Suspend

RaplSpec == RaplInit /\ [][RaplNext]_raplVars

-----------------------------------------------------------------------------
(* Properties *)

Energies == [Zones -> Nat]

\* Every variable has its type; what is kept covers at least one place, and a
\* power is over a time that is not empty and began at a tick.
RaplTypeOK ==
    /\ clock \in 0..MaxClock
    /\ energy \in Energies /\ restart \in Energies
    /\ walk \in Walks
    /\ rapl \in SUBSET [at : 0..clock, read : (SUBSET Places) \ {{}}, count : [Places -> 0..EnergyRange]]
    /\ power \in [Places -> SUBSET [energy : 0..EnergyRange, time : 1..clock]]
    /\ metered \in [0..MaxClock -> [energy : Energies, restart : Energies]]

Namesakes(z) == {y \in {walk[k] : k \in Places} : NameOf[y] = NameOf[z]}

\* Where the name of a zone is its own, the energy a power is computed from is
\* what the zone used over the time it is divided by, less at most the one unit
\* by which power_from_energy is short when the counter wrapped; as long as the
\* counter did not begin again and came round at most once.
EnergyTrue ==
    \A k \in Places : \A p \in power[k] :
        LET z      == walk[k]
            before == metered[clock - p.time]
            after  == metered[clock]
            real   == after.energy[z] - before.energy[z]
        IN (Namesakes(z) = {z} /\ before.restart[z] = after.restart[z] /\ real <= EnergyRange)
               => p.energy \in {real - 1, real}
=============================================================================
