----------------------------- MODULE LanSampler -----------------------------
(***************************************************************************)
(* The throughput of the LAN interface: LanSampler in collect/mod.rs and   *)
(* sample_lan_rates in collect/windows/machine.rs.  A tick first chooses   *)
(* the interface (collect_net) and then reads its counters; between the    *)
(* two, and between ticks, cables are pulled and plugged in again, and     *)
(* counters begin again at zero.                                           *)
(*                                                                         *)
(* A rate is the bytes and the time they are divided by.  One direction of *)
(* the traffic stands for both.  Ticks are at least one unit of time       *)
(* apart, so that the case of no elapsed time does not arise.              *)
(***************************************************************************)
EXTENDS Integers

CONSTANTS
    Ifaces,     \* interfaces that may carry the default route
    Metric,     \* the metric of each one's route; on Windows the order of names
    MaxTraffic, MaxTime, MaxGap  \* bounds

ASSUME IfaceAssumption ==
    /\ Metric \in [Ifaces -> Nat]
    /\ \A i, j \in Ifaces : Metric[i] = Metric[j] => i = j
ASSUME LanBoundAssumption == MaxTraffic \in Nat /\ MaxTime \in Nat /\ MaxGap \in Nat

NoIface == "no interface"
Between == "between ticks"
ASSUME NoIfaceAssumption == NoIface \notin Ifaces /\ Between \notin Ifaces

VARIABLES
    now,       \* the time of the last tick
    present,   \* interfaces that exist
    routed,    \* those with a default route and an address
    traffic,   \* bytes each has ever carried
    base,      \* of these, carried before its counters began at zero
    chosen,    \* the interface this tick asks about
    lan,       \* LanSampler.prev: interface, counter and time; none or one
    lanRate,   \* what the last tick reported; none or one
    seen       \* what a bystander saw of the traffic at every tick, for the
               \* properties only

machine == <<present, routed, traffic, base>>
lanVars == <<now, machine, chosen, lan, lanRate, seen>>

View == [traffic |-> traffic, base |-> base]

LanInit ==
    /\ now = 0
    /\ present \in SUBSET Ifaces /\ routed \in SUBSET present
    /\ traffic = [i \in Ifaces |-> 0] /\ base = [i \in Ifaces |-> 0]
    /\ chosen = Between
    /\ lan = {} /\ lanRate = {}
    /\ seen = [t \in 0..MaxTime |-> View]

-----------------------------------------------------------------------------
(* The sampler.  A definition named Fault... is a deliberate fault, put in   *)
(* place of the one that follows it to see a property fail.                  *)

\* The interface of the default route with the least metric.
LanIface ==
    IF routed = {} THEN NoIface
    ELSE CHOOSE i \in routed : \A j \in routed : Metric[i] <= Metric[j]

Choose ==
    /\ chosen = Between /\ now < MaxTime
    /\ chosen' = LanIface
    /\ UNCHANGED <<now, machine, lan, lanRate, seen>>

Counter(i) == traffic[i] - base[i]

\* The difference without regard to a counter that began again.
FaultSince(count, prev) == count - prev

Since(count, prev) == IF count >= prev THEN count - prev ELSE 0

RateFrom(prev, t) ==
    [iface |-> chosen, bytes |-> Since(Counter(chosen), prev.count), time |-> t - prev.at]

\* The counter of another interface is taken for an earlier one of this.
FaultRates(t) == {RateFrom(prev, t) : prev \in lan}

Rates(t) == {RateFrom(prev, t) : prev \in {p \in lan : p.iface = chosen}}

\* Without an interface what is kept is dropped; with one whose counters cannot
\* be read, or that is gone, it stays.
Sample(readable, t) ==
    IF readable /\ chosen \in present
    THEN /\ lanRate' = Rates(t)
         /\ lan' = {[iface |-> chosen, count |-> Counter(chosen), at |-> t]}
    ELSE /\ lanRate' = {}
         /\ lan' = IF chosen = NoIface THEN {} ELSE lan

LanTick(gap, readable) ==
    /\ chosen # Between /\ now + gap <= MaxTime
    /\ now' = now + gap
    /\ Sample(readable, now + gap)
    /\ chosen' = Between
    /\ seen' = [seen EXCEPT ![now + gap] = View]
    /\ UNCHANGED machine

-----------------------------------------------------------------------------
(* The machine *)

Carry(i) ==
    /\ i \in present /\ traffic[i] < MaxTraffic
    /\ traffic' = [traffic EXCEPT ![i] = @ + 1]
    /\ UNCHANGED <<now, present, routed, base, chosen, lan, lanRate, seen>>

PlugIn(i) ==
    /\ i \notin present /\ present' = present \cup {i}
    /\ base' = [base EXCEPT ![i] = traffic[i]]
    /\ UNCHANGED <<now, routed, traffic, chosen, lan, lanRate, seen>>

Unplug(i) ==
    /\ i \in present
    /\ present' = present \ {i} /\ routed' = routed \ {i}
    /\ UNCHANGED <<now, traffic, base, chosen, lan, lanRate, seen>>

Reroute(i) ==
    /\ i \in present
    /\ routed' = IF i \in routed THEN routed \ {i} ELSE routed \cup {i}
    /\ UNCHANGED <<now, present, traffic, base, chosen, lan, lanRate, seen>>

LanNext ==
    \/ Choose
    \/ \E gap \in 1..MaxGap, readable \in BOOLEAN : LanTick(gap, readable)
    \/ \E i \in Ifaces : Carry(i) \/ PlugIn(i) \/ Unplug(i) \/ Reroute(i)

LanSpec == LanInit /\ [][LanNext]_lanVars

-----------------------------------------------------------------------------
(* Properties *)

Traffic == [Ifaces -> Nat]

\* Every variable has its type; at most one earlier counter is kept and at most
\* one rate reported, over a time that is not empty and began at a tick.
LanTypeOK ==
    /\ now \in 0..MaxTime
    /\ present \in SUBSET Ifaces /\ routed \in SUBSET present
    /\ traffic \in Traffic /\ base \in Traffic
    /\ chosen \in Ifaces \cup {NoIface, Between}
    /\ lan \in SUBSET [iface : Ifaces, count : Nat, at : 0..now]
    /\ lanRate \in SUBSET [iface : Ifaces, bytes : Nat, time : 1..now]
    /\ seen \in [0..MaxTime -> [traffic : Traffic, base : Traffic]]

\* Over the time it is divided by, the interface a rate is reported for has
\* carried at least the bytes reported, and exactly these if its counters did
\* not begin again meanwhile: whatever was unplugged, rerouted or unreadable in
\* between, and between the choice of the interface and the reading.
LanRateTrue ==
    \A rate \in lanRate :
        LET before == seen[now - rate.time]
            after  == seen[now]
            real   == after.traffic[rate.iface] - before.traffic[rate.iface]
        IN /\ rate.bytes <= real
           /\ before.base[rate.iface] = after.base[rate.iface] => rate.bytes = real
=============================================================================
