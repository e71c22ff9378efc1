--------------------------- MODULE SamplerProofs ---------------------------
(* What a tick reads of the machine is true of it: the rate of the LAN       *)
(* interface, the power of the energy zones and the CPU usage, whatever      *)
(* happens to interfaces and counters; and the battery is always the same.   *)
EXTENDS LanSampler, RaplSampler, CpuSampler, PowerSupply, WellFoundedInduction, TLAPS

-----------------------------------------------------------------------------
(* The LAN interface (LanSampler)                                            *)

\* Counters that begin again begin at what was carried so far, and what was seen
\* at a tick has only grown since.
Grows ==
    /\ \A i \in Ifaces : base[i] <= traffic[i]
    /\ \A t \in 0..MaxTime, i \in Ifaces :
           /\ seen[t].traffic[i] <= traffic[i]
           /\ seen[t].base[i] <= base[i]
           /\ seen[t].base[i] <= seen[t].traffic[i]

\* The counter that is kept is the one of its time.
KeptTrue ==
    \A p \in lan : p.count = seen[p.at].traffic[p.iface] - seen[p.at].base[p.iface]

LanInv == LanTypeOK /\ Grows /\ KeptTrue /\ LanRateTrue

USE LanBoundAssumption, IfaceAssumption

\* The invariant holds at the start, when nothing has been carried or sampled.
LEMMA LanInitInv == LanInit => LanInv
  <1> SUFFICES ASSUME LanInit PROVE LanInv
    OBVIOUS
  <1>1. LanTypeOK
    BY DEF LanInit, LanTypeOK, View, Traffic
  <1>2. Grows
    BY DEF LanInit, Grows, View
  <1>3. KeptTrue /\ LanRateTrue
    BY DEF LanInit, KeptTrue, LanRateTrue
  <1>4. QED
    BY <1>1, <1>2, <1>3 DEF LanInv

\* A counter and an earlier one of the same interface: their difference is not
\* more than what was carried, and is that if the counters did not begin again.
LEMMA SinceTrue ==
  ASSUME NEW t0 \in Nat, NEW b0 \in Nat, NEW t1 \in Nat, NEW b1 \in Nat,
         t0 <= t1, b0 <= b1
  PROVE  /\ Since(t1 - b1, t0 - b0) <= t1 - t0
         /\ b0 = b1 => Since(t1 - b1, t0 - b0) = t1 - t0
  BY DEF Since

\* The machine changes neither what was sampled nor what was seen.
LEMMA MachineKeeps ==
  ASSUME LanInv, UNCHANGED <<now, lan, lanRate, seen>>,
         chosen' \in Ifaces \cup {NoIface, Between},
         present' \in SUBSET Ifaces, routed' \in SUBSET present',
         traffic' \in Traffic, base' \in Traffic,
         \A i \in Ifaces : traffic[i] <= traffic'[i] /\ base[i] <= base'[i]
                             /\ base'[i] <= traffic'[i]
  PROVE  LanInv'
  <1>1. LanTypeOK'
    BY DEF LanInv, LanTypeOK
  <1>2. Grows'
    <2>1. \A i \in Ifaces : base'[i] <= traffic'[i]
      OBVIOUS
    <2>2. ASSUME NEW t \in 0..MaxTime, NEW i \in Ifaces
          PROVE  /\ seen'[t].traffic[i] <= traffic'[i]
                 /\ seen'[t].base[i] <= base'[i]
                 /\ seen'[t].base[i] <= seen'[t].traffic[i]
      <3>1. /\ traffic[i] \in Nat /\ traffic'[i] \in Nat /\ base[i] \in Nat /\ base'[i] \in Nat
            /\ seen[t].traffic[i] \in Nat /\ seen[t].base[i] \in Nat
        <4>1. /\ traffic \in Traffic /\ base \in Traffic
              /\ seen[t] \in [traffic : Traffic, base : Traffic]
          BY DEF LanInv, LanTypeOK
        <4>2. QED
          BY <4>1 DEF Traffic
      <3>2. /\ seen[t].traffic[i] <= traffic[i]
            /\ seen[t].base[i] <= base[i]
            /\ seen[t].base[i] <= seen[t].traffic[i]
        BY DEF LanInv, Grows
      <3>3. QED
        BY <3>1, <3>2
    <2>3. QED
      BY <2>1, <2>2 DEF Grows
  <1>3. KeptTrue' /\ LanRateTrue'
    BY DEF LanInv, KeptTrue, LanRateTrue
  <1>4. QED
    BY <1>1, <1>2, <1>3 DEF LanInv

\* A tick, where the rate is computed.
LEMMA TickKeeps ==
  ASSUME LanInv, NEW gap \in 1..MaxGap, NEW readable \in BOOLEAN, LanTick(gap, readable)
  PROVE  LanInv'
  <1> DEFINE t == now + gap
  <1>1. /\ t \in 0..MaxTime /\ now \in 0..MaxTime /\ now < t /\ now' = t
        /\ UNCHANGED machine /\ chosen' = Between
        /\ seen' = [seen EXCEPT ![t] = View]
        /\ Sample(readable, t)
    BY DEF LanTick, LanInv, LanTypeOK
  <1> HIDE DEF t
  <1>2. UNCHANGED <<present, routed, traffic, base>>
    BY <1>1 DEF machine
  <1>3. /\ present \in SUBSET Ifaces /\ routed \in SUBSET present
        /\ traffic \in Traffic /\ base \in Traffic
        /\ lan \in SUBSET [iface : Ifaces, count : Nat, at : 0..now]
        /\ seen \in [0..MaxTime -> [traffic : Traffic, base : Traffic]]
    BY DEF LanInv, LanTypeOK
  <1>4. View \in [traffic : Traffic, base : Traffic]
    BY <1>3 DEF View
  <1>5. /\ seen' \in [0..MaxTime -> [traffic : Traffic, base : Traffic]]
        /\ seen'[t] = View
        /\ \A u \in 0..MaxTime : u # t => seen'[u] = seen[u]
    BY <1>1, <1>3, <1>4
  <1>6. Grows'
    <2>1. \A i \in Ifaces : base'[i] <= traffic'[i]
      BY <1>2 DEF LanInv, Grows
    <2>2. ASSUME NEW u \in 0..MaxTime, NEW i \in Ifaces
          PROVE  /\ seen'[u].traffic[i] <= traffic'[i]
                 /\ seen'[u].base[i] <= base'[i]
                 /\ seen'[u].base[i] <= seen'[u].traffic[i]
      <3>1. CASE u = t
        <4>1. seen'[u].traffic[i] = traffic[i] /\ seen'[u].base[i] = base[i]
          BY <3>1, <1>5 DEF View
        <4>2. traffic[i] \in Nat /\ base[i] \in Nat /\ base[i] <= traffic[i]
          BY <1>3 DEF LanInv, Grows, Traffic
        <4>3. QED
          BY <4>1, <4>2, <1>2
      <3>2. CASE u # t
        BY <3>2, <1>2, <1>5 DEF LanInv, Grows
      <3>3. QED
        BY <3>1, <3>2
    <2>3. QED
      BY <2>1, <2>2 DEF Grows
  <1>7. ASSUME NEW p \in lan
        PROVE  /\ p.iface \in Ifaces /\ p.count \in Nat /\ p.at \in 0..now
               /\ p.at \in 0..MaxTime /\ p.at # t /\ t - p.at \in 1..t
               /\ t - (t - p.at) = p.at /\ seen'[p.at] = seen[p.at]
               /\ p.count = seen[p.at].traffic[p.iface] - seen[p.at].base[p.iface]
    <2>1. p.iface \in Ifaces /\ p.count \in Nat /\ p.at \in 0..now
      BY <1>3
    <2>2. p.at \in 0..MaxTime /\ p.at # t /\ t - p.at \in 1..t /\ t - (t - p.at) = p.at
      BY <2>1, <1>1
    <2>3. p.count = seen[p.at].traffic[p.iface] - seen[p.at].base[p.iface]
      BY DEF LanInv, KeptTrue
    <2>4. QED
      BY <2>1, <2>2, <2>3, <1>5
  <1>8. CASE ~(readable /\ chosen \in present)
    <2>1. lanRate' = {} /\ lan' \subseteq lan
      BY <1>1, <1>8 DEF Sample
    <2>2. LanTypeOK'
      <3>1. lan' \in SUBSET [iface : Ifaces, count : Nat, at : 0..now']
        BY <2>1, <1>1, <1>3
      <3>2. QED
        BY <3>1, <2>1, <1>1, <1>2, <1>3, <1>5 DEF LanTypeOK
    <2>3. KeptTrue'
      BY <2>1, <1>7 DEF KeptTrue
    <2>4. LanRateTrue'
      BY <2>1 DEF LanRateTrue
    <2>5. QED
      BY <2>2, <2>3, <2>4, <1>6 DEF LanInv
  <1>9. CASE readable /\ chosen \in present
    <2>1. /\ lanRate' = Rates(t)
          /\ lan' = {[iface |-> chosen, count |-> Counter(chosen), at |-> t]}
          /\ chosen \in Ifaces
      BY <1>1, <1>3, <1>9 DEF Sample
    <2>2. /\ traffic[chosen] \in Nat /\ base[chosen] \in Nat /\ base[chosen] <= traffic[chosen]
          /\ Counter(chosen) = traffic[chosen] - base[chosen] /\ Counter(chosen) \in Nat
      BY <2>1, <1>3 DEF LanInv, Grows, Traffic, Counter
    <2>3. KeptTrue'
      <3>1. seen'[t].traffic[chosen] = traffic[chosen] /\ seen'[t].base[chosen] = base[chosen]
        BY <1>5 DEF View
      <3>2. QED
        BY <3>1, <2>1, <2>2 DEF KeptTrue
    <2>4. ASSUME NEW rate \in lanRate'
          PROVE  /\ rate \in [iface : Ifaces, bytes : Nat, time : 1..t]
                 /\ LET before == seen'[now' - rate.time]
                        after  == seen'[now']
                        real   == after.traffic[rate.iface] - before.traffic[rate.iface]
                    IN /\ rate.bytes <= real
                       /\ before.base[rate.iface] = after.base[rate.iface]
                            => rate.bytes = real
      <3>1. PICK p \in lan : p.iface = chosen /\ rate = RateFrom(p, t)
        BY <2>1 DEF Rates
      <3>2. /\ rate.iface = chosen /\ rate.time = t - p.at
            /\ rate.bytes = Since(Counter(chosen), p.count)
            /\ rate = [iface |-> chosen, bytes |-> Since(Counter(chosen), p.count),
                       time |-> t - p.at]
        BY <3>1 DEF RateFrom
      <3>3. Since(Counter(chosen), p.count) \in Nat
        BY <1>7, <2>2 DEF Since
      <3>4. rate \in [iface : Ifaces, bytes : Nat, time : 1..t]
        BY <3>2, <3>3, <2>1, <1>7
      <3> DEFINE t0 == seen[p.at].traffic[chosen]
                 b0 == seen[p.at].base[chosen]
      <3>5. /\ t0 \in Nat /\ b0 \in Nat /\ t0 <= traffic[chosen] /\ b0 <= base[chosen]
            /\ p.count = t0 - b0
        <4>1. p.at \in 0..MaxTime /\ p.count = t0 - b0
          BY <1>7, <3>1
        <4>2. seen[p.at] \in [traffic : Traffic, base : Traffic]
          BY <4>1, <1>3
        <4>3. t0 \in Nat /\ b0 \in Nat
          BY <4>2, <2>1 DEF Traffic
        <4>4. t0 <= traffic[chosen] /\ b0 <= base[chosen]
          BY <4>1, <2>1 DEF LanInv, Grows
        <4>5. QED
          BY <4>1, <4>3, <4>4
      <3>6. /\ seen'[now' - rate.time].traffic[rate.iface] = t0
            /\ seen'[now' - rate.time].base[rate.iface] = b0
            /\ seen'[now'].traffic[rate.iface] = traffic[chosen]
            /\ seen'[now'].base[rate.iface] = base[chosen]
        BY <3>2, <1>1, <1>5, <1>7 DEF View
      <3> HIDE DEF t0, b0
      <3>7. /\ Since(traffic[chosen] - base[chosen], t0 - b0) <= traffic[chosen] - t0
            /\ b0 = base[chosen] =>
                 Since(traffic[chosen] - base[chosen], t0 - b0) = traffic[chosen] - t0
        BY <3>5, <2>2, SinceTrue
      <3>8. rate.bytes = Since(traffic[chosen] - base[chosen], t0 - b0)
        BY <3>2, <3>5, <2>2
      <3>9. QED
        BY <3>4, <3>6, <3>7, <3>8
    <2>5. LanTypeOK'
      <3>1. lan' \in SUBSET [iface : Ifaces, count : Nat, at : 0..now']
        BY <2>1, <2>2, <1>1
      <3>2. lanRate' \in SUBSET [iface : Ifaces, bytes : Nat, time : 1..now']
        BY <2>4, <1>1
      <3>3. QED
        BY <3>1, <3>2, <1>1, <1>2, <1>3, <1>5 DEF LanTypeOK
    <2>6. LanRateTrue'
      BY <2>4 DEF LanRateTrue
    <2>7. QED
      BY <2>3, <2>5, <2>6, <1>6 DEF LanInv
  <1>10. QED
    BY <1>8, <1>9

\* Every step keeps the invariant.
LEMMA LanNextInv == LanInv /\ [LanNext]_lanVars => LanInv'
  <1> SUFFICES ASSUME LanInv, [LanNext]_lanVars PROVE LanInv'
    OBVIOUS
  <1>1. /\ present \in SUBSET Ifaces /\ routed \in SUBSET present
        /\ traffic \in Traffic /\ base \in Traffic
        /\ chosen \in Ifaces \cup {NoIface, Between}
        /\ \A i \in Ifaces : base[i] <= traffic[i]
    BY DEF LanInv, LanTypeOK, Grows
  <1>2. \A i \in Ifaces : traffic[i] \in Nat /\ base[i] \in Nat
    BY <1>1 DEF Traffic
  <1>3. CASE UNCHANGED lanVars
    BY <1>1, <1>2, <1>3, MachineKeeps DEF lanVars, machine
  <1>4. CASE Choose
    <2>1. LanIface \in Ifaces \cup {NoIface}
      <3>1. CASE routed = {}
        BY <3>1 DEF LanIface
      <3>2. CASE routed # {}
        <4> DEFINE metrics == {Metric[i] : i \in routed}
        <4>1. metrics \subseteq Nat /\ metrics # {}
          BY <3>2, <1>1
        <4> DEFINE less == {ss \in Nat \X Nat : ss[1] < ss[2]}
        <4>2. IsWellFoundedOn(less, Nat)
          BY NatLessThanWellFounded, Zenon DEF OpToRel
        <4>3. PICK m \in metrics : \A n \in metrics : <<n, m>> \notin less
          <5> HIDE DEF less
          <5>1. QED
            BY <4>1, <4>2, WFMin
        <4>4. ASSUME NEW n \in metrics PROVE m <= n
          <5>1. n \in Nat /\ m \in Nat /\ <<n, m>> \notin less
            BY <4>1, <4>3
          <5> HIDE DEF metrics
          <5>2. ~(n < m)
            BY <5>1
          <5>3. QED
            BY <5>1, <5>2
        <4>5. \E i \in routed : \A j \in routed : Metric[i] <= Metric[j]
          BY <4>4
        <4>6. QED
          BY <4>5, <3>2, <1>1 DEF LanIface
      <3>3. QED
        BY <3>1, <3>2
    <2>2. QED
      BY <1>1, <1>2, <1>4, <2>1, MachineKeeps DEF Choose, machine
  <1>5. ASSUME NEW gap \in 1..MaxGap, NEW readable \in BOOLEAN, LanTick(gap, readable)
        PROVE  LanInv'
    BY <1>5, TickKeeps
  <1>6. ASSUME NEW i \in Ifaces, Carry(i) PROVE LanInv'
    <2>1. /\ traffic' = [traffic EXCEPT ![i] = @ + 1]
          /\ UNCHANGED <<now, present, routed, base, chosen, lan, lanRate, seen>>
      BY <1>6 DEF Carry
    <2>2. traffic' \in Traffic /\ \A j \in Ifaces : traffic[j] <= traffic'[j]
      BY <2>1, <1>1, <1>2 DEF Traffic
    <2>3. \A j \in Ifaces : traffic'[j] \in Nat
      BY <2>2 DEF Traffic
    <2>4. \A j \in Ifaces : base'[j] <= traffic'[j] /\ base[j] <= base'[j]
      BY <2>1, <2>2, <2>3, <1>1, <1>2
    <2>5. QED
      BY <2>1, <2>2, <2>4, <1>1, MachineKeeps
  <1>7. ASSUME NEW i \in Ifaces, PlugIn(i) PROVE LanInv'
    <2>1. /\ base' = [base EXCEPT ![i] = traffic[i]] /\ present' = present \cup {i}
          /\ UNCHANGED <<now, routed, traffic, chosen, lan, lanRate, seen>>
      BY <1>7 DEF PlugIn
    <2>2. base' \in Traffic
      BY <2>1, <1>1, <1>2 DEF Traffic
    <2>3. \A j \in Ifaces : base'[j] = IF j = i THEN traffic[i] ELSE base[j]
      BY <2>1, <1>1 DEF Traffic
    <2>4. \A j \in Ifaces : /\ base[j] <= base'[j] /\ base'[j] <= traffic'[j]
                            /\ traffic[j] <= traffic'[j]
      BY <2>1, <2>3, <1>1, <1>2
    <2>5. QED
      BY <2>1, <2>2, <2>4, <1>1, MachineKeeps
  <1>8. ASSUME NEW i \in Ifaces, Unplug(i) PROVE LanInv'
    BY <1>8, <1>1, <1>2, MachineKeeps DEF Unplug
  <1>9. ASSUME NEW i \in Ifaces, Reroute(i) PROVE LanInv'
    BY <1>9, <1>1, <1>2, MachineKeeps DEF Reroute
  <1>10. QED
    BY <1>3, <1>4, <1>5, <1>6, <1>7, <1>8, <1>9 DEF LanNext

\* Whatever is unplugged, rerouted or unreadable, the rate reported for the LAN
\* interface is what it carried over the time the rate is taken over, never more
\* (LanSampler::sample in collect/mod.rs).
THEOREM RatesAreTrue == LanSpec => []LanRateTrue
  <1>1. LanSpec => []LanInv
    BY LanInitInv, LanNextInv, PTL DEF LanSpec
  <1>2. LanInv => LanRateTrue
    BY DEF LanInv
  <1>3. QED
    BY <1>1, <1>2, PTL

\* The types hold: rates are natural numbers over a time that is not empty.
THEOREM LanTypeCorrect == LanSpec => []LanTypeOK
  <1>1. LanSpec => []LanInv
    BY LanInitInv, LanNextInv, PTL DEF LanSpec
  <1>2. LanInv => LanTypeOK
    BY DEF LanInv
  <1>3. QED
    BY <1>1, <1>2, PTL

-----------------------------------------------------------------------------
(* The energy zones (RaplSampler)                                            *)

\* What a zone used was never less.
EnergyGrows == \A t \in 0..MaxClock, z \in Zones : metered[t].energy[z] <= energy[z]

\* The counters that are kept are those of their time.
CountsTrue ==
    \A prev \in rapl, k \in Places :
        LET meter == metered[prev.at]
        IN prev.count[k] = (meter.energy[walk[k]] - meter.restart[walk[k]]) % (EnergyRange + 1)

RaplInv == RaplTypeOK /\ EnergyGrows /\ CountsTrue /\ EnergyTrue

\* Counters of one range, of which one was a while earlier: their difference is at
\* most the range.
LEMMA PowerTyped ==
  ASSUME NEW prev \in 0..EnergyRange, NEW current \in 0..EnergyRange, NEW ranged,
         NEW e \in PowerFromEnergy(prev, current, ranged)
  PROVE  e \in 0..EnergyRange
  BY ZoneAssumption DEF PowerFromEnergy

\* A counter that wraps at most once gains what was used, less one if it wrapped.
LEMMA WrapTrue ==
  ASSUME NEW a \in Int, NEW b \in Int, a <= b, b - a <= EnergyRange, NEW ranged,
         NEW e \in PowerFromEnergy(a % (EnergyRange + 1), b % (EnergyRange + 1), ranged)
  PROVE  e \in {b - a - 1, b - a}
  <1> DEFINE m == EnergyRange + 1
             p == a \div m
             q == b \div m
             x == a % m
             y == b % m
  <1>1. m \in Nat \ {0} /\ m - 1 = EnergyRange /\ EnergyRange \in Nat
    BY ZoneAssumption
  <1> HIDE DEF m
  <1>2. p \in Int /\ q \in Int /\ a = m * p + x /\ b = m * q + y
    BY <1>1
  <1>3. x \in 0..(m - 1) /\ y \in 0..(m - 1)
    BY <1>1
  <1>4. e \in PowerFromEnergy(x, y, ranged)
    BY DEF m
  <1> HIDE DEF p, q, x, y
  <1>5. m * (q - p) = m * q - m * p
    BY <1>1, <1>2
  <1>6. b - a = m * (q - p) + (y - x)
    <2>1. m * p \in Int /\ m * q \in Int
      BY <1>1, <1>2
    <2> QED
      BY <1>2, <1>3, <1>5, <2>1
  <1>7. q - p \in {0, 1}
    <2>1. q - p >= 2 => m * (q - p) >= m + m
      BY <1>1, <1>2
    <2>2. q - p < 0 => m * (q - p) <= -m
      BY <1>1, <1>2
    <2>3. m * (q - p) \in Int /\ q - p \in Int
      BY <1>1, <1>2
    <2> QED
      BY <1>1, <1>3, <1>6, <2>1, <2>2, <2>3
  <1>8. b - a = y - x \/ b - a = m + (y - x)
    BY <1>1, <1>3, <1>6, <1>7
  <1>9. CASE y >= x
    <2>1. e = y - x
      BY <1>4, <1>9 DEF PowerFromEnergy
    <2> QED
      BY <2>1, <1>1, <1>3, <1>8, <1>9
  <1>10. CASE ~(y >= x)
    <2>1. e = y + (EnergyRange - x)
      BY <1>4, <1>10 DEF PowerFromEnergy
    <2> QED
      BY <2>1, <1>1, <1>3, <1>8, <1>10
  <1> QED
    BY <1>9, <1>10

\* The places of a walk are zones.
LEMMA PlacesAreZones ==
  ASSUME walk \in Walks, NEW k \in Places
  PROVE  walk[k] \in Zones
  BY ZoneAssumption DEF Places

\* At the start nothing was used or read.
LEMMA RaplInitInv == RaplInit => RaplInv
  <1> SUFFICES ASSUME RaplInit PROVE RaplInv
    OBVIOUS
  <1>1. energy \in Energies /\ restart \in Energies
    BY DEF RaplInit, Energies
  <1>2. metered \in [0..MaxClock -> [energy : Energies, restart : Energies]]
    BY <1>1 DEF RaplInit, Meter
  <1>3. power \in [Places -> SUBSET [energy : 0..EnergyRange, time : 1..clock]]
    BY DEF RaplInit
  <1>4. RaplTypeOK
    BY <1>1, <1>2, <1>3, RaplBoundAssumption DEF RaplInit, RaplTypeOK
  <1>5. EnergyGrows
    BY <1>1 DEF RaplInit, EnergyGrows, Meter, Energies
  <1>6. CountsTrue /\ EnergyTrue
    BY DEF RaplInit, CountsTrue, EnergyTrue
  <1> QED
    BY <1>4, <1>5, <1>6 DEF RaplInv

\* The machine changes neither what was read nor what was metered.
LEMMA MachineUses ==
  ASSUME RaplInv, UNCHANGED <<clock, walk, rapl, power, metered>>,
         energy' \in Energies, restart' \in Energies,
         \A z \in Zones : energy[z] <= energy'[z]
  PROVE  RaplInv'
  <1>1. RaplTypeOK'
    BY DEF RaplInv, RaplTypeOK, Places
  <1>2. EnergyGrows'
    <2> SUFFICES ASSUME NEW t \in 0..MaxClock, NEW z \in Zones
                 PROVE  metered[t].energy[z] <= energy'[z]
      BY DEF EnergyGrows
    <2>1. metered[t].energy[z] \in Nat /\ energy[z] \in Nat /\ energy'[z] \in Nat
      BY DEF RaplInv, RaplTypeOK, Energies
    <2>2. metered[t].energy[z] <= energy[z] /\ energy[z] <= energy'[z]
      BY DEF RaplInv, EnergyGrows
    <2> QED
      BY <2>1, <2>2
  <1>3. CountsTrue' /\ EnergyTrue'
    BY DEF RaplInv, CountsTrue, EnergyTrue, Places, Namesakes
  <1> QED
    BY <1>1, <1>2, <1>3 DEF RaplInv

\* A walk, where the power is computed.
LEMMA WalkKeeps ==
  ASSUME RaplInv, NEW pause \in 1..MaxPause, NEW read \in SUBSET Places, RaplTick(pause, read)
  PROVE  RaplInv'
  <1> DEFINE t == clock + pause
  <1>1. /\ t \in 0..MaxClock /\ clock \in 0..MaxClock /\ clock < t /\ clock' = t
        /\ UNCHANGED <<energy, restart, walk>>
        /\ power' = [k \in Places |->
                        IF k \in read THEN UNION {Watts(prev, k, t) : prev \in rapl} ELSE {}]
        /\ rapl' = Kept(read, t)
        /\ metered' = [metered EXCEPT ![t] = Meter]
    BY RaplBoundAssumption DEF RaplTick, RaplInv, RaplTypeOK, cpu
  <1> HIDE DEF t
  <1>2. /\ energy \in Energies /\ restart \in Energies /\ walk \in Walks
        /\ rapl \in SUBSET [at : 0..clock, read : (SUBSET Places) \ {{}},
                            count : [Places -> 0..EnergyRange]]
        /\ metered \in [0..MaxClock -> [energy : Energies, restart : Energies]]
    BY DEF RaplInv, RaplTypeOK
  <1>3. Meter \in [energy : Energies, restart : Energies]
    BY <1>2 DEF Meter
  <1>4. /\ metered' \in [0..MaxClock -> [energy : Energies, restart : Energies]]
        /\ metered'[t] = Meter
        /\ \A u \in 0..MaxClock : u # t => metered'[u] = metered[u]
    BY <1>1, <1>2, <1>3
  <1>5. Places' = Places
    BY <1>1 DEF Places
  <1>6. ASSUME NEW k \in Places
        PROVE  /\ energy[walk[k]] \in Nat /\ restart[walk[k]] \in Nat
               /\ walk[k] \in Zones /\ EnergyUj(k) \in 0..EnergyRange
    <2>1. walk[k] \in Zones
      BY <1>2, PlacesAreZones
    <2>2. energy[walk[k]] \in Nat /\ restart[walk[k]] \in Nat
      BY <2>1, <1>2 DEF Energies
    <2>3. EnergyRange + 1 \in Nat \ {0} /\ (EnergyRange + 1) - 1 = EnergyRange
      BY ZoneAssumption
    <2>4. EnergyUj(k) \in 0..((EnergyRange + 1) - 1)
      BY <2>2, <2>3 DEF EnergyUj
    <2> QED
      BY <2>1, <2>2, <2>3, <2>4
  <1>7. ASSUME NEW prev \in rapl
        PROVE  /\ prev.at \in 0..MaxClock /\ prev.at # t /\ t - prev.at \in 1..t
               /\ t - (t - prev.at) = prev.at /\ metered'[prev.at] = metered[prev.at]
               /\ prev.at \in 0..t /\ prev.read \subseteq Places
               /\ \A l \in Places : prev.count[l] \in 0..EnergyRange
    <2>1. prev.at \in 0..clock
      BY <1>2
    <2>2. /\ prev.at \in 0..MaxClock /\ prev.at # t /\ t - prev.at \in 1..t
          /\ t - (t - prev.at) = prev.at /\ prev.at \in 0..t
      BY <2>1, <1>1, RaplBoundAssumption
    <2>3. prev.read \subseteq Places /\ \A l \in Places : prev.count[l] \in 0..EnergyRange
      BY <1>2
    <2> QED
      BY <2>2, <2>3, <1>4
  <1>8. rapl' \in SUBSET [at : 0..t, read : (SUBSET Places) \ {{}},
                          count : [Places -> 0..EnergyRange]]
    <2>1. CASE read = {}
      <3>1. rapl' = rapl
        BY <1>1, <2>1 DEF Kept
      <3>2. 0..clock \subseteq 0..t
        BY <1>1
      <3> QED
        BY <3>1, <3>2, <1>2
    <2>2. CASE read # {}
      <3>1. rapl' = {[at |-> t, read |-> read, count |-> [k \in Places |-> EnergyUj(k)]]}
        BY <1>1, <2>2 DEF Kept
      <3>2. [k \in Places |-> EnergyUj(k)] \in [Places -> 0..EnergyRange]
        BY <1>6
      <3>3. t \in 0..t
        BY <1>1
      <3> QED
        BY <3>1, <3>2, <3>3, <2>2
    <2> QED
      BY <2>1, <2>2
  <1>9. ASSUME NEW k \in Places, NEW p \in power'[k]
        PROVE  \E prev \in rapl : \E l \in Earlier(prev, k) :
                   /\ p.time = t - prev.at
                   /\ p.energy \in PowerFromEnergy(prev.count[l], EnergyUj(k),
                                                   walk[k] \in Ranged \/ walk[l] \in Ranged)
                   /\ p \in [energy : 0..EnergyRange, time : 1..t]
    <2>1. PICK prev \in rapl : p \in Watts(prev, k, t)
      BY <1>1, <1>9
    <2>2. PICK l \in Earlier(prev, k) :
              \E e \in PowerFromEnergy(prev.count[l], EnergyUj(k),
                                       walk[k] \in Ranged \/ walk[l] \in Ranged) :
                  p = [energy |-> e, time |-> t - prev.at]
      BY <2>1 DEF Watts
    <2>3. PICK e \in PowerFromEnergy(prev.count[l], EnergyUj(k),
                                     walk[k] \in Ranged \/ walk[l] \in Ranged) :
              p = [energy |-> e, time |-> t - prev.at]
      BY <2>2
    <2>4. l \in Places
      BY <1>7 DEF Earlier
    <2>5. e \in 0..EnergyRange
      BY <2>4, <1>6, <1>7, PowerTyped
    <2> QED
      BY <2>3, <2>5, <1>7
  <1>10. RaplTypeOK'
    <2>1. power' \in [Places -> SUBSET [energy : 0..EnergyRange, time : 1..t]]
      <3>1. \A k \in Places : power'[k] \subseteq [energy : 0..EnergyRange, time : 1..t]
        BY <1>9
      <3>2. power' = [k \in Places |-> power'[k]]
        BY <1>1
      <3> QED
        BY <3>1, <3>2
    <2> QED
      BY <2>1, <1>1, <1>2, <1>4, <1>5, <1>8 DEF RaplTypeOK
  <1>11. EnergyGrows'
    <2> SUFFICES ASSUME NEW u \in 0..MaxClock, NEW z \in Zones
                 PROVE  metered'[u].energy[z] <= energy[z]
      BY <1>1 DEF EnergyGrows
    <2>1. energy[z] \in Nat /\ metered[u].energy[z] <= energy[z]
      BY <1>2 DEF RaplInv, EnergyGrows, Energies
    <2> QED
      BY <2>1, <1>4 DEF Meter
  <1>12. CountsTrue'
    <2> SUFFICES ASSUME NEW prev \in rapl', NEW k \in Places
                 PROVE  prev.count[k] = (metered'[prev.at].energy[walk[k]]
                                           - metered'[prev.at].restart[walk[k]])
                                          % (EnergyRange + 1)
      BY <1>1, <1>5 DEF CountsTrue
    <2>1. CASE read = {}
      <3>1. prev \in rapl
        BY <1>1, <2>1 DEF Kept
      <3> QED
        BY <3>1, <1>7 DEF RaplInv, CountsTrue
    <2>2. CASE read # {}
      <3>1. prev = [at |-> t, read |-> read, count |-> [l \in Places |-> EnergyUj(l)]]
        BY <1>1, <2>2 DEF Kept
      <3> QED
        BY <3>1, <1>4 DEF Meter, EnergyUj
    <2> QED
      BY <2>1, <2>2
  <1>13. EnergyTrue'
    <2> SUFFICES ASSUME NEW k \in Places, NEW p \in power'[k], Namesakes(walk[k]) = {walk[k]},
                        metered'[t - p.time].restart[walk[k]] = metered'[t].restart[walk[k]],
                        metered'[t].energy[walk[k]] - metered'[t - p.time].energy[walk[k]]
                            <= EnergyRange
                 PROVE  p.energy \in
                          {metered'[t].energy[walk[k]]
                             - metered'[t - p.time].energy[walk[k]] - 1,
                           metered'[t].energy[walk[k]]
                             - metered'[t - p.time].energy[walk[k]]}
      BY <1>1, <1>5 DEF EnergyTrue, Namesakes
    <2> DEFINE z == walk[k]
    <2>0. PICK prev \in rapl : \E l \in Earlier(prev, k) :
              /\ p.time = t - prev.at
              /\ p.energy \in PowerFromEnergy(prev.count[l], EnergyUj(k),
                                              walk[k] \in Ranged \/ walk[l] \in Ranged)
      BY <1>9
    <2>1. PICK l \in Earlier(prev, k) :
              /\ p.time = t - prev.at
              /\ p.energy \in PowerFromEnergy(prev.count[l], EnergyUj(k),
                                              walk[k] \in Ranged \/ walk[l] \in Ranged)
      BY <2>0
    <2>2. l \in Places /\ NameOf[walk[l]] = NameOf[walk[k]]
      BY <1>7 DEF Earlier
    <2>3. walk[l] = z
      <3>1. walk[l] \in Namesakes(walk[k])
        BY <2>2 DEF Namesakes
      <3> QED
        BY <3>1
    <2> DEFINE e0 == metered[prev.at].energy[z]
               r0 == metered[prev.at].restart[z]
    <2>4. /\ metered'[t - p.time] = metered[prev.at]
          /\ metered'[t].energy[z] = energy[z] /\ metered'[t].restart[z] = restart[z]
      BY <2>1, <1>4, <1>7 DEF Meter
    <2>5. /\ e0 \in Nat /\ r0 \in Nat /\ energy[z] \in Nat /\ restart[z] \in Nat
          /\ z \in Zones /\ e0 <= energy[z]
      <3>1. z \in Zones /\ energy[z] \in Nat /\ restart[z] \in Nat
        BY <1>6
      <3>2. metered[prev.at] \in [energy : Energies, restart : Energies]
        BY <1>2, <1>7
      <3>3. e0 \in Nat /\ r0 \in Nat
        BY <3>1, <3>2 DEF Energies
      <3>4. e0 <= energy[z]
        BY <3>1, <1>7 DEF RaplInv, EnergyGrows
      <3> QED
        BY <3>1, <3>3, <3>4
    <2>6. /\ prev.count[l] = (e0 - r0) % (EnergyRange + 1)
          /\ EnergyUj(k) = (energy[z] - restart[z]) % (EnergyRange + 1)
      BY <2>2, <2>3 DEF RaplInv, CountsTrue, EnergyUj
    <2>7. r0 = restart[z] /\ energy[z] - e0 <= EnergyRange
      BY <2>4
    <2> HIDE DEF e0, r0, z
    <2> DEFINE a == e0 - r0
               b == energy[z] - restart[z]
    <2>8. /\ a \in Int /\ b \in Int /\ a <= b /\ b - a <= EnergyRange
          /\ b - a = energy[z] - e0
      <3>1. /\ e0 \in Int /\ r0 \in Int /\ energy[z] \in Int /\ restart[z] \in Int
            /\ e0 <= energy[z]
        BY <2>5
      <3>2. /\ a \in Int /\ b \in Int /\ b - a = energy[z] - e0
        BY <3>1, <2>7
      <3> QED
        BY <3>1, <3>2, <2>7
    <2>9. p.energy \in PowerFromEnergy(a % (EnergyRange + 1), b % (EnergyRange + 1),
                                       walk[k] \in Ranged \/ walk[l] \in Ranged)
      BY <2>1, <2>6
    <2> HIDE DEF a, b
    <2>10. p.energy \in {b - a - 1, b - a}
      BY <2>8, <2>9, WrapTrue
    <2> QED
      BY <2>4, <2>8, <2>10 DEF e0, z
  <1> QED
    BY <1>10, <1>11, <1>12, <1>13 DEF RaplInv

\* Every step keeps the invariant.
LEMMA RaplNextInv == RaplInv /\ [RaplNext]_raplVars => RaplInv'
  <1> SUFFICES ASSUME RaplInv, [RaplNext]_raplVars PROVE RaplInv'
    OBVIOUS
  <1>1. energy \in Energies /\ restart \in Energies /\ \A z \in Zones : energy[z] \in Nat
    BY DEF RaplInv, RaplTypeOK, Energies
  <1>2. CASE UNCHANGED raplVars
    BY <1>1, <1>2, MachineUses DEF raplVars, cpu
  <1>3. ASSUME NEW z \in Zones, UseEnergy(z) PROVE RaplInv'
    <2>1. /\ energy' = [energy EXCEPT ![z] = @ + 1]
          /\ UNCHANGED <<clock, restart, walk, rapl, power, metered>>
      BY <1>3 DEF UseEnergy
    <2>2. energy' \in Energies /\ \A y \in Zones : energy[y] <= energy'[y]
      BY <2>1, <1>1 DEF Energies
    <2> QED
      BY <2>1, <2>2, <1>1, MachineUses
  <1>4. CASE Suspend
    BY <1>1, <1>4, MachineUses DEF Suspend
  <1> QED
    BY <1>2, <1>3, <1>4, WalkKeeps DEF RaplNext

\* However counters wrap, begin again or cannot be read, the energy of a power is what
\* the zone used over the time it is divided by, or one unit less, under the conditions
\* that EnergyTrue names (RaplSampler::sample and power_from_energy).
THEOREM PowerIsTrue == RaplSpec => []EnergyTrue
  <1>1. RaplInv => EnergyTrue
    BY DEF RaplInv
  <1> QED
    BY RaplInitInv, RaplNextInv, <1>1, PTL DEF RaplSpec

\* The types hold: a power is of at most one range of the counter, over a time that is
\* not empty and began at a tick.
THEOREM RaplTypeCorrect == RaplSpec => []RaplTypeOK
  <1>1. RaplInv => RaplTypeOK
    BY DEF RaplInv
  <1> QED
    BY RaplInitInv, RaplNextInv, <1>1, PTL DEF RaplSpec

-----------------------------------------------------------------------------
(* CPU usage (CpuSampler)                                                    *)

\* What the counters gained since the sample that is kept is what passed since.
SampleTrue ==
    \A prev \in previous_cpu : window.bent \/
        /\ jiffies["user"] + jiffies["idle"] + jiffies["iowait"] = prev.total + window.time
        /\ jiffies["idle"] + jiffies["iowait"] + window.work = prev.idle + window.time
        /\ window.work <= window.time

CpuInv == CpuTypeOK /\ SampleTrue /\ CpuUsageTrue

\* A usage is between 0 and 100 % of a time that is not empty, and exact if the
\* counters gained at least as much altogether as they gained in idleness.
LEMMA UsageOfSamples ==
  ASSUME NEW prev \in [idle : Nat, total : Nat], NEW current \in [idle : Nat, total : Nat],
         NEW usage \in CpuUsagePercent(prev, current)
  PROVE  /\ usage \in [busy : Nat, total : Nat \ {0}] /\ usage.busy <= usage.total
         /\ \A work, time \in Nat :
              /\ work <= time /\ current.total = prev.total + time
              /\ current.idle + work = prev.idle + time
              => usage = [busy |-> work, total |-> time]
  <1> DEFINE total == SaturatingSub(current.total, prev.total)
             idle  == SaturatingSub(current.idle, prev.idle)
             busy  == SaturatingSub(total, idle)
  <1>1. total # 0 /\ usage = [busy |-> busy, total |-> total]
    BY DEF CpuUsagePercent
  <1>2. total \in Nat /\ idle \in Nat
    BY DEF SaturatingSub
  <1>3. busy \in Nat /\ busy <= total
    <2> HIDE DEF total, idle
    <2> QED
      BY <1>2 DEF SaturatingSub
  <1>4. ASSUME NEW work \in Nat, NEW time \in Nat, work <= time,
               current.total = prev.total + time, current.idle + work = prev.idle + time
        PROVE  busy = work /\ total = time
    <2>1. total = time /\ idle = time - work
      BY <1>4 DEF SaturatingSub
    <2> HIDE DEF total, idle
    <2> QED
      BY <2>1, <1>4 DEF SaturatingSub
  <1> HIDE DEF total, busy
  <1> QED
    BY <1>1, <1>2, <1>3, <1>4

\* At the start no time has passed and no sample was taken.
LEMMA CpuInitInv == CpuInit => CpuInv
  <1> SUFFICES ASSUME CpuInit PROVE CpuInv
    OBVIOUS
  <1>1. NoTime \in Window
    BY DEF NoTime, Window
  <1>2. CpuTypeOK
    BY <1>1, JiffiesAssumption DEF CpuInit, CpuTypeOK
  <1> QED
    BY <1>2 DEF CpuInit, CpuInv, SampleTrue, CpuUsageTrue

\* A tick, where the usage is computed.
LEMMA CpuTickKeeps ==
  ASSUME CpuInv, NEW readable \in BOOLEAN, CpuTick(readable)
  PROVE  CpuInv'
  <1>1. UNCHANGED <<jiffies, backs>>
    BY DEF CpuTick
  <1>2. CASE ~readable
    <2>1. cpu_usage' = {} /\ UNCHANGED <<previous_cpu, window, reported>>
      BY <1>2 DEF CpuTick
    <2> QED
      BY <1>1, <2>1 DEF CpuInv, CpuTypeOK, SampleTrue, CpuUsageTrue
  <1>3. CASE readable
    <2>1. /\ previous_cpu' = {CpuSample} /\ reported' = window /\ window' = NoTime
          /\ cpu_usage' = UNION {CpuUsagePercent(prev, CpuSample) : prev \in previous_cpu}
      BY <1>3 DEF CpuTick
    <2>2. /\ jiffies["user"] \in Nat /\ jiffies["idle"] \in Nat /\ jiffies["iowait"] \in Nat
          /\ jiffies \in [Uses -> Nat]
          /\ previous_cpu \in SUBSET [idle : Nat, total : Nat] /\ window \in Window
      BY DEF CpuInv, CpuTypeOK, Uses
    <2>3. /\ CpuSample \in [idle : Nat, total : Nat]
          /\ CpuSample.idle = jiffies["idle"] + jiffies["iowait"]
          /\ CpuSample.total = jiffies["user"] + jiffies["idle"] + jiffies["iowait"]
      BY <2>2 DEF CpuSample
    <2>4. ASSUME NEW usage \in cpu_usage'
          PROVE  /\ usage \in [busy : Nat, total : Nat \ {0}] /\ usage.busy <= usage.total
                 /\ window.bent \/ usage = [busy |-> window.work, total |-> window.time]
      <3>1. PICK prev \in previous_cpu : usage \in CpuUsagePercent(prev, CpuSample)
        BY <2>1
      <3>2. prev \in [idle : Nat, total : Nat]
        BY <2>2
      <3>3. window.work \in Nat /\ window.time \in Nat
        BY <2>2 DEF Window
      <3>4. \/ window.bent
            \/ /\ CpuSample.total = prev.total + window.time
               /\ CpuSample.idle + window.work = prev.idle + window.time
               /\ window.work <= window.time
        BY <2>3 DEF CpuInv, SampleTrue
      <3> QED
        BY <3>1, <3>2, <3>3, <3>4, <2>3, UsageOfSamples
    <2>5. NoTime \in Window
      BY DEF NoTime, Window
    <2>6. CpuTypeOK'
      BY <1>1, <2>1, <2>2, <2>3, <2>4, <2>5 DEF CpuInv, CpuTypeOK
    <2>7. SampleTrue'
      BY <1>1, <2>1, <2>2, <2>3 DEF SampleTrue, NoTime
    <2>8. CpuUsageTrue'
      BY <2>1, <2>4 DEF CpuUsageTrue
    <2> QED
      BY <2>6, <2>7, <2>8 DEF CpuInv
  <1> QED
    BY <1>2, <1>3

\* A unit of time is counted once, whatever it is spent in.
LEMMA SpendKeeps ==
  ASSUME CpuInv, NEW use \in Uses, Spend(use)
  PROVE  CpuInv'
  <1>1. /\ UNCHANGED <<backs, previous_cpu, cpu_usage, reported>>
        /\ jiffies' = [u \in Uses |->
                          IF u = use \/ (use = "guest" /\ u = "user") THEN jiffies[u] + 1
                          ELSE jiffies[u]]
        /\ window' = [window EXCEPT !.time = @ + 1,
                                    !.work = IF use \in {"user", "guest"} THEN @ + 1 ELSE @]
    BY DEF Spend
  <1>2. /\ jiffies \in [Uses -> Nat] /\ window \in Window
        /\ previous_cpu \in SUBSET [idle : Nat, total : Nat]
    BY DEF CpuInv, CpuTypeOK
  <1>3. /\ jiffies["user"] \in Nat /\ jiffies["idle"] \in Nat /\ jiffies["iowait"] \in Nat
        /\ window.work \in Nat /\ window.time \in Nat /\ window.bent \in BOOLEAN
    BY <1>2 DEF Uses, Window
  <1>4. jiffies' \in [Uses -> Nat] /\ window' \in Window
    <2>1. jiffies' \in [Uses -> Nat]
      BY <1>1, <1>2
    <2>2. window' \in Window
      <3> DEFINE work == IF use \in {"user", "guest"} THEN window.work + 1 ELSE window.work
                 time == window.time + 1
      <3>1. work \in Nat /\ time \in Nat
        BY <1>3
      <3>2. window' = [window EXCEPT !.time = time, !.work = work]
        BY <1>1
      <3> HIDE DEF work, time
      <3> QED
        BY <3>1, <3>2, <1>2 DEF Window
    <2> QED
      BY <2>1, <2>2
  <1>5. CpuTypeOK'
    BY <1>1, <1>4 DEF CpuInv, CpuTypeOK
  <1>6. SampleTrue'
    <2>1. /\ window'.bent = window.bent /\ window'.time = window.time + 1
          /\ window'.work = IF use \in {"user", "guest"} THEN window.work + 1 ELSE window.work
      BY <1>1, <1>2 DEF Window
    <2>2. /\ use \in {"user", "guest"} =>
               /\ jiffies'["user"] = jiffies["user"] + 1
               /\ jiffies'["idle"] = jiffies["idle"] /\ jiffies'["iowait"] = jiffies["iowait"]
          /\ use = "idle" =>
               /\ jiffies'["user"] = jiffies["user"]
               /\ jiffies'["idle"] = jiffies["idle"] + 1
               /\ jiffies'["iowait"] = jiffies["iowait"]
          /\ use = "iowait" =>
               /\ jiffies'["user"] = jiffies["user"]
               /\ jiffies'["idle"] = jiffies["idle"]
               /\ jiffies'["iowait"] = jiffies["iowait"] + 1
      BY <1>1 DEF Uses
    <2>3. ASSUME NEW prev \in previous_cpu, ~window.bent
          PROVE  /\ jiffies'["user"] + jiffies'["idle"] + jiffies'["iowait"]
                      = prev.total + window'.time
                 /\ jiffies'["idle"] + jiffies'["iowait"] + window'.work
                      = prev.idle + window'.time
                 /\ window'.work <= window'.time
      <3>1. /\ jiffies["user"] + jiffies["idle"] + jiffies["iowait"] = prev.total + window.time
            /\ jiffies["idle"] + jiffies["iowait"] + window.work = prev.idle + window.time
            /\ window.work <= window.time
        BY <2>3 DEF CpuInv, SampleTrue
      <3>2. prev.total \in Nat /\ prev.idle \in Nat
        BY <1>2
      <3>3. CASE use \in {"user", "guest"}
        <4>1. /\ jiffies'["user"] = jiffies["user"] + 1
              /\ jiffies'["idle"] = jiffies["idle"] /\ jiffies'["iowait"] = jiffies["iowait"]
              /\ window'.time = window.time + 1 /\ window'.work = window.work + 1
          BY <3>3, <2>1, <2>2
        <4> QED
          BY <3>1, <3>2, <4>1, <1>3
      <3>4. CASE use = "idle"
        BY <3>1, <3>2, <3>4, <1>3, <2>1, <2>2
      <3>5. CASE use = "iowait"
        BY <3>1, <3>2, <3>5, <1>3, <2>1, <2>2
      <3> QED
        BY <3>3, <3>4, <3>5 DEF Uses
    <2> QED
      BY <1>1, <2>1, <2>3 DEF SampleTrue
  <1>7. CpuUsageTrue'
    BY <1>1 DEF CpuInv, CpuUsageTrue
  <1> QED
    BY <1>5, <1>6, <1>7 DEF CpuInv

\* Every step keeps the invariant; a window in which `iowait` went back is marked.
LEMMA CpuNextInv == CpuInv /\ [CpuNext]_cpuVars => CpuInv'
  <1> SUFFICES ASSUME CpuInv, [CpuNext]_cpuVars PROVE CpuInv'
    OBVIOUS
  <1>1. CASE UNCHANGED cpuVars
    BY <1>1 DEF cpuVars, CpuInv, CpuTypeOK, SampleTrue, CpuUsageTrue
  <1>2. CASE IowaitGoesBack
    <2>1. /\ jiffies \in [Uses -> Nat] /\ window \in Window /\ backs \in 0..MaxBacks
          /\ "iowait" \in Uses
      BY DEF CpuInv, CpuTypeOK, Uses
    <2>2. /\ jiffies' = [jiffies EXCEPT !["iowait"] = @ - 1] /\ jiffies["iowait"] > 0
          /\ backs' = backs + 1 /\ backs < MaxBacks
          /\ window' = [window EXCEPT !.bent = TRUE]
          /\ UNCHANGED <<previous_cpu, cpu_usage, reported>>
      BY <1>2 DEF IowaitGoesBack
    <2>3. jiffies["iowait"] - 1 \in Nat
      BY <2>1, <2>2
    <2>4. jiffies' \in [Uses -> Nat]
      BY <2>1, <2>2, <2>3
    <2>5. window' \in Window /\ window'.bent
      BY <2>1, <2>2 DEF Window
    <2>6. backs' \in 0..MaxBacks
      BY <2>1, <2>2, JiffiesAssumption
    <2>7. CpuTypeOK'
      BY <2>2, <2>4, <2>5, <2>6 DEF CpuInv, CpuTypeOK
    <2> QED
      BY <2>2, <2>5, <2>7 DEF CpuInv, SampleTrue, CpuUsageTrue
  <1> QED
    BY <1>1, <1>2, CpuTickKeeps, SpendKeeps DEF CpuNext

\* However many readings fail and however time is spent, a usage is the share of the
\* time between its two samples in which the CPU worked, unless `iowait` went back
\* (cpu_usage_percent and ProcCollector).
THEOREM UsageIsTrue == CpuSpec => []CpuUsageTrue
  <1>1. CpuInv => CpuUsageTrue
    BY DEF CpuInv
  <1> QED
    BY CpuInitInv, CpuNextInv, <1>1, PTL DEF CpuSpec

\* The types hold; whatever the counters do, a usage is at most 100 %.
THEOREM CpuTypeCorrect == CpuSpec => []CpuTypeOK
  <1>1. CpuInv => CpuTypeOK
    BY DEF CpuInv
  <1> QED
    BY CpuInitInv, CpuNextInv, <1>1, PTL DEF CpuSpec

-----------------------------------------------------------------------------
(* Battery and mains (PowerSupply)                                           *)

\* While nothing changes, what was reported is what would be reported again.
SupplyInv ==
    steady => ReportsBattery(battery) /\ ReportsAc(ac_power)

\* Only one battery can be the first by name.
LEMMA OneBattery ==
  ASSUME NEW a, NEW b, ReportsBattery(a), ReportsBattery(b)
  PROVE  a = b
  <1>1. CASE ~directory \/ Batteries = {}
    BY <1>1 DEF ReportsBattery
  <1>2. CASE directory /\ Batteries # {}
    <2>1. a \in Batteries /\ b \in Batteries /\ Facts[a].place <= Facts[b].place
            /\ Facts[b].place <= Facts[a].place
      BY <1>2 DEF ReportsBattery
    <2>2. a \in Supplies /\ b \in Supplies
      BY <2>1 DEF Batteries, Typed
    <2>3. Facts[a].place \in Nat /\ Facts[b].place \in Nat
      BY <2>2, SupplyAssumption
    <2>4. Facts[a].place = Facts[b].place
      BY <2>1, <2>3
    <2> QED
      BY <2>2, <2>4, SupplyAssumption
  <1> QED
    BY <1>1, <1>2

\* The mains have one state when no two adapters disagree.
LEMMA OneAc ==
  ASSUME NEW p, NEW q, ReportsAc(p), ReportsAc(q),
         \A s, t \in Adapters : supply[s] = supply[t]
  PROVE  p = q
  BY DEF ReportsAc

\* The initial state has not been reported.
LEMMA SupplyInitInv == SupplyInit => SupplyInv
  BY DEF SupplyInit, SupplyInv

\* Every step keeps the invariant: a tick reports, and any change ends `steady`.
LEMMA SupplyNextInv == SupplyInv /\ [SupplyNext]_supplyVars => SupplyInv'
  <1> SUFFICES ASSUME SupplyInv, [SupplyNext]_supplyVars PROVE SupplyInv'
    OBVIOUS
  <1> USE DEF Batteries, Adapters, Typed, ReportsBattery, ReportsAc
  <1>1. CASE UNCHANGED supplyVars
    BY <1>1 DEF supplyVars, hardware, SupplyInv
  <1>2. CASE CollectPowerSupply
    BY <1>2 DEF CollectPowerSupply, hardware, SupplyInv
  <1>3. ASSUME ChangeListing \/ \E s \in Supplies : ChangeSupply(s)
        PROVE  SupplyInv'
    BY <1>3 DEF ChangeListing, ChangeSupply, SupplyInv
  <1> QED
    BY <1>1, <1>2, <1>3 DEF SupplyNext

\* Two ticks with nothing changed between them report the same battery, and the same
\* mains unless two adapters disagree (battery.rs).
THEOREM SuppliesSteady == SupplySpec => SupplySteady
  <1>1. SupplyInv /\ [SupplyNext]_supplyVars
          => [steady /\ steady' =>
                 /\ battery' = battery
                 /\ (\A s, t \in Adapters : supply[s] = supply[t]) => ac_power' = ac_power]_supplyVars
    <2> SUFFICES ASSUME SupplyInv, SupplyNext, steady, steady'
                 PROVE  /\ battery' = battery
                        /\ (\A s, t \in Adapters : supply[s] = supply[t]) => ac_power' = ac_power
      OBVIOUS
    <2>1. CASE CollectPowerSupply
      <3>1. ReportsBattery(battery) /\ ReportsAc(ac_power)
        BY DEF SupplyInv
      <3>2. ReportsBattery(battery') /\ ReportsAc(ac_power')
        BY <2>1 DEF CollectPowerSupply
      <3> QED
        BY <3>1, <3>2, OneBattery, OneAc
    <2>2. ASSUME ChangeListing \/ \E s \in Supplies : ChangeSupply(s)
          PROVE  FALSE
      BY <2>2 DEF ChangeListing, ChangeSupply
    <2> QED
      BY <2>1, <2>2 DEF SupplyNext
  <1> QED
    BY SupplyInitInv, SupplyNextInv, <1>1, PTL DEF SupplySpec, SupplySteady
=============================================================================
