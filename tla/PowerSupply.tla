---------------------------- MODULE PowerSupply ----------------------------
(***************************************************************************)
(* Battery and mains of the machine from /sys/class/power_supply           *)
(* (collect/battery.rs).  The directory lists the supplies in an order     *)
(* that nothing fixes, and that may differ from one tick to the next; the  *)
(* directory, or a file of one supply, may be unreadable.                  *)
(*                                                                         *)
(* What is read of the battery that is reported (status, capacity, health  *)
(* and cycles) is its name.                                                *)
(***************************************************************************)
EXTENDS Naturals

CONSTANTS
    Supplies,   \* supplies that may be present
    Facts,      \* their kind and scope, and the place of the name in the
                \* alphabet; `named` is that the name begins like a battery's
    Chassis     \* kinds of chassis; "unknown" where SMBIOS does not say

SupplyKinds == {"Mains", "USB", "Battery", "UPS"}
ASSUME SupplyAssumption ==
    /\ Facts \in [Supplies -> [kind : SupplyKinds, scope : {"System", "Device", "none"},
                               named : BOOLEAN, place : Nat]]
    /\ \A s, t \in Supplies : Facts[s].place = Facts[t].place => s = t

NoBattery  == "none"
Unreadable == "unreadable"
ASSUME NoBatteryAssumption == Supplies \cap {NoBattery, Unreadable} = {}

VARIABLES
    chassis,
    directory,  \* the directory can be read
    supply,     \* how much of each supply can be read
    battery,    \* the battery the last tick reported, NoBattery before
    ac_power,   \* "on", "off" or "unavailable"
    steady      \* nothing was changed since the last tick, for the properties only

hardware == <<chassis, directory, supply>>
supplyVars == <<hardware, battery, ac_power, steady>>

IsAcAdapter(s) == Facts[s].kind \in {"Mains", "USB"}

\* A battery of the machine, by its scope or, where it has none, by its name.
IsSystemBattery(s) ==
    /\ Facts[s].kind = "Battery"
    /\ \/ Facts[s].scope = "System"
       \/ Facts[s].scope = "none" /\ Facts[s].named

\* A supply may be absent, its `type` or the `online` of an adapter may be
\* unreadable, and an adapter delivers power or does not.
StatesOf(s) ==
    {"absent", "no type"}
        \cup IF IsAcAdapter(s) THEN {"no online", "on", "off"} ELSE {"there"}

Typed     == {s \in Supplies : supply[s] \notin {"absent", "no type"}}
Adapters  == {s \in Typed : IsAcAdapter(s) /\ supply[s] # "no online"}
Batteries == {s \in Typed : IsSystemBattery(s)}

SupplyInit ==
    /\ chassis \in Chassis /\ directory \in BOOLEAN
    /\ supply \in [Supplies -> {"absent", "no type", "no online", "on", "off", "there"}]
    /\ \A s \in Supplies : supply[s] \in StatesOf(s)
    /\ battery = NoBattery /\ ac_power = "unavailable" /\ steady = FALSE

\* The first battery that is listed.
FaultReportsBattery(name) ==
    IF ~directory THEN name = Unreadable
    ELSE IF Batteries = {} THEN name = NoBattery
    ELSE name \in Batteries

\* The first of the batteries by name.
ReportsBattery(name) ==
    IF ~directory THEN name = Unreadable
    ELSE IF Batteries = {} THEN name = NoBattery
    ELSE name \in Batteries /\ \A s \in Batteries : Facts[name].place <= Facts[s].place

\* The adapter listed last decides; without one, a chassis that has no battery.
ReportsAc(power) ==
    IF ~directory \/ Adapters = {}
    THEN power = IF chassis \in {"desktop", "server", "all_in_one"} THEN "on" ELSE "unavailable"
    ELSE \E s \in Adapters : power = supply[s]

CollectPowerSupply ==
    /\ \E name \in Supplies \cup {NoBattery, Unreadable} :
           ReportsBattery(name) /\ battery' = name
    /\ \E power \in {"on", "off", "unavailable"} : ReportsAc(power) /\ ac_power' = power
    /\ steady' = TRUE
    /\ UNCHANGED hardware

\* A mouse, a dock or a cable comes or goes, delivers or stops, or one of its files
\* begins or ceases to be readable.
ChangeSupply(s) ==
    /\ \E now \in StatesOf(s) \ {supply[s]} : supply' = [supply EXCEPT ![s] = now]
    /\ steady' = FALSE
    /\ UNCHANGED <<chassis, directory, battery, ac_power>>

ChangeListing ==
    /\ directory' = ~directory /\ steady' = FALSE
    /\ UNCHANGED <<chassis, supply, battery, ac_power>>

SupplyNext ==
    \/ CollectPowerSupply \/ ChangeListing
    \/ \E s \in Supplies : ChangeSupply(s)

SupplySpec == SupplyInit /\ [][SupplyNext]_supplyVars

-----------------------------------------------------------------------------
(* Properties *)

\* Two ticks that find the same hardware report the same battery, in whatever
\* order the supplies are listed and whichever of them cannot be read, so that its
\* percentage does not jump between two batteries; and the same mains, unless two
\* adapters disagree.
SupplySteady ==
    [][steady /\ steady' =>
          /\ battery' = battery
          /\ (\A s, t \in Adapters : supply[s] = supply[t]) => ac_power' = ac_power]_supplyVars
=============================================================================
