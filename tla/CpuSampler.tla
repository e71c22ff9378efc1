----------------------------- MODULE CpuSampler -----------------------------
(***************************************************************************)
(* CPU usage from the kernel's counters of time: ProcCollector in          *)
(* collect/proc.rs and collect_cpu_mem in collect/windows/machine.rs,      *)
(* which share cpu_usage_percent.                                          *)
(*                                                                         *)
(* A usage is the busy time and the time it is divided by.  Linux counts   *)
(* the time of guests twice, in `guest` and in `user`, and its `iowait`    *)
(* may go back; Windows has neither field.                                 *)
(***************************************************************************)
EXTENDS Integers

CONSTANTS
    MaxJiffies,  \* bound: the time the counters show
    MaxBacks     \* bound: times that `iowait` goes back

ASSUME JiffiesAssumption == MaxJiffies \in Nat /\ MaxBacks \in Nat

VARIABLES
    jiffies,      \* the counters of /proc/stat
    backs,        \* how often `iowait` went back
    previous_cpu, \* the last sample; none or one
    cpu_usage,    \* what the last tick reported; none or one
    window,       \* what really passed since the last sample,
    reported      \* and between the two samples before, for the properties only

cpuVars == <<jiffies, backs, previous_cpu, cpu_usage, window, reported>>

Uses == {"user", "guest", "idle", "iowait"}
NoTime == [work |-> 0, time |-> 0, bent |-> FALSE]

CpuInit ==
    /\ jiffies = [use \in Uses |-> 0] /\ backs = 0
    /\ previous_cpu = {} /\ cpu_usage = {}
    /\ window = NoTime /\ reported = NoTime

-----------------------------------------------------------------------------
(* The collector.  A definition named Fault... is a deliberate fault, put in *)
(* place of the one that follows it to see a property fail.                  *)

\* All ten fields are added up.
FaultCpuSample ==
    [idle  |-> jiffies["idle"] + jiffies["iowait"],
     total |-> jiffies["user"] + jiffies["guest"] + jiffies["idle"] + jiffies["iowait"]]

\* parse_proc_stat: the first eight fields, which leave `guest` out.
CpuSample ==
    [idle  |-> jiffies["idle"] + jiffies["iowait"],
     total |-> jiffies["user"] + jiffies["idle"] + jiffies["iowait"]]

SaturatingSub(a, b) == IF a >= b THEN a - b ELSE 0

CpuUsagePercent(prev, current) ==
    LET total == SaturatingSub(current.total, prev.total)
        idle  == SaturatingSub(current.idle, prev.idle)
    IN IF total = 0 THEN {} ELSE {[busy |-> SaturatingSub(total, idle), total |-> total]}

\* A sample is kept whether or not a usage came of it; counters that cannot be
\* read leave the last one, and the next usage is over the longer time.
CpuTick(readable) ==
    /\ IF readable
       THEN /\ cpu_usage' = UNION {CpuUsagePercent(prev, CpuSample) : prev \in previous_cpu}
            /\ previous_cpu' = {CpuSample}
            /\ reported' = window /\ window' = NoTime
       ELSE /\ cpu_usage' = {}
            /\ UNCHANGED <<previous_cpu, window, reported>>
    /\ UNCHANGED <<jiffies, backs>>

-----------------------------------------------------------------------------
(* The kernel *)

TimePassed == jiffies["user"] + jiffies["idle"] + jiffies["iowait"]

\* A unit of time is spent in one way or the other, and in `user` if in `guest`.
Spend(use) ==
    /\ TimePassed < MaxJiffies
    /\ jiffies' = [u \in Uses |->
                      IF u = use \/ (use = "guest" /\ u = "user") THEN jiffies[u] + 1
                      ELSE jiffies[u]]
    /\ window' = [window EXCEPT !.time = @ + 1,
                                !.work = IF use \in {"user", "guest"} THEN @ + 1 ELSE @]
    /\ UNCHANGED <<backs, previous_cpu, cpu_usage, reported>>

\* A task that waited for I/O is woken on another CPU.
IowaitGoesBack ==
    /\ jiffies["iowait"] > 0 /\ backs < MaxBacks
    /\ backs' = backs + 1
    /\ jiffies' = [jiffies EXCEPT !["iowait"] = @ - 1]
    /\ window' = [window EXCEPT !.bent = TRUE]
    /\ UNCHANGED <<previous_cpu, cpu_usage, reported>>

CpuNext ==
    \/ \E readable \in BOOLEAN : CpuTick(readable)
    \/ \E use \in Uses : Spend(use)
    \/ IowaitGoesBack

CpuSpec == CpuInit /\ [][CpuNext]_cpuVars

-----------------------------------------------------------------------------
(* Properties *)

Window == [work : Nat, time : Nat, bent : BOOLEAN]

\* Every variable has its type; a usage is at most 100 % of a time that is not
\* empty, whatever the counters did.
CpuTypeOK ==
    /\ jiffies \in [Uses -> Nat] /\ backs \in 0..MaxBacks
    /\ previous_cpu \in SUBSET [idle : Nat, total : Nat]
    /\ cpu_usage \in SUBSET [busy : Nat, total : Nat \ {0}]
    /\ \A usage \in cpu_usage : usage.busy <= usage.total
    /\ window \in Window /\ reported \in Window

\* A usage is the share of the time between the two samples it is computed from
\* in which the CPU worked, guests included and counted once, however many
\* readings failed in between; unless `iowait` went back in that time.
CpuUsageTrue ==
    \A usage \in cpu_usage :
        reported.bent \/ usage = [busy |-> reported.work, total |-> reported.time]
=============================================================================
