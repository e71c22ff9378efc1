SPECIFICATION Spec
CONSTANTS
    Ifaces = {"eth0", "wlan0"}
    Metric <- MCMetric
    MaxTraffic = 2
    MaxTime = 3
    MaxGap = 1
    Zones = {"package", "dram0", "dram1"}
    NameOf <- MCNameOf
    Ranged = {"package", "dram0"}
    Walks <- MCWalks
    EnergyRange = 2
    MaxEnergy = 3
    MaxClock = 3
    MaxPause = 1
    MaxJiffies = 4
    MaxBacks = 1
    Supplies = {"ac", "ucsi", "bat0", "bat1", "mouse"}
    Facts <- MCFacts
    Chassis = {"desktop", "laptop", "unknown"}
    Sessions = {"gui", "console", "ssh", "other"}
    Screen = "gui"
    SessionFacts <- MCSessionFacts
    EnvSession = "gui"
    Shells <- MCShells
    ProcessNames = {"discord", "tailscale"}
    ListenerNames = {"ssh"}
    ReportConfigs <- MCReportConfigs
    Entities = {"cpu_usage", "locked"}
    Discrete = {"locked"}
    Hysteresis <- MCHysteresis
    ForceEvery = 4
    MaxValue = 2
    MaxWait = 2
    MaxBuilds = 2
    MaxMoves = 1
INVARIANTS LanTypeOK LanRateTrue RaplTypeOK EnergyTrue PartsTypeOK CpuUsageTrue LockHolds EveryEntityRead OwnValues ExcludedUnpublished PublishTypeOK DiscreteShown DriftEnds InstalledWhole
PROPERTIES SupplySteady LockedShown
CHECK_DEADLOCK FALSE
