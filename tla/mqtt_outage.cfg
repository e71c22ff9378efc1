SPECIFICATION OutageSpec
CONSTANTS
  ReqCap = 3
  CmdCap = 1
  MaxCommands = 2
  Malformed <- NoneMalformed
  MaxPublishes = 4
  MaxDrops = 1
  MaxWipes = 0
  MaxStops = 0
  Inflight = 1
PROPERTIES AvailabilityRestored
CHECK_DEADLOCK FALSE
