SPECIFICATION FairSpec
CONSTANTS
  ReqCap = 1
  CmdCap = 1
  MaxCommands = 1
  Malformed <- NoneMalformed
  MaxPublishes = 1
  MaxDrops = 1
  MaxWipes = 0
  MaxStops = 1
  Inflight = 1
PROPERTIES CommandsExecuted Discovered StopHonoured WaitIsForEver
CHECK_DEADLOCK FALSE
