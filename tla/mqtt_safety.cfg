SPECIFICATION Spec
CONSTANTS
  ReqCap = 1
  CmdCap = 2
  MaxCommands = 2
  Malformed <- NoneMalformed
  MaxPublishes = 1
  MaxDrops = 1
  MaxWipes = 1
  MaxStops = 1
  Inflight = 1
INVARIANTS TypeOK OnlineIsRetracted NoCommandOvertakes
CHECK_DEADLOCK FALSE
