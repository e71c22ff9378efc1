SPECIFICATION FairSpec
CONSTANTS
  ReqCap = 1
  CmdCap = 2
  MaxCommands = 1
  Malformed <- FirstMalformed
  MaxPublishes = 0
  MaxDrops = 1
  MaxWipes = 1
  MaxStops = 1
  Inflight = 1
PROPERTIES AvailabilityRestored CommandsSubscribed
CHECK_DEADLOCK FALSE
