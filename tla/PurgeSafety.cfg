SPECIFICATION Spec
CONSTANTS
  NoMessage = NoMessage
  StartStates = {"production"}
  Lossy = TRUE
  Operator = TRUE
  MaxCommands = 1
  MaxInputs = 1
  MaxStops = 1
  MaxLedTicks = 0
  MaxCrashes = 0
CHECK_DEADLOCK FALSE
INVARIANTS
  PurgeInv
  NoStaleAfterAck
