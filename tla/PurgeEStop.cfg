SPECIFICATION Spec
CONSTANTS
  NoMessage = NoMessage
  StartStates = {"stop"}
  Lossy = FALSE
  Operator = FALSE
  MaxCommands = 0
  MaxInputs = 4
  MaxStops = 0
  MaxLedTicks = 0
  MaxCrashes = 0
CHECK_DEADLOCK FALSE
INVARIANTS
  EStopNeedsReset
