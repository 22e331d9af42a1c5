SPECIFICATION Spec
CONSTANTS
  NoMessage = NoMessage
  StartStates = {"stop"}
  Lossy = FALSE
  Operator = FALSE
  MaxCommands = 1
  MaxInputs = 3
  MaxStops = 0
  MaxLedTicks = 0
  MaxCrashes = 0
CHECK_DEADLOCK FALSE
INVARIANTS
  FaultReachesMicrotom
