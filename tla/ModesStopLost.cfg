SPECIFICATION Spec
CONSTANTS
  StartStates = {5, 9}
  MaxCommands = 2
  MaxPresses = 0
  MaxRemovals = 0
  MaxInputs = 0
  MaxCrashes = 0
  MaxEvents = 2
CHECK_DEADLOCK FALSE
INVARIANTS
  StopObeyed
