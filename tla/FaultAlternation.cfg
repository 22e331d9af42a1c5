SPECIFICATION FaultsSpec
CONSTANTS
  FaultKinds = {"plain"}
  FaultSenders = {"a"}
  MaxFlips = 3
  MaxFaultTrips = 0
  FaultQueueMax = 3
CHECK_DEADLOCK FALSE
INVARIANTS
  AlternationKept
