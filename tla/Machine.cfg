SPECIFICATION PartsFair
CONSTANTS
  Parts = {"start", "setup", "recovery", "curtain", "panel", "leds", "outputs", "sea",
           "broker", "faults", "inbox", "settings"}
  MaxWants = 3
  MaxEdits = 1
  MaxCuts = 2
  MaxBoots = 1
  MaxFaults = 1
  MaxTroubles = 2
  SuWicklers = {u, r}
  MaxSetups = 1
  MaxAborts = 1
  RcSetups = {1}
  MaxEstops = 1
  MaxResets = 1
  MaxClears = 1
  MaxOps = 3
  MaxParks = 1
  MaxBreaks = 1
  MaxPulses = 1
  MaxLosses = 1
  PanelButtons = {"start_pause", "stop"}
  PanelQueueMax = 4
  MaxTouches = 2
  MaxPanelErrors = 1
  MaxLedErrors = 1
  MaxIoEvents = 2
  VerifyTries = 2
  OfflineAfter = 1
  MaxSeaEvents = 4
  StopCalls = {"s"}
  PlainCalls = {"p"}
  BrokerQueue = 1
  MaxTries = 2
  FaultKinds = {"plain", "bounce", "dancer"}
  FaultSenders = {"a", "b", "runtime"}
  MaxFlips = 3
  MaxFaultTrips = 1
  FaultQueueMax = 3
  LastNumber = 2
  MaxRows = 2
  MaxCopies = 2
  MaxCrashes = 1
  MaxDbErrors = 1
  Routes = {"esp", "printer", "raspi"}
  MaxWishes = 1
  MaxPageWrites = 1
  MaxMishaps = 1
CHECK_DEADLOCK FALSE
INVARIANTS
  StartInv
  SetupInv
  RecoveryInv
  CurtainInv
  BrokerInv
  InboxInv
  SettingsInv
  MachineInv
PROPERTIES
  StartEnds
  SetupAnswered
  WicklersBack
  LastPressWins
  OutputFollows
  BrokerServes
  ViewFollows
  PendingIsTaken
  MachineSettles
