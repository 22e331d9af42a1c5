SPECIFICATION PrimaryHangs
CONSTANTS
  Urls = {"primary", "secondary"}
  PrimaryUrls = {"primary"}
  SecondaryUrls = {"secondary"}
  InvalidUrls = {}
  Params = {"MAS0001", "MAS0028"}
  NoKey = "no key"
  NoRow = NoRow
  NoCall = NoCall
  Requests <- AuxRequests
  Producers = {p1, p2}
  Calls <- AuxCalls
  MaxId = 3
  MaxCrashes = 0
  MaxDbErrors = 0
  DownAfter = 1
CHECK_DEADLOCK FALSE
INVARIANTS
  ReplaceKeyBounded
PROPERTIES
  AuxDrains
  RegressionOnlyByCrossing
