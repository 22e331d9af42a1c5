SPECIFICATION FairSpec
CONSTANTS
  Urls = {"primary", "secondary", "other"}
  PrimaryUrls = {"primary"}
  SecondaryUrls = {"secondary"}
  InvalidUrls = {"other"}
  Params = {"MAS0001", "MAS0028"}
  NoKey = "no key"
  NoRow = NoRow
  NoCall = NoCall
  Requests <- LaneRequests
  Producers = {p1}
  Calls <- LaneCalls
  MaxId = 2
  MaxCrashes = 1
  MaxDbErrors = 1
  DownAfter = 1
CHECK_DEADLOCK FALSE
INVARIANTS
  TypeOK
  JobsStayValid
PROPERTIES
  AtLeastOnce
  PrimaryDrains
