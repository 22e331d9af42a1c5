SPECIFICATION FairSpec
CONSTANTS
  Urls = {"primary"}
  PrimaryUrls = {"primary"}
  SecondaryUrls = {}
  InvalidUrls = {}
  Params = {"MAS0001", "MAS0028"}
  NoKey = "no key"
  NoRow = NoRow
  NoCall = NoCall
  Requests <- DrainRequests
  Producers = {p1}
  Calls <- DrainCalls
  MaxId = 1
  MaxCrashes = 0
  MaxDbErrors = 1
  DownAfter = 1
CHECK_DEADLOCK FALSE
PROPERTIES
  RetriedUntilAnswered
