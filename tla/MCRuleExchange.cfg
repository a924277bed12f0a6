CONSTANTS
  NoBody = NoBody
  NoLimit = NoLimit
  NoCapture = NoCapture
  BadURL = BadURL
  BadPattern = BadPattern
  MaxDelay = 3
  RuleLists <- MCRuleLists
  AllSettings <- MCSettings
  Requests <- MCRequests
  NoAuthority = NoAuthority
  LocalNames = {"here"}
  ProxyPort = 8080
  UiPort = 8081
  Responses <- MCResponses
  Documents <- MCDocuments
  Paths <- MCPaths
SPECIFICATION Spec
INVARIANTS TypeOK RequestStreamingUnseen ResponseStreamingUnseen ClaimsOrigin UnmodifiedIsOriginal PatchesAreLocal
CHECK_DEADLOCK FALSE
