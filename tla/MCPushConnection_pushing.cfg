SPECIFICATION PushSpec
CONSTANTS
  MaxTickets = 3
  HeldPhases = {"writing", "written"}
  SupportsHttp = FALSE
  SupportsWebsocket = TRUE
  HandlesText = FALSE
  HandlesBinary = FALSE
  PushesText = TRUE
  UpgradePipelined = FALSE
  StrandsCollide = FALSE
INVARIANTS
  UnsafeOnlyAfterFailure
  ThreadKeepsConnection
PROPERTIES
  FailedWriteEndsCycle
