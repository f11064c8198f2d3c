SPECIFICATION SessionSpec
CONSTANTS
  MaxTickets = 7
  HeldPhases = {"writing", "written"}
  SupportsHttp = TRUE
  SupportsWebsocket = FALSE
  HandlesText = FALSE
  HandlesBinary = FALSE
  PushesText = FALSE
  UpgradePipelined = TRUE
  StrandsCollide = TRUE
  Names = {"list"}
INVARIANTS
  TicketInv
  WriteExclusion
  ResponsesInOrder
  DestroyedLast
  RefusalIsLast
