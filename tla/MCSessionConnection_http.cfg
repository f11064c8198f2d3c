SPECIFICATION SessionSpec
CONSTANTS
  MaxTickets = 5
  HeldPhases = {"writing", "written"}
  SupportsHttp = TRUE
  SupportsWebsocket = TRUE
  HandlesText = TRUE
  HandlesBinary = TRUE
  PushesText = FALSE
  UpgradePipelined = FALSE
  StrandsCollide = FALSE
  Names = {"list", "copy"}
INVARIANTS
  TypeOK
  NamedServiceIsCalled
  HandshakeSeparates
  StatsBalance
  NoAnswerLost
PROPERTIES
  EveryTicketServed
  EventuallyDestroyed
  ImplementsResponseQueue
  ImplementsCallQueue
