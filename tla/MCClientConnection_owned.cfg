SPECIFICATION ClientSpec
CONSTANTS
  MaxTickets = 4
  HeldPhases = {"connecting", "abandoned", "sending", "reading", "answered", "handshaking"}
INVARIANTS
  RightResponse
  UpgradeKeepsRequests
  ClientStatsBalance
PROPERTIES
  EveryRequestAnswered
  LeakedOnlyIfUnconnected
