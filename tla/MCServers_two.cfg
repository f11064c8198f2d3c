SPECIFICATION Spec
CONSTANTS
  Processes = {"p1", "p2"}
  First = "p1"
  Acceptors = {"http", "dummy"}
  Reporting = {"http"}
  Ports <- MCPorts
  Port <- MCPort
  MaxFiles = 3
INVARIANTS
  GivesUpToListener
  CountShortByFailedAccepts
