SPECIFICATION Spec
CONSTANTS
  Nodes <- MCNodes
  Primary = "n1"
  Joined <- MCJoined
  Addressed <- MCAddressed
  Roles <- MCWeb
  Runtime = "static"
  MaxStarts = 2
  MaxFaults = 0
  Turbulent <- MCTurbulent
INVARIANTS
  QuietIsConverged
CHECK_DEADLOCK FALSE
