SPECIFICATION FairSpec
CONSTANTS
  Nodes <- MCNodes
  Primary = "n1"
  Joined <- MCJoined
  Addressed <- MCAddressed
  Roles <- MCRoles
  Runtime = "php8.5"
  MaxStarts = 2
  MaxFaults = 1
  Turbulent <- MCTurbulent
INVARIANTS
  OthersConverge
  ActiveIsConverged
PROPERTIES
  InServiceStays
  StuckIsNoticed
CHECK_DEADLOCK FALSE
