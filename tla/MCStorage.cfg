SPECIFICATION MCSpec
CONSTANTS
  Clients = {cli, dash}
  Dashboards = {dash}
  MaxFaults = 1
  Pastes <- MCPastes
  StartingPoints <- MCStart
  Laptop <- MCLaptop
  MaxCopies = 2
  MaxRuns = 3
INVARIANTS
  VersionIsTrue
  ReadyMeansCurrent
  
  
  
PROPERTIES
  PurgeIsComplete
  EndsCurrent
