SPECIFICATION MCSpec
CONSTANTS
  Callers = {cli, page}
  FreshFor = 0
  MaxAge = 1
  Retries = 1
  Horizon = 2
  Runners = {laptop, hosted}
  Terminals = {laptop}
  Keyed = {laptop, hosted}
  MaxNotes = 2
  mine = mine
  rival = rival
  kelce = kelce
  hill = hill
  mostert = mostert
  dillon = dillon
  pitts = pitts
  walker = walker
  waller = waller
  Mine = mine
  Rosters <- MCRosters
  Wire <- MCWire
  PageSize = 2
  Asked = 3
  Weeks = {1, 2}
  Typed = TRUE
  MaxJobs = 3
  LastWeek = 2
  MIN_OBSERVATIONS = 1
  People <- MCPeople
  Lives <- MCLives
  Askers <- MCAskers
  Overrides <- MCOverrides
  Alike <- MCAlike
  IdentityRuns = 2
INVARIANTS
  NotesAreTrue
  DoctorIsRight
  
  ManualOnlyAtTheGate
  OneLeaguePerRun
  WholeWire
  
  VouchedIdsResolve
PROPERTIES
  OldIsFlagged
