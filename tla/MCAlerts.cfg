\* One runner, e-mail and desktop, one death.
SPECIFICATION FairSpec
CONSTANTS
  Runners = {github}
  Players = {lamb}
  lamb = lamb
  Tags = {questionable, out}
  Healthy = Healthy
  Unset = Unset
  Views <- WholeRoster
  Enabled = {"email", "desktop"}
  Window = 1
  MaxClock = 1
  MaxMoves = 2
  MaxCrashes = 1
INVARIANTS
  TypeOK
  RepeatsNeedCrashes
PROPERTIES
  
  BaselineCatchesUp
