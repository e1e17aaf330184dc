\* Copied picks and the rosters of the slots that made them.
SPECIFICATION Spec
CONSTANTS
  NoPlayer = NoPlayer
  Players = {lamb, hill, kupp}
  NumTeams = 2
  Rounds = 2
  PickLimit = 3
  Trackers = {phone}
  YahooOn = TRUE
  HandTeams = {}
  Unmapped = {kupp}
  MaxEdits = 3
  MaxCrashes = 1
  MaxDrops = 0
SYMMETRY MappedPlayers
INVARIANT CopiedPicksReachTheirRoster
