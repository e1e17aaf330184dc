\* Two browser sessions of one dashboard share its connection and sync from
\* Yahoo, with one lost connection or failed write.
SPECIFICATION FairSpec
CONSTANTS
  NoPlayer = NoPlayer
  Players = {lamb, kupp}
  NumTeams = 2
  Rounds = 1
  PickLimit = 2
  Trackers = {phone, laptop}
  YahooOn = TRUE
  HandTeams = {}
  Unmapped = {kupp}
  MaxEdits = 1
  MaxCrashes = 1
  MaxDrops = 1
PROPERTIES
  GreenMeansCopied
  YahooWins
