\* A person corrects the number in the box, then takes a pick back.
SPECIFICATION MCSpec
CHECK_DEADLOCK FALSE
CONSTANTS
  Nobody = Nobody
  Unanswered = Unanswered
  Threshold = 3
  TopN = 2
  BYE_HORIZON = 3
  PLAYOFF_WEEKS = {15, 16, 17}
  WIRE_LIMIT = 2
  MIN_TIER_SIZE = 2
  MarketDepth = 60
  MarketSample = 2
  DedupHours = 72
  FirstWeek = 13
  DraftAt = 110
  TradeEnd = 150
  PlayoffWeek = 14
  RunHours = {31, 79, 104, 154}
  Lateness = {0, 6}
  LastHour = 376
  Drafted = {lamb, hill}
  NoOne = NoOne
  TeamCount = 2
  RoundCount = 3
  LastPick = 4
  MySlot = 1
INVARIANT NoPhantomPicks
