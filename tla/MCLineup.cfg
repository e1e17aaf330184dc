\* Four players and three slots; with one slot, only three of them count.
SPECIFICATION Spec
CONSTANTS
  Rosters <- RostersOfFour
  SlotLists <- Leagues
  MinCandidates = 3
  PerSlot = 2
INVARIANTS
  TypeOK
  LineupAddsUp
  LineupIsBest
