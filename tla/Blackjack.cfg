CONSTANTS
  Clients = {c1, c2}
  Backlog = 1
  Splits = TRUE
  Values = {7, 10}
  MaxLeaves = 1
  Deck = {1, 2, 3, 4, 5, 6, 7, 8, 9, 10}
SPECIFICATION GameSpec
CHECK_DEADLOCK FALSE
INVARIANTS
  ScreenAddsUp
  NothingUnread
  NoMutualWait
PROPERTIES
  RulesSpec
  SoloRulesSpec
  TableEnds
