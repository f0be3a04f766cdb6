CONSTANTS
  Users = {u}
  Helpers = {h1, h2}
  Base = 2
  MaxOpens = 3
  MaxSize = 2
  Stack = {junk}
  Writers = {w1, w2}
  Default = 3
  Short = 1
SPECIFICATION DriversSpec
INVARIANTS
  CountsEveryOpen
  ReadsTexts
  OnIsArmed
  AtMostOneLateToggle
  AtMostOneRunAfterExit
PROPERTIES
  HelperSays
  Blinks
