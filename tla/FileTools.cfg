CONSTANTS
  Procs = {p, q}
  Umask = {"S_IWGRP"}
  Numbers = {0, 2}
  WildModes <- SomeModes
  MaxTyped = 1
  Counts = {0, 2, 3}
  Chunk = 2
  Octals <- SomeOctals
  Texts <- SomeTexts
  Modes <- SomeModes
  MaxRuns = 3
  MaxKills = 1
SYMMETRY Alike
SPECIFICATION Spec
INVARIANTS
  RepShows
  RowsTell
PROPERTIES
  FileSpec
