CONSTANTS
  Procs = {p, q}
  Umask = {"S_IWGRP"}
  Numbers = {0, 2}
  WildModes <- SomeModes
  MaxTyped = 1
  Counts = {1, 2}
  Chunk = 2
  Octals <- SomeOctals
  Texts <- PlainTexts
  Modes <- SomeModes
  MaxRuns = 1
  MaxKills = 0
SYMMETRY Alike
SPECIFICATION Spec
INVARIANTS
  RepPrintsAsAsked
