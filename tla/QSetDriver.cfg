CONSTANTS
  Users = {u1, u2}
  Q = 3
  S = 2
  MaxCount = 2
  Half = 4
  Offsets = {5, 12, 25}
  Junk = {0, 7}
SYMMETRY Alike
SPECIFICATION Spec
CONSTRAINT Explored
INVARIANTS
  NoHole
  ReadsWhatWasWritten
  
  WithinCapacity
PROPERTIES
  SizeNeverShrinks
