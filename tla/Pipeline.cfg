CONSTANTS
  Messages = 3
  QueueCap = 2
  GSleep = 2
  PSleep = 1
  MaxKills = 1
SPECIFICATION FairSpec
CHECK_DEADLOCK FALSE
INVARIANTS
  UnitConserved
  OnlyWholeTexts
  FileInOrder
  CleanEnd
  OnlyLastMayBeLost
PROPERTIES
  AllTerminate
