CONSTANTS
  Messages = 2
  QueueCap = 2
  GSleep = 2
  PSleep = 1
  MaxKills = 0
SPECIFICATION Spec
CHECK_DEADLOCK FALSE
INVARIANTS
  AtMostOneHolder
