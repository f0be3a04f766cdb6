CONSTANTS
  N = 3
  Backlog = 1
  CallsMayFail = TRUE
SPECIFICATION FairSpec
INVARIANTS
  NoForgottenZombie
  OwnReply
PROPERTIES
  ServiceEnds
