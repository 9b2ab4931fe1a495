CONSTANTS
  GuestAddress <- MCGuestAddress
  NULL = 0
  Sessions <- AllSessions
  STEP_COUNT = 3
  Word = 16
SPECIFICATION FairSpec
INVARIANTS
  TypeOK
  TreeExact
  RepeatsOnlyTail
  FinalPosition
PROPERTIES
  Terminates
