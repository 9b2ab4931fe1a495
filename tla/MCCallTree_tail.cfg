CONSTANTS
  GuestAddress <- MCGuestAddress
  NULL = 0
  Sessions <- LongSessions
  STEP_COUNT = 3
  Word = 16
SPECIFICATION Spec
INVARIANTS
  IndentIsDepth
