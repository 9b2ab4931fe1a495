CONSTANTS
  GuestAddress <- MCGuestAddress
  NULL = 0
  Recordings <- AnyRecordings
  KNOWN_FUNC <- MCKnownFunc
  DEFAULT_STEP_SIZE = 5
  Builds = {TRUE, FALSE}
SPECIFICATION FairSpec
INVARIANTS
  TypeOK
  AtReference
  PartsAtNext
  AssertionsGuard
PROPERTIES
  EndsOrExhausted
