CONSTANTS
  GuestAddress <- MCGuestAddress
  NULL = 0
  Recordings <- ReentrantRecordings
  KNOWN_FUNC <- MCKnownFunc
  DEFAULT_STEP_SIZE = 5
  Builds = {FALSE}
SPECIFICATION Spec
INVARIANTS
  ReturnsMatch
