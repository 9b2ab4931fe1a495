CONSTANTS
  GuestAddress <- MCGuestAddress
  NULL = 0
  Recordings <- GoodRecordings
  KNOWN_FUNC <- MCKnownFunc
  DEFAULT_STEP_SIZE = 5
  Builds = {TRUE, FALSE}
SPECIFICATION Spec
CONSTRAINT
  Skippable
INVARIANTS
  StacksMirrorRecording
  ReferenceInSync
  NoFailure
PROPERTIES
  Implements
