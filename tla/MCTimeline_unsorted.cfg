CONSTANTS
  MaxWord = 3
  EventLists <- DistinctLists
SPECIFICATION Spec
INVARIANTS
  Sorted
