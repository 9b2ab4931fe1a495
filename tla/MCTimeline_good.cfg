CONSTANTS
  MaxWord = 3
  EventLists <- MCLists
SPECIFICATION Spec
INVARIANTS
  TypeOK
  EveryEventOnce
  OnlyUnloadsLate
  Progress
