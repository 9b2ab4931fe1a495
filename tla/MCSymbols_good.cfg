CONSTANTS
  Modules <- MCModules
  SymbolPaths = {"unset", "srv", "SRV", "other", "short"}
  GARBAGE = GARBAGE
  SCARCE = 9
  FULL = 12
SPECIFICATION Spec
INVARIANTS
  TypeOK
  RightSymbols
  ForeignOnlyUnread
  HeapExact
  CrashOnlyScarce
