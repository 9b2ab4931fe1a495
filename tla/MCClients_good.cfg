CONSTANTS
  SCARCE = 6
  FULL = 8
  Lengths <- MCLengths
  ACCESSES = 2
SPECIFICATION Spec
INVARIANTS
  TypeOK
  LeaksExact
PROPERTIES
  LongExportFails
