CONSTANTS
  GuestAddress <- MCGuestAddress
  NULL = 0
  Register <- MCRegister
  Value = {0, 1, 2, 3, 4, 5, 6}
  Address = {"x", "y"}
  UNMAPPED = UNMAPPED
  PARTIAL = PARTIAL
  Name = {"lsm", "ntdll", "cmd"}
  NO_NAME = ""
  Sessions <- AllSessions
SPECIFICATION Spec
INVARIANTS
  TypeOK
  RegistersExact
  MemoryExact
  LinesExact
  SummaryExact
