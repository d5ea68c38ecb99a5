SPECIFICATION Spec
CONSTANTS
  h1 = h1
  h2 = h2
  r1 = r1
  r2 = r2
  r3 = r3
  r4 = r4
  d1 = d1
  d2 = d2
  NoOne = NoOne
  Requests <- FourRequests
  Devices <- MCDevices
  Bytes <- FourBytes
  Handlers <- OneHandler
  Owner <- SingleOwner
  Timeout <- FourHurried
  MaxAllocTimeout = "inf"
  MaxSize = 4
  HandlesPerAlloc = 2
  PipeCap = 3
CHECK_DEADLOCK FALSE
INVARIANTS
  BytesAccounted
  WithinBudget
PROPERTY
  ImplementsContract
