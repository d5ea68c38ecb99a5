SPECIFICATION Spec
CONSTANTS
  h1 = h1
  h2 = h2
  r1 = r1
  r2 = r2
  r3 = r3
  r4 = r4
  d1 = d1
  d2 = d2
  NoOne = NoOne
  Requests <- MCRequests
  Devices <- MCDevices
  Bytes <- MCBytes
  Handlers <- TwoHandlers
  Owner <- SharedOwner
  Timeout <- Patient
  MaxAllocTimeout = "inf"
  MaxSize = 4
  HandlesPerAlloc = 2
  PipeCap = 6
CHECK_DEADLOCK FALSE
INVARIANT
  WithinBudget
