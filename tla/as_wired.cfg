SPECIFICATION Spec
CONSTANTS
  None = None
  d1 = d1
  d2 = d2
  tx = tx
  s1 = s1
  Data = {tx}
  SignatureIDs = {s1}
  Requests = {r1}
  DeviceIDs = {d1}
  MaxInt64 = 7
  Calls <- OneDevice
  Wired <- ServerWiring
INVARIANTS DocumentedStatus
