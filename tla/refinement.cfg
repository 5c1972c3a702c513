SPECIFICATION FairSpec
CONSTANTS
  None = None
  d1 = d1
  d2 = d2
  tx = tx
  s1 = s1
  Data = {tx}
  SignatureIDs = {s1}
  Requests = {r1, r2, r3}
  DeviceIDs = {d1, d2}
  MaxInt64 = 7
  Calls <- EveryCall
  Wired <- ServerWiring
PROPERTY ImplementsLedger HandlersReturn
