SPECIFICATION FairServerSpec
CONSTANTS
  None = None
  d1 = d1
  tx = tx
  s1 = s1
  Data = {tx}
  SignatureIDs = {s1}
  Requests = {r1, r2, r3, r4}
  DeviceIDs = {d1}
  MaxInt64 = 7
  Calls <- Writes
  Wired <- ServerWiring
  MaxRestarts = 1
  MayPanic = {"generate", "sign"}
INVARIANTS
  OneChainPerKey
  AnswersVerifyInTheirLife
  LockLeaksOnlyBySigning
PROPERTIES
  LivesFollowTheLedger
  NothingMovesOnceLeaked
  PanicsAreContained
CHECK_DEADLOCK FALSE
