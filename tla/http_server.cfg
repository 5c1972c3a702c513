SPECIFICATION FairSpec
CONSTANTS
  EnabledListeners = {}
  GracefulTimeout = 2
  GracefulTimeoutDefault = 2
  Clients = {c1, c2}
INVARIANTS TypeOK ClosedOnce StopsOnlyWhenAsked GracePeriodHonoured
PROPERTIES SignalStopsProcess
