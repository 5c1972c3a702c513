SPECIFICATION FairSpec
CONSTANTS
  EnabledListeners = {"http", "https"}
  GracefulTimeout = 1
  GracefulTimeoutDefault = 2
  Clients = {c1}
INVARIANTS HookAfterDrain TimeoutHonoured
PROPERTIES SignalStopsProcess
