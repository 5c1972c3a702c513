SPECIFICATION Spec
CONSTANTS
  EnabledListeners = {}
  GracefulTimeout = 0
  GracefulTimeoutDefault = 2
  Clients = {c1}
INVARIANTS GracePeriodHonoured
