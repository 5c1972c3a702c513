SPECIFICATION Spec
CONSTANTS
  Requests <- FewRequests
  Wired <- RunWiring
  Sizes = {1, 3}
  maxLoggedBody = 2
INVARIANTS InvalidInputIs400
