SPECIFICATION Spec
CONSTANTS
  Requests <- AllRequests
  Wired <- RunWiring
  Sizes = {1, 3}
  maxLoggedBody = 2
INVARIANTS
  TypeOK
  LogReportsAnswer
  RoutedIsLogged
  AnswersCarryHeaders
  WholeAnswerIsOneMessage
  
  ServedByService
  HandlerAnswersConform
  RefusedOnlyForZeros
  BuiltUrlRoutesBack
