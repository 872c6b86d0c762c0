SPECIFICATION Spec
CONSTANTS
  Fds = {1, 2, 3}
  Calls = {c1, c2}
  Responses <- MCResponses
  Usual <- MCUsual
  RequestSize = 2
  MaxWouldBlock = 1
INVARIANTS CallsSettle CallbacksOwned
PROPERTIES CallsReturn
CHECK_DEADLOCK FALSE
