SPECIFICATION SafetySpec
CONSTANTS
  Threads = {t1}
  Main = main
  Nobody = nobody
  SpuriousWakeups = TRUE
  RequestMayEnd = TRUE
  OtherHandles = 1
  HandlesChurn = FALSE
  HandleModulus = 4
CONSTRAINT ShortQueue
INVARIANTS LoopReleased
PROPERTIES LoopHeldOpen
CHECK_DEADLOCK FALSE
