SPECIFICATION SafetySpec
CONSTANTS
  Threads = {t1, t2}
  Main = main
  Nobody = nobody
  SpuriousWakeups = FALSE
  RequestMayEnd = TRUE
  OtherHandles = 0
  HandlesChurn = FALSE
  HandleModulus = 4
PROPERTIES LoopHeldOpen
CHECK_DEADLOCK FALSE
