SPECIFICATION Spec
CONSTANTS
  Threads = {t1, t2}
  Main = main
  Nobody = nobody
  SpuriousWakeups = FALSE
  RequestMayEnd = FALSE
  OtherHandles = 0
  HandlesChurn = FALSE
  HandleModulus = 2
PROPERTIES RPCSpec
