SPECIFICATION SafetySpec
CONSTANTS
  Threads = {t1, t2}
  Main = main
  Nobody = nobody
  SpuriousWakeups = FALSE
  RequestMayEnd = TRUE
  OtherHandles = 1
  HandlesChurn = TRUE
  HandleModulus = 4
SYMMETRY ThreadSymmetry
INVARIANTS IInv HandoffOrder NoDanglingInvocation WakeupNotLost
PROPERTIES RPCSafety
CHECK_DEADLOCK FALSE
