SPECIFICATION Spec
CONSTANTS
  Threads = {t1, t2}
  MayOverlap = FALSE
  Flags = {failCritical, noGPFaultErrorBox}
  FailCritical = failCritical
  ProgramMode = {noGPFaultErrorBox}
  Codes = {notFound, notReady}
  Critical = {notReady}
  NoError = noError
  Null = null
INVARIANTS TypeOK NoErrorDialog ErrorModeKept ReportsOwnError
