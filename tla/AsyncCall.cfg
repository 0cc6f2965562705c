SPECIFICATION Spec
CONSTANTS
  Calls = {c1, c2, c3}
  Workers = {w1, w2}
  NoCall = nocall
  NativeMayThrow = TRUE
  CallbackMayThrow = TRUE
  ResultMayThrow = TRUE
INVARIANTS TypeOK ParamsLifetime NoUseAfterFree AnswerFollowsWork
PROPERTIES KeepsPromise
CHECK_DEADLOCK FALSE
