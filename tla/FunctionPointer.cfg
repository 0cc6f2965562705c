SPECIFICATION FSpec
CONSTANTS
  Callbacks = {k1, k2, k3}
  Kept = {k1}
  Slots = {s1, s2}
  Threads = {t1}
  Main = main
  Nothing = nothing
SYMMETRY LifetimeSymmetry
INVARIANTS FTypeOK HeldCallbackWorks RunsOwnFunction FunctionsReleased WrittenFunctionRuns
CHECK_DEADLOCK FALSE
