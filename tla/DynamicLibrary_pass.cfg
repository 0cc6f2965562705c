SPECIFICATION Spec
CONSTANTS
  libm = libm
  libc = libc
  chain = chain
  toLibm = toLibm
  cycle = cycle
  unnamed = unnamed
  text = text
  lost = lost
  broken = broken
  ceil = ceil
  exp = exp
  Objects = {o1, o2, o3}
  Libraries = {l1}
  Elfs = {libm, libc}
  Scripts = {chain, toLibm, cycle, unnamed}
  Texts = {text, broken}
  Missing = {lost}
  SoNamed = {libm, libc, chain, toLibm, cycle, text, lost, broken}
  Blamed <- Names
  Target <- Files
  Symbols = {ceil, exp}
  Exports <- Tables
  None = none
  CallStack = 10
  MayCloseAgain = FALSE
SYMMETRY ObjectSymmetry
INVARIANTS TypeOK FollowsScripts OpenStaysMapped FunctionsUsable
CHECK_DEADLOCK FALSE
