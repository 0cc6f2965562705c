SPECIFICATION Spec
CONSTANTS
  int = int
  char = char
  double = double
  intPtr = intPtr
  point = point
  Types = {int, char, double}
  PointerNames = {}
  Structs = {}
  Unfit = {}
  FixedArgs <- OneFixed
  ReturnType = int
  MayPatch = FALSE
  UsedBefore = {0}
  HexBase = 16
  LowZeros = 4
  WrapAt = 65536
  MaxCounter = 17
  MaxCached = 2
  MaxVarArgs = 2
INVARIANTS RightSignature
CHECK_DEADLOCK FALSE
