SPECIFICATION Spec
CONSTANTS
  int = int
  char = char
  double = double
  intPtr = intPtr
  point = point
  Types = {int, char, double}
  PointerNames = {}
  Structs = {point}
  Unfit = {double}
  FixedArgs <- OneFixed
  ReturnType = int
  MayPatch = TRUE
  UsedBefore = {0, 4}
  HexBase = 16
  LowZeros = 4
  WrapAt = 65536
  MaxCounter = 7
  MaxCached = 2
  MaxVarArgs = 2
INVARIANTS TypeOK RightSignature SameSignatureReused
CHECK_DEADLOCK FALSE
