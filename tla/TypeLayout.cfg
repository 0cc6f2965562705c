SPECIFICATION Spec
CONSTANTS
  void = void
  char = char
  int = int
  uint8 = uint8
  uint32 = uint32
  uint64 = uint64
  ulong = ulong
  size_t = size_t
  cstring = cstring
  detachedUlong = detachedUlong
  detachedCString = detachedCString
  foreignUint8 = foreignUint8
  foreignBool = foreignBool
  unknown = unknown
  pointer = pointer
  function = function
  chars = chars
  pairs = pairs
  Pair = Pair
  Nest = Nest
  Empty = Empty
  Hollow = Hollow
  Broken = Broken
  Types <- MCTypes
  Kind <- MCKind
  NameOf <- MCNameOf
  Chain <- MCChain
  Detached = {detachedUlong, detachedCString}
  Foreign = {foreignUint8, foreignBool, unknown}
  ElemOf <- MCElemOf
  LenOf <- MCLenOf
  Declared <- MCDeclared
  Given <- MCGiven
  DefinesLate = FALSE
  Signatures <- MCSignatures
  Variadic <- MCVariadic
  LongSize = 8
  MaxCifs = 2
INVARIANTS TypeOK CifMatchesDeclaration ResultFits ResolvesToItsWidth RejectedForGood CifMemoryAlive
