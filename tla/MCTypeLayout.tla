----------------------------- MODULE MCTypeLayout -----------------------------
(* A small instance of TypeLayout for TLC: scalars of this copy of ref, of   *)
(* another copy, and detached ones as in test/types.js; nested structs with  *)
(* padding and arrays; a struct with an empty one, and one with a field      *)
(* whose ffi_type cannot be determined.                                      *)
EXTENDS TypeLayout, TLC

CONSTANTS
  void, char, int, uint8, uint32, uint64, ulong, size_t, cstring,
  detachedUlong, detachedCString, foreignUint8, foreignBool, unknown,
  pointer, function, chars, pairs, Pair, Nest, Empty, Hollow, Broken

MCTypes ==
  {void, char, int, uint8, uint32, uint64, ulong, size_t, cstring,
   detachedUlong, detachedCString, foreignUint8, foreignBool, unknown,
   pointer, function, chars, pairs, Pair, Nest, Empty, Hollow, Broken}

MCKind ==
  [t \in MCTypes |->
     CASE t = pointer -> "pointer"
       [] t = function -> "function"
       [] t \in {chars, pairs} -> "array"
       [] t \in {Pair, Nest, Empty, Hollow, Broken} -> "struct"
       [] OTHER -> "scalar"]

MCNameOf ==
  void :> "void" @@ char :> "char" @@ int :> "int" @@ uint8 :> "uint8"
    @@ uint32 :> "uint32" @@ uint64 :> "uint64" @@ ulong :> "ulong"
    @@ size_t :> "size_t"
    @@ cstring :> "CString" @@ detachedUlong :> "ulong"
    @@ detachedCString :> "CString" @@ foreignUint8 :> "uint8"
    @@ foreignBool :> "bool" @@ unknown :> "other"

MCChain ==
  [t \in DOMAIN MCNameOf |->
     CASE t = size_t -> <<t, uint64>>
       [] t = ulong -> <<t, IF LongSize = 4 THEN uint32 ELSE uint64>>
       [] t = detachedUlong ->
            <<t, ulong, IF LongSize = 4 THEN uint32 ELSE uint64>>
       [] t = detachedCString -> <<t, cstring>>
       [] t = foreignBool -> <<t, foreignUint8>>
       [] OTHER -> <<t>>]

MCElemOf == chars :> char @@ pairs :> Pair
MCLenOf == chars :> 3 @@ pairs :> 2

\* C: struct Nest { char a[3]; Pair b[2]; unsigned long c; };
MCDeclared ==
  Pair :> <<char, int>> @@ Nest :> <<chars, pairs, detachedUlong>>
    @@ Empty :> <<>> @@ Hollow :> <<Empty, int>>
    @@ Broken :> <<Pair, unknown>>

\* A struct without fields comes first in any other, see README.md.
MCGiven == Pair :> 1 @@ Nest :> 1 @@ Empty :> 0 @@ Hollow :> 2 @@ Broken :> 2

MCSignatures ==
  {<<Nest, Pair, chars>>, <<foreignBool, Pair, detachedCString>>,
   <<int, detachedUlong, function>>, <<void, Hollow, pointer>>,
   <<void, Broken>>}

\* What the theorems about the types assume of the declarations.
ASSUME WellDeclared

MCVariadic == {<<foreignBool, Pair, detachedCString>>}
=============================================================================
