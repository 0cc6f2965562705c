------------------------------ MODULE TypeLayout ------------------------------
(***************************************************************************)
(* From a signature to a prepared ffi_cif: the ffi_type that Type()        *)
(* (src/lib/type.js) finds or builds for each ref type and caches on it,   *)
(* the types that src/lib/ffi.js sets up, CIF() and CIF_var(), what        *)
(* libffi's ffi_prep_cif_core writes into the structs' ffi_types, and the  *)
(* references that keep that memory from the collector.                    *)
(*                                                                         *)
(* A call of CIF() runs JavaScript and libffi without interruption, so it  *)
(* is one action; what lasts between calls is what this module is about.   *)
(* An ffi_type is named by the entry of FFI_TYPES it is, or by the struct  *)
(* type it was built for.                                                  *)
(***************************************************************************)
EXTENDS Integers, Sequences, FiniteSets, Functions

CONSTANTS
  Types,           \* the ref types of the program
  Kind,            \* "scalar", "pointer", "function", "array" or "struct"
  NameOf,          \* of a scalar: type.name
  Chain,           \* of a scalar: itself and the types it inherits from
  Detached,        \* scalars whose own ffi_type is set to undefined
  Foreign,         \* scalars of another copy of ref, which ffi.js did not see
  ElemOf, LenOf,   \* of an array: type.type, and fixedLength or 0
  Declared,        \* of a struct: the fields the program defines, in order
  Given,           \* how many of them it gives to Struct() itself
  DefinesLate,     \* may it define more fields once the ffi_type was built?
  Signatures,      \* what is passed to CIF(): the return type, then arguments
  Variadic,        \* those of them that are passed to CIF_var()
  LongSize,        \* ref.sizeof.long
  MaxCifs          \* bound on the number of ffi_cifs in use

PointerSize == 8
FfiArgSize == 8
Structs == {t \in Types : Kind[t] = "struct"}
Arrays == {t \in Types : Kind[t] = "array"}
Scalars == {t \in Types : Kind[t] = "scalar"}

\* The entries of FFI_TYPES and the sizes libffi gives them.
FFI_TYPES ==
  [void |-> 1, char |-> 1, uint8 |-> 1, int |-> 4, uint32 |-> 4, int32 |-> 4,
   uint64 |-> 8, int64 |-> 8, longlong |-> LongSize, ulonglong |-> LongSize,
   double |-> 8, pointer |-> PointerSize]

\* The ffi_types, and what the property ffi_type of a type may be.
FfiTypes == DOMAIN FFI_TYPES \union Structs
OwnProperties == FfiTypes \union {"unset", "undefined"}

ASSUME KindAssumption ==
  /\ IsFiniteSet(Types)
  /\ Kind \in [Types -> {"scalar", "pointer", "function", "array", "struct"}]
  /\ Types \intersect (DOMAIN FFI_TYPES \union {"unset", "undefined"}) = {}
ASSUME ScalarAssumption ==
  /\ Chain \in [Scalars -> Seq(Scalars) \ {<<>>}]
  /\ \A t \in Scalars :
       /\ Head(Chain[t]) = t
       /\ Tail(Chain[t]) # <<>> => Tail(Chain[t]) = Chain[Chain[t][2]]
  /\ Detached \union Foreign \subseteq Scalars
ASSUME OthersAssumption ==
  /\ ElemOf \in [Arrays -> Types] /\ LenOf \in [Arrays -> Nat]
  /\ Declared \in [Structs -> Seq(Types)]
  /\ Given \in [Structs -> Nat]
  /\ \A t \in Structs : Given[t] <= Len(Declared[t])
  /\ Signatures \subseteq Seq(Types) \ {<<>>}
  /\ Variadic \subseteq Signatures
  /\ DefinesLate \in BOOLEAN
  /\ MaxCifs \in Nat
  /\ LongSize \in {4, 8}

VARIABLES
  defined,         \* how many fields each struct has so far
  own,             \* each type's own property ffi_type
  elements,        \* the elements of each struct's ffi_type
  size, alignment, \* what libffi last wrote into it
  cifs,            \* the ffi_cifs in use, each with its signature
  rejected,        \* signatures for which CIF() has thrown
  kept,            \* struct types the program itself refers to
  alive            \* structs whose ffi_type has not been collected

memory == <<elements, size, alignment>>
vars == <<defined, own, memory, cifs, rejected, kept, alive>>

fields(t) == SubSeq(Declared[t], 1, defined[t])

-----------------------------------------------------------------------------
(* Sizes.  All scalars here are aligned to their size.                     *)

\* ref.types[name].size: the size in C.
SizeInC ==
  [void |-> 0, other |-> 0, bool |-> 1, char |-> 1, uint8 |-> 1, int |-> 4,
   uint32 |-> 4, uint64 |-> 8, long |-> LongSize, ulong |-> LongSize,
   longlong |-> 8,
   size_t |-> PointerSize, double |-> 8, CString |-> PointerSize,
   Object |-> PointerSize]

AlignUp(n, a) == IF a = 0 THEN n ELSE ((n + a - 1) \div a) * a
Larger(m, n) == IF m > n THEN m ELSE n

-----------------------------------------------------------------------------
(* Type().  A state s of it has own and elements, the ffi_types that it     *)
(* has returned in got, and whether an exception is on its way.            *)

Calls == [own : [Types -> OwnProperties], elements : [Structs -> Seq(FfiTypes)],
          got : Seq(FfiTypes), threw : BOOLEAN]

Returns(s, p) == [s EXCEPT !.got = Append(@, p)]
Asserts(s) == [s EXCEPT !.threw = TRUE]

First(N) == CHOOSE n \in N : \A m \in N : n <= m

\* type.ffi_type: its own property, or else the one it inherits.
Property(owns, t) ==
  LET set == {n \in DOMAIN Chain[t] : owns[Chain[t][n]] # "unset"}
  IN CASE Kind[t] \in {"pointer", "function"} -> "pointer"
       [] t \in Scalars /\ set # {} -> owns[Chain[t][First(set)]]
       [] Kind[t] \in {"array", "struct"} /\ owns[t] # "unset" -> owns[t]
       [] OTHER -> "undefined"

Entry(c) == IF NameOf[c] \in DOMAIN FFI_TYPES THEN NameOf[c] ELSE "undefined"

\* Mutant: only the type's own name is looked up.
NamedTypeOwn(s, t) ==
  LET found == IF NameOf[t] = "CString" THEN "pointer" ELSE Entry(t)
      r == [s EXCEPT !.own[t] = found]
  IN IF found = "undefined" THEN Asserts(r) ELSE Returns(r, found)

\* "CString" is a pointer.  For other names, up the prototypes to one with an
\* entry: each on the way gets ffi_type = FFI_TYPES[its name].
NamedType(s, t) ==
  LET named == {n \in DOMAIN Chain[t] : Entry(Chain[t][n]) # "undefined"}
      visited == {Chain[t][n] : n \in {m \in DOMAIN Chain[t] :
                                         \A k \in named : m <= k}}
      r == [s EXCEPT !.own = [c \in Types |-> IF c \in visited THEN Entry(c)
                                              ELSE s.own[c]]]
  IN IF NameOf[t] = "CString"
     THEN Returns([s EXCEPT !.own[t] = "pointer"], "pointer")
     ELSE IF named = {} THEN Asserts(r)
     ELSE Returns(r, Entry(Chain[t][First(named)]))

Then(call, s, t) == IF s.threw THEN s ELSE call[s][t]

\* Calls of Type() for each in turn, up to one that throws.
TypeOfEach(call, s, ts) ==
  LET each[i \in 0..Len(ts)] ==
        IF i = 0 THEN s ELSE Then(call, each[i - 1], ts[i])
  IN each[Len(ts)]

Fixed(f) == Kind[f] = "array" /\ LenOf[f] > 0

\* What Type() is called for: an array in a struct is not passed by reference.
Member(f) == IF Fixed(f) THEN ElemOf[f] ELSE f
ElementTypes(fs) == [i \in DOMAIN fs |-> Member(fs[i])]

\* Mutant: a fixed-length array is one element.
ElementsOne(fs, ffiTypes) == ffiTypes

\* It is as many elements as it is long.
Elements(fs, ffiTypes) ==
  LET Count(f) == IF Fixed(f) THEN LenOf[f] ELSE 1
      all[i \in 0..Len(fs)] ==
        IF i = 0 THEN <<>>
        ELSE all[i - 1] \o [j \in 1..Count(fs[i]) |-> ffiTypes[i]]
  IN all[Len(fs)]

\* Mutant: the ffi_type is cached at once and its elements are written one by
\* one, so that a last field that throws leaves the others in it.
StructTypeEarly(call, s, t) ==
  LET r == TypeOfEach(call, [s EXCEPT !.own[t] = t, !.got = <<>>],
                      ElementTypes(fields(t)))
  IN IF r.threw THEN [r EXCEPT !.elements[t] = r.got]
     ELSE [r EXCEPT !.elements[t] = Elements(fields(t), r.got),
                    !.got = Append(s.got, t)]

\* Mutant: the ffi_type is not cached.
StructTypeUncached(call, s, t) ==
  LET r == TypeOfEach(call, [s EXCEPT !.got = <<>>], ElementTypes(fields(t)))
  IN IF r.threw THEN r
     ELSE [r EXCEPT !.elements[t] = Elements(fields(t), r.got),
                    !.got = Append(s.got, t)]

\* A new ffi_type with the elements of the fields so far, cached on the type.
StructType(call, s, t) ==
  LET r == TypeOfEach(call, [s EXCEPT !.got = <<>>], ElementTypes(fields(t)))
  IN IF r.threw THEN r
     ELSE [r EXCEPT !.own[t] = t,
                    !.elements[t] = Elements(fields(t), r.got),
                    !.got = Append(s.got, t)]

\* The whole function, but for what it returns at once.
NewType(call, s, t) ==
  CASE Kind[t] = "array" -> Returns(s, "pointer")
    [] Kind[t] = "struct" -> StructType(call, s, t)
    [] Kind[t] = "scalar" -> NamedType(s, t)

\* Structs can be nested as deep as there are structs.  One that is nested in
\* itself overflows the stack, which is an exception too.
Nesting == Cardinality(Structs) + 1

\* Type() where n calls of it fit on the stack.
TypeWithin[n \in 0..Nesting] ==
  [s \in Calls |-> [t \in Types |->
     LET set == Property(s.own, t) IN
     IF n = 0 THEN Asserts(s)
     ELSE IF set # "undefined" THEN Returns(s, set)
     ELSE NewType(TypeWithin[n - 1], s, t)]]

Type == TypeWithin[Nesting]

Now == [own |-> own, elements |-> elements, got |-> <<>>, threw |-> FALSE]

-----------------------------------------------------------------------------
(* libffi.  A state m of its memory has the structs' ffi_types and ok.      *)

Memories == [elements : [Structs -> Seq(FfiTypes)], size : [Structs -> Nat],
             alignment : [Structs -> Nat], ok : BOOLEAN]

SizeIn(m, p) == IF p \in Structs THEN m.size[p] ELSE FFI_TYPES[p]
AlignmentIn(m, p) == IF p \in Structs THEN m.alignment[p] ELSE FFI_TYPES[p]

\* An ffi_type of size 0 is taken for a struct that is not initialised yet.
Initialized(init, m, p) ==
  IF m.ok /\ SizeIn(m, p) = 0 THEN init[m][p] ELSE m

\* The next element of a struct.
AddElement(init, m, p, e) ==
  LET n == Initialized(init, m, e) IN
  IF ~n.ok THEN n
  ELSE [n EXCEPT !.size[p] = AlignUp(@, AlignmentIn(n, e)) + SizeIn(n, e),
                 !.alignment[p] = Larger(@, AlignmentIn(n, e))]

\* One after the other, and the padding at the end.
Aggregate(init, m, p) ==
  LET all[i \in 0..Len(m.elements[p])] ==
        IF i = 0 THEN [m EXCEPT !.size[p] = 0, !.alignment[p] = 0]
        ELSE AddElement(init, all[i - 1], p, m.elements[p][i])
      last == all[Len(m.elements[p])]
      padded == AlignUp(last.size[p], last.alignment[p])
  IN IF ~last.ok THEN last
     ELSE [last EXCEPT !.size[p] = padded, !.ok = padded # 0]

\* initialize_aggregate() where it may call itself n times deep.
initialize_aggregate[n \in 0..Nesting] ==
  [m \in Memories |-> [p \in Structs |->
     IF n = 0 THEN m ELSE Aggregate(initialize_aggregate[n - 1], m, p)]]

\* ffi_prep_cif_core, for an ABI that it knows.
ffi_prep_cif(elems, ffiTypes) ==
  LET m == [elements |-> elems, size |-> size, alignment |-> alignment,
            ok |-> TRUE]
      each[i \in 0..Len(ffiTypes)] ==
        IF i = 0 THEN m
        ELSE Initialized(initialize_aggregate[Nesting], each[i - 1], ffiTypes[i])
  IN each[Len(ffiTypes)]

-----------------------------------------------------------------------------
(* What refers to what.                                                    *)

\* The nodes of a graph that its edges lead to from those in S.
Reach(edges, S) ==
  LET Onward(T) == T \union UNION {edges[v] : v \in T}
      reach[n \in 0..Cardinality(DOMAIN edges)] ==
        IF n = 0 THEN S ELSE Onward(reach[n - 1])
  IN reach[Cardinality(DOMAIN edges)]

\* Structs lead to their fields' types, and arrays to their elements'.
Composites == Structs \union Arrays
Inside ==
  [t \in Composites |->
     (IF t \in Structs THEN Range(fields(t)) ELSE {ElemOf[t]})
       \intersect Composites]

\* The struct types that types lead to.
Reached(ts) == Reach(Inside, ts \intersect Composites) \intersect Structs

\* writePointer() makes the array of elements refer to each.
Holds == [p \in Structs |-> Range(elements[p]) \intersect Structs]

\* The structs' ffi_types that ffi_types lead to.
Pinned(ps) == Reach(Holds, ps \intersect Structs)

\* Mutant: argTypesPtr is not set.
CifPinsReturn(cif) == {cif.ffiTypes[1]}

\* cif.rtnTypePtr and cif.argTypesPtr
CifPins(cif) == Range(cif.ffiTypes)

InUse == Reached(kept)

Reachable ==
  Pinned({u \in InUse : own[u] = u} \union UNION {CifPins(cif) : cif \in cifs})

-----------------------------------------------------------------------------
(* The actions.                                                            *)

\* The loop over FFI_TYPES, and then the types that are set by hand.
NamedAtLoad(n) ==
  CASE n \in {"size_t", "CString", "Object"} -> "pointer"
    [] n = "ulong" -> IF LongSize = 4 THEN "uint32" ELSE "uint64"
    [] n = "long" -> IF LongSize = 4 THEN "int32" ELSE "int64"
    [] n \in DOMAIN FFI_TYPES -> n
    [] OTHER -> "unset"

FfiTypeAtLoad(t) ==
  IF t \notin Scalars \/ t \in Foreign THEN "unset"
  ELSE IF t \in Detached THEN "undefined"
  ELSE NamedAtLoad(NameOf[t])

Init ==
  /\ defined = Given
  /\ own = [t \in Types |-> FfiTypeAtLoad(t)]
  /\ elements = [t \in Structs |-> <<>>]
  /\ size = [t \in Structs |-> 0]
  /\ alignment = [t \in Structs |-> 0]
  /\ cifs = {}
  /\ rejected = {}
  /\ kept = Structs
  /\ alive = {}

\* The program defines the struct's next field.
DefineField(t) ==
  /\ defined[t] < Len(Declared[t])
  /\ DefinesLate \/ own[t] = "unset"
  /\ t \in InUse
  /\ Reached({Declared[t][defined[t] + 1]}) \subseteq InUse
  /\ defined' = [defined EXCEPT ![t] = @ + 1]
  /\ UNCHANGED <<own, memory, cifs, rejected, kept, alive>>

\* In what follows r is the state in which the types have been resolved, as far
\* as the first that cannot be.

\* A type has no ffi_type: the assertion at the end of Type() throws.
Throws(sig, r) ==
  /\ r.threw
  /\ rejected' = rejected \union {sig}
  /\ UNCHANGED <<size, alignment, cifs>>

\* The ABI is not one of libffi's: an error, before it looks at the types.
BadAbi(r) ==
  /\ ~r.threw
  /\ UNCHANGED <<size, alignment, cifs, rejected>>

\* libffi prepares the ffi_cif, or finds a bad type, for which CIF() throws.
Prepare(sig, r) ==
  /\ ~r.threw
  /\ \E m \in {ffi_prep_cif(r.elements, r.got)} :
       /\ size' = m.size
       /\ alignment' = m.alignment
       /\ cifs' = cifs \union {c \in {[sig |-> sig, ffiTypes |-> r.got]} : m.ok}
       /\ rejected' = rejected \union {g \in {sig} : ~m.ok}

CIF(sig) ==
  /\ Cardinality(cifs) < MaxCifs
  /\ Range(sig) \intersect Structs \subseteq InUse
  /\ \E r \in {TypeOfEach(Type, Now, sig)} :
       /\ Throws(sig, r) \/ BadAbi(r) \/ Prepare(sig, r)
       /\ own' = r.own
       /\ elements' = r.elements
       /\ alive' = alive \union {t \in Structs : r.own[t] # own[t]}
  /\ UNCHANGED <<defined, kept>>

\* CIF_var() differs in its assertion, and in a number that libffi keeps.
CIF_var(sig, numFixedArgs) ==
  /\ numFixedArgs >= 1
  /\ CIF(sig)

\* The program drops the function or callback that holds the ffi_cif.
DropCif(cif) ==
  /\ cifs' = cifs \ {cif}
  /\ UNCHANGED <<defined, own, memory, rejected, kept, alive>>

\* The program drops its own reference to a struct type.
Forget(t) ==
  /\ t \in kept
  /\ kept' = kept \ {t}
  /\ UNCHANGED <<defined, own, memory, cifs, rejected, alive>>

\* The collector takes the memory of an ffi_type.
Collect(t) ==
  /\ t \in alive
  /\ t \notin Reachable
  /\ alive' = alive \ {t}
  /\ UNCHANGED <<defined, own, memory, cifs, rejected, kept>>

Next ==
  \/ \E sig \in Signatures \ Variadic : CIF(sig)
  \/ \E sig \in Variadic : \E n \in 0..(Len(sig) - 1) : CIF_var(sig, n)
  \/ \E t \in Structs : DefineField(t) \/ Forget(t) \/ Collect(t)
  \/ \E cif \in cifs : DropCif(cif)

Spec == Init /\ [][Next]_vars

-----------------------------------------------------------------------------
(* The reference: the layout that a C compiler gives the declared types.   *)
(* A layout has a size, an alignment, and the scalars in it as pairs of an *)
(* offset and a size.                                                      *)

ScalarLayout(n) == [size |-> n, alignment |-> n, scalars |-> <<<<0, n>>>>]

\* A layout after those before it in a struct; the end is padded by Struct.
Place(before, l) ==
  LET at == AlignUp(before.size, l.alignment) IN
  [size |-> at + l.size,
   alignment |-> Larger(before.alignment, l.alignment),
   scalars |-> before.scalars \o [i \in DOMAIN l.scalars |->
                                    <<at + l.scalars[i][1], l.scalars[i][2]>>]]

StructLayout(ls) ==
  LET none == [size |-> 0, alignment |-> 0, scalars |-> <<>>]
      placed[i \in 0..Len(ls)] ==
        IF i = 0 THEN none ELSE Place(placed[i - 1], ls[i])
      all == placed[Len(ls)]
  IN [all EXCEPT !.size = AlignUp(@, all.alignment)]

\* A struct consists of its fields, and an array of its elements.
Parts(t) == IF t \in Structs THEN fields(t) ELSE [n \in 1..LenOf[t] |-> ElemOf[t]]

DeclaredLayout[t \in Types] ==
  IF t \in Structs \/ Fixed(t)
  THEN StructLayout([n \in DOMAIN Parts(t) |-> DeclaredLayout[Parts(t)[n]]])
  ELSE ScalarLayout(IF t \in Scalars THEN SizeInC[NameOf[t]] ELSE PointerSize)

\* An argument or result: C passes arrays as pointers.
PassedLayout(t) ==
  IF Kind[t] = "array" THEN ScalarLayout(PointerSize) ELSE DeclaredLayout[t]

\* What libffi takes a value of an ffi_type to be.
LibffiLayout[p \in FfiTypes] ==
  IF p \in Structs
  THEN LET ls == [i \in DOMAIN elements[p] |-> LibffiLayout[elements[p][i]]] IN
       [StructLayout(ls) EXCEPT !.size = size[p], !.alignment = alignment[p]]
  ELSE ScalarLayout(FFI_TYPES[p])

\* Mutant: the result's Buffer has the size of the type.
ResultSizeDeclared(t) == DeclaredLayout[t].size

\* _ForeignFunction: the size of the Buffer that libffi writes a result to.
ResultSize(t) ==
  IF DeclaredLayout[t].size >= LongSize THEN DeclaredLayout[t].size
  ELSE FfiArgSize

-----------------------------------------------------------------------------
(* Properties.                                                             *)

\* Every variable has its type.
TypeOK ==
  /\ defined \in [Structs -> Nat]
  /\ own \in [Types -> OwnProperties]
  /\ \A t \in Structs :
       /\ defined[t] <= Len(Declared[t])
       /\ own[t] \in {t, "unset"}
       /\ own[t] = "unset" => elements[t] = <<>>
  /\ \A cif \in cifs : Len(cif.ffiTypes) = Len(cif.sig)
  /\ rejected \subseteq Signatures
  /\ kept \subseteq Structs
  /\ alive \subseteq {t \in Structs : own[t] = t}

\* libffi passes every argument and result of an ffi_cif in the layout of its
\* declared C type, padding and nested structs and arrays included, whatever
\* was resolved, rejected or half built before (type.js caches the ffi_types).
CifMatchesDeclaration ==
  \A cif \in cifs : \A i \in DOMAIN cif.sig :
    PassedLayout(cif.sig[i]).size # 0 =>
      LibffiLayout[cif.ffiTypes[i]] = PassedLayout(cif.sig[i])

\* The comment in _ForeignFunction (_foreign_function.js:20-22): the result's
\* Buffer has room for the result, and for an ffi_arg, which libffi writes.
ResultFits ==
  \A cif \in cifs :
    ResultSize(cif.sig[1]) >=
      Larger(FfiArgSize, LibffiLayout[cif.ffiTypes[1]].size)

\* Where types inherit from types of their own size, as ref's do, and the name
\* of each but void is "CString" or leads to an entry of FFI_TYPES.  The entry of
\* longlong is that of a long (src/ffi.cc).
InheritsItsWidth ==
  \A t \in Scalars :
    /\ NameOf[t] \in DOMAIN SizeInC
    /\ NameOf[t] = "longlong" => LongSize = 8
    /\ SizeInC[NameOf[t]] # 0 =>
         /\ \A c \in Range(Chain[t]) : SizeInC[NameOf[c]] = SizeInC[NameOf[t]]
         /\ NameOf[t] = "CString" \/ \E c \in Range(Chain[t]) : Entry(c) # "undefined"

\* The types inside a struct or array, and those whose fields are all defined.
Within ==
  [t \in Composites |->
     (IF t \in Structs THEN Range(Declared[t]) ELSE {ElemOf[t]}) \intersect Composites]

\* Where no struct is inside itself or has a void field, and a scalar that C has
\* no size for leads to no ffi_type.  What type.js unrolls are no arrays of arrays,
\* and a struct that may have no fields, or begins with one, is only ever the
\* first field of another; see README.md on what happens where they are.
WellDeclared ==
  /\ InheritsItsWidth
  /\ \A t \in Scalars :
       \/ SizeInC[NameOf[t]] # 0 \/ NameOf[t] = "void"
       \/ \A c \in Range(Chain[t]) : NamedAtLoad(NameOf[c]) = "unset"
  /\ \A t \in Composites : t \notin Reach(Within, Within[t])
  /\ \A t \in Structs : \A f \in Range(Declared[t]) :
       /\ ~Fixed(Member(f))
       /\ Member(f) \in Scalars => NameOf[Member(f)] # "void"
  /\ \E solid \in SUBSET {t \in Structs : Given[t] > 0} :
       \A t \in Structs : \A n \in DOMAIN Declared[t] :
         (t \in solid \/ n > 1) /\ Member(Declared[t][n]) \in Structs =>
           Member(Declared[t][n]) \in solid

\* Whatever types have been resolved before, and whichever properties that has
\* set to undefined, each scalar whose name or prototypes tell its ffi_type
\* gets one of its own size in C.  (SizeInC is 0 for void and unknown names.)
ResolvesToItsWidth ==
  \A t \in Scalars :
    SizeInC[NameOf[t]] # 0 =>
      LET r == Type[Now][t] IN
      ~r.threw /\ FFI_TYPES[r.got[1]] = SizeInC[NameOf[t]]

\* A signature that CIF() has thrown for is not accepted later (test/cif.js:21:
\* it throws when given an invalid type).
RejectedForGood ==
  \A cif \in cifs : cif.sig \notin rejected

\* All ffi_types that an ffi_cif in use leads to are still there, though the
\* program has dropped the struct types they were made for.
CifMemoryAlive ==
  \A cif \in cifs : Pinned(Range(cif.ffiTypes)) \subseteq alive
=============================================================================
