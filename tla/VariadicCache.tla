---------------------------- MODULE VariadicCache ----------------------------
(***************************************************************************)
(* ffi.VariadicForeignFunction (src/lib/foreign_function_var.js): the      *)
(* generator that, given the types of the variadic arguments, returns a    *)
(* ForeignFunction for them, from a cache keyed by the types' ids.         *)
(*                                                                         *)
(* An id is the hexadecimal text of a global counter shifted left by 16    *)
(* bits, and a key is the plain concatenation of ids, so the text matters  *)
(* here: a key is a sequence of digits, of base HexBase (16), an id ends   *)
(* in LowZeros (4) zeros, and the shift wraps at WrapAt (2^16).            *)
(***************************************************************************)
EXTENDS Integers, Sequences, FiniteSets, Functions

CONSTANTS
  Types,           \* names that coerceType() maps to one type object for good
  PointerNames,    \* names like 'int *': a new type object at each coercion
  Structs,         \* struct types: their ffi_type has no name
  Unfit,           \* types whose ffi_type libffi refuses
  FixedArgs,       \* the fixed arguments' types
  ReturnType,      \* the declared return type
  MayPatch,        \* is generator.returnType ever assigned to?
  UsedBefore,      \* how many ids other functions may have given out before
  HexBase, LowZeros, WrapAt,
  MaxCounter,      \* bound on the number of ids given out
  MaxCached,       \* bound on the size of the cache
  MaxVarArgs       \* bound on the number of variadic arguments

NoId == -1
Names == Types \union PointerNames \union Structs

ASSUME TypesAssumption ==
  /\ FixedArgs \in Seq(Types)
  /\ ReturnType \in Types
  /\ MayPatch \in BOOLEAN
ASSUME NumbersAssumption ==
  /\ HexBase \in Nat /\ HexBase > 1
  /\ LowZeros \in Nat
  /\ WrapAt \in Nat /\ WrapAt % 2 = 0
  /\ UsedBefore \subseteq 0..MaxCounter
  /\ MaxCounter \in Nat /\ MaxCached \in Nat /\ MaxVarArgs \in Nat

VARIABLES
  counter,         \* ids given out so far
  idOf,            \* each type object's _ffiId, as the counter it came from
  returnType,      \* variadic_function_generator.returnType
  cache,           \* from keys to functions
  asked,           \* the signature the last generator call was given
  got              \* the function it returned

vars == <<counter, idOf, returnType, cache, asked, got>>

-----------------------------------------------------------------------------
(* Ids and keys.                                                           *)

\* Number.prototype.toString(16); the minus sign is -1.
digits[n \in 0..WrapAt] ==
  IF n < HexBase THEN <<n>>
  ELSE Append(digits[n \div HexBase], n % HexBase)

Shifted(n) == IF n = 0 THEN <<0>> ELSE digits[n] \o [i \in 1..LowZeros |-> 0]

\* ((n*0x10000)|0).toString(16): the product is cut to a signed 32-bit integer.
IdText(n) ==
  LET m == n % WrapAt IN
  IF m < WrapAt \div 2 THEN Shifted(m) ELSE <<-1>> \o Shifted(WrapAt - m)

\* A scan over types that may need ids: the counter, the ids of the lasting
\* types, and the text so far.
Scan(n, ids, text) == [counter |-> n, ids |-> ids, text |-> text]

\* Where a new id is noted: on the type object, if it is one that lasts.
Noted(s, t) == IF t \in Types THEN [s.ids EXCEPT ![t] = s.counter] ELSE s.ids

\* Mutant: the counter is not advanced.
getIdSame(s, t) ==
  IF t \in Types /\ s.ids[t] # NoId
  THEN Scan(s.counter, s.ids, s.text \o IdText(s.ids[t]))
  ELSE Scan(s.counter, Noted(s, t), s.text \o IdText(s.counter))

\* Mutant: an id is not looked for before one is given.
getIdAnew(s, t) ==
  Scan(s.counter + 1, Noted(s, t), s.text \o IdText(s.counter))

\* getId(type), its text appended to that of the scan.
getId(s, t) ==
  IF t \in Types /\ s.ids[t] # NoId
  THEN Scan(s.counter, s.ids, s.text \o IdText(s.ids[t]))
  ELSE Scan(s.counter + 1, Noted(s, t), s.text \o IdText(s.counter))

\* The scan goes on over the types ts, one after the other.
getIds(s, ts) ==
  LET scan[i \in 0..Len(ts)] == IF i = 0 THEN s ELSE getId(scan[i - 1], ts[i])
  IN scan[Len(ts)]

\* Mutant: the return type is left out of the key.
KeyOfArguments(rtnName, argNames) == argNames

\* The return type's id and those of all arguments, joined by nothing.
Key(rtnName, argNames) == rtnName \o argNames

-----------------------------------------------------------------------------
\* VariadicForeignFunction(): the fixed types get their ids.
Init ==
  \E used \in UsedBefore :
    LET s == getIds(Scan(used, [t \in Types |-> NoId], <<>>), FixedArgs)
    IN /\ counter = s.counter
       /\ idOf = s.ids
       /\ returnType = ReturnType
       /\ cache = <<>>
       /\ asked = <<>>
       /\ got = <<>>

\* Some other variadic function gives an id to a type of its own.
OtherType ==
  /\ counter < MaxCounter
  /\ counter' = counter + 1
  /\ UNCHANGED <<idOf, returnType, cache, asked, got>>

\* The program assigns to the generator's returnType.
Patch(t) ==
  /\ MayPatch
  /\ returnType' = t
  /\ UNCHANGED <<counter, idOf, cache, asked, got>>

VarArgs == UNION {[1..n -> Names] : n \in 0..MaxVarArgs}

FirstStruct(args) ==
  CHOOSE i \in DOMAIN args : args[i] \in Structs /\ \A j \in 1..(i - 1) :
                                                      args[j] \notin Structs

\* A struct fails the assertion on the name of its ffi_type; the types before
\* it have their ids by then.
GenerateThrows(args) ==
  /\ Range(args) \intersect Structs # {}
  /\ LET s == getIds(Scan(counter, idOf, <<>>),
                     SubSeq(args, 1, FirstStruct(args) - 1))
     IN /\ s.counter <= MaxCounter
        /\ counter' = s.counter
        /\ idOf' = s.ids
  /\ UNCHANGED <<returnType, cache, asked, got>>

\* The function cached under the key, or else the new one.
Lookup(key, function) == IF key \in DOMAIN cache THEN cache[key] ELSE function

\* Ids for the fixed and the variadic arguments, then for the return type.
ArgIds(args) == getIds(getIds(Scan(counter, idOf, <<>>), FixedArgs), args)
ReturnId(s) == getId(Scan(s.counter, s.ids, <<>>), returnType)

\* CIF_var: at least one argument is fixed, and libffi takes all the types.  An
\* ABI it does not know is an instance in which it takes none.
CifRefuses(args) ==
  \/ FixedArgs = <<>>
  \/ (Range(FixedArgs \o args) \union {ReturnType}) \intersect Unfit # {}

\* A miss, and CIF_var throws: the ids are given, and nothing is cached.
CifThrows(args) ==
  /\ Range(args) \intersect Structs = {}
  /\ CifRefuses(args)
  /\ LET s == ArgIds(args)
         r == ReturnId(s)
     IN /\ Key(r.text, s.text) \notin DOMAIN cache
        /\ r.counter <= MaxCounter
        /\ counter' = r.counter
        /\ idOf' = r.ids
  /\ UNCHANGED <<returnType, cache, asked, got>>

\* The generator returns; on a miss, it has made a cif for the declared return
\* type and a function for the current one.
Generate(args) ==
  /\ Range(args) \intersect Structs = {}
  /\ LET s == ArgIds(args)
         r == ReturnId(s)
         key == Key(r.text, s.text)
         all == FixedArgs \o args
         func == Lookup(key, [ret |-> returnType, args |-> all,
                              cifRet |-> ReturnType])
     IN /\ CifRefuses(args) => key \in DOMAIN cache
        /\ r.counter <= MaxCounter
        /\ counter' = r.counter
        /\ idOf' = r.ids
        /\ cache' = [k \in DOMAIN cache \union {key} |->
                       IF k = key THEN func ELSE cache[k]]
        /\ Cardinality(DOMAIN cache') <= MaxCached
        /\ asked' = [ret |-> returnType, args |-> all]
        /\ got' = func
  /\ UNCHANGED returnType

Next ==
  \/ OtherType
  \/ \E t \in Types : Patch(t)
  \/ \E args \in VarArgs :
       Generate(args) \/ GenerateThrows(args) \/ CifThrows(args)

Spec == Init /\ [][Next]_vars

-----------------------------------------------------------------------------
(* Properties.                                                             *)

\* Every variable has its type, and ids are those already given out.
TypeOK ==
  /\ counter \in 0..(MaxCounter + Len(FixedArgs))
  /\ idOf \in [Types -> 0..(counter - 1) \union {NoId}]
  /\ returnType \in Types
  /\ \A k \in DOMAIN cache : cache[k].args \in Seq(Names)

\* The generator returns a function for the types it was given.
RightSignature ==
  got # <<>> => got.ret = asked.ret /\ got.args = asked.args

\* The comment on VariadicForeignFunction (foreign_function_var.js:20-22):
\* functions with the same argument signature are cached and reused.
SameSignatureReused ==
  \A k, l \in DOMAIN cache :
    cache[k].ret = cache[l].ret /\ cache[k].args = cache[l].args => k = l

\* The comment on returnType (foreign_function_var.js:86-88): the return type
\* may be patched, so libffi is told the type that the result is read as.
PatchReachesCif == got # <<>> => got.cifRet = got.ret
=============================================================================
