-------------------------- MODULE MCDynamicLibrary --------------------------
(* A small file system and programs for DynamicLibrary.                     *)
EXTENDS DynamicLibrary, TLC

CONSTANTS
  libm, libc,        \* shared objects
  chain, toLibm,     \* scripts that lead to libm, in two steps and in one
  cycle,             \* a script that names itself
  unnamed,           \* a script without '.so' in its path
  text, lost,        \* a file without a GROUP, and no file
  broken,            \* a shared object that depends on lost
  ceil, exp          \* symbols

Files == [p \in {chain, toLibm, cycle, unnamed} |->
            IF p = chain THEN toLibm ELSE IF p = cycle THEN cycle ELSE libm]
Names == [p \in Paths |-> IF p = broken THEN lost ELSE p]
Tables == [f \in {libm, libc} |-> IF f = libm THEN {ceil} ELSE {ceil, exp}]

ObjectSymmetry == Permutations(Objects)
=============================================================================
