-------------------------- MODULE MCFunctionPointer --------------------------
(* Small instances of FunctionPointer for TLC.                              *)
EXTENDS FunctionPointer, TLC

\* Slots are interchangeable, and so are the callbacks that are not kept.
LifetimeSymmetry == Permutations(Callbacks \ Kept) \union Permutations(Slots)
=============================================================================
