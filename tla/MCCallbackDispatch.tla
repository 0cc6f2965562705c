------------------------- MODULE MCCallbackDispatch -------------------------
(* Small instances of CallbackDispatch for TLC.                             *)
EXTENDS CallbackDispatch, TLC

\* Foreign threads are interchangeable (used by safety runs only).
ThreadSymmetry == Permutations(Threads)

\* Bound on the entries that calls leave behind when their waits end early.
ShortQueue == Len(queue) <= 3
=============================================================================
