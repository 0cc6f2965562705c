--------------------------- MODULE MCVariadicCache ---------------------------
(* Small instances of VariadicCache for TLC.                                *)
EXTENDS VariadicCache

CONSTANTS int, char, double, intPtr, point

OneFixed == <<int>>
=============================================================================
