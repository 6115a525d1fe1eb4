-------------------------- MODULE MCOutputBuffer --------------------------
(* An instance of OutputBuffer for TLC.  The buffer sizes are scaled down; *)
(* their order and the relation of SizeAssumption are those of structs.h.  *)
(* So are the levels: 1 is a mortal's and 2 the first immortal one.        *)
EXTENDS OutputBuffer, TLC

CONSTANTS d1, d2, d3

MCDesc == {d1, d2, d3}
MCNewLevels == {1, 5}
MCFirstLevels == (d1 :> {3}) @@ (d2 :> {4}) @@ (d3 :> {5})
=============================================================================
