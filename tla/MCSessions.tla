---------------------------- MODULE MCSessions ----------------------------
(* Instances of Sessions for TLC.                                          *)
EXTENDS Sessions, TLC

CONSTANTS d1, d2, d3, p1, p2, b1, b2, b3, m1, m2

OneImmortal == (p1 :> 1) @@ (p2 :> 0)
OneMortal == p1 :> 0
=============================================================================
