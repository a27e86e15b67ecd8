------------------------------ MODULE MCTrader ------------------------------
(* Two players and a trader for TLC.                                       *)
EXTENDS Trader, TLC

CONSTANTS p1, p2, i1, i2, s1, s2

Symmetry == Permutations({s1, s2}) \cup Permutations({i1, i2})

NoToken == (p1 :> 0) @@ (p2 :> 0)
OneToken == (p1 :> 1) @@ (p2 :> 0)
=============================================================================
