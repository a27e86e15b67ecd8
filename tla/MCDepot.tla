------------------------------ MODULE MCDepot ------------------------------
(* Small worlds for TLC.                                                   *)
EXTENDS Depot, TLC

CONSTANTS s1, s2, c1, c2

Symmetry == Permutations({c1, c2}) \cup Permutations({s1, s2})

\* After a rescue of a depot in use nothing is claimed any more.
UntilRescued == ~rescued
=============================================================================
