------------------------------ MODULE MCWorld ------------------------------
(* A player and a beast on three tiles in a row; the last one is a doorway. *)
EXTENDS World, TLC

CONSTANTS s1, s2, i1, i2

MCFolk == [player |-> 1, beast |-> 1]
MCPack == [player |-> 1, beast |-> 0]
MCWalls == {}
MCDoors == {<<1, 3>>}

\* timers of items and calls of the door that are due together
DueAtOnce == Cardinality(timers) + door[<<1, 3>>].calls =< 3

\* slots and items are taken from anywhere in their free lists
Symmetric == Permutations({s1, s2}) \cup Permutations(Items)
=============================================================================
