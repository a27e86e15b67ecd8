--------------------------- MODULE MCAreaServers ---------------------------
(* Small worlds for TLC.                                                   *)
EXTENDS AreaServersInductive, TLC

CONSTANTS k1, k2, c1, c2

TwoAreas   == {<<1, 1>>, <<3, 1>>}
TwoMirrors == {<<3, 1>>, <<3, 2>>}
OneServer  == {<<3, 1>>}
Homes      == <<3, 1>>
HomesOf3   == <<3>>

Twice == [k \in {k1, k2} |-> c1]
Each  == (k1 :> c1) @@ (k2 :> c2)
Alone == [k \in {k1} |-> c1]

SameCharacter == Permutations({k1, k2})

\* The properties exempt a character that was taken: look no further.
UntilTaken == \A c \in Chars : Untaken(c)
=============================================================================
