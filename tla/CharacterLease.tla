--------------------------- MODULE CharacterLease ---------------------------
(***************************************************************************)
(* What the chars table promises about one character, without servers,     *)
(* queues or logins: it is lent to one holder at a time, only while it is  *)
(* lent does its saved data change, the data never gets older, and when it *)
(* comes back the data is at least what the player has been shown -- unless*)
(* the holder died, which takes the player back to the last save.  An entry*)
(* that is void promises nothing any more, and stays void.                 *)
(***************************************************************************)
EXTENDS Naturals

CONSTANTS Chars, Holders, Free

VARIABLE book   \* per character: holder, version saved, version shown, void

Entry == [holder: Holders \cup {Free}, data: Nat, shown: Nat, void: BOOLEAN]

Init ==
  book \in [Chars -> [holder: {Free}, data: {0}, shown: {0}, void: {FALSE}]]

Lent(e) == e.holder # Free

Take(e, n) == ~Lent(e) /\ Lent(n) /\ n = [e EXCEPT !.holder = n.holder]

Save(e, n) == Lent(e) /\ n.data >= e.data /\ n = [e EXCEPT !.data = n.data]

Show(e, n) == Lent(e) /\ n.shown >= e.shown /\ n = [e EXCEPT !.shown = n.shown]

Lose(e, n) == Lent(e) /\ n = [e EXCEPT !.shown = e.data]

Return(e, n) ==
  /\ Lent(e)
  /\ n.data >= e.data /\ n.data >= e.shown
  /\ n = [e EXCEPT !.holder = Free, !.data = n.data]

Void(e, n) == n.void

\* Several characters may change in one step: a restart frees all of its own.
Next ==
  /\ book' \in [Chars -> Entry]
  /\ \A c \in Chars :
       LET e == book[c]
           n == book'[c]
       IN  \/ Take(e, n) \/ Save(e, n) \/ Show(e, n)
           \/ Lose(e, n) \/ Return(e, n) \/ Void(e, n) \/ n = e

Spec == Init /\ [][Next]_book
=============================================================================
