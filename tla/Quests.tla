------------------------------- MODULE Quests -------------------------------
(***************************************************************************)
(* All drivers of the quest log together with the player, who goes from    *)
(* one to another, gives them what they want, asks them to repeat and      *)
(* reopens what the log lets him reopen.                                   *)
(***************************************************************************)
EXTENDS QuestsCameron, QuestsAston, QuestsForest, QuestsBran, QuestsExkordon,
        QuestsNomad, QuestsArkhata

Progress ==
  \/ CameronProgress \/ AstonProgress \/ ForestProgress \/ BranProgress
  \/ ExkordonProgress \/ NomadProgress \/ ArkhataProgress

Repeats ==
  \/ CameronRepeats \/ AstonRepeats \/ ForestRepeats \/ BranRepeats
  \/ ExkordonRepeats \/ NomadRepeats \/ ArkhataRepeats

Next == Progress \/ Repeats \/ \E q \in Quests : Reopen(q)

Spec == Init /\ [][Next]_vars
-----------------------------------------------------------------------------
(* No driver gets past the last case of its switch, from where it would    *)
(* never speak again.                                                      *)
TypeOK ==
  /\ Cast \subseteq DOMAIN Last
  /\ \A n \in Cast : st[n] \in 0..Last[n]
  /\ \A q \in Quests : flags[q] \in {"none", "open", "done"} /\ done[q] \in 0..DoneValues - 1

(* A driver in state s still takes in what quest q is about, or has        *)
(* nothing to do with it.                                                  *)
Asks(n, s, q) ==
  /\ n = "gwendy" => /\ q = 1 => s \in 0..5
                     /\ q = 2 => s \in 6..9
                     /\ q = 3 => s \in 10..12
                     /\ q = 4 => s \in 13..16
  /\ n = "yoakin" => (q = 5 => s \in 0..4)
  /\ n = "nook" => (q = 6 => s \in 5..11)
  /\ n = "guiwynn" => /\ q = 7 => s \in 0..5
                      /\ q = 8 => s \in 6..8
  /\ n = "logain" => (q = 9 => s \in 0..5)
  /\ n = "seymour" => /\ q = 10 => s \in 0..9
                      /\ q = 11 => s \in 10..11
                      /\ q = 12 => s \in 12..15
  /\ n = "kelly" => /\ q = 13 => s \in 0..5
                    /\ q = 14 => s \in 0..9
                    /\ q = 15 => s \in 0..16
                    /\ q = 60 => s \in 0..25
  /\ n = "astro2" => (q = 16 => s \in 0..4)
  /\ n = "reskin" => (q = 17 => s \in 0..7)
  /\ n = "crypt" => /\ q = 18 => s \in 0..9
                    /\ q = 19 => s \in 12..14
  /\ n = "carlos" => (q = 20 => s \in 0..5)
  /\ n = "clara" => (q = 21 => s \in 6..14)
  /\ n = "imp" => (q = 22 => s \in 0..3)
  /\ n = "william" => /\ q = 22 => s \in 0..2
                      /\ q = 23 => s \in 3..6
  /\ n = "hermit" => (q = 24 => s \in 0..5)
  /\ n = "sanwyn" => (q = 29 => s \in 0..7)
  /\ n = "skelly" => (q = 30 => s \in 0..2)
  /\ n = "alchemist" => (q = 31 => s \in 0..4)
  /\ n = "kalanur" => (q = 32 => s \in 0..8)
  /\ n = "laas" => (q = 33 => s \in 0..3)
  /\ n = "garan" => (q = 34 => s \in 0..3)
  /\ n = "smugglecom" => /\ q = 35 => s \in 0..4
                         /\ q = 36 => s \in 5..6
                         /\ q = 37 => s \in 7..9
  /\ n = "aristocrat" => (q = 38 => s \in 0..7)
  /\ n = "yoatin" => (q = 39 => s \in 0..8)
  /\ n = "jewels" => (q = 40 => s \in 0..2)
  /\ n = "brenneth" => /\ q = 41 => s \in 0..4
                       /\ q = 42 => s \in 5..8
                       /\ q = 43 => s \in 9..11
  /\ n = "spirit" => (q = 44 => s \in 0..4)
  /\ n = "broklin" => /\ q = 45 => s \in 0..4
                      /\ q = 46 => s \in 5..10
  /\ n = "glori" => /\ q = 54 => s \in {0}
                    /\ q = 55 => s \in 1..7
                    /\ q = 56 => s \in 8..10
                    /\ q = 57 => s \in 11..12
                    /\ q = 58 => s \in 13..16
  /\ n = "homden" => (q = 59 => s \in 2..4)
  /\ n = "guardbran" => (q = 64 => s \in 2..6)
  /\ n = "rammy" => /\ q = 65 => s \in 7..10
                    /\ q = 71 => s \in 14..18
  /\ n = "jaz" => (q = 66 => s \in 0..5)
  /\ n = "fiona" => (q = 67 => s \in 0..3)
  /\ n = "ramin" => (q = 68 => s \in 0..6)
  /\ n = "monk" => /\ q = 69 => s \in 8..12
                   /\ q = 70 => s \in 15..19
  /\ n = "jada" => (q = 72 => s \in 1..4)
  /\ n = "potmaker" => (q = 73 => s \in 1..3)
  /\ n = "thaipan" => (q = 74 => s \in 1..8)
  /\ n = "trainer" => (q = 75 => s \in 1..6)
  /\ n = "clerk" => (q = 76 => s \in 1..6)
  /\ n = "hunter" => (q = 77 => s \in 5..9)
  /\ n = "krenach" => (q = 78 => s \in 0..1)

(* A quest the log shows as open can still be done: its driver waits for   *)
(* it.  A driver that moves on while the log keeps the quest open leaves   *)
(* the player with a quest that can neither be done nor, since it is not   *)
(* done, be reopened.  Lydia's potion (0), which James opens again between *)
(* her taking it and her next line, is not among them.                     *)
OpenIsAsked ==
  \A q \in Quests, n \in Cast : flags[q] = "open" => Asks(n, st[n], q)

(* "Cannot re-open more than one quest from a series", says the log; nor   *)
(* do the drivers ever open two of them.                                   *)
OneOfSeries == \A s \in Series : Cardinality({q \in s \cap Quests : flags[q] = "open"}) <= 1

(* The guild's quests may be done over and over (QLF_XREPEAT).             *)
Xrepeat == 25..28

(* A quest that was done becomes open again only at the player's wish.     *)
AtWish ==
  \A q \in Quests \ (Xrepeat \cup {0}) :
    flags[q] = "done" /\ flags'[q] = "open" => Reopen(q)

Reopened == [][AtWish]_vars

(* The quests a driver moves on to from another one that can be reopened,  *)
(* and the thing for which it takes in at once: the player is through with *)
(* the first one again and may bring the next one before the driver has    *)
(* looked into the log.                                                    *)
Followers == {2, 3, 4, 8, 42, 43, 46}

(* All others are counted and paid only when the log does not say they are *)
(* done already.  Sanwyn (29) does otherwise.                              *)
PaidWhenNew ==
  \A q \in Quests \ (Xrepeat \cup Followers \cup {29}) :
    done'[q] # done[q] => flags[q] # "done"

PaidOnce == [][PaidWhenNew]_vars

(* The count, which decides on the pay and on whether the quest can be     *)
(* reopened, never wraps, though the followers are done more often than    *)
(* ReopenLimit allows.                                                     *)
CountGrows == \A q \in Quests \ (Xrepeat \cup {29}) : done'[q] >= done[q]

PaysLess == [][CountGrows]_vars
-----------------------------------------------------------------------------
(* The later quests of a series, too, are paid only when they are not done. *)
SeriesPaidOnce ==
  [][\A q \in Quests \cap Followers : done'[q] # done[q] => flags[q] # "done"]_vars
=============================================================================
