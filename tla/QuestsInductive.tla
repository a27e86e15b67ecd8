-------------------------- MODULE QuestsInductive --------------------------
(***************************************************************************)
(* The inductive invariant of Quests.  A driver's number says something    *)
(* about the log, and the log something about how often a quest was done.  *)
(***************************************************************************)
EXTENDS Quests

(* While driver n is in state s, quest q is not done.                      *)
NotYet(n, s, q) ==
  \/ n = "gwendy" /\ q = 1 /\ s \in 0..5
  \/ n = "yoakin" /\ q = 5 /\ s \in 0..4
  \/ n = "lydia" /\ q = 0 /\ s \in 0..4
  \/ n = "nook" /\ q = 6 /\ s \in 0..11
  \/ n = "reskin" /\ q = 17 /\ s \in 0..7
  \/ n = "guiwynn" /\ q = 7 /\ s \in 0..5
  \/ n = "logain" /\ q = 9 /\ s \in 0..5
  \/ n = "seymour" /\ \/ q = 10 /\ s \in 0..9
                      \/ q = 11 /\ s \in 0..11
                      \/ q = 12 /\ s \in 0..15
  \/ n = "kelly" /\ \/ q = 13 /\ s \in 0..5
                    \/ q = 14 /\ s \in 7..9
                    \/ q = 15 /\ s \in 15..16
                    \/ q = 60 /\ s \in 21..25
  \/ n = "astro2" /\ q = 16 /\ s \in 0..4
  \/ n = "crypt" /\ \/ q = 18 /\ s \in 0..9
                    \/ q = 19 /\ s \in 0..14
  \/ n = "carlos" /\ q = 20 /\ s \in 0..5
  \/ n = "imp" /\ \/ q = 22 /\ s \in 0..3
                  \/ q = 23 /\ s \in 0..5
  \/ n = "william" /\ q = 23 /\ s \in 0..6
  \/ n = "hermit" /\ q = 24 /\ s \in 0..5
  \/ n = "clara" /\ q = 21 /\ s \in 0..14
  \/ n = "smugglecom" /\ \/ q = 35 /\ s \in 0..4
                         \/ q = 36 /\ s \in {6}
                         \/ q = 37 /\ s \in 8..9
  \/ n = "jewels" /\ q = 40 /\ s \in 0..2
  \/ n = "brenneth" /\ q = 41 /\ s \in 0..4
  \/ n = "spirit" /\ q = 44 /\ s \in 0..4
  \/ n = "guardbran" /\ q = 64 /\ s \in 0..6
  \/ n = "broklin" /\ q = 45 /\ s \in 0..4
  \/ n = "aristocrat" /\ q = 38 /\ s \in 0..7
  \/ n = "yoatin" /\ q = 39 /\ s \in 0..8
  \/ n = "sanwyn" /\ q = 29 /\ s \in 0..6
  \/ n = "skelly" /\ q = 30 /\ s \in 0..2
  \/ n = "alchemist" /\ q = 31 /\ s \in 0..4
  \/ n = "kalanur" /\ q = 32 /\ s \in 0..8
  \/ n = "laas" /\ q = 33 /\ s \in 0..3
  \/ n = "garan" /\ q = 34 /\ s \in 0..3
  \/ n = "glori" /\ \/ q = 54 /\ s \in {0}
                    \/ q = 55 /\ s \in 0..7
                    \/ q = 56 /\ s \in 0..10
                    \/ q = 57 /\ s \in 0..12
                    \/ q = 58 /\ s \in 0..16
  \/ n = "homden" /\ q = 59 /\ s \in 0..4
  \/ n = "rammy" /\ \/ q = 65 /\ s \in 0..10
                    \/ q = 71 /\ s \in 0..18
  \/ n = "jaz" /\ q = 66 /\ s \in 0..5
  \/ n = "fiona" /\ q = 67 /\ s \in 0..3
  \/ n = "ramin" /\ q = 68 /\ s \in 0..6
  \/ n = "monk" /\ \/ q = 69 /\ s \in 0..12
                   \/ q = 70 /\ s \in 0..19
                   \/ q = 78 /\ s \in 0..28
  \/ n = "krenach" /\ q = 78 /\ s \in 0..1
  \/ n = "jada" /\ q = 72 /\ s \in 0..4
  \/ n = "potmaker" /\ q = 73 /\ s \in 0..3
  \/ n = "thaipan" /\ q = 74 /\ s \in 0..8
  \/ n = "trainer" /\ q = 75 /\ s \in 0..6
  \/ n = "clerk" /\ q = 76 /\ s \in 0..4
  \/ n = "clerk_notes" /\ q = 76 /\ s \in 0..2
  \/ n = "hunter" /\ q = 77 /\ s \in 0..9

(* Once driver n is in state s, quest q is done.                           *)
Behind(n, s, q) ==
  \/ n = "imp" /\ q = 22 /\ s \in 4..11
  \/ n = "william" /\ q = 22 /\ s \in 3..7
  \/ n = "jewels" /\ q = 40 /\ s \in {3}
  \/ n = "glori" /\ q = 54 /\ s \in 1..18
  \/ n = "krenach" /\ q = 78 /\ s \in 1..5

(* A driver in state s may come to pay for follower q, whatever the log    *)
(* says of it, before the player reopens anything.                         *)
Due(n, s, q) ==
  \/ n = "gwendy" /\ \/ q = 2 /\ s \in 0..9
                     \/ q = 3 /\ s \in 0..12
                     \/ q = 4 /\ s \in 0..16
  \/ n = "guiwynn" /\ q = 8 /\ s \in 0..8
  \/ n = "brenneth" /\ \/ q = 42 /\ s \in 0..8
                       \/ q = 43 /\ s \in 0..11
  \/ n = "broklin" /\ q = 46 /\ s \in 0..10
-----------------------------------------------------------------------------
LogOfCast == Quests = QuestsOf(Cast) /\ DOMAIN done = Quests

LogRight ==
  \A q \in Quests, n \in Cast :
    /\ NotYet(n, st[n], q) => flags[q] # "done"
    /\ Behind(n, st[n], q) => flags[q] = "done"

(* How often a quest is done that is paid only when it is not done yet.    *)
(* James may open the potion (0) again, but Lydia takes it only after the  *)
(* player reopened it.                                                     *)
Limit(q) == IF q \in Repeatable THEN ReopenLimit ELSE 0

Counted ==
  /\ \A q \in Quests \ (Xrepeat \cup {29}) : flags[q] = "done" => done[q] > 0
  /\ \A q \in Quests \ (Xrepeat \cup Followers \cup {29}) :
       /\ done[q] <= Limit(q) + 1
       /\ q # 0 /\ flags[q] # "done" => done[q] <= Limit(q)
  /\ 0 \in Quests /\ (\E n \in Cast : NotYet(n, st[n], 0)) => done[0] <= ReopenLimit

(* How often the player may still reopen quest q, when nothing is paid     *)
(* meanwhile but q itself.                                                 *)
Left(q) ==
  LET left == ReopenLimit + (IF flags[q] = "done" THEN 1 ELSE 0) - done[q]
  IN  IF left > 0 THEN left ELSE 0

(* The quests whose reopening leads the driver past follower q.            *)
LeftBefore(q) ==
  CASE q = 2 -> Left(1) + Left(2)
    [] q = 3 -> Left(1) + Left(2) + Left(3)
    [] q = 4 -> Left(1) + Left(2) + Left(3) + Left(4)
    [] q = 8 -> Left(7) + Left(8)
    [] q = 42 -> Left(41) + Left(42)
    [] q = 43 -> Left(41) + Left(42) + Left(43)
    [] q = 46 -> Left(45) + Left(46)

Most(q) ==
  CASE q = 4 -> 4 * ReopenLimit + 1
    [] q \in {3, 43} -> 3 * ReopenLimit + 1
    [] OTHER -> 2 * ReopenLimit + 1

(* Every time a driver goes by a follower the player has reopened a quest  *)
(* of the series, but for the first time.                                  *)
IsDue(q) == IF \E n \in Cast : Due(n, st[n], q) THEN 1 ELSE 0

FollowersCounted ==
  \A q \in Quests \cap Followers : done[q] + IsDue(q) + LeftBefore(q) <= Most(q)

QuestsInv ==
  TypeOK /\ LogOfCast /\ OpenIsAsked /\ LogRight /\ Counted /\ FollowersCounted
=============================================================================
