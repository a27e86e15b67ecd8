--------------------------- MODULE QuestsExkordon ---------------------------
(***************************************************************************)
(* The thieves' guild of Exkordon, Sanwyn, the skeleton and Cervik the     *)
(* alchemist (exkordon.c).                                                 *)
(***************************************************************************)
EXTENDS QuestLog

(* The guard of the guild and its master share a number.                   *)
ThiefguardTalks ==
  \/ Say("thief", {0, 1, 3, 50})
  \/ Move("thief", {51}, 1)

ThiefguardHears == Move("thief", 0..2, 0)
FeePaid == Move("thief", {2}, 3)

(* Opening one quest of the guild crosses out the ones that come after it. *)
OpenClosing(S, t, q, Q) ==
  /\ At("thief", S)
  /\ Goto("thief", t)
  /\ flags' = [Closed(flags, Q) EXCEPT ![q] = "open"]
  /\ UNCHANGED done

(* The master goes by the keys the player still has on him: a mission      *)
(* whose key is lost is to be done again.                                  *)
ThiefmasterTalks ==
  \/ Move("thief", 0..4, 5)
  \/ Move("thief", {5}, 11)
  \/ OpenClosing({5}, 6, 25, 26..28)
  \/ At("thief_killed", {0}) /\ Move("thief", {10}, 5)
  \/ /\ At("thief", {10}) /\ At("thief_killed", {1})
     /\ st' = [st EXCEPT !["thief"] = 11, !["thief_killed"] = 0]
     /\ Done(25)
  \/ Move("thief", {11, 15, 18, 20}, 5)
  \/ Move("thief", {11}, 15)
  \/ OpenClosing({11}, 12, 26, 27..28)
  \/ /\ At("thief", {14})
     /\ st' = [st EXCEPT !["thief"] = 15, !["thief_killed"] = 0]
     /\ Done(26)
  \/ Move("thief", {15, 18, 20}, 11)
  \/ Move("thief", {15}, 18)
  \/ OpenClosing({15}, 16, 27, {28})
  \/ Move("thief", {18, 20}, 15)
  \/ Move("thief", {18}, 20)
  \/ Offer("thief", {18}, 19, 28)
  \/ Move("thief", {20}, 18)
  \/ Say("thief", {6, 7, 8, 12, 16, 20})

ThiefmasterHears ==
  \/ Move("thief", 0..9, 4)
  \/ Move("thief", 11..13, 11)
  \/ Move("thief", 15..17, 15)
  \/ Move("thief", 18..19, 18)
  \/ Move("thief", 20..21, 20)

(* "I am done", says the player.                                           *)
MissionDone == Say("thief", {9})

ThiefmasterTakes == Finish("thief", {17}, 18, 27) \/ Finish("thief", {19}, 20, 28)

(* A burning barrel counts like a robber.                                  *)
BarrelBurns ==
  At("thief", 13..14) /\ st' = [st EXCEPT !["thief"] = 14, !["thief_killed"] = 1] /\ Unlogged

RobberDead == At("thief", 6..9) /\ Move("thief_killed", {0, 1}, 1)
ThiefmasterDead == Move("thief", 0..51, 50)

(* Sanwyn wants three notes.                                               *)
SanwynTalks ==
  \/ Offer("sanwyn", {0}, 1, 29)
  \/ Finish("sanwyn", {7}, 8, 29)
  \/ Say("sanwyn", 1..5)

SanwynHears == Move("sanwyn", 0..6, 0) \/ Move("sanwyn", {8}, 7)

SanwynTakes ==
  /\ At("sanwyn", 0..6)
  /\ \/ Say("notes", 0..1)
     \/ /\ At("notes", {2})
        /\ st' = [st EXCEPT !["sanwyn"] = 7, !["notes"] = 3]
        /\ Unlogged

SkellyTalks == Offer("skelly", {0}, 1, 30) \/ Say("skelly", {1})
SkellyHears == Move("skelly", 0..2, 0)
SkellyTakes == Finish("skelly", 0..2, 3, 30)

AlchemistTalks == Offer("alchemist", {0}, 1, 31) \/ Say("alchemist", 1..3)
AlchemistHears == Move("alchemist", 0..4, 0)
AlchemistTakes == Finish("alchemist", 0..4, 5, 31)

ExkordonProgress ==
  \/ ThiefguardTalks \/ FeePaid \/ ThiefmasterTalks \/ MissionDone \/ ThiefmasterTakes
  \/ BarrelBurns \/ RobberDead \/ ThiefmasterDead \/ SanwynTalks \/ SanwynTakes
  \/ SkellyTalks \/ SkellyTakes \/ AlchemistTalks \/ AlchemistTakes

ExkordonRepeats ==
  ThiefguardHears \/ ThiefmasterHears \/ SanwynHears \/ SkellyHears \/ AlchemistHears
=============================================================================
