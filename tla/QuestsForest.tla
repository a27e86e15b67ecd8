---------------------------- MODULE QuestsForest ----------------------------
(***************************************************************************)
(* The imp, William and the hermit of the forest (forest.c), and Clara of  *)
(* the swamp (swamp.c).                                                    *)
(***************************************************************************)
EXTENDS QuestLog

(* The imp rewards the bear hunt William asks for, whether he did or not,  *)
(* and moves William on to his next quest.                                 *)
ImpTalks ==
  \/ Finish("imp", {3}, 4, 22)
  \/ At("imp", {4}) /\ st' = [st EXCEPT !["imp"] = 5, !["william"] = 3] /\ Unlogged
  \/ At("imp", {5}) /\ Goto("imp", IF flags[23] = "done" THEN 11 ELSE 5) /\ Unlogged
  \/ Met("hermit", 4..7) /\ Move("imp", 7..8, 9)
  \/ Move("imp", {8}, 9)
  \/ Met("hermit", 5..7) /\ Move("imp", 9..10, 11)
  \/ Move("imp", {10}, 11)
  \/ Say("imp", {0, 1, 6})

(* Enough of the bears have been killed.                                   *)
BearsDead == Move("imp", {2}, 3)

WilliamTalks ==
  \/ OfferNew("william", {0}, 1, 22, 3)
  \/ OfferNew("william", {3}, 4, 23, 7)
  \/ Say("william", {1, 4, 5})

WilliamHears == Move("william", 0..2, 0) \/ Move("william", 3..6, 3)

WilliamTakes ==
  /\ At("william", {6})
  /\ st' = [st EXCEPT !["william"] = 7, !["imp"] = 6]
  /\ Done(23)

HermitTalks ==
  \/ Offer("hermit", {0}, 1, 24)
  \/ Finish("hermit", {5}, 6, 24)
  \/ Say("hermit", {1, 2, 3, 6})

HermitHears == Move("hermit", 0..4, 0)

(* The spider queen counts only while the hermit waits.                    *)
SpiderQueenDead == Say("hermit", {4})

(* Clara wants to see the holy weapon, plain and then strengthened.        *)
ClaraTalks ==
  \/ Met("kelly", 15..26) /\ Move("clara", {1}, 3)
  \/ Move("clara", {2}, 3)
  \/ Met("kelly", 18..26) /\ Offer("clara", {5}, 7, 21)
  \/ Offer("clara", {6}, 7, 21)
  \/ Move("clara", 9..10, 11)
  \/ Move("clara", 11..12, 13)
  \/ Finish("clara", {14}, 15, 21)
  \/ Say("clara", {0, 3, 4, 7, 8, 15})

ClaraHears ==
  \/ Move("clara", 0..5, 0)
  \/ Move("clara", 6..9, 6)
  \/ Move("clara", 10..11, 10)
  \/ Move("clara", 12..13, 12)
  \/ Move("clara", 15..16, 15)

SwampbeastDead == Move("clara", 12..13, 14)

ForestProgress ==
  \/ ImpTalks \/ BearsDead \/ WilliamTalks \/ WilliamTakes \/ HermitTalks
  \/ SpiderQueenDead \/ ClaraTalks \/ SwampbeastDead

ForestRepeats == WilliamHears \/ HermitHears \/ ClaraHears
=============================================================================
