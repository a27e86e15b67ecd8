----------------------------- MODULE QuestsBran -----------------------------
(***************************************************************************)
(* The imperial commander below Aston (below_aston2.c), the people of      *)
(* Brannington (brannington.c) and of its forest (bran_forest.c).          *)
(***************************************************************************)
EXTENDS QuestLog

CommanderTalks ==
  \/ Offer("smugglecom", {0}, 1, 35)
  \/ Move("smugglecom", 2..3, 4)
  \/ OfferNew("smugglecom", {5}, 6, 36, 7)
  \/ At("contraband", {4}) /\ Finish("smugglecom", {6}, 7, 36)
  \/ OfferNew("smugglecom", {7}, 8, 37, 10)
  \/ Finish("smugglecom", {9}, 10, 37)
  \/ Say("smugglecom", {1})

CommanderHears ==
  \/ Move("smugglecom", 0..4, 0)
  \/ Move("smugglecom", 5..6, 5)
  \/ Move("smugglecom", 7..8, 7)

(* A mutant: a piece is taken again.                                       *)
CommanderTakesAgain == Finish("smugglecom", 0..4, 5, 35) \/ Say("contraband", 0..4)

(* The book, or another one of the four pieces of contraband: these are    *)
(* taken at any time.                                                      *)
CommanderTakes == Finish("smugglecom", 0..4, 5, 35) \/ Say("contraband", 0..3)

SmuggleleadDied == Say("smugglecom", {8})

(* The count takes the three jewels at any time, asked for or not.         *)
CountTalks ==
  \/ At("countbran", {0}) /\ flags[40] # "done" /\ Offer("countbran", {0}, 1, 40)
  \/ At("countbran", {0}) /\ flags[40] = "done" /\ Say("countbran", {0})
  \/ Say("countbran", 1..3)

CountHears == Move("countbran", 0..4, 0)
CountTakes == Say("jewels", 0..1) \/ Finish("jewels", {2}, 3, 40)

BrennethTalks ==
  \/ Offer("brenneth", {0}, 1, 41)
  \/ OfferNew("brenneth", {5}, 6, 42, 9)
  \/ OfferNew("brenneth", {9}, 10, 43, 12)
  \/ Say("brenneth", {1, 2, 3, 6, 7, 10, 12, 13, 14})

BrennethHears ==
  \/ Move("brenneth", 0..4, 0)
  \/ Move("brenneth", 5..8, 5)
  \/ Move("brenneth", 9..11, 9)
  \/ Move("brenneth", 12..15, 12)

BrennethTakes ==
  \/ Finish("brenneth", 0..4, 5, 41)
  \/ Finish("brenneth", 5..8, 9, 42)
  \/ Finish("brenneth", 9..11, 12, 43)

SpiritTalks == Offer("spirit", {0}, 1, 44) \/ Say("spirit", 1..3)
SpiritHears == Move("spirit", 0..4, 0)
SpiritTakes == Finish("spirit", 0..4, 5, 44)

(* The guard sends the player to Arkhata after the three jewels; Rammy is  *)
(* met there.                                                              *)
GuardTalks ==
  \/ Met("jewels", {3}) /\ Move("guardbran", {1}, 3)
  \/ Move("guardbran", {2}, 3)
  \/ Offer("guardbran", {5}, 6, 64)
  \/ Met("rammy", 1..20) /\ Finish("guardbran", {6}, 8, 64)
  \/ Say("guardbran", {0, 3, 4, 7})

GuardHears ==
  \/ Move("guardbran", 0..1, 0)
  \/ Move("guardbran", 2..6, 2)
  \/ Move("guardbran", 7..8, 7)

BroklinTalks ==
  \/ Offer("broklin", {0}, 1, 45)
  \/ OfferNew("broklin", {5}, 6, 46, 11)
  \/ Say("broklin", 1..3 \cup 6..9 \cup 11..14 \cup 16..17)

BroklinHears ==
  \/ Move("broklin", 0..4, 0)
  \/ Move("broklin", 5..10, 5)
  \/ Move("broklin", 11..19, 16)

BroklinTakes == Finish("broklin", 0..4, 5, 45)
RobberbossDead == Finish("broklin", 5..10, 11, 46)

AristocratTalks == Offer("aristocrat", {0}, 1, 38) \/ Say("aristocrat", 1..6)
AristocratHears == Move("aristocrat", 0..7, 0)
AristocratTakes == Finish("aristocrat", 0..7, 8, 38)

YoatinTalks == Offer("yoatin", {0}, 1, 39) \/ Say("yoatin", 1..7)
YoatinHears == Move("yoatin", 0..8, 0)
YoatinTakes == Finish("yoatin", 0..8, 9, 39)

BranProgress ==
  \/ CommanderTalks \/ CommanderTakes \/ SmuggleleadDied \/ CountTalks \/ CountTakes
  \/ BrennethTalks \/ BrennethTakes \/ SpiritTalks \/ SpiritTakes \/ GuardTalks
  \/ BroklinTalks \/ BroklinTakes \/ RobberbossDead \/ AristocratTalks
  \/ AristocratTakes \/ YoatinTalks \/ YoatinTakes

BranRepeats ==
  \/ CommanderHears \/ CountHears \/ BrennethHears \/ SpiritHears \/ GuardHears
  \/ BroklinHears \/ AristocratHears \/ YoatinHears
=============================================================================
