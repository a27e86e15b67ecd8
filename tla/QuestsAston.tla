----------------------------- MODULE QuestsAston -----------------------------
(***************************************************************************)
(* The people of Aston (aston.c) and its crypt (below_aston.c).            *)
(***************************************************************************)
EXTENDS QuestLog

SeymourTalks ==
  \/ Offer("seymour", {0}, 1, 10)
  \/ OfferNew("seymour", {10}, 11, 11, 12)
  \/ OfferNew("seymour", {12, 13, 14}, 15, 12, 16)
  \/ Say("seymour", 1..8 \cup {16})

SeymourHears ==
  \/ Move("seymour", 0..9, 0)
  \/ Move("seymour", 10..11, 10)
  \/ Move("seymour", 12..13, 12)
  \/ Move("seymour", 14..15, 14)
  \/ Move("seymour", 16..17, 16)

SeymourTakes ==
  \/ Finish("seymour", {9}, 10, 10)
  \/ Finish("seymour", {11}, 12, 11)
  \/ Finish("seymour", {15}, 16, 12)

(* Kelly sends the player to the shrines, to Clara and to Caligar; Glori   *)
(* of Caligar may have met the player first, and calls 54 done.            *)
KellyTalks ==
  \/ Met("seymour", 16..17) /\ Offer("kelly", {1}, 3, 13)
  \/ Offer("kelly", {2}, 3, 13)
  \/ OfferNew("kelly", {6}, 7, 14, 10)
  \/ Met("shrines", {3}) /\ Finish("kelly", {9}, 10, 14)
  \/ OfferNew("kelly", {13, 14}, 15, 15, 19)
  \/ Met("clara", 5..16) /\ Finish("kelly", {15}, 17, 15)
  \/ Finish("kelly", {16}, 17, 15)
  \/ At("kelly", {19, 20}) /\ done[60] > 0 /\ Move("kelly", {19, 20}, 26)
  \/ /\ At("kelly", {19, 20})
     /\ done[60] = 0
     /\ \/ done[54] > 0 /\ Move("kelly", {19, 20}, 21)
        \/ /\ done[54] = 0
           /\ Goto("kelly", 21)
           /\ flags' = [flags EXCEPT ![54] = "open", ![60] = "open"]
           /\ UNCHANGED done
  \/ Say("kelly", {0, 3, 4, 7, 8, 10, 11, 12, 17, 18, 21, 22, 23, 24})

KellyHears ==
  \/ Move("kelly", 0..5, 0)
  \/ Move("kelly", 6..9, 6)
  \/ Move("kelly", 10..13, 10)
  \/ Move("kelly", 14..15, 14)
  \/ Move("kelly", 17..19, 17)
  \/ Move("kelly", 21..25, 21)

KellyTakes ==
  \/ Finish("kelly", 0..5, 6, 13)
  \/ Finish("kelly", {25}, 26, 60)

(* The player touches another one of the three shrines in the park.        *)
ShrineFound == Say("shrines", 0..2)

AstronomerTalks == Offer("astro2", {0}, 1, 16) \/ Say("astro2", 1..3)
AstronomerHears == Move("astro2", 0..4, 0)
AstronomerTakes == Finish("astro2", 0..4, 5, 16)

(* Thomas and Sir Jones share a number.  Their vampires count only while   *)
(* Sir Jones waits for it; what the player answers him leads on.           *)
CryptTalks ==
  \/ Offer("crypt", {1}, 2, 18)
  \/ OfferNew("crypt", {12}, 13, 19, 14)
  \/ Move("crypt", {10}, 12)
  \/ Say("crypt", {0, 2, 3, 4, 6, 8, 13})

CryptHears ==
  \/ Move("crypt", 0..1, 0)
  \/ Move("crypt", 1..5, 1)
  \/ Move("crypt", 12..14, 12)

CryptAnswers == Move("crypt", 1..7, 8) \/ Move("crypt", 1..5, 6)

VampireDead == Finish("crypt", 8..9, 10, 18)
Vampire2Dead == Finish("crypt", 12..14, 15, 19)

CarlosTalks == Offer("carlos", {0}, 1, 20) \/ Say("carlos", 1..4)
CarlosHears == Move("carlos", 0..5, 0)
CarlosTakes == Finish("carlos", 0..5, 6, 20)

AstonProgress ==
  \/ SeymourTalks \/ SeymourTakes \/ KellyTalks \/ KellyTakes \/ ShrineFound
  \/ AstronomerTalks \/ AstronomerTakes \/ CryptTalks \/ CryptAnswers
  \/ VampireDead \/ Vampire2Dead \/ CarlosTalks \/ CarlosTakes

AstonRepeats ==
  \/ SeymourHears \/ KellyHears \/ AstronomerHears \/ CryptHears \/ CarlosHears
=============================================================================
