--------------------------- MODULE QuestsCameron ---------------------------
(***************************************************************************)
(* The villagers of Cameron (cameron.c).  ...Talks are the lines a driver  *)
(* says to a player it sees (NT_CHAR), ...Hears what it does when the      *)
(* player says "repeat" (NT_TEXT), ...Takes what it does with an item      *)
(* (NT_GIVE), ...Lapses the line after the player has been away for long.  *)
(***************************************************************************)
EXTENDS QuestLog

(* Four skulls, one after the other.                                       *)
GwendylonTalks ==
  \/ Offer("gwendy", {0}, 1, 1)
  \/ OfferNew("gwendy", {6}, 7, 2, 10)
  \/ OfferNew("gwendy", {10}, 11, 3, 13)
  \/ OfferNew("gwendy", {13}, 14, 4, 17)
  \/ Say("gwendy", {1, 2, 3, 4, 7, 8, 11, 14, 15, 17})

(* A mutant: a bound is missed.                                            *)
GwendylonHearsTooMuch == Move("gwendy", 0..5, 1) \/ Move("gwendy", 10..16, 13)

GwendylonHears ==
  \/ Move("gwendy", 0..5, 1)
  \/ Move("gwendy", 6..9, 6)
  \/ Move("gwendy", 10..12, 10)
  \/ Move("gwendy", 13..16, 13)
  \/ Move("gwendy", 17..18, 17)

GwendylonTakes ==
  \/ Finish("gwendy", 0..5, 6, 1)
  \/ Finish("gwendy", 6..9, 10, 2)
  \/ Finish("gwendy", 10..12, 13, 3)
  \/ Finish("gwendy", 13..16, 17, 4)

(* Yoakin keeps his quest back until Logain's is done.                     *)
YoakinTalks ==
  \/ Met("logain", 6..9) /\ Offer("yoakin", {2}, 3, 5)
  \/ Say("yoakin", {0, 1, 3})

YoakinLapses == Move("yoakin", 1..3, 2)
YoakinHears == Move("yoakin", 0..4, 2)
YoakinTakes == Finish("yoakin", 0..4, 5, 5)

(* Terion's stories follow what Gwendylon and Reskin have told.            *)
TerionTalks ==
  \/ Met("gwendy", 6..9) /\ Move("terion", {0}, 1)
  \/ Met("gwendy", 10..18) /\ Move("terion", {0}, 4)
  \/ Met("gwendy", 10..12) /\ Say("terion", {4})
  \/ Met("gwendy", 13..18) /\ Say("terion", {6})
  \/ Met("reskin", {9}) /\ Say("terion", {9})
  \/ Say("terion", {1, 2, 3, 5, 7, 8, 10, 11, 12, 13})

TerionHears ==
  \/ Move("terion", 0..4, 0)
  \/ Move("terion", 5..6, 4)
  \/ Move("terion", 7..9, 6)
  \/ Move("terion", 10..14, 9)

(* James and Lydia both open the quest; Lydia takes the potion.            *)
JamesTalks ==
  \/ Met("lydia", 0..5) /\ Offer("james", {0}, 1, 0)
  \/ Met("lydia", 6..7) /\ Move("james", {0}, 3)
  \/ Met("lydia", 6..7) /\ Say("james", {3})
  \/ Say("james", {1, 2, 4})

JamesHears == Move("james", 0..3, 0)

LydiaTalks ==
  \/ Offer("lydia", {0}, 1, 0)
  \/ Say("lydia", {1, 2, 3, 5, 6})

LydiaLapses == Offer("lydia", 1..3, 1, 0)
(* A mutant: Lydia starts all over.                                        *)
LydiaHearsAlways == Move("lydia", 0..7, 1)

LydiaHears == Move("lydia", 0..4, 1) \/ Move("lydia", 6..7, 6)
LydiaTakes == Finish("lydia", 0..4, 5, 0)

NookTalks ==
  \/ Met("gwendy", 13..18) /\ Offer("nook", {5}, 6, 6)
  \/ Met("gwendy", 17..18) /\ Move("nook", {12}, 16)
  \/ Met("gwendy", 0..16) /\ Say("nook", {12})
  \/ Say("nook", {0, 1, 2, 3, 4, 6, 7, 8, 9, 10, 13, 14})

NookHears ==
  \/ Move("nook", 0..4, 0)
  \/ Move("nook", 5..11, 5)
  \/ Move("nook", 12..15, 12)

NookTakes == Finish("nook", 5..11, 12, 6)

(* Reskin rewards a kill, which the player may have made at any time.      *)
ReskinTalks ==
  \/ Met("gwendy", 6..18) /\ Met("terion", 4..14) /\ Say("reskin", {0})
  \/ Met("logain", {9}) /\ Say("reskin", {3})
  \/ Offer("reskin", {4}, 5, 17)
  \/ Finish("reskin", {7}, 8, 17)
  \/ Say("reskin", {1, 2, 5, 6, 8})

ReskinHears ==
  \/ Move("reskin", 0..4, 0)
  \/ Move("reskin", 5..7, 4)
  \/ Move("reskin", 8..9, 8)

GuiwynnTalks ==
  \/ Met("gwendy", 17..18) /\ Offer("guiwynn", {0}, 1, 7)
  \/ OfferNew("guiwynn", {6}, 7, 8, 11)
  \/ Say("guiwynn", {1, 2, 3, 4, 7, 9, 10})

GuiwynnLapses ==
  \/ Move("guiwynn", 1..4, 2)
  \/ OfferNew("guiwynn", {7}, 7, 8, 11)

GuiwynnHears ==
  \/ Move("guiwynn", 0..5, 0)
  \/ Move("guiwynn", 6..8, 6)
  \/ Move("guiwynn", 9..11, 9)

GuiwynnTakes ==
  \/ Finish("guiwynn", 0..5, 6, 7)
  \/ Finish("guiwynn", 6..8, 10, 8)

LogainTalks ==
  \/ Met("guiwynn", {11}) /\ Offer("logain", {0}, 1, 9)
  \/ Say("logain", {1, 2, 3, 4, 6, 7, 8})

LogainLapses == Move("logain", 1..4, 2) \/ Move("logain", 6..8, 7)
LogainHears == Move("logain", 0..5, 0) \/ Move("logain", 6..9, 6)
LogainTakes == Finish("logain", 0..5, 6, 9)

CameronProgress ==
  \/ GwendylonTalks \/ GwendylonTakes \/ YoakinTalks \/ YoakinTakes \/ TerionTalks
  \/ JamesTalks \/ LydiaTalks \/ LydiaTakes \/ NookTalks \/ NookTakes
  \/ ReskinTalks \/ GuiwynnTalks \/ GuiwynnTakes \/ LogainTalks \/ LogainTakes

CameronRepeats ==
  \/ GwendylonHears \/ YoakinHears \/ YoakinLapses \/ TerionHears \/ JamesHears
  \/ LydiaHears \/ LydiaLapses \/ NookHears \/ ReskinHears
  \/ GuiwynnHears \/ GuiwynnLapses \/ LogainHears \/ LogainLapses
=============================================================================
