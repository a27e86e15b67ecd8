---------------------------- MODULE QuestsArkhata ----------------------------
(***************************************************************************)
(* The people of Arkhata (arkhata.c).  Most of them wait for another one   *)
(* to have been satisfied.                                                 *)
(***************************************************************************)
EXTENDS QuestLog

RammyTalks ==
  \/ Met("guardbran", 2..8) /\ Say("rammy", {0})
  \/ Met("guardbran", 7..8) /\ Offer("rammy", {6}, 8, 65)
  \/ Offer("rammy", {7}, 8, 65)
  \/ Met("monk", 20..30) /\ Offer("rammy", {13}, 15, 71)
  \/ Met("letters", {3}) /\ Finish("rammy", {17}, 19, 71)
  \/ Finish("rammy", {18}, 19, 71)
  \/ Say("rammy", 1..5 \cup {8, 9, 11, 12, 14, 15, 16, 19})

RammyHears ==
  \/ Move("rammy", 0..6, 0)
  \/ Move("rammy", 7..10, 7)
  \/ Move("rammy", 12..13, 12)
  \/ Move("rammy", 14..17, 14)

RammyTakes == Finish("rammy", {10}, 11, 65)

(* The letters of the judge are for Ramin, the count and the captain.      *)
LetterTaken == Say("letters", 0..2)

JazTalks ==
  \/ Met("rammy", 12..20) /\ Offer("jaz", {0}, 2, 66)
  \/ Offer("jaz", {1}, 2, 66)
  \/ Say("jaz", {2, 3, 4, 6, 7, 8})

JazHears == Move("jaz", 0..5, 0) \/ Move("jaz", 6..9, 6)
JazTakes == Finish("jaz", {5}, 6, 66)

(* Fiona's ten gladiators, and a skill to choose for who beats them.       *)
FionaTalks ==
  \/ Offer("fiona", {0, 1}, 2, 67)
  \/ Move("fiona", {5, 17}, 19)
  \/ Say("fiona", {2, 4, 5, 6, 17, 19})

FionaHears ==
  \/ Move("fiona", 0..3, 0)
  \/ Move("fiona", 5..7, 5)
  \/ Move("fiona", 17..18, 17)
  \/ Move("fiona", 19..20, 19)

SkillChosen == Say("fiona", {18})
FionaTakes == Finish("fiona", {3}, 4, 67)
GladiatorBeaten == Say("fiona", 7..16)

RaminTalks ==
  \/ Met("fiona", 4..20) /\ Offer("ramin", {0}, 2, 68)
  \/ Offer("ramin", {1}, 2, 68)
  \/ Met("monk", 20..30) /\ Move("ramin", {9}, 11)
  \/ Met("rammy", 18..20) /\ Move("ramin", {11}, 13)
  \/ Say("ramin", 2..5 \cup {7, 8, 10, 12, 13, 14, 15})

RaminHears ==
  \/ Move("ramin", 0..6, 0)
  \/ Move("ramin", 7..9, 7)
  \/ Move("ramin", 10..11, 10)
  \/ Move("ramin", 12..16, 12)

(* The last of the skeletons, killed while Ramin waits.                    *)
ArkhataskellyDead == Finish("ramin", {6}, 7, 68)

(* Four monks share a number.                                              *)
MonkTalks ==
  \/ Met("ramin", 7..16) /\ Move("monk", {0}, 2)
  \/ Offer("monk", {8}, 9, 69)
  \/ Offer("monk", {15}, 16, 70)
  \/ Offer("monk", {21}, 22, 78)
  \/ Say("monk", 1..7 \cup 9..11 \cup 13..14 \cup 16..18 \cup {20} \cup 22..27 \cup {29})

MonkHears ==
  \/ Move("monk", 8..12, 8)
  \/ Move("monk", 15..19, 15)
  \/ Move("monk", 21..28, 21)

(* Three parts of a key, then the dictionary.                              *)
MonkTakes ==
  \/ At("monk", {12}) /\ Say("parts", 0..1)
  \/ /\ At("monk", {12}) /\ At("parts", {2})
     /\ st' = [st EXCEPT !["monk"] = 13, !["parts"] = 3]
     /\ Done(69)
  \/ Say("monk", {28})

BookeaterDead == Finish("monk", {19}, 20, 70)

(* Krenach has the monks' book translated.                                 *)
KrenachTalks ==
  \/ Met("monk", 29..30) /\ Finish("krenach", {0}, 2, 78)
  \/ Finish("krenach", {1}, 2, 78)
  \/ Say("krenach", 2..4)

CaptainTalks ==
  \/ Met("judge", {6}) /\ Met("letters", {3}) /\ Move("captain", {4}, 6)
  \/ Say("captain", 1..3 \cup 5..9)

CaptainHears ==
  \/ Met("judge", {0}) /\ Move("captain", 1..4, 1)
  \/ Move("captain", 5..10, 5)

CaptainTakes == Say("captain", {0})

JudgeTalks ==
  \/ Met("captain", 1..10) /\ Move("judge", {0}, 2)
  \/ Say("judge", 1..5)

JudgeHears ==
  \/ Met("letters", 0..2) /\ Move("judge", 1..6, 1)
  \/ Met("letters", {3}) /\ Move("judge", 1..6, 4)

JudgeTakes == Say("judge", {0})

JadaTalks ==
  \/ Met("ramin", 12..16) /\ Offer("jada", {0}, 2, 72)
  \/ Offer("jada", {1}, 2, 72)
  \/ Say("jada", 2..3)

JadaHears == Move("jada", 1..4, 1)
JadaTakes == Finish("jada", 1..4, 5, 72)

PotmakerTalks == Offer("potmaker", {0, 1}, 2, 73) \/ Say("potmaker", {2})
PotmakerHears == Move("potmaker", 1..3, 1)
PotmakerTakes == Finish("potmaker", 1..3, 4, 73)

(* The case of state 0 runs on into that of 1, wherever it has gone.       *)
HunterTalks ==
  \/ Met("potmaker", {4}) /\ Move("hunter", {0}, 5)
  \/ Met("potmaker", 1..3) /\ Move("hunter", {0}, 2)
  \/ Offer("hunter", {4, 5}, 6, 77)
  \/ Say("hunter", 1..3 \cup 6..8)

HunterHears == Move("hunter", 1..4, 1)
HunterTakes == Finish("hunter", 5..9, 10, 77)

ThaipanTalks ==
  \/ Met("potmaker", {4}) /\ Offer("thaipan", {0}, 2, 74)
  \/ Offer("thaipan", {1}, 2, 74)
  \/ Say("thaipan", 2..7)

ThaipanHears == Move("thaipan", 1..8, 1)
ThaipanTakes == Finish("thaipan", 1..8, 9, 74)

(* The clerk wants three notes within a time; only one of the notes ends   *)
(* the wait when it comes last.                                            *)
ClerkTalks ==
  \/ Met("captain", 5..10) /\ Offer("clerk", {0}, 2, 76)
  \/ Offer("clerk", {1}, 2, 76)
  \/ Say("clerk", 2..3)

ClerkHears == Move("clerk", 1..4, 1)
ClerkAnswered == Say("clerk", {4})
ClerkTimesOut == Move("clerk", {5}, 6)

ClerkTakes ==
  \/ At("clerk", {5}) /\ Say("clerk_notes", 0..1)
  \/ /\ At("clerk", {5}) /\ At("clerk_notes", {2})
     /\ \E t \in {5, 6} : st' = [st EXCEPT !["clerk"] = t, !["clerk_notes"] = 3]
     /\ Done(76)

TrainerTalks ==
  \/ Met("fiona", 4..20) /\ Offer("trainer", {0}, 2, 75)
  \/ Offer("trainer", {1}, 2, 75)
  \/ Met("kid", {5}) /\ Finish("trainer", {6}, 7, 75)
  \/ Say("trainer", 2..5 \cup {7})

TrainerHears == Move("trainer", 1..6, 1) \/ Move("trainer", 7..8, 7)

(* The kidnapped student needs a potion before it can follow.              *)
KidnappeeTalks ==
  \/ Met("trainer", 1..8) /\ Move("kid", {0}, 2)
  \/ Move("kid", {2}, 4)
  \/ Move("kid", {3}, 2)
  \/ Say("kid", {1, 2, 4})

ArkhataProgress ==
  \/ RammyTalks \/ RammyTakes \/ LetterTaken \/ JazTalks \/ JazTakes \/ FionaTalks
  \/ SkillChosen \/ FionaTakes \/ GladiatorBeaten \/ RaminTalks \/ ArkhataskellyDead
  \/ MonkTalks \/ MonkTakes \/ BookeaterDead \/ KrenachTalks \/ CaptainTalks
  \/ CaptainTakes \/ JudgeTalks \/ JudgeTakes \/ JadaTalks \/ JadaTakes
  \/ PotmakerTalks \/ PotmakerTakes \/ HunterTalks \/ HunterTakes \/ ThaipanTalks
  \/ ThaipanTakes \/ ClerkTalks \/ ClerkAnswered \/ ClerkTimesOut \/ ClerkTakes
  \/ TrainerTalks \/ KidnappeeTalks

ArkhataRepeats ==
  \/ RammyHears \/ JazHears \/ FionaHears \/ RaminHears \/ MonkHears \/ CaptainHears
  \/ JudgeHears \/ JadaHears \/ PotmakerHears \/ HunterHears \/ ThaipanHears
  \/ ClerkHears \/ TrainerHears
=============================================================================
