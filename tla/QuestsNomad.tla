----------------------------- MODULE QuestsNomad -----------------------------
(***************************************************************************)
(* The nomads (nomad.c) and the people of Caligar (caligar.c).             *)
(***************************************************************************)
EXTENDS QuestLog

(* Kalanur makes the player a member of the tribe; the trader, the dice    *)
(* player and the merchant of the statue speak to members only.            *)
KalanurTalks == Offer("kalanur", {0}, 1, 32) \/ Say("kalanur", 1..7 \cup {9})
KalanurHears == Move("kalanur", 0..8, 0) \/ Move("kalanur", 9..10, 9)

KalanurTakes ==
  /\ At("kalanur", 0..8)
  /\ st' = [st EXCEPT !["kalanur"] = 9, !["tribe"] = 1]
  /\ Done(32)

MembersTalk ==
  \E n \in {"nomad2", "nomad3", "nomad6"} :
     (Met("tribe", {1}) /\ Say(n, {0})) \/ Say(n, {1})

MembersHear == \E n \in {"nomad2", "nomad3", "nomad6"} : Move(n, 0..2, 0)

LaasTalks == Offer("laas", {0}, 1, 33) \/ Say("laas", {1, 2, 4})
LaasHears == Move("laas", 0..3, 0) \/ Move("laas", 4..5, 4)
LaasTakes == Finish("laas", 0..3, 4, 33)

GaranTalks == Offer("garan", {0}, 1, 34) \/ Say("garan", {1, 2, 4})
GaranHears == Move("garan", 0..3, 0) \/ Move("garan", 4..5, 4)
GaranTakes == Finish("garan", 0..3, 4, 34)

(* Glori settles each quest and opens the next one in the same breath; to  *)
(* have found her settles Kelly's.                                         *)
FinishOpening(n, s, t, q, p) ==
  /\ At(n, {s})
  /\ Goto(n, t)
  /\ done' = [done EXCEPT ![q] = (@ + 1) % DoneValues]
  /\ flags' = [flags EXCEPT ![q] = "done", ![p] = "open"]

GloriTalks ==
  \/ FinishOpening("glori", 0, 1, 54, 55)
  \/ FinishOpening("glori", 7, 8, 55, 56)
  \/ FinishOpening("glori", 10, 11, 56, 57)
  \/ FinishOpening("glori", 12, 13, 57, 58)
  \/ Finish("glori", {16}, 17, 58)
  \/ Say("glori", 1..6 \cup {8, 9, 11, 13, 14, 15, 17})

GloriHears ==
  \/ Move("glori", 1..5, 1)
  \/ Move("glori", 8..10, 8)
  \/ Move("glori", 11..12, 11)
  \/ Move("glori", 14..16, 14)
  \/ Move("glori", 17..18, 17)

(* Arquin and the smith speak up at one point of Glori's story only.       *)
ArquinTalks ==
  \/ Met("glori", {12}) /\ Move("arquin", {0}, 2)
  \/ Move("arquin", {3}, 5)
  \/ Say("arquin", {1, 2, 4, 5})

ArquinHears == Move("arquin", 1..3, 1) \/ Move("arquin", 4..6, 4)

SmithTalks ==
  \/ Met("glori", {16}) /\ Move("smith", {0}, 2)
  \/ Met("monk", 21..30) /\ Move("smith", {2}, 4)
  \/ Say("smith", {1} \cup 3..7)

SmithHears == Move("smith", 1..2, 1) \/ Move("smith", 3..8, 3)

HomdenTalks == Offer("homden", {0, 1}, 2, 59) \/ Say("homden", 2..3 \cup 5..10)
HomdenHears == Move("homden", 2..4, 2) \/ Move("homden", 6..11, 6)
HomdenTakes == Finish("homden", {4}, 5, 59)

NomadProgress ==
  \/ KalanurTalks \/ KalanurTakes \/ MembersTalk \/ LaasTalks \/ LaasTakes
  \/ GaranTalks \/ GaranTakes \/ GloriTalks \/ ArquinTalks \/ SmithTalks
  \/ HomdenTalks \/ HomdenTakes

NomadRepeats ==
  \/ KalanurHears \/ MembersHear \/ LaasHears \/ GaranHears \/ GloriHears
  \/ ArquinHears \/ SmithHears \/ HomdenHears
=============================================================================
