------------------------------ MODULE MCQuests ------------------------------
(* Casts small enough for TLC: drivers that share a quest, move each       *)
(* other's number or wait for each other.                                  *)
EXTENDS QuestsInductive

MCCasts ==
  {{"james", "lydia"}, {"gwendy"}, {"terion"}, {"yoakin"}, {"nook"}, {"reskin"},
   {"guiwynn", "logain"}, {"seymour"}, {"kelly", "shrines"}, {"kelly", "glori"}, {"astro2"},
   {"crypt"}, {"carlos"}, {"imp", "william", "hermit"}, {"clara"},
   {"smugglecom", "contraband"}, {"countbran", "jewels"}, {"brenneth"}, {"spirit"},
   {"guardbran", "rammy"}, {"broklin"}, {"aristocrat"}, {"yoatin"},
   {"thief", "thief_killed"}, {"sanwyn", "notes"}, {"skelly"}, {"alchemist"},
   {"kalanur", "tribe", "nomad2", "nomad3", "nomad6"}, {"laas"}, {"garan"},
   {"glori", "arquin", "smith"}, {"homden"}, {"jaz"}, {"fiona", "trainer", "kid"}, {"ramin"},
   {"monk", "parts", "krenach"}, {"captain", "judge", "letters"}, {"jada"},
   {"potmaker", "hunter", "thaipan"}, {"clerk", "clerk_notes"}, {"rammy", "letters"}}

SeriesCasts == {{"brenneth"}, {"gwendy"}}
=============================================================================
