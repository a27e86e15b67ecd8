------------------------------ MODULE QuestLog ------------------------------
(***************************************************************************)
(* The quest log of a player and the steps of a dialogue (questlog.c).     *)
(*                                                                         *)
(* Every character driver that gives out quests keeps, in the persistent   *)
(* data of each player, a number that says how far the player has come     *)
(* with it (gwendy_state, kelly_state, ...).  The log is a second record:  *)
(* for each quest whether it is open or done, and how often it was done.   *)
(* Nothing but the case distinctions of the drivers keeps the two in step, *)
(* and questlog_reopen sets the drivers' numbers back from outside.        *)
(*                                                                         *)
(* The drivers of an area are in the modules Quests...; the operators      *)
(* below are what they do to their number and to the log.  A cast is a set *)
(* of drivers that touch each other's numbers or quests.  TLC takes one    *)
(* cast at a time: a driver outside the cast is nowhere and everywhere,    *)
(* a condition on its number may hold or not at any time.                  *)
(***************************************************************************)
EXTENDS Integers, FiniteSets

CONSTANTS Casts,        \* the casts to be considered
          ReopenLimit,  \* a quest done more often is not opened again: 9
          DoneValues    \* the values of quest.done, a field of 6 bits: 64

(* The last case of each driver's switch.                                  *)
Last ==
  [gwendy |-> 18, yoakin |-> 5, terion |-> 14, james |-> 5, lydia |-> 7, nook |-> 16,
   reskin |-> 9, guiwynn |-> 11, logain |-> 9, seymour |-> 17, kelly |-> 26,
   shrines |-> 3, astro2 |-> 5, crypt |-> 15, carlos |-> 6, imp |-> 11, william |-> 7,
   hermit |-> 7, clara |-> 16, smugglecom |-> 10, contraband |-> 4, countbran |-> 4,
   jewels |-> 3, brenneth |-> 15, spirit |-> 5, guardbran |-> 8, broklin |-> 18,
   aristocrat |-> 8, yoatin |-> 9, thief |-> 51, thief_killed |-> 1, sanwyn |-> 8,
   notes |-> 3, skelly |-> 3, alchemist |-> 5, kalanur |-> 10, tribe |-> 1,
   nomad2 |-> 2, nomad3 |-> 2, nomad6 |-> 2, laas |-> 5, garan |-> 5, glori |-> 18,
   arquin |-> 6, smith |-> 8, homden |-> 11, rammy |-> 20, letters |-> 3, jaz |-> 9,
   fiona |-> 20, ramin |-> 16, monk |-> 30, parts |-> 3, krenach |-> 5,
   captain |-> 10, judge |-> 6, jada |-> 5, potmaker |-> 4, hunter |-> 10,
   thaipan |-> 9, clerk |-> 6, clerk_notes |-> 3, trainer |-> 8, kid |-> 5]

ASSUME CastAssumption == \A c \in Casts : c \subseteq DOMAIN Last
ASSUME LimitAssumption ==
  ReopenLimit \in Nat /\ DoneValues \in Nat /\ 4 * ReopenLimit + 1 < DoneValues

VARIABLES st,           \* how far the player is with each driver of the cast
          flags,        \* the log: what it says of each quest of the cast,
          done          \* and how often the quest was done

vars == <<st, flags, done>>

Cast == DOMAIN st
Quests == DOMAIN flags
-----------------------------------------------------------------------------
(* The drivers that open a quest or call it done.                          *)
Gives(n, q) ==
  \/ q = 0 /\ n \in {"james", "lydia"}
  \/ q \in 1..4 /\ n = "gwendy"
  \/ q = 5 /\ n = "yoakin"
  \/ q = 6 /\ n = "nook"
  \/ q \in 7..8 /\ n = "guiwynn"
  \/ q = 9 /\ n = "logain"
  \/ q \in 10..12 /\ n = "seymour"
  \/ q \in 13..15 \cup {54, 60} /\ n = "kelly"
  \/ q = 16 /\ n = "astro2"
  \/ q = 17 /\ n = "reskin"
  \/ q \in 18..19 /\ n = "crypt"
  \/ q = 20 /\ n = "carlos"
  \/ q = 21 /\ n = "clara"
  \/ q = 22 /\ n \in {"william", "imp"}
  \/ q = 23 /\ n = "william"
  \/ q = 24 /\ n = "hermit"
  \/ q \in 25..28 /\ n = "thief"
  \/ q = 29 /\ n = "sanwyn"
  \/ q = 30 /\ n = "skelly"
  \/ q = 31 /\ n = "alchemist"
  \/ q = 32 /\ n = "kalanur"
  \/ q = 33 /\ n = "laas"
  \/ q = 34 /\ n = "garan"
  \/ q \in 35..37 /\ n = "smugglecom"
  \/ q = 38 /\ n = "aristocrat"
  \/ q = 39 /\ n = "yoatin"
  \/ q = 40 /\ n = "countbran"
  \/ q \in 41..43 /\ n = "brenneth"
  \/ q = 44 /\ n = "spirit"
  \/ q \in 45..46 /\ n = "broklin"
  \/ q \in 54..58 /\ n = "glori"
  \/ q = 59 /\ n = "homden"
  \/ q = 64 /\ n = "guardbran"
  \/ q \in {65, 71} /\ n = "rammy"
  \/ q = 66 /\ n = "jaz"
  \/ q = 67 /\ n = "fiona"
  \/ q = 68 /\ n = "ramin"
  \/ q \in {69, 70, 78} /\ n = "monk"
  \/ q = 72 /\ n = "jada"
  \/ q = 73 /\ n = "potmaker"
  \/ q = 74 /\ n = "thaipan"
  \/ q = 75 /\ n = "trainer"
  \/ q = 76 /\ n = "clerk"
  \/ q = 77 /\ n = "hunter"
  \/ q = 78 /\ n = "krenach"

QuestsOf(c) == {q \in 0..78 : \E n \in c : Gives(n, q)}

(* set_data gives a player who is new to a driver, and to the log, zeroes. *)
Init ==
  \E c \in Casts :
    /\ st = [n \in c |-> 0]
    /\ flags = [q \in QuestsOf(c) |-> "none"]
    /\ done = [q \in QuestsOf(c) |-> 0]

(***************************************************************************)
(* What a driver does while it says a line.                                *)
(***************************************************************************)
At(n, S) == n \in Cast /\ st[n] \in S

(* A driver looks at the number of another one, which may be elsewhere.    *)
Met(n, S) == n \in Cast => st[n] \in S

Goto(n, t) == st' = [st EXCEPT ![n] = t]

Unlogged == UNCHANGED <<flags, done>>

(* The driver is set to t, says a line and passes on to the next one; the  *)
(* log is not touched.                                                     *)
Say(n, S) == At(n, S) /\ Goto(n, st[n] + 1) /\ Unlogged
Move(n, S, t) == At(n, S) /\ Goto(n, t) /\ Unlogged

(* questlog_open, whatever the log says.                                   *)
Open(q) == flags' = [flags EXCEPT ![q] = "open"] /\ UNCHANGED done

Offer(n, S, t, q) == At(n, S) /\ Goto(n, t) /\ Open(q)

(* A mutant: the log is not asked.                                         *)
OfferAgain(n, S, t, q, skip) == Offer(n, S, t, q)

(* questlog_isdone first: a quest that is done is passed over.             *)
OfferNew(n, S, t, q, skip) ==
  \/ At(n, S) /\ flags[q] # "done" /\ Offer(n, S, t, q)
  \/ At(n, S) /\ flags[q] = "done" /\ Move(n, S, skip)

(* questlog_done counts and pays, whatever the log says.  questlog_scale   *)
(* pays less each time, down to 15%.                                       *)
Done(q) ==
  /\ done' = [done EXCEPT ![q] = (@ + 1) % DoneValues]
  /\ flags' = [flags EXCEPT ![q] = "done"]

Finish(n, S, t, q) == At(n, S) /\ Goto(n, t) /\ Done(q)

(* questlog_close: an open quest is crossed out, it is neither counted nor *)
(* paid.                                                                   *)
Closed(f, Q) == [q \in DOMAIN f |-> IF q \in Q /\ f[q] = "open" THEN "done" ELSE f[q]]

(***************************************************************************)
(* questlog_reopen: the player asks for a finished quest again.  Quests    *)
(* without the flag QLF_REPEATABLE are refused, although the switch has    *)
(* cases for some of them (22; 36 runs on into 37).  A quest of a series   *)
(* is refused while another one of the series is open.                     *)
(***************************************************************************)
Repeatable == 0..5 \cup 7..9 \cup {12, 13, 16, 20, 30, 31, 35} \cup 37..45

(* The number driver n is set back to from s when quest q is reopened.     *)
Restart(q, n, s) ==
  CASE q = 0 /\ n \in {"james", "lydia"} -> 0
    [] q = 1 /\ n = "gwendy" -> 0
    [] q = 2 /\ n = "gwendy" -> 6
    [] q = 3 /\ n = "gwendy" -> 10
    [] q = 4 /\ n = "gwendy" -> 13
    [] q = 5 /\ n = "yoakin" -> 2
    [] q = 7 /\ n = "guiwynn" -> 0
    [] q = 8 /\ n = "guiwynn" -> 6
    [] q = 9 /\ n = "logain" -> 0
    [] q = 12 /\ n = "seymour" -> 12
    [] q = 13 /\ n = "kelly" -> 0
    [] q = 16 /\ n = "astro2" -> 0
    [] q = 20 /\ n = "carlos" -> 0
    [] q = 22 /\ n \in {"william", "imp"} -> 0
    [] q = 30 /\ n = "skelly" -> 0
    [] q = 31 /\ n = "alchemist" -> 0
    [] q = 35 /\ n = "smugglecom" -> 0
    [] q \in 36..37 /\ n = "smugglecom" -> 7
    [] q = 38 /\ n = "aristocrat" -> 0
    [] q = 39 /\ n = "yoatin" -> 0
    [] q = 40 /\ n \in {"countbran", "jewels"} -> 0
    [] q = 41 /\ n = "brenneth" -> 0
    [] q = 42 /\ n = "brenneth" -> 5
    [] q = 43 /\ n = "brenneth" -> 9
    [] q = 44 /\ n = "spirit" -> 0
    [] q = 45 /\ n = "broklin" -> 0
    [] OTHER -> s

Series == {1..4, 7..8, 10..12, 22..23, 35..37, 41..43, 45..46}

(* Mutants: the rest of the series is not looked at, or the count is not.  *)
ReopenAny(q) ==
  /\ done[q] <= ReopenLimit
  /\ q \in Repeatable /\ flags[q] = "done"
  /\ st' = [n \in Cast |-> Restart(q, n, st[n])]
  /\ Open(q)

ReopenAlways(q) ==
  /\ q \in Repeatable /\ flags[q] = "done"
  /\ \A s \in Series : q \in s => \A p \in s \cap Quests : flags[p] # "open"
  /\ st' = [n \in Cast |-> Restart(q, n, st[n])]
  /\ Open(q)

Reopen(q) ==
  /\ done[q] <= ReopenLimit
  /\ q \in Repeatable
  /\ flags[q] = "done"
  /\ \A s \in Series : q \in s => \A p \in s \cap Quests : flags[p] # "open"
  /\ st' = [n \in Cast |-> Restart(q, n, st[n])]
  /\ Open(q)
=============================================================================
