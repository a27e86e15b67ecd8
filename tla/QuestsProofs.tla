---------------------------- MODULE QuestsProofs ----------------------------
(***************************************************************************)
(* The drivers and the log stay in step.  QuestsInv of QuestsInductive is  *)
(* kept by every step, for any casts and limits, and with it every step    *)
(* does what the action properties demand: Kept.                           *)
(*                                                                         *)
(* StepKeeps says what a step may do: the numbers of the drivers change    *)
(* without consequence for any quest but those the step opens and pays     *)
(* (Easy), and these may be opened and paid (MayOpen, MayPay).  Move, Say, *)
(* Offer, OfferNew and Finish, of which the drivers are made, have a lemma *)
(* each (MoveKeeps and so on) that leaves conditions on the numbers alone. *)
(* For each driver ...Table reads its rows off Asks, NotYet, Behind and    *)
(* Due, and ...Steps goes through its lines.                               *)
(***************************************************************************)
EXTENDS QuestsInductive, FiniteSetTheorems, TLAPS

(* Driver n may go from s to t as far as quest q is concerned, of which    *)
(* the log says f.                                                         *)
Carefree(n, s, t, q, f) ==
  /\ f = "open" /\ Asks(n, s, q) => Asks(n, t, q)
  /\ (q = 0 \/ f = "done") /\ NotYet(n, t, q) => NotYet(n, s, q)
  /\ f # "done" /\ Behind(n, t, q) => Behind(n, s, q)
  /\ Due(n, t, q) => Due(n, s, q)

(* The drivers stay within their switches, and what they do is of no       *)
(* consequence for any quest but those of Q.                               *)
Easy(Q) ==
  /\ DOMAIN st' = Cast
  /\ \A n \in Cast :
       /\ st'[n] \in 0..Last[n]
       /\ \A q \in Quests \ Q : Carefree(n, st[n], st'[n], q, flags[q])

(* Quest q may be opened: it is not done and its drivers are there to take *)
(* in what it is about.                                                    *)
MayOpen(q) ==
  /\ q = 0 \/ flags[q] # "done"
  /\ \A n \in Cast :
       /\ Asks(n, st'[n], q)
       /\ ~Behind(n, st'[n], q)
       /\ q = 0 /\ NotYet(n, st'[n], q) => NotYet(n, st[n], q)
       /\ Due(n, st'[n], q) => Due(n, st[n], q)

(* Quest q may be paid: it is not done, or its driver comes by it at the   *)
(* player's wish; and the driver goes on.                                  *)
MayPay(q) ==
  /\ \A n \in Cast : ~NotYet(n, st'[n], q) /\ ~Due(n, st'[n], q)
  /\ q \in Followers => \E n \in Cast : Due(n, st[n], q)
  /\ q \notin Followers \cup {29} => flags[q] # "done"
  /\ q = 0 => \E n \in Cast : NotYet(n, st[n], 0)

(* The quests of P are opened, those of D are paid.  The guild's quests    *)
(* (QLF_XREPEAT) may do what they like.                                    *)
Logs(P, D) ==
  /\ DOMAIN flags' = Quests
  /\ DOMAIN done' = Quests
  /\ \A q \in Quests : flags'[q] \in {"none", "open", "done"}
  /\ \A q \in Quests : done'[q] \in 0..DoneValues - 1
  /\ \A q \in Quests \ (Xrepeat \cup P \cup D) : flags'[q] = flags[q]
  /\ \A q \in Quests \ (Xrepeat \cup D) : done'[q] = done[q]
  /\ \A q \in Quests \cap P : flags'[q] = "open"
  /\ \A q \in Quests \cap D : flags'[q] = "done" /\ done'[q] = (done[q] + 1) % DoneValues

(* What every step has to do.                                              *)
Kept == QuestsInv' /\ AtWish /\ PaidWhenNew /\ CountGrows
-----------------------------------------------------------------------------
LEMMA LimitTypes ==
  /\ ReopenLimit \in Nat
  /\ DoneValues \in Nat
  /\ 4 * ReopenLimit + 1 < DoneValues
BY LimitAssumption

\* Counting on by one below the width of the field.
LEMMA CountOn ==
  ASSUME NEW k \in Nat, k + 1 < DoneValues PROVE (k + 1) % DoneValues = k + 1
BY LimitTypes

\* The guild's quests are in no table.
LEMMA GuildFree ==
  \A n, s : \A q \in Xrepeat :
    Asks(n, s, q) /\ ~NotYet(n, s, q) /\ ~Behind(n, s, q) /\ ~Due(n, s, q)
BY DEF Xrepeat, Asks, NotYet, Behind, Due

-----------------------------------------------------------------------------
\* What is left of the reopenings never grows but by a count.
LEMMA LeftFalls ==
  ASSUME QuestsInv, NEW P, NEW D, Logs(P, D), NEW q \in Quests \ Xrepeat,
         q \in D => done[q] + 1 < DoneValues,
         q \notin P \/ q \notin D
  PROVE  Left(q)' <= Left(q)
<1>1. /\ done[q] \in Nat /\ done'[q] \in Nat
      /\ flags[q] \in {"none", "open", "done"}
  BY LimitTypes DEF QuestsInv, TypeOK, Logs
<1>2. CASE q \in D
  <2>1. done'[q] = done[q] + 1 /\ flags'[q] = "done"
    BY <1>1, <1>2, CountOn DEF Logs
  <2> QED BY <1>1, <2>1, LimitTypes DEF Left
<1>3. CASE q \notin D
  <2>1. done'[q] = done[q] /\ (flags'[q] = flags[q] \/ flags'[q] = "open")
    BY <1>3 DEF Logs
  <2> QED BY <1>1, <2>1, LimitTypes DEF Left
<1> QED BY <1>2, <1>3

\* The quests of a series have the same driver.
LEMMA SeriesTogether ==
  ASSUME LogOfCast
  PROVE  /\ 2 \in Quests => 1 \in Quests
         /\ 3 \in Quests => 1 \in Quests /\ 2 \in Quests
         /\ 4 \in Quests => 1 \in Quests /\ 2 \in Quests /\ 3 \in Quests
         /\ 8 \in Quests => 7 \in Quests
         /\ 42 \in Quests => 41 \in Quests
         /\ 43 \in Quests => 41 \in Quests /\ 42 \in Quests
         /\ 46 \in Quests => 45 \in Quests
<1>1. \A q \in 2..4 : q \in Quests => "gwendy" \in Cast
  BY DEF LogOfCast, QuestsOf, Gives
<1>2. "gwendy" \in Cast => 1..4 \subseteq Quests
  BY DEF LogOfCast, QuestsOf, Gives
<1>3. 8 \in Quests => "guiwynn" \in Cast
  BY DEF LogOfCast, QuestsOf, Gives
<1>4. "guiwynn" \in Cast => 7 \in Quests
  BY DEF LogOfCast, QuestsOf, Gives
<1>5. \A q \in 42..43 : q \in Quests => "brenneth" \in Cast
  BY DEF LogOfCast, QuestsOf, Gives
<1>6. "brenneth" \in Cast => 41..43 \subseteq Quests
  BY DEF LogOfCast, QuestsOf, Gives
<1>7. 46 \in Quests => "broklin" \in Cast
  BY DEF LogOfCast, QuestsOf, Gives
<1>8. "broklin" \in Cast => 45 \in Quests
  BY DEF LogOfCast, QuestsOf, Gives
<1> QED BY <1>1, <1>2, <1>3, <1>4, <1>5, <1>6, <1>7, <1>8

\* What is left of the reopenings of a quest is a number.
LEMMA LeftType ==
  ASSUME TypeOK, NEW q \in Quests PROVE Left(q) \in Nat
<1>1. done[q] \in Int
  BY LimitTypes DEF TypeOK
<1> QED BY <1>1, LimitTypes DEF Left

\* The sums over a series fall with their parts.
LEMMA LeftBeforeFalls ==
  ASSUME QuestsInv, TypeOK', Quests' = Quests, NEW q \in Quests \cap Followers,
         \A p \in Quests \ (Xrepeat \cup {29}) : Left(p)' <= Left(p)
  PROVE  LeftBefore(q)' <= LeftBefore(q) /\ LeftBefore(q) \in Nat /\ LeftBefore(q)' \in Nat
<1>1. \A p \in Quests : Left(p) \in Nat
  BY LeftType DEF QuestsInv
<1>2. \A p \in Quests : Left(p)' \in Nat
  <2> SUFFICES ASSUME NEW p \in Quests PROVE Left(p)' \in Nat
    OBVIOUS
  <2>1. done'[p] \in Int
    BY LimitTypes DEF TypeOK
  <2> QED BY <2>1, LimitTypes DEF Left
<1>3. LogOfCast
  BY DEF QuestsInv
<1>4. q \in {2, 3, 4, 8, 42, 43, 46}
  BY DEF Followers
<1>5. \A p \in Quests \cap (1..4 \cup {7, 8, 41, 42, 43, 45, 46}) : Left(p)' <= Left(p)
  BY DEF Xrepeat
<1>6. CASE q = 2
  BY <1>1, <1>2, <1>3, <1>5, <1>6, SeriesTogether DEF LeftBefore
<1>7. CASE q = 3
  BY <1>1, <1>2, <1>3, <1>5, <1>7, SeriesTogether DEF LeftBefore
<1>8. CASE q = 4
  BY <1>1, <1>2, <1>3, <1>5, <1>8, SeriesTogether DEF LeftBefore
<1>9. CASE q = 8
  BY <1>1, <1>2, <1>3, <1>5, <1>9, SeriesTogether DEF LeftBefore
<1>10. CASE q = 42
  BY <1>1, <1>2, <1>3, <1>5, <1>10, SeriesTogether DEF LeftBefore
<1>11. CASE q = 43
  BY <1>1, <1>2, <1>3, <1>5, <1>11, SeriesTogether DEF LeftBefore
<1>12. CASE q = 46
  BY <1>1, <1>2, <1>3, <1>5, <1>12, SeriesTogether DEF LeftBefore
<1> QED BY <1>4, <1>6, <1>7, <1>8, <1>9, <1>10, <1>11, <1>12

\* A quest is paid below the width of its count.
LEMMA RoomToCount ==
  ASSUME QuestsInv, NEW q \in Quests \ (Xrepeat \cup {29}), MayPay(q)
  PROVE  done[q] + 1 < DoneValues
<1>1. done[q] \in Nat
  BY LimitTypes DEF QuestsInv, TypeOK
<1>2. CASE q \in Followers
  <2>1. IsDue(q) = 1
    BY <1>2 DEF MayPay, IsDue
  <2>2. LeftBefore(q) \in Nat
    <3>1. LogOfCast /\ \A p \in Quests : Left(p) \in Nat
      BY LeftType DEF QuestsInv
    <3> QED BY <1>2, <3>1, SeriesTogether DEF Followers, LeftBefore
  <2>3. done[q] + 1 + LeftBefore(q) <= Most(q)
    BY <1>2, <2>1 DEF QuestsInv, FollowersCounted
  <2>4. Most(q) \in Nat /\ Most(q) <= 4 * ReopenLimit + 1
    BY LimitTypes DEF Most
  <2> QED BY <1>1, <2>2, <2>3, <2>4, LimitTypes
<1>3. CASE q \notin Followers
  <2>1. Limit(q) \in Nat /\ Limit(q) <= ReopenLimit
    BY LimitTypes DEF Limit
  <2>2. flags[q] # "done" /\ (q = 0 => \E n \in Cast : NotYet(n, st[n], 0))
    BY <1>3 DEF MayPay
  <2>3. CASE q = 0
    BY <1>1, <2>2, <2>3, LimitTypes DEF QuestsInv, Counted
  <2>4. CASE q # 0
    BY <1>1, <1>3, <2>1, <2>2, <2>4, LimitTypes DEF QuestsInv, Counted
  <2> QED BY <2>3, <2>4
<1> QED BY <1>2, <1>3

\* A step that opens what may be opened and pays what may be paid, while
\* the drivers do nothing else of consequence, keeps all the promises.
LEMMA StepKeeps ==
  ASSUME QuestsInv, NEW P, NEW D, P \cap D = {}, Logs(P, D), Easy(P \cup D),
         \A q \in Quests \cap P : MayOpen(q),
         \A q \in Quests \cap D : MayPay(q)
  PROVE  Kept
<1> USE LimitTypes
<1>1. Quests' = Quests /\ Cast' = Cast
  BY DEF Logs, Easy, Quests, Cast
<1>2. TypeOK'
  BY <1>1 DEF QuestsInv, TypeOK, Logs, Easy
<1>3. LogOfCast'
  BY <1>1 DEF QuestsInv, LogOfCast, Logs, Quests
<1>4. ASSUME NEW q \in Quests, q \notin Xrepeat
      PROVE  \/ q \in P /\ q \notin D /\ flags'[q] = "open" /\ done'[q] = done[q]
             \/ q \in D /\ q \notin P /\ flags'[q] = "done" /\ done'[q] = (done[q] + 1) % DoneValues
             \/ q \notin P /\ q \notin D /\ flags'[q] = flags[q] /\ done'[q] = done[q]
  BY <1>4 DEF Logs
<1>5. ASSUME NEW q \in Quests \ (Xrepeat \cup {29}), q \in D
      PROVE  done'[q] = done[q] + 1 /\ done[q] \in Nat /\ done[q] + 1 < DoneValues
  <2>1. done[q] \in Nat
    BY DEF QuestsInv, TypeOK
  <2>2. done[q] + 1 < DoneValues
    BY <1>5, RoomToCount
  <2> QED BY <1>5, <2>1, <2>2, CountOn DEF Logs
<1>6. OpenIsAsked'
  <2> SUFFICES ASSUME NEW q \in Quests, NEW n \in Cast, flags'[q] = "open"
               PROVE  Asks(n, st'[n], q)
    BY <1>1 DEF OpenIsAsked
  <2>1. CASE q \in Xrepeat
    BY <2>1, GuildFree
  <2>2. CASE q \notin Xrepeat /\ q \in P
    BY <2>2 DEF MayOpen
  <2>3. CASE q \notin Xrepeat /\ q \notin P
    <3>1. q \notin D /\ flags[q] = "open"
      BY <1>4, <2>3
    <3>2. Asks(n, st[n], q)
      BY <3>1 DEF QuestsInv, OpenIsAsked
    <3> QED BY <2>3, <3>1, <3>2 DEF Easy, Carefree
  <2> QED BY <2>1, <2>2, <2>3
<1>7. LogRight'
  <2> SUFFICES ASSUME NEW q \in Quests, NEW n \in Cast
               PROVE  /\ NotYet(n, st'[n], q) => flags'[q] # "done"
                      /\ Behind(n, st'[n], q) => flags'[q] = "done"
    BY <1>1 DEF LogRight
  <2>1. CASE q \in Xrepeat
    BY <2>1, GuildFree
  <2>2. CASE q \notin Xrepeat /\ q \in P
    BY <1>4, <2>2 DEF MayOpen
  <2>3. CASE q \notin Xrepeat /\ q \in D
    BY <1>4, <2>3 DEF MayPay
  <2>4. CASE q \notin Xrepeat /\ q \notin P /\ q \notin D
    BY <1>4, <2>4 DEF Easy, Carefree, QuestsInv, LogRight
  <2> QED BY <2>1, <2>2, <2>3, <2>4
<1>8. Counted'
  <2>1. ASSUME NEW q \in Quests \ (Xrepeat \cup {29}), flags'[q] = "done"
        PROVE  done'[q] > 0
    <3>1. CASE q \in D
      BY <1>5, <3>1
    <3>2. CASE q \notin D
      BY <1>4, <2>1, <3>2 DEF QuestsInv, Counted
    <3> QED BY <3>1, <3>2
  <2>2. ASSUME NEW q \in Quests \ (Xrepeat \cup Followers \cup {29})
        PROVE  /\ done'[q] <= Limit(q) + 1
               /\ q # 0 /\ flags'[q] # "done" => done'[q] <= Limit(q)
    <3>1. done[q] \in Nat /\ Limit(q) \in Nat
      BY DEF QuestsInv, TypeOK, Limit
    <3>2. CASE q \in D
      <4>1. flags'[q] = "done" /\ done'[q] = done[q] + 1
        BY <1>4, <1>5, <3>2
      <4>2. flags[q] # "done" /\ (q = 0 => \E n \in Cast : NotYet(n, st[n], 0))
        BY <3>2 DEF MayPay
      <4>3. CASE q = 0
        BY <3>1, <4>1, <4>2, <4>3 DEF QuestsInv, Counted, Limit, Repeatable
      <4>4. CASE q # 0
        BY <3>1, <4>1, <4>2, <4>4 DEF QuestsInv, Counted
      <4> QED BY <4>3, <4>4
    <3>3. CASE q \in P
      BY <1>4, <3>1, <3>3 DEF QuestsInv, Counted, MayOpen
    <3>4. CASE q \notin P /\ q \notin D
      BY <1>4, <3>1, <3>4 DEF QuestsInv, Counted
    <3> QED BY <3>2, <3>3, <3>4
  <2>3. ASSUME 0 \in Quests, NEW n \in Cast, NotYet(n, st'[n], 0)
        PROVE  done'[0] <= ReopenLimit
    <3>1. 0 \notin D
      BY <2>3 DEF MayPay
    <3>2. done'[0] = done[0]
      BY <1>4, <2>3, <3>1 DEF Xrepeat
    <3>3. NotYet(n, st[n], 0)
      BY <2>3, <3>1 DEF MayOpen, Easy, Carefree
    <3> QED BY <2>3, <3>2, <3>3 DEF QuestsInv, Counted
  <2> QED BY <1>1, <2>1, <2>2, <2>3 DEF Counted
<1>9. FollowersCounted'
  <2> SUFFICES ASSUME NEW q \in Quests \cap Followers
               PROVE  done'[q] + IsDue(q)' + LeftBefore(q)' <= Most(q)
    BY <1>1 DEF FollowersCounted, Most
  <2>1. q \notin Xrepeat /\ q # 29 /\ q # 0
    BY DEF Followers, Xrepeat
  <2>2. \A p \in Quests \ (Xrepeat \cup {29}) : Left(p)' <= Left(p)
    BY <1>5, LeftFalls
  <2>3. LeftBefore(q)' <= LeftBefore(q) /\ LeftBefore(q) \in Nat /\ LeftBefore(q)' \in Nat
    BY <1>1, <1>2, <2>2, LeftBeforeFalls
  <2>4. done[q] + IsDue(q) + LeftBefore(q) <= Most(q)
    BY DEF QuestsInv, FollowersCounted
  <2>5. Most(q) \in Nat /\ done[q] \in Nat /\ IsDue(q) \in 0..1 /\ IsDue(q)' \in 0..1
    BY DEF Most, QuestsInv, TypeOK, IsDue
  <2>6. CASE q \in D
    <3>1. IsDue(q) = 1 /\ IsDue(q)' = 0
      BY <1>1, <2>6 DEF MayPay, IsDue
    <3>2. done'[q] = done[q] + 1
      BY <1>5, <2>1, <2>6
    <3> QED BY <2>3, <2>4, <2>5, <3>1, <3>2
  <2>7. CASE q \notin D
    <3>1. \A n \in Cast : Due(n, st'[n], q) => Due(n, st[n], q)
      BY <2>7 DEF MayOpen, Easy, Carefree
    <3>2. IsDue(q)' <= IsDue(q)
      BY <1>1, <3>1 DEF IsDue
    <3>3. done'[q] = done[q]
      BY <1>4, <2>1, <2>7
    <3> QED BY <2>3, <2>4, <2>5, <3>2, <3>3
  <2> QED BY <2>6, <2>7
<1>10. AtWish
  <2> SUFFICES ASSUME NEW q \in Quests \ (Xrepeat \cup {0}), flags[q] = "done"
               PROVE  flags'[q] # "open"
    BY DEF AtWish
  <2> QED BY <1>4 DEF MayOpen
<1>11. PaidWhenNew
  <2> SUFFICES ASSUME NEW q \in Quests \ (Xrepeat \cup Followers \cup {29}),
                      done'[q] # done[q]
               PROVE  flags[q] # "done"
    BY DEF PaidWhenNew
  <2> QED BY <1>4 DEF MayPay
<1>12. CountGrows
  <2> SUFFICES ASSUME NEW q \in Quests \ (Xrepeat \cup {29}) PROVE done'[q] >= done[q]
    BY DEF CountGrows
  <2>1. done[q] \in Nat
    BY DEF QuestsInv, TypeOK
  <2> QED BY <1>4, <1>5, <2>1
<1> QED BY <1>2, <1>3, <1>6, <1>7, <1>8, <1>9, <1>10, <1>11, <1>12 DEF Kept, QuestsInv
-----------------------------------------------------------------------------
(* Driver n, in one of the states of S, goes to t: no quest but those of Q *)
(* minds.                                                                  *)
Freely(n, S, t, Q) ==
  /\ t \in 0..Last[n]
  /\ \A s \in S, q \in (0..78) \ Q, f \in {"none", "open", "done"} : Carefree(n, s, t, q, f)

(* From S, driver n may pass over quest q, which is done, and go to t.      *)
Skips(n, S, t, q) ==
  /\ t \in 0..Last[n]
  /\ \A s \in S : Carefree(n, s, t, q, "done")
  /\ \A s \in S, p \in 0..78, f \in {"none", "open", "done"} :
       p = q \/ Carefree(n, s, t, p, f)

(* All drivers but n take in what q is about.                              *)
OthersAsk(n, q) ==
  \A m \in Cast \ {n} : Asks(m, st[m], q) /\ ~Behind(m, st[m], q)

(* From S, driver n may open q and go to t.                                *)
Opens(n, S, t, q) ==
  /\ Asks(n, t, q) /\ ~Behind(n, t, q)
  /\ \A s \in S : (q = 0 /\ NotYet(n, t, q) => NotYet(n, s, q)) /\ (Due(n, t, q) => Due(n, s, q))

(* From S, driver n may pay for q and go to t.                             *)
Pays(n, S, t, q) ==
  /\ ~NotYet(n, t, q) /\ ~Due(n, t, q)
  /\ \A s \in S :
       /\ q \in Followers => Due(n, s, q)
       /\ q \notin Followers \cup {29} => NotYet(n, s, q)

(* All drivers but n do not mind that q is done.                           *)
OthersPass(n, q) ==
  \A m \in Cast \ {n} : ~NotYet(m, st[m], q) /\ ~Due(m, st[m], q)

LEMMA QuestRange == ASSUME QuestsInv PROVE Quests \subseteq 0..78
BY DEF QuestsInv, LogOfCast, QuestsOf

\* Where drivers stay nothing happens.
LEMMA StayFree == \A n, s, q, f : Carefree(n, s, s, q, f)
BY DEF Carefree

LEMMA GoesTo ==
  ASSUME NEW n, NEW t, n \in Cast, Goto(n, t)
  PROVE  /\ DOMAIN st' = Cast
         /\ st'[n] = t
         /\ \A m \in Cast \ {n} : st'[m] = st[m]
BY DEF Goto, Cast

LEMMA GoesEasy ==
  ASSUME QuestsInv, NEW n, NEW S, NEW t, NEW Q, At(n, S), Goto(n, t), Freely(n, S, t, Q)
  PROVE  Easy(Q)
<1>1. /\ DOMAIN st' = Cast
      /\ st'[n] = t
      /\ \A m \in Cast \ {n} : st'[m] = st[m]
  BY GoesTo DEF At
<1>2. SUFFICES ASSUME NEW m \in Cast
               PROVE  /\ st'[m] \in 0..Last[m]
                      /\ \A q \in Quests \ Q : Carefree(m, st[m], st'[m], q, flags[q])
  BY <1>1 DEF Easy
<1>3. CASE m = n
  BY <1>1, <1>3, QuestRange DEF At, Freely, QuestsInv, TypeOK
<1>4. CASE m # n
  BY <1>1, <1>4, StayFree DEF QuestsInv, TypeOK
<1> QED BY <1>3, <1>4

LEMMA UnloggedLogs == ASSUME QuestsInv, Unlogged PROVE Logs({}, {})
BY DEF Unlogged, QuestsInv, TypeOK, LogOfCast, Logs, Quests

LEMMA OpenLogs ==
  ASSUME QuestsInv, NEW q, Open(q) PROVE Logs({q}, {})
<1>1. DOMAIN flags' = Quests /\ done' = done
  BY DEF Open, Quests
<1>2. \A p \in Quests : flags'[p] = IF p = q THEN "open" ELSE flags[p]
  BY DEF Open, Quests
<1> QED BY <1>1, <1>2 DEF QuestsInv, TypeOK, LogOfCast, Logs

LEMMA DoneLogs ==
  ASSUME QuestsInv, NEW q, Done(q) PROVE Logs({}, {q})
<1>1. DOMAIN flags' = Quests /\ DOMAIN done' = Quests
  BY DEF Done, Quests, QuestsInv, LogOfCast
<1>2. \A p \in Quests : flags'[p] = IF p = q THEN "done" ELSE flags[p]
  BY DEF Done, Quests
<1>3. \A p \in Quests : done'[p] = IF p = q THEN (done[p] + 1) % DoneValues ELSE done[p]
  BY DEF Done, QuestsInv, LogOfCast
<1>4. \A p \in Quests : done'[p] \in 0..DoneValues - 1
  <2> SUFFICES ASSUME NEW p \in Quests PROVE done'[p] \in 0..DoneValues - 1
    OBVIOUS
  <2>1. done[p] \in 0..DoneValues - 1
    BY DEF QuestsInv, TypeOK
  <2>2. (done[p] + 1) % DoneValues \in 0..DoneValues - 1
    BY <2>1, LimitTypes
  <2> QED BY <1>3, <2>1, <2>2
<1> QED BY <1>1, <1>2, <1>3, <1>4 DEF QuestsInv, TypeOK, Logs

\* A line said, a way gone: the log is not touched.
LEMMA MoveKeeps ==
  ASSUME QuestsInv, NEW n, NEW S, NEW t, Move(n, S, t), Freely(n, S, t, {})
  PROVE  Kept
BY GoesEasy, UnloggedLogs, StepKeeps DEF Move

LEMMA SayKeeps ==
  ASSUME QuestsInv, NEW n, NEW S, Say(n, S), \A s \in S : Freely(n, {s}, s + 1, {})
  PROVE  Kept
<1>1. At(n, {st[n]}) /\ Goto(n, st[n] + 1) /\ Freely(n, {st[n]}, st[n] + 1, {})
  BY DEF Say, At
<1> QED BY <1>1, GoesEasy, UnloggedLogs, StepKeeps DEF Say

\* A quest is opened, for which the number of the driver is enough.
LEMMA OfferKeeps ==
  ASSUME QuestsInv, NEW n, NEW S, NEW t, NEW q, Offer(n, S, t, q), Freely(n, S, t, {q}),
         Opens(n, S, t, q), OthersAsk(n, q),
         q = 0 \/ (q \in Quests => flags[q] # "done")
  PROVE  Kept
<1>1. At(n, S) /\ Goto(n, t) /\ Open(q)
  BY DEF Offer
<1>2. Easy({q}) /\ Logs({q}, {})
  BY <1>1, GoesEasy, OpenLogs
<1>3. ASSUME q \in Quests PROVE MayOpen(q)
  BY <1>1, <1>3, GoesTo DEF At, MayOpen, Opens, OthersAsk
<1> QED BY <1>2, <1>3, StepKeeps

LEMMA FirstOfferKeeps ==
  ASSUME QuestsInv, NEW n, NEW S, NEW t, NEW q, Offer(n, S, t, q), Freely(n, S, t, {q}),
         Opens(n, S, t, q), OthersAsk(n, q), \A s \in S : NotYet(n, s, q)
  PROVE  Kept
<1>1. q \in Quests => flags[q] # "done"
  BY DEF Offer, At, QuestsInv, LogRight
<1> QED BY <1>1, OfferKeeps

\* A quest that is done is passed over.
LEMMA SkipKeeps ==
  ASSUME QuestsInv, NEW n, NEW S, NEW t, NEW q, flags[q] = "done", Move(n, S, t),
         Skips(n, S, t, q)
  PROVE  Kept
<1>1. Freely(n, S, t, {q}) /\ \A s \in S : Carefree(n, s, t, q, "done")
  BY DEF Skips, Freely
<1>2. Easy({q}) /\ Logs({}, {})
  BY <1>1, GoesEasy, UnloggedLogs DEF Move
<1>3. \A m \in Cast : Carefree(m, st[m], st'[m], q, flags[q])
  BY <1>1, GoesTo, StayFree DEF Move, At
<1>4. Easy({})
  BY <1>2, <1>3 DEF Easy
<1> QED BY <1>2, <1>4, StepKeeps

\* A quest is paid.
LEMMA FinishKeeps ==
  ASSUME QuestsInv, NEW n, NEW S, NEW t, NEW q, Finish(n, S, t, q), Freely(n, S, t, {q}),
         Pays(n, S, t, q), OthersPass(n, q)
  PROVE  Kept
<1>1. At(n, S) /\ Goto(n, t) /\ Done(q)
  BY DEF Finish
<1>2. Easy({q}) /\ Logs({}, {q})
  BY <1>1, GoesEasy, DoneLogs
<1>3. ASSUME q \in Quests PROVE MayPay(q)
  <2>1. \A m \in Cast : ~NotYet(m, st'[m], q) /\ ~Due(m, st'[m], q)
    BY <1>1, GoesTo DEF At, Pays, OthersPass
  <2>2. q \in Followers => Due(n, st[n], q)
    BY <1>1 DEF At, Pays
  <2>3. q \notin Followers \cup {29} => NotYet(n, st[n], q) /\ flags[q] # "done"
    BY <1>1, <1>3 DEF At, Pays, QuestsInv, LogRight
  <2> QED BY <1>1, <2>1, <2>2, <2>3 DEF At, MayPay, Followers
<1> QED BY <1>2, <1>3, StepKeeps

\* The last cases, one by one.
LEMMA LastValues ==
  /\ Last["gwendy"] = 18 /\ Last["yoakin"] = 5 /\ Last["terion"] = 14
  /\ Last["james"] = 5 /\ Last["lydia"] = 7 /\ Last["nook"] = 16
  /\ Last["reskin"] = 9 /\ Last["guiwynn"] = 11 /\ Last["logain"] = 9
  /\ Last["seymour"] = 17 /\ Last["kelly"] = 26 /\ Last["shrines"] = 3
  /\ Last["astro2"] = 5 /\ Last["crypt"] = 15 /\ Last["carlos"] = 6
  /\ Last["imp"] = 11 /\ Last["william"] = 7 /\ Last["hermit"] = 7
  /\ Last["clara"] = 16 /\ Last["smugglecom"] = 10 /\ Last["contraband"] = 4
  /\ Last["countbran"] = 4 /\ Last["jewels"] = 3 /\ Last["brenneth"] = 15
  /\ Last["spirit"] = 5 /\ Last["guardbran"] = 8 /\ Last["broklin"] = 18
  /\ Last["aristocrat"] = 8 /\ Last["yoatin"] = 9 /\ Last["thief"] = 51
  /\ Last["thief_killed"] = 1 /\ Last["sanwyn"] = 8 /\ Last["notes"] = 3
  /\ Last["skelly"] = 3 /\ Last["alchemist"] = 5 /\ Last["kalanur"] = 10
  /\ Last["tribe"] = 1 /\ Last["nomad2"] = 2 /\ Last["nomad3"] = 2
  /\ Last["nomad6"] = 2 /\ Last["laas"] = 5 /\ Last["garan"] = 5
  /\ Last["glori"] = 18 /\ Last["arquin"] = 6 /\ Last["smith"] = 8
  /\ Last["homden"] = 11 /\ Last["rammy"] = 20 /\ Last["letters"] = 3
  /\ Last["jaz"] = 9 /\ Last["fiona"] = 20 /\ Last["ramin"] = 16
  /\ Last["monk"] = 30 /\ Last["parts"] = 3 /\ Last["krenach"] = 5
  /\ Last["captain"] = 10 /\ Last["judge"] = 6 /\ Last["jada"] = 5
  /\ Last["potmaker"] = 4 /\ Last["hunter"] = 10 /\ Last["thaipan"] = 9
  /\ Last["clerk"] = 6 /\ Last["clerk_notes"] = 3 /\ Last["trainer"] = 8
  /\ Last["kid"] = 5
BY DEF Last

LEMMA LastNumbers == \A n \in DOMAIN Last : Last[n] \in Nat
BY LastValues DEF Last
-----------------------------------------------------------------------------
(* Follower p comes after quest q in a series, or is q.                    *)
Feeds(q, p) ==
  \/ p \in 2..4 /\ q \in 1..p
  \/ p = 8 /\ q \in 7..8
  \/ p \in 42..43 /\ q \in 41..p
  \/ p = 46 /\ q \in 45..46

InOneSeries(q, p) == \E s \in Series : q \in s /\ p \in s

\* Where the player's wish takes a driver: to the beginning of the quest.
SetBack(q, n, r) ==
  \/ q = 0 /\ n \in {"james", "lydia"} /\ r = 0
  \/ q = 1 /\ n = "gwendy" /\ r = 0
  \/ q = 2 /\ n = "gwendy" /\ r = 6
  \/ q = 3 /\ n = "gwendy" /\ r = 10
  \/ q = 4 /\ n = "gwendy" /\ r = 13
  \/ q = 5 /\ n = "yoakin" /\ r = 2
  \/ q = 7 /\ n = "guiwynn" /\ r = 0
  \/ q = 8 /\ n = "guiwynn" /\ r = 6
  \/ q = 9 /\ n = "logain" /\ r = 0
  \/ q = 12 /\ n = "seymour" /\ r = 12
  \/ q = 13 /\ n = "kelly" /\ r = 0
  \/ q = 16 /\ n = "astro2" /\ r = 0
  \/ q = 20 /\ n = "carlos" /\ r = 0
  \/ q = 30 /\ n = "skelly" /\ r = 0
  \/ q = 31 /\ n = "alchemist" /\ r = 0
  \/ q = 35 /\ n = "smugglecom" /\ r = 0
  \/ q = 37 /\ n = "smugglecom" /\ r = 7
  \/ q = 38 /\ n = "aristocrat" /\ r = 0
  \/ q = 39 /\ n = "yoatin" /\ r = 0
  \/ q = 40 /\ n \in {"countbran", "jewels"} /\ r = 0
  \/ q = 41 /\ n = "brenneth" /\ r = 0
  \/ q = 42 /\ n = "brenneth" /\ r = 5
  \/ q = 43 /\ n = "brenneth" /\ r = 9
  \/ q = 44 /\ n = "spirit" /\ r = 0
  \/ q = 45 /\ n = "broklin" /\ r = 0

LEMMA RestartRows ==
  ASSUME NEW q \in Repeatable, NEW n, NEW s
  PROVE  \/ Restart(q, n, s) = s /\ Asks(n, s, q) /\ ~Behind(n, s, q)
         \/ SetBack(q, n, Restart(q, n, s))
<1> USE DEF Repeatable
<1>1. CASE n = "james"
  BY <1>1 DEF SetBack, Restart, Asks, Behind
<1>2. CASE n = "lydia"
  BY <1>2 DEF SetBack, Restart, Asks, Behind
<1>3. CASE n = "gwendy"
  BY <1>3 DEF SetBack, Restart, Asks, Behind
<1>4. CASE n = "yoakin"
  BY <1>4 DEF SetBack, Restart, Asks, Behind
<1>5. CASE n = "guiwynn"
  BY <1>5 DEF SetBack, Restart, Asks, Behind
<1>6. CASE n = "logain"
  BY <1>6 DEF SetBack, Restart, Asks, Behind
<1>7. CASE n = "seymour"
  BY <1>7 DEF SetBack, Restart, Asks, Behind
<1>8. CASE n = "kelly"
  BY <1>8 DEF SetBack, Restart, Asks, Behind
<1>9. CASE n = "astro2"
  BY <1>9 DEF SetBack, Restart, Asks, Behind
<1>10. CASE n = "carlos"
  BY <1>10 DEF SetBack, Restart, Asks, Behind
<1>11. CASE n = "skelly"
  BY <1>11 DEF SetBack, Restart, Asks, Behind
<1>12. CASE n = "alchemist"
  BY <1>12 DEF SetBack, Restart, Asks, Behind
<1>13. CASE n = "smugglecom"
  BY <1>13 DEF SetBack, Restart, Asks, Behind
<1>14. CASE n = "aristocrat"
  BY <1>14 DEF SetBack, Restart, Asks, Behind
<1>15. CASE n = "yoatin"
  BY <1>15 DEF SetBack, Restart, Asks, Behind
<1>16. CASE n = "countbran"
  BY <1>16 DEF SetBack, Restart, Asks, Behind
<1>17. CASE n = "jewels"
  BY <1>17 DEF SetBack, Restart, Asks, Behind
<1>18. CASE n = "brenneth"
  BY <1>18 DEF SetBack, Restart, Asks, Behind
<1>19. CASE n = "spirit"
  BY <1>19 DEF SetBack, Restart, Asks, Behind
<1>20. CASE n = "broklin"
  BY <1>20 DEF SetBack, Restart, Asks, Behind
<1>21. CASE n \notin {"james", "lydia", "gwendy", "yoakin", "guiwynn", "logain", "seymour", "kelly", "astro2", "carlos", "skelly", "alchemist", "smugglecom", "aristocrat", "yoatin", "countbran", "jewels", "brenneth", "spirit", "broklin"}
  BY <1>21 DEF Restart, Asks, Behind
<1> QED BY <1>1, <1>2, <1>3, <1>4, <1>5, <1>6, <1>7, <1>8, <1>9, <1>10, <1>11, <1>12, <1>13, <1>14, <1>15, <1>16, <1>17, <1>18, <1>19, <1>20, <1>21

LEMMA RestartAsks ==
  ASSUME NEW q \in Repeatable, NEW n, NEW s
  PROVE  Asks(n, Restart(q, n, s), q) /\ ~Behind(n, Restart(q, n, s), q)
BY RestartRows, SMTT(30) DEF SetBack, Asks, Behind

\* That is at no other quest but one of the series.
LEMMA RestartElsewhere ==
  ASSUME NEW q \in Repeatable, NEW n, NEW s, NEW p, q # p, Restart(q, n, s) # s
  PROVE  /\ ~NotYet(n, Restart(q, n, s), p)
         /\ ~Behind(n, Restart(q, n, s), p)
         /\ Asks(n, Restart(q, n, s), p) \/ InOneSeries(q, p)
<1>1. ~NotYet(n, Restart(q, n, s), p)
  BY RestartRows, SMTT(30) DEF SetBack, NotYet
<1>2. ~Behind(n, Restart(q, n, s), p)
  BY RestartRows, SMTT(30) DEF SetBack, Behind
<1>3. Asks(n, Restart(q, n, s), p) \/ InOneSeries(q, p)
  BY RestartRows, SMTT(30) DEF SetBack, Asks, InOneSeries, Series
<1> QED BY <1>1, <1>2, <1>3

LEMMA RestartDue ==
  ASSUME NEW q \in Repeatable, NEW n, NEW s, NEW p,
         Restart(q, n, s) # s, Due(n, Restart(q, n, s), p)
  PROVE  Feeds(q, p)
BY RestartRows, SMTT(30) DEF SetBack, Due, Feeds

LEMMA RestartRange ==
  ASSUME NEW q \in Repeatable, NEW n \in DOMAIN Last, NEW s \in 0..Last[n]
  PROVE  Restart(q, n, s) \in 0..Last[n]
<1>1. Last[n] \in Nat
  BY LastNumbers
<1> QED BY <1>1, RestartRows, LastValues, SMTT(30) DEF SetBack

\* One reopening less of a quest is one less before its followers.
LEMMA SeriesOfFollower ==
  ASSUME LogOfCast, NEW p \in Quests \cap Followers, NEW q \in Quests, Feeds(q, p),
         \A r \in Quests : /\ Left(r) \in Nat /\ Left(r)' \in Nat
                           /\ r # q => Left(r)' = Left(r),
         Left(q)' = Left(q) - 1
  PROVE  LeftBefore(p)' = LeftBefore(p) - 1
<1>1. CASE p = 2
  <2>1. q = 1 \/ q = 2
    BY <1>1 DEF Feeds
  <2> QED BY <1>1, <2>1, SeriesTogether DEF LeftBefore
<1>2. CASE p = 3
  <2>1. q = 1 \/ q = 2 \/ q = 3
    BY <1>2 DEF Feeds
  <2> QED BY <1>2, <2>1, SeriesTogether DEF LeftBefore
<1>3. CASE p = 4
  <2>1. q = 1 \/ q = 2 \/ q = 3 \/ q = 4
    BY <1>3 DEF Feeds
  <2>2. 1 \in Quests /\ 2 \in Quests /\ 3 \in Quests /\ 4 \in Quests
    BY <1>3, SeriesTogether
  <2>3. /\ LeftBefore(p) = Left(1) + Left(2) + Left(3) + Left(4)
        /\ LeftBefore(p)' = Left(1)' + Left(2)' + Left(3)' + Left(4)'
    BY ONLY <1>3 DEF LeftBefore
  <2> QED BY <2>1, <2>2, <2>3
<1>4. CASE p = 8
  <2>1. q = 7 \/ q = 8
    BY <1>4 DEF Feeds
  <2> QED BY <1>4, <2>1, SeriesTogether DEF LeftBefore
<1>5. CASE p = 42
  <2>1. q = 41 \/ q = 42
    BY <1>5 DEF Feeds
  <2> QED BY <1>5, <2>1, SeriesTogether DEF LeftBefore
<1>6. CASE p = 43
  <2>1. q = 41 \/ q = 42 \/ q = 43
    BY <1>6 DEF Feeds
  <2> QED BY <1>6, <2>1, SeriesTogether DEF LeftBefore
<1>7. CASE p = 46
  <2>1. q = 45 \/ q = 46
    BY <1>7 DEF Feeds
  <2> QED BY <1>7, <2>1, SeriesTogether DEF LeftBefore
<1> QED BY <1>1, <1>2, <1>3, <1>4, <1>5, <1>6, <1>7 DEF Followers

\* A reopened quest can be done, its series is put in order, and the count
\* of the followers has room for another round.
LEMMA ReopenKeeps ==
  ASSUME QuestsInv, NEW q \in Quests, Reopen(q) PROVE Kept
<1> USE LimitTypes
<1>1. /\ q \in Repeatable /\ flags[q] = "done" /\ done[q] <= ReopenLimit
      /\ \A p \in Quests : InOneSeries(q, p) => flags[p] # "open"
  BY DEF Reopen, InOneSeries
<1>2. DOMAIN st' = Cast /\ \A n \in Cast : st'[n] = Restart(q, n, st[n])
  BY DEF Reopen
<1>3. /\ DOMAIN flags' = Quests /\ done' = done
      /\ \A p \in Quests : flags'[p] = IF p = q THEN "open" ELSE flags[p]
  BY DEF Reopen, Open, Quests
<1>4. Quests' = Quests /\ Cast' = Cast
  BY <1>2, <1>3 DEF Quests, Cast
<1>5. TypeOK'
  <2>1. \A n \in Cast : st'[n] \in 0..Last[n]
    BY <1>1, <1>2, RestartRange DEF QuestsInv, TypeOK
  <2> QED BY <1>3, <1>4, <2>1 DEF QuestsInv, TypeOK
<1>6. LogOfCast'
  BY <1>3, <1>4 DEF QuestsInv, LogOfCast
<1>7. OpenIsAsked'
  <2> SUFFICES ASSUME NEW p \in Quests, NEW n \in Cast, flags'[p] = "open"
               PROVE  Asks(n, st'[n], p)
    BY <1>4 DEF OpenIsAsked
  <2>1. CASE p = q
    BY <1>1, <1>2, <2>1, RestartAsks
  <2>2. CASE p # q
    <3>1. flags[p] = "open" /\ Asks(n, st[n], p)
      BY <1>3, <2>2 DEF QuestsInv, OpenIsAsked
    <3>2. CASE st'[n] = st[n]
      BY <3>1, <3>2
    <3>3. CASE st'[n] # st[n]
      BY <1>1, <1>2, <2>2, <3>1, <3>3, RestartElsewhere
    <3> QED BY <3>2, <3>3
  <2> QED BY <2>1, <2>2
<1>8. LogRight'
  <2> SUFFICES ASSUME NEW p \in Quests, NEW n \in Cast
               PROVE  /\ NotYet(n, st'[n], p) => flags'[p] # "done"
                      /\ Behind(n, st'[n], p) => flags'[p] = "done"
    BY <1>4 DEF LogRight
  <2>1. CASE p = q
    BY <1>1, <1>2, <1>3, <2>1, RestartAsks
  <2>2. CASE p # q
    <3>1. flags'[p] = flags[p]
      BY <1>3, <2>2
    <3>2. CASE st'[n] = st[n]
      BY <3>1, <3>2 DEF QuestsInv, LogRight
    <3>3. CASE st'[n] # st[n]
      BY <1>1, <1>2, <2>2, <3>3, RestartElsewhere
    <3> QED BY <3>2, <3>3
  <2> QED BY <2>1, <2>2
<1>9. Counted'
  <2>1. ASSUME NEW p \in Quests \ (Xrepeat \cup {29}), flags'[p] = "done"
        PROVE  done'[p] > 0
    BY <1>3, <2>1 DEF QuestsInv, Counted
  <2>2. ASSUME NEW p \in Quests \ (Xrepeat \cup Followers \cup {29})
        PROVE  /\ done'[p] <= Limit(p) + 1
               /\ p # 0 /\ flags'[p] # "done" => done'[p] <= Limit(p)
    <3>1. Limit(q) = ReopenLimit
      BY <1>1 DEF Limit
    <3> QED BY <1>1, <1>3, <3>1 DEF QuestsInv, Counted
  <2>3. ASSUME 0 \in Quests, NEW n \in Cast, NotYet(n, st'[n], 0)
        PROVE  done'[0] <= ReopenLimit
    <3>1. CASE q = 0
      BY <1>1, <1>3, <3>1
    <3>2. CASE q # 0 /\ st'[n] = st[n]
      BY <1>3, <2>3, <3>2 DEF QuestsInv, Counted
    <3>3. CASE q # 0 /\ st'[n] # st[n]
      BY <1>1, <1>2, <2>3, <3>3, RestartElsewhere
    <3> QED BY <3>1, <3>2, <3>3
  <2> QED BY <1>4, <2>1, <2>2, <2>3 DEF Counted
<1>10. FollowersCounted'
  <2> SUFFICES ASSUME NEW p \in Quests \cap Followers
               PROVE  done'[p] + IsDue(p)' + LeftBefore(p)' <= Most(p)
    BY <1>4 DEF FollowersCounted, Most
  <2>1. \A r \in Quests : /\ Left(r) \in Nat /\ Left(r)' \in Nat
                          /\ r # q => Left(r)' = Left(r)
    <3> SUFFICES ASSUME NEW r \in Quests
                 PROVE  /\ Left(r) \in Nat /\ Left(r)' \in Nat
                        /\ r # q => Left(r)' = Left(r)
      OBVIOUS
    <3>1. done[r] \in Int /\ done'[r] = done[r]
      BY <1>3 DEF QuestsInv, TypeOK
    <3>2. r # q => flags'[r] = flags[r]
      BY <1>3
    <3> QED BY <3>1, <3>2 DEF Left
  <2>2. Left(q)' = Left(q) - 1
    <3>1. done[q] \in Int /\ done'[q] = done[q] /\ flags'[q] = "open"
      BY <1>3 DEF QuestsInv, TypeOK
    <3> QED BY <1>1, <3>1 DEF Left
  <2>3. Most(p) \in Nat /\ done[p] \in Nat /\ IsDue(p) \in 0..1 /\ IsDue(p)' \in 0..1
    BY DEF Most, QuestsInv, TypeOK, IsDue
  <2>4. done[p] + IsDue(p) + LeftBefore(p) <= Most(p)
    BY DEF QuestsInv, FollowersCounted
  <2>5. /\ LeftBefore(p) \in Nat /\ LeftBefore(p)' \in Nat
        /\ LeftBefore(p)' <= LeftBefore(p)
    <3>1. \A r \in Quests : Left(r)' <= Left(r)
      BY <2>1, <2>2
    <3> QED BY <1>4, <1>5, <3>1, LeftBeforeFalls
  <2>6. CASE Feeds(q, p)
    <3>1. LeftBefore(p)' = LeftBefore(p) - 1
      BY <2>1, <2>2, <2>6, SeriesOfFollower DEF QuestsInv
    <3> QED BY <1>3, <2>3, <2>4, <2>5, <3>1
  <2>7. CASE ~Feeds(q, p)
    <3>1. \A n \in Cast : Due(n, st'[n], p) => Due(n, st[n], p)
      BY <1>1, <1>2, <2>7, RestartDue
    <3>2. IsDue(p)' <= IsDue(p)
      BY <1>4, <3>1 DEF IsDue
    <3> QED BY <1>3, <2>3, <2>4, <2>5, <3>2
  <2> QED BY <2>6, <2>7
<1>11. AtWish
  BY <1>3 DEF AtWish
<1>12. PaidWhenNew
  BY <1>3 DEF PaidWhenNew
<1>13. CountGrows
  BY <1>3 DEF CountGrows, QuestsInv, TypeOK
<1> QED BY <1>5, <1>6, <1>7, <1>8, <1>9, <1>10, <1>11, <1>12, <1>13 DEF Kept, QuestsInv

-----------------------------------------------------------------------------
\* A driver's quests are in the log.
LEMMA GivesLogged ==
  ASSUME QuestsInv, NEW n \in Cast, NEW q \in 0..78, Gives(n, q) PROVE q \in Quests
BY DEF QuestsInv, LogOfCast, QuestsOf

\* A driver moves on and puts another one, which may be elsewhere, forward.
LEMMA TwoGo ==
  ASSUME NEW n \in Cast, NEW m, n # m, NEW t, NEW u, st' = [st EXCEPT ![n] = t, ![m] = u]
  PROVE  /\ DOMAIN st' = Cast
         /\ st'[n] = t
         /\ m \in Cast => st'[m] = u
         /\ \A o \in Cast \ {n, m} : st'[o] = st[o]
BY DEF Cast

LEMMA TwoGoEasy ==
  ASSUME QuestsInv, NEW n \in Cast, NEW m, n # m, NEW t \in 0..Last[n], NEW u \in 0..Last[m], NEW Q,
         st' = [st EXCEPT ![n] = t, ![m] = u],
         \A q \in Quests \ Q :
           /\ Carefree(n, st[n], t, q, flags[q])
           /\ m \in Cast => Carefree(m, st[m], u, q, flags[q])
  PROVE  Easy(Q)
<1>1. /\ DOMAIN st' = Cast
      /\ st'[n] = t
      /\ m \in Cast => st'[m] = u
      /\ \A o \in Cast \ {n, m} : st'[o] = st[o]
  BY TwoGo
<1> SUFFICES ASSUME NEW o \in Cast
             PROVE  /\ st'[o] \in 0..Last[o]
                    /\ \A q \in Quests \ Q : Carefree(o, st[o], st'[o], q, flags[q])
  BY <1>1 DEF Easy
<1>2. CASE o = n
  BY <1>1, <1>2
<1>3. CASE o = m
  BY <1>1, <1>3
<1>4. CASE o \notin {n, m}
  BY <1>1, <1>4, StayFree DEF QuestsInv, TypeOK
<1> QED BY <1>2, <1>3, <1>4

\* One quest is paid and the next one opened at once.
LEMMA FinishOpeningKeeps ==
  ASSUME QuestsInv, NEW n, NEW s, NEW t, NEW q \in 1..78, NEW p \in 1..78, q # p,
         FinishOpening(n, s, t, q, p), Freely(n, {s}, t, {q, p}),
         Opens(n, {s}, t, p), OthersAsk(n, p), NotYet(n, s, p),
         Pays(n, {s}, t, q), OthersPass(n, q), q \notin Followers \cup {29}
  PROVE  Kept
<1>1. At(n, {s}) /\ Goto(n, t)
  BY DEF FinishOpening
<1>2. DOMAIN st' = Cast /\ st'[n] = t /\ \A m \in Cast \ {n} : st'[m] = st[m]
  BY <1>1, GoesTo DEF At
<1>3. Easy({p, q})
  BY <1>1, GoesEasy
<1>4. Logs({p}, {q})
  <2>1. /\ DOMAIN flags' = Quests /\ DOMAIN done' = Quests
        /\ \A r \in Quests : flags'[r] = IF r = p THEN "open" ELSE IF r = q THEN "done" ELSE flags[r]
        /\ \A r \in Quests : done'[r] = IF r = q THEN (done[r] + 1) % DoneValues ELSE done[r]
    BY DEF FinishOpening, Quests, QuestsInv, LogOfCast
  <2>2. \A r \in Quests : done'[r] \in 0..DoneValues - 1
    <3> SUFFICES ASSUME NEW r \in Quests PROVE done'[r] \in 0..DoneValues - 1
      OBVIOUS
    <3>1. done[r] \in 0..DoneValues - 1
      BY DEF QuestsInv, TypeOK
    <3>2. (done[r] + 1) % DoneValues \in 0..DoneValues - 1
      BY <3>1, LimitTypes
    <3> QED BY <2>1, <3>1, <3>2
  <2> QED BY <2>1, <2>2 DEF QuestsInv, TypeOK, Logs
<1>5. ASSUME p \in Quests PROVE MayOpen(p)
  BY <1>1, <1>2, <1>5 DEF At, MayOpen, Opens, OthersAsk, QuestsInv, LogRight
<1>6. ASSUME q \in Quests PROVE MayPay(q)
  <2>1. \A m \in Cast : ~NotYet(m, st'[m], q) /\ ~Due(m, st'[m], q)
    BY <1>1, <1>2 DEF At, Pays, OthersPass
  <2>2. flags[q] # "done"
    BY <1>1, <1>6 DEF At, Pays, QuestsInv, LogRight
  <2> QED BY <2>1, <2>2 DEF MayPay
<1> QED BY <1>3, <1>4, <1>5, <1>6, StepKeeps

-----------------------------------------------------------------------------
(* The drivers of Cameron.                                               *)

LEMMA GwendyTable ==
  /\ Last["gwendy"] = 18
  /\ \A s, q :
       /\ Asks("gwendy", s, q) <=> /\ q = 1 => s \in 0..5
                                   /\ q = 2 => s \in 6..9
                                   /\ q = 3 => s \in 10..12
                                   /\ q = 4 => s \in 13..16
       /\ NotYet("gwendy", s, q) <=> q = 1 /\ s \in 0..5
       /\ ~Behind("gwendy", s, q)
       /\ Due("gwendy", s, q) <=> \/ q = 2 /\ s \in 0..9
                                  \/ q = 3 /\ s \in 0..12
                                  \/ q = 4 /\ s \in 0..16
  /\ \A n, s, q : n # "gwendy" /\ q \in 1..4 =>
       Asks(n, s, q) /\ ~NotYet(n, s, q) /\ ~Behind(n, s, q) /\ ~Due(n, s, q)
BY LastValues DEF Asks, NotYet, Behind, Due

LEMMA GwendySteps ==
  ASSUME QuestsInv PROVE (GwendylonTalks \/ GwendylonHears \/ GwendylonTakes) => Kept
<1> USE GwendyTable DEF Freely, Carefree, Opens, OthersAsk, Pays, OthersPass, Followers
<1>1. GwendylonTalks => Kept
  <2>1. Offer("gwendy", {0}, 1, 1) => Kept
    BY FirstOfferKeeps
  <2>2. flags[2] # "done" /\ Offer("gwendy", {6}, 7, 2) => Kept
    BY OfferKeeps
  <2>3. flags[2] = "done" /\ Move("gwendy", {6}, 10) => Kept
    <3>1. Skips("gwendy", {6}, 10, 2)
      BY DEF Skips
    <3> QED BY <3>1, SkipKeeps
  <2>4. flags[3] # "done" /\ Offer("gwendy", {10}, 11, 3) => Kept
    BY OfferKeeps
  <2>5. flags[3] = "done" /\ Move("gwendy", {10}, 13) => Kept
    <3>1. Skips("gwendy", {10}, 13, 3)
      BY DEF Skips
    <3> QED BY <3>1, SkipKeeps
  <2>6. flags[4] # "done" /\ Offer("gwendy", {13}, 14, 4) => Kept
    BY OfferKeeps
  <2>7. flags[4] = "done" /\ Move("gwendy", {13}, 17) => Kept
    <3>1. Skips("gwendy", {13}, 17, 4)
      BY DEF Skips
    <3> QED BY <3>1, SkipKeeps
  <2>8. Say("gwendy", {1, 2, 3, 4, 7, 8, 11, 14, 15, 17}) => Kept
    BY SayKeeps
  <2> QED BY <2>1, <2>2, <2>3, <2>4, <2>5, <2>6, <2>7, <2>8 DEF GwendylonTalks, OfferNew
<1>2. GwendylonHears => Kept
  <2>1. Move("gwendy", 0..5, 1) \/ Move("gwendy", 6..9, 6) => Kept
    BY MoveKeeps
  <2>2. Move("gwendy", 10..12, 10) \/ Move("gwendy", 13..16, 13) => Kept
    BY MoveKeeps
  <2>3. Move("gwendy", 17..18, 17) => Kept
    BY MoveKeeps
  <2> QED BY ONLY <2>1, <2>2, <2>3 DEF GwendylonHears
<1>3. GwendylonTakes => Kept
  BY FinishKeeps DEF GwendylonTakes
<1> QED BY <1>1, <1>2, <1>3

LEMMA YoakinTable ==
  /\ Last["yoakin"] = 5
  /\ \A s, q :
       /\ Asks("yoakin", s, q) <=> (q = 5 => s \in 0..4)
       /\ NotYet("yoakin", s, q) <=> q = 5 /\ s \in 0..4
       /\ ~Behind("yoakin", s, q)
       /\ ~Due("yoakin", s, q)
  /\ \A n, s, q : n # "yoakin" /\ q = 5 =>
       Asks(n, s, q) /\ ~NotYet(n, s, q) /\ ~Behind(n, s, q) /\ ~Due(n, s, q)
BY LastValues DEF Asks, NotYet, Behind, Due

LEMMA YoakinSteps ==
  ASSUME QuestsInv
  PROVE  (YoakinTalks \/ YoakinLapses \/ YoakinHears \/ YoakinTakes) => Kept
<1> USE YoakinTable DEF Freely, Carefree, Opens, OthersAsk, Pays, OthersPass, Followers
<1>1. YoakinTalks => Kept
  <2>1. Offer("yoakin", {2}, 3, 5) => Kept
    BY FirstOfferKeeps
  <2>2. Say("yoakin", {0, 1, 3}) => Kept
    BY SayKeeps
  <2> QED BY <2>1, <2>2 DEF YoakinTalks
<1>2. YoakinLapses => Kept
  BY MoveKeeps DEF YoakinLapses
<1>3. YoakinHears => Kept
  BY MoveKeeps DEF YoakinHears
<1>4. YoakinTakes => Kept
  BY FinishKeeps DEF YoakinTakes
<1> QED BY <1>1, <1>2, <1>3, <1>4

LEMMA TerionTable ==
  /\ Last["terion"] = 14
  /\ \A s, q :
       /\ Asks("terion", s, q)
       /\ ~NotYet("terion", s, q)
       /\ ~Behind("terion", s, q)
       /\ ~Due("terion", s, q)
BY LastValues DEF Asks, NotYet, Behind, Due

LEMMA TerionSteps ==
  ASSUME QuestsInv PROVE (TerionTalks \/ TerionHears) => Kept
<1> USE TerionTable DEF Freely, Carefree
<1>1. TerionTalks => Kept
  <2>1. Move("terion", {0}, 1) => Kept
    BY MoveKeeps
  <2>2. Move("terion", {0}, 4) => Kept
    BY MoveKeeps
  <2>3. Say("terion", {4}) => Kept
    BY SayKeeps
  <2>4. Say("terion", {6}) => Kept
    BY SayKeeps
  <2>5. Say("terion", {9}) => Kept
    BY SayKeeps
  <2>6. Say("terion", {1, 2, 3, 5, 7, 8, 10, 11, 12, 13}) => Kept
    BY SayKeeps
  <2> QED BY <2>1, <2>2, <2>3, <2>4, <2>5, <2>6 DEF TerionTalks
<1>2. TerionHears => Kept
  BY MoveKeeps DEF TerionHears
<1> QED BY <1>1, <1>2

LEMMA JamesTable ==
  /\ Last["james"] = 5
  /\ \A s, q :
       /\ Asks("james", s, q)
       /\ ~NotYet("james", s, q)
       /\ ~Behind("james", s, q)
       /\ ~Due("james", s, q)
  /\ \A n, s, q : n # "james" /\ q = 0 =>
       Asks(n, s, q) /\ ~Behind(n, s, q) /\ ~Due(n, s, q)
BY LastValues DEF Asks, NotYet, Behind, Due

LEMMA JamesSteps ==
  ASSUME QuestsInv PROVE (JamesTalks \/ JamesHears) => Kept
<1> USE JamesTable DEF Freely, Carefree, Opens, OthersAsk
<1>1. JamesTalks => Kept
  <2>1. Offer("james", {0}, 1, 0) => Kept
    BY OfferKeeps
  <2>2. Move("james", {0}, 3) => Kept
    BY MoveKeeps
  <2>3. Say("james", {3}) => Kept
    BY SayKeeps
  <2>4. Say("james", {1, 2, 4}) => Kept
    BY SayKeeps
  <2> QED BY <2>1, <2>2, <2>3, <2>4 DEF JamesTalks
<1>2. JamesHears => Kept
  BY MoveKeeps DEF JamesHears
<1> QED BY <1>1, <1>2

LEMMA LydiaTable ==
  /\ Last["lydia"] = 7
  /\ \A s, q :
       /\ Asks("lydia", s, q)
       /\ NotYet("lydia", s, q) <=> q = 0 /\ s \in 0..4
       /\ ~Behind("lydia", s, q)
       /\ ~Due("lydia", s, q)
  /\ \A n, s, q : n # "lydia" /\ q = 0 =>
       Asks(n, s, q) /\ ~NotYet(n, s, q) /\ ~Behind(n, s, q) /\ ~Due(n, s, q)
BY LastValues DEF Asks, NotYet, Behind, Due

LEMMA LydiaSteps ==
  ASSUME QuestsInv PROVE (LydiaTalks \/ LydiaLapses \/ LydiaHears \/ LydiaTakes) => Kept
<1> USE LydiaTable DEF Freely, Carefree, Opens, OthersAsk, Pays, OthersPass, Followers
<1>1. LydiaTalks => Kept
  <2>1. Offer("lydia", {0}, 1, 0) => Kept
    BY OfferKeeps
  <2>2. Say("lydia", {1, 2, 3, 5, 6}) => Kept
    BY SayKeeps
  <2> QED BY <2>1, <2>2 DEF LydiaTalks
<1>2. LydiaLapses => Kept
  BY OfferKeeps DEF LydiaLapses
<1>3. LydiaHears => Kept
  BY MoveKeeps DEF LydiaHears
<1>4. LydiaTakes => Kept
  BY FinishKeeps DEF LydiaTakes
<1> QED BY <1>1, <1>2, <1>3, <1>4

LEMMA NookTable ==
  /\ Last["nook"] = 16
  /\ \A s, q :
       /\ Asks("nook", s, q) <=> (q = 6 => s \in 5..11)
       /\ NotYet("nook", s, q) <=> q = 6 /\ s \in 0..11
       /\ ~Behind("nook", s, q)
       /\ ~Due("nook", s, q)
  /\ \A n, s, q : n # "nook" /\ q = 6 =>
       Asks(n, s, q) /\ ~NotYet(n, s, q) /\ ~Behind(n, s, q) /\ ~Due(n, s, q)
BY LastValues DEF Asks, NotYet, Behind, Due

LEMMA NookSteps ==
  ASSUME QuestsInv PROVE (NookTalks \/ NookHears \/ NookTakes) => Kept
<1> USE NookTable DEF Freely, Carefree, Opens, OthersAsk, Pays, OthersPass, Followers
<1>1. NookTalks => Kept
  <2>1. Offer("nook", {5}, 6, 6) => Kept
    BY FirstOfferKeeps
  <2>2. Move("nook", {12}, 16) => Kept
    BY MoveKeeps
  <2>3. Say("nook", {12}) => Kept
    BY SayKeeps
  <2>4. Say("nook", {0, 1, 2, 3, 4, 6, 7, 8, 9, 10, 13, 14}) => Kept
    BY SayKeeps
  <2> QED BY <2>1, <2>2, <2>3, <2>4 DEF NookTalks
<1>2. NookHears => Kept
  BY MoveKeeps DEF NookHears
<1>3. NookTakes => Kept
  BY FinishKeeps DEF NookTakes
<1> QED BY <1>1, <1>2, <1>3

LEMMA ReskinTable ==
  /\ Last["reskin"] = 9
  /\ \A s, q :
       /\ Asks("reskin", s, q) <=> (q = 17 => s \in 0..7)
       /\ NotYet("reskin", s, q) <=> q = 17 /\ s \in 0..7
       /\ ~Behind("reskin", s, q)
       /\ ~Due("reskin", s, q)
  /\ \A n, s, q : n # "reskin" /\ q = 17 =>
       Asks(n, s, q) /\ ~NotYet(n, s, q) /\ ~Behind(n, s, q) /\ ~Due(n, s, q)
BY LastValues DEF Asks, NotYet, Behind, Due

LEMMA ReskinSteps ==
  ASSUME QuestsInv PROVE (ReskinTalks \/ ReskinHears) => Kept
<1> USE ReskinTable DEF Freely, Carefree, Opens, OthersAsk, Pays, OthersPass, Followers
<1>1. ReskinTalks => Kept
  <2>1. Say("reskin", {0}) => Kept
    BY SayKeeps
  <2>2. Say("reskin", {3}) => Kept
    BY SayKeeps
  <2>3. Offer("reskin", {4}, 5, 17) => Kept
    BY FirstOfferKeeps
  <2>4. Finish("reskin", {7}, 8, 17) => Kept
    BY FinishKeeps
  <2>5. Say("reskin", {1, 2, 5, 6, 8}) => Kept
    BY SayKeeps
  <2> QED BY <2>1, <2>2, <2>3, <2>4, <2>5 DEF ReskinTalks
<1>2. ReskinHears => Kept
  BY MoveKeeps DEF ReskinHears
<1> QED BY <1>1, <1>2

LEMMA GuiwynnTable ==
  /\ Last["guiwynn"] = 11
  /\ \A s, q :
       /\ Asks("guiwynn", s, q) <=> /\ q = 7 => s \in 0..5
                                    /\ q = 8 => s \in 6..8
       /\ NotYet("guiwynn", s, q) <=> q = 7 /\ s \in 0..5
       /\ ~Behind("guiwynn", s, q)
       /\ Due("guiwynn", s, q) <=> q = 8 /\ s \in 0..8
  /\ \A n, s, q : n # "guiwynn" /\ q \in {7, 8} =>
       Asks(n, s, q) /\ ~NotYet(n, s, q) /\ ~Behind(n, s, q) /\ ~Due(n, s, q)
BY LastValues DEF Asks, NotYet, Behind, Due

LEMMA GuiwynnSteps ==
  ASSUME QuestsInv
  PROVE  (GuiwynnTalks \/ GuiwynnLapses \/ GuiwynnHears \/ GuiwynnTakes) => Kept
<1> USE GuiwynnTable DEF Freely, Carefree, Opens, OthersAsk, Pays, OthersPass, Followers
<1>1. GuiwynnTalks => Kept
  <2>1. Offer("guiwynn", {0}, 1, 7) => Kept
    BY FirstOfferKeeps
  <2>2. flags[8] # "done" /\ Offer("guiwynn", {6}, 7, 8) => Kept
    BY OfferKeeps
  <2>3. flags[8] = "done" /\ Move("guiwynn", {6}, 11) => Kept
    <3>1. Skips("guiwynn", {6}, 11, 8)
      BY DEF Skips
    <3> QED BY <3>1, SkipKeeps
  <2>4. Say("guiwynn", {1, 2, 3, 4, 7, 9, 10}) => Kept
    BY SayKeeps
  <2> QED BY <2>1, <2>2, <2>3, <2>4 DEF GuiwynnTalks, OfferNew
<1>2. GuiwynnLapses => Kept
  <2>1. Move("guiwynn", 1..4, 2) => Kept
    BY MoveKeeps
  <2>2. flags[8] # "done" /\ Offer("guiwynn", {7}, 7, 8) => Kept
    BY OfferKeeps
  <2>3. flags[8] = "done" /\ Move("guiwynn", {7}, 11) => Kept
    <3>1. Skips("guiwynn", {7}, 11, 8)
      BY DEF Skips
    <3> QED BY <3>1, SkipKeeps
  <2> QED BY <2>1, <2>2, <2>3 DEF GuiwynnLapses, OfferNew
<1>3. GuiwynnHears => Kept
  BY MoveKeeps DEF GuiwynnHears
<1>4. GuiwynnTakes => Kept
  BY FinishKeeps DEF GuiwynnTakes
<1> QED BY <1>1, <1>2, <1>3, <1>4

LEMMA LogainTable ==
  /\ Last["logain"] = 9
  /\ \A s, q :
       /\ Asks("logain", s, q) <=> (q = 9 => s \in 0..5)
       /\ NotYet("logain", s, q) <=> q = 9 /\ s \in 0..5
       /\ ~Behind("logain", s, q)
       /\ ~Due("logain", s, q)
  /\ \A n, s, q : n # "logain" /\ q = 9 =>
       Asks(n, s, q) /\ ~NotYet(n, s, q) /\ ~Behind(n, s, q) /\ ~Due(n, s, q)
BY LastValues DEF Asks, NotYet, Behind, Due

LEMMA LogainSteps ==
  ASSUME QuestsInv
  PROVE  (LogainTalks \/ LogainLapses \/ LogainHears \/ LogainTakes) => Kept
<1> USE LogainTable DEF Freely, Carefree, Opens, OthersAsk, Pays, OthersPass, Followers
<1>1. LogainTalks => Kept
  <2>1. Offer("logain", {0}, 1, 9) => Kept
    BY FirstOfferKeeps
  <2>2. Say("logain", {1, 2, 3, 4, 6, 7, 8}) => Kept
    BY SayKeeps
  <2> QED BY <2>1, <2>2 DEF LogainTalks
<1>2. LogainLapses => Kept
  BY MoveKeeps DEF LogainLapses
<1>3. LogainHears => Kept
  BY MoveKeeps DEF LogainHears
<1>4. LogainTakes => Kept
  BY FinishKeeps DEF LogainTakes
<1> QED BY <1>1, <1>2, <1>3, <1>4

-----------------------------------------------------------------------------
(* The drivers of Aston.                                                 *)

LEMMA SeymourTable ==
  /\ Last["seymour"] = 17
  /\ \A s, q :
       /\ Asks("seymour", s, q) <=> /\ q = 10 => s \in 0..9
                                    /\ q = 11 => s \in 10..11
                                    /\ q = 12 => s \in 12..15
       /\ NotYet("seymour", s, q) <=> \/ q = 10 /\ s \in 0..9
                                      \/ q = 11 /\ s \in 0..11
                                      \/ q = 12 /\ s \in 0..15
       /\ ~Behind("seymour", s, q)
       /\ ~Due("seymour", s, q)
  /\ \A n, s, q : n # "seymour" /\ q \in 10..12 =>
       Asks(n, s, q) /\ ~NotYet(n, s, q) /\ ~Behind(n, s, q) /\ ~Due(n, s, q)
BY LastValues DEF Asks, NotYet, Behind, Due

LEMMA SeymourSteps ==
  ASSUME QuestsInv PROVE (SeymourTalks \/ SeymourHears \/ SeymourTakes) => Kept
<1> USE SeymourTable DEF Freely, Carefree, Opens, OthersAsk, Pays, OthersPass, Followers
<1>1. SeymourTalks => Kept
  <2>1. Offer("seymour", {0}, 1, 10) => Kept
    BY FirstOfferKeeps
  <2>2. flags[11] # "done" /\ Offer("seymour", {10}, 11, 11) => Kept
    BY OfferKeeps
  <2>3. flags[11] = "done" /\ Move("seymour", {10}, 12) => Kept
    <3>1. Skips("seymour", {10}, 12, 11)
      BY DEF Skips
    <3> QED BY <3>1, SkipKeeps
  <2>4. flags[12] # "done" /\ Offer("seymour", {12, 13, 14}, 15, 12) => Kept
    BY OfferKeeps
  <2>5. flags[12] = "done" /\ Move("seymour", {12, 13, 14}, 16) => Kept
    <3>1. Skips("seymour", {12, 13, 14}, 16, 12)
      BY DEF Skips
    <3> QED BY <3>1, SkipKeeps
  <2>6. Say("seymour", 1..8 \cup {16}) => Kept
    BY SayKeeps
  <2> QED BY <2>1, <2>2, <2>3, <2>4, <2>5, <2>6 DEF SeymourTalks, OfferNew
<1>2. SeymourHears => Kept
  <2>1. Move("seymour", 0..9, 0) \/ Move("seymour", 10..11, 10) => Kept
    BY MoveKeeps
  <2>2. Move("seymour", 12..13, 12) \/ Move("seymour", 14..15, 14) => Kept
    BY MoveKeeps
  <2>3. Move("seymour", 16..17, 16) => Kept
    BY MoveKeeps
  <2> QED BY ONLY <2>1, <2>2, <2>3 DEF SeymourHears
<1>3. SeymourTakes => Kept
  BY FinishKeeps DEF SeymourTakes
<1> QED BY <1>1, <1>2, <1>3

LEMMA KellyTable ==
  /\ Last["kelly"] = 26
  /\ \A s, q :
       /\ Asks("kelly", s, q) <=> /\ q = 13 => s \in 0..5
                                  /\ q = 14 => s \in 0..9
                                  /\ q = 15 => s \in 0..16
                                  /\ q = 60 => s \in 0..25
       /\ NotYet("kelly", s, q) <=> \/ q = 13 /\ s \in 0..5
                                    \/ q = 14 /\ s \in 7..9
                                    \/ q = 15 /\ s \in 15..16
                                    \/ q = 60 /\ s \in 21..25
       /\ ~Behind("kelly", s, q)
       /\ ~Due("kelly", s, q)
  /\ \A n, s, q : n # "kelly" /\ q \in {13, 14, 15, 60} =>
       Asks(n, s, q) /\ ~NotYet(n, s, q) /\ ~Behind(n, s, q) /\ ~Due(n, s, q)
BY LastValues DEF Asks, NotYet, Behind, Due

LEMMA KellySteps ==
  ASSUME QuestsInv PROVE (KellyTalks \/ KellyHears \/ KellyTakes) => Kept
<1> USE KellyTable DEF Freely, Carefree, Opens, OthersAsk, Pays, OthersPass, Followers
<1>1. KellyTalks => Kept
  <2>1. Offer("kelly", {1}, 3, 13) => Kept
    BY FirstOfferKeeps
  <2>2. Offer("kelly", {2}, 3, 13) => Kept
    BY FirstOfferKeeps
  <2>3. flags[14] # "done" /\ Offer("kelly", {6}, 7, 14) => Kept
    BY OfferKeeps
  <2>4. flags[14] = "done" /\ Move("kelly", {6}, 10) => Kept
    <3>1. Skips("kelly", {6}, 10, 14)
      BY DEF Skips
    <3> QED BY <3>1, SkipKeeps
  <2>5. Finish("kelly", {9}, 10, 14) => Kept
    BY FinishKeeps
  <2>6. flags[15] # "done" /\ Offer("kelly", {13, 14}, 15, 15) => Kept
    BY OfferKeeps
  <2>7. flags[15] = "done" /\ Move("kelly", {13, 14}, 19) => Kept
    <3>1. Skips("kelly", {13, 14}, 19, 15)
      BY DEF Skips
    <3> QED BY <3>1, SkipKeeps
  <2>8. Finish("kelly", {15}, 17, 15) => Kept
    BY FinishKeeps
  <2>9. Finish("kelly", {16}, 17, 15) => Kept
    BY FinishKeeps
  <2>10. done[60] > 0 /\ Move("kelly", {19, 20}, 26) => Kept
    <3> SUFFICES ASSUME done[60] > 0, Move("kelly", {19, 20}, 26) PROVE Kept
      OBVIOUS
    <3>1. 60 \in Quests
      BY GivesLogged DEF Move, At, Gives
    <3>2. flags[60] = "done"
      BY <3>1 DEF QuestsInv, Counted, TypeOK, Limit, Repeatable, Xrepeat
    <3>3. Skips("kelly", {19, 20}, 26, 60)
      BY DEF Skips
    <3> QED BY <3>2, <3>3, SkipKeeps
  <2>11. At("kelly", {19, 20}) /\ done[60] = 0 /\ Goto("kelly", 21) => 60 \in Quests /\ flags[60] # "done"
    <3> SUFFICES ASSUME At("kelly", {19, 20}), done[60] = 0 PROVE 60 \in Quests /\ flags[60] # "done"
      OBVIOUS
    <3>1. 60 \in Quests
      BY GivesLogged DEF At, Gives
    <3> QED BY <3>1 DEF QuestsInv, Counted, Xrepeat
  <2>12. done[60] = 0 /\ Move("kelly", {19, 20}, 21) => Kept
    <3> SUFFICES ASSUME done[60] = 0, Move("kelly", {19, 20}, 21) PROVE Kept
      OBVIOUS
    <3>1. 60 \in Quests /\ flags[60] # "done"
      BY <2>11 DEF Move
    <3>2. DOMAIN st' = Cast /\ st'["kelly"] = 21 /\ \A m \in Cast \ {"kelly"} : st'[m] = st[m]
      BY GoesTo DEF Move, At
    <3>3. Freely("kelly", {19, 20}, 21, {60})
      OBVIOUS
    <3>4. Easy({60}) /\ Logs({}, {})
      BY <3>3, GoesEasy, UnloggedLogs DEF Move
    <3>5. ASSUME NEW m \in Cast PROVE Carefree(m, st[m], st'[m], 60, flags[60])
      BY <3>1, <3>2, StayFree DEF Move, At
    <3>6. Easy({})
      BY <3>4, <3>5 DEF Easy
    <3> QED BY <3>4, <3>6, StepKeeps
  <2>13. At("kelly", {19, 20}) /\ done[60] = 0 /\ done[54] = 0 /\ Goto("kelly", 21)
         /\ flags' = [flags EXCEPT ![54] = "open", ![60] = "open"] /\ UNCHANGED done => Kept
    <3> SUFFICES ASSUME At("kelly", {19, 20}), done[60] = 0, done[54] = 0, Goto("kelly", 21),
                        flags' = [flags EXCEPT ![54] = "open", ![60] = "open"], done' = done
                 PROVE  Kept
      OBVIOUS
    <3>1. {54, 60} \subseteq Quests /\ flags[60] # "done" /\ flags[54] # "done"
      <4>1. 54 \in Quests
        BY GivesLogged DEF At, Gives
      <4> QED BY <2>11, <4>1 DEF QuestsInv, Counted, Xrepeat
    <3>2. DOMAIN st' = Cast /\ st'["kelly"] = 21 /\ \A m \in Cast \ {"kelly"} : st'[m] = st[m]
      BY GoesTo DEF At
    <3>3. Freely("kelly", {19, 20}, 21, {54, 60})
      OBVIOUS
    <3>4. Easy({54, 60})
      BY <3>3, GoesEasy
    <3>5. Logs({54, 60}, {})
      <4>1. /\ DOMAIN flags' = Quests
            /\ \A p \in Quests : flags'[p] = IF p \in {54, 60} THEN "open" ELSE flags[p]
        BY DEF Quests
      <4> QED BY <4>1 DEF Logs, QuestsInv, TypeOK, LogOfCast
    <3>6. MayOpen(60)
      BY <3>1, <3>2 DEF MayOpen, At
    <3>7. MayOpen(54)
      <4>1. ASSUME NEW m \in Cast PROVE Asks(m, st[m], 54) /\ ~Behind(m, st[m], 54)
        <5>1. ~Behind(m, st[m], 54)
          BY <3>1 DEF QuestsInv, LogRight
        <5>2. st[m] \in 0..Last[m]
          BY DEF QuestsInv, TypeOK
        <5> QED BY <5>1, <5>2, LastValues DEF Asks, Behind
      <4>2. Asks("kelly", 21, 54) /\ ~Behind("kelly", 21, 54) /\ ~NotYet("kelly", 21, 54)
            /\ ~Due("kelly", 21, 54)
        OBVIOUS
      <4> QED BY <3>1, <3>2, <4>1, <4>2 DEF MayOpen
    <3> QED BY <3>4, <3>5, <3>6, <3>7, StepKeeps
  <2>14. Say("kelly", {0, 3, 4, 7, 8, 10, 11, 12, 17, 18, 21, 22, 23, 24}) => Kept
    BY SayKeeps
  <2> QED BY <2>1, <2>2, <2>3, <2>4, <2>5, <2>6, <2>7, <2>8, <2>9, <2>10, <2>12,
         <2>13, <2>14
      DEF KellyTalks, OfferNew, Move
<1>2. KellyHears => Kept
  <2>1. Move("kelly", 0..5, 0) \/ Move("kelly", 6..9, 6) => Kept
    BY MoveKeeps
  <2>2. Move("kelly", 10..13, 10) \/ Move("kelly", 14..15, 14) => Kept
    BY MoveKeeps
  <2>3. Move("kelly", 17..19, 17) \/ Move("kelly", 21..25, 21) => Kept
    BY MoveKeeps
  <2> QED BY ONLY <2>1, <2>2, <2>3 DEF KellyHears
<1>3. KellyTakes => Kept
  BY FinishKeeps DEF KellyTakes
<1> QED BY <1>1, <1>2, <1>3

LEMMA ShrinesTable ==
  /\ Last["shrines"] = 3
  /\ \A s, q :
       /\ Asks("shrines", s, q)
       /\ ~NotYet("shrines", s, q)
       /\ ~Behind("shrines", s, q)
       /\ ~Due("shrines", s, q)
BY LastValues DEF Asks, NotYet, Behind, Due

LEMMA ShrinesSteps ==
  ASSUME QuestsInv PROVE ShrineFound => Kept
<1> USE ShrinesTable DEF Freely, Carefree
<1>1. ShrineFound => Kept
  BY SayKeeps DEF ShrineFound
<1> QED BY <1>1

LEMMA Astro2Table ==
  /\ Last["astro2"] = 5
  /\ \A s, q :
       /\ Asks("astro2", s, q) <=> (q = 16 => s \in 0..4)
       /\ NotYet("astro2", s, q) <=> q = 16 /\ s \in 0..4
       /\ ~Behind("astro2", s, q)
       /\ ~Due("astro2", s, q)
  /\ \A n, s, q : n # "astro2" /\ q = 16 =>
       Asks(n, s, q) /\ ~NotYet(n, s, q) /\ ~Behind(n, s, q) /\ ~Due(n, s, q)
BY LastValues DEF Asks, NotYet, Behind, Due

LEMMA Astro2Steps ==
  ASSUME QuestsInv PROVE (AstronomerTalks \/ AstronomerHears \/ AstronomerTakes) => Kept
<1> USE Astro2Table DEF Freely, Carefree, Opens, OthersAsk, Pays, OthersPass, Followers
<1>1. AstronomerTalks => Kept
  <2>1. Offer("astro2", {0}, 1, 16) => Kept
    BY FirstOfferKeeps
  <2>2. Say("astro2", 1..3) => Kept
    BY SayKeeps
  <2> QED BY <2>1, <2>2 DEF AstronomerTalks
<1>2. AstronomerHears => Kept
  BY MoveKeeps DEF AstronomerHears
<1>3. AstronomerTakes => Kept
  BY FinishKeeps DEF AstronomerTakes
<1> QED BY <1>1, <1>2, <1>3

LEMMA CryptTable ==
  /\ Last["crypt"] = 15
  /\ \A s, q :
       /\ Asks("crypt", s, q) <=> /\ q = 18 => s \in 0..9
                                  /\ q = 19 => s \in 12..14
       /\ NotYet("crypt", s, q) <=> \/ q = 18 /\ s \in 0..9
                                    \/ q = 19 /\ s \in 0..14
       /\ ~Behind("crypt", s, q)
       /\ ~Due("crypt", s, q)
  /\ \A n, s, q : n # "crypt" /\ q \in {18, 19} =>
       Asks(n, s, q) /\ ~NotYet(n, s, q) /\ ~Behind(n, s, q) /\ ~Due(n, s, q)
BY LastValues DEF Asks, NotYet, Behind, Due

LEMMA CryptSteps ==
  ASSUME QuestsInv
  PROVE  (CryptTalks \/ CryptHears \/ CryptAnswers \/ VampireDead
          \/ Vampire2Dead) => Kept
<1> USE CryptTable DEF Freely, Carefree, Opens, OthersAsk, Pays, OthersPass, Followers
<1>1. CryptTalks => Kept
  <2>1. Offer("crypt", {1}, 2, 18) => Kept
    BY FirstOfferKeeps
  <2>2. flags[19] # "done" /\ Offer("crypt", {12}, 13, 19) => Kept
    BY OfferKeeps
  <2>3. flags[19] = "done" /\ Move("crypt", {12}, 14) => Kept
    <3>1. Skips("crypt", {12}, 14, 19)
      BY DEF Skips
    <3> QED BY <3>1, SkipKeeps
  <2>4. Move("crypt", {10}, 12) => Kept
    BY MoveKeeps
  <2>5. Say("crypt", {0, 2, 3, 4, 6, 8, 13}) => Kept
    BY SayKeeps
  <2> QED BY <2>1, <2>2, <2>3, <2>4, <2>5 DEF CryptTalks, OfferNew
<1>2. CryptHears => Kept
  BY MoveKeeps DEF CryptHears
<1>3. CryptAnswers => Kept
  BY MoveKeeps DEF CryptAnswers
<1>4. VampireDead => Kept
  BY FinishKeeps DEF VampireDead
<1>5. Vampire2Dead => Kept
  BY FinishKeeps DEF Vampire2Dead
<1> QED BY <1>1, <1>2, <1>3, <1>4, <1>5

LEMMA CarlosTable ==
  /\ Last["carlos"] = 6
  /\ \A s, q :
       /\ Asks("carlos", s, q) <=> (q = 20 => s \in 0..5)
       /\ NotYet("carlos", s, q) <=> q = 20 /\ s \in 0..5
       /\ ~Behind("carlos", s, q)
       /\ ~Due("carlos", s, q)
  /\ \A n, s, q : n # "carlos" /\ q = 20 =>
       Asks(n, s, q) /\ ~NotYet(n, s, q) /\ ~Behind(n, s, q) /\ ~Due(n, s, q)
BY LastValues DEF Asks, NotYet, Behind, Due

LEMMA CarlosSteps ==
  ASSUME QuestsInv PROVE (CarlosTalks \/ CarlosHears \/ CarlosTakes) => Kept
<1> USE CarlosTable DEF Freely, Carefree, Opens, OthersAsk, Pays, OthersPass, Followers
<1>1. CarlosTalks => Kept
  <2>1. Offer("carlos", {0}, 1, 20) => Kept
    BY FirstOfferKeeps
  <2>2. Say("carlos", 1..4) => Kept
    BY SayKeeps
  <2> QED BY <2>1, <2>2 DEF CarlosTalks
<1>2. CarlosHears => Kept
  BY MoveKeeps DEF CarlosHears
<1>3. CarlosTakes => Kept
  BY FinishKeeps DEF CarlosTakes
<1> QED BY <1>1, <1>2, <1>3

-----------------------------------------------------------------------------
(* The drivers of the forest and the swamp.                              *)

LEMMA WilliamTable ==
  /\ Last["william"] = 7
  /\ \A s, q :
       /\ Asks("william", s, q) <=> /\ q = 22 => s \in 0..2
                                    /\ q = 23 => s \in 3..6
       /\ NotYet("william", s, q) <=> q = 23 /\ s \in 0..6
       /\ Behind("william", s, q) <=> q = 22 /\ s \in 3..7
       /\ ~Due("william", s, q)
  /\ \A n, s, q : n # "william" /\ q = 23 =>
       Asks(n, s, q) /\ ~Behind(n, s, q) /\ ~Due(n, s, q)
BY LastValues DEF Asks, NotYet, Behind, Due

LEMMA ImpTable ==
  /\ Last["imp"] = 11
  /\ \A s, q :
       /\ Asks("imp", s, q) <=> (q = 22 => s \in 0..3)
       /\ NotYet("imp", s, q) <=> \/ q = 22 /\ s \in 0..3
                                  \/ q = 23 /\ s \in 0..5
       /\ Behind("imp", s, q) <=> q = 22 /\ s \in 4..11
       /\ ~Due("imp", s, q)
  /\ \A n, s, q : n # "imp" /\ q = 22 =>
       ~NotYet(n, s, q) /\ ~Due(n, s, q)
BY LastValues DEF Asks, NotYet, Behind, Due

LEMMA ImpSteps ==
  ASSUME QuestsInv PROVE (ImpTalks \/ BearsDead) => Kept
<1> USE ImpTable DEF Freely, Carefree, Pays, OthersPass, Followers
<1>1. ImpTalks => Kept
  <2>1. Finish("imp", {3}, 4, 22) => Kept
    BY FinishKeeps
  <2>2. At("imp", {4}) /\ st' = [st EXCEPT !["imp"] = 5, !["william"] = 3] /\ Unlogged => Kept
    <3> SUFFICES ASSUME At("imp", {4}), st' = [st EXCEPT !["imp"] = 5, !["william"] = 3], Unlogged
                 PROVE  Kept
      OBVIOUS
    <3>1. \A q \in Quests : (q = 22 => flags[q] = "done") /\ (q = 23 => flags[q] # "done")
      BY DEF At, QuestsInv, LogRight
    <3>2. "imp" \in Cast /\ 5 \in 0..Last["imp"] /\ 3 \in 0..Last["william"]
      BY WilliamTable DEF At
    <3>3. \A q \in Quests \ {} :
          /\ Carefree("imp", st["imp"], 5, q, flags[q])
          /\ Carefree("william", st["william"], 3, q, flags[q])
      BY <3>1, WilliamTable DEF At
    <3> HIDE DEF Carefree
    <3>4. Easy({})
      BY <3>2, <3>3, TwoGoEasy
    <3> QED BY <3>4, UnloggedLogs, StepKeeps
  <2>3. At("imp", {5}) /\ Goto("imp", IF flags[23] = "done" THEN 11 ELSE 5) /\ Unlogged => Kept
    <3> SUFFICES ASSUME At("imp", {5}), Goto("imp", IF flags[23] = "done" THEN 11 ELSE 5), Unlogged
                 PROVE  Kept
      OBVIOUS
    <3>1. CASE flags[23] = "done"
      <4>1. Goto("imp", 11)
        BY <3>1
      <4>2. Freely("imp", {5}, 11, {})
        OBVIOUS
      <4> HIDE DEF Freely
      <4> QED BY <4>1, <4>2, GoesEasy, UnloggedLogs, StepKeeps
    <3>2. CASE flags[23] # "done"
      <4>1. Goto("imp", 5)
        BY <3>2
      <4>2. Freely("imp", {5}, 5, {})
        OBVIOUS
      <4> HIDE DEF Freely
      <4> QED BY <4>1, <4>2, GoesEasy, UnloggedLogs, StepKeeps
    <3> QED BY <3>1, <3>2
  <2>4. Move("imp", 7..8, 9) => Kept
    BY MoveKeeps
  <2>5. Move("imp", {8}, 9) => Kept
    BY MoveKeeps
  <2>6. Move("imp", 9..10, 11) => Kept
    BY MoveKeeps
  <2>7. Move("imp", {10}, 11) => Kept
    BY MoveKeeps
  <2>8. Say("imp", {0, 1, 6}) => Kept
    BY SayKeeps
  <2> QED BY <2>1, <2>2, <2>3, <2>4, <2>5, <2>6, <2>7, <2>8 DEF ImpTalks
<1>2. BearsDead => Kept
  BY MoveKeeps DEF BearsDead
<1> QED BY <1>1, <1>2

LEMMA WilliamSteps ==
  ASSUME QuestsInv PROVE (WilliamTalks \/ WilliamHears \/ WilliamTakes) => Kept
<1> USE WilliamTable DEF Freely, Carefree, Opens, OthersAsk
<1>1. WilliamTalks => Kept
  <2>1. flags[22] # "done" /\ Offer("william", {0}, 1, 22) => Kept
    <3> SUFFICES ASSUME flags[22] # "done", Offer("william", {0}, 1, 22) PROVE Kept
      OBVIOUS
    <3>1. 22 \in Quests
      BY GivesLogged DEF Offer, At, Gives
    <3>2. OthersAsk("william", 22)
      <4> SUFFICES ASSUME NEW m \in Cast \ {"william"}
                   PROVE  Asks(m, st[m], 22) /\ ~Behind(m, st[m], 22)
        OBVIOUS
      <4>1. ~Behind(m, st[m], 22)
        BY <3>1 DEF QuestsInv, LogRight
      <4>2. st[m] \in 0..Last[m]
        BY DEF QuestsInv, TypeOK
      <4> QED BY <4>1, <4>2, LastValues DEF Asks, Behind
    <3> QED BY <3>2, OfferKeeps
  <2>2. flags[22] = "done" /\ Move("william", {0}, 3) => Kept
    <3>1. Skips("william", {0}, 3, 22)
      BY DEF Skips
    <3> QED BY <3>1, SkipKeeps
  <2>3. flags[23] # "done" /\ Offer("william", {3}, 4, 23) => Kept
    BY OfferKeeps
  <2>4. flags[23] = "done" /\ Move("william", {3}, 7) => Kept
    <3>1. Skips("william", {3}, 7, 23)
      BY DEF Skips
    <3> QED BY <3>1, SkipKeeps
  <2>5. Say("william", {1, 4, 5}) => Kept
    BY SayKeeps
  <2> QED BY <2>1, <2>2, <2>3, <2>4, <2>5 DEF WilliamTalks, OfferNew
<1>2. WilliamHears => Kept
  BY MoveKeeps DEF WilliamHears
<1>3. WilliamTakes => Kept
  <2> SUFFICES ASSUME At("william", {6}), st' = [st EXCEPT !["william"] = 7, !["imp"] = 6], Done(23)
               PROVE  Kept
    BY DEF WilliamTakes
  <2>0. st' = [st EXCEPT !["william"] = 7, !["imp"] = 6]
    OBVIOUS
  <2>1. "william" \in Cast /\ 7 \in 0..Last["william"] /\ 6 \in 0..Last["imp"]
    BY ImpTable DEF At
  <2>2. \A q \in Quests : q = 22 => flags[q] = "done"
    BY DEF At, QuestsInv, LogRight
  <2>3. \A q \in Quests \ {23} : /\ Carefree("william", st["william"], 7, q, flags[q])
                                 /\ Carefree("imp", st["imp"], 6, q, flags[q])
    BY <2>2, ImpTable DEF At
  <2>4. Easy({23}) /\ Logs({}, {23})
    BY <2>1, <2>3, TwoGoEasy, DoneLogs
  <2>5. ASSUME 23 \in Quests PROVE MayPay(23)
    <3>1. flags[23] # "done"
      BY <2>5 DEF At, QuestsInv, LogRight
    <3>2. /\ st'["william"] = 7 /\ ("imp" \in Cast => st'["imp"] = 6)
          /\ \A m \in Cast \ {"william", "imp"} : st'[m] = st[m]
      BY ONLY <2>0, <2>1, TwoGo
    <3>3. \A m \in Cast : ~NotYet(m, st'[m], 23) /\ ~Due(m, st'[m], 23)
      BY <2>1, <3>2, LastValues DEF NotYet, Due
    <3> QED BY ONLY <3>1, <3>3 DEF MayPay, Followers
  <2> QED BY <2>4, <2>5, StepKeeps
<1> QED BY <1>1, <1>2, <1>3

LEMMA HermitTable ==
  /\ Last["hermit"] = 7
  /\ \A s, q :
       /\ Asks("hermit", s, q) <=> (q = 24 => s \in 0..5)
       /\ NotYet("hermit", s, q) <=> q = 24 /\ s \in 0..5
       /\ ~Behind("hermit", s, q)
       /\ ~Due("hermit", s, q)
  /\ \A n, s, q : n # "hermit" /\ q = 24 =>
       Asks(n, s, q) /\ ~NotYet(n, s, q) /\ ~Behind(n, s, q) /\ ~Due(n, s, q)
BY LastValues DEF Asks, NotYet, Behind, Due

LEMMA HermitSteps ==
  ASSUME QuestsInv PROVE (HermitTalks \/ HermitHears \/ SpiderQueenDead) => Kept
<1> USE HermitTable DEF Freely, Carefree, Opens, OthersAsk, Pays, OthersPass, Followers
<1>1. HermitTalks => Kept
  <2>1. Offer("hermit", {0}, 1, 24) => Kept
    BY FirstOfferKeeps
  <2>2. Finish("hermit", {5}, 6, 24) => Kept
    BY FinishKeeps
  <2>3. Say("hermit", {1, 2, 3, 6}) => Kept
    BY SayKeeps
  <2> QED BY <2>1, <2>2, <2>3 DEF HermitTalks
<1>2. HermitHears => Kept
  BY MoveKeeps DEF HermitHears
<1>3. SpiderQueenDead => Kept
  BY SayKeeps DEF SpiderQueenDead
<1> QED BY <1>1, <1>2, <1>3

LEMMA ClaraTable ==
  /\ Last["clara"] = 16
  /\ \A s, q :
       /\ Asks("clara", s, q) <=> (q = 21 => s \in 6..14)
       /\ NotYet("clara", s, q) <=> q = 21 /\ s \in 0..14
       /\ ~Behind("clara", s, q)
       /\ ~Due("clara", s, q)
  /\ \A n, s, q : n # "clara" /\ q = 21 =>
       Asks(n, s, q) /\ ~NotYet(n, s, q) /\ ~Behind(n, s, q) /\ ~Due(n, s, q)
BY LastValues DEF Asks, NotYet, Behind, Due

LEMMA ClaraSteps ==
  ASSUME QuestsInv PROVE (ClaraTalks \/ ClaraHears \/ SwampbeastDead) => Kept
<1> USE ClaraTable DEF Freely, Carefree, Opens, OthersAsk, Pays, OthersPass, Followers
<1>1. ClaraTalks => Kept
  <2>1. Move("clara", {1}, 3) => Kept
    BY MoveKeeps
  <2>2. Move("clara", {2}, 3) => Kept
    BY MoveKeeps
  <2>3. Offer("clara", {5}, 7, 21) => Kept
    BY FirstOfferKeeps
  <2>4. Offer("clara", {6}, 7, 21) => Kept
    BY FirstOfferKeeps
  <2>5. Move("clara", 9..10, 11) => Kept
    BY MoveKeeps
  <2>6. Move("clara", 11..12, 13) => Kept
    BY MoveKeeps
  <2>7. Finish("clara", {14}, 15, 21) => Kept
    BY FinishKeeps
  <2>8. Say("clara", {0, 3, 4, 7, 8, 15}) => Kept
    BY SayKeeps
  <2> QED BY <2>1, <2>2, <2>3, <2>4, <2>5, <2>6, <2>7, <2>8 DEF ClaraTalks
<1>2. ClaraHears => Kept
  BY MoveKeeps DEF ClaraHears
<1>3. SwampbeastDead => Kept
  BY MoveKeeps DEF SwampbeastDead
<1> QED BY <1>1, <1>2, <1>3

-----------------------------------------------------------------------------
(* The drivers of Brannington.                                           *)

LEMMA ContrabandTable ==
  /\ Last["contraband"] = 4
  /\ \A s, q :
       /\ Asks("contraband", s, q)
       /\ ~NotYet("contraband", s, q)
       /\ ~Behind("contraband", s, q)
       /\ ~Due("contraband", s, q)
BY LastValues DEF Asks, NotYet, Behind, Due

LEMMA SmugglecomTable ==
  /\ Last["smugglecom"] = 10
  /\ \A s, q :
       /\ Asks("smugglecom", s, q) <=> /\ q = 35 => s \in 0..4
                                       /\ q = 36 => s \in 5..6
                                       /\ q = 37 => s \in 7..9
       /\ NotYet("smugglecom", s, q) <=> \/ q = 35 /\ s \in 0..4
                                         \/ q = 36 /\ s \in {6}
                                         \/ q = 37 /\ s \in 8..9
       /\ ~Behind("smugglecom", s, q)
       /\ ~Due("smugglecom", s, q)
  /\ \A n, s, q : n # "smugglecom" /\ q \in 35..37 =>
       Asks(n, s, q) /\ ~NotYet(n, s, q) /\ ~Behind(n, s, q) /\ ~Due(n, s, q)
BY LastValues DEF Asks, NotYet, Behind, Due

LEMMA SmugglecomSteps ==
  ASSUME QuestsInv
  PROVE  (CommanderTalks \/ CommanderHears \/ CommanderTakes \/ SmuggleleadDied) => Kept
<1> USE SmugglecomTable DEF Freely, Carefree, Opens, OthersAsk, Pays, OthersPass, Followers
<1>1. CommanderTalks => Kept
  <2>1. Offer("smugglecom", {0}, 1, 35) => Kept
    BY FirstOfferKeeps
  <2>2. Move("smugglecom", 2..3, 4) => Kept
    BY MoveKeeps
  <2>3. flags[36] # "done" /\ Offer("smugglecom", {5}, 6, 36) => Kept
    BY OfferKeeps
  <2>4. flags[36] = "done" /\ Move("smugglecom", {5}, 7) => Kept
    <3>1. Skips("smugglecom", {5}, 7, 36)
      BY DEF Skips
    <3> QED BY <3>1, SkipKeeps
  <2>5. Finish("smugglecom", {6}, 7, 36) => Kept
    BY FinishKeeps
  <2>6. flags[37] # "done" /\ Offer("smugglecom", {7}, 8, 37) => Kept
    BY OfferKeeps
  <2>7. flags[37] = "done" /\ Move("smugglecom", {7}, 10) => Kept
    <3>1. Skips("smugglecom", {7}, 10, 37)
      BY DEF Skips
    <3> QED BY <3>1, SkipKeeps
  <2>8. Finish("smugglecom", {9}, 10, 37) => Kept
    BY FinishKeeps
  <2>9. Say("smugglecom", {1}) => Kept
    BY SayKeeps, ContrabandTable
  <2> QED BY <2>1, <2>2, <2>3, <2>4, <2>5, <2>6, <2>7, <2>8, <2>9
        DEF CommanderTalks, OfferNew
<1>2. CommanderHears => Kept
  BY MoveKeeps DEF CommanderHears
<1>3. CommanderTakes => Kept
  <2>1. Finish("smugglecom", 0..4, 5, 35) => Kept
    BY FinishKeeps
  <2>2. Say("contraband", 0..3) => Kept
    BY SayKeeps, ContrabandTable
  <2> QED BY <2>1, <2>2 DEF CommanderTakes
<1>4. SmuggleleadDied => Kept
  BY SayKeeps DEF SmuggleleadDied
<1> QED BY <1>1, <1>2, <1>3, <1>4

LEMMA CountbranTable ==
  /\ Last["countbran"] = 4
  /\ \A s, q :
       /\ Asks("countbran", s, q)
       /\ ~NotYet("countbran", s, q)
       /\ ~Behind("countbran", s, q)
       /\ ~Due("countbran", s, q)
BY LastValues DEF Asks, NotYet, Behind, Due

LEMMA CountbranSteps ==
  ASSUME QuestsInv PROVE (CountTalks \/ CountHears) => Kept
<1> USE CountbranTable DEF Freely, Carefree, Opens, OthersAsk
<1>1. CountTalks => Kept
  <2>1. At("countbran", {0}) /\ flags[40] # "done" /\ Offer("countbran", {0}, 1, 40) => Kept
    <3> SUFFICES ASSUME flags[40] # "done", Offer("countbran", {0}, 1, 40) PROVE Kept
      OBVIOUS
    <3>1. 40 \in Quests
      BY GivesLogged DEF Offer, At, Gives
    <3>2. OthersAsk("countbran", 40)
      <4> SUFFICES ASSUME NEW m \in Cast \ {"countbran"}
                   PROVE  Asks(m, st[m], 40) /\ ~Behind(m, st[m], 40)
        OBVIOUS
      <4>1. ~Behind(m, st[m], 40)
        BY <3>1 DEF QuestsInv, LogRight
      <4>2. st[m] \in 0..Last[m]
        BY DEF QuestsInv, TypeOK
      <4> QED BY <4>1, <4>2, LastValues DEF Asks, Behind
    <3> QED BY <3>2, OfferKeeps
  <2>2. At("countbran", {0}) /\ flags[40] = "done" /\ Say("countbran", {0}) => Kept
    BY SayKeeps
  <2>3. Say("countbran", 1..3) => Kept
    BY SayKeeps
  <2> QED BY <2>1, <2>2, <2>3 DEF CountTalks
<1>2. CountHears => Kept
  BY MoveKeeps DEF CountHears
<1> QED BY <1>1, <1>2

LEMMA JewelsTable ==
  /\ Last["jewels"] = 3
  /\ \A s, q :
       /\ Asks("jewels", s, q) <=> (q = 40 => s \in 0..2)
       /\ NotYet("jewels", s, q) <=> q = 40 /\ s \in 0..2
       /\ Behind("jewels", s, q) <=> q = 40 /\ s \in {3}
       /\ ~Due("jewels", s, q)
  /\ \A n, s, q : n # "jewels" /\ q = 40 =>
       Asks(n, s, q) /\ ~NotYet(n, s, q) /\ ~Behind(n, s, q) /\ ~Due(n, s, q)
BY LastValues DEF Asks, NotYet, Behind, Due

LEMMA JewelsSteps ==
  ASSUME QuestsInv PROVE CountTakes => Kept
<1> USE JewelsTable DEF Freely, Carefree, Pays, OthersPass, Followers
<1>1. CountTakes => Kept
  <2>1. Say("jewels", 0..1) => Kept
    BY SayKeeps
  <2>2. Finish("jewels", {2}, 3, 40) => Kept
    BY FinishKeeps
  <2> QED BY <2>1, <2>2 DEF CountTakes
<1> QED BY <1>1

LEMMA BrennethTable ==
  /\ Last["brenneth"] = 15
  /\ \A s, q :
       /\ Asks("brenneth", s, q) <=> /\ q = 41 => s \in 0..4
                                     /\ q = 42 => s \in 5..8
                                     /\ q = 43 => s \in 9..11
       /\ NotYet("brenneth", s, q) <=> q = 41 /\ s \in 0..4
       /\ ~Behind("brenneth", s, q)
       /\ Due("brenneth", s, q) <=> \/ q = 42 /\ s \in 0..8
                                    \/ q = 43 /\ s \in 0..11
  /\ \A n, s, q : n # "brenneth" /\ q \in 41..43 =>
       Asks(n, s, q) /\ ~NotYet(n, s, q) /\ ~Behind(n, s, q) /\ ~Due(n, s, q)
BY LastValues DEF Asks, NotYet, Behind, Due

LEMMA BrennethSteps ==
  ASSUME QuestsInv PROVE (BrennethTalks \/ BrennethHears \/ BrennethTakes) => Kept
<1> USE BrennethTable DEF Freely, Carefree, Opens, OthersAsk, Pays, OthersPass, Followers
<1>1. BrennethTalks => Kept
  <2>1. Offer("brenneth", {0}, 1, 41) => Kept
    BY FirstOfferKeeps
  <2>2. flags[42] # "done" /\ Offer("brenneth", {5}, 6, 42) => Kept
    BY OfferKeeps
  <2>3. flags[42] = "done" /\ Move("brenneth", {5}, 9) => Kept
    <3>1. Skips("brenneth", {5}, 9, 42)
      BY DEF Skips
    <3> QED BY <3>1, SkipKeeps
  <2>4. flags[43] # "done" /\ Offer("brenneth", {9}, 10, 43) => Kept
    BY OfferKeeps
  <2>5. flags[43] = "done" /\ Move("brenneth", {9}, 12) => Kept
    <3>1. Skips("brenneth", {9}, 12, 43)
      BY DEF Skips
    <3> QED BY <3>1, SkipKeeps
  <2>6. Say("brenneth", {1, 2, 3, 6, 7, 10, 12, 13, 14}) => Kept
    BY SayKeeps
  <2> QED BY <2>1, <2>2, <2>3, <2>4, <2>5, <2>6 DEF BrennethTalks, OfferNew
<1>2. BrennethHears => Kept
  BY MoveKeeps DEF BrennethHears
<1>3. BrennethTakes => Kept
  BY FinishKeeps DEF BrennethTakes
<1> QED BY <1>1, <1>2, <1>3

LEMMA SpiritTable ==
  /\ Last["spirit"] = 5
  /\ \A s, q :
       /\ Asks("spirit", s, q) <=> (q = 44 => s \in 0..4)
       /\ NotYet("spirit", s, q) <=> q = 44 /\ s \in 0..4
       /\ ~Behind("spirit", s, q)
       /\ ~Due("spirit", s, q)
  /\ \A n, s, q : n # "spirit" /\ q = 44 =>
       Asks(n, s, q) /\ ~NotYet(n, s, q) /\ ~Behind(n, s, q) /\ ~Due(n, s, q)
BY LastValues DEF Asks, NotYet, Behind, Due

LEMMA SpiritSteps ==
  ASSUME QuestsInv PROVE (SpiritTalks \/ SpiritHears \/ SpiritTakes) => Kept
<1> USE SpiritTable DEF Freely, Carefree, Opens, OthersAsk, Pays, OthersPass, Followers
<1>1. SpiritTalks => Kept
  <2>1. Offer("spirit", {0}, 1, 44) => Kept
    BY FirstOfferKeeps
  <2>2. Say("spirit", 1..3) => Kept
    BY SayKeeps
  <2> QED BY <2>1, <2>2 DEF SpiritTalks
<1>2. SpiritHears => Kept
  BY MoveKeeps DEF SpiritHears
<1>3. SpiritTakes => Kept
  BY FinishKeeps DEF SpiritTakes
<1> QED BY <1>1, <1>2, <1>3

LEMMA GuardbranTable ==
  /\ Last["guardbran"] = 8
  /\ \A s, q :
       /\ Asks("guardbran", s, q) <=> (q = 64 => s \in 2..6)
       /\ NotYet("guardbran", s, q) <=> q = 64 /\ s \in 0..6
       /\ ~Behind("guardbran", s, q)
       /\ ~Due("guardbran", s, q)
  /\ \A n, s, q : n # "guardbran" /\ q = 64 =>
       Asks(n, s, q) /\ ~NotYet(n, s, q) /\ ~Behind(n, s, q) /\ ~Due(n, s, q)
BY LastValues DEF Asks, NotYet, Behind, Due

LEMMA GuardbranSteps ==
  ASSUME QuestsInv PROVE (GuardTalks \/ GuardHears) => Kept
<1> USE GuardbranTable DEF Freely, Carefree, Opens, OthersAsk, Pays, OthersPass, Followers
<1>1. GuardTalks => Kept
  <2>1. Move("guardbran", {1}, 3) => Kept
    BY MoveKeeps
  <2>2. Move("guardbran", {2}, 3) => Kept
    BY MoveKeeps
  <2>3. Offer("guardbran", {5}, 6, 64) => Kept
    BY FirstOfferKeeps
  <2>4. Finish("guardbran", {6}, 8, 64) => Kept
    BY FinishKeeps
  <2>5. Say("guardbran", {0, 3, 4, 7}) => Kept
    BY SayKeeps
  <2> QED BY <2>1, <2>2, <2>3, <2>4, <2>5 DEF GuardTalks
<1>2. GuardHears => Kept
  BY MoveKeeps DEF GuardHears
<1> QED BY <1>1, <1>2

LEMMA BroklinTable ==
  /\ Last["broklin"] = 18
  /\ \A s, q :
       /\ Asks("broklin", s, q) <=> /\ q = 45 => s \in 0..4
                                    /\ q = 46 => s \in 5..10
       /\ NotYet("broklin", s, q) <=> q = 45 /\ s \in 0..4
       /\ ~Behind("broklin", s, q)
       /\ Due("broklin", s, q) <=> q = 46 /\ s \in 0..10
  /\ \A n, s, q : n # "broklin" /\ q \in {45, 46} =>
       Asks(n, s, q) /\ ~NotYet(n, s, q) /\ ~Behind(n, s, q) /\ ~Due(n, s, q)
BY LastValues DEF Asks, NotYet, Behind, Due

LEMMA BroklinSteps ==
  ASSUME QuestsInv
  PROVE  (BroklinTalks \/ BroklinHears \/ BroklinTakes \/ RobberbossDead) => Kept
<1> USE BroklinTable DEF Freely, Carefree, Opens, OthersAsk, Pays, OthersPass, Followers
<1>1. BroklinTalks => Kept
  <2>1. Offer("broklin", {0}, 1, 45) => Kept
    BY FirstOfferKeeps
  <2>2. flags[46] # "done" /\ Offer("broklin", {5}, 6, 46) => Kept
    BY OfferKeeps
  <2>3. flags[46] = "done" /\ Move("broklin", {5}, 11) => Kept
    <3>1. Skips("broklin", {5}, 11, 46)
      BY DEF Skips
    <3> QED BY <3>1, SkipKeeps
  <2>4. Say("broklin", 1..3 \cup 6..9 \cup 11..14 \cup 16..17) => Kept
    BY SayKeeps
  <2> QED BY <2>1, <2>2, <2>3, <2>4 DEF BroklinTalks, OfferNew
<1>2. BroklinHears => Kept
  BY MoveKeeps DEF BroklinHears
<1>3. BroklinTakes => Kept
  BY FinishKeeps DEF BroklinTakes
<1>4. RobberbossDead => Kept
  BY FinishKeeps DEF RobberbossDead
<1> QED BY <1>1, <1>2, <1>3, <1>4

LEMMA AristocratTable ==
  /\ Last["aristocrat"] = 8
  /\ \A s, q :
       /\ Asks("aristocrat", s, q) <=> (q = 38 => s \in 0..7)
       /\ NotYet("aristocrat", s, q) <=> q = 38 /\ s \in 0..7
       /\ ~Behind("aristocrat", s, q)
       /\ ~Due("aristocrat", s, q)
  /\ \A n, s, q : n # "aristocrat" /\ q = 38 =>
       Asks(n, s, q) /\ ~NotYet(n, s, q) /\ ~Behind(n, s, q) /\ ~Due(n, s, q)
BY LastValues DEF Asks, NotYet, Behind, Due

LEMMA AristocratSteps ==
  ASSUME QuestsInv PROVE (AristocratTalks \/ AristocratHears \/ AristocratTakes) => Kept
<1> USE AristocratTable DEF Freely, Carefree, Opens, OthersAsk, Pays, OthersPass, Followers
<1>1. AristocratTalks => Kept
  <2>1. Offer("aristocrat", {0}, 1, 38) => Kept
    BY FirstOfferKeeps
  <2>2. Say("aristocrat", 1..6) => Kept
    BY SayKeeps
  <2> QED BY <2>1, <2>2 DEF AristocratTalks
<1>2. AristocratHears => Kept
  BY MoveKeeps DEF AristocratHears
<1>3. AristocratTakes => Kept
  BY FinishKeeps DEF AristocratTakes
<1> QED BY <1>1, <1>2, <1>3

LEMMA YoatinTable ==
  /\ Last["yoatin"] = 9
  /\ \A s, q :
       /\ Asks("yoatin", s, q) <=> (q = 39 => s \in 0..8)
       /\ NotYet("yoatin", s, q) <=> q = 39 /\ s \in 0..8
       /\ ~Behind("yoatin", s, q)
       /\ ~Due("yoatin", s, q)
  /\ \A n, s, q : n # "yoatin" /\ q = 39 =>
       Asks(n, s, q) /\ ~NotYet(n, s, q) /\ ~Behind(n, s, q) /\ ~Due(n, s, q)
BY LastValues DEF Asks, NotYet, Behind, Due

LEMMA YoatinSteps ==
  ASSUME QuestsInv PROVE (YoatinTalks \/ YoatinHears \/ YoatinTakes) => Kept
<1> USE YoatinTable DEF Freely, Carefree, Opens, OthersAsk, Pays, OthersPass, Followers
<1>1. YoatinTalks => Kept
  <2>1. Offer("yoatin", {0}, 1, 39) => Kept
    BY FirstOfferKeeps
  <2>2. Say("yoatin", 1..7) => Kept
    BY SayKeeps
  <2> QED BY <2>1, <2>2 DEF YoatinTalks
<1>2. YoatinHears => Kept
  BY MoveKeeps DEF YoatinHears
<1>3. YoatinTakes => Kept
  BY FinishKeeps DEF YoatinTakes
<1> QED BY <1>1, <1>2, <1>3

-----------------------------------------------------------------------------
(* The drivers of Exkordon.                                              *)

LEMMA ThiefTable ==
  /\ Last["thief"] = 51
  /\ Last["thief_killed"] = 1
  /\ \A n \in {"thief", "thief_killed"} : \A s, q :
       /\ Asks(n, s, q)
       /\ ~NotYet(n, s, q)
       /\ ~Behind(n, s, q)
       /\ ~Due(n, s, q)
BY LastValues DEF Asks, NotYet, Behind, Due

\* What the guild's quests do in the log is of no consequence.
LEMMA GuildLogs ==
  ASSUME QuestsInv, NEW q \in Xrepeat, Open(q) \/ Done(q) PROVE Logs({}, {})
<1>1. CASE Open(q)
  <2>1. Logs({q}, {})
    BY <1>1, OpenLogs
  <2> QED BY <2>1 DEF Logs
<1>2. CASE Done(q)
  <2>1. Logs({}, {q})
    BY <1>2, DoneLogs
  <2> QED BY <2>1 DEF Logs
<1> QED BY <1>1, <1>2

LEMMA ClosingLogs ==
  ASSUME QuestsInv, NEW q \in Xrepeat, NEW Q, Q \subseteq Xrepeat,
         flags' = [Closed(flags, Q) EXCEPT ![q] = "open"], done' = done
  PROVE  Logs({}, {})
<1>1. /\ DOMAIN flags' = Quests
      /\ \A p \in Quests : flags'[p] = IF p = q THEN "open" ELSE Closed(flags, Q)[p]
  BY DEF Closed, Quests
<1>2. \A p \in Quests : Closed(flags, Q)[p] = IF p \in Q /\ flags[p] = "open" THEN "done" ELSE flags[p]
  BY DEF Closed, Quests
<1>3. \A p \in Quests : flags'[p] \in {"none", "open", "done"}
  BY <1>1, <1>2 DEF QuestsInv, TypeOK
<1>4. \A p \in Quests \ Xrepeat : flags'[p] = flags[p]
  BY <1>1, <1>2
<1> QED BY <1>1, <1>3, <1>4 DEF Logs, QuestsInv, TypeOK, LogOfCast

\* Nor is what the numbers of its drivers say.
LEMMA GuildKeeps ==
  ASSUME QuestsInv, Logs({}, {}), DOMAIN st' = Cast,
         \A n \in Cast \cap {"thief", "thief_killed"} : st'[n] \in 0..Last[n],
         \A n \in Cast \ {"thief", "thief_killed"} : st'[n] = st[n]
  PROVE  Kept
<1>1. Easy({})
  <2> SUFFICES ASSUME NEW n \in Cast
               PROVE  /\ st'[n] \in 0..Last[n]
                      /\ \A q \in Quests : Carefree(n, st[n], st'[n], q, flags[q])
    BY DEF Easy
  <2>1. CASE n \in {"thief", "thief_killed"}
    BY <2>1, ThiefTable DEF Carefree
  <2>2. CASE n \notin {"thief", "thief_killed"}
    BY <2>2, StayFree DEF QuestsInv, TypeOK
  <2> QED BY <2>1, <2>2
<1> QED BY <1>1, StepKeeps

LEMMA ThiefGoes ==
  ASSUME QuestsInv, "thief" \in Cast, NEW t \in 0..51, Logs({}, {}),
         \/ Goto("thief", t)
         \/ \E u \in 0..1 : st' = [st EXCEPT !["thief"] = t, !["thief_killed"] = u]
  PROVE  Kept
<1>1. CASE Goto("thief", t)
  <2>1. /\ DOMAIN st' = Cast /\ st'["thief"] = t
        /\ \A n \in Cast \ {"thief"} : st'[n] = st[n]
    BY <1>1, GoesTo
  <2> QED BY <2>1, ThiefTable, GuildKeeps DEF QuestsInv, TypeOK
<1>2. ASSUME NEW u \in 0..1, st' = [st EXCEPT !["thief"] = t, !["thief_killed"] = u] PROVE Kept
  <2>1. /\ DOMAIN st' = Cast /\ st'["thief"] = t
        /\ "thief_killed" \in Cast => st'["thief_killed"] = u
        /\ \A n \in Cast \ {"thief", "thief_killed"} : st'[n] = st[n]
    BY <1>2, TwoGo
  <2> QED BY <2>1, ThiefTable, GuildKeeps
<1> QED BY <1>1, <1>2

LEMMA ThiefMoves ==
  ASSUME QuestsInv
  PROVE  /\ \A S : \A t \in 0..51 : Move("thief", S, t) => Kept
         /\ \A S : (\A s \in S : s \in 0..50) => (Say("thief", S) => Kept)
         /\ Move("thief_killed", {0, 1}, 1) => Kept
<1>1. ASSUME NEW S, NEW t \in 0..51, Move("thief", S, t) PROVE Kept
  BY <1>1, ThiefGoes, UnloggedLogs DEF Move, At
<1>2. ASSUME NEW S, \A s \in S : s \in 0..50, Say("thief", S) PROVE Kept
  <2>1. st["thief"] + 1 \in 0..51
    BY <1>2 DEF Say, At
  <2> QED BY <1>2, <2>1, ThiefGoes, UnloggedLogs DEF Say, At
<1>3. ASSUME Move("thief_killed", {0, 1}, 1) PROVE Kept
  BY <1>3, MoveKeeps, ThiefTable DEF Freely, Carefree
<1> QED BY <1>1, <1>2, <1>3

LEMMA ThiefmasterTalksKeeps == ASSUME QuestsInv, ThiefmasterTalks PROVE Kept
<1> USE DEF Xrepeat
<1>1. ASSUME NEW S, NEW t \in {5, 11, 15, 18, 20}, Move("thief", S, t) PROVE Kept
  BY <1>1, ThiefMoves
<1>2. ASSUME NEW S, NEW t \in {6, 12, 16}, NEW q \in 25..28, NEW Q, Q \subseteq 25..28,
             OpenClosing(S, t, q, Q)
      PROVE  Kept
  <2>1. Logs({}, {})
    BY <1>2, ClosingLogs DEF OpenClosing
  <2>2. "thief" \in Cast /\ Goto("thief", t) /\ t \in 0..51
    BY <1>2 DEF OpenClosing, At
  <2> QED BY <2>1, <2>2, ThiefGoes
<1>3. ASSUME NEW S, NEW t \in {11, 15}, NEW q \in {25, 26}, At("thief", S),
             st' = [st EXCEPT !["thief"] = t, !["thief_killed"] = 0], Done(q)
      PROVE  Kept
  <2>1. Logs({}, {})
    BY <1>3, GuildLogs
  <2>2. "thief" \in Cast /\ t \in 0..51 /\ 0 \in 0..1
    BY <1>3 DEF At
  <2> QED BY <1>3, <2>1, <2>2, ThiefGoes
<1>4. Offer("thief", {18}, 19, 28) => Kept
  <2>1. Open(28) => Logs({}, {})
    BY GuildLogs
  <2> QED BY <2>1, ThiefGoes DEF Offer, At
<1>5. Say("thief", {6, 7, 8, 12, 16, 20}) => Kept
  BY ThiefMoves
<1>6. /\ OpenClosing({5}, 6, 25, 26..28) => Kept
      /\ OpenClosing({11}, 12, 26, 27..28) => Kept
      /\ OpenClosing({15}, 16, 27, {28}) => Kept
  <2>1. OpenClosing({5}, 6, 25, 26..28) => Kept
    BY <1>2, 26..28 \subseteq 25..28
  <2>2. OpenClosing({11}, 12, 26, 27..28) => Kept
    BY <1>2, 27..28 \subseteq 25..28
  <2>3. OpenClosing({15}, 16, 27, {28}) => Kept
    BY <1>2, {28} \subseteq 25..28
  <2> QED BY ONLY <2>1, <2>2, <2>3
<1>7. /\ At("thief", {10}) /\ st' = [st EXCEPT !["thief"] = 11, !["thief_killed"] = 0] /\ Done(25) => Kept
      /\ At("thief", {14}) /\ st' = [st EXCEPT !["thief"] = 15, !["thief_killed"] = 0] /\ Done(26) => Kept
  BY <1>3
<1>8. \A S : /\ Move("thief", S, 5) => Kept
             /\ Move("thief", S, 11) => Kept
             /\ Move("thief", S, 15) => Kept
             /\ Move("thief", S, 18) => Kept
             /\ Move("thief", S, 20) => Kept
  BY <1>1
<1> QED BY ONLY ThiefmasterTalks, <1>4, <1>5, <1>6, <1>7, <1>8 DEF ThiefmasterTalks

LEMMA ThiefSteps ==
  ASSUME QuestsInv
  PROVE  (\/ ThiefguardTalks \/ ThiefguardHears \/ FeePaid \/ ThiefmasterTalks \/ ThiefmasterHears
          \/ MissionDone \/ ThiefmasterTakes \/ BarrelBurns \/ RobberDead \/ ThiefmasterDead) => Kept
<1>1. ThiefguardTalks => Kept
  BY ThiefMoves DEF ThiefguardTalks
<1>2. ThiefguardHears => Kept
  BY ThiefMoves DEF ThiefguardHears
<1>3. FeePaid => Kept
  BY ThiefMoves DEF FeePaid
<1>4. ThiefmasterTalks => Kept
  BY ThiefmasterTalksKeeps
<1>5. ThiefmasterHears => Kept
  BY ThiefMoves DEF ThiefmasterHears
<1>6. MissionDone => Kept
  BY ThiefMoves DEF MissionDone
<1>7. ThiefmasterTakes => Kept
  <2>1. Done(27) \/ Done(28) => Logs({}, {})
    BY GuildLogs DEF Xrepeat
  <2> QED BY <2>1, ThiefGoes DEF ThiefmasterTakes, Finish, At
<1>8. BarrelBurns => Kept
  BY ThiefGoes, UnloggedLogs DEF BarrelBurns, At
<1>9. RobberDead => Kept
  BY ThiefMoves DEF RobberDead
<1>10. ThiefmasterDead => Kept
  BY ThiefMoves DEF ThiefmasterDead
<1> QED BY <1>1, <1>2, <1>3, <1>4, <1>5, <1>6, <1>7, <1>8, <1>9, <1>10

LEMMA NotesTable ==
  /\ Last["notes"] = 3
  /\ \A s, q :
       /\ Asks("notes", s, q)
       /\ ~NotYet("notes", s, q)
       /\ ~Behind("notes", s, q)
       /\ ~Due("notes", s, q)
BY LastValues DEF Asks, NotYet, Behind, Due

LEMMA SanwynTable ==
  /\ Last["sanwyn"] = 8
  /\ \A s, q :
       /\ Asks("sanwyn", s, q) <=> (q = 29 => s \in 0..7)
       /\ NotYet("sanwyn", s, q) <=> q = 29 /\ s \in 0..6
       /\ ~Behind("sanwyn", s, q)
       /\ ~Due("sanwyn", s, q)
  /\ \A n, s, q : n # "sanwyn" /\ q = 29 =>
       Asks(n, s, q) /\ ~NotYet(n, s, q) /\ ~Behind(n, s, q) /\ ~Due(n, s, q)
BY LastValues DEF Asks, NotYet, Behind, Due

LEMMA SanwynSteps ==
  ASSUME QuestsInv PROVE (SanwynTalks \/ SanwynHears \/ SanwynTakes) => Kept
<1> USE SanwynTable DEF Freely, Carefree, Opens, OthersAsk, Pays, OthersPass, Followers
<1>1. SanwynTalks => Kept
  <2>1. Offer("sanwyn", {0}, 1, 29) => Kept
    BY FirstOfferKeeps
  <2>2. Finish("sanwyn", {7}, 8, 29) => Kept
    BY FinishKeeps
  <2>3. Say("sanwyn", 1..5) => Kept
    BY SayKeeps
  <2> QED BY <2>1, <2>2, <2>3 DEF SanwynTalks
<1>2. SanwynHears => Kept
  BY MoveKeeps DEF SanwynHears
<1>3. SanwynTakes => Kept
  <2>1. Say("notes", 0..1) => Kept
    BY SayKeeps, NotesTable
  <2>2. At("sanwyn", 0..6) /\ st' = [st EXCEPT !["sanwyn"] = 7, !["notes"] = 3] /\ Unlogged => Kept
    <3> SUFFICES ASSUME At("sanwyn", 0..6), st' = [st EXCEPT !["sanwyn"] = 7, !["notes"] = 3], Unlogged
                 PROVE  Kept
      OBVIOUS
    <3>1. "sanwyn" \in Cast /\ 7 \in 0..Last["sanwyn"] /\ 3 \in 0..Last["notes"]
      BY NotesTable DEF At
    <3>2. \A q \in Quests \ {} :
          /\ Carefree("sanwyn", st["sanwyn"], 7, q, flags[q])
          /\ Carefree("notes", st["notes"], 3, q, flags[q])
      BY NotesTable DEF At
    <3> HIDE DEF Carefree
    <3>3. Easy({})
      BY <3>1, <3>2, TwoGoEasy
    <3> QED BY <3>3, UnloggedLogs, StepKeeps
  <2> QED BY <2>1, <2>2 DEF SanwynTakes
<1> QED BY <1>1, <1>2, <1>3

LEMMA SkellyTable ==
  /\ Last["skelly"] = 3
  /\ \A s, q :
       /\ Asks("skelly", s, q) <=> (q = 30 => s \in 0..2)
       /\ NotYet("skelly", s, q) <=> q = 30 /\ s \in 0..2
       /\ ~Behind("skelly", s, q)
       /\ ~Due("skelly", s, q)
  /\ \A n, s, q : n # "skelly" /\ q = 30 =>
       Asks(n, s, q) /\ ~NotYet(n, s, q) /\ ~Behind(n, s, q) /\ ~Due(n, s, q)
BY LastValues DEF Asks, NotYet, Behind, Due

LEMMA SkellySteps ==
  ASSUME QuestsInv PROVE (SkellyTalks \/ SkellyHears \/ SkellyTakes) => Kept
<1> USE SkellyTable DEF Freely, Carefree, Opens, OthersAsk, Pays, OthersPass, Followers
<1>1. SkellyTalks => Kept
  <2>1. Offer("skelly", {0}, 1, 30) => Kept
    BY FirstOfferKeeps
  <2>2. Say("skelly", {1}) => Kept
    BY SayKeeps
  <2> QED BY <2>1, <2>2 DEF SkellyTalks
<1>2. SkellyHears => Kept
  BY MoveKeeps DEF SkellyHears
<1>3. SkellyTakes => Kept
  BY FinishKeeps DEF SkellyTakes
<1> QED BY <1>1, <1>2, <1>3

LEMMA AlchemistTable ==
  /\ Last["alchemist"] = 5
  /\ \A s, q :
       /\ Asks("alchemist", s, q) <=> (q = 31 => s \in 0..4)
       /\ NotYet("alchemist", s, q) <=> q = 31 /\ s \in 0..4
       /\ ~Behind("alchemist", s, q)
       /\ ~Due("alchemist", s, q)
  /\ \A n, s, q : n # "alchemist" /\ q = 31 =>
       Asks(n, s, q) /\ ~NotYet(n, s, q) /\ ~Behind(n, s, q) /\ ~Due(n, s, q)
BY LastValues DEF Asks, NotYet, Behind, Due

LEMMA AlchemistSteps ==
  ASSUME QuestsInv PROVE (AlchemistTalks \/ AlchemistHears \/ AlchemistTakes) => Kept
<1> USE AlchemistTable DEF Freely, Carefree, Opens, OthersAsk, Pays, OthersPass, Followers
<1>1. AlchemistTalks => Kept
  <2>1. Offer("alchemist", {0}, 1, 31) => Kept
    BY FirstOfferKeeps
  <2>2. Say("alchemist", 1..3) => Kept
    BY SayKeeps
  <2> QED BY <2>1, <2>2 DEF AlchemistTalks
<1>2. AlchemistHears => Kept
  BY MoveKeeps DEF AlchemistHears
<1>3. AlchemistTakes => Kept
  BY FinishKeeps DEF AlchemistTakes
<1> QED BY <1>1, <1>2, <1>3

-----------------------------------------------------------------------------
(* The drivers of the nomads and Caligar.                                *)

LEMMA TribeTable ==
  /\ Last["tribe"] = 1
  /\ \A s, q :
       /\ Asks("tribe", s, q)
       /\ ~NotYet("tribe", s, q)
       /\ ~Behind("tribe", s, q)
       /\ ~Due("tribe", s, q)
BY LastValues DEF Asks, NotYet, Behind, Due

LEMMA KalanurTable ==
  /\ Last["kalanur"] = 10
  /\ \A s, q :
       /\ Asks("kalanur", s, q) <=> (q = 32 => s \in 0..8)
       /\ NotYet("kalanur", s, q) <=> q = 32 /\ s \in 0..8
       /\ ~Behind("kalanur", s, q)
       /\ ~Due("kalanur", s, q)
  /\ \A n, s, q : n # "kalanur" /\ q = 32 =>
       Asks(n, s, q) /\ ~NotYet(n, s, q) /\ ~Behind(n, s, q) /\ ~Due(n, s, q)
BY LastValues DEF Asks, NotYet, Behind, Due

LEMMA KalanurSteps ==
  ASSUME QuestsInv PROVE (KalanurTalks \/ KalanurHears \/ KalanurTakes) => Kept
<1> USE KalanurTable DEF Freely, Carefree, Opens, OthersAsk
<1>1. KalanurTalks => Kept
  <2>1. Offer("kalanur", {0}, 1, 32) => Kept
    BY FirstOfferKeeps
  <2>2. Say("kalanur", 1..7 \cup {9}) => Kept
    BY SayKeeps
  <2> QED BY <2>1, <2>2 DEF KalanurTalks
<1>2. KalanurHears => Kept
  BY MoveKeeps DEF KalanurHears
<1>3. KalanurTakes => Kept
  <2> SUFFICES ASSUME At("kalanur", 0..8), st' = [st EXCEPT !["kalanur"] = 9, !["tribe"] = 1], Done(32)
               PROVE  Kept
    BY DEF KalanurTakes
  <2>1. "kalanur" \in Cast /\ 9 \in 0..Last["kalanur"] /\ 1 \in 0..Last["tribe"]
    BY TribeTable DEF At
  <2>2. \A q \in Quests \ {32} :
          /\ Carefree("kalanur", st["kalanur"], 9, q, flags[q])
          /\ Carefree("tribe", st["tribe"], 1, q, flags[q])
    BY TribeTable DEF At
  <2> HIDE DEF Carefree
  <2>3. Easy({32}) /\ Logs({}, {32})
    BY <2>1, <2>2, TwoGoEasy, DoneLogs
  <2>4. ASSUME 32 \in Quests PROVE MayPay(32)
    <3>1. flags[32] # "done"
      BY <2>4 DEF At, QuestsInv, LogRight
    <3>2. /\ st'["kalanur"] = 9
          /\ \A m \in Cast \ {"kalanur", "tribe"} : st'[m] = st[m]
      BY ONLY <2>1, st' = [st EXCEPT !["kalanur"] = 9, !["tribe"] = 1], TwoGo
    <3>3. \A m \in Cast : ~NotYet(m, st'[m], 32) /\ ~Due(m, st'[m], 32)
      BY <3>2
    <3> QED BY ONLY <3>1, <3>3 DEF MayPay, Followers
  <2> QED BY <2>3, <2>4, StepKeeps
<1> QED BY <1>1, <1>2, <1>3

LEMMA MembersTable ==
  \A n \in {"nomad2", "nomad3", "nomad6"} :
    /\ Last[n] = 2
    /\ \A s, q :
         /\ Asks(n, s, q)
         /\ ~NotYet(n, s, q)
         /\ ~Behind(n, s, q)
         /\ ~Due(n, s, q)
BY LastValues DEF Asks, NotYet, Behind, Due

LEMMA MembersSteps ==
  ASSUME QuestsInv PROVE (MembersTalk \/ MembersHear) => Kept
<1> USE MembersTable DEF Freely, Carefree
<1>1. ASSUME NEW n \in {"nomad2", "nomad3", "nomad6"}
      PROVE  (Say(n, {0}) => Kept) /\ (Say(n, {1}) => Kept) /\ (Move(n, 0..2, 0) => Kept)
  <2>1. Say(n, {0}) => Kept
    BY SayKeeps
  <2>2. Say(n, {1}) => Kept
    BY SayKeeps
  <2>3. Move(n, 0..2, 0) => Kept
    BY MoveKeeps
  <2> QED BY <2>1, <2>2, <2>3
<1> QED BY <1>1 DEF MembersTalk, MembersHear

LEMMA LaasTable ==
  /\ Last["laas"] = 5
  /\ \A s, q :
       /\ Asks("laas", s, q) <=> (q = 33 => s \in 0..3)
       /\ NotYet("laas", s, q) <=> q = 33 /\ s \in 0..3
       /\ ~Behind("laas", s, q)
       /\ ~Due("laas", s, q)
  /\ \A n, s, q : n # "laas" /\ q = 33 =>
       Asks(n, s, q) /\ ~NotYet(n, s, q) /\ ~Behind(n, s, q) /\ ~Due(n, s, q)
BY LastValues DEF Asks, NotYet, Behind, Due

LEMMA LaasSteps ==
  ASSUME QuestsInv PROVE (LaasTalks \/ LaasHears \/ LaasTakes) => Kept
<1> USE LaasTable DEF Freely, Carefree, Opens, OthersAsk, Pays, OthersPass, Followers
<1>1. LaasTalks => Kept
  <2>1. Offer("laas", {0}, 1, 33) => Kept
    BY FirstOfferKeeps
  <2>2. Say("laas", {1, 2, 4}) => Kept
    BY SayKeeps
  <2> QED BY <2>1, <2>2 DEF LaasTalks
<1>2. LaasHears => Kept
  BY MoveKeeps DEF LaasHears
<1>3. LaasTakes => Kept
  BY FinishKeeps DEF LaasTakes
<1> QED BY <1>1, <1>2, <1>3

LEMMA GaranTable ==
  /\ Last["garan"] = 5
  /\ \A s, q :
       /\ Asks("garan", s, q) <=> (q = 34 => s \in 0..3)
       /\ NotYet("garan", s, q) <=> q = 34 /\ s \in 0..3
       /\ ~Behind("garan", s, q)
       /\ ~Due("garan", s, q)
  /\ \A n, s, q : n # "garan" /\ q = 34 =>
       Asks(n, s, q) /\ ~NotYet(n, s, q) /\ ~Behind(n, s, q) /\ ~Due(n, s, q)
BY LastValues DEF Asks, NotYet, Behind, Due

LEMMA GaranSteps ==
  ASSUME QuestsInv PROVE (GaranTalks \/ GaranHears \/ GaranTakes) => Kept
<1> USE GaranTable DEF Freely, Carefree, Opens, OthersAsk, Pays, OthersPass, Followers
<1>1. GaranTalks => Kept
  <2>1. Offer("garan", {0}, 1, 34) => Kept
    BY FirstOfferKeeps
  <2>2. Say("garan", {1, 2, 4}) => Kept
    BY SayKeeps
  <2> QED BY <2>1, <2>2 DEF GaranTalks
<1>2. GaranHears => Kept
  BY MoveKeeps DEF GaranHears
<1>3. GaranTakes => Kept
  BY FinishKeeps DEF GaranTakes
<1> QED BY <1>1, <1>2, <1>3

LEMMA GloriTable ==
  /\ Last["glori"] = 18
  /\ \A s, q :
       /\ Asks("glori", s, q) <=> /\ q = 54 => s \in {0}
                                  /\ q = 55 => s \in 1..7
                                  /\ q = 56 => s \in 8..10
                                  /\ q = 57 => s \in 11..12
                                  /\ q = 58 => s \in 13..16
       /\ NotYet("glori", s, q) <=> \/ q = 54 /\ s \in {0}
                                    \/ q = 55 /\ s \in 0..7
                                    \/ q = 56 /\ s \in 0..10
                                    \/ q = 57 /\ s \in 0..12
                                    \/ q = 58 /\ s \in 0..16
       /\ Behind("glori", s, q) <=> q = 54 /\ s \in 1..18
       /\ ~Due("glori", s, q)
  /\ \A n, s, q : n # "glori" /\ q \in 54..58 =>
       Asks(n, s, q) /\ ~NotYet(n, s, q) /\ ~Behind(n, s, q) /\ ~Due(n, s, q)
BY LastValues DEF Asks, NotYet, Behind, Due

LEMMA GloriSteps ==
  ASSUME QuestsInv PROVE (GloriTalks \/ GloriHears) => Kept
<1> USE GloriTable DEF Freely, Carefree, Opens, OthersAsk, Pays, OthersPass, Followers
<1>1. GloriTalks => Kept
  <2>1. FinishOpening("glori", 0, 1, 54, 55) => Kept
    <3>1. Freely("glori", {0}, 1, {54, 55})
      OBVIOUS
    <3>2. Opens("glori", {0}, 1, 55) /\ NotYet("glori", 0, 55) /\ OthersAsk("glori", 55)
      OBVIOUS
    <3>3. Pays("glori", {0}, 1, 54) /\ OthersPass("glori", 54) /\ 54 \notin Followers \cup {29}
      OBVIOUS
    <3>4. 54 \in 1..78 /\ 55 \in 1..78 /\ 54 # 55
      OBVIOUS
    <3> HIDE DEF Freely, Opens, OthersAsk, Pays, OthersPass, Followers
    <3> QED BY ONLY QuestsInv, <3>1, <3>2, <3>3, <3>4, FinishOpeningKeeps, Zenon
  <2>2. FinishOpening("glori", 7, 8, 55, 56) => Kept
    <3>1. Freely("glori", {7}, 8, {55, 56})
      OBVIOUS
    <3>2. Opens("glori", {7}, 8, 56) /\ NotYet("glori", 7, 56) /\ OthersAsk("glori", 56)
      OBVIOUS
    <3>3. Pays("glori", {7}, 8, 55) /\ OthersPass("glori", 55) /\ 55 \notin Followers \cup {29}
      OBVIOUS
    <3>4. 55 \in 1..78 /\ 56 \in 1..78 /\ 55 # 56
      OBVIOUS
    <3> HIDE DEF Freely, Opens, OthersAsk, Pays, OthersPass, Followers
    <3> QED BY ONLY QuestsInv, <3>1, <3>2, <3>3, <3>4, FinishOpeningKeeps, Zenon
  <2>3. FinishOpening("glori", 10, 11, 56, 57) => Kept
    <3>1. Freely("glori", {10}, 11, {56, 57})
      OBVIOUS
    <3>2. Opens("glori", {10}, 11, 57) /\ NotYet("glori", 10, 57) /\ OthersAsk("glori", 57)
      OBVIOUS
    <3>3. Pays("glori", {10}, 11, 56) /\ OthersPass("glori", 56) /\ 56 \notin Followers \cup {29}
      OBVIOUS
    <3>4. 56 \in 1..78 /\ 57 \in 1..78 /\ 56 # 57
      OBVIOUS
    <3> HIDE DEF Freely, Opens, OthersAsk, Pays, OthersPass, Followers
    <3> QED BY ONLY QuestsInv, <3>1, <3>2, <3>3, <3>4, FinishOpeningKeeps, Zenon
  <2>4. FinishOpening("glori", 12, 13, 57, 58) => Kept
    <3>1. Freely("glori", {12}, 13, {57, 58})
      OBVIOUS
    <3>2. Opens("glori", {12}, 13, 58) /\ NotYet("glori", 12, 58) /\ OthersAsk("glori", 58)
      OBVIOUS
    <3>3. Pays("glori", {12}, 13, 57) /\ OthersPass("glori", 57) /\ 57 \notin Followers \cup {29}
      OBVIOUS
    <3>4. 57 \in 1..78 /\ 58 \in 1..78 /\ 57 # 58
      OBVIOUS
    <3> HIDE DEF Freely, Opens, OthersAsk, Pays, OthersPass, Followers
    <3> QED BY ONLY QuestsInv, <3>1, <3>2, <3>3, <3>4, FinishOpeningKeeps, Zenon
  <2>5. Finish("glori", {16}, 17, 58) => Kept
    BY FinishKeeps
  <2>6. Say("glori", 1..6 \cup {8, 9, 11, 13, 14, 15, 17}) => Kept
    BY SayKeeps
  <2> QED BY <2>1, <2>2, <2>3, <2>4, <2>5, <2>6 DEF GloriTalks
<1>2. GloriHears => Kept
  <2>1. Move("glori", 1..5, 1) \/ Move("glori", 8..10, 8) => Kept
    BY MoveKeeps
  <2>2. Move("glori", 11..12, 11) \/ Move("glori", 14..16, 14) => Kept
    BY MoveKeeps
  <2>3. Move("glori", 17..18, 17) => Kept
    BY MoveKeeps
  <2> QED BY ONLY <2>1, <2>2, <2>3 DEF GloriHears
<1> QED BY <1>1, <1>2

LEMMA ArquinTable ==
  /\ Last["arquin"] = 6
  /\ \A s, q :
       /\ Asks("arquin", s, q)
       /\ ~NotYet("arquin", s, q)
       /\ ~Behind("arquin", s, q)
       /\ ~Due("arquin", s, q)
BY LastValues DEF Asks, NotYet, Behind, Due

LEMMA ArquinSteps ==
  ASSUME QuestsInv PROVE (ArquinTalks \/ ArquinHears) => Kept
<1> USE ArquinTable DEF Freely, Carefree
<1>1. ArquinTalks => Kept
  <2>1. Move("arquin", {0}, 2) => Kept
    BY MoveKeeps
  <2>2. Move("arquin", {3}, 5) => Kept
    BY MoveKeeps
  <2>3. Say("arquin", {1, 2, 4, 5}) => Kept
    BY SayKeeps
  <2> QED BY <2>1, <2>2, <2>3 DEF ArquinTalks
<1>2. ArquinHears => Kept
  BY MoveKeeps DEF ArquinHears
<1> QED BY <1>1, <1>2

LEMMA SmithTable ==
  /\ Last["smith"] = 8
  /\ \A s, q :
       /\ Asks("smith", s, q)
       /\ ~NotYet("smith", s, q)
       /\ ~Behind("smith", s, q)
       /\ ~Due("smith", s, q)
BY LastValues DEF Asks, NotYet, Behind, Due

LEMMA SmithSteps ==
  ASSUME QuestsInv PROVE (SmithTalks \/ SmithHears) => Kept
<1> USE SmithTable DEF Freely, Carefree
<1>1. SmithTalks => Kept
  <2>1. Move("smith", {0}, 2) => Kept
    BY MoveKeeps
  <2>2. Move("smith", {2}, 4) => Kept
    BY MoveKeeps
  <2>3. Say("smith", {1} \cup 3..7) => Kept
    BY SayKeeps
  <2> QED BY <2>1, <2>2, <2>3 DEF SmithTalks
<1>2. SmithHears => Kept
  BY MoveKeeps DEF SmithHears
<1> QED BY <1>1, <1>2

LEMMA HomdenTable ==
  /\ Last["homden"] = 11
  /\ \A s, q :
       /\ Asks("homden", s, q) <=> (q = 59 => s \in 2..4)
       /\ NotYet("homden", s, q) <=> q = 59 /\ s \in 0..4
       /\ ~Behind("homden", s, q)
       /\ ~Due("homden", s, q)
  /\ \A n, s, q : n # "homden" /\ q = 59 =>
       Asks(n, s, q) /\ ~NotYet(n, s, q) /\ ~Behind(n, s, q) /\ ~Due(n, s, q)
BY LastValues DEF Asks, NotYet, Behind, Due

LEMMA HomdenSteps ==
  ASSUME QuestsInv PROVE (HomdenTalks \/ HomdenHears \/ HomdenTakes) => Kept
<1> USE HomdenTable DEF Freely, Carefree, Opens, OthersAsk, Pays, OthersPass, Followers
<1>1. HomdenTalks => Kept
  <2>1. Offer("homden", {0, 1}, 2, 59) => Kept
    BY FirstOfferKeeps
  <2>2. Say("homden", 2..3 \cup 5..10) => Kept
    BY SayKeeps
  <2> QED BY <2>1, <2>2 DEF HomdenTalks
<1>2. HomdenHears => Kept
  BY MoveKeeps DEF HomdenHears
<1>3. HomdenTakes => Kept
  BY FinishKeeps DEF HomdenTakes
<1> QED BY <1>1, <1>2, <1>3

-----------------------------------------------------------------------------
(* The drivers of Arkhata.                                               *)

LEMMA RammyTable ==
  /\ Last["rammy"] = 20
  /\ \A s, q :
       /\ Asks("rammy", s, q) <=> /\ q = 65 => s \in 7..10
                                  /\ q = 71 => s \in 14..18
       /\ NotYet("rammy", s, q) <=> \/ q = 65 /\ s \in 0..10
                                    \/ q = 71 /\ s \in 0..18
       /\ ~Behind("rammy", s, q)
       /\ ~Due("rammy", s, q)
  /\ \A n, s, q : n # "rammy" /\ q \in {65, 71} =>
       Asks(n, s, q) /\ ~NotYet(n, s, q) /\ ~Behind(n, s, q) /\ ~Due(n, s, q)
BY LastValues DEF Asks, NotYet, Behind, Due

LEMMA RammySteps ==
  ASSUME QuestsInv PROVE (RammyTalks \/ RammyHears \/ RammyTakes) => Kept
<1> USE RammyTable DEF Freely, Carefree, Opens, OthersAsk, Pays, OthersPass, Followers
<1>1. RammyTalks => Kept
  <2>1. Say("rammy", {0}) => Kept
    BY SayKeeps
  <2>2. Offer("rammy", {6}, 8, 65) => Kept
    BY FirstOfferKeeps
  <2>3. Offer("rammy", {7}, 8, 65) => Kept
    BY FirstOfferKeeps
  <2>4. Offer("rammy", {13}, 15, 71) => Kept
    BY FirstOfferKeeps
  <2>5. Finish("rammy", {17}, 19, 71) => Kept
    BY FinishKeeps
  <2>6. Finish("rammy", {18}, 19, 71) => Kept
    BY FinishKeeps
  <2>7. Say("rammy", 1..5 \cup {8, 9, 11, 12, 14, 15, 16, 19}) => Kept
    BY SayKeeps
  <2> QED BY <2>1, <2>2, <2>3, <2>4, <2>5, <2>6, <2>7 DEF RammyTalks
<1>2. RammyHears => Kept
  BY MoveKeeps DEF RammyHears
<1>3. RammyTakes => Kept
  BY FinishKeeps DEF RammyTakes
<1> QED BY <1>1, <1>2, <1>3

LEMMA LettersTable ==
  /\ Last["letters"] = 3
  /\ \A s, q :
       /\ Asks("letters", s, q)
       /\ ~NotYet("letters", s, q)
       /\ ~Behind("letters", s, q)
       /\ ~Due("letters", s, q)
BY LastValues DEF Asks, NotYet, Behind, Due

LEMMA LettersSteps ==
  ASSUME QuestsInv PROVE LetterTaken => Kept
<1> USE LettersTable DEF Freely, Carefree
<1>1. LetterTaken => Kept
  BY SayKeeps DEF LetterTaken
<1> QED BY <1>1

LEMMA JazTable ==
  /\ Last["jaz"] = 9
  /\ \A s, q :
       /\ Asks("jaz", s, q) <=> (q = 66 => s \in 0..5)
       /\ NotYet("jaz", s, q) <=> q = 66 /\ s \in 0..5
       /\ ~Behind("jaz", s, q)
       /\ ~Due("jaz", s, q)
  /\ \A n, s, q : n # "jaz" /\ q = 66 =>
       Asks(n, s, q) /\ ~NotYet(n, s, q) /\ ~Behind(n, s, q) /\ ~Due(n, s, q)
BY LastValues DEF Asks, NotYet, Behind, Due

LEMMA JazSteps ==
  ASSUME QuestsInv PROVE (JazTalks \/ JazHears \/ JazTakes) => Kept
<1> USE JazTable DEF Freely, Carefree, Opens, OthersAsk, Pays, OthersPass, Followers
<1>1. JazTalks => Kept
  <2>1. Offer("jaz", {0}, 2, 66) => Kept
    BY FirstOfferKeeps
  <2>2. Offer("jaz", {1}, 2, 66) => Kept
    BY FirstOfferKeeps
  <2>3. Say("jaz", {2, 3, 4, 6, 7, 8}) => Kept
    BY SayKeeps
  <2> QED BY <2>1, <2>2, <2>3 DEF JazTalks
<1>2. JazHears => Kept
  BY MoveKeeps DEF JazHears
<1>3. JazTakes => Kept
  BY FinishKeeps DEF JazTakes
<1> QED BY <1>1, <1>2, <1>3

LEMMA FionaTable ==
  /\ Last["fiona"] = 20
  /\ \A s, q :
       /\ Asks("fiona", s, q) <=> (q = 67 => s \in 0..3)
       /\ NotYet("fiona", s, q) <=> q = 67 /\ s \in 0..3
       /\ ~Behind("fiona", s, q)
       /\ ~Due("fiona", s, q)
  /\ \A n, s, q : n # "fiona" /\ q = 67 =>
       Asks(n, s, q) /\ ~NotYet(n, s, q) /\ ~Behind(n, s, q) /\ ~Due(n, s, q)
BY LastValues DEF Asks, NotYet, Behind, Due

LEMMA FionaSteps ==
  ASSUME QuestsInv
  PROVE  (FionaTalks \/ FionaHears \/ SkillChosen \/ FionaTakes
          \/ GladiatorBeaten) => Kept
<1> USE FionaTable DEF Freely, Carefree, Opens, OthersAsk, Pays, OthersPass, Followers
<1>1. FionaTalks => Kept
  <2>1. Offer("fiona", {0, 1}, 2, 67) => Kept
    BY FirstOfferKeeps
  <2>2. Move("fiona", {5, 17}, 19) => Kept
    BY MoveKeeps
  <2>3. Say("fiona", {2, 4, 5, 6, 17, 19}) => Kept
    BY SayKeeps
  <2> QED BY <2>1, <2>2, <2>3 DEF FionaTalks
<1>2. FionaHears => Kept
  BY MoveKeeps DEF FionaHears
<1>3. SkillChosen => Kept
  BY SayKeeps DEF SkillChosen
<1>4. FionaTakes => Kept
  BY FinishKeeps DEF FionaTakes
<1>5. GladiatorBeaten => Kept
  BY SayKeeps DEF GladiatorBeaten
<1> QED BY <1>1, <1>2, <1>3, <1>4, <1>5

LEMMA RaminTable ==
  /\ Last["ramin"] = 16
  /\ \A s, q :
       /\ Asks("ramin", s, q) <=> (q = 68 => s \in 0..6)
       /\ NotYet("ramin", s, q) <=> q = 68 /\ s \in 0..6
       /\ ~Behind("ramin", s, q)
       /\ ~Due("ramin", s, q)
  /\ \A n, s, q : n # "ramin" /\ q = 68 =>
       Asks(n, s, q) /\ ~NotYet(n, s, q) /\ ~Behind(n, s, q) /\ ~Due(n, s, q)
BY LastValues DEF Asks, NotYet, Behind, Due

LEMMA RaminSteps ==
  ASSUME QuestsInv PROVE (RaminTalks \/ RaminHears \/ ArkhataskellyDead) => Kept
<1> USE RaminTable DEF Freely, Carefree, Opens, OthersAsk, Pays, OthersPass, Followers
<1>1. RaminTalks => Kept
  <2>1. Offer("ramin", {0}, 2, 68) => Kept
    BY FirstOfferKeeps
  <2>2. Offer("ramin", {1}, 2, 68) => Kept
    BY FirstOfferKeeps
  <2>3. Move("ramin", {9}, 11) => Kept
    BY MoveKeeps
  <2>4. Move("ramin", {11}, 13) => Kept
    BY MoveKeeps
  <2>5. Say("ramin", 2..5 \cup {7, 8, 10, 12, 13, 14, 15}) => Kept
    BY SayKeeps
  <2> QED BY <2>1, <2>2, <2>3, <2>4, <2>5 DEF RaminTalks
<1>2. RaminHears => Kept
  BY MoveKeeps DEF RaminHears
<1>3. ArkhataskellyDead => Kept
  BY FinishKeeps DEF ArkhataskellyDead
<1> QED BY <1>1, <1>2, <1>3

LEMMA PartsTable ==
  /\ Last["parts"] = 3
  /\ \A s, q :
       /\ Asks("parts", s, q)
       /\ ~NotYet("parts", s, q)
       /\ ~Behind("parts", s, q)
       /\ ~Due("parts", s, q)
BY LastValues DEF Asks, NotYet, Behind, Due

LEMMA MonkTable ==
  /\ Last["monk"] = 30
  /\ \A s, q :
       /\ Asks("monk", s, q) <=> /\ q = 69 => s \in 8..12
                                 /\ q = 70 => s \in 15..19
       /\ NotYet("monk", s, q) <=> \/ q = 69 /\ s \in 0..12
                                   \/ q = 70 /\ s \in 0..19
                                   \/ q = 78 /\ s \in 0..28
       /\ ~Behind("monk", s, q)
       /\ ~Due("monk", s, q)
  /\ \A n, s, q : n # "monk" /\ q \in {69, 70} =>
       Asks(n, s, q) /\ ~NotYet(n, s, q) /\ ~Behind(n, s, q) /\ ~Due(n, s, q)
BY LastValues DEF Asks, NotYet, Behind, Due

LEMMA MonkSteps ==
  ASSUME QuestsInv PROVE (MonkTalks \/ MonkHears \/ MonkTakes \/ BookeaterDead) => Kept
<1> USE MonkTable DEF Freely, Carefree, Opens, OthersAsk, Pays, OthersPass, Followers
<1>1. MonkTalks => Kept
  <2>1. Move("monk", {0}, 2) => Kept
    BY MoveKeeps
  <2>2. Offer("monk", {8}, 9, 69) => Kept
    BY FirstOfferKeeps
  <2>3. Offer("monk", {15}, 16, 70) => Kept
    BY FirstOfferKeeps
  <2>4. Offer("monk", {21}, 22, 78) => Kept
    <3> SUFFICES ASSUME Offer("monk", {21}, 22, 78) PROVE Kept
      OBVIOUS
    <3>1. 78 \in Quests
      BY GivesLogged DEF Offer, At, Gives
    <3>2. flags[78] # "done"
      BY <3>1 DEF Offer, At, QuestsInv, LogRight
    <3>3. OthersAsk("monk", 78)
      <4> SUFFICES ASSUME NEW m \in Cast \ {"monk"}
                   PROVE  Asks(m, st[m], 78) /\ ~Behind(m, st[m], 78)
        OBVIOUS
      <4>1. ~Behind(m, st[m], 78)
        BY <3>1, <3>2 DEF QuestsInv, LogRight
      <4>2. st[m] \in 0..Last[m]
        BY DEF QuestsInv, TypeOK
      <4> QED BY <4>1, <4>2, LastValues DEF Asks, Behind
    <3> QED BY <3>2, <3>3, OfferKeeps
  <2>5. Say("monk", 1..7 \cup 9..11 \cup 13..14 \cup 16..18 \cup {20} \cup 22..27 \cup {29}) => Kept
    BY SayKeeps
  <2> QED BY <2>1, <2>2, <2>3, <2>4, <2>5 DEF MonkTalks
<1>2. MonkHears => Kept
  BY MoveKeeps DEF MonkHears
<1>3. BookeaterDead => Kept
  BY FinishKeeps DEF BookeaterDead
<1>4. MonkTakes => Kept
  <2>1. Say("parts", 0..1) => Kept
    BY SayKeeps, PartsTable
  <2>2. At("monk", {12}) /\ st' = [st EXCEPT !["monk"] = 13, !["parts"] = 3] /\ Done(69) => Kept
    <3> SUFFICES ASSUME At("monk", {12}), st' = [st EXCEPT !["monk"] = 13, !["parts"] = 3], Done(69)
                 PROVE  Kept
      OBVIOUS
    <3>1. "monk" \in Cast /\ 13 \in 0..Last["monk"] /\ 3 \in 0..Last["parts"]
      BY PartsTable DEF At
    <3>2. \A q \in Quests \ {69} :
            /\ Carefree("monk", st["monk"], 13, q, flags[q])
            /\ Carefree("parts", st["parts"], 3, q, flags[q])
      BY PartsTable DEF At
    <3> HIDE DEF Carefree
    <3>3. Easy({69}) /\ Logs({}, {69})
      BY ONLY QuestsInv, <3>1, <3>2, st' = [st EXCEPT !["monk"] = 13, !["parts"] = 3], Done(69),
              TwoGoEasy, DoneLogs
    <3>4. ASSUME 69 \in Quests PROVE MayPay(69)
      <4>1. flags[69] # "done"
        BY <3>4 DEF At, QuestsInv, LogRight
      <4>2. /\ st'["monk"] = 13
            /\ \A m \in Cast \ {"monk", "parts"} : st'[m] = st[m]
        BY ONLY <3>1, st' = [st EXCEPT !["monk"] = 13, !["parts"] = 3], TwoGo
      <4>3. \A m \in Cast : ~NotYet(m, st'[m], 69) /\ ~Due(m, st'[m], 69)
        BY <4>2
      <4> QED BY ONLY <4>1, <4>3 DEF MayPay, Followers
    <3> QED BY <3>3, <3>4, StepKeeps
  <2>3. Say("monk", {28}) => Kept
    BY SayKeeps
  <2> QED BY <2>1, <2>2, <2>3 DEF MonkTakes
<1> QED BY <1>1, <1>2, <1>3, <1>4

LEMMA KrenachTable ==
  /\ Last["krenach"] = 5
  /\ \A s, q :
       /\ Asks("krenach", s, q) <=> (q = 78 => s \in 0..1)
       /\ NotYet("krenach", s, q) <=> q = 78 /\ s \in 0..1
       /\ Behind("krenach", s, q) <=> q = 78 /\ s \in 1..5
       /\ ~Due("krenach", s, q)
  /\ \A n, s, q : n # "krenach" /\ q = 78 =>
       Asks(n, s, q) /\ ~Behind(n, s, q) /\ ~Due(n, s, q)
BY LastValues DEF Asks, NotYet, Behind, Due

LEMMA KrenachSteps ==
  ASSUME QuestsInv PROVE KrenachTalks => Kept
<1> USE KrenachTable DEF Freely, Carefree, Pays, OthersPass, Followers
<1>1. KrenachTalks => Kept
  <2>1. Met("monk", 29..30) /\ Finish("krenach", {0}, 2, 78) => Kept
    <3> SUFFICES ASSUME Met("monk", 29..30), Finish("krenach", {0}, 2, 78) PROVE Kept
      OBVIOUS
    <3>1. OthersPass("krenach", 78)
      BY LastValues DEF Met, NotYet, Due
    <3> QED BY <3>1, FinishKeeps
  <2>2. ~Finish("krenach", {1}, 2, 78)
    <3> SUFFICES ASSUME Finish("krenach", {1}, 2, 78) PROVE FALSE
      OBVIOUS
    <3>1. 78 \in Quests
      BY GivesLogged DEF Finish, At, Gives
    <3> QED BY <3>1 DEF Finish, At, QuestsInv, LogRight
  <2>3. Say("krenach", 2..4) => Kept
    BY SayKeeps
  <2> QED BY <2>1, <2>2, <2>3 DEF KrenachTalks
<1> QED BY <1>1

LEMMA CaptainTable ==
  /\ Last["captain"] = 10
  /\ \A s, q :
       /\ Asks("captain", s, q)
       /\ ~NotYet("captain", s, q)
       /\ ~Behind("captain", s, q)
       /\ ~Due("captain", s, q)
BY LastValues DEF Asks, NotYet, Behind, Due

LEMMA CaptainSteps ==
  ASSUME QuestsInv PROVE (CaptainTalks \/ CaptainHears \/ CaptainTakes) => Kept
<1> USE CaptainTable DEF Freely, Carefree
<1>1. CaptainTalks => Kept
  <2>1. Move("captain", {4}, 6) => Kept
    BY MoveKeeps
  <2>2. Say("captain", 1..3 \cup 5..9) => Kept
    BY SayKeeps
  <2> QED BY <2>1, <2>2 DEF CaptainTalks
<1>2. CaptainHears => Kept
  BY MoveKeeps DEF CaptainHears
<1>3. CaptainTakes => Kept
  BY SayKeeps DEF CaptainTakes
<1> QED BY <1>1, <1>2, <1>3

LEMMA JudgeTable ==
  /\ Last["judge"] = 6
  /\ \A s, q :
       /\ Asks("judge", s, q)
       /\ ~NotYet("judge", s, q)
       /\ ~Behind("judge", s, q)
       /\ ~Due("judge", s, q)
BY LastValues DEF Asks, NotYet, Behind, Due

LEMMA JudgeSteps ==
  ASSUME QuestsInv PROVE (JudgeTalks \/ JudgeHears \/ JudgeTakes) => Kept
<1> USE JudgeTable DEF Freely, Carefree
<1>1. JudgeTalks => Kept
  <2>1. Move("judge", {0}, 2) => Kept
    BY MoveKeeps
  <2>2. Say("judge", 1..5) => Kept
    BY SayKeeps
  <2> QED BY <2>1, <2>2 DEF JudgeTalks
<1>2. JudgeHears => Kept
  BY MoveKeeps DEF JudgeHears
<1>3. JudgeTakes => Kept
  BY SayKeeps DEF JudgeTakes
<1> QED BY <1>1, <1>2, <1>3

LEMMA JadaTable ==
  /\ Last["jada"] = 5
  /\ \A s, q :
       /\ Asks("jada", s, q) <=> (q = 72 => s \in 1..4)
       /\ NotYet("jada", s, q) <=> q = 72 /\ s \in 0..4
       /\ ~Behind("jada", s, q)
       /\ ~Due("jada", s, q)
  /\ \A n, s, q : n # "jada" /\ q = 72 =>
       Asks(n, s, q) /\ ~NotYet(n, s, q) /\ ~Behind(n, s, q) /\ ~Due(n, s, q)
BY LastValues DEF Asks, NotYet, Behind, Due

LEMMA JadaSteps ==
  ASSUME QuestsInv PROVE (JadaTalks \/ JadaHears \/ JadaTakes) => Kept
<1> USE JadaTable DEF Freely, Carefree, Opens, OthersAsk, Pays, OthersPass, Followers
<1>1. JadaTalks => Kept
  <2>1. Offer("jada", {0}, 2, 72) => Kept
    BY FirstOfferKeeps
  <2>2. Offer("jada", {1}, 2, 72) => Kept
    BY FirstOfferKeeps
  <2>3. Say("jada", 2..3) => Kept
    BY SayKeeps
  <2> QED BY <2>1, <2>2, <2>3 DEF JadaTalks
<1>2. JadaHears => Kept
  BY MoveKeeps DEF JadaHears
<1>3. JadaTakes => Kept
  BY FinishKeeps DEF JadaTakes
<1> QED BY <1>1, <1>2, <1>3

LEMMA PotmakerTable ==
  /\ Last["potmaker"] = 4
  /\ \A s, q :
       /\ Asks("potmaker", s, q) <=> (q = 73 => s \in 1..3)
       /\ NotYet("potmaker", s, q) <=> q = 73 /\ s \in 0..3
       /\ ~Behind("potmaker", s, q)
       /\ ~Due("potmaker", s, q)
  /\ \A n, s, q : n # "potmaker" /\ q = 73 =>
       Asks(n, s, q) /\ ~NotYet(n, s, q) /\ ~Behind(n, s, q) /\ ~Due(n, s, q)
BY LastValues DEF Asks, NotYet, Behind, Due

LEMMA PotmakerSteps ==
  ASSUME QuestsInv PROVE (PotmakerTalks \/ PotmakerHears \/ PotmakerTakes) => Kept
<1> USE PotmakerTable DEF Freely, Carefree, Opens, OthersAsk, Pays, OthersPass, Followers
<1>1. PotmakerTalks => Kept
  <2>1. Offer("potmaker", {0, 1}, 2, 73) => Kept
    BY FirstOfferKeeps
  <2>2. Say("potmaker", {2}) => Kept
    BY SayKeeps
  <2> QED BY <2>1, <2>2 DEF PotmakerTalks
<1>2. PotmakerHears => Kept
  BY MoveKeeps DEF PotmakerHears
<1>3. PotmakerTakes => Kept
  BY FinishKeeps DEF PotmakerTakes
<1> QED BY <1>1, <1>2, <1>3

LEMMA HunterTable ==
  /\ Last["hunter"] = 10
  /\ \A s, q :
       /\ Asks("hunter", s, q) <=> (q = 77 => s \in 5..9)
       /\ NotYet("hunter", s, q) <=> q = 77 /\ s \in 0..9
       /\ ~Behind("hunter", s, q)
       /\ ~Due("hunter", s, q)
  /\ \A n, s, q : n # "hunter" /\ q = 77 =>
       Asks(n, s, q) /\ ~NotYet(n, s, q) /\ ~Behind(n, s, q) /\ ~Due(n, s, q)
BY LastValues DEF Asks, NotYet, Behind, Due

LEMMA HunterSteps ==
  ASSUME QuestsInv PROVE (HunterTalks \/ HunterHears \/ HunterTakes) => Kept
<1> USE HunterTable DEF Freely, Carefree, Opens, OthersAsk, Pays, OthersPass, Followers
<1>1. HunterTalks => Kept
  <2>1. Move("hunter", {0}, 5) => Kept
    BY MoveKeeps
  <2>2. Move("hunter", {0}, 2) => Kept
    BY MoveKeeps
  <2>3. Offer("hunter", {4, 5}, 6, 77) => Kept
    BY FirstOfferKeeps
  <2>4. Say("hunter", 1..3 \cup 6..8) => Kept
    BY SayKeeps
  <2> QED BY <2>1, <2>2, <2>3, <2>4 DEF HunterTalks
<1>2. HunterHears => Kept
  BY MoveKeeps DEF HunterHears
<1>3. HunterTakes => Kept
  BY FinishKeeps DEF HunterTakes
<1> QED BY <1>1, <1>2, <1>3

LEMMA ThaipanTable ==
  /\ Last["thaipan"] = 9
  /\ \A s, q :
       /\ Asks("thaipan", s, q) <=> (q = 74 => s \in 1..8)
       /\ NotYet("thaipan", s, q) <=> q = 74 /\ s \in 0..8
       /\ ~Behind("thaipan", s, q)
       /\ ~Due("thaipan", s, q)
  /\ \A n, s, q : n # "thaipan" /\ q = 74 =>
       Asks(n, s, q) /\ ~NotYet(n, s, q) /\ ~Behind(n, s, q) /\ ~Due(n, s, q)
BY LastValues DEF Asks, NotYet, Behind, Due

LEMMA ThaipanSteps ==
  ASSUME QuestsInv PROVE (ThaipanTalks \/ ThaipanHears \/ ThaipanTakes) => Kept
<1> USE ThaipanTable DEF Freely, Carefree, Opens, OthersAsk, Pays, OthersPass, Followers
<1>1. ThaipanTalks => Kept
  <2>1. Offer("thaipan", {0}, 2, 74) => Kept
    BY FirstOfferKeeps
  <2>2. Offer("thaipan", {1}, 2, 74) => Kept
    BY FirstOfferKeeps
  <2>3. Say("thaipan", 2..7) => Kept
    BY SayKeeps
  <2> QED BY <2>1, <2>2, <2>3 DEF ThaipanTalks
<1>2. ThaipanHears => Kept
  BY MoveKeeps DEF ThaipanHears
<1>3. ThaipanTakes => Kept
  BY FinishKeeps DEF ThaipanTakes
<1> QED BY <1>1, <1>2, <1>3

LEMMA ClerkNotesTable ==
  /\ Last["clerk_notes"] = 3
  /\ \A s, q :
       /\ Asks("clerk_notes", s, q)
       /\ NotYet("clerk_notes", s, q) <=> q = 76 /\ s \in 0..2
       /\ ~Behind("clerk_notes", s, q)
       /\ ~Due("clerk_notes", s, q)
BY LastValues DEF Asks, NotYet, Behind, Due

LEMMA ClerkTable ==
  /\ Last["clerk"] = 6
  /\ \A s, q :
       /\ Asks("clerk", s, q) <=> (q = 76 => s \in 1..6)
       /\ NotYet("clerk", s, q) <=> q = 76 /\ s \in 0..4
       /\ ~Behind("clerk", s, q)
       /\ ~Due("clerk", s, q)
  /\ \A n, s, q : n # "clerk" /\ q = 76 =>
       Asks(n, s, q) /\ ~Behind(n, s, q) /\ ~Due(n, s, q)
BY LastValues DEF Asks, NotYet, Behind, Due

LEMMA ClerkSteps ==
  ASSUME QuestsInv
  PROVE  (ClerkTalks \/ ClerkTakes \/ ClerkHears \/ ClerkAnswered
          \/ ClerkTimesOut) => Kept
<1> USE ClerkTable DEF Freely, Carefree, Opens, OthersAsk
<1>1. ClerkTalks => Kept
  <2>1. Offer("clerk", {0}, 2, 76) => Kept
    BY FirstOfferKeeps
  <2>2. Offer("clerk", {1}, 2, 76) => Kept
    BY FirstOfferKeeps
  <2>3. Say("clerk", 2..3) => Kept
    BY SayKeeps
  <2> QED BY <2>1, <2>2, <2>3 DEF ClerkTalks
<1>2. ClerkHears => Kept
  BY MoveKeeps DEF ClerkHears
<1>3. ClerkAnswered => Kept
  BY SayKeeps DEF ClerkAnswered
<1>4. ClerkTimesOut => Kept
  BY MoveKeeps DEF ClerkTimesOut
<1>5. ClerkTakes => Kept
  <2>1. Say("clerk_notes", 0..1) => Kept
    BY SayKeeps, ClerkNotesTable
  <2>2. ASSUME NEW t \in {5, 6}, At("clerk", {5}), At("clerk_notes", {2}),
               st' = [st EXCEPT !["clerk"] = t, !["clerk_notes"] = 3], Done(76)
        PROVE  Kept
    <3>1. "clerk" \in Cast /\ t \in 0..Last["clerk"] /\ 3 \in 0..Last["clerk_notes"]
      BY <2>2, ClerkNotesTable DEF At
    <3>2. \A q \in Quests \ {76} :
            /\ Carefree("clerk", st["clerk"], t, q, flags[q])
            /\ Carefree("clerk_notes", st["clerk_notes"], 3, q, flags[q])
      BY <2>2, ClerkNotesTable DEF At
    <3> HIDE DEF Carefree
    <3>3. Easy({76}) /\ Logs({}, {76})
      BY ONLY QuestsInv, <2>2, <3>1, <3>2, TwoGoEasy, DoneLogs
    <3>4. ASSUME 76 \in Quests PROVE MayPay(76)
      <4>1. flags[76] # "done"
        BY <2>2, <3>4, ClerkNotesTable DEF At, QuestsInv, LogRight
      <4>2. /\ st'["clerk"] = t
            /\ "clerk_notes" \in Cast => st'["clerk_notes"] = 3
            /\ \A m \in Cast \ {"clerk", "clerk_notes"} : st'[m] = st[m]
        BY ONLY <2>2, <3>1, TwoGo
      <4>3. \A m \in Cast : ~NotYet(m, st'[m], 76) /\ ~Due(m, st'[m], 76)
        BY <4>2 DEF NotYet, Due
      <4> QED BY ONLY <4>1, <4>3 DEF MayPay, Followers
    <3> QED BY <3>3, <3>4, StepKeeps
  <2> QED BY <2>1, <2>2 DEF ClerkTakes
<1> QED BY <1>1, <1>2, <1>3, <1>4, <1>5

LEMMA TrainerTable ==
  /\ Last["trainer"] = 8
  /\ \A s, q :
       /\ Asks("trainer", s, q) <=> (q = 75 => s \in 1..6)
       /\ NotYet("trainer", s, q) <=> q = 75 /\ s \in 0..6
       /\ ~Behind("trainer", s, q)
       /\ ~Due("trainer", s, q)
  /\ \A n, s, q : n # "trainer" /\ q = 75 =>
       Asks(n, s, q) /\ ~NotYet(n, s, q) /\ ~Behind(n, s, q) /\ ~Due(n, s, q)
BY LastValues DEF Asks, NotYet, Behind, Due

LEMMA TrainerSteps ==
  ASSUME QuestsInv PROVE (TrainerTalks \/ TrainerHears) => Kept
<1> USE TrainerTable DEF Freely, Carefree, Opens, OthersAsk, Pays, OthersPass, Followers
<1>1. TrainerTalks => Kept
  <2>1. Offer("trainer", {0}, 2, 75) => Kept
    BY FirstOfferKeeps
  <2>2. Offer("trainer", {1}, 2, 75) => Kept
    BY FirstOfferKeeps
  <2>3. Finish("trainer", {6}, 7, 75) => Kept
    BY FinishKeeps
  <2>4. Say("trainer", 2..5 \cup {7}) => Kept
    BY SayKeeps
  <2> QED BY <2>1, <2>2, <2>3, <2>4 DEF TrainerTalks
<1>2. TrainerHears => Kept
  BY MoveKeeps DEF TrainerHears
<1> QED BY <1>1, <1>2

LEMMA KidTable ==
  /\ Last["kid"] = 5
  /\ \A s, q :
       /\ Asks("kid", s, q)
       /\ ~NotYet("kid", s, q)
       /\ ~Behind("kid", s, q)
       /\ ~Due("kid", s, q)
BY LastValues DEF Asks, NotYet, Behind, Due

LEMMA KidSteps ==
  ASSUME QuestsInv PROVE KidnappeeTalks => Kept
<1> USE KidTable DEF Freely, Carefree
<1>1. KidnappeeTalks => Kept
  <2>1. Move("kid", {0}, 2) => Kept
    BY MoveKeeps
  <2>2. Move("kid", {2}, 4) => Kept
    BY MoveKeeps
  <2>3. Move("kid", {3}, 2) => Kept
    BY MoveKeeps
  <2>4. Say("kid", {1, 2, 4}) => Kept
    BY SayKeeps
  <2> QED BY <2>1, <2>2, <2>3, <2>4 DEF KidnappeeTalks
<1> QED BY <1>1

-----------------------------------------------------------------------------
LEMMA NextKeeps == ASSUME QuestsInv, Next PROVE Kept
<1>1. CameronProgress \/ CameronRepeats => Kept
  BY GwendySteps, YoakinSteps, TerionSteps, JamesSteps, LydiaSteps, NookSteps,
     ReskinSteps, GuiwynnSteps, LogainSteps
     DEF CameronProgress, CameronRepeats
<1>2. AstonProgress \/ AstonRepeats => Kept
  BY SeymourSteps, KellySteps, ShrinesSteps, Astro2Steps, CryptSteps,
     CarlosSteps
     DEF AstonProgress, AstonRepeats
<1>3. ForestProgress \/ ForestRepeats => Kept
  BY ImpSteps, WilliamSteps, HermitSteps, ClaraSteps
     DEF ForestProgress, ForestRepeats
<1>4. BranProgress \/ BranRepeats => Kept
  BY SmugglecomSteps, CountbranSteps, JewelsSteps, BrennethSteps, SpiritSteps,
     GuardbranSteps, BroklinSteps, AristocratSteps, YoatinSteps
     DEF BranProgress, BranRepeats
<1>5. ExkordonProgress \/ ExkordonRepeats => Kept
  BY ThiefSteps, SanwynSteps, SkellySteps, AlchemistSteps
     DEF ExkordonProgress, ExkordonRepeats
<1>6. NomadProgress \/ NomadRepeats => Kept
  BY KalanurSteps, MembersSteps, LaasSteps, GaranSteps, GloriSteps,
     ArquinSteps, SmithSteps, HomdenSteps
     DEF NomadProgress, NomadRepeats
<1>7. ArkhataProgress \/ ArkhataRepeats => Kept
  BY RammySteps, LettersSteps, JazSteps, FionaSteps, RaminSteps, MonkSteps,
     KrenachSteps, CaptainSteps, JudgeSteps, JadaSteps, PotmakerSteps,
     HunterSteps, ThaipanSteps, ClerkSteps, TrainerSteps, KidSteps
     DEF ArkhataProgress, ArkhataRepeats
<1>8. (\E q \in Quests : Reopen(q)) => Kept
  BY ReopenKeeps
<1> QED BY <1>1, <1>2, <1>3, <1>4, <1>5, <1>6, <1>7, <1>8 DEF Next, Progress, Repeats

LEMMA StutterKeeps == ASSUME QuestsInv, UNCHANGED vars PROVE Kept
<1>1. st' = st /\ Unlogged
  BY DEF vars, Unlogged
<1>2. Easy({})
  BY <1>1, StayFree DEF Easy, QuestsInv, TypeOK, Cast
<1> QED BY <1>1, <1>2, UnloggedLogs, StepKeeps

\* A player who is new to everybody.
LEMMA InitInv == Init => QuestsInv
<1> SUFFICES ASSUME NEW c \in Casts,
                    st = [n \in c |-> 0],
                    flags = [q \in QuestsOf(c) |-> "none"],
                    done = [q \in QuestsOf(c) |-> 0]
             PROVE  QuestsInv
  BY DEF Init
<1> USE LimitTypes
<1>1. Cast = c /\ \A n \in Cast : st[n] = 0
  BY DEF Cast
<1>2. Quests = QuestsOf(Cast) /\ DOMAIN done = Quests
  BY <1>1 DEF Quests
<1>3. \A q \in Quests : flags[q] = "none" /\ done[q] = 0
  BY DEF Quests
<1>4. TypeOK
  <2>1. \A n \in Cast : 0 \in 0..Last[n]
    BY <1>1, CastAssumption, LastNumbers
  <2> QED BY <1>1, <1>3, <2>1, CastAssumption DEF TypeOK
<1>5. LogOfCast /\ OpenIsAsked
  BY <1>2, <1>3 DEF LogOfCast, OpenIsAsked
<1>6. LogRight
  BY <1>1, <1>3 DEF LogRight, Behind
<1>7. Counted
  <2>1. \A q \in Quests : Limit(q) \in Nat
    BY DEF Limit
  <2> QED BY <1>3, <2>1 DEF Counted
<1>8. FollowersCounted
  <2> SUFFICES ASSUME NEW q \in Quests \cap Followers
               PROVE  done[q] + IsDue(q) + LeftBefore(q) <= Most(q)
    BY DEF FollowersCounted
  <2>1. \A p \in Quests : Left(p) = ReopenLimit
    BY <1>3 DEF Left
  <2>2. IsDue(q) <= 1 /\ IsDue(q) \in Int /\ done[q] = 0
    BY <1>3 DEF IsDue
  <2>3. LeftBefore(q) \in Int /\ LeftBefore(q) + 1 <= Most(q)
    BY <1>5, <2>1, SeriesTogether DEF Followers, LeftBefore, Most
  <2>4. Most(q) \in Int
    BY DEF Most
  <2> QED BY <2>2, <2>3, <2>4
<1> QED BY <1>4, <1>5, <1>6, <1>7, <1>8 DEF QuestsInv

\* Two quests of a series are never asked for at the same time.
LEMMA SeriesApart ==
  ASSUME QuestsInv, NEW s \in Series, NEW p \in s \cap Quests, NEW q \in s \cap Quests,
         flags[p] = "open", flags[q] = "open"
  PROVE  p = q
<1>1. \A n \in Cast : Asks(n, st[n], p) /\ Asks(n, st[n], q)
  BY DEF QuestsInv, OpenIsAsked
<1>2. (\E n \in Cast : Gives(n, p)) /\ (\E n \in Cast : Gives(n, q))
  BY DEF QuestsInv, LogOfCast, QuestsOf
<1>3. PICK n \in Cast : Gives(n, p)
  BY <1>2
<1>4. PICK m \in Cast : Gives(m, q)
  BY <1>2
<1>5. CASE s = 22..23
  <2>1. p \in {22, 23} /\ q \in {22, 23}
    BY <1>5
  <2>2. p # q => "william" \in Cast
    BY <1>3, <1>4, <2>1 DEF Gives
  <2> QED BY <1>1, <2>1, <2>2 DEF Asks
<1>6. CASE s # 22..23
  <2>1. \/ s = 1..4 /\ n = "gwendy"
        \/ s = 7..8 /\ n = "guiwynn"
        \/ s = 10..12 /\ n = "seymour"
        \/ s = 35..37 /\ n = "smugglecom"
        \/ s = 41..43 /\ n = "brenneth"
        \/ s = 45..46 /\ n = "broklin"
    BY <1>3, <1>6 DEF Gives, Series
  <2> QED BY <1>1, <2>1 DEF Asks
<1> QED BY <1>5, <1>6

LEMMA QuestsInvOneOfSeries == QuestsInv => OneOfSeries
<1> SUFFICES ASSUME QuestsInv, NEW s \in Series
             PROVE  Cardinality({q \in s \cap Quests : flags[q] = "open"}) <= 1
  BY DEF OneOfSeries
<1> DEFINE O == {q \in s \cap Quests : flags[q] = "open"}
<1>1. CASE O = {}
  BY <1>1, FS_EmptySet
<1>2. CASE O # {}
  <2>1. PICK p \in O : TRUE
    BY <1>2
  <2>2. O = {p}
    BY <2>1, SeriesApart
  <2> HIDE DEF O
  <2>3. Cardinality(O) = 1
    BY <2>2, FS_Singleton
  <2> QED BY <2>3 DEF O
<1> QED BY <1>1, <1>2
-----------------------------------------------------------------------------
(* Whatever a player says, brings and reopens, in whatever order and with  *)
(* whichever of the drivers, the drivers' numbers and the log agree on     *)
(* what is done, and the counts stay within what was reopened.             *)
THEOREM QuestsInvariance == Spec => []QuestsInv
<1>1. QuestsInv /\ [Next]_vars => QuestsInv'
  BY NextKeeps, StutterKeeps DEF Kept
<1> QED BY InitInv, <1>1, PTL DEF Spec

(* Each driver stays within its switch and the log within its fields.      *)
THEOREM QuestTypes == Spec => []TypeOK
<1>1. QuestsInv => TypeOK
  BY DEF QuestsInv
<1> QED BY QuestsInvariance, <1>1, PTL

(* A quest the log shows as open can still be done: its driver is in a     *)
(* state from which it takes what the quest is about.                      *)
THEOREM OpenAlwaysAsked == Spec => []OpenIsAsked
<1>1. QuestsInv => OpenIsAsked
  BY DEF QuestsInv
<1> QED BY QuestsInvariance, <1>1, PTL

(* No two quests of a series are open at the same time.                    *)
THEOREM SeriesOneAtATime == Spec => []OneOfSeries
BY QuestsInvariance, QuestsInvOneOfSeries, PTL

(* A quest that was done is opened again by questlog_reopen only.          *)
THEOREM ReopenedAtWish == Spec => Reopened
<1>1. QuestsInv /\ [Next]_vars => [AtWish]_vars
  BY NextKeeps DEF Kept
<1> QED BY QuestsInvariance, <1>1, PTL DEF Spec, Reopened

(* A quest is counted and paid only while the log does not call it done.   *)
THEOREM PaidWhenNotDone == Spec => PaidOnce
<1>1. QuestsInv /\ [Next]_vars => [PaidWhenNew]_vars
  BY NextKeeps DEF Kept
<1> QED BY QuestsInvariance, <1>1, PTL DEF Spec, PaidOnce

(* The count of a quest, which has 6 bits, never wraps around.             *)
THEOREM CountNeverWraps == Spec => PaysLess
<1>1. QuestsInv /\ [Next]_vars => [CountGrows]_vars
  BY NextKeeps DEF Kept
<1> QED BY QuestsInvariance, <1>1, PTL DEF Spec, PaysLess
=============================================================================
