-------------------------- MODULE AreaServersData --------------------------
(***************************************************************************)
(* What becomes of clients and of data: clients and characters point at    *)
(* each other, and nothing a player has been shown is lost.  For the       *)
(* latter each step is summed up for every server and character by what    *)
(* it does to the claim the one has on the other (Move): the queries       *)
(* queued for it, the login, the character in the game and its row.  The   *)
(* facts of DataInv follow from the moves.                                 *)
(***************************************************************************)
EXTENDS AreaServersProofs

-----------------------------------------------------------------------------
(* Clients and characters.                                                 *)

\* A client that plays on a server is not playing on another one.
LEMMA InGameFacts ==
  ASSUME NEW s \in Servers
  PROVE  /\ \A t : InGame(s) = InGame(t) => s = t
         /\ Offline # InGame(s)
         /\ \A t : [st |-> "connect", at |-> t] # InGame(s)
         /\ \A t \in Servers : GoTo(t) # InGame(s)
<1>1. Offline.st # InGame(s).st
  BY DEF Offline, InGame
<1>2. \A t : [st |-> "connect", at |-> t].st # InGame(s).st
  BY DEF InGame
<1>3. \A t : InGame(t).at = t
  BY DEF InGame
<1>4. \A t : InGame(s) = InGame(t) => s = t
  BY <1>3
<1>5. Offline # InGame(s) /\ \A t : [st |-> "connect", at |-> t] # InGame(s)
  BY <1>1, <1>2
<1> QED
  BY <1>4, <1>5 DEF GoTo

\* A step that concerns neither the clients nor the characters of t.
LEMMA LinkOther ==
  ASSUME TypeOK, Grows, NEW t \in Servers, LinkInv(t),
         \A c \in Chars : /\ live'[t][c].plr = live[t][c].plr
                          /\ live'[t][c].on = live[t][c].on,
         login'[t].st = "ok" => login[t].st = "ok" /\ login'[t].c = login[t].c,
         \A k \in Clients : client'[k] = InGame(t) <=> client[k] = InGame(t)
  PROVE  LinkInv(t)'
<1>1. ASSUME NEW c \in Chars, live'[t][c].plr # None
      PROVE  LET k == live'[t][c].plr
             IN  /\ client'[k] = InGame(t)
                 /\ Who[k] = c /\ live'[t][c].on
  <2>1. live[t][c].plr \in Clients
    BY <1>1, LiveType, AbsentType DEF Player
  <2> QED
    BY <1>1, <2>1 DEF LinkInv
<1>2. ASSUME NEW k \in Clients, Untaken(Who[k])', client'[k] = InGame(t)
      PROVE  live'[t][Who[k]].plr = k
  <2>1. Who[k] \in Chars
    BY PeopleAssumption
  <2> QED
    BY <1>2, <2>1 DEF LinkInv, Grows
<1>3. login'[t].st = "ok" => live'[t][login'[t].c].plr = None
  BY LoginFields DEF LinkInv
<1> QED
  BY <1>1, <1>2, <1>3 DEF LinkInv, InGame

Linked == \A s \in Servers : LinkInv(s)

\* Nobody starts or stops playing.
SameGames == \A k \in Clients, t \in Servers :
               client'[k] = InGame(t) <=> client[k] = InGame(t)

\* No login is answered.
NoAnswer == \A t \in Servers : login'[t].st = "ok" =>
              login[t].st = "ok" /\ login'[t].c = login[t].c

\* A step in which no character gets or loses its client.
LEMMA LinkStill ==
  ASSUME TypeOK, Grows, Linked, SameGames, NoAnswer,
         \A t \in Servers, c \in Chars :
           live'[t][c].plr = live[t][c].plr /\ live'[t][c].on = live[t][c].on
  PROVE  Linked'
<1>1. ASSUME NEW t \in Servers
      PROVE  LinkInv(t)'
  BY LinkOther DEF Linked, SameGames, NoAnswer
<1> QED
  BY <1>1 DEF Linked

\* A step in which character c of s loses the client it may have.  (A taken
\* one may be made a second time under the eyes of its client.)
LEMMA LinkDetached ==
  ASSUME TypeOK, Grows, Linked, NEW s \in Servers, NEW c \in Chars, NEW p,
         live' = [live EXCEPT ![s][c] = p], p.plr = None,
         \A k \in Clients \ {live[s][c].plr}, t \in Servers :
           client'[k] = InGame(t) <=> client[k] = InGame(t),
         \A k \in Clients, t \in Servers :
           k = live[s][c].plr =>
             client'[k] # InGame(t) \/ (~Untaken(c) /\ client'[k] = client[k]),
         \A t \in Servers : login'[t].st = "ok" =>
           /\ login[t].st = "ok" \/ (t = s /\ login[s].c = c)
           /\ login'[t].c = login[t].c
  PROVE  Linked'
<1>1. /\ live'[s][c] = p
      /\ \A d \in Chars \ {c} : live'[s][d] = live[s][d]
      /\ \A t \in Servers \ {s} : live'[t] = live[t]
  BY LiveFacts
<1>0. \A k \in Clients : k = live[s][c].plr => client[k] = InGame(s)
  BY ServersAssumption DEF Linked, LinkInv
<1>2. ASSUME NEW t \in Servers \ {s}
      PROVE  LinkInv(t)'
  <2>1. ASSUME NEW k \in Clients
        PROVE  client'[k] = InGame(t) <=> client[k] = InGame(t)
    <3>1. k = live[s][c].plr => client[k] # InGame(t)
      BY <1>0, InGameFacts
    <3> QED
      BY <3>1
  <2> QED
    BY <1>1, <2>1, LinkOther DEF Linked
<1>3. LinkInv(s)'
  <2>1. LinkInv(s)
    BY DEF Linked
  <2>2. \A k \in Clients : client'[k] = InGame(s) => client[k] = InGame(s)
    BY <1>0
  <2>3. ASSUME NEW d \in Chars, live'[s][d].plr # None
        PROVE  LET k == live'[s][d].plr
               IN  client'[k] = InGame(s) /\ Who[k] = d /\ live'[s][d].on
    <3>1. d # c /\ live'[s][d] = live[s][d]
      BY <1>1, <2>3
    <3> DEFINE k == live[s][d].plr
    <3>2. k \in Clients
      BY <2>3, <3>1, LiveType, AbsentType DEF Player
    <3>3. client[k] = InGame(s) /\ Who[k] = d /\ live[s][d].on
      BY <2>1, <2>3, <3>1 DEF LinkInv
    <3>4. k # live[s][c].plr
      BY <2>1, <3>1, <3>2, <3>3, ServersAssumption DEF LinkInv
    <3> QED
      BY <3>1, <3>2, <3>3, <3>4
  <2>4. ASSUME NEW k \in Clients, Untaken(Who[k])', client'[k] = InGame(s)
        PROVE  live'[s][Who[k]].plr = k
    <3>1. Who[k] \in Chars
      BY PeopleAssumption
    <3>2. Untaken(Who[k]) /\ live[s][Who[k]].plr = k
      BY <2>1, <2>2, <2>4, <3>1 DEF LinkInv, Grows
    <3>3. Who[k] # c
      BY <2>4, <3>2
    <3> QED
      BY <1>1, <3>1, <3>2, <3>3
  <2>5. login'[s].st = "ok" => live'[s][login'[s].c].plr = None
    BY <1>1, <2>1, LoginFields DEF LinkInv
  <2> QED
    BY <2>3, <2>4, <2>5 DEF LinkInv, InGame
<1> QED
  BY <1>2, <1>3 DEF Linked

\* Hanging up, and clients that are not playing.
LEMMA HangFacts ==
  ASSUME NEW ks, client' = Hang(ks)
  PROVE  \A k \in Clients, t \in Servers :
           /\ k \in ks => client'[k] # InGame(t)
           /\ k \notin ks => (client'[k] = InGame(t) <=> client[k] = InGame(t))
<1>1. \A k \in Clients : client'[k] = IF k \in ks THEN Offline ELSE client[k]
  BY DEF Hang
<1>2. \A t \in Servers : Offline # InGame(t)
  BY InGameFacts
<1> QED
  BY <1>1, <1>2

LEMMA WaitingFacts ==
  ASSUME NEW k \in Clients, NEW s \in Servers, Waiting(k, s)
  PROVE  \A t \in Servers : client[k] # InGame(t)
BY InGameFacts DEF Waiting

\* A client that leaves the game: its character keeps no client, and it is
\* the one on it unless the character was made twice.
LEMMA ClientLeavesLinked ==
  ASSUME TypeOK, Grows, Linked, NEW k \in Clients, NEW s \in Servers,
         client[k] = InGame(s), client' = Hang({k}), login' = login,
         live' = [live EXCEPT ![s][Who[k]] =
                    [live[s][Who[k]] EXCEPT !.plr = None, !.lost = TRUE]]
  PROVE  Linked'
<1> DEFINE c == Who[k]
           p == [live[s][c] EXCEPT !.plr = None, !.lost = TRUE]
<1>c. c \in Chars
  BY PeopleAssumption
<1>1. p.plr = None
  BY <1>c, LiveType, AbsentType DEF Player
<1>2. /\ live'[s][c] = p
      /\ \A d \in Chars \ {c} : live'[s][d] = live[s][d]
      /\ \A t \in Servers \ {s} : live'[t] = live[t]
  BY <1>c, LiveFacts
<1>3. \A j \in Clients, t \in Servers :
        /\ client'[k] # InGame(t)
        /\ j # k => (client'[j] = InGame(t) <=> client[j] = InGame(t))
  BY HangFacts
<1>4. LinkInv(s)
  BY DEF Linked
<1> HIDE DEF p
<1>5. ASSUME NEW t \in Servers \ {s}
      PROVE  LinkInv(t)'
  <2>1. client[k] # InGame(t)
    BY InGameFacts
  <2>2. \A j \in Clients : client'[j] = InGame(t) <=> client[j] = InGame(t)
    BY <1>3, <2>1
  <2> QED
    BY <1>2, <2>2, LinkOther DEF Linked
<1>6. ASSUME NEW d \in Chars, live'[s][d].plr # None
      PROVE  LET j == live'[s][d].plr
             IN  client'[j] = InGame(s) /\ Who[j] = d /\ live'[s][d].on
  <2>1. d # c /\ live'[s][d] = live[s][d]
    BY <1>1, <1>2, <1>6
  <2> DEFINE j == live[s][d].plr
  <2>2. j \in Clients
    BY <1>6, <2>1, LiveType, AbsentType DEF Player
  <2>3. client[j] = InGame(s) /\ Who[j] = d /\ live[s][d].on
    BY <1>4, <1>6, <2>1 DEF LinkInv
  <2> QED
    BY <1>3, <2>1, <2>2, <2>3
<1>7. ASSUME NEW j \in Clients, Untaken(Who[j])', client'[j] = InGame(s)
      PROVE  live'[s][Who[j]].plr = j
  <2>1. j # k /\ client[j] = InGame(s) /\ Who[j] \in Chars
    BY <1>3, <1>7, PeopleAssumption
  <2>2. Untaken(Who[j])
    BY <1>7, <2>1 DEF Grows
  <2>3. live[s][Who[j]].plr = j
    BY <1>4, <2>1, <2>2 DEF LinkInv
  <2>4. Who[j] # c
    BY <1>4, <2>1, <2>2, <2>3 DEF LinkInv
  <2> QED
    BY <1>2, <2>1, <2>3, <2>4
<1>8. login'[s].st = "ok" => live'[s][login'[s].c].plr = None
  <2>1. login[s].st = "ok" => live[s][login[s].c].plr = None
    BY <1>4 DEF LinkInv
  <2>2. login[s].c \in Chars
    BY LoginFields
  <2> QED
    BY <1>1, <1>2, <2>1, <2>2
<1>9. LinkInv(s)'
  BY <1>6, <1>7, <1>8 DEF LinkInv, InGame
<1> QED
  BY <1>5, <1>9 DEF Linked

\* Clients that connect, give up or leave keep the links.
LEMMA ClientStepLinked ==
  ASSUME TypeOK, Grows, Linked, ClientStep
  PROVE  Linked'
<1>1. ASSUME NEW k \in Clients, NEW s \in Servers, Connect(k, s)
      PROVE  Linked'
  <2>1. /\ client' = [client EXCEPT ![k] = [st |-> "connect", at |-> s]]
        /\ client[k] = Offline
        /\ UNCHANGED <<login, live>>
    BY <1>1 DEF Connect
  <2>2. SameGames
    <3>1. \A j \in Clients : \/ client'[j] = client[j]
                             \/ /\ client'[j] = [st |-> "connect", at |-> s]
                                /\ client[j] = Offline
      BY <2>1 DEF TypeOK
    <3> QED
      BY <3>1, InGameFacts DEF SameGames
  <2> QED
    BY <2>1, <2>2, LinkStill DEF NoAnswer
<1>2. ASSUME NEW k \in Clients, Abandon(k)
      PROVE  Linked'
  <2>1. /\ client' = Hang({k}) /\ client[k].st = "connect"
        /\ UNCHANGED <<login, live>>
    BY <1>2 DEF Abandon
  <2>2. \A t \in Servers : client[k] # InGame(t)
    BY <2>1 DEF InGame
  <2>3. SameGames
    BY <2>1, <2>2, HangFacts DEF SameGames
  <2> QED
    BY <2>1, <2>3, LinkStill DEF NoAnswer
<1>3. ASSUME NEW k \in Clients, KickPlayer(k)
      PROVE  Linked'
  <2> DEFINE s == client[k].at
             c == Who[k]
             p == [live[s][c] EXCEPT !.plr = None, !.lost = TRUE]
  <2>1. /\ client' = Hang({k}) /\ client[k].st = "play"
        /\ live' = [live EXCEPT ![s][c] = p]
        /\ login' = login
    BY <1>3 DEF KickPlayer
  <2>2. c \in Chars /\ client[k] = InGame(s)
    <3>1. client[k] \in Link
      BY DEF TypeOK
    <3> QED
      BY <2>1, <3>1, PeopleAssumption DEF Link, InGame
  <2>3. CASE s \in Servers
    <3> HIDE DEF s, c, p
    <3> QED
      BY <2>1, <2>2, <2>3, ClientLeavesLinked DEF p, c
  <2>4. CASE s \notin Servers
    <3>1. live' = live
      BY <2>1, <2>4 DEF TypeOK
    <3>2. \A t \in Servers : client[k] # InGame(t)
      BY <2>4 DEF InGame
    <3>3. SameGames
      BY <2>1, <3>2, HangFacts DEF SameGames
    <3> QED
      BY <2>1, <3>1, <3>3, LinkStill DEF NoAnswer
  <2> QED
    BY <2>3, <2>4
<1> QED
  BY <1>1, <1>2, <1>3 DEF ClientStep

\* A login set to something else than an answer.
LEMMA NoAnswerSet ==
  ASSUME TypeOK, NEW s \in Servers, NEW l, SetLogin(s, l), l.st # "ok"
  PROVE  NoAnswer
BY SetLoginFacts DEF NoAnswer

\* kick_char takes the character from its client.
LEMMA KickCharLinked ==
  ASSUME TypeOK, Grows, Linked, NEW s \in Servers, NEW c \in Chars,
         NEW data, NEW area,
         KickChar(s, c, data, area), NoAnswer,
         \A k \in Clients \ {live[s][c].plr}, t \in Servers :
           client'[k] = InGame(t) <=> client[k] = InGame(t),
         \A k \in Clients, t \in Servers :
           k = live[s][c].plr => client'[k] # InGame(t)
  PROVE  Linked'
<1>1. live' = [live EXCEPT ![s][c] = Absent]
  BY DEF KickChar
<1>2. Absent.plr = None
  BY DEF Absent
<1>3. \A t \in Servers : login'[t].st = "ok" =>
           /\ login[t].st = "ok" \/ (t = s /\ login[s].c = c)
           /\ login'[t].c = login[t].c
  BY DEF NoAnswer
<1>4. \A k \in Clients, t \in Servers :
        k = live[s][c].plr =>
          client'[k] # InGame(t) \/ (~Untaken(c) /\ client'[k] = client[k])
  OBVIOUS
<1> QED
  BY <1>1, <1>2, <1>3, <1>4, LinkDetached

\* find_login keeps the links.
LEMMA FindLoginLinked ==
  ASSUME TypeOK, Grows, Linked, NEW k \in Clients, NEW s \in Servers,
         FindLogin(k, s)
  PROVE  Linked'
<1> DEFINE c == Who[k]
<1>c. c \in Chars
  BY PeopleAssumption
<1>r. \A d \in Chars : \A q : StartRead(s, d, q) => NoAnswer
  <2> SUFFICES ASSUME NEW d \in Chars, NEW q, StartRead(s, d, q)
               PROVE  NoAnswer
    OBVIOUS
  <2>1. SetLogin(s, [Idle(d) EXCEPT !.st = "read"])
    BY DEF StartRead
  <2>2. [Idle(d) EXCEPT !.st = "read"].st # "ok"
    BY DEF Idle
  <2> QED
    BY <2>1, <2>2, NoAnswerSet
<1>n. \A st \in Results : Collects(k, s, st) => NoAnswer
  <2> SUFFICES ASSUME NEW st \in Results, Collects(k, s, st)
               PROVE  NoAnswer
    OBVIOUS
  <2>1. login'[s].st = "empty" /\ \A t \in Servers \ {s} : login'[t] = login[t]
    BY CollectsFacts
  <2> QED
    BY <2>1 DEF NoAnswer
<1>1. CASE FindLoginStart(k, s)
  <2>1. NoAnswer /\ live' = live /\ client' = client
    BY <1>c, <1>r, <1>1 DEF FindLoginStart
  <2> QED
    BY <2>1, LinkStill DEF SameGames
<1>2. CASE FindLoginStale(k, s)
  <2> DEFINE d == login[s].c
             p == [live[s][d] EXCEPT !.lost = TRUE]
  <2>1. /\ NoAnswer /\ client' = client /\ login[s].st \in Results
        /\ \/ live' = live
           \/ login[s].st = "ok" /\ live' = [live EXCEPT ![s][d] = Absent]
           \/ live' = [live EXCEPT ![s][d] = p]
    BY <1>c, <1>r, <1>2 DEF FindLoginStale
  <2>2. d \in Chars /\ live[s][d] \in Player
    BY LoginFields DEF TypeOK
  <2>3. CASE live' = live
    BY <2>1, <2>3, LinkStill DEF SameGames
  <2>4. CASE login[s].st = "ok" /\ live' = [live EXCEPT ![s][d] = Absent]
    <3>1. live[s][d].plr = None
      BY <2>4 DEF Linked, LinkInv
    <3>2. Absent.plr = None /\ None \notin Clients
      BY ServersAssumption DEF Absent
    <3>3. \A t \in Servers : login'[t].st = "ok" =>
            /\ login[t].st = "ok" \/ (t = s /\ login[s].c = d)
            /\ login'[t].c = login[t].c
      BY <2>1 DEF NoAnswer
    <3>4. \A i \in Clients, t \in Servers :
            /\ i # live[s][d].plr
            /\ client'[i] = InGame(t) <=> client[i] = InGame(t)
      BY <2>1, <3>1, <3>2
    <3>5. \A i \in Clients \ {live[s][d].plr}, t \in Servers :
            client'[i] = InGame(t) <=> client[i] = InGame(t)
      BY <3>4
    <3>6. \A i \in Clients, t \in Servers :
            i = live[s][d].plr =>
              client'[i] # InGame(t) \/ (~Untaken(d) /\ client'[i] = client[i])
      BY <3>4
    <3> HIDE DEF d, p
    <3> QED
      BY <2>2, <2>4, <3>2, <3>3, <3>5, <3>6, LinkDetached
  <2>5. CASE live' = [live EXCEPT ![s][d] = p]
    <3>1. p.plr = live[s][d].plr /\ p.on = live[s][d].on
      BY <2>2 DEF Player
    <3>2. \A t \in Servers, e \in Chars :
            live'[t][e].plr = live[t][e].plr /\ live'[t][e].on = live[t][e].on
      BY <2>2, <2>5, <3>1 DEF TypeOK
    <3> QED
      BY <2>1, <3>2, LinkStill DEF SameGames
  <2> QED
    BY <2>1, <2>3, <2>4, <2>5
<1>3. CASE FindLoginFailed(k, s)
  <2>1. NoAnswer /\ live' = live /\ client' = Hang({k}) /\ Waiting(k, s)
    BY <1>n, <1>3 DEF FindLoginFailed, Results, Collects
  <2>2. SameGames
    BY <2>1, HangFacts, WaitingFacts DEF SameGames
  <2> QED
    BY <2>1, <2>2, LinkStill
<1>4. CASE FindLoginNewarea(k, s)
  <2>1. /\ NoAnswer /\ live' = live /\ Waiting(k, s)
        /\ \/ client' = Hang({k})
           \/ \E t \in Servers : client' = [client EXCEPT ![k] = GoTo(t)]
    <3>1. \A a, m : GetMirror(s, a, m) \in Servers \cup {None}
      BY GetMirrorType
    <3> QED
      BY <1>n, <1>4, <3>1 DEF FindLoginNewarea, Results, Collects
  <2>2. SameGames
    <3>1. CASE client' = Hang({k})
      BY <2>1, <3>1, HangFacts, WaitingFacts DEF SameGames
    <3>2. ASSUME NEW t \in Servers, client' = [client EXCEPT ![k] = GoTo(t)]
          PROVE  SameGames
      <4>1. \A u \in Servers : GoTo(t) # InGame(u) /\ client[k] # InGame(u)
        BY <2>1, InGameFacts, WaitingFacts
      <4> QED
        BY <3>2, <4>1 DEF SameGames, TypeOK
    <3> QED
      BY <2>1, <3>1, <3>2
  <2> QED
    BY <2>1, <2>2, LinkStill
<1>5. CASE FindLoginGone(k, s)
  <2>1. NoAnswer /\ live' = live /\ client' = client
    BY <1>n, <1>5 DEF FindLoginGone, Results
  <2> QED
    BY <2>1, LinkStill DEF SameGames
<1>6. CASE FindLoginOk(k, s)
  <2> DEFINE j == live[s][c].plr
             p == [live[s][c] EXCEPT !.plr = k, !.lost = FALSE]
  <2>1. /\ login[s].st = "ok" /\ login[s].c = c /\ live[s][c].on
        /\ NoAnswer /\ login'[s].st = "empty"
        /\ live' = [live EXCEPT ![s][c] = p]
        /\ client' = [Hang({j}) EXCEPT ![k] = [st |-> "play", at |-> s]]
        /\ Waiting(k, s)
    BY <1>n, <1>6, CollectsFacts DEF FindLoginOk, Collects, Results
  <2>2. live[s][c] \in Player /\ j = None
    BY <1>c, <2>1 DEF TypeOK, Linked, LinkInv
  <2>3. p.plr = k /\ p.on
    BY <2>1, <2>2 DEF Player
  <2>4. /\ client'[k] = InGame(s)
        /\ \A i \in Clients \ {k} : client'[i] = client[i]
    BY <2>1, <2>2, ServersAssumption DEF InGame, Hang
  <2>5. /\ live'[s][c] = p
        /\ \A d \in Chars \ {c} : live'[s][d] = live[s][d]
        /\ \A t \in Servers \ {s} : live'[t] = live[t]
    BY <1>c, <2>1, LiveFacts
  <2>6. \A t \in Servers : client[k] # InGame(t)
    BY <2>1, WaitingFacts
  <2>7. ASSUME NEW t \in Servers \ {s}
        PROVE  LinkInv(t)'
    <3>1. \A i \in Clients : client'[i] = InGame(t) <=> client[i] = InGame(t)
      BY <2>4, <2>6, InGameFacts
    <3> QED
      BY <2>1, <2>5, <3>1, LinkOther DEF Linked, NoAnswer
  <2>8. LinkInv(s)'
    <3>1. LinkInv(s)
      BY DEF Linked
    <3>2. ASSUME NEW d \in Chars, live'[s][d].plr # None
          PROVE  LET i == live'[s][d].plr
                 IN  client'[i] = InGame(s) /\ Who[i] = d /\ live'[s][d].on
      <4>1. CASE d = c
        BY <2>3, <2>4, <2>5, <4>1
      <4>2. CASE d # c
        <5>1. LET i == live[s][d].plr
              IN  client[i] = InGame(s) /\ Who[i] = d /\ live[s][d].on
          BY <2>5, <3>1, <3>2, <4>2 DEF LinkInv
        <5>2. live[s][d].plr \in Clients
          BY <2>5, <3>2, <4>2, LiveType, AbsentType DEF Player
        <5>3. live[s][d].plr # k
          BY <5>1, <4>2
        <5> QED
          BY <2>4, <2>5, <4>2, <5>1, <5>2, <5>3
      <4> QED
        BY <4>1, <4>2
    <3>3. ASSUME NEW i \in Clients, Untaken(Who[i])', client'[i] = InGame(s)
          PROVE  live'[s][Who[i]].plr = i
      <4>1. CASE i = k
        BY <2>3, <2>5, <4>1
      <4>2. CASE i # k
        <5>0. Who[i] \in Chars /\ i # None
          BY PeopleAssumption, ServersAssumption
        <5>1. live[s][Who[i]].plr = i
          BY <2>4, <3>1, <3>3, <4>2, <5>0 DEF LinkInv, Grows
        <5>2. Who[i] # c
          BY <2>2, <5>0, <5>1
        <5> QED
          BY <2>5, <5>0, <5>1, <5>2
      <4> QED
        BY <4>1, <4>2
    <3> QED
      BY <2>1, <3>2, <3>3 DEF LinkInv, InGame
  <2> QED
    BY <2>7, <2>8 DEF Linked
<1>7. ASSUME NEW area \in Areas, FindLoginZoneTime(k, s, area)
      PROVE  Linked'
  <2>1. /\ NoAnswer /\ Waiting(k, s)
        /\ KickChar(s, c, live[s][c].data, area)
        /\ client' = Hang({k, live[s][c].plr})
    BY <1>n, <1>7 DEF FindLoginZoneTime, Results, Collects
  <2>2. \A i \in Clients, t \in Servers :
          /\ i = live[s][c].plr => client'[i] # InGame(t)
          /\ i # live[s][c].plr => (client'[i] = InGame(t) <=> client[i] = InGame(t))
    BY <2>1, HangFacts, WaitingFacts
  <2> HIDE DEF c
  <2> QED
    BY <1>c, <2>1, <2>2, KickCharLinked
<1> QED
  BY <1>1, <1>2, <1>3, <1>4, <1>5, <1>6, <1>7 DEF FindLogin

\* tick_login keeps the links: what it makes or hands out has no client.
LEMMA TickLoginLinked ==
  ASSUME IInv, Grows, Linked, NEW s \in Servers, TickLogin(s)
  PROVE  Linked'
<1> DEFINE c == login[s].c
<1>t. TypeOK
  BY DEF IInv
<1>c. c \in Chars /\ live[s][c] \in Player /\ login[s] \in Login
  BY <1>t, LoginFields DEF TypeOK
<1>f. ASSUME SetLogin(s, Result(s, "failed", None))
      PROVE  NoAnswer
  BY <1>t, <1>f, NoAnswerSet, ResultFacts
<1>a. ASSUME NEW l, SetLogin(s, l), l.c = c
      PROVE  \A t \in Servers : login'[t].st = "ok" =>
               /\ login[t].st = "ok" \/ (t = s /\ login[s].c = c)
               /\ login'[t].c = login[t].c
  BY <1>t, <1>a, SetLoginFacts
<1>o. /\ Result(s, "ok", None).c = c
      /\ Result(s, "failed", None).c = c
      /\ [Result(s, "ok", None) EXCEPT !.usurp = TRUE].c = c
  BY <1>c DEF Result, Login
<1>1. CASE TickLoginUsurp(s)
  <2> DEFINE p == [live[s][c] EXCEPT !.plr = None, !.lost = FALSE]
  <2>1. CASE /\ live' = [live EXCEPT ![s][c] = p]
             /\ client' = Hang({live[s][c].plr})
             /\ SetLogin(s, [Result(s, "ok", None) EXCEPT !.usurp = TRUE])
    <3>1. p.plr = None
      BY <1>c DEF Player
    <3>2. \A i \in Clients, t \in Servers :
            /\ i = live[s][c].plr => client'[i] # InGame(t)
            /\ i # live[s][c].plr => (client'[i] = InGame(t) <=> client[i] = InGame(t))
      BY <2>1, HangFacts
    <3>3. \A t \in Servers : login'[t].st = "ok" =>
            /\ login[t].st = "ok" \/ (t = s /\ login[s].c = c)
            /\ login'[t].c = login[t].c
      BY <1>a, <1>o, <2>1
    <3> HIDE DEF c, p
    <3> QED
      BY <1>t, <1>c, <2>1, <3>1, <3>2, <3>3, LinkDetached
  <2>2. CASE /\ SetLogin(s, Result(s, "failed", None))
             /\ UNCHANGED <<live, client>>
    BY <1>t, <1>f, <2>2, LinkStill DEF SameGames
  <2> QED
    BY <1>1, <2>1, <2>2 DEF TickLoginUsurp
<1>2. ASSUME NEW p, live' = [live EXCEPT ![s][c] = p], p.plr = None,
             NEW l, SetLogin(s, l), l.c = c, client' = client,
             login[s].st = "create", ~login[s].current
      PROVE  Linked'
  <2>1. live[s][c].plr \in Clients => ~Untaken(c)
    <3>1. Untaken(c) => ~live[s][c].on
      BY <1>2 DEF IInv, ServerInv, CreateInv
    <3> QED
      BY <1>c, <3>1, ServersAssumption DEF Linked, LinkInv
  <2>2. \A t \in Servers : login'[t].st = "ok" =>
          /\ login[t].st = "ok" \/ (t = s /\ login[s].c = c)
          /\ login'[t].c = login[t].c
    BY <1>2, <1>a
  <2> HIDE DEF c
  <2> QED
    BY <1>t, <1>c, <1>2, <2>1, <2>2, LinkDetached
<1>3. CASE TickLoginCreate(s)
  <2> DEFINE p == [Absent EXCEPT !.on = TRUE, !.data = login[s].data]
  <2>1. p.plr = None
    BY DEF Absent
  <2> HIDE DEF p
  <2> QED
    BY <1>2, <1>3, <1>o, <2>1 DEF TickLoginCreate, Creating, p
<1>4. CASE TickLoginNoSlot(s)
  BY <1>t, <1>f, <1>4, LinkStill DEF TickLoginNoSlot, SameGames
<1>5. CASE TickLoginNoItem(s)
  <2> DEFINE p == [Absent EXCEPT !.on = TRUE,
                                 !.data = [login[s].data EXCEPT !.ver = 0]]
  <2>1. p.plr = None
    BY DEF Absent
  <2>2. live' = [live EXCEPT ![s][c] = p]
    BY <1>5 DEF TickLoginNoItem, Absent
  <2> HIDE DEF p
  <2> QED
    BY <1>2, <1>5, <1>o, <2>1, <2>2 DEF TickLoginNoItem, Creating
<1>6. CASE TickLoginNoRoom(s)
  BY <1>t, <1>f, <1>6, LinkStill DEF TickLoginNoRoom, SameGames
<1> QED
  BY <1>1, <1>3, <1>4, <1>5, <1>6 DEF TickLogin

\* The game keeps the links.
LEMMA GameLinked ==
  ASSUME TypeOK, Grows, Linked, NEW s \in Servers, NEW c \in Chars,
         Game(s, c)
  PROVE  Linked'
<1> DEFINE ply == live[s][c]
<1>p. ply \in Player /\ ply.data \in Data
  BY LiveType, AbsentType DEF Player
<1>1. ASSUME NEW p, live' = [live EXCEPT ![s][c] = p],
             p.plr = ply.plr, p.on = ply.on, UNCHANGED <<login, client>>
      PROVE  Linked'
  <2>1. \A t \in Servers, d \in Chars :
          live'[t][d].plr = live[t][d].plr /\ live'[t][d].on = live[t][d].on
    BY <1>1 DEF TypeOK
  <2> QED
    BY <1>1, <2>1, LinkStill DEF SameGames, NoAnswer
<1>2. CASE Progress(s, c)
  <2> DEFINE p == [ply EXCEPT !.data = [ply.data EXCEPT !.ver = ply.data.ver + 1]]
  <2>1. p.plr = ply.plr /\ p.on = ply.on
    BY <1>p DEF Player
  <2>2. live' = [live EXCEPT ![s][c] = p] /\ UNCHANGED <<login, client>>
    BY <1>2 DEF Progress
  <2> QED
    BY <1>1, <2>1, <2>2
<1>3. CASE Backup(s, c)
  BY <1>3, LinkStill DEF Backup, SameGames, NoAnswer
<1>4. ASSUME NEW m \in Mirrors, ChooseMirror(s, c, m)
      PROVE  Linked'
  <2> DEFINE p == [ply EXCEPT !.data = [ply.data EXCEPT !.mirror = m]]
  <2>1. p.plr = ply.plr /\ p.on = ply.on
    BY <1>p DEF Player
  <2>2. live' = [live EXCEPT ![s][c] = p] /\ UNCHANGED <<login, client>>
    BY <1>4 DEF ChooseMirror
  <2> QED
    BY <1>1, <2>1, <2>2
<1>5. ASSUME NEW area \in Areas, Leave(s, c, area)
      PROVE  Linked'
  <2>1. /\ KickChar(s, c, ply.data, area)
        /\ client' = Hang({ply.plr}) /\ NoAnswer
    BY <1>5 DEF Leave, NoAnswer
  <2> QED
    BY <2>1, HangFacts, KickCharLinked
<1>6. ASSUME NEW area \in Areas, NEW m \in Mirrors, ChangeArea(s, c, area, m)
      PROVE  Linked'
  <2> DEFINE t == GetMirror(s, area, m)
             data == [ply.data EXCEPT !.mirror = m]
  <2>1. /\ KickChar(s, c, data, area)
        /\ client' = IF ply.plr = None THEN client
                     ELSE [client EXCEPT ![ply.plr] = GoTo(t)]
        /\ NoAnswer /\ t \in Servers
    BY <1>6, GetMirrorType DEF ChangeArea, NoAnswer
  <2>2. \A u \in Servers : GoTo(t) # InGame(u)
    BY <2>1, InGameFacts
  <2>3. \A i \in Clients, u \in Servers :
          /\ i = ply.plr => client'[i] # InGame(u)
          /\ i # ply.plr => (client'[i] = InGame(u) <=> client[i] = InGame(u))
    BY <2>1, <2>2, ServersAssumption DEF TypeOK
  <2> HIDE DEF data, t
  <2> QED
    BY <2>1, <2>3, KickCharLinked
<1> QED
  BY <1>2, <1>3, <1>4, <1>5, <1>6 DEF Game

\* The database thread answers no login.
LEMMA DbStepLinked ==
  ASSUME TypeOK, Grows, Linked, NEW s \in Servers,
         DbStep(s) \/ DbWriteAgain(s)
  PROVE  Linked'
<1>1. live' = live /\ client' = client
  BY DEF DbStep, DbWriteAgain, DbWrite, DbLoadRefused, DbLoadElsewhere,
     DbLoadOtherMirror, DbLoadCopy, DbLoadMark, DbRescue, Loading
<1>2. NoAnswer
  <2>1. CASE login' = login
    BY <2>1 DEF NoAnswer
  <2>2. ASSUME NEW to, NEW b,
               \/ SetLogin(s, Result(s, "failed", to))
               \/ SetLogin(s, Result(s, "newarea", to))
               \/ SetLogin(s, [Result(s, "newarea", to) EXCEPT !.current = b])
        PROVE  NoAnswer
    <3>1. /\ Result(s, "failed", to).st = "failed"
          /\ Result(s, "newarea", to).st = "newarea"
          /\ [Result(s, "newarea", to) EXCEPT !.current = b].st = "newarea"
      BY ResultFacts
    <3>2. CASE SetLogin(s, Result(s, "failed", to))
      BY <3>1, <3>2, NoAnswerSet
    <3>3. CASE SetLogin(s, Result(s, "newarea", to))
      BY <3>1, <3>3, NoAnswerSet
    <3>4. CASE SetLogin(s, [Result(s, "newarea", to) EXCEPT !.current = b])
      BY <3>1, <3>4, NoAnswerSet
    <3> QED
      BY <2>2, <3>2, <3>3, <3>4
  <2>3. ASSUME NEW st \in {"mark", "create"}, NEW d, NEW b,
               \/ SetLogin(s, [login[s] EXCEPT !.st = st, !.data = d, !.current = b])
               \/ SetLogin(s, [login[s] EXCEPT !.st = st])
        PROVE  NoAnswer
    <3>1. /\ [login[s] EXCEPT !.st = st, !.data = d, !.current = b].st = st
          /\ [login[s] EXCEPT !.st = st].st = st
      BY LoginFields DEF Login
    <3> QED
      BY <2>3, <3>1, NoAnswerSet
  <2>4. DbLoadRefused(s) \/ DbLoadElsewhere(s) \/ DbLoadOtherMirror(s) => NoAnswer
    BY <2>2 DEF DbLoadRefused, DbLoadElsewhere, DbLoadOtherMirror
  <2>5. DbLoadCopy(s) \/ DbLoadMark(s) => NoAnswer
    BY <2>3 DEF DbLoadCopy, DbLoadMark
  <2>6. DbWrite(s) \/ DbWriteAgain(s) \/ DbRescue(s) => NoAnswer
    BY <2>1 DEF DbWrite, DbWriteAgain, DbRescue
  <2> QED
    BY <2>4, <2>5, <2>6 DEF DbStep
<1> QED
  BY <1>1, <1>2, LinkStill DEF SameGames

\* A process that ends loses its clients and its characters.
LEMMA ProcessEndsLinked ==
  ASSUME TypeOK, Grows, Linked, NEW s \in Servers, ProcessEnds(s)
  PROVE  Linked'
<1> DEFINE ks == {k \in Clients : client[k].at = s}
<1>1. /\ client' = Hang(ks)
      /\ \A c \in Chars : live'[s][c].plr = None
      /\ \A t \in Servers \ {s} : live'[t] = live[t]
  BY DEF ProcessEnds, TypeOK, Absent
<1>2. NoAnswer
  <2>1. Idle(login[s].c).st # "ok"
    BY DEF Idle
  <2> QED
    BY <2>1, NoAnswerSet DEF ProcessEnds
<1>3. \A k \in Clients :
        /\ client'[k] # InGame(s)
        /\ \A t \in Servers \ {s} : client'[k] = InGame(t) <=> client[k] = InGame(t)
  <2>1. \A k \in Clients, t \in Servers \ {s} : client[k] = InGame(t) => k \notin ks
    BY DEF InGame
  <2>2. \A k \in Clients : client[k] = InGame(s) => k \in ks
    BY DEF InGame
  <2> QED
    BY <1>1, <2>1, <2>2, HangFacts
<1>4. \A t \in Servers \ {s} : LinkInv(t)'
  BY <1>1, <1>2, <1>3, LinkOther DEF Linked, NoAnswer
<1>5. LinkInv(s)'
  <2>1. login'[s].st # "ok"
    <3>1. login'[s] = Idle(login[s].c)
      BY SetLoginFacts DEF ProcessEnds
    <3> QED
      BY <3>1 DEF Idle
  <2> QED
    BY <1>1, <1>3, <2>1 DEF LinkInv, InGame
<1> QED
  BY <1>4, <1>5 DEF Linked

\* Every step keeps the links.
LEMMA LinkedStep ==
  ASSUME IInv, Linked, [Next]_vars
  PROVE  Linked'
<1>t. TypeOK /\ Grows
  BY NextGrows DEF IInv
<1>0. ASSUME UNCHANGED <<login, live, client>>
      PROVE  Linked'
  BY <1>t, <1>0, LinkStill DEF SameGames, NoAnswer
<1>1. CASE UNCHANGED vars
  BY <1>0, <1>1 DEF vars
<1>2. ASSUME NEW s \in Servers, LoginAges(s)
      PROVE  Linked'
  <2>1. /\ login'[s] = [login[s] EXCEPT !.stale = TRUE]
        /\ \A t \in Servers \ {s} : login'[t] = login[t]
        /\ UNCHANGED <<live, client>>
    BY <1>t, <1>2, SetLoginFacts DEF LoginAges
  <2>2. login'[s].st = login[s].st /\ login'[s].c = login[s].c
    BY <1>t, <2>1, LoginFields DEF Login
  <2> QED
    BY <1>t, <2>1, <2>2, LinkStill DEF SameGames, NoAnswer
<1>3. ASSUME NEW s \in Servers, ServerLife(s)
      PROVE  Linked'
  <2>1. CASE StopDone(s) \/ Crash(s)
    BY <1>t, <2>1, ProcessEndsLinked DEF StopDone, Crash
  <2>2. CASE \/ AreaAlive(s) \/ GoStale(s) \/ UpdateAreas(s)
             \/ StopBegin(s) \/ Restart(s)
    BY <1>0, <2>2 DEF AreaAlive, GoStale, UpdateAreas, StopBegin, Restart
  <2>3. ASSUME NEW c \in Chars, NEW area \in Areas, ExitOnShutdown(s, c, area)
        PROVE  Linked'
    <3>1. /\ KickChar(s, c, live[s][c].data, area)
          /\ client' = Hang({live[s][c].plr}) /\ NoAnswer
      BY <2>3 DEF ExitOnShutdown, NoAnswer
    <3> QED
      BY <1>t, <3>1, HangFacts, KickCharLinked
  <2> QED
    BY <1>3, <2>1, <2>2, <2>3 DEF ServerLife
<1> QED
  BY <1>t, <1>1, <1>2, <1>3, ClientStepLinked, FindLoginLinked, TickLoginLinked,
     GameLinked, DbStepLinked DEF Next

\* At the start nobody plays.
LEMMA LinkedInit == Init => Linked
<1> SUFFICES ASSUME Init
             PROVE  Linked
  OBVIOUS
<1>1. ASSUME NEW s \in Servers
      PROVE  LinkInv(s)
  <2>1. \A c \in Chars : live[s][c].plr = None
    BY DEF Init, Absent
  <2>2. \A k \in Clients : client[k] # InGame(s)
    BY InGameFacts DEF Init
  <2>3. login[s].st # "ok"
    BY DEF Init, Idle
  <2> QED
    BY <2>1, <2>2, <2>3 DEF LinkInv
<1> QED
  BY <1>1 DEF Linked

\* The message of load_char, "load_char got called but no login is waiting",
\* never appears: find_login queues a load only while no other is on its way.
THEOREM LoadFindsLoginAlways == Spec => []LoadFindsLogin
<1>1. IInv => LoadFindsLogin
  <2> SUFFICES ASSUME IInv, NEW s \in Servers, NEW i \in DOMAIN queue[s],
                      queue[s][i].op = "load"
               PROVE  /\ login[s].st \in {"read", "mark"}
                      /\ login[s].c = queue[s][i].c
                      /\ \A j \in DOMAIN queue[s] : queue[s][j].op = "load" => i = j
    BY DEF LoadFindsLogin
  <2>1. LoadInv(s) /\ TypeOK
    BY DEF IInv, ServerInv
  <2>2. \A j \in DOMAIN queue[s] : j \in Nat
    BY <2>1, QueueType
  <2>3. \A j \in DOMAIN queue[s] : queue[s][j].op = "load" => j <= i /\ i <= j
    BY <2>1 DEF LoadInv
  <2>4. \A j \in DOMAIN queue[s] : queue[s][j].op = "load" => i = j
    BY <2>2, <2>3
  <2> QED
    BY <2>1, <2>4 DEF LoadInv
<1> QED
  BY <1>1, Invariance, PTL

\* Client and character point at each other, so the "character-player link
\* wrong" of kick_player and check_ingame_idle never happens (but to one that
\* was made a second time).
THEOREM PlayerLinkAlways == Spec => []PlayerLink
<1>1. Init => IInv /\ Linked
  BY InductiveInit, LinkedInit
<1>2. IInv /\ Linked /\ [Next]_vars => IInv' /\ Linked'
  BY InductiveStep, LinkedStep
<1>3. IInv /\ Linked => PlayerLink
  BY DEF Linked, LinkInv, PlayerLink, InGame
<1> QED
  BY <1>1, <1>2, <1>3, PTL DEF Spec

-----------------------------------------------------------------------------
(* Moves.                                                                  *)

GivesUp == {"exit", "release"}
Saves   == {"exit", "save"}

\* The queue of s gets no save of c and loses at most its top, which did
\* nothing for c.
QueueKeeps(s, c) ==
  \E k \in {0, 1} :
    /\ \A i \in DOMAIN queue'[s] :
         queue'[s][i].c = c /\ queue'[s][i].op \in Saves =>
           /\ i + k \in DOMAIN queue[s]
           /\ \A j \in 1..i : queue'[s][j] = queue[s][j + k]
    /\ \A i \in DOMAIN queue[s] :
         i > k => i - k \in DOMAIN queue'[s] /\ queue'[s][i - k] = queue[s][i]
    /\ k = 1 => \/ queue[s][1].c # c \/ queue[s][1].op \notin Writes
                \/ row[c].cur # s

LoginKeeps(s, c) ==
  LET l == login[s]
      n == login'[s]
  IN  \/ n.st \notin {"mark", "create", "ok"}
      \/ n.c # c
      \/ /\ n.st = l.st /\ n.c = l.c /\ n.data = l.data
         /\ n.current = l.current /\ n.usurp = l.usurp
      \/ n.st = "mark" /\ row' = row /\ n.data = row[c].data
      \/ /\ n.st = "ok" /\ l.st = "create" /\ n.c = l.c
         /\ ~n.usurp => ~l.current

\* The character goes on, is made or was made for nobody.
LiveKeeps(s, c) ==
  LET p == live[s][c]
      n == live'[s][c]
      l == login[s]
  IN  \/ n.on = p.on /\ n.data.ver >= p.data.ver
      \/ /\ n.on /\ n.data.ver = l.data.ver
         /\ l.st = "create" /\ l.c = c /\ ~l.current
      \/ ~n.on /\ l.st = "ok" /\ l.c = c /\ ~l.usurp

\* The row is not one of s, before or after, or s does not run.
RowKeeps(s, c) ==
  \/ row'[c].cur = row[c].cur /\ row'[c].data = row[c].data
  \/ row[c].cur # s /\ row'[c].cur # s
  \/ up[s] = "down" /\ row'[c].cur # s

\* What a flaw strikes does not keep all of this.
Idles(s, c) ==
  /\ QueueKeeps(s, c)
  /\ LoginKeeps(s, c)
  /\ Intact(c)' => LiveKeeps(s, c)
  /\ Untaken(c)' => RowKeeps(s, c)
  /\ Freed(c)' /\ Holds(s, c) => Holds(s, c)' \/ Queued(s, GivesUp, c)'
  /\ up'[s] # "down" => up[s] # "down"

\* A save or the last save of c is queued.
Stores(s, c) ==
  \E e \in Query :
    /\ queue'[s] = Append(queue[s], e)
    /\ e.c = c /\ e.data.ver = live[s][c].data.ver
    /\ \/ e.op = "save" /\ live'[s][c] = live[s][c] /\ login'[s] = login[s]
       \/ /\ e.op = "exit" /\ ~live'[s][c].on
          /\ login'[s] = login[s] \/ login'[s].st = "empty"
    /\ live[s][c].on /\ up[s] # "down"
    /\ row' = row

\* An update of c finds its row.
Executes(s, c) ==
  LET q == queue[s][1]
  IN  /\ queue[s] # <<>> /\ q.c = c /\ q.op \in Writes
      /\ queue'[s] = queue[s] \/ queue'[s] = Tail(queue[s])
      /\ row[c].cur = s
      /\ row'[c].cur = IF q.op = "save" THEN s ELSE None
      /\ row'[c].data = IF q.op \in Saves THEN q.data ELSE row[c].data
      /\ live'[s] = live[s] /\ login'[s] = login[s]
      /\ up'[s] = up[s] /\ up[s] # "down"

\* load_char marks the row of c.
Marks(s, c) ==
  LET l == login[s]
      n == login'[s]
  IN  /\ queue[s] # <<>> /\ queue[s][1].op = "load"
      /\ queue'[s] = Tail(queue[s])
      /\ l.st = "mark" /\ n.st = "create" /\ l.c = c /\ n.c = c
      /\ n.data = l.data /\ n.current = l.current
      /\ row'[c].cur = s /\ row'[c].data = row[c].data
      /\ Untaken(c)' => AsRead(s, c)
      /\ live'[s] = live[s]
      /\ up'[s] = up[s] /\ up[s] # "down"

Ended(s) ==
  /\ up'[s] = "down" /\ queue'[s] = <<>> /\ login'[s].st = "empty"
  /\ \A c \in Chars : ~live'[s][c].on
  /\ row' = row
  /\ \/ queue[s] = <<>> /\ \A c \in Chars : ~live[s][c].on
     \/ \A c \in Chars : row[c].cur = s => seen'[c] = row[c].data.ver

Started(s) ==
  /\ up[s] = "down"
  /\ queue'[s] = queue[s] /\ login'[s] = login[s] /\ live'[s] = live[s]
  /\ \A c \in Chars : row'[c].cur # s

Move(s, c) == \/ Idles(s, c) \/ Stores(s, c) \/ Executes(s, c)
              \/ Marks(s, c) \/ Ended(s) \/ Started(s)

\* What becomes of the row of c and of what its player has been shown.
Shows(s, c) ==
  /\ row' = row
  /\ live[s][c].on /\ live'[s][c].on
  /\ live'[s][c].plr # None
  /\ live'[s][c].data.ver >= live[s][c].data.ver
  /\ seen'[c] = live'[s][c].data.ver

Frees(s, c) ==
  /\ row[c].cur = s /\ row'[c].cur = None /\ row'[c].data = row[c].data
  /\ up[s] = "down"
  /\ seen'[c] = seen[c]

Loses(s, c) ==
  /\ row' = row
  /\ row[c].cur = s /\ login'[s].st = "empty"
  /\ seen'[c] = row[c].data.ver

BookMove(c) ==
  \/ /\ row'[c].cur = row[c].cur /\ row'[c].data = row[c].data
     /\ seen'[c] = seen[c]
  \/ seen'[c] = seen[c] /\ \E s \in Servers : Executes(s, c) \/ Marks(s, c)
  \/ \E s \in Servers : Shows(s, c) \/ Frees(s, c) \/ Loses(s, c)

Moves == /\ \A s \in Servers, c \in Chars : Move(s, c)
         /\ \A c \in Chars : Untaken(c)' => BookMove(c)

-----------------------------------------------------------------------------
(* The facts follow from the moves.                                        *)

CharInv(s, c) == WriteInv(s, c) /\ HeldInv(s, c)

\* Newest after a step.
NewestNext(s, c, v) ==
  /\ row'[c].data.ver <= v
  /\ \A i \in DOMAIN queue'[s] :
       queue'[s][i].c = c /\ queue'[s][i].op = "save" =>
         queue'[s][i].data.ver <= v

LEMMA HeldNext ==
  ASSUME NEW s \in Servers, NEW c \in Chars,
         live'[s][c].on => NewestNext(s, c, live'[s][c].data.ver),
         login'[s].c = c /\ ~login'[s].current /\ login'[s].st = "create" =>
           NewestNext(s, c, login'[s].data.ver)
  PROVE  HeldInv(s, c)'
BY DEF HeldInv, Newest, NewestNext

\* Versions can be compared.
LEMMA VersionType ==
  ASSUME TypeOK, NEW s \in Servers, NEW c \in Chars
  PROVE  /\ row[c].data.ver \in Int
         /\ live[s][c].data.ver \in Int
         /\ login[s].data.ver \in Int
         /\ seen[c] \in Int
         /\ \A i \in DOMAIN queue[s] : i \in Int /\ i >= 1 /\ queue[s][i].data.ver \in Int
<1>1. \A d \in Data : d.ver \in Int
  BY DEF Data, Versions
<1>2. row[c].data \in Data /\ live[s][c].data \in Data /\ login[s].data \in Data
  BY LoginFields DEF TypeOK, Row, Player
<1>3. \A i \in DOMAIN queue[s] : i \in Int /\ i >= 1 /\ queue[s][i].data \in Data
  BY QueueType DEF Query
<1>4. seen[c] \in Int
  BY DEF TypeOK, Versions
<1> QED
  BY <1>1, <1>2, <1>3, <1>4

\* So can they after a step.
LEMMA VersionTypeNext ==
  ASSUME TypeOK', NEW s \in Servers, NEW c \in Chars
  PROVE  /\ row'[c].data.ver \in Int
         /\ live'[s][c].data.ver \in Int
         /\ login'[s].data.ver \in Int
         /\ seen'[c] \in Int
         /\ \A i \in DOMAIN queue'[s] : i \in Int /\ i >= 1 /\ queue'[s][i].data.ver \in Int
<1>1. \A d \in Data : d.ver \in Int
  BY DEF Data, Versions
<1>2. row'[c].data \in Data /\ live'[s][c].data \in Data /\ login'[s].data \in Data
  BY DEF TypeOK, Row, Player, Login
<1>3. \A i \in DOMAIN queue'[s] : i \in Int /\ i >= 1 /\ queue'[s][i].data \in Data
  <2>1. queue'[s] \in Seq(Query)
    BY DEF TypeOK
  <2>2. \A i \in DOMAIN queue'[s] : i \in Int /\ i >= 1 /\ queue'[s][i] \in Query
    BY <2>1
  <2> QED
    BY <2>2 DEF Query
<1>4. seen'[c] \in Int
  BY DEF TypeOK, Versions
<1> QED
  BY <1>1, <1>2, <1>3, <1>4

\* A query that finds its row is the first of those that give the character
\* up, and saves no less than the row has.
LEMMA ExecutesFacts ==
  ASSUME TypeOK, NEW s \in Servers, NEW c \in Chars, ServerInv(s), CharInv(s, c),
         Untaken(c), Executes(s, c)
  PROVE  /\ row'[c].data.ver >= row[c].data.ver
         /\ 1 \in DOMAIN queue[s]
         /\ \A i \in DOMAIN queue[s] :
              i > 1 /\ queue[s][i].c = c /\ queue[s][1].op \in GivesUp =>
                queue[s][i].op \notin Saves
         /\ queue[s][1].op \in GivesUp => ~Holds(s, c)
<1>1. 1 \in DOMAIN queue[s]
  BY QueueType DEF Executes
<1>2. row'[c].data.ver >= row[c].data.ver
  <2>1. queue[s][1].op \in Saves => row[c].data.ver <= queue[s][1].data.ver
    BY <1>1 DEF CharInv, WriteInv, Executes, Saves
  <2> QED
    BY <2>1, <1>1, VersionType DEF Executes
<1>3. ASSUME NEW i \in DOMAIN queue[s],
             i > 1, queue[s][i].c = c, queue[s][1].op \in GivesUp
      PROVE  queue[s][i].op \notin Saves
  <2>1. 1 \in 1..(i - 1)
    BY <1>3, VersionType
  <2>2. queue[s][i].op # "save"
    BY <1>3, <2>1 DEF CharInv, WriteInv, Executes, GivesUp
  <2>3. queue[s][i].op # "exit"
    BY <1>3, <2>1 DEF ServerInv, GiveUpInv, Executes, GivesUp
  <2> QED
    BY <2>2, <2>3 DEF Saves
<1>4. queue[s][1].op \in GivesUp => ~Holds(s, c)
  BY <1>1 DEF ServerInv, GiveUpInv, Executes, GivesUp
<1> QED
  BY <1>1, <1>2, <1>3, <1>4

\* A row never gets older.
LEMMA RowGrows ==
  ASSUME TypeOK, NEW c \in Chars, Untaken(c),
         \A s \in Servers : ServerInv(s) /\ CharInv(s, c), BookMove(c)
  PROVE  row'[c].data.ver >= row[c].data.ver
<1>1. ASSUME NEW s \in Servers, Executes(s, c)
      PROVE  row'[c].data.ver >= row[c].data.ver
  BY <1>1, ExecutesFacts
<1>2. row[c].data.ver \in Int
  BY DEF TypeOK, Row, Data, Versions
<1>3. \/ row'[c].data = row[c].data
      \/ \E s \in Servers : Executes(s, c)
  BY DEF BookMove, Marks, Shows, Frees, Loses
<1> QED
  BY <1>1, <1>2, <1>3

\* A server that the row does not name has no data of a character.
LEMMA StrangerClaims ==
  ASSUME TypeOK, NEW s \in Servers, NEW c \in Chars, ServerInv(s), CharInv(s, c),
         Untaken(c), row[c].cur # s
  PROVE  /\ ~live[s][c].on
         /\ ~(login[s].st = "create" /\ login[s].c = c /\ ~login[s].current)
         /\ \A i \in DOMAIN queue[s] :
              queue[s][i].c = c => queue[s][i].op # "save"
<1>1. ~Holds(s, c)
  BY DEF ServerInv, LeaseInv
<1> QED
  BY <1>1 DEF Holds, CharInv, WriteInv

\* What a server that idles has is what it had.
LEMMA CharIdles ==
  ASSUME TypeOK, TypeOK', NEW s \in Servers, NEW c \in Chars, ServerInv(s),
         CharInv(s, c), Untaken(c), Untaken(c)', Intact(c)', Idles(s, c),
         row'[c].data.ver >= row[c].data.ver
  PROVE  CharInv(s, c)'
<1> DEFINE l == login[s]
<1>v. /\ row[c].data.ver \in Int /\ row'[c].data.ver \in Int
      /\ live[s][c].data.ver \in Int /\ live'[s][c].data.ver \in Int
      /\ l.data.ver \in Int /\ login'[s].data.ver \in Int
      /\ \A i \in DOMAIN queue[s] : i \in Int /\ i >= 1 /\ queue[s][i].data.ver \in Int
      /\ \A i \in DOMAIN queue'[s] : i \in Int /\ i >= 1 /\ queue'[s][i].data.ver \in Int
  BY VersionType, VersionTypeNext
<1>k. PICK k \in {0, 1} :
        \A i \in DOMAIN queue'[s] :
          queue'[s][i].c = c /\ queue'[s][i].op \in Saves =>
            /\ i + k \in DOMAIN queue[s]
            /\ \A j \in 1..i : queue'[s][j] = queue[s][j + k]
  BY DEF Idles, QueueKeeps
<1>w. \A m \in DOMAIN queue[s] : queue[s][m].c = c /\ queue[s][m].op \in Saves =>
        LET q == queue[s][m]
        IN  /\ row[c].cur = s => row[c].data.ver <= q.data.ver
            /\ \A j \in 1..(m - 1) : queue[s][j].c = c =>
                 /\ queue[s][j].op = "save" => queue[s][j].data.ver <= q.data.ver
                 /\ q.op = "save" => queue[s][j].op \notin {"exit", "release"}
            /\ q.op = "save" => row[c].cur = s
            /\ q.op = "exit" /\ row[c].cur # s => row[c].data.ver >= q.data.ver
  BY DEF CharInv, WriteInv, Saves
<1>q. ASSUME NEW i \in DOMAIN queue'[s], queue'[s][i].c = c,
             queue'[s][i].op \in Saves
      PROVE  \E m \in DOMAIN queue[s] :
               /\ queue'[s][i] = queue[s][m]
               /\ \A j \in 1..(i - 1) : /\ queue'[s][j] = queue[s][j + k]
                                        /\ j + k \in 1..(m - 1)
  <2>1. /\ i + k \in DOMAIN queue[s]
        /\ \A j \in 1..i : queue'[s][j] = queue[s][j + k]
    BY <1>k, <1>q
  <2>2. i \in Int /\ i >= 1 /\ k \in Int /\ k >= 0
    BY <1>v
  <2>3. queue'[s][i] = queue[s][i + k]
    BY <2>1, <2>2
  <2>4. \A j \in 1..(i - 1) : /\ queue'[s][j] = queue[s][j + k]
                              /\ j + k \in 1..((i + k) - 1)
    BY <2>1, <2>2
  <2> QED
    BY <2>1, <2>3, <2>4
<1>1. CASE row'[c].cur = row[c].cur /\ row'[c].data = row[c].data
  <2>1. WriteInv(s, c)'
    <3> SUFFICES ASSUME NEW i \in DOMAIN queue'[s], queue'[s][i].c = c,
                        queue'[s][i].op \in Saves
                 PROVE  LET q == queue'[s][i]
                        IN  /\ row'[c].cur = s => row'[c].data.ver <= q.data.ver
                            /\ \A j \in 1..(i - 1) : queue'[s][j].c = c =>
                                 /\ queue'[s][j].op = "save" => queue'[s][j].data.ver <= q.data.ver
                                 /\ q.op = "save" => queue'[s][j].op \notin {"exit", "release"}
                            /\ q.op = "save" => row'[c].cur = s
                            /\ q.op = "exit" /\ row'[c].cur # s => row'[c].data.ver >= q.data.ver
      BY DEF WriteInv, Saves
    <3>1. PICK m \in DOMAIN queue[s] :
            /\ queue'[s][i] = queue[s][m]
            /\ \A j \in 1..(i - 1) : /\ queue'[s][j] = queue[s][j + k]
                                     /\ j + k \in 1..(m - 1)
      BY <1>q
    <3>2. LET q == queue[s][m]
          IN  /\ row[c].cur = s => row[c].data.ver <= q.data.ver
              /\ \A j \in 1..(m - 1) : queue[s][j].c = c =>
                   /\ queue[s][j].op = "save" => queue[s][j].data.ver <= q.data.ver
                   /\ q.op = "save" => queue[s][j].op \notin {"exit", "release"}
              /\ q.op = "save" => row[c].cur = s
              /\ q.op = "exit" /\ row[c].cur # s => row[c].data.ver >= q.data.ver
      BY <1>w, <3>1
    <3> QED
      BY <1>1, <3>1, <3>2
  <2>2. ASSUME NEW v, Newest(s, c, v)
        PROVE  NewestNext(s, c, v)
    <3>1. \A i \in DOMAIN queue'[s] :
            queue'[s][i].c = c /\ queue'[s][i].op = "save" =>
              \E m \in DOMAIN queue[s] : queue'[s][i] = queue[s][m]
      BY <1>q DEF Saves
    <3> QED
      BY <1>1, <2>2, <3>1 DEF Newest, NewestNext
  <2>3. live'[s][c].on =>
          \/ /\ Newest(s, c, live[s][c].data.ver)
             /\ live'[s][c].data.ver >= live[s][c].data.ver
          \/ Newest(s, c, l.data.ver) /\ live'[s][c].data.ver = l.data.ver
    BY DEF Idles, LiveKeeps, CharInv, HeldInv
  <2>4. live'[s][c].on => NewestNext(s, c, live'[s][c].data.ver)
    <3>1. ASSUME NEW v \in Int, NEW w \in Int, v <= w, Newest(s, c, v)
          PROVE  NewestNext(s, c, w)
      <4>1. NewestNext(s, c, v)
        BY <2>2, <3>1
      <4> QED
        BY <1>v, <3>1, <4>1 DEF NewestNext
    <3> QED
      BY <1>v, <2>3, <3>1
  <2>5. ASSUME login'[s].c = c, ~login'[s].current, login'[s].st = "create"
        PROVE  NewestNext(s, c, login'[s].data.ver)
    <3>1. /\ l.st = "create" /\ l.c = c /\ login'[s].data = l.data
          /\ ~l.current
      BY <2>5 DEF Idles, LoginKeeps
    <3> QED
      BY <2>2, <3>1 DEF CharInv, HeldInv
  <2> QED
    BY <2>1, <2>4, <2>5, HeldNext DEF CharInv
<1>n. ASSUME ~live[s][c].on,
             ~(l.st = "create" /\ l.c = c /\ ~l.current)
      PROVE  HeldInv(s, c)'
  <2>1. ~live'[s][c].on
    BY <1>n DEF Idles, LiveKeeps
  <2>2. ~(login'[s].c = c /\ ~login'[s].current /\ login'[s].st = "create")
    BY <1>n DEF Idles, LoginKeeps
  <2> QED
    BY <2>1, <2>2 DEF HeldInv
<1>2. CASE row[c].cur # s /\ row'[c].cur # s
  <2>1. /\ ~live[s][c].on
        /\ ~(l.st = "create" /\ l.c = c /\ ~l.current)
        /\ \A i \in DOMAIN queue[s] : queue[s][i].c = c => queue[s][i].op # "save"
    BY <1>2, StrangerClaims
  <2>2. HeldInv(s, c)'
    BY <1>2, <1>n, <2>1
  <2>3. WriteInv(s, c)'
    <3> SUFFICES ASSUME NEW i \in DOMAIN queue'[s], queue'[s][i].c = c,
                        queue'[s][i].op \in Saves
                 PROVE  /\ queue'[s][i].op # "save"
                        /\ row'[c].data.ver >= queue'[s][i].data.ver
                        /\ \A j \in 1..(i - 1) : queue'[s][j].c = c => queue'[s][j].op # "save"
      BY <1>2 DEF WriteInv, Saves
    <3>1. PICK m \in DOMAIN queue[s] :
            /\ queue'[s][i] = queue[s][m]
            /\ \A j \in 1..(i - 1) : /\ queue'[s][j] = queue[s][j + k]
                                     /\ j + k \in 1..(m - 1)
      BY <1>q
    <3>2. \A j \in 1..(m - 1) : j \in DOMAIN queue[s]
      <4>1. queue[s] \in Seq(Query)
        BY QueueType
      <4> QED
        BY <4>1
    <3>3. row[c].data.ver >= queue[s][m].data.ver
      BY <1>2, <1>w, <2>1, <3>1 DEF Saves
    <3> QED
      BY <1>v, <2>1, <3>1, <3>2, <3>3 DEF Saves
  <2> QED
    BY <2>2, <2>3 DEF CharInv
<1>3. CASE up[s] = "down" /\ row'[c].cur # s
  <2>1. ~live[s][c].on /\ login[s].st = "empty" /\ queue[s] = <<>>
    BY <1>3 DEF ServerInv, DownInv
  <2>2. HeldInv(s, c)'
    BY <1>n, <2>1
  <2>3. \A i \in DOMAIN queue'[s] :
          queue'[s][i].c = c => queue'[s][i].op \notin Saves
    BY <1>q, <2>1
  <2> QED
    BY <2>2, <2>3 DEF CharInv, WriteInv, Saves
<1> QED
  BY <1>1, <1>2, <1>3 DEF Idles, RowKeeps

\* A save that is queued has what the game has.
LEMMA CharStores ==
  ASSUME TypeOK, TypeOK', NEW s \in Servers, NEW c \in Chars, ServerInv(s),
         CharInv(s, c), Untaken(c), Stores(s, c)
  PROVE  CharInv(s, c)'
<1>v. /\ row[c].data.ver \in Int /\ live[s][c].data.ver \in Int
      /\ \A i \in DOMAIN queue[s] : i \in Int /\ i >= 1 /\ queue[s][i].data.ver \in Int
  BY VersionType
<1>1. PICK e \in Query :
        /\ queue'[s] = Append(queue[s], e)
        /\ e.c = c /\ e.data.ver = live[s][c].data.ver
        /\ \/ e.op = "save" /\ live'[s][c] = live[s][c] /\ login'[s] = login[s]
           \/ /\ e.op = "exit" /\ ~live'[s][c].on
              /\ login'[s] = login[s] \/ login'[s].st = "empty"
  BY DEF Stores
<1>2. live[s][c].on /\ up[s] # "down" /\ row' = row
  BY DEF Stores
<1>3. /\ row[c].cur = s
     
      /\ ~(login[s].st = "create" /\ ~login[s].current /\ login[s].c = c)
      /\ \A i \in DOMAIN queue[s] : queue[s][i].c = c => queue[s][i].op \notin {"exit", "release"}
  BY <1>2 DEF ServerInv, LeaseInv, CreateInv, GiveUpInv, Holds
<1>4. Newest(s, c, live[s][c].data.ver)
  BY <1>2 DEF CharInv, HeldInv
<1>q. /\ \A i \in DOMAIN queue'[s] :
           /\ i \in Nat
           /\ \/ i \in DOMAIN queue[s] /\ queue'[s][i] = queue[s][i]
              \/ i = Len(queue[s]) + 1 /\ queue'[s][i] = e
      /\ \A j \in DOMAIN queue[s] : j \in Nat /\ j <= Len(queue[s])
      /\ Len(queue[s]) \in Nat
      /\ \A i \in DOMAIN queue'[s] : \A j \in 1..(i - 1) :
           j \in DOMAIN queue[s] /\ queue'[s][j] = queue[s][j]
  <2>1. queue[s] \in Seq(Query)
    BY QueueType
  <2>2. \A i \in DOMAIN queue'[s] : \A j \in 1..(i - 1) :
          j \in DOMAIN queue[s] /\ queue'[s][j] = queue[s][j]
    BY <1>1, <2>1
  <2> QED
    BY <1>1, <2>2, AppendFacts
<1>5. WriteInv(s, c)'
  <2> SUFFICES ASSUME NEW i \in DOMAIN queue'[s], queue'[s][i].c = c,
                      queue'[s][i].op \in Saves
               PROVE  LET q == queue'[s][i]
                      IN  /\ row'[c].cur = s => row'[c].data.ver <= q.data.ver
                          /\ \A j \in 1..(i - 1) : queue'[s][j].c = c =>
                               /\ queue'[s][j].op = "save" => queue'[s][j].data.ver <= q.data.ver
                               /\ q.op = "save" => queue'[s][j].op \notin {"exit", "release"}
                          /\ q.op = "save" => row'[c].cur = s
                          /\ q.op = "exit" /\ row'[c].cur # s => row'[c].data.ver >= q.data.ver
    BY DEF WriteInv, Saves
  <2>1. CASE i \in DOMAIN queue[s] /\ queue'[s][i] = queue[s][i]
    <3>1. LET q == queue[s][i]
          IN  /\ row[c].cur = s => row[c].data.ver <= q.data.ver
              /\ \A j \in 1..(i - 1) : queue[s][j].c = c =>
                   /\ queue[s][j].op = "save" => queue[s][j].data.ver <= q.data.ver
                   /\ q.op = "save" => queue[s][j].op \notin {"exit", "release"}
              /\ q.op = "save" => row[c].cur = s
              /\ q.op = "exit" /\ row[c].cur # s => row[c].data.ver >= q.data.ver
      BY <2>1 DEF CharInv, WriteInv, Saves
    <3>2. \A j \in 1..(i - 1) : queue'[s][j] = queue[s][j]
      BY <1>q
    <3> QED
      BY <1>2, <2>1, <3>1, <3>2
  <2>2. CASE queue'[s][i] = e
    <3>1. row[c].data.ver <= e.data.ver
      BY <1>1, <1>4 DEF Newest
    <3>2. ASSUME NEW j \in 1..(i - 1), queue'[s][j].c = c
          PROVE  /\ queue'[s][j].op = "save" => queue'[s][j].data.ver <= e.data.ver
                 /\ queue'[s][j].op \notin {"exit", "release"}
      <4>1. j \in DOMAIN queue[s] /\ queue'[s][j] = queue[s][j]
        BY <1>q
      <4> QED
        BY <1>1, <1>3, <1>4, <3>2, <4>1 DEF Newest
    <3> QED
      BY <1>2, <1>3, <2>2, <3>1, <3>2
  <2> QED
    BY <1>q, <2>1, <2>2
<1>6. live'[s][c].on => NewestNext(s, c, live'[s][c].data.ver)
  <2> SUFFICES ASSUME live'[s][c].on
               PROVE  NewestNext(s, c, live[s][c].data.ver) /\ live'[s][c] = live[s][c]
    OBVIOUS
  <2>1. live'[s][c] = live[s][c]
    BY <1>1
  <2>2. \A i \in DOMAIN queue'[s] : queue'[s][i].c = c /\ queue'[s][i].op = "save" =>
          queue'[s][i].data.ver <= live[s][c].data.ver
    BY <1>1, <1>4, <1>q, <1>v DEF Newest
  <2> QED
    BY <1>2, <1>4, <2>1, <2>2 DEF Newest, NewestNext
<1>7. ~(login'[s].c = c /\ ~login'[s].current /\ login'[s].st = "create")
  BY <1>1, <1>3
<1> QED
  BY <1>5, <1>6, <1>7, HeldNext DEF CharInv

\* After an update of the row what is left is as new.
LEMMA CharExecutes ==
  ASSUME TypeOK, TypeOK', NEW s \in Servers, NEW c \in Chars, ServerInv(s),
         CharInv(s, c), Untaken(c), Executes(s, c)
  PROVE  CharInv(s, c)'
<1> DEFINE top == queue[s][1]
<1>1. /\ top.c = c /\ top.op \in Writes
      /\ queue'[s] = queue[s] \/ queue'[s] = Tail(queue[s])
      /\ row[c].cur = s
      /\ row'[c].cur = IF top.op = "save" THEN s ELSE None
      /\ row'[c].data = IF top.op \in Saves THEN top.data ELSE row[c].data
      /\ live'[s] = live[s] /\ login'[s] = login[s]
      /\ queue[s] # <<>> /\ up[s] # "down"
  BY DEF Executes
<1>2. /\ row'[c].data.ver >= row[c].data.ver
      /\ 1 \in DOMAIN queue[s]
      /\ \A i \in DOMAIN queue[s] :
           i > 1 /\ queue[s][i].c = c /\ top.op \in GivesUp => queue[s][i].op \notin Saves
      /\ top.op \in GivesUp => ~Holds(s, c)
  BY ExecutesFacts
<1>v. /\ row[c].data.ver \in Int /\ row'[c].data.ver \in Int
      /\ live[s][c].data.ver \in Int /\ login[s].data.ver \in Int
      /\ \A i \in DOMAIN queue[s] : i \in Int /\ i >= 1 /\ queue[s][i].data.ver \in Int
  BY VersionType, VersionTypeNext
<1>q. \E k \in {0, 1} : \A i \in DOMAIN queue'[s] :
        /\ i + k \in DOMAIN queue[s] /\ i \in Int /\ i >= 1
        /\ queue'[s][i] = queue[s][i + k]
        /\ \A j \in 1..(i - 1) : /\ queue'[s][j] = queue[s][j + k]
                                 /\ j + k \in 1..((i + k) - 1)
  <2>1. queue[s] \in Seq(Query)
    BY QueueType
  <2>2. CASE queue'[s] = queue[s]
    <3>1. \A i \in DOMAIN queue'[s] :
            /\ i + 0 \in DOMAIN queue[s] /\ i \in Int /\ i >= 1
            /\ queue'[s][i] = queue[s][i + 0]
            /\ \A j \in 1..(i - 1) : /\ queue'[s][j] = queue[s][j + 0]
                                     /\ j + 0 \in 1..((i + 0) - 1)
      BY <2>1, <2>2
    <3> QED
      BY <3>1
  <2>3. CASE queue'[s] = Tail(queue[s])
    <3>1. \A i \in DOMAIN queue'[s] :
            /\ i + 1 \in DOMAIN queue[s] /\ i \in Int /\ i >= 1
            /\ queue'[s][i] = queue[s][i + 1]
            /\ \A j \in 1..(i - 1) : /\ queue'[s][j] = queue[s][j + 1]
                                     /\ j + 1 \in 1..((i + 1) - 1)
      BY <1>1, <2>1, <2>3
    <3> QED
      BY <3>1
  <2> QED
    BY <1>1, <2>2, <2>3
<1>w. \A m \in DOMAIN queue[s] : queue[s][m].c = c /\ queue[s][m].op \in Saves =>
        LET q == queue[s][m]
        IN  /\ row[c].data.ver <= q.data.ver
            /\ \A j \in 1..(m - 1) : queue[s][j].c = c =>
                 /\ queue[s][j].op = "save" => queue[s][j].data.ver <= q.data.ver
                 /\ q.op = "save" => queue[s][j].op \notin {"exit", "release"}
  BY <1>1 DEF CharInv, WriteInv, Saves
<1>3. WriteInv(s, c)'
  <2> SUFFICES ASSUME NEW i \in DOMAIN queue'[s], queue'[s][i].c = c,
                      queue'[s][i].op \in Saves
               PROVE  LET q == queue'[s][i]
                      IN  /\ row'[c].cur = s => row'[c].data.ver <= q.data.ver
                          /\ \A j \in 1..(i - 1) : queue'[s][j].c = c =>
                               /\ queue'[s][j].op = "save" => queue'[s][j].data.ver <= q.data.ver
                               /\ q.op = "save" => queue'[s][j].op \notin {"exit", "release"}
                          /\ q.op = "save" => row'[c].cur = s
                          /\ q.op = "exit" /\ row'[c].cur # s => row'[c].data.ver >= q.data.ver
    BY DEF WriteInv, Saves
  <2>1. PICK k \in {0, 1}, m \in DOMAIN queue[s] :
          /\ queue'[s][i] = queue[s][m] /\ m = i + k
          /\ \A j \in 1..(i - 1) : /\ queue'[s][j] = queue[s][j + k]
                                   /\ j + k \in 1..(m - 1)
    BY <1>q
  <2>2. LET q == queue[s][m]
        IN  /\ row[c].data.ver <= q.data.ver
            /\ \A j \in 1..(m - 1) : queue[s][j].c = c =>
                 /\ queue[s][j].op = "save" => queue[s][j].data.ver <= q.data.ver
                 /\ q.op = "save" => queue[s][j].op \notin {"exit", "release"}
    BY <1>w, <2>1
  <2>3. CASE top.op = "save"
    <3>1. m = 1 \/ 1 \in 1..(m - 1)
      BY <1>v
    <3>2. top.data.ver <= queue[s][m].data.ver
      BY <1>1, <1>v, <1>2, <2>2, <2>3, <3>1
    <3>3. row'[c].cur = s /\ row'[c].data.ver <= queue'[s][i].data.ver
      BY <1>1, <2>1, <2>3, <3>2 DEF Saves
    <3> QED
      BY <1>1, <2>1, <2>2, <3>3
  <2>4. CASE top.op \in GivesUp
    <3>1. m = 1
      BY <1>2, <1>v, <2>1, <2>4
    <3>2. queue[s][m].op = "exit" /\ row'[c].data = top.data
      BY <1>1, <2>1, <2>4, <3>1 DEF Saves, GivesUp
    <3>3. row'[c].cur # s
      BY <1>1, <2>1, <3>1, <3>2, ServerType
    <3>4. \A j \in 1..(i - 1) : FALSE
      BY <2>1, <3>1
    <3> QED
      BY <1>v, <2>1, <3>1, <3>2, <3>3, <3>4
  <2> QED
    BY <1>1, <2>3, <2>4 DEF Writes, GivesUp
<1>4. ASSUME NEW v \in Int, Newest(s, c, v), top.op \in GivesUp => FALSE
      PROVE  NewestNext(s, c, v)
  <2>1. \A i \in DOMAIN queue'[s] : \E m \in DOMAIN queue[s] : queue'[s][i] = queue[s][m]
    BY <1>q
  <2>2. row'[c].data.ver <= v
    <3>1. top.op = "save" /\ row'[c].data = top.data
      BY <1>1, <1>4 DEF Writes, GivesUp, Saves
    <3> QED
      BY <1>1, <1>2, <1>4, <3>1 DEF Newest
  <2> QED
    BY <1>4, <2>1, <2>2 DEF Newest, NewestNext
<1>5. live'[s][c].on => NewestNext(s, c, live'[s][c].data.ver)
  <2>1. live[s][c].on => ~(top.op \in GivesUp) /\ Newest(s, c, live[s][c].data.ver)
    BY <1>2 DEF Holds, CharInv, HeldInv
  <2> QED
    BY <1>1, <1>4, <1>v, <2>1
<1>6. ASSUME login'[s].c = c, ~login'[s].current, login'[s].st = "create"
      PROVE  NewestNext(s, c, login'[s].data.ver)
  <2>1. ~(top.op \in GivesUp) /\ Newest(s, c, login[s].data.ver)
    BY <1>1, <1>2, <1>6 DEF Holds, CharInv, HeldInv
  <2> QED
    BY <1>1, <1>4, <1>v, <2>1
<1> QED
  BY <1>3, <1>5, <1>6, HeldNext DEF CharInv

\* Nothing was saved between copying the row and marking it.
LEMMA CharMarks ==
  ASSUME TypeOK, TypeOK', NEW s \in Servers, NEW c \in Chars, ServerInv(s),
         CharInv(s, c), Untaken(c), Untaken(c)', Marks(s, c)
  PROVE  CharInv(s, c)'
<1>1. /\ queue[s] # <<>> /\ queue[s][1].op = "load"
      /\ queue'[s] = Tail(queue[s])
      /\ login[s].st = "mark" /\ login'[s].st = "create"
      /\ login[s].c = c /\ login'[s].c = c
      /\ login'[s].data = login[s].data /\ login'[s].current = login[s].current
      /\ row'[c].cur = s /\ row'[c].data = row[c].data
      /\ live'[s] = live[s]
  BY DEF Marks
<1>v. /\ row[c].data.ver \in Int
      /\ \A i \in DOMAIN queue[s] : i \in Int /\ i >= 1 /\ queue[s][i].data.ver \in Int
  BY VersionType
<1>2. /\ row[c].cur = IF login[s].current THEN s ELSE None
      /\ row[c].data = login[s].data
  BY DEF Marks, AsRead
<1>q. \A i \in DOMAIN queue'[s] :
        /\ i + 1 \in DOMAIN queue[s] /\ i \in Int /\ i >= 1
        /\ queue'[s][i] = queue[s][i + 1]
        /\ \A j \in 1..(i - 1) : /\ queue'[s][j] = queue[s][j + 1]
                                 /\ j + 1 \in 1..((i + 1) - 1)
  <2>1. queue[s] \in Seq(Query)
    BY QueueType
  <2> QED
    BY <1>1, <2>1
<1>3. \A i \in DOMAIN queue[s] : queue[s][i].c = c /\ queue[s][i].op \in Saves => row[c].cur = s
  <2>1. ASSUME NEW i \in DOMAIN queue[s], queue[s][i].c = c, queue[s][i].op = "exit"
        PROVE  row[c].cur = s
    <3>1. i > 1
      BY <1>1, <1>v, <2>1
    <3> QED
      BY <2>1, <3>1 DEF ServerInv, GiveUpInv
  <2> QED
    BY <2>1 DEF CharInv, WriteInv, Saves
<1>4. WriteInv(s, c)'
  <2> SUFFICES ASSUME NEW i \in DOMAIN queue'[s], queue'[s][i].c = c,
                      queue'[s][i].op \in Saves
               PROVE  LET q == queue'[s][i]
                      IN  /\ row'[c].cur = s => row'[c].data.ver <= q.data.ver
                          /\ \A j \in 1..(i - 1) : queue'[s][j].c = c =>
                               /\ queue'[s][j].op = "save" => queue'[s][j].data.ver <= q.data.ver
                               /\ q.op = "save" => queue'[s][j].op \notin {"exit", "release"}
                          /\ q.op = "save" => row'[c].cur = s
                          /\ q.op = "exit" /\ row'[c].cur # s => row'[c].data.ver >= q.data.ver
    BY DEF WriteInv, Saves
  <2>1. PICK m \in DOMAIN queue[s] :
          /\ queue'[s][i] = queue[s][m]
          /\ \A j \in 1..(i - 1) : /\ queue'[s][j] = queue[s][j + 1]
                                   /\ j + 1 \in 1..(m - 1)
    BY <1>q
  <2>2. row[c].cur = s
    BY <1>3, <2>1
  <2>3. LET q == queue[s][m]
        IN  /\ row[c].cur = s => row[c].data.ver <= q.data.ver
            /\ \A j \in 1..(m - 1) : queue[s][j].c = c =>
                 /\ queue[s][j].op = "save" => queue[s][j].data.ver <= q.data.ver
                 /\ q.op = "save" => queue[s][j].op \notin {"exit", "release"}
            /\ q.op = "save" => row[c].cur = s
    BY <2>1 DEF CharInv, WriteInv, Saves
  <2> QED
    BY <1>1, <2>1, <2>2, <2>3
<1>5. ASSUME NEW v, Newest(s, c, v)
      PROVE  NewestNext(s, c, v)
  <2>1. \A i \in DOMAIN queue'[s] : \E m \in DOMAIN queue[s] : queue'[s][i] = queue[s][m]
    BY <1>q
  <2> QED
    BY <1>1, <1>5, <2>1 DEF Newest, NewestNext
<1>6. live'[s][c].on => NewestNext(s, c, live'[s][c].data.ver)
  BY <1>1, <1>5 DEF CharInv, HeldInv
<1>7. ASSUME ~login'[s].current
      PROVE  NewestNext(s, c, login'[s].data.ver)
  <2>1. row[c].cur # s
    BY <1>1, <1>2, <1>7, ServerType
  <2>2. \A i \in DOMAIN queue[s] : queue[s][i].c = c => queue[s][i].op # "save"
    BY <1>3, <2>1 DEF Saves
  <2>3. Newest(s, c, login[s].data.ver)
    BY <1>2, <1>v, <2>2 DEF Newest
  <2> QED
    BY <1>1, <1>5, <2>3
<1> QED
  BY <1>1, <1>4, <1>6, <1>7, HeldNext DEF CharInv

\* A server that ends or starts has nothing.
LEMMA CharEnds ==
  ASSUME NEW s \in Servers, NEW c \in Chars, ServerInv(s), Ended(s) \/ Started(s)
  PROVE  CharInv(s, c)'
<1>1. /\ queue'[s] = <<>> /\ ~live'[s][c].on
      /\ login'[s].st # "create"
  BY DEF Ended, Started, ServerInv, DownInv
<1> QED
  BY <1>1 DEF CharInv, WriteInv, HeldInv

\* Every move keeps what is known of saves.
LEMMA CharMoves ==
  ASSUME TypeOK, TypeOK', NEW s \in Servers, NEW c \in Chars,
         Untaken(c), Untaken(c)', Intact(c)',
         \A t \in Servers : ServerInv(t) /\ CharInv(t, c),
         Move(s, c), BookMove(c)
  PROVE  CharInv(s, c)'
<1>1. row'[c].data.ver >= row[c].data.ver
  BY RowGrows
<1> QED
  BY <1>1, CharIdles, CharStores, CharExecutes, CharMarks, CharEnds DEF Move

-----------------------------------------------------------------------------

\* Queries that stay in the queue.
LEMMA GivesUpKept ==
  ASSUME TypeOK, NEW s \in Servers, NEW c \in Chars,
         NEW i \in DOMAIN queue[s], queue[s][i].c = c, queue[s][i].op \in GivesUp,
         row[c].cur = s,
         \/ QueueKeeps(s, c)
         \/ \E e : queue'[s] = Append(queue[s], e)
         \/ queue'[s] = queue[s]
         \/ queue'[s] = Tail(queue[s]) /\ queue[s][1].op \notin GivesUp
  PROVE  \E j \in DOMAIN queue'[s] : queue'[s][j] = queue[s][i]
<1>1. queue[s] \in Seq(Query) /\ i \in Int /\ i >= 1
  BY QueueType
<1>2. CASE QueueKeeps(s, c)
  <2>1. PICK k \in {0, 1} :
          /\ \A j \in DOMAIN queue[s] :
               j > k => j - k \in DOMAIN queue'[s] /\ queue'[s][j - k] = queue[s][j]
          /\ k = 1 => \/ queue[s][1].c # c \/ queue[s][1].op \notin Writes
                      \/ row[c].cur # s
    BY <1>2 DEF QueueKeeps
  <2>2. i > k
    <3>1. k = 1 => i # 1
      BY <2>1 DEF GivesUp, Writes
    <3> QED
      BY <1>1, <3>1
  <2> QED
    BY <2>1, <2>2
<1>3. CASE queue'[s] = Tail(queue[s]) /\ queue[s][1].op \notin GivesUp
  <2>1. i > 1
    BY <1>1, <1>3
  <2>2. i - 1 \in DOMAIN queue'[s] /\ queue'[s][i - 1] = queue[s][i]
    BY <1>1, <1>3, <2>1
  <2> QED
    BY <2>2
<1>4. ASSUME NEW e, queue'[s] = Append(queue[s], e)
      PROVE  i \in DOMAIN queue'[s] /\ queue'[s][i] = queue[s][i]
  BY <1>1, <1>4
<1> QED
  BY <1>2, <1>3, <1>4

\* A server that runs has what is marked for it, after every move.
LEMMA AccountMoves ==
  ASSUME TypeOK, NEW s \in Servers, ServerInv(s), AccountInv(s),
         \A c \in Chars : Move(s, c), Grows
  PROVE  AccountInv(s)'
<1> SUFFICES ASSUME up'[s] # "down", NEW c \in Chars, Freed(c)', row'[c].cur = s
             PROVE  Holds(s, c)' \/ Queued(s, GivesUp, c)'
  BY DEF AccountInv, GivesUp
<1>q. ASSUME Queued(s, GivesUp, c), row[c].cur = s,
             \/ QueueKeeps(s, c)
             \/ \E e : queue'[s] = Append(queue[s], e)
             \/ queue'[s] = queue[s]
             \/ queue'[s] = Tail(queue[s]) /\ queue[s][1].op \notin GivesUp
      PROVE  Queued(s, GivesUp, c)'
  BY <1>q, GivesUpKept DEF Queued
<1>f. Untaken(c)' /\ Freed(c)
  BY DEF Grows, Freed
<1>a. up[s] # "down" /\ row[c].cur = s => Holds(s, c) \/ Queued(s, GivesUp, c)
  BY <1>f DEF AccountInv, GivesUp
<1>1. CASE Idles(s, c)
  <2>1. row[c].cur = s /\ up[s] # "down"
    BY <1>1, <1>f DEF Idles, RowKeeps
  <2> QED
    BY <1>1, <1>a, <1>q, <2>1 DEF Idles
<1>2. CASE Stores(s, c)
  <2>1. PICK e \in Query :
          /\ queue'[s] = Append(queue[s], e) /\ e.c = c
          /\ \/ e.op = "save" /\ live'[s][c] = live[s][c] /\ login'[s] = login[s]
             \/ e.op = "exit"
    BY <1>2 DEF Stores
  <2>2. live[s][c].on
    BY <1>2 DEF Stores
  <2>3. CASE e.op = "exit"
    <3>1. \E i \in DOMAIN queue'[s] : queue'[s][i] = e
      <4>1. queue[s] \in Seq(Query)
        BY QueueType
      <4>2. /\ Len(queue[s]) + 1 \in DOMAIN queue'[s]
            /\ queue'[s][Len(queue[s]) + 1] = e
        BY <2>1, <4>1
      <4> QED
        BY <4>2
    <3> QED
      BY <2>1, <2>3, <3>1 DEF Queued, GivesUp
  <2> QED
    BY <2>1, <2>2, <2>3 DEF Holds
<1>3. CASE Executes(s, c)
  <2>1. queue[s][1].op = "save"
    BY <1>3, ServerType DEF Executes
  <2>2. Holds(s, c) => Holds(s, c)'
    BY <1>3 DEF Executes, Holds
  <2> QED
    BY <1>3, <1>a, <1>q, <2>1, <2>2 DEF Executes, GivesUp
<1>4. CASE Marks(s, c)
  <2>1. row[c].cur = IF login[s].current THEN s ELSE None
    BY <1>4, <1>f DEF Marks, AsRead
  <2>2. CASE login[s].current
    <3>1. Holds(s, c) => Holds(s, c)'
      BY <1>4, <2>2 DEF Marks, Holds
    <3> QED
      BY <1>4, <1>a, <1>q, <2>1, <2>2, <3>1 DEF Marks, GivesUp
  <2>3. CASE ~login[s].current
    BY <1>4, <2>3 DEF Marks, Holds
  <2> QED
    BY <2>2, <2>3
<1>5. CASE Ended(s) \/ Started(s)
  BY <1>5 DEF Ended, Started
<1> QED
  BY <1>1, <1>2, <1>3, <1>4, <1>5 DEF Move

-----------------------------------------------------------------------------

\* A character that its server gives up has all its player has been shown in
\* the update that gives it up, or in its row already.
LEMMA SeenGivenUp ==
  ASSUME TypeOK, NEW s \in Servers, NEW c \in Chars, ServerInv(s), CharInv(s, c),
         Untaken(c), SeenInv(c), Executes(s, c), queue[s][1].op \in GivesUp
  PROVE  seen[c] <= row'[c].data.ver
<1>1. /\ row'[c].data.ver >= row[c].data.ver
      /\ 1 \in DOMAIN queue[s]
      /\ \A i \in DOMAIN queue[s] :
           i > 1 /\ queue[s][i].c = c => queue[s][i].op \notin Saves
      /\ ~live[s][c].on
  BY ExecutesFacts DEF Holds
<1>v. /\ row[c].data.ver \in Int /\ seen[c] \in Int
      /\ \A i \in DOMAIN queue[s] : i \in Int /\ i >= 1 /\ queue[s][i].data.ver \in Int
  BY VersionType
<1>w. row'[c].data.ver \in Int
  BY <1>v, <1>1 DEF Executes
<1>2. row[c].cur = s
  BY DEF Executes
<1>3. CASE seen[c] <= row[c].data.ver
  BY <1>1, <1>3, <1>v, <1>w
<1>4. ASSUME NEW i \in DOMAIN queue[s], queue[s][i].op = "exit",
             queue[s][i].c = c, seen[c] <= queue[s][i].data.ver
      PROVE  seen[c] <= row'[c].data.ver
  <2>1. i = 1
    BY <1>1, <1>4, <1>v DEF Saves
  <2> QED
    BY <1>4, <2>1 DEF Executes, Saves
<1> QED
  BY <1>1, <1>2, <1>3, <1>4 DEF SeenInv

\* So has one whose server does not run.
LEMMA SeenFreed ==
  ASSUME TypeOK, NEW s \in Servers, NEW c \in Chars, ServerInv(s), CharInv(s, c),
         SeenInv(c), Frees(s, c)
  PROVE  seen[c] <= row[c].data.ver
<1>1. ~live[s][c].on /\ queue[s] = <<>>
  BY DEF Frees, ServerInv, DownInv
<1> QED
  BY <1>1 DEF Frees, SeenInv

\* While a character is in a game its player has seen no more of it.
LEMMA SeenHeld ==
  ASSUME TypeOK, NEW s \in Servers, NEW c \in Chars, ServerInv(s), CharInv(s, c),
         Untaken(c), SeenInv(c), Holds(s, c)
  PROVE  \/ seen[c] <= row[c].data.ver
         \/ live[s][c].on /\ seen[c] <= live[s][c].data.ver
<1>1. row[c].cur = s
  BY DEF ServerInv, LeaseInv
<1>2. \A i \in DOMAIN queue[s] : queue[s][i].c = c => queue[s][i].op # "exit"
  BY DEF ServerInv, GiveUpInv
<1> QED
  BY <1>1, <1>2 DEF SeenInv

\* Every move keeps what a player has been shown where it is.
LEMMA SeenMoves ==
  ASSUME TypeOK, TypeOK', NEW c \in Chars,
         Untaken(c), Untaken(c)', Intact(c), Intact(c)',
         \A t \in Servers : ServerInv(t) /\ CharInv(t, c) /\ UnseenInv(t),
         SeenInv(c), BookMove(c), \A t \in Servers : Move(t, c)
  PROVE  SeenInv(c)'
<1>g. row'[c].data.ver >= row[c].data.ver
  BY RowGrows
<1>v. \A s \in Servers :
        /\ row[c].data.ver \in Int /\ row'[c].data.ver \in Int
        /\ seen[c] \in Int /\ seen'[c] \in Int
        /\ live[s][c].data.ver \in Int /\ live'[s][c].data.ver \in Int
        /\ \A i \in DOMAIN queue[s] : queue[s][i].data.ver \in Int
  BY VersionType, VersionTypeNext
<1>1. ASSUME NEW s \in Servers, row[c].cur = s, row'[c].cur = s,
             seen'[c] = seen[c]
      PROVE  SeenInv(c)'
  <2>0. CASE seen[c] <= row[c].data.ver
    <3>1. seen'[c] <= row'[c].data.ver
      BY <1>1, <1>g, <1>v, <2>0
    <3> QED
      BY <3>1 DEF SeenInv
  <2>t. s # None
    BY ServerType
  <2>o. ASSUME live'[s][c].on, seen[c] <= live'[s][c].data.ver
        PROVE  SeenInv(c)'
    BY <1>1, <2>t, <2>o DEF SeenInv
  <2>x. ASSUME NEW j \in DOMAIN queue'[s], queue'[s][j].op = "exit",
               queue'[s][j].c = c, seen[c] <= queue'[s][j].data.ver
        PROVE  SeenInv(c)'
    BY <1>1, <2>t, <2>x DEF SeenInv
  <2>1. CASE live[s][c].on /\ seen[c] <= live[s][c].data.ver
    <3>1. CASE Idles(s, c)
      <4>1. LiveKeeps(s, c)
        BY <3>1 DEF Idles
      <4>2. CASE ~live'[s][c].on
        <5>1. login[s].st = "ok" /\ login[s].c = c /\ ~login[s].usurp
          BY <2>1, <4>1, <4>2 DEF LiveKeeps
        <5>2. seen[c] <= row[c].data.ver
          BY <2>1, <5>1 DEF UnseenInv
        <5> QED
          BY <2>0, <5>2
      <4>3. CASE live'[s][c].on /\ login[s].st = "create" /\ login[s].c = c /\ ~login[s].current
        BY <2>1, <4>3 DEF ServerInv, CreateInv
      <4>4. CASE live'[s][c].on = live[s][c].on /\ live'[s][c].data.ver >= live[s][c].data.ver
        BY <1>v, <2>1, <2>o, <4>4
      <4> QED
        BY <4>1, <4>2, <4>3, <4>4 DEF LiveKeeps
    <3>2. CASE Stores(s, c)
      <4>1. PICK e \in Query :
              /\ queue'[s] = Append(queue[s], e) /\ e.c = c
              /\ e.data.ver = live[s][c].data.ver
              /\ \/ e.op = "save" /\ live'[s][c] = live[s][c]
                 \/ e.op = "exit"
        BY <3>2 DEF Stores
      <4>2. CASE e.op = "exit"
        <5>1. queue[s] \in Seq(Query)
          BY QueueType
        <5>2. /\ Len(queue[s]) + 1 \in DOMAIN queue'[s]
              /\ queue'[s][Len(queue[s]) + 1] = e
          BY <4>1, <5>1
        <5> QED
          BY <2>1, <2>x, <4>1, <4>2, <5>2
      <4> QED
        BY <2>1, <2>o, <4>1, <4>2
    <3>3. CASE Executes(s, c) \/ Marks(s, c)
      BY <2>1, <2>o, <3>3 DEF Executes, Marks
    <3>4. CASE Ended(s)
      <4>1. seen'[c] = row[c].data.ver
        BY <1>1, <2>1, <3>4 DEF Ended
      <4> QED
        BY <1>1, <1>v, <2>0, <4>1
    <3> QED
      BY <1>1, <2>1, <3>1, <3>2, <3>3, <3>4 DEF Move, Started
  <2>2. ASSUME NEW i \in DOMAIN queue[s], queue[s][i].op = "exit",
               queue[s][i].c = c, seen[c] <= queue[s][i].data.ver
        PROVE  SeenInv(c)'
    <3>1. CASE Ended(s)
      <4>1. seen'[c] = row[c].data.ver
        BY <1>1, <2>2, <3>1 DEF Ended
      <4> QED
        BY <1>1, <1>v, <2>0, <4>1
    <3>2. \/ QueueKeeps(s, c)
          \/ \E e : queue'[s] = Append(queue[s], e)
          \/ queue'[s] = queue[s]
          \/ queue'[s] = Tail(queue[s]) /\ queue[s][1].op \notin GivesUp
          \/ Ended(s)
      <4>1. Executes(s, c) => queue[s][1].op = "save"
        BY <1>1, <2>t DEF Executes
      <4> QED
        BY <1>1, <4>1 DEF Move, Idles, Stores, Executes, Marks, Started, GivesUp
    <3>3. CASE ~Ended(s)
      <4>1. \E j \in DOMAIN queue'[s] : queue'[s][j] = queue[s][i]
        BY <1>1, <2>2, <3>2, <3>3, GivesUpKept DEF GivesUp
      <4> QED
        BY <2>2, <2>x, <4>1
    <3> QED
      BY <3>1, <3>3
  <2> QED
    BY <1>1, <2>0, <2>1, <2>2 DEF SeenInv
<1>2. ASSUME seen'[c] <= row'[c].data.ver
      PROVE  SeenInv(c)'
  BY <1>2 DEF SeenInv
<1>3. CASE /\ row'[c].cur = row[c].cur /\ row'[c].data = row[c].data
           /\ seen'[c] = seen[c]
  <2>1. CASE row[c].cur = None
    <3>1. seen[c] <= row[c].data.ver
      BY <2>1 DEF SeenInv
    <3> QED
      BY <1>2, <1>3, <3>1
  <2>2. CASE row[c].cur # None
    <3>1. row[c].cur \in Servers
      BY <2>2 DEF TypeOK, Row
    <3> QED
      BY <1>1, <1>3, <3>1
  <2> QED
    BY <2>1, <2>2
<1>4. ASSUME NEW s \in Servers, Executes(s, c), seen'[c] = seen[c]
      PROVE  SeenInv(c)'
  <2>1. CASE queue[s][1].op = "save"
    BY <1>1, <1>4, <2>1 DEF Executes
  <2>2. CASE queue[s][1].op \in GivesUp
    BY <1>2, <1>4, <2>2, SeenGivenUp
  <2> QED
    BY <1>4, <2>1, <2>2 DEF Executes, Writes, GivesUp
<1>5. ASSUME NEW s \in Servers, Marks(s, c), seen'[c] = seen[c]
      PROVE  SeenInv(c)'
  <2>1. row[c].cur = IF login[s].current THEN s ELSE None
    BY <1>5 DEF Marks, AsRead
  <2>2. CASE row[c].cur = s
    BY <1>1, <1>5, <2>2 DEF Marks
  <2>3. CASE row[c].cur = None
    <3>1. seen[c] <= row[c].data.ver
      BY <2>3 DEF SeenInv
    <3> QED
      BY <1>2, <1>5, <3>1 DEF Marks
  <2> QED
    BY <2>1, <2>2, <2>3
<1>6. ASSUME NEW s \in Servers, Shows(s, c)
      PROVE  SeenInv(c)'
  <2>1. row'[c].cur = s /\ s # None
    BY <1>6, ServerType DEF Shows, ServerInv, LeaseInv, Holds
  <2>2. live'[s][c].on /\ seen'[c] <= live'[s][c].data.ver
    BY <1>6, <1>v DEF Shows
  <2> QED
    BY <2>1, <2>2 DEF SeenInv
<1>7. ASSUME NEW s \in Servers, Frees(s, c)
      PROVE  SeenInv(c)'
  BY <1>2, <1>7, SeenFreed DEF Frees
<1>8. ASSUME NEW s \in Servers, Loses(s, c)
      PROVE  SeenInv(c)'
  BY <1>2, <1>8, <1>v DEF Loses
<1> QED
  BY <1>3, <1>4, <1>5, <1>6, <1>7, <1>8 DEF BookMove

\* A character that was made and not collected yet has not been shown.
LEMMA UnseenMoves ==
  ASSUME TypeOK, TypeOK', Grows, NEW s \in Servers, LinkInv(s)', UnseenInv(s),
         \A t \in Servers, d \in Chars :
           ServerInv(t) /\ (Intact(d) => CharInv(t, d)),
         \A d \in Chars : Intact(d) => SeenInv(d),
         Moves
  PROVE  UnseenInv(s)'
<1>m. PICK c \in Chars : login'[s].c = c
  BY DEF TypeOK, Login
<1>c. c \in Chars
  OBVIOUS
<1> SUFFICES ASSUME Intact(c)', login'[s].st = "ok", ~login'[s].usurp, live'[s][c].on
             PROVE  seen'[c] <= row'[c].data.ver
  BY <1>m DEF UnseenInv, Intact, Untaken
<1>i. /\ Untaken(c)' /\ Untaken(c) /\ Intact(c)
      /\ \A t \in Servers : ServerInv(t) /\ CharInv(t, c)
      /\ SeenInv(c) /\ BookMove(c)
  <2>1. Untaken(c)' /\ Untaken(c) /\ Intact(c)
    BY <1>c DEF Grows, Intact
  <2> QED
    BY <1>c, <2>1 DEF Moves
<1>l. live'[s][c].plr = None
  BY <1>m DEF LinkInv
<1>g. row'[c].data.ver >= row[c].data.ver
  BY <1>c, <1>i, RowGrows
<1>v. /\ row[c].data.ver \in Int /\ row'[c].data.ver \in Int
      /\ seen[c] \in Int /\ live[s][c].data.ver \in Int
  BY <1>c, VersionType, VersionTypeNext
<1>1. /\ seen[c] <= row[c].data.ver
      /\ Holds(s, c)
  <2>1. ASSUME login[s].st = "ok", ~login[s].usurp, login[s].c = c, live[s][c].on
        PROVE  seen[c] <= row[c].data.ver /\ Holds(s, c)
    BY <1>i, <2>1 DEF UnseenInv, Holds
  <2>2. ASSUME login[s].st = "create", ~login[s].current, login[s].c = c
        PROVE  seen[c] <= row[c].data.ver /\ Holds(s, c)
    <3>1. Holds(s, c) /\ ~live[s][c].on
      BY <1>i, <2>2 DEF Holds, ServerInv, CreateInv
    <3> QED
      BY <1>c, <1>i, <3>1, SeenHeld
  <2>3. Move(s, c)
    BY <1>c DEF Moves
  <2>4. CASE Idles(s, c)
    BY <1>m, <2>1, <2>2, <2>4 DEF Idles, LoginKeeps, LiveKeeps
  <2>5. CASE Stores(s, c)
    BY <1>m, <2>1, <2>5 DEF Stores
  <2>6. CASE Executes(s, c)
    BY <1>m, <2>1, <2>6 DEF Executes
  <2>7. CASE Started(s)
    BY <1>c, <2>7 DEF Started, ServerInv, DownInv
  <2> QED
    BY <2>3, <2>4, <2>5, <2>6, <2>7 DEF Move, Marks, Ended
<1>2. \A t \in Servers : row[c].cur = t => t = s
  BY <1>1, <1>c, <1>i DEF ServerInv, LeaseInv
<1>3. seen'[c] = seen[c]
  <2>1. ASSUME NEW t \in Servers, Shows(t, c)
        PROVE  FALSE
    <3>1. t = s
      BY <1>2, <1>c, <1>i, <2>1 DEF Shows, ServerInv, LeaseInv, Holds
    <3> QED
      BY <1>l, <2>1, <3>1 DEF Shows
  <2>2. ASSUME NEW t \in Servers, Loses(t, c)
        PROVE  FALSE
    BY <1>2, <2>2 DEF Loses
  <2>3. BookMove(c)
    BY <1>i
  <2> QED
    BY <2>1, <2>2, <2>3 DEF BookMove, Frees
<1> QED
  BY <1>1, <1>3, <1>g, <1>v

-----------------------------------------------------------------------------
(* Every step makes such moves.                                            *)

\* What a step may do to the queue of a server that idles.
LEMMA QueueKept ==
  ASSUME TypeOK, NEW s \in Servers, NEW c \in Chars,
         \/ queue'[s] = queue[s]
         \/ \E e : /\ queue'[s] = Append(queue[s], e)
                   /\ e.c # c \/ e.op \notin Saves
         \/ \E e, f : /\ queue'[s] = Append(Append(queue[s], e), f)
                      /\ e.op \notin Saves /\ f.op \notin Saves
         \/ /\ queue[s] # <<>> /\ queue'[s] = Tail(queue[s])
            /\ \/ queue[s][1].c # c \/ queue[s][1].op \notin Writes
               \/ row[c].cur # s
  PROVE  QueueKeeps(s, c)
<1>0. queue[s] \in Seq(Query)
  BY QueueType
<1>1. ASSUME \A i \in DOMAIN queue'[s] :
               queue'[s][i].c = c /\ queue'[s][i].op \in Saves => i \in DOMAIN queue[s],
             \A i \in DOMAIN queue[s] :
               i \in DOMAIN queue'[s] /\ queue'[s][i] = queue[s][i]
      PROVE  QueueKeeps(s, c)
  <2>1. ASSUME NEW i \in DOMAIN queue'[s], queue'[s][i].c = c, queue'[s][i].op \in Saves
        PROVE  /\ i + 0 \in DOMAIN queue[s]
               /\ \A j \in 1..i : queue'[s][j] = queue[s][j + 0]
    <3>1. i \in DOMAIN queue[s]
      BY <1>1, <2>1
    <3>2. \A j \in 1..i : j \in DOMAIN queue[s] /\ j + 0 = j
      BY <1>0, <3>1
    <3> QED
      BY <1>0, <1>1, <3>1, <3>2
  <2>2. \A i \in DOMAIN queue[s] :
          i > 0 => i - 0 \in DOMAIN queue'[s] /\ queue'[s][i - 0] = queue[s][i]
    BY <1>0, <1>1
  <2> QED
    BY <2>1, <2>2 DEF QueueKeeps
<1>2. CASE queue'[s] = queue[s]
  BY <1>1, <1>2
<1>3. ASSUME NEW e, queue'[s] = Append(queue[s], e), e.c # c \/ e.op \notin Saves
      PROVE  QueueKeeps(s, c)
  <2>1. \A i \in DOMAIN queue'[s] : i \in DOMAIN queue[s] \/ queue'[s][i] = e
    BY <1>0, <1>3
  <2>2. \A i \in DOMAIN queue[s] : i \in DOMAIN queue'[s] /\ queue'[s][i] = queue[s][i]
    BY <1>0, <1>3
  <2> QED
    BY <1>1, <1>3, <2>1, <2>2
<1>4. ASSUME NEW e, NEW f, queue'[s] = Append(Append(queue[s], e), f),
             e.op \notin Saves, f.op \notin Saves
      PROVE  QueueKeeps(s, c)
  <2> DEFINE a == Append(queue[s], e)
  <2>1. /\ DOMAIN a = 1..(Len(queue[s]) + 1)
        /\ DOMAIN queue'[s] = 1..(Len(queue[s]) + 2)
        /\ \A i \in 1..Len(queue[s]) : a[i] = queue[s][i]
        /\ a[Len(queue[s]) + 1] = e
        /\ \A i \in 1..(Len(queue[s]) + 1) : queue'[s][i] = a[i]
        /\ queue'[s][Len(queue[s]) + 2] = f
    <3>1. a \in Seq(Query \cup {e}) /\ Len(a) = Len(queue[s]) + 1
      BY <1>0
    <3>2. queue'[s] = Append(a, f)
      BY <1>4
    <3>3. /\ Len(queue[s]) \in Nat
          /\ \A i \in 1..Len(queue[s]) : a[i] = queue[s][i]
          /\ a[Len(queue[s]) + 1] = e
      BY <1>0
    <3> HIDE DEF a
    <3> QED
      BY <3>1, <3>2, <3>3
  <2> HIDE DEF a
  <2>2. Len(queue[s]) \in Nat /\ DOMAIN queue[s] = 1..Len(queue[s])
    BY <1>0
  <2>3. \A i \in DOMAIN queue'[s] :
          i \in DOMAIN queue[s] \/ queue'[s][i] = e \/ queue'[s][i] = f
    <3>1. \A i \in 1..(Len(queue[s]) + 2) :
            i \in 1..Len(queue[s]) \/ i = Len(queue[s]) + 1 \/ i = Len(queue[s]) + 2
      BY <2>2
    <3>2. Len(queue[s]) + 1 \in 1..(Len(queue[s]) + 1)
      BY <2>2
    <3> QED
      BY <2>1, <2>2, <3>1, <3>2
  <2>4. \A i \in DOMAIN queue[s] : i \in DOMAIN queue'[s] /\ queue'[s][i] = queue[s][i]
    BY <2>1, <2>2
  <2> QED
    BY <1>1, <1>4, <2>3, <2>4
<1>5. CASE /\ queue[s] # <<>> /\ queue'[s] = Tail(queue[s])
           /\ \/ queue[s][1].c # c \/ queue[s][1].op \notin Writes
              \/ row[c].cur # s
  <2>1. \A i \in DOMAIN queue'[s] :
          /\ i + 1 \in DOMAIN queue[s]
          /\ \A j \in 1..i : queue'[s][j] = queue[s][j + 1]
    BY <1>0, <1>5
  <2>2. \A i \in DOMAIN queue[s] :
          i > 1 => i - 1 \in DOMAIN queue'[s] /\ queue'[s][i - 1] = queue[s][i]
    BY <1>0, <1>5
  <2> QED
    BY <1>5, <2>1, <2>2 DEF QueueKeeps
<1> QED
  BY <1>2, <1>3, <1>4, <1>5

\* A server that a step does not concern.
LEMMA StillIdles ==
  ASSUME TypeOK, NEW s \in Servers, NEW c \in Chars,
         queue'[s] = queue[s], login'[s] = login[s],
         live'[s][c].on = live[s][c].on, live'[s][c].data = live[s][c].data,
         up'[s] # "down" => up[s] # "down",
         Untaken(c)' => RowKeeps(s, c)
  PROVE  Idles(s, c)
<1>1. QueueKeeps(s, c)
  BY QueueKept
<1>2. LiveKeeps(s, c)
  BY VersionType DEF LiveKeeps
<1>3. LoginKeeps(s, c)
  BY DEF LoginKeeps
<1>4. Holds(s, c) => Holds(s, c)'
  BY DEF Holds
<1> QED
  BY <1>1, <1>2, <1>3, <1>4 DEF Idles

\* A step of one server.
LEMMA LocalMoves ==
  ASSUME TypeOK, NEW s \in Servers, Local(s),
         \A c \in Chars : Move(s, c) /\ (Untaken(c)' => BookMove(c)),
         \/ row' = row
         \/ \A t \in Servers \ {s}, c \in Chars : Untaken(c)' => RowKeeps(t, c)
  PROVE  Moves
<1>1. ASSUME NEW t \in Servers \ {s}, NEW c \in Chars
      PROVE  Idles(t, c)
  <2>1. Untaken(c)' => RowKeeps(t, c)
    BY DEF RowKeeps
  <2> QED
    BY <2>1, StillIdles DEF Local
<1> QED
  BY <1>1 DEF Moves, Move

\* One that leaves rows and players alone.
LEMMA QuietMoves ==
  ASSUME TypeOK, NEW s \in Servers, Local(s), row' = row, seen' = seen,
         \A c \in Chars : Move(s, c)
  PROVE  Moves
BY LocalMoves DEF BookMove

\* A step in which only clients and the area list change.
LEMMA StillMoves ==
  ASSUME TypeOK, UNCHANGED <<row, queue, login, seen>>,
         \A s \in Servers, c \in Chars :
           /\ live'[s][c].on = live[s][c].on /\ live'[s][c].data = live[s][c].data
           /\ up'[s] # "down" => up[s] # "down"
  PROVE  Moves
<1>1. \A s \in Servers, c \in Chars : Idles(s, c)
  BY StillIdles DEF RowKeeps
<1> QED
  BY <1>1 DEF Moves, Move, BookMove

\* A server idles when the character stays and the login is no claim on it.
LEMMA OwnIdles ==
  ASSUME TypeOK, NEW s \in Servers, NEW c \in Chars,
         QueueKeeps(s, c), LoginKeeps(s, c), row' = row, up' = up,
         live'[s][c].on = live[s][c].on,
         live'[s][c].data.ver >= live[s][c].data.ver,
         \/ login'[s] = login[s] \/ login[s].st # "create"
         \/ login[s].c # c \/ login[s].current
  PROVE  Move(s, c)
<1>1. Holds(s, c) => Holds(s, c)'
  BY DEF Holds
<1> QED
  BY <1>1 DEF Move, Idles, RowKeeps, LiveKeeps

\* Clients alone make no moves.
LEMMA ClientStepMoves ==
  ASSUME TypeOK, ClientStep
  PROVE  Moves
<1>1. ASSUME NEW k \in Clients, KickPlayer(k)
      PROVE  Moves
  <2> DEFINE s == client[k].at
             c == Who[k]
             p == [live[s][c] EXCEPT !.plr = None, !.lost = TRUE]
  <2>1. /\ live' = [live EXCEPT ![s][c] = p]
        /\ UNCHANGED <<row, queue, login, up, seen>>
    BY <1>1 DEF KickPlayer
  <2>2. \A t \in Servers, d \in Chars :
          live'[t][d].on = live[t][d].on /\ live'[t][d].data = live[t][d].data
    <3>1. s \in Servers => live[s][c] \in Player
      BY PeopleAssumption DEF TypeOK
    <3>2. s \in Servers => p.on = live[s][c].on /\ p.data = live[s][c].data
      BY <3>1 DEF Player
    <3> HIDE DEF p
    <3> QED
      BY <2>1, <3>2 DEF TypeOK
  <2> QED
    BY <2>1, <2>2, StillMoves
<1>2. ASSUME NEW k \in Clients,
             Abandon(k) \/ \E s \in Servers : Connect(k, s)
      PROVE  Moves
  BY <1>2, StillMoves DEF Abandon, Connect
<1> QED
  BY <1>1, <1>2 DEF ClientStep

\* kick_char queues the last save of the character.
LEMMA KickCharMoves ==
  ASSUME TypeOK, NEW s \in Servers, NEW c \in Chars, NEW data \in Data,
         NEW area \in Areas, KickChar(s, c, data, area),
         data.ver = live[s][c].data.ver,
         up[s] # "down", UNCHANGED <<row, up, seen>>,
         \/ login' = login
         \/ /\ login[s].st # "create" /\ login'[s].st = "empty"
            /\ \A t \in Servers \ {s} : login'[t] = login[t]
  PROVE  Moves
<1> DEFINE e == Ask("exit", c, data, area)
<1>1. /\ live[s][c].on
      /\ live' = [live EXCEPT ![s][c] = Absent]
      /\ queue' = [queue EXCEPT ![s] = Append(queue[s], e)]
  BY DEF KickChar, AddQuery
<1>2. /\ e \in Query /\ e.op = "exit" /\ e.c = c /\ e.data = data
  BY AskType DEF Ask, Ops, Writes
<1>3. /\ live'[s][c] = Absent
      /\ \A d \in Chars \ {c} : live'[s][d] = live[s][d]
      /\ \A t \in Servers \ {s} : live'[t] = live[t]
  BY <1>1, LiveFacts
<1>a. ~Absent.on
  BY DEF Absent
<1> HIDE DEF e
<1>4. /\ queue'[s] = Append(queue[s], e)
      /\ \A t \in Servers \ {s} : queue'[t] = queue[t]
  BY <1>1, QueueFacts
<1>5. Local(s)
  BY <1>3, <1>4 DEF Local
<1>6. Stores(s, c)
  <2>1. login'[s] = login[s] \/ login'[s].st = "empty"
    OBVIOUS
  <2> QED
    BY <1>1, <1>2, <1>3, <1>a, <1>4, <2>1 DEF Stores
<1>7. ASSUME NEW d \in Chars \ {c}
      PROVE  Move(s, d)
  <2>1. QueueKeeps(s, d)
    BY <1>2, <1>4, QueueKept
  <2>2. LoginKeeps(s, d)
    BY DEF LoginKeeps
  <2>3. live'[s][d].on = live[s][d].on /\ live'[s][d].data.ver >= live[s][d].data.ver
    BY <1>3, VersionType
  <2>4. login'[s] = login[s] \/ login[s].st # "create"
    OBVIOUS
  <2> QED
    BY <2>1, <2>2, <2>3, <2>4, OwnIdles
<1> QED
  BY <1>5, <1>6, <1>7, QuietMoves DEF Move

\* find_login makes such moves.
LEMMA FindLoginMoves ==
  ASSUME TypeOK, NEW k \in Clients, NEW s \in Servers, FindLogin(k, s)
  PROVE  Moves
<1> DEFINE c == Who[k]
<1>c. c \in Chars
  BY PeopleAssumption
<1>u. UNCHANGED <<row, up>>
  BY DEF FindLogin, FindLoginStart, FindLoginStale, FindLoginFailed, FindLoginNewarea,
     FindLoginGone, FindLoginOk, FindLoginZoneTime
<1>v. \A d \in Chars : live[s][d].data.ver >= live[s][d].data.ver
  BY VersionType
<1>r. ASSUME NEW q, StartRead(s, c, q)
      PROVE  /\ login'[s].st = "read"
             /\ \A t \in Servers \ {s} : login'[t] = login[t]
             /\ queue' = [queue EXCEPT ![s] = Append(q, Ask("load", c, Blank, Area(s)))]
             /\ queue'[s] = Append(q, Ask("load", c, Blank, Area(s)))
             /\ \A t \in Servers \ {s} : queue'[t] = queue[t]
  <2>1. /\ SetLogin(s, [Idle(c) EXCEPT !.st = "read"])
        /\ queue' = [queue EXCEPT ![s] = Append(q, Ask("load", c, Blank, Area(s)))]
    BY <1>r DEF StartRead
  <2>2. [Idle(c) EXCEPT !.st = "read"].st = "read"
    BY DEF Idle
  <2>3. /\ login'[s].st = "read"
        /\ \A t \in Servers \ {s} : login'[t] = login[t]
    BY <2>1, <2>2, SetLoginFacts
  <2>4. /\ queue'[s] = Append(q, Ask("load", c, Blank, Area(s)))
        /\ \A t \in Servers \ {s} : queue'[t] = queue[t]
    BY <2>1, QueueFacts
  <2> QED
    BY <2>1, <2>3, <2>4
<1>a. /\ \A d, data, area : Ask("load", d, data, area).op \notin Saves
      /\ \A d, data, area : Ask("release", d, data, area).op \notin Saves
      /\ \A d, data, area : Ask("rescue", d, data, area).op \notin Saves
  BY DEF Ask, Saves
<1>n. \A st \in Results : Collects(k, s, st) =>
        /\ up[s] # "down" /\ login[s].st = st /\ login'[s].st = "empty"
        /\ login[s].st # "create"
        /\ \A t \in Servers \ {s} : login'[t] = login[t]
  BY CollectsFacts
<1>s. "failed" \in Results /\ "newarea" \in Results /\ "ok" \in Results
  BY DEF Results
<1>1. CASE FindLoginStart(k, s)
  <2>1. /\ login[s].st = "empty" /\ StartRead(s, c, queue[s])
        /\ UNCHANGED <<live, seen>>
    BY <1>1 DEF FindLoginStart
  <2>2. /\ login'[s].st = "read"
        /\ \A t \in Servers \ {s} : login'[t] = login[t]
        /\ queue'[s] = Append(queue[s], Ask("load", c, Blank, Area(s)))
        /\ \A t \in Servers \ {s} : queue'[t] = queue[t]
    BY <1>r, <2>1
  <2>3. ASSUME NEW d \in Chars
        PROVE  Move(s, d)
    <3>1. QueueKeeps(s, d)
      BY <1>a, <2>2, QueueKept
    <3>2. LoginKeeps(s, d)
      BY <2>2 DEF LoginKeeps
    <3> QED
      BY <1>u, <1>v, <2>1, <3>1, <3>2, OwnIdles
  <2>4. Local(s)
    BY <1>u, <2>1, <2>2 DEF Local
  <2> QED
    BY <1>u, <2>1, <2>3, <2>4, QuietMoves
<1>2. CASE FindLoginStale(k, s)
  <2>0. PICK b \in Chars : b = login[s].c
    BY LoginFields
  <2> DEFINE made == login[s].st = "ok" /\ ~login[s].usurp
             rel  == Ask("release", b, Blank, Area(s))
             p    == [live[s][b] EXCEPT !.lost = TRUE]
  <2>1. /\ login[s].st \in Results /\ seen' = seen
        /\ StartRead(s, c, IF made THEN Append(queue[s], rel) ELSE queue[s])
        /\ \/ made /\ live' = [live EXCEPT ![s][b] = Absent]
           \/ live' = live /\ ~made
           \/ live' = [live EXCEPT ![s][b] = p] /\ ~made
    BY <1>2, <2>0 DEF FindLoginStale
  <2>2. /\ login'[s].st = "read"
        /\ \A t \in Servers \ {s} : login'[t] = login[t]
        /\ queue'[s] = Append(IF made THEN Append(queue[s], rel) ELSE queue[s],
                              Ask("load", c, Blank, Area(s)))
        /\ \A t \in Servers \ {s} : queue'[t] = queue[t]
    BY <1>r, <2>1
  <2>b. b \in Chars /\ live[s][b] \in Player
    BY DEF TypeOK
  <2>o. login[s].st # "create"
    BY <2>1 DEF Results
  <2>q. ASSUME NEW d \in Chars
        PROVE  QueueKeeps(s, d) /\ LoginKeeps(s, d)
    <3>1. QueueKeeps(s, d)
      BY <1>a, <2>2, QueueKept
    <3> QED
      BY <2>2, <3>1 DEF LoginKeeps
  <2>l. Local(s)
    <3>1. \A t \in Servers \ {s} : live'[t] = live[t]
      BY <2>1, <2>b, LiveFacts
    <3> QED
      BY <1>u, <2>2, <3>1 DEF Local
  <2>3. CASE made /\ live' = [live EXCEPT ![s][b] = Absent]
    <3>0. live' = [live EXCEPT ![s][b] = Absent]
      BY <2>3
    <3>1. /\ live'[s][b] = Absent
          /\ \A d \in Chars \ {b} : live'[s][d] = live[s][d]
          /\ \A t \in Servers \ {s} : live'[t] = live[t]
      BY <3>0, LiveFacts
    <3>a. ~Absent.on
      BY DEF Absent
    <3>2. ASSUME NEW d \in Chars \ {b}
          PROVE  Move(s, d)
      BY <1>u, <1>v, <2>o, <2>q, <3>1, OwnIdles
    <3>3. Move(s, b)
      <4>1. LiveKeeps(s, b)
        BY <2>0, <2>3, <3>1, <3>a DEF LiveKeeps
      <4>2. Queued(s, GivesUp, b)'
        <5>1. queue[s] \in Seq(Query)
          BY QueueType
        <5>2. /\ queue'[s] = Append(Append(queue[s], rel), Ask("load", c, Blank, Area(s)))
              /\ rel.op = "release" /\ rel.c = b
          BY <2>2, <2>3 DEF Ask
        <5> HIDE DEF rel
        <5>3. /\ Len(queue[s]) + 1 \in DOMAIN queue'[s]
              /\ queue'[s][Len(queue[s]) + 1] = rel
          <6> DEFINE a == Append(queue[s], rel)
          <6>1. /\ a \in Seq(Query \cup {rel}) /\ Len(a) = Len(queue[s]) + 1
                /\ Len(queue[s]) \in Nat
                /\ a[Len(queue[s]) + 1] = rel
            BY <5>1
          <6>2. queue'[s] = Append(a, Ask("load", c, Blank, Area(s)))
            BY <5>2
          <6> HIDE DEF a
          <6> QED
            BY <6>1, <6>2
        <5> QED
          BY <5>2, <5>3 DEF Queued, GivesUp
      <4> QED
        BY <1>u, <2>b, <2>q, <4>1, <4>2 DEF Move, Idles, RowKeeps
    <3> QED
      BY <1>u, <2>1, <2>l, <3>2, <3>3, QuietMoves
  <2>4. CASE live' = live \/ live' = [live EXCEPT ![s][b] = p]
    <3>1. p.on = live[s][b].on /\ p.data = live[s][b].data
      BY <2>b DEF Player
    <3>2. \A d \in Chars :
            live'[s][d].on = live[s][d].on /\ live'[s][d].data = live[s][d].data
      <4> HIDE DEF p
      <4> QED
        BY <2>4, <2>b, <3>1, LiveFacts
    <3>3. ASSUME NEW d \in Chars
          PROVE  Move(s, d)
      BY <1>u, <1>v, <2>o, <2>q, <3>2, OwnIdles
    <3> QED
      BY <1>u, <2>1, <2>l, <3>3, QuietMoves
  <2> QED
    BY <2>1, <2>3, <2>4
<1>3. ASSUME NEW st \in Results, Collects(k, s, st), live' = live, seen' = seen,
             \/ queue' = queue
             \/ AddQuery(s, Ask("rescue", Who[k], Blank, Area(s)))
      PROVE  Moves
  <2>1. /\ \/ queue'[s] = queue[s]
           \/ queue'[s] = Append(queue[s], Ask("rescue", Who[k], Blank, Area(s)))
        /\ \A t \in Servers \ {s} : queue'[t] = queue[t]
    BY <1>3, QueueFacts DEF AddQuery
  <2>2. /\ login[s].st # "create" /\ login'[s].st = "empty"
        /\ \A t \in Servers \ {s} : login'[t] = login[t]
    BY <1>n, <1>3
  <2>3. ASSUME NEW d \in Chars
        PROVE  Move(s, d)
    <3>1. QueueKeeps(s, d)
      BY <1>a, <2>1, QueueKept
    <3>2. LoginKeeps(s, d)
      BY <2>2 DEF LoginKeeps
    <3> QED
      BY <1>u, <1>v, <1>3, <2>2, <3>1, <3>2, OwnIdles
  <2>4. Local(s)
    BY <1>u, <1>3, <2>1, <2>2 DEF Local
  <2> QED
    BY <1>u, <1>3, <2>3, <2>4, QuietMoves
<1>4. CASE FindLoginFailed(k, s) \/ FindLoginNewarea(k, s) \/ FindLoginGone(k, s)
  BY <1>3, <1>4, <1>s DEF FindLoginFailed, FindLoginNewarea, FindLoginGone
<1>5. CASE FindLoginOk(k, s)
  <2> DEFINE p == [live[s][c] EXCEPT !.plr = k, !.lost = FALSE]
  <2>1. /\ Collects(k, s, "ok") /\ live[s][c].on
        /\ live' = [live EXCEPT ![s][c] = p]
        /\ seen' = [seen EXCEPT ![c] = live[s][c].data.ver]
        /\ UNCHANGED queue
    BY <1>5 DEF FindLoginOk
  <2>2. /\ p.on = live[s][c].on /\ p.data = live[s][c].data /\ p.plr = k /\ k # None
    <3>1. live[s][c] \in Player
      BY <1>c DEF TypeOK
    <3> QED
      BY <3>1, ServersAssumption DEF Player
  <2> HIDE DEF p, c
  <2>3. /\ live'[s][c] = p
        /\ \A d \in Chars \ {c} : live'[s][d] = live[s][d]
        /\ \A t \in Servers \ {s} : live'[t] = live[t]
    BY <1>c, <2>1, LiveFacts
  <2>4. /\ login[s].st # "create" /\ login'[s].st = "empty"
        /\ \A t \in Servers \ {s} : login'[t] = login[t]
    BY <1>n, <1>s, <2>1
  <2>5. ASSUME NEW d \in Chars
        PROVE  Move(s, d)
    <3>1. QueueKeeps(s, d)
      BY <2>1, QueueKept
    <3>2. LoginKeeps(s, d)
      BY <2>4 DEF LoginKeeps
    <3>3. live'[s][d].on = live[s][d].on /\ live'[s][d].data = live[s][d].data
      BY <2>2, <2>3
    <3> QED
      BY <1>u, <1>v, <2>4, <3>1, <3>2, <3>3, OwnIdles
  <2>6. ASSUME NEW d \in Chars
        PROVE  BookMove(d)
    <3>1. CASE d = c
      <4>1. seen'[c] = live[s][c].data.ver
        BY <1>c, <2>1 DEF TypeOK
      <4>2. Shows(s, c)
        BY <1>c, <1>u, <1>v, <2>1, <2>2, <2>3, <4>1 DEF Shows
      <4> QED
        BY <3>1, <4>2 DEF BookMove
    <3>2. CASE d # c
      <4>1. seen'[d] = seen[d]
        BY <2>1, <3>2 DEF TypeOK
      <4> QED
        BY <1>u, <4>1 DEF BookMove
    <3> QED
      BY <3>1, <3>2
  <2>7. Local(s)
    BY <1>u, <2>1, <2>3, <2>4 DEF Local
  <2> QED
    BY <1>u, <2>5, <2>6, <2>7, LocalMoves
<1>6. ASSUME NEW area \in Areas, FindLoginZoneTime(k, s, area)
      PROVE  Moves
  <2>1. /\ Collects(k, s, "ok") /\ seen' = seen
        /\ KickChar(s, c, live[s][c].data, area)
    BY <1>6 DEF FindLoginZoneTime
  <2>2. live[s][c].data \in Data
    BY <1>c DEF TypeOK, Player
  <2> HIDE DEF c
  <2> QED
    BY <1>c, <1>n, <1>s, <1>u, <2>1, <2>2, KickCharMoves
<1> QED
  BY <1>1, <1>2, <1>4, <1>5, <1>6 DEF FindLogin

\* A login that ages is no move, tick_login's are.
LEMMA LoginAgesMoves ==
  ASSUME TypeOK, NEW s \in Servers, LoginAges(s)
  PROVE  Moves
<1>1. /\ login'[s] = [login[s] EXCEPT !.stale = TRUE]
      /\ \A t \in Servers \ {s} : login'[t] = login[t]
      /\ UNCHANGED <<row, queue, live, up, seen>>
      /\ login[s].st \in Results
  BY SetLoginFacts DEF LoginAges
<1>2. /\ login'[s].st = login[s].st /\ login'[s].c = login[s].c
      /\ login'[s].data = login[s].data
      /\ login'[s].current = login[s].current
      /\ login'[s].usurp = login[s].usurp
  BY <1>1, LoginFields DEF Login
<1>3. ASSUME NEW c \in Chars
      PROVE  Move(s, c)
  <2>1. QueueKeeps(s, c)
    BY <1>1, QueueKept
  <2>2. LoginKeeps(s, c)
    BY <1>2 DEF LoginKeeps
  <2>3. live'[s][c].on = live[s][c].on /\ live'[s][c].data.ver >= live[s][c].data.ver
    BY <1>1, VersionType
  <2>4. login[s].st # "create"
    BY <1>1 DEF Results
  <2> QED
    BY <1>1, <2>1, <2>2, <2>3, <2>4, OwnIdles
<1> QED
  BY <1>1, <1>3, QuietMoves DEF Local

LEMMA TickLoginMoves ==
  ASSUME IInv, NEW s \in Servers, TickLogin(s)
  PROVE  Moves
<1>t. TypeOK
  BY DEF IInv
<1>0. PICK c \in Chars : c = login[s].c
  BY <1>t, LoginFields
<1>c. live[s][c] \in Player /\ login[s] \in Login
  BY <1>t, LoginFields DEF TypeOK
<1>v. \A d \in Chars : live[s][d].data.ver >= live[s][d].data.ver
  BY <1>t, VersionType
<1>u. UNCHANGED <<row, up, seen>>
  BY DEF TickLogin, TickLoginUsurp, TickLoginCreate, TickLoginNoSlot,
     TickLoginNoRoom, TickLoginNoItem
<1>o. /\ Result(s, "ok", None).st = "ok"
      /\ Result(s, "ok", None).c = c
      /\ [Result(s, "ok", None) EXCEPT !.usurp = TRUE].st = "ok"
      /\ [Result(s, "ok", None) EXCEPT !.usurp = TRUE].c = c
      /\ [Result(s, "ok", None) EXCEPT !.usurp = TRUE].usurp
      /\ Result(s, "failed", None).st = "failed"
  BY <1>0, <1>c DEF Result, Login
<1>q. ASSUME queue' = queue
      PROVE  \A d \in Chars : QueueKeeps(s, d)
  BY <1>t, <1>q, QueueKept
<1>1. CASE TickLoginUsurp(s)
  <2> DEFINE p == [live[s][c] EXCEPT !.plr = None, !.lost = FALSE]
  <2>1. /\ login[s].st = "create" /\ login[s].current /\ queue' = queue
        /\ \/ /\ live' = [live EXCEPT ![s][c] = p]
              /\ SetLogin(s, [Result(s, "ok", None) EXCEPT !.usurp = TRUE])
           \/ live' = live /\ SetLogin(s, Result(s, "failed", None))
    BY <1>0, <1>1 DEF TickLoginUsurp, Creating
  <2>2. p.on = live[s][c].on /\ p.data = live[s][c].data
    BY <1>c DEF Player
  <2> HIDE DEF p
  <2>3. /\ \A d \in Chars : /\ live'[s][d].on = live[s][d].on
                            /\ live'[s][d].data = live[s][d].data
        /\ \A t \in Servers \ {s} : live'[t] = live[t]
    <3>1. CASE live' = live
      BY <3>1
    <3>2. CASE live' = [live EXCEPT ![s][c] = p]
      <4>1. /\ live'[s][c] = p
            /\ \A d \in Chars \ {c} : live'[s][d] = live[s][d]
            /\ \A t \in Servers \ {s} : live'[t] = live[t]
        BY <1>t, <3>2, LiveFacts
      <4> QED
        BY <2>2, <4>1
    <3> QED
      BY <2>1, <3>1, <3>2
  <2>4. /\ \A t \in Servers \ {s} : login'[t] = login[t]
        /\ \/ login'[s].st = "ok" /\ login'[s].c = c /\ login'[s].usurp
           \/ login'[s].st = "failed"
    BY <1>t, <1>o, <2>1, SetLoginFacts
  <2>5. ASSUME NEW d \in Chars
        PROVE  Move(s, d)
    <3>1. LoginKeeps(s, d)
      BY <1>0, <2>1, <2>4 DEF LoginKeeps
    <3> QED
      BY <1>t, <1>q, <1>u, <1>v, <2>1, <2>3, <3>1, OwnIdles
  <2>6. Local(s)
    BY <1>t, <1>u, <2>1, <2>3, <2>4 DEF Local
  <2> QED
    BY <1>t, <1>u, <2>5, <2>6, QuietMoves
<1>2. CASE TickLoginCreate(s)
  <2> DEFINE p == [Absent EXCEPT !.on = TRUE, !.data = login[s].data]
  <2>1. /\ login[s].st = "create" /\ ~login[s].current /\ queue' = queue
        /\ live' = [live EXCEPT ![s][c] = p]
        /\ SetLogin(s, Result(s, "ok", None))
    BY <1>0, <1>2 DEF TickLoginCreate, Creating
  <2>2. p.on /\ p.data = login[s].data
    BY DEF Absent
  <2> HIDE DEF p
  <2>3. /\ live'[s][c] = p
        /\ \A d \in Chars \ {c} : live'[s][d] = live[s][d]
        /\ \A t \in Servers \ {s} : live'[t] = live[t]
    BY <1>t, <2>1, LiveFacts
  <2>4. /\ \A t \in Servers \ {s} : login'[t] = login[t]
        /\ login'[s].st = "ok" /\ login'[s].c = c
    BY <1>t, <1>o, <2>1, SetLoginFacts
  <2>5. ASSUME NEW d \in Chars
        PROVE  LoginKeeps(s, d)
    BY <1>0, <2>1, <2>4 DEF LoginKeeps
  <2>6. ASSUME NEW d \in Chars \ {c}
        PROVE  Move(s, d)
    BY <1>t, <1>0, <1>q, <1>u, <1>v, <2>1, <2>3, <2>5, OwnIdles
  <2>7. Move(s, c)
    <3>1. LiveKeeps(s, c)
      BY <1>0, <2>1, <2>2, <2>3 DEF LiveKeeps
    <3>2. Holds(s, c)'
      BY <2>2, <2>3 DEF Holds
    <3> QED
      BY <1>q, <1>u, <2>1, <2>5, <3>1, <3>2 DEF Move, Idles, RowKeeps
  <2>8. Local(s)
    BY <1>t, <1>u, <2>1, <2>3, <2>4 DEF Local
  <2> QED
    BY <1>t, <1>u, <2>6, <2>7, <2>8, QuietMoves
<1>3. CASE TickLoginNoSlot(s)
  <2>1. /\ login[s].st = "create" /\ queue' = queue /\ live' = live
        /\ SetLogin(s, Result(s, "failed", None))
    BY <1>3 DEF TickLoginNoSlot, Creating
  <2>2. /\ \A t \in Servers \ {s} : login'[t] = login[t]
        /\ login'[s].st = "failed"
    BY <1>t, <1>o, <2>1, SetLoginFacts
  <2>3. ~Freed(c)'
    <3>1. struck' = [struck EXCEPT !.stuck = @ \cup {c}]
      BY <1>0, <1>3 DEF TickLoginNoSlot
    <3> QED
      BY <1>t, <3>1 DEF Freed, TypeOK, Struck
  <2>4. ASSUME NEW d \in Chars
        PROVE  QueueKeeps(s, d) /\ LoginKeeps(s, d)
    BY <1>q, <2>1, <2>2 DEF LoginKeeps
  <2>5. ASSUME NEW d \in Chars \ {c}
        PROVE  Move(s, d)
    BY <1>t, <1>0, <1>u, <1>v, <2>1, <2>4, OwnIdles
  <2>6. Move(s, c)
    <3>1. LiveKeeps(s, c)
      BY <1>v, <2>1 DEF LiveKeeps
    <3> QED
      BY <1>u, <2>3, <2>4, <3>1 DEF Move, Idles, RowKeeps
  <2>7. Local(s)
    BY <1>t, <1>u, <2>1, <2>2 DEF Local
  <2> QED
    BY <1>t, <1>u, <2>5, <2>6, <2>7, QuietMoves
<1>5. CASE TickLoginNoItem(s)
  <2> DEFINE p == [Absent EXCEPT !.on = TRUE, !.data = login[s].data,
                                 !.data.ver = 0]
  <2>1. /\ login[s].st = "create" /\ queue' = queue
        /\ live' = [live EXCEPT ![s][c] = p]
        /\ SetLogin(s, Result(s, "failed", None))
    BY <1>0, <1>5 DEF TickLoginNoItem, Creating
  <2>2. p.on
    BY DEF Absent
  <2> HIDE DEF p
  <2>3. /\ live'[s][c] = p
        /\ \A d \in Chars \ {c} : live'[s][d] = live[s][d]
        /\ \A t \in Servers \ {s} : live'[t] = live[t]
    BY <1>t, <2>1, LiveFacts
  <2>4. /\ \A t \in Servers \ {s} : login'[t] = login[t]
        /\ login'[s].st = "failed"
    BY <1>t, <1>o, <2>1, SetLoginFacts
  <2>5. ~Intact(c)'
    <3>1. struck' = [struck EXCEPT !.halved = @ \cup {c}]
      BY <1>0, <1>5 DEF TickLoginNoItem
    <3> QED
      BY <1>t, <3>1 DEF Intact, TypeOK, Struck
  <2>6. ASSUME NEW d \in Chars
        PROVE  QueueKeeps(s, d) /\ LoginKeeps(s, d)
    BY <1>q, <2>1, <2>4 DEF LoginKeeps
  <2>7. ASSUME NEW d \in Chars \ {c}
        PROVE  Move(s, d)
    BY <1>t, <1>0, <1>u, <1>v, <2>1, <2>3, <2>6, OwnIdles
  <2>8. Move(s, c)
    <3>1. Holds(s, c)'
      BY <2>2, <2>3 DEF Holds
    <3> QED
      BY <1>u, <2>5, <2>6, <3>1 DEF Move, Idles, RowKeeps
  <2>9. Local(s)
    BY <1>t, <1>u, <2>1, <2>3, <2>4 DEF Local
  <2> QED
    BY <1>t, <1>u, <2>7, <2>8, <2>9, QuietMoves
<1>4. CASE TickLoginNoRoom(s)
  <2> DEFINE e == Ask("release", c, Blank, Area(s))
  <2>1. /\ login[s].st = "create" /\ ~login[s].current /\ live' = live
        /\ queue' = [queue EXCEPT ![s] = Append(queue[s], e)]
        /\ SetLogin(s, Result(s, "failed", None))
    BY <1>0, <1>4 DEF TickLoginNoRoom, Creating, AddQuery
  <2>2. e.op = "release" /\ e.c = c
    BY DEF Ask
  <2> HIDE DEF e
  <2>3. /\ queue'[s] = Append(queue[s], e)
        /\ \A t \in Servers \ {s} : queue'[t] = queue[t]
    BY <1>t, <2>1, QueueFacts
  <2>4. /\ \A t \in Servers \ {s} : login'[t] = login[t]
        /\ login'[s].st = "failed"
    BY <1>t, <1>o, <2>1, SetLoginFacts
  <2>5. ASSUME NEW d \in Chars
        PROVE  QueueKeeps(s, d) /\ LoginKeeps(s, d)
    <3>1. QueueKeeps(s, d)
      BY <1>t, <2>2, <2>3, QueueKept DEF Saves
    <3> QED
      BY <2>4, <3>1 DEF LoginKeeps
  <2>6. ASSUME NEW d \in Chars \ {c}
        PROVE  Move(s, d)
    BY <1>t, <1>0, <1>u, <1>v, <2>1, <2>5, OwnIdles
  <2>7. Move(s, c)
    <3>1. LiveKeeps(s, c)
      BY <1>v, <2>1 DEF LiveKeeps
    <3>2. Queued(s, GivesUp, c)'
      <4>1. queue[s] \in Seq(Query)
        BY <1>t, QueueType
      <4>2. /\ Len(queue[s]) + 1 \in DOMAIN queue'[s]
            /\ queue'[s][Len(queue[s]) + 1] = e
        BY <2>3, <4>1
      <4> QED
        BY <2>2, <4>2 DEF Queued, GivesUp
    <3> QED
      BY <1>u, <2>5, <3>1, <3>2 DEF Move, Idles, RowKeeps
  <2>8. Local(s)
    BY <1>t, <1>u, <2>1, <2>3, <2>4 DEF Local
  <2> QED
    BY <1>t, <1>u, <2>6, <2>7, <2>8, QuietMoves
<1> QED
  BY <1>1, <1>2, <1>3, <1>4, <1>5 DEF TickLogin

\* The game makes such moves.
LEMMA GameMoves ==
  ASSUME TypeOK, NEW s \in Servers, NEW c \in Chars, Game(s, c)
  PROVE  Moves
<1> DEFINE ply == live[s][c]
<1>p. ply \in Player /\ ply.data \in Data
  BY DEF TypeOK, Player
<1>v. \A d \in Chars : live[s][d].data.ver >= live[s][d].data.ver
  BY VersionType
<1>l. ASSUME login' = login
      PROVE  \A d \in Chars : LoginKeeps(s, d)
  BY <1>l DEF LoginKeeps
<1>q. ASSUME queue' = queue
      PROVE  \A d \in Chars : QueueKeeps(s, d)
  BY <1>q, QueueKept
<1>1. CASE Progress(s, c)
  <2> DEFINE v == ply.data.ver + 1
             p == [ply EXCEPT !.data = [ply.data EXCEPT !.ver = v]]
  <2>1. /\ live' = [live EXCEPT ![s][c] = p] /\ ply.on
        /\ seen' = IF ply.plr # None THEN [seen EXCEPT ![c] = v] ELSE seen
        /\ UNCHANGED <<row, queue, login, up>>
    BY <1>1 DEF Progress, Playing
  <2>2. /\ p.on = ply.on /\ p.plr = ply.plr /\ p.data.ver = v
        /\ p.data.ver >= ply.data.ver
    <3>1. ply.data.ver \in Int
      BY VersionType
    <3> QED
      BY <1>p, <3>1 DEF Player, Data
  <2> HIDE DEF p, v
  <2>3. /\ live'[s][c] = p
        /\ \A d \in Chars \ {c} : live'[s][d] = live[s][d]
        /\ \A t \in Servers \ {s} : live'[t] = live[t]
    BY <2>1, LiveFacts
  <2>4. ASSUME NEW d \in Chars
        PROVE  Move(s, d)
    <3>1. live'[s][d].on = live[s][d].on /\ live'[s][d].data.ver >= live[s][d].data.ver
      BY <1>v, <2>2, <2>3
    <3> QED
      BY <1>l, <1>q, <2>1, <3>1, OwnIdles
  <2>5. ASSUME NEW d \in Chars
        PROVE  BookMove(d)
    <3>1. CASE seen'[d] = seen[d]
      BY <2>1, <3>1 DEF BookMove
    <3>2. CASE seen'[d] # seen[d]
      <4>1. d = c /\ ply.plr # None /\ seen'[c] = v
        BY <2>1, <3>2 DEF TypeOK
      <4>2. Shows(s, c)
        BY <2>1, <2>2, <2>3, <4>1 DEF Shows
      <4> QED
        BY <4>1, <4>2 DEF BookMove
    <3> QED
      BY <3>1, <3>2
  <2>6. Local(s)
    BY <2>1, <2>3 DEF Local
  <2> QED
    BY <2>1, <2>4, <2>5, <2>6, LocalMoves
<1>2. CASE Backup(s, c)
  <2> DEFINE e == Ask("save", c, ply.data, Area(s))
  <2>1. /\ ply.on /\ up[s] # "down"
        /\ queue' = [queue EXCEPT ![s] = Append(queue[s], e)]
        /\ UNCHANGED <<row, login, live, up, seen>>
    BY <1>2 DEF Backup, Playing, AddQuery
  <2>2. /\ e \in Query /\ e.op = "save" /\ e.c = c /\ e.data = ply.data
    BY <1>p, AskType, ServerType DEF Ask, Ops, Writes
  <2> HIDE DEF e
  <2>3. /\ queue'[s] = Append(queue[s], e)
        /\ \A t \in Servers \ {s} : queue'[t] = queue[t]
    BY <2>1, QueueFacts
  <2>4. Stores(s, c)
    BY <2>1, <2>2, <2>3 DEF Stores
  <2>5. ASSUME NEW d \in Chars \ {c}
        PROVE  Move(s, d)
    <3>1. QueueKeeps(s, d)
      BY <2>2, <2>3, QueueKept
    <3> QED
      BY <1>l, <1>v, <2>1, <3>1, OwnIdles
  <2>6. Local(s)
    BY <2>1, <2>3 DEF Local
  <2> QED
    BY <2>1, <2>4, <2>5, <2>6, QuietMoves DEF Move
<1>3. ASSUME NEW m \in Mirrors, ChooseMirror(s, c, m)
      PROVE  Moves
  <2> DEFINE p == [ply EXCEPT !.data = [ply.data EXCEPT !.mirror = m]]
  <2>1. /\ live' = [live EXCEPT ![s][c] = p]
        /\ UNCHANGED <<row, queue, login, up, seen>>
    BY <1>3 DEF ChooseMirror
  <2>2. /\ p.on = ply.on /\ p.data.ver = ply.data.ver
    BY <1>p DEF Player, Data
  <2> HIDE DEF p
  <2>3. /\ live'[s][c] = p
        /\ \A d \in Chars \ {c} : live'[s][d] = live[s][d]
        /\ \A t \in Servers \ {s} : live'[t] = live[t]
    BY <2>1, LiveFacts
  <2>4. ASSUME NEW d \in Chars
        PROVE  Move(s, d)
    <3>1. live'[s][d].on = live[s][d].on /\ live'[s][d].data.ver >= live[s][d].data.ver
      BY <1>v, <2>2, <2>3
    <3> QED
      BY <1>l, <1>q, <2>1, <3>1, OwnIdles
  <2>5. Local(s)
    BY <2>1, <2>3 DEF Local
  <2> QED
    BY <2>1, <2>4, <2>5, QuietMoves
<1>4. ASSUME NEW area \in Areas, Leave(s, c, area)
      PROVE  Moves
  <2>1. /\ KickChar(s, c, ply.data, area) /\ up[s] # "down"
        /\ UNCHANGED <<row, login, up, seen>>
    BY <1>4 DEF Leave, Playing
  <2> QED
    BY <1>p, <2>1, KickCharMoves
<1>5. ASSUME NEW area \in Areas, NEW m \in Mirrors, ChangeArea(s, c, area, m)
      PROVE  Moves
  <2> DEFINE data == [ply.data EXCEPT !.mirror = m]
  <2>1. /\ KickChar(s, c, data, area) /\ up[s] # "down"
        /\ UNCHANGED <<row, login, up, seen>>
    BY <1>5 DEF ChangeArea, Playing
  <2>2. data \in Data /\ data.ver = ply.data.ver
    BY <1>p DEF Data
  <2> HIDE DEF data
  <2> QED
    BY <2>1, <2>2, KickCharMoves
<1> QED
  BY <1>1, <1>2, <1>3, <1>4, <1>5 DEF Game

\* An update of a row, once or twice.
LEMMA WriteMoves ==
  ASSUME IInv, NEW s \in Servers, DbWrite(s) \/ DbWriteAgain(s)
  PROVE  Moves
<1>t. TypeOK
  BY DEF IInv
<1>1. /\ queue[s] # <<>> /\ up[s] # "down" /\ Head(queue[s]).op \in Writes
      /\ row' = Written(s, Head(queue[s]))
      /\ queue' = queue \/ queue' = [queue EXCEPT ![s] = Tail(queue[s])]
      /\ UNCHANGED <<login, live, up, seen>>
  BY DEF DbWrite, DbWriteAgain, TopIs, RemoveTopQuery
<1>2. PICK q \in Query : q = queue[s][1] /\ q = Head(queue[s]) /\ q.c \in Chars
  BY <1>t, <1>1, TopType
<1>3. PICK c \in Chars : c = q.c
  BY <1>2
<1>4. /\ queue'[s] = queue[s] \/ queue'[s] = Tail(queue[s])
      /\ \A t \in Servers \ {s} : queue'[t] = queue[t]
  BY <1>t, <1>1, QueueFacts
<1>5. /\ \A d \in Chars \ {c} : row'[d] = row[d]
      /\ row[c].cur # s => row' = row
      /\ row[c].cur = s =>
           /\ row'[c].cur = IF q.op = "save" THEN s ELSE None
           /\ row'[c].data = IF q.op \in Saves THEN q.data ELSE row[c].data
  <2>1. CASE row[c].cur # s
    BY <1>1, <1>2, <1>3, <2>1 DEF Written
  <2>2. CASE row[c].cur = s
    <3> DEFINE r == row[c]
               x == CASE q.op = "save"    -> [r EXCEPT !.data = q.data]
                      [] q.op = "exit"    -> [cur |-> None, allowed |-> q.area, data |-> q.data]
                      [] q.op = "release" -> [r EXCEPT !.cur = None]
    <3>1. row' = [row EXCEPT ![c] = x]
      BY <1>1, <1>2, <1>3, <2>2 DEF Written
    <3>2. r \in Row /\ r.cur = s
      BY <1>t, <2>2 DEF TypeOK
    <3>3. CASE q.op = "save"
      <4>1. x = [r EXCEPT !.data = q.data]
        BY <3>3
      <4>2. x.cur = s /\ x.data = q.data
        BY <3>2, <4>1 DEF Row
      <4> HIDE DEF x
      <4> QED
        BY <1>t, <2>2, <3>1, <3>3, <4>2 DEF TypeOK, Saves
    <3>4. CASE q.op = "exit"
      <4>1. x.cur = None /\ x.data = q.data
        BY <3>4
      <4> HIDE DEF x
      <4> QED
        BY <1>t, <2>2, <3>1, <3>4, <4>1 DEF TypeOK, Saves
    <3>5. CASE q.op = "release"
      <4>1. x = [r EXCEPT !.cur = None]
        BY <3>5
      <4>2. x.cur = None /\ x.data = r.data
        BY <3>2, <4>1 DEF Row
      <4> HIDE DEF x
      <4> QED
        BY <1>t, <2>2, <3>1, <3>5, <4>2 DEF TypeOK, Saves
    <3> QED
      BY <1>1, <1>2, <3>3, <3>4, <3>5 DEF Writes
  <2> QED
    BY <2>1, <2>2
<1>6. row[c].cur = s => Executes(s, c)
  BY <1>1, <1>2, <1>3, <1>4, <1>5 DEF Executes
<1>7. ASSUME NEW d \in Chars, d # c \/ row[c].cur # s
      PROVE  Idles(s, d) /\ row'[d] = row[d]
  <2>1. row'[d] = row[d]
    BY <1>5, <1>7
  <2>2. QueueKeeps(s, d)
    BY <1>t, <1>1, <1>2, <1>3, <1>4, <1>7, QueueKept
  <2>3. LoginKeeps(s, d) /\ RowKeeps(s, d)
    BY <1>1, <2>1 DEF LoginKeeps, RowKeeps
  <2>4. Holds(s, d) => Holds(s, d)'
    BY <1>1 DEF Holds
  <2>5. LiveKeeps(s, d)
    BY <1>t, <1>1, VersionType DEF LiveKeeps
  <2> QED
    BY <1>1, <2>1, <2>2, <2>3, <2>4, <2>5 DEF Idles
<1>8. ASSUME NEW d \in Chars
      PROVE  Move(s, d) /\ BookMove(d)
  BY <1>1, <1>6, <1>7 DEF Move, BookMove
<1>9. ASSUME NEW t \in Servers \ {s}, NEW d \in Chars
      PROVE  RowKeeps(t, d)
  <2>1. CASE d = c /\ row[c].cur = s
    <3>1. row'[c].cur # t /\ row[c].cur # t
      BY <1>5, <2>1, ServerType
    <3> QED
      BY <2>1, <3>1 DEF RowKeeps
  <2>2. CASE ~(d = c /\ row[c].cur = s)
    BY <1>5, <2>2 DEF RowKeeps
  <2> QED
    BY <2>1, <2>2
<1>10. Local(s)
  BY <1>1, <1>4 DEF Local
<1> QED
  BY <1>t, <1>8, <1>9, <1>10, LocalMoves

\* load_char, until it marks the row.
LEMMA LoadMoves ==
  ASSUME IInv, NEW s \in Servers,
         \/ DbLoadRefused(s) \/ DbLoadElsewhere(s) \/ DbLoadOtherMirror(s)
         \/ DbLoadCopy(s)
  PROVE  Moves
<1>t. TypeOK
  BY DEF IInv
<1>l. Loading(s)
  BY DEF DbLoadRefused, DbLoadElsewhere, DbLoadOtherMirror, DbLoadCopy
<1>1. /\ up[s] # "down" /\ queue[s] # <<>>
      /\ Head(queue[s]) = queue[s][1]
      /\ queue[s][1].op = "load"
      /\ login[s].c = queue[s][1].c
      /\ login[s].st = "read"
      /\ UNCHANGED <<live, up>>
  BY <1>l, LoadingFacts
<1>2. row' = row /\ seen' = seen
  BY <1>l DEF DbLoadRefused, DbLoadElsewhere, DbLoadOtherMirror, DbLoadCopy, Loading
<1>v. \A d \in Chars :
        /\ live'[s][d].on = live[s][d].on
        /\ live'[s][d].data.ver >= live[s][d].data.ver
  BY <1>t, <1>1, VersionType
<1>3. ASSUME NEW l, SetLogin(s, l), RemoveTopQuery(s), l.st \in Results \ {"ok"}
      PROVE  Moves
  <2>1. /\ queue'[s] = Tail(queue[s])
        /\ \A t \in Servers \ {s} : queue'[t] = queue[t]
    BY <1>t, <1>3, QueueFacts DEF RemoveTopQuery
  <2>2. /\ login'[s] = l
        /\ \A t \in Servers \ {s} : login'[t] = login[t]
    BY <1>t, <1>3, SetLoginFacts
  <2>3. ASSUME NEW d \in Chars
        PROVE  Move(s, d)
    <3>1. QueueKeeps(s, d)
      BY <1>t, <1>1, <2>1, QueueKept DEF Writes
    <3>2. LoginKeeps(s, d)
      BY <1>3, <2>2 DEF LoginKeeps, Results
    <3> QED
      BY <1>t, <1>1, <1>2, <1>v, <3>1, <3>2, OwnIdles
  <2>4. Local(s)
    BY <1>1, <2>1, <2>2 DEF Local
  <2> QED
    BY <1>t, <1>2, <2>3, <2>4, QuietMoves
<1>4. \A to, b :
        /\ Result(s, "failed", to).st = "failed"
        /\ Result(s, "newarea", to).st = "newarea"
        /\ [Result(s, "newarea", to) EXCEPT !.current = b].st = "newarea"
  BY <1>t, ResultFacts
<1>5. CASE DbLoadRefused(s)
  BY <1>3, <1>4, <1>5 DEF DbLoadRefused, Results
<1>6. CASE DbLoadElsewhere(s)
  BY <1>3, <1>4, <1>6 DEF DbLoadElsewhere, Results
<1>7. CASE DbLoadOtherMirror(s)
  <2>1. PICK to, b : /\ SetLogin(s, [Result(s, "newarea", to) EXCEPT !.current = b])
                     /\ RemoveTopQuery(s)
    BY <1>7 DEF DbLoadOtherMirror
  <2> QED
    BY <1>3, <1>4, <2>1 DEF Results
<1>8. CASE DbLoadCopy(s)
  <2> DEFINE r == row[queue[s][1].c]
             l == [login[s] EXCEPT !.st = "mark", !.data = r.data,
                                   !.current = r.cur = s]
  <2>1. SetLogin(s, l) /\ queue' = queue
    BY <1>1, <1>8 DEF DbLoadCopy
  <2>2. /\ login'[s] = l
        /\ \A t \in Servers \ {s} : login'[t] = login[t]
    BY <1>t, <2>1, SetLoginFacts
  <2>3. /\ login'[s].st = "mark" /\ login'[s].c = login[s].c
        /\ login'[s].data = r.data
    BY <1>t, <2>2, LoginFields DEF Login
  <2>4. ASSUME NEW d \in Chars
        PROVE  Move(s, d)
    <3>1. QueueKeeps(s, d)
      BY <1>t, <2>1, QueueKept
    <3>2. LoginKeeps(s, d)
      BY <1>1, <1>2, <2>3 DEF LoginKeeps
    <3> QED
      BY <1>t, <1>1, <1>2, <1>v, <3>1, <3>2, OwnIdles
  <2>5. Local(s)
    BY <1>1, <2>1, <2>2 DEF Local
  <2> QED
    BY <1>t, <1>2, <2>4, <2>5, QuietMoves
<1> QED
  BY <1>5, <1>6, <1>7, <1>8

\* load_char marks the row.
LEMMA MarkMoves ==
  ASSUME IInv, NEW s \in Servers, DbLoadMark(s)
  PROVE  Moves
<1> DEFINE l == [login[s] EXCEPT !.st = "create"]
<1>t. TypeOK
  BY DEF IInv
<1>1. /\ up[s] # "down" /\ queue[s] # <<>>
      /\ Head(queue[s]).op = "load"
      /\ login[s].st = "mark"
      /\ SetLogin(s, l)
      /\ queue' = [queue EXCEPT ![s] = Tail(queue[s])]
      /\ UNCHANGED <<live, up, seen>>
  BY DEF DbLoadMark, TopIs, RemoveTopQuery
<1>2. PICK c \in Chars : c = queue[s][1].c /\ Head(queue[s]) = queue[s][1]
                         /\ 1 \in DOMAIN queue[s]
  BY <1>t, <1>1, TopType
<1>3. login[s].c = c
  BY <1>1, <1>2 DEF IInv, ServerInv, LoadInv
<1>4. /\ row'[c].cur = s /\ row'[c].data = row[c].data
      /\ \A d \in Chars \ {c} : row'[d] = row[d]
  <2>1. row' = [row EXCEPT ![c] = [row[c] EXCEPT !.cur = s, !.allowed = Area(s)]]
    BY <1>2 DEF DbLoadMark
  <2>2. row[c] \in Row
    BY <1>t DEF TypeOK
  <2> QED
    BY <1>t, <2>1, <2>2 DEF TypeOK, Row
<1>5. /\ queue'[s] = Tail(queue[s])
      /\ \A t \in Servers \ {s} : queue'[t] = queue[t]
  BY <1>t, <1>1, QueueFacts
<1>6. /\ login'[s] = l
      /\ \A t \in Servers \ {s} : login'[t] = login[t]
  BY <1>t, <1>1, SetLoginFacts
<1>7. /\ login'[s].st = "create" /\ login'[s].c = c
      /\ login'[s].current = login[s].current
      /\ login'[s].data = login[s].data
  BY <1>t, <1>3, <1>6, LoginFields DEF Login
<1>a. ASSUME Untaken(c)'
      PROVE  AsRead(s, c)
  <2> SUFFICES ASSUME ~AsRead(s, c)
               PROVE  FALSE
    OBVIOUS
  <2>1. struck' = [struck EXCEPT !.taken = @ \cup {c}]
    BY <1>2 DEF DbLoadMark
  <2> QED
    BY <1>t, <1>a, <2>1 DEF Untaken, TypeOK, Struck
<1>8. Marks(s, c)
  BY <1>1, <1>2, <1>3, <1>4, <1>5, <1>7, <1>a DEF Marks
<1>9. ASSUME NEW d \in Chars \ {c}
      PROVE  Idles(s, d) /\ row'[d] = row[d]
  <2>1. row'[d] = row[d]
    BY <1>4
  <2>2. QueueKeeps(s, d)
    BY <1>t, <1>1, <1>2, <1>5, QueueKept DEF Writes
  <2>3. LoginKeeps(s, d) /\ RowKeeps(s, d)
    BY <1>7, <2>1 DEF LoginKeeps, RowKeeps
  <2>4. Holds(s, d) => Holds(s, d)'
    BY <1>1, <1>3 DEF Holds
  <2>5. LiveKeeps(s, d)
    BY <1>t, <1>1, VersionType DEF LiveKeeps
  <2> QED
    BY <1>1, <2>1, <2>2, <2>3, <2>4, <2>5 DEF Idles
<1>10. ASSUME NEW d \in Chars
       PROVE  Move(s, d) /\ BookMove(d)
  BY <1>1, <1>8, <1>9 DEF Move, BookMove
<1>11. ASSUME NEW t \in Servers \ {s}, NEW d \in Chars, Untaken(d)'
       PROVE  RowKeeps(t, d)
  <2>1. CASE d = c
    <3>1. row[c].cur = IF login[s].current THEN s ELSE None
      BY <1>11, <1>a, <2>1 DEF AsRead
    <3>2. row'[c].cur # t /\ row[c].cur # t
      BY <1>4, <3>1, ServerType
    <3> QED
      BY <2>1, <3>2 DEF RowKeeps
  <2>2. CASE d # c
    BY <1>4, <2>2 DEF RowKeeps
  <2> QED
    BY <2>1, <2>2
<1>12. Local(s)
  BY <1>1, <1>5, <1>6 DEF Local
<1> QED
  BY <1>t, <1>10, <1>11, <1>12, LocalMoves

\* db_rescue_char frees the row of a server that does not run, or struck has
\* the character from then on.
LEMMA RescueMoves ==
  ASSUME IInv, NEW s \in Servers, DbRescue(s)
  PROVE  Moves
<1>t. TypeOK
  BY DEF IInv
<1>1. /\ up[s] # "down" /\ queue[s] # <<>>
      /\ Head(queue[s]).op = "rescue"
      /\ queue' = [queue EXCEPT ![s] = Tail(queue[s])]
      /\ UNCHANGED <<login, live, up, seen>>
  BY DEF DbRescue, TopIs, RemoveTopQuery
<1>2. PICK c \in Chars : c = queue[s][1].c /\ Head(queue[s]) = queue[s][1]
                         /\ 1 \in DOMAIN queue[s]
  BY <1>t, <1>1, TopType
<1>3. /\ queue'[s] = Tail(queue[s])
      /\ \A t \in Servers \ {s} : queue'[t] = queue[t]
  BY <1>t, <1>1, QueueFacts
<1>4. ASSUME row' # row
      PROVE  /\ row'[c].cur = None /\ row'[c].data = row[c].data
             /\ \A d \in Chars \ {c} : row'[d] = row[d]
             /\ Running(row[c].cur) => ~Untaken(c)'
  <2>1. /\ \E i \in DOMAIN HomeAreas :
             row' = [row EXCEPT ![c] = [row[c] EXCEPT !.cur = None,
                                                      !.allowed = HomeAreas[i]]]
        /\ Running(row[c].cur) =>
             struck' = [struck EXCEPT !.taken = @ \cup {c}]
    BY <1>2, <1>4 DEF DbRescue
  <2>2. row[c] \in Row
    BY <1>t DEF TypeOK
  <2>3. Running(row[c].cur) => ~Untaken(c)'
    BY <1>t, <2>1 DEF Untaken, TypeOK, Struck
  <2>4. ASSUME NEW i \in DOMAIN HomeAreas,
               row' = [row EXCEPT ![c] = [row[c] EXCEPT !.cur = None,
                                                        !.allowed = HomeAreas[i]]]
        PROVE  /\ row'[c].cur = None /\ row'[c].data = row[c].data
               /\ \A d \in Chars \ {c} : row'[d] = row[d]
    BY <1>t, <2>2, <2>4 DEF TypeOK, Row
  <2> QED
    BY <2>1, <2>3, <2>4
<1>5. ASSUME NEW t \in Servers, row' # row, row[c].cur = t, Untaken(c)'
      PROVE  up[t] = "down"
  BY <1>4, <1>5, ServerType DEF Running
<1>6. ASSUME NEW t \in Servers, NEW d \in Chars, Untaken(d)'
      PROVE  RowKeeps(t, d)
  <2>1. CASE row' = row \/ d # c
    BY <1>4, <2>1 DEF RowKeeps
  <2>2. CASE row' # row /\ d = c
    <3>1. row'[c].cur # t
      BY <1>4, <2>2, ServerType
    <3> QED
      BY <1>5, <1>6, <2>2, <3>1 DEF RowKeeps
  <2> QED
    BY <2>1, <2>2
<1>7. ASSUME NEW d \in Chars
      PROVE  Move(s, d)
  <2>1. QueueKeeps(s, d)
    BY <1>t, <1>1, <1>2, <1>3, QueueKept DEF Writes
  <2>2. LoginKeeps(s, d)
    BY <1>1 DEF LoginKeeps
  <2>3. LiveKeeps(s, d)
    BY <1>t, <1>1, VersionType DEF LiveKeeps
  <2>4. Holds(s, d) => Holds(s, d)'
    BY <1>1 DEF Holds
  <2> QED
    BY <1>1, <1>6, <2>1, <2>2, <2>3, <2>4 DEF Move, Idles
<1>8. ASSUME NEW d \in Chars, Untaken(d)'
      PROVE  BookMove(d)
  <2>1. CASE row'[d].cur = row[d].cur /\ row'[d].data = row[d].data
    BY <1>1, <2>1 DEF BookMove
  <2>2. CASE ~(row'[d].cur = row[d].cur /\ row'[d].data = row[d].data)
    <3>1. d = c /\ row' # row /\ row[c].cur # None
      BY <1>4, <2>2
    <3>2. PICK t \in Servers : t = row[c].cur
      BY <1>t, <3>1 DEF TypeOK, Row
    <3>3. Frees(t, c)
      BY <1>1, <1>4, <1>5, <1>8, <3>1, <3>2 DEF Frees
    <3> QED
      BY <3>1, <3>3 DEF BookMove
  <2> QED
    BY <2>1, <2>2
<1>9. Local(s)
  BY <1>1, <1>3 DEF Local
<1> QED
  <2>1. \A d \in Chars : Move(s, d) /\ (Untaken(d)' => BookMove(d))
    BY <1>7, <1>8
  <2>2. \A t \in Servers \ {s}, d \in Chars : Untaken(d)' => RowKeeps(t, d)
    BY <1>6
  <2> QED
    BY <1>t, <1>9, <2>1, <2>2, LocalMoves

\* A process that ends.
LEMMA ProcessEndsMoves ==
  ASSUME TypeOK, NEW s \in Servers, ProcessEnds(s), row' = row,
         \/ /\ queue[s] = <<>> /\ \A c \in Chars : ~live[s][c].on
            /\ seen' = seen
         \/ seen' = [c \in Chars |-> IF row[c].cur = s THEN row[c].data.ver
                                                       ELSE seen[c]]
  PROVE  Moves
<1>1. /\ up'[s] = "down"
      /\ \A t \in Servers \ {s} : up'[t] = up[t]
  BY DEF ProcessEnds, TypeOK
<1>2. /\ queue'[s] = <<>>
      /\ \A t \in Servers \ {s} : queue'[t] = queue[t]
  BY QueueFacts DEF ProcessEnds
<1>3. /\ login'[s] = Idle(login[s].c)
      /\ \A t \in Servers \ {s} : login'[t] = login[t]
  BY SetLoginFacts DEF ProcessEnds
<1>4. login'[s].st = "empty"
  BY <1>3 DEF Idle
<1>5. /\ \A c \in Chars : ~live'[s][c].on
      /\ \A t \in Servers \ {s} : live'[t] = live[t]
  BY DEF ProcessEnds, TypeOK, Absent
<1>6. Ended(s)
  BY <1>1, <1>2, <1>4, <1>5 DEF Ended
<1>7. ASSUME NEW c \in Chars
      PROVE  BookMove(c)
  <2>1. CASE seen'[c] = seen[c]
    BY <2>1 DEF BookMove
  <2>2. CASE row[c].cur = s /\ seen'[c] = row[c].data.ver
    BY <1>4, <2>2 DEF BookMove, Loses
  <2> QED
    BY <2>1, <2>2
<1>8. Local(s)
  BY <1>1, <1>2, <1>3, <1>5 DEF Local
<1> QED
  BY <1>6, <1>7, <1>8, LocalMoves DEF Move

\* The life of a server.
LEMMA ServerLifeMoves ==
  ASSUME IInv, NEW s \in Servers, ServerLife(s)
  PROVE  Moves
<1>t. TypeOK
  BY DEF IInv
<1>1. CASE AreaAlive(s) \/ GoStale(s) \/ UpdateAreas(s) \/ StopBegin(s)
  <2>1. UNCHANGED <<row, queue, login, live, seen>>
    BY <1>1 DEF AreaAlive, GoStale, UpdateAreas, StopBegin
  <2>2. ASSUME NEW t \in Servers
        PROVE  up'[t] # "down" => up[t] # "down"
    BY <1>t, <1>1 DEF AreaAlive, GoStale, UpdateAreas, StopBegin, TypeOK
  <2> QED
    BY <1>t, <2>1, <2>2, StillMoves
<1>2. CASE StopDone(s) \/ Crash(s)
  BY <1>t, <1>2, ProcessEndsMoves DEF StopDone, Crash
<1>3. CASE Restart(s)
  <2>1. /\ up[s] = "down"
        /\ UNCHANGED <<queue, login, live, seen>>
        /\ up' = [up EXCEPT ![s] = "up"]
        /\ row' = [c \in Chars |->
             IF row[c].cur = s THEN [row[c] EXCEPT !.cur = None] ELSE row[c]]
    BY <1>3 DEF Restart
  <2>2. ASSUME NEW c \in Chars
        PROVE  /\ row[c].cur = s => row'[c].cur = None /\ row'[c].data = row[c].data
               /\ row[c].cur # s => row'[c] = row[c]
    <3>1. row[c] \in Row
      BY <1>t DEF TypeOK
    <3> QED
      BY <2>1, <3>1 DEF Row
  <2>3. Started(s)
    BY <2>1, <2>2, ServerType DEF Started
  <2>4. ASSUME NEW c \in Chars
        PROVE  BookMove(c)
    <3>1. CASE row[c].cur = s
      <4>1. Frees(s, c)
        BY <2>1, <2>2, <3>1 DEF Frees
      <4> QED
        BY <4>1 DEF BookMove
    <3>2. CASE row[c].cur # s
      BY <2>1, <2>2, <3>2 DEF BookMove
    <3> QED
      BY <3>1, <3>2
  <2>5. ASSUME NEW t \in Servers \ {s}, NEW c \in Chars
        PROVE  RowKeeps(t, c)
    <3>1. CASE row[c].cur = s
      <4>1. row'[c].cur # t
        BY <2>2, <3>1, ServerType
      <4> QED
        BY <3>1, <4>1 DEF RowKeeps
    <3>2. CASE row[c].cur # s
      BY <2>2, <3>2 DEF RowKeeps
    <3> QED
      BY <3>1, <3>2
  <2>6. Local(s)
    BY <1>t, <2>1 DEF Local, TypeOK
  <2> QED
    BY <1>t, <2>3, <2>4, <2>5, <2>6, LocalMoves DEF Move
<1>4. ASSUME NEW c \in Chars, NEW area \in Areas, ExitOnShutdown(s, c, area)
      PROVE  Moves
  <2>1. /\ KickChar(s, c, live[s][c].data, area) /\ up[s] # "down"
        /\ UNCHANGED <<row, login, up, seen>>
    BY <1>4 DEF ExitOnShutdown
  <2>2. live[s][c].data \in Data
    BY <1>t DEF TypeOK, Player
  <2> QED
    BY <1>t, <2>1, <2>2, KickCharMoves
<1> QED
  BY <1>1, <1>2, <1>3, <1>4 DEF ServerLife

\* So does every step.
LEMMA EveryStepMoves ==
  ASSUME IInv, [Next]_vars
  PROVE  Moves
<1>t. TypeOK
  BY DEF IInv
<1>1. CASE UNCHANGED vars
  BY <1>t, <1>1, StillMoves DEF vars
<1>2. ASSUME NEW s \in Servers, DbStep(s) \/ DbWriteAgain(s)
      PROVE  Moves
  BY <1>2, WriteMoves, LoadMoves, MarkMoves, RescueMoves DEF DbStep
<1>3. ASSUME NEW s \in Servers, LoginAges(s) \/ TickLogin(s) \/ ServerLife(s)
      PROVE  Moves
  BY <1>t, <1>3, LoginAgesMoves, TickLoginMoves, ServerLifeMoves
<1> QED
  BY <1>t, <1>1, <1>2, <1>3, ClientStepMoves, FindLoginMoves, GameMoves DEF Next

-----------------------------------------------------------------------------

\* At the start nothing is queued and nothing was shown.
LEMMA WholeInit ==
  ASSUME Init
  PROVE  WholeInv
<1>1. IInv /\ Linked
  BY InductiveInit, LinkedInit
<1>2. ASSUME NEW s \in Servers, NEW c \in Chars
      PROVE  /\ queue[s] = <<>> /\ login[s].st = "empty" /\ ~live[s][c].on
             /\ row[c].cur = None /\ row[c].data.ver = 0 /\ seen[c] = 0
  BY DEF Init, Idle, Absent
<1>3. ASSUME NEW s \in Servers
      PROVE  AccountInv(s) /\ UnseenInv(s)
  <2>1. AccountInv(s)
    BY <1>2, ServerType DEF AccountInv
  <2>2. login[s].st = "empty"
    BY DEF Init, Idle
  <2>3. UnseenInv(s)
    BY <2>2 DEF UnseenInv
  <2> QED
    BY <2>1, <2>3
<1>4. ASSUME NEW s \in Servers, NEW c \in Chars
      PROVE  WriteInv(s, c) /\ HeldInv(s, c)
  BY <1>2 DEF WriteInv, HeldInv
<1>5. ASSUME NEW c \in Chars
      PROVE  SeenInv(c)
  BY DEF Init, SeenInv
<1> QED
  BY <1>1, <1>3, <1>4, <1>5 DEF WholeInv, DataInv, Linked

\* Every step keeps all of it.
LEMMA WholeStep ==
  ASSUME WholeInv, [Next]_vars
  PROVE  WholeInv'
<1>1. IInv /\ Linked /\ TypeOK
  BY DEF WholeInv, Linked, IInv
<1>2. IInv' /\ TypeOK'
  BY <1>1, InductiveStep DEF IInv
<1>g. Grows /\ \A c \in Chars : Intact(c)' => Untaken(c)' /\ Untaken(c) /\ Intact(c)
  BY <1>1, NextGrows DEF Grows, Intact
<1>3. Linked'
  BY <1>1, LinkedStep
<1>4. Moves
  BY <1>1, EveryStepMoves
<1>5. /\ \A t \in Servers, d \in Chars :
           ServerInv(t) /\ (Intact(d) => CharInv(t, d))
      /\ \A d \in Chars : Intact(d) => SeenInv(d)
  BY <1>1 DEF WholeInv, DataInv, CharInv, IInv
<1>6. ASSUME NEW s \in Servers
      PROVE  AccountInv(s)'
  <2>1. AccountInv(s)
    BY DEF WholeInv
  <2>2. ServerInv(s)
    BY <1>1 DEF IInv
  <2>3. \A c \in Chars : Move(s, c)
    BY <1>4 DEF Moves
  <2> QED
    BY <1>1, <1>g, <2>1, <2>2, <2>3, AccountMoves
<1>7. ASSUME NEW s \in Servers, NEW c \in Chars, Intact(c)'
      PROVE  CharInv(s, c)'
  <2>1. /\ Untaken(c) /\ Untaken(c)'
        /\ \A t \in Servers : ServerInv(t) /\ CharInv(t, c)
    BY <1>5, <1>7, <1>g
  <2>2. Move(s, c) /\ BookMove(c)
    BY <1>4, <2>1 DEF Moves
  <2> QED
    BY <1>1, <1>2, <1>7, <2>1, <2>2, CharMoves
<1>8. ASSUME NEW s \in Servers
      PROVE  UnseenInv(s)'
  <2>1. LinkInv(s)' /\ UnseenInv(s)
    BY <1>3 DEF Linked, WholeInv, DataInv
  <2> QED
    BY <1>1, <1>2, <1>g, <1>4, <1>5, <2>1, UnseenMoves
<1>9. ASSUME NEW c \in Chars, Intact(c)'
      PROVE  SeenInv(c)'
  <2>1. Intact(c) /\ Untaken(c) /\ Untaken(c)'
    BY <1>9, <1>g
  <2>2. /\ \A t \in Servers : ServerInv(t) /\ CharInv(t, c) /\ UnseenInv(t)
        /\ SeenInv(c) /\ BookMove(c) /\ \A t \in Servers : Move(t, c)
    BY <1>4, <1>5, <2>1 DEF Moves, WholeInv, DataInv
  <2> QED
    BY <1>1, <1>2, <1>9, <2>1, <2>2, SeenMoves
<1> QED
  BY <1>2, <1>3, <1>6, <1>7, <1>8, <1>9 DEF WholeInv, DataInv, CharInv, Linked

-----------------------------------------------------------------------------
(* The theorems.                                                           *)

\* The whole invariant holds in every reachable state: the invariant of the
\* locks with what clients, logins, queued updates and rows have in common.
THEOREM WholeInvariance ==
  Spec => []WholeInv
<1>1. Init => WholeInv
  BY WholeInit
<1>2. WholeInv /\ [Next]_vars => WholeInv'
  BY WholeStep
<1> QED
  BY <1>1, <1>2, PTL DEF Spec

\* The save of a logout that waits in a queue will be written: until then the
\* row names the server and the character is not back in the game.
THEOREM LogoutSaveLandsAlways ==
  Spec => []LogoutSaveLands
<1>1. WholeInv => LogoutSaveLands
  <2> SUFFICES ASSUME WholeInv, NEW s \in Servers, NEW i \in DOMAIN queue[s],
                      queue[s][i].op = "exit", Intact(queue[s][i].c)
               PROVE  \/ row[queue[s][i].c].cur = s /\ ~Holds(s, queue[s][i].c)
                      \/ i = 1 /\ row[queue[s][i].c].data.ver >= queue[s][i].data.ver
    BY DEF LogoutSaveLands
  <2>1. /\ TypeOK /\ ServerInv(s)
        /\ \A c \in Chars : Intact(c) => WriteInv(s, c)
    BY DEF WholeInv, IInv, DataInv
  <2>2. i \in Nat /\ i >= 1
    BY <2>1, QueueType
  <2>3. PICK c \in Chars : queue[s][i].c = c
    BY <2>1, QueueType DEF Query
  <2>4. ~Holds(s, c) /\ (i > 1 => row[c].cur = s)
    BY <2>1, <2>3 DEF Intact, ServerInv, GiveUpInv
  <2>5. row[c].cur # s => row[c].data.ver >= queue[s][i].data.ver
    BY <2>1, <2>3 DEF WriteInv
  <2> QED
    BY <2>2, <2>3, <2>4, <2>5
<1> QED
  BY <1>1, WholeInvariance, PTL

\* When tick_login does not find a character that was online when load_char
\* read its row, the query that frees the row was executed or is queued.
THEOREM NotFoundIsTransientAlways ==
  Spec => []NotFoundIsTransient
<1>1. WholeInv => NotFoundIsTransient
  <2> SUFFICES ASSUME WholeInv, NEW s \in Servers,
                      Creating(s), login[s].current, ~live[s][login[s].c].on,
                      Freed(login[s].c)
               PROVE  \/ row[login[s].c].cur # s
                      \/ Queued(s, {"exit", "release"}, login[s].c)
    BY DEF NotFoundIsTransient
  <2>1. TypeOK /\ AccountInv(s) /\ ServerInv(s)
    BY DEF WholeInv, IInv
  <2>2. PICK c \in Chars : c = login[s].c
    BY <2>1, LoginFields
  <2>3. up[s] # "down"
    BY DEF Creating
  <2>4. ~Holds(s, c)
    BY <2>2 DEF Holds
  <2> QED
    BY <2>1, <2>2, <2>3, <2>4 DEF AccountInv
<1> QED
  BY <1>1, WholeInvariance, PTL

\* A character that is online nowhere has everything its player was shown
\* saved, except what a crashed server took with it.
THEOREM AtRestNothingLostAlways ==
  Spec => []AtRestNothingLost
<1>1. WholeInv => AtRestNothingLost
  <2> SUFFICES ASSUME WholeInv, NEW c \in Chars, Intact(c), row[c].cur = None
               PROVE  row[c].data.ver >= seen[c]
    BY DEF AtRestNothingLost
  <2>1. SeenInv(c) /\ TypeOK
    BY DEF WholeInv, IInv, DataInv
  <2>2. seen[c] <= row[c].data.ver
    BY <2>1 DEF SeenInv
  <2>3. seen[c] \in Int /\ row[c].data.ver \in Int
    BY <2>1 DEF TypeOK, Row, Data, Versions
  <2> QED
    BY <2>2, <2>3
<1> QED
  BY <1>1, WholeInvariance, PTL

-----------------------------------------------------------------------------
(* The lending book.                                                       *)

Entry(c) == [holder |-> row[c].cur, data |-> row[c].data.ver,
             shown |-> seen[c], void |-> ~Intact(c)]
Book == [c \in Chars |-> Entry(c)]

\* Nothing is lent, saved or shown at the start.
LEMMA LeaseInit ==
  ASSUME Init
  PROVE  Lease!Init
<1>1. ASSUME NEW c \in Chars
      PROVE  /\ row[c].cur = None /\ row[c].data.ver = 0 /\ seen[c] = 0
             /\ Intact(c)
  BY DEF Init, Intact, Untaken
<1>2. Book \in [Chars -> [holder: {None}, data: {0}, shown: {0}, void: {FALSE}]]
  BY <1>1 DEF Book, Entry
<1> QED
  BY <1>2 DEF Lease!Init, Book, Entry

\* Whatever happens to a character is an entry in the book, or none.
LEMMA EntryMoves ==
  ASSUME WholeInv, TypeOK', NEW c \in Chars, Intact(c), Intact(c)', BookMove(c),
         NEW e, NEW n, e = Entry(c), n = Entry(c)'
  PROVE  \/ Lease!Take(e, n) \/ Lease!Save(e, n) \/ Lease!Show(e, n)
         \/ Lease!Lose(e, n) \/ Lease!Return(e, n) \/ n = e
<1>t. TypeOK /\ SeenInv(c) /\ Untaken(c) /\ Untaken(c)'
  BY DEF WholeInv, IInv, DataInv, Intact
<1>f. PICK v : v = FALSE
  OBVIOUS
<1>e. /\ e = [holder |-> row[c].cur, data |-> row[c].data.ver,
              shown |-> seen[c], void |-> v]
      /\ n = [holder |-> row'[c].cur, data |-> row'[c].data.ver,
              shown |-> seen'[c], void |-> v]
  BY <1>f DEF Entry
<1>v. /\ row[c].data.ver \in Int /\ seen[c] \in Int
      /\ row'[c].data.ver \in Int /\ seen'[c] \in Int
  BY <1>t DEF TypeOK, Row, Data, Versions
<1>r. \A h, d : [e EXCEPT !.holder = h, !.data = d]
                 = [holder |-> h, data |-> d, shown |-> seen[c], void |-> v]
  <2> TAKE h, d
  <2>1. PICK m : m = [holder |-> h, data |-> row[c].data.ver,
                      shown |-> seen[c], void |-> v]
    OBVIOUS
  <2>2. [e EXCEPT !.holder = h] = m
    BY <1>e, <2>1
  <2>3. [e EXCEPT !.holder = h, !.data = d] = [[e EXCEPT !.holder = h] EXCEPT !.data = d]
    BY <1>e
  <2>4. [e EXCEPT !.holder = h, !.data = d] = [m EXCEPT !.data = d]
    BY <2>2, <2>3, Zenon
  <2>5. [m EXCEPT !.data = d]
          = [holder |-> h, data |-> d, shown |-> seen[c], void |-> v]
    BY <2>1
  <2> QED
    BY <2>4, <2>5, Zenon
<1>i. \A s \in Servers : ServerInv(s) /\ CharInv(s, c)
  BY DEF WholeInv, IInv, DataInv, CharInv
<1>1. CASE /\ row'[c].cur = row[c].cur /\ row'[c].data = row[c].data
           /\ seen'[c] = seen[c]
  BY <1>1, <1>e
<1>2. ASSUME NEW s \in Servers, Executes(s, c), seen'[c] = seen[c]
      PROVE  Lease!Save(e, n) \/ Lease!Return(e, n)
  <2>1. row[c].cur = s /\ s # None /\ row'[c].data.ver >= row[c].data.ver
    BY <1>t, <1>i, <1>2, ExecutesFacts, ServerType DEF Executes
  <2>2. CASE queue[s][1].op = "save"
    BY <1>2, <1>e, <2>1, <2>2 DEF Executes, Lease!Save, Lease!Lent
  <2>3. CASE queue[s][1].op \in GivesUp
    <3>1. seen[c] <= row'[c].data.ver
      BY <1>t, <1>i, <1>2, <2>3, SeenGivenUp
    <3>2. row'[c].cur = None
      BY <1>2, <2>3 DEF Executes, GivesUp
    <3>3. n.data >= e.data /\ n.data >= e.shown
      BY <1>v, <1>e, <2>1, <3>1
    <3>4. n = [e EXCEPT !.holder = None, !.data = n.data]
      <4>1. n = [holder |-> None, data |-> n.data, shown |-> seen[c], void |-> v]
        BY <1>2, <1>e, <3>2
      <4> QED
        BY <1>r, <4>1
    <3> QED
      BY <1>e, <2>1, <3>3, <3>4 DEF Lease!Return, Lease!Lent
  <2> QED
    BY <1>2, <2>2, <2>3 DEF Executes, Writes, GivesUp
<1>3. ASSUME NEW s \in Servers, Marks(s, c), seen'[c] = seen[c]
      PROVE  Lease!Take(e, n) \/ n = e
  <2>1. row[c].cur = IF login[s].current THEN s ELSE None
    BY <1>t, <1>3 DEF Marks, AsRead
  <2>2. row'[c].cur = s /\ row'[c].data = row[c].data /\ s # None
    BY <1>3, ServerType DEF Marks
  <2> QED
    BY <1>3, <1>e, <2>1, <2>2 DEF Lease!Take, Lease!Lent
<1>4. ASSUME NEW s \in Servers, Shows(s, c)
      PROVE  Lease!Show(e, n)
  <2>1. row[c].cur = s /\ s # None
    BY <1>t, <1>i, <1>4, ServerType DEF Shows, Holds, ServerInv, LeaseInv
  <2>2. \/ seen[c] <= row[c].data.ver
        \/ seen[c] <= live[s][c].data.ver
    BY <1>t, <1>i, <1>4, SeenHeld DEF Shows, Holds
  <2>3. row[c].data.ver <= live[s][c].data.ver
    BY <1>i, <1>4 DEF Shows, CharInv, HeldInv, Newest
  <2>4. live[s][c].data.ver \in Int /\ live'[s][c].data.ver \in Int
    BY <1>t, VersionType, VersionTypeNext
  <2>5. seen'[c] >= seen[c]
    BY <1>v, <1>4, <2>2, <2>3, <2>4 DEF Shows
  <2> QED
    BY <1>4, <1>e, <2>1, <2>5 DEF Shows, Lease!Show, Lease!Lent
<1>5. ASSUME NEW s \in Servers, Frees(s, c)
      PROVE  Lease!Return(e, n)
  <2>1. seen[c] <= row[c].data.ver
    BY <1>t, <1>i, <1>5, SeenFreed
  <2>2. row[c].cur # None
    BY <1>5, ServerType DEF Frees
  <2>3. n.data >= e.data /\ n.data >= e.shown
    BY <1>v, <1>e, <1>5, <2>1 DEF Frees
  <2> QED
    <3>1. n = [e EXCEPT !.holder = None, !.data = n.data]
      <4>1. n = [holder |-> None, data |-> n.data, shown |-> seen[c], void |-> v]
        BY <1>5, <1>e DEF Frees
      <4> QED
        BY <1>r, <4>1
    <3> QED
      BY <1>e, <2>2, <2>3, <3>1 DEF Lease!Return, Lease!Lent
<1>6. ASSUME NEW s \in Servers, Loses(s, c)
      PROVE  Lease!Lose(e, n)
  BY <1>6, <1>e, ServerType DEF Loses, Lease!Lose, Lease!Lent
<1> QED
  BY <1>1, <1>2, <1>3, <1>4, <1>5, <1>6 DEF BookMove

\* So every step of the servers is a step of the book.
LEMMA LeaseStep ==
  ASSUME WholeInv, [Next]_vars
  PROVE  Lease!Next
<1>1. IInv /\ TypeOK /\ TypeOK'
  BY InductiveStep DEF WholeInv, IInv
<1>2. Moves
  BY <1>1, EveryStepMoves
<1>3. Book' \in [Chars -> Lease!Entry]
  <2>1. \A c \in Chars : /\ row'[c].cur \in Servers \cup {None}
                         /\ row'[c].data.ver \in Nat /\ seen'[c] \in Nat
                         /\ (~Intact(c))' \in BOOLEAN
    BY <1>1 DEF TypeOK, Row, Data, Versions
  <2> QED
    BY <2>1 DEF Book, Entry, Lease!Entry
<1>4. ASSUME NEW c \in Chars
      PROVE  LET e == Book[c]
                 n == Book'[c]
             IN  \/ Lease!Take(e, n) \/ Lease!Save(e, n) \/ Lease!Show(e, n)
                 \/ Lease!Lose(e, n) \/ Lease!Return(e, n) \/ Lease!Void(e, n)
                 \/ n = e
  <2>1. Book[c] = Entry(c) /\ Book'[c] = Entry(c)'
    BY DEF Book
  <2>2. CASE Intact(c)'
    <3>1. Intact(c)
      BY <1>1, <2>2, NextGrows DEF Grows
    <3>2. BookMove(c)
      BY <1>2, <2>2 DEF Moves, Intact
    <3> QED
      BY <1>1, <2>1, <2>2, <3>1, <3>2, EntryMoves
  <2>3. CASE ~Intact(c)'
    <3>1. Entry(c)'.void
      BY <2>3 DEF Entry
    <3> QED
      BY <2>1, <3>1 DEF Lease!Void
  <2> QED
    BY <2>2, <2>3
<1> QED
  BY <1>3, <1>4 DEF Lease!Next, Book, Entry

\* The table with its queues and logins implements the lending book: one
\* holder at a time, data that changes only while it is lent and never gets
\* older, and comes back with at least what the player was shown.
THEOREM IsLeaseAlways == Spec => IsLease
<1>1. Init => Lease!Init
  BY LeaseInit
<1>2. WholeInv /\ [Next]_vars => Lease!Next
  BY LeaseStep
<1> QED
  BY <1>1, <1>2, WholeInvariance, PTL DEF Spec, IsLease, Lease!Spec
=============================================================================
