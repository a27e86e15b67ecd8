---------------------------- MODULE DepotProofs ----------------------------
(***************************************************************************)
(* Who has the depot loaded is named in its row and has what was shown     *)
(* last, for any servers and characters, until a rescue takes the depot    *)
(* from a living server.                                                   *)
(***************************************************************************)
EXTENDS Depot, FiniteSetTheorems, SequenceTheorems, TLAPS

(***************************************************************************)
(* Types.                                                                  *)
(***************************************************************************)

\* Contents start at version 0.
LEMMA ZeroType == 0 \in Versions
BY DepotAssumption DEF Versions

\* Ask makes a query.
LEMMA AskType ==
  ASSUME NEW op \in Ops, NEW c \in Chars, NEW v \in Versions
  PROVE  Ask(op, c, v) \in Query
BY DEF Ask, Query

\* A cleared login and an empty slot are of their types.
LEMMA BlankTypes == Idle \in Login /\ Absent \in Player
BY ZeroType DEF Idle, Login, Absent, Player

\* save_depot for a leaving character queues an update that gives up the depot
\* if and only if the character has it.
LEMMA LeavingType ==
  ASSUME NEW p \in Player, NEW c \in Chars
  PROVE  /\ ~p.loaded => SaveDepot(p, c, "leave") = <<>>
         /\ p.loaded => \E q \in Query : /\ SaveDepot(p, c, "leave") = <<q>>
                                         /\ q.c = c
                                         /\ q.op \in {"leave", "free"}
<1>1. CASE ~p.loaded
  BY <1>1 DEF SaveDepot
<1>2. CASE p.loaded /\ p.dirty
  <2> DEFINE q == Ask("leave", c, p.data)
  <2>1. q \in Query /\ q.c = c /\ q.op \in {"leave", "free"}
    BY DEF Player, Ask, Query, Ops, Updates
  <2>2. SaveDepot(p, c, "leave") = <<q>>
    BY <1>2 DEF SaveDepot
  <2> QED
    BY <1>2, <2>1, <2>2
<1>3. CASE p.loaded /\ ~p.dirty
  <2> DEFINE q == Ask("free", c, 0)
  <2>1. q \in Query /\ q.c = c /\ q.op \in {"leave", "free"}
    BY ZeroType DEF Ask, Query, Ops, Updates
  <2>2. SaveDepot(p, c, "leave") = <<q>>
    BY <1>3 DEF SaveDepot
  <2> QED
    BY <1>3, <2>1, <2>2
<1> QED
  BY <1>1, <1>2, <1>3

\* So what it queues is a sequence of queries.
LEMMA LeavingSeq ==
  ASSUME NEW p \in Player, NEW c \in Chars
  PROVE  SaveDepot(p, c, "leave") \in Seq(Query)
<1>1. CASE p.loaded
  <2>1. PICK q \in Query : SaveDepot(p, c, "leave") = <<q>>
    BY <1>1, LeavingType
  <2>2. <<q>> \in Seq(Query)
    OBVIOUS
  <2> QED
    BY <2>1, <2>2, Zenon
<1>2. CASE ~p.loaded
  <2>1. <<>> \in Seq(Query)
    OBVIOUS
  <2> QED
    BY <1>2, <2>1, LeavingType, Zenon
<1> QED
  BY <1>1, <1>2

\* save_depot for a backup of a changed depot queues one plain update.
LEMMA BackupType ==
  ASSUME NEW p \in Player, NEW c \in Chars, p.loaded, p.dirty
  PROVE  \E q \in Query : SaveDepot(p, c, "save") = <<q>> /\ q.op = "save"
<1> DEFINE q == Ask("save", c, p.data)
<1>1. q \in Query /\ q.op = "save"
  BY DEF Player, Ask, Query, Ops, Updates
<1>2. SaveDepot(p, c, "save") = <<q>>
  BY DEF SaveDepot
<1> QED
  BY <1>1, <1>2

\* The initial states are of the declared types.
LEMMA TypeInit == Init => TypeOK
<1> SUFFICES ASSUME Init PROVE TypeOK
  OBVIOUS
<1>1. login \in [Servers -> Login] /\ game \in [Servers -> [Chars -> Player]]
  BY BlankTypes DEF Init
<1>2. queue \in [Servers -> Seq(Query)]
  BY DEF Init
<1>3. depot \in Row
  BY ZeroType DEF Init, Row
<1>4. newest \in Versions /\ faults \in 0..MaxFaults
  BY ZeroType, DepotAssumption DEF Init
<1> QED
  BY <1>1, <1>2, <1>3, <1>4 DEF Init, TypeOK

\* Adding queries to a queue, setting a login, setting a character keep types.
LEMMA QueueType ==
  ASSUME TypeOK, NEW s \in Servers, NEW qs \in Seq(Query), Queue(s, qs)
  PROVE  queue' \in [Servers -> Seq(Query)]
BY DEF Queue, TypeOK

LEMMA SetLoginType ==
  ASSUME TypeOK, NEW s \in Servers, NEW l \in Login, SetLogin(s, l)
  PROVE  login' \in [Servers -> Login]
BY DEF SetLogin, TypeOK

LEMMA SetGameType ==
  ASSUME TypeOK, NEW s \in Servers, NEW c \in Chars, NEW p \in Player,
         SetGame(s, c, p)
  PROVE  game' \in [Servers -> [Chars -> Player]]
BY DEF SetGame, TypeOK

LEMMA StartReadType ==
  ASSUME TypeOK, NEW s \in Servers, NEW c \in Chars, NEW q \in Seq(Query),
         StartRead(s, c, q)
  PROVE  queue' \in [Servers -> Seq(Query)] /\ login' \in [Servers -> Login]
<1>1. Ask("load", c, 0) \in Query
  BY AskType, ZeroType DEF Ops
<1>2. [Idle EXCEPT !.st = "read", !.c = c] \in Login
  BY ZeroType DEF Login, Idle
<1> QED
  BY <1>1, <1>2, SetLoginType DEF StartRead, TypeOK

\* The query at the top is a query, and the rest is a queue.
LEMMA TopType ==
  ASSUME TypeOK, NEW s \in Servers, queue[s] # <<>>
  PROVE  /\ queue[s] \in Seq(Query)
         /\ Head(queue[s]) \in Query
         /\ Head(queue[s]).c \in Chars
         /\ Head(queue[s]).data \in Versions
         /\ RemoveTopQuery(s) => queue' \in [Servers -> Seq(Query)]
<1>1. queue[s] \in Seq(Query)
  BY DEF TypeOK
<1>2. Head(queue[s]) \in Query /\ Tail(queue[s]) \in Seq(Query)
  BY <1>1
<1> QED
  BY <1>1, <1>2 DEF RemoveTopQuery, TypeOK, Query

\* Fields of a login and of a character.
LEMMA StateType ==
  ASSUME TypeOK, NEW s \in Servers
  PROVE  /\ login[s] \in Login
         /\ login[s].st # "empty" => login[s].c \in Chars
         /\ login[s].loaded \in BOOLEAN /\ login[s].data \in Versions
         /\ \A c \in Chars : game[s][c] \in Player
<1>1. login[s] \in Login /\ \A c \in Chars : game[s][c] \in Player
  BY DEF TypeOK
<1>2. CASE login[s] = Idle
  BY <1>1, <1>2, ZeroType DEF Idle
<1>3. CASE login[s] # Idle
  BY <1>1, <1>3 DEF Login
<1> QED
  BY <1>2, <1>3

\* release_depot queues one update for each character that loses the depot,
\* and each of them gives it up.
LEMMA ReleasedType ==
  ASSUME TypeOK, NEW s \in Servers, NEW c \in Chars,
         NEW f \in Orders(Losing(s, c))
  PROVE  /\ Released(s, f) \in Seq(Query)
         /\ Len(Released(s, f)) = Cardinality(Losing(s, c))
         /\ f \in [1..Cardinality(Losing(s, c)) -> Losing(s, c)]
         /\ Cardinality(Losing(s, c)) \in Nat
         /\ \A i \in DOMAIN Released(s, f) : Released(s, f)[i].c = f[i]
<1> DEFINE n == Cardinality(Losing(s, c))
<1>1. f \in [1..n -> Losing(s, c)]
  BY DEF Orders
<1>2. n \in Nat
  BY DepotAssumption, FS_Subset, FS_CardinalityType DEF Losing
<1>3. ASSUME NEW i \in 1..n
      PROVE  Released(s, f)[i] \in Query /\ Released(s, f)[i].c = f[i]
  <2>1. f[i] \in Chars /\ game[s][f[i]] \in Player /\ game[s][f[i]].loaded
    BY <1>1, <1>3, StateType DEF Losing
  <2>2. PICK q \in Query : /\ SaveDepot(game[s][f[i]], f[i], "leave") = <<q>>
                           /\ q.c = f[i]
    BY <2>1, LeavingType
  <2>3. Released(s, f)[i] = SaveDepot(game[s][f[i]], f[i], "leave")[1]
    BY <1>1, <1>2, <1>3 DEF Released
  <2>4. Released(s, f)[i] = q
    BY <2>2, <2>3
  <2> QED
    BY <2>2, <2>4
<1>4. Released(s, f) = [i \in 1..n |-> Released(s, f)[i]]
  BY <1>1, <1>2 DEF Released
<1>5. Released(s, f) \in [1..n -> Query]
  BY <1>3, <1>4, Zenon
<1>6. Released(s, f) \in Seq(Query)
  BY <1>2, <1>5, SeqDef
<1> QED
  BY <1>1, <1>2, <1>3, <1>5, <1>6

\* release_depot keeps the types.
LEMMA GiveUpType ==
  ASSUME TypeOK, NEW s \in Servers, NEW c \in Chars, NEW more \in Seq(Query),
         GiveUp(s, c, more)
  PROVE  /\ queue' \in [Servers -> Seq(Query)]
         /\ game' \in [Servers -> [Chars -> Player]]
<1>1. PICK f \in Orders(Losing(s, c)) : Queue(s, Released(s, f) \o more)
  BY DEF GiveUp
<1>2. Released(s, f) \o more \in Seq(Query)
  BY ReleasedType
<1>3. queue' \in [Servers -> Seq(Query)]
  BY <1>1, <1>2, QueueType
<1>4. [Absent EXCEPT !.on = TRUE] \in Player
  BY BlankTypes DEF Absent, Player
<1>5. game' \in [Servers -> [Chars -> Player]]
  BY <1>4 DEF GiveUp, TypeOK
<1> QED
  BY <1>3, <1>5

\* Counting a fault stays in the bound.
LEMMA FaultType ==
  ASSUME TypeOK, Fault
  PROVE  faults' \in 0..MaxFaults
BY DepotAssumption DEF TypeOK, Fault

\* find_login keeps the types.
LEMMA FindLoginTypes ==
  ASSUME TypeOK, NEW s \in Servers, FindLogin(s)
  PROVE  TypeOK'
<1>1. CASE \E c \in Chars : FindLoginStart(s, c)
  <2>1. PICK c \in Chars : FindLoginStart(s, c)
    BY <1>1
  <2>2. queue[s] \in Seq(Query)
    BY DEF TypeOK
  <2>3. StartRead(s, c, queue[s])
    BY <2>1 DEF FindLoginStart
  <2>4. queue' \in [Servers -> Seq(Query)] /\ login' \in [Servers -> Login]
    BY <2>2, <2>3, StartReadType
  <2> QED
    BY <2>1, <2>4 DEF FindLoginStart, TypeOK
<1>2. CASE \E c \in Chars : FindLoginStale(s, c)
  <2>1. PICK c \in Chars : FindLoginStale(s, c)
    BY <1>2
  <2>2. queue[s] \in Seq(Query)
    BY DEF TypeOK
  <2>3. CASE login[s].current
    <3>1. StartRead(s, c, queue[s]) /\ UNCHANGED game
      BY <2>1, <2>3 DEF FindLoginStale
    <3>2. queue' \in [Servers -> Seq(Query)] /\ login' \in [Servers -> Login]
      BY <2>2, <3>1, StartReadType
    <3> QED
      BY <2>1, <3>1, <3>2, FaultType DEF FindLoginStale, TypeOK
  <2>4. CASE ~login[s].current
    <3>1. /\ StartRead(s, c, Append(queue[s], Ask("exit", login[s].c, 0)))
          /\ SetGame(s, login[s].c, Absent)
      BY <2>1, <2>4 DEF FindLoginStale
    <3>2. login[s].c \in Chars
      BY <2>1, StateType DEF FindLoginStale
    <3>3. Ask("exit", login[s].c, 0) \in Query
      BY <3>2, AskType, ZeroType DEF Ops
    <3>4. Append(queue[s], Ask("exit", login[s].c, 0)) \in Seq(Query)
      BY <2>2, <3>3
    <3>5. queue' \in [Servers -> Seq(Query)] /\ login' \in [Servers -> Login]
      BY <3>1, <3>4, StartReadType
    <3>6. game' \in [Servers -> [Chars -> Player]]
      BY <3>1, <3>2, SetGameType, BlankTypes
    <3> QED
      BY <2>1, <3>5, <3>6, FaultType DEF FindLoginStale, TypeOK
  <2> QED
    BY <2>3, <2>4
<1>3. CASE FindLoginOk(s)
  <2>1. login' \in [Servers -> Login]
    BY <1>3, SetLoginType, BlankTypes DEF FindLoginOk
  <2> QED
    BY <1>3, <2>1 DEF FindLoginOk, TypeOK
<1>4. CASE FindLoginNewarea(s)
  <2>1. login' \in [Servers -> Login]
    BY <1>4, SetLoginType, BlankTypes DEF FindLoginNewarea
  <2>2. login[s].c \in Chars
    BY <1>4, StateType DEF FindLoginNewarea
  <2>3. <<Ask("rescue", login[s].c, 0)>> \in Seq(Query)
    BY <2>2, AskType, ZeroType DEF Ops
  <2>4. queue' \in [Servers -> Seq(Query)]
    BY <1>4, <2>3, QueueType DEF FindLoginNewarea, TypeOK
  <2> QED
    BY <1>4, <2>1, <2>4 DEF FindLoginNewarea, TypeOK
<1> QED
  BY <1>1, <1>2, <1>3, <1>4 DEF FindLogin

\* tick_login keeps the types.
LEMMA TickLoginTypes ==
  ASSUME TypeOK, NEW s \in Servers, TickLogin(s)
  PROVE  TypeOK'
<1>1. /\ login[s] \in Login /\ login[s].st = "create"
      /\ login[s].c \in Chars
      /\ login[s].loaded \in BOOLEAN /\ login[s].data \in Versions
  BY StateType DEF TickLogin, TickLoginUsurp, TickLoginCreate, TickLoginFails,
                   Creating
<1>2. Made(login[s]) \in Login
  <2> DEFINE Busy == [st: {"read", "newarea", "create", "ok"}, c: Chars,
                      current: BOOLEAN, loaded: BOOLEAN, data: Versions]
  <2>1. login[s] \in Busy
    BY <1>1 DEF Login, Idle
  <2>2. Made(login[s]) \in Busy
    BY <2>1, ZeroType DEF Made
  <2> QED
    BY <2>2 DEF Login
<1>3. CASE TickLoginUsurp(s)
  <2>1. login' \in [Servers -> Login]
    BY <1>2, <1>3, SetLoginType, BlankTypes DEF TickLoginUsurp
  <2> QED
    BY <1>3, <2>1 DEF TickLoginUsurp, TypeOK
<1>4. CASE TickLoginCreate(s)
  <2>1. login' \in [Servers -> Login]
    BY <1>2, <1>4, SetLoginType DEF TickLoginCreate
  <2>2. [on |-> TRUE, loaded |-> login[s].loaded, dirty |-> FALSE,
         data |-> login[s].data] \in Player
    BY <1>1 DEF Player
  <2>3. game' \in [Servers -> [Chars -> Player]]
    BY <1>1, <1>4, <2>2, SetGameType DEF TickLoginCreate
  <2> QED
    BY <1>4, <2>1, <2>3 DEF TickLoginCreate, TypeOK
<1>5. CASE TickLoginFails(s)
  <2>1. login' \in [Servers -> Login]
    BY <1>5, SetLoginType, BlankTypes DEF TickLoginFails
  <2>2. queue' \in [Servers -> Seq(Query)]
    <3>1. <<Ask("exit", login[s].c, 0)>> \in Seq(Query)
      BY <1>1, AskType, ZeroType DEF Ops
    <3> QED
      BY <1>5, <3>1, QueueType DEF TickLoginFails, TypeOK
  <2>3. game' \in [Servers -> [Chars -> Player]]
    <3>1. [Absent EXCEPT !.on = TRUE] \in Player
      BY BlankTypes DEF Absent, Player
    <3> QED
      BY <1>1, <1>5, <3>1, SetGameType DEF TickLoginFails, TypeOK
  <2> QED
    BY <1>5, <2>1, <2>2, <2>3, FaultType DEF TickLoginFails, TypeOK
<1> QED
  BY <1>3, <1>4, <1>5 DEF TickLogin

\* So do the characters in the game.
LEMMA GameTypes ==
  ASSUME TypeOK, NEW s \in Servers, Game(s)
  PROVE  TypeOK'
<1>0. SUFFICES ASSUME NEW c \in Chars,
                      \/ Change(s, c) \/ Backup(s, c) \/ Leave(s, c)
                      \/ AskDepot(s, c) \/ ReleaseDepot(s, c)
               PROVE  TypeOK'
  BY DEF Game
<1>1. game[s][c] \in Player
  BY StateType
<1>2. CASE Change(s, c)
  <2>1. [game[s][c] EXCEPT !.data = game[s][c].data + 1, !.dirty = TRUE]
          \in Player
    BY <1>1, <1>2 DEF Change, Player
  <2>2. game' \in [Servers -> [Chars -> Player]]
    BY <1>2, <2>1, SetGameType DEF Change
  <2> QED
    BY <1>2, <2>2 DEF Change, TypeOK
<1>3. CASE Backup(s, c)
  <2>1. PICK q \in Query : SaveDepot(game[s][c], c, "save") = <<q>>
    BY <1>1, <1>3, BackupType DEF Backup
  <2>2. <<q>> \in Seq(Query) /\ Queue(s, <<q>>)
    BY <1>3, <2>1 DEF Backup
  <2>3. queue' \in [Servers -> Seq(Query)]
    BY <2>2, QueueType
  <2>4. [game[s][c] EXCEPT !.dirty = FALSE] \in Player
    BY <1>1 DEF Player
  <2>5. game' \in [Servers -> [Chars -> Player]]
    BY <1>3, <2>4, SetGameType DEF Backup
  <2> QED
    BY <1>3, <2>3, <2>5 DEF Backup, TypeOK
<1>4. CASE Leave(s, c)
  <2>1. SaveDepot(game[s][c], c, "leave") \in Seq(Query)
    BY <1>1, LeavingSeq
  <2>2. <<Ask("exit", c, 0)>> \in Seq(Query)
    BY AskType, ZeroType DEF Ops
  <2>3. SaveDepot(game[s][c], c, "leave") \o <<Ask("exit", c, 0)>>
          \in Seq(Query)
    BY <2>1, <2>2, ConcatProperties
  <2>4. queue' \in [Servers -> Seq(Query)]
    BY <1>4, <2>3, QueueType DEF Leave
  <2>5. game' \in [Servers -> [Chars -> Player]]
    BY <1>4, SetGameType, BlankTypes DEF Leave
  <2> QED
    BY <1>4, <2>4, <2>5 DEF Leave, TypeOK
<1>5. CASE AskDepot(s, c)
  <2>0. Ask("loaddepot", c, 0) \in Query
    BY AskType, ZeroType DEF Ops
  <2>1. <<Ask("loaddepot", c, 0)>> \in Seq(Query)
    BY <2>0
  <2>2. queue' \in [Servers -> Seq(Query)]
    BY <1>5, <2>1, QueueType, GiveUpType DEF AskDepot
  <2>3. game' \in [Servers -> [Chars -> Player]]
    BY <1>5, <2>1, GiveUpType DEF AskDepot, TypeOK
  <2>4. asked' \subseteq Holders
    BY <1>5 DEF AskDepot, TypeOK, Holders
  <2> QED
    BY <1>5, <2>2, <2>3, <2>4 DEF AskDepot, TypeOK
<1>6. CASE ReleaseDepot(s, c)
  <2>0. <<>> \in Seq(Query) /\ GiveUp(s, c, <<>>)
    BY <1>6 DEF ReleaseDepot
  <2>1. /\ queue' \in [Servers -> Seq(Query)]
        /\ game' \in [Servers -> [Chars -> Player]]
    BY <2>0, GiveUpType
  <2> QED
    BY <1>6, <2>1 DEF ReleaseDepot, TypeOK
<1> QED
  BY <1>0, <1>2, <1>3, <1>4, <1>5, <1>6

\* So does the database thread.
LEMMA DbStepTypes ==
  ASSUME TypeOK, NEW s \in Servers, DbStep(s)
  PROVE  TypeOK'
<1> DEFINE q == Head(queue[s])
<1>1. /\ queue[s] # <<>>
      /\ RemoveTopQuery(s)
  BY DEF DbStep, DbUpdate, DbExit, DbLoad, DbLoadRefused, DbLoadDepot,
         DbRescue, Loading, TopIs
<1>2. /\ q \in Query /\ q.c \in Chars /\ q.data \in Versions
      /\ queue' \in [Servers -> Seq(Query)]
  BY <1>1, TopType
<1>3. depot.holder \in Holders \cup {Nobody} /\ depot.data \in Versions
  BY DEF TypeOK, Row
<1> HIDE DEF q
<1>4. CASE DbUpdate(s)
  <2>1. depot' = Updated(s, q)
    BY <1>4 DEF DbUpdate, q
  <2>2. Updated(s, q) \in Row
    BY <1>2, <1>3 DEF Updated, Row, TypeOK
  <2> QED
    BY <1>2, <1>4, <2>1, <2>2 DEF DbUpdate, TypeOK
<1>5. CASE DbExit(s)
  BY <1>2, <1>5 DEF DbExit, TypeOK
<1>6. CASE DbLoad(s)
  <2> DEFINE c == login[s].c
  <2>1. login[s] \in Login /\ login[s].st = "read" /\ c \in Chars
    BY <1>6, StateType DEF DbLoad, Loading
  <2>2. depot' \in Row
    BY <1>3, <1>6, <2>1 DEF DbLoad, TypeOK, Row, Holders
  <2>3. login[s] \in [st: {"read", "newarea", "create", "ok"}, c: Chars,
                     current: BOOLEAN, loaded: BOOLEAN, data: Versions]
    BY <2>1 DEF Login, Idle
  <2>4. login' \in [Servers -> Login]
    <3> DEFINE l == [login[s] EXCEPT
                       !.st = "create",
                       !.current = chr[c] = s,
                       !.loaded = Available(s),
                       !.data = IF Available(s) THEN depot.data ELSE 0]
    <3>1. (chr[c] = s) \in BOOLEAN /\ Available(s) \in BOOLEAN
      BY DEF Available
    <3>2. (IF Available(s) THEN depot.data ELSE 0) \in Versions
      BY <1>3, ZeroType
    <3>3. l \in [st: {"read", "newarea", "create", "ok"}, c: Chars,
                 current: BOOLEAN, loaded: BOOLEAN, data: Versions]
      BY <2>3, <3>1, <3>2, Zenon
    <3>4. l \in Login
      BY <3>3 DEF Login
    <3>5. SetLogin(s, l)
      BY <1>6 DEF DbLoad
    <3> HIDE DEF l
    <3> QED
      BY <3>4, <3>5, SetLoginType
  <2>5. chr' \in [Chars -> Servers \cup {None}]
    BY <1>6, <2>1 DEF DbLoad, TypeOK
  <2> QED
    BY <1>2, <1>6, <2>2, <2>4, <2>5 DEF DbLoad, TypeOK
<1>7. CASE DbLoadRefused(s)
  <2>1. login[s] \in Login /\ login[s].st = "read"
    BY <1>7, StateType DEF DbLoadRefused, Loading
  <2>2. [login[s] EXCEPT !.st = "newarea"] \in Login
    BY <2>1, ZeroType DEF Login, Idle
  <2>3. login' \in [Servers -> Login]
    BY <1>7, <2>2, SetLoginType, BlankTypes DEF DbLoadRefused
  <2> QED
    BY <1>2, <1>7, <2>3 DEF DbLoadRefused, TypeOK
<1>8. CASE DbLoadDepot(s)
  <2>1. <<s, q.c>> \in Holders
    BY <1>2 DEF Holders
  <2>2. depot' \in Row
    BY <1>3, <1>8, <2>1 DEF DbLoadDepot, TypeOK, Row, q
  <2>3. [on |-> TRUE, loaded |-> TRUE, dirty |-> FALSE, data |-> depot.data]
          \in Player
    BY <1>3 DEF Player
  <2>4. game' \in [Servers -> [Chars -> Player]]
    BY <1>2, <1>8, <2>3, SetGameType DEF DbLoadDepot, TypeOK, q
  <2> QED
    BY <1>2, <1>8, <2>2, <2>4 DEF DbLoadDepot, TypeOK
<1>9. CASE DbRescue(s)
  <2>1. depot' \in Row
    BY <1>3, <1>9 DEF DbRescue, Free, TypeOK, Row
  <2>2. rescued' \in BOOLEAN
    BY <1>9 DEF DbRescue, TypeOK
  <2>3. chr' \in [Chars -> Servers \cup {None}]
    BY <1>2, <1>9 DEF DbRescue, TypeOK, q
  <2> QED
    BY <1>2, <1>9, <2>1, <2>2, <2>3 DEF DbRescue, TypeOK
<1> QED
  BY <1>4, <1>5, <1>6, <1>7, <1>8, <1>9 DEF DbStep

\* So do crashes and restarts.
LEMMA ServerTypes ==
  ASSUME TypeOK, NEW s \in Servers, Crash(s) \/ Restart(s)
  PROVE  TypeOK'
<1>1. depot.holder \in Holders \cup {Nobody} /\ depot.data \in Versions
  BY DEF TypeOK, Row
<1>2. CASE Crash(s)
  <2>1. login' \in [Servers -> Login]
    BY <1>2, SetLoginType, BlankTypes DEF Crash
  <2>2. queue' \in [Servers -> Seq(Query)]
    BY <1>2 DEF Crash, TypeOK
  <2>3. game' \in [Servers -> [Chars -> Player]]
    BY <1>2, BlankTypes DEF Crash, TypeOK
  <2>4. newest' \in Versions /\ asked' \subseteq Holders /\ up' \subseteq Servers
    BY <1>1, <1>2 DEF Crash, TypeOK
  <2> QED
    BY <1>2, <2>1, <2>2, <2>3, <2>4, FaultType DEF Crash, TypeOK
<1>3. CASE Restart(s)
  <2>1. depot' \in Row
    BY <1>1, <1>3 DEF Restart, Free, TypeOK, Row
  <2>2. chr' \in [Chars -> Servers \cup {None}]
    BY <1>3 DEF Restart, TypeOK
  <2> QED
    BY <1>3, <2>1, <2>2 DEF Restart, TypeOK
<1> QED
  BY <1>2, <1>3

\* Every step keeps the types.
LEMMA TypeStep ==
  ASSUME TypeOK, [Next]_vars
  PROVE  TypeOK'
<1>1. CASE UNCHANGED vars
  BY <1>1 DEF vars, TypeOK
<1>2. CASE Next
  BY <1>2, FindLoginTypes, TickLoginTypes, GameTypes, DbStepTypes, ServerTypes
     DEF Next
<1> QED
  BY <1>1, <1>2

(***************************************************************************)
(* Claims to the depot.                                                    *)
(***************************************************************************)

\* Server s neither uses the depot nor is about to.
NoClaim(s) ==
  /\ \A c \in Chars : ~game[s][c].loaded
  /\ ~login[s].loaded
  /\ Gives(queue[s]) = {}

\* An update that gives up the depot is for a character.
LEMMA GivesType ==
  ASSUME NEW q \in Seq(Query), NEW i \in Gives(q)
  PROVE  i \in 1..Len(q) /\ q[i].c \in Chars
<1>1. i \in 1..Len(q)
  BY DEF Gives
<1>2. q[i] \in Query
  BY <1>1
<1> QED
  BY <1>1, <1>2 DEF Query

\* A server the row does not name has no claim.
LEMMA NoClaimUnlessHeld ==
  ASSUME TypeOK, NEW s \in Servers, ClaimInv(s),
         depot.holder \notin {s} \X Chars
  PROVE  NoClaim(s)
<1>1. \A c \in Chars : depot.holder # <<s, c>>
  OBVIOUS
<1>2. \A c \in Chars : ~game[s][c].loaded
  BY <1>1 DEF ClaimInv
<1>3. ~login[s].loaded
  <2>1. CASE login[s].st = "empty"
    <3>1. login[s] \in Login
      BY StateType
    <3>2. login[s] = Idle
      BY <2>1, <3>1 DEF Login
    <3> QED
      BY <3>2 DEF Idle
  <2>2. CASE login[s].st # "empty"
    BY <1>1, <2>2, StateType DEF ClaimInv
  <2> QED
    BY <2>1, <2>2
<1>4. ASSUME NEW i \in Gives(queue[s])
      PROVE  FALSE
  <2>1. queue[s] \in Seq(Query)
    BY DEF TypeOK
  <2>2. queue[s][i].c \in Chars
    BY <1>4, <2>1, GivesType
  <2> QED
    BY <1>1, <1>4, <2>2 DEF ClaimInv
<1> QED
  BY <1>2, <1>3, <1>4 DEF NoClaim

\* Nothing is asked of a server without claims.
LEMMA NoClaimSuffices ==
  ASSUME NEW s \in Servers, NoClaim(s)'
  PROVE  ClaimInv(s)'
BY DEF NoClaim, ClaimInv

\* A server that is down has no claim.
LEMMA DownNoClaim ==
  ASSUME NEW s \in Servers, DownInv(s), s \notin up
  PROVE  NoClaim(s)
BY DEF DownInv, NoClaim, Gives, Idle, Absent

\* A step of another server leaves the claims of server t alone, unless it
\* takes the depot away from it.
LEMMA OtherServer ==
  ASSUME TypeOK, NEW t \in Servers, DownInv(t), ClaimInv(t),
         queue'[t] = queue[t], login'[t] = login[t], game'[t] = game[t],
         \/ depot'.holder = depot.holder
         \/ depot.holder \notin {t} \X Chars
         \/ t \notin up
  PROVE  ClaimInv(t)'
<1>1. CASE depot'.holder = depot.holder
  BY <1>1 DEF ClaimInv
<1>2. CASE depot.holder \notin {t} \X Chars \/ t \notin up
  <2>1. NoClaim(t)
    BY <1>2, NoClaimUnlessHeld, DownNoClaim
  <2>2. NoClaim(t)'
    BY <2>1 DEF NoClaim
  <2> QED
    BY <2>2, NoClaimSuffices
<1> QED
  BY <1>1, <1>2

\* Sequence p is q with r behind it; named, so that the provers do not expand
\* an equality of sequences wherever it is a hypothesis.
Joined(p, q, r) == p = q \o r

\* Which updates of a longer queue give up the depot.
LEMMA GivesConcat ==
  ASSUME NEW q \in Seq(Query), NEW r \in Seq(Query),
         NEW p, Joined(p, q, r), NEW i \in Gives(p)
  PROVE  \/ i \in Gives(q) /\ p[i] = q[i]
         \/ \E k \in Gives(r) : i = Len(q) + k /\ p[i] = r[k]
<1>1. /\ i \in DOMAIN p
      /\ p[i].op \in {"leave", "free"}
  BY DEF Gives
<1>2. /\ p \in Seq(Query)
      /\ Len(p) = Len(q) + Len(r)
      /\ \A j \in 1 .. Len(q) + Len(r) :
           p[j] = IF j <= Len(q) THEN q[j] ELSE r[j - Len(q)]
  BY ConcatProperties DEF Joined
<1>3. i \in 1 .. Len(q) + Len(r)
  BY <1>1, <1>2
<1>4. CASE i <= Len(q)
  <2>1. p[i] = q[i] /\ i \in DOMAIN q
    BY <1>2, <1>3, <1>4
  <2> QED
    BY <1>1, <2>1 DEF Gives
<1>5. CASE ~(i <= Len(q))
  <2> DEFINE k == i - Len(q)
  <2>1. p[i] = r[k] /\ k \in DOMAIN r /\ i = Len(q) + k
    BY <1>2, <1>3, <1>5
  <2> HIDE DEF k
  <2> QED
    BY <1>1, <2>1 DEF Gives
<1> QED
  BY <1>4, <1>5

\* Which updates of the rest of a queue do.
LEMMA GivesTail ==
  ASSUME NEW q \in Seq(Query), q # <<>>, NEW p, p = Tail(q), NEW i \in Gives(p)
  PROVE  i + 1 \in Gives(q) /\ p[i] = q[i + 1] /\ i \in Nat \ {0}
<1>1. p \in Seq(Query) /\ Len(p) = Len(q) - 1
  OBVIOUS
<1>2. i \in 1 .. Len(q) - 1
  BY <1>1 DEF Gives
<1>3. p[i] = q[i + 1] /\ i + 1 \in DOMAIN q
  BY <1>2
<1> QED
  BY <1>2, <1>3 DEF Gives

\* A step that adds no claim: it queues nothing that gives up the depot, and
\* only hands a depot from the login to the game, if anything.
LEMMA QuietSelf ==
  ASSUME TypeOK, NEW s \in Servers, ClaimInv(s),
         depot'.holder = depot.holder,
         NEW r \in Seq(Query), Gives(r) = {}, queue'[s] = queue[s] \o r,
         login'[s].loaded => login[s].loaded /\ login'[s].c = login[s].c,
         \A c \in Chars :
           game'[s][c].loaded =>
             \/ game[s][c].loaded
             \/ login[s].loaded /\ login[s].c = c /\ ~login'[s].loaded
  PROVE  ClaimInv(s)'
<1>1. \A c \in Chars :
        game'[s][c].loaded => depot'.holder = <<s, c>> /\ ~login'[s].loaded
  BY DEF ClaimInv
<1>2. login'[s].loaded => depot'.holder = <<s, login'[s].c>>
  BY DEF ClaimInv
<1>3. queue[s] \in Seq(Query)
  BY DEF TypeOK
<1>4. \A i \in Gives(queue'[s]) :
        i \in Gives(queue[s]) /\ queue'[s][i] = queue[s][i]
  <2>1. Joined(queue'[s], queue[s], r)
    BY Zenon DEF Joined
  <2> QED
    BY <1>3, <2>1, GivesConcat
<1>5. ASSUME NEW i \in Gives(queue'[s])
      PROVE  /\ depot'.holder = <<s, queue'[s][i].c>>
             /\ ~game'[s][queue'[s][i].c].loaded
             /\ ~login'[s].loaded
             /\ \A j \in Gives(queue'[s]) : j = i
  <2>1. i \in Gives(queue[s]) /\ queue'[s][i] = queue[s][i]
    BY <1>4, <1>5
  <2>2. queue[s][i].c \in Chars
    BY <1>3, <2>1, GivesType
  <2>3. /\ depot.holder = <<s, queue[s][i].c>>
        /\ ~game[s][queue[s][i].c].loaded
        /\ ~login[s].loaded
        /\ \A j \in Gives(queue[s]) : j = i
    BY <2>1 DEF ClaimInv
  <2> QED
    BY <1>4, <2>1, <2>2, <2>3
<1> QED
  BY <1>1, <1>2, <1>5 DEF ClaimInv

\* Nothing in r but its first query gives up the depot, and for c.
FirstGives(r, c) == \A i \in Gives(r) : i = 1 /\ r[i].c = c

\* After a queue that does not give up the depot, only that query does.
LEMMA GivesFirst ==
  ASSUME NEW q \in Seq(Query), NEW r \in Seq(Query), NEW p, Joined(p, q, r),
         NEW c, FirstGives(r, c), Gives(q) = {}, NEW i \in Gives(p)
  PROVE  i = Len(q) + 1 /\ p[i].c = c
<1>1. PICK k \in Gives(r) : i = Len(q) + k /\ p[i] = r[k]
  BY GivesConcat
<1>2. k = 1 /\ r[k].c = c
  BY DEF FirstGives
<1> QED
  BY <1>1, <1>2

\* A step that turns the depot in the game into one update that gives it up.
LEMMA GivingSelf ==
  ASSUME TypeOK, NEW s \in Servers, ClaimInv(s),
         NEW c \in Chars, game[s][c].loaded,
         depot'.holder = depot.holder, login'[s] = login[s],
         NEW r \in Seq(Query), queue'[s] = queue[s] \o r, FirstGives(r, c),
         \A o \in Chars : ~game'[s][o].loaded
  PROVE  ClaimInv(s)'
<1>1. depot.holder = <<s, c>> /\ ~login[s].loaded
  BY DEF ClaimInv
<1>2. queue[s] \in Seq(Query)
  BY DEF TypeOK
<1>3. Gives(queue[s]) = {}
  BY <1>1 DEF ClaimInv
<1>4. \A i \in Gives(queue'[s]) :
        i = Len(queue[s]) + 1 /\ queue'[s][i].c = c
  <2>1. Joined(queue'[s], queue[s], r)
    BY Zenon DEF Joined
  <2> QED
    BY <1>2, <1>3, <2>1, GivesFirst, ZenonT(60)
<1>5. \A i, j \in Gives(queue'[s]) : i = j
  BY <1>4
<1> QED
  BY <1>1, <1>4, <1>5 DEF ClaimInv

\* The rest of a queue adds no claim.
LEMMA PopSelf ==
  ASSUME TypeOK, NEW s \in Servers, ClaimInv(s),
         depot'.holder = depot.holder,
         queue[s] # <<>>, queue'[s] = Tail(queue[s]),
         login'[s].loaded => login[s].loaded /\ login'[s].c = login[s].c,
         \A c \in Chars : game'[s][c].loaded => game[s][c].loaded
  PROVE  ClaimInv(s)'
<1>1. \A c \in Chars :
        game'[s][c].loaded => depot'.holder = <<s, c>> /\ ~login'[s].loaded
  BY DEF ClaimInv
<1>2. login'[s].loaded => depot'.holder = <<s, login'[s].c>>
  BY DEF ClaimInv
<1>3. queue[s] \in Seq(Query)
  BY DEF TypeOK
<1>4. \A i \in Gives(queue'[s]) : /\ i + 1 \in Gives(queue[s])
                                  /\ queue'[s][i] = queue[s][i + 1]
                                  /\ i \in Nat \ {0}
  BY <1>3, GivesTail
<1>5. ASSUME NEW i \in Gives(queue'[s])
      PROVE  /\ depot'.holder = <<s, queue'[s][i].c>>
             /\ ~game'[s][queue'[s][i].c].loaded
             /\ ~login'[s].loaded
             /\ \A j \in Gives(queue'[s]) : j = i
  <2>1. i + 1 \in Gives(queue[s]) /\ queue'[s][i] = queue[s][i + 1]
    BY <1>4, <1>5
  <2>2. queue[s][i + 1].c \in Chars
    BY <1>3, <2>1, GivesType
  <2>3. /\ depot.holder = <<s, queue[s][i + 1].c>>
        /\ ~game[s][queue[s][i + 1].c].loaded
        /\ ~login[s].loaded
        /\ \A j \in Gives(queue[s]) : j = i + 1
    BY <2>1 DEF ClaimInv
  <2>4. ASSUME NEW j \in Gives(queue'[s])
        PROVE  j = i
    <3>1. j + 1 = i + 1 /\ i \in Nat /\ j \in Nat
      BY <1>4, <1>5, <2>3, <2>4
    <3> QED
      BY <3>1
  <2> QED
    BY <2>1, <2>2, <2>3, <2>4
<1> QED
  BY <1>1, <1>2, <1>5 DEF ClaimInv

(***************************************************************************)
(* What each step does to the claims of its own server.                    *)
(***************************************************************************)

\* Queries that give up nothing, and adding them to a queue.
LEMMA NoGives ==
  ASSUME NEW q \in Seq(Query)
  PROVE  /\ <<>> \in Seq(Query) /\ Gives(<<>>) = {} /\ q = q \o <<>>
         /\ \A x \in Query : x.op \notin {"leave", "free"} =>
              /\ <<x>> \in Seq(Query) /\ Gives(<<x>>) = {}
              /\ Append(q, x) = q \o <<x>>
         /\ \A x, y \in Query :
              x.op \notin {"leave", "free"} /\ y.op \notin {"leave", "free"} =>
                /\ <<x, y>> \in Seq(Query) /\ Gives(<<x, y>>) = {}
                /\ Append(Append(q, x), y) = q \o <<x, y>>
<1>1. <<>> \in Seq(Query) /\ Gives(<<>>) = {} /\ q = q \o <<>>
  BY DEF Gives
<1>2. ASSUME NEW x \in Query, x.op \notin {"leave", "free"}
      PROVE  /\ <<x>> \in Seq(Query) /\ Gives(<<x>>) = {}
             /\ Append(q, x) = q \o <<x>>
  <2>1. <<x>> \in Seq(Query) /\ Append(q, x) = q \o <<x>>
    OBVIOUS
  <2>2. Gives(<<x>>) = {}
    BY <1>2 DEF Gives
  <2> QED
    BY <2>1, <2>2
<1>3. ASSUME NEW x \in Query, NEW y \in Query,
             x.op \notin {"leave", "free"}, y.op \notin {"leave", "free"}
      PROVE  /\ <<x, y>> \in Seq(Query) /\ Gives(<<x, y>>) = {}
             /\ Append(Append(q, x), y) = q \o <<x, y>>
  <2>1. <<x, y>> \in Seq(Query)
    OBVIOUS
  <2>2. Append(Append(q, x), y) = q \o <<x, y>>
    OBVIOUS
  <2>3. Gives(<<x, y>>) = {}
    BY <1>3 DEF Gives
  <2> QED
    BY <2>1, <2>2, <2>3
<1> QED
  BY <1>1, <1>2, <1>3

\* Asking for anything but an update gives up nothing.
LEMMA PlainAsk ==
  ASSUME NEW c \in Chars
  PROVE  \A op \in {"exit", "load", "loaddepot", "rescue"} :
           /\ Ask(op, c, 0) \in Query
           /\ Ask(op, c, 0).op \notin {"leave", "free"}
BY AskType, ZeroType DEF Ops, Ask

\* find_login drops depots but takes none.
LEMMA FindLoginSelf ==
  ASSUME TypeOK, NEW s \in Servers, ClaimInv(s), FindLogin(s)
  PROVE  ClaimInv(s)'
<1>0. queue[s] \in Seq(Query) /\ depot'.holder = depot.holder
  BY DEF TypeOK, FindLogin, FindLoginStart, FindLoginStale, FindLoginOk,
         FindLoginNewarea
<1>1. CASE \E c \in Chars : FindLoginStart(s, c)
  <2>1. PICK c \in Chars : FindLoginStart(s, c)
    BY <1>1
  <2> DEFINE r == <<Ask("load", c, 0)>>
  <2>2. r \in Seq(Query) /\ Gives(r) = {} /\ queue'[s] = queue[s] \o r
    <3>1. queue'[s] = Append(queue[s], Ask("load", c, 0))
      BY <2>1 DEF FindLoginStart, StartRead, TypeOK
    <3> QED
      BY <1>0, <3>1, PlainAsk, NoGives
  <2>3. ~login'[s].loaded /\ game' = game
    BY <2>1 DEF FindLoginStart, StartRead, SetLogin, Idle, TypeOK
  <2> HIDE DEF r
  <2> QED
    BY <1>0, <2>2, <2>3, QuietSelf
<1>2. CASE \E c \in Chars : FindLoginStale(s, c)
  <2>1. PICK c \in Chars : FindLoginStale(s, c)
    BY <1>2
  <2>2. ~login'[s].loaded
    BY <2>1 DEF FindLoginStale, StartRead, SetLogin, Idle, TypeOK
  <2>3. login[s].c \in Chars
    BY <2>1, StateType DEF FindLoginStale
  <2>4. CASE login[s].current
    <3> DEFINE r == <<Ask("load", c, 0)>>
    <3>1. queue'[s] = Append(queue[s], Ask("load", c, 0)) /\ game' = game
      BY <2>1, <2>4 DEF FindLoginStale, StartRead, TypeOK
    <3>2. r \in Seq(Query) /\ Gives(r) = {} /\ queue'[s] = queue[s] \o r
      BY <1>0, <3>1, PlainAsk, NoGives
    <3> HIDE DEF r
    <3> QED
      BY <1>0, <2>2, <3>1, <3>2, QuietSelf
  <2>5. CASE ~login[s].current
    <3> DEFINE r == <<Ask("exit", login[s].c, 0), Ask("load", c, 0)>>
    <3>1. /\ queue'[s] = Append(Append(queue[s], Ask("exit", login[s].c, 0)),
                                Ask("load", c, 0))
          /\ game' = [game EXCEPT ![s][login[s].c] = Absent]
      BY <2>1, <2>5 DEF FindLoginStale, StartRead, SetGame, TypeOK
    <3>2. r \in Seq(Query) /\ Gives(r) = {} /\ queue'[s] = queue[s] \o r
      BY <1>0, <2>3, <3>1, PlainAsk, NoGives
    <3>3. \A o \in Chars : game'[s][o].loaded => game[s][o].loaded
      BY <2>3, <3>1 DEF TypeOK, Absent
    <3> HIDE DEF r
    <3> QED
      BY <1>0, <2>2, <3>2, <3>3, QuietSelf
  <2> QED
    BY <2>4, <2>5
<1>3. CASE FindLoginOk(s) \/ FindLoginNewarea(s)
  <2>1. ~login'[s].loaded /\ game' = game
    BY <1>3 DEF FindLoginOk, FindLoginNewarea, SetLogin, Idle, TypeOK
  <2>2. \E r \in Seq(Query) : Gives(r) = {} /\ queue'[s] = queue[s] \o r
    <3>1. CASE queue' = queue
      BY <1>0, <3>1, NoGives
    <3>2. CASE /\ login[s].st = "newarea"
               /\ Queue(s, <<Ask("rescue", login[s].c, 0)>>)
      <4>1. login[s].c \in Chars
        BY <3>2, StateType
      <4> DEFINE r == <<Ask("rescue", login[s].c, 0)>>
      <4>2. queue'[s] = queue[s] \o r
        BY <3>2 DEF Queue, TypeOK
      <4>3. r \in Seq(Query) /\ Gives(r) = {}
        BY <1>0, <4>1, PlainAsk, NoGives
      <4> HIDE DEF r
      <4> QED
        BY <4>2, <4>3
    <3> QED
      BY <1>3, <3>1, <3>2 DEF FindLoginOk, FindLoginNewarea
  <2> QED
    BY <1>0, <2>1, <2>2, QuietSelf
<1> QED
  BY <1>1, <1>2, <1>3 DEF FindLogin

\* tick_login hands the depot of the login to the character it makes, if
\* anything.
LEMMA TickLoginSelf ==
  ASSUME TypeOK, NEW s \in Servers, ClaimInv(s), TickLogin(s)
  PROVE  ClaimInv(s)'
<1>0. /\ queue[s] \in Seq(Query)
      /\ depot'.holder = depot.holder
      /\ login[s].c \in Chars
  BY StateType
     DEF TypeOK, TickLogin, TickLoginUsurp, TickLoginCreate, TickLoginFails,
         Creating
<1>1. ~login'[s].loaded
  <2>1. login'[s] \in {Made(login[s]), Idle}
    BY DEF TypeOK, TickLogin, TickLoginUsurp, TickLoginCreate,
           TickLoginFails, SetLogin
  <2>2. CASE login'[s] = Made(login[s])
    <3>1. login[s].st = "create" /\ login[s] \in Login
      BY StateType DEF TickLogin, TickLoginUsurp, TickLoginCreate,
                       TickLoginFails, Creating
    <3>2. login[s] \in [st: {"read", "newarea", "create", "ok"}, c: Chars,
                        current: BOOLEAN, loaded: BOOLEAN, data: Versions]
      BY <3>1 DEF Login, Idle
    <3> QED
      BY <2>2, <3>2 DEF Made
  <2>3. CASE login'[s] = Idle
    BY <2>3 DEF Idle
  <2> QED
    BY <2>1, <2>2, <2>3
<1>2. \A c \in Chars :
        game'[s][c].loaded =>
          game[s][c].loaded \/ (login[s].loaded /\ login[s].c = c)
  <2>1. CASE game' = game
    BY <2>1
  <2>2. CASE TickLoginCreate(s)
    BY <1>0, <2>2 DEF TickLoginCreate, SetGame, TypeOK
  <2>3. CASE SetGame(s, login[s].c, [Absent EXCEPT !.on = TRUE])
    BY <1>0, <2>3 DEF SetGame, TypeOK, Absent
  <2> QED
    BY <2>1, <2>2, <2>3 DEF TickLogin, TickLoginUsurp, TickLoginFails
<1>3. \E r \in Seq(Query) : Gives(r) = {} /\ queue'[s] = queue[s] \o r
  <2>1. CASE queue' = queue
    BY <1>0, <2>1, NoGives
  <2>2. CASE Queue(s, <<Ask("exit", login[s].c, 0)>>)
    <3> DEFINE r == <<Ask("exit", login[s].c, 0)>>
    <3>1. queue'[s] = queue[s] \o r
      BY <2>2 DEF Queue, TypeOK
    <3>2. r \in Seq(Query) /\ Gives(r) = {}
      BY <1>0, PlainAsk, NoGives
    <3> HIDE DEF r
    <3> QED
      BY <3>1, <3>2
  <2> QED
    BY <2>1, <2>2 DEF TickLogin, TickLoginUsurp, TickLoginCreate,
                      TickLoginFails
<1>4. PICK r \in Seq(Query) : Gives(r) = {} /\ queue'[s] = queue[s] \o r
  BY <1>3
<1> QED
  BY <1>0, <1>1, <1>2, <1>4, QuietSelf

\* Who has the depot on a server has it alone.
LEMMA LosingOne ==
  ASSUME TypeOK, NEW s \in Servers, ClaimInv(s), NEW c \in Chars
  PROVE  /\ \A a, b \in Losing(s, c) : a = b
         /\ Losing(s, c) # {} => ~game[s][c].loaded
BY DEF ClaimInv, Losing

\* release_depot turns the depot in the game into an update that gives it up,
\* whoever else there is.
LEMMA GiveUpSelf ==
  ASSUME TypeOK, NEW s \in Servers, ClaimInv(s), NEW c \in Chars,
         NEW more \in Seq(Query), Gives(more) = {}, GiveUp(s, c, more),
         depot'.holder = depot.holder, login' = login
  PROVE  ClaimInv(s)'
<1>0. queue[s] \in Seq(Query)
  BY DEF TypeOK
<1>1. PICK f \in Orders(Losing(s, c)) : Queue(s, Released(s, f) \o more)
  BY DEF GiveUp
<1> DEFINE r == Released(s, f) \o more
<1>2. /\ Released(s, f) \in Seq(Query)
      /\ Len(Released(s, f)) = Cardinality(Losing(s, c))
      /\ f \in [1..Cardinality(Losing(s, c)) -> Losing(s, c)]
      /\ \A i \in DOMAIN Released(s, f) : Released(s, f)[i].c = f[i]
  BY ReleasedType
<1>3. r \in Seq(Query)
  BY <1>2
<1>4. queue'[s] = queue[s] \o r
  BY <1>1 DEF Queue, TypeOK
<1>5. \A o \in Chars : game'[s][o].loaded => game[s][o].loaded /\ o = c
  BY DEF GiveUp, TypeOK, Losing, Absent
<1>6. Joined(r, Released(s, f), more)
  BY Zenon DEF Joined
<1> HIDE DEF r
<1>7. CASE Losing(s, c) = {}
  <2>1. Gives(Released(s, f)) = {}
    BY <1>2, <1>7, FS_EmptySet DEF Gives
  <2>2. Gives(r) = {}
    BY <1>2, <1>6, <2>1, GivesConcat
  <2> QED
    BY <1>3, <1>4, <1>5, <2>2, QuietSelf
<1>8. CASE Losing(s, c) # {}
  <2>1. PICK o \in Losing(s, c) : TRUE
    BY <1>8
  <2>2. Losing(s, c) = {o}
    BY <2>1, LosingOne
  <2>3. Cardinality(Losing(s, c)) = 1
    BY <2>2, FS_Singleton
  <2>4. \A i \in Gives(Released(s, f)) : i = 1 /\ Released(s, f)[i].c = o
    <3>1. ASSUME NEW i \in Gives(Released(s, f))
          PROVE  i \in DOMAIN Released(s, f)
      BY DEF Gives
    <3>2. DOMAIN Released(s, f) = 1..1
      BY <1>2, <2>3
    <3>3. f[1] = o
      <4>1. f \in [1..Cardinality(Losing(s, c)) -> Losing(s, c)]
        BY <1>2
      <4>2. f[1] \in Losing(s, c)
        BY <2>3, <4>1
      <4> QED
        BY <2>2, <4>2
    <3>4. Released(s, f)[1].c = o
      BY <1>2, <3>2, <3>3
    <3> QED
      BY <3>1, <3>2, <3>4
  <2>5. FirstGives(r, o)
    <3>1. ASSUME NEW i \in Gives(r)
          PROVE  i \in Gives(Released(s, f)) /\ r[i] = Released(s, f)[i]
      BY <1>2, <1>6, <3>1, GivesConcat
    <3> QED
      BY <2>4, <3>1 DEF FirstGives
  <2>6. o \in Chars /\ game[s][o].loaded
    BY <2>1 DEF Losing
  <2>7. login'[s] = login[s] /\ \A a \in Chars : ~game'[s][a].loaded
    BY <1>5, <1>8, LosingOne
  <2> QED
    BY <1>3, <1>4, <2>5, <2>6, <2>7, GivingSelf
<1> QED
  BY <1>7, <1>8

\* A leaving character that has the depot queues the update that gives it up.
LEMMA LeaveSelf ==
  ASSUME TypeOK, NEW s \in Servers, ClaimInv(s), NEW c \in Chars, Leave(s, c)
  PROVE  ClaimInv(s)'
<1> DEFINE e == Ask("exit", c, 0)
           r == SaveDepot(game[s][c], c, "leave") \o <<e>>
<1>0. queue[s] \in Seq(Query) /\ game[s][c] \in Player
  BY StateType DEF TypeOK
<1>1. /\ queue'[s] = queue[s] \o r
      /\ game' = [game EXCEPT ![s][c] = Absent]
      /\ depot' = depot /\ login' = login
  BY DEF Leave, Queue, SetGame, TypeOK
<1>2. e \in Query /\ <<e>> \in Seq(Query) /\ Gives(<<e>>) = {}
  BY <1>0, PlainAsk, NoGives
<1>3. \A o \in Chars : game'[s][o].loaded => game[s][o].loaded /\ o # c
  BY <1>1 DEF TypeOK, Absent
<1>4. CASE ~game[s][c].loaded
  <2>1. SaveDepot(game[s][c], c, "leave") = <<>>
    BY <1>0, <1>4, LeavingType
  <2>2. r = <<e>>
    <3>1. <<>> \o <<e>> = <<e>>
      BY <1>2, ConcatEmptySeq
    <3> QED
      BY <2>1, <3>1, Zenon
  <2> HIDE DEF e, r
  <2> QED
    BY <1>1, <1>2, <1>3, <2>2, QuietSelf
<1>5. CASE game[s][c].loaded
  <2>1. PICK q \in Query : /\ SaveDepot(game[s][c], c, "leave") = <<q>>
                           /\ q.c = c
    BY <1>0, <1>5, LeavingType
  <2>2. Joined(r, <<q>>, <<e>>)
    BY <2>1, Zenon DEF Joined
  <2>3. <<q>> \in Seq(Query) /\ Len(<<q>>) = 1 /\ DOMAIN <<q>> = {1}
        /\ <<q>>[1] = q
    OBVIOUS
  <2>4. r \in Seq(Query)
    BY <1>2, <2>1, <2>3, ConcatProperties
  <2> HIDE DEF e, r
  <2>5. FirstGives(r, c)
    <3>1. ASSUME NEW i \in Gives(r)
          PROVE  i \in Gives(<<q>>) /\ r[i] = <<q>>[i]
      BY <1>2, <2>2, <2>3, <3>1, GivesConcat
    <3>2. Gives(<<q>>) \subseteq {1}
      BY <2>3 DEF Gives
    <3> QED
      BY <2>1, <2>3, <3>1, <3>2 DEF FirstGives
  <2>6. \A o \in Chars : ~game'[s][o].loaded
    <3>1. \A o \in Chars : game[s][o].loaded => o = c
      BY <1>5 DEF ClaimInv
    <3> QED
      BY <1>3, <3>1
  <2> QED
    BY <1>1, <1>5, <2>4, <2>5, <2>6, GivingSelf
<1> QED
  BY <1>4, <1>5

\* Characters in the game keep the claims of their server.
LEMMA GameSelf ==
  ASSUME TypeOK, NEW s \in Servers, ClaimInv(s), Game(s)
  PROVE  ClaimInv(s)'
<1>0. SUFFICES ASSUME NEW c \in Chars,
                      \/ Change(s, c) \/ Backup(s, c) \/ Leave(s, c)
                      \/ AskDepot(s, c) \/ ReleaseDepot(s, c)
               PROVE  ClaimInv(s)'
  BY DEF Game
<1>1. queue[s] \in Seq(Query) /\ game[s][c] \in Player
  BY StateType DEF TypeOK
<1>2. CASE Change(s, c)
  <2>1. \A o \in Chars : game'[s][o].loaded => game[s][o].loaded
    BY <1>1, <1>2 DEF Change, SetGame, TypeOK, Player
  <2>2. /\ depot' = depot /\ login' = login
        /\ <<>> \in Seq(Query) /\ Gives(<<>>) = {}
        /\ queue'[s] = queue[s] \o <<>>
    BY <1>1, <1>2, NoGives DEF Change
  <2> QED
    BY <2>1, <2>2, QuietSelf
<1>3. CASE Backup(s, c)
  <2>1. PICK q \in Query : /\ SaveDepot(game[s][c], c, "save") = <<q>>
                           /\ q.op = "save"
    BY <1>1, <1>3, BackupType DEF Backup
  <2>2. \A o \in Chars : game'[s][o].loaded => game[s][o].loaded
    BY <1>1, <1>3 DEF Backup, SetGame, TypeOK, Player
  <2>3. /\ depot' = depot /\ login' = login
        /\ queue'[s] = queue[s] \o <<q>>
    BY <1>3, <2>1 DEF Backup, Queue, TypeOK
  <2>4. <<q>> \in Seq(Query) /\ Gives(<<q>>) = {}
    BY <1>1, <2>1, NoGives
  <2> QED
    BY <2>2, <2>3, <2>4, QuietSelf
<1>4. CASE Leave(s, c)
  BY <1>4, LeaveSelf
<1>5. CASE AskDepot(s, c)
  <2> DEFINE r == <<Ask("loaddepot", c, 0)>>
  <2>1. r \in Seq(Query) /\ Gives(r) = {}
    BY <1>1, PlainAsk, NoGives
  <2>2. depot' = depot /\ login' = login
    BY <1>5 DEF AskDepot
  <2>3. CASE Queue(s, r) /\ game' = game
    <3>1. queue'[s] = queue[s] \o r
      BY <2>3 DEF Queue, TypeOK
    <3> HIDE DEF r
    <3> QED
      BY <2>1, <2>2, <2>3, <3>1, QuietSelf
  <2>4. CASE GiveUp(s, c, r)
    <3> HIDE DEF r
    <3> QED
      BY <2>1, <2>2, <2>4, GiveUpSelf
  <2> QED
    BY <1>5, <2>3, <2>4 DEF AskDepot
<1>6. CASE ReleaseDepot(s, c)
  <2>1. /\ GiveUp(s, c, <<>>) /\ depot' = depot /\ login' = login
        /\ <<>> \in Seq(Query) /\ Gives(<<>>) = {}
    BY <1>1, <1>6, NoGives DEF ReleaseDepot
  <2> QED
    BY <2>1, GiveUpSelf
<1> QED
  BY <1>0, <1>2, <1>3, <1>4, <1>5, <1>6

\* An update that gives up the depot is the last claim of its server.
LEMMA UpdateGives ==
  ASSUME TypeOK, NEW s \in Servers, ClaimInv(s), queue[s] # <<>>,
         Head(queue[s]).op \in {"leave", "free"}, queue'[s] = Tail(queue[s]),
         game' = game, login' = login
  PROVE  NoClaim(s)'
<1>1. queue[s] \in Seq(Query) /\ Head(queue[s]) = queue[s][1]
  BY DEF TypeOK
<1>2. 1 \in Gives(queue[s])
  BY <1>1 DEF Gives
<1>3. /\ \A j \in Gives(queue[s]) : j = 1
      /\ depot.holder = <<s, queue[s][1].c>>
      /\ ~game[s][queue[s][1].c].loaded
      /\ ~login[s].loaded
  BY <1>2 DEF ClaimInv
<1>4. \A c \in Chars : ~game[s][c].loaded
  BY <1>3 DEF ClaimInv
<1>5. Gives(queue'[s]) = {}
  <2>1. ASSUME NEW i \in Gives(queue'[s])
        PROVE  i + 1 \in Gives(queue[s]) /\ i \in Nat \ {0}
    BY <1>1, <2>1, GivesTail
  <2> QED
    BY <1>3, <2>1
<1> QED
  BY <1>3, <1>4, <1>5 DEF NoClaim

\* The tail of a queue without updates that give up the depot has none.
LEMMA TailNoGives ==
  ASSUME NEW q \in Seq(Query), q # <<>>, NEW p, p = Tail(q), Gives(q) = {}
  PROVE  Gives(p) = {}
BY GivesTail

\* An update the database thread executes settles the claim it stands for.
LEMMA DbUpdateSelf ==
  ASSUME TypeOK, NEW s \in Servers, ClaimInv(s), DbUpdate(s)
  PROVE  ClaimInv(s)'
<1> DEFINE q == Head(queue[s])
<1>1. /\ queue[s] \in Seq(Query) /\ queue[s] # <<>>
      /\ queue'[s] = Tail(queue[s]) /\ game' = game /\ login' = login
      /\ depot' = Updated(s, q)
      /\ q.op \in Updates
  BY DEF DbUpdate, TopIs, RemoveTopQuery, TypeOK
<1>2. CASE q.op \in {"leave", "free"}
  BY <1>1, <1>2, UpdateGives, NoClaimSuffices
<1>3. CASE q.op = "save"
  <2>1. depot'.holder = depot.holder
    BY <1>1, <1>3 DEF Updated
  <2> QED
    BY <1>1, <2>1, PopSelf
<1> QED
  BY <1>1, <1>2, <1>3 DEF Updates

\* load_char takes the depot for the login only when nobody has it.
LEMMA DbLoadSelf ==
  ASSUME TypeOK, NEW s \in Servers, ClaimInv(s), DbLoad(s)
  PROVE  ClaimInv(s)'
<1>1. /\ queue[s] \in Seq(Query) /\ queue[s] # <<>>
      /\ queue'[s] = Tail(queue[s]) /\ game' = game
      /\ login[s] \in Login /\ login[s].st = "read"
      /\ login[s].c \in Chars
  BY StateType DEF DbLoad, Loading, TopIs, RemoveTopQuery, TypeOK
<1>2. login'[s].c = login[s].c /\ login'[s].loaded = Available(s)
  <2>1. login[s] \in [st: {"read", "newarea", "create", "ok"}, c: Chars,
                      current: BOOLEAN, loaded: BOOLEAN, data: Versions]
    BY <1>1 DEF Login, Idle
  <2> QED
    BY <2>1 DEF DbLoad, SetLogin, TypeOK
<1>3. CASE ~Available(s)
  <2>1. depot'.holder = depot.holder /\ ~login'[s].loaded
    BY <1>2, <1>3 DEF DbLoad
  <2> QED
    BY <1>1, <2>1, PopSelf
<1>4. CASE Available(s)
  <2>1. depot.holder \notin {s} \X Chars
    BY <1>4, DepotAssumption DEF Available
  <2>2. NoClaim(s)
    BY <2>1, NoClaimUnlessHeld
  <2>3. Gives(queue'[s]) = {}
    BY <1>1, <2>2, TailNoGives DEF NoClaim
  <2>4. \A c \in Chars : ~game'[s][c].loaded
    BY <1>1, <2>2 DEF NoClaim
  <2>5. depot'.holder = <<s, login'[s].c>>
    <3>1. depot \in Row /\ depot' = [depot EXCEPT !.holder = <<s, login[s].c>>]
      BY <1>4 DEF DbLoad, TypeOK
    <3> QED
      BY <1>2, <3>1 DEF Row
  <2> QED
    BY <2>3, <2>4, <2>5 DEF ClaimInv
<1> QED
  BY <1>3, <1>4

\* So does db_load_depot_for_char for a character in the game.
LEMMA DbLoadDepotSelf ==
  ASSUME TypeOK, NEW s \in Servers, ClaimInv(s), DbLoadDepot(s)
  PROVE  ClaimInv(s)'
<1> DEFINE c == Head(queue[s]).c
           got == game[s][c].on /\ ~game[s][c].loaded /\ Available(s)
<1>1. /\ queue[s] \in Seq(Query) /\ queue[s] # <<>> /\ RemoveTopQuery(s)
      /\ queue'[s] = Tail(queue[s]) /\ login' = login
  BY DEF DbLoadDepot, TopIs, RemoveTopQuery, TypeOK
<1>2. c \in Chars
  BY <1>1, TopType
<1>3. CASE ~got
  <2>1. depot' = depot /\ game' = game
    BY <1>3 DEF DbLoadDepot
  <2> QED
    BY <1>1, <2>1, PopSelf
<1>4. CASE got
  <2>1. /\ depot' = [depot EXCEPT !.holder = <<s, c>>]
        /\ SetGame(s, c, [on |-> TRUE, loaded |-> TRUE, dirty |-> FALSE,
                          data |-> depot.data])
    BY <1>4 DEF DbLoadDepot
  <2>2. depot.holder \notin {s} \X Chars
    BY <1>4, DepotAssumption DEF Available
  <2>3. NoClaim(s)
    BY <2>2, NoClaimUnlessHeld
  <2>4. Gives(queue'[s]) = {} /\ ~login'[s].loaded
    BY <1>1, <2>3, TailNoGives DEF NoClaim
  <2>5. depot'.holder = <<s, c>>
    BY <2>1 DEF TypeOK, Row
  <2> HIDE DEF c
  <2>6. \A o \in Chars : game'[s][o].loaded => o = c
    BY <1>2, <2>1, <2>3 DEF NoClaim, SetGame, TypeOK
  <2> QED
    BY <2>4, <2>5, <2>6 DEF ClaimInv
<1> QED
  BY <1>3, <1>4

\* db_rescue_char disturbs its own server only by taking the depot from a
\* living server.
LEMMA DbRescueSelf ==
  ASSUME TypeOK, NEW s \in Servers, ClaimInv(s), DbRescue(s), ~rescued'
  PROVE  ClaimInv(s)'
<1>1. /\ queue[s] \in Seq(Query) /\ queue[s] # <<>> /\ s \in up
      /\ queue'[s] = Tail(queue[s]) /\ game' = game /\ login' = login
  BY DEF DbRescue, TopIs, RemoveTopQuery, TypeOK
<1>2. CASE depot' = depot
  BY <1>1, <1>2, PopSelf
<1>3. CASE depot' = Free /\ depot.holder \notin up \X Chars
  <2>1. NoClaim(s)
    BY <1>1, <1>3, NoClaimUnlessHeld
  <2>2. NoClaim(s)'
    BY <1>1, <2>1, TailNoGives DEF NoClaim
  <2> QED
    BY <2>2, NoClaimSuffices
<1> QED
  BY <1>2, <1>3 DEF DbRescue

\* The other queries add no claim.
LEMMA DbStepSelf ==
  ASSUME TypeOK, NEW s \in Servers, ClaimInv(s), DbStep(s), ~rescued'
  PROVE  ClaimInv(s)'
<1>1. ASSUME DbExit(s) \/ DbLoadRefused(s)
      PROVE  ClaimInv(s)'
  <2>1. /\ queue[s] # <<>> /\ queue'[s] = Tail(queue[s])
        /\ depot' = depot /\ game' = game
    BY <1>1 DEF DbExit, DbLoadRefused, Loading, TopIs, RemoveTopQuery, TypeOK
  <2>2. login'[s].loaded => login[s].loaded /\ login'[s].c = login[s].c
    <3>1. CASE DbExit(s)
      BY <3>1 DEF DbExit
    <3>2. CASE DbLoadRefused(s)
      <4>1. login[s] \in [st: {"read", "newarea", "create", "ok"}, c: Chars,
                          current: BOOLEAN, loaded: BOOLEAN, data: Versions]
        BY <3>2, StateType DEF DbLoadRefused, Loading, Login, Idle
      <4>2. CASE SetLogin(s, Idle)
        BY <4>2 DEF SetLogin, Idle, TypeOK
      <4>3. CASE SetLogin(s, [login[s] EXCEPT !.st = "newarea"])
        BY <4>1, <4>3 DEF SetLogin, TypeOK
      <4> QED
        BY <3>2, <4>2, <4>3 DEF DbLoadRefused
    <3> QED
      BY <1>1, <3>1, <3>2
  <2> QED
    BY <2>1, <2>2, PopSelf
<1> QED
  BY <1>1, DbUpdateSelf, DbLoadSelf, DbLoadDepotSelf, DbRescueSelf DEF DbStep

\* A server that crashes or restarts has no claim left.
LEMMA ServerSelf ==
  ASSUME TypeOK, NEW s \in Servers, DownInv(s), Crash(s) \/ Restart(s)
  PROVE  ClaimInv(s)'
<1>1. CASE Crash(s)
  <2>1. /\ queue'[s] = <<>> /\ login'[s] = Idle
        /\ game'[s] = [c \in Chars |-> Absent]
    BY <1>1 DEF Crash, SetLogin, TypeOK
  <2>2. NoClaim(s)'
    BY <2>1 DEF NoClaim, Gives, Idle, Absent
  <2> QED
    BY <2>2, NoClaimSuffices
<1>2. CASE Restart(s)
  <2>1. NoClaim(s)
    BY <1>2, DownNoClaim DEF Restart
  <2>2. NoClaim(s)'
    BY <1>2, <2>1 DEF Restart, NoClaim
  <2> QED
    BY <2>2, NoClaimSuffices
<1> QED
  BY <1>1, <1>2

(***************************************************************************)
(* What a step of one server does to the others.                           *)
(***************************************************************************)

\* A step of server s.
Step(s) ==
  FindLogin(s) \/ TickLogin(s) \/ Game(s) \/ DbStep(s) \/ Crash(s) \/ Restart(s)

\* It leaves what other servers have in memory alone.
LEMMA Untouched ==
  ASSUME TypeOK, NEW s \in Servers, Step(s), NEW t \in Servers, t # s
  PROVE  queue'[t] = queue[t] /\ login'[t] = login[t] /\ game'[t] = game[t]
<1>1. CASE FindLogin(s)
  BY <1>1 DEF FindLogin, FindLoginStart, FindLoginStale, FindLoginOk,
              FindLoginNewarea, StartRead, SetLogin, SetGame, Queue, TypeOK
<1>2. CASE TickLogin(s)
  BY <1>2 DEF TickLogin, TickLoginUsurp, TickLoginCreate, TickLoginFails,
              SetLogin, SetGame, Queue, TypeOK
<1>3. CASE Game(s)
  <2>1. PICK c \in Chars : \/ Change(s, c) \/ Backup(s, c) \/ Leave(s, c)
                           \/ AskDepot(s, c) \/ ReleaseDepot(s, c)
    BY <1>3 DEF Game
  <2>2. CASE Change(s, c) \/ Backup(s, c) \/ Leave(s, c)
    BY <2>2 DEF Change, Backup, Leave, SetGame, Queue, TypeOK
  <2>3. CASE AskDepot(s, c) \/ ReleaseDepot(s, c)
    BY <2>3 DEF AskDepot, ReleaseDepot, GiveUp, Queue, TypeOK
  <2> QED
    BY <2>1, <2>2, <2>3
<1>4. CASE DbStep(s)
  BY <1>4 DEF DbStep, DbUpdate, DbExit, DbLoad, DbLoadRefused, DbLoadDepot,
              DbRescue, RemoveTopQuery, SetLogin, SetGame, TypeOK
<1>5. CASE Crash(s) \/ Restart(s)
  BY <1>5 DEF Crash, Restart, SetLogin, TypeOK
<1> QED
  BY <1>1, <1>2, <1>3, <1>4, <1>5 DEF Step

\* It takes the depot from another server only by a rescue that is recorded,
\* or when that server is down.
LEMMA HolderMoves ==
  ASSUME TypeOK, NEW s \in Servers, Step(s), NEW t \in Servers, t # s,
         ~rescued'
  PROVE  \/ depot'.holder = depot.holder
         \/ depot.holder \notin {t} \X Chars
         \/ t \notin up
<1>1. CASE FindLogin(s)
  BY <1>1 DEF FindLogin, FindLoginStart, FindLoginStale, FindLoginOk,
              FindLoginNewarea
<1>2. CASE TickLogin(s) \/ Game(s)
  BY <1>2 DEF TickLogin, TickLoginUsurp, TickLoginCreate, TickLoginFails,
              Game, Change, Backup, Leave, AskDepot, ReleaseDepot
<1>3. CASE Crash(s)
  BY <1>3 DEF Crash
<1>4. CASE Restart(s)
  BY <1>4 DEF Restart
<1>5. CASE DbUpdate(s)
  BY <1>5 DEF DbUpdate, Updated
<1>6. CASE DbLoad(s) \/ DbLoadDepot(s)
  <2>1. depot' = depot \/ depot.holder = Nobody
    BY <1>6 DEF DbLoad, DbLoadDepot, Available
  <2> QED
    BY <2>1, DepotAssumption
<1>7. CASE DbRescue(s)
  BY <1>7 DEF DbRescue
<1>8. CASE DbExit(s) \/ DbLoadRefused(s)
  BY <1>8 DEF DbExit, DbLoadRefused
<1> QED
  BY <1>1, <1>2, <1>3, <1>4, <1>5, <1>6, <1>7, <1>8 DEF Step, DbStep

\* Only servers that run do anything, and a crash leaves nothing behind.
LEMMA DownStep ==
  ASSUME TypeOK, NEW s \in Servers, Step(s), NEW t \in Servers, DownInv(t)
  PROVE  DownInv(t)'
<1>1. CASE Crash(s)
  <2>1. CASE t = s
    BY <1>1, <2>1 DEF Crash, SetLogin, DownInv, TypeOK
  <2>2. CASE t # s
    <3>1. t \in up' <=> t \in up
      BY <1>1, <2>2 DEF Crash
    <3> QED
      BY <2>2, <3>1, Untouched DEF DownInv
  <2> QED
    BY <2>1, <2>2
<1>2. CASE ~Crash(s)
  <2>1. s \in up' /\ (t # s => (t \in up' <=> t \in up))
    BY <1>2
       DEF Step, FindLogin, FindLoginStart, FindLoginStale, FindLoginOk,
           FindLoginNewarea, TickLogin, TickLoginUsurp, TickLoginCreate,
           TickLoginFails, Creating, Game, Change, Playing, Backup, Leave,
           AskDepot, ReleaseDepot, DbStep, DbUpdate, DbExit, DbLoad,
           DbLoadRefused, DbLoadDepot, DbRescue, Loading, TopIs, Restart
  <2> QED
    BY <2>1, Untouched DEF DownInv
<1> QED
  BY <1>1, <1>2

(***************************************************************************)
(* The theorems.                                                           *)
(***************************************************************************)

\* Nobody has the depot at first.
LEMMA DepotInit == Init => DepotInv
<1> SUFFICES ASSUME Init PROVE DepotInv
  OBVIOUS
<1>1. TypeOK
  BY TypeInit
<1>2. ASSUME NEW s \in Servers
      PROVE  DownInv(s) /\ NoClaim(s)
  BY DEF Init, DownInv, NoClaim, Gives, Idle, Absent
<1>3. ASSUME NEW s \in Servers
      PROVE  ClaimInv(s)
  BY <1>2 DEF NoClaim, ClaimInv
<1> QED
  BY <1>1, <1>2, <1>3 DEF DepotInv

\* The claims of all servers survive every step.
LEMMA ClaimStep ==
  ASSUME TypeOK, \A t \in Servers : DownInv(t) /\ ClaimInv(t),
         NEW s \in Servers, Step(s), ~rescued', NEW t \in Servers
  PROVE  ClaimInv(t)'
<1>1. CASE t = s
  BY <1>1, FindLoginSelf, TickLoginSelf, GameSelf, DbStepSelf, ServerSelf
     DEF Step
<1>2. CASE t # s
  <2>1. queue'[t] = queue[t] /\ login'[t] = login[t] /\ game'[t] = game[t]
    BY <1>2, Untouched
  <2>2. \/ depot'.holder = depot.holder
        \/ depot.holder \notin {t} \X Chars
        \/ t \notin up
    BY <1>2, HolderMoves
  <2> QED
    BY <2>1, <2>2, OtherServer
<1> QED
  BY <1>1, <1>2

\* A rescue that took the depot from a living server is never forgotten.
LEMMA RescuedStays ==
  ASSUME NEW s \in Servers, Step(s), rescued
  PROVE  rescued'
BY DEF Step, FindLogin, FindLoginStart, FindLoginStale, FindLoginOk,
       FindLoginNewarea, TickLogin, TickLoginUsurp, TickLoginCreate,
       TickLoginFails, Game, Change, Backup, Leave, AskDepot, ReleaseDepot,
       DbStep, DbUpdate, DbExit, DbLoad, DbLoadRefused, DbLoadDepot,
       DbRescue, Crash, Restart

\* DepotInv is inductive.
LEMMA DepotStep == DepotInv /\ [Next]_vars => DepotInv'
<1> SUFFICES ASSUME DepotInv, [Next]_vars PROVE DepotInv'
  OBVIOUS
<1>1. TypeOK /\ TypeOK'
  BY TypeStep DEF DepotInv
<1>2. CASE UNCHANGED vars
  BY <1>1, <1>2 DEF vars, DepotInv, DownInv, ClaimInv
<1>3. CASE Next
  <2>1. PICK s \in Servers : Step(s)
    BY <1>3 DEF Next, Step
  <2>2. \A t \in Servers : DownInv(t)'
    BY <1>1, <2>1, DownStep DEF DepotInv
  <2>3. ASSUME ~rescued', NEW t \in Servers
        PROVE  ClaimInv(t)'
    <3>1. \A u \in Servers : DownInv(u) /\ ClaimInv(u)
      BY <2>1, <2>3, RescuedStays DEF DepotInv
    <3> QED
      BY <1>1, <2>1, <2>3, <3>1, ClaimStep
  <2> QED
    BY <1>1, <2>2, <2>3 DEF DepotInv
<1> QED
  BY <1>2, <1>3

\* Every state is of the declared types: at any time the row names one server
\* and one of the account's characters, or nobody, and no queue, login or
\* character holds anything else.
THEOREM DepotTypeCorrect == Spec => []TypeOK
<1>1. TypeOK /\ [Next]_vars => TypeOK'
  BY TypeStep
<1> QED
  BY TypeInit, <1>1, PTL DEF Spec

\* Until db_rescue_char takes the depot from a living server, the row names
\* whoever has the depot loaded, so what it saves is saved: across logins,
\* stale logins, hand-overs between characters and servers, crashes, restarts.
THEOREM UsableAlways == Spec => []UsableUnlessRescued
<1>1. DepotInv => UsableUnlessRescued
  BY DEF DepotInv, ClaimInv, UsableUnlessRescued, LoadedIsUsable
<1> QED
  BY DepotInit, DepotStep, <1>1, PTL DEF Spec

(***************************************************************************)
(* The contents: queues.                                                   *)
(***************************************************************************)

\* A queue r without updates.
Plain(r) == \A i \in DOMAIN r : r[i].op \notin Updates

\* The queries of a longer queue.
LEMMA JoinedFacts ==
  ASSUME NEW q \in Seq(Query), NEW r \in Seq(Query), NEW p, Joined(p, q, r)
  PROVE  /\ p \in Seq(Query)
         /\ \A i \in DOMAIN q : i \in DOMAIN p /\ p[i] = q[i] /\ i \in Nat
         /\ \A k \in DOMAIN r : /\ Len(q) + k \in DOMAIN p /\ k \in Nat
                                /\ p[Len(q) + k] = r[k]
                                /\ \A i \in DOMAIN q : i < Len(q) + k
         /\ \A i \in DOMAIN p : \/ i \in DOMAIN q
                                \/ \E k \in DOMAIN r : i = Len(q) + k
<1>1. /\ p \in Seq(Query)
      /\ Len(p) = Len(q) + Len(r)
      /\ \A j \in 1 .. Len(q) + Len(r) :
           p[j] = IF j <= Len(q) THEN q[j] ELSE r[j - Len(q)]
  BY ConcatProperties DEF Joined
<1>2. ASSUME NEW i \in DOMAIN q
      PROVE  i \in DOMAIN p /\ p[i] = q[i] /\ i \in Nat
  BY <1>1
<1>3. ASSUME NEW k \in DOMAIN r
      PROVE  /\ Len(q) + k \in DOMAIN p /\ k \in Nat
             /\ p[Len(q) + k] = r[k]
             /\ \A i \in DOMAIN q : i < Len(q) + k
  BY <1>1
<1>4. ASSUME NEW i \in DOMAIN p, i \notin DOMAIN q
      PROVE  \E k \in DOMAIN r : i = Len(q) + k
  <2>1. i - Len(q) \in DOMAIN r /\ i = Len(q) + (i - Len(q))
    BY <1>1, <1>4
  <2> QED
    BY <2>1
<1> QED
  BY <1>1, <1>2, <1>3, <1>4

\* Adding queries that are no updates changes nothing.
LEMMA PlainJoined ==
  ASSUME NEW q \in Seq(Query), NEW r \in Seq(Query), Plain(r),
         NEW p, Joined(p, q, r)
  PROVE  /\ \A i \in DOMAIN p : p[i].op \in Updates => i \in DOMAIN q /\ p[i] = q[i]
         /\ \A d, v : Lands(q, d, v) => Lands(p, d, v)
<1>1. \A i \in DOMAIN p : p[i].op \in Updates => i \in DOMAIN q /\ p[i] = q[i]
  BY JoinedFacts DEF Plain
<1>2. Saving(p) = Saving(q) /\ \A i \in Saving(q) : p[i] = q[i]
  BY <1>1, JoinedFacts DEF Saving, Updates
<1> QED
  BY <1>1, <1>2 DEF Lands

\* Nor does giving the depot up unsaved.
LEMMA UnsavingJoined ==
  ASSUME NEW q \in Seq(Query), NEW r \in Seq(Query), Saving(r) = {},
         NEW p, Joined(p, q, r), NEW d, NEW v, Lands(q, d, v)
  PROVE  Lands(p, d, v)
<1>1. ASSUME NEW i \in Saving(p)
      PROVE  i \in Saving(q) /\ p[i] = q[i]
  BY JoinedFacts DEF Saving
<1>2. \A i \in Saving(q) : i \in Saving(p)
  BY JoinedFacts DEF Saving
<1>3. Saving(p) = Saving(q) /\ \A i \in Saving(q) : p[i] = q[i]
  BY <1>1, <1>2
<1> QED
  BY <1>3 DEF Lands

\* After a queued update that saves v the row has v.
LEMMA SavingJoined ==
  ASSUME NEW q \in Seq(Query), NEW r \in Seq(Query), NEW p, Joined(p, q, r),
         1 \in Saving(r), \A i \in Saving(r) : i = 1, NEW d
  PROVE  Lands(p, d, r[1].data)
<1>1. Len(q) + 1 \in Saving(p) /\ p[Len(q) + 1] = r[1]
  BY JoinedFacts DEF Saving
<1>2. ASSUME NEW j \in Saving(p)
      PROVE  j <= Len(q) + 1
  <2>1. j \in DOMAIN p
    BY DEF Saving
  <2>2. CASE j \in DOMAIN q
    BY <2>2
  <2>3. CASE j \notin DOMAIN q
    <3>1. PICK k \in DOMAIN r : j = Len(q) + k
      BY <2>1, <2>3, JoinedFacts
    <3>2. k \in Saving(r)
      BY <3>1, JoinedFacts DEF Saving
    <3> QED
      BY <3>1, <3>2
  <2> QED
    BY <2>2, <2>3
<1> QED
  BY <1>1, <1>2 DEF Lands

\* The rest of a queue, from what the row has after the query at the top.
LEMMA TailLands ==
  ASSUME NEW q \in Seq(Query), q # <<>>, NEW p, p = Tail(q), NEW d, NEW v,
         Lands(q, d, v)
  PROVE  Lands(p, IF 1 \in Saving(q) THEN q[1].data ELSE d, v)
<1>1. /\ \A i \in DOMAIN p : /\ i + 1 \in DOMAIN q /\ p[i] = q[i + 1]
                             /\ i \in Nat /\ i >= 1
      /\ \A i \in DOMAIN q : i \in Nat /\ (i # 1 => i - 1 \in DOMAIN p)
  OBVIOUS
<1>2. \A i \in Saving(p) : i + 1 \in Saving(q) /\ p[i] = q[i + 1] /\ i \in Nat /\ i >= 1
  BY <1>1 DEF Saving
<1>3. \A i \in Saving(q) : i \in Nat /\ (i # 1 => i - 1 \in Saving(p) /\ p[i - 1] = q[i])
  <2> TAKE i \in Saving(q)
  <2>1. i \in Nat /\ i \in DOMAIN q /\ q[i].op \in {"save", "leave"}
    BY <1>1 DEF Saving
  <2>2. ASSUME i # 1
        PROVE  i - 1 \in DOMAIN p /\ p[i - 1] = q[i]
    <3>1. i - 1 \in DOMAIN p /\ p[i - 1] = q[(i - 1) + 1]
      BY <1>1, <2>1, <2>2
    <3> QED
      BY <2>1, <3>1
  <2> QED
    BY <2>1, <2>2 DEF Saving
<1>4. CASE Saving(q) = {}
  BY <1>2, <1>4 DEF Lands
<1>5. ASSUME NEW m \in Saving(q), q[m].data = v, \A j \in Saving(q) : j <= m
      PROVE  Lands(p, IF 1 \in Saving(q) THEN q[1].data ELSE d, v)
  <2>1. CASE m = 1
    <3>1. ASSUME NEW i \in Saving(p)
          PROVE  FALSE
      <4>1. i + 1 \in Saving(q) /\ i \in Nat /\ i >= 1
        BY <1>2
      <4>2. i + 1 <= 1
        BY <1>5, <2>1, <4>1
      <4> QED
        BY <4>1, <4>2
    <3> QED
      BY <1>5, <2>1, <3>1 DEF Lands
  <2>2. CASE m # 1
    <3>1. m - 1 \in Saving(p) /\ p[m - 1].data = v
      BY <1>3, <1>5, <2>2
    <3>2. \A j \in Saving(p) : j <= m - 1
      BY <1>2, <1>3, <1>5
    <3> QED
      BY <3>1, <3>2 DEF Lands
  <2> QED
    BY <2>1, <2>2
<1> QED
  BY <1>4, <1>5 DEF Lands

(***************************************************************************)
(* The contents: what a step does to those of its own server.              *)
(***************************************************************************)

\* Updates in a queue are updates of its own server, so where the row names
\* no server that runs no queue has any, and nobody has the depot.
LEMMA NoUpdates ==
  ASSUME TypeOK, NEW s \in Servers, CurrentInv(s), depot.holder \notin {s} \X Chars
  PROVE  \A i \in DOMAIN queue[s] : queue[s][i].op \notin Updates
<1>1. \A i \in DOMAIN queue[s] : queue[s][i].c \in Chars
  <2>1. queue[s] \in Seq(Query)
    BY DEF TypeOK
  <2>2. \A i \in DOMAIN queue[s] : queue[s][i] \in Query
    BY <2>1
  <2> QED
    BY <2>2 DEF Query
<1>2. \A c \in Chars : depot.holder # <<s, c>>
  OBVIOUS
<1> QED
  BY <1>1, <1>2 DEF CurrentInv

\* A queue without updates asks for nothing.
LEMMA CurrentSuffices ==
  ASSUME NEW s \in Servers,
         (\A i \in DOMAIN queue[s] : queue[s][i].op \notin Updates)',
         (\A c \in Chars : game[s][c].loaded => /\ game[s][c].data = newest
                                                /\ depot.data = newest)',
         (login[s].loaded => login[s].data = newest /\ depot.data = newest)'
  PROVE  CurrentInv(s)'
<1>1. Gives(queue[s])' = {} /\ Saving(queue[s])' = {}
  BY DEF Gives, Saving, Updates
<1> QED
  BY <1>1 DEF CurrentInv, Lands

\* A step that saves nothing and shows nothing: it adds no updates to the
\* queue and only hands the depot from the login to the game, if anything.
LEMMA IdleCurrent ==
  ASSUME TypeOK, NEW s \in Servers, CurrentInv(s),
         depot' = depot, newest' = newest,
         NEW r \in Seq(Query), Plain(r), queue'[s] = queue[s] \o r,
         login'[s].loaded => login[s].loaded /\ login'[s].data = login[s].data,
         \A c \in Chars :
           game'[s][c].loaded =>
             \/ /\ game[s][c].loaded /\ game'[s][c].data = game[s][c].data
                /\ ~game'[s][c].dirty => ~game[s][c].dirty
             \/ /\ login[s].loaded /\ game'[s][c].data = login[s].data
  PROVE  CurrentInv(s)'
<1> DEFINE q == queue[s]
           p == queue'[s]
<1>1. /\ \A i \in DOMAIN p : p[i].op \in Updates => i \in DOMAIN q /\ p[i] = q[i]
      /\ \A d, v : Lands(q, d, v) => Lands(p, d, v)
  <2>1. q \in Seq(Query) /\ Joined(p, q, r)
    BY Zenon DEF Joined, TypeOK
  <2> HIDE DEF p, q
  <2> QED
    BY <2>1, PlainJoined
<1>2. \A i \in DOMAIN p : p[i].op \in Updates =>
        depot'.holder = <<s, p[i].c>> /\ ~login'[s].loaded
  BY <1>1 DEF CurrentInv
<1>3. \A i \in Gives(p) : /\ Lands(p, depot'.data, newest')
                          /\ \A j \in DOMAIN p : j > i => p[j].op # "save"
  <2> SUFFICES ASSUME NEW i \in Gives(p)
               PROVE  /\ Lands(p, depot'.data, newest')
                      /\ \A j \in DOMAIN p : j > i => p[j].op # "save"
    OBVIOUS
  <2>1. i \in Gives(q)
    BY <1>1 DEF Gives, Updates
  <2> QED
    BY <1>1, <2>1 DEF CurrentInv, Updates
<1>4. ASSUME NEW c \in Chars, game'[s][c].loaded
      PROVE  /\ game'[s][c].data = newest'
             /\ ~game'[s][c].dirty => Lands(p, depot'.data, newest')
  <2>1. CASE /\ game[s][c].loaded /\ game'[s][c].data = game[s][c].data
             /\ ~game'[s][c].dirty => ~game[s][c].dirty
    BY <1>1, <2>1 DEF CurrentInv
  <2>2. CASE login[s].loaded /\ game'[s][c].data = login[s].data
    <3>1. /\ login[s].data = newest /\ depot.data = newest
          /\ \A i \in DOMAIN q : q[i].op \notin Updates
      BY <2>2 DEF CurrentInv
    <3>2. Lands(q, depot.data, newest)
      BY <3>1 DEF Lands, Saving, Updates
    <3> QED
      BY <1>1, <2>2, <3>1, <3>2
  <2> QED
    BY <1>4, <2>1, <2>2
<1>5. login'[s].loaded => login'[s].data = newest' /\ depot'.data = newest'
  BY DEF CurrentInv
<1> HIDE DEF p, q
<1> QED
  BY <1>2, <1>3, <1>4, <1>5 DEF CurrentInv, p

\* A query that is no update leaves the queue.
LEMMA PopCurrent ==
  ASSUME TypeOK, NEW s \in Servers, CurrentInv(s),
         depot' = depot, newest' = newest, game'[s] = game[s],
         queue[s] # <<>>, queue'[s] = Tail(queue[s]),
         Head(queue[s]).op \notin Updates,
         login'[s].loaded => login[s].loaded /\ login'[s].data = login[s].data
  PROVE  CurrentInv(s)'
<1> DEFINE q == queue[s]
           p == queue'[s]
<1>1. /\ \A i \in DOMAIN p : /\ i + 1 \in DOMAIN q /\ p[i] = q[i + 1]
                             /\ i \in Nat /\ i >= 1
      /\ q \in Seq(Query) /\ Head(q) = q[1]
  BY DEF TypeOK
<1>2. \A d, v : Lands(q, d, v) => Lands(p, d, v)
  <2>1. 1 \notin Saving(q)
    BY <1>1 DEF Saving, Updates
  <2>2. q # <<>> /\ p = Tail(q)
    OBVIOUS
  <2> HIDE DEF p, q
  <2> QED
    BY <1>1, <2>1, <2>2, TailLands
<1>3. \A i \in DOMAIN p : p[i].op \in Updates =>
        depot'.holder = <<s, p[i].c>> /\ ~login'[s].loaded
  BY <1>1 DEF CurrentInv
<1>4. \A i \in Gives(p) : /\ Lands(p, depot'.data, newest')
                          /\ \A j \in DOMAIN p : j > i => p[j].op # "save"
  <2> SUFFICES ASSUME NEW i \in Gives(p)
               PROVE  /\ Lands(p, depot'.data, newest')
                      /\ \A j \in DOMAIN p : j > i => p[j].op # "save"
    OBVIOUS
  <2>1. i \in DOMAIN p /\ i + 1 \in Gives(q) /\ i \in Nat
    BY <1>1 DEF Gives
  <2>2. /\ Lands(q, depot.data, newest)
        /\ \A j \in DOMAIN q : j > i + 1 => q[j].op # "save"
    BY <2>1 DEF CurrentInv
  <2>3. ASSUME NEW j \in DOMAIN p, j > i
        PROVE  p[j].op # "save"
    <3>1. j + 1 \in DOMAIN q /\ p[j] = q[j + 1] /\ j \in Nat
      BY <1>1
    <3>2. j + 1 > i + 1
      BY <2>1, <2>3, <3>1
    <3> QED
      BY <2>2, <3>1, <3>2
  <2> QED
    BY <1>2, <2>2, <2>3
<1>5. ASSUME NEW c \in Chars, game'[s][c].loaded
      PROVE  /\ game'[s][c].data = newest'
             /\ ~game'[s][c].dirty => Lands(p, depot'.data, newest')
  BY <1>2, <1>5 DEF CurrentInv
<1>6. login'[s].loaded => login'[s].data = newest' /\ depot'.data = newest'
  BY DEF CurrentInv
<1> HIDE DEF p, q
<1> QED
  BY <1>3, <1>4, <1>5, <1>6 DEF CurrentInv, p

\* The update at the top is executed: the row has the contents it saves, and
\* when it gives the depot up these are the last.
LEMMA UpdateCurrent ==
  ASSUME TypeOK, NEW s \in Servers, CurrentInv(s), ClaimInv(s), DbUpdate(s)
  PROVE  /\ CurrentInv(s)'
         /\ depot.holder \in {s} \X Chars
         /\ depot'.holder \in {depot.holder, Nobody}
         /\ depot'.holder = Nobody => depot'.data = newest
<1> DEFINE q == queue[s]
           p == queue'[s]
           top == queue[s][1]
<1>1. /\ q \in Seq(Query) /\ q # <<>> /\ p = Tail(q)
      /\ Head(q) = top /\ top.op \in Updates /\ top \in Query /\ 1 \in DOMAIN q
      /\ game' = game /\ login' = login /\ newest' = newest /\ depot \in Row
      /\ depot' = Updated(s, top)
  BY DEF DbUpdate, TopIs, RemoveTopQuery, TypeOK
<1>2. \A i \in DOMAIN p : /\ i + 1 \in DOMAIN q /\ p[i] = q[i + 1]
                          /\ i \in Nat /\ i >= 1
  BY <1>1
<1>3. depot.holder = <<s, top.c>> /\ top.c \in Chars /\ ~login[s].loaded
  BY <1>1 DEF CurrentInv, Query
<1>4. /\ depot'.holder = IF top.op = "save" THEN depot.holder ELSE Nobody
      /\ depot'.data = IF 1 \in Saving(q) THEN top.data ELSE depot.data
  BY <1>1, <1>3 DEF Updated, Saving, Updates
<1>5. \A v : Lands(q, depot.data, v) => Lands(p, depot'.data, v)
  <2> HIDE DEF p
  <2> QED
    BY <1>1, <1>4, TailLands
<1>6. CASE top.op = "save"
  <2>1. \A i \in DOMAIN p : p[i].op \in Updates =>
          depot'.holder = <<s, p[i].c>> /\ ~login'[s].loaded
    BY <1>1, <1>2, <1>4, <1>6 DEF CurrentInv
  <2>2. ASSUME NEW i \in Gives(p)
        PROVE  /\ Lands(p, depot'.data, newest')
               /\ \A j \in DOMAIN p : j > i => p[j].op # "save"
    <3>1. i \in DOMAIN p /\ i + 1 \in Gives(q) /\ i \in Nat
      BY <1>2 DEF Gives
    <3>2. /\ Lands(q, depot.data, newest)
          /\ \A j \in DOMAIN q : j > i + 1 => q[j].op # "save"
      BY <3>1 DEF CurrentInv
    <3>3. ASSUME NEW j \in DOMAIN p, j > i
          PROVE  p[j].op # "save"
      <4>1. j + 1 \in DOMAIN q /\ p[j] = q[j + 1] /\ j \in Nat
        BY <1>2
      <4>2. j + 1 > i + 1
        BY <3>1, <3>3, <4>1
      <4> QED
        BY <3>2, <4>1, <4>2
    <3> QED
      BY <1>1, <1>5, <3>2, <3>3
  <2>3. \A c \in Chars : game'[s][c].loaded =>
          /\ game'[s][c].data = newest'
          /\ ~game'[s][c].dirty => Lands(p, depot'.data, newest')
    BY <1>1, <1>5 DEF CurrentInv
  <2>4. CurrentInv(s)'
    <3> HIDE DEF p, q
    <3> QED
      BY <1>1, <1>3, <2>1, <2>2, <2>3 DEF CurrentInv, p
  <2>5. depot'.holder # Nobody
    BY <1>3, <1>4, <1>6, DepotAssumption
  <2> QED
    BY <1>3, <1>4, <1>6, <2>4, <2>5
<1>7. CASE top.op \in {"leave", "free"}
  <2>1. 1 \in Gives(q)
    BY <1>1, <1>7 DEF Gives
  <2>2. /\ Lands(q, depot.data, newest)
        /\ \A j \in DOMAIN q : j > 1 => q[j].op # "save"
        /\ \A j \in Gives(q) : j = 1
        /\ ~game[s][top.c].loaded
    BY <2>1 DEF CurrentInv, ClaimInv
  <2>3. \A i \in DOMAIN p : p[i].op \notin Updates
    <3> SUFFICES ASSUME NEW i \in DOMAIN p, p[i].op \in Updates
                 PROVE  FALSE
      OBVIOUS
    <3>1. i + 1 \in DOMAIN q /\ p[i] = q[i + 1] /\ i \in Nat /\ i >= 1
      BY <1>2
    <3>2. i + 1 > 1 /\ i + 1 # 1
      BY <3>1
    <3>3. q[i + 1].op # "save" /\ i + 1 \notin Gives(q)
      BY <2>2, <3>1, <3>2
    <3> QED
      BY <3>1, <3>3 DEF Gives, Updates
  <2>4. Lands(p, depot'.data, newest)
    BY <1>5, <2>2
  <2>5. depot'.data = newest
    BY <2>3, <2>4 DEF Lands, Saving, Updates
  <2>6. \A c \in Chars : ~game'[s][c].loaded
    BY <1>1, <1>3, <2>2 DEF ClaimInv
  <2>7. CurrentInv(s)'
    BY <1>1, <1>3, <2>3, <2>6, CurrentSuffices
  <2> QED
    BY <1>3, <1>4, <1>7, <2>5, <2>7
<1> QED
  BY <1>1, <1>6, <1>7 DEF Updates

\* Queries that are no updates, and adding them to a queue.
LEMMA PlainQueries ==
  ASSUME NEW q \in Seq(Query)
  PROVE  /\ <<>> \in Seq(Query) /\ Plain(<<>>) /\ q = q \o <<>>
         /\ \A x \in Query : x.op \notin Updates =>
              /\ <<x>> \in Seq(Query) /\ Plain(<<x>>)
              /\ Append(q, x) = q \o <<x>>
         /\ \A x, y \in Query : x.op \notin Updates /\ y.op \notin Updates =>
              /\ <<x, y>> \in Seq(Query) /\ Plain(<<x, y>>)
              /\ Append(Append(q, x), y) = q \o <<x, y>>
<1>1. <<>> \in Seq(Query) /\ Plain(<<>>) /\ q = q \o <<>>
  BY DEF Plain
<1>2. ASSUME NEW x \in Query, x.op \notin Updates
      PROVE  /\ <<x>> \in Seq(Query) /\ Plain(<<x>>)
             /\ Append(q, x) = q \o <<x>>
  <2>1. <<x>> \in Seq(Query) /\ Append(q, x) = q \o <<x>>
    OBVIOUS
  <2>2. Plain(<<x>>)
    BY <1>2 DEF Plain
  <2> QED
    BY <2>1, <2>2
<1>3. ASSUME NEW x \in Query, NEW y \in Query, x.op \notin Updates, y.op \notin Updates
      PROVE  /\ <<x, y>> \in Seq(Query) /\ Plain(<<x, y>>)
             /\ Append(Append(q, x), y) = q \o <<x, y>>
  <2>1. <<x, y>> \in Seq(Query)
    OBVIOUS
  <2>2. Append(Append(q, x), y) = q \o <<x, y>>
    OBVIOUS
  <2>3. Plain(<<x, y>>)
    BY <1>3 DEF Plain
  <2> QED
    BY <2>1, <2>2, <2>3
<1> QED
  BY <1>1, <1>2, <1>3

\* Asking for anything but an update.
LEMMA PlainAsked ==
  ASSUME NEW c \in Chars
  PROVE  \A op \in {"exit", "load", "loaddepot", "rescue"} :
           Ask(op, c, 0) \in Query /\ Ask(op, c, 0).op \notin Updates
BY AskType, ZeroType DEF Ops, Updates, Ask

\* find_login drops contents, with what was shown, but shows none.
LEMMA FindLoginCurrent ==
  ASSUME TypeOK, NEW s \in Servers, CurrentInv(s), FindLogin(s)
  PROVE  CurrentInv(s)'
<1>0. queue[s] \in Seq(Query) /\ depot' = depot /\ newest' = newest
  BY DEF TypeOK, FindLogin, FindLoginStart, FindLoginStale, FindLoginOk,
         FindLoginNewarea
<1>1. CASE \E c \in Chars : FindLoginStart(s, c)
  <2>1. PICK c \in Chars : FindLoginStart(s, c)
    BY <1>1
  <2> DEFINE r == <<Ask("load", c, 0)>>
  <2>2. r \in Seq(Query) /\ Plain(r) /\ queue'[s] = queue[s] \o r
    <3>1. queue'[s] = Append(queue[s], Ask("load", c, 0))
      BY <2>1 DEF FindLoginStart, StartRead, TypeOK
    <3> QED
      BY <1>0, <3>1, PlainAsked, PlainQueries
  <2>3. ~login'[s].loaded /\ game' = game
    BY <2>1 DEF FindLoginStart, StartRead, SetLogin, Idle, TypeOK
  <2> HIDE DEF r
  <2> QED
    BY <1>0, <2>2, <2>3, IdleCurrent
<1>2. CASE \E c \in Chars : FindLoginStale(s, c)
  <2>1. PICK c \in Chars : FindLoginStale(s, c)
    BY <1>2
  <2>2. ~login'[s].loaded
    BY <2>1 DEF FindLoginStale, StartRead, SetLogin, Idle, TypeOK
  <2>3. login[s].c \in Chars
    BY <2>1, StateType DEF FindLoginStale
  <2>4. CASE login[s].current
    <3> DEFINE r == <<Ask("load", c, 0)>>
    <3>1. queue'[s] = Append(queue[s], Ask("load", c, 0)) /\ game' = game
      BY <2>1, <2>4 DEF FindLoginStale, StartRead, TypeOK
    <3>2. r \in Seq(Query) /\ Plain(r) /\ queue'[s] = queue[s] \o r
      BY <1>0, <3>1, PlainAsked, PlainQueries
    <3> HIDE DEF r
    <3> QED
      BY <1>0, <2>2, <3>1, <3>2, IdleCurrent
  <2>5. CASE ~login[s].current
    <3> DEFINE r == <<Ask("exit", login[s].c, 0), Ask("load", c, 0)>>
    <3>1. /\ queue'[s] = Append(Append(queue[s], Ask("exit", login[s].c, 0)),
                                Ask("load", c, 0))
          /\ game' = [game EXCEPT ![s][login[s].c] = Absent]
      BY <2>1, <2>5 DEF FindLoginStale, StartRead, SetGame, TypeOK
    <3>2. r \in Seq(Query) /\ Plain(r) /\ queue'[s] = queue[s] \o r
      BY <1>0, <2>3, <3>1, PlainAsked, PlainQueries
    <3>3. \A o \in Chars : game'[s][o].loaded => game'[s][o] = game[s][o]
      BY <2>3, <3>1 DEF TypeOK, Absent
    <3> HIDE DEF r
    <3> QED
      BY <1>0, <2>2, <3>2, <3>3, IdleCurrent
  <2> QED
    BY <2>4, <2>5
<1>3. CASE FindLoginOk(s) \/ FindLoginNewarea(s)
  <2>1. ~login'[s].loaded /\ game' = game
    BY <1>3 DEF FindLoginOk, FindLoginNewarea, SetLogin, Idle, TypeOK
  <2>2. \E r \in Seq(Query) : Plain(r) /\ queue'[s] = queue[s] \o r
    <3>1. CASE queue' = queue
      BY <1>0, <3>1, PlainQueries
    <3>2. CASE /\ login[s].st = "newarea"
               /\ Queue(s, <<Ask("rescue", login[s].c, 0)>>)
      <4>1. login[s].c \in Chars
        BY <3>2, StateType
      <4> DEFINE r == <<Ask("rescue", login[s].c, 0)>>
      <4>2. queue'[s] = queue[s] \o r
        BY <3>2 DEF Queue, TypeOK
      <4>3. r \in Seq(Query) /\ Plain(r)
        BY <1>0, <4>1, PlainAsked, PlainQueries
      <4> HIDE DEF r
      <4> QED
        BY <4>2, <4>3
    <3> QED
      BY <1>3, <3>1, <3>2 DEF FindLoginOk, FindLoginNewarea
  <2> QED
    BY <1>0, <2>1, <2>2, IdleCurrent
<1> QED
  BY <1>1, <1>2, <1>3 DEF FindLogin

\* tick_login puts the contents of the login into the game, if anything.
LEMMA TickLoginCurrent ==
  ASSUME TypeOK, NEW s \in Servers, CurrentInv(s), TickLogin(s)
  PROVE  CurrentInv(s)'
<1>0. /\ queue[s] \in Seq(Query) /\ depot' = depot /\ newest' = newest
      /\ login[s].st = "create" /\ login[s].c \in Chars
  BY StateType
     DEF TypeOK, TickLogin, TickLoginUsurp, TickLoginCreate, TickLoginFails,
         Creating
<1>1. ~login'[s].loaded
  <2>1. login'[s] \in {Made(login[s]), Idle}
    BY DEF TypeOK, TickLogin, TickLoginUsurp, TickLoginCreate,
           TickLoginFails, SetLogin
  <2>2. login[s] \in [st: {"read", "newarea", "create", "ok"}, c: Chars,
                      current: BOOLEAN, loaded: BOOLEAN, data: Versions]
    BY <1>0, StateType DEF Login, Idle
  <2>3. ~Made(login[s]).loaded
    BY <2>2 DEF Made
  <2>4. ~Idle.loaded
    BY DEF Idle
  <2> QED
    BY <2>1, <2>3, <2>4
<1>2. \A c \in Chars :
        game'[s][c].loaded =>
          \/ game'[s][c] = game[s][c]
          \/ login[s].loaded /\ game'[s][c].data = login[s].data
  <2>1. CASE game' = game
    BY <2>1
  <2>2. CASE TickLoginCreate(s)
    BY <1>0, <2>2 DEF TickLoginCreate, SetGame, TypeOK
  <2>3. CASE SetGame(s, login[s].c, [Absent EXCEPT !.on = TRUE])
    BY <1>0, <2>3 DEF SetGame, TypeOK, Absent
  <2> QED
    BY <2>1, <2>2, <2>3 DEF TickLogin, TickLoginUsurp, TickLoginFails
<1>3. \E r \in Seq(Query) : Plain(r) /\ queue'[s] = queue[s] \o r
  <2>1. CASE queue' = queue
    BY <1>0, <2>1, PlainQueries
  <2>2. CASE Queue(s, <<Ask("exit", login[s].c, 0)>>)
    <3> DEFINE r == <<Ask("exit", login[s].c, 0)>>
    <3>1. queue'[s] = queue[s] \o r
      BY <2>2 DEF Queue, TypeOK
    <3>2. r \in Seq(Query) /\ Plain(r)
      BY <1>0, PlainAsked, PlainQueries
    <3> HIDE DEF r
    <3> QED
      BY <3>1, <3>2
  <2> QED
    BY <2>1, <2>2 DEF TickLogin, TickLoginUsurp, TickLoginCreate,
                      TickLoginFails
<1>4. PICK r \in Seq(Query) : Plain(r) /\ queue'[s] = queue[s] \o r
  BY <1>3
<1> QED
  BY <1>0, <1>1, <1>2, <1>4, IdleCurrent

\* A leaving character that has the depot saves what changed and gives it up.
LEMMA LeavingSaves ==
  ASSUME NEW p \in Player, NEW c \in Chars, p.loaded
  PROVE  \E q \in Query : /\ SaveDepot(p, c, "leave") = <<q>>
                          /\ q.c = c
                          /\ \/ q.op = "leave" /\ q.data = p.data
                             \/ q.op = "free" /\ ~p.dirty
<1>1. CASE p.dirty
  <2> DEFINE q == Ask("leave", c, p.data)
  <2>1. q \in Query /\ q.c = c /\ q.op = "leave" /\ q.data = p.data
    BY DEF Player, Ask, Query, Ops, Updates
  <2>2. SaveDepot(p, c, "leave") = <<q>>
    BY <1>1 DEF SaveDepot
  <2> QED
    BY <2>1, <2>2
<1>2. CASE ~p.dirty
  <2> DEFINE q == Ask("free", c, 0)
  <2>1. q \in Query /\ q.c = c /\ q.op = "free"
    BY ZeroType DEF Ask, Query, Ops, Updates
  <2>2. SaveDepot(p, c, "leave") = <<q>>
    BY <1>2 DEF SaveDepot
  <2> QED
    BY <1>2, <2>1, <2>2
<1> QED
  BY <1>1, <1>2

\* What a character with data d, changed or not, queues to give the depot up,
\* and nothing else is an update.
Handing(r, c, d, dirty) ==
  /\ 1 \in DOMAIN r /\ r[1].c = c
  /\ \/ r[1].op = "leave" /\ r[1].data = d
     \/ r[1].op = "free" /\ ~dirty
  /\ \A i \in DOMAIN r : i # 1 => r[i].op \notin Updates

\* The depot in the game becomes the last update in the queue.
LEMMA HandingCurrent ==
  ASSUME TypeOK, NEW s \in Servers, CurrentInv(s), ClaimInv(s),
         NEW c \in Chars, game[s][c].loaded,
         depot' = depot, newest' = newest, login'[s] = login[s],
         NEW r \in Seq(Query), queue'[s] = queue[s] \o r,
         Handing(r, c, game[s][c].data, game[s][c].dirty),
         \A o \in Chars : ~game'[s][o].loaded
  PROVE  CurrentInv(s)'
<1> DEFINE q == queue[s]
           p == queue'[s]
<1>1. /\ q \in Seq(Query) /\ depot.holder = <<s, c>> /\ ~login[s].loaded
      /\ game[s][c].data = newest
      /\ ~game[s][c].dirty => Lands(q, depot.data, newest)
  BY DEF TypeOK, ClaimInv, CurrentInv
<1>2. Gives(q) = {}
  BY <1>1 DEF ClaimInv
<1>3. Joined(p, q, r)
  BY Zenon DEF Joined
<1>4. Lands(p, depot.data, newest)
  <2>1. CASE r[1].op = "leave" /\ r[1].data = game[s][c].data
    <3>1. 1 \in Saving(r) /\ (\A i \in Saving(r) : i = 1) /\ r[1].data = newest
      BY <1>1, <2>1 DEF Handing, Saving, Updates
    <3> HIDE DEF p, q
    <3> QED
      BY <1>1, <1>3, <3>1, SavingJoined
  <2>2. CASE r[1].op = "free" /\ ~game[s][c].dirty
    <3>1. Saving(r) = {}
      BY <2>2 DEF Handing, Saving, Updates
    <3>2. Lands(q, depot.data, newest)
      BY <1>1, <2>2
    <3> HIDE DEF p, q
    <3> QED
      BY <1>1, <1>3, <3>1, <3>2, UnsavingJoined
  <2> QED
    BY <2>1, <2>2 DEF Handing
<1>5. \A i \in DOMAIN p : p[i].op \in Updates =>
        \/ i \in DOMAIN q /\ p[i] = q[i]
        \/ i = Len(q) + 1 /\ p[i].c = c
  <2> HIDE DEF p, q
  <2> SUFFICES ASSUME NEW i \in DOMAIN p, p[i].op \in Updates, i \notin DOMAIN q
               PROVE  i = Len(q) + 1 /\ p[i].c = c
    BY <1>1, <1>3, JoinedFacts
  <2>1. PICK k \in DOMAIN r : i = Len(q) + k
    BY <1>1, <1>3, JoinedFacts
  <2>2. p[Len(q) + k] = r[k]
    BY <1>1, <1>3, JoinedFacts
  <2>3. k = 1
    BY <2>1, <2>2 DEF Handing
  <2> QED
    BY <2>1, <2>2, <2>3 DEF Handing
<1>6. \A i \in DOMAIN p : p[i].op \in Updates =>
        depot'.holder = <<s, p[i].c>> /\ ~login'[s].loaded
  BY <1>1, <1>5 DEF CurrentInv
<1>7. ASSUME NEW i \in Gives(p)
      PROVE  \A j \in DOMAIN p : j > i => p[j].op # "save"
  <2>1. i = Len(q) + 1
    BY <1>2, <1>5 DEF Gives, Updates
  <2>2. ASSUME NEW j \in DOMAIN p, j > i, p[j].op \in Updates
        PROVE  FALSE
    <3>1. j \in DOMAIN q
      BY <1>5, <2>1, <2>2
    <3> QED
      BY <1>1, <2>1, <2>2, <3>1
  <2> QED
    BY <2>2 DEF Updates
<1> HIDE DEF p, q
<1> QED
  BY <1>1, <1>4, <1>6, <1>7 DEF CurrentInv, p

\* A change is shown, and is the newest there is.
LEMMA ChangeCurrent ==
  ASSUME TypeOK, NEW s \in Servers, CurrentInv(s), ClaimInv(s), NEW c \in Chars,
         Change(s, c)
  PROVE  CurrentInv(s)'
<1>1. /\ game[s][c].loaded /\ depot' = depot /\ login' = login /\ queue' = queue
      /\ game' = [game EXCEPT ![s][c] =
           [game[s][c] EXCEPT !.data = newest', !.dirty = TRUE]]
      /\ game[s][c] \in Player
  BY DEF Change, SetGame, TypeOK
<1>2. /\ depot.holder = <<s, c>> /\ ~login[s].loaded /\ Gives(queue[s]) = {}
      /\ \A o \in Chars : game[s][o].loaded => o = c
  BY <1>1 DEF ClaimInv
<1>3. game'[s][c] = [game[s][c] EXCEPT !.data = newest', !.dirty = TRUE]
  BY <1>1 DEF TypeOK
<1>4. game'[s][c].data = newest' /\ game'[s][c].dirty
  BY <1>1, <1>3 DEF Player
<1>5. \A o \in Chars : o # c => game'[s][o] = game[s][o]
  BY <1>1 DEF TypeOK
<1> QED
  BY <1>1, <1>2, <1>4, <1>5 DEF CurrentInv

\* A backup queues the newest there is.
LEMMA BackupCurrent ==
  ASSUME TypeOK, NEW s \in Servers, CurrentInv(s), ClaimInv(s), NEW c \in Chars,
         Backup(s, c)
  PROVE  CurrentInv(s)'
<1> DEFINE x == Ask("save", c, game[s][c].data)
           q == queue[s]
           p == queue'[s]
<1>1. /\ game[s][c].loaded /\ game[s][c].dirty
      /\ depot' = depot /\ login' = login /\ newest' = newest
      /\ game' = [game EXCEPT ![s][c] = [game[s][c] EXCEPT !.dirty = FALSE]]
      /\ game[s][c] \in Player /\ q \in Seq(Query)
      /\ p = q \o SaveDepot(game[s][c], c, "save")
  BY DEF Backup, SetGame, Queue, TypeOK
<1>2. SaveDepot(game[s][c], c, "save") = <<x>>
  BY <1>1 DEF SaveDepot
<1>3. x \in Query /\ x.op = "save" /\ x.c = c /\ x.data = game[s][c].data
  BY <1>1 DEF Ask, Query, Player, Ops, Updates
<1>4. /\ depot.holder = <<s, c>> /\ ~login[s].loaded /\ Gives(q) = {}
      /\ \A o \in Chars : game[s][o].loaded => o = c
      /\ game[s][c].data = newest
      /\ \A i \in DOMAIN q : q[i].op \in Updates => depot.holder = <<s, q[i].c>>
  BY <1>1 DEF ClaimInv, CurrentInv
<1> HIDE DEF x
<1>q. q \in Seq(Query)
  BY <1>1
<1>5. PICK r \in Seq(Query) : r = <<x>> /\ DOMAIN r = {1} /\ r[1] = x
  <2>1. <<x>> \in Seq(Query) /\ DOMAIN <<x>> = {1} /\ <<x>>[1] = x
    BY <1>3
  <2> QED
    BY <2>1, Zenon
<1>6. Joined(p, q, r)
  BY <1>1, <1>2, <1>5, Zenon DEF Joined
<1> HIDE DEF p, q
<1>7. \A i \in DOMAIN p : \/ i \in DOMAIN q /\ p[i] = q[i]
                         \/ p[i] = x
  <2> SUFFICES ASSUME NEW i \in DOMAIN p, i \notin DOMAIN q
               PROVE  p[i] = x
    BY <1>q, <1>6, JoinedFacts
  <2>1. PICK k \in DOMAIN r : i = Len(q) + k
    BY <1>q, <1>6, JoinedFacts
  <2>2. p[Len(q) + k] = r[k]
    BY <1>q, <1>6, JoinedFacts
  <2> QED
    BY <1>5, <2>1, <2>2
<1>8. Lands(p, depot.data, newest)
  <2>1. 1 \in Saving(r) /\ \A i \in Saving(r) : i = 1
    BY <1>3, <1>5 DEF Saving
  <2>2. Lands(p, depot.data, r[1].data)
    BY <1>q, <1>6, <2>1, SavingJoined
  <2> QED
    BY <1>3, <1>4, <1>5, <2>2
<1>9. Gives(p) = {}
  BY <1>3, <1>4, <1>7 DEF Gives
<1>10. \A i \in DOMAIN p : p[i].op \in Updates => depot'.holder = <<s, p[i].c>>
  BY <1>1, <1>3, <1>4, <1>7
<1>11. \A o \in Chars : game'[s][o].loaded => game'[s][o].data = newest'
  BY <1>1, <1>4 DEF TypeOK, Player
<1> QED
  BY <1>1, <1>4, <1>8, <1>9, <1>10, <1>11 DEF CurrentInv, p

\* A leaving character.
LEMMA LeaveCurrent ==
  ASSUME TypeOK, NEW s \in Servers, CurrentInv(s), ClaimInv(s), NEW c \in Chars,
         Leave(s, c)
  PROVE  CurrentInv(s)'
<1> DEFINE e == Ask("exit", c, 0)
           r == SaveDepot(game[s][c], c, "leave") \o <<e>>
<1>0. queue[s] \in Seq(Query) /\ game[s][c] \in Player
  BY StateType DEF TypeOK
<1>1. /\ queue'[s] = queue[s] \o r
      /\ game' = [game EXCEPT ![s][c] = Absent]
      /\ depot' = depot /\ login' = login /\ newest' = newest
  BY DEF Leave, Queue, SetGame, TypeOK
<1>2. e \in Query /\ <<e>> \in Seq(Query) /\ Plain(<<e>>) /\ e.op \notin Updates
  BY <1>0, PlainAsked, PlainQueries
<1>3. \A o \in Chars : game'[s][o].loaded => game'[s][o] = game[s][o] /\ o # c
  BY <1>1 DEF TypeOK, Absent
<1>4. CASE ~game[s][c].loaded
  <2>1. SaveDepot(game[s][c], c, "leave") = <<>>
    BY <1>0, <1>4, LeavingType
  <2>2. r = <<e>>
    <3>1. <<>> \o <<e>> = <<e>>
      BY <1>2, ConcatEmptySeq
    <3> QED
      BY <2>1, <3>1, Zenon
  <2> HIDE DEF e, r
  <2> QED
    BY <1>1, <1>2, <1>3, <2>2, IdleCurrent
<1>5. CASE game[s][c].loaded
  <2>1. PICK q \in Query : /\ SaveDepot(game[s][c], c, "leave") = <<q>>
                           /\ q.c = c
                           /\ \/ q.op = "leave" /\ q.data = game[s][c].data
                              \/ q.op = "free" /\ ~game[s][c].dirty
    BY <1>0, <1>5, LeavingSaves
  <2> HIDE DEF e
  <2>2. PICK a \in Seq(Query) : a = <<q>> /\ DOMAIN a = {1} /\ a[1] = q
    <3>1. <<q>> \in Seq(Query) /\ DOMAIN <<q>> = {1} /\ <<q>>[1] = q
      OBVIOUS
    <3> QED
      BY <3>1, Zenon
  <2>3. PICK b \in Seq(Query) : b = <<e>> /\ Plain(b)
    BY <1>2
  <2>j. Joined(r, a, b)
    BY <2>1, <2>2, <2>3, Zenon DEF Joined
  <2> HIDE DEF r
  <2>4. /\ r \in Seq(Query) /\ 1 \in DOMAIN r /\ r[1] = q
        /\ \A i \in DOMAIN r :
             i \in DOMAIN a \/ \E k \in DOMAIN b : r[i] = b[k]
    <3>1. /\ r \in Seq(Query)
          /\ \A i \in DOMAIN a : i \in DOMAIN r /\ r[i] = a[i]
      BY <2>j, JoinedFacts
    <3>2. 1 \in DOMAIN a
      BY <2>2
    <3>3. 1 \in DOMAIN r /\ r[1] = q
      BY <2>2, <3>1, <3>2, Zenon
    <3>4. ASSUME NEW i \in DOMAIN r, i \notin DOMAIN a
          PROVE  \E k \in DOMAIN b : r[i] = b[k]
      <4>1. PICK k \in DOMAIN b : i = Len(a) + k
        BY <2>j, <3>4, JoinedFacts
      <4>2. r[Len(a) + k] = b[k]
        BY <2>j, JoinedFacts
      <4> QED
        BY <4>1, <4>2
    <3> QED
      BY <3>1, <3>3, <3>4
  <2>5. Handing(r, c, game[s][c].data, game[s][c].dirty)
    <3>1. \A i \in DOMAIN r : i # 1 => r[i].op \notin Updates
      BY <2>2, <2>3, <2>4 DEF Plain
    <3> QED
      BY <2>1, <2>4, <3>1 DEF Handing
  <2>6. \A o \in Chars : ~game'[s][o].loaded
    <3>1. \A o \in Chars : game[s][o].loaded => o = c
      BY <1>5 DEF ClaimInv
    <3> QED
      BY <1>3, <3>1
  <2> QED
    BY <1>1, <1>5, <2>4, <2>5, <2>6, HandingCurrent
<1> QED
  BY <1>4, <1>5

\* release_depot hands over what the one character that has it has.
LEMMA GiveUpCurrent ==
  ASSUME TypeOK, NEW s \in Servers, CurrentInv(s), ClaimInv(s), NEW c \in Chars,
         NEW more \in Seq(Query), Plain(more), GiveUp(s, c, more),
         depot' = depot, login' = login, newest' = newest
  PROVE  CurrentInv(s)'
<1>0. queue[s] \in Seq(Query)
  BY DEF TypeOK
<1>1. PICK f \in Orders(Losing(s, c)) : Queue(s, Released(s, f) \o more)
  BY DEF GiveUp
<1> DEFINE given == Released(s, f)
           r == given \o more
<1>2. /\ given \in Seq(Query)
      /\ Len(given) = Cardinality(Losing(s, c))
      /\ f \in [1..Cardinality(Losing(s, c)) -> Losing(s, c)]
  BY ReleasedType
<1>3. r \in Seq(Query) /\ queue'[s] = queue[s] \o r
  BY <1>1, <1>2 DEF Queue, TypeOK
<1>4. \A o \in Chars : game'[s][o].loaded => game'[s][o] = game[s][o] /\ o = c
  BY DEF GiveUp, TypeOK, Losing, Absent
<1>5. Joined(r, given, more)
  BY Zenon DEF Joined
<1>6. CASE Losing(s, c) = {}
  <2>1. DOMAIN given = {}
    BY <1>2, <1>6, FS_EmptySet
  <2> HIDE DEF r, given
  <2>2. ASSUME NEW i \in DOMAIN r
        PROVE  r[i].op \notin Updates
    <3>1. PICK k \in DOMAIN more : i = Len(given) + k
      BY <1>2, <1>5, <2>1, <2>2, JoinedFacts
    <3>2. r[Len(given) + k] = more[k]
      BY <1>2, <1>5, JoinedFacts
    <3> QED
      BY <3>1, <3>2 DEF Plain
  <2>3. Plain(r)
    BY <2>2 DEF Plain
  <2> QED
    BY <1>3, <1>4, <2>3, IdleCurrent
<1>7. CASE Losing(s, c) # {}
  <2>1. PICK o \in Losing(s, c) : Losing(s, c) = {o}
    BY <1>7, LosingOne
  <2>2. Cardinality(Losing(s, c)) = 1
    BY <2>1, FS_Singleton
  <2>3. o \in Chars /\ game[s][o].loaded /\ game[s][o] \in Player
    BY <2>1, StateType DEF Losing
  <2>4. f[1] = o
    <3>1. f \in [1..Cardinality(Losing(s, c)) -> Losing(s, c)]
      BY <1>2
    <3>2. f[1] \in Losing(s, c)
      BY <2>2, <3>1
    <3> QED
      BY <2>1, <3>2
  <2>5. PICK q \in Query : /\ SaveDepot(game[s][o], o, "leave") = <<q>>
                           /\ q.c = o
                           /\ \/ q.op = "leave" /\ q.data = game[s][o].data
                              \/ q.op = "free" /\ ~game[s][o].dirty
    BY <2>3, LeavingSaves
  <2>6. given[1] = q /\ DOMAIN given = {1}
    <3>1. DOMAIN given = {1}
      BY <1>2, <2>2
    <3>2. 1 \in DOMAIN f
      BY <1>2, <2>2
    <3>3. given[1] = SaveDepot(game[s][f[1]], f[1], "leave")[1]
      BY <3>2 DEF Released
    <3>4. given[1] = <<q>>[1]
      BY <2>4, <2>5, <3>3, Zenon
    <3> QED
      BY <3>1, <3>4
  <2> HIDE DEF r, given
  <2>7. ASSUME NEW i \in DOMAIN r, i # 1
        PROVE  r[i].op \notin Updates
    <3>1. PICK k \in DOMAIN more : i = Len(given) + k
      BY <1>2, <1>5, <2>6, <2>7, JoinedFacts
    <3>2. r[Len(given) + k] = more[k]
      BY <1>2, <1>5, JoinedFacts
    <3> QED
      BY <3>1, <3>2 DEF Plain
  <2>8. 1 \in DOMAIN r /\ r[1] = q
    BY <1>2, <1>5, <2>6, JoinedFacts
  <2>9. Handing(r, o, game[s][o].data, game[s][o].dirty)
    BY <2>5, <2>7, <2>8 DEF Handing
  <2>10. login'[s] = login[s] /\ \A a \in Chars : ~game'[s][a].loaded
    BY <1>4, <1>7, LosingOne
  <2> QED
    BY <1>3, <2>3, <2>9, <2>10, HandingCurrent
<1> QED
  BY <1>6, <1>7

\* Whatever characters in the game do.
LEMMA GameCurrent ==
  ASSUME TypeOK, NEW s \in Servers, CurrentInv(s), ClaimInv(s), Game(s)
  PROVE  CurrentInv(s)'
<1>0. SUFFICES ASSUME NEW c \in Chars,
                      \/ Change(s, c) \/ Backup(s, c) \/ Leave(s, c)
                      \/ AskDepot(s, c) \/ ReleaseDepot(s, c)
               PROVE  CurrentInv(s)'
  BY DEF Game
<1>1. queue[s] \in Seq(Query)
  BY DEF TypeOK
<1>2. CASE AskDepot(s, c)
  <2> DEFINE r == <<Ask("loaddepot", c, 0)>>
  <2>1. r \in Seq(Query) /\ Plain(r)
    BY <1>1, PlainAsked, PlainQueries
  <2>2. depot' = depot /\ login' = login /\ newest' = newest
    BY <1>2 DEF AskDepot
  <2>3. CASE Queue(s, r) /\ game' = game
    <3>1. queue'[s] = queue[s] \o r
      BY <2>3 DEF Queue, TypeOK
    <3> HIDE DEF r
    <3> QED
      BY <2>1, <2>2, <2>3, <3>1, IdleCurrent
  <2>4. CASE GiveUp(s, c, r)
    <3> HIDE DEF r
    <3> QED
      BY <2>1, <2>2, <2>4, GiveUpCurrent
  <2> QED
    BY <1>2, <2>3, <2>4 DEF AskDepot
<1>3. CASE ReleaseDepot(s, c)
  <2>1. /\ GiveUp(s, c, <<>>) /\ depot' = depot /\ login' = login
        /\ newest' = newest /\ <<>> \in Seq(Query) /\ Plain(<<>>)
    BY <1>1, <1>3, PlainQueries DEF ReleaseDepot
  <2> QED
    BY <2>1, GiveUpCurrent
<1> QED
  BY <1>0, <1>2, <1>3, ChangeCurrent, BackupCurrent, LeaveCurrent

\* Where nobody has the depot all that was shown is saved, and nobody has
\* contents of it.
LEMMA FreeNothing ==
  ASSUME TypeOK, FreeInv, NEW s \in Servers, CurrentInv(s), ClaimInv(s),
         depot.holder = Nobody
  PROVE  /\ depot.data = newest
         /\ NoClaim(s)
         /\ \A i \in DOMAIN queue[s] : queue[s][i].op \notin Updates
<1>1. depot.holder \notin up \X Chars
  BY DepotAssumption DEF TypeOK
<1>2. depot.holder \notin {s} \X Chars
  BY DepotAssumption
<1> QED
  BY <1>1, <1>2, NoClaimUnlessHeld, NoUpdates DEF FreeInv

\* Who loads the free depot has what was shown last.
LEMMA TakenCurrent ==
  ASSUME TypeOK, NEW s \in Servers,
         \A i \in DOMAIN queue[s] : queue[s][i].op \notin Updates,
         queue[s] # <<>>, queue'[s] = Tail(queue[s]),
         newest' = newest, depot'.data = newest,
         \A c \in Chars : game'[s][c].loaded => game'[s][c].data = newest,
         login'[s].loaded => login'[s].data = newest
  PROVE  CurrentInv(s)'
<1>1. \A i \in DOMAIN queue'[s] :
        /\ i + 1 \in DOMAIN queue[s]
        /\ queue'[s][i] = queue[s][i + 1]
  BY DEF TypeOK
<1>2. \A i \in DOMAIN queue'[s] : queue'[s][i].op \notin Updates
  BY <1>1
<1> QED
  BY <1>2, CurrentSuffices

\* load_char gives the login what was saved, or nothing.
LEMMA DbLoadCurrent ==
  ASSUME TypeOK, FreeInv, NEW s \in Servers, CurrentInv(s), ClaimInv(s),
         DbLoad(s)
  PROVE  CurrentInv(s)'
<1>1. /\ queue[s] # <<>> /\ queue'[s] = Tail(queue[s])
      /\ Head(queue[s]).op \notin Updates
      /\ game' = game /\ newest' = newest /\ depot \in Row
      /\ login[s] \in Login /\ login[s].st = "read"
  BY StateType DEF DbLoad, Loading, TopIs, RemoveTopQuery, TypeOK, Updates
<1>2. /\ login'[s].loaded = Available(s)
      /\ login'[s].data = IF Available(s) THEN depot.data ELSE 0
  <2>1. login[s] \in [st: {"read", "newarea", "create", "ok"}, c: Chars,
                      current: BOOLEAN, loaded: BOOLEAN, data: Versions]
    BY <1>1 DEF Login, Idle
  <2> QED
    BY <2>1 DEF DbLoad, SetLogin, TypeOK
<1>3. CASE ~Available(s)
  <2>1. depot' = depot /\ ~login'[s].loaded
    BY <1>2, <1>3 DEF DbLoad
  <2> QED
    BY <1>1, <2>1, PopCurrent
<1>4. CASE Available(s)
  <2>1. /\ depot.data = newest /\ NoClaim(s)
        /\ \A i \in DOMAIN queue[s] : queue[s][i].op \notin Updates
    BY <1>4, FreeNothing DEF Available
  <2>2. depot'.data = newest
    <3>1. depot' = [depot EXCEPT !.holder = <<s, login[s].c>>]
      BY <1>4 DEF DbLoad
    <3> QED
      BY <1>1, <2>1, <3>1 DEF Row
  <2>3. /\ \A c \in Chars : game'[s][c].loaded => game'[s][c].data = newest
        /\ login'[s].loaded => login'[s].data = newest
    BY <1>1, <1>2, <1>4, <2>1 DEF NoClaim
  <2> QED
    BY <1>1, <2>1, <2>2, <2>3, TakenCurrent
<1> QED
  BY <1>3, <1>4

\* So does db_load_depot_for_char with a character in the game.
LEMMA DbLoadDepotCurrent ==
  ASSUME TypeOK, FreeInv, NEW s \in Servers, CurrentInv(s), ClaimInv(s),
         DbLoadDepot(s)
  PROVE  CurrentInv(s)'
<1> DEFINE c == Head(queue[s]).c
           got == game[s][c].on /\ ~game[s][c].loaded /\ Available(s)
<1>1. /\ queue[s] # <<>> /\ queue'[s] = Tail(queue[s])
      /\ Head(queue[s]).op \notin Updates
      /\ login' = login /\ newest' = newest /\ depot \in Row
      /\ queue[s] \in Seq(Query)
  BY DEF DbLoadDepot, TopIs, RemoveTopQuery, TypeOK, Updates
<1>2. c \in Chars
  BY <1>1, TopType
<1>3. CASE ~got
  <2>1. depot' = depot /\ game' = game
    BY <1>3 DEF DbLoadDepot
  <2> QED
    BY <1>1, <2>1, PopCurrent
<1>4. CASE got
  <2>1. /\ depot' = [depot EXCEPT !.holder = <<s, c>>]
        /\ SetGame(s, c, [on |-> TRUE, loaded |-> TRUE, dirty |-> FALSE,
                          data |-> depot.data])
    BY <1>4 DEF DbLoadDepot
  <2>2. /\ depot.data = newest /\ NoClaim(s)
        /\ \A i \in DOMAIN queue[s] : queue[s][i].op \notin Updates
    BY <1>4, FreeNothing DEF Available
  <2>3. depot'.data = newest
    BY <1>1, <2>1, <2>2 DEF Row
  <2> HIDE DEF c
  <2>4. \A o \in Chars : game'[s][o].loaded => game'[s][o].data = newest
    BY <1>2, <2>1, <2>2 DEF NoClaim, SetGame, TypeOK
  <2>5. ~login'[s].loaded
    BY <1>1, <2>2 DEF NoClaim
  <2> QED
    BY <1>1, <2>2, <2>3, <2>4, <2>5, TakenCurrent
<1> QED
  BY <1>3, <1>4

\* db_rescue_char spares a living server's depot, or it is recorded.
LEMMA DbRescueCurrent ==
  ASSUME TypeOK, NEW s \in Servers, CurrentInv(s), ClaimInv(s),
         DbRescue(s), ~rescued', FreeInv
  PROVE  CurrentInv(s)'
<1>1. /\ queue[s] # <<>> /\ queue'[s] = Tail(queue[s]) /\ s \in up
      /\ Head(queue[s]).op \notin Updates /\ depot \in Row
      /\ game' = game /\ login' = login /\ newest' = newest
  BY DEF DbRescue, TopIs, RemoveTopQuery, TypeOK, Updates
<1>2. CASE depot' = depot
  BY <1>1, <1>2, PopCurrent
<1>3. CASE depot' = Free /\ depot.holder \notin up \X Chars
  <2>1. depot.holder \notin {s} \X Chars
    BY <1>1, <1>3
  <2>2. NoClaim(s) /\ \A i \in DOMAIN queue[s] : queue[s][i].op \notin Updates
    BY <2>1, NoClaimUnlessHeld, NoUpdates
  <2>3. depot'.data = newest
    BY <1>1, <1>3 DEF FreeInv, Free, Row
  <2>4. /\ \A c \in Chars : game'[s][c].loaded => game'[s][c].data = newest
        /\ login'[s].loaded => login'[s].data = newest
    BY <1>1, <2>2 DEF NoClaim
  <2> QED
    BY <1>1, <2>2, <2>3, <2>4, TakenCurrent
<1> QED
  BY <1>2, <1>3 DEF DbRescue

\* Whatever the database thread does.
LEMMA DbStepCurrent ==
  ASSUME TypeOK, FreeInv, NEW s \in Servers, CurrentInv(s), ClaimInv(s),
         DbStep(s), ~rescued'
  PROVE  CurrentInv(s)'
<1>1. ASSUME DbExit(s) \/ DbLoadRefused(s)
      PROVE  CurrentInv(s)'
  <2>1. /\ queue[s] # <<>> /\ queue'[s] = Tail(queue[s])
        /\ Head(queue[s]).op \notin Updates
        /\ depot' = depot /\ game' = game /\ newest' = newest
    BY <1>1 DEF DbExit, DbLoadRefused, Loading, TopIs, RemoveTopQuery, TypeOK,
                Updates
  <2>2. login'[s].loaded => login[s].loaded /\ login'[s].data = login[s].data
    <3>1. CASE DbExit(s)
      BY <3>1 DEF DbExit
    <3>2. CASE DbLoadRefused(s)
      <4>1. login[s] \in [st: {"read", "newarea", "create", "ok"}, c: Chars,
                          current: BOOLEAN, loaded: BOOLEAN, data: Versions]
        BY <3>2, StateType DEF DbLoadRefused, Loading, Login, Idle
      <4>2. CASE SetLogin(s, Idle)
        BY <4>2 DEF SetLogin, Idle, TypeOK
      <4>3. CASE SetLogin(s, [login[s] EXCEPT !.st = "newarea"])
        BY <4>1, <4>3 DEF SetLogin, TypeOK
      <4> QED
        BY <3>2, <4>2, <4>3 DEF DbLoadRefused
    <3> QED
      BY <1>1, <3>1, <3>2
  <2> QED
    BY <2>1, <2>2, PopCurrent
<1> QED
  BY <1>1, UpdateCurrent, DbLoadCurrent, DbLoadDepotCurrent, DbRescueCurrent
     DEF DbStep

\* A server that crashes or restarts has nothing.
LEMMA ServerCurrent ==
  ASSUME TypeOK, NEW s \in Servers, DownInv(s), Crash(s) \/ Restart(s)
  PROVE  CurrentInv(s)'
<1>1. /\ queue'[s] = <<>> /\ login'[s] = Idle
      /\ game'[s] = [c \in Chars |-> Absent]
  BY DEF Crash, Restart, SetLogin, DownInv, TypeOK
<1>2. /\ \A i \in DOMAIN queue'[s] : queue'[s][i].op \notin Updates
      /\ \A c \in Chars : ~game'[s][c].loaded
      /\ ~login'[s].loaded
  BY <1>1 DEF Idle, Absent
<1> QED
  BY <1>2, CurrentSuffices

(***************************************************************************)
(* The contents: what a step does to those of other servers.               *)
(***************************************************************************)

\* While a server that runs has the depot, no other changes the row or shows
\* contents.
LEMMA HeldElsewhere ==
  ASSUME TypeOK, NEW s \in Servers, Step(s), ClaimInv(s), ~rescued',
         NEW t \in Servers, t # s, t \in up, depot.holder \in {t} \X Chars
  PROVE  depot' = depot /\ newest' = newest
<1>0. depot.holder \notin {s} \X Chars /\ depot.holder # Nobody
  BY DepotAssumption
<1>1. CASE FindLogin(s)
  BY <1>1 DEF FindLogin, FindLoginStart, FindLoginStale, FindLoginOk,
              FindLoginNewarea
<1>2. CASE TickLogin(s)
  BY <1>2 DEF TickLogin, TickLoginUsurp, TickLoginCreate, TickLoginFails
<1>3. CASE Game(s)
  BY <1>0, <1>3
     DEF Game, Change, Backup, Leave, AskDepot, ReleaseDepot, ClaimInv
<1>4. CASE Crash(s) \/ Restart(s)
  BY <1>0, <1>4 DEF Crash, Restart
<1>5. CASE DbUpdate(s)
  BY <1>5 DEF DbUpdate, Updated
<1>6. CASE DbLoad(s) \/ DbLoadDepot(s)
  BY <1>0, <1>6 DEF DbLoad, DbLoadDepot, Available
<1>7. CASE DbRescue(s)
  BY <1>7 DEF DbRescue
<1>8. CASE DbExit(s) \/ DbLoadRefused(s)
  BY <1>8 DEF DbExit, DbLoadRefused
<1> QED
  BY <1>1, <1>2, <1>3, <1>4, <1>5, <1>6, <1>7, <1>8 DEF Step, DbStep

\* So a step of one server leaves the contents another has current.
LEMMA OtherCurrent ==
  ASSUME TypeOK, NEW s \in Servers, Step(s), ClaimInv(s), ~rescued',
         NEW t \in Servers, t # s, DownInv(t), ClaimInv(t), CurrentInv(t)
  PROVE  CurrentInv(t)'
<1>1. queue'[t] = queue[t] /\ login'[t] = login[t] /\ game'[t] = game[t]
  BY Untouched
<1>2. CASE t \in up /\ depot.holder \in {t} \X Chars
  <2>1. depot' = depot /\ newest' = newest
    BY <1>2, HeldElsewhere
  <2> QED
    BY <1>1, <2>1 DEF CurrentInv
<1>3. CASE ~(t \in up /\ depot.holder \in {t} \X Chars)
  <2>1. NoClaim(t)
    BY <1>3, NoClaimUnlessHeld, DownNoClaim
  <2>2. \A i \in DOMAIN queue[t] : queue[t][i].op \notin Updates
    <3>1. CASE t \in up
      BY <1>3, <3>1, NoUpdates
    <3>2. CASE t \notin up
      BY <3>2 DEF DownInv
    <3> QED
      BY <3>1, <3>2
  <2> QED
    BY <1>1, <2>1, <2>2, CurrentSuffices DEF NoClaim
<1> QED
  BY <1>2, <1>3

\* Whoever had the depot has saved all before the row is free, or is dead.
LEMMA FreeStep ==
  ASSUME TypeOK, FreeInv, NEW s \in Servers, Step(s), ~rescued',
         ClaimInv(s), CurrentInv(s)
  PROVE  FreeInv'
<1>1. CASE depot' = depot /\ newest' = newest /\ up' = up
  BY <1>1 DEF FreeInv
<1>2. ASSUME NEW c \in Chars, Change(s, c)
      PROVE  FreeInv'
  <2>1. s \in up /\ up' = up /\ depot' = depot /\ depot.holder = <<s, c>>
    BY <1>2 DEF Change, Playing, ClaimInv
  <2> QED
    BY <2>1 DEF FreeInv
<1>3. CASE DbUpdate(s)
  <2>1. /\ depot.holder \in {s} \X Chars /\ s \in up
        /\ depot'.holder \in {depot.holder, Nobody}
        /\ depot'.holder = Nobody => depot'.data = newest
        /\ newest' = newest /\ up' = up
    BY <1>3, UpdateCurrent DEF DbUpdate, TopIs
  <2> QED
    BY <2>1 DEF FreeInv
<1>4. CASE DbLoad(s)
  <2>1. s \in up /\ login[s].c \in Chars /\ newest' = newest /\ up' = up
    BY <1>4, StateType DEF DbLoad, Loading, TopIs
  <2>2. CASE depot' = [depot EXCEPT !.holder = <<s, login[s].c>>]
    BY <2>1, <2>2 DEF FreeInv, TypeOK, Row
  <2> QED
    BY <1>1, <1>4, <2>1, <2>2 DEF DbLoad
<1>5. CASE DbLoadDepot(s)
  <2>1. s \in up /\ Head(queue[s]).c \in Chars /\ newest' = newest /\ up' = up
    BY <1>5, TopType DEF DbLoadDepot, TopIs, TypeOK
  <2>2. CASE depot' = [depot EXCEPT !.holder = <<s, Head(queue[s]).c>>]
    BY <2>1, <2>2 DEF FreeInv, TypeOK, Row
  <2> QED
    BY <1>1, <1>5, <2>1, <2>2 DEF DbLoadDepot
<1>6. CASE DbRescue(s)
  <2>1. CASE depot' = Free /\ depot.holder \notin up \X Chars
    BY <1>6, <2>1 DEF DbRescue, Free, FreeInv, TypeOK, Row
  <2> QED
    BY <1>1, <1>6, <2>1 DEF DbRescue
<1>7. CASE Crash(s)
  BY <1>7 DEF Crash, FreeInv
<1>8. CASE Restart(s)
  <2>1. s \notin up /\ up' = up \cup {s} /\ newest' = newest
    BY <1>8 DEF Restart
  <2>2. CASE depot.holder \in {s} \X Chars
    <3>1. depot.data = newest
      BY <2>1, <2>2 DEF FreeInv
    <3>2. depot'.data = depot.data
      BY <1>8, <2>2 DEF Restart, Free, TypeOK, Row
    <3> QED
      BY <2>1, <3>1, <3>2 DEF FreeInv
  <2>3. CASE depot.holder \notin {s} \X Chars
    BY <1>8, <2>1, <2>3 DEF Restart, FreeInv
  <2> QED
    BY <2>2, <2>3
<1>9. CASE FindLogin(s) \/ TickLogin(s)
  <2>1. depot' = depot /\ newest' = newest /\ up' = up
    BY <1>9 DEF FindLogin, FindLoginStart, FindLoginStale, FindLoginOk,
                FindLoginNewarea, TickLogin, TickLoginUsurp, TickLoginCreate,
                TickLoginFails
  <2> QED
    BY <1>1, <2>1
<1>10. CASE DbExit(s) \/ DbLoadRefused(s)
  BY <1>1, <1>10 DEF DbExit, DbLoadRefused
<1>11. CASE Game(s)
  BY <1>1, <1>2, <1>11 DEF Game, Backup, Leave, AskDepot, ReleaseDepot
<1> QED
  BY <1>3, <1>4, <1>5, <1>6, <1>7, <1>8, <1>9, <1>10, <1>11 DEF Step, DbStep

\* Nothing was shown at first.
LEMMA CopyInit == Init => CopyInv
<1> SUFFICES ASSUME Init PROVE CopyInv
  OBVIOUS
<1>1. DepotInv
  BY DepotInit
<1>2. FreeInv
  BY DEF Init, FreeInv
<1>3. ASSUME NEW s \in Servers
      PROVE  CurrentInv(s)
  BY DEF Init, CurrentInv, Gives, Idle, Absent
<1> QED
  BY <1>1, <1>2, <1>3 DEF CopyInv

\* CopyInv is inductive.
LEMMA CopyStep == CopyInv /\ [Next]_vars => CopyInv'
<1> SUFFICES ASSUME CopyInv, [Next]_vars PROVE CopyInv'
  OBVIOUS
<1>1. DepotInv /\ DepotInv' /\ TypeOK
  BY DepotStep DEF CopyInv, DepotInv
<1>2. CASE UNCHANGED vars
  BY <1>1, <1>2 DEF vars, CopyInv, FreeInv, CurrentInv
<1>3. CASE Next
  <2>1. PICK s \in Servers : Step(s)
    BY <1>3 DEF Next, Step
  <2> SUFFICES ASSUME ~rescued'
               PROVE  FreeInv' /\ \A t \in Servers : CurrentInv(t)'
    BY <1>1 DEF CopyInv
  <2>2. /\ FreeInv
        /\ \A t \in Servers : DownInv(t) /\ ClaimInv(t) /\ CurrentInv(t)
    BY <2>1, RescuedStays DEF CopyInv, DepotInv
  <2>3. FreeInv'
    BY <1>1, <2>1, <2>2, FreeStep
  <2>4. CurrentInv(s)'
    BY <1>1, <2>1, <2>2, FindLoginCurrent, TickLoginCurrent, GameCurrent,
       DbStepCurrent, ServerCurrent DEF Step
  <2>5. ASSUME NEW t \in Servers, t # s
        PROVE  CurrentInv(t)'
    BY <1>1, <2>1, <2>2, <2>5, OtherCurrent
  <2> QED
    BY <2>3, <2>4, <2>5
<1> QED
  BY <1>2, <1>3

\* Until db_rescue_char takes the depot from a living server: the row, the
\* updates queued for it and what the servers have loaded agree about who
\* has the depot and about what was shown last.
THEOREM CopyInvariance == Spec => []CopyInv
BY CopyInit, CopyStep, PTL DEF Spec

\* Until db_rescue_char takes the depot from a living server, whoever has it
\* loaded has what was shown last, and so has the row when it is free: no
\* order of backups, hand-overs, stale logins and crashes brings an old copy
\* of the depot back.
THEOREM CurrentAlways == Spec => []CurrentUnlessRescued
<1>1. CopyInv => CurrentUnlessRescued
  <2> SUFFICES ASSUME CopyInv, ~rescued PROVE LoadedIsCurrent
    BY DEF CurrentUnlessRescued
  <2>1. depot.holder = Nobody => depot.holder \notin up \X Chars
    BY DepotAssumption DEF CopyInv, DepotInv, TypeOK
  <2> QED
    BY <2>1 DEF CopyInv, FreeInv, CurrentInv, LoadedIsCurrent
<1> QED
  BY CopyInvariance, <1>1, PTL
=============================================================================
