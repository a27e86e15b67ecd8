------------------------- MODULE AreaServersProofs -------------------------
(***************************************************************************)
(* A character is in one game only.  The invariant of AreaServersInductive *)
(* is kept by every step.  The facts about a server mention its own state  *)
(* and the rows, so a step of server s is dealt with in two parts: for s,  *)
(* by what it does to the queue (QuietStep, EnqueueStep, DequeueStep,      *)
(* StartReadStep or by itself), and for the others, by showing that it     *)
(* leaves the rows they have a claim on alone (OtherServer, LocalStep).    *)
(***************************************************************************)
EXTENDS AreaServersInductive, TLAPS

-----------------------------------------------------------------------------
(* Types, a group of actions at a time.                                    *)

\* A server is a pair of an area and a mirror, and not None.
LEMMA ServerType ==
  ASSUME NEW s \in Servers
  PROVE  Area(s) \in Areas /\ Mirror(s) \in Mirrors /\ s # None
BY ServersAssumption DEF Area, Mirror

\* Where there is a server there is a mirror, so Blank is data of a character.
LEMMA BlankType ==
  ASSUME Servers # {}
  PROVE  Blank \in Data
<1>1. Mirrors # {}
  BY ServersAssumption
<1>2. (CHOOSE m \in Mirrors : TRUE) \in Mirrors
  BY <1>1
<1>3. 0 \in Versions
  BY BoundsAssumption DEF Versions
<1> QED
  BY <1>2, <1>3 DEF Blank, Data

\* A free entry of ch[] is one of a player's character.
LEMMA AbsentType ==
  ASSUME Servers # {}
  PROVE  Absent \in Player
BY BlankType DEF Absent, Player

\* A login structure that find_login has cleared is a login.
LEMMA IdleType ==
  ASSUME Servers # {}, NEW c \in Chars
  PROVE  Idle(c) \in Login
BY BlankType DEF Idle, Login

\* get_mirror answers with a server or none.
LEMMA GetMirrorType ==
  ASSUME TypeOK, NEW s \in Servers, NEW a, NEW m
  PROVE  GetMirror(s, a, m) \in Servers \cup {None}
<1>1. known[s] \subseteq Servers
  BY DEF TypeOK
<1> QED
  BY <1>1, Zenon DEF GetMirror

\* add_query queues queries only.
LEMMA AskType ==
  ASSUME NEW op \in Ops, NEW c \in Chars, NEW data \in Data, NEW area \in Areas
  PROVE  Ask(op, c, data, area) \in Query
BY DEF Ask, Query

\* Hanging up leaves every client in a state it can be in.
LEMMA HangType ==
  ASSUME TypeOK, NEW ks
  PROVE  Hang(ks) \in [Clients -> Link]
BY DEF Hang, Offline, TypeOK, Link

\* So does sending a client to another server.
LEMMA GoToType ==
  ASSUME NEW t \in Servers
  PROVE  GoTo(t) \in Link
BY DEF GoTo, Offline, Link

\* The initial states are of the declared types.
LEMMA TypeInit == Init => TypeOK
<1> SUFFICES ASSUME Init PROVE TypeOK
  OBVIOUS
<1>1. row \in [Chars -> Row]
  <2>1. {0} \subseteq Versions
    BY BoundsAssumption DEF Versions
  <2>2. {Area(s) : s \in Servers} \subseteq Areas
    BY ServerType
  <2> QED
    BY <2>1, <2>2 DEF Init, Row, Data
<1>2. queue \in [Servers -> Seq(Query)]
  BY DEF Init
<1>3. login \in [Servers -> Login]
  <2>1. (CHOOSE c \in Chars : TRUE) \in Chars
    BY PeopleAssumption
  <2> QED
    BY <2>1, IdleType DEF Init
<1>4. live \in [Servers -> [Chars -> Player]]
  BY AbsentType DEF Init
<1>5. /\ up \in [Servers -> {"up", "stopping", "down"}]
      /\ fresh \subseteq Servers
      /\ known \in [Servers -> SUBSET Servers]
  BY DEF Init
<1>6. client \in [Clients -> Link]
  BY DEF Init, Offline, Link
<1>7. /\ seen \in [Chars -> Versions] /\ faults \in 0..MaxFaults
      /\ struck \in Struck
  BY BoundsAssumption DEF Init, Versions, Struck
<1> QED
  BY <1>1, <1>2, <1>3, <1>4, <1>5, <1>6, <1>7 DEF TypeOK, Link

\* A login with a result is a login.
LEMMA ResultType ==
  ASSUME TypeOK, NEW s \in Servers, NEW st \in Results,
         NEW to \in Servers \cup {None}
  PROVE  Result(s, st, to) \in Login
<1>1. login[s] \in Login
  BY DEF TypeOK
<1> QED
  BY <1>1 DEF Result, Login

\* Setting the login of one server keeps the types of all.
LEMMA SetLoginType ==
  ASSUME TypeOK, NEW s \in Servers, NEW l \in Login, SetLogin(s, l)
  PROVE  login' \in [Servers -> Login]
BY DEF SetLogin, TypeOK

\* add_query keeps the types of the queues.
LEMMA AddQueryType ==
  ASSUME TypeOK, NEW s \in Servers, NEW q \in Query, AddQuery(s, q)
  PROVE  queue' \in [Servers -> Seq(Query)]
BY DEF AddQuery, TypeOK

\* remove_top_query keeps the types of the queues.
LEMMA RemoveType ==
  ASSUME TypeOK, NEW s \in Servers, queue[s] # <<>>, RemoveTopQuery(s)
  PROVE  queue' \in [Servers -> Seq(Query)]
BY DEF RemoveTopQuery, TypeOK

\* A new request keeps the types of queues and logins.
LEMMA StartReadType ==
  ASSUME NEW s \in Servers, NEW c \in Chars, NEW q \in Seq(Query), TypeOK,
         StartRead(s, c, q)
  PROVE  /\ queue' \in [Servers -> Seq(Query)]
         /\ login' \in [Servers -> Login]
<1>1. Ask("load", c, Blank, Area(s)) \in Query
  BY AskType, BlankType, ServerType DEF Ops
<1>2. [Idle(c) EXCEPT !.st = "read"] \in Login
  BY IdleType DEF Login
<1> QED
  BY <1>1, <1>2, SetLoginType DEF StartRead, TypeOK

\* kick_char keeps the types of queues and ch[].
LEMMA KickCharType ==
  ASSUME TypeOK, NEW s \in Servers, NEW c \in Chars, NEW data \in Data,
         NEW area \in Areas, KickChar(s, c, data, area)
  PROVE  /\ queue' \in [Servers -> Seq(Query)]
         /\ live' \in [Servers -> [Chars -> Player]]
<1>1. Ask("exit", c, data, area) \in Query
  BY AskType DEF Ops, Writes
<1>2. queue' \in [Servers -> Seq(Query)]
  BY <1>1, AddQueryType DEF KickChar
<1>3. live' \in [Servers -> [Chars -> Player]]
  BY AbsentType DEF KickChar, TypeOK
<1> QED
  BY <1>2, <1>3

\* Collecting a result keeps the types of the logins.
LEMMA CollectsType ==
  ASSUME TypeOK, NEW k \in Clients, NEW s \in Servers, NEW st, Collects(k, s, st)
  PROVE  login' \in [Servers -> Login]
<1>1. login[s].c \in Chars
  BY DEF TypeOK, Login
<1>2. Idle(login[s].c) \in Login
  BY <1>1, IdleType
<1> QED
  BY <1>2, SetLoginType DEF Collects

\* No step exceeds the bound on faults.
LEMMA FaultType ==
  ASSUME TypeOK, Fault
  PROVE  faults' \in 0..MaxFaults
BY BoundsAssumption DEF Fault, TypeOK

\* What is remembered of a character keeps the type of struck.
LEMMA StruckType ==
  ASSUME TypeOK, NEW c \in Chars
  PROVE  /\ [struck EXCEPT !.taken = @ \cup {c}] \in Struck
         /\ [struck EXCEPT !.stuck = @ \cup {c}] \in Struck
         /\ [struck EXCEPT !.halved = @ \cup {c}] \in Struck
BY DEF TypeOK, Struck

\* save_char and release_char keep the types of the rows.
LEMMA WrittenType ==
  ASSUME TypeOK, NEW s \in Servers, NEW q \in Query, q.op \in Writes
  PROVE  Written(s, q) \in [Chars -> Row]
<1> DEFINE r == row[q.c]
<1>1. /\ q.c \in Chars /\ q.data \in Data /\ q.area \in Areas
      /\ r \in Row
  BY DEF Query, TypeOK
<1>2. CASE r.cur # s
  BY <1>2 DEF Written, TypeOK
<1>3. CASE r.cur = s
  <2>1. CASE q.op = "save"
    <3>1. [r EXCEPT !.data = q.data] \in Row
      BY <1>1 DEF Row
    <3>2. Written(s, q) = [row EXCEPT ![q.c] = [r EXCEPT !.data = q.data]]
      BY <1>3, <2>1 DEF Written
    <3> QED
      BY <1>1, <3>1, <3>2 DEF TypeOK
  <2>2. CASE q.op = "exit"
    <3>1. [cur |-> None, allowed |-> q.area, data |-> q.data] \in Row
      BY <1>1 DEF Row
    <3>2. Written(s, q) = [row EXCEPT ![q.c] =
            [cur |-> None, allowed |-> q.area, data |-> q.data]]
      BY <1>3, <2>2 DEF Written
    <3> QED
      BY <1>1, <3>1, <3>2 DEF TypeOK
  <2>3. CASE q.op = "release"
    <3>1. [r EXCEPT !.cur = None] \in Row
      BY <1>1 DEF Row
    <3>2. Written(s, q) = [row EXCEPT ![q.c] = [r EXCEPT !.cur = None]]
      BY <1>3, <2>3 DEF Written
    <3> QED
      BY <1>1, <3>1, <3>2 DEF TypeOK
  <2> QED
    BY <2>1, <2>2, <2>3 DEF Writes
<1> QED
  BY <1>2, <1>3

\* The steps of the clients keep the types.
LEMMA ClientStepType ==
  ASSUME TypeOK, ClientStep
  PROVE  TypeOK'
<1>1. ASSUME NEW k \in Clients, NEW s \in Servers, Connect(k, s)
      PROVE  TypeOK'
  BY <1>1 DEF Connect, TypeOK, Link
<1>2. ASSUME NEW k \in Clients, Abandon(k)
      PROVE  TypeOK'
  <2>1. client' \in [Clients -> Link]
    BY <1>2, HangType DEF Abandon
  <2>2. faults' \in 0..MaxFaults
    BY <1>2, FaultType DEF Abandon
  <2> QED
    BY <1>2, <2>1, <2>2 DEF Abandon, TypeOK, Link
<1>3. ASSUME NEW k \in Clients, KickPlayer(k)
      PROVE  TypeOK'
  <2>1. client[k].at \in Servers \cup {None} /\ Who[k] \in Chars
    BY PeopleAssumption DEF TypeOK, Link
  <2>2. live' \in [Servers -> [Chars -> Player]]
    <3> DEFINE s == client[k].at
               c == Who[k]
    <3>1. CASE s = None
      <4>1. live' = live
        BY <1>3, <3>1, ServersAssumption DEF KickPlayer, TypeOK
      <4> QED
        BY <4>1 DEF TypeOK
    <3>2. CASE s \in Servers
      <4>1. live[s][c] \in Player
        BY <2>1, <3>2 DEF TypeOK
      <4>2. [live[s][c] EXCEPT !.plr = None, !.lost = TRUE] \in Player
        BY <4>1 DEF Player
      <4> QED
        BY <1>3, <2>1, <3>2, <4>2 DEF KickPlayer, TypeOK
    <3> QED
      BY <2>1, <3>1, <3>2
  <2> QED
    BY <1>3, <2>2, HangType DEF KickPlayer, TypeOK, Link
<1> QED
  BY <1>1, <1>2, <1>3 DEF ClientStep

\* Changing one character in ch[] keeps the type of ch[].
LEMMA LiveType ==
  ASSUME TypeOK, NEW s \in Servers, NEW c \in Chars, NEW p \in Player
  PROVE  /\ [live EXCEPT ![s][c] = p] \in [Servers -> [Chars -> Player]]
         /\ live[s][c] \in Player
BY DEF TypeOK

\* The parts of a login.
LEMMA LoginFields ==
  ASSUME TypeOK, NEW s \in Servers
  PROVE  /\ login[s] \in Login
         /\ login[s].c \in Chars
         /\ login[s].data \in Data
         /\ login[s].to \in Servers \cup {None}
BY DEF TypeOK, Login

\* find_login keeps the types.
LEMMA FindLoginType ==
  ASSUME TypeOK, NEW k \in Clients, NEW s \in Servers, FindLogin(k, s)
  PROVE  TypeOK'
<1> DEFINE c == Who[k]
<1>c. c \in Chars
  BY PeopleAssumption
<1>1. CASE FindLoginStart(k, s)
  <2>1. queue[s] \in Seq(Query)
    BY DEF TypeOK
  <2>2. /\ queue' \in [Servers -> Seq(Query)]
        /\ login' \in [Servers -> Login]
    BY <1>1, <1>c, <2>1, StartReadType DEF FindLoginStart
  <2> QED
    BY <1>1, <2>2 DEF FindLoginStart, TypeOK
<1>2. CASE FindLoginStale(k, s)
  <2> DEFINE d == login[s].c
             made == login[s].st = "ok" /\ ~login[s].usurp
             q == IF made THEN Append(queue[s], Ask("release", d, Blank, Area(s)))
                          ELSE queue[s]
  <2>1. q \in Seq(Query)
    <3>1. Ask("release", d, Blank, Area(s)) \in Query
      BY AskType, BlankType, ServerType, LoginFields DEF Ops, Writes
    <3> QED
      BY <3>1 DEF TypeOK
  <2>2. StartRead(s, c, q)
    BY <1>2 DEF FindLoginStale
  <2>3. /\ queue' \in [Servers -> Seq(Query)]
        /\ login' \in [Servers -> Login]
    BY <1>c, <2>1, <2>2, StartReadType
  <2>4. live' \in [Servers -> [Chars -> Player]]
    <3>1. [live[s][d] EXCEPT !.lost = TRUE] \in Player
      BY LoginFields, LiveType, AbsentType DEF Player
    <3>2. [live EXCEPT ![s][d] = [live[s][d] EXCEPT !.lost = TRUE]]
            \in [Servers -> [Chars -> Player]]
      BY <3>1, LoginFields, LiveType
    <3>3. [live EXCEPT ![s][d] = Absent] \in [Servers -> [Chars -> Player]]
      BY AbsentType, LoginFields, LiveType
    <3>4. \/ live' = [live EXCEPT ![s][d] = Absent]
          \/ live' = [live EXCEPT ![s][d].lost = TRUE]
          \/ live' = live
      BY <1>2 DEF FindLoginStale
    <3> QED
      BY <3>2, <3>3, <3>4 DEF TypeOK
  <2> QED
    BY <1>2, <2>3, <2>4 DEF FindLoginStale, TypeOK
<1>3. CASE FindLoginFailed(k, s)
  BY <1>3, CollectsType, HangType DEF FindLoginFailed, TypeOK
<1>4. CASE FindLoginNewarea(k, s)
  <2> DEFINE to == login[s].to
             t  == IF to = None THEN None
                                ELSE GetMirror(s, Area(to), Mirror(to))
  <2>1. t \in Servers \cup {None}
    BY GetMirrorType
  <2>2. client' \in [Clients -> Link]
    <3>1. CASE t # None /\ client' = [client EXCEPT ![k] = GoTo(t)]
      BY <2>1, <3>1, GoToType DEF TypeOK
    <3>2. CASE client' = Hang({k})
      BY <3>2, HangType
    <3> QED
      BY <1>4, <3>1, <3>2 DEF FindLoginNewarea
  <2>3. queue' \in [Servers -> Seq(Query)]
    <3>1. Ask("rescue", c, Blank, Area(s)) \in Query
      BY <1>c, AskType, BlankType, ServerType DEF Ops
    <3>2. queue' = queue \/ AddQuery(s, Ask("rescue", c, Blank, Area(s)))
      BY <1>4 DEF FindLoginNewarea
    <3> QED
      BY <3>1, <3>2, AddQueryType DEF TypeOK
  <2> QED
    BY <1>4, <2>2, <2>3, CollectsType DEF FindLoginNewarea, TypeOK
<1>5. CASE FindLoginGone(k, s)
  BY <1>5, CollectsType DEF FindLoginGone, TypeOK
<1>6. CASE FindLoginOk(k, s)
  <2> DEFINE ply == live[s][c]
  <2>1. ply \in Player
    BY <1>c, LiveType, AbsentType
  <2>2. live' \in [Servers -> [Chars -> Player]]
    <3>1. [ply EXCEPT !.plr = k, !.lost = FALSE] \in Player
      BY <2>1 DEF Player
    <3>2. live' = [live EXCEPT ![s][c] = [ply EXCEPT !.plr = k, !.lost = FALSE]]
      BY <1>6 DEF FindLoginOk
    <3> QED
      BY <1>c, <3>1, <3>2, LiveType
  <2>3. client' \in [Clients -> Link]
    <3>1. Hang({ply.plr}) \in [Clients -> Link]
      BY HangType
    <3>2. [st |-> "play", at |-> s] \in Link
      BY DEF Link
    <3> QED
      BY <1>6, <3>1, <3>2 DEF FindLoginOk
  <2>4. seen' \in [Chars -> Versions]
    BY <1>6, <2>1 DEF FindLoginOk, TypeOK, Player, Data
  <2> QED
    BY <1>6, <2>2, <2>3, <2>4, CollectsType DEF FindLoginOk, TypeOK
<1>7. ASSUME NEW area \in Areas, FindLoginZoneTime(k, s, area)
      PROVE  TypeOK'
  <2>1. live[s][c].data \in Data
    BY <1>c, LiveType, AbsentType DEF Player
  <2>2. /\ queue' \in [Servers -> Seq(Query)]
        /\ live' \in [Servers -> [Chars -> Player]]
    BY <1>7, <1>c, <2>1, KickCharType DEF FindLoginZoneTime
  <2> QED
    BY <1>7, <2>2, HangType, CollectsType DEF FindLoginZoneTime, TypeOK
<1> QED
  BY <1>1, <1>2, <1>3, <1>4, <1>5, <1>6, <1>7 DEF FindLogin

\* A result that gets stale keeps the types.
LEMMA LoginAgesType ==
  ASSUME TypeOK, NEW s \in Servers, LoginAges(s)
  PROVE  TypeOK'
<1>1. [login[s] EXCEPT !.stale = TRUE] \in Login
  BY LoginFields DEF Login
<1> QED
  BY <1>1, SetLoginType DEF LoginAges, TypeOK

\* tick_login keeps the types.
LEMMA TickLoginType ==
  ASSUME TypeOK, NEW s \in Servers, TickLogin(s)
  PROVE  TypeOK'
<1> DEFINE c == login[s].c
<1>c. c \in Chars
  BY LoginFields
<1>f. /\ Result(s, "failed", None) \in Login
      /\ Result(s, "ok", None) \in Login
      /\ [Result(s, "ok", None) EXCEPT !.usurp = TRUE] \in Login
  <2>1. Result(s, "ok", None) \in Login /\ Result(s, "failed", None) \in Login
    BY ResultType DEF Results
  <2> QED
    BY <2>1 DEF Login
<1>1. CASE TickLoginUsurp(s)
  <2> DEFINE ply == live[s][c]
  <2>1. live' \in [Servers -> [Chars -> Player]]
    <3>1. [ply EXCEPT !.plr = None, !.lost = FALSE] \in Player
      BY <1>c, LiveType, AbsentType DEF Player
    <3>2. [live EXCEPT ![s][c] = [ply EXCEPT !.plr = None, !.lost = FALSE]]
            \in [Servers -> [Chars -> Player]]
      BY <1>c, <3>1, LiveType
    <3>3. \/ live' = [live EXCEPT ![s][c] = [ply EXCEPT !.plr = None,
                                                        !.lost = FALSE]]
          \/ live' = live
      BY <1>1 DEF TickLoginUsurp
    <3> QED
      BY <3>2, <3>3 DEF TypeOK
  <2>2. client' \in [Clients -> Link]
    BY <1>1, HangType DEF TickLoginUsurp, TypeOK
  <2>3. login' \in [Servers -> Login]
    BY <1>1, <1>f, SetLoginType DEF TickLoginUsurp
  <2> QED
    BY <1>1, <2>1, <2>2, <2>3 DEF TickLoginUsurp, TypeOK
<1>2. CASE TickLoginCreate(s)
  <2>1. [Absent EXCEPT !.on = TRUE, !.data = login[s].data] \in Player
    BY AbsentType, LoginFields DEF Player
  <2>2. live' \in [Servers -> [Chars -> Player]]
    BY <1>2, <1>c, <2>1, LiveType DEF TickLoginCreate
  <2> QED
    BY <1>2, <1>f, <2>2, SetLoginType DEF TickLoginCreate, TypeOK
<1>3. CASE TickLoginNoSlot(s)
  BY <1>3, <1>c, <1>f, SetLoginType, FaultType, StruckType
     DEF TickLoginNoSlot, TypeOK
<1>4. CASE TickLoginNoRoom(s)
  <2>1. Ask("release", c, Blank, Area(s)) \in Query
    BY <1>c, AskType, BlankType, ServerType DEF Ops, Writes
  <2> QED
    BY <1>4, <1>f, <2>1, AddQueryType, SetLoginType, FaultType
       DEF TickLoginNoRoom, TypeOK
<1>5. CASE TickLoginNoItem(s)
  <2> DEFINE p == [Absent EXCEPT !.on = TRUE, !.data = login[s].data,
                                 !.data.ver = 0]
  <2>1. p \in Player
    <3>1. [login[s].data EXCEPT !.ver = 0] \in Data
      BY LoginFields, BoundsAssumption DEF Data, Versions
    <3>2. p = [Absent EXCEPT !.on = TRUE,
                             !.data = [login[s].data EXCEPT !.ver = 0]]
      BY AbsentType DEF Player
    <3> QED
      BY <3>1, <3>2, AbsentType DEF Player
  <2>2. live' \in [Servers -> [Chars -> Player]]
    BY <1>5, <1>c, <2>1, LiveType DEF TickLoginNoItem
  <2> QED
    BY <1>5, <1>c, <1>f, <2>2, SetLoginType, FaultType, StruckType
       DEF TickLoginNoItem, TypeOK
<1> QED
  BY <1>1, <1>2, <1>3, <1>4, <1>5 DEF TickLogin

\* The steps of the game loop keep the types.
LEMMA GameType ==
  ASSUME TypeOK, NEW s \in Servers, NEW c \in Chars, Game(s, c)
  PROVE  TypeOK'
<1> DEFINE ply == live[s][c]
<1>p. /\ ply \in Player
      /\ ply.data \in Data
  BY LiveType, AbsentType DEF Player
<1>1. CASE Progress(s, c)
  <2> DEFINE v == ply.data.ver + 1
             p == [ply EXCEPT !.data = [ply.data EXCEPT !.ver = v]]
  <2>1. v \in Versions
    BY <1>1 DEF Progress
  <2>2. p \in Player
    BY <1>p, <2>1 DEF Player, Data
  <2>3. live' = [live EXCEPT ![s][c] = p]
    BY <1>1 DEF Progress
  <2>4. live' \in [Servers -> [Chars -> Player]]
    BY <2>2, <2>3, LiveType
  <2>5. seen' \in [Chars -> Versions]
    BY <1>1, <2>1 DEF Progress, TypeOK
  <2> QED
    BY <1>1, <2>4, <2>5 DEF Progress, TypeOK
<1>2. CASE Backup(s, c)
  <2>1. Ask("save", c, ply.data, Area(s)) \in Query
    BY <1>p, AskType, ServerType DEF Ops, Writes
  <2> QED
    BY <1>2, <2>1, AddQueryType DEF Backup, TypeOK
<1>3. ASSUME NEW m \in Mirrors, ChooseMirror(s, c, m)
      PROVE  TypeOK'
  <2> DEFINE p == [ply EXCEPT !.data = [ply.data EXCEPT !.mirror = m]]
  <2>1. p \in Player
    BY <1>p DEF Player, Data
  <2>2. live' = [live EXCEPT ![s][c] = p]
    BY <1>3 DEF ChooseMirror
  <2> QED
    BY <1>3, <2>1, <2>2, LiveType DEF ChooseMirror, TypeOK
<1>4. ASSUME NEW area \in Areas, Leave(s, c, area)
      PROVE  TypeOK'
  <2>1. /\ queue' \in [Servers -> Seq(Query)]
        /\ live' \in [Servers -> [Chars -> Player]]
    BY <1>4, <1>p, KickCharType DEF Leave
  <2> QED
    BY <1>4, <2>1, HangType DEF Leave, TypeOK
<1>5. ASSUME NEW area \in Areas, NEW m \in Mirrors, ChangeArea(s, c, area, m)
      PROVE  TypeOK'
  <2> DEFINE t == GetMirror(s, area, m)
  <2>1. [ply.data EXCEPT !.mirror = m] \in Data
    BY <1>p DEF Data
  <2>2. /\ queue' \in [Servers -> Seq(Query)]
        /\ live' \in [Servers -> [Chars -> Player]]
    BY <1>5, <2>1, KickCharType DEF ChangeArea
  <2>3. t \in Servers
    BY <1>5, GetMirrorType DEF ChangeArea
  <2>4. GoTo(t) \in Link
    BY <2>3, GoToType
  <2>5. client' \in [Clients -> Link]
    BY <1>5, <2>4 DEF ChangeArea, TypeOK
  <2> QED
    BY <1>5, <2>2, <2>5 DEF ChangeArea, TypeOK
<1> QED
  BY <1>1, <1>2, <1>3, <1>4, <1>5 DEF Game

\* The query at the top of a queue.
LEMMA TopType ==
  ASSUME TypeOK, NEW s \in Servers, queue[s] # <<>>
  PROVE  /\ Head(queue[s]) \in Query
         /\ Head(queue[s]).c \in Chars
         /\ row[Head(queue[s]).c] \in Row
         /\ Head(queue[s]) = queue[s][1]
         /\ 1 \in DOMAIN queue[s]
<1>1. queue[s] \in Seq(Query)
  BY DEF TypeOK
<1>2. Head(queue[s]) \in Query /\ 1 \in DOMAIN queue[s]
  BY <1>1
<1> QED
  BY <1>1, <1>2 DEF TypeOK, Query

\* Executing an update, once or twice, keeps the types.
LEMMA DbWriteType ==
  ASSUME TypeOK, NEW s \in Servers, DbWrite(s) \/ DbWriteAgain(s)
  PROVE  TypeOK'
<1>1. queue[s] # <<>> /\ Head(queue[s]).op \in Writes
  BY DEF DbWrite, DbWriteAgain, TopIs
<1>2. row' \in [Chars -> Row]
  BY <1>1, TopType, WrittenType DEF DbWrite, DbWriteAgain
<1>3. CASE DbWrite(s)
  BY <1>1, <1>2, <1>3, RemoveType DEF DbWrite, TypeOK
<1>4. CASE DbWriteAgain(s)
  BY <1>1, <1>2, <1>4, FaultType DEF DbWriteAgain, TypeOK
<1> QED
  BY <1>3, <1>4

\* The areas a rescue tries are areas.
LEMMA HomeType ==
  ASSUME NEW i \in DOMAIN HomeAreas
  PROVE  HomeAreas[i] \in Areas
BY ServersAssumption

\* Every step of the database thread keeps the types.
LEMMA DbStepType ==
  ASSUME TypeOK, NEW s \in Servers, DbStep(s)
  PROVE  TypeOK'
<1> DEFINE c == Head(queue[s]).c
           r == row[c]
<1>q. queue[s] # <<>>
  BY DbWriteType DEF DbStep, DbWrite, DbLoadRefused, DbLoadElsewhere,
     DbLoadOtherMirror, DbLoadCopy, DbLoadMark, DbRescue, Loading, TopIs
<1>c. c \in Chars /\ r \in Row
  BY <1>q, TopType
<1>1. CASE DbWrite(s)
  BY <1>1, DbWriteType
<1>2. CASE DbLoadRefused(s)
  <2>1. Result(s, "failed", None) \in Login
    BY ResultType DEF Results
  <2> QED
    BY <1>q, <1>2, <2>1, SetLoginType, RemoveType
       DEF DbLoadRefused, Loading, TypeOK
<1>3. CASE DbLoadElsewhere(s)
  <2>1. Elsewhere(s, r) \in Servers \cup {None}
    BY <1>c, GetMirrorType DEF Elsewhere, Row
  <2>2. Result(s, "newarea", Elsewhere(s, r)) \in Login
    BY <2>1, ResultType DEF Results
  <2> QED
    BY <1>q, <1>3, <2>2, SetLoginType, RemoveType
       DEF DbLoadElsewhere, Loading, TypeOK
<1>4. CASE DbLoadOtherMirror(s)
  <2> DEFINE t == GetMirror(s, Area(s), r.data.mirror)
  <2>1. Result(s, "newarea", t) \in Login
    BY GetMirrorType, ResultType DEF Results
  <2>2. [Result(s, "newarea", t) EXCEPT !.current = (r.cur = s)] \in Login
    BY <2>1 DEF Login
  <2> QED
    BY <1>q, <1>4, <2>2, SetLoginType, RemoveType
       DEF DbLoadOtherMirror, Loading, TypeOK
<1>5. CASE DbLoadCopy(s)
  <2>1. [login[s] EXCEPT !.st = "mark", !.data = r.data,
                         !.current = (r.cur = s)] \in Login
    BY <1>c, LoginFields DEF Login, Row
  <2> QED
    BY <1>5, <2>1, SetLoginType DEF DbLoadCopy, Loading, TypeOK
<1>6. CASE DbLoadMark(s)
  <2>1. [login[s] EXCEPT !.st = "create"] \in Login
    BY LoginFields DEF Login
  <2>2. [r EXCEPT !.cur = s, !.allowed = Area(s)] \in Row
    BY <1>c, ServerType DEF Row
  <2>3. row' = [row EXCEPT ![c] = [r EXCEPT !.cur = s, !.allowed = Area(s)]]
    BY <1>6 DEF DbLoadMark
  <2>4. row' \in [Chars -> Row]
    BY <1>c, <2>2, <2>3 DEF TypeOK
  <2> QED
    BY <1>q, <1>c, <1>6, <2>1, <2>4, SetLoginType, RemoveType, StruckType
       DEF DbLoadMark, TypeOK
<1>7. CASE DbRescue(s)
  <2>1. row' \in [Chars -> Row]
    <3>1. ASSUME NEW i \in DOMAIN HomeAreas,
                 row' = [row EXCEPT ![c] = [@ EXCEPT !.cur = None,
                                              !.allowed = HomeAreas[i]]]
          PROVE  row' \in [Chars -> Row]
      <4>1. [r EXCEPT !.cur = None, !.allowed = HomeAreas[i]] \in Row
        BY <1>c, HomeType DEF Row
      <4> QED
        BY <1>c, <3>1, <4>1 DEF TypeOK
    <3>2. \/ row' = row
          \/ \E i \in DOMAIN HomeAreas :
               row' = [row EXCEPT ![c] = [@ EXCEPT !.cur = None,
                                            !.allowed = HomeAreas[i]]]
      BY <1>7 DEF DbRescue
    <3> QED
      BY <3>1, <3>2 DEF TypeOK
  <2> QED
    BY <1>q, <1>c, <1>7, <2>1, RemoveType, StruckType DEF DbRescue, TypeOK
<1> QED
  BY <1>1, <1>2, <1>3, <1>4, <1>5, <1>6, <1>7 DEF DbStep

\* A process that ends keeps the types.
LEMMA ProcessEndsType ==
  ASSUME TypeOK, NEW s \in Servers, ProcessEnds(s)
  PROVE  /\ up' \in [Servers -> {"up", "stopping", "down"}]
         /\ queue' \in [Servers -> Seq(Query)]
         /\ login' \in [Servers -> Login]
         /\ live' \in [Servers -> [Chars -> Player]]
         /\ client' \in [Clients -> Link]
<1>1. Idle(login[s].c) \in Login
  BY LoginFields, IdleType
<1>2. [c \in Chars |-> Absent] \in [Chars -> Player]
  BY AbsentType
<1> QED
  BY <1>1, <1>2, SetLoginType, HangType DEF ProcessEnds, TypeOK

\* Starting, stopping and crashing servers keep the types.
LEMMA ServerLifeType ==
  ASSUME TypeOK, NEW s \in Servers, ServerLife(s)
  PROVE  TypeOK'
<1>1. CASE AreaAlive(s)
  BY <1>1 DEF AreaAlive, TypeOK
<1>2. CASE GoStale(s)
  BY <1>2, FaultType DEF GoStale, TypeOK
<1>3. CASE UpdateAreas(s)
  BY <1>3 DEF UpdateAreas, TypeOK
<1>4. CASE StopBegin(s)
  BY <1>4, FaultType DEF StopBegin, TypeOK
<1>5. CASE StopDone(s)
  BY <1>5, ProcessEndsType DEF StopDone, TypeOK
<1>6. CASE Crash(s)
  <2>1. seen' \in [Chars -> Versions]
    BY <1>6 DEF Crash, TypeOK, Row, Data
  <2> QED
    BY <1>6, <2>1, ProcessEndsType, FaultType DEF Crash, TypeOK
<1>7. CASE Restart(s)
  <2>1. ASSUME NEW c \in Chars
        PROVE  row[c] \in Row /\ [row[c] EXCEPT !.cur = None] \in Row
    BY DEF TypeOK, Row
  <2>2. row' \in [Chars -> Row]
    BY <1>7, <2>1 DEF Restart
  <2> QED
    BY <1>7, <2>2 DEF Restart, TypeOK
<1>8. ASSUME NEW c \in Chars, NEW area \in Areas, ExitOnShutdown(s, c, area)
      PROVE  TypeOK'
  <2>1. live[s][c].data \in Data
    BY LiveType, AbsentType DEF Player
  <2>2. /\ queue' \in [Servers -> Seq(Query)]
        /\ live' \in [Servers -> [Chars -> Player]]
    BY <1>8, <2>1, KickCharType DEF ExitOnShutdown
  <2> QED
    BY <1>8, <2>2, HangType DEF ExitOnShutdown, TypeOK
<1> QED
  BY <1>1, <1>2, <1>3, <1>4, <1>5, <1>6, <1>7, <1>8 DEF ServerLife

\* Every step keeps the types.
LEMMA TypeStep == TypeOK /\ [Next]_vars => TypeOK'
<1> SUFFICES ASSUME TypeOK, [Next]_vars PROVE TypeOK'
  OBVIOUS
<1>1. CASE UNCHANGED vars
  BY <1>1 DEF vars, TypeOK
<1>2. CASE ClientStep
  BY <1>2, ClientStepType
<1>3. ASSUME NEW k \in Clients, NEW s \in Servers, FindLogin(k, s)
      PROVE  TypeOK'
  BY <1>3, FindLoginType
<1>4. ASSUME NEW s \in Servers,
             \/ LoginAges(s) \/ TickLogin(s) \/ DbStep(s)
             \/ DbWriteAgain(s) \/ ServerLife(s)
      PROVE  TypeOK'
  BY <1>4, LoginAgesType, TickLoginType, DbStepType, DbWriteType,
     ServerLifeType
<1>5. ASSUME NEW s \in Servers, NEW c \in Chars, Game(s, c)
      PROVE  TypeOK'
  BY <1>5, GameType
<1> QED
  BY <1>1, <1>2, <1>3, <1>4, <1>5 DEF Next

\* Rows, queries, logins, characters and clients always have their types: no
\* query, result or redirect is ever built that the other side cannot handle.
THEOREM TypeCorrect == Spec => []TypeOK
<1>1. Init => TypeOK
  BY TypeInit
<1>2. TypeOK /\ [Next]_vars => TypeOK'
  BY TypeStep
<1> QED
  BY <1>1, <1>2, PTL DEF Spec

-----------------------------------------------------------------------------

\* What is in a queue is a query for a character.
LEMMA QueueType ==
  ASSUME TypeOK, NEW s \in Servers
  PROVE  /\ queue[s] \in Seq(Query)
         /\ \A i \in DOMAIN queue[s] :
              /\ queue[s][i] \in Query
              /\ queue[s][i].c \in Chars
<1>1. queue[s] \in Seq(Query)
  BY DEF TypeOK
<1>2. \A i \in DOMAIN queue[s] : queue[s][i] \in Query
  BY <1>1
<1>3. \A q \in Query : q.c \in Chars
  BY DEF Query
<1> QED
  BY <1>1, <1>2, <1>3

\* What has struck a character is not forgotten.
Grows ==
  \A c \in Chars : /\ Untaken(c)' => Untaken(c)
                   /\ Intact(c)' => Intact(c)
                   /\ Freed(c)' => Freed(c)

LEMMA GrowsFrom ==
  ASSUME struck.taken \subseteq struck'.taken,
         struck.stuck \subseteq struck'.stuck,
         struck.halved \subseteq struck'.halved
  PROVE  Grows
BY DEF Grows, Untaken, Intact, Freed

\* The character that struck remembers anew.
LEMMA StruckGrows ==
  ASSUME TypeOK, NEW c,
         \/ struck' = struck
         \/ struck' = [struck EXCEPT !.taken = @ \cup {c}]
         \/ struck' = [struck EXCEPT !.stuck = @ \cup {c}]
         \/ struck' = [struck EXCEPT !.halved = @ \cup {c}]
  PROVE  Grows
<1>1. struck \in [taken: SUBSET Chars, stuck: SUBSET Chars,
                  halved: SUBSET Chars]
  BY DEF TypeOK, Struck
<1>2. /\ struck.taken \subseteq struck'.taken
      /\ struck.stuck \subseteq struck'.stuck
      /\ struck.halved \subseteq struck'.halved
  BY <1>1
<1> QED
  BY <1>2, GrowsFrom

\* No step forgets.
LEMMA NextGrows ==
  ASSUME TypeOK, [Next]_vars
  PROVE  Grows
<1> DEFINE Remembers ==
      \/ struck' = struck
      \/ \E c : \/ struck' = [struck EXCEPT !.taken = @ \cup {c}]
                \/ struck' = [struck EXCEPT !.stuck = @ \cup {c}]
                \/ struck' = [struck EXCEPT !.halved = @ \cup {c}]
<1> HIDE DEF Remembers
<1>0. Remembers => Grows
  BY StruckGrows DEF Remembers
<1>1. CASE UNCHANGED vars
  BY <1>0, <1>1 DEF vars, Remembers
<1>2. CASE ClientStep
  BY <1>0, <1>2 DEF ClientStep, Connect, Abandon, KickPlayer, Remembers
<1>3. ASSUME NEW k \in Clients, NEW s \in Servers, FindLogin(k, s)
      PROVE  Grows
  BY <1>0, <1>3
     DEF FindLogin, FindLoginStart, FindLoginStale, FindLoginFailed,
         FindLoginNewarea, FindLoginGone, FindLoginOk, FindLoginZoneTime,
         Remembers
<1>4. ASSUME NEW s \in Servers, LoginAges(s) \/ TickLogin(s)
      PROVE  Grows
  BY <1>0, <1>4
     DEF LoginAges, TickLogin, TickLoginUsurp, TickLoginCreate,
         TickLoginNoSlot, TickLoginNoRoom, TickLoginNoItem, Remembers
<1>5. ASSUME NEW s \in Servers, DbStep(s) \/ DbWriteAgain(s)
      PROVE  Grows
  <2>1. DbWrite(s) \/ DbWriteAgain(s) => struck' = struck
    BY DEF DbWrite, DbWriteAgain
  <2>2. Loading(s) => struck' = struck
    BY DEF Loading
  <2>3. DbLoadMark(s) \/ DbRescue(s) => Remembers
    BY DEF DbLoadMark, DbRescue, Remembers
  <2> QED
    BY <1>0, <1>5, <2>1, <2>2, <2>3
       DEF DbStep, DbLoadRefused, DbLoadElsewhere, DbLoadOtherMirror,
           DbLoadCopy, Remembers
<1>6. ASSUME NEW s \in Servers, ServerLife(s)
      PROVE  Grows
  BY <1>0, <1>6
     DEF ServerLife, AreaAlive, GoStale, UpdateAreas, StopBegin, StopDone,
         Crash, Restart, ExitOnShutdown, Remembers
<1>7. ASSUME NEW s \in Servers, NEW c \in Chars, Game(s, c)
      PROVE  Grows
  BY <1>0, <1>7
     DEF Game, Progress, Backup, ChooseMirror, Leave, ChangeArea, Remembers
<1> QED
  BY <1>1, <1>2, <1>3, <1>4, <1>5, <1>6, <1>7 DEF Next

\* A step that does not touch server t, nor a row t has a claim on, keeps what
\* is known about t.
LEMMA OtherServer ==
  ASSUME TypeOK, Grows, NEW t \in Servers, ServerInv(t),
         queue'[t] = queue[t],
         login'[t] = login[t],
         \A c \in Chars : live'[t][c].on = live[t][c].on,
         up'[t] = up[t],
         \A c \in Chars : \/ row'[c].cur = row[c].cur
                          \/ row[c].cur # t
                          \/ ~Untaken(c)'
  PROVE  ServerInv(t)'
<1>g. ASSUME NEW c \in Chars
      PROVE  Holds(t, c)' <=> Holds(t, c)
  <2>1. /\ login'[t].st = login[t].st
        /\ login'[t].c = login[t].c
        /\ login'[t].current = login[t].current
    OBVIOUS
  <2>2. live'[t][c].on = live[t][c].on
    OBVIOUS
  <2>3. Holds(t, c) = \/ live[t][c].on
                      \/ /\ login[t].st = "create" /\ login[t].c = c
                         /\ ~login[t].current
    BY DEF Holds
  <2>4. Holds(t, c)' = \/ live'[t][c].on
                       \/ /\ login'[t].st = "create" /\ login'[t].c = c
                          /\ ~login'[t].current
    BY DEF Holds
  <2> QED
    BY <2>1, <2>2, <2>3, <2>4
<1>1. LoadInv(t)'
  BY DEF ServerInv, LoadInv
<1>3. LeaseInv(t)'
  BY <1>g DEF ServerInv, LeaseInv, Grows
<1>4. CreateInv(t)'
  BY LoginFields DEF ServerInv, CreateInv, Grows
<1>5. GiveUpInv(t)'
  BY <1>g, QueueType DEF ServerInv, GiveUpInv, Grows
<1>7. DownInv(t)'
  BY DEF ServerInv, DownInv
<1> QED
  BY <1>1, <1>3, <1>4, <1>5, <1>7 DEF ServerInv

\* What Holds depends on.
LEMMA HoldsFrom ==
  ASSUME NEW s, NEW c,
         live'[s][c].on => live[s][c].on \/ (/\ login[s].st = "create"
                                             /\ login[s].c = c
                                             /\ ~login[s].current),
         login'[s] = login[s] \/ login'[s].st # "create"
  PROVE  Holds(s, c)' => Holds(s, c)
<1>1. Holds(s, c) = \/ live[s][c].on
                    \/ /\ login[s].st = "create" /\ login[s].c = c
                       /\ ~login[s].current
  BY DEF Holds
<1>2. Holds(s, c)' = \/ live'[s][c].on
                     \/ /\ login'[s].st = "create" /\ login'[s].c = c
                        /\ ~login'[s].current
  BY DEF Holds
<1> QED
  BY <1>1, <1>2

\* A step of server s that leaves its queue and the rows alone, and takes
\* characters from its game or makes the one it loaded.
LEMMA QuietStep ==
  ASSUME TypeOK, Grows, NEW s \in Servers, ServerInv(s),
         up[s] # "down", up'[s] # "down",
         queue'[s] = queue[s], row' = row,
         \/ login'[s] = login[s]
         \/ /\ login[s].st \notin {"read", "mark"}
            /\ login'[s].st \notin {"read", "mark", "create"},
         \A c \in Chars : live'[s][c].on =>
           \/ live[s][c].on
           \/ /\ login[s].st = "create" /\ login[s].c = c
              /\ ~login[s].current /\ login'[s].st # "create"
  PROVE  ServerInv(s)'
<1>g. ASSUME NEW c \in Chars
      PROVE  Holds(s, c)' => Holds(s, c)
  BY HoldsFrom
<1>1. LoadInv(s)'
  BY DEF ServerInv, LoadInv
<1>3. LeaseInv(s)'
  BY <1>g DEF ServerInv, LeaseInv, Grows
<1>4. CreateInv(s)'
  BY LoginFields DEF ServerInv, CreateInv, Grows
<1>5. GiveUpInv(s)'
  BY <1>g, QueueType DEF ServerInv, GiveUpInv, Grows
<1>7. DownInv(s)'
  BY DEF DownInv
<1> QED
  BY <1>1, <1>3, <1>4, <1>5, <1>7 DEF ServerInv

\* A queue after add_query.
LEMMA AppendFacts ==
  ASSUME TypeOK, NEW s \in Servers, NEW e, queue'[s] = Append(queue[s], e)
  PROVE  /\ \A i \in DOMAIN queue'[s] :
              /\ i \in Nat
              /\ \/ i \in DOMAIN queue[s] /\ queue'[s][i] = queue[s][i]
                 \/ i = Len(queue[s]) + 1 /\ queue'[s][i] = e
         /\ \A j \in DOMAIN queue[s] : j \in Nat /\ j <= Len(queue[s])
         /\ Len(queue[s]) \in Nat
BY QueueType

\* A step of server s that queues a query other than a load.  What the query
\* gives up is no longer held.
LEMMA EnqueueStep ==
  ASSUME TypeOK, Grows, NEW s \in Servers, ServerInv(s),
         up[s] # "down", up'[s] # "down",
         NEW e \in Query, queue'[s] = Append(queue[s], e),
         row' = row,
         \/ login'[s] = login[s]
         \/ /\ login[s].st \notin {"read", "mark"}
            /\ login'[s].st \notin {"read", "mark", "create"},
         \A c \in Chars : live'[s][c].on => live[s][c].on,
         e.op # "load",
         e.op = "release" => login[s].st \notin {"read", "mark"},
         e.op = "exit" => live[s][e.c].on,
         \A c \in Chars :
           e.c = c /\ e.op \in {"exit", "release"} /\ Untaken(c)' =>
             ~Holds(s, c)'
  PROVE  ServerInv(s)'
<1>g. ASSUME NEW c \in Chars
      PROVE  Holds(s, c)' => Holds(s, c)
  BY HoldsFrom
<1>e. e.c \in Chars
  BY DEF Query
<1>1. LoadInv(s)'
  <2>1. ASSUME NEW i \in DOMAIN queue'[s], queue'[s][i].op = "load"
        PROVE  /\ login'[s].st \in {"read", "mark"}
               /\ login'[s].c = queue'[s][i].c
               /\ \A j \in DOMAIN queue'[s] :
                    queue'[s][j].op \in {"load", "release"} => j <= i
    <3>1. i \in DOMAIN queue[s] /\ queue'[s][i] = queue[s][i]
      BY <2>1, AppendFacts
    <3>2. /\ login[s].st \in {"read", "mark"}
          /\ login[s].c = queue[s][i].c
          /\ \A j \in DOMAIN queue[s] :
               queue[s][j].op \in {"load", "release"} => j <= i
      BY <2>1, <3>1 DEF ServerInv, LoadInv
    <3> QED
      BY <3>1, <3>2, AppendFacts
  <2>2. ASSUME login'[s].st = "mark"
        PROVE  queue'[s] # <<>> /\ queue'[s][1].op = "load"
    <3>1. login[s].st = "mark"
      BY <2>2
    <3>2. queue[s] # <<>> /\ queue[s][1].op = "load"
      BY <3>1 DEF ServerInv, LoadInv
    <3> QED
      BY <3>2, QueueType
  <2> QED
    BY <2>1, <2>2 DEF LoadInv
<1>3. LeaseInv(s)'
  BY <1>g DEF ServerInv, LeaseInv, Grows
<1>4. CreateInv(s)'
  BY LoginFields DEF ServerInv, CreateInv, Grows
<1>5. GiveUpInv(s)'
  <2> SUFFICES ASSUME NEW c \in Chars, NEW i \in DOMAIN queue'[s],
                      Untaken(c)', queue'[s][i].c = c
               PROVE  /\ queue'[s][i].op \in {"exit", "release"} =>
                           ~Holds(s, c)'
                      /\ queue'[s][i].op = "exit" =>
                           /\ i > 1 => row'[c].cur = s
                           /\ \A j \in 1..(i - 1) :
                                queue'[s][j].op \in {"exit", "release"} =>
                                  queue'[s][j].c # c
    BY DEF GiveUpInv
  <2>1. CASE i \in DOMAIN queue[s] /\ queue'[s][i] = queue[s][i]
    <3>1. \A j \in 1..(i - 1) : j \in DOMAIN queue[s] /\ queue'[s][j] = queue[s][j]
      BY <2>1, QueueType
    <3> QED
      BY <2>1, <3>1, <1>g DEF ServerInv, GiveUpInv, Grows
  <2>2. CASE i = Len(queue[s]) + 1 /\ queue'[s][i] = e
    <3>1. \A j \in 1..(i - 1) : j \in DOMAIN queue[s] /\ queue'[s][j] = queue[s][j]
      BY <2>2, QueueType
    <3>2. ASSUME e.op = "exit"
          PROVE  /\ row[c].cur = s
                 /\ \A j \in DOMAIN queue[s] :
                      queue[s][j].op \in {"exit", "release"} =>
                        queue[s][j].c # c
      <4>1. Holds(s, c)
        BY <2>2, <3>2 DEF Holds
      <4> QED
        BY <4>1 DEF ServerInv, LeaseInv, GiveUpInv, Grows
    <3>3. e.op \in {"exit", "release"} => ~Holds(s, c)'
      BY <2>2
    <3> QED
      BY <2>2, <3>1, <3>2, <3>3
  <2> QED
    BY <2>1, <2>2, AppendFacts
<1>7. DownInv(s)'
  BY DEF DownInv
<1> QED
  BY <1>1, <1>3, <1>4, <1>5, <1>7 DEF ServerInv

\* A step that takes the query at the top off the queue.
LEMMA TailFacts ==
  ASSUME TypeOK, NEW s \in Servers, queue[s] # <<>>, queue'[s] = Tail(queue[s])
  PROVE  \A i \in DOMAIN queue'[s] :
           /\ i \in Nat /\ i >= 1
           /\ i + 1 \in DOMAIN queue[s]
           /\ queue'[s][i] = queue[s][i + 1]
BY QueueType

\* A step of server s that finishes the query at the top, when that is not a
\* load that goes on: rows of others are not touched, and the rows of logouts
\* further down the queue stay marked.
LEMMA DequeueStep ==
  ASSUME TypeOK, Grows, NEW s \in Servers, ServerInv(s),
         queue[s] # <<>>, queue'[s] = Tail(queue[s]),
         up[s] # "down", up'[s] = up[s], live'[s] = live[s],
         \/ login'[s] = login[s] /\ queue[s][1].op # "load"
         \/ queue[s][1].op = "load" /\ login'[s].st \notin {"read", "mark", "create"},
         \A c \in Chars : row'[c].cur = row[c].cur \/ ~Untaken(c)' \/
           /\ ~Holds(s, c)
           /\ \A i \in DOMAIN queue[s] :
                i > 1 /\ queue[s][i].op = "exit" => queue[s][i].c # c
  PROVE  ServerInv(s)'
<1>g. ASSUME NEW c \in Chars
      PROVE  Holds(s, c)' => Holds(s, c)
  BY HoldsFrom
<1>t. \A i \in DOMAIN queue'[s] :
        /\ i \in Nat /\ i >= 1
        /\ i + 1 \in DOMAIN queue[s]
        /\ queue'[s][i] = queue[s][i + 1]
  BY TailFacts
<1>m. login'[s].st # "mark"
  BY DEF ServerInv, LoadInv
<1>1. LoadInv(s)'
  <2>1. ASSUME NEW i \in DOMAIN queue'[s], queue'[s][i].op = "load"
        PROVE  /\ login'[s].st \in {"read", "mark"}
               /\ login'[s].c = queue'[s][i].c
               /\ \A j \in DOMAIN queue'[s] :
                    queue'[s][j].op \in {"load", "release"} => j <= i
    <3>1. /\ i + 1 \in DOMAIN queue[s]
          /\ queue[s][i + 1].op = "load"
          /\ i >= 1 /\ i \in Nat
      BY <2>1, <1>t
    <3>2. /\ login[s].st \in {"read", "mark"}
          /\ login[s].c = queue[s][i + 1].c
          /\ \A j \in DOMAIN queue[s] :
               queue[s][j].op \in {"load", "release"} => j <= i + 1
      BY <3>1 DEF ServerInv, LoadInv
    <3>3. queue[s][1].op # "load"
      <4>1. 1 \in DOMAIN queue[s]
        BY QueueType
      <4>2. queue[s][1].op = "load" => i + 1 <= 1
        BY <3>1, <4>1 DEF ServerInv, LoadInv
      <4> QED
        BY <3>1, <4>2
    <3>4. login'[s] = login[s]
      BY <3>3
    <3> QED
      BY <2>1, <1>t, <3>2, <3>4
  <2> QED
    BY <2>1, <1>m DEF LoadInv
<1>3. LeaseInv(s)'
  BY <1>g DEF ServerInv, LeaseInv, Grows
<1>4. CreateInv(s)'
  BY LoginFields DEF ServerInv, CreateInv, Grows
<1>5. GiveUpInv(s)'
  <2> SUFFICES ASSUME NEW c \in Chars, NEW i \in DOMAIN queue'[s],
                      Untaken(c)', queue'[s][i].c = c
               PROVE  /\ queue'[s][i].op \in {"exit", "release"} =>
                           ~Holds(s, c)'
                      /\ queue'[s][i].op = "exit" =>
                           /\ i > 1 => row'[c].cur = s
                           /\ \A j \in 1..(i - 1) :
                                queue'[s][j].op \in {"exit", "release"} =>
                                  queue'[s][j].c # c
    BY DEF GiveUpInv
  <2>1. /\ i + 1 \in DOMAIN queue[s] /\ queue[s][i + 1].c = c
        /\ queue'[s][i] = queue[s][i + 1]
        /\ i \in Nat /\ i >= 1
    BY <1>t
  <2>2. /\ queue[s][i + 1].op \in {"exit", "release"} => ~Holds(s, c)
        /\ queue[s][i + 1].op = "exit" =>
             /\ row[c].cur = s
             /\ \A j \in 1..i :
                  queue[s][j].op \in {"exit", "release"} => queue[s][j].c # c
    BY <2>1 DEF ServerInv, GiveUpInv, Grows
  <2>3. \A j \in 1..(i - 1) : /\ j + 1 \in 1..i
                              /\ queue'[s][j] = queue[s][j + 1]
    BY <2>1, QueueType
  <2> QED
    BY <2>1, <2>2, <2>3, <1>g
<1>7. DownInv(s)'
  BY DEF DownInv
<1> QED
  BY <1>1, <1>3, <1>4, <1>5, <1>7 DEF ServerInv

\* A step of server s that starts a login, after a release of the old one's
\* character where that was made.
LEMMA StartReadStep ==
  ASSUME TypeOK, Grows, NEW s \in Servers, ServerInv(s), up[s] # "down",
         login[s].st \notin {"read", "mark"},
         NEW d \in Chars, NEW c \in Chars, NEW q,
         \/ q = queue[s]
         \/ /\ q = Append(queue[s], Ask("release", d, Blank, Area(s)))
            /\ ~live'[s][d].on,
         StartRead(s, c, q),
         \A e \in Chars : live'[s][e].on => live[s][e].on,
         up' = up, row' = row
  PROVE  ServerInv(s)'
<1> DEFINE load == Ask("load", c, Blank, Area(s))
           rel  == Ask("release", d, Blank, Area(s))
<1>a. /\ login'[s].st = "read"
      /\ login'[s].c = c
      /\ queue'[s] = Append(q, load)
  BY LoginFields, IdleType DEF StartRead, SetLogin, TypeOK, Idle
<1>b. /\ load.op = "load" /\ load.c = c
      /\ rel.op = "release" /\ rel.c = d
  BY DEF Ask
<1>g. ASSUME NEW e \in Chars
      PROVE  Holds(s, e)' => live'[s][e].on /\ Holds(s, e)
  BY <1>a DEF Holds
<1>n. \A i \in DOMAIN queue[s] : queue[s][i].op # "load"
  BY DEF ServerInv, LoadInv
<1>q. \A i \in DOMAIN queue'[s] :
        /\ i \in Nat /\ i >= 1
        /\ \/ i \in DOMAIN queue[s] /\ queue'[s][i] = queue[s][i]
           \/ /\ queue'[s][i] = rel /\ ~live'[s][d].on
              /\ i + 1 = Len(queue'[s])
           \/ /\ queue'[s][i] = load
              /\ i = Len(queue'[s])
  <2>1. CASE q = queue[s]
    BY <1>a, <2>1, QueueType
  <2>2. CASE q = Append(queue[s], rel) /\ ~live'[s][d].on
    BY <1>a, <2>2, QueueType
  <2> QED
    BY <2>1, <2>2
<1>l. /\ Len(queue'[s]) \in Nat
      /\ \A i \in DOMAIN queue'[s] : i <= Len(queue'[s])
  <2>1. q \in Seq(Query)
    BY QueueType, AskType, BlankType, ServerType DEF Ops, Writes
  <2>2. load \in Query
    BY AskType, BlankType, ServerType DEF Ops
  <2> QED
    BY <1>a, <2>1, <2>2
<1>1. LoadInv(s)'
  <2>1. ASSUME NEW i \in DOMAIN queue'[s], queue'[s][i].op = "load"
        PROVE  /\ login'[s].st \in {"read", "mark"}
               /\ login'[s].c = queue'[s][i].c
               /\ \A j \in DOMAIN queue'[s] :
                    queue'[s][j].op \in {"load", "release"} => j <= i
    <3>1. queue'[s][i] = load /\ i = Len(queue'[s])
      BY <2>1, <1>b, <1>n, <1>q
    <3> QED
      BY <3>1, <1>a, <1>b, <1>l
  <2> QED
    BY <2>1, <1>a DEF LoadInv
<1>3. LeaseInv(s)'
  BY <1>g DEF ServerInv, LeaseInv, Grows
<1>4. CreateInv(s)'
  BY <1>a DEF CreateInv
<1>5. GiveUpInv(s)'
  <2> SUFFICES ASSUME NEW e \in Chars, NEW i \in DOMAIN queue'[s],
                      Untaken(e)', queue'[s][i].c = e
               PROVE  /\ queue'[s][i].op \in {"exit", "release"} =>
                           ~Holds(s, e)'
                      /\ queue'[s][i].op = "exit" =>
                           /\ i > 1 => row'[e].cur = s
                           /\ \A j \in 1..(i - 1) :
                                queue'[s][j].op \in {"exit", "release"} =>
                                  queue'[s][j].c # e
    BY DEF GiveUpInv
  <2>1. CASE i \in DOMAIN queue[s] /\ queue'[s][i] = queue[s][i]
    <3>1. \A j \in 1..(i - 1) : j \in DOMAIN queue[s] /\ queue'[s][j] = queue[s][j]
      <4>1. CASE q = queue[s]
        BY <2>1, <4>1, <1>a, QueueType
      <4>2. CASE q = Append(queue[s], rel)
        BY <2>1, <4>2, <1>a, QueueType
      <4> QED
        BY <4>1, <4>2
    <3> QED
      BY <2>1, <3>1, <1>g DEF ServerInv, GiveUpInv, Grows
  <2>2. CASE queue'[s][i] = rel /\ ~live'[s][d].on
    BY <2>2, <1>b, <1>g
  <2>3. CASE queue'[s][i] = load
    BY <2>3, <1>b
  <2> QED
    BY <2>1, <2>2, <2>3, <1>q
<1>7. DownInv(s)'
  BY DEF DownInv
<1> QED
  BY <1>1, <1>3, <1>4, <1>5, <1>7 DEF ServerInv

-----------------------------------------------------------------------------

\* Nothing of another server changes.
Local(s) ==
  \A t \in Servers \ {s} :
    /\ queue'[t] = queue[t] /\ login'[t] = login[t] /\ live'[t] = live[t]
    /\ up'[t] = up[t]

\* The rows that change are not those of another server, save for characters
\* that are taken.
OwnRows(s) ==
  \A t \in Servers \ {s}, c \in Chars :
    row'[c].cur = row[c].cur \/ row[c].cur # t \/ ~Untaken(c)'

Kept == \A s \in Servers : ServerInv(s)

\* A step of server s that leaves the claims of the others alone keeps the
\* invariant if it keeps it for s.
LEMMA LocalStep ==
  ASSUME IInv, Grows, NEW s \in Servers, Local(s), OwnRows(s) \/ row' = row,
         ServerInv(s)'
  PROVE  Kept'
<1>1. \A t \in Servers \ {s} : ServerInv(t)'
  BY OtherServer DEF IInv, Local, OwnRows
<1> QED
  BY <1>1 DEF Kept

\* So does one that neither queues a query nor changes a row.
LEMMA QuietKept ==
  ASSUME IInv, Grows, NEW s \in Servers, Local(s), row' = row,
         up[s] # "down", up'[s] # "down",
         queue'[s] = queue[s],
         \/ login'[s] = login[s]
         \/ /\ login[s].st \notin {"read", "mark"}
            /\ login'[s].st \notin {"read", "mark", "create"},
         \A c \in Chars : live'[s][c].on =>
           \/ live[s][c].on
           \/ /\ login[s].st = "create" /\ login[s].c = c
              /\ ~login[s].current /\ login'[s].st # "create"
  PROVE  Kept'
<1>1. ServerInv(s)'
  BY QuietStep DEF IInv
<1> QED
  BY <1>1, LocalStep

\* So does one that only clients and players notice.
LEMMA UnchangedKept ==
  ASSUME IInv, Grows, UNCHANGED <<row, queue, login, up>>,
         \A s \in Servers, c \in Chars : live'[s][c].on = live[s][c].on
  PROVE  Kept'
<1>1. \A t \in Servers : ServerInv(t)'
  BY OtherServer DEF IInv
<1> QED
  BY <1>1 DEF Kept

\* A login as SetLogin leaves it.
LEMMA SetLoginFacts ==
  ASSUME TypeOK, NEW s \in Servers, NEW l, SetLogin(s, l)
  PROVE  /\ login'[s] = l
         /\ \A t \in Servers \ {s} : login'[t] = login[t]
BY DEF SetLogin, TypeOK

\* A login as Result makes it.
LEMMA ResultFacts ==
  ASSUME TypeOK, NEW s \in Servers, NEW st, NEW to
  PROVE  /\ Result(s, st, to).st = st
         /\ [Result(s, st, to) EXCEPT !.usurp = TRUE].st = st
         /\ \A b : [Result(s, st, to) EXCEPT !.current = b].st = st
<1>1. login[s] \in Login
  BY LoginFields
<1> QED
  BY <1>1 DEF Result, Login

\* ch[] after a change of one character.
LEMMA LiveFacts ==
  ASSUME TypeOK, NEW s \in Servers, NEW c \in Chars, NEW p,
         live' = [live EXCEPT ![s][c] = p]
  PROVE  /\ live'[s][c] = p
         /\ \A d \in Chars \ {c} : live'[s][d] = live[s][d]
         /\ \A t \in Servers \ {s} : live'[t] = live[t]
BY DEF TypeOK

\* The queues after a change of one.
LEMMA QueueFacts ==
  ASSUME TypeOK, NEW s \in Servers, NEW x, queue' = [queue EXCEPT ![s] = x]
  PROVE  /\ queue'[s] = x
         /\ \A t \in Servers \ {s} : queue'[t] = queue[t]
BY DEF TypeOK

\* The steps of the clients keep the invariant.
LEMMA ClientStepKept ==
  ASSUME IInv, Grows, ClientStep
  PROVE  Kept'
<1>1. ASSUME NEW k \in Clients, NEW s \in Servers, Connect(k, s)
      PROVE  Kept'
  BY <1>1, UnchangedKept DEF Connect
<1>2. ASSUME NEW k \in Clients, Abandon(k)
      PROVE  Kept'
  BY <1>2, UnchangedKept DEF Abandon
<1>3. ASSUME NEW k \in Clients, KickPlayer(k)
      PROVE  Kept'
  <2> DEFINE s == client[k].at
             c == Who[k]
  <2>1. \A t \in Servers, d \in Chars : live'[t][d].on = live[t][d].on
    <3>1. live' = [live EXCEPT ![s][c] = [@ EXCEPT !.plr = None, !.lost = TRUE]]
      BY <1>3 DEF KickPlayer
    <3>2. \A t \in Servers, d \in Chars : live[t][d] \in Player
      BY DEF IInv, TypeOK
    <3>3. \A p \in Player : [p EXCEPT !.plr = None, !.lost = TRUE].on = p.on
      BY DEF Player
    <3> QED
      BY <3>1, <3>2, <3>3 DEF IInv, TypeOK
  <2> QED
    BY <1>3, <2>1, UnchangedKept DEF KickPlayer
<1> QED
  BY <1>1, <1>2, <1>3 DEF ClientStep

\* A result that was collected is gone from the login.
LEMMA CollectsFacts ==
  ASSUME TypeOK, NEW k \in Clients, NEW s \in Servers, NEW st \in Results,
         Collects(k, s, st)
  PROVE  /\ up[s] # "down"
         /\ login[s].st = st /\ login'[s].st = "empty"
         /\ login[s].st \notin {"read", "mark", "create"}
         /\ \A t \in Servers \ {s} : login'[t] = login[t]
<1>1. SetLogin(s, Idle(login[s].c))
  BY DEF Collects
<1>2. login'[s] = Idle(login[s].c)
  BY <1>1, SetLoginFacts
<1>3. \A t \in Servers \ {s} : login'[t] = login[t]
  BY <1>1, SetLoginFacts
<1>4. login'[s].st = "empty"
  BY <1>2 DEF Idle
<1> QED
  BY <1>3, <1>4 DEF Collects, Results

\* kick_char: the logout is queued and the character leaves ch[].
LEMMA KickCharKept ==
  ASSUME IInv, Grows, NEW s \in Servers, NEW c \in Chars, NEW data \in Data,
         NEW area \in Areas, KickChar(s, c, data, area),
         up[s] # "down", row' = row, up' = up,
         \/ login' = login
         \/ /\ login[s].st \notin {"read", "mark"}
            /\ login'[s].st \notin {"read", "mark", "create"}
            /\ \A t \in Servers \ {s} : login'[t] = login[t]
  PROVE  Kept'
<1> DEFINE e == Ask("exit", c, data, area)
<1>t. TypeOK
  BY DEF IInv
<1>1. /\ queue' = [queue EXCEPT ![s] = Append(queue[s], e)]
      /\ live' = [live EXCEPT ![s][c] = Absent]
      /\ live[s][c].on
  BY DEF KickChar, AddQuery
<1>2. /\ queue'[s] = Append(queue[s], e)
      /\ \A t \in Servers \ {s} : queue'[t] = queue[t]
  BY <1>t, <1>1, QueueFacts
<1>3. /\ live'[s][c] = Absent
      /\ \A d \in Chars \ {c} : live'[s][d] = live[s][d]
      /\ \A t \in Servers \ {s} : live'[t] = live[t]
  BY <1>t, <1>1, LiveFacts
<1>4. e \in Query /\ e.op = "exit" /\ e.c = c
  <2>1. e \in Query
    BY AskType DEF Ops, Writes
  <2> QED
    BY <2>1 DEF Ask
<1>5. ~live'[s][c].on
  BY <1>3 DEF Absent
<1>6. Untaken(c)' => ~Holds(s, c)'
  <2>1. ASSUME Untaken(c)
        PROVE  ~(/\ login[s].st = "create" /\ login[s].c = c
                 /\ ~login[s].current)
    BY <1>1, <2>1 DEF IInv, ServerInv, CreateInv
  <2> QED
    BY <1>5, <2>1 DEF Holds, Grows
<1>7. \A d \in Chars : live'[s][d].on => live[s][d].on
  BY <1>3, <1>5
<1>8. ServerInv(s)'
  BY <1>1, <1>2, <1>4, <1>6, <1>7, EnqueueStep DEF IInv
<1>9. Local(s)
  BY <1>2, <1>3 DEF Local
<1> QED
  BY <1>8, <1>9, LocalStep

\* find_login keeps the invariant.
LEMMA FindLoginKept ==
  ASSUME IInv, Grows, NEW k \in Clients, NEW s \in Servers, FindLogin(k, s)
  PROVE  Kept'
<1> DEFINE c == Who[k]
<1>t. TypeOK
  BY DEF IInv
<1>c. c \in Chars
  BY PeopleAssumption
<1>1. CASE FindLoginStart(k, s)
  <2>1. /\ StartRead(s, c, queue[s])
        /\ login[s].st = "empty" /\ up[s] # "down"
        /\ UNCHANGED <<row, live, up>>
    BY <1>1 DEF FindLoginStart
  <2>2. Local(s) /\ login'[s].st # "mark"
    BY <1>t, <1>c, <2>1, SetLoginFacts, QueueFacts, IdleType
       DEF Local, StartRead, Login
  <2>3. ServerInv(s)'
    BY <1>t, <1>c, <2>1, StartReadStep DEF IInv
  <2> QED
    BY <2>1, <2>2, <2>3, LocalStep
<1>2. CASE FindLoginStale(k, s)
  <2> DEFINE d == login[s].c
             made == login[s].st = "ok" /\ ~login[s].usurp
             q == IF made THEN Append(queue[s], Ask("release", d, Blank, Area(s)))
                          ELSE queue[s]
  <2>1. /\ StartRead(s, c, q)
        /\ login[s].st \notin {"read", "mark"} /\ up[s] # "down"
        /\ UNCHANGED <<row, up>>
    BY <1>2 DEF FindLoginStale, Results
  <2>2. d \in Chars
    BY <1>t, LoginFields
  <2>3. /\ \A t \in Servers \ {s} : live'[t] = live[t]
        /\ \A e \in Chars : live'[s][e].on => live[s][e].on
        /\ made => ~live'[s][d].on
    <3>1. CASE live' = [live EXCEPT ![s][d] = Absent]
      <4>1. /\ live'[s][d] = Absent
            /\ \A e \in Chars \ {d} : live'[s][e] = live[s][e]
            /\ \A t \in Servers \ {s} : live'[t] = live[t]
        BY <1>t, <2>2, <3>1, LiveFacts
      <4>2. ~Absent.on
        BY DEF Absent
      <4> QED
        BY <4>1, <4>2
    <3>2. CASE live' = [live EXCEPT ![s][d].lost = TRUE] /\ ~made
      <4> DEFINE p == [live[s][d] EXCEPT !.lost = TRUE]
      <4>1. live' = [live EXCEPT ![s][d] = p]
        BY <3>2
      <4>2. /\ live'[s][d] = p
            /\ \A e \in Chars \ {d} : live'[s][e] = live[s][e]
            /\ \A t \in Servers \ {s} : live'[t] = live[t]
        BY <1>t, <2>2, <4>1, LiveFacts
      <4>3. p.on = live[s][d].on
        <5>1. live[s][d] \in Player
          BY <1>t, <2>2 DEF TypeOK
        <5> QED
          BY <5>1 DEF Player
      <4> QED
        BY <3>2, <4>2, <4>3
    <3>3. CASE live' = live /\ ~made
      BY <3>3
    <3> QED
      BY <1>2, <3>1, <3>2, <3>3 DEF FindLoginStale
  <2>4. Local(s) /\ login'[s].st # "mark"
    BY <1>t, <1>c, <2>1, <2>3, SetLoginFacts, QueueFacts, IdleType
       DEF Local, StartRead, Login
  <2>5. \/ q = queue[s]
        \/ /\ q = Append(queue[s], Ask("release", d, Blank, Area(s)))
           /\ ~live'[s][d].on
    BY <2>3
  <2>6. ServerInv(s)'
    BY <1>t, <1>c, <2>1, <2>2, <2>3, <2>5, StartReadStep DEF IInv
  <2> QED
    BY <2>1, <2>4, <2>6, LocalStep
<1>3. CASE FindLoginFailed(k, s)
  <2>1. /\ Collects(k, s, "failed")
        /\ UNCHANGED <<row, queue, live, up>>
    BY <1>3 DEF FindLoginFailed
  <2>2. /\ up[s] # "down" /\ login'[s].st = "empty"
        /\ login[s].st \notin {"read", "mark", "create"}
        /\ \A t \in Servers \ {s} : login'[t] = login[t]
    BY <1>t, <2>1, CollectsFacts DEF Results
  <2> QED
    BY <2>1, <2>2, QuietKept DEF Local
<1>4. CASE FindLoginNewarea(k, s)
  <2> DEFINE e == Ask("rescue", c, Blank, Area(s))
  <2>1. /\ Collects(k, s, "newarea")
        /\ queue' = queue \/ AddQuery(s, e)
        /\ UNCHANGED <<row, live, up>>
    BY <1>4 DEF FindLoginNewarea
  <2>2. /\ up[s] # "down" /\ login'[s].st = "empty"
        /\ login[s].st \notin {"read", "mark", "create"}
        /\ \A t \in Servers \ {s} : login'[t] = login[t]
    BY <1>t, <2>1, CollectsFacts DEF Results
  <2>3. CASE queue' = queue
    BY <2>1, <2>2, <2>3, QuietKept DEF Local
  <2>4. CASE AddQuery(s, e)
    <3>1. /\ queue'[s] = Append(queue[s], e)
          /\ \A t \in Servers \ {s} : queue'[t] = queue[t]
      BY <1>t, <2>4, QueueFacts DEF AddQuery
    <3>2. e \in Query
      BY <1>c, AskType, BlankType, ServerType DEF Ops
    <3>3. e.op = "rescue"
      BY DEF Ask
    <3>4. ServerInv(s)'
      BY <2>1, <2>2, <3>1, <3>2, <3>3, EnqueueStep DEF IInv
    <3>5. Local(s)
      BY <2>1, <2>2, <3>1 DEF Local
    <3> QED
      BY <2>1, <2>2, <3>4, <3>5, LocalStep
  <2> QED
    BY <2>1, <2>3, <2>4
<1>5. CASE FindLoginGone(k, s)
  <2>1. /\ Collects(k, s, "ok")
        /\ UNCHANGED <<row, queue, live, up>>
    BY <1>5 DEF FindLoginGone
  <2>2. /\ up[s] # "down" /\ login'[s].st = "empty"
        /\ login[s].st \notin {"read", "mark", "create"}
        /\ \A t \in Servers \ {s} : login'[t] = login[t]
    BY <1>t, <2>1, CollectsFacts DEF Results
  <2> QED
    BY <2>1, <2>2, QuietKept DEF Local
<1>6. CASE FindLoginOk(k, s)
  <2> DEFINE p == [live[s][c] EXCEPT !.plr = k, !.lost = FALSE]
  <2>1. /\ Collects(k, s, "ok") /\ live[s][c].on
        /\ live' = [live EXCEPT ![s][c] = p]
        /\ UNCHANGED <<row, queue, up>>
    BY <1>6 DEF FindLoginOk
  <2>2. /\ up[s] # "down" /\ login'[s].st = "empty"
        /\ login[s].st \notin {"read", "mark", "create"}
        /\ \A t \in Servers \ {s} : login'[t] = login[t]
    BY <1>t, <2>1, CollectsFacts DEF Results
  <2>3. /\ \A d \in Chars \ {c} : live'[s][d] = live[s][d]
        /\ \A t \in Servers \ {s} : live'[t] = live[t]
    BY <1>t, <1>c, <2>1, LiveFacts
  <2>4. \A d \in Chars : live'[s][d].on => live[s][d].on
    BY <2>1, <2>3
  <2> QED
    BY <2>1, <2>2, <2>3, <2>4, QuietKept DEF Local
<1>7. ASSUME NEW area \in Areas, FindLoginZoneTime(k, s, area)
      PROVE  Kept'
  <2>1. /\ Collects(k, s, "ok")
        /\ KickChar(s, c, live[s][c].data, area)
        /\ UNCHANGED <<row, up>>
    BY <1>7 DEF FindLoginZoneTime
  <2>2. /\ up[s] # "down" /\ login'[s].st = "empty"
        /\ login[s].st \notin {"read", "mark", "create"}
        /\ \A t \in Servers \ {s} : login'[t] = login[t]
    BY <1>t, <2>1, CollectsFacts DEF Results
  <2>3. live[s][c].data \in Data
    BY <1>t, <1>c, LiveType, AbsentType DEF Player
  <2> QED
    BY <1>c, <2>1, <2>2, <2>3, KickCharKept
<1> QED
  BY <1>1, <1>2, <1>3, <1>4, <1>5, <1>6, <1>7 DEF FindLogin

\* A result that gets stale keeps the invariant.
LEMMA LoginAgesKept ==
  ASSUME IInv, Grows, NEW s \in Servers, LoginAges(s)
  PROVE  Kept'
<1>t. TypeOK
  BY DEF IInv
<1>1. /\ login'[s] = [login[s] EXCEPT !.stale = TRUE]
      /\ \A t \in Servers \ {s} : login'[t] = login[t]
      /\ login[s].st \in Results /\ up[s] # "down"
      /\ UNCHANGED <<row, queue, live, up>>
  BY <1>t, SetLoginFacts DEF LoginAges
<1>2. login'[s].st = login[s].st
  BY <1>t, <1>1, LoginFields DEF Login
<1> QED
  BY <1>1, <1>2, QuietKept DEF Local, Results

\* tick_login keeps the invariant: what it makes was not in the game, and what
\* it gives up again does not get there.
LEMMA TickLoginKept ==
  ASSUME IInv, Grows, NEW s \in Servers, TickLogin(s)
  PROVE  Kept'
<1> DEFINE c == login[s].c
<1>t. TypeOK
  BY DEF IInv
<1>c. c \in Chars
  BY <1>t, LoginFields
<1>u. login[s].st = "create" /\ up[s] # "down"
  BY DEF TickLogin, TickLoginUsurp, TickLoginCreate, TickLoginNoSlot,
     TickLoginNoRoom, TickLoginNoItem, Creating
<1>l. /\ \A t \in Servers \ {s} : login'[t] = login[t]
      /\ login'[s].st \in {"ok", "failed"}
  <2>1. PICK l : /\ SetLogin(s, l)
                 /\ l \in {Result(s, "ok", None), Result(s, "failed", None),
                           [Result(s, "ok", None) EXCEPT !.usurp = TRUE]}
    BY DEF TickLogin, TickLoginUsurp, TickLoginCreate, TickLoginNoSlot,
       TickLoginNoRoom, TickLoginNoItem
  <2>2. /\ Result(s, "ok", None).st = "ok"
        /\ [Result(s, "ok", None) EXCEPT !.usurp = TRUE].st = "ok"
        /\ Result(s, "failed", None).st = "failed"
    BY <1>t, ResultFacts
  <2>3. l.st \in {"ok", "failed"}
    BY <2>1, <2>2
  <2>4. login'[s] = l /\ \A t \in Servers \ {s} : login'[t] = login[t]
    BY <1>t, <2>1, SetLoginFacts
  <2> QED
    BY <2>3, <2>4
<1>1. CASE TickLoginUsurp(s)
  <2> DEFINE p == [live[s][c] EXCEPT !.plr = None, !.lost = FALSE]
  <2>1. /\ UNCHANGED <<row, queue, up>>
        /\ live' = live \/ (live[s][c].on /\ live' = [live EXCEPT ![s][c] = p])
    BY <1>1 DEF TickLoginUsurp
  <2>2. /\ \A t \in Servers \ {s} : live'[t] = live[t]
        /\ \A d \in Chars : live'[s][d].on => live[s][d].on
    BY <1>t, <1>c, <2>1, LiveFacts
  <2> QED
    BY <1>u, <1>l, <2>1, <2>2, QuietKept DEF Local
<1>2. ASSUME ~login[s].current, UNCHANGED <<row, queue, up>>,
             \/ live' = live
             \/ \E p : live' = [live EXCEPT ![s][c] = p]
      PROVE  Kept'
  <2>1. /\ \A t \in Servers \ {s} : live'[t] = live[t]
        /\ \A d \in Chars : live'[s][d].on => live[s][d].on \/ d = c
    <3>1. CASE live' = live
      BY <3>1
    <3>2. CASE \E p : live' = [live EXCEPT ![s][c] = p]
      <4>1. PICK p : live' = [live EXCEPT ![s][c] = p]
        BY <3>2
      <4>2. /\ \A d \in Chars \ {c} : live'[s][d] = live[s][d]
            /\ \A t \in Servers \ {s} : live'[t] = live[t]
        BY <1>t, <1>c, <4>1, LiveFacts
      <4> QED
        BY <4>2
    <3> QED
      BY <1>2, <3>1, <3>2
  <2>2. \A d \in Chars : live'[s][d].on =>
          \/ live[s][d].on
          \/ /\ login[s].st = "create" /\ login[s].c = d
             /\ ~login[s].current /\ login'[s].st # "create"
    BY <1>u, <1>l, <1>2, <2>1
  <2>3. Local(s)
    BY <1>l, <1>2, <2>1 DEF Local
  <2>4. /\ login[s].st \notin {"read", "mark"}
        /\ login'[s].st \notin {"read", "mark", "create"}
    BY <1>u, <1>l
  <2> QED
    BY <1>u, <1>2, <2>2, <2>3, <2>4, QuietKept
<1>3. CASE TickLoginCreate(s)
  BY <1>2, <1>3 DEF TickLoginCreate
<1>4. CASE TickLoginNoSlot(s)
  BY <1>2, <1>4 DEF TickLoginNoSlot
<1>5. CASE TickLoginNoItem(s)
  BY <1>2, <1>5 DEF TickLoginNoItem
<1>6. CASE TickLoginNoRoom(s)
  <2> DEFINE e == Ask("release", c, Blank, Area(s))
  <2>1. /\ AddQuery(s, e) /\ ~login[s].current
        /\ UNCHANGED <<row, live, up>>
    BY <1>6 DEF TickLoginNoRoom
  <2>2. /\ queue'[s] = Append(queue[s], e)
        /\ \A t \in Servers \ {s} : queue'[t] = queue[t]
    BY <1>t, <2>1, QueueFacts DEF AddQuery
  <2>3. e \in Query /\ e.op = "release" /\ e.c = c
    <3>1. e \in Query
      BY <1>c, AskType, BlankType, ServerType DEF Ops, Writes
    <3> QED
      BY <3>1 DEF Ask
  <2>4. ASSUME NEW d \in Chars, d = c, Untaken(d)'
        PROVE  ~Holds(s, d)'
    <3>1. ~live'[s][d].on
      BY <1>u, <2>1, <2>4 DEF IInv, ServerInv, CreateInv, Grows
    <3>2. login'[s].st # "create"
      BY <1>l
    <3> QED
      BY <3>1, <3>2 DEF Holds
  <2>5. ServerInv(s)'
    <3>1. ServerInv(s) /\ up'[s] # "down"
      BY <1>u, <2>1 DEF IInv
    <3>2. /\ login[s].st \notin {"read", "mark"}
          /\ login'[s].st \notin {"read", "mark", "create"}
      BY <1>u, <1>l
    <3>3. \A d \in Chars :
            e.c = d /\ e.op \in {"exit", "release"} /\ Untaken(d)' =>
              ~Holds(s, d)'
      BY <2>3, <2>4
    <3>4. \A d \in Chars : live'[s][d].on => live[s][d].on
      BY <2>1
    <3>5. e.op # "load" /\ e.op # "exit"
      BY <2>3
    <3> QED
      BY <1>t, <1>u, <2>1, <2>2, <2>3, <3>1, <3>2, <3>3, <3>4, <3>5, EnqueueStep
  <2>6. Local(s)
    BY <1>l, <2>1, <2>2 DEF Local
  <2> QED
    BY <1>l, <2>1, <2>5, <2>6, LocalStep
<1> QED
  BY <1>1, <1>3, <1>4, <1>5, <1>6 DEF TickLogin

\* The steps of the game loop keep the invariant.
LEMMA GameKept ==
  ASSUME IInv, Grows, NEW s \in Servers, NEW c \in Chars, Game(s, c)
  PROVE  Kept'
<1> DEFINE ply == live[s][c]
<1>t. TypeOK
  BY DEF IInv
<1>p. ply \in Player /\ ply.data \in Data
  BY <1>t, LiveType, AbsentType DEF Player
<1>1. ASSUME NEW p, live' = [live EXCEPT ![s][c] = p], ply.on, up[s] = "up",
             UNCHANGED <<row, queue, login, up>>
      PROVE  Kept'
  <2>1. /\ \A d \in Chars \ {c} : live'[s][d] = live[s][d]
        /\ \A t \in Servers \ {s} : live'[t] = live[t]
    BY <1>t, <1>1, LiveFacts
  <2>2. \A d \in Chars : live'[s][d].on => live[s][d].on
    BY <1>1, <2>1
  <2> QED
    BY <1>1, <2>1, <2>2, QuietKept DEF Local
<1>2. CASE Progress(s, c)
  <2> DEFINE p == [ply EXCEPT !.data = [ply.data EXCEPT !.ver = ply.data.ver + 1]]
  <2>1. /\ live' = [live EXCEPT ![s][c] = p] /\ ply.on /\ up[s] = "up"
        /\ UNCHANGED <<row, queue, login, up>>
    BY <1>2 DEF Progress, Playing
  <2> QED
    BY <1>1, <2>1
<1>3. CASE Backup(s, c)
  <2> DEFINE e == Ask("save", c, ply.data, Area(s))
  <2>1. /\ AddQuery(s, e) /\ up[s] = "up"
        /\ UNCHANGED <<row, login, live, up>>
    BY <1>3 DEF Backup, Playing
  <2>2. /\ queue'[s] = Append(queue[s], e)
        /\ \A t \in Servers \ {s} : queue'[t] = queue[t]
    BY <1>t, <2>1, QueueFacts DEF AddQuery
  <2>3. e \in Query /\ e.op = "save"
    <3>1. e \in Query
      BY <1>p, AskType, ServerType DEF Ops, Writes
    <3> QED
      BY <3>1 DEF Ask
  <2>4. ServerInv(s)'
    BY <2>1, <2>2, <2>3, EnqueueStep DEF IInv
  <2>5. Local(s)
    BY <2>1, <2>2 DEF Local
  <2> QED
    BY <2>1, <2>4, <2>5, LocalStep
<1>4. ASSUME NEW m \in Mirrors, ChooseMirror(s, c, m)
      PROVE  Kept'
  <2> DEFINE p == [ply EXCEPT !.data = [ply.data EXCEPT !.mirror = m]]
  <2>1. /\ live' = [live EXCEPT ![s][c] = p] /\ ply.on /\ up[s] = "up"
        /\ UNCHANGED <<row, queue, login, up>>
    BY <1>4 DEF ChooseMirror, Playing
  <2> QED
    BY <1>1, <2>1
<1>5. ASSUME NEW area \in Areas, Leave(s, c, area)
      PROVE  Kept'
  <2>1. /\ KickChar(s, c, ply.data, area) /\ up[s] # "down"
        /\ UNCHANGED <<row, login, up>>
    BY <1>5 DEF Leave, Playing
  <2> QED
    BY <1>p, <2>1, KickCharKept
<1>6. ASSUME NEW area \in Areas, NEW m \in Mirrors, ChangeArea(s, c, area, m)
      PROVE  Kept'
  <2> DEFINE data == [ply.data EXCEPT !.mirror = m]
  <2>1. /\ KickChar(s, c, data, area) /\ up[s] # "down"
        /\ UNCHANGED <<row, login, up>>
    BY <1>6 DEF ChangeArea, Playing
  <2>2. data \in Data
    BY <1>p DEF Data
  <2> QED
    BY <2>1, <2>2, KickCharKept
<1> QED
  BY <1>2, <1>3, <1>4, <1>5, <1>6 DEF Game

-----------------------------------------------------------------------------

\* What an update of the server's own row can change.
LEMMA WrittenFacts ==
  ASSUME TypeOK, NEW s \in Servers, NEW q \in Query, q.op \in Writes,
         row' = Written(s, q)
  PROVE  \A c \in Chars :
           \/ row'[c].cur = row[c].cur /\ row'[c].allowed = row[c].allowed
           \/ /\ c = q.c /\ row[c].cur = s
              /\ q.op \in {"exit", "release"}
<1> DEFINE r == row[q.c]
<1>1. q.c \in Chars /\ r \in Row
  BY DEF Query, TypeOK
<1>2. CASE r.cur # s
  BY <1>2 DEF Written
<1>3. CASE r.cur = s /\ q.op = "save"
  <2>1. row' = [row EXCEPT ![q.c] = [r EXCEPT !.data = q.data]]
    BY <1>3 DEF Written
  <2>2. /\ [r EXCEPT !.data = q.data].cur = r.cur
        /\ [r EXCEPT !.data = q.data].allowed = r.allowed
    BY <1>1 DEF Row
  <2> QED
    BY <1>1, <2>1, <2>2 DEF TypeOK
<1>4. CASE r.cur = s /\ q.op \in {"exit", "release"}
  <2>1. \E x : row' = [row EXCEPT ![q.c] = x]
    BY <1>4 DEF Written
  <2> QED
    BY <1>1, <1>4, <2>1 DEF TypeOK
<1> QED
  BY <1>2, <1>3, <1>4 DEF Writes

\* A row that an update of server s changes is one whose character s gave up
\* and will not give up again.
LEMMA WrittenGivenUp ==
  ASSUME IInv, Grows, NEW s \in Servers, queue[s] # <<>>,
         queue[s][1].op \in Writes, row' = Written(s, queue[s][1])
  PROVE  /\ OwnRows(s)
         /\ \A c \in Chars : row'[c].cur = row[c].cur \/ ~Untaken(c)' \/
              /\ ~Holds(s, c)
              /\ \A i \in DOMAIN queue[s] :
                   i > 1 /\ queue[s][i].op = "exit" => queue[s][i].c # c
<1>t. TypeOK
  BY DEF IInv
<1>q. 1 \in DOMAIN queue[s] /\ queue[s][1] \in Query
  BY <1>t, QueueType
<1>r. \A c \in Chars :
        \/ row'[c].cur = row[c].cur /\ row'[c].allowed = row[c].allowed
        \/ /\ c = queue[s][1].c /\ row[c].cur = s
           /\ queue[s][1].op \in {"exit", "release"}
  BY <1>t, <1>q, WrittenFacts
<1>1. OwnRows(s)
  BY <1>r DEF OwnRows
<1>2. ASSUME NEW c \in Chars, row'[c].cur # row[c].cur, Untaken(c)'
      PROVE  /\ ~Holds(s, c)
             /\ \A i \in DOMAIN queue[s] :
                  i > 1 /\ queue[s][i].op = "exit" => queue[s][i].c # c
  <2>1. c = queue[s][1].c /\ queue[s][1].op \in {"exit", "release"}
    BY <1>2, <1>r
  <2>2. GiveUpInv(s) /\ Untaken(c)
    BY <1>2 DEF IInv, ServerInv, Grows
  <2>3. ~Holds(s, c)
    BY <1>q, <2>1, <2>2 DEF GiveUpInv
  <2>4. ASSUME NEW i \in DOMAIN queue[s], i > 1, queue[s][i].op = "exit"
        PROVE  queue[s][i].c # c
    <3>1. 1 \in 1..(i - 1)
      BY <1>t, <2>4, QueueType
    <3> QED
      BY <2>1, <2>2, <2>4, <3>1 DEF GiveUpInv
  <2> QED
    BY <2>3, <2>4
<1> QED
  BY <1>1, <1>2

\* An executed save, logout or release keeps the invariant.
LEMMA DbWriteKept ==
  ASSUME IInv, Grows, NEW s \in Servers, DbWrite(s)
  PROVE  Kept'
<1>t. TypeOK
  BY DEF IInv
<1>1. /\ queue[s] # <<>> /\ queue[s][1].op \in Writes
      /\ row' = Written(s, queue[s][1])
      /\ queue' = [queue EXCEPT ![s] = Tail(queue[s])]
      /\ up[s] # "down"
      /\ UNCHANGED <<login, live, up>>
  BY DEF DbWrite, TopIs, RemoveTopQuery
<1>2. /\ queue'[s] = Tail(queue[s])
      /\ \A t \in Servers \ {s} : queue'[t] = queue[t]
  BY <1>t, <1>1, QueueFacts
<1>3. queue[s][1].op # "load"
  BY <1>1 DEF Writes
<1>4. ServerInv(s)'
  BY <1>t, <1>1, <1>2, <1>3, WrittenGivenUp, DequeueStep DEF IInv
<1>5. Local(s) /\ OwnRows(s)
  BY <1>1, <1>2, WrittenGivenUp DEF Local
<1> QED
  BY <1>1, <1>4, <1>5, LocalStep

\* So does one that a reconnect sends twice.
LEMMA DbWriteAgainKept ==
  ASSUME IInv, Grows, NEW s \in Servers, DbWriteAgain(s)
  PROVE  Kept'
<1>t. TypeOK
  BY DEF IInv
<1>1. /\ queue[s] # <<>> /\ queue[s][1].op \in Writes
      /\ row' = Written(s, queue[s][1])
      /\ up[s] # "down"
      /\ UNCHANGED <<queue, login, live, up>>
  BY DEF DbWriteAgain, TopIs
<1>2. \A c \in Chars : row'[c].cur = row[c].cur \/ ~Untaken(c)' \/
        /\ ~Holds(s, c)
        /\ \A i \in DOMAIN queue[s] :
             i > 1 /\ queue[s][i].op = "exit" => queue[s][i].c # c
  BY <1>1, WrittenGivenUp
<1>3. OwnRows(s)
  BY <1>1, WrittenGivenUp
<1>4. ServerInv(s)
  BY DEF IInv
<1>5. login[s].st # "mark"
  BY <1>1, <1>4 DEF ServerInv, LoadInv, Writes
<1>g. \A c \in Chars : Holds(s, c)' <=> Holds(s, c)
  BY <1>1 DEF Holds
<1>6. ServerInv(s)'
  <2>1. LoadInv(s)'
    BY <1>1, <1>4 DEF ServerInv, LoadInv
  <2>3. LeaseInv(s)'
    BY <1>2, <1>4, <1>g DEF ServerInv, LeaseInv, Grows
  <2>4. CreateInv(s)'
    <3>1. login[s].c \in Chars
      BY <1>t, LoginFields
    <3> QED
      BY <3>1, <1>1, <1>4 DEF ServerInv, CreateInv, Grows
  <2>5. GiveUpInv(s)'
    BY <1>1, <1>2, <1>4, <1>g DEF ServerInv, GiveUpInv, Grows
  <2>7. DownInv(s)'
    BY <1>1 DEF DownInv
  <2> QED
    BY <2>1, <2>3, <2>4, <2>5, <2>7 DEF ServerInv
<1>7. Local(s)
  BY <1>1 DEF Local
<1> QED
  BY <1>1, <1>3, <1>6, <1>7, LocalStep

-----------------------------------------------------------------------------

\* What load_char finds when it begins.
LEMMA LoadingFacts ==
  ASSUME IInv, NEW s \in Servers, Loading(s)
  PROVE  /\ up[s] # "down" /\ queue[s] # <<>>
         /\ 1 \in DOMAIN queue[s] /\ Head(queue[s]) = queue[s][1]
         /\ queue[s][1].op = "load"
         /\ login[s].c = queue[s][1].c
         /\ login[s].st = "read"
         /\ UNCHANGED <<live, up>>
<1>1. /\ up[s] # "down" /\ queue[s] # <<>>
      /\ Head(queue[s]).op = "load"
      /\ login[s].st = "read"
      /\ UNCHANGED <<live, up>>
  BY DEF Loading, TopIs
<1>2. 1 \in DOMAIN queue[s] /\ Head(queue[s]) = queue[s][1]
  BY <1>1, QueueType DEF IInv
<1>3. login[s].c = queue[s][1].c
  BY <1>1, <1>2 DEF IInv, ServerInv, LoadInv
<1> QED
  BY <1>1, <1>2, <1>3

\* load_char ends without a character.
LEMMA LoadEndsKept ==
  ASSUME IInv, Grows, NEW s \in Servers, Loading(s), RemoveTopQuery(s), row' = row,
         NEW l, SetLogin(s, l), l.st \in Results
  PROVE  Kept'
<1>t. TypeOK
  BY DEF IInv
<1>1. /\ up[s] # "down" /\ queue[s] # <<>>
      /\ queue[s][1].op = "load"
      /\ UNCHANGED <<live, up>>
  BY LoadingFacts
<1>2. /\ queue'[s] = Tail(queue[s])
      /\ \A t \in Servers \ {s} : queue'[t] = queue[t]
  BY <1>t, QueueFacts DEF RemoveTopQuery
<1>3. /\ login'[s] = l
      /\ \A t \in Servers \ {s} : login'[t] = login[t]
  BY <1>t, SetLoginFacts
<1>4. login'[s].st \notin {"read", "mark", "create"}
  BY <1>3 DEF Results
<1>5. ServerInv(s)'
  BY <1>t, <1>1, <1>2, <1>4, DequeueStep DEF IInv
<1>6. Local(s)
  BY <1>1, <1>2, <1>3 DEF Local
<1> QED
  BY <1>4, <1>5, <1>6, LocalStep

\* A load that load_char refuses or redirects keeps the invariant.
LEMMA DbLoadFailsKept ==
  ASSUME IInv, Grows, NEW s \in Servers,
         DbLoadRefused(s) \/ DbLoadElsewhere(s) \/ DbLoadOtherMirror(s)
  PROVE  Kept'
<1>t. TypeOK
  BY DEF IInv
<1>1. PICK l : /\ Loading(s) /\ RemoveTopQuery(s) /\ row' = row
               /\ SetLogin(s, l)
               /\ \/ \E to : l = Result(s, "failed", to)
                  \/ \E to : l = Result(s, "newarea", to)
                  \/ \E to, b : l = [Result(s, "newarea", to) EXCEPT !.current = b]
  BY DEF DbLoadRefused, DbLoadElsewhere, DbLoadOtherMirror
<1>2. l.st \in Results
  <2>1. ASSUME NEW to, l = Result(s, "failed", to)
        PROVE  l.st = "failed"
    BY <1>t, <2>1, ResultFacts
  <2>2. ASSUME NEW to, l = Result(s, "newarea", to)
        PROVE  l.st = "newarea"
    BY <1>t, <2>2, ResultFacts
  <2>3. ASSUME NEW to, NEW b,
               l = [Result(s, "newarea", to) EXCEPT !.current = b]
        PROVE  l.st = "newarea"
    BY <1>t, <2>3, ResultFacts
  <2> QED
    BY <1>1, <2>1, <2>2, <2>3 DEF Results
<1> QED
  BY <1>1, <1>2, LoadEndsKept

\* load_char copies the row.
LEMMA DbLoadCopyKept ==
  ASSUME IInv, Grows, NEW s \in Servers, DbLoadCopy(s)
  PROVE  Kept'
<1> DEFINE r == row[queue[s][1].c]
           l == [login[s] EXCEPT !.st = "mark", !.data = r.data,
                                 !.current = r.cur = s]
<1>t. TypeOK
  BY DEF IInv
<1>i. ServerInv(s)
  BY DEF IInv
<1>1. /\ up[s] # "down" /\ queue[s] # <<>>
      /\ queue[s][1].op = "load"
      /\ Head(queue[s]) = queue[s][1]
      /\ login[s].c = queue[s][1].c
      /\ login[s].st = "read"
      /\ UNCHANGED <<live, up>>
  BY LoadingFacts DEF DbLoadCopy
<1>2. /\ MayLogin(s, r)
      /\ GetMirror(s, Area(s), r.data.mirror) = s
      /\ SetLogin(s, l)
      /\ UNCHANGED <<row, queue>>
  BY <1>1 DEF DbLoadCopy
<1>3. /\ login'[s] = l
      /\ \A t \in Servers \ {s} : login'[t] = login[t]
  BY <1>t, <1>2, SetLoginFacts
<1>4. /\ login'[s].st = "mark"
      /\ login'[s].c = login[s].c
      /\ login'[s].current = (r.cur = s)
  BY <1>t, <1>3, LoginFields DEF Login
<1>g. ASSUME NEW c \in Chars
      PROVE  Holds(s, c)' => Holds(s, c)
  BY <1>1, <1>4, HoldsFrom
<1>6. ServerInv(s)'
  <2>1. LoadInv(s)'
    BY <1>1, <1>2, <1>4, <1>i DEF ServerInv, LoadInv
  <2>3. LeaseInv(s)'
    BY <1>2, <1>i, <1>g DEF ServerInv, LeaseInv, Grows
  <2>4. CreateInv(s)'
    BY <1>4 DEF CreateInv
  <2>5. GiveUpInv(s)'
    BY <1>2, <1>i, <1>g DEF ServerInv, GiveUpInv, Grows
  <2>7. DownInv(s)'
    BY <1>1 DEF DownInv
  <2> QED
    BY <2>1, <2>3, <2>4, <2>5, <2>7 DEF ServerInv
<1>7. \A t \in Servers \ {s} : ServerInv(t)'
  BY <1>t, <1>1, <1>2, <1>3, OtherServer DEF IInv
<1> QED
  BY <1>6, <1>7 DEF Kept

\* load_char marks the row: it is as it was when it was read, or the character
\* is taken.
LEMMA DbLoadMarkKept ==
  ASSUME IInv, Grows, NEW s \in Servers, DbLoadMark(s)
  PROVE  Kept'
<1> DEFINE l == [login[s] EXCEPT !.st = "create"]
<1>t. TypeOK
  BY DEF IInv
<1>i. ServerInv(s)
  BY DEF IInv
<1>1. /\ up[s] # "down" /\ queue[s] # <<>>
      /\ 1 \in DOMAIN queue[s] /\ Head(queue[s]) = queue[s][1]
      /\ queue[s][1].op = "load"
      /\ login[s].st = "mark"
      /\ SetLogin(s, l)
      /\ queue' = [queue EXCEPT ![s] = Tail(queue[s])]
      /\ UNCHANGED <<live, up>>
  <2>1. /\ up[s] # "down" /\ queue[s] # <<>>
        /\ Head(queue[s]).op = "load"
        /\ login[s].st = "mark"
        /\ SetLogin(s, l)
        /\ queue' = [queue EXCEPT ![s] = Tail(queue[s])]
        /\ UNCHANGED <<live, up>>
    BY DEF DbLoadMark, TopIs, RemoveTopQuery
  <2>2. 1 \in DOMAIN queue[s] /\ Head(queue[s]) = queue[s][1]
    BY <1>t, <2>1, QueueType
  <2> QED
    BY <2>1, <2>2
<1>2. PICK c \in Chars : c = queue[s][1].c
  BY <1>t, <1>1, QueueType
<1>3. login[s].c = c
  BY <1>1, <1>2, <1>i DEF ServerInv, LoadInv
<1>4. /\ row'[c].cur = s
      /\ row'[c].allowed = Area(s)
      /\ \A d \in Chars \ {c} : row'[d] = row[d]
  <2>1. row' = [row EXCEPT ![c] = [row[c] EXCEPT !.cur = s, !.allowed = Area(s)]]
    BY <1>1, <1>2 DEF DbLoadMark
  <2>2. row[c] \in Row
    BY <1>t DEF TypeOK
  <2> QED
    BY <1>t, <2>1, <2>2 DEF TypeOK, Row
<1>5. Untaken(c)' => row[c].cur = IF login[s].current THEN s ELSE None
  <2>1. CASE AsRead(s, c)
    BY <2>1 DEF AsRead
  <2>2. CASE ~AsRead(s, c)
    <3>1. struck' = [struck EXCEPT !.taken = @ \cup {c}]
      BY <1>1, <1>2, <2>2 DEF DbLoadMark
    <3> QED
      BY <1>t, <3>1 DEF Untaken, TypeOK, Struck
  <2> QED
    BY <2>1, <2>2
<1>6. /\ queue'[s] = Tail(queue[s])
      /\ \A t \in Servers \ {s} : queue'[t] = queue[t]
  BY <1>t, <1>1, QueueFacts
<1>7. /\ login'[s] = l
      /\ \A t \in Servers \ {s} : login'[t] = login[t]
  BY <1>t, <1>1, SetLoginFacts
<1>8. /\ login'[s].st = "create" /\ login'[s].c = c
      /\ login'[s].current = login[s].current
  BY <1>t, <1>3, <1>7, LoginFields DEF Login
<1>9. OwnRows(s)
  <2>1. ASSUME NEW t \in Servers \ {s}, Untaken(c)'
        PROVE  row[c].cur # t
    BY <1>5, <2>1, ServerType
  <2> QED
    BY <1>4, <2>1 DEF OwnRows
<1>q. \A i \in DOMAIN queue'[s] :
        /\ i \in Nat /\ i >= 1
        /\ i + 1 \in DOMAIN queue[s]
        /\ queue'[s][i] = queue[s][i + 1]
        /\ queue'[s][i].op \notin {"load", "release"}
  <2>1. ASSUME NEW i \in DOMAIN queue'[s]
        PROVE  /\ i \in Nat /\ i >= 1
               /\ i + 1 \in DOMAIN queue[s]
               /\ queue'[s][i] = queue[s][i + 1]
    BY <1>t, <1>1, <1>6, TailFacts
  <2>2. \A j \in DOMAIN queue[s] :
          queue[s][j].op \in {"load", "release"} => j <= 1
    BY <1>1, <1>i DEF ServerInv, LoadInv
  <2>3. ASSUME NEW i \in DOMAIN queue'[s]
        PROVE  queue'[s][i].op \notin {"load", "release"}
    BY <2>1, <2>2
  <2> QED
    BY <2>1, <2>3
<1>h. ASSUME NEW d \in Chars
      PROVE  /\ Holds(s, d)' => Holds(s, d) \/ d = c
             /\ ~Holds(s, d) /\ row[d].cur = s /\ Untaken(d)' =>
                  ~Holds(s, d)'
  <2>1. /\ Holds(s, d)' = \/ live'[s][d].on
                          \/ /\ login'[s].st = "create" /\ login'[s].c = d
                             /\ ~login'[s].current
        /\ Holds(s, d) = \/ live[s][d].on
                         \/ /\ login[s].st = "create" /\ login[s].c = d
                            /\ ~login[s].current
    BY DEF Holds
  <2>2. row[c].cur = s /\ Untaken(c)' => login[s].current
    BY <1>5, ServerType
  <2> QED
    BY <1>1, <1>8, <2>1, <2>2
<1>10. ServerInv(s)'
  <2>1. LoadInv(s)'
    BY <1>8, <1>q DEF LoadInv
  <2>3. LeaseInv(s)'
    BY <1>4, <1>i, <1>h DEF ServerInv, LeaseInv, Grows
  <2>4. CreateInv(s)'
    <3>1. ASSUME ~login[s].current, Untaken(c)'
          PROVE  ~live[s][c].on
      <4>1. row[c].cur # s
        BY <1>5, <3>1, ServerType
      <4>2. ~Holds(s, c)
        BY <1>i, <3>1, <4>1 DEF ServerInv, LeaseInv, Grows
      <4> QED
        BY <4>2 DEF Holds
    <3> QED
      BY <1>1, <1>8, <3>1 DEF CreateInv
  <2>5. GiveUpInv(s)'
    <3> SUFFICES ASSUME NEW d \in Chars, NEW i \in DOMAIN queue'[s],
                        Untaken(d)', queue'[s][i].c = d,
                        queue'[s][i].op = "exit"
                 PROVE  /\ ~Holds(s, d)'
                        /\ row'[d].cur = s
                        /\ \A j \in 1..(i - 1) :
                             queue'[s][j].op \in {"exit", "release"} =>
                               queue'[s][j].c # d
      BY <1>q DEF GiveUpInv
    <3>1. /\ i + 1 \in DOMAIN queue[s] /\ queue[s][i + 1].c = d
          /\ queue[s][i + 1].op = "exit"
          /\ i \in Nat /\ i >= 1
      BY <1>q
    <3>2. /\ ~Holds(s, d)
          /\ row[d].cur = s
          /\ \A j \in 1..i :
               queue[s][j].op \in {"exit", "release"} => queue[s][j].c # d
      BY <1>i, <3>1 DEF ServerInv, GiveUpInv, Grows
    <3>3. \A j \in 1..(i - 1) : /\ j + 1 \in 1..i
                                /\ queue'[s][j] = queue[s][j + 1]
      BY <1>t, <1>6, <3>1, QueueType
    <3> QED
      BY <1>4, <1>h, <3>2, <3>3
  <2>7. DownInv(s)'
    BY <1>1 DEF DownInv
  <2> QED
    BY <2>1, <2>3, <2>4, <2>5, <2>7 DEF ServerInv
<1>11. Local(s)
  BY <1>1, <1>6, <1>7 DEF Local
<1> QED
  BY <1>8, <1>9, <1>10, <1>11, LocalStep

\* A server that is down has no claim on a row: whatever happens to the rows
\* keeps what is known about it.
LEMMA DownServer ==
  ASSUME TypeOK, NEW t \in Servers, ServerInv(t), up[t] = "down",
         UNCHANGED <<live, up>>,
         queue'[t] = queue[t], login'[t] = login[t]
  PROVE  ServerInv(t)'
<1>1. DownInv(t)
  BY DEF ServerInv
<1>2. queue[t] = <<>> /\ login[t].st = "empty" /\ \A c \in Chars : ~live[t][c].on
  BY <1>1 DEF DownInv
<1>3. \A c \in Chars : ~Holds(t, c)'
  BY <1>2 DEF Holds
<1>4. LoadInv(t)' /\ CreateInv(t)' /\ DownInv(t)'
  BY <1>2 DEF LoadInv, CreateInv, DownInv
<1>5. LeaseInv(t)' /\ GiveUpInv(t)'
  BY <1>2, <1>3 DEF LeaseInv, GiveUpInv
<1> QED
  BY <1>4, <1>5 DEF ServerInv

\* db_rescue_char: the row is taken from a server that is down, or from one
\* that runs, and then struck says so.
LEMMA DbRescueKept ==
  ASSUME IInv, Grows, NEW s \in Servers, DbRescue(s)
  PROVE  Kept'
<1>t. TypeOK
  BY DEF IInv
<1>1. /\ up[s] # "down" /\ queue[s] # <<>>
      /\ queue[s][1].op = "rescue"
      /\ Head(queue[s]) = queue[s][1]
      /\ queue' = [queue EXCEPT ![s] = Tail(queue[s])]
      /\ UNCHANGED <<login, live, up>>
  <2>1. /\ up[s] # "down" /\ queue[s] # <<>>
        /\ Head(queue[s]).op = "rescue"
        /\ queue' = [queue EXCEPT ![s] = Tail(queue[s])]
        /\ UNCHANGED <<login, live, up>>
    BY DEF DbRescue, TopIs, RemoveTopQuery
  <2>2. Head(queue[s]) = queue[s][1]
    BY <1>t, <2>1, QueueType
  <2> QED
    BY <2>1, <2>2
<1>2. PICK c \in Chars : c = queue[s][1].c
  BY <1>t, <1>1, QueueType
<1>3. /\ queue'[s] = Tail(queue[s])
      /\ \A t \in Servers \ {s} : queue'[t] = queue[t]
  BY <1>t, <1>1, QueueFacts
<1>4. Local(s)
  BY <1>1, <1>3 DEF Local
<1>r. \/ row' = row
      \/ /\ \E x : row' = [row EXCEPT ![c] = x]
         /\ Running(row[c].cur) =>
              struck' = [struck EXCEPT !.taken = @ \cup {c}]
  BY <1>1, <1>2 DEF DbRescue
<1>5. CASE row' = row
  <2>1. ServerInv(s)'
    BY <1>t, <1>1, <1>3, <1>5, DequeueStep DEF IInv
  <2> QED
    BY <1>4, <1>5, <2>1, LocalStep
<1>6. CASE /\ \E x : row' = [row EXCEPT ![c] = x]
           /\ Running(row[c].cur) =>
                struck' = [struck EXCEPT !.taken = @ \cup {c}]
  <2>1. \A d \in Chars \ {c} : row'[d] = row[d]
    BY <1>t, <1>6 DEF TypeOK
  <2>2. Running(row[c].cur) => ~Untaken(c)'
    BY <1>t, <1>6 DEF Untaken, TypeOK, Struck
  <2>3. ServerInv(s)'
    <3>1. ASSUME Untaken(c)'
          PROVE  /\ ~Holds(s, c)
                 /\ \A i \in DOMAIN queue[s] :
                      i > 1 /\ queue[s][i].op = "exit" => queue[s][i].c # c
      <4>1. row[c].cur # s
        BY <1>1, <2>2, <3>1, ServerType DEF Running
      <4>2. LeaseInv(s) /\ GiveUpInv(s) /\ Untaken(c)
        BY <3>1 DEF IInv, ServerInv, Grows
      <4> QED
        BY <4>1, <4>2 DEF LeaseInv, GiveUpInv
    <3>2. \A d \in Chars : row'[d].cur = row[d].cur \/ ~Untaken(d)' \/
            /\ ~Holds(s, d)
            /\ \A i \in DOMAIN queue[s] :
                 i > 1 /\ queue[s][i].op = "exit" => queue[s][i].c # d
      BY <2>1, <3>1
    <3>3. /\ ServerInv(s)
          /\ login'[s] = login[s] /\ queue[s][1].op # "load"
          /\ up'[s] = up[s] /\ live'[s] = live[s]
      BY <1>1 DEF IInv
    <3> QED
      BY <1>t, <1>1, <1>3, <3>2, <3>3, DequeueStep
  <2>4. ASSUME NEW t \in Servers \ {s}
        PROVE  ServerInv(t)'
    <3>i. ServerInv(t)
      BY DEF IInv
    <3>1. CASE up[t] = "down"
      BY <1>t, <1>1, <1>3, <3>i, <3>1, DownServer
    <3>2. CASE up[t] # "down"
      <4>1. row[c].cur = t => ~Untaken(c)'
        BY <2>2, <3>2, ServerType DEF Running
      <4>2. \A d \in Chars : \/ row'[d].cur = row[d].cur
                             \/ row[d].cur # t
                             \/ ~Untaken(d)'
        BY <2>1, <4>1
      <4> QED
        BY <1>t, <1>1, <1>3, <3>i, <4>2, OtherServer
    <3> QED
      BY <3>1, <3>2
  <2> QED
    BY <2>3, <2>4 DEF Kept
<1> QED
  BY <1>r, <1>5, <1>6

\* Every step of the database thread keeps the invariant.
LEMMA DbStepKept ==
  ASSUME IInv, Grows, NEW s \in Servers, DbStep(s)
  PROVE  Kept'
BY DbWriteKept, DbLoadFailsKept, DbLoadCopyKept, DbLoadMarkKept, DbRescueKept
   DEF DbStep

-----------------------------------------------------------------------------

\* A process that ends has no claims.
LEMMA ProcessEndsKept ==
  ASSUME IInv, Grows, NEW s \in Servers, ProcessEnds(s), row' = row
  PROVE  Kept'
<1>t. TypeOK
  BY DEF IInv
<1>c. login[s].c \in Chars
  BY <1>t, LoginFields
<1>1. /\ up'[s] = "down"
      /\ \A t \in Servers \ {s} : up'[t] = up[t]
  BY <1>t DEF ProcessEnds, TypeOK
<1>2. /\ queue'[s] = <<>>
      /\ \A t \in Servers \ {s} : queue'[t] = queue[t]
  BY <1>t, QueueFacts DEF ProcessEnds
<1>3. /\ login'[s] = Idle(login[s].c)
      /\ \A t \in Servers \ {s} : login'[t] = login[t]
  BY <1>t, SetLoginFacts DEF ProcessEnds
<1>4. login'[s].st = "empty"
  BY <1>3 DEF Idle
<1>5. /\ \A c \in Chars : ~live'[s][c].on
      /\ \A t \in Servers \ {s} : live'[t] = live[t]
  BY <1>t DEF ProcessEnds, TypeOK, Absent
<1>6. ServerInv(s)'
  <2>1. \A c \in Chars : ~Holds(s, c)'
    BY <1>4, <1>5 DEF Holds
  <2>2. LoadInv(s)' /\ CreateInv(s)'
    BY <1>2, <1>4 DEF LoadInv, CreateInv
  <2>3. LeaseInv(s)' /\ GiveUpInv(s)'
    BY <1>2, <2>1 DEF LeaseInv, GiveUpInv
  <2>4. DownInv(s)'
    BY <1>1, <1>2, <1>4, <1>5 DEF DownInv
  <2> QED
    BY <2>2, <2>3, <2>4 DEF ServerInv
<1>7. Local(s)
  BY <1>1, <1>2, <1>3, <1>5 DEF Local
<1> QED
  BY <1>4, <1>6, <1>7, LocalStep

\* init_database frees the rows that an earlier run of the server left behind.
LEMMA RestartKept ==
  ASSUME IInv, Grows, NEW s \in Servers, Restart(s)
  PROVE  Kept'
<1>t. TypeOK
  BY DEF IInv
<1>1. /\ up[s] = "down"
      /\ UNCHANGED <<queue, login, live>>
      /\ up' = [up EXCEPT ![s] = "up"]
      /\ \A c \in Chars :
           row'[c] = IF row[c].cur = s THEN [row[c] EXCEPT !.cur = None]
                                       ELSE row[c]
  BY DEF Restart
<1>2. /\ queue[s] = <<>>
      /\ login[s].st = "empty"
      /\ \A c \in Chars : ~live[s][c].on
  BY <1>1 DEF IInv, ServerInv, DownInv
<1>3. up'[s] = "up" /\ \A t \in Servers \ {s} : up'[t] = up[t]
  BY <1>t, <1>1 DEF TypeOK
<1>4. OwnRows(s)
  BY <1>1 DEF OwnRows
<1>5. ServerInv(s)'
  <2>1. \A c \in Chars : ~Holds(s, c)'
    BY <1>1, <1>2 DEF Holds
  <2>2. LoadInv(s)' /\ CreateInv(s)'
    BY <1>1, <1>2 DEF LoadInv, CreateInv
  <2>3. LeaseInv(s)' /\ GiveUpInv(s)'
    BY <1>1, <1>2, <2>1 DEF LeaseInv, GiveUpInv
  <2>4. DownInv(s)'
    BY <1>1, <1>2, <1>3 DEF DownInv
  <2> QED
    BY <2>2, <2>3, <2>4 DEF ServerInv
<1>6. Local(s)
  BY <1>1, <1>3 DEF Local
<1> QED
  BY <1>1, <1>2, <1>4, <1>5, <1>6, LocalStep

\* Starting, stopping and crashing servers, and the area table, keep it too.
LEMMA ServerLifeKept ==
  ASSUME IInv, Grows, NEW s \in Servers, ServerLife(s)
  PROVE  Kept'
<1>t. TypeOK
  BY DEF IInv
<1>1. CASE AreaAlive(s) \/ GoStale(s) \/ UpdateAreas(s)
  <2>1. UNCHANGED <<row, queue, login, live, up>>
    BY <1>1 DEF AreaAlive, GoStale, UpdateAreas
  <2> QED
    BY <2>1, UnchangedKept
<1>2. CASE StopBegin(s)
  <2>1. /\ up[s] = "up" /\ up' = [up EXCEPT ![s] = "stopping"]
        /\ UNCHANGED <<row, queue, login, live>>
    BY <1>2 DEF StopBegin
  <2>2. up'[s] = "stopping" /\ \A t \in Servers \ {s} : up'[t] = up[t]
    BY <1>t, <2>1 DEF TypeOK
  <2> QED
    BY <2>1, <2>2, QuietKept DEF Local
<1>3. CASE StopDone(s)
  BY <1>3, ProcessEndsKept DEF StopDone
<1>4. CASE Crash(s)
  BY <1>4, ProcessEndsKept DEF Crash
<1>5. CASE Restart(s)
  BY <1>5, RestartKept
<1>6. ASSUME NEW c \in Chars, NEW area \in Areas, ExitOnShutdown(s, c, area)
      PROVE  Kept'
  <2>1. /\ KickChar(s, c, live[s][c].data, area) /\ up[s] # "down"
        /\ UNCHANGED <<row, login, up>>
    BY <1>6 DEF ExitOnShutdown
  <2>2. live[s][c].data \in Data
    BY <1>t, LiveType, AbsentType DEF Player
  <2> QED
    BY <2>1, <2>2, KickCharKept
<1> QED
  BY <1>1, <1>2, <1>3, <1>4, <1>5, <1>6 DEF ServerLife

-----------------------------------------------------------------------------

\* The world starts with every character at rest and nothing queued.
LEMMA InductiveInit ==
  ASSUME Init
  PROVE  IInv
<1>1. TypeOK
  BY TypeInit
<1>2. ASSUME NEW s \in Servers
      PROVE  /\ queue[s] = <<>> /\ login[s].st = "empty"
             /\ up[s] = "up"
             /\ \A c \in Chars : ~live[s][c].on
  BY DEF Init, Idle, Absent
<1>3. ASSUME NEW s \in Servers
      PROVE  ServerInv(s)
  <2>1. \A c \in Chars : ~Holds(s, c)
    BY <1>2 DEF Holds
  <2>2. LoadInv(s) /\ CreateInv(s)
    BY <1>2 DEF LoadInv, CreateInv
  <2>3. LeaseInv(s) /\ GiveUpInv(s)
    BY <1>2, <2>1 DEF LeaseInv, GiveUpInv
  <2>4. DownInv(s)
    BY <1>2 DEF DownInv
  <2> QED
    BY <2>2, <2>3, <2>4 DEF ServerInv
<1> QED
  BY <1>1, <1>3 DEF IInv

\* Every step keeps the inductive invariant.
LEMMA InductiveStep == IInv /\ [Next]_vars => IInv'
<1> SUFFICES ASSUME IInv, [Next]_vars
             PROVE  IInv'
  OBVIOUS
<1>1. TypeOK'
  BY TypeStep DEF IInv
<1>2. Grows
  BY NextGrows DEF IInv
<1>3. Kept'
  <2>1. CASE UNCHANGED vars
    BY <1>2, <2>1, UnchangedKept DEF vars
  <2>2. CASE ClientStep
    BY <1>2, <2>2, ClientStepKept
  <2>3. ASSUME NEW k \in Clients, NEW s \in Servers, FindLogin(k, s)
        PROVE  Kept'
    BY <1>2, <2>3, FindLoginKept
  <2>4. ASSUME NEW s \in Servers,
               \/ LoginAges(s) \/ TickLogin(s) \/ DbStep(s)
               \/ DbWriteAgain(s) \/ ServerLife(s)
        PROVE  Kept'
    BY <1>2, <2>4, LoginAgesKept, TickLoginKept, DbStepKept, DbWriteAgainKept,
       ServerLifeKept
  <2>5. ASSUME NEW s \in Servers, NEW c \in Chars, Game(s, c)
        PROVE  Kept'
    BY <1>2, <2>5, GameKept
  <2> QED
    BY <2>1, <2>2, <2>3, <2>4, <2>5 DEF Next
<1> QED
  BY <1>1, <1>3 DEF IInv, Kept

\* The facts about queues, logins and rows of all servers always hold: of
\* every character, until two servers have a claim on it.
THEOREM Invariance == Spec => []IInv
<1>1. Init => IInv
  BY InductiveInit
<1>2. IInv /\ [Next]_vars => IInv'
  BY InductiveStep
<1> QED
  BY <1>1, <1>2, PTL DEF Spec

\* Whoever has a character in its game is the server its row names
\* (save_char's where clause lets its saves through), unless two of them
\* marked the row at the same time or a rescue took it from one that runs.
THEOREM LeaseHeldAlways == Spec => []LeaseHeld
<1>1. IInv => LeaseHeld
  BY DEF IInv, ServerInv, LeaseInv, LeaseHeld
<1> QED
  BY <1>1, Invariance, PTL

\* A character that was not taken in one of these two ways exists on at most
\* one server, whatever area changes, double logins, rescues, crashes and
\* restarts happen, and whatever happened to other characters.
THEOREM OneCopyUnlessTakenAlways == Spec => []OneCopyUnlessTaken
<1>1. IInv => OneCopyUnlessTaken
  BY DEF IInv, ServerInv, LeaseInv, OneCopyUnlessTaken
<1> QED
  BY <1>1, Invariance, PTL

-----------------------------------------------------------------------------

\* An update changes the saved data of its own character only, and that only
\* where the row names the server.
LEMMA WrittenData ==
  ASSUME TypeOK, NEW s \in Servers, queue[s] # <<>>,
         queue[s][1].op \in Writes, row' = Written(s, queue[s][1]),
         NEW c \in Chars, row'[c].data # row[c].data
  PROVE  row[c].cur = s /\ Queued(s, {"save", "exit"}, c)
<1> DEFINE q == queue[s][1]
           r == row[q.c]
<1>1. 1 \in DOMAIN queue[s] /\ q \in Query /\ q.c \in Chars
  BY QueueType
<1>2. r \in Row
  BY <1>1 DEF TypeOK
<1>3. CASE r.cur # s
  BY <1>3 DEF Written
<1>4. CASE r.cur = s /\ q.op = "release"
  <2>1. row' = [row EXCEPT ![q.c] = [r EXCEPT !.cur = None]]
    BY <1>4 DEF Written
  <2>2. [r EXCEPT !.cur = None].data = r.data
    BY <1>2 DEF Row
  <2>3. row'[c].data = row[c].data
    BY <1>1, <2>1, <2>2 DEF TypeOK
  <2> QED
    BY <2>3
<1>5. CASE r.cur = s /\ q.op \in {"save", "exit"}
  <2>1. \E x : row' = [row EXCEPT ![q.c] = x]
    BY <1>5 DEF Written
  <2>2. c = q.c
    BY <1>1, <2>1 DEF TypeOK
  <2> QED
    BY <1>1, <1>5, <2>2 DEF Queued
<1> QED
  BY <1>3, <1>4, <1>5 DEF Writes

\* The other steps of the database thread and of the server's life leave the
\* saved data alone.
LEMMA DataKept ==
  ASSUME TypeOK, NEW s \in Servers,
         \/ DbLoadRefused(s) \/ DbLoadElsewhere(s) \/ DbLoadOtherMirror(s)
         \/ DbLoadCopy(s) \/ DbLoadMark(s) \/ DbRescue(s) \/ ServerLife(s)
  PROVE  \A c \in Chars : row'[c].data = row[c].data
<1>r. \A c \in Chars : row[c] \in Row
  BY DEF TypeOK
<1>1. CASE row' = row
  BY <1>1
<1>2. CASE DbLoadMark(s) \/ DbRescue(s)
  <2>1. \/ row' = row
        \/ \E x, y : row' = [row EXCEPT ![Head(queue[s]).c] =
                               [row[Head(queue[s]).c] EXCEPT !.cur = x,
                                                             !.allowed = y]]
    BY <1>2 DEF DbLoadMark, DbRescue
  <2>2. CASE row' = row
    BY <2>2
  <2>3. ASSUME NEW x, NEW y,
               row' = [row EXCEPT ![Head(queue[s]).c] =
                         [row[Head(queue[s]).c] EXCEPT !.cur = x,
                                                       !.allowed = y]]
        PROVE  \A c \in Chars : row'[c].data = row[c].data
    <3> SUFFICES ASSUME NEW c \in Chars
                 PROVE  row'[c].data = row[c].data
      OBVIOUS
    <3>1. \/ row'[c] = row[c]
          \/ row'[c] = [row[c] EXCEPT !.cur = x, !.allowed = y]
      BY <2>3 DEF TypeOK
    <3>2. [row[c] EXCEPT !.cur = x, !.allowed = y].data = row[c].data
      BY <1>r DEF Row
    <3> QED
      BY <3>1, <3>2
  <2> QED
    BY <2>1, <2>2, <2>3
<1>3. CASE Restart(s)
  <2>1. \A r \in Row : [r EXCEPT !.cur = None].data = r.data
    BY DEF Row
  <2> QED
    BY <1>r, <1>3, <2>1 DEF Restart
<1> QED
  BY <1>1, <1>2, <1>3
     DEF DbLoadRefused, DbLoadElsewhere, DbLoadOtherMirror, DbLoadCopy,
         ServerLife, AreaAlive, GoStale, UpdateAreas, StopBegin, StopDone,
         Crash, ExitOnShutdown

\* Every step that is not of the database thread or a server's life leaves
\* the table alone.
LEMMA RowKept ==
  ASSUME \/ UNCHANGED vars
         \/ ClientStep
         \/ \E k \in Clients, s \in Servers : FindLogin(k, s)
         \/ \E s \in Servers : LoginAges(s) \/ TickLogin(s)
         \/ \E s \in Servers, c \in Chars : Game(s, c)
  PROVE  row' = row
<1>1. CASE UNCHANGED vars
  BY <1>1 DEF vars
<1>2. CASE ClientStep
  BY <1>2 DEF ClientStep, Connect, Abandon, KickPlayer
<1>3. CASE \E k \in Clients, s \in Servers : FindLogin(k, s)
  <2> SUFFICES ASSUME NEW k \in Clients, NEW s \in Servers, FindLogin(k, s)
               PROVE  row' = row
    BY <1>3
  <2>1. FindLoginStart(k, s) \/ FindLoginStale(k, s) => row' = row
    BY DEF FindLoginStart, FindLoginStale
  <2>2. FindLoginFailed(k, s) \/ FindLoginNewarea(k, s) => row' = row
    BY DEF FindLoginFailed, FindLoginNewarea
  <2>3. FindLoginGone(k, s) \/ FindLoginOk(k, s) => row' = row
    BY DEF FindLoginGone, FindLoginOk
  <2>4. \A area \in Areas : FindLoginZoneTime(k, s, area) => row' = row
    BY DEF FindLoginZoneTime
  <2> QED
    BY <2>1, <2>2, <2>3, <2>4 DEF FindLogin
<1>4. CASE \E s \in Servers : LoginAges(s) \/ TickLogin(s)
  BY <1>4 DEF LoginAges, TickLogin, TickLoginUsurp, TickLoginCreate,
     TickLoginNoSlot, TickLoginNoRoom, TickLoginNoItem
<1>5. CASE \E s \in Servers, c \in Chars : Game(s, c)
  <2> SUFFICES ASSUME NEW s \in Servers, NEW c \in Chars, Game(s, c)
               PROVE  row' = row
    BY <1>5
  <2>1. Progress(s, c) \/ Backup(s, c) => row' = row
    BY DEF Progress, Backup
  <2>2. \A m \in Mirrors : ChooseMirror(s, c, m) => row' = row
    BY DEF ChooseMirror
  <2>3. \A area \in Areas : Leave(s, c, area) => row' = row
    BY DEF Leave
  <2>4. \A area \in Areas, m \in Mirrors :
          ChangeArea(s, c, area, m) => row' = row
    BY DEF ChangeArea
  <2> QED
    BY <2>1, <2>2, <2>3, <2>4 DEF Game
<1> QED
  BY <1>1, <1>2, <1>3, <1>4, <1>5

\* Saved data changes only by a save that the server named in the row has
\* queued.  No lock is needed for this: it is the where clause of save_char.
THEOREM OnlyHolderWritesAlways == Spec => OnlyHolderWrites
<1> DEFINE A == \A c \in Chars : row'[c].data # row[c].data =>
                  \E s \in Servers :
                    row[c].cur = s /\ Queued(s, {"save", "exit"}, c)
<1>1. TypeOK /\ [Next]_vars => [A]_vars
  <2> SUFFICES ASSUME TypeOK, [Next]_vars
               PROVE  A
    OBVIOUS
  <2>1. CASE row' = row
    BY <2>1
  <2>2. ASSUME NEW s \in Servers, DbWrite(s) \/ DbWriteAgain(s)
        PROVE  A
    <3>1. /\ queue[s] # <<>> /\ queue[s][1].op \in Writes
          /\ row' = Written(s, queue[s][1])
      BY <2>2 DEF DbWrite, DbWriteAgain, TopIs
    <3> QED
      BY <3>1, WrittenData
  <2>3. ASSUME NEW s \in Servers,
               \/ DbLoadRefused(s) \/ DbLoadElsewhere(s)
               \/ DbLoadOtherMirror(s) \/ DbLoadCopy(s) \/ DbLoadMark(s)
               \/ DbRescue(s) \/ ServerLife(s)
        PROVE  A
    BY <2>3, DataKept
  <2> QED
    BY <2>1, <2>2, <2>3, RowKept DEF Next, DbStep
<1>2. Spec => []TypeOK
  BY TypeCorrect
<1> QED
  BY <1>1, <1>2, PTL DEF Spec, OnlyHolderWrites
=============================================================================
