---------------------------- MODULE AreaServers ----------------------------
(***************************************************************************)
(* Characters moving between the area servers of one game world.           *)
(*                                                                         *)
(* Every area (and every mirror of it) is a server process with a game     *)
(* loop and a database thread.  They share one table, chars, whose rows    *)
(* say where a character is online (current_area, current_mirror), which   *)
(* area may log it in next (allowed_area) and hold its saved data.  The    *)
(* loop appends queries to a FIFO (add_query) that the thread executes     *)
(* later, so a row lags behind the game.  A login passes through a single  *)
(* structure, login, filled by the thread and drained by the loop.         *)
(*                                                                         *)
(* The data of a character is abstracted to a version that grows with      *)
(* every change in the game; a server is a pair <<area, mirror>>.          *)
(***************************************************************************)
EXTENDS Integers, Sequences, FiniteSets

CONSTANTS
  Areas,         \* area ids
  Mirrors,       \* mirror numbers of the areas
  Servers,       \* the server processes, a set of pairs <<area, mirror>>
  Chars,         \* rows of the chars table
  Clients,       \* game clients
  Who,           \* Who[k]: the character client k logs in
  HomeAreas,     \* sequence of areas tried for a rescued character: 3, then 1
  None,          \* no server, no client
  MaxVer,        \* bound on the changes of a character
  MaxQueue,      \* queue length beyond which no backup is added
  MaxFaults      \* bound on crashes, repeated queries, abandoned logins,
                 \* failed creations and servers late with area_alive

ASSUME ServersAssumption ==
  /\ Servers \subseteq Areas \X Mirrors
  /\ Areas \subseteq Nat
  /\ Mirrors \subseteq Nat
  /\ None \notin Servers \cup Clients
  /\ HomeAreas \in Seq(Areas)
ASSUME PeopleAssumption ==
  /\ Chars # {}
  /\ Who \in [Clients -> Chars]
ASSUME BoundsAssumption ==
  /\ MaxVer \in Nat
  /\ MaxQueue \in Nat
  /\ MaxFaults \in Nat

VARIABLES
  row,      \* the chars table
  queue,    \* per server: queries waiting for its database thread
  login,    \* per server: the login structure
  live,     \* per server: the players' characters in ch[]
  up,       \* per server: state of the process
  fresh,    \* servers whose alive_time is less than five minutes old
  known,    \* per server: the servers marked alive in its area[][]
  client,   \* what each client is doing, and on which server
  seen,     \* newest version of each character its player has been shown
  faults,   \* faults so far
  struck    \* history: the characters a flaw of the program has struck

vars == <<row, queue, login, live, up, fresh, known, client, seen, faults,
          struck>>

-----------------------------------------------------------------------------
(* Types.                                                                  *)

Area(s)   == s[1]
Mirror(s) == s[2]

Versions == 0..MaxVer
Data     == [ver: Versions, mirror: Mirrors]
Writes   == {"save", "exit", "release"}
Ops      == Writes \cup {"load", "rescue"}
Results  == {"ok", "newarea", "failed"}

Row    == [cur: Servers \cup {None}, allowed: Areas, data: Data]
Query  == [op: Ops, c: Chars, data: Data, area: Areas]
Login  == [st: {"empty", "read", "mark", "create"} \cup Results, c: Chars,
           current: BOOLEAN, data: Data, usurp: BOOLEAN,
           to: Servers \cup {None}, stale: BOOLEAN]
Player == [on: BOOLEAN, data: Data, plr: Clients \cup {None}, lost: BOOLEAN]
Link   == [st: {"off", "connect", "play"}, at: Servers \cup {None}]

\* What the program does not guard against is remembered per character:
\* taken, two servers had a claim on it (DbLoadMark, DbRescue); stuck, its row
\* was left marked (TickLoginNoSlot); halved, it was made of part of its data
\* (TickLoginNoItem).  No action asks about it: only properties do.
Struck == [taken: SUBSET Chars, stuck: SUBSET Chars, halved: SUBSET Chars]

TypeOK ==
  /\ row \in [Chars -> Row]
  /\ queue \in [Servers -> Seq(Query)]
  /\ login \in [Servers -> Login]
  /\ live \in [Servers -> [Chars -> Player]]
  /\ up \in [Servers -> {"up", "stopping", "down"}]
  /\ fresh \subseteq Servers
  /\ known \in [Servers -> SUBSET Servers]
  /\ client \in [Clients -> Link]
  /\ seen \in [Chars -> Versions]
  /\ faults \in 0..MaxFaults
  /\ struck \in Struck

-----------------------------------------------------------------------------
(* The area list and the query queue.                                      *)

Offline == [st |-> "off", at |-> None]
Blank   == [ver |-> 0, mirror |-> CHOOSE m \in Mirrors : TRUE]
Absent  == [on |-> FALSE, data |-> Blank, plr |-> None, lost |-> FALSE]
Idle(c) == [st |-> "empty", c |-> c, current |-> FALSE, data |-> Blank,
            usurp |-> FALSE, to |-> None, stale |-> FALSE]

\* The login of server s gets result st; to is the target of a redirect.
Result(s, st, to) ==
  [login[s] EXCEPT !.st = st, !.to = to, !.stale = FALSE]

SetLogin(s, l) == login' = [login EXCEPT ![s] = l]

\* get_mirror: the nearest living mirror of area a at or below m, else the
\* nearest one above it.
GetMirror(s, a, m) ==
  LET alive   == {t \in known[s] : Area(t) = a}
      below   == {t \in alive : Mirror(t) <= m}
      highest == {t \in below : \A u \in below : Mirror(u) <= Mirror(t)}
      lowest  == {t \in alive : \A u \in alive : Mirror(t) <= Mirror(u)}
  IN  IF highest # {} THEN CHOOSE t \in highest : TRUE
      ELSE IF lowest # {} THEN CHOOSE t \in lowest : TRUE
      ELSE None

\* An update of the row of c as server s sends it.  area is allowed_area for
\* a logout and means nothing in the other queries.
Ask(op, c, data, area) ==
  [op |-> op, c |-> c, data |-> data, area |-> area]

AddQuery(s, q) == queue' = [queue EXCEPT ![s] = Append(@, q)]

RemoveTopQuery(s) == queue' = [queue EXCEPT ![s] = Tail(@)]

TopIs(s, ops) ==
  /\ up[s] # "down"
  /\ queue[s] # <<>>
  /\ Head(queue[s]).op \in ops

Fault == faults < MaxFaults /\ faults' = faults + 1

\* A client told to go to server t: the connection needs a listening server.
GoTo(t) == IF up[t] = "up" THEN [st |-> "connect", at |-> t] ELSE Offline

Waiting(k, s) == client[k] = [st |-> "connect", at |-> s]

Hang(ks) == [k \in Clients |-> IF k \in ks THEN Offline ELSE client[k]]

Init ==
  /\ row \in [Chars -> [cur: {None}, allowed: {Area(s) : s \in Servers},
                        data: [ver: {0}, mirror: Mirrors]]]
  /\ queue = [s \in Servers |-> <<>>]
  /\ login = [s \in Servers |-> Idle(CHOOSE c \in Chars : TRUE)]
  /\ live = [s \in Servers |-> [c \in Chars |-> Absent]]
  /\ up = [s \in Servers |-> "up"]
  /\ fresh = Servers
  /\ known = [s \in Servers |-> Servers]
  /\ client = [k \in Clients |-> Offline]
  /\ seen = [c \in Chars |-> 0]
  /\ faults = 0
  /\ struck = [taken |-> {}, stuck |-> {}, halved |-> {}]

-----------------------------------------------------------------------------
(* Clients.  A client that leaves the game leaves its character behind     *)
(* with the lostcon driver (kick_player); one that gives up while it waits *)
(* for a login leaves that login uncollected.                              *)

Connect(k, s) ==
  /\ client[k] = Offline
  /\ up[s] = "up"
  /\ client' = [client EXCEPT ![k] = [st |-> "connect", at |-> s]]
  /\ UNCHANGED <<row, queue, login, live, up, fresh, known, seen, faults,
                 struck>>

Abandon(k) ==
  /\ client[k].st = "connect"
  /\ Fault
  /\ client' = Hang({k})
  /\ UNCHANGED <<row, queue, login, live, up, fresh, known, seen, struck>>

\* Mutant of KickPlayer: the character keeps its player number.
KickPlayerForgets(k) ==
  LET s == client[k].at
      c == Who[k]
  IN  /\ client[k].st = "play" /\ up[s] = "up"
      /\ client' = Hang({k})
      /\ live' = [live EXCEPT ![s][c].lost = TRUE]
      /\ UNCHANGED <<row, queue, login, up, fresh, known, seen, faults,
                     struck>>

KickPlayer(k) ==
  LET s == client[k].at
      c == Who[k]
  IN  /\ client[k].st = "play" /\ up[s] = "up"
      /\ client' = Hang({k})
      /\ live' = [live EXCEPT ![s][c] = [@ EXCEPT !.plr = None, !.lost = TRUE]]
      /\ UNCHANGED <<row, queue, login, up, fresh, known, seen, faults,
                     struck>>

-----------------------------------------------------------------------------
(* find_login, called by read_login for a waiting client at every tick.    *)

\* The game saves c and drops it: kick_char, with the area it may enter next.
KickChar(s, c, data, area) ==
  /\ live[s][c].on
  /\ AddQuery(s, Ask("exit", c, data, area))
  /\ live' = [live EXCEPT ![s][c] = Absent]

\* A new request: the login structure is zeroed and DT_LOAD is queued.
StartRead(s, c, q) ==
  /\ SetLogin(s, [Idle(c) EXCEPT !.st = "read"])
  /\ queue' = [queue EXCEPT
                 ![s] = Append(q, Ask("load", c, Blank, Area(s)))]

\* Mutant of FindLoginStart: a login under way is not respected.
FindLoginStartTwice(k, s) ==
  /\ up[s] = "up" /\ Waiting(k, s)
  /\ login[s].st \in {"empty", "read"}
  /\ StartRead(s, Who[k], queue[s])
  /\ UNCHANGED <<row, live, up, fresh, known, client, seen, faults, struck>>

FindLoginStart(k, s) ==
  /\ up[s] = "up" /\ Waiting(k, s)
  /\ login[s].st = "empty"
  /\ StartRead(s, Who[k], queue[s])
  /\ UNCHANGED <<row, live, up, fresh, known, client, seen, faults, struck>>

\* Mutant of LoginAges: only successful logins are cleaned up.
LoginAgesOk(s) ==
  /\ up[s] = "up"
  /\ login[s].st = "ok" /\ ~login[s].stale
  /\ \A k \in Clients : Waiting(k, s) => Who[k] # login[s].c
  /\ SetLogin(s, [login[s] EXCEPT !.stale = TRUE])
  /\ UNCHANGED <<row, queue, live, up, fresh, known, client, seen, faults,
                 struck>>

\* A result nobody collects for more than two ticks.  A client of that name
\* asks at every tick, so there is none.
LoginAges(s) ==
  /\ up[s] = "up"
  /\ login[s].st \in Results /\ ~login[s].stale
  /\ \A k \in Clients : Waiting(k, s) => Who[k] # login[s].c
  /\ SetLogin(s, [login[s] EXCEPT !.stale = TRUE])
  /\ UNCHANGED <<row, queue, live, up, fresh, known, client, seen, faults,
                 struck>>

\* Mutant of FindLoginStale: the character is released, not destroyed.
FindLoginStaleKeeps(k, s) ==
  LET c    == login[s].c
      made == login[s].st = "ok" /\ ~login[s].usurp
      took == login[s].st = "ok" /\ login[s].usurp
  IN  /\ up[s] = "up" /\ Waiting(k, s)
      /\ login[s].st \in Results /\ login[s].stale
      /\ StartRead(s, Who[k],
                   IF made THEN Append(queue[s],
                                       Ask("release", c, Blank, Area(s)))
                           ELSE queue[s])
      /\ live' = IF took /\ live[s][c].on
                   THEN [live EXCEPT ![s][c].lost = TRUE]
                 ELSE live
      /\ UNCHANGED <<row, up, fresh, known, client, seen, faults, struck>>

\* The next call, for whatever name, clears the stale result: a character
\* made for it is released and destroyed, one it took over is left to the
\* lostcon driver.  Then the caller's own request starts.
FindLoginStale(k, s) ==
  LET c    == login[s].c
      made == login[s].st = "ok" /\ ~login[s].usurp
      took == login[s].st = "ok" /\ login[s].usurp
  IN  /\ up[s] = "up" /\ Waiting(k, s)
      /\ login[s].st \in Results /\ login[s].stale
      /\ StartRead(s, Who[k],
                   IF made THEN Append(queue[s],
                                       Ask("release", c, Blank, Area(s)))
                           ELSE queue[s])
      /\ live' = IF made THEN [live EXCEPT ![s][c] = Absent]
                 ELSE IF took /\ live[s][c].on
                   THEN [live EXCEPT ![s][c].lost = TRUE]
                 ELSE live
      /\ UNCHANGED <<row, up, fresh, known, client, seen, faults, struck>>

\* The result is for client k.
Collects(k, s, st) ==
  /\ up[s] = "up" /\ Waiting(k, s)
  /\ login[s].st = st /\ ~login[s].stale /\ login[s].c = Who[k]
  /\ SetLogin(s, Idle(login[s].c))

FindLoginFailed(k, s) ==
  /\ Collects(k, s, "failed")
  /\ client' = Hang({k})
  /\ UNCHANGED <<row, queue, live, up, fresh, known, seen, faults, struck>>

\* LS_NEWAREA: send the client there, or ask for a rescue when get_area finds
\* no living mirror of that area (or the area was -1).
FindLoginNewarea(k, s) ==
  LET to == login[s].to
      t  == IF to = None THEN None ELSE GetMirror(s, Area(to), Mirror(to))
  IN  /\ Collects(k, s, "newarea")
      /\ \/ /\ t # None
            /\ client' = [client EXCEPT ![k] = GoTo(t)]
            /\ UNCHANGED queue
         \/ /\ t = None
            /\ client' = Hang({k})
            /\ AddQuery(s, Ask("rescue", Who[k], Blank, Area(s)))
      /\ UNCHANGED <<row, live, up, fresh, known, seen, faults, struck>>

\* LS_OK, but the character was kicked in the meantime: the client keeps its
\* input and tries again.
FindLoginGone(k, s) ==
  /\ Collects(k, s, "ok")
  /\ ~live[s][Who[k]].on
  /\ UNCHANGED <<row, queue, live, up, fresh, known, client, seen, faults,
                 struck>>

\* LS_OK: the client gets the character, and another client still on it is
\* thrown out.
FindLoginOk(k, s) ==
  LET c   == Who[k]
      ply == live[s][c]
  IN  /\ Collects(k, s, "ok")
      /\ ply.on
      /\ live' = [live EXCEPT ![s][c] = [@ EXCEPT !.plr = k, !.lost = FALSE]]
      /\ client' = [Hang({ply.plr}) EXCEPT ![k] = [st |-> "play", at |-> s]]
      /\ seen' = [seen EXCEPT ![c] = ply.data.ver]
      /\ UNCHANGED <<row, queue, up, fresh, known, faults, struck>>

\* The same, but the character has been gone too long ("zone time") and is
\* sent to its rest area at once.
FindLoginZoneTime(k, s, area) ==
  LET c == Who[k]
  IN  /\ Collects(k, s, "ok")
      /\ KickChar(s, c, live[s][c].data, area)
      /\ client' = Hang({k, live[s][c].plr})
      /\ UNCHANGED <<row, up, fresh, known, seen, faults, struck>>

-----------------------------------------------------------------------------
(* tick_login: the game loop turns a loaded character into a live one.     *)

Creating(s) == up[s] = "up" /\ login[s].st = "create"

\* Mutant of TickLoginUsurp: the client it has stays connected.
TickLoginUsurpTwo(s) ==
  LET c   == login[s].c
      ply == live[s][c]
  IN  /\ Creating(s) /\ login[s].current
      /\ \/ /\ ply.on
            /\ live' = [live EXCEPT ![s][c] = [@ EXCEPT !.plr = None,
                                                      !.lost = FALSE]]
            /\ UNCHANGED client
            /\ SetLogin(s, [Result(s, "ok", None) EXCEPT !.usurp = TRUE])
         \/ /\ ~ply.on
            /\ SetLogin(s, Result(s, "failed", None))
            /\ UNCHANGED <<live, client>>
      /\ UNCHANGED <<row, queue, up, fresh, known, seen, faults, struck>>

\* Mutant of TickLoginUsurp: not found, it is made from the data read.
TickLoginUsurpAnyway(s) ==
  LET c   == login[s].c
      ply == live[s][c]
  IN  /\ Creating(s) /\ login[s].current
      /\ \/ /\ ply.on
            /\ live' = [live EXCEPT ![s][c] = [@ EXCEPT !.plr = None,
                                                      !.lost = FALSE]]
            /\ client' = Hang({ply.plr})
            /\ SetLogin(s, [Result(s, "ok", None) EXCEPT !.usurp = TRUE])
         \/ /\ ~ply.on
            /\ SetLogin(s, Result(s, "ok", None))
            /\ live' = [live EXCEPT ![s][c] = [@ EXCEPT !.on = TRUE,
                                                      !.data = login[s].data]]
            /\ UNCHANGED client
      /\ UNCHANGED <<row, queue, up, fresh, known, seen, faults, struck>>

\* The database says it is online here: hand out the one in ch[], throwing
\* out the client it has, or fail when there is none.
TickLoginUsurp(s) ==
  LET c   == login[s].c
      ply == live[s][c]
  IN  /\ Creating(s) /\ login[s].current
      /\ \/ /\ ply.on
            /\ live' = [live EXCEPT ![s][c] = [@ EXCEPT !.plr = None,
                                                      !.lost = FALSE]]
            /\ client' = Hang({ply.plr})
            /\ SetLogin(s, [Result(s, "ok", None) EXCEPT !.usurp = TRUE])
         \/ /\ ~ply.on
            /\ SetLogin(s, Result(s, "failed", None))
            /\ UNCHANGED <<live, client>>
      /\ UNCHANGED <<row, queue, up, fresh, known, seen, faults, struck>>

\* Not online yet: make it.  If a flaw that struck it has left one in ch[]
\* this is a second one, and live keeps the newer of the two.
TickLoginCreate(s) ==
  /\ Creating(s) /\ ~login[s].current
  /\ live' = [live EXCEPT ![s][login[s].c] =
                [Absent EXCEPT !.on = TRUE, !.data = login[s].data]]
  /\ SetLogin(s, Result(s, "ok", None))
  /\ UNCHANGED <<row, queue, up, fresh, known, client, seen, faults, struck>>

\* alloc_char finds no free slot: the login fails and the row stays marked.
TickLoginNoSlot(s) ==
  /\ Creating(s) /\ ~login[s].current
  /\ Fault
  /\ struck' = [struck EXCEPT !.stuck = @ \cup {login[s].c}]
  /\ SetLogin(s, Result(s, "failed", None))
  /\ UNCHANGED <<row, queue, live, up, fresh, known, client, seen>>

\* Mutant of TickLoginNoRoom: the row is not released.
TickLoginNoRoomLeaks(s) ==
  /\ Creating(s) /\ ~login[s].current
  /\ Fault
  /\ SetLogin(s, Result(s, "failed", None))
  /\ UNCHANGED <<row, queue, live, up, fresh, known, client, seen, struck>>

\* There is no room on the map: the character is destroyed and released.
TickLoginNoRoom(s) ==
  /\ Creating(s) /\ ~login[s].current
  /\ Fault
  /\ SetLogin(s, Result(s, "failed", None))
  /\ AddQuery(s, Ask("release", login[s].c, Blank, Area(s)))
  /\ UNCHANGED <<row, live, up, fresh, known, client, seen, struck>>

\* alloc_item finds no free item halfway: the character stays in ch[] with the
\* items it has so far, counted here as the oldest version.
TickLoginNoItem(s) ==
  /\ Creating(s) /\ ~login[s].current
  /\ Fault
  /\ live' = [live EXCEPT ![s][login[s].c] =
                [Absent EXCEPT !.on = TRUE, !.data = login[s].data,
                               !.data.ver = 0]]
  /\ struck' = [struck EXCEPT !.halved = @ \cup {login[s].c}]
  /\ SetLogin(s, Result(s, "failed", None))
  /\ UNCHANGED <<row, queue, up, fresh, known, client, seen>>

-----------------------------------------------------------------------------
(* The game.                                                               *)

Playing(s, c) == up[s] = "up" /\ live[s][c].on

Progress(s, c) ==
  LET v == live[s][c].data.ver + 1
  IN  /\ Playing(s, c)
      /\ v \in Versions
      /\ live' = [live EXCEPT ![s][c].data.ver = v]
      /\ seen' = IF live[s][c].plr # None THEN [seen EXCEPT ![c] = v]
                                          ELSE seen
      /\ UNCHANGED <<row, queue, login, up, fresh, known, client, faults,
                     struck>>

\* backup_players
Backup(s, c) ==
  /\ Playing(s, c)
  /\ live[s][c].plr # None
  /\ Len(queue[s]) < MaxQueue
  /\ AddQuery(s, Ask("save", c, live[s][c].data, Area(s)))
  /\ UNCHANGED <<row, login, live, up, fresh, known, client, seen, faults,
                 struck>>

\* A transport to mirror m of this area that this server serves itself.
ChooseMirror(s, c, m) ==
  /\ Playing(s, c)
  /\ live[s][c].plr # None
  /\ GetMirror(s, Area(s), m) = s
  /\ live' = [live EXCEPT ![s][c].data.mirror = m]
  /\ UNCHANGED <<row, queue, login, up, fresh, known, client, seen, faults,
                 struck>>

\* exit_char and its callers: logout, idling, lagging out, punishment, death.
\* The character will re-enter in its rest area.
Leave(s, c, area) ==
  /\ Playing(s, c)
  /\ KickChar(s, c, live[s][c].data, area)
  /\ client' = Hang({live[s][c].plr})
  /\ UNCHANGED <<row, login, up, fresh, known, seen, faults, struck>>

\* Mutant of ChangeArea: the character is saved but not destroyed.
ChangeAreaKeeps(s, c, area, m) ==
  LET k == live[s][c].plr
      t == GetMirror(s, area, m)
  IN  /\ Playing(s, c)
      /\ k # None \/ m = live[s][c].data.mirror
      /\ t # None
      /\ AddQuery(s, Ask("exit", c, live[s][c].data, area))
      /\ UNCHANGED live
      /\ client' = IF k = None THEN client
                               ELSE [client EXCEPT ![k] = GoTo(t)]
      /\ UNCHANGED <<row, login, up, fresh, known, seen, faults, struck>>

\* change_area: leave for the server that get_area finds for area and the
\* chosen mirror m, taking the client along.
ChangeArea(s, c, area, m) ==
  LET k == live[s][c].plr
      t == GetMirror(s, area, m)
  IN  /\ Playing(s, c)
      /\ k # None \/ m = live[s][c].data.mirror
      /\ t # None
      /\ KickChar(s, c, [live[s][c].data EXCEPT !.mirror = m], area)
      /\ client' = IF k = None THEN client
                               ELSE [client EXCEPT ![k] = GoTo(t)]
      /\ UNCHANGED <<row, login, up, fresh, known, seen, faults, struck>>

-----------------------------------------------------------------------------
(* The database thread executes the query at the top.                      *)

\* Mutant of Written: no where clause.
WrittenUnfenced(s, q) ==
  LET r == row[q.c]
  IN  [row EXCEPT ![q.c] =
        CASE q.op = "save"    -> [r EXCEPT !.data = q.data]
          [] q.op = "exit"    -> [cur |-> None, allowed |-> q.area,
                                  data |-> q.data]
          [] q.op = "release" -> [r EXCEPT !.cur = None]]

\* Mutant of Written: a logout does not write the data.
WrittenUnsaved(s, q) ==
  LET r == row[q.c]
  IN  IF r.cur # s THEN row
      ELSE [row EXCEPT ![q.c] =
        CASE q.op = "save"    -> [r EXCEPT !.data = q.data]
          [] q.op = "exit"    -> [cur |-> None, allowed |-> q.area,
                                  data |-> r.data]
          [] q.op = "release" -> [r EXCEPT !.cur = None]]

\* Mutant of Written: a release clears the wrong column.
WrittenSwapped(s, q) ==
  LET r == row[q.c]
  IN  IF r.cur # s THEN row
      ELSE [row EXCEPT ![q.c] =
        CASE q.op = "save"    -> [r EXCEPT !.data = q.data]
          [] q.op = "exit"    -> [cur |-> None, allowed |-> q.area,
                                  data |-> q.data]
          [] q.op = "release" -> [r EXCEPT !.allowed = None]]

\* save_char and release_char: every update names the server in its where
\* clause, so it does nothing once the character is online elsewhere.
Written(s, q) ==
  LET r == row[q.c]
  IN  IF r.cur # s THEN row
      ELSE [row EXCEPT ![q.c] =
        CASE q.op = "save"    -> [r EXCEPT !.data = q.data]
          [] q.op = "exit"    -> [cur |-> None, allowed |-> q.area,
                                  data |-> q.data]
          [] q.op = "release" -> [r EXCEPT !.cur = None]]

DbWrite(s) ==
  /\ TopIs(s, Writes)
  /\ row' = Written(s, Head(queue[s]))
  /\ RemoveTopQuery(s)
  /\ UNCHANGED <<login, live, up, fresh, known, client, seen, faults, struck>>

\* The connection is lost after the update was done: mysql_query_con
\* reconnects and sends it again.
DbWriteAgain(s) ==
  /\ TopIs(s, Writes)
  /\ Fault
  /\ row' = Written(s, Head(queue[s]))
  /\ UNCHANGED <<queue, login, live, up, fresh, known, client, seen, struck>>

\* load_char begins: its login waits for it (LS_READ).  It locks chars, but
\* load_depot's own LOCK TABLES ends that lock before the row is marked, so
\* the steps of other servers come in between.
Loading(s) ==
  /\ TopIs(s, {"load"})
  /\ login[s].st = "read"
  /\ UNCHANGED <<live, up, fresh, known, client, seen, faults, struck>>

\* Wrong password, banned, server closed and the like.
DbLoadRefused(s) ==
  /\ Loading(s)
  /\ SetLogin(s, Result(s, "failed", None))
  /\ RemoveTopQuery(s)
  /\ UNCHANGED row

\* Where load_char sends a character that server s may not log in: None when
\* that server is down.
Elsewhere(s, r) ==
  IF r.cur # None THEN IF r.cur \in known[s] THEN r.cur ELSE None
                  ELSE GetMirror(s, r.allowed, r.data.mirror)

\* Allowed in another area, or online on another server.
DbLoadElsewhere(s) ==
  LET r == row[Head(queue[s]).c]
  IN  /\ Loading(s)
      /\ r.allowed # Area(s) \/ r.cur \notin {None, s}
      /\ SetLogin(s, Result(s, "newarea", Elsewhere(s, r)))
      /\ RemoveTopQuery(s)
      /\ UNCHANGED row

MayLogin(s, r) == r.allowed = Area(s) /\ r.cur \in {None, s}

\* Another mirror of this area is the right one.
DbLoadOtherMirror(s) ==
  LET r == row[Head(queue[s]).c]
      t == GetMirror(s, Area(s), r.data.mirror)
  IN  /\ Loading(s)
      /\ MayLogin(s, r)
      /\ t # s
      /\ SetLogin(s, [Result(s, "newarea", t) EXCEPT !.current = r.cur = s])
      /\ RemoveTopQuery(s)
      /\ UNCHANGED row

\* The character may log in here: copy its data.  The login is still LS_READ;
\* "mark" says how far load_char has got.
DbLoadCopy(s) ==
  LET r == row[Head(queue[s]).c]
  IN  /\ Loading(s)
      /\ MayLogin(s, r)
      /\ GetMirror(s, Area(s), r.data.mirror) = s
      /\ SetLogin(s, [login[s] EXCEPT !.st = "mark", !.data = r.data,
                                      !.current = r.cur = s])
      /\ UNCHANGED <<row, queue>>

\* The row of c is still what load_char of server s has read.
AsRead(s, c) ==
  row[c] = [cur |-> IF login[s].current THEN s ELSE None, allowed |-> Area(s),
            data |-> login[s].data]

\* Mark it online here.  The update names the character only, and not where
\* it was online when its row was read: a row another server has changed in
\* between is taken all the same.
DbLoadMark(s) ==
  LET c == Head(queue[s]).c
  IN  /\ TopIs(s, {"load"})
      /\ login[s].st = "mark"
      /\ SetLogin(s, [login[s] EXCEPT !.st = "create"])
      /\ row' = [row EXCEPT ![c] = [@ EXCEPT !.cur = s, !.allowed = Area(s)]]
      /\ struck' = IF AsRead(s, c) THEN struck
                                   ELSE [struck EXCEPT !.taken = @ \cup {c}]
      /\ RemoveTopQuery(s)
      /\ UNCHANGED <<live, up, fresh, known, client, seen, faults>>

Running(t) == t # None /\ up[t] # "down"

\* db_rescue_char: unless the server it is online on wrote its alive_time in
\* the last five minutes, the character is moved to the first home area that
\* can be reached -- also when that server runs and is only late.
DbRescue(s) ==
  LET c    == Head(queue[s]).c
      r    == row[c]
      open == {i \in DOMAIN HomeAreas :
                 GetMirror(s, HomeAreas[i], r.data.mirror) # None}
  IN  /\ TopIs(s, {"rescue"})
      /\ RemoveTopQuery(s)
      /\ \/ /\ r.cur \in fresh \/ open = {}
            /\ UNCHANGED <<row, struck>>
         \/ /\ r.cur \notin fresh
            /\ struck' = IF ~Running(r.cur) THEN struck
                         ELSE [struck EXCEPT !.taken = @ \cup {c}]
            /\ \E i \in open :
                 /\ \A j \in open : i <= j
                 /\ row' = [row EXCEPT ![c] = [@ EXCEPT !.cur = None,
                                                   !.allowed = HomeAreas[i]]]
      /\ UNCHANGED <<login, live, up, fresh, known, client, seen, faults>>

-----------------------------------------------------------------------------
(* The area table and the life of a server.                                *)

AreaAlive(s) ==
  /\ up[s] = "up" /\ s \notin fresh
  /\ fresh' = fresh \cup {s}
  /\ UNCHANGED <<row, queue, login, live, up, known, client, seen, faults,
                 struck>>

\* Five minutes without area_alive: the server is down, or it runs and its
\* database thread, which executes that query too, is so far behind.
GoStale(s) ==
  /\ s \in fresh
  /\ fresh' = fresh \ {s}
  /\ \/ up[s] = "down" /\ UNCHANGED faults
     \/ up[s] # "down" /\ Fault
  /\ UNCHANGED <<row, queue, login, live, up, known, client, seen, struck>>

UpdateAreas(s) ==
  /\ up[s] # "down" /\ known[s] # fresh
  /\ known' = [known EXCEPT ![s] = fresh]
  /\ UNCHANGED <<row, queue, login, live, up, fresh, client, seen, faults,
                 struck>>

StopBegin(s) ==
  /\ up[s] = "up"
  /\ Fault
  /\ up' = [up EXCEPT ![s] = "stopping"]
  /\ UNCHANGED <<row, queue, login, live, fresh, known, client, seen, struck>>

\* After the game loop every player's character exits.
ExitOnShutdown(s, c, area) ==
  /\ up[s] = "stopping"
  /\ KickChar(s, c, live[s][c].data, area)
  /\ client' = Hang({live[s][c].plr})
  /\ UNCHANGED <<row, login, up, fresh, known, seen, faults, struck>>

\* What a server forgets, and the clients it loses, when its process ends.
ProcessEnds(s) ==
  /\ up' = [up EXCEPT ![s] = "down"]
  /\ queue' = [queue EXCEPT ![s] = <<>>]
  /\ SetLogin(s, Idle(login[s].c))
  /\ live' = [live EXCEPT ![s] = [c \in Chars |-> Absent]]
  /\ client' = Hang({k \in Clients : client[k].at = s})

\* area_alive(1) and the end of the database thread, which drains its queue.
StopDone(s) ==
  /\ up[s] = "stopping"
  /\ queue[s] = <<>>
  /\ \A c \in Chars : ~live[s][c].on
  /\ ProcessEnds(s)
  /\ fresh' = fresh \ {s}
  /\ UNCHANGED <<row, known, seen, faults, struck>>

\* What a player of this server saw since the last save is gone.
Crash(s) ==
  /\ up[s] # "down"
  /\ Fault
  /\ ProcessEnds(s)
  /\ seen' = [c \in Chars |-> IF row[c].cur = s THEN row[c].data.ver
                                                ELSE seen[c]]
  /\ UNCHANGED <<row, fresh, known, struck>>

\* init_database: sweep the characters left online here, read the area list.
Restart(s) ==
  /\ up[s] = "down"
  /\ up' = [up EXCEPT ![s] = "up"]
  /\ row' = [c \in Chars |-> IF row[c].cur = s
                               THEN [row[c] EXCEPT !.cur = None] ELSE row[c]]
  /\ known' = [known EXCEPT ![s] = fresh]
  /\ UNCHANGED <<queue, login, live, fresh, client, seen, faults, struck>>

-----------------------------------------------------------------------------

ClientStep ==
  \/ \E k \in Clients : Abandon(k) \/ KickPlayer(k)
  \/ \E k \in Clients, s \in Servers : Connect(k, s)

FindLogin(k, s) ==
  \/ FindLoginStart(k, s)
  \/ FindLoginStale(k, s)
  \/ FindLoginFailed(k, s)
  \/ FindLoginNewarea(k, s)
  \/ FindLoginGone(k, s)
  \/ FindLoginOk(k, s)
  \/ \E area \in Areas : FindLoginZoneTime(k, s, area)

TickLogin(s) ==
  \/ TickLoginUsurp(s)
  \/ TickLoginCreate(s)
  \/ TickLoginNoSlot(s)
  \/ TickLoginNoRoom(s)
  \/ TickLoginNoItem(s)

Game(s, c) ==
  \/ Progress(s, c)
  \/ Backup(s, c)
  \/ \E m \in Mirrors : ChooseMirror(s, c, m)
  \/ \E area \in Areas : Leave(s, c, area)
  \/ \E area \in Areas, m \in Mirrors : ChangeArea(s, c, area, m)

DbStep(s) ==
  \/ DbWrite(s)
  \/ DbLoadRefused(s)
  \/ DbLoadElsewhere(s)
  \/ DbLoadOtherMirror(s)
  \/ DbLoadCopy(s)
  \/ DbLoadMark(s)
  \/ DbRescue(s)

ServerLife(s) ==
  \/ AreaAlive(s) \/ GoStale(s) \/ UpdateAreas(s)
  \/ StopBegin(s) \/ StopDone(s) \/ Crash(s) \/ Restart(s)
  \/ \E c \in Chars, area \in Areas : ExitOnShutdown(s, c, area)

Next ==
  \/ ClientStep
  \/ \E k \in Clients, s \in Servers : FindLogin(k, s)
  \/ \E s \in Servers : \/ LoginAges(s) \/ TickLogin(s)
                        \/ DbStep(s) \/ DbWriteAgain(s) \/ ServerLife(s)
  \/ \E s \in Servers, c \in Chars : Game(s, c)

Spec == Init /\ [][Next]_vars

\* The loop and the database thread keep running, and a shutdown completes.
\* Every tick scans the waiting clients in slot order, going on after the one
\* that just freed the login, so each comes by (logins are abandoned only
\* MaxFaults times); and a character does not die in its first tick forever.
Fairness ==
  /\ \A s \in Servers : /\ WF_vars(DbStep(s))
                        /\ WF_vars(TickLogin(s))
                        /\ WF_vars(LoginAges(s))
                        /\ WF_vars(StopDone(s))
                        /\ \A c \in Chars : WF_vars(\E area \in Areas :
                                               ExitOnShutdown(s, c, area))
  /\ \A k \in Clients, s \in Servers : /\ SF_vars(FindLogin(k, s))
                                      /\ SF_vars(FindLoginOk(k, s))

FairSpec == Spec /\ Fairness

-----------------------------------------------------------------------------
(* Properties.                                                             *)

\* Server s has character c in its game, or is about to put it there from the
\* data it loaded.
Holds(s, c) ==
  \/ live[s][c].on
  \/ login[s].st = "create" /\ login[s].c = c /\ ~login[s].current

\* A character exists on at most one server.  The lock load_char takes does
\* not last (DbLoadMark), so the program does not keep this.
OneCopy ==
  \A c \in Chars : \A s, t \in Servers : Holds(s, c) /\ Holds(t, c) => s = t

\* What holds of a character until a flaw strikes it, whatever befalls others:
\* it was not taken from a server that has it; what is saved of it was made
\* of all its data; and its row was not left marked.
Untaken(c) == c \notin struck.taken
Intact(c)  == Untaken(c) /\ c \notin struck.halved
Freed(c)   == Untaken(c) /\ c \notin struck.stuck

\* A character exists on at most one server, unless two of them marked its
\* row at the same time or one that still runs lost it to a rescue: moving
\* between areas, logging in twice, rescues and restarts never duplicate it
\* (load_char's checks of current_area, db_rescue_char's of alive_time).
OneCopyUnlessTaken ==
  \A c \in Chars : Untaken(c) =>
    \A s, t \in Servers : Holds(s, c) /\ Holds(t, c) => s = t

\* Whoever has a character in its game is the server its row names, so the
\* "and current_area=..." clause of save_char lets its saves through.
LeaseHeld ==
  \A s \in Servers, c \in Chars :
    Untaken(c) /\ Holds(s, c) => row[c].cur = s

Queued(s, ops, c) ==
  \E i \in DOMAIN queue[s] : queue[s][i].op \in ops /\ queue[s][i].c = c

\* The save of a logout that waits in a queue will be written: until then the
\* character is still marked online there and is not back in the game.  (A
\* logout already written may be sent once more after a reconnect.)
LogoutSaveLands ==
  \A s \in Servers : \A i \in DOMAIN queue[s] :
    LET q == queue[s][i]
    IN  q.op = "exit" /\ Intact(q.c) =>
          \/ row[q.c].cur = s /\ ~Holds(s, q.c)
          \/ i = 1 /\ row[q.c].data.ver >= q.data.ver

\* A character that is online nowhere has everything its player has been
\* shown saved in its row, except what a crashed server took with it.
AtRestNothingLost ==
  \A c \in Chars :
    Intact(c) /\ row[c].cur = None => row[c].data.ver >= seen[c]

\* The error message of load_char, "load_char got called but no login is
\* waiting", never appears: a queued load has its login waiting, alone.
LoadFindsLogin ==
  \A s \in Servers : \A i \in DOMAIN queue[s] :
    queue[s][i].op = "load" =>
      /\ login[s].st \in {"read", "mark"} /\ login[s].c = queue[s][i].c
      /\ \A j \in DOMAIN queue[s] : queue[s][j].op = "load" => i = j

\* "The character was online when we read the values from the database, but
\* isn't online anymore ... and the player needs to try again" (tick_login):
\* when tick_login does not find it, the query that frees the row has been
\* executed or waits in the queue, so trying again helps -- unless alloc_char
\* failed for it once, after which every try ends here.
NotFoundIsTransient ==
  \A s \in Servers :
    LET c == login[s].c
    IN  Creating(s) /\ login[s].current /\ ~live[s][c].on /\ Freed(c) =>
          row[c].cur # s \/ Queued(s, {"exit", "release"}, c)

\* Client and character point at each other: the "character-player link
\* wrong" of kick_player and check_ingame_idle never happens.
PlayerLink ==
  \A s \in Servers : up[s] = "up" =>
    /\ \A c \in Chars :
         LET k == live[s][c].plr
         IN  k # None => client[k] = [st |-> "play", at |-> s] /\ Who[k] = c
                           /\ live[s][c].on
    /\ \A k \in Clients :
         Untaken(Who[k]) /\ client[k] = [st |-> "play", at |-> s] =>
           live[s][Who[k]].plr = k

\* A client that asks for a login gets an answer -- its character, another
\* server or a refusal -- whatever other clients do with the one login
\* structure, abandoned logins included.
LoginResolves ==
  \A k \in Clients : client[k].st = "connect" ~> client[k].st # "connect"

\* Saved data changes only by a save that the server named in the row has
\* queued: the where clause of save_char fences off a server that lost the
\* character, even when the lock of load_char did not prevent a second copy.
OnlyHolderWrites ==
  [][\A c \in Chars : row'[c].data # row[c].data =>
       \E s \in Servers : row[c].cur = s /\ Queued(s, {"save", "exit"}, c)]_vars

\* The table with its queues and logins is a lending book for characters; the
\* entry of one that a flaw has struck is void.
Lease == INSTANCE CharacterLease WITH
  Holders <- Servers, Free <- None,
  book <- [c \in Chars |->
             [holder |-> row[c].cur, data |-> row[c].data.ver,
              shown |-> seen[c], void |-> ~Intact(c)]]
IsLease == Lease!Spec

=============================================================================
