------------------------------- MODULE Depot -------------------------------
(***************************************************************************)
(* The depot of one account: items and gold shared by its characters.      *)
(*                                                                         *)
(* The row of the depot names the server and the character that have it    *)
(* (area, mirror, cID; -1 for nobody).  It is loaded with a character at   *)
(* login, or later for a character already in the game, and only while the *)
(* row is free.  A character that has it changes it in memory; backups and *)
(* its exit queue updates, which name server and character in their where  *)
(* clause.  A character that wants it asks all servers, through the chat   *)
(* server, to take it from the others.                                     *)
(*                                                                         *)
(* The contents are abstracted to a version.  Of logins this module keeps  *)
(* what matters to the depot; load_char runs in one step, as the lock it   *)
(* takes on the chars table means it to (see AreaServers for the rest).    *)
(***************************************************************************)
EXTENDS Integers, Sequences, FiniteSets

CONSTANTS
  Servers,     \* the server processes
  Chars,       \* characters of the account
  None,        \* no server, no character
  Nobody,      \* the depot is free
  MaxVer,      \* bound on the changes of the depot
  MaxQueue,    \* queue length beyond which no backup or load is added
  MaxAsked,    \* bound on the requests to release the depot under way
  MaxFaults    \* bound on crashes, failed and abandoned logins

ASSUME DepotAssumption ==
  /\ None \notin Servers \cup Chars
  /\ Nobody \notin Servers \X Chars
  /\ IsFiniteSet(Chars) /\ Chars # {}
  /\ MaxVer \in Nat /\ MaxQueue \in Nat
  /\ MaxAsked \in Nat /\ MaxFaults \in Nat

VARIABLES
  chr,      \* per character: the server its row says it is online on
  depot,    \* the row of the depot: who has it, contents saved
  queue,    \* per server: queries waiting for its database thread
  login,    \* per server: the login structure
  game,     \* per server: the account's characters in ch[], with depot_ppd
  asked,    \* requests to release the depot on their way: server, asking one
  up,       \* servers that run
  newest,   \* newest contents a player has been shown
  rescued,  \* a rescue has freed the depot under a living server
  faults    \* faults so far

vars == <<chr, depot, queue, login, game, asked, up, newest, rescued, faults>>

Versions == 0..MaxVer
Updates  == {"save", "leave", "free"}
Ops      == Updates \cup {"exit", "load", "loaddepot", "rescue"}

Holders == Servers \X Chars
Row     == [holder: Holders \cup {Nobody}, data: Versions]
Query   == [op: Ops, c: Chars, data: Versions]
Idle    == [st |-> "empty", c |-> None, current |-> FALSE, loaded |-> FALSE,
            data |-> 0]
Login   == [st: {"read", "newarea", "create", "ok"}, c: Chars,
            current: BOOLEAN, loaded: BOOLEAN, data: Versions] \cup {Idle}
Player  == [on: BOOLEAN, loaded: BOOLEAN, dirty: BOOLEAN, data: Versions]

TypeOK ==
  /\ chr \in [Chars -> Servers \cup {None}]
  /\ depot \in Row
  /\ queue \in [Servers -> Seq(Query)]
  /\ login \in [Servers -> Login]
  /\ game \in [Servers -> [Chars -> Player]]
  /\ asked \subseteq Holders
  /\ up \subseteq Servers
  /\ newest \in Versions
  /\ rescued \in BOOLEAN
  /\ faults \in 0..MaxFaults

-----------------------------------------------------------------------------
(* Queries, logins and characters.                                         *)

Ask(op, c, data) == [op |-> op, c |-> c, data |-> data]

Absent == [on |-> FALSE, loaded |-> FALSE, dirty |-> FALSE, data |-> 0]

Queue(s, qs)    == queue' = [queue EXCEPT ![s] = @ \o qs]
SetLogin(s, l)  == login' = [login EXCEPT ![s] = l]
SetGame(s, c, p) == game' = [game EXCEPT ![s][c] = p]

TopIs(s, ops) ==
  /\ s \in up
  /\ queue[s] # <<>>
  /\ Head(queue[s]).op \in ops

RemoveTopQuery(s) == queue' = [queue EXCEPT ![s] = Tail(@)]

Fault == faults < MaxFaults /\ faults' = faults + 1

\* Mutant of SaveDepot: a leaving character gives up the depot unsaved.
SaveDepotUnsaved(p, c, op) ==
  IF ~p.loaded THEN <<>>
  ELSE IF op = "leave" THEN <<Ask("free", c, 0)>>
  ELSE IF p.dirty THEN <<Ask(op, c, p.data)>>
  ELSE <<>>

\* Mutant of SaveDepot: a backup forgets that the depot is not saved yet.
SaveDepotForgets(p, c, op) ==
  IF ~p.loaded \/ op = "save" THEN <<>>
  ELSE IF p.dirty THEN <<Ask(op, c, p.data)>>
  ELSE <<Ask("free", c, 0)>>

\* The update save_depot queues for character c, if any, when it leaves (op
\* is "leave") or for a backup ("save"): with the contents when they changed
\* since the last save, without when it only gives up.
SaveDepot(p, c, op) ==
  IF ~p.loaded THEN <<>>
  ELSE IF p.dirty THEN <<Ask(op, c, p.data)>>
  ELSE IF op = "leave" THEN <<Ask("free", c, 0)>>
  ELSE <<>>

Init ==
  /\ chr = [c \in Chars |-> None]
  /\ depot = [holder |-> Nobody, data |-> 0]
  /\ queue = [s \in Servers |-> <<>>]
  /\ login = [s \in Servers |-> Idle]
  /\ game = [s \in Servers |-> [c \in Chars |-> Absent]]
  /\ asked = {}
  /\ up = Servers
  /\ newest = 0
  /\ rescued = FALSE
  /\ faults = 0

-----------------------------------------------------------------------------
(* The game loop: find_login and tick_login.                               *)

StartRead(s, c, q) ==
  /\ SetLogin(s, [Idle EXCEPT !.st = "read", !.c = c])
  /\ queue' = [queue EXCEPT ![s] = Append(q, Ask("load", c, 0))]

FindLoginStart(s, c) ==
  /\ s \in up
  /\ login[s].st = "empty"
  /\ StartRead(s, c, queue[s])
  /\ UNCHANGED <<chr, depot, game, asked, up, newest, rescued, faults>>

\* LS_OK that nobody collected: a character made for it is released and
\* destroyed, but save_depot is not called; one it took over stays.
FindLoginStale(s, c) ==
  LET l == login[s]
  IN  /\ s \in up
      /\ l.st = "ok"
      /\ Fault
      /\ IF l.current
           THEN StartRead(s, c, queue[s]) /\ UNCHANGED game
           ELSE /\ StartRead(s, c, Append(queue[s], Ask("exit", l.c, 0)))
                /\ SetGame(s, l.c, Absent)
      /\ UNCHANGED <<chr, depot, asked, up, newest, rescued>>

FindLoginOk(s) ==
  /\ s \in up
  /\ login[s].st = "ok"
  /\ SetLogin(s, Idle)
  /\ UNCHANGED <<chr, depot, queue, game, asked, up, newest, rescued, faults>>

\* The client goes elsewhere, or no living server of that area is found and a
\* rescue is queued.
FindLoginNewarea(s) ==
  /\ s \in up
  /\ login[s].st = "newarea"
  /\ SetLogin(s, Idle)
  /\ \/ UNCHANGED queue
     \/ up # Servers /\ Queue(s, <<Ask("rescue", login[s].c, 0)>>)
  /\ UNCHANGED <<chr, depot, game, asked, up, newest, rescued, faults>>

\* tick_login has a character for login l: login.depot is of no more use.
Made(l) == [l EXCEPT !.st = "ok", !.loaded = FALSE, !.data = 0]

Creating(s) == s \in up /\ login[s].st = "create"

\* Online here already: the one in the game is handed out, or the login
\* fails.  login.depot is not looked at.
TickLoginUsurp(s) ==
  LET l == login[s]
  IN  /\ Creating(s) /\ l.current
      /\ SetLogin(s, IF game[s][l.c].on THEN Made(l) ELSE Idle)
      /\ UNCHANGED <<chr, depot, queue, game, asked, up, newest, rescued,
                     faults>>

TickLoginCreate(s) ==
  LET l == login[s]
  IN  /\ Creating(s) /\ ~l.current
      /\ SetGame(s, l.c, [on |-> TRUE, loaded |-> l.loaded, dirty |-> FALSE,
                          data |-> l.data])
      /\ SetLogin(s, Made(l))
      /\ UNCHANGED <<chr, depot, queue, asked, up, newest, rescued, faults>>

\* No slot for the character; no room on the map, and it is released; or no
\* slot for one of its items, and it stays, without a depot.
TickLoginFails(s) ==
  LET l == login[s]
  IN  /\ Creating(s) /\ ~l.current
      /\ Fault
      /\ SetLogin(s, Idle)
      /\ \/ UNCHANGED <<queue, game>>
         \/ Queue(s, <<Ask("exit", l.c, 0)>>) /\ UNCHANGED game
         \/ SetGame(s, l.c, [Absent EXCEPT !.on = TRUE]) /\ UNCHANGED queue
      /\ UNCHANGED <<chr, depot, asked, up, newest, rescued>>

-----------------------------------------------------------------------------
(* The game loop: characters in the game.                                  *)

\* In the game, and not just made or taken over for a client yet to collect.
Playing(s, c) ==
  /\ s \in up
  /\ game[s][c].on
  /\ ~(login[s].st = "ok" /\ login[s].c = c)

\* swap_depot, depot_sort, bank deposits and withdrawals.
Change(s, c) ==
  LET v == game[s][c].data + 1
  IN  /\ Playing(s, c)
      /\ game[s][c].loaded
      /\ v \in Versions
      /\ SetGame(s, c, [game[s][c] EXCEPT !.data = v, !.dirty = TRUE])
      /\ newest' = v
      /\ UNCHANGED <<chr, depot, queue, login, asked, up, rescued, faults>>

\* backup_players
Backup(s, c) ==
  /\ Playing(s, c)
  /\ Len(queue[s]) < MaxQueue
  /\ game[s][c].loaded /\ game[s][c].dirty
  /\ Queue(s, SaveDepot(game[s][c], c, "save"))
  /\ SetGame(s, c, [game[s][c] EXCEPT !.dirty = FALSE])
  /\ UNCHANGED <<chr, depot, login, asked, up, newest, rescued, faults>>

\* save_char with an area, and the character is destroyed: change_area,
\* exit_char, kick_char.  save_char queues the depot's update first.
Leave(s, c) ==
  /\ s \in up
  /\ game[s][c].on
  /\ Queue(s, SaveDepot(game[s][c], c, "leave") \o <<Ask("exit", c, 0)>>)
  /\ SetGame(s, c, Absent)
  /\ UNCHANGED <<chr, depot, login, asked, up, newest, rescued, faults>>

\* The orders in which release_depot may meet the characters of S.
Orders(S) ==
  {f \in [1..Cardinality(S) -> S] :
     \A i, j \in DOMAIN f : f[i] = f[j] => i = j}

\* Characters on s that lose the depot to a request by c.
Losing(s, c) == {o \in Chars \ {c} : game[s][o].loaded}

\* The updates they queue in order f.
Released(s, f) ==
  [i \in DOMAIN f |-> SaveDepot(game[s][f[i]], f[i], "leave")[1]]

\* release_depot: every other character saves it, gives it up and has none.
\* More queries in more follow.
GiveUp(s, c, more) ==
  /\ \E f \in Orders(Losing(s, c)) : Queue(s, Released(s, f) \o more)
  /\ game' = [game EXCEPT ![s] =
       [o \in Chars |-> IF o \in Losing(s, c)
                          THEN [Absent EXCEPT !.on = TRUE] ELSE @[o]]]

\* load_depot_for_char: ask all servers, then queue a load.  Without a
\* connection to the chat server the message is handled here, at once.
AskDepot(s, c) ==
  /\ Playing(s, c)
  /\ ~game[s][c].loaded
  /\ Len(queue[s]) < MaxQueue
  /\ \/ /\ asked' = asked \cup (up \X {c})
        /\ Cardinality(asked') <= MaxAsked
        /\ Queue(s, <<Ask("loaddepot", c, 0)>>)
        /\ UNCHANGED game
     \/ /\ GiveUp(s, c, <<Ask("loaddepot", c, 0)>>)
        /\ UNCHANGED asked
  /\ UNCHANGED <<chr, depot, login, up, newest, rescued, faults>>

\* The request arrives.  One element of asked stands for any number of equal
\* messages, so it may stay; it may also never arrive.
ReleaseDepot(s, c) ==
  /\ s \in up
  /\ <<s, c>> \in asked
  /\ GiveUp(s, c, <<>>)
  /\ asked' \in {asked, asked \ {<<s, c>>}}
  /\ UNCHANGED <<chr, depot, login, up, newest, rescued, faults>>

-----------------------------------------------------------------------------
(* The database thread executes the query at the top.                      *)

Free == [depot EXCEPT !.holder = Nobody]

\* Mutant of Updated: giving up clears area and mirror, but not cID.
UpdatedHalf(s, q) ==
  IF depot.holder # <<s, q.c>> THEN depot
  ELSE [holder |-> IF q.op = "save" THEN depot.holder ELSE <<None, q.c>>,
        data   |-> IF q.op = "free" THEN depot.data ELSE q.data]

\* The updates of save_depot.
Updated(s, q) ==
  IF depot.holder # <<s, q.c>> THEN depot
  ELSE [holder |-> IF q.op = "save" THEN depot.holder ELSE Nobody,
        data   |-> IF q.op = "free" THEN depot.data ELSE q.data]

DbUpdate(s) ==
  /\ TopIs(s, Updates)
  /\ depot' = Updated(s, Head(queue[s]))
  /\ RemoveTopQuery(s)
  /\ UNCHANGED <<chr, login, game, asked, up, newest, rescued, faults>>

\* The character's own row, after save_char or release_char.
DbExit(s) ==
  LET c == Head(queue[s]).c
  IN  /\ TopIs(s, {"exit"})
      /\ chr' = IF chr[c] = s THEN [chr EXCEPT ![c] = None] ELSE chr
      /\ RemoveTopQuery(s)
      /\ UNCHANGED <<depot, login, game, asked, up, newest, rescued,
                     faults>>

\* Mutant of Available: load_depot looks at the server only.
AvailableHere(s) == depot.holder = Nobody \/ depot.holder[1] = s

\* load_depot succeeds for server s: nobody has the depot, not even s.
Available(s) == depot.holder = Nobody

Loading(s) == TopIs(s, {"load"}) /\ login[s].st = "read"

\* load_char: the character login names may log in here, with the depot if it
\* is free.
DbLoad(s) ==
  LET c == login[s].c
  IN  /\ Loading(s)
      /\ chr[c] \in {None, s}
      /\ chr' = [chr EXCEPT ![c] = s]
      /\ depot' = IF Available(s) THEN [depot EXCEPT !.holder = <<s, c>>]
                                  ELSE depot
      /\ SetLogin(s, [login[s] EXCEPT
                        !.st = "create",
                        !.current = chr[c] = s,
                        !.loaded = Available(s),
                        !.data = IF Available(s) THEN depot.data ELSE 0])
      /\ RemoveTopQuery(s)
      /\ UNCHANGED <<game, asked, up, newest, rescued, faults>>

\* load_char: refused, or sent to the server where it is online or to the
\* area that may log it in.
DbLoadRefused(s) ==
  LET c == login[s].c
  IN  /\ Loading(s)
      /\ \/ SetLogin(s, Idle)
         \/ chr[c] # s /\ SetLogin(s, [login[s] EXCEPT !.st = "newarea"])
      /\ RemoveTopQuery(s)
      /\ UNCHANGED <<chr, depot, game, asked, up, newest, rescued, faults>>

\* db_load_depot_for_char, with the game loop locked out.
DbLoadDepot(s) ==
  LET c   == Head(queue[s]).c
      got == game[s][c].on /\ ~game[s][c].loaded /\ Available(s)
  IN  /\ TopIs(s, {"loaddepot"})
      /\ IF got
           THEN /\ depot' = [depot EXCEPT !.holder = <<s, c>>]
                /\ SetGame(s, c, [on |-> TRUE, loaded |-> TRUE,
                                  dirty |-> FALSE, data |-> depot.data])
           ELSE UNCHANGED <<depot, game>>
      /\ RemoveTopQuery(s)
      /\ UNCHANGED <<chr, login, asked, up, newest, rescued, faults>>

\* db_rescue_char: the character is offline, or on a server that has been
\* silent for five minutes; the depot of the account is freed, whoever has it.
\* Nothing is done when the server lives or areas 3 and 1 are down.
DbRescue(s) ==
  LET c == Head(queue[s]).c
  IN  /\ TopIs(s, {"rescue"})
      /\ \/ /\ chr[c] \notin up
            /\ chr' = [chr EXCEPT ![c] = None]
            /\ depot' = Free
            /\ rescued' = (rescued \/ depot.holder \in up \X Chars)
         \/ UNCHANGED <<chr, depot, rescued>>
      /\ RemoveTopQuery(s)
      /\ UNCHANGED <<login, game, asked, up, newest, faults>>

-----------------------------------------------------------------------------
(* Servers.                                                                *)

\* What the dead server knew of the depot is lost; players are set back.
Crash(s) ==
  /\ s \in up
  /\ Fault
  /\ up' = up \ {s}
  /\ queue' = [queue EXCEPT ![s] = <<>>]
  /\ SetLogin(s, Idle)
  /\ game' = [game EXCEPT ![s] = [c \in Chars |-> Absent]]
  /\ asked' = {a \in asked : a[1] # s}
  /\ newest' = IF depot.holder \in {s} \X Chars THEN depot.data ELSE newest
  /\ UNCHANGED <<chr, depot, rescued>>

\* init_database
Restart(s) ==
  /\ s \notin up
  /\ up' = up \cup {s}
  /\ chr' = [c \in Chars |-> IF chr[c] = s THEN None ELSE chr[c]]
  /\ depot' = IF depot.holder \in {s} \X Chars THEN Free ELSE depot
  /\ UNCHANGED <<queue, login, game, asked, newest, rescued, faults>>

FindLogin(s) ==
  \/ \E c \in Chars : FindLoginStart(s, c) \/ FindLoginStale(s, c)
  \/ FindLoginOk(s)
  \/ FindLoginNewarea(s)

TickLogin(s) == TickLoginUsurp(s) \/ TickLoginCreate(s) \/ TickLoginFails(s)

Game(s) ==
  \E c \in Chars :
    Change(s, c) \/ Backup(s, c) \/ Leave(s, c)
      \/ AskDepot(s, c) \/ ReleaseDepot(s, c)

DbStep(s) ==
  \/ DbUpdate(s)
  \/ DbExit(s)
  \/ DbLoad(s)
  \/ DbLoadRefused(s)
  \/ DbLoadDepot(s)
  \/ DbRescue(s)

Next ==
  \E s \in Servers :
    FindLogin(s) \/ TickLogin(s) \/ Game(s) \/ DbStep(s)
      \/ Crash(s) \/ Restart(s)

Spec == Init /\ [][Next]_vars

-----------------------------------------------------------------------------
(* Properties.                                                             *)

\* depot.h says of loaded: "depot was loaded correctly and can be used".  Who
\* uses the depot is named in its row, or nothing it does will be saved.
LoadedIsUsable ==
  \A s \in Servers, c \in Chars :
    game[s][c].loaded => depot.holder = <<s, c>>

\* The same, except that db_rescue_char takes the depot from a living server.
UsableUnlessRescued == rescued \/ LoadedIsUsable

\* Nobody works with an old copy: whoever has the depot loaded has what was
\* shown last, and what is in the table is what was shown last when the row is
\* free -- across hand-overs, logouts, stale logins and crashes (which set all
\* players back to what was saved).
LoadedIsCurrent ==
  /\ \A s \in Servers, c \in Chars :
       game[s][c].loaded => game[s][c].data = newest
  /\ depot.holder = Nobody => depot.data = newest

CurrentUnlessRescued == rescued \/ LoadedIsCurrent

\* No character of the account is online, and what they queued is done: there
\* is only the login at server s.
AloneOnline(s) ==
  /\ up = Servers
  /\ chr = [o \in Chars |-> None]
  /\ \A t \in Servers :
       /\ \A o \in Chars : ~game[t][o].on
       /\ t # s => queue[t] = <<>> /\ login[t].st = "empty"

\* command.c: "Your depot isn't loaded; try relogging with only a single
\* character online."  Such a login gets the depot.
RelogLoads ==
  [][\A s \in Servers :
       DbLoad(s) /\ AloneOnline(s) => login'[s].loaded]_vars

-----------------------------------------------------------------------------
(* The inductive invariant behind UsableUnlessRescued.                     *)

\* Positions of the updates in q that give up the depot.
Gives(q) == {i \in DOMAIN q : q[i].op \in {"leave", "free"}}

\* Whoever will use or give up the depot has it, and for one purpose: in the
\* game, in a login on its way, or in one update that gives it up.
ClaimInv(s) ==
  /\ \A c \in Chars :
       game[s][c].loaded => depot.holder = <<s, c>> /\ ~login[s].loaded
  /\ login[s].loaded => depot.holder = <<s, login[s].c>>
  /\ \A i \in Gives(queue[s]) :
       LET c == queue[s][i].c
       IN  /\ depot.holder = <<s, c>>
           /\ ~game[s][c].loaded
           /\ ~login[s].loaded
           /\ \A j \in Gives(queue[s]) : j = i

\* A server that is down has and does nothing.
DownInv(s) ==
  s \notin up => /\ queue[s] = <<>>
                 /\ login[s] = Idle
                 /\ game[s] = [c \in Chars |-> Absent]

DepotInv ==
  /\ TypeOK
  /\ \A s \in Servers : DownInv(s)
  /\ rescued \/ \A s \in Servers : ClaimInv(s)

-----------------------------------------------------------------------------
(* The inductive invariant behind CurrentUnlessRescued.                    *)

\* Positions of the updates in q that save contents.
Saving(q) == {i \in DOMAIN q : q[i].op \in {"save", "leave"}}

\* When queue q is done, a row with contents d has contents v.
Lands(q, d, v) ==
  IF Saving(q) = {} THEN d = v
  ELSE \E i \in Saving(q) : q[i].data = v /\ \A j \in Saving(q) : j <= i

\* Queued updates find their row.  What is shown last is in the game, with
\* the login, or in the row once the queue is done; nothing is saved after
\* the update that gives the depot up.
CurrentInv(s) ==
  LET q == queue[s]
  IN  /\ \A i \in DOMAIN q : q[i].op \in Updates =>
           depot.holder = <<s, q[i].c>> /\ ~login[s].loaded
      /\ \A i \in Gives(q) : /\ Lands(q, depot.data, newest)
                              /\ \A j \in DOMAIN q : j > i => q[j].op # "save"
      /\ \A c \in Chars : game[s][c].loaded =>
           /\ game[s][c].data = newest
           /\ ~game[s][c].dirty => Lands(q, depot.data, newest)
      /\ login[s].loaded => login[s].data = newest /\ depot.data = newest

\* Where no server that runs has the depot, all that was shown is saved.
FreeInv == depot.holder \notin up \X Chars => depot.data = newest

CopyInv ==
  /\ DepotInv
  /\ rescued \/ (FreeInv /\ \A s \in Servers : CurrentInv(s))
=============================================================================
