------------------------ MODULE AreaServersInductive ------------------------
(***************************************************************************)
(* Why a character is in one game only: the facts about the queue, the     *)
(* login and the rows of every server that each step of AreaServers keeps. *)
(***************************************************************************)
EXTENDS AreaServers

\* A queued load is the last one, has its login waiting and no release comes
\* after it; once the row is copied the load is at the top of the queue.
LoadInv(s) ==
  /\ \A i \in DOMAIN queue[s] : queue[s][i].op = "load" =>
       /\ login[s].st \in {"read", "mark"}
       /\ login[s].c = queue[s][i].c
       /\ \A j \in DOMAIN queue[s] :
            queue[s][j].op \in {"load", "release"} => j <= i
  /\ login[s].st = "mark" => queue[s] # <<>> /\ queue[s][1].op = "load"

LeaseInv(s) ==
  \A c \in Chars : Untaken(c) /\ Holds(s, c) => row[c].cur = s

\* A character about to be made is not in the game already.
CreateInv(s) ==
  LET c == login[s].c
  IN  login[s].st = "create" /\ ~login[s].current /\ Untaken(c) =>
        ~live[s][c].on

\* While a query that gives the character up is queued the character is not
\* in the game, and a logout that is not at the top will find its row.
GiveUpInv(s) ==
  \A c \in Chars : \A i \in DOMAIN queue[s] :
    Untaken(c) /\ queue[s][i].c = c =>
      /\ queue[s][i].op \in {"exit", "release"} => ~Holds(s, c)
      /\ queue[s][i].op = "exit" =>
           /\ i > 1 => row[c].cur = s
           /\ \A j \in 1..(i - 1) :
                queue[s][j].op \in {"exit", "release"} => queue[s][j].c # c

DownInv(s) ==
  up[s] = "down" => /\ queue[s] = <<>>
                    /\ login[s].st = "empty"
                    /\ \A c \in Chars : ~live[s][c].on

ServerInv(s) == /\ LoadInv(s)
                /\ LeaseInv(s)
                /\ CreateInv(s)
                /\ GiveUpInv(s)
                /\ DownInv(s)

IInv == /\ TypeOK
        /\ \A s \in Servers : ServerInv(s)

-----------------------------------------------------------------------------
(* Clients and characters, and what becomes of the data.                   *)

InGame(s) == [st |-> "play", at |-> s]

\* Client and character know each other, and a character that waits to be
\* collected has no client yet.
LinkInv(s) ==
  /\ \A c \in Chars :
       LET k == live[s][c].plr
       IN  k # None => client[k] = InGame(s) /\ Who[k] = c /\ live[s][c].on
  /\ \A k \in Clients :
       Untaken(Who[k]) /\ client[k] = InGame(s) => live[s][Who[k]].plr = k
  /\ login[s].st = "ok" => live[s][login[s].c].plr = None

\* A server that runs has what is marked for it, or is about to give it up.
AccountInv(s) ==
  up[s] # "down" => \A c \in Chars :
    Freed(c) /\ row[c].cur = s =>
      Holds(s, c) \/ Queued(s, {"exit", "release"}, c)

\* Nothing saved of c, and nothing that server s will save, is newer than v.
Newest(s, c, v) ==
  /\ row[c].data.ver <= v
  /\ \A i \in DOMAIN queue[s] :
       queue[s][i].c = c /\ queue[s][i].op = "save" => queue[s][i].data.ver <= v

\* Queued saves find their row and come in the order of their versions; so
\* does the save of a logout, unless it was written already (DbWriteAgain).
WriteInv(s, c) ==
  \A i \in DOMAIN queue[s] :
    LET q == queue[s][i]
    IN  q.c = c /\ q.op \in {"save", "exit"} =>
          /\ row[c].cur = s => row[c].data.ver <= q.data.ver
          /\ \A j \in 1..(i - 1) : queue[s][j].c = c =>
               /\ queue[s][j].op = "save" => queue[s][j].data.ver <= q.data.ver
               /\ q.op = "save" => queue[s][j].op \notin {"exit", "release"}
          /\ q.op = "save" => row[c].cur = s
          /\ q.op = "exit" /\ row[c].cur # s => row[c].data.ver >= q.data.ver

\* What a server has in its game or has loaded is the newest there is.
HeldInv(s, c) ==
  /\ live[s][c].on => Newest(s, c, live[s][c].data.ver)
  /\ login[s].c = c /\ ~login[s].current /\ login[s].st = "create" =>
       Newest(s, c, login[s].data.ver)

\* Nobody has seen more of a character that was not collected than is saved.
UnseenInv(s) ==
  LET c == login[s].c
  IN  Intact(c) /\ login[s].st = "ok" /\ ~login[s].usurp /\ live[s][c].on =>
        seen[c] <= row[c].data.ver

\* What a player has been shown is saved, or is in the game or the logout of
\* the server the row names.
SeenInv(c) ==
  LET s == row[c].cur
  IN  \/ seen[c] <= row[c].data.ver
      \/ /\ s # None
         /\ \/ live[s][c].on /\ seen[c] <= live[s][c].data.ver
            \/ \E i \in DOMAIN queue[s] :
                 /\ queue[s][i].op = "exit" /\ queue[s][i].c = c
                 /\ seen[c] <= queue[s][i].data.ver

DataInv ==
  /\ \A s \in Servers, c \in Chars :
       Intact(c) => WriteInv(s, c) /\ HeldInv(s, c)
  /\ \A s \in Servers : UnseenInv(s)
  /\ \A c \in Chars : Intact(c) => SeenInv(c)

\* All of it.
WholeInv == /\ IInv
            /\ \A s \in Servers : LinkInv(s) /\ AccountInv(s)
            /\ DataInv

=============================================================================
