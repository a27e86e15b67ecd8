------------------------------- MODULE World -------------------------------
(***************************************************************************)
(* The ground of an area: characters that walk, take, drop, give and die,  *)
(* the items they move about, dead bodies, doors, and the timers that tidy *)
(* up.                                                                     *)
(*                                                                         *)
(* An action takes two steps: do_...() checks and begins it, act_...()     *)
(* carries it out some ticks later and checks again, as others have acted  *)
(* in between.  A tile is taken by the flag MF_TMOVEBLOCK, which one who   *)
(* begins to walk sets on the tile he goes to; an item knows where it is,  *)
(* and the place knows the item.  Nothing but the code of each operation   *)
(* keeps these in step; consistency.c looks for the damage.                *)
(*                                                                         *)
(* Chance refusals (keys, bonds, quest items, one-carry items, requirements*)
(* of what is worn) only keep a step from happening and are left out.      *)
(***************************************************************************)
EXTENDS Integers, FiniteSetsExt

CONSTANTS
  Width, Height,    \* of the map inside its border
  Walls,            \* tiles with MF_MOVEBLOCK
  Doors,            \* tiles with a door that closes by itself
  Slots,            \* entries of ch[]
  Folk,             \* how many of each kind there may be: the players of the
                    \* area, and the beasts its zone data has, who respawn
  Items,            \* entries of it[]
  None,
  PackSize,         \* places in the backpack, by kind of character
  SnSize,           \* values of expire_sn, 256 in the code
  BodyTime,         \* times a body with something in it is left alone
  MaxBorn,          \* bound on the items ever made
  MaxLaid,          \* bound on how often those there are were laid down
  MaxTimers,        \* bound on the timers of items that wait
  MaxCalls          \* bound on the calls a door waits for

Tiles == (1 .. Width) \X (1 .. Height)
Kinds == {"player", "beast"}
Dirs  == ({-1, 0, 1} \X {-1, 0, 1}) \ {<<0, 0>>}

ASSUME WorldAssumption ==
  /\ Width \in Nat /\ Height \in Nat
  /\ Walls \subseteq Tiles /\ Doors \subseteq Tiles \ Walls
  /\ None \notin Slots \cup Items \cup Tiles
  /\ IsFiniteSet(Slots) /\ IsFiniteSet(Items)
  /\ Folk \in [Kinds -> Nat]
  /\ PackSize \in [Kinds -> Nat]
  /\ MaxBorn \in Nat /\ MaxLaid \in Nat /\ MaxTimers \in Nat /\ MaxCalls \in Nat
  /\ SnSize \in Nat \ {0} /\ BodyTime \in Nat \ {0}

VARIABLES
  map,      \* per tile: ch, it and the flag MF_TMOVEBLOCK
  ch,       \* per slot: who is, or last was, in it, and what it has and does
  item,     \* per entry of it[]
  inside,   \* per entry of it[]: the items of its container
  timers,   \* expire_timer and expire_timer_body calls that are due
  door,     \* per door: open, drdata[39], calls of door_driver that are due
  born      \* sernum of the next item

vars == <<map, ch, item, inside, timers, door, born>>

Idle == [do |-> "idle", dir |-> None, goal |-> None]
Acts == {"idle", "walk", "take", "drop", "give", "use", "die"}

Absent == [kind |-> "none", at |-> None, to |-> None, act |-> Idle,
           hand |-> None, pack |-> {}]
\* what a free entry of it[] held is not read: create_item overwrites all of it
Unused == [kind |-> "none", serial |-> 0, at |-> None, by |-> None, in |-> None,
           laid |-> 0, left |-> 0]

Opt(S) == S \cup {None}

TileState == [ch : Opt(Slots), it : Opt(Items), tmove : BOOLEAN]
\* an act that is not for walking or dying is aimed at something in some direction
Aimed(a) ==
  /\ a.do \in {"take", "drop", "give", "use"} => a.dir \in Dirs
  /\ a.do \in {"take", "drop"} => a.goal \in Items
  /\ a.do = "give" => a.goal \in Slots
ActState == {a \in [do : Acts, dir : Opt(Dirs), goal : Opt(Items \cup Slots)] : Aimed(a)}

CharState == [kind : Kinds \cup {"none"}, at : Opt(Tiles), to : Opt(Tiles), act : ActState,
              hand : Opt(Items), pack : SUBSET Items]
\* a husk is a body for which there was no container
Bodies    == {"body", "husk"}
ItemState == [kind : {"none", "thing"} \cup Bodies, serial : 0 .. MaxBorn, at : Opt(Tiles),
              by : Opt(Slots), in : Opt(Items), laid : Nat, left : 0 .. BodyTime]
Timer     == [it : Items, serial : 0 .. MaxBorn, at : Tiles, laid : Nat, body : BOOLEAN]
DoorState == [open : BOOLEAN, count : Nat, calls : 0 .. MaxCalls]

TypeOK ==
  /\ map \in [Tiles -> TileState]
  /\ ch \in [Slots -> CharState]
  /\ item \in [Items -> ItemState]
  /\ inside \in [Items -> SUBSET Items]
  /\ timers \subseteq Timer
  /\ door \in [Doors -> DoorState]
  /\ born \in 0 .. MaxBorn

Init ==
  /\ map = [t \in Tiles |-> [ch |-> None, it |-> None, tmove |-> t \in Doors]]
  /\ ch = [c \in Slots |-> Absent]
  /\ item = [i \in Items |-> Unused]
  /\ inside = [i \in Items |-> {}]
  /\ timers = {}
  /\ door = [t \in Doors |-> [open |-> FALSE, count |-> 0, calls |-> 0]]
  /\ born = 0

-----------------------------------------------------------------------------
(* Helpers of map.c, create.c and tool.c *)

Used(c) == ch[c].kind # "none"
Dead(c) == ch[c].act.do = "die"
Ready(c) == Used(c) /\ ch[c].act = Idle
Acting(c, do) == Used(c) /\ ch[c].act.do = do
IsPlayer(c) == ch[c].kind = "player"

Step(t, d) == <<t[1] + d[1], t[2] + d[2]>>
Ahead(c, d) == Step(ch[c].at, d)
\* the tiles beside a diagonal step
Corners(t, d) == {<<t[1] + d[1], t[2]>>, <<t[1], t[2] + d[2]>>} \ {t, Step(t, d)}

Blocked(m, t) == t \in Walls \/ m[t].tmove
HasItem(m, t) == t \in Doors \/ m[t].it # None

\* tiles on which set_char, set_item_map would succeed
Standable(m) == {t \in Tiles : m[t].ch = None /\ ~Blocked(m, t)}
Layable(m)   == {t \in Tiles : ~HasItem(m, t) /\ ~Blocked(m, t)}

SetChar(m, c, t) == [m EXCEPT ![t].ch = c, ![t].tmove = TRUE]
\* Mutant: the tile the character was on the way to stays blocked.
RemoveCharHalf(m, c) ==
  [t \in Tiles |-> IF t = ch[c].at THEN [m[t] EXCEPT !.ch = None, !.tmove = FALSE] ELSE m[t]]

RemoveChar(m, c) ==
  [t \in Tiles |->
     IF t = ch[c].at THEN [m[t] EXCEPT !.ch = None, !.tmove = FALSE]
     ELSE IF t = ch[c].to THEN [m[t] EXCEPT !.tmove = FALSE]
     ELSE m[t]]

Carried(c) == ({ch[c].hand} \ {None}) \cup ch[c].pack
Free(it, I) == [i \in Items |-> IF i \in I THEN Unused ELSE it[i]]
RoomInPack(c) == Cardinality(ch[c].pack) < PackSize[ch[c].kind]

\* The arguments of set_timer in set_expire and set_expire_body.
\* Mutant: it takes expire_sn before that is incremented.
ExpiryEarly(i, s, t, n, b) ==
  [it |-> i, serial |-> s, at |-> t, laid |-> IF b THEN n ELSE n - 1, body |-> b]

Expiry(i, s, t, n, b) == [it |-> i, serial |-> s, at |-> t, laid |-> n, body |-> b]

-----------------------------------------------------------------------------
(* Coming, going, and being moved *)

Enter(c, kind, t) ==
  /\ ~Used(c)
  /\ Cardinality({k \in Slots : ch[k].kind = kind}) < Folk[kind]
  /\ t \in Standable(map)
  /\ ch' = [ch EXCEPT ![c] = [Absent EXCEPT !.kind = kind, !.at = t]]
  /\ map' = SetChar(map, c, t)
  /\ UNCHANGED <<item, inside, timers, door, born>>

Leave(c) ==
  /\ Used(c)
  /\ map' = RemoveChar(map, c)
  /\ item' = Free(item, Carried(c))
  /\ ch' = [ch EXCEPT ![c] = Absent]
  /\ UNCHANGED <<inside, timers, door, born>>

Teleport(c, t) ==
  /\ Used(c) /\ ~Dead(c)
  /\ t \in Standable(RemoveChar(map, c))
  /\ map' = SetChar(RemoveChar(map, c), c, t)
  /\ ch' = [ch EXCEPT ![c].at = t, ![c].to = None, ![c].act = Idle]
  /\ UNCHANGED <<item, inside, timers, door, born>>

CharSwap(c, d) ==
  LET t == Ahead(c, d)
      k == map[t].ch
      empty == RemoveChar(RemoveChar(map, c), k)
  IN /\ Ready(c)
     /\ t \in Tiles /\ k # None
     /\ IsPlayer(k)
     /\ map' = SetChar(SetChar(empty, c, t), k, ch[c].at)
     /\ ch' = [ch EXCEPT ![c].at = t,
                         ![k].at = ch[c].at,
                         ![k].to = None,
                         ![k].act = IF @.do = "walk" THEN Idle ELSE @]
     /\ UNCHANGED <<item, inside, timers, door, born>>

-----------------------------------------------------------------------------
(* Beginning an action *)

Begin(c, do, d, goal) ==
  ch' = [ch EXCEPT ![c].act = [do |-> do, dir |-> d, goal |-> goal]]

DoWalk(c, d) ==
  LET t == Ahead(c, d) IN
  /\ Ready(c)
  /\ t \in Tiles /\ ~Blocked(map, t)
  /\ \A u \in Corners(ch[c].at, d) : ~Blocked(map, u)
  /\ map[t].ch = None
  /\ map' = [map EXCEPT ![t].tmove = TRUE]
  /\ ch' = [ch EXCEPT ![c].to = t,
                      ![c].act = [do |-> "walk", dir |-> None, goal |-> None]]
  /\ UNCHANGED <<item, inside, timers, door, born>>

DoTake(c, d) ==
  LET t == Ahead(c, d) IN
  /\ Ready(c)
  /\ ch[c].hand = None
  /\ t \in Tiles /\ map[t].it # None
  /\ item[map[t].it].kind = "thing"
  /\ Begin(c, "take", d, map[t].it)
  /\ UNCHANGED <<map, item, inside, timers, door, born>>

DoDrop(c, d) ==
  LET t == Ahead(c, d) IN
  /\ Ready(c)
  /\ ch[c].hand # None
  /\ t \in Layable(map)
  /\ Begin(c, "drop", d, ch[c].hand)
  /\ UNCHANGED <<map, item, inside, timers, door, born>>

DoGive(c, d) ==
  LET t == Ahead(c, d)
      k == map[t].ch
  IN /\ Ready(c)
     /\ ch[c].hand # None
     /\ t \in Tiles /\ k # None /\ ~Dead(k)
     /\ ch[k].hand # None => IsPlayer(k) /\ RoomInPack(k)
     /\ Begin(c, "give", d, k)
     /\ UNCHANGED <<map, item, inside, timers, door, born>>

DoUse(c, d) ==
  /\ Ready(c)
  /\ Ahead(c, d) \in Doors
  /\ Begin(c, "use", d, None)
  /\ UNCHANGED <<map, item, inside, timers, door, born>>

-----------------------------------------------------------------------------
(* Carrying it out *)

ActWalk(c) ==
  LET t == ch[c].to IN
  /\ Acting(c, "walk") /\ t # None
  /\ map' = [map EXCEPT ![ch[c].at].ch = None, ![ch[c].at].tmove = FALSE, ![t].ch = c]
  /\ ch' = [ch EXCEPT ![c].at = t, ![c].to = None, ![c].act = Idle]
  /\ UNCHANGED <<item, inside, timers, door, born>>

\* Mutant: act_take trusts what do_take saw.
CanTakeUnseen(c, t) == ch[c].hand = None /\ t \in Tiles

CanTake(c, t) ==
  /\ ch[c].hand = None
  /\ t \in Tiles /\ map[t].it = ch[c].act.goal
  /\ item[map[t].it].kind = "thing"

ActTake(c) ==
  LET t == Ahead(c, ch[c].act.dir)
      i == ch[c].act.goal
  IN /\ Acting(c, "take")
     /\ \/ /\ CanTake(c, t)
           /\ map' = [map EXCEPT ![t].it = None]
           /\ item' = [item EXCEPT ![i].at = None, ![i].by = c]
           /\ ch' = [ch EXCEPT ![c].hand = i, ![c].act = Idle]
        \/ /\ ~CanTake(c, t)
           /\ ch' = [ch EXCEPT ![c].act = Idle]
           /\ UNCHANGED <<map, item>>
     /\ UNCHANGED <<inside, timers, door, born>>

\* bounded by MaxLaid
Layings == MapThenSumSet(LAMBDA i : item[i].laid, Items)

ActDrop(c) ==
  LET t == Ahead(c, ch[c].act.dir)
      i == ch[c].act.goal
      can == ch[c].hand = i /\ t \in Layable(map)
  IN /\ Acting(c, "drop")
     /\ \/ /\ can
           /\ Layings < MaxLaid
           /\ Cardinality(timers) < MaxTimers
           /\ map' = [map EXCEPT ![t].it = i]
           /\ item' = [item EXCEPT ![i].at = t, ![i].by = None, ![i].in = None,
                                   ![i].laid = @ + 1]
           /\ timers' = timers \cup {Expiry(i, item[i].serial, t, item[i].laid + 1, FALSE)}
           /\ ch' = [ch EXCEPT ![c].hand = None, ![c].act = Idle]
        \/ /\ ~can
           /\ ch' = [ch EXCEPT ![c].act = Idle]
           /\ UNCHANGED <<map, item, timers>>
     /\ UNCHANGED <<inside, door, born>>

\* give_char_item for players; others have only a hand
Given(c, i) ==
  IF ch[c].hand = None THEN [ch[c] EXCEPT !.hand = i] ELSE [ch[c] EXCEPT !.pack = @ \cup {i}]
CanGet(c) == ch[c].hand = None \/ (IsPlayer(c) /\ RoomInPack(c))

ActGive(c) ==
  LET t == Ahead(c, ch[c].act.dir)
      k == ch[c].act.goal
      i == ch[c].hand
      can == t \in Tiles /\ map[t].ch = k /\ ~Dead(k) /\ i # None /\ CanGet(k)
  IN /\ Acting(c, "give")
     /\ \/ /\ can
           /\ item' = [item EXCEPT ![i].by = k]
           /\ ch' = [ch EXCEPT ![k] = Given(k, i), ![c].hand = None, ![c].act = Idle]
        \/ /\ ~can
           /\ ch' = [ch EXCEPT ![c].act = Idle]
           /\ UNCHANGED item
     /\ UNCHANGED <<map, inside, timers, door, born>>

\* door_driver, called by a character
ActUse(c) ==
  LET t == Ahead(c, ch[c].act.dir) IN
  /\ Acting(c, "use")
  /\ ch' = [ch EXCEPT ![c].act = Idle]
  /\ \/ /\ t \in Doors /\ door[t].open /\ ~Blocked(map, t)
        /\ door' = [door EXCEPT ![t].open = FALSE]
        /\ map' = [map EXCEPT ![t].tmove = TRUE]
     \/ /\ t \in Doors /\ ~door[t].open /\ door[t].calls < MaxCalls
        /\ door' = [door EXCEPT ![t].open = TRUE, ![t].count = @ + 1, ![t].calls = @ + 1]
        /\ map' = [map EXCEPT ![t].tmove = FALSE]
     \/ /\ t \in Doors => door[t].open /\ Blocked(map, t)
        /\ UNCHANGED <<door, map>>
  /\ UNCHANGED <<item, inside, timers, born>>

-----------------------------------------------------------------------------
(* What takes no time *)

\* swap: between the hand and a place of the inventory
Stow(c, x) ==
  /\ Used(c) /\ ~Dead(c)
  /\ x \in ch[c].pack \cup (IF RoomInPack(c) THEN {None} ELSE {})
  /\ x # ch[c].hand
  /\ ch' = [ch EXCEPT ![c].hand = x,
                      ![c].pack = (@ \cup {ch[c].hand}) \ {x, None}]
  /\ UNCHANGED <<map, item, inside, timers, door, born>>

\* swap between the hand and a place of the container in front
Container(c, d, x) ==
  LET t == Ahead(c, d)
      b == map[t].it
      h == ch[c].hand
  IN /\ Ready(c) /\ IsPlayer(c)
     /\ t \in Tiles /\ b # None
     /\ item[b].kind = "body"
     /\ x \in Opt(inside[b])
     /\ x # h
     /\ ch' = [ch EXCEPT ![c].hand = x]
     /\ inside' = [inside EXCEPT ![b] = (@ \cup {h}) \ {x, None}]
     /\ item' = [i \in Items |->
                   IF i = x THEN [item[i] EXCEPT !.by = c, !.in = None]
                   ELSE IF i = h THEN [item[i] EXCEPT !.by = None, !.in = b]
                   ELSE item[i]]
     /\ UNCHANGED <<map, timers, door, born>>

\* create_item and give_char_item
Create(c, i) ==
  /\ Used(c) /\ CanGet(c)
  /\ item[i].kind = "none" /\ born < MaxBorn
  /\ born' = born + 1
  /\ item' = [item EXCEPT ![i] = [Unused EXCEPT !.kind = "thing", !.serial = born + 1, !.by = c]]
  /\ ch' = [ch EXCEPT ![c] = Given(c, i)]
  /\ UNCHANGED <<map, inside, timers, door>>

\* remove_item_char and destroy_item
Destroy(c, i) ==
  /\ Used(c) /\ i \in Carried(c)
  /\ item' = Free(item, {i})
  /\ ch' = [ch EXCEPT ![c].hand = IF @ = i THEN None ELSE @,
                      ![c].pack = @ \ {i}]
  /\ UNCHANGED <<map, inside, timers, door, born>>

-----------------------------------------------------------------------------
(* Death *)

Kill(c) ==
  /\ Used(c) /\ ~Dead(c)
  /\ Begin(c, "die", None, None)
  /\ UNCHANGED <<map, item, inside, timers, door, born>>

\* The items of a dead character are freed if there is no body for them or no
\* container for the body, else put into it; a player keeps what he wears, which
\* may be any of the inventory, and takes it along if he leaves this server.
Bodiless(c) ==
  /\ item' = Free(item, Carried(c))
  /\ UNCHANGED <<inside, timers, born>>

Body(c, b, t, kind, kept, gone) ==
  LET put == Carried(c) \ kept IN
  /\ item[b].kind = "none" /\ born < MaxBorn
  /\ Cardinality(timers) < MaxTimers
  /\ born' = born + 1
  /\ inside' = [inside EXCEPT ![b] = put]
  /\ item' = [i \in Items |->
                IF i = b
                THEN [Unused EXCEPT !.kind = kind, !.serial = born + 1, !.at = t,
                                    !.left = BodyTime]
                ELSE IF i \in gone THEN Unused
                ELSE IF i \in put THEN [item[i] EXCEPT !.by = None, !.in = b]
                ELSE item[i]]
  /\ timers' = timers \cup {Expiry(b, born + 1, t, 0, TRUE)}

Husk(c, b, t) == Body(c, b, t, "husk", Carried(c), Carried(c))

\* to the rest area
Revive(c, m, u, kept) ==
  /\ IsPlayer(c)
  /\ u \in Standable(m)
  /\ map' = SetChar(m, c, u)
  /\ ch' = [ch EXCEPT ![c] = [Absent EXCEPT !.kind = "player", !.at = u, !.pack = kept]]

\* to another server, or no more
Depart(c, m) ==
  /\ map' = m
  /\ ch' = [ch EXCEPT ![c] = Absent]

ActDie(c) ==
  LET m == RemoveChar(map, c) IN
  /\ Acting(c, "die")
  /\ \/ /\ Bodiless(c)
        /\ Depart(c, m) \/ \E u \in Tiles : Revive(c, m, u, {})
     \/ \E b \in Items, t \in Layable(m) :
          LET buried == [m EXCEPT ![t].it = b] IN
          \/ /\ Husk(c, b, t)
             /\ Depart(c, buried) \/ \E u \in Tiles : Revive(c, buried, u, {})
          \/ \E kept \in SUBSET (IF IsPlayer(c) THEN ch[c].pack ELSE {}) :
               \/ /\ Body(c, b, t, "body", kept, {})
                  /\ \E u \in Tiles : Revive(c, buried, u, kept)
               \/ Body(c, b, t, "body", kept, kept) /\ Depart(c, buried)
  /\ UNCHANGED door

-----------------------------------------------------------------------------
(* Timers *)

\* the item is the one the timer was set for, and where it was
Same(tm) ==
  /\ item[tm.it].kind # "none"
  /\ item[tm.it].serial = tm.serial
  /\ item[tm.it].at = tm.at

\* Mutants: any laying down will do; a body with something in it stays.
ThisLayingAny(tm) == Same(tm)
BodyStaysFull(i) == inside[i] # {}

ThisLaying(tm) == Same(tm) /\ item[tm.it].laid % SnSize = tm.laid % SnSize
BodyStays(i) == inside[i] # {} /\ item[i].left > 1

Vanish(i) ==
  /\ map' = [map EXCEPT ![item[i].at].it = None]
  /\ item' = Free(item, {i} \cup inside[i])
  /\ inside' = [inside EXCEPT ![i] = {}]

ExpireTimer(tm) ==
  /\ tm \in timers /\ ~tm.body
  /\ timers' = timers \ {tm}
  /\ IF ThisLaying(tm) THEN Vanish(tm.it) ELSE UNCHANGED <<map, item, inside>>
  /\ UNCHANGED <<ch, door, born>>

\* the call left of a body is counted, and it waits for the next if it stays
ExpireTimerBody(tm) ==
  /\ tm \in timers /\ tm.body
  /\ IF Same(tm) /\ BodyStays(tm.it)
     THEN /\ item' = [item EXCEPT ![tm.it].left = @ - 1]
          /\ UNCHANGED <<map, inside, timers>>
     ELSE /\ timers' = timers \ {tm}
          /\ IF Same(tm) THEN Vanish(tm.it) ELSE UNCHANGED <<map, item, inside>>
  /\ UNCHANGED <<ch, door, born>>

\* door_driver, called by its timer
DoorTimer(t) ==
  LET count == IF door[t].count > 0 THEN door[t].count - 1 ELSE 0 IN
  /\ door[t].calls > 0
  /\ \/ /\ ~door[t].open \/ count > 0
        /\ door' = [door EXCEPT ![t].count = count, ![t].calls = @ - 1]
        /\ UNCHANGED map
     \/ /\ door[t].open /\ count = 0 /\ ~Blocked(map, t)
        /\ door' = [door EXCEPT ![t] = [open |-> FALSE, count |-> 0, calls |-> @.calls - 1]]
        /\ map' = [map EXCEPT ![t].tmove = TRUE]
     \/ /\ door[t].open /\ count = 0 /\ Blocked(map, t)    \* called again
        /\ door' = [door EXCEPT ![t].count = 1]
        /\ UNCHANGED map
  /\ UNCHANGED <<ch, item, inside, timers, born>>

-----------------------------------------------------------------------------

Toward(c) == {d \in Dirs : Ahead(c, d) \in Tiles}

NextIdle(c) ==
  /\ Ready(c)
  /\ \E d \in Toward(c) :
       \/ CharSwap(c, d) \/ DoWalk(c, d) \/ DoTake(c, d)
       \/ DoDrop(c, d) \/ DoGive(c, d) \/ DoUse(c, d)
       \/ \E x \in Opt(Items) : Container(c, d, x)

NextUsed(c) ==
  /\ Used(c)
  /\ \/ NextIdle(c)
     \/ Leave(c) \/ Kill(c)
     \/ \E t \in Tiles : Teleport(c, t)
     \/ ActWalk(c) \/ ActTake(c) \/ ActDrop(c) \/ ActGive(c) \/ ActUse(c) \/ ActDie(c)
     \/ \E x \in Opt(Items) : Stow(c, x)
     \/ \E i \in Items : Create(c, i) \/ Destroy(c, i)

Next ==
  \/ \E c \in Slots :
       \/ \E kind \in Kinds, t \in Tiles : Enter(c, kind, t)
       \/ NextUsed(c)
  \/ \E tm \in timers : ExpireTimer(tm) \/ ExpireTimerBody(tm)
  \/ \E t \in Doors : DoorTimer(t)

Spec == Init /\ [][Next]_vars

-----------------------------------------------------------------------------
(* Properties *)

Closed(t) == t \in Doors /\ ~door[t].open

\* Every character stands on a tile that knows it, and on no other, who is gone
\* leaves nothing behind, and every
\* tile that is blocked for the moment is so for exactly one reason: somebody on
\* it, somebody on the way to it, or a closed door.  A flag that stays behind
\* makes a tile nobody can enter again; one that is cleared too early lets two
\* onto a tile, or a door close on somebody (set_char, remove_char, act_walk,
\* char_swap and door_driver each set or clear the same flag).
Placed ==
  /\ \A c \in Slots :
       /\ ~Used(c) => ch[c] = Absent
       /\ Used(c) => ch[c].at \in Tiles /\ map[ch[c].at].ch = c
       /\ Acting(c, "walk") => ch[c].to # None
       /\ ch[c].to # None =>
            /\ ch[c].act.do \in {"walk", "die"}
            /\ map[ch[c].to].tmove /\ map[ch[c].to].ch = None /\ ~Closed(ch[c].to)
            /\ \A k \in Slots \ {c} : ch[k].to # ch[c].to
  /\ \A t \in Tiles :
       /\ map[t].ch # None =>
            Used(map[t].ch) /\ ch[map[t].ch].at = t /\ map[t].tmove /\ ~Closed(t)
       /\ map[t].tmove =>
            map[t].ch # None \/ Closed(t) \/ \E c \in Slots : ch[c].to = t
       /\ Closed(t) => map[t].tmove

OnGround(i) == item[i].at # None

\* Every item is in exactly one place, the place and the item know each other,
\* and what is in no place is free: nothing is lost, shared or left behind when
\* two reach for it, when its owner dies, or when a body with it vanishes.  These
\* are the checks of consistency.c, which runs on the live server.
Linked ==
  /\ \A i \in Items :
       /\ item[i].kind = "none" => item[i] = Unused
       /\ item[i].kind \in Bodies => OnGround(i)
       /\ item[i].kind = "thing" => OnGround(i) \/ item[i].by # None \/ item[i].in # None
       /\ OnGround(i) => map[item[i].at].it = i /\ item[i].by = None /\ item[i].in = None
       /\ item[i].by # None => i \in Carried(item[i].by) /\ item[i].in = None
       /\ item[i].in # None => i \in inside[item[i].in]
       /\ \A j \in inside[i] : item[i].kind = "body" /\ item[j].in = i
  /\ \A t \in Tiles : map[t].it # None => item[map[t].it].at = t
  /\ \A c \in Slots :
       /\ \A i \in Carried(c) : item[i].by = c
       /\ ch[c].hand \notin ch[c].pack

Clocks(i) ==
  {tm \in timers : /\ tm.it = i /\ tm.serial = item[i].serial /\ tm.at = item[i].at
                   /\ tm.body = (item[i].kind \in Bodies)
                   /\ tm.body \/ tm.laid % SnSize = item[i].laid % SnSize}

\* What lies on the ground has a timer that will tidy it up, one only unless its
\* expire_sn has wrapped, and an open door has a call of door_driver to come: the
\* count of outstanding calls it keeps in drdata[39] is right, so it is neither
\* left open for good nor closed by a call meant for an earlier opening.
Due ==
  /\ \A i \in Items : OnGround(i) =>
       /\ Clocks(i) # {}
       /\ item[i].laid <= SnSize => Cardinality(Clocks(i)) = 1
  /\ \A t \in Doors : /\ door[t].count = door[t].calls
                      /\ door[t].open => door[t].calls > 0

\* A thing on the ground vanishes when the timer of this laying down is due, not
\* when one of an earlier laying down on the same tile is, nor one of the item
\* that had its entry before: its own timer does not outlive it.  It holds while
\* expire_sn, a byte, has not wrapped.
InItsOwnTime ==
  [][\A i \in Items :
       OnGround(i) /\ item[i].laid <= SnSize /\ item'[i].kind = "none" =>
         \A tm \in timers' : ~(/\ tm.it = i /\ tm.serial = item[i].serial
                               /\ tm.laid = item[i].laid)]_vars
=============================================================================
