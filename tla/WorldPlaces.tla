---------------------------- MODULE WorldPlaces ----------------------------
(***************************************************************************)
(* World keeps its types, and a tile is blocked for exactly one reason:    *)
(* TypeOK and Placed are invariants, for a map of any size, with any       *)
(* walls, doors and characters.                                            *)
(*                                                                         *)
(* Whoever is moved is first taken off the map and then put onto it again; *)
(* so does the proof of Placed, taken as a statement about any map,        *)
(* characters and closed doors.                                            *)
(***************************************************************************)
EXTENDS World, FiniteSetTheorems, TLAPS

USE WorldAssumption

-----------------------------------------------------------------------------
(* Types *)

LEMMA IdleType == Idle \in ActState
BY DEF Idle, ActState, Aimed, Acts, Opt

LEMMA AbsentType == Absent \in CharState
BY IdleType DEF Absent, CharState, Opt

LEMMA UnusedType == Unused \in ItemState
BY DEF Unused, ItemState, Opt

LEMMA InitType == Init => TypeOK
<1> SUFFICES ASSUME Init PROVE TypeOK
  OBVIOUS
<1>1. map \in [Tiles -> TileState]
  BY DEF Init, TileState, Opt
<1>2. ch \in [Slots -> CharState] /\ item \in [Items -> ItemState]
  BY AbsentType, UnusedType DEF Init
<1>3. door \in [Doors -> DoorState]
  BY DEF Init, DoorState
<1> QED
  BY <1>1, <1>2, <1>3 DEF Init, TypeOK

\* What a change of one field leaves of the types.
LEMMA CharChange ==
  ASSUME NEW p \in CharState
  PROVE  /\ \A a \in ActState : [p EXCEPT !.act = a] \in CharState
         /\ \A h \in Opt(Items) : [p EXCEPT !.hand = h] \in CharState
         /\ \A s \in SUBSET Items : [p EXCEPT !.pack = s] \in CharState
         /\ \A t \in Opt(Tiles) : [p EXCEPT !.at = t] \in CharState
         /\ \A t \in Opt(Tiles) : [p EXCEPT !.to = t] \in CharState
         /\ \A k \in Kinds : [p EXCEPT !.kind = k] \in CharState
BY DEF CharState

LEMMA TileChange ==
  ASSUME NEW r \in TileState
  PROVE  /\ \A c \in Opt(Slots) : [r EXCEPT !.ch = c] \in TileState
         /\ \A i \in Opt(Items) : [r EXCEPT !.it = i] \in TileState
         /\ \A b \in BOOLEAN : [r EXCEPT !.tmove = b] \in TileState
BY DEF TileState

LEMMA ItemChange ==
  ASSUME NEW r \in ItemState
  PROVE  /\ \A t \in Opt(Tiles) : [r EXCEPT !.at = t] \in ItemState
         /\ \A c \in Opt(Slots) : [r EXCEPT !.by = c] \in ItemState
         /\ \A i \in Opt(Items) : [r EXCEPT !.in = i] \in ItemState
         /\ \A k \in {"none", "thing"} \cup Bodies : [r EXCEPT !.kind = k] \in ItemState
         /\ \A n \in 0 .. MaxBorn : [r EXCEPT !.serial = n] \in ItemState
         /\ \A n \in Nat : [r EXCEPT !.laid = n] \in ItemState
         /\ \A n \in 0 .. BodyTime : [r EXCEPT !.left = n] \in ItemState
BY DEF ItemState

LEMMA DoorChange ==
  ASSUME NEW d \in DoorState
  PROVE  /\ \A b \in BOOLEAN : [d EXCEPT !.open = b] \in DoorState
         /\ \A n \in Nat : [d EXCEPT !.count = n] \in DoorState
         /\ \A n \in 0 .. MaxCalls : [d EXCEPT !.calls = n] \in DoorState
BY DEF DoorState

LEMMA SetCharType ==
  ASSUME NEW m \in [Tiles -> TileState], NEW c \in Opt(Slots), NEW t
  PROVE  SetChar(m, c, t) \in [Tiles -> TileState]
BY DEF SetChar, TileState

LEMMA RemoveCharType ==
  ASSUME NEW m \in [Tiles -> TileState], NEW c
  PROVE  RemoveChar(m, c) \in [Tiles -> TileState]
BY DEF RemoveChar, TileState, Opt

LEMMA FreeType ==
  ASSUME NEW it \in [Items -> ItemState], NEW I
  PROVE  Free(it, I) \in [Items -> ItemState]
BY UnusedType DEF Free

LEMMA BeginType ==
  ASSUME TypeOK, NEW c \in Slots, NEW do \in Acts, NEW d \in Opt(Dirs),
         NEW g \in Opt(Items \cup Slots), Begin(c, do, d, g),
         Aimed([do |-> do, dir |-> d, goal |-> g])
  PROVE  ch' \in [Slots -> CharState]
<1>1. [do |-> do, dir |-> d, goal |-> g] \in ActState
  BY DEF ActState, Aimed
<1> QED
  BY <1>1, CharChange DEF Begin, TypeOK

LEMMA TypeMoves ==
  ASSUME TypeOK, NEW c \in Slots
  PROVE  /\ \A kind \in Kinds, t \in Tiles : Enter(c, kind, t) => TypeOK'
         /\ Leave(c) => TypeOK'
         /\ \A t \in Tiles : Teleport(c, t) => TypeOK'
         /\ \A d \in Dirs : CharSwap(c, d) => TypeOK'
         /\ \A d \in Dirs : DoWalk(c, d) => TypeOK'
         /\ ActWalk(c) => TypeOK'
<1>1. ASSUME NEW kind \in Kinds, NEW t \in Tiles, Enter(c, kind, t) PROVE TypeOK'
  <2>1. [[Absent EXCEPT !.kind = kind] EXCEPT !.at = t] \in CharState
    BY AbsentType, CharChange DEF Opt
  <2>2. ch' \in [Slots -> CharState]
    BY <1>1, <2>1 DEF Enter, TypeOK
  <2>3. map' \in [Tiles -> TileState]
    BY <1>1, SetCharType DEF Enter, TypeOK, Opt
  <2> QED
    BY <1>1, <2>2, <2>3 DEF Enter, TypeOK
<1>2. ASSUME Leave(c) PROVE TypeOK'
  BY <1>2, AbsentType, RemoveCharType, FreeType DEF Leave, TypeOK
<1>3. ASSUME NEW t \in Tiles, Teleport(c, t) PROVE TypeOK'
  <2>1. map' \in [Tiles -> TileState]
    BY <1>3, SetCharType, RemoveCharType DEF Teleport, TypeOK, Opt
  <2>2. [[[ch[c] EXCEPT !.at = t] EXCEPT !.to = None] EXCEPT !.act = Idle] \in CharState
    BY CharChange, IdleType DEF TypeOK, Opt
  <2>3. ch' \in [Slots -> CharState]
    BY <1>3, <2>2 DEF Teleport, TypeOK
  <2> QED
    BY <1>3, <2>1, <2>3 DEF Teleport, TypeOK
<1>4. ASSUME NEW d \in Dirs, CharSwap(c, d) PROVE TypeOK'
  <2> DEFINE t == Ahead(c, d)
             k == map[t].ch
             empty == RemoveChar(RemoveChar(map, c), k)
  <2>1. t \in Tiles /\ k \in Slots
    BY <1>4 DEF CharSwap, TypeOK, TileState, Opt
  <2>2. map' \in [Tiles -> TileState]
    <3>1. empty \in [Tiles -> TileState]
      BY RemoveCharType DEF TypeOK
    <3>2. SetChar(empty, c, t) \in [Tiles -> TileState]
      BY <3>1, SetCharType DEF Opt
    <3>3. map' = SetChar(SetChar(empty, c, t), k, ch[c].at)
      BY <1>4 DEF CharSwap
    <3> QED
      BY <2>1, <3>2, <3>3, SetCharType DEF Opt
  <2>3. ch' \in [Slots -> CharState]
    <3> DEFINE C1 == [ch EXCEPT ![c].at = t]
               C2 == [C1 EXCEPT ![k].at = ch[c].at]
               C3 == [C2 EXCEPT ![k].to = None]
    <3>1. C1 \in [Slots -> CharState]
      BY <2>1, CharChange DEF TypeOK, Opt
    <3>2. ch[c].at \in Opt(Tiles)
      BY DEF TypeOK, CharState
    <3>3. C2 \in [Slots -> CharState]
      BY <3>1, <3>2, <2>1, CharChange
    <3>4. C3 \in [Slots -> CharState]
      BY <3>3, <2>1, CharChange DEF Opt
    <3>5. C3[k].act \in ActState
      BY <3>4, <2>1 DEF CharState
    <3>6. ch' = [C3 EXCEPT ![k].act = IF @.do = "walk" THEN Idle ELSE @]
      BY <1>4 DEF CharSwap
    <3> HIDE DEF C3
    <3> QED
      BY <3>4, <3>5, <3>6, <2>1, CharChange, IdleType
  <2> QED
    BY <1>4, <2>2, <2>3 DEF CharSwap, TypeOK
<1>5. ASSUME NEW d \in Dirs, DoWalk(c, d) PROVE TypeOK'
  <2> DEFINE t == Ahead(c, d)
             a == [do |-> "walk", dir |-> None, goal |-> None]
  <2>1. a \in ActState
    BY DEF ActState, Aimed, Acts, Opt
  <2>2. t \in Tiles
    BY <1>5 DEF DoWalk
  <2>3. [[ch[c] EXCEPT !.to = t] EXCEPT !.act = a] \in CharState
    BY <2>1, <2>2, CharChange DEF TypeOK, Opt
  <2>4. ch' = [ch EXCEPT ![c] = [[ch[c] EXCEPT !.to = t] EXCEPT !.act = a]]
    BY <1>5 DEF DoWalk, TypeOK
  <2>5. map' \in [Tiles -> TileState]
    BY <1>5, <2>2, TileChange DEF DoWalk, TypeOK
  <2> QED
    BY <1>5, <2>3, <2>4, <2>5 DEF DoWalk, TypeOK
<1>6. ASSUME ActWalk(c) PROVE TypeOK'
  <2> DEFINE t == ch[c].to
             m1 == [map EXCEPT ![ch[c].at].ch = None]
             m2 == [m1 EXCEPT ![ch[c].at].tmove = FALSE]
  <2>1. t \in Tiles
    BY <1>6 DEF ActWalk, TypeOK, CharState, Opt
  <2>2. m1 \in [Tiles -> TileState]
    BY TileChange DEF TypeOK, Opt
  <2>3. m2 \in [Tiles -> TileState]
    BY <2>2, TileChange
  <2>4. map' = [m2 EXCEPT ![t].ch = c]
    BY <1>6 DEF ActWalk
  <2>5. map' \in [Tiles -> TileState]
    BY <2>3, <2>4, TileChange DEF Opt
  <2>6. [[[ch[c] EXCEPT !.at = t] EXCEPT !.to = None] EXCEPT !.act = Idle] \in CharState
    BY <2>1, CharChange, IdleType DEF TypeOK, Opt
  <2>7. ch' \in [Slots -> CharState]
    BY <1>6, <2>6 DEF ActWalk, TypeOK
  <2> QED
    BY <1>6, <2>5, <2>7 DEF ActWalk, TypeOK
<1> QED
  BY <1>1, <1>2, <1>3, <1>4, <1>5, <1>6

LEMMA TypeBegins ==
  ASSUME TypeOK, NEW c \in Slots
  PROVE  /\ \A d \in Dirs : DoTake(c, d) \/ DoDrop(c, d) \/ DoGive(c, d) \/ DoUse(c, d) => TypeOK'
         /\ Kill(c) => TypeOK'
<1>0. {"take", "drop", "give", "use", "die"} \subseteq Acts /\ None \in Opt(Dirs)
      /\ None \in Opt(Items \cup Slots)
  BY DEF Acts, Opt
<1>1. ASSUME NEW d \in Dirs, DoTake(c, d) \/ DoDrop(c, d) \/ DoGive(c, d) \/ DoUse(c, d)
      PROVE  TypeOK'
  <2>1. CASE DoTake(c, d)
    <3>1. map[Ahead(c, d)].it \in Items
      BY <2>1 DEF DoTake, TypeOK, TileState, Opt
    <3> QED
      BY <2>1, <3>1, <1>0, BeginType DEF DoTake, TypeOK, Opt, Aimed
  <2>2. CASE DoDrop(c, d)
    <3>1. ch[c].hand \in Items
      BY <2>2 DEF DoDrop, TypeOK, CharState, Opt
    <3> QED
      BY <2>2, <3>1, <1>0, BeginType DEF DoDrop, TypeOK, Opt, Aimed
  <2>3. CASE DoGive(c, d)
    <3>1. map[Ahead(c, d)].ch \in Slots
      BY <2>3 DEF DoGive, TypeOK, TileState, Opt
    <3> QED
      BY <2>3, <3>1, <1>0, BeginType DEF DoGive, TypeOK, Opt, Aimed
  <2>4. CASE DoUse(c, d)
    BY <2>4, <1>0, BeginType DEF DoUse, TypeOK, Opt, Aimed
  <2> QED
    BY <1>1, <2>1, <2>2, <2>3, <2>4
<1>2. ASSUME Kill(c) PROVE TypeOK'
  BY <1>2, <1>0, BeginType DEF Kill, TypeOK, Aimed
<1> QED
  BY <1>1, <1>2

\* An act that has come to its end, with or without effect.
LEMMA EndType ==
  ASSUME TypeOK, NEW c \in Slots
  PROVE  /\ [ch EXCEPT ![c].act = Idle] \in [Slots -> CharState]
         /\ \A h \in Opt(Items) :
              [ch EXCEPT ![c].hand = h, ![c].act = Idle] \in [Slots -> CharState]
<1>1. [ch EXCEPT ![c].act = Idle] \in [Slots -> CharState]
  BY CharChange, IdleType DEF TypeOK
<1>2. ASSUME NEW h \in Opt(Items)
      PROVE  [ch EXCEPT ![c].hand = h, ![c].act = Idle] \in [Slots -> CharState]
  <2>1. [[ch[c] EXCEPT !.hand = h] EXCEPT !.act = Idle] \in CharState
    BY CharChange, IdleType DEF TypeOK
  <2> QED
    BY <2>1 DEF TypeOK
<1> QED
  BY <1>1, <1>2

LEMMA GivenType ==
  ASSUME TypeOK, NEW c \in Slots, NEW i \in Items
  PROVE  Given(c, i) \in CharState
<1>1. ch[c] \in CharState /\ ch[c].pack \cup {i} \in SUBSET Items
  BY DEF TypeOK, CharState
<1>2. [ch[c] EXCEPT !.hand = i] \in CharState
  BY <1>1, CharChange DEF Opt
<1>3. [ch[c] EXCEPT !.pack = @ \cup {i}] \in CharState
  BY <1>1, CharChange
<1> QED
  BY <1>2, <1>3 DEF Given

LEMMA TypeActs ==
  ASSUME TypeOK, NEW c \in Slots
  PROVE  /\ ActTake(c) => TypeOK'
         /\ ActDrop(c) => TypeOK'
         /\ ActGive(c) => TypeOK'
         /\ ActUse(c) => TypeOK'
<1>1. ASSUME ActTake(c) PROVE TypeOK'
  <2> DEFINE t == Ahead(c, ch[c].act.dir)
             i == ch[c].act.goal
  <2>1. CASE /\ CanTake(c, t)
             /\ map' = [map EXCEPT ![t].it = None]
             /\ item' = [item EXCEPT ![i].at = None, ![i].by = c]
             /\ ch' = [ch EXCEPT ![c].hand = i, ![c].act = Idle]
    <3>1. i \in Opt(Items)
      BY <2>1 DEF CanTake, TypeOK, TileState
    <3>2. ch' \in [Slots -> CharState]
      BY <2>1, <3>1, EndType
    <3>3. map' \in [Tiles -> TileState]
      BY <2>1, TileChange DEF TypeOK, Opt
    <3>4. item' \in [Items -> ItemState]
      <4>1. CASE i \in Items
        <5>1. [[item[i] EXCEPT !.at = None] EXCEPT !.by = c] \in ItemState
          BY <4>1, ItemChange DEF TypeOK, Opt
        <5> QED
          BY <5>1, <2>1 DEF TypeOK
      <4>2. CASE i \notin Items
        BY <4>2, <2>1 DEF TypeOK
      <4> QED
        BY <4>1, <4>2
    <3> QED
      BY <1>1, <3>2, <3>3, <3>4 DEF ActTake, TypeOK
  <2>2. CASE ch' = [ch EXCEPT ![c].act = Idle] /\ UNCHANGED <<map, item>>
    BY <1>1, <2>2, EndType DEF ActTake, TypeOK
  <2> QED
    BY <1>1, <2>1, <2>2 DEF ActTake
<1>2. ASSUME ActDrop(c) PROVE TypeOK'
  <2> DEFINE t == Ahead(c, ch[c].act.dir)
             i == ch[c].act.goal
  <2>1. CASE /\ ch[c].hand = i /\ t \in Layable(map)
             /\ map' = [map EXCEPT ![t].it = i]
             /\ item' = [item EXCEPT ![i].at = t, ![i].by = None, ![i].in = None,
                                     ![i].laid = @ + 1]
             /\ timers' = timers \cup {Expiry(i, item[i].serial, t, item[i].laid + 1, FALSE)}
             /\ ch' = [ch EXCEPT ![c].hand = None, ![c].act = Idle]
    <3>1. i \in Opt(Items) /\ t \in Tiles
      BY <2>1 DEF TypeOK, CharState, Layable
    <3>2. ch' \in [Slots -> CharState]
      BY <2>1, EndType DEF Opt
    <3>3. map' \in [Tiles -> TileState]
      BY <2>1, <3>1, TileChange DEF TypeOK, Opt
    <3>4. CASE i \in Items
      <4>1. item[i] \in ItemState /\ item[i].laid + 1 \in Nat /\ item[i].serial \in 0 .. MaxBorn
        BY <3>4 DEF TypeOK, ItemState
      <4>2. [[[[item[i] EXCEPT !.at = t] EXCEPT !.by = None] EXCEPT !.in = None]
               EXCEPT !.laid = item[i].laid + 1] \in ItemState
        BY <3>1, <4>1, ItemChange DEF Opt
      <4>3. item' = [item EXCEPT ![i] =
              [[[[item[i] EXCEPT !.at = t] EXCEPT !.by = None] EXCEPT !.in = None]
               EXCEPT !.laid = item[i].laid + 1]]
        BY <2>1, <3>4, <4>1 DEF TypeOK, ItemState
      <4>4. item' \in [Items -> ItemState]
        BY <4>2, <4>3 DEF TypeOK
      <4>5. Expiry(i, item[i].serial, t, item[i].laid + 1, FALSE) \in Timer
        BY <3>1, <3>4, <4>1 DEF Expiry, Timer
      <4> QED
        BY <1>2, <2>1, <3>2, <3>3, <4>4, <4>5 DEF ActDrop, TypeOK
    <3>5. i \in Items
      BY <1>2 DEF ActDrop, Acting, TypeOK, CharState, ActState, Aimed
    <3> QED
      BY <3>4, <3>5
  <2>2. CASE ch' = [ch EXCEPT ![c].act = Idle] /\ UNCHANGED <<map, item, timers>>
    BY <1>2, <2>2, EndType DEF ActDrop, TypeOK
  <2> QED
    BY <1>2, <2>1, <2>2 DEF ActDrop
<1>3. ASSUME ActGive(c) PROVE TypeOK'
  <2> DEFINE t == Ahead(c, ch[c].act.dir)
             k == ch[c].act.goal
             i == ch[c].hand
  <2>1. CASE /\ t \in Tiles /\ map[t].ch = k /\ i # None
             /\ item' = [item EXCEPT ![i].by = k]
             /\ ch' = [ch EXCEPT ![k] = Given(k, i), ![c].hand = None, ![c].act = Idle]
    <3>1. i \in Items
      BY <2>1 DEF TypeOK, CharState, Opt
    <3>2. k \in Opt(Slots)
      BY <2>1 DEF TypeOK, TileState
    <3>3. item' \in [Items -> ItemState]
      BY <2>1, <3>1, <3>2, ItemChange DEF TypeOK
    <3> DEFINE C == [ch EXCEPT ![k] = Given(k, i)]
    <3>4. C \in [Slots -> CharState]
      BY <3>1, GivenType DEF TypeOK
    <3>5. [[C[c] EXCEPT !.hand = None] EXCEPT !.act = Idle] \in CharState
      BY <3>4, CharChange, IdleType DEF Opt
    <3>6. ch' = [C EXCEPT ![c].hand = None, ![c].act = Idle]
      BY <2>1
    <3> HIDE DEF C
    <3>7. ch' \in [Slots -> CharState]
      BY <3>4, <3>5, <3>6
    <3> QED
      BY <1>3, <3>3, <3>7 DEF ActGive, TypeOK
  <2>2. CASE ch' = [ch EXCEPT ![c].act = Idle] /\ UNCHANGED item
    BY <1>3, <2>2, EndType DEF ActGive, TypeOK
  <2> QED
    BY <1>3, <2>1, <2>2 DEF ActGive
<1>4. ASSUME ActUse(c) PROVE TypeOK'
  <2> DEFINE t == Ahead(c, ch[c].act.dir)
  <2>1. ch' \in [Slots -> CharState]
    BY <1>4, EndType DEF ActUse
  <2>2. CASE /\ t \in Doors
             /\ door' = [door EXCEPT ![t].open = FALSE]
             /\ map' = [map EXCEPT ![t].tmove = TRUE]
    <3>1. door' \in [Doors -> DoorState] /\ map' \in [Tiles -> TileState]
      BY <2>2, DoorChange, TileChange DEF TypeOK
    <3> QED
      BY <1>4, <2>1, <3>1 DEF ActUse, TypeOK
  <2>3. CASE /\ t \in Doors /\ door[t].calls < MaxCalls
             /\ door' = [door EXCEPT ![t].open = TRUE, ![t].count = @ + 1, ![t].calls = @ + 1]
             /\ map' = [map EXCEPT ![t].tmove = FALSE]
    <3>1. door[t] \in DoorState /\ door[t].count + 1 \in Nat /\ door[t].calls + 1 \in 0 .. MaxCalls
      BY <2>3 DEF TypeOK, DoorState
    <3>2. [[[door[t] EXCEPT !.open = TRUE] EXCEPT !.count = door[t].count + 1]
            EXCEPT !.calls = door[t].calls + 1] \in DoorState
      BY <3>1, DoorChange
    <3>3. door' \in [Doors -> DoorState] /\ map' \in [Tiles -> TileState]
      BY <2>3, <3>1, <3>2, TileChange DEF TypeOK, DoorState
    <3> QED
      BY <1>4, <2>1, <3>3 DEF ActUse, TypeOK
  <2>4. CASE UNCHANGED <<door, map>>
    BY <1>4, <2>1, <2>4 DEF ActUse, TypeOK
  <2> QED
    BY <1>4, <2>2, <2>3, <2>4 DEF ActUse
<1> QED
  BY <1>1, <1>2, <1>3, <1>4

LEMMA TypeQuick ==
  ASSUME TypeOK, NEW c \in Slots
  PROVE  /\ \A x \in Opt(Items) : Stow(c, x) => TypeOK'
         /\ \A d \in Dirs, x \in Opt(Items) : Container(c, d, x) => TypeOK'
         /\ \A i \in Items : Create(c, i) => TypeOK'
         /\ \A i \in Items : Destroy(c, i) => TypeOK'
<1>0. ch[c] \in CharState /\ ch[c].hand \in Opt(Items) /\ ch[c].pack \subseteq Items
  BY DEF TypeOK, CharState
<1>1. ASSUME NEW x \in Opt(Items), Stow(c, x) PROVE TypeOK'
  <2>1. (ch[c].pack \cup {ch[c].hand}) \ {x, None} \in SUBSET Items
    BY <1>0 DEF Opt
  <2>2. [[ch[c] EXCEPT !.hand = x] EXCEPT !.pack = (ch[c].pack \cup {ch[c].hand}) \ {x, None}]
          \in CharState
    BY <1>0, <2>1, CharChange
  <2>3. ch' = [ch EXCEPT ![c] = [[ch[c] EXCEPT !.hand = x]
                     EXCEPT !.pack = (ch[c].pack \cup {ch[c].hand}) \ {x, None}]]
    BY <1>1, <1>0 DEF Stow, TypeOK, CharState
  <2> QED
    BY <1>1, <2>2, <2>3 DEF Stow, TypeOK
<1>2. ASSUME NEW d \in Dirs, NEW x \in Opt(Items), Container(c, d, x) PROVE TypeOK'
  <2> DEFINE b == map[Ahead(c, d)].it
             h == ch[c].hand
  <2>1. b \in Items
    BY <1>2 DEF Container, TypeOK, TileState, Opt
  <2>2. ch' \in [Slots -> CharState]
    BY <1>2, <1>0, CharChange DEF Container, TypeOK
  <2>3. inside' \in [Items -> SUBSET Items]
    BY <1>2, <1>0 DEF Container, TypeOK, Opt
  <2>4. item' \in [Items -> ItemState]
    <3>1. \A i \in Items :
            /\ [[item[i] EXCEPT !.by = c] EXCEPT !.in = None] \in ItemState
            /\ [[item[i] EXCEPT !.by = None] EXCEPT !.in = b] \in ItemState
      BY <2>1, ItemChange DEF TypeOK, Opt
    <3>2. item' = [i \in Items |->
                     IF i = x THEN [[item[i] EXCEPT !.by = c] EXCEPT !.in = None]
                     ELSE IF i = h THEN [[item[i] EXCEPT !.by = None] EXCEPT !.in = b]
                     ELSE item[i]]
      BY <1>2 DEF Container
    <3> QED
      BY <3>1, <3>2 DEF TypeOK
  <2> QED
    BY <1>2, <2>2, <2>3, <2>4 DEF Container, TypeOK
<1>3. ASSUME NEW i \in Items, Create(c, i) PROVE TypeOK'
  <2>1. born + 1 \in 0 .. MaxBorn
    BY <1>3 DEF Create, TypeOK
  <2>2. [Unused EXCEPT !.kind = "thing", !.serial = born + 1, !.by = c] \in ItemState
    BY <2>1, UnusedType, ItemChange DEF Opt
  <2>3. item' \in [Items -> ItemState]
    BY <1>3, <2>2 DEF Create, TypeOK
  <2>4. ch' \in [Slots -> CharState]
    BY <1>3, GivenType DEF Create, TypeOK
  <2> QED
    BY <1>3, <2>1, <2>3, <2>4 DEF Create, TypeOK
<1>4. ASSUME NEW i \in Items, Destroy(c, i) PROVE TypeOK'
  <2> DEFINE h == IF ch[c].hand = i THEN None ELSE ch[c].hand
  <2>1. [[ch[c] EXCEPT !.hand = h] EXCEPT !.pack = ch[c].pack \ {i}] \in CharState
    BY <1>0, CharChange DEF Opt
  <2>2. ch' = [ch EXCEPT ![c] = [[ch[c] EXCEPT !.hand = h] EXCEPT !.pack = ch[c].pack \ {i}]]
    BY <1>4, <1>0 DEF Destroy, TypeOK, CharState
  <2> QED
    BY <1>4, <2>1, <2>2, FreeType DEF Destroy, TypeOK
<1> QED
  BY <1>1, <1>2, <1>3, <1>4

LEMMA ReviveType ==
  ASSUME TypeOK, NEW c \in Slots, NEW m \in [Tiles -> TileState], NEW u \in Tiles,
         NEW kept \in SUBSET Items, Revive(c, m, u, kept)
  PROVE  map' \in [Tiles -> TileState] /\ ch' \in [Slots -> CharState]
<1>1. [Absent EXCEPT !.kind = "player", !.at = u, !.pack = kept] \in CharState
  BY IdleType DEF Absent, CharState, Opt, Kinds
<1> QED
  BY <1>1, SetCharType DEF Revive, TypeOK, Opt

LEMMA DepartType ==
  ASSUME TypeOK, NEW c \in Slots, NEW m \in [Tiles -> TileState], Depart(c, m)
  PROVE  map' \in [Tiles -> TileState] /\ ch' \in [Slots -> CharState]
BY AbsentType DEF Depart, TypeOK

LEMMA BodyType ==
  ASSUME TypeOK, NEW c \in Slots, NEW b \in Items, NEW t \in Tiles,
         NEW kind \in Bodies, NEW kept, NEW gone, Body(c, b, t, kind, kept, gone)
  PROVE  /\ item' \in [Items -> ItemState] /\ inside' \in [Items -> SUBSET Items]
         /\ timers' \subseteq Timer /\ born' \in 0 .. MaxBorn
<1> DEFINE put == Carried(c) \ kept
           body == [Unused EXCEPT !.kind = kind, !.serial = born + 1, !.at = t,
                                  !.left = BodyTime]
<1>1. put \subseteq Items
  BY DEF Carried, TypeOK, CharState, Opt
<1>2. born + 1 \in 0 .. MaxBorn /\ born' = born + 1
  <2>1. born < MaxBorn /\ born' = born + 1
    BY DEF Body
  <2> QED
    BY <2>1 DEF TypeOK
<1>3. body \in ItemState
  <2>1. BodyTime \in 0 .. BodyTime
    OBVIOUS
  <2>2. [Unused EXCEPT !.kind = kind, !.serial = born + 1] \in ItemState
    BY <1>2, UnusedType, ItemChange
  <2>3. [[Unused EXCEPT !.kind = kind, !.serial = born + 1] EXCEPT !.at = t] \in ItemState
    BY <2>2, ItemChange DEF Opt
  <2> QED
    BY <2>1, <2>3, ItemChange
<1>4. \A i \in Items : [[item[i] EXCEPT !.by = None] EXCEPT !.in = b] \in ItemState
  BY ItemChange DEF TypeOK, Opt
<1>5. item' = [i \in Items |->
                 IF i = b THEN body
                 ELSE IF i \in gone THEN Unused
                 ELSE IF i \in put THEN [[item[i] EXCEPT !.by = None] EXCEPT !.in = b]
                 ELSE item[i]]
  BY DEF Body
<1> HIDE DEF body
<1>6. item' \in [Items -> ItemState]
  BY <1>3, <1>4, <1>5, UnusedType DEF TypeOK
<1>7. Expiry(b, born + 1, t, 0, TRUE) \in Timer
  BY <1>2 DEF Expiry, Timer
<1> QED
  BY <1>1, <1>2, <1>6, <1>7 DEF Body, TypeOK

LEMMA TypeDie == ASSUME TypeOK, NEW c \in Slots, ActDie(c) PROVE TypeOK'
<1> DEFINE m == RemoveChar(map, c)
<1>0. m \in [Tiles -> TileState]
  BY RemoveCharType DEF TypeOK
<1> HIDE DEF m
<1>1. CASE Bodiless(c) /\ (Depart(c, m) \/ \E u \in Tiles : Revive(c, m, u, {}))
  <2>1. map' \in [Tiles -> TileState] /\ ch' \in [Slots -> CharState]
    BY <1>0, <1>1, DepartType, ReviveType
  <2>2. item' \in [Items -> ItemState]
    BY <1>1, FreeType DEF Bodiless, TypeOK
  <2> QED
    BY <1>1, <2>1, <2>2 DEF ActDie, Bodiless, TypeOK
<1>2. ASSUME NEW b \in Items, NEW t \in Layable(m), NEW kind \in Bodies, NEW kept, NEW gone,
             Body(c, b, t, kind, kept, gone),
             \/ \E u \in Tiles, worn \in SUBSET Items : Revive(c, [m EXCEPT ![t].it = b], u, worn)
             \/ Depart(c, [m EXCEPT ![t].it = b])
      PROVE  TypeOK'
  <2> DEFINE buried == [m EXCEPT ![t].it = b]
  <2>1. t \in Tiles
    BY DEF Layable
  <2>2. buried \in [Tiles -> TileState]
    BY <1>0, <2>1, TileChange DEF Opt
  <2>3. map' \in [Tiles -> TileState] /\ ch' \in [Slots -> CharState]
    BY <1>2, <2>2, DepartType, ReviveType
  <2> QED
    BY <1>2, <2>1, <2>3, BodyType DEF ActDie, TypeOK
<1>3. CASE \E b \in Items, t \in Layable(m) :
             LET buried == [m EXCEPT ![t].it = b] IN
             /\ Husk(c, b, t)
             /\ Depart(c, buried) \/ \E u \in Tiles : Revive(c, buried, u, {})
  BY <1>2, <1>3 DEF Husk, Bodies
<1>4. CASE \E b \in Items, t \in Layable(m) :
             LET buried == [m EXCEPT ![t].it = b] IN
             \E kept \in SUBSET (IF IsPlayer(c) THEN ch[c].pack ELSE {}) :
               \/ /\ Body(c, b, t, "body", kept, {})
                  /\ \E u \in Tiles : Revive(c, buried, u, kept)
               \/ Body(c, b, t, "body", kept, kept) /\ Depart(c, buried)
  <2>1. ch[c].pack \subseteq Items
    BY DEF TypeOK, CharState
  <2> QED
    BY <1>2, <1>4, <2>1 DEF Bodies
<1> QED
  BY <1>1, <1>3, <1>4 DEF ActDie, m

LEMMA VanishType ==
  ASSUME TypeOK, NEW i \in Items, Vanish(i)
  PROVE  /\ map' \in [Tiles -> TileState] /\ item' \in [Items -> ItemState]
         /\ inside' \in [Items -> SUBSET Items]
BY FreeType, TileChange DEF Vanish, TypeOK, Opt

LEMMA TypeTimers ==
  ASSUME TypeOK
  PROVE  /\ \A tm \in timers : ExpireTimer(tm) => TypeOK'
         /\ \A tm \in timers : ExpireTimerBody(tm) => TypeOK'
         /\ \A t \in Doors : DoorTimer(t) => TypeOK'
<1>0. \A tm \in timers : tm.it \in Items
  BY DEF TypeOK, Timer
<1>1. ASSUME NEW tm \in timers, ExpireTimer(tm) PROVE TypeOK'
  BY <1>0, <1>1, VanishType DEF ExpireTimer, TypeOK
<1>2. ASSUME NEW tm \in timers, ExpireTimerBody(tm) PROVE TypeOK'
  <2>1. CASE Same(tm) /\ BodyStays(tm.it)
    <3>1. item[tm.it].left - 1 \in 0 .. BodyTime
      BY <1>0, <2>1 DEF BodyStays, TypeOK, ItemState
    <3>2. item' = [item EXCEPT ![tm.it] = [item[tm.it] EXCEPT !.left = item[tm.it].left - 1]]
      BY <1>0, <1>2, <2>1 DEF ExpireTimerBody, TypeOK, ItemState
    <3>3. item' \in [Items -> ItemState]
      BY <1>0, <3>1, <3>2, ItemChange DEF TypeOK
    <3> QED
      BY <1>2, <2>1, <3>3 DEF ExpireTimerBody, TypeOK
  <2>2. CASE ~(Same(tm) /\ BodyStays(tm.it))
    BY <1>0, <1>2, <2>2, VanishType DEF ExpireTimerBody, TypeOK
  <2> QED
    BY <2>1, <2>2
<1>3. ASSUME NEW t \in Doors, DoorTimer(t) PROVE TypeOK'
  <2> DEFINE count == IF door[t].count > 0 THEN door[t].count - 1 ELSE 0
  <2>0. door[t].calls > 0
    BY <1>3 DEF DoorTimer
  <2>1. /\ door[t] \in DoorState /\ count \in Nat
        /\ door[t].calls - 1 \in 0 .. MaxCalls
    BY <2>0 DEF TypeOK, DoorState
  <2>2. CASE /\ door' = [door EXCEPT ![t].count = count, ![t].calls = @ - 1]
             /\ UNCHANGED map
    <3>1. [[door[t] EXCEPT !.count = count] EXCEPT !.calls = door[t].calls - 1] \in DoorState
      BY <2>1, DoorChange
    <3>2. door' \in [Doors -> DoorState]
      BY <2>1, <2>2, <3>1 DEF TypeOK, DoorState
    <3> QED
      BY <1>3, <2>2, <3>2 DEF DoorTimer, TypeOK
  <2>3. CASE /\ door' = [door EXCEPT ![t] = [open |-> FALSE, count |-> 0, calls |-> @.calls - 1]]
             /\ map' = [map EXCEPT ![t].tmove = TRUE]
    <3>1. map' \in [Tiles -> TileState]
      BY <2>3, TileChange DEF TypeOK
    <3>2. door' \in [Doors -> DoorState]
      BY <2>1, <2>3 DEF TypeOK, DoorState
    <3> QED
      BY <1>3, <3>1, <3>2 DEF DoorTimer, TypeOK
  <2>4. CASE door' = [door EXCEPT ![t].count = 1] /\ UNCHANGED map
    BY <1>3, <2>1, <2>4, DoorChange DEF DoorTimer, TypeOK
  <2> QED
    BY <1>3, <2>2, <2>3, <2>4 DEF DoorTimer
<1> QED
  BY <1>1, <1>2, <1>3

LEMMA TowardDirs == \A c : Toward(c) \subseteq Dirs
BY DEF Toward

LEMMA TypeStep == TypeOK /\ [Next]_vars => TypeOK'
<1> SUFFICES ASSUME TypeOK, [Next]_vars PROVE TypeOK'
  OBVIOUS
<1>1. ASSUME NEW c \in Slots, NextUsed(c) PROVE TypeOK'
  BY <1>1, TowardDirs, TypeMoves, TypeBegins, TypeActs, TypeQuick, TypeDie
  DEF NextUsed, NextIdle
<1>2. CASE UNCHANGED vars
  BY <1>2 DEF vars, TypeOK
<1> QED
  BY <1>1, <1>2, TypeMoves, TypeTimers DEF Next

\* Characters, items, timers and doors are always as the code lays them out.
THEOREM WorldTypeCorrect == Spec => []TypeOK
BY InitType, TypeStep, PTL DEF Spec

-----------------------------------------------------------------------------
(* Places *)

PlacedIn(m, C, D) ==
  /\ \A c \in Slots :
       /\ C[c].kind = "none" => C[c] = Absent
       /\ C[c].kind # "none" => C[c].at \in Tiles /\ m[C[c].at].ch = c
       /\ C[c].kind # "none" /\ C[c].act.do = "walk" => C[c].to # None
       /\ C[c].to # None =>
            /\ C[c].act.do \in {"walk", "die"}
            /\ m[C[c].to].tmove /\ m[C[c].to].ch = None /\ C[c].to \notin D
            /\ \A k \in Slots \ {c} : C[k].to # C[c].to
  /\ \A t \in Tiles :
       /\ m[t].ch # None => C[m[t].ch].kind # "none" /\ C[m[t].ch].at = t
                            /\ m[t].tmove /\ t \notin D
       /\ m[t].tmove => m[t].ch # None \/ t \in D \/ \E c \in Slots : C[c].to = t
       /\ t \in D => m[t].tmove

ClosedDoors == {t \in Tiles : Closed(t)}

Maps == [Tiles -> TileState]
Folks == [Slots -> CharState]

LEMMA PlacedIsIn == TypeOK => (Placed <=> PlacedIn(map, ch, ClosedDoors))
<1> SUFFICES ASSUME TypeOK PROVE Placed <=> PlacedIn(map, ch, ClosedDoors)
  OBVIOUS
<1>1. \A t \in Tiles : Closed(t) <=> t \in ClosedDoors
  BY DEF ClosedDoors
<1>2. \A c \in Slots : ch[c].to # None => ch[c].to \in Tiles
  BY DEF TypeOK, CharState, Opt
<1>3. \A t \in Tiles : map[t].ch # None => map[t].ch \in Slots
  BY DEF TypeOK, TileState, Opt
<1> QED
  BY <1>1, <1>2, <1>3 DEF Placed, PlacedIn, Used, Acting

LEMMA TakenOff ==
  ASSUME NEW m \in Maps, NEW C \in Folks, NEW D, NEW c \in Slots,
         C[c] = ch[c], C[c].kind # "none", PlacedIn(m, C, D),
         NEW E \in Folks, \A k \in Slots \ {c} : E[k] = C[k],
         E[c] = Absent, NEW r, r = RemoveChar(m, c)
  PROVE  PlacedIn(r, E, D)
<1>0. /\ C[c].at \in Tiles /\ m[C[c].at].ch = c
      /\ C[c].to \in Opt(Tiles) /\ None \notin Slots /\ None \notin Tiles
      /\ C[c].to # C[c].at
  <2>1. C[c].at \in Tiles /\ m[C[c].at].ch = c /\ C[c].to \in Opt(Tiles)
    BY DEF PlacedIn, Folks, CharState
  <2>2. C[c].to # None => m[C[c].to].ch = None
    BY DEF PlacedIn
  <2> QED
    BY <2>1, <2>2
<1>1. \A t \in Tiles : /\ r[t].ch = IF t = C[c].at THEN None ELSE m[t].ch
                       /\ r[t].tmove = (m[t].tmove /\ t # C[c].at /\ t # C[c].to)
  <2> SUFFICES ASSUME NEW t \in Tiles
               PROVE  /\ r[t].ch = IF t = C[c].at THEN None ELSE m[t].ch
                      /\ r[t].tmove = (m[t].tmove /\ t # C[c].at /\ t # C[c].to)
    OBVIOUS
  <2>1. m[t] \in TileState
    BY DEF Maps
  <2>2. r[t] = IF t = C[c].at THEN [m[t] EXCEPT !.ch = None, !.tmove = FALSE]
               ELSE IF t = C[c].to THEN [m[t] EXCEPT !.tmove = FALSE]
               ELSE m[t]
    BY DEF RemoveChar
  <2>3. CASE t = C[c].at
    BY <2>1, <2>2, <2>3 DEF TileState
  <2>4. CASE t # C[c].at /\ t = C[c].to
    BY <2>1, <2>2, <2>4 DEF TileState
  <2>5. CASE t # C[c].at /\ t # C[c].to
    BY <2>1, <2>2, <2>5 DEF TileState
  <2> QED
    BY <2>3, <2>4, <2>5
<1>2. \A t \in Tiles : m[t].ch \in Opt(Slots) /\ (m[t].ch = c => t = C[c].at)
  BY DEF PlacedIn, Maps, TileState
<1>3. ASSUME NEW k \in Slots
      PROVE  /\ E[k].kind = "none" => E[k] = Absent
             /\ E[k].kind # "none" => E[k].at \in Tiles /\ r[E[k].at].ch = k
             /\ E[k].kind # "none" /\ E[k].act.do = "walk" => E[k].to # None
             /\ E[k].to # None =>
                  /\ E[k].act.do \in {"walk", "die"}
                  /\ r[E[k].to].tmove /\ r[E[k].to].ch = None /\ E[k].to \notin D
                  /\ \A j \in Slots \ {k} : E[j].to # E[k].to
  <2>1. CASE k = c
    BY <2>1 DEF Absent
  <2>2. CASE k # c
    <3>1. E[k] = C[k] /\ C[k].to \in Opt(Tiles)
      BY <2>2 DEF Folks, CharState
    <3>2. C[k].kind # "none" => C[k].at \in Tiles /\ C[k].at # C[c].at
      BY <1>0, <2>2 DEF PlacedIn
    <3>3. C[k].to # None => C[k].to # C[c].at /\ C[k].to # C[c].to /\ C[k].to \in Tiles
      BY <1>0, <2>2, <3>1 DEF PlacedIn, Opt
    <3>4. C[k].to # None => /\ C[k].act.do \in {"walk", "die"}
                            /\ m[C[k].to].tmove /\ m[C[k].to].ch = None /\ C[k].to \notin D
                            /\ \A j \in Slots \ {k} : C[j].to # C[k].to
      BY DEF PlacedIn
    <3>5. C[k].kind # "none" => m[C[k].at].ch = k /\ (C[k].act.do = "walk" => C[k].to # None)
      BY DEF PlacedIn
    <3>6. C[k].to # None => \A j \in Slots \ {k} : E[j].to # C[k].to
      <4>1. E[c].to = None
        BY DEF Absent
      <4> QED
        BY <3>4, <4>1
    <3>7. C[k].kind # "none" => r[C[k].at].ch = k
      BY <3>2, <3>5, <1>1
    <3>8. C[k].to # None => r[C[k].to].tmove /\ r[C[k].to].ch = None
      BY <3>3, <3>4, <1>1
    <3>9. C[k].kind = "none" => C[k] = Absent
      BY DEF PlacedIn
    <3> QED
      BY <3>1, <3>2, <3>4, <3>5, <3>6, <3>7, <3>8, <3>9
  <2> QED
    BY <2>1, <2>2
<1>4. ASSUME NEW t \in Tiles
      PROVE  /\ r[t].ch # None => E[r[t].ch].kind # "none" /\ E[r[t].ch].at = t
                                  /\ r[t].tmove /\ t \notin D
             /\ r[t].tmove => r[t].ch # None \/ t \in D \/ \E k \in Slots : E[k].to = t
             /\ t \in D => r[t].tmove
  <2>1. /\ m[t].ch # None => C[m[t].ch].kind # "none" /\ C[m[t].ch].at = t
                             /\ m[t].tmove /\ t \notin D
        /\ m[t].tmove => m[t].ch # None \/ t \in D \/ \E k \in Slots : C[k].to = t
        /\ t \in D => m[t].tmove
        /\ t = C[c].at => t \notin D
        /\ t = C[c].to => t \notin D /\ m[t].ch = None
    BY <1>0 DEF PlacedIn
  <2>2. CASE t = C[c].at \/ t = C[c].to
    BY <2>1, <2>2, <1>1, <1>0
  <2>3. CASE t # C[c].at /\ t # C[c].to
    <3>1. r[t].ch = m[t].ch /\ r[t].tmove = m[t].tmove
      BY <2>3, <1>1 DEF Maps, TileState
    <3>2. m[t].ch # None => m[t].ch \in Slots \ {c}
      BY <2>3, <1>2 DEF Opt
    <3>3. \A k \in Slots : C[k].to = t => E[k].to = t
      BY <2>3
    <3> QED
      BY <2>1, <3>1, <3>2, <3>3
  <2> QED
    BY <2>2, <2>3
<1> QED
  BY <1>3, <1>4 DEF PlacedIn

LEMMA PutOn ==
  ASSUME NEW m \in Maps, NEW C \in Folks, NEW D, NEW c \in Slots, NEW t \in Tiles,
         m[t].ch = None, ~m[t].tmove, C[c].kind = "none", PlacedIn(m, C, D),
         NEW E \in Folks, \A k \in Slots \ {c} : E[k] = C[k],
         E[c].at = t, E[c].to = None, E[c].act.do # "walk", E[c].kind # "none",
         NEW r \in Maps, r[t].ch = c, r[t].tmove,
         \A u \in Tiles \ {t} : r[u].ch = m[u].ch /\ r[u].tmove = m[u].tmove
  PROVE  PlacedIn(r, E, D)
<1>0. t \in Tiles /\ m[t].ch = None /\ ~m[t].tmove /\ None \notin Slots /\ None \notin Tiles
  OBVIOUS
<1>6. C[c].to = None
  BY DEF PlacedIn, Absent
<1>1. \A u \in Tiles : /\ r[u].ch = IF u = t THEN c ELSE m[u].ch
                       /\ u # t => r[u].tmove = m[u].tmove
                       /\ r[t].tmove
  OBVIOUS
<1>2. \A u \in Tiles : m[u].ch \in Opt(Slots) /\ m[u].ch # c
  BY DEF PlacedIn, Maps, TileState
<1>3. t \notin D /\ \A k \in Slots : C[k].to # t
  BY <1>0, <1>6 DEF PlacedIn
<1>4. ASSUME NEW k \in Slots
      PROVE  /\ E[k].kind = "none" => E[k] = Absent
             /\ E[k].kind # "none" => E[k].at \in Tiles /\ r[E[k].at].ch = k
             /\ E[k].kind # "none" /\ E[k].act.do = "walk" => E[k].to # None
             /\ E[k].to # None =>
                  /\ E[k].act.do \in {"walk", "die"}
                  /\ r[E[k].to].tmove /\ r[E[k].to].ch = None /\ E[k].to \notin D
                  /\ \A j \in Slots \ {k} : E[j].to # E[k].to
  <2>1. CASE k = c
    BY <2>1, <1>0, <1>1
  <2>2. CASE k # c
    <3>1. E[k] = C[k] /\ C[k].to \in Opt(Tiles)
      BY <2>2 DEF Folks, CharState
    <3>2. C[k].kind # "none" => C[k].at \in Tiles /\ C[k].at # t /\ m[C[k].at].ch = k
                                /\ (C[k].act.do = "walk" => C[k].to # None)
      BY <1>0 DEF PlacedIn
    <3>3. C[k].to # None => /\ C[k].to \in Tiles /\ C[k].to # t
                            /\ C[k].act.do \in {"walk", "die"}
                            /\ m[C[k].to].tmove /\ m[C[k].to].ch = None /\ C[k].to \notin D
                            /\ \A j \in Slots \ {k} : C[j].to # C[k].to
      BY <1>3, <3>1 DEF PlacedIn, Opt
    <3>4. C[k].kind = "none" => C[k] = Absent
      BY DEF PlacedIn
    <3> QED
      BY <3>1, <3>2, <3>3, <3>4, <1>1
  <2> QED
    BY <2>1, <2>2
<1>5. ASSUME NEW u \in Tiles
      PROVE  /\ r[u].ch # None => E[r[u].ch].kind # "none" /\ E[r[u].ch].at = u
                                  /\ r[u].tmove /\ u \notin D
             /\ r[u].tmove => r[u].ch # None \/ u \in D \/ \E k \in Slots : E[k].to = u
             /\ u \in D => r[u].tmove
  <2>1. CASE u = t
    BY <2>1, <1>0, <1>1, <1>3
  <2>2. CASE u # t
    <3>1. r[u].ch = m[u].ch /\ r[u].tmove = m[u].tmove
      BY <2>2, <1>1
    <3>2. m[u].ch # None => m[u].ch \in Slots \ {c}
      BY <1>2 DEF Opt
    <3>3. \A k \in Slots : C[k].to = u => E[k].to = u
      BY <1>0, <1>6
    <3>4. /\ m[u].ch # None => C[m[u].ch].kind # "none" /\ C[m[u].ch].at = u
                               /\ m[u].tmove /\ u \notin D
          /\ m[u].tmove => m[u].ch # None \/ u \in D \/ \E k \in Slots : C[k].to = u
          /\ u \in D => m[u].tmove
      BY DEF PlacedIn
    <3> QED
      BY <3>1, <3>2, <3>3, <3>4
  <2> QED
    BY <2>1, <2>2
<1> QED
  BY <1>4, <1>5 DEF PlacedIn

LEMMA SetCharIs ==
  ASSUME NEW m \in Maps, NEW c \in Slots, NEW t \in Tiles
  PROVE  /\ SetChar(m, c, t) \in Maps
         /\ SetChar(m, c, t)[t].ch = c /\ SetChar(m, c, t)[t].tmove
         /\ \A u \in Tiles \ {t} : SetChar(m, c, t)[u] = m[u]
<1> DEFINE r == SetChar(m, c, t)
<1>1. r = [[m EXCEPT ![t].ch = c] EXCEPT ![t].tmove = TRUE]
  BY DEF SetChar
<1>2. r \in Maps
  BY SetCharType DEF Maps, Opt
<1> HIDE DEF r
<1>3. r[t].ch = c /\ r[t].tmove /\ \A u \in Tiles \ {t} : r[u] = m[u]
  BY <1>1 DEF Maps, TileState
<1> QED
  BY <1>2, <1>3 DEF r

\* Nobody is moved and no flag is changed.
LEMMA Stays ==
  ASSUME NEW m \in Maps, NEW C \in Folks, NEW D, PlacedIn(m, C, D),
         NEW n \in Maps, NEW E \in Folks,
         \A t \in Tiles : n[t].ch = m[t].ch /\ n[t].tmove = m[t].tmove,
         \A c \in Slots : /\ E[c].kind = C[c].kind /\ E[c].at = C[c].at /\ E[c].to = C[c].to
                          /\ C[c].kind = "none" => E[c] = C[c]
                          /\ E[c].act.do = "walk" => C[c].to # None
                          /\ C[c].to # None => E[c].act.do \in {"walk", "die"}
  PROVE  PlacedIn(n, E, D)
<1>1. ASSUME NEW k \in Slots
      PROVE  /\ E[k].kind = "none" => E[k] = Absent
             /\ E[k].kind # "none" => E[k].at \in Tiles /\ n[E[k].at].ch = k
             /\ E[k].kind # "none" /\ E[k].act.do = "walk" => E[k].to # None
             /\ E[k].to # None =>
                  /\ E[k].act.do \in {"walk", "die"}
                  /\ n[E[k].to].tmove /\ n[E[k].to].ch = None /\ E[k].to \notin D
                  /\ \A j \in Slots \ {k} : E[j].to # E[k].to
  <2>1. /\ C[k].kind = "none" => C[k] = Absent
        /\ C[k].kind # "none" => C[k].at \in Tiles /\ m[C[k].at].ch = k
        /\ C[k].to # None => /\ m[C[k].to].tmove /\ m[C[k].to].ch = None /\ C[k].to \notin D
                             /\ \A j \in Slots \ {k} : C[j].to # C[k].to
    BY DEF PlacedIn
  <2>2. C[k].to # None => C[k].to \in Tiles
    BY DEF Folks, CharState, Opt
  <2> QED
    BY <2>1, <2>2
<1>2. ASSUME NEW u \in Tiles
      PROVE  /\ n[u].ch # None => E[n[u].ch].kind # "none" /\ E[n[u].ch].at = u
                                  /\ n[u].tmove /\ u \notin D
             /\ n[u].tmove => n[u].ch # None \/ u \in D \/ \E k \in Slots : E[k].to = u
             /\ u \in D => n[u].tmove
  <2>1. /\ m[u].ch # None => C[m[u].ch].kind # "none" /\ C[m[u].ch].at = u
                             /\ m[u].tmove /\ u \notin D
        /\ m[u].tmove => m[u].ch # None \/ u \in D \/ \E k \in Slots : C[k].to = u
        /\ u \in D => m[u].tmove
    BY DEF PlacedIn
  <2>2. m[u].ch \in Opt(Slots)
    BY DEF Maps, TileState
  <2> QED
    BY <2>1, <2>2 DEF Opt
<1> QED
  BY <1>1, <1>2 DEF PlacedIn

\* Somebody sets out for a free tile.
LEMMA SetsOut ==
  ASSUME NEW m \in Maps, NEW C \in Folks, NEW D, PlacedIn(m, C, D),
         NEW c \in Slots, NEW t \in Tiles,
         C[c].kind # "none", C[c].to = None, m[t].ch = None, ~m[t].tmove,
         NEW E \in Folks, \A k \in Slots \ {c} : E[k] = C[k],
         E[c].kind = C[c].kind, E[c].at = C[c].at, E[c].to = t, E[c].act.do = "walk",
         NEW r \in Maps,
         \A u \in Tiles : r[u].ch = m[u].ch /\ (r[u].tmove = (m[u].tmove \/ u = t))
  PROVE  PlacedIn(r, E, D)
<1>1. \A u \in Tiles : r[u].ch = m[u].ch /\ (r[u].tmove = (m[u].tmove \/ u = t))
  OBVIOUS
<1>0. None \notin Tiles /\ C[c].to = None
  OBVIOUS
<1>2. t \notin D /\ \A k \in Slots : C[k].to # t
  BY <1>0 DEF PlacedIn
<1>3. ASSUME NEW k \in Slots
      PROVE  /\ E[k].kind = "none" => E[k] = Absent
             /\ E[k].kind # "none" => E[k].at \in Tiles /\ r[E[k].at].ch = k
             /\ E[k].kind # "none" /\ E[k].act.do = "walk" => E[k].to # None
             /\ E[k].to # None =>
                  /\ E[k].act.do \in {"walk", "die"}
                  /\ r[E[k].to].tmove /\ r[E[k].to].ch = None /\ E[k].to \notin D
                  /\ \A j \in Slots \ {k} : E[j].to # E[k].to
  <2>1. E[k].kind # "none" => E[k].at \in Tiles /\ r[E[k].at].ch = k
    <3>1. C[k].kind # "none" => C[k].at \in Tiles /\ m[C[k].at].ch = k
      BY DEF PlacedIn
    <3>2. E[k].kind = C[k].kind /\ E[k].at = C[k].at
      OBVIOUS
    <3> QED
      BY <3>1, <3>2, <1>1
  <2>2. CASE k = c
    <3>1. r[t].tmove /\ r[t].ch = None
      BY <1>1
    <3>2. E[c].to = t /\ E[c].act.do = "walk" /\ \A j \in Slots \ {c} : E[j].to # t
      BY <1>2
    <3> QED
      BY <2>1, <2>2, <3>1, <3>2, <1>0, <1>2
  <2>3. CASE k # c
    <3>1. C[k].to # None => /\ C[k].to \in Tiles /\ C[k].to # t
                            /\ m[C[k].to].tmove /\ m[C[k].to].ch = None /\ C[k].to \notin D
                            /\ \A j \in Slots \ {k} : C[j].to # C[k].to
      BY <1>2 DEF PlacedIn, Folks, CharState, Opt
    <3>2. C[k].to # None => \A j \in Slots \ {k} : E[j].to # C[k].to
      BY <3>1
    <3>3. /\ C[k].kind = "none" => C[k] = Absent
          /\ C[k].kind # "none" /\ C[k].act.do = "walk" => C[k].to # None
          /\ C[k].to # None => C[k].act.do \in {"walk", "die"}
      BY DEF PlacedIn
    <3>4. E[k] = C[k]
      BY <2>3
    <3>5. C[k].to # None => r[C[k].to].tmove /\ r[C[k].to].ch = None
      BY <3>1, <1>1
    <3> HIDE <1>1
    <3> QED
      BY <2>1, <3>1, <3>2, <3>3, <3>4, <3>5
  <2> QED
    BY <2>2, <2>3
<1>4. ASSUME NEW u \in Tiles
      PROVE  /\ r[u].ch # None => E[r[u].ch].kind # "none" /\ E[r[u].ch].at = u
                                  /\ r[u].tmove /\ u \notin D
             /\ r[u].tmove => r[u].ch # None \/ u \in D \/ \E k \in Slots : E[k].to = u
             /\ u \in D => r[u].tmove
  <2>1. /\ m[u].ch # None => C[m[u].ch].kind # "none" /\ C[m[u].ch].at = u
                             /\ m[u].tmove /\ u \notin D
        /\ m[u].tmove => m[u].ch # None \/ u \in D \/ \E k \in Slots : C[k].to = u
        /\ u \in D => m[u].tmove
    BY DEF PlacedIn
  <2>2. m[u].ch \in Opt(Slots)
    BY DEF Maps, TileState
  <2>3. \A k \in Slots : C[k].to = u => E[k].to = u
    BY <1>2, <1>0
  <2>4. \A k \in Slots : E[k].kind = C[k].kind /\ E[k].at = C[k].at
    OBVIOUS
  <2>5. E[c].to = t
    OBVIOUS
  <2>6. r[u].ch # None => E[r[u].ch].kind # "none" /\ E[r[u].ch].at = u
                          /\ r[u].tmove /\ u \notin D
    <3>1. r[u].ch = m[u].ch /\ (m[u].tmove => r[u].tmove)
      BY <1>1
    <3>2. m[u].ch # None => /\ m[u].ch \in Slots /\ C[m[u].ch].kind # "none"
                            /\ C[m[u].ch].at = u /\ m[u].tmove /\ u \notin D
      BY <2>1, <2>2 DEF Opt
    <3>3. m[u].ch # None => E[m[u].ch].kind # "none" /\ E[m[u].ch].at = u
      BY <3>2, <2>4
    <3> QED
      BY <3>1, <3>2, <3>3
  <2>7. r[u].tmove => r[u].ch # None \/ u \in D \/ \E k \in Slots : E[k].to = u
    BY <2>1, <2>3, <2>5, <1>1
  <2>8. u \in D => r[u].tmove
    BY <2>1, <1>1
  <2> QED
    BY <2>6, <2>7, <2>8
<1> QED
  BY <1>3, <1>4 DEF PlacedIn

LEMMA DoorOpens ==
  ASSUME NEW m \in Maps, NEW C \in Folks, NEW D, PlacedIn(m, C, D), NEW t \in D, t \in Tiles,
         NEW r \in Maps, \A u \in Tiles : r[u].ch = m[u].ch /\ (r[u].tmove = (m[u].tmove /\ u # t))
  PROVE  PlacedIn(r, C, D \ {t})
<1>1. \A u \in Tiles : r[u].ch = m[u].ch /\ (r[u].tmove = (m[u].tmove /\ u # t))
  OBVIOUS
<1>2. \A k \in Slots : C[k].to # None => C[k].to \in Tiles
  BY DEF Folks, CharState, Opt
<1>3. ASSUME NEW k \in Slots
      PROVE  /\ C[k].kind # "none" => C[k].at \in Tiles /\ r[C[k].at].ch = k
             /\ C[k].to # None => /\ r[C[k].to].tmove /\ r[C[k].to].ch = None
                                  /\ C[k].to \notin D \ {t}
  <2>1. /\ C[k].kind # "none" => C[k].at \in Tiles /\ m[C[k].at].ch = k
        /\ C[k].to # None => /\ m[C[k].to].tmove /\ m[C[k].to].ch = None
                             /\ C[k].to \notin D
    BY DEF PlacedIn
  <2> QED
    BY <2>1, <1>1, <1>2
<1>4. ASSUME NEW u \in Tiles
      PROVE  /\ r[u].ch # None => r[u].tmove /\ u \notin D \ {t}
             /\ r[u].tmove => r[u].ch # None \/ u \in D \ {t} \/ \E k \in Slots : C[k].to = u
             /\ u \in D \ {t} => r[u].tmove
  <2>1. /\ m[u].ch # None => m[u].tmove /\ u \notin D
        /\ m[u].tmove => m[u].ch # None \/ u \in D \/ \E k \in Slots : C[k].to = u
        /\ u \in D => m[u].tmove
    BY DEF PlacedIn
  <2> QED
    BY <2>1, <1>1
<1> QED
  BY <1>1, <1>3, <1>4 DEF PlacedIn

LEMMA DoorCloses ==
  ASSUME NEW m \in Maps, NEW C \in Folks, NEW D, PlacedIn(m, C, D), NEW t \in Tiles, ~m[t].tmove,
         NEW r \in Maps, \A u \in Tiles : r[u].ch = m[u].ch /\ (r[u].tmove = (m[u].tmove \/ u = t))
  PROVE  PlacedIn(r, C, D \cup {t})
<1>1. \A u \in Tiles : r[u].ch = m[u].ch /\ (r[u].tmove = (m[u].tmove \/ u = t))
  OBVIOUS
<1>2. \A k \in Slots : C[k].to # None => C[k].to \in Tiles
  BY DEF Folks, CharState, Opt
<1>3. ASSUME NEW k \in Slots
      PROVE  /\ C[k].kind # "none" => C[k].at \in Tiles /\ r[C[k].at].ch = k
             /\ C[k].to # None => /\ r[C[k].to].tmove /\ r[C[k].to].ch = None
                                  /\ C[k].to \notin D \cup {t}
  <2>1. /\ C[k].kind # "none" => C[k].at \in Tiles /\ m[C[k].at].ch = k
        /\ C[k].to # None => /\ m[C[k].to].tmove /\ m[C[k].to].ch = None
                             /\ C[k].to \notin D
    BY DEF PlacedIn
  <2> QED
    BY <2>1, <1>1, <1>2
<1>4. ASSUME NEW u \in Tiles
      PROVE  /\ r[u].ch # None => r[u].tmove /\ u \notin D \cup {t}
             /\ r[u].tmove => r[u].ch # None \/ u \in D \cup {t} \/ \E k \in Slots : C[k].to = u
             /\ u \in D \cup {t} => r[u].tmove
  <2>1. /\ m[u].ch # None => m[u].tmove /\ u \notin D
        /\ m[u].tmove => m[u].ch # None \/ u \in D \/ \E k \in Slots : C[k].to = u
        /\ u \in D => m[u].tmove
    BY DEF PlacedIn
  <2> QED
    BY <2>1, <1>1
<1> QED
  BY <1>1, <1>3, <1>4 DEF PlacedIn

-----------------------------------------------------------------------------
(* The actions *)

Here == PlacedIn(map, ch, ClosedDoors)
Typed == map \in Maps /\ ch \in Folks

LEMMA TypedIs == TypeOK => Typed
BY DEF TypeOK, Typed, Maps, Folks

\* Doors keep as they are: ClosedDoors is the same.
LEMMA DoorsKept == ASSUME UNCHANGED door PROVE ClosedDoors' = ClosedDoors
BY DEF ClosedDoors, Closed

\* Without those who come and go, the map and the characters have their types.
\* Off the map: the slot is free.
Nobody(c) == [ch EXCEPT ![c] = Absent]

LEMMA NobodyIs ==
  ASSUME Typed, NEW c \in Slots
  PROVE  /\ Nobody(c) \in Folks /\ Nobody(c)[c] = Absent
         /\ \A k \in Slots \ {c} : Nobody(c)[k] = ch[k]
BY AbsentType DEF Typed, Folks, Nobody

LEMMA Gone ==
  ASSUME Typed, Here, NEW c \in Slots, Used(c)
  PROVE  /\ RemoveChar(map, c) \in Maps
         /\ PlacedIn(RemoveChar(map, c), Nobody(c), ClosedDoors)
<1>1. RemoveChar(map, c) \in Maps
  BY RemoveCharType DEF Typed, Maps
<1>2. PlacedIn(RemoveChar(map, c), Nobody(c), ClosedDoors)
  BY NobodyIs, TakenOff DEF Typed, Here, Used
<1> QED
  BY <1>1, <1>2

LEMMA PlacedEnter ==
  ASSUME Typed, Typed', Here, NEW c \in Slots, NEW kind \in Kinds, NEW t \in Tiles, Enter(c, kind, t)
  PROVE  Here'
<1>1. /\ ch'[c].kind = kind /\ ch'[c].at = t /\ ch'[c].to = None /\ ch'[c].act.do = "idle"
      /\ \A k \in Slots \ {c} : ch'[k] = ch[k]
  BY DEF Enter, Absent, Idle, Typed, Folks
<1>2. kind # "none"
  BY DEF Kinds
<1>3. map[t].ch = None /\ ~map[t].tmove /\ ch[c].kind = "none" /\ map' = SetChar(map, c, t)
  BY DEF Enter, Standable, Blocked, Used
<1>4. ClosedDoors' = ClosedDoors
  BY DoorsKept DEF Enter
<1> QED
  BY <1>1, <1>2, <1>3, <1>4, SetCharIs, PutOn DEF Typed, Here

LEMMA PlacedLeave ==
  ASSUME Typed, Here, NEW c \in Slots, Leave(c)
  PROVE  Here'
<1>1. ClosedDoors' = ClosedDoors
  BY DoorsKept DEF Leave
<1> QED
  BY <1>1, Gone DEF Leave, Here, Nobody

LEMMA PlacedTeleport ==
  ASSUME Typed, Typed', Here, NEW c \in Slots, NEW t \in Tiles, Teleport(c, t)
  PROVE  Here'
<1> DEFINE m == RemoveChar(map, c)
<1>1. /\ ch'[c].kind = ch[c].kind /\ ch'[c].at = t /\ ch'[c].to = None /\ ch'[c].act.do = "idle"
      /\ \A k \in Slots \ {c} : ch'[k] = ch[k]
  BY DEF Teleport, Idle, Typed, Folks, CharState
<1>2. m \in Maps /\ PlacedIn(m, Nobody(c), ClosedDoors)
  BY Gone DEF Teleport
<1>3. m[t].ch = None /\ ~m[t].tmove /\ ch[c].kind # "none" /\ map' = SetChar(m, c, t)
  BY DEF Teleport, Standable, Blocked, Used
<1>4. ClosedDoors' = ClosedDoors
  BY DoorsKept DEF Teleport
<1>5. Nobody(c)[c].kind = "none"
  BY NobodyIs DEF Absent
<1> HIDE DEF m
<1> QED
  BY <1>1, <1>2, <1>3, <1>4, <1>5, NobodyIs, SetCharIs, PutOn DEF Typed, Here

LEMMA PlacedActWalk ==
  ASSUME Typed, Typed', Here, NEW c \in Slots, ActWalk(c)
  PROVE  Here'
<1> DEFINE m == RemoveChar(map, c)
           t == ch[c].to
<1>1. t \in Tiles /\ ch[c].kind # "none"
  BY DEF ActWalk, Acting, Used, Typed, Folks, CharState, Opt
<1>2. map[t].ch = None /\ map[t].tmove /\ ch[c].at \in Tiles /\ map[ch[c].at].ch = c
  BY <1>1 DEF Here, PlacedIn
<1>3. /\ ch'[c].kind = ch[c].kind /\ ch'[c].at = t /\ ch'[c].to = None /\ ch'[c].act.do = "idle"
      /\ \A k \in Slots \ {c} : ch'[k] = ch[k]
  BY DEF ActWalk, Idle, Typed, Folks, CharState
<1>4. m \in Maps /\ PlacedIn(m, Nobody(c), ClosedDoors)
  BY <1>1, Gone DEF Used
<1>5. t # ch[c].at
  BY <1>2
<1>6. m[t].ch = None /\ ~m[t].tmove
  BY <1>1, <1>2, <1>5 DEF RemoveChar, Typed, Maps, TileState
<1>7. /\ map'[t].ch = c /\ map'[t].tmove
      /\ \A u \in Tiles \ {t} : map'[u].ch = m[u].ch /\ map'[u].tmove = m[u].tmove
  <2>1. map' = [[[map EXCEPT ![ch[c].at].ch = None] EXCEPT ![ch[c].at].tmove = FALSE]
                 EXCEPT ![t].ch = c]
    BY DEF ActWalk
  <2>2. ASSUME NEW u \in Tiles \ {t}
        PROVE  map'[u].ch = m[u].ch /\ map'[u].tmove = m[u].tmove
    <3>1. m[u] = IF u = ch[c].at THEN [map[u] EXCEPT !.ch = None, !.tmove = FALSE] ELSE map[u]
      BY DEF RemoveChar
    <3> HIDE DEF m
    <3> QED
      BY <2>1, <3>1, <1>2 DEF Typed, Maps, TileState
  <2>3. map'[t].ch = c /\ map'[t].tmove
    BY <2>1, <1>1, <1>2, <1>5 DEF Typed, Maps, TileState
  <2> QED
    BY <2>2, <2>3
<1>8. ClosedDoors' = ClosedDoors
  BY DoorsKept DEF ActWalk
<1>9. Nobody(c)[c].kind = "none"
  BY NobodyIs DEF Absent
<1> HIDE DEF m
<1> QED
  BY <1>1, <1>3, <1>4, <1>6, <1>7, <1>8, <1>9, NobodyIs, PutOn DEF Typed, Here

LEMMA OffIs ==
  ASSUME NEW m \in Maps, NEW c
  PROVE  /\ \A u \in Tiles : u = ch[c].at => RemoveChar(m, c)[u].ch = None
                                           /\ ~RemoveChar(m, c)[u].tmove
         /\ \A u \in Tiles : m[u].ch = None => RemoveChar(m, c)[u].ch = None
         /\ \A u \in Tiles : ~m[u].tmove => ~RemoveChar(m, c)[u].tmove
BY DEF RemoveChar, Maps, TileState

LEMMA PlacedSwap ==
  ASSUME Typed, Typed', Here, NEW c \in Slots, NEW d \in Dirs, CharSwap(c, d)
  PROVE  Here'
<1> DEFINE t == Ahead(c, d)
           p == ch[c].at
<1>0. PICK k \in Slots : k = map[t].ch
  BY DEF CharSwap, Typed, Maps, TileState, Opt
<1>1. t \in Tiles /\ ch[c].kind # "none" /\ ch[c].act = Idle
  BY DEF CharSwap, Ready, Used
<1>2. /\ ch[k].kind # "none" /\ ch[k].at = t /\ p \in Tiles /\ map[p].ch = c
      /\ ch[c].to = None
  BY <1>0, <1>1 DEF Here, PlacedIn, Idle
<1>3. p # t /\ k # c
  <2>1. p # t
    <3>1. p \in (1 .. Width) \X (1 .. Height) /\ d \in ({-1, 0, 1} \X {-1, 0, 1}) \ {<<0, 0>>}
      BY <1>2 DEF Tiles, Dirs
    <3>2. t = <<p[1] + d[1], p[2] + d[2]>> /\ p[1] \in Int /\ p[2] \in Int
          /\ d[1] \in Int /\ d[2] \in Int /\ (d[1] # 0 \/ d[2] # 0) /\ p = <<p[1], p[2]>>
      BY <3>1 DEF Ahead, Step
    <3> HIDE DEF t, p
    <3> QED
      BY <3>2
  <2> QED
    BY <2>1, <1>2
<1>4. /\ ch'[c].kind = ch[c].kind /\ ch'[c].at = t /\ ch'[c].to = None /\ ch'[c].act = Idle
      /\ ch'[k].kind = ch[k].kind /\ ch'[k].at = p /\ ch'[k].to = None
      /\ ch'[k].act.do # "walk"
      /\ \A j \in Slots \ {c, k} : ch'[j] = ch[j]
  <2>1. ch' = [ch EXCEPT ![c].at = t, ![k].at = p, ![k].to = None,
                         ![k].act = IF @.do = "walk" THEN Idle ELSE @]
    BY <1>0 DEF CharSwap
  <2>2. ch'[c] = [ch[c] EXCEPT !.at = t] /\ \A j \in Slots \ {c, k} : ch'[j] = ch[j]
    BY <2>1, <1>1, <1>3 DEF Typed, Folks
  <2>3. ch'[k] = [[[ch[k] EXCEPT !.at = p] EXCEPT !.to = None]
                  EXCEPT !.act = IF ch[k].act.do = "walk" THEN Idle ELSE ch[k].act]
    BY <2>1, <1>1, <1>3 DEF Typed, Folks, CharState
  <2>4. ch[c] \in CharState /\ ch[k] \in CharState
    BY <1>1 DEF Typed, Folks
  <2>5. ch'[k].kind = ch[k].kind /\ ch'[k].at = p /\ ch'[k].to = None
        /\ ch'[k].act = IF ch[k].act.do = "walk" THEN Idle ELSE ch[k].act
    BY <2>3, <2>4 DEF CharState
  <2> HIDE DEF t, p
  <2> QED
    BY <2>2, <2>4, <2>5, <1>1, <1>2 DEF CharState, Idle
<1> HIDE DEF t, p
<1>5. PICK m1 \in Maps, C1 \in Folks :
        /\ m1 = RemoveChar(map, c) /\ PlacedIn(m1, C1, ClosedDoors)
        /\ C1[c] = Absent /\ \A j \in Slots \ {c} : C1[j] = ch[j]
  <2>1. /\ RemoveChar(map, c) \in Maps /\ Nobody(c) \in Folks
        /\ PlacedIn(RemoveChar(map, c), Nobody(c), ClosedDoors)
        /\ Nobody(c)[c] = Absent /\ \A j \in Slots \ {c} : Nobody(c)[j] = ch[j]
    BY <1>1, Gone, NobodyIs DEF Used
  <2> QED
    BY <2>1
<1>6. PICK m2 \in Maps : m2 = RemoveChar(m1, k)
  BY <1>5, RemoveCharType DEF Maps
<1>7. PICK C2 \in Folks : C2[k] = Absent /\ \A j \in Slots \ {k} : C2[j] = C1[j]
  <2>1. [C1 EXCEPT ![k] = Absent] \in Folks
    BY AbsentType DEF Folks
  <2> QED
    BY <2>1 DEF Folks
<1>8. PlacedIn(m2, C2, ClosedDoors)
  BY <1>2, <1>3, <1>5, <1>6, <1>7, TakenOff
<1>9. m2[t].ch = None /\ ~m2[t].tmove /\ m2[p].ch = None /\ ~m2[p].tmove
  <2>1. m1[p].ch = None /\ ~m1[p].tmove
    BY <1>2, <1>5, OffIs DEF Typed, p
  <2> QED
    BY <2>1, <1>1, <1>2, <1>6, OffIs
<1>10. PICK C3 \in Folks : C3[c] = ch'[c] /\ \A j \in Slots \ {c} : C3[j] = C2[j]
  <2>1. [C2 EXCEPT ![c] = ch'[c]] \in Folks
    BY DEF Folks, Typed
  <2> QED
    BY <2>1 DEF Folks
<1>11. PICK m3 \in Maps : /\ m3 = SetChar(m2, c, t)
                          /\ m3[t].ch = c /\ m3[t].tmove
                          /\ \A u \in Tiles \ {t} : m3[u] = m2[u]
  BY <1>1, SetCharIs
<1>12. PlacedIn(m3, C3, ClosedDoors)
  <2>1. C2[c].kind = "none"
    BY <1>3, <1>5, <1>7 DEF Absent
  <2>2. C3[c].at = t /\ C3[c].to = None /\ C3[c].act.do # "walk" /\ C3[c].kind # "none"
    BY <1>1, <1>4, <1>10 DEF Idle
  <2> QED
    BY <2>1, <2>2, <1>1, <1>8, <1>9, <1>10, <1>11, PutOn
<1>13. map' = SetChar(m3, k, p)
  BY <1>0, <1>5, <1>6, <1>11 DEF CharSwap, t, p
<1>14. map'[p].ch = k /\ map'[p].tmove /\ \A u \in Tiles \ {p} : map'[u] = m3[u]
  BY <1>2, <1>13, SetCharIs
<1>15. \A j \in Slots \ {k} : ch'[j] = C3[j]
  BY <1>4, <1>5, <1>7, <1>10
<1>16. C3[k].kind = "none"
  BY <1>3, <1>7, <1>10 DEF Absent
<1>17. m3[p].ch = None /\ ~m3[p].tmove
  BY <1>2, <1>3, <1>9, <1>11
<1>18. PlacedIn(map', ch', ClosedDoors)
  BY <1>2, <1>4, <1>12, <1>14, <1>15, <1>16, <1>17, PutOn DEF Typed
<1>19. ClosedDoors' = ClosedDoors
  BY DoorsKept DEF CharSwap
<1> QED
  BY <1>18, <1>19 DEF Here

LEMMA PlacedDoWalk ==
  ASSUME Typed, Typed', Here, NEW c \in Slots, NEW d \in Dirs, DoWalk(c, d)
  PROVE  Here'
<1> DEFINE t == Ahead(c, d)
           a == [do |-> "walk", dir |-> None, goal |-> None]
<1>1. t \in Tiles /\ ch[c].kind # "none" /\ map[t].ch = None /\ ~map[t].tmove
      /\ map' = [map EXCEPT ![t].tmove = TRUE]
  BY DEF DoWalk, Ready, Used, Blocked
<1>2. ch[c].to = None
  <2>1. ch[c].act.do = "idle"
    BY DEF DoWalk, Ready, Idle
  <2> QED
    BY <2>1 DEF Here, PlacedIn
<1>3. /\ ch'[c].kind = ch[c].kind /\ ch'[c].at = ch[c].at /\ ch'[c].to = t
      /\ ch'[c].act.do = "walk" /\ \A k \in Slots \ {c} : ch'[k] = ch[k]
  BY DEF DoWalk, Typed, Folks, CharState
<1>4. ClosedDoors' = ClosedDoors
  BY DoorsKept DEF DoWalk
<1> HIDE DEF t
<1>5. \A u \in Tiles : map'[u].ch = map[u].ch /\ (map'[u].tmove = (map[u].tmove \/ u = t))
  BY <1>1 DEF Typed, Maps, TileState
<1>6. PlacedIn(map', ch', ClosedDoors)
  <2>1. map \in Maps /\ ch \in Folks /\ map' \in Maps /\ ch' \in Folks
        /\ PlacedIn(map, ch, ClosedDoors)
    BY DEF Typed, Here
  <2>2. t \in Tiles /\ c \in Slots /\ ch[c].kind # "none" /\ ch[c].to = None /\ map[t].ch = None /\ ~map[t].tmove
    BY <1>1, <1>2
  <2>3. \A k \in Slots \ {c} : ch'[k] = ch[k]
    BY <1>3
  <2>4. ch'[c].kind = ch[c].kind /\ ch'[c].at = ch[c].at /\ ch'[c].to = t /\ ch'[c].act.do = "walk"
    BY <1>3
  <2> DEFINE E == ch' r == map'
  <2>5. E \in Folks /\ E[c].kind = ch[c].kind /\ E[c].at = ch[c].at /\ E[c].to = t /\ E[c].act.do = "walk" /\ \A k \in Slots \ {c} : E[k] = ch[k]
    BY <2>1, <2>3, <2>4
  <2>6. r \in Maps /\ \A u \in Tiles : r[u].ch = map[u].ch /\ (r[u].tmove = (map[u].tmove \/ u = t))
    BY <2>1, <1>5
  <2> HIDE DEF E, r
  <2>7. PlacedIn(r, E, ClosedDoors)
    BY <2>1, <2>2, <2>5, <2>6, SetsOut
  <2> QED
    BY <2>7 DEF E, r
<1> QED
  BY <1>4, <1>6 DEF Here

LEMMA PlacedDie ==
  ASSUME Typed, Typed', Here, NEW c \in Slots, ActDie(c)
  PROVE  Here'
<1>1. Used(c) /\ ClosedDoors' = ClosedDoors
  BY DoorsKept DEF ActDie, Acting
<1>2. PICK m \in Maps, C \in Folks :
        /\ m = RemoveChar(map, c) /\ C = Nobody(c) /\ PlacedIn(m, C, ClosedDoors)
        /\ C[c] = Absent /\ \A k \in Slots \ {c} : C[k] = ch[k]
  <2>1. /\ RemoveChar(map, c) \in Maps /\ Nobody(c) \in Folks
        /\ PlacedIn(RemoveChar(map, c), Nobody(c), ClosedDoors)
        /\ Nobody(c)[c] = Absent /\ \A k \in Slots \ {c} : Nobody(c)[k] = ch[k]
    BY <1>1, Gone, NobodyIs
  <2> QED
    BY <2>1
\* With or without a body, the characters and flags are those of m.
<1>3. PICK n \in Maps : /\ \A t \in Tiles : n[t].ch = m[t].ch /\ n[t].tmove = m[t].tmove
                        /\ \/ Depart(c, n)
                           \/ \E u \in Tiles, kept \in SUBSET Items : Revive(c, n, u, kept)
  <2>1. CASE Depart(c, m) \/ \E u \in Tiles : Revive(c, m, u, {})
    BY <2>1
  <2>2. ASSUME NEW b \in Items, NEW t \in Layable(m),
               NEW kept \in SUBSET (IF IsPlayer(c) THEN ch[c].pack ELSE {}),
               \/ \E u \in Tiles : Revive(c, [m EXCEPT ![t].it = b], u, kept)
               \/ Depart(c, [m EXCEPT ![t].it = b])
        PROVE  \E n \in Maps : /\ \A u \in Tiles : n[u].ch = m[u].ch /\ n[u].tmove = m[u].tmove
                               /\ \/ Depart(c, n)
                                  \/ \E u \in Tiles, k \in SUBSET Items : Revive(c, n, u, k)
    <3>1. [m EXCEPT ![t].it = b] \in Maps
          /\ \A u \in Tiles : /\ [m EXCEPT ![t].it = b][u].ch = m[u].ch
                              /\ [m EXCEPT ![t].it = b][u].tmove = m[u].tmove
      BY DEF Maps, TileState, Opt
    <3>2. kept \in SUBSET Items
      BY DEF Typed, Folks, CharState
    <3> QED
      BY <2>2, <3>1, <3>2
  <2>3. \/ Depart(c, m) \/ \E u \in Tiles : Revive(c, m, u, {})
        \/ \E b \in Items, t \in Layable(m) :
             \E kept \in SUBSET (IF IsPlayer(c) THEN ch[c].pack ELSE {}) :
               \/ \E u \in Tiles : Revive(c, [m EXCEPT ![t].it = b], u, kept)
               \/ Depart(c, [m EXCEPT ![t].it = b])
    BY <1>2 DEF ActDie
  <2> QED
    BY <2>1, <2>2, <2>3
<1>4. PlacedIn(n, C, ClosedDoors)
  <2>1. \A k \in Slots : C[k].to # None => C[k].act.do \in {"walk", "die"}
    BY <1>2 DEF PlacedIn
  <2>2. \A k \in Slots : C[k].act.do = "walk" => C[k].to # None
    BY <1>2 DEF PlacedIn, Absent, Idle
  <2> QED
    BY <2>1, <2>2, <1>2, <1>3, Stays
<1>5. CASE Depart(c, n)
  BY <1>1, <1>2, <1>4, <1>5 DEF Depart, Here, Nobody
<1>6. ASSUME NEW u \in Tiles, NEW kept \in SUBSET Items, Revive(c, n, u, kept)
      PROVE  Here'
  <2>1. /\ ch'[c].at = u /\ ch'[c].to = None /\ ch'[c].act.do # "walk" /\ ch'[c].kind # "none"
        /\ \A k \in Slots \ {c} : ch'[k] = C[k]
    BY <1>2, <1>6 DEF Revive, Absent, Idle, Typed, Folks
  <2>2. n[u].ch = None /\ ~n[u].tmove /\ C[c].kind = "none" /\ map' = SetChar(n, c, u)
    BY <1>2, <1>6 DEF Revive, Standable, Blocked, Absent
  <2>3. map'[u].ch = c /\ map'[u].tmove /\ \A t \in Tiles \ {u} : map'[t] = n[t]
    BY <2>2, SetCharIs
  <2>4. PlacedIn(map', ch', ClosedDoors)
    BY <1>4, <2>1, <2>2, <2>3, PutOn DEF Typed
  <2> QED
    BY <1>1, <2>4 DEF Here
<1> QED
  BY <1>3, <1>5, <1>6

\* What an act that is not a walk or a death leaves of Placed when it is over,
\* or has changed hands and packs only.
Unmoved(c) ==
  /\ ch'[c].kind = ch[c].kind /\ ch'[c].at = ch[c].at /\ ch'[c].to = ch[c].to
  /\ ch[c].kind = "none" => ch'[c] = ch[c]
  /\ ch'[c].act.do = "walk" => ch[c].to # None
  /\ ch[c].to # None => ch'[c].act.do \in {"walk", "die"}

LEMMA UnmovedSame ==
  ASSUME Here, NEW c \in Slots, ch'[c] = ch[c] PROVE Unmoved(c)
BY DEF Here, PlacedIn, Unmoved, Absent, Idle

LEMMA PlacedUnmoved ==
  ASSUME Typed, Typed', Here, UNCHANGED door, \A c \in Slots : Unmoved(c),
         \A t \in Tiles : map'[t].ch = map[t].ch /\ map'[t].tmove = map[t].tmove
  PROVE  Here'
<1>1. PlacedIn(map', ch', ClosedDoors)
  BY Stays DEF Typed, Here, Unmoved
<1> QED
  BY <1>1, DoorsKept DEF Here

LEMMA PlacedBegins ==
  ASSUME Typed, Typed', Here, NEW c \in Slots
  PROVE  /\ \A d \in Dirs : DoTake(c, d) \/ DoDrop(c, d) \/ DoGive(c, d) \/ DoUse(c, d) => Here'
         /\ Kill(c) => Here'
<1>1. ASSUME NEW do, NEW d, NEW g, Begin(c, do, d, g), UNCHANGED <<map, door>>, Used(c),
             do # "walk", ch[c].to # None => do = "die"
      PROVE  Here'
  <2>1. ch'[c].act.do = do /\ ch'[c].kind = ch[c].kind /\ ch'[c].at = ch[c].at
        /\ ch'[c].to = ch[c].to /\ \A k \in Slots \ {c} : ch'[k] = ch[k]
    BY <1>1 DEF Begin, Typed, Folks, CharState
  <2>2. Unmoved(c)
    BY <1>1, <2>1 DEF Unmoved, Used
  <2>3. \A k \in Slots : Unmoved(k)
    BY <2>1, <2>2, UnmovedSame
  <2> QED
    BY <1>1, <2>3, PlacedUnmoved
<1>2. Ready(c) => Used(c) /\ ch[c].to = None
  BY DEF Ready, Idle, Here, PlacedIn
<1>3. ASSUME NEW d \in Dirs, DoTake(c, d) PROVE Here'
  BY <1>1, <1>2, <1>3 DEF DoTake
<1>4. ASSUME NEW d \in Dirs, DoDrop(c, d) PROVE Here'
  BY <1>1, <1>2, <1>4 DEF DoDrop
<1>5. ASSUME NEW d \in Dirs, DoGive(c, d) PROVE Here'
  BY <1>1, <1>2, <1>5 DEF DoGive
<1>6. ASSUME NEW d \in Dirs, DoUse(c, d) PROVE Here'
  BY <1>1, <1>2, <1>6 DEF DoUse
<1>7. ASSUME Kill(c) PROVE Here'
  BY <1>1, <1>7 DEF Kill
<1> QED
  BY <1>3, <1>4, <1>5, <1>6, <1>7

\* Only the item of a tile is changed.
LEMMA ItemOnly ==
  ASSUME Typed, NEW t, NEW i, map' = [map EXCEPT ![t].it = i]
  PROVE  \A u \in Tiles : map'[u].ch = map[u].ch /\ map'[u].tmove = map[u].tmove
BY DEF Typed, Maps, TileState

\* An act that has to do with items is over.
LEMMA Over ==
  ASSUME Typed, Here, NEW c \in Slots, Used(c),
         ch[c].act.do \in {"take", "drop", "give", "use"},
         ch'[c].act = Idle, ch'[c].kind = ch[c].kind, ch'[c].at = ch[c].at, ch'[c].to = ch[c].to
  PROVE  Unmoved(c)
BY DEF Here, PlacedIn, Unmoved, Used, Idle

Ends(c) ==
  /\ ch'[c].act = Idle /\ ch'[c].kind = ch[c].kind /\ ch'[c].at = ch[c].at
  /\ ch'[c].to = ch[c].to /\ \A k \in Slots \ {c} : ch'[k] = ch[k]

LEMMA EndsPlain ==
  ASSUME Typed, NEW c \in Slots, ch' = [ch EXCEPT ![c].act = Idle] PROVE Ends(c)
BY DEF Ends, Typed, Folks, CharState

LEMMA EndsHand ==
  ASSUME Typed, NEW c \in Slots, NEW h, ch' = [ch EXCEPT ![c].hand = h, ![c].act = Idle]
  PROVE  Ends(c)
BY DEF Ends, Typed, Folks, CharState

LEMMA PlacedActs ==
  ASSUME Typed, Typed', Here, NEW c \in Slots
  PROVE  /\ ActTake(c) => Here'
         /\ ActDrop(c) => Here'
         /\ ActGive(c) => Here'
<1>1. ASSUME ActTake(c) PROVE Here'
  <2> DEFINE t == Ahead(c, ch[c].act.dir)
  <2>0. \/ /\ ch' = [ch EXCEPT ![c].hand = ch[c].act.goal, ![c].act = Idle]
           /\ map' = [map EXCEPT ![t].it = None]
        \/ ch' = [ch EXCEPT ![c].act = Idle] /\ map' = map
    BY <1>1 DEF ActTake
  <2> HIDE DEF t
  <2>1. Ends(c)
    BY <2>0, EndsPlain, EndsHand
  <2>2. \A k \in Slots : Unmoved(k)
    BY <1>1, <2>1, Over, UnmovedSame DEF ActTake, Acting, Ends
  <2>3. \A u \in Tiles : map'[u].ch = map[u].ch /\ map'[u].tmove = map[u].tmove
    BY <2>0, ItemOnly
  <2> QED
    BY <1>1, <2>2, <2>3, PlacedUnmoved DEF ActTake
<1>2. ASSUME ActDrop(c) PROVE Here'
  <2> DEFINE t == Ahead(c, ch[c].act.dir)
  <2>0. \/ /\ ch' = [ch EXCEPT ![c].hand = None, ![c].act = Idle]
           /\ map' = [map EXCEPT ![t].it = ch[c].act.goal]
        \/ ch' = [ch EXCEPT ![c].act = Idle] /\ map' = map
    BY <1>2 DEF ActDrop
  <2> HIDE DEF t
  <2>1. Ends(c)
    BY <2>0, EndsPlain, EndsHand
  <2>2. \A k \in Slots : Unmoved(k)
    BY <1>2, <2>1, Over, UnmovedSame DEF ActDrop, Acting, Ends
  <2>3. \A u \in Tiles : map'[u].ch = map[u].ch /\ map'[u].tmove = map[u].tmove
    BY <2>0, ItemOnly
  <2> QED
    BY <1>2, <2>2, <2>3, PlacedUnmoved DEF ActDrop
<1>3. ASSUME ActGive(c) PROVE Here'
  <2> DEFINE k == ch[c].act.goal
             i == ch[c].hand
             t == Ahead(c, ch[c].act.dir)
  <2>1. CASE /\ t \in Tiles /\ map[t].ch = k /\ i # None
             /\ ch' = [ch EXCEPT ![k] = Given(k, i), ![c].hand = None, ![c].act = Idle]
    <3>1. \A p : /\ Given(p, i).kind = ch[p].kind \/ p \notin Slots
                 /\ p \in Slots => /\ Given(p, i).at = ch[p].at /\ Given(p, i).to = ch[p].to
                                   /\ Given(p, i).act = ch[p].act
      BY DEF Given, Typed, Folks, CharState
    <3>2. k \in Slots
      BY <1>3 DEF ActGive, Acting, Typed, Folks, CharState, ActState, Aimed
    <3>3. ch[k].kind # "none"
      BY <2>1, <3>2 DEF Here, PlacedIn
    <3>4. /\ ch'[c].act = Idle /\ ch'[c].kind = ch[c].kind /\ ch'[c].at = ch[c].at
          /\ ch'[c].to = ch[c].to
      <4>1. PICK g \in CharState : /\ g.kind = ch[c].kind /\ g.at = ch[c].at /\ g.to = ch[c].to
                                   /\ ch'[c] = [g EXCEPT !.hand = None, !.act = Idle]
        <5>1. CASE k = c
          <6>1. ch'[c] = [Given(c, i) EXCEPT !.hand = None, !.act = Idle]
            BY <2>1, <5>1 DEF Typed, Folks
          <6>2. i \in Items /\ ch[c] \in CharState /\ ch[c].pack \cup {i} \in SUBSET Items
            BY <2>1 DEF Typed, Folks, CharState, Opt
          <6>3. Given(c, i) \in CharState
            BY <6>2, CharChange DEF Given, Opt
          <6> QED
            BY <6>1, <6>3, <3>1
        <5>2. CASE k # c
          BY <2>1, <5>2 DEF Typed, Folks
        <5> QED
          BY <5>1, <5>2
      <4> QED
        BY <4>1 DEF CharState
    <3>5. \A j \in Slots \ {c, k} : ch'[j] = ch[j]
      BY <2>1 DEF Typed, Folks
    <3>6. k # c => ch'[k] = Given(k, i)
      BY <2>1, <3>2 DEF Typed, Folks
    <3>7. Unmoved(c)
      BY <1>3, <3>4, Over DEF ActGive, Acting
    <3>8. k # c => Unmoved(k)
      BY <3>1, <3>2, <3>3, <3>6 DEF Unmoved, Here, PlacedIn
    <3> HIDE DEF k, i, t
    <3>9. \A j \in Slots : Unmoved(j)
      BY <3>5, <3>7, <3>8, UnmovedSame
    <3> QED
      BY <1>3, <3>9, PlacedUnmoved DEF ActGive
  <2>2. CASE ch' = [ch EXCEPT ![c].act = Idle]
    <3>1. Ends(c)
      BY <2>2, EndsPlain
    <3>2. \A j \in Slots : Unmoved(j)
      BY <1>3, <3>1, Over, UnmovedSame DEF ActGive, Acting, Ends
    <3> QED
      BY <1>3, <3>2, PlacedUnmoved DEF ActGive
  <2> QED
    BY <1>3, <2>1, <2>2 DEF ActGive
<1> QED
  BY <1>1, <1>2, <1>3

\* What is in hands and packs changes at any time.
LEMMA PlacedQuick ==
  ASSUME Typed, Typed', Here, NEW c \in Slots
  PROVE  /\ \A x \in Opt(Items) : Stow(c, x) => Here'
         /\ \A d \in Dirs, x \in Opt(Items) : Container(c, d, x) => Here'
         /\ \A i \in Items : Create(c, i) => Here'
         /\ \A i \in Items : Destroy(c, i) => Here'
<1>1. ASSUME Used(c), UNCHANGED <<map, door>>, NEW p \in CharState, ch' = [ch EXCEPT ![c] = p],
             p.kind = ch[c].kind, p.at = ch[c].at, p.to = ch[c].to, p.act = ch[c].act
      PROVE  Here'
  <2>1. ch'[c] = p /\ \A k \in Slots \ {c} : ch'[k] = ch[k]
    BY <1>1 DEF Typed, Folks
  <2>2. Unmoved(c)
    BY <1>1, <2>1 DEF Unmoved, Used, Here, PlacedIn
  <2>3. \A k \in Slots : Unmoved(k)
    BY <2>1, <2>2, UnmovedSame
  <2> QED
    BY <1>1, <2>3, PlacedUnmoved
<1>2. ch[c] \in CharState /\ ch'[c] \in CharState
  BY DEF Typed, Folks
<1>3. ASSUME NEW x \in Opt(Items), Stow(c, x) PROVE Here'
  <2>1. ch' = [ch EXCEPT ![c] = [[ch[c] EXCEPT !.hand = x]
                     EXCEPT !.pack = (ch[c].pack \cup {ch[c].hand}) \ {x, None}]]
    BY <1>2, <1>3 DEF Stow, Typed, Folks, CharState
  <2>2. ch'[c] = [[ch[c] EXCEPT !.hand = x]
                     EXCEPT !.pack = (ch[c].pack \cup {ch[c].hand}) \ {x, None}]
        /\ ch' = [ch EXCEPT ![c] = ch'[c]]
    BY <2>1 DEF Typed, Folks
  <2>3. ch'[c].kind = ch[c].kind /\ ch'[c].at = ch[c].at /\ ch'[c].to = ch[c].to
        /\ ch'[c].act = ch[c].act
    BY <1>2, <2>2 DEF CharState
  <2> QED
    BY <1>1, <1>2, <1>3, <2>2, <2>3 DEF Stow
<1>4. ASSUME NEW d \in Dirs, NEW x \in Opt(Items), Container(c, d, x) PROVE Here'
  <2>1. ch' = [ch EXCEPT ![c].hand = x] /\ UNCHANGED <<map, door>> /\ Used(c)
    BY <1>4 DEF Container, Ready
  <2>2. ch'[c] = [ch[c] EXCEPT !.hand = x] /\ ch' = [ch EXCEPT ![c] = ch'[c]]
    BY <2>1 DEF Typed, Folks
  <2>3. ch'[c].kind = ch[c].kind /\ ch'[c].at = ch[c].at /\ ch'[c].to = ch[c].to
        /\ ch'[c].act = ch[c].act
    BY <1>2, <2>2 DEF CharState
  <2> QED
    BY <1>1, <1>2, <2>1, <2>2, <2>3
<1>5. ASSUME NEW i \in Items, Create(c, i) PROVE Here'
  <2>1. ch' = [ch EXCEPT ![c] = Given(c, i)] /\ UNCHANGED <<map, door>> /\ Used(c)
    BY <1>5 DEF Create
  <2>2. ch'[c] = Given(c, i) /\ ch' = [ch EXCEPT ![c] = ch'[c]]
    BY <2>1 DEF Typed, Folks
  <2>3. ch'[c].kind = ch[c].kind /\ ch'[c].at = ch[c].at /\ ch'[c].to = ch[c].to
        /\ ch'[c].act = ch[c].act
    BY <1>2, <2>2 DEF Given, CharState
  <2> QED
    BY <1>1, <1>2, <2>1, <2>2, <2>3
<1>6. ASSUME NEW i \in Items, Destroy(c, i) PROVE Here'
  <2> DEFINE h == IF ch[c].hand = i THEN None ELSE ch[c].hand
  <2>1. ch' = [ch EXCEPT ![c] = [[ch[c] EXCEPT !.hand = h] EXCEPT !.pack = ch[c].pack \ {i}]]
        /\ UNCHANGED <<map, door>> /\ Used(c)
    BY <1>2, <1>6 DEF Destroy, Typed, Folks, CharState
  <2>2. ch'[c] = [[ch[c] EXCEPT !.hand = h] EXCEPT !.pack = ch[c].pack \ {i}]
        /\ ch' = [ch EXCEPT ![c] = ch'[c]]
    BY <2>1 DEF Typed, Folks
  <2> HIDE DEF h
  <2>3. ch'[c].kind = ch[c].kind /\ ch'[c].at = ch[c].at /\ ch'[c].to = ch[c].to
        /\ ch'[c].act = ch[c].act
    BY <1>2, <2>2 DEF CharState
  <2> QED
    BY <1>1, <1>2, <2>1, <2>2, <2>3
<1> QED
  BY <1>3, <1>4, <1>5, <1>6

LEMMA ClosedIs ==
  /\ ClosedDoors = {t \in Doors : ~door[t].open}
  /\ ClosedDoors' = {t \in Doors : ~door'[t].open}
BY DEF ClosedDoors, Closed

LEMMA PlacedUse == ASSUME Typed, Typed', Here, door \in [Doors -> DoorState], NEW c \in Slots, ActUse(c)
                   PROVE Here'
<1> DEFINE t == Ahead(c, ch[c].act.dir)
<1>1. \A k \in Slots : Unmoved(k)
  BY EndsPlain, Over, UnmovedSame DEF ActUse, Acting, Ends
<1>2. PlacedIn(map, ch', ClosedDoors)
  BY <1>1, Stays DEF Typed, Here, Unmoved
<1>3. CASE UNCHANGED <<door, map>>
  BY <1>2, <1>3, DoorsKept DEF Here
<1>4. CASE /\ t \in Doors /\ ~Blocked(map, t)
           /\ door' = [door EXCEPT ![t].open = FALSE]
           /\ map' = [map EXCEPT ![t].tmove = TRUE]
  <2>1. t \in Tiles /\ ~map[t].tmove
    BY <1>4 DEF Blocked
  <2>2. ClosedDoors' = ClosedDoors \cup {t}
    BY <1>4, ClosedIs DEF DoorState
  <2>3. \A u \in Tiles : map'[u].ch = map[u].ch /\ (map'[u].tmove = (map[u].tmove \/ u = t))
    BY <1>4, <2>1 DEF Typed, Maps, TileState
  <2> HIDE DEF t
  <2>4. PlacedIn(map', ch', ClosedDoors \cup {t})
    BY <1>2, <2>1, <2>3, DoorCloses DEF Typed
  <2> QED
    BY <2>2, <2>4 DEF Here
<1>5. CASE /\ t \in Doors /\ ~door[t].open
           /\ door' = [door EXCEPT ![t].open = TRUE, ![t].count = @ + 1, ![t].calls = @ + 1]
           /\ map' = [map EXCEPT ![t].tmove = FALSE]
  <2>1. t \in Tiles /\ t \in ClosedDoors
    BY <1>5, ClosedIs
  <2>2. ClosedDoors' = ClosedDoors \ {t}
    BY <1>5, ClosedIs DEF DoorState
  <2>3. \A u \in Tiles : map'[u].ch = map[u].ch /\ (map'[u].tmove = (map[u].tmove /\ u # t))
    BY <1>5, <2>1 DEF Typed, Maps, TileState
  <2> HIDE DEF t
  <2>4. PlacedIn(map', ch', ClosedDoors \ {t})
    BY <1>2, <2>1, <2>3, DoorOpens DEF Typed
  <2> QED
    BY <2>2, <2>4 DEF Here
<1> QED
  BY <1>3, <1>4, <1>5 DEF ActUse

LEMMA PlacedDoorTimer ==
  ASSUME Typed, Typed', Here, door \in [Doors -> DoorState], NEW t \in Doors, DoorTimer(t)
  PROVE  Here'
<1>1. CASE UNCHANGED map /\ \A u \in Doors : door'[u].open = door[u].open
  <2>1. ClosedDoors' = ClosedDoors
    BY <1>1, ClosedIs
  <2> QED
    BY <1>1, <2>1 DEF DoorTimer, Here
<1>2. CASE /\ ~Blocked(map, t) /\ map' = [map EXCEPT ![t].tmove = TRUE]
           /\ door' = [door EXCEPT ![t] = [open |-> FALSE, count |-> 0, calls |-> @.calls - 1]]
  <2>1. t \in Tiles /\ ~map[t].tmove
    BY <1>2 DEF Blocked
  <2>2. ClosedDoors' = ClosedDoors \cup {t}
    BY <1>2, ClosedIs DEF DoorState
  <2>3. \A u \in Tiles : map'[u].ch = map[u].ch /\ (map'[u].tmove = (map[u].tmove \/ u = t))
    BY <1>2, <2>1 DEF Typed, Maps, TileState
  <2>4. ch' = ch
    BY DEF DoorTimer
  <2>5. PlacedIn(map', ch, ClosedDoors \cup {t})
    BY <2>1, <2>3, DoorCloses DEF Typed, Here
  <2> QED
    BY <2>2, <2>4, <2>5 DEF Here
<1>3. \/ UNCHANGED map /\ \A u \in Doors : door'[u].open = door[u].open
      \/ /\ ~Blocked(map, t) /\ map' = [map EXCEPT ![t].tmove = TRUE]
         /\ door' = [door EXCEPT ![t] = [open |-> FALSE, count |-> 0, calls |-> @.calls - 1]]
  BY DEF DoorTimer, DoorState
<1> QED
  BY <1>1, <1>2, <1>3

LEMMA PlacedExpire ==
  ASSUME Typed, Typed', Here, NEW tm \in timers, ExpireTimer(tm) \/ ExpireTimerBody(tm)
  PROVE  Here'
<1>1. /\ UNCHANGED <<ch, door>>
      /\ map' = map \/ \E i : map' = [map EXCEPT ![item[i].at].it = None]
  BY DEF ExpireTimer, ExpireTimerBody, Vanish
<1>2. \A u \in Tiles : map'[u].ch = map[u].ch /\ map'[u].tmove = map[u].tmove
  BY <1>1, ItemOnly
<1> QED
  BY <1>1, <1>2, PlacedUnmoved, UnmovedSame

LEMMA InitPlaced == Init => Here
<1> SUFFICES ASSUME Init PROVE Here
  OBVIOUS
<1>1. \A t \in Tiles : map[t].ch = None /\ (map[t].tmove <=> t \in Doors)
  BY DEF Init
<1>2. \A c \in Slots : ch[c] = Absent /\ ch[c].kind = "none" /\ ch[c].to = None
  BY DEF Init, Absent
<1>3. ClosedDoors = Doors
  BY ClosedIs DEF Init
<1> QED
  BY <1>1, <1>2, <1>3 DEF Here, PlacedIn

LEMMA PlacedStep == TypeOK /\ TypeOK' /\ Here /\ [Next]_vars => Here'
<1> SUFFICES ASSUME TypeOK, TypeOK', Here, [Next]_vars PROVE Here'
  OBVIOUS
<1>0. Typed /\ Typed' /\ door \in [Doors -> DoorState]
  BY DEF TypeOK, Typed, Maps, Folks
<1>1. ASSUME NEW c \in Slots, NextUsed(c) PROVE Here'
  <2>1. CASE NextIdle(c)
    BY <1>0, <2>1, TowardDirs, PlacedSwap, PlacedDoWalk, PlacedBegins, PlacedQuick DEF NextIdle
  <2>2. CASE ~NextIdle(c)
    BY <1>0, <1>1, <2>2, PlacedLeave, PlacedBegins, PlacedTeleport, PlacedActWalk, PlacedActs,
       PlacedUse, PlacedDie, PlacedQuick DEF NextUsed
  <2> QED
    BY <2>1, <2>2
<1>2. CASE UNCHANGED vars
  BY <1>2, DoorsKept DEF vars, Here
<1> QED
  BY <1>0, <1>1, <1>2, PlacedEnter, PlacedExpire, PlacedDoorTimer DEF Next

\* Everybody stands on the tile that knows him, and a tile is blocked only while
\* somebody is on it or on the way to it or its door is closed.
THEOREM PlacesRight == Spec => []Placed
<1>1. Spec => [](TypeOK /\ Here)
  <2>1. Init => TypeOK /\ Here
    BY InitType, InitPlaced
  <2>2. TypeOK /\ Here /\ [Next]_vars => (TypeOK /\ Here)'
    BY TypeStep, PlacedStep
  <2> QED
    BY <2>1, <2>2, PTL DEF Spec
<1>2. TypeOK /\ Here => Placed
  BY PlacedIsIn DEF Here
<1> QED
  BY <1>1, <1>2, PTL
=============================================================================
