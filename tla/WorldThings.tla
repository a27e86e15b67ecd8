---------------------------- MODULE WorldThings ----------------------------
(***************************************************************************)
(* Every item is in exactly one place and lies about no longer than it     *)
(* should: Linked, then the timers -- what lies on the ground has one and  *)
(* goes when it is due, an open door has a call to come -- for any number  *)
(* of characters, items, layings and values of expire_sn.                  *)
(***************************************************************************)
EXTENDS WorldPlaces

USE WorldAssumption

-----------------------------------------------------------------------------
(* Linked, of any items I, map m, belongings H and contents S *)

Things == [Items -> ItemState]
Stores == [Items -> SUBSET Items]
Holdings == [Slots -> SUBSET Items]

ItemLinked(I, m, H, S, i) ==
  /\ I[i].kind = "none" => I[i] = Unused
  /\ I[i].kind \in Bodies => I[i].at # None
  /\ I[i].kind = "thing" => I[i].at # None \/ I[i].by # None \/ I[i].in # None
  /\ I[i].at # None => m[I[i].at].it = i /\ I[i].by = None /\ I[i].in = None
  /\ I[i].by # None => i \in H[I[i].by] /\ I[i].in = None
  /\ I[i].in # None => i \in S[I[i].in]
  /\ \A j \in S[i] : I[i].kind = "body" /\ I[j].in = i

LinkedIn(I, m, H, S) ==
  /\ \A i \in Items : ItemLinked(I, m, H, S, i)
  /\ \A t \in Tiles : m[t].it # None => I[m[t].it].at = t
  /\ \A c \in Slots : \A i \in H[c] : I[i].by = c

Held == [c \in Slots |-> Carried(c)]

HandFree == \A c \in Slots : ch[c].hand \notin ch[c].pack

LEMMA HeldType == TypeOK => Held \in Holdings
BY DEF Held, Holdings, Carried, TypeOK, CharState, Opt

LEMMA LinkedIsIn == TypeOK => (Linked <=> LinkedIn(item, map, Held, inside) /\ HandFree)
<1> SUFFICES ASSUME TypeOK PROVE Linked <=> LinkedIn(item, map, Held, inside) /\ HandFree
  OBVIOUS
<1>1. \A c \in Slots : Held[c] = Carried(c)
  BY DEF Held
<1>2. \A i \in Items : item[i].by # None => item[i].by \in Slots
  BY DEF TypeOK, ItemState, Opt
<1> QED
  BY <1>1, <1>2 DEF Linked, LinkedIn, ItemLinked, OnGround, HandFree

\* Nothing changes hands.
LEMMA LinkedStays ==
  ASSUME NEW I, NEW m, NEW n, NEW H, NEW S, LinkedIn(I, m, H, S),
         I \in Things, \A t \in Tiles : n[t].it = m[t].it
  PROVE  LinkedIn(I, n, H, S)
<1>1. \A i \in Items : I[i].at # None => I[i].at \in Tiles
  BY DEF Things, ItemState, Opt
<1> QED
  BY <1>1 DEF LinkedIn, ItemLinked

\* Some of what somebody has is freed.
LEMMA LinkedFree ==
  ASSUME NEW I \in Things, NEW m \in Maps, NEW H \in Holdings, NEW S \in Stores, LinkedIn(I, m, H, S),
         NEW c \in Slots, NEW F, F \subseteq H[c],
         NEW G \in Holdings, G[c] = H[c] \ F, \A k \in Slots \ {c} : G[k] = H[k],
         NEW J, J = Free(I, F)
  PROVE  LinkedIn(J, m, G, S)
<1>0. \A i \in Items : J[i] = IF i \in F THEN Unused ELSE I[i]
  BY DEF Free
<1>1. \A i \in F : i \in Items /\ I[i].by = c /\ I[i].at = None /\ I[i].in = None
  BY DEF LinkedIn, ItemLinked, Holdings
<1>2. \A i \in F : S[i] = {}
  BY <1>1 DEF LinkedIn, ItemLinked, Stores, Bodies
<1>3. ASSUME NEW i \in Items PROVE ItemLinked(J, m, G, S, i)
  <2>1. ItemLinked(I, m, H, S, i)
    BY DEF LinkedIn
  <2>2. CASE i \in F
    BY <2>2, <1>0, <1>2 DEF ItemLinked, Unused, Bodies
  <2>3. CASE i \notin F
    <3>1. J[i] = I[i]
      BY <2>3, <1>0
    <3>2. I[i].by # None => I[i].by \in Slots /\ i \in G[I[i].by]
      BY <2>1, <2>3 DEF ItemLinked, Things, ItemState, Opt
    <3>3. \A j \in S[i] : j \in Items /\ j \notin F /\ J[j].in = i
      <4>1. \A j \in S[i] : j \in Items /\ I[j].in = i
        BY <2>1 DEF ItemLinked, Stores
      <4> QED
        BY <4>1, <1>0, <1>1
    <3> QED
      BY <2>1, <3>1, <3>2, <3>3 DEF ItemLinked
  <2> QED
    BY <2>2, <2>3
<1>4. ASSUME NEW t \in Tiles, m[t].it # None PROVE J[m[t].it].at = t
  <2>1. m[t].it \in Items /\ I[m[t].it].at = t
    BY <1>4 DEF LinkedIn, Maps, TileState, Opt
  <2>2. m[t].it \notin F
    BY <2>1, <1>1
  <2> QED
    BY <2>1, <2>2, <1>0
<1>5. ASSUME NEW k \in Slots, NEW i \in G[k] PROVE J[i].by = k
  <2>1. i \in Items /\ i \in H[k] /\ I[i].by = k
    BY DEF LinkedIn, Holdings
  <2>2. i \notin F
    BY <2>1, <1>1
  <2> QED
    BY <2>1, <2>2, <1>0
<1> QED
  BY <1>3, <1>4, <1>5 DEF LinkedIn

\* Something is taken from the ground.
LEMMA LinkedTaken ==
  ASSUME NEW I \in Things, NEW m \in Maps, NEW H \in Holdings, NEW S \in Stores, LinkedIn(I, m, H, S),
         NEW c \in Slots, NEW t \in Tiles, NEW i \in Items, m[t].it = i, I[i].kind = "thing",
         NEW G \in Holdings, G[c] = H[c] \cup {i}, \A k \in Slots \ {c} : G[k] = H[k],
         NEW n \in Maps, n[t].it = None, \A u \in Tiles \ {t} : n[u].it = m[u].it,
         NEW J \in Things, J[i].at = None, J[i].by = c, J[i].in = I[i].in, J[i].kind = I[i].kind,
         \A j \in Items \ {i} : J[j] = I[j]
  PROVE  LinkedIn(J, n, G, S)
<1>0. /\ I[i].at = t /\ I[i].by = None /\ I[i].in = None /\ t # None /\ c # None /\ i # None
      /\ S[i] = {}
  <2>1. I[i].at = t /\ t # None /\ c # None /\ i # None
    BY DEF LinkedIn
  <2>2. ItemLinked(I, m, H, S, i)
    BY DEF LinkedIn
  <2> QED
    BY <2>1, <2>2 DEF ItemLinked, Stores
<1>1. ASSUME NEW j \in Items PROVE ItemLinked(J, n, G, S, j)
  <2>1. ItemLinked(I, m, H, S, j)
    BY DEF LinkedIn
  <2>2. CASE j = i
    BY <2>2, <1>0 DEF ItemLinked, Things, Bodies
  <2>3. CASE j # i
    <3>1. J[j] = I[j] /\ I[j].at \in Opt(Tiles) /\ I[j].by \in Opt(Slots)
      BY <2>3 DEF Things, ItemState
    <3>2. I[j].at # None => n[I[j].at].it = j
      BY <2>1, <2>3, <3>1 DEF ItemLinked, Opt
    <3>3. I[j].by # None => j \in G[I[j].by]
      BY <2>1, <3>1 DEF ItemLinked, Opt
    <3>4. \A k \in S[j] : k \in Items /\ k # i /\ J[k].in = j
      BY <2>1, <1>0 DEF ItemLinked, Stores
    <3> QED
      BY <2>1, <3>1, <3>2, <3>3, <3>4 DEF ItemLinked
  <2> QED
    BY <2>2, <2>3
<1>2. ASSUME NEW u \in Tiles, n[u].it # None PROVE J[n[u].it].at = u
  <2>1. u # t /\ n[u].it = m[u].it
    BY <1>2
  <2>2. m[u].it \in Items /\ I[m[u].it].at = u
    BY <1>2, <2>1 DEF LinkedIn, Maps, TileState, Opt
  <2> QED
    BY <2>1, <2>2, <1>0
<1>3. ASSUME NEW k \in Slots, NEW j \in G[k] PROVE J[j].by = k
  <2>1. j \in Items /\ (j \in H[k] \/ (j = i /\ k = c))
    BY DEF Holdings
  <2>2. j \in H[k] => I[j].by = k
    BY DEF LinkedIn
  <2> QED
    BY <2>1, <2>2, <1>0
<1> QED
  BY <1>1, <1>2, <1>3 DEF LinkedIn

\* Something is laid down.
LEMMA LinkedDropped ==
  ASSUME NEW I \in Things, NEW m \in Maps, NEW H \in Holdings, NEW S \in Stores, LinkedIn(I, m, H, S),
         NEW c \in Slots, NEW t \in Tiles, NEW i \in H[c], m[t].it = None,
         NEW G \in Holdings, G[c] = H[c] \ {i}, \A k \in Slots \ {c} : G[k] = H[k],
         NEW n \in Maps, n[t].it = i, \A u \in Tiles \ {t} : n[u].it = m[u].it,
         NEW J \in Things, J[i].at = t, J[i].by = None, J[i].in = None, J[i].kind = I[i].kind,
         \A j \in Items \ {i} : J[j] = I[j]
  PROVE  LinkedIn(J, n, G, S)
<1>0. /\ i \in Items /\ I[i].by = c /\ I[i].at = None /\ I[i].in = None /\ t # None /\ c # None
      /\ i # None /\ S[i] = {} /\ I[i].kind # "none" /\ J[i] # Unused
  <2>1. i \in Items /\ I[i].by = c /\ t # None /\ c # None /\ i # None
    BY DEF LinkedIn, Holdings
  <2>2. ItemLinked(I, m, H, S, i)
    BY <2>1 DEF LinkedIn
  <2> QED
    BY <2>1, <2>2 DEF ItemLinked, Stores, Unused, Bodies
<1>1. ASSUME NEW j \in Items PROVE ItemLinked(J, n, G, S, j)
  <2>1. ItemLinked(I, m, H, S, j)
    BY DEF LinkedIn
  <2>2. CASE j = i
    BY <2>2, <1>0 DEF ItemLinked, Things
  <2>3. CASE j # i
    <3>1. J[j] = I[j] /\ I[j].at \in Opt(Tiles) /\ I[j].by \in Opt(Slots)
      BY <2>3 DEF Things, ItemState
    <3>2. I[j].at # None => n[I[j].at].it = j
      BY <2>1, <2>3, <3>1, <1>0 DEF ItemLinked, Opt
    <3>3. I[j].by # None => j \in G[I[j].by]
      BY <2>1, <2>3, <3>1 DEF ItemLinked, Opt
    <3>4. \A k \in S[j] : k \in Items /\ k # i /\ J[k].in = j
      BY <2>1, <1>0 DEF ItemLinked, Stores
    <3> QED
      BY <2>1, <3>1, <3>2, <3>3, <3>4 DEF ItemLinked
  <2> QED
    BY <2>2, <2>3
<1>2. ASSUME NEW u \in Tiles, n[u].it # None PROVE J[n[u].it].at = u
  <2>1. CASE u = t
    BY <2>1
  <2>2. CASE u # t
    <3>1. n[u].it = m[u].it /\ m[u].it \in Items /\ I[m[u].it].at = u
      BY <1>2, <2>2 DEF LinkedIn, Maps, TileState, Opt
    <3> QED
      BY <3>1, <2>2, <1>0
  <2> QED
    BY <2>1, <2>2
<1>3. ASSUME NEW k \in Slots, NEW j \in G[k] PROVE J[j].by = k
  <2>1. j \in Items /\ j \in H[k] /\ (k = c => j # i)
    BY DEF Holdings
  <2>2. I[j].by = k
    BY <2>1 DEF LinkedIn
  <2> QED
    BY <2>1, <2>2, <1>0
<1> QED
  BY <1>1, <1>2, <1>3 DEF LinkedIn

\* Something is given.
LEMMA LinkedGiven ==
  ASSUME NEW I \in Things, NEW m \in Maps, NEW H \in Holdings, NEW S \in Stores, LinkedIn(I, m, H, S),
         NEW c \in Slots, NEW k \in Slots, k # c, NEW i \in H[c],
         NEW G \in Holdings, G[c] = H[c] \ {i}, G[k] = H[k] \cup {i},
         \A o \in Slots \ {c, k} : G[o] = H[o],
         NEW J \in Things, J = [I EXCEPT ![i].by = k]
  PROVE  LinkedIn(J, m, G, S)
<1>0. /\ i \in Items /\ I[i].by = c /\ I[i].at = None /\ I[i].in = None /\ c # None /\ k # None
      /\ S[i] = {} /\ I[i].kind # "none"
  <2>1. i \in Items /\ I[i].by = c /\ c # None /\ k # None
    BY DEF LinkedIn, Holdings
  <2>2. ItemLinked(I, m, H, S, i)
    BY <2>1 DEF LinkedIn
  <2> QED
    BY <2>1, <2>2 DEF ItemLinked, Stores, Unused, Bodies
<1>1. /\ J[i].by = k /\ J[i].at = None /\ J[i].in = None /\ J[i].kind = I[i].kind
      /\ \A j \in Items \ {i} : J[j] = I[j]
  BY <1>0 DEF Things, ItemState
<1>2. ASSUME NEW j \in Items PROVE ItemLinked(J, m, G, S, j)
  <2>1. ItemLinked(I, m, H, S, j)
    BY DEF LinkedIn
  <2>2. CASE j = i
    BY <2>1, <2>2, <1>0, <1>1 DEF ItemLinked
  <2>3. CASE j # i
    <3>1. J[j] = I[j] /\ I[j].by \in Opt(Slots)
      BY <2>3, <1>1 DEF Things, ItemState
    <3>2. I[j].by # None => j \in G[I[j].by]
      BY <2>1, <2>3, <3>1 DEF ItemLinked, Opt
    <3>3. \A o \in S[j] : o \in Items /\ o # i /\ J[o].in = j
      BY <2>1, <1>0, <1>1 DEF ItemLinked, Stores
    <3> QED
      BY <2>1, <3>1, <3>2, <3>3 DEF ItemLinked
  <2> QED
    BY <2>2, <2>3
<1>3. ASSUME NEW u \in Tiles, m[u].it # None PROVE J[m[u].it].at = u
  <2>1. m[u].it \in Items /\ I[m[u].it].at = u
    BY <1>3 DEF LinkedIn, Maps, TileState, Opt
  <2> QED
    BY <2>1, <1>0, <1>1
<1>4. ASSUME NEW o \in Slots, NEW j \in G[o] PROVE J[j].by = o
  <2>1. j \in Items /\ (j = i => o = k) /\ (j # i => j \in H[o])
    <3>1. i \in H[o] => o = c
      BY <1>0 DEF LinkedIn
    <3> QED
      BY <3>1 DEF Holdings
  <2>2. j \in H[o] => I[j].by = o
    BY DEF LinkedIn
  <2> QED
    BY <2>1, <2>2, <1>1
<1> QED
  BY <1>2, <1>3, <1>4 DEF LinkedIn

\* Something is made.
LEMMA LinkedMade ==
  ASSUME NEW I \in Things, NEW m \in Maps, NEW H \in Holdings, NEW S \in Stores, LinkedIn(I, m, H, S),
         NEW c \in Slots, NEW i \in Items, I[i].kind = "none",
         NEW G \in Holdings, G[c] = H[c] \cup {i}, \A k \in Slots \ {c} : G[k] = H[k],
         NEW J \in Things, J[i].at = None, J[i].by = c, J[i].in = None, J[i].kind = "thing",
         \A j \in Items \ {i} : J[j] = I[j]
  PROVE  LinkedIn(J, m, G, S)
<1>0. /\ I[i].at = None /\ I[i].by = None /\ I[i].in = None /\ c # None /\ S[i] = {}
  <2>1. ItemLinked(I, m, H, S, i)
    BY DEF LinkedIn
  <2> QED
    BY <2>1 DEF ItemLinked, Stores, Unused
<1>1. ASSUME NEW j \in Items PROVE ItemLinked(J, m, G, S, j)
  <2>1. ItemLinked(I, m, H, S, j)
    BY DEF LinkedIn
  <2>2. CASE j = i
    BY <2>2, <1>0 DEF ItemLinked, Bodies
  <2>3. CASE j # i
    <3>1. J[j] = I[j] /\ I[j].by \in Opt(Slots)
      BY <2>3 DEF Things, ItemState
    <3>2. I[j].by # None => j \in G[I[j].by]
      BY <2>1, <3>1 DEF ItemLinked, Opt
    <3>3. \A o \in S[j] : o \in Items /\ o # i /\ J[o].in = j
      BY <2>1, <1>0 DEF ItemLinked, Stores
    <3> QED
      BY <2>1, <3>1, <3>2, <3>3 DEF ItemLinked
  <2> QED
    BY <2>2, <2>3
<1>2. ASSUME NEW u \in Tiles, m[u].it # None PROVE J[m[u].it].at = u
  <2>1. m[u].it \in Items /\ I[m[u].it].at = u
    BY <1>2 DEF LinkedIn, Maps, TileState, Opt
  <2> QED
    BY <2>1, <1>0
<1>3. ASSUME NEW k \in Slots, NEW j \in G[k] PROVE J[j].by = k
  <2>1. j \in Items /\ (j \in H[k] \/ (j = i /\ k = c))
    BY DEF Holdings
  <2>2. j \in H[k] => I[j].by = k
    BY DEF LinkedIn
  <2> QED
    BY <2>1, <2>2, <1>0
<1> QED
  BY <1>1, <1>2, <1>3 DEF LinkedIn

Exchanged(I, J, c, b, x, h) ==
  \A i \in Items : /\ J[i].kind = I[i].kind /\ J[i].at = I[i].at
                   /\ i = x => J[i].by = c /\ J[i].in = None
                   /\ i = h => J[i].by = None /\ J[i].in = b
                   /\ i # x /\ i # h => J[i] = I[i]

\* Hand and body exchange something, of which one may be nothing.
LEMMA LinkedExchanged ==
  ASSUME NEW I \in Things, NEW m \in Maps, NEW H \in Holdings, NEW S \in Stores, LinkedIn(I, m, H, S),
         NEW c \in Slots, NEW b \in Items, I[b].kind = "body",
         NEW x \in Opt(S[b]), NEW h \in Opt(H[c]), x # h,
         NEW G \in Holdings, G[c] = (H[c] \ {h}) \cup ({x} \ {None}),
         \A k \in Slots \ {c} : G[k] = H[k],
         NEW T \in Stores, T[b] = (S[b] \cup {h}) \ {x, None}, \A j \in Items \ {b} : T[j] = S[j],
         NEW J \in Things,
         Exchanged(I, J, c, b, x, h)
  PROVE  LinkedIn(J, m, G, T)
<1> USE DEF Exchanged
<1>0. /\ None \notin Items /\ None \notin Slots /\ I[b].at # None
      /\ x # None => x \in Items /\ I[x].in = b /\ I[x].at = None /\ I[x].by = None
                     /\ I[x].kind = "thing" /\ S[x] = {}
      /\ h # None => h \in Items /\ I[h].by = c /\ I[h].at = None /\ I[h].in = None
                     /\ I[h].kind = "thing" /\ S[h] = {}
  <2>1. ItemLinked(I, m, H, S, b)
    BY DEF LinkedIn
  <2>2. ASSUME x # None
        PROVE  x \in Items /\ I[x].in = b /\ I[x].at = None /\ I[x].by = None
               /\ I[x].kind = "thing" /\ S[x] = {}
    <3>1. x \in Items /\ I[x].in = b /\ b # None /\ I[x].kind \in {"none", "thing"} \cup Bodies
      BY <2>1, <2>2 DEF ItemLinked, Opt, Stores, Things, ItemState
    <3>2. ItemLinked(I, m, H, S, x)
      BY <3>1 DEF LinkedIn
    <3> QED
      BY <3>1, <3>2 DEF ItemLinked, Unused, Stores, Bodies
  <2>3. ASSUME h # None
        PROVE  h \in Items /\ I[h].by = c /\ I[h].at = None /\ I[h].in = None
               /\ I[h].kind = "thing" /\ S[h] = {}
    <3>1. h \in Items /\ I[h].by = c /\ c # None /\ I[h].kind \in {"none", "thing"} \cup Bodies
      BY <2>3 DEF LinkedIn, Opt, Holdings, Things, ItemState
    <3>2. ItemLinked(I, m, H, S, h)
      BY <3>1 DEF LinkedIn
    <3> QED
      BY <3>1, <3>2 DEF ItemLinked, Unused, Stores, Bodies
  <2> QED
    BY <2>1, <2>2, <2>3 DEF ItemLinked, Bodies
<1>1. ASSUME NEW j \in Items PROVE ItemLinked(J, m, G, T, j)
  <2>1. ItemLinked(I, m, H, S, j)
    BY DEF LinkedIn
  <2>2. CASE j = x
    BY <2>2, <1>0 DEF ItemLinked, Bodies
  <2>3. CASE j = h
    <3>1. j \in T[b]
      BY <2>3, <1>0
    <3> QED
      BY <2>3, <3>1, <1>0 DEF ItemLinked, Bodies
  <2>4. CASE j # x /\ j # h
    <3>1. J[j] = I[j] /\ I[j].by \in Opt(Slots) /\ I[j].in \in Opt(Items)
      BY <2>4 DEF Things, ItemState
    <3>2. I[j].by # None => j \in G[I[j].by]
      BY <2>1, <2>4, <3>1 DEF ItemLinked, Opt
    <3>3. I[j].in # None => j \in T[I[j].in]
      BY <2>1, <2>4, <3>1, <1>0 DEF ItemLinked, Opt
    <3>4. \A o \in T[j] : I[j].kind = "body" /\ J[o].in = j
      <4>1. CASE j = b
        BY <2>1, <4>1, <1>0 DEF ItemLinked, Stores
      <4>2. CASE j # b
        <5>1. T[j] = S[j]
          BY <4>2
        <5>2. \A o \in S[j] : o \in Items /\ I[j].kind = "body" /\ I[o].in = j /\ o # x /\ o # h
          BY <2>1, <4>2, <1>0 DEF ItemLinked, Stores
        <5> QED
          BY <5>1, <5>2
      <4> QED
        BY <4>1, <4>2
    <3> QED
      BY <2>1, <3>1, <3>2, <3>3, <3>4 DEF ItemLinked
  <2> QED
    BY <2>2, <2>3, <2>4
<1>2. ASSUME NEW u \in Tiles, m[u].it # None PROVE J[m[u].it].at = u
  <2>1. m[u].it \in Items /\ I[m[u].it].at = u
    BY <1>2 DEF LinkedIn, Maps, TileState, Opt
  <2> QED
    BY <2>1
<1>3. ASSUME NEW k \in Slots, NEW j \in G[k] PROVE J[j].by = k
  <2>1. j \in Items /\ (j = x => k = c) /\ j # h /\ (j # x => j \in H[k])
    <3>1. x # None => x \notin H[k]
      BY <1>0 DEF LinkedIn
    <3>2. h # None /\ k # c => h \notin H[k]
      BY <1>0 DEF LinkedIn
    <3>3. j \in Items
      BY DEF Holdings
    <3> QED
      BY <3>1, <3>2, <3>3, <1>0
  <2>2. j \in H[k] => I[j].by = k
    BY DEF LinkedIn
  <2> QED
    BY <2>1, <2>2
<1> QED
  BY <1>1, <1>2, <1>3 DEF LinkedIn

Parted(I, J, b, put, gone) ==
  \A i \in Items \ {b} :
     /\ i \in gone => J[i] = Unused
     /\ i \in put => /\ J[i].by = None /\ J[i].in = b
                     /\ J[i].kind = I[i].kind /\ J[i].at = I[i].at
     /\ i \notin gone /\ i \notin put => J[i] = I[i]

\* Somebody dies: of what he had, some is put into a body, some is freed.
LEMMA LinkedBuried ==
  ASSUME NEW I \in Things, NEW m \in Maps, NEW H \in Holdings, NEW S \in Stores, LinkedIn(I, m, H, S),
         NEW c \in Slots, NEW b \in Items, I[b].kind = "none", NEW t \in Tiles, m[t].it = None,
         NEW put, put \subseteq H[c], NEW gone, gone \subseteq H[c] \ put,
         NEW G \in Holdings, G[c] = (H[c] \ put) \ gone, \A k \in Slots \ {c} : G[k] = H[k],
         NEW T \in Stores, T[b] = put, \A j \in Items \ {b} : T[j] = S[j],
         NEW n \in Maps, n[t].it = b, \A u \in Tiles \ {t} : n[u].it = m[u].it,
         NEW J \in Things, J[b].kind \in Bodies, put = {} \/ J[b].kind = "body",
         J[b].at = t, J[b].by = None, J[b].in = None,
         Parted(I, J, b, put, gone)
  PROVE  LinkedIn(J, n, G, T)
<1> USE DEF Parted
<1>0. /\ None \notin Items /\ None \notin Slots /\ None \notin Tiles
      /\ I[b] = Unused /\ b \notin H[c]
      /\ \A i \in Items : i \in H[c] => /\ I[i].by = c /\ I[i].at = None /\ I[i].in = None
                                       /\ I[i].kind = "thing" /\ S[i] = {}
      /\ H[c] \subseteq Items
  <2>1. ItemLinked(I, m, H, S, b)
    BY DEF LinkedIn
  <2>2. I[b] = Unused
    BY <2>1 DEF ItemLinked
  <2>3. b \notin H[c]
    BY <2>2 DEF LinkedIn, Unused
  <2>4. ASSUME NEW i \in Items, i \in H[c]
        PROVE  I[i].by = c /\ I[i].at = None /\ I[i].in = None /\ I[i].kind = "thing" /\ S[i] = {}
    <3>1. I[i].by = c /\ c # None /\ I[i].kind \in {"none", "thing"} \cup Bodies
      BY <2>4 DEF LinkedIn, Things, ItemState
    <3>2. ItemLinked(I, m, H, S, i)
      BY DEF LinkedIn
    <3> QED
      BY <3>1, <3>2 DEF ItemLinked, Unused, Stores, Bodies
  <2> QED
    BY <2>2, <2>3, <2>4 DEF Holdings
<1>1. ASSUME NEW j \in Items PROVE ItemLinked(J, n, G, T, j)
  <2>1. ItemLinked(I, m, H, S, j)
    BY DEF LinkedIn
  <2>2. CASE j = b
    <3>1. \A i \in put : J[i].in = b /\ J[b].kind = "body"
      BY <1>0
    <3> QED
      BY <2>2, <3>1, <1>0 DEF ItemLinked, Bodies
  <2>3. CASE j # b /\ j \in gone
    <3>1. J[j] = Unused /\ T[j] = {}
      BY <2>3, <1>0
    <3> QED
      BY <3>1 DEF ItemLinked, Unused, Bodies
  <2>4. CASE j # b /\ j \in put
    <3>1. T[j] = {} /\ j \notin gone
      BY <2>4, <1>0
    <3> QED
      BY <2>4, <3>1, <1>0 DEF ItemLinked, Bodies
  <2>5. CASE j # b /\ j \notin gone /\ j \notin put
    <3>1. J[j] = I[j] /\ I[j].by \in Opt(Slots) /\ I[j].in \in Opt(Items) /\ I[j].at \in Opt(Tiles)
          /\ T[j] = S[j]
      BY <2>5 DEF Things, ItemState
    <3>2. I[j].by # None => j \in G[I[j].by]
      BY <2>1, <2>5, <3>1 DEF ItemLinked, Opt
    <3>3. I[j].in # None => j \in T[I[j].in]
      <4>1. S[b] = {}
        <5>1. ItemLinked(I, m, H, S, b)
          BY DEF LinkedIn
        <5> QED
          BY <5>1 DEF ItemLinked, Stores
      <4> QED
        BY <2>1, <3>1, <4>1 DEF ItemLinked, Opt
    <3>4. I[j].at # None => n[I[j].at].it = j
      BY <2>1, <3>1, <1>0 DEF ItemLinked, Opt
    <3>5. \A o \in S[j] : J[o].in = j
      <4>1. \A o \in S[j] : o \in Items /\ I[o].in = j
        BY <2>1 DEF ItemLinked, Stores
      <4>2. \A o \in S[j] : o \notin H[c] /\ o # b
        BY <4>1, <1>0 DEF Unused
      <4> QED
        BY <4>1, <4>2
    <3> QED
      BY <2>1, <3>1, <3>2, <3>3, <3>4, <3>5 DEF ItemLinked
  <2> QED
    BY <2>2, <2>3, <2>4, <2>5
<1>2. ASSUME NEW u \in Tiles, n[u].it # None PROVE J[n[u].it].at = u
  <2>1. CASE u = t
    BY <2>1
  <2>2. CASE u # t
    <3>1. n[u].it = m[u].it /\ m[u].it \in Items /\ I[m[u].it].at = u
      BY <1>2, <2>2 DEF LinkedIn, Maps, TileState, Opt
    <3>2. m[u].it # b /\ m[u].it \notin H[c]
      BY <3>1, <1>0 DEF Unused
    <3> QED
      BY <3>1, <3>2
  <2> QED
    BY <2>1, <2>2
<1>3. ASSUME NEW k \in Slots, NEW j \in G[k] PROVE J[j].by = k
  <2>1. j \in Items /\ j \in H[k] /\ (k = c => j \notin put /\ j \notin gone)
    BY DEF Holdings
  <2>2. I[j].by = k
    BY <2>1 DEF LinkedIn
  <2>3. j # b /\ j \notin gone /\ j \notin put
    BY <2>1, <2>2, <1>0 DEF Unused
  <2> QED
    BY <2>1, <2>2, <2>3
<1> QED
  BY <1>1, <1>2, <1>3 DEF LinkedIn

\* Something vanishes from the ground, and all that is in it.
LEMMA LinkedVanished ==
  ASSUME NEW I \in Things, NEW m \in Maps, NEW H \in Holdings, NEW S \in Stores, LinkedIn(I, m, H, S),
         NEW i \in Items, NEW t \in Tiles, I[i].at = t,
         NEW n \in Maps, n[t].it = None, \A u \in Tiles \ {t} : n[u].it = m[u].it,
         NEW T \in Stores, T[i] = {}, \A j \in Items \ {i} : T[j] = S[j],
         NEW J, J = Free(I, {i} \cup S[i])
  PROVE  LinkedIn(J, n, H, T)
<1>0. /\ None \notin Items /\ None \notin Slots /\ None \notin Tiles
      /\ \A j \in Items : J[j] = IF j = i \/ j \in S[i] THEN Unused ELSE I[j]
      /\ m[t].it = i /\ I[i].by = None /\ I[i].in = None
      /\ \A j \in S[i] : /\ j \in Items /\ I[j].in = i /\ I[j].at = None /\ I[j].by = None
                         /\ S[j] = {}
  <2>1. ItemLinked(I, m, H, S, i) /\ \A j \in Items : ItemLinked(I, m, H, S, j)
    BY DEF LinkedIn
  <2>2. \A j \in Items : J[j] = IF j = i \/ j \in S[i] THEN Unused ELSE I[j]
    BY DEF Free
  <2>3. ASSUME NEW j \in S[i]
        PROVE  j \in Items /\ I[j].in = i /\ I[j].at = None /\ I[j].by = None /\ S[j] = {}
    <3>1. j \in Items /\ I[j].in = i /\ i # None
      BY <2>1 DEF ItemLinked, Stores
    <3>2. ItemLinked(I, m, H, S, j)
      BY <2>1, <3>1
    <3> QED
      BY <3>1, <3>2 DEF ItemLinked, Stores, Bodies
  <2> QED
    BY <2>1, <2>2, <2>3 DEF ItemLinked
<1>1. ASSUME NEW j \in Items PROVE ItemLinked(J, n, H, T, j)
  <2>1. ItemLinked(I, m, H, S, j)
    BY DEF LinkedIn
  <2>2. CASE j = i \/ j \in S[i]
    <3>1. J[j] = Unused /\ T[j] = {}
      BY <2>2, <1>0
    <3> QED
      BY <3>1 DEF ItemLinked, Unused, Bodies
  <2>3. CASE j # i /\ j \notin S[i]
    <3>1. J[j] = I[j] /\ I[j].in \in Opt(Items) /\ I[j].at \in Opt(Tiles) /\ T[j] = S[j]
      BY <2>3, <1>0 DEF Things, ItemState
    <3>2. I[j].in # None => j \in T[I[j].in]
      BY <2>1, <2>3, <3>1 DEF ItemLinked, Opt
    <3>3. I[j].at # None => n[I[j].at].it = j
      BY <2>1, <2>3, <3>1, <1>0 DEF ItemLinked, Opt
    <3>4. \A o \in S[j] : J[o].in = j
      <4>1. \A o \in S[j] : o \in Items /\ I[o].in = j
        BY <2>1 DEF ItemLinked, Stores
      <4>2. \A o \in S[j] : o # i /\ o \notin S[i]
        BY <4>1, <2>3, <1>0
      <4> QED
        BY <4>1, <4>2, <1>0
    <3> QED
      BY <2>1, <3>1, <3>2, <3>3, <3>4 DEF ItemLinked
  <2> QED
    BY <2>2, <2>3
<1>4. \A j \in Items : j # i /\ j \notin S[i] => J[j] = I[j]
  BY <1>0
<1>2. ASSUME NEW u \in Tiles, n[u].it # None PROVE J[n[u].it].at = u
  <2>1. u # t /\ n[u].it = m[u].it /\ m[u].it \in Items /\ I[m[u].it].at = u /\ u # None
    BY <1>2, <1>0 DEF LinkedIn, Maps, TileState, Opt
  <2>2. m[u].it # i /\ m[u].it \notin S[i]
    BY <2>1, <1>0
  <2>3. J[m[u].it] = I[m[u].it]
    BY <2>1, <2>2, <1>4
  <2> QED
    BY <2>1, <2>3
<1>3. ASSUME NEW k \in Slots, NEW j \in H[k] PROVE J[j].by = k
  <2>1. j \in Items /\ I[j].by = k /\ k # None
    BY <1>0 DEF LinkedIn, Holdings
  <2>2. j # i /\ j \notin S[i]
    BY <2>1, <1>0
  <2>3. J[j] = I[j]
    BY <2>1, <2>2, <1>4
  <2> QED
    BY <2>1, <2>3
<1> QED
  BY <1>1, <1>2, <1>3 DEF LinkedIn

\* A body is left alone once more.
LEMMA LinkedAged ==
  ASSUME NEW I \in Things, NEW m \in Maps, NEW H \in Holdings, NEW S \in Stores, LinkedIn(I, m, H, S),
         NEW i \in Items, I[i].kind # "none",
         NEW J \in Things, J[i].kind = I[i].kind, J[i].at = I[i].at, J[i].by = I[i].by,
         J[i].in = I[i].in, \A j \in Items \ {i} : J[j] = I[j]
  PROVE  LinkedIn(J, m, H, S)
<1>1. \A j \in Items : /\ J[j].kind = I[j].kind /\ J[j].at = I[j].at /\ J[j].by = I[j].by
                       /\ J[j].in = I[j].in /\ (J[j].kind = "none" => J[j] = I[j])
  OBVIOUS
<1>2. ASSUME NEW j \in Items PROVE ItemLinked(J, m, H, S, j)
  <2>1. ItemLinked(I, m, H, S, j)
    BY DEF LinkedIn
  <2>2. \A o \in S[j] : o \in Items
    BY DEF Stores
  <2> QED
    BY <1>1, <2>1, <2>2 DEF ItemLinked
<1>3. ASSUME NEW t \in Tiles, m[t].it # None PROVE J[m[t].it].at = t
  <2>1. I[m[t].it].at = t /\ m[t].it \in Items
    BY <1>3 DEF LinkedIn, Maps, TileState, Opt
  <2> QED
    BY <2>1, <1>1
<1>4. ASSUME NEW c \in Slots, NEW j \in H[c] PROVE J[j].by = c
  <2>1. I[j].by = c /\ j \in Items
    BY DEF LinkedIn, Holdings
  <2> QED
    BY <2>1, <1>1
<1> QED
  BY <1>2, <1>3, <1>4 DEF LinkedIn

-----------------------------------------------------------------------------
(* Every action does one of these *)

Known == Typed /\ item \in Things /\ inside \in Stores
Belong == LinkedIn(item, map, Held, inside) /\ HandFree

LEMMA KnownIs == TypeOK => Known
BY TypedIs DEF Known, TypeOK, Things, Stores

LEMMA HeldIs ==
  /\ \A c \in Slots : Held[c] = ({ch[c].hand} \ {None}) \cup ch[c].pack
  /\ \A c \in Slots : Held'[c] = ({ch'[c].hand} \ {None}) \cup ch'[c].pack
BY DEF Held, Carried

LEMMA KnownHeld == Known => Held \in Holdings
BY DEF Known, Typed, Folks, Held, Holdings, Carried, CharState, Opt

LEMMA KnownHeldNext == Known' => Held' \in Holdings
BY DEF Known, Typed, Folks, Held, Holdings, Carried, CharState, Opt

\* What somebody has when hand and pack are these.
LEMMA HeldThen ==
  ASSUME NEW c \in Slots, NEW h, NEW p, ch'[c].hand = h, ch'[c].pack = p
  PROVE  Held'[c] = IF h = None THEN p ELSE p \cup {h}
BY HeldIs

LEMMA HeldNow ==
  ASSUME NEW c \in Slots, NEW h, NEW p, ch[c].hand = h, ch[c].pack = p
  PROVE  Held[c] = IF h = None THEN p ELSE p \cup {h}
BY HeldIs

LEMMA HeldOthers ==
  ASSUME NEW c \in Slots, ch'[c] = ch[c] PROVE Held'[c] = Held[c]
BY HeldIs

LEMMA HandOf == ASSUME Known, NEW c \in Slots
                PROVE  ch[c].hand \in Opt(Items) /\ ch[c].pack \subseteq Items /\ None \notin ch[c].pack
BY DEF Known, Typed, Folks, CharState

\* What somebody has is his, and lies nowhere.
LEMMA HisOwn ==
  ASSUME Known, Belong, NEW c \in Slots, NEW i \in Held[c]
  PROVE  i \in Items /\ item[i].by = c /\ item[i].at = None /\ item[i].in = None
         /\ item[i].kind # "none"
<1>1. i \in Items
  BY KnownHeld DEF Holdings
<1>2. item[i].by = c /\ c # None
  BY DEF Belong, LinkedIn
<1>3. ItemLinked(item, map, Held, inside, i)
  BY <1>1 DEF Belong, LinkedIn
<1> QED
  BY <1>1, <1>2, <1>3 DEF ItemLinked, Unused

Quiet ==
  /\ UNCHANGED <<item, inside>>
  /\ \A t \in Tiles : map'[t].it = map[t].it
  /\ \A c \in Slots : ch'[c].hand = ch[c].hand /\ ch'[c].pack = ch[c].pack

LEMMA LinkedQuiet ==
  ASSUME Known, Belong, Quiet PROVE Belong'
<1>1. Held' = Held
  BY DEF Held, Carried, Quiet
<1>2. LinkedIn(item, map', Held, inside)
  BY LinkedStays DEF Known, Belong, Quiet
<1> QED
  BY <1>1, <1>2 DEF Belong, HandFree, Quiet

\* Coming, going and moving about leave hands and packs alone.
LEMMA OffKeeps ==
  ASSUME NEW m \in Maps, NEW c, NEW r, r = RemoveChar(m, c)
  PROVE  r \in Maps /\ \A t \in Tiles : r[t].it = m[t].it
<1>1. r \in Maps
  BY RemoveCharType DEF Maps
<1>2. ASSUME NEW t \in Tiles PROVE r[t].it = m[t].it
  <2>1. r[t] \in {m[t], [[m[t] EXCEPT !.ch = None] EXCEPT !.tmove = FALSE], [m[t] EXCEPT !.tmove = FALSE]}
    BY DEF RemoveChar
  <2>2. m[t] \in TileState
    BY DEF Maps
  <2> QED
    BY <2>1, <2>2 DEF TileState
<1> QED
  BY <1>1, <1>2

LEMMA OnKeeps ==
  ASSUME NEW m \in Maps, NEW c \in Slots, NEW u, NEW r, r = SetChar(m, c, u)
  PROVE  r \in Maps /\ \A t \in Tiles : r[t].it = m[t].it
<1>1. r \in Maps
  BY SetCharType DEF Maps, Opt
<1>2. r = [[m EXCEPT ![u].ch = c] EXCEPT ![u].tmove = TRUE]
  BY DEF SetChar
<1> QED
  BY <1>1, <1>2 DEF Maps, TileState

LEMMA SomeSame ==
  ASSUME Known, NEW c \in Slots, NEW a, ch' = [ch EXCEPT ![c].act = a]
  PROVE  \A k \in Slots : ch'[k].hand = ch[k].hand /\ ch'[k].pack = ch[k].pack
BY DEF Known, Typed, Folks, CharState

LEMMA QuietMoves ==
  ASSUME Known, Here, NEW c \in Slots
  PROVE  /\ \A kind \in Kinds, t \in Tiles : Enter(c, kind, t) => Quiet
         /\ \A t \in Tiles : Teleport(c, t) => Quiet
         /\ \A d \in Dirs : CharSwap(c, d) => Quiet
         /\ ActWalk(c) => Quiet
<1>0. map \in Maps /\ ch \in Folks
  BY DEF Known, Typed
<1>1. ASSUME NEW kind \in Kinds, NEW t \in Tiles, Enter(c, kind, t) PROVE Quiet
  <2>1. ch[c] = Absent /\ ch'[c] = [Absent EXCEPT !.kind = kind, !.at = t]
        /\ \A k \in Slots \ {c} : ch'[k] = ch[k]
    BY <1>0, <1>1 DEF Enter, Used, Here, PlacedIn, Folks
  <2>2. \A k \in Slots : ch'[k].hand = ch[k].hand /\ ch'[k].pack = ch[k].pack
    BY <2>1 DEF Absent
  <2> QED
    BY <1>0, <1>1, <2>2, OnKeeps DEF Enter, Quiet
<1>2. ASSUME NEW t \in Tiles, Teleport(c, t) PROVE Quiet
  <2>1. \A k \in Slots : ch'[k].hand = ch[k].hand /\ ch'[k].pack = ch[k].pack
    BY <1>0, <1>2 DEF Teleport, Folks, CharState
  <2>2. PICK m1 \in Maps : m1 = RemoveChar(map, c) /\ \A u \in Tiles : m1[u].it = map[u].it
    BY <1>0, OffKeeps
  <2>3. \A u \in Tiles : map'[u].it = m1[u].it
    BY <1>2, <2>2, OnKeeps DEF Teleport
  <2> QED
    BY <1>2, <2>1, <2>2, <2>3 DEF Teleport, Quiet
<1>3. ASSUME NEW d \in Dirs, CharSwap(c, d) PROVE Quiet
  <2>0. PICK k \in Slots, t \in Tiles : k = map[t].ch /\ t = Ahead(c, d)
    BY <1>0, <1>3 DEF CharSwap, Maps, TileState, Opt
  <2>1. ch' = [ch EXCEPT ![c].at = t, ![k].at = ch[c].at, ![k].to = None,
                         ![k].act = IF @.do = "walk" THEN Idle ELSE @]
        /\ map' = SetChar(SetChar(RemoveChar(RemoveChar(map, c), k), c, t), k, ch[c].at)
        /\ UNCHANGED <<item, inside>>
    BY <2>0, <1>3 DEF CharSwap
  <2>2. \A j \in Slots : ch'[j].hand = ch[j].hand /\ ch'[j].pack = ch[j].pack
    BY <1>0, <2>1 DEF Folks, CharState
  <2>3. PICK m1 \in Maps : m1 = RemoveChar(map, c) /\ \A u \in Tiles : m1[u].it = map[u].it
    BY <1>0, OffKeeps
  <2>4. PICK m2 \in Maps : m2 = RemoveChar(m1, k) /\ \A u \in Tiles : m2[u].it = m1[u].it
    BY OffKeeps
  <2>5. PICK m3 \in Maps : m3 = SetChar(m2, c, t) /\ \A u \in Tiles : m3[u].it = m2[u].it
    BY OnKeeps
  <2>6. map' = SetChar(m3, k, ch[c].at)
    BY <2>1, <2>3, <2>4, <2>5
  <2>7. \A u \in Tiles : map'[u].it = m3[u].it
    BY <2>6, OnKeeps
  <2>8. \A u \in Tiles : map'[u].it = map[u].it
    <3>1. \A u \in Tiles : map'[u].it = m2[u].it
      BY <2>5, <2>7
    <3> QED
      BY <2>3, <2>4, <3>1
  <2> QED
    BY <2>1, <2>2, <2>8 DEF Quiet
<1>4. ASSUME ActWalk(c) PROVE Quiet
  <2>1. \A k \in Slots : ch'[k].hand = ch[k].hand /\ ch'[k].pack = ch[k].pack
    BY <1>0, <1>4 DEF ActWalk, Folks, CharState
  <2>2. \A t \in Tiles : map'[t].it = map[t].it
    <3>0. PICK p \in Tiles, q \in Tiles : p = ch[c].at /\ q = ch[c].to /\ p # q
      <4>1. ch[c].kind # "none" /\ ch[c].to \in Tiles
        BY <1>0, <1>4 DEF ActWalk, Acting, Used, Folks, CharState, Opt
      <4> QED
        BY <4>1 DEF Here, PlacedIn
    <3>1. map' = [[[map EXCEPT ![p].ch = None] EXCEPT ![p].tmove = FALSE] EXCEPT ![q].ch = c]
      BY <1>4, <3>0 DEF ActWalk
    <3>2. ASSUME NEW t \in Tiles PROVE map'[t].it = map[t].it
      <4>1. CASE t = p
        BY <1>0, <3>0, <3>1, <4>1 DEF Maps, TileState
      <4>2. CASE t = q
        BY <1>0, <3>0, <3>1, <4>2 DEF Maps, TileState
      <4>3. CASE t # p /\ t # q
        BY <1>0, <3>0, <3>1, <4>3 DEF Maps, TileState
      <4> QED
        BY <4>1, <4>2, <4>3
    <3> QED
      BY <3>2
  <2> QED
    BY <1>4, <2>1, <2>2 DEF ActWalk, Quiet
<1> QED
  BY <1>1, <1>2, <1>3, <1>4

LEMMA QuietBegins ==
  ASSUME Known, NEW c \in Slots
  PROVE  /\ \A d \in Dirs : DoWalk(c, d) => Quiet
         /\ \A d \in Dirs : DoTake(c, d) \/ DoDrop(c, d) \/ DoGive(c, d) \/ DoUse(c, d) => Quiet
         /\ Kill(c) => Quiet
         /\ ActUse(c) => Quiet
<1>0. map \in Maps /\ ch \in Folks
  BY DEF Known, Typed
<1>1. ASSUME NEW d \in Dirs, DoWalk(c, d) PROVE Quiet
  <2>1. \A k \in Slots : ch'[k].hand = ch[k].hand /\ ch'[k].pack = ch[k].pack
    BY <1>0, <1>1 DEF DoWalk, Folks, CharState
  <2>2. \A t \in Tiles : map'[t].it = map[t].it
    BY <1>0, <1>1 DEF DoWalk, Maps, TileState
  <2> QED
    BY <1>1, <2>1, <2>2 DEF DoWalk, Quiet
<1>2. ASSUME NEW a, ch' = [ch EXCEPT ![c].act = a], UNCHANGED <<item, inside>>,
             map' = map \/ \E t, b : map' = [map EXCEPT ![t].tmove = b]
      PROVE  Quiet
  <2>1. \A t \in Tiles : map'[t].it = map[t].it
    BY <1>0, <1>2 DEF Maps, TileState
  <2> QED
    BY <1>2, <2>1, SomeSame DEF Quiet
<1>3. ASSUME NEW d \in Dirs, DoTake(c, d) \/ DoDrop(c, d) \/ DoGive(c, d) \/ DoUse(c, d)
      PROVE  Quiet
  BY <1>2, <1>3 DEF DoTake, DoDrop, DoGive, DoUse, Begin
<1>4. ASSUME Kill(c) PROVE Quiet
  BY <1>2, <1>4 DEF Kill, Begin
<1>5. ASSUME ActUse(c) PROVE Quiet
  <2>1. map' = map \/ \E t, b : map' = [map EXCEPT ![t].tmove = b]
    BY <1>5 DEF ActUse
  <2> QED
    BY <1>2, <1>5, <2>1 DEF ActUse
<1> QED
  BY <1>1, <1>3, <1>4, <1>5

LEMMA QuietDoor ==
  ASSUME Known, NEW t \in Doors, DoorTimer(t) PROVE Quiet
<1>1. UNCHANGED <<ch, item, inside>> /\ (map' = map \/ map' = [map EXCEPT ![t].tmove = TRUE])
  BY DEF DoorTimer
<1>2. \A u \in Tiles : map'[u].it = map[u].it
  BY <1>1 DEF Known, Typed, Maps, TileState
<1> QED
  BY <1>1, <1>2 DEF Quiet

\* Some of what somebody has is freed, and he goes or not.
LEMMA LinkedLoses ==
  ASSUME Known, Known', Belong, NEW c \in Slots, NEW F, F \subseteq Held[c],
         Held'[c] = Held[c] \ F, \A k \in Slots \ {c} : ch'[k] = ch[k],
         ch'[c].hand \notin ch'[c].pack,
         item' = Free(item, F), inside' = inside, \A t \in Tiles : map'[t].it = map[t].it
  PROVE  Belong'
<1>1. PICK G \in Holdings : G = Held'
  BY KnownHeldNext
<1>2. \A k \in Slots \ {c} : G[k] = Held[k]
  BY <1>1, HeldIs
<1>3. PICK J \in Things : J = item'
  BY DEF Known
<1>4. LinkedIn(J, map, G, inside)
  BY <1>1, <1>2, <1>3, KnownHeld, LinkedFree DEF Known, Typed, Belong
<1>5. LinkedIn(J, map', G, inside)
  BY <1>4, LinkedStays
<1>6. HandFree'
  BY DEF Belong, HandFree
<1> QED
  BY <1>1, <1>3, <1>5, <1>6 DEF Belong

LEMMA LinkedGoes ==
  ASSUME Known, Known', Belong, NEW c \in Slots
  PROVE  /\ Leave(c) => Belong'
         /\ \A i \in Items : Destroy(c, i) => Belong'
<1>0. map \in Maps /\ ch \in Folks
  BY DEF Known, Typed
<1>1. ASSUME Leave(c) PROVE Belong'
  <2>1. ch'[c] = Absent /\ \A k \in Slots \ {c} : ch'[k] = ch[k]
    BY <1>0, <1>1 DEF Leave, Folks
  <2>2. Held'[c] = {} /\ ch'[c].hand \notin ch'[c].pack /\ Held[c] = Carried(c)
    BY <2>1, HeldIs DEF Absent, Carried
  <2>3. \A t \in Tiles : map'[t].it = map[t].it
    BY <1>0, <1>1, OffKeeps DEF Leave
  <2>4. item' = Free(item, Held[c]) /\ inside' = inside
    BY <1>1, <2>2 DEF Leave
  <2> QED
    BY <2>1, <2>2, <2>3, <2>4, LinkedLoses
<1>2. ASSUME NEW i \in Items, Destroy(c, i) PROVE Belong'
  <2>0. PICK h : h = IF ch[c].hand = i THEN None ELSE ch[c].hand
    OBVIOUS
  <2>1. ch' = [[ch EXCEPT ![c].hand = h] EXCEPT ![c].pack = ch[c].pack \ {i}]
    BY <1>0, <1>2, <2>0 DEF Destroy, Folks, CharState
  <2>2. ch'[c].hand = h /\ ch'[c].pack = ch[c].pack \ {i} /\ \A k \in Slots \ {c} : ch'[k] = ch[k]
    BY <1>0, <2>1 DEF Folks, CharState
  <2>3. i \in Held[c]
    BY <1>2 DEF Destroy, Held
  <2>4. ch[c].hand \notin ch[c].pack /\ None \notin ch[c].pack
    BY HandOf DEF Belong, HandFree
  <2>5. Held'[c] = Held[c] \ {i} /\ h \notin ch'[c].pack
    BY <2>0, <2>2, <2>4, HeldIs
  <2> QED
    BY <1>2, <2>2, <2>3, <2>5, LinkedLoses DEF Destroy
<1> QED
  BY <1>1, <1>2

LEMMA LinkedStow ==
  ASSUME Known, Known', Belong, NEW c \in Slots, NEW x \in Opt(Items), Stow(c, x)
  PROVE  Belong'
<1>0. map \in Maps /\ ch \in Folks
  BY DEF Known, Typed
<1>1. ch' = [[ch EXCEPT ![c].hand = x] EXCEPT ![c].pack = (ch[c].pack \cup {ch[c].hand}) \ {x, None}]
  BY <1>0 DEF Stow, Folks, CharState
<1>2. /\ ch'[c].hand = x /\ ch'[c].pack = (ch[c].pack \cup {ch[c].hand}) \ {x, None}
      /\ \A k \in Slots \ {c} : ch'[k] = ch[k]
  BY <1>0, <1>1 DEF Folks, CharState
<1>3. x \in ch[c].pack \/ x = None
  BY DEF Stow
<1>4. Held'[c] = Held[c] /\ ch'[c].hand \notin ch'[c].pack
  <2>1. PICK h, p : h = ch[c].hand /\ p = ch[c].pack
    OBVIOUS
  <2>2. None \notin p
    BY <2>1, HandOf
  <2>3. Held[c] = ({h} \ {None}) \cup p /\ Held'[c] = ({x} \ {None}) \cup ((p \cup {h}) \ {x, None})
    BY <1>2, <2>1, HeldIs
  <2>4. x \in p \/ x = None
    BY <1>3, <2>1
  <2>5. ({h} \ {None}) \cup p = ({x} \ {None}) \cup ((p \cup {h}) \ {x, None})
    BY <2>2, <2>4
  <2>6. Held'[c] = Held[c]
    BY <2>3, <2>5
  <2>7. ch'[c].hand \notin ch'[c].pack
    BY <1>2
  <2> QED
    BY <2>6, <2>7
<1>5. Held' = Held
  <2>1. \A k \in Slots : Held'[k] = Held[k]
    BY <1>2, <1>4, HeldIs
  <2>2. PICK G \in Holdings, H \in Holdings : G = Held' /\ H = Held
    BY KnownHeld, KnownHeldNext
  <2> QED
    BY <2>1, <2>2 DEF Holdings
<1>6. HandFree'
  BY <1>2, <1>4 DEF Belong, HandFree
<1> QED
  BY <1>5, <1>6 DEF Stow, Belong

LEMMA LinkedTake ==
  ASSUME Known, Known', Belong, NEW c \in Slots, ActTake(c)
  PROVE  Belong'
<1>0. map \in Maps /\ ch \in Folks /\ item \in Things /\ inside \in Stores
  BY DEF Known, Typed
<1>1. CASE ch' = [ch EXCEPT ![c].act = Idle] /\ UNCHANGED <<map, item>>
  <2>1. Quiet
    BY <1>1, SomeSame DEF ActTake, Quiet
  <2> QED
    BY <2>1, LinkedQuiet
<1>2. ASSUME NEW t \in Tiles, NEW i \in Items, map[t].it = i, item[i].kind = "thing",
             ch[c].hand = None,
             map' = [map EXCEPT ![t].it = None],
             item' = [item EXCEPT ![i].at = None, ![i].by = c],
             ch' = [ch EXCEPT ![c].hand = i, ![c].act = Idle]
      PROVE  Belong'
  <2>1. /\ item'[i].at = None /\ item'[i].by = c /\ item'[i].in = item[i].in
        /\ item'[i].kind = item[i].kind /\ \A j \in Items \ {i} : item'[j] = item[j]
    BY <1>0, <1>2 DEF Things, ItemState
  <2>2. map'[t].it = None /\ \A u \in Tiles \ {t} : map'[u].it = map[u].it
    BY <1>0, <1>2 DEF Maps, TileState
  <2>3. ch'[c].hand = i /\ ch'[c].pack = ch[c].pack /\ \A k \in Slots \ {c} : ch'[k] = ch[k]
    BY <1>0, <1>2 DEF Folks, CharState
  <2>4. PICK G \in Holdings : G = Held'
    BY KnownHeldNext
  <2>5. G[c] = Held[c] \cup {i} /\ \A k \in Slots \ {c} : G[k] = Held[k]
    <3>1. i # None
      OBVIOUS
    <3>2. PICK p : p = ch[c].pack
      OBVIOUS
    <3>3. Held[c] = p /\ Held'[c] = p \cup {i}
      BY <1>2, <2>3, <3>1, <3>2, HeldNow, HeldThen
    <3> QED
      BY <2>3, <2>4, <3>3, HeldOthers
  <2>6. PICK J \in Things, n \in Maps : J = item' /\ n = map'
    BY DEF Known, Typed
  <2>7. LinkedIn(J, n, G, inside)
    <3>1. J[i].at = None /\ J[i].by = c /\ J[i].in = item[i].in /\ J[i].kind = item[i].kind
          /\ \A j \in Items \ {i} : J[j] = item[j]
      BY <2>1, <2>6
    <3>2. n[t].it = None /\ \A u \in Tiles \ {t} : n[u].it = map[u].it
      BY <2>2, <2>6
    <3> QED
      <4>1. PICK H \in Holdings : H = Held
        BY KnownHeld
      <4>2. /\ G[c] = H[c] \cup {i} /\ \A k \in Slots \ {c} : G[k] = H[k]
            /\ LinkedIn(item, map, H, inside)
        BY <2>5, <4>1 DEF Belong
      <4> QED
        <5>1. LinkedIn(item, map, H, inside) /\ map[t].it = i /\ item[i].kind = "thing"
          BY <1>2, <4>2
        <5>2. G[c] = H[c] \cup {i} /\ \A k \in Slots \ {c} : G[k] = H[k]
          BY <4>2
        <5>3. item \in Things /\ map \in Maps /\ inside \in Stores
          BY <1>0
        <5> HIDE <1>2
        <5> QED
          BY <3>1, <3>2, <5>1, <5>2, <5>3, LinkedTaken
  <2>8. i \notin ch[c].pack
    <3>1. item[i].at = t /\ t # None
      BY <1>2 DEF Belong, LinkedIn
    <3>2. i \notin Held[c]
      BY <3>1, HisOwn
    <3> QED
      BY <3>2, HeldIs
  <2>9. HandFree'
    BY <2>3, <2>8 DEF Belong, HandFree
  <2>10. inside' = inside
    BY DEF ActTake
  <2> QED
    BY <2>4, <2>6, <2>7, <2>9, <2>10 DEF Belong
<1>3. ch[c].act.goal \in Items
  BY <1>0 DEF ActTake, Acting, Folks, CharState, ActState, Aimed
<1>4. \/ ch' = [ch EXCEPT ![c].act = Idle] /\ UNCHANGED <<map, item>>
      \/ \E t \in Tiles, i \in Items :
           /\ map[t].it = i /\ item[i].kind = "thing"
           /\ ch[c].hand = None
           /\ map' = [map EXCEPT ![t].it = None]
           /\ item' = [item EXCEPT ![i].at = None, ![i].by = c]
           /\ ch' = [ch EXCEPT ![c].hand = i, ![c].act = Idle]
  BY <1>3 DEF ActTake, CanTake
<1> QED
  BY <1>1, <1>2, <1>4

LEMMA LinkedDrop ==
  ASSUME Known, Known', Belong, NEW c \in Slots, ActDrop(c)
  PROVE  Belong'
<1>0. map \in Maps /\ ch \in Folks /\ item \in Things /\ inside \in Stores
  BY DEF Known, Typed
<1>1. CASE ch' = [ch EXCEPT ![c].act = Idle] /\ UNCHANGED <<map, item>>
  <2>1. Quiet
    BY <1>1, SomeSame DEF ActDrop, Quiet
  <2> QED
    BY <2>1, LinkedQuiet
<1>2. ASSUME NEW t \in Tiles, NEW i \in Items, map[t].it = None, ch[c].hand = i,
             map' = [map EXCEPT ![t].it = i],
             item' = [item EXCEPT ![i].at = t, ![i].by = None, ![i].in = None, ![i].laid = @ + 1],
             ch' = [ch EXCEPT ![c].hand = None, ![c].act = Idle]
      PROVE  Belong'
  <2>1. /\ item'[i].at = t /\ item'[i].by = None /\ item'[i].in = None
        /\ item'[i].kind = item[i].kind /\ \A j \in Items \ {i} : item'[j] = item[j]
    BY <1>0, <1>2 DEF Things, ItemState
  <2>2. map'[t].it = i /\ \A u \in Tiles \ {t} : map'[u].it = map[u].it
    BY <1>0, <1>2 DEF Maps, TileState
  <2>3. ch'[c].hand = None /\ ch'[c].pack = ch[c].pack /\ \A k \in Slots \ {c} : ch'[k] = ch[k]
    BY <1>0, <1>2 DEF Folks, CharState
  <2>4. PICK G \in Holdings : G = Held'
    BY KnownHeldNext
  <2>5. i \in Held[c] /\ G[c] = Held[c] \ {i} /\ \A k \in Slots \ {c} : G[k] = Held[k]
    <3>1. i # None /\ i \notin ch[c].pack
      BY <1>2 DEF Belong, HandFree
    <3>2. PICK p : p = ch[c].pack
      OBVIOUS
    <3>3. Held[c] = p \cup {i} /\ Held'[c] = p
      BY <1>2, <2>3, <3>1, <3>2, HeldNow, HeldThen
    <3>4. Held'[c] = Held[c] \ {i} /\ i \in Held[c]
      BY <3>1, <3>2, <3>3
    <3> QED
      BY <2>3, <2>4, <3>4, HeldOthers
  <2>6. PICK J \in Things, n \in Maps : J = item' /\ n = map'
    BY DEF Known, Typed
  <2>7. LinkedIn(J, n, G, inside)
    <3>1. J[i].at = t /\ J[i].by = None /\ J[i].in = None /\ J[i].kind = item[i].kind
          /\ \A j \in Items \ {i} : J[j] = item[j]
      BY <2>1, <2>6
    <3>2. n[t].it = i /\ \A u \in Tiles \ {t} : n[u].it = map[u].it
      BY <2>2, <2>6
    <3> QED
      <4>1. PICK H \in Holdings : H = Held
        BY KnownHeld
      <4>2. /\ i \in H[c] /\ G[c] = H[c] \ {i} /\ \A k \in Slots \ {c} : G[k] = H[k]
            /\ LinkedIn(item, map, H, inside)
        BY <2>5, <4>1 DEF Belong
      <4> QED
        <5>1. item \in Things /\ map \in Maps /\ inside \in Stores /\ map[t].it = None
          BY <1>0, <1>2
        <5> HIDE <1>2
        <5> QED
          BY <3>1, <3>2, <4>2, <5>1, LinkedDropped
  <2>9. HandFree'
    BY <2>3, HandOf DEF Belong, HandFree
  <2>10. inside' = inside
    BY DEF ActDrop
  <2> QED
    BY <2>4, <2>6, <2>7, <2>9, <2>10 DEF Belong
<1>3. ch[c].act.goal \in Items
  BY <1>0 DEF ActDrop, Acting, Folks, CharState, ActState, Aimed
<1>4. \/ ch' = [ch EXCEPT ![c].act = Idle] /\ UNCHANGED <<map, item>>
      \/ \E t \in Tiles, i \in Items :
           /\ map[t].it = None /\ ch[c].hand = i
           /\ map' = [map EXCEPT ![t].it = i]
           /\ item' = [item EXCEPT ![i].at = t, ![i].by = None, ![i].in = None, ![i].laid = @ + 1]
           /\ ch' = [ch EXCEPT ![c].hand = None, ![c].act = Idle]
  BY <1>3 DEF ActDrop, Layable, HasItem
<1> QED
  BY <1>1, <1>2, <1>4

\* What is ahead is elsewhere.
LEMMA AheadElsewhere ==
  ASSUME NEW p \in Tiles, NEW d \in Dirs PROVE Step(p, d) # p
<1>1. p \in (1 .. Width) \X (1 .. Height) /\ d \in ({-1, 0, 1} \X {-1, 0, 1}) \ {<<0, 0>>}
  BY DEF Tiles, Dirs
<1>2. /\ p[1] \in Int /\ p[2] \in Int /\ d[1] \in Int /\ d[2] \in Int
      /\ (d[1] # 0 \/ d[2] # 0) /\ p = <<p[1], p[2]>>
  BY <1>1
<1> QED
  BY <1>2 DEF Step

\* Something comes into the hand, or the pack if the hand is full.
LEMMA GivenIs ==
  ASSUME Known, NEW c \in Slots, NEW i \in Items, i \notin ch[c].pack, ch[c].hand # i,
         ch[c].hand \notin ch[c].pack
  PROVE  /\ ({Given(c, i).hand} \ {None}) \cup Given(c, i).pack = Held[c] \cup {i}
         /\ Given(c, i).hand \notin Given(c, i).pack
<1>1. PICK h, p : h = ch[c].hand /\ p = ch[c].pack
  OBVIOUS
<1>2. i # None
  OBVIOUS
<1>3. ch[c] \in CharState
  BY DEF Known, Typed, Folks
<1>4. Given(c, i).hand = (IF h = None THEN i ELSE h)
      /\ Given(c, i).pack = (IF h = None THEN p ELSE p \cup {i})
  BY <1>1, <1>3 DEF Given, CharState
<1>5. Held[c] = IF h = None THEN p ELSE p \cup {h}
  BY <1>1, HeldNow
<1>6. CASE h = None
  BY <1>1, <1>2, <1>4, <1>5, <1>6
<1>7. CASE h # None
  BY <1>1, <1>2, <1>4, <1>5, <1>7
<1> QED
  BY <1>6, <1>7

LEMMA LinkedGive ==
  ASSUME Known, Known', Here, Belong, NEW c \in Slots, ActGive(c)
  PROVE  Belong'
<1>0. map \in Maps /\ ch \in Folks /\ item \in Things /\ inside \in Stores
  BY DEF Known, Typed
<1>1. CASE ch' = [ch EXCEPT ![c].act = Idle] /\ UNCHANGED item
  <2>1. Quiet
    BY <1>1, SomeSame DEF ActGive, Quiet
  <2> QED
    BY <2>1, LinkedQuiet
<1>2. ASSUME NEW k \in Slots, NEW i \in Items, k # c, ch[c].hand = i,
             item' = [item EXCEPT ![i].by = k],
             ch' = [ch EXCEPT ![k] = Given(k, i), ![c].hand = None, ![c].act = Idle]
      PROVE  Belong'
  <2>0. i # None /\ i \in Held[c] /\ i \notin ch[c].pack
    BY <1>2, HeldIs DEF Belong, HandFree
  <2>1. i \notin ch[k].pack /\ ch[k].hand # i /\ ch[k].hand \notin ch[k].pack
    <3>1. i \notin Held[k]
      BY <1>2, <2>0, HisOwn
    <3> QED
      BY <2>0, <3>1, HeldIs DEF Belong, HandFree
  <2>2. ch'[k] = Given(k, i) /\ \A j \in Slots \ {c, k} : ch'[j] = ch[j]
    BY <1>0, <1>2 DEF Folks
  <2>3. ch'[c].hand = None /\ ch'[c].pack = ch[c].pack
    BY <1>0, <1>2 DEF Folks, CharState
  <2>4. PICK G \in Holdings, H \in Holdings : G = Held' /\ H = Held
    BY KnownHeld, KnownHeldNext
  <2>5. G[c] = H[c] \ {i}
    <3>1. PICK p : p = ch[c].pack
      OBVIOUS
    <3>2. Held[c] = p \cup {i} /\ Held'[c] = p
      BY <1>2, <2>0, <2>3, <3>1, HeldNow, HeldThen
    <3> QED
      BY <2>0, <2>4, <3>1, <3>2
  <2>6. G[k] = H[k] \cup {i} /\ ch'[k].hand \notin ch'[k].pack
    <3>1. Held'[k] = Held[k] \cup {i}
      BY <2>1, <2>2, GivenIs, HeldIs
    <3> QED
      BY <2>1, <2>2, <2>4, <3>1, GivenIs
  <2>7. \A j \in Slots \ {c, k} : G[j] = H[j]
    BY <2>2, <2>4, HeldOthers
  <2>8. LinkedIn(item', map, G, inside)
    <3>1. PICK J \in Things : J = item'
      BY DEF Known
    <3>2. J = [item EXCEPT ![i].by = k] /\ LinkedIn(item, map, H, inside) /\ i \in H[c]
      BY <1>2, <2>0, <2>4, <3>1 DEF Belong
    <3>3. LinkedIn(J, map, G, inside)
      <4>1. k # c /\ G[c] = H[c] \ {i} /\ G[k] = H[k] \cup {i}
        BY <1>2, <2>5, <2>6
      <4>2. item \in Things /\ map \in Maps /\ inside \in Stores
        BY <1>0
      <4> HIDE <1>2
      <4> QED
        BY <2>7, <3>2, <4>1, <4>2, LinkedGiven
    <3> QED
      BY <3>1, <3>3
  <2>9. HandFree'
    BY <2>2, <2>3, <2>6, HandOf DEF Belong, HandFree
  <2> QED
    BY <2>4, <2>8, <2>9 DEF ActGive, Belong
<1>3. /\ ch[c].act.goal \in Slots /\ ch[c].act.dir \in Dirs /\ Used(c)
      /\ ch[c].hand \in Opt(Items)
  BY <1>0 DEF ActGive, Acting, Folks, CharState, ActState, Aimed
<1>4. ASSUME Ahead(c, ch[c].act.dir) \in Tiles, map[Ahead(c, ch[c].act.dir)].ch = ch[c].act.goal
      PROVE  ch[c].act.goal # c
  <2>1. ch[c].at \in Tiles
    BY <1>3 DEF Here, PlacedIn, Used
  <2>2. Ahead(c, ch[c].act.dir) # ch[c].at
    BY <1>3, <2>1, AheadElsewhere DEF Ahead
  <2>3. ch[ch[c].act.goal].at = Ahead(c, ch[c].act.dir)
    BY <1>3, <1>4 DEF Here, PlacedIn
  <2> QED
    BY <2>2, <2>3
<1>5. \/ ch' = [ch EXCEPT ![c].act = Idle] /\ UNCHANGED item
      \/ /\ Ahead(c, ch[c].act.dir) \in Tiles
         /\ map[Ahead(c, ch[c].act.dir)].ch = ch[c].act.goal
         /\ ch[c].hand # None
         /\ item' = [item EXCEPT ![ch[c].hand].by = ch[c].act.goal]
         /\ ch' = [ch EXCEPT ![ch[c].act.goal] = Given(ch[c].act.goal, ch[c].hand),
                             ![c].hand = None, ![c].act = Idle]
  BY DEF ActGive
<1>6. \/ ch' = [ch EXCEPT ![c].act = Idle] /\ UNCHANGED item
      \/ \E k \in Slots, i \in Items :
           /\ k # c /\ ch[c].hand = i
           /\ item' = [item EXCEPT ![i].by = k]
           /\ ch' = [ch EXCEPT ![k] = Given(k, i), ![c].hand = None, ![c].act = Idle]
  BY <1>3, <1>4, <1>5 DEF Opt
<1> QED
  BY <1>1, <1>2, <1>6

LEMMA LinkedCreate ==
  ASSUME Known, Known', Belong, NEW c \in Slots, NEW i \in Items, Create(c, i)
  PROVE  Belong'
<1>0. map \in Maps /\ ch \in Folks /\ item \in Things /\ inside \in Stores
  BY DEF Known, Typed
<1>1. /\ item[i].kind = "none" /\ UNCHANGED <<map, inside>>
      /\ item' = [item EXCEPT ![i] = [Unused EXCEPT !.kind = "thing", !.serial = born + 1, !.by = c]]
      /\ ch' = [ch EXCEPT ![c] = Given(c, i)]
  BY DEF Create
<1>2. i \notin ch[c].pack /\ ch[c].hand # i /\ ch[c].hand \notin ch[c].pack
  <2>1. i \notin Held[c]
    BY <1>1, HisOwn
  <2> QED
    BY <2>1, HeldIs DEF Belong, HandFree
<1>3. ch'[c] = Given(c, i) /\ \A k \in Slots \ {c} : ch'[k] = ch[k]
  BY <1>0, <1>1 DEF Folks
<1>4. PICK G \in Holdings, H \in Holdings : G = Held' /\ H = Held
  BY KnownHeld, KnownHeldNext
<1>5. G[c] = H[c] \cup {i} /\ ch'[c].hand \notin ch'[c].pack
  <2>1. Held'[c] = Held[c] \cup {i}
    BY <1>2, <1>3, GivenIs, HeldIs
  <2> QED
    BY <1>2, <1>3, <1>4, <2>1, GivenIs
<1>6. \A k \in Slots \ {c} : G[k] = H[k]
  BY <1>3, <1>4, HeldOthers
<1>7. PICK J \in Things : J = item'
  BY DEF Known
<1>8. J[i].at = None /\ J[i].by = c /\ J[i].in = None /\ J[i].kind = "thing"
      /\ \A j \in Items \ {i} : J[j] = item[j]
  BY <1>0, <1>1, <1>7 DEF Things, Unused
<1>9. LinkedIn(J, map, G, inside)
  <2>1. LinkedIn(item, map, H, inside)
    BY <1>4 DEF Belong
  <2> QED
    BY <1>0, <1>1, <1>5, <1>6, <1>8, <2>1, LinkedMade
<1>10. HandFree'
  BY <1>3, <1>5 DEF Belong, HandFree
<1> QED
  BY <1>1, <1>4, <1>7, <1>9, <1>10 DEF Belong

LEMMA LinkedContainer ==
  ASSUME Known, Known', Belong, NEW c \in Slots, NEW d \in Dirs, NEW x \in Opt(Items),
         Container(c, d, x)
  PROVE  Belong'
<1>0. map \in Maps /\ ch \in Folks /\ item \in Things /\ inside \in Stores
  BY DEF Known, Typed
<1>1. PICK h \in Opt(Items), b \in Items :
        /\ h = ch[c].hand /\ item[b].kind = "body" /\ x \in Opt(inside[b]) /\ x # h
        /\ ch' = [ch EXCEPT ![c].hand = x]
        /\ inside' = [inside EXCEPT ![b] = (@ \cup {h}) \ {x, None}]
        /\ item' = [i \in Items |->
                      IF i = x THEN [item[i] EXCEPT !.by = c, !.in = None]
                      ELSE IF i = h THEN [item[i] EXCEPT !.by = None, !.in = b]
                      ELSE item[i]]
  <2>1. ch[c].hand \in Opt(Items)
    BY HandOf
  <2>2. Ahead(c, d) \in Tiles /\ map[Ahead(c, d)].it # None
    BY DEF Container
  <2>3. map[Ahead(c, d)].it \in Items
    BY <1>0, <2>2 DEF Maps, TileState, Opt
  <2> QED
    BY <2>1, <2>3 DEF Container
<1>2. ch'[c].hand = x /\ ch'[c].pack = ch[c].pack /\ \A k \in Slots \ {c} : ch'[k] = ch[k]
  BY <1>0, <1>1 DEF Folks, CharState
<1>3. PICK G \in Holdings, H \in Holdings : G = Held' /\ H = Held
  BY KnownHeld, KnownHeldNext
<1>4. h \in Opt(H[c]) /\ G[c] = (H[c] \ {h}) \cup ({x} \ {None})
  <2>1. PICK p : p = ch[c].pack
    OBVIOUS
  <2>2. H[c] = IF h = None THEN p ELSE p \cup {h}
    BY <1>1, <1>3, <2>1, HeldNow
  <2>3. G[c] = IF x = None THEN p ELSE p \cup {x}
    BY <1>2, <1>3, <2>1, HeldThen
  <2>4. h \notin p /\ None \notin p
    BY <1>1, <2>1, HandOf DEF Belong, HandFree
  <2> QED
    BY <2>2, <2>3, <2>4 DEF Opt
<1>5. \A k \in Slots \ {c} : G[k] = H[k]
  BY <1>2, <1>3, HeldOthers
<1>6. PICK J \in Things, T \in Stores : J = item' /\ T = inside'
  BY DEF Known
<1>7. T[b] = (inside[b] \cup {h}) \ {x, None} /\ \A j \in Items \ {b} : T[j] = inside[j]
  BY <1>0, <1>1, <1>6 DEF Stores
<1>8. Exchanged(item, J, c, b, x, h)
  <2>1. ASSUME NEW i \in Items
        PROVE  /\ J[i].kind = item[i].kind /\ J[i].at = item[i].at
               /\ i = x => J[i].by = c /\ J[i].in = None
               /\ i = h => J[i].by = None /\ J[i].in = b
               /\ i # x /\ i # h => J[i] = item[i]
    <3>1. J[i] = IF i = x THEN [item[i] EXCEPT !.by = c, !.in = None]
                 ELSE IF i = h THEN [item[i] EXCEPT !.by = None, !.in = b]
                 ELSE item[i]
      BY <1>1, <1>6
    <3>2. item[i] \in ItemState /\ x # h
      BY <1>0, <1>1 DEF Things
    <3> HIDE <1>1
    <3> QED
      BY <3>1, <3>2 DEF ItemState
  <2> QED
    BY <2>1 DEF Exchanged
<1>9. LinkedIn(J, map, G, T)
  <2>1. LinkedIn(item, map, H, inside)
    BY <1>3 DEF Belong
  <2>2. item[b].kind = "body" /\ x \in Opt(inside[b]) /\ x # h
    BY <1>1
  <2>3. map \in Maps /\ item \in Things /\ inside \in Stores
    BY <1>0
  <2> HIDE <1>1
  <2> QED
    BY <1>4, <1>5, <1>7, <1>8, <2>1, <2>2, <2>3, LinkedExchanged
<1>10. x \notin ch[c].pack
  <2>1. CASE x = None
    BY <2>1, HandOf
  <2>2. CASE x # None
    <3>1. ItemLinked(item, map, Held, inside, b) /\ x \in inside[b] /\ b # None
      BY <1>1, <2>2 DEF Belong, LinkedIn, Opt
    <3>2. item[x].in = b
      BY <3>1 DEF ItemLinked
    <3>3. x \notin Held[c]
      BY <3>1, <3>2, HisOwn
    <3> QED
      BY <3>3, HeldIs
  <2> QED
    BY <2>1, <2>2
<1>11. HandFree'
  BY <1>2, <1>10 DEF Belong, HandFree
<1> QED
  BY <1>3, <1>6, <1>9, <1>11 DEF Container, Belong

LEMMA LinkedVanish ==
  ASSUME Known, Known', Belong, NEW i \in Items, item[i].at \in Tiles, Vanish(i), ch' = ch
  PROVE  Belong'
<1>0. map \in Maps /\ item \in Things /\ inside \in Stores /\ Held \in Holdings
  BY KnownHeld DEF Known, Typed
<1>1. PICK t \in Tiles : t = item[i].at
  OBVIOUS
<1>2. PICK J \in Things, n \in Maps, T \in Stores : J = item' /\ n = map' /\ T = inside'
  BY DEF Known, Typed
<1>3. n[t].it = None /\ \A u \in Tiles \ {t} : n[u].it = map[u].it
  <2>1. n = [map EXCEPT ![t].it = None]
    BY <1>1, <1>2 DEF Vanish
  <2> QED
    BY <1>0, <2>1 DEF Maps, TileState
<1>4. T[i] = {} /\ \A j \in Items \ {i} : T[j] = inside[j]
  BY <1>0, <1>2 DEF Vanish, Stores
<1>5. J = Free(item, {i} \cup inside[i])
  BY <1>2 DEF Vanish
<1>6. LinkedIn(J, n, Held, T)
  <2>1. LinkedIn(item, map, Held, inside) /\ item[i].at = t
    BY <1>1 DEF Belong
  <2> QED
    BY <1>0, <1>3, <1>4, <1>5, <2>1, LinkedVanished
<1>7. Held' = Held /\ HandFree'
  BY DEF Held, Carried, Belong, HandFree
<1> QED
  BY <1>2, <1>6, <1>7 DEF Belong

LEMMA LinkedExpire ==
  ASSUME Known, Known', timers \subseteq Timer, Belong, NEW tm \in timers
  PROVE  /\ ExpireTimer(tm) => Belong'
         /\ ExpireTimerBody(tm) => Belong'
<1>0. map \in Maps /\ item \in Things /\ inside \in Stores
  BY DEF Known, Typed
<1>1. tm.it \in Items /\ (Same(tm) => item[tm.it].kind # "none" /\ item[tm.it].at \in Tiles)
  BY DEF Timer, Same
<1>2. ASSUME UNCHANGED <<map, item, inside, ch>> PROVE Belong'
  BY <1>2, LinkedQuiet DEF Quiet
<1>3. ASSUME ExpireTimer(tm) PROVE Belong'
  <2>1. \/ UNCHANGED <<map, item, inside, ch>>
        \/ Same(tm) /\ Vanish(tm.it) /\ ch' = ch
    BY <1>3 DEF ExpireTimer, ThisLaying
  <2> QED
    BY <1>1, <1>2, <2>1, LinkedVanish
<1>4. ASSUME ExpireTimerBody(tm) PROVE Belong'
  <2>1. \/ UNCHANGED <<map, item, inside, ch>>
        \/ Same(tm) /\ Vanish(tm.it) /\ ch' = ch
        \/ /\ Same(tm) /\ item' = [item EXCEPT ![tm.it].left = @ - 1]
           /\ UNCHANGED <<map, inside, ch>>
    BY <1>4 DEF ExpireTimerBody
  <2>2. ASSUME Same(tm), item' = [item EXCEPT ![tm.it].left = @ - 1], UNCHANGED <<map, inside, ch>>
        PROVE  Belong'
    <3>1. PICK J \in Things, i \in Items : J = item' /\ i = tm.it
      BY <1>1 DEF Known
    <3>2. J = [item EXCEPT ![i].left = @ - 1]
      BY <2>2, <3>1
    <3>3. /\ J[i].kind = item[i].kind /\ J[i].at = item[i].at /\ J[i].by = item[i].by
          /\ J[i].in = item[i].in /\ \A j \in Items \ {i} : J[j] = item[j]
      BY <1>0, <3>2 DEF Things, ItemState
    <3>4. LinkedIn(J, map, Held, inside)
      <4>1. item[i].kind # "none" /\ LinkedIn(item, map, Held, inside) /\ Held \in Holdings
        BY <1>1, <2>2, <3>1, KnownHeld DEF Belong
      <4>2. map \in Maps /\ item \in Things /\ inside \in Stores
        BY <1>0
      <4> HIDE <1>1, <2>2
      <4> QED
        BY <3>3, <4>1, <4>2, LinkedAged
    <3>5. Held' = Held /\ HandFree'
      BY <2>2 DEF Held, Carried, Belong, HandFree
    <3> QED
      BY <2>2, <3>1, <3>4, <3>5 DEF Belong
  <2> QED
    BY <1>1, <1>2, <2>1, <2>2, LinkedVanish
<1> QED
  BY <1>3, <1>4

LEMMA LinkedBody ==
  ASSUME Known, Known', Belong, NEW c \in Slots, NEW b \in Items, NEW t \in Tiles,
         map[t].it = None, NEW kept, kept \subseteq Carried(c), NEW gone, gone \subseteq kept,
         NEW kind \in Bodies, kind = "body" \/ kept = Carried(c), Body(c, b, t, kind, kept, gone),
         ch'[c].hand = None, ch'[c].pack = kept \ gone, \A k \in Slots \ {c} : ch'[k] = ch[k],
         map'[t].it = b, \A u \in Tiles \ {t} : map'[u].it = map[u].it
  PROVE  Belong'
<1>0. map \in Maps /\ item \in Things /\ inside \in Stores /\ item[b].kind = "none"
  BY DEF Known, Typed, Body
<1>1. PICK G \in Holdings, H \in Holdings : G = Held' /\ H = Held
  BY KnownHeld, KnownHeldNext
<1>2. PICK J \in Things, n \in Maps, T \in Stores : J = item' /\ n = map' /\ T = inside'
  BY DEF Known, Typed
<1>3. PICK put : put = H[c] \ kept
  OBVIOUS
<1>4. kept \subseteq H[c] /\ (put = {} \/ kind = "body")
  BY <1>1, <1>3 DEF Held
<1>5. put \subseteq H[c] /\ gone \subseteq H[c] \ put /\ G[c] = (H[c] \ put) \ gone
  <2>1. G[c] = kept \ gone
    BY <1>1, HeldThen
  <2> QED
    BY <1>3, <1>4, <2>1
<1>6. \A k \in Slots \ {c} : G[k] = H[k]
  BY <1>1, HeldOthers
<1>7. put = Carried(c) \ kept
  BY <1>1, <1>3 DEF Held
<1>8. T[b] = put /\ \A j \in Items \ {b} : T[j] = inside[j]
  BY <1>0, <1>2, <1>7 DEF Body, Stores
<1>9. n[t].it = b /\ \A u \in Tiles \ {t} : n[u].it = map[u].it
  BY <1>2
<1>10. \A i \in Items :
         J[i] = IF i = b
                THEN [Unused EXCEPT !.kind = kind, !.serial = born + 1, !.at = t, !.left = BodyTime]
                ELSE IF i \in gone THEN Unused
                ELSE IF i \in put THEN [item[i] EXCEPT !.by = None, !.in = b]
                ELSE item[i]
  BY <1>2, <1>7 DEF Body
<1>11. J[b].kind = kind /\ J[b].at = t /\ J[b].by = None /\ J[b].in = None
  <2>1. J[b] = [Unused EXCEPT !.kind = kind, !.serial = born + 1, !.at = t, !.left = BodyTime]
    BY <1>10
  <2> QED
    BY <2>1 DEF Unused
<1>12. Parted(item, J, b, put, gone)
  <2>1. ASSUME NEW i \in Items \ {b}
        PROVE  /\ i \in gone => J[i] = Unused
               /\ i \in put => /\ J[i].by = None /\ J[i].in = b
                               /\ J[i].kind = item[i].kind /\ J[i].at = item[i].at
               /\ i \notin gone /\ i \notin put => J[i] = item[i]
    <3>1. item[i] \in ItemState /\ (i \in put => i \notin gone)
      BY <1>0, <1>3 DEF Things
    <3> QED
      BY <1>10, <3>1 DEF ItemState
  <2> QED
    BY <2>1 DEF Parted
<1>13. LinkedIn(J, n, G, T)
  <2>1. LinkedIn(item, map, H, inside)
    BY <1>1 DEF Belong
  <2> QED
    BY <1>0, <1>4, <1>5, <1>6, <1>8, <1>9, <1>11, <1>12, <2>1, LinkedBuried
<1>14. HandFree'
  <2>1. None \notin kept
    BY <1>4 DEF Holdings
  <2> QED
    BY <2>1, HandOf DEF Belong, HandFree
<1> QED
  BY <1>1, <1>2, <1>13, <1>14 DEF Belong

LEMMA LinkedDie ==
  ASSUME Known, Known', Belong, NEW c \in Slots, ActDie(c)
  PROVE  Belong'
<1>0. map \in Maps /\ ch \in Folks
  BY DEF Known, Typed
<1>1. PICK m \in Maps : m = RemoveChar(map, c) /\ \A t \in Tiles : m[t].it = map[t].it
  BY <1>0, OffKeeps
<1>2. ASSUME NEW u, NEW n \in Maps, NEW kept \in SUBSET Items, Revive(c, n, u, kept)
      PROVE  /\ ch'[c].hand = None /\ ch'[c].pack = kept /\ \A k \in Slots \ {c} : ch'[k] = ch[k]
             /\ \A t \in Tiles : map'[t].it = n[t].it
  <2>1. ch'[c] = [Absent EXCEPT !.kind = "player", !.at = u, !.pack = kept]
        /\ \A k \in Slots \ {c} : ch'[k] = ch[k]
    BY <1>0, <1>2 DEF Revive, Folks
  <2>2. map' = SetChar(n, c, u)
    BY <1>2 DEF Revive
  <2>3. \A t \in Tiles : map'[t].it = n[t].it
    BY <2>2, OnKeeps
  <2> QED
    BY <2>1, <2>3 DEF Absent
<1>3. ASSUME NEW n \in Maps, Depart(c, n)
      PROVE  /\ ch'[c].hand = None /\ ch'[c].pack = {} /\ \A k \in Slots \ {c} : ch'[k] = ch[k]
             /\ \A t \in Tiles : map'[t].it = n[t].it
  BY <1>0, <1>3 DEF Depart, Folks, Absent
<1>4. CASE Bodiless(c) /\ (Depart(c, m) \/ \E u \in Tiles : Revive(c, m, u, {}))
  <2>1. /\ ch'[c].hand = None /\ ch'[c].pack = {} /\ \A k \in Slots \ {c} : ch'[k] = ch[k]
        /\ \A t \in Tiles : map'[t].it = map[t].it
    <3>1. CASE Depart(c, m)
      BY <1>1, <1>3, <3>1
    <3>2. ASSUME NEW u \in Tiles, Revive(c, m, u, {}) 
          PROVE  /\ ch'[c].hand = None /\ ch'[c].pack = {} /\ \A k \in Slots \ {c} : ch'[k] = ch[k]
                 /\ \A t \in Tiles : map'[t].it = map[t].it
      <4>1. {} \in SUBSET Items
        OBVIOUS
      <4>2. /\ ch'[c].hand = None /\ ch'[c].pack = {} /\ \A k \in Slots \ {c} : ch'[k] = ch[k]
            /\ \A t \in Tiles : map'[t].it = m[t].it
        BY <1>2, <3>2, <4>1
      <4> QED
        BY <1>1, <4>2
    <3> QED
      BY <1>4, <3>1, <3>2
  <2>2. Held'[c] = {} /\ item' = Free(item, Held[c]) /\ inside' = inside
    BY <1>4, <2>1, HeldThen DEF Bodiless, Held
  <2> QED
    BY <2>1, <2>2, LinkedLoses
<1>5. ASSUME NEW b \in Items, NEW t \in Layable(m),
             NEW kept \in SUBSET (IF IsPlayer(c) THEN ch[c].pack ELSE {}),
             \/ /\ Body(c, b, t, "body", kept, {})
                /\ \E u \in Tiles : Revive(c, [m EXCEPT ![t].it = b], u, kept)
             \/ Body(c, b, t, "body", kept, kept) /\ Depart(c, [m EXCEPT ![t].it = b])
             \/ /\ Husk(c, b, t)
                /\ \/ Depart(c, [m EXCEPT ![t].it = b])
                   \/ \E u \in Tiles : Revive(c, [m EXCEPT ![t].it = b], u, {})
      PROVE  Belong'
  <2>1. /\ kept \subseteq ch[c].pack /\ kept \subseteq Carried(c)
        /\ t \in Tiles /\ map[t].it = None /\ "body" \in Bodies /\ "husk" \in Bodies
    BY <1>1 DEF Layable, HasItem, Carried, Bodies
  <2>2. PICK n \in Maps : /\ n = [m EXCEPT ![t].it = b]
                          /\ n[t].it = b /\ \A u \in Tiles \ {t} : n[u].it = map[u].it
    <3>1. [m EXCEPT ![t].it = b] \in Maps
      BY <2>1 DEF Maps, TileState, Opt
    <3> QED
      BY <1>1, <2>1, <3>1 DEF Maps, TileState
  <2>3. CASE Body(c, b, t, "body", kept, {}) /\ \E u \in Tiles : Revive(c, n, u, kept)
    <3>1. kept \in SUBSET Items
      BY <2>1, HandOf
    <3>2. PICK u \in Tiles : Revive(c, n, u, kept)
      BY <2>3
    <3>3. /\ ch'[c].hand = None /\ ch'[c].pack = kept /\ \A k \in Slots \ {c} : ch'[k] = ch[k]
          /\ \A v \in Tiles : map'[v].it = n[v].it
      BY <1>2, <3>1, <3>2
    <3>4. kept \ {} = kept
      OBVIOUS
    <3> QED
      BY <2>1, <2>2, <2>3, <3>3, <3>4, LinkedBody
  <2>4. CASE Body(c, b, t, "body", kept, kept) /\ Depart(c, n)
    <3>1. /\ ch'[c].hand = None /\ ch'[c].pack = kept \ kept /\ \A k \in Slots \ {c} : ch'[k] = ch[k]
          /\ \A u \in Tiles : map'[u].it = n[u].it
      BY <1>3, <2>4
    <3> QED
      BY <2>1, <2>2, <2>4, <3>1, LinkedBody
  <2>5. CASE Husk(c, b, t) /\ (Depart(c, n) \/ \E u \in Tiles : Revive(c, n, u, {}))
    <3>1. /\ ch'[c].hand = None /\ ch'[c].pack = {} /\ \A k \in Slots \ {c} : ch'[k] = ch[k]
          /\ \A u \in Tiles : map'[u].it = n[u].it
      <4>1. {} \in SUBSET Items
        OBVIOUS
      <4> QED
        BY <1>2, <1>3, <2>5, <4>1
    <3>2. Body(c, b, t, "husk", Carried(c), Carried(c))
      BY <2>5 DEF Husk
    <3>3. Carried(c) \ Carried(c) = {}
      OBVIOUS
    <3> QED
      BY <2>1, <2>2, <3>1, <3>2, <3>3, LinkedBody
  <2> QED
    BY <1>5, <2>2, <2>3, <2>4, <2>5
<1>6. \/ Bodiless(c) /\ (Depart(c, m) \/ \E u \in Tiles : Revive(c, m, u, {}))
      \/ \E b \in Items, t \in Layable(m) :
           \E kept \in SUBSET (IF IsPlayer(c) THEN ch[c].pack ELSE {}) :
             \/ /\ Body(c, b, t, "body", kept, {})
                /\ \E u \in Tiles : Revive(c, [m EXCEPT ![t].it = b], u, kept)
             \/ Body(c, b, t, "body", kept, kept) /\ Depart(c, [m EXCEPT ![t].it = b])
             \/ /\ Husk(c, b, t)
                /\ \/ Depart(c, [m EXCEPT ![t].it = b])
                   \/ \E u \in Tiles : Revive(c, [m EXCEPT ![t].it = b], u, {})
  <2>1. {} \in SUBSET (IF IsPlayer(c) THEN ch[c].pack ELSE {})
    OBVIOUS
  <2> QED
    BY <1>1, <2>1 DEF ActDie
<1> QED
  BY <1>4, <1>5, <1>6

LEMMA InitLinked == Init => Belong
<1> SUFFICES ASSUME Init PROVE Belong
  OBVIOUS
<1>1. \A i \in Items : item[i] = Unused /\ inside[i] = {}
  BY DEF Init
<1>2. \A t \in Tiles : map[t].it = None
  BY DEF Init
<1>3. \A c \in Slots : ch[c].hand = None /\ ch[c].pack = {}
  BY DEF Init, Absent
<1>4. \A c \in Slots : Held[c] = {}
  BY <1>3, HeldIs
<1> QED
  BY <1>1, <1>2, <1>3, <1>4 DEF Belong, LinkedIn, ItemLinked, HandFree, Unused, Bodies

LEMMA LinkedStep == TypeOK /\ TypeOK' /\ Here /\ Belong /\ [Next]_vars => Belong'
<1> SUFFICES ASSUME TypeOK, TypeOK', Here, Belong, [Next]_vars PROVE Belong'
  OBVIOUS
<1>0. Known /\ Known' /\ timers \subseteq Timer
  <2>1. Known'
    BY DEF Known, Typed, TypeOK, Maps, Folks, Things, Stores
  <2> QED
    BY <2>1, KnownIs DEF TypeOK
<1>1. ASSUME NEW c \in Slots, NextUsed(c) PROVE Belong'
  <2>1. CASE NextIdle(c)
    <3>1. PICK d \in Dirs : \/ CharSwap(c, d) \/ DoWalk(c, d) \/ DoTake(c, d)
                            \/ DoDrop(c, d) \/ DoGive(c, d) \/ DoUse(c, d)
                            \/ \E x \in Opt(Items) : Container(c, d, x)
      BY <2>1, TowardDirs DEF NextIdle
    <3> QED
      BY <1>0, <3>1, QuietMoves, QuietBegins, LinkedQuiet, LinkedContainer
  <2>2. CASE \/ Leave(c) \/ Kill(c) \/ \E t \in Tiles : Teleport(c, t)
             \/ ActWalk(c) \/ ActUse(c)
    BY <1>0, <2>2, QuietMoves, QuietBegins, LinkedQuiet, LinkedGoes
  <2>3. CASE ActTake(c) \/ ActDrop(c) \/ ActGive(c) \/ ActDie(c)
    BY <1>0, <2>3, LinkedTake, LinkedDrop, LinkedGive, LinkedDie
  <2>4. CASE \/ \E x \in Opt(Items) : Stow(c, x)
             \/ \E i \in Items : Create(c, i) \/ Destroy(c, i)
    BY <1>0, <2>4, LinkedStow, LinkedCreate, LinkedGoes
  <2> QED
    BY <1>1, <2>1, <2>2, <2>3, <2>4 DEF NextUsed
<1>2. CASE UNCHANGED vars
  BY <1>0, <1>2, LinkedQuiet DEF vars, Quiet
<1>3. ASSUME NEW c \in Slots, NEW kind \in Kinds, NEW t \in Tiles, Enter(c, kind, t)
      PROVE  Belong'
  BY <1>0, <1>3, QuietMoves, LinkedQuiet
<1>4. ASSUME NEW tm \in timers, ExpireTimer(tm) \/ ExpireTimerBody(tm) PROVE Belong'
  BY <1>0, <1>4, LinkedExpire
<1>5. ASSUME NEW t \in Doors, DoorTimer(t) PROVE Belong'
  BY <1>0, <1>5, QuietDoor, LinkedQuiet
<1> QED
  BY <1>1, <1>2, <1>3, <1>4, <1>5 DEF Next

\* Every item is in exactly one place, and it and the place know each other:
\* nothing is lost, doubled or shared, for any number of characters who reach
\* for it, give it away, die with it or leave in whatever order.
THEOREM ThingsLinked == Spec => []Linked
<1>1. Init => TypeOK /\ Here /\ Belong
  BY InitType, InitPlaced, InitLinked
<1>2. TypeOK /\ Here /\ Belong /\ [Next]_vars => (TypeOK /\ Here /\ Belong)'
  BY TypeStep, PlacedStep, LinkedStep
<1>3. TypeOK /\ Belong => Linked
  BY LinkedIsIn DEF Belong
<1> QED
  BY <1>1, <1>2, <1>3, PTL DEF Spec

-----------------------------------------------------------------------------
(* Of any items I, timers T and number n of items ever made *)

\* tm was set for what item i is now
For(tm, I, i) == tm.it = i /\ tm.serial = I[i].serial

\* the timer of the last laying down of i
Running(tm, I, i) ==
  /\ For(tm, I, i)
  /\ tm.at = I[i].at /\ tm.laid = I[i].laid /\ tm.body = (I[i].kind \in Bodies)

TimedItem(I, T, n, i) ==
  /\ I[i].kind # "none" => I[i].serial \in 1 .. n
  /\ I[i].kind \in Bodies => I[i].laid = 0
  /\ I[i].at # None => I[i].kind # "none" /\ \E tm \in T : Running(tm, I, i)

TimedTimer(I, T, n, tm) ==
  /\ tm.serial <= n
  /\ IF tm.body THEN tm.laid = 0 ELSE tm.laid >= 1
  /\ \A i \in Items : For(tm, I, i) /\ I[i].kind # "none" =>
       tm.laid <= I[i].laid /\ tm.body = (I[i].kind \in Bodies)
  /\ \A o \in T : o.it = tm.it /\ o.serial = tm.serial /\ o.laid = tm.laid => o = tm

Timed(I, T, n) ==
  /\ \A i \in Items : TimedItem(I, T, n, i)
  /\ \A tm \in T : TimedTimer(I, T, n, tm)

\* Each item goes, or is what it was, and is picked up or stays.
FadesTo(I, J, i) ==
  \/ J[i].kind = "none" /\ J[i].at = None
  \/ /\ J[i].kind = I[i].kind /\ J[i].serial = I[i].serial /\ J[i].laid = I[i].laid
     /\ J[i].at \in {I[i].at, None}
Fades(I, J) == \A i \in Items : FadesTo(I, J, i)

LEMMA TimedFades ==
  ASSUME NEW I \in Things, NEW T \in SUBSET Timer, NEW n \in Nat, Timed(I, T, n),
         NEW J \in Things, Fades(I, J)
  PROVE  Timed(J, T, n)
<1>1. ASSUME NEW i \in Items PROVE TimedItem(J, T, n, i)
  <2>1. TimedItem(I, T, n, i) /\ FadesTo(I, J, i)
    BY DEF Timed, Fades
  <2> QED
    BY <2>1 DEF TimedItem, FadesTo, Running, For, Bodies
<1>2. ASSUME NEW tm \in T PROVE TimedTimer(J, T, n, tm)
  <2>1. TimedTimer(I, T, n, tm)
    BY DEF Timed
  <2>2. ASSUME NEW i \in Items, For(tm, J, i), J[i].kind # "none"
        PROVE  tm.laid <= J[i].laid /\ tm.body = (J[i].kind \in Bodies)
    <3>1. J[i].kind = I[i].kind /\ J[i].serial = I[i].serial /\ J[i].laid = I[i].laid
      BY <2>2 DEF Fades, FadesTo
    <3> QED
      BY <2>1, <2>2, <3>1 DEF TimedTimer, For
  <2> QED
    BY <2>1, <2>2 DEF TimedTimer
<1> QED
  BY <1>1, <1>2 DEF Timed

\* Something is made that does not lie anywhere.
LEMMA TimedMade ==
  ASSUME NEW I \in Things, NEW T \in SUBSET Timer, NEW n \in Nat, Timed(I, T, n),
         NEW i \in Items,
         NEW J \in Things, J[i].kind = "thing", J[i].serial = n + 1, J[i].at = None,
         \A j \in Items \ {i} : J[j] = I[j]
  PROVE  Timed(J, T, n + 1)
<1>1. ASSUME NEW j \in Items PROVE TimedItem(J, T, n + 1, j)
  <2>1. TimedItem(I, T, n, j)
    BY DEF Timed
  <2>2. CASE j = i
    BY <2>2 DEF TimedItem, Bodies
  <2>3. CASE j # i
    <3>1. J[j] = I[j]
      BY <2>3
    <3> QED
      BY <2>1, <3>1 DEF TimedItem, Running, For
  <2> QED
    BY <2>2, <2>3
<1>2. ASSUME NEW tm \in T PROVE TimedTimer(J, T, n + 1, tm)
  <2>1. TimedTimer(I, T, n, tm) /\ tm.serial \in Nat
    BY DEF Timed, Timer
  <2>2. ASSUME NEW j \in Items, For(tm, J, j), J[j].kind # "none"
        PROVE  tm.laid <= J[j].laid /\ tm.body = (J[j].kind \in Bodies)
    <3>1. j # i
      BY <2>1, <2>2 DEF TimedTimer, For
    <3>2. J[j] = I[j]
      BY <3>1
    <3> QED
      BY <2>1, <2>2, <3>2 DEF TimedTimer, For
  <2> QED
    BY <2>1, <2>2 DEF TimedTimer
<1> QED
  BY <1>1, <1>2 DEF Timed

\* Something is laid down, and a timer set.
LEMMA TimedLaid ==
  ASSUME NEW I \in Things, NEW T \in SUBSET Timer, NEW n \in Nat, Timed(I, T, n),
         NEW i \in Items, NEW N \in Nat, N >= n, NEW tm \in Timer,
         NEW J \in Things, J[i].kind # "none", J[i].serial \in 1 .. N,
         J[i].kind \in Bodies => J[i].laid = 0,
         Running(tm, J, i),
         IF tm.body THEN tm.laid = 0 ELSE tm.laid >= 1,
         \A o \in T : For(o, J, i) => o.laid < J[i].laid /\ o.body = (J[i].kind \in Bodies),
         \A j \in Items \ {i} : J[j] = I[j]
  PROVE  Timed(J, T \cup {tm}, N)
<1>0. tm.it = i /\ tm.serial = J[i].serial /\ tm.laid = J[i].laid /\ tm.body = (J[i].kind \in Bodies)
  BY DEF Running, For
<1>1. ASSUME NEW j \in Items PROVE TimedItem(J, T \cup {tm}, N, j)
  <2>1. TimedItem(I, T, n, j)
    BY DEF Timed
  <2>2. CASE j = i
    BY <2>2 DEF TimedItem
  <2>3. CASE j # i
    <3>1. J[j] = I[j] /\ J[j].serial \in Nat
      BY <2>3 DEF Things, ItemState
    <3> QED
      BY <2>1, <3>1 DEF TimedItem, Running, For
  <2> QED
    BY <2>2, <2>3
<1>2. ASSUME NEW o \in T PROVE TimedTimer(J, T \cup {tm}, N, o)
  <2>1. TimedTimer(I, T, n, o) /\ o.serial \in Nat /\ o.laid \in Nat
    BY DEF Timed, Timer
  <2>2. ASSUME NEW j \in Items, For(o, J, j), J[j].kind # "none"
        PROVE  o.laid <= J[j].laid /\ o.body = (J[j].kind \in Bodies)
    <3>1. CASE j = i
      <4>1. o.laid < J[i].laid /\ o.body = (J[i].kind \in Bodies) /\ J[i].laid \in Nat
        BY <2>2, <3>1 DEF Things, ItemState
      <4> QED
        BY <2>1, <3>1, <4>1
    <3>2. CASE j # i
      <4>1. J[j] = I[j]
        BY <3>2
      <4> QED
        BY <2>1, <2>2, <4>1 DEF TimedTimer, For
    <3> QED
      BY <3>1, <3>2
  <2>3. ~(tm.it = o.it /\ tm.serial = o.serial /\ tm.laid = o.laid)
    <3>1. For(o, J, i) => o.laid < J[i].laid
      OBVIOUS
    <3> QED
      BY <1>0, <2>1, <3>1 DEF For
  <2> QED
    BY <2>1, <2>2, <2>3 DEF TimedTimer
<1>3. TimedTimer(J, T \cup {tm}, N, tm)
  <2>1. ASSUME NEW o \in T PROVE ~(o.it = tm.it /\ o.serial = tm.serial /\ o.laid = tm.laid)
    <3>1. For(o, J, i) => o.laid < J[i].laid
      OBVIOUS
    <3>2. o.laid \in Nat
      BY DEF Timer
    <3> QED
      BY <1>0, <3>1, <3>2 DEF For
  <2>2. J[i].laid \in Nat
    BY DEF Things, ItemState
  <2> QED
    BY <1>0, <2>1, <2>2 DEF TimedTimer, For
<1> QED
  BY <1>1, <1>2, <1>3 DEF Timed

\* A timer that is not the last of what lies on the ground is done with.
LEMMA TimedGone ==
  ASSUME NEW I \in Things, NEW T \in SUBSET Timer, NEW n \in Nat, Timed(I, T, n),
         NEW tm \in T, \A i \in Items : I[i].at # None => ~Running(tm, I, i)
  PROVE  Timed(I, T \ {tm}, n)
<1>1. ASSUME NEW i \in Items PROVE TimedItem(I, T \ {tm}, n, i)
  <2>1. TimedItem(I, T, n, i)
    BY DEF Timed
  <2> QED
    BY <2>1 DEF TimedItem
<1>2. ASSUME NEW o \in T \ {tm} PROVE TimedTimer(I, T \ {tm}, n, o)
  <2>1. TimedTimer(I, T, n, o)
    BY DEF Timed
  <2> QED
    BY <2>1 DEF TimedTimer
<1> QED
  BY <1>1, <1>2 DEF Timed

-----------------------------------------------------------------------------
(* What the actions do to items and timers *)

Clocked == Timed(item, timers, born)

\* nothing that lies on the ground vanishes
Remains == \A i \in Items : item[i].at # None => item'[i].kind # "none"

Light == Fades(item, item') /\ Remains /\ UNCHANGED <<timers, born>>

LEMMA GroundIs ==
  ASSUME Belong, NEW i \in Items, item[i].at # None
  PROVE  item[i].kind # "none" /\ item[i].by = None /\ item[i].in = None
<1>1. ItemLinked(item, map, Held, inside, i)
  BY DEF Belong, LinkedIn
<1> QED
  BY <1>1 DEF ItemLinked, Unused

LEMMA LightClocked ==
  ASSUME TypeOK, TypeOK', Clocked, Light PROVE Clocked'
<1>1. PICK J \in Things : J = item'
  BY DEF TypeOK, Things
<1>2. Timed(J, timers, born)
  <2>1. item \in Things /\ timers \in SUBSET Timer /\ born \in Nat /\ Timed(item, timers, born)
    BY DEF TypeOK, Things, Clocked
  <2>2. Fades(item, J)
    BY <1>1 DEF Light
  <2> QED
    BY <2>1, <2>2, TimedFades
<1> QED
  BY <1>1, <1>2 DEF Clocked, Light

LEMMA LightSame ==
  ASSUME Belong, UNCHANGED <<item, timers, born>> PROVE Light
BY GroundIs DEF Light, Fades, FadesTo, Remains

LEMMA LightMoved ==
  ASSUME Belong, UNCHANGED <<timers, born>>,
         \A i \in Items : /\ item'[i].kind = item[i].kind /\ item'[i].serial = item[i].serial
                          /\ item'[i].laid = item[i].laid /\ item'[i].at \in {item[i].at, None}
  PROVE  Light
<1>1. Fades(item, item')
  BY DEF Fades, FadesTo
<1>2. Remains
  BY GroundIs DEF Remains
<1> QED
  BY <1>1, <1>2 DEF Light

LEMMA LightFree ==
  ASSUME Known, Belong, NEW c \in Slots, NEW F, F \subseteq Held[c],
         item' = Free(item, F), UNCHANGED <<timers, born>>
  PROVE  Light
<1>1. \A i \in Items : item'[i] = IF i \in F THEN Unused ELSE item[i]
  BY DEF Free
<1>2. \A i \in F : item[i].at = None
  BY HisOwn
<1>3. Fades(item, item')
  BY <1>1 DEF Fades, FadesTo, Unused
<1>4. Remains
  BY <1>1, <1>2, GroundIs DEF Remains
<1> QED
  BY <1>3, <1>4 DEF Light

LEMMA LightActs ==
  ASSUME Known, Belong, NEW c \in Slots
  PROVE  /\ Leave(c) => Light
         /\ \A i \in Items : Destroy(c, i) => Light
         /\ ActTake(c) => Light
         /\ ActGive(c) => Light
         /\ \A d \in Dirs, x \in Opt(Items) : Container(c, d, x) => Light
<1>0. item \in Things
  BY DEF Known
<1>1. ASSUME Leave(c) PROVE Light
  BY <1>1, LightFree DEF Leave, Held
<1>2. ASSUME NEW i \in Items, Destroy(c, i) PROVE Light
  BY <1>2, LightFree DEF Destroy, Held
<1>3. ASSUME ActTake(c) PROVE Light
  <2>1. CASE UNCHANGED item
    BY <1>3, <2>1, LightSame DEF ActTake
  <2>2. ASSUME NEW i, item' = [item EXCEPT ![i].at = None, ![i].by = c] PROVE Light
    <3>1. item' = [[item EXCEPT ![i].at = None] EXCEPT ![i].by = c]
      BY <2>2
    <3>2. \A j \in Items : /\ item'[j].kind = item[j].kind /\ item'[j].serial = item[j].serial
                           /\ item'[j].laid = item[j].laid /\ item'[j].at \in {item[j].at, None}
      BY <1>0, <3>1 DEF Things, ItemState
    <3> QED
      BY <1>3, <3>2, LightMoved DEF ActTake
  <2> QED
    BY <1>3, <2>1, <2>2 DEF ActTake
<1>4. ASSUME ActGive(c) PROVE Light
  <2>1. CASE UNCHANGED item
    BY <1>4, <2>1, LightSame DEF ActGive
  <2>2. ASSUME NEW i, NEW k, item' = [item EXCEPT ![i].by = k] PROVE Light
    <3>1. \A j \in Items : /\ item'[j].kind = item[j].kind /\ item'[j].serial = item[j].serial
                           /\ item'[j].laid = item[j].laid /\ item'[j].at \in {item[j].at, None}
      BY <1>0, <2>2 DEF Things, ItemState
    <3> QED
      BY <1>4, <3>1, LightMoved DEF ActGive
  <2> QED
    BY <1>4, <2>1, <2>2 DEF ActGive
<1>5. ASSUME NEW d \in Dirs, NEW x \in Opt(Items), Container(c, d, x) PROVE Light
  <2>1. PICK h, b : item' = [i \in Items |->
                               IF i = x THEN [item[i] EXCEPT !.by = c, !.in = None]
                               ELSE IF i = h THEN [item[i] EXCEPT !.by = None, !.in = b]
                               ELSE item[i]]
    BY <1>5 DEF Container
  <2>2. ASSUME NEW j \in Items
        PROVE  /\ item'[j].kind = item[j].kind /\ item'[j].serial = item[j].serial
               /\ item'[j].laid = item[j].laid /\ item'[j].at \in {item[j].at, None}
    <3>1. item[j] \in ItemState
      BY <1>0 DEF Things
    <3> QED
      BY <2>1, <3>1 DEF ItemState
  <2> QED
    BY <1>5, <2>2, LightMoved DEF Container
<1> QED
  BY <1>1, <1>2, <1>3, <1>4, <1>5

LEMMA ClockedCreate ==
  ASSUME TypeOK, TypeOK', Belong, Clocked, NEW c \in Slots, NEW i \in Items, Create(c, i)
  PROVE  Clocked' /\ Remains
<1>0. item \in Things /\ timers \in SUBSET Timer /\ born \in Nat /\ Timed(item, timers, born)
  BY DEF TypeOK, Things, Clocked
<1>1. PICK J \in Things : J = item'
  BY DEF TypeOK, Things
<1>2. /\ J[i].kind = "thing" /\ J[i].serial = born + 1 /\ J[i].at = None
      /\ \A j \in Items \ {i} : J[j] = item[j]
  BY <1>0, <1>1 DEF Create, Things, Unused
<1>3. Timed(J, timers, born + 1)
  BY <1>0, <1>2, TimedMade
<1>4. Remains
  BY <1>1, <1>2, GroundIs DEF Remains
<1> QED
  BY <1>1, <1>3, <1>4 DEF Clocked, Create

LEMMA ClockedDrop ==
  ASSUME TypeOK, TypeOK', Belong, Clocked, NEW c \in Slots, ActDrop(c)
  PROVE  Clocked' /\ Remains
<1>0. item \in Things /\ timers \in SUBSET Timer /\ born \in Nat /\ Timed(item, timers, born)
      /\ Known
  BY KnownIs DEF TypeOK, Things, Clocked
<1>1. CASE UNCHANGED <<item, timers>>
  <2>1. Light
    BY <1>1, LightSame DEF ActDrop
  <2> QED
    BY <2>1, LightClocked DEF Light
<1>2. ASSUME NEW t \in Tiles, NEW i \in Items, ch[c].hand = i,
             item' = [item EXCEPT ![i].at = t, ![i].by = None, ![i].in = None, ![i].laid = @ + 1],
             timers' = timers \cup {Expiry(i, item[i].serial, t, item[i].laid + 1, FALSE)}
      PROVE  Clocked' /\ Remains
  <2>1. i \in Held[c]
    BY <1>2, HeldIs
  <2>2. item[i].kind = "thing" /\ item[i].at = None
    <3>1. item[i].kind # "none" /\ item[i].at = None
      BY <1>0, <2>1, HisOwn
    <3>2. ItemLinked(item, map, Held, inside, i)
      BY DEF Belong, LinkedIn
    <3> QED
      BY <1>0, <3>1, <3>2 DEF ItemLinked, Things, ItemState
  <2>3. PICK J \in Things : J = item'
    BY DEF TypeOK, Things
  <2>4. /\ J[i].kind = "thing" /\ J[i].serial = item[i].serial /\ J[i].at = t
        /\ J[i].laid = item[i].laid + 1 /\ \A j \in Items \ {i} : J[j] = item[j]
    BY <1>0, <1>2, <2>2, <2>3 DEF Things, ItemState
  <2>5. item[i].serial \in 1 .. born /\ item[i].laid \in Nat
    BY <1>0, <2>2 DEF Timed, TimedItem, Things, ItemState
  <2>6. PICK tm : tm = Expiry(i, item[i].serial, t, item[i].laid + 1, FALSE)
    OBVIOUS
  <2>7. /\ tm.it = i /\ tm.serial = item[i].serial /\ tm.at = t /\ tm.laid = item[i].laid + 1
        /\ tm.body = FALSE
    BY <2>6 DEF Expiry
  <2>8. tm \in Timer /\ Running(tm, J, i)
    <3>1. timers' \subseteq Timer
      BY DEF TypeOK
    <3>2. tm \in Timer
      BY <1>2, <2>6, <3>1
    <3>3. (J[i].kind \in Bodies) = FALSE
      BY <2>4 DEF Bodies
    <3> QED
      BY <2>4, <2>7, <3>2, <3>3 DEF Running, For
  <2>9. \A o \in timers : For(o, J, i) => o.laid < J[i].laid /\ o.body = (J[i].kind \in Bodies)
    <3>1. ASSUME NEW o \in timers, For(o, J, i)
          PROVE  o.laid < J[i].laid /\ o.body = (J[i].kind \in Bodies)
      <4>1. TimedTimer(item, timers, born, o) /\ For(o, item, i) /\ o.laid \in Nat
        BY <1>0, <2>4, <3>1 DEF Timed, For, Timer
      <4>2. o.laid <= item[i].laid /\ o.body = (item[i].kind \in Bodies)
        BY <2>2, <4>1 DEF TimedTimer
      <4> QED
        BY <2>2, <2>4, <2>5, <4>1, <4>2
    <3> QED
      BY <3>1
  <2>10. Timed(J, timers \cup {tm}, born)
    <3>1. /\ J[i].kind # "none" /\ J[i].serial \in 1 .. born /\ (J[i].kind \in Bodies => J[i].laid = 0)
          /\ IF tm.body THEN tm.laid = 0 ELSE tm.laid >= 1
          /\ born >= born
      BY <1>0, <2>4, <2>5, <2>7 DEF Bodies
    <3>2. \A j \in Items \ {i} : J[j] = item[j]
      BY <2>4
    <3> HIDE <1>2
    <3> QED
      BY <1>0, <2>8, <2>9, <3>1, <3>2, TimedLaid
  <2>11. Remains
    BY <2>3, <2>4, GroundIs DEF Remains
  <2> QED
    BY <1>2, <2>3, <2>6, <2>10, <2>11 DEF ActDrop, Clocked
<1>3. ch[c].act.goal \in Items
  BY DEF ActDrop, Acting, TypeOK, CharState, ActState, Aimed
<1>4. \/ UNCHANGED <<item, timers>>
      \/ \E t \in Tiles, i \in Items :
           /\ ch[c].hand = i
           /\ item' = [item EXCEPT ![i].at = t, ![i].by = None, ![i].in = None, ![i].laid = @ + 1]
           /\ timers' = timers \cup {Expiry(i, item[i].serial, t, item[i].laid + 1, FALSE)}
  BY <1>3 DEF ActDrop, Layable
<1> QED
  BY <1>1, <1>2, <1>4

LEMMA ClockedBody ==
  ASSUME TypeOK, TypeOK', Belong, Clocked, NEW c \in Slots, NEW b \in Items, NEW t \in Tiles,
         NEW kept, kept \subseteq Held[c], NEW gone, gone \subseteq kept,
         NEW kind \in Bodies, Body(c, b, t, kind, kept, gone)
  PROVE  Clocked' /\ Remains
<1>0. item \in Things /\ timers \in SUBSET Timer /\ born \in Nat /\ Timed(item, timers, born)
      /\ Known
  BY KnownIs DEF TypeOK, Things, Clocked
<1>1. PICK put : put = Carried(c) \ kept
  OBVIOUS
<1>2. /\ item[b].kind = "none" /\ born' = born + 1
      /\ timers' = timers \cup {Expiry(b, born + 1, t, 0, TRUE)}
      /\ \A i \in Items :
           item'[i] = IF i = b
                      THEN [Unused EXCEPT !.kind = kind, !.serial = born + 1, !.at = t,
                                          !.left = BodyTime]
                      ELSE IF i \in gone THEN Unused
                      ELSE IF i \in put THEN [item[i] EXCEPT !.by = None, !.in = b]
                      ELSE item[i]
  BY <1>1 DEF Body
<1>3. PICK J \in Things : J = item'
  BY DEF TypeOK, Things
<1>4. /\ J[b].kind = kind /\ J[b].serial = born + 1 /\ J[b].at = t /\ J[b].laid = 0
  <2>1. J[b] = [Unused EXCEPT !.kind = kind, !.serial = born + 1, !.at = t, !.left = BodyTime]
    BY <1>2, <1>3
  <2> QED
    BY <2>1 DEF Unused
\* First what he had is parted, then comes the body.
<1>5. PICK M \in Things : /\ M[b] = Unused /\ \A i \in Items \ {b} : M[i] = J[i]
  <2>1. [J EXCEPT ![b] = Unused] \in Things
    BY UnusedType DEF Things
  <2> QED
    BY <2>1 DEF Things
<1>6. \A i \in Items : i \in gone => item[i].at = None
  <2>1. gone \subseteq Held[c]
    OBVIOUS
  <2> QED
    BY <1>0, <2>1, HisOwn
<1>7. Fades(item, M)
  <2>1. ASSUME NEW i \in Items PROVE FadesTo(item, M, i)
    <3>1. CASE i = b
      BY <1>5, <3>1 DEF FadesTo, Unused
    <3>2. CASE i # b
      <4>1. M[i] = IF i \in gone THEN Unused
                   ELSE IF i \in put THEN [item[i] EXCEPT !.by = None, !.in = b]
                   ELSE item[i]
        BY <1>2, <1>3, <1>5, <3>2
      <4>2. item[i] \in ItemState
        BY <1>0 DEF Things
      <4> QED
        BY <4>1, <4>2 DEF FadesTo, Unused, ItemState
    <3> QED
      BY <3>1, <3>2
  <2> QED
    BY <2>1 DEF Fades
<1>8. Timed(M, timers, born)
  BY <1>0, <1>7, TimedFades
<1>9. PICK tm \in Timer : tm = Expiry(b, born + 1, t, 0, TRUE)
  <2>1. timers' \subseteq Timer
    BY DEF TypeOK
  <2> QED
    BY <1>2, <2>1
<1>10. tm.it = b /\ tm.serial = born + 1 /\ tm.at = t /\ tm.laid = 0 /\ tm.body = TRUE
  BY <1>9 DEF Expiry
<1>11. Running(tm, J, b)
  BY <1>4, <1>10 DEF Running, For
<1>12. \A o \in timers : ~For(o, J, b)
  <2>1. ASSUME NEW o \in timers PROVE o.serial # born + 1
    <3>1. o.serial \in Nat /\ o.serial <= born
      BY <1>0 DEF Timed, TimedTimer, Timer
    <3> QED
      BY <1>0, <3>1
  <2> QED
    BY <1>4, <2>1 DEF For
<1>13. Timed(J, timers \cup {tm}, born + 1)
  <2>1. /\ J[b].kind # "none" /\ J[b].serial \in 1 .. (born + 1) /\ (J[b].kind \in Bodies => J[b].laid = 0)
        /\ (IF tm.body THEN tm.laid = 0 ELSE tm.laid >= 1)
        /\ born + 1 \in Nat /\ born + 1 >= born
    BY <1>0, <1>4, <1>10 DEF Bodies
  <2>2. \A i \in Items \ {b} : J[i] = M[i]
    BY <1>5
  <2>3. \A o \in timers : For(o, J, b) => o.laid < J[b].laid /\ o.body = (J[b].kind \in Bodies)
    BY <1>12
  <2> HIDE <1>2
  <2> QED
    BY <1>0, <1>8, <1>11, <2>1, <2>2, <2>3, TimedLaid
<1>14. Remains
  <2>1. ASSUME NEW i \in Items, item[i].at # None PROVE item'[i].kind # "none"
    <3>1. i \notin gone /\ item[i].kind # "none" /\ item[i] \in ItemState
      BY <1>0, <1>6, <2>1, GroundIs DEF Things
    <3>2. i # b
      BY <1>2, <3>1
    <3>3. item'[i] = IF i \in put THEN [item[i] EXCEPT !.by = None, !.in = b] ELSE item[i]
      BY <1>2, <3>1, <3>2
    <3> QED
      BY <3>1, <3>3 DEF ItemState
  <2> QED
    BY <2>1 DEF Remains
<1> QED
  BY <1>2, <1>3, <1>9, <1>13, <1>14 DEF Clocked

LEMMA ClockedDie ==
  ASSUME TypeOK, TypeOK', Belong, Clocked, NEW c \in Slots, ActDie(c)
  PROVE  Clocked' /\ Remains
<1>0. Known
  BY KnownIs
<1>1. CASE Bodiless(c)
  <2>1. Light
    BY <1>0, <1>1, LightFree DEF Bodiless, Held
  <2> QED
    BY <2>1, LightClocked DEF Light
<1>2. ASSUME NEW b \in Items, NEW t \in Tiles, NEW kept, NEW gone, NEW kind \in Bodies,
             kept \subseteq Carried(c), gone \subseteq kept, Body(c, b, t, kind, kept, gone)
      PROVE  Clocked' /\ Remains
  <2>1. kept \subseteq Held[c]
    BY <1>2 DEF Held
  <2> QED
    BY <1>2, <2>1, ClockedBody
<1>3. CASE \E b \in Items, t \in Tiles : Husk(c, b, t)
  <2>1. "husk" \in Bodies
    BY DEF Bodies
  <2> QED
    BY <1>2, <1>3, <2>1 DEF Husk
<1>4. CASE \E b \in Items, t \in Tiles :
             \E kept \in SUBSET (IF IsPlayer(c) THEN ch[c].pack ELSE {}) :
                Body(c, b, t, "body", kept, {}) \/ Body(c, b, t, "body", kept, kept)
  <2>1. "body" \in Bodies
    BY DEF Bodies
  <2>2. PICK b \in Items, t \in Tiles, kept \in SUBSET (IF IsPlayer(c) THEN ch[c].pack ELSE {}) :
                Body(c, b, t, "body", kept, {}) \/ Body(c, b, t, "body", kept, kept)
    BY <1>4
  <2>3. kept \subseteq Carried(c) /\ {} \subseteq kept /\ kept \subseteq kept
    BY DEF Carried
  <2> QED
    BY <1>2, <2>1, <2>2, <2>3
<1>5. \/ Bodiless(c)
      \/ \E b \in Items, t \in Tiles : Husk(c, b, t)
      \/ \E b \in Items, t \in Tiles :
           \E kept \in SUBSET (IF IsPlayer(c) THEN ch[c].pack ELSE {}) :
              Body(c, b, t, "body", kept, {}) \/ Body(c, b, t, "body", kept, kept)
  BY DEF ActDie, Layable
<1> QED
  BY <1>1, <1>3, <1>4, <1>5

\* A serial number of a laying down is told apart while expire_sn has not wrapped.
LEMMA SameLaying ==
  ASSUME NEW N \in Nat \ {0}, NEW a \in 1 .. N, NEW b \in 1 .. N, a % N = b % N
  PROVE  a = b
OBVIOUS

\* What the last timer of an item that vanishes leaves behind: none of its laying.
OwnTime ==
  \A i \in Items :
    item[i].at # None /\ item[i].laid <= SnSize /\ item'[i].kind = "none" =>
      \A o \in timers' : ~(o.it = i /\ o.serial = item[i].serial /\ o.laid = item[i].laid)

LEMMA VanishIs ==
  ASSUME Known, Belong, NEW i \in Items, Vanish(i)
  PROVE  /\ Fades(item, item') /\ item'[i].at = None
         /\ \A j \in Items \ {i} : item[j].at # None => item'[j].kind # "none"
<1>1. \A j \in Items : item'[j] = IF j = i \/ j \in inside[i] THEN Unused ELSE item[j]
  BY DEF Vanish, Free
<1>2. \A j \in inside[i] : j \in Items /\ item[j].in = i /\ i # None
  <2>1. ItemLinked(item, map, Held, inside, i)
    BY DEF Belong, LinkedIn
  <2> QED
    BY <2>1 DEF ItemLinked, Known, Stores
<1>3. \A j \in inside[i] : item[j].at = None
  BY <1>2, GroundIs
<1> QED
  BY <1>1, <1>3, GroundIs DEF Fades, FadesTo, Unused

\* A timer that is removed is no longer that of anything.
LEMMA ClockedLess ==
  ASSUME TypeOK, TypeOK', Clocked, NEW tm \in timers, timers' = timers \ {tm}, born' = born,
         Fades(item, item'), \A i \in Items : item'[i].at # None => ~Running(tm, item', i)
  PROVE  Clocked'
<1>0. item \in Things /\ timers \in SUBSET Timer /\ born \in Nat /\ Timed(item, timers, born)
  BY DEF TypeOK, Things, Clocked
<1>1. PICK J \in Things : J = item'
  BY DEF TypeOK, Things
<1>2. Timed(J, timers, born)
  BY <1>0, <1>1, TimedFades
<1>3. \A i \in Items : J[i].at # None => ~Running(tm, J, i)
  BY <1>1
<1>4. Timed(J, timers \ {tm}, born)
  BY <1>0, <1>2, <1>3, TimedGone
<1> QED
  BY <1>1, <1>4 DEF Clocked

LEMMA RunningSame ==
  ASSUME Belong, NEW tm, NEW i \in Items, item[i].at # None, Running(tm, item, i)
  PROVE  Same(tm) /\ (tm.body = (item[i].kind \in Bodies)) /\ ThisLaying(tm)
BY GroundIs DEF Running, For, Same, ThisLaying

LEMMA ClockedExpire ==
  ASSUME TypeOK, TypeOK', Belong, Clocked, NEW tm \in timers, ExpireTimer(tm)
  PROVE  Clocked' /\ OwnTime
<1>0. Known /\ tm \in Timer /\ Timed(item, timers, born) /\ item \in Things
  BY KnownIs DEF TypeOK, Clocked, Things
<1>1. tm.it \in Items /\ ~tm.body /\ timers' = timers \ {tm} /\ born' = born
  BY <1>0 DEF ExpireTimer, Timer
<1>2. CASE ThisLaying(tm)
  <2>0. PICK i \in Items : i = tm.it
    BY <1>1
  <2>1. Vanish(i)
    BY <1>2, <2>0 DEF ExpireTimer
  <2>2. /\ Fades(item, item') /\ item'[i].at = None
        /\ \A j \in Items \ {i} : item[j].at # None => item'[j].kind # "none"
    BY <1>0, <2>1, VanishIs
  <2>3. Clocked'
    BY <1>1, <2>0, <2>2, ClockedLess DEF Running, For
  <2>4. ASSUME item[i].at # None, item[i].laid <= SnSize, NEW o \in timers',
               o.it = i, o.serial = item[i].serial, o.laid = item[i].laid
        PROVE  FALSE
    <3>1. /\ item[i].kind # "none" /\ tm.serial = item[i].serial
          /\ item[i].laid % SnSize = tm.laid % SnSize
      BY <1>2, <2>0 DEF ThisLaying, Same
    <3>2. TimedTimer(item, timers, born, tm) /\ For(tm, item, i)
      BY <1>0, <2>0, <3>1 DEF Timed, For
    <3>3. tm.laid >= 1 /\ tm.laid <= item[i].laid
      BY <1>1, <3>1, <3>2 DEF TimedTimer
    <3>4. tm.laid \in 1 .. SnSize /\ item[i].laid \in 1 .. SnSize
      BY <1>0, <2>4, <3>3 DEF Timer, Things, ItemState
    <3>5. tm.laid = item[i].laid
      BY <3>1, <3>4, SameLaying
    <3>6. o \in timers /\ o # tm
      BY <1>1, <2>4
    <3> QED
      BY <2>0, <2>4, <3>1, <3>2, <3>5, <3>6 DEF TimedTimer
  <2> QED
    BY <2>2, <2>3, <2>4 DEF OwnTime
<1>3. CASE ~ThisLaying(tm)
  <2>1. item' = item
    BY <1>3 DEF ExpireTimer
  <2>2. Fades(item, item') /\ Remains
    BY <2>1, GroundIs DEF Fades, FadesTo, Remains
  <2>3. \A i \in Items : item'[i].at # None => ~Running(tm, item', i)
    BY <1>3, <2>1, RunningSame
  <2> QED
    BY <1>1, <2>2, <2>3, ClockedLess DEF OwnTime, Remains
<1> QED
  BY <1>2, <1>3

LEMMA ClockedExpireBody ==
  ASSUME TypeOK, TypeOK', Belong, Clocked, NEW tm \in timers, ExpireTimerBody(tm)
  PROVE  Clocked' /\ OwnTime
<1>0. Known /\ tm \in Timer /\ Timed(item, timers, born) /\ item \in Things
  BY KnownIs DEF TypeOK, Clocked, Things
<1>1. tm.it \in Items /\ tm.body /\ born' = born
  BY <1>0 DEF ExpireTimerBody, Timer
<1>2. CASE Same(tm) /\ BodyStays(tm.it)
  <2>1. item' = [item EXCEPT ![tm.it].left = @ - 1] /\ timers' = timers
    BY <1>2 DEF ExpireTimerBody
  <2>2. \A i \in Items : /\ item'[i].kind = item[i].kind /\ item'[i].serial = item[i].serial
                         /\ item'[i].laid = item[i].laid /\ item'[i].at \in {item[i].at, None}
    BY <1>0, <1>1, <2>1 DEF Things, ItemState
  <2>3. Light
    BY <1>1, <2>1, <2>2, LightMoved
  <2> QED
    BY <2>3, LightClocked DEF Light, Remains, OwnTime
<1>3. CASE Same(tm) /\ ~BodyStays(tm.it)
  <2>0. PICK i \in Items : i = tm.it
    BY <1>1
  <2>1. Vanish(i) /\ timers' = timers \ {tm}
    BY <1>3, <2>0 DEF ExpireTimerBody
  <2>2. /\ Fades(item, item') /\ item'[i].at = None
        /\ \A j \in Items \ {i} : item[j].at # None => item'[j].kind # "none"
    BY <1>0, <2>1, VanishIs
  <2>3. Clocked'
    BY <1>1, <2>0, <2>1, <2>2, ClockedLess DEF Running, For
  <2>4. ASSUME NEW o \in timers', o.it = i, o.serial = item[i].serial, o.laid = item[i].laid
        PROVE  FALSE
    <3>1. item[i].kind # "none" /\ tm.serial = item[i].serial
      BY <1>3, <2>0 DEF Same
    <3>2. TimedTimer(item, timers, born, tm) /\ For(tm, item, i) /\ TimedItem(item, timers, born, i)
      BY <1>0, <2>0, <3>1 DEF Timed, For
    <3>3. tm.laid = 0 /\ item[i].laid = 0
      BY <1>1, <3>1, <3>2 DEF TimedTimer, TimedItem
    <3>4. o \in timers /\ o # tm
      BY <2>1, <2>4
    <3> QED
      BY <2>0, <2>4, <3>1, <3>2, <3>3, <3>4 DEF TimedTimer
  <2> QED
    BY <2>2, <2>3, <2>4 DEF OwnTime
<1>4. CASE ~Same(tm)
  <2>1. item' = item /\ timers' = timers \ {tm}
    BY <1>4 DEF ExpireTimerBody
  <2>2. Fades(item, item') /\ Remains
    BY <2>1, GroundIs DEF Fades, FadesTo, Remains
  <2>3. \A i \in Items : item'[i].at # None => ~Running(tm, item', i)
    BY <1>4, <2>1, RunningSame
  <2> QED
    BY <1>1, <2>1, <2>2, <2>3, ClockedLess DEF OwnTime, Remains
<1> QED
  BY <1>2, <1>3, <1>4

-----------------------------------------------------------------------------
(* Doors *)

DoorsDue == \A t \in Doors : /\ door[t].count = door[t].calls
                             /\ door[t].open => door[t].calls > 0

LEMMA DoorsUse ==
  ASSUME door \in [Doors -> DoorState], DoorsDue, NEW c \in Slots, ActUse(c) PROVE DoorsDue'
<1>1. CASE UNCHANGED door
  BY <1>1 DEF DoorsDue
<1>2. ASSUME NEW t \in Doors, door' = [door EXCEPT ![t].open = FALSE] PROVE DoorsDue'
  BY <1>2 DEF DoorsDue, DoorState
<1>3. ASSUME NEW t \in Doors,
             door' = [door EXCEPT ![t].open = TRUE, ![t].count = @ + 1, ![t].calls = @ + 1]
      PROVE  DoorsDue'
  <2>1. door' = [[[door EXCEPT ![t].open = TRUE] EXCEPT ![t].count = door[t].count + 1]
                 EXCEPT ![t].calls = door[t].calls + 1]
    BY <1>3 DEF DoorState
  <2>2. /\ door'[t].count = door[t].count + 1 /\ door'[t].calls = door[t].calls + 1
        /\ \A u \in Doors \ {t} : door'[u] = door[u]
    BY <2>1 DEF DoorState
  <2>3. door[t].calls \in Nat
    BY DEF DoorState
  <2> QED
    BY <2>2, <2>3 DEF DoorsDue
<1> QED
  BY <1>1, <1>2, <1>3 DEF ActUse

LEMMA DoorsTimer ==
  ASSUME door \in [Doors -> DoorState], DoorsDue, NEW t \in Doors, DoorTimer(t) PROVE DoorsDue'
<1>0. door[t].count = door[t].calls /\ door[t].calls \in Nat /\ door[t].calls > 0
  BY DEF DoorsDue, DoorTimer, DoorState
<1>1. PICK n \in Nat : n = door[t].count - 1
  BY <1>0
<1>2. CASE (~door[t].open \/ n > 0) /\ door' = [door EXCEPT ![t].count = n, ![t].calls = @ - 1]
  <2>1. door' = [[door EXCEPT ![t].count = n] EXCEPT ![t].calls = door[t].calls - 1]
    BY <1>2 DEF DoorState
  <2>2. /\ door'[t].count = n /\ door'[t].calls = door[t].calls - 1 /\ door'[t].open = door[t].open
        /\ \A u \in Doors \ {t} : door'[u] = door[u]
    BY <2>1 DEF DoorState
  <2> QED
    BY <1>0, <1>1, <1>2, <2>2 DEF DoorsDue
<1>3. CASE n = 0 /\ door' = [door EXCEPT ![t] = [open |-> FALSE, count |-> 0, calls |-> @.calls - 1]]
  <2>1. /\ door'[t].count = 0 /\ door'[t].calls = door[t].calls - 1 /\ ~door'[t].open
        /\ \A u \in Doors \ {t} : door'[u] = door[u]
    BY <1>3
  <2> QED
    BY <1>0, <1>1, <1>3, <2>1 DEF DoorsDue
<1>4. CASE n = 0 /\ door' = [door EXCEPT ![t].count = 1]
  <2>1. /\ door'[t].count = 1 /\ door'[t].calls = door[t].calls
        /\ \A u \in Doors \ {t} : door'[u] = door[u]
    BY <1>4 DEF DoorState
  <2> QED
    BY <1>0, <1>1, <1>4, <2>1 DEF DoorsDue
<1> QED
  BY <1>0, <1>1, <1>2, <1>3, <1>4 DEF DoorTimer

-----------------------------------------------------------------------------
(* The theorems *)

LEMMA InitClocked == Init => Clocked /\ DoorsDue
BY DEF Init, Clocked, Timed, TimedItem, DoorsDue, Unused

LEMMA ClockedStep ==
  TypeOK /\ TypeOK' /\ Belong /\ Clocked /\ DoorsDue /\ [Next]_vars
    => Clocked' /\ DoorsDue' /\ OwnTime
<1> SUFFICES ASSUME TypeOK, TypeOK', Belong, Clocked, DoorsDue, [Next]_vars
             PROVE  Clocked' /\ DoorsDue' /\ OwnTime
  OBVIOUS
<1>0. Known /\ door \in [Doors -> DoorState]
  BY KnownIs DEF TypeOK
<1>1. Remains => OwnTime
  BY DEF Remains, OwnTime
<1>2. Light => Clocked' /\ OwnTime
  BY <1>1, LightClocked DEF Light
<1>3. UNCHANGED door => DoorsDue'
  BY DEF DoorsDue
<1>4. ASSUME NEW c \in Slots, NextUsed(c) PROVE Clocked' /\ DoorsDue' /\ OwnTime
  <2>1. CASE NextIdle(c)
    <3>1. PICK d \in Dirs : \/ CharSwap(c, d) \/ DoWalk(c, d) \/ DoTake(c, d)
                            \/ DoDrop(c, d) \/ DoGive(c, d) \/ DoUse(c, d)
                            \/ \E x \in Opt(Items) : Container(c, d, x)
      BY <2>1, TowardDirs DEF NextIdle
    <3>2. CASE \/ CharSwap(c, d) \/ DoWalk(c, d) \/ DoTake(c, d)
               \/ DoDrop(c, d) \/ DoGive(c, d) \/ DoUse(c, d)
      BY <1>2, <1>3, <3>2, LightSame DEF CharSwap, DoWalk, DoTake, DoDrop, DoGive, DoUse
    <3>3. CASE \E x \in Opt(Items) : Container(c, d, x)
      BY <1>0, <1>2, <1>3, <3>3, LightActs DEF Container
    <3> QED
      BY <3>1, <3>2, <3>3
  <2>2. CASE Kill(c) \/ ActWalk(c) \/ \E t \in Tiles : Teleport(c, t)
    BY <1>2, <1>3, <2>2, LightSame DEF Kill, ActWalk, Teleport
  <2>3. CASE \E x \in Opt(Items) : Stow(c, x)
    BY <1>2, <1>3, <2>3, LightSame DEF Stow
  <2>4. CASE Leave(c) \/ ActTake(c) \/ ActGive(c) \/ \E i \in Items : Destroy(c, i)
    <3>1. Light
      BY <1>0, <2>4, LightActs
    <3>2. UNCHANGED door
      BY <2>4 DEF Leave, ActTake, ActGive, Destroy
    <3> QED
      BY <1>2, <1>3, <3>1, <3>2
  <2>5. CASE ActUse(c)
    <3>1. Light
      BY <2>5, LightSame DEF ActUse
    <3> QED
      BY <1>0, <1>2, <2>5, <3>1, DoorsUse
  <2>6. CASE ActDrop(c) \/ ActDie(c) \/ \E i \in Items : Create(c, i)
    <3>1. Clocked' /\ Remains
      BY <2>6, ClockedDrop, ClockedDie, ClockedCreate
    <3>2. UNCHANGED door
      BY <2>6 DEF ActDrop, ActDie, Create
    <3> QED
      BY <1>1, <1>3, <3>1, <3>2
  <2> QED
    BY <1>4, <2>1, <2>2, <2>3, <2>4, <2>5, <2>6 DEF NextUsed
<1>5. ASSUME NEW c \in Slots, NEW kind \in Kinds, NEW t \in Tiles, Enter(c, kind, t)
      PROVE  Clocked' /\ DoorsDue' /\ OwnTime
  BY <1>2, <1>3, <1>5, LightSame DEF Enter
<1>6. ASSUME NEW tm \in timers, ExpireTimer(tm) \/ ExpireTimerBody(tm)
      PROVE  Clocked' /\ DoorsDue' /\ OwnTime
  BY <1>3, <1>6, ClockedExpire, ClockedExpireBody DEF ExpireTimer, ExpireTimerBody
<1>7. ASSUME NEW t \in Doors, DoorTimer(t) PROVE Clocked' /\ DoorsDue' /\ OwnTime
  <2>1. Light
    BY <1>7, LightSame DEF DoorTimer
  <2> QED
    BY <1>0, <1>2, <1>7, <2>1, DoorsTimer
<1>8. CASE UNCHANGED vars
  BY <1>2, <1>3, <1>8, LightSame DEF vars
<1> QED
  BY <1>4, <1>5, <1>6, <1>7, <1>8 DEF Next

\* A timer that would take an item for that of its last laying down is that of it.
LEMMA OneClock ==
  ASSUME TypeOK, Belong, Clocked, NEW i \in Items, item[i].at # None
  PROVE  /\ Clocks(i) # {}
         /\ item[i].laid <= SnSize => Cardinality(Clocks(i)) = 1
<1>0. timers \subseteq Timer /\ item \in Things /\ item[i].kind # "none"
  BY GroundIs DEF TypeOK, Things
<1>1. PICK tm \in timers : Running(tm, item, i)
  BY DEF Clocked, Timed, TimedItem
<1>2. tm \in Clocks(i)
  BY <1>1 DEF Running, For, Clocks
<1>3. ASSUME item[i].laid <= SnSize, NEW o \in Clocks(i) PROVE o = tm
  <2>1. /\ o \in timers /\ o.it = i /\ o.serial = item[i].serial
        /\ o.body = (item[i].kind \in Bodies)
        /\ o.body \/ o.laid % SnSize = item[i].laid % SnSize
    BY DEF Clocks
  <2>2. TimedTimer(item, timers, born, o) /\ TimedTimer(item, timers, born, tm)
        /\ TimedItem(item, timers, born, i)
    BY <2>1 DEF Clocked, Timed
  <2>3. tm.it = i /\ tm.serial = item[i].serial /\ tm.laid = item[i].laid
        /\ tm.body = (item[i].kind \in Bodies)
    BY <1>1 DEF Running, For
  <2>4. o.laid = tm.laid
    <3>1. CASE o.body
      BY <2>1, <2>2, <2>3, <3>1 DEF TimedTimer
    <3>2. CASE ~o.body
      <4>1. o.laid >= 1 /\ o.laid <= item[i].laid
        BY <1>0, <2>1, <2>2, <3>2 DEF TimedTimer, For
      <4>2. o.laid \in 1 .. SnSize /\ item[i].laid \in 1 .. SnSize
        BY <1>0, <1>3, <2>1, <4>1 DEF Timer, Things, ItemState
      <4> QED
        BY <2>1, <2>3, <3>2, <4>2, SameLaying
    <3> QED
      BY <3>1, <3>2
  <2> QED
    BY <2>1, <2>2, <2>3, <2>4 DEF TimedTimer
<1>4. item[i].laid <= SnSize => Clocks(i) = {tm}
  BY <1>2, <1>3
<1>5. Cardinality({tm}) = 1
  BY FS_Singleton
<1> QED
  BY <1>2, <1>4, <1>5

WorldInv == TypeOK /\ Here /\ Belong /\ Clocked /\ DoorsDue

LEMMA AllAlong == Spec => []WorldInv
<1>1. Init => WorldInv
  BY InitType, InitPlaced, InitLinked, InitClocked DEF WorldInv
<1>2. WorldInv /\ [Next]_vars => WorldInv'
  BY TypeStep, PlacedStep, LinkedStep, ClockedStep DEF WorldInv
<1> QED
  BY <1>1, <1>2, PTL DEF Spec

\* What lies on the ground has its timer, and only one unless its expire_sn has
\* wrapped; an open door has a call of door_driver to come.
THEOREM TimersDue == Spec => []Due
<1>1. WorldInv => Due
  BY OneClock DEF WorldInv, Due, OnGround, DoorsDue
<1> QED
  BY <1>1, AllAlong, PTL

\* A thing on the ground goes when the timer of this laying down is due: not with
\* one of an earlier laying down, nor of the item that had its entry before.
THEOREM GoesInItsOwnTime == Spec => InItsOwnTime
<1>1. WorldInv /\ WorldInv' /\ [Next]_vars
        => [\A i \in Items :
              OnGround(i) /\ item[i].laid <= SnSize /\ item'[i].kind = "none" =>
                \A tm \in timers' : ~(/\ tm.it = i /\ tm.serial = item[i].serial
                                      /\ tm.laid = item[i].laid)]_vars
  BY ClockedStep DEF WorldInv, OwnTime, OnGround
<1> QED
  BY <1>1, AllAlong, PTL DEF Spec, InItsOwnTime
=============================================================================
