------------------------- MODULE TextureCacheProofs -------------------------
(***************************************************************************)
(* Eviction and the worker threads of the texture cache do not collide,    *)
(* for any number of slots, workers and pictures: a worker fills a slot    *)
(* that is its own, a slot shows its own picture, the renderer gets the    *)
(* picture it asked for, no job is left behind, and the linked lists lose  *)
(* no slot.                                                                *)
(***************************************************************************)
EXTENDS TextureCache, WellFoundedInduction, SequenceTheorems, FiniteSetTheorems, TLAPS

(***************************************************************************)
(* The inductive invariant.                                                *)
(***************************************************************************)

\* What holds of every slot: the flags follow each other, and an empty slot is
\* as good as new.
SlotOK(t) ==
  /\ "tex" \in t.flags => "make" \in t.flags
  /\ "make" \in t.flags => "alloc" \in t.flags
  /\ "sprite" \in t.flags => t.picture \in Pictures \ Texts /\ "text" \notin t.flags
  /\ "text" \in t.flags => t.picture \in Texts /\ "make" \in t.flags
  /\ t.flags # {} => "used" \in t.flags /\ ("sprite" \in t.flags \/ "text" \in t.flags)
  /\ t.flags = {} => t = [FreeSlot EXCEPT !.gen = t.gen]
  /\ ("tex" \in t.flags) <=> (t.tex # NoPicture)
  /\ t.tex \in {t.picture, NoPicture}
  /\ "make" \in t.flags => t.pixel \in {t.picture, NoPicture}
  /\ t.pixel = NoPicture /\ "text" \notin t.flags /\ t.picture \notin Blank
       => ("alloc" \in t.flags <=> "tex" \in t.flags)
  /\ t.pixel # NoPicture => "alloc" \in t.flags
  /\ t.work # "idle" => "sprite" \in t.flags

SlotsOK == \A s \in Slots : SlotOK(cache[s])

\* A job that waits names a slot that waits for it.
Waits(slots, j) ==
  /\ j \in Jobs
  /\ slots[j.slot].work = "queued"
  /\ slots[j.slot].gen = j.gen
  /\ slots[j.slot].flags = {"used", "sprite"}

Popped(w) == workers[w].pc = "mark"

JobsOK ==
  /\ \A i \in 1 .. Len(jobs) : Waits(cache, jobs[i])
  /\ \A i, k \in 1 .. Len(jobs) : i # k => jobs[i].slot # jobs[k].slot
  /\ \A w \in Workers : Popped(w) => Waits(cache, workers[w].job)
  /\ \A w \in Workers, i \in 1 .. Len(jobs) :
       Popped(w) => workers[w].job.slot # jobs[i].slot
  /\ \A v, w \in Workers :
       Popped(v) /\ Popped(w) /\ v # w => workers[v].job.slot # workers[w].job.slot

\* How far the slot of a worker is.
StageOK(pc, t) ==
  /\ pc \in {"load", "loading"} => t.flags = {"used", "sprite"}
  /\ pc \in {"draw", "drawing"} => t.flags = {"used", "sprite", "alloc"} /\ t.pixel = Raw
  /\ pc = "done" => "make" \in t.flags /\ "sprite" \in t.flags

Fills(w) ==
  LET j == workers[w].job
      t == cache[j.slot]
  IN  /\ j \in Jobs
      /\ t.work = "in_worker"
      /\ t.gen = j.gen
      /\ t.picture = workers[w].picture
      /\ StageOK(workers[w].pc, t)

WorkersOK ==
  /\ \A w \in Workers : At(w) => Fills(w)
  /\ \A v, w \in Workers :
       At(v) /\ At(w) /\ v # w => workers[v].job.slot # workers[w].job.slot

\* Without workers nothing waits for them.
SingleOK ==
  ~multi => /\ \A s \in Slots : cache[s].work = "idle"
            /\ jobs = <<>>
            /\ \A w \in Workers : workers[w].pc = "asleep"

\* The slot the render thread is busy with.
MainOK ==
  LET s == main.slot
      p == main.picture
  IN  /\ main.pc # "idle" => p \in Pictures
      /\ main.pc \notin {"idle", "show"} => s \in Slots
      /\ main.pc \in {"wait", "enqueue", "loading"} => p \notin Texts
      /\ main.pc = "wait" => cache[s].picture = p
      /\ main.pc = "evict" => cache[s].work = "idle" /\ cache[s].flags # {}
      /\ main.pc \in {"load", "loading"} => cache[s].flags = {}
      /\ main.pc = "enqueue" => /\ multi
                                /\ cache[s].work = "idle"
                                /\ cache[s].flags = {"used", "sprite"}
                                /\ cache[s].picture = p
      /\ main.pc = "show" /\ s # NoSlot =>
           cache[s].picture = p /\ "make" \in cache[s].flags

CacheInv == TypeOK /\ SlotsOK /\ JobsOK /\ WorkersOK /\ SingleOK /\ MainOK

(***************************************************************************)
(* Helpers.                                                                *)
(***************************************************************************)

\* The value for no slot is no slot.
LEMMA NoSlotIsNone == NoSlot \notin Slots
BY CacheAssumption DEF NoSlot, Slots

\* The list of use keeps its type when a slot moves to its head.
LEMMA BestType ==
  ASSUME NEW l \in UseType, NEW s \in Slots
  PROVE  Best(l, s) \in UseType
BY NoSlotIsNone DEF UseType, Best

\* An empty slot holds no picture.
LEMMA EmptyHasNone ==
  ASSUME NEW t, SlotOK(t), t.picture \in Pictures
  PROVE  t.flags # {}
<1>1. FreeSlot.picture = NoPicture
  BY DEF FreeSlot
<1>2. t.flags = {} => t.picture = NoPicture
  BY DEF SlotOK, FreeSlot
<1> QED
  BY <1>2, CacheAssumption

\* A non-empty set of numbers has a least one.
LEMMA LeastIn ==
  ASSUME NEW S \in SUBSET Nat, S # {}
  PROVE  (CHOOSE i \in S : \A j \in S : i <= j) \in S
<1>1. PICK m \in S : \A j \in S : <<j, m>> \notin OpToRel(<, Nat)
  BY NatLessThanWellFounded, WFMin
<1>2. \A j \in S : ~(j < m)
  BY <1>1 DEF OpToRel
<1>3. \A j \in S : m <= j
  BY <1>2
<1> QED
  BY <1>3

\* What a lookup finds is a slot with the picture.
LEMMA LookupFinds ==
  ASSUME NEW p \in Pictures, Lookup(p) # NoSlot
  PROVE  Lookup(p) \in Slots /\ cache[Lookup(p)].picture = p
<1> DEFINE chain == Follow(chains.head[Bucket[p]], chains.next)
           hits == {i \in Entries(chain) : Matches(cache[chain[i]], p)}
           first(i) == \A j \in hits : i <= j
<1>1. Lookup(p) = IF hits = {} THEN NoSlot ELSE chain[CHOOSE i \in hits : first(i)]
  BY DEF Lookup
<1>2. hits # {}
  BY <1>1
<1>3. hits \in SUBSET Nat
  BY CacheAssumption DEF Entries
<1>4. (CHOOSE i \in hits : first(i)) \in hits
  BY <1>2, <1>3, LeastIn
<1> QED
  BY <1>1, <1>2, <1>4 DEF Entries, Matches

\* A slot that gets a picture and a slot that gets a buffer, field by field.
LEMMA NamedIs ==
  ASSUME NEW t \in SlotType, NEW p \in Pictures
  PROVE  Named(t, p) = [picture |-> p, flags |-> {"used", "sprite"}, pixel |-> t.pixel,
                        tex |-> t.tex, gen |-> t.gen, work |-> t.work]
<1> DEFINE F == {"used", "sprite"}
           o == [t EXCEPT !.picture = p]
<1>1. o = [picture |-> p, flags |-> t.flags, pixel |-> t.pixel,
           tex |-> t.tex, gen |-> t.gen, work |-> t.work]
  BY DEF SlotType
<1>2. o \in SlotType
  BY DEF SlotType
<1>3. Named(t, p) = [o EXCEPT !.flags = F]
  BY DEF Named
<1> HIDE DEF o, F
<1>4. [o EXCEPT !.flags = F] = [picture |-> o.picture, flags |-> F, pixel |-> o.pixel,
                                tex |-> o.tex, gen |-> o.gen, work |-> o.work]
  BY <1>2 DEF SlotType
<1> QED
  BY <1>1, <1>3, <1>4 DEF F

LEMMA AllocatedIs ==
  ASSUME NEW t \in SlotType, "alloc" \notin t.flags
  PROVE  Allocated(t) = [picture |-> t.picture, flags |-> t.flags \cup {"alloc"},
                         pixel |-> Raw, tex |-> t.tex, gen |-> t.gen, work |-> t.work]
<1> DEFINE F == t.flags \cup {"alloc"}
           o == [t EXCEPT !.pixel = Raw]
<1>1. o = [picture |-> t.picture, flags |-> t.flags, pixel |-> Raw,
           tex |-> t.tex, gen |-> t.gen, work |-> t.work]
  BY DEF SlotType
<1>2. o \in SlotType
  BY DEF SlotType
<1>3. Allocated(t) = [o EXCEPT !.flags = F]
  BY DEF Allocated
<1> HIDE DEF o, F
<1>4. [o EXCEPT !.flags = F] = [picture |-> o.picture, flags |-> F, pixel |-> o.pixel,
                                tex |-> o.tex, gen |-> o.gen, work |-> o.work]
  BY <1>2 DEF SlotType
<1> QED
  BY <1>1, <1>3, <1>4 DEF F

\* The third stage keeps a slot in order and leaves its picture, its
\* generation and its state of work alone; unfinished pixels are not touched.
LEMMA TexturedOK ==
  ASSUME NEW t \in SlotType, SlotOK(t), "text" \notin t.flags, NEW granted \in BOOLEAN
  PROVE  LET u == Textured(t, granted)
         IN  /\ u \in SlotType /\ SlotOK(u)
             /\ u.picture = t.picture /\ u.gen = t.gen /\ u.work = t.work
             /\ t.flags \subseteq u.flags
             /\ "make" \in u.flags <=> "make" \in t.flags
             /\ "make" \notin t.flags => u = t
             /\ u.flags = {} <=> t.flags = {}
<1>1. CASE "make" \notin t.flags \/ "tex" \in t.flags
  BY <1>1 DEF Textured
<1>2. CASE "make" \in t.flags /\ "tex" \notin t.flags /\ t.picture \in Blank
  <2>1. Textured(t, granted) = [t EXCEPT !.pixel = NoPicture, !.tex = NoPicture]
    BY <1>2 DEF Textured
  <2>2. t.flags # {}
    BY <1>2
  <2> QED
    BY <1>2, <2>1, <2>2 DEF SlotType, SlotOK
<1>3. CASE "make" \in t.flags /\ "tex" \notin t.flags /\ t.picture \notin Blank /\ granted
  <2>1. Textured(t, granted)
          = [t EXCEPT !.flags = @ \cup {"tex"}, !.tex = t.pixel, !.pixel = NoPicture]
    BY <1>3 DEF Textured
  <2> DEFINE u == [picture |-> t.picture, flags |-> t.flags \cup {"tex"},
                   pixel |-> NoPicture, tex |-> t.pixel, gen |-> t.gen, work |-> t.work]
  <2>2. Textured(t, granted) = u
    BY <2>1 DEF SlotType
  <2>3. /\ "alloc" \in t.flags
        /\ t.pixel = t.picture
        /\ t.pixel # NoPicture
    BY <1>3 DEF SlotOK
  <2>4. t.pixel \in Pictures
    <3>1. t.picture \in Pictures \cup {NoPicture}
      BY DEF SlotType
    <3> QED
      BY <2>3, <3>1
  <2>5. u \in SlotType
    <3>1. t.flags \cup {"tex"} \in SUBSET Flags
      BY DEF SlotType, Flags
    <3> QED
      BY <2>4, <3>1 DEF SlotType
  <2>6. SlotOK(u)
    BY <1>3, <2>3 DEF SlotOK
  <2> QED
    <3>1. /\ u.picture = t.picture /\ u.gen = t.gen /\ u.work = t.work
          /\ u.flags = t.flags \cup {"tex"}
      OBVIOUS
    <3> HIDE DEF u
    <3> QED
      BY <1>3, <2>2, <2>5, <2>6, <3>1
<1>4. CASE "make" \in t.flags /\ "tex" \notin t.flags /\ t.picture \notin Blank /\ ~granted
  BY <1>4 DEF Textured
<1> QED
  BY <1>1, <1>2, <1>3, <1>4

\* The first two stages on an empty slot that was just given its picture.
LEMMA FreshOK ==
  ASSUME NEW t \in SlotType, SlotOK(t), t.flags = {}, NEW p \in Pictures \ Texts
  PROVE  LET r == Named(t, p)
             d == Drawn(Allocated(r), p)
         IN  /\ r \in SlotType /\ SlotOK(r)
             /\ r.work = "idle" /\ r.picture = p /\ r.flags = {"used", "sprite"}
             /\ d \in SlotType /\ SlotOK(d)
             /\ d.work = "idle" /\ d.picture = p
             /\ "make" \in d.flags /\ "text" \notin d.flags
<1> DEFINE r == [picture |-> p, flags |-> {"used", "sprite"}, pixel |-> NoPicture,
                 tex |-> NoPicture, gen |-> t.gen, work |-> "idle"]
           a == [picture |-> p, flags |-> {"used", "sprite", "alloc"}, pixel |-> Raw,
                 tex |-> NoPicture, gen |-> t.gen, work |-> "idle"]
           d == [picture |-> p, flags |-> {"used", "sprite", "alloc", "make"}, pixel |-> p,
                 tex |-> NoPicture, gen |-> t.gen, work |-> "idle"]
<1>1. t = [FreeSlot EXCEPT !.gen = t.gen]
  BY DEF SlotOK
<1>2. t = [picture |-> NoPicture, flags |-> {}, pixel |-> NoPicture,
           tex |-> NoPicture, gen |-> t.gen, work |-> "idle"]
  BY <1>1 DEF FreeSlot
<1>3. t.gen \in 1 .. GenSize - 1
  BY DEF SlotType
<1>4. /\ {"used", "sprite"} \in SUBSET Flags
      /\ {"used", "sprite", "alloc", "make"} \in SUBSET Flags
  BY DEF Flags
<1>5. Named(t, p) = r
  <2>1. /\ t.pixel = NoPicture /\ t.tex = NoPicture /\ t.work = "idle"
    BY <1>2
  <2> QED
    BY <2>1, NamedIs
<1>6. r \in SlotType /\ d \in SlotType
  BY <1>3, <1>4 DEF SlotType
<1>7. Allocated(r) = a
  <2>1. r.flags \cup {"alloc"} = {"used", "sprite", "alloc"} /\ "alloc" \notin r.flags
    OBVIOUS
  <2>2. Allocated(r) = [picture |-> r.picture, flags |-> r.flags \cup {"alloc"},
                        pixel |-> Raw, tex |-> r.tex, gen |-> r.gen, work |-> r.work]
    <3> HIDE DEF r
    <3> QED
      BY <1>6, <2>1, AllocatedIs
  <2> QED
    BY <2>1, <2>2
<1>8. Drawn(a, p) = d
  BY CacheAssumption DEF Drawn, MayDraw
<1>9. p # NoPicture
  BY CacheAssumption
<1>10. SlotOK(r)
  BY <1>9 DEF SlotOK
<1>11. SlotOK(d)
  BY <1>9 DEF SlotOK
<1>12. /\ r.work = "idle" /\ r.picture = p /\ r.flags = {"used", "sprite"}
       /\ d.work = "idle" /\ d.picture = p
       /\ "make" \in d.flags /\ "text" \notin d.flags
  OBVIOUS
<1>13. Drawn(Allocated(r), p) = d
  BY <1>7, <1>8
<1> HIDE DEF r, d
<1> QED
  BY <1>5, <1>6, <1>10, <1>11, <1>12, <1>13

(***************************************************************************)
(* What does not disturb jobs and workers.                                 *)
(***************************************************************************)

\* The part of the invariant that is not about types and the render thread.
SharedOK == SlotsOK /\ JobsOK /\ WorkersOK /\ SingleOK

\* Steps of the render thread that touch no slot.
LEMMA SharedKept ==
  ASSUME SharedOK, UNCHANGED <<multi, cache, jobs, workers>>
  PROVE  SharedOK'
BY DEF SharedOK, SlotsOK, JobsOK, WorkersOK, SingleOK, Waits, Popped, At, Fills, StageOK

\* Steps that change a slot nobody waits for or works on.
LEMMA IdleSlot ==
  ASSUME TypeOK, SharedOK, NEW s \in Slots, NEW u \in SlotType, SlotOK(u),
         cache[s].work = "idle", u.work = "idle",
         cache' = [cache EXCEPT ![s] = u], UNCHANGED <<multi, jobs, workers>>
  PROVE  SharedOK'
<1>1. /\ cache'[s] = u
      /\ \A x \in Slots : x # s => cache'[x] = cache[x]
  BY DEF TypeOK
<1>2. SlotsOK' /\ SingleOK'
  BY <1>1 DEF SharedOK, SlotsOK, SingleOK
<1>3. \A j : Waits(cache, j) => Waits(cache', j)
  BY <1>1 DEF Waits, Jobs
<1>4. JobsOK'
  BY <1>3 DEF SharedOK, JobsOK, Popped
<1>5. \A w \in Workers : At(w) => Fills(w)'
  <2> TAKE w \in Workers
  <2> HAVE At(w)
  <2>1. Fills(w)
    BY DEF SharedOK, WorkersOK
  <2>2. workers[w].job.slot # s /\ workers[w].job.slot \in Slots
    BY <2>1 DEF Fills, Jobs
  <2> QED
    BY <1>1, <2>1, <2>2 DEF Fills
<1>6. WorkersOK'
  BY <1>5 DEF SharedOK, WorkersOK, At
<1> QED
  BY <1>2, <1>4, <1>6 DEF SharedOK

\* Steps that make the texture of a slot.
LEMMA TexturedSlot ==
  ASSUME TypeOK, SharedOK, NEW s \in Slots, NEW granted \in BOOLEAN,
         "sprite" \in cache[s].flags,
         cache' = [cache EXCEPT ![s] = Textured(@, granted)],
         UNCHANGED <<multi, jobs, workers>>
  PROVE  /\ SharedOK'
         /\ cache' \in [Slots -> SlotType]
         /\ \A x \in Slots : /\ cache'[x].picture = cache[x].picture
                             /\ cache'[x].work = cache[x].work
                             /\ "make" \in cache[x].flags => "make" \in cache'[x].flags
                             /\ cache'[x].flags = {} <=> cache[x].flags = {}
                             /\ "make" \notin cache[x].flags => cache'[x] = cache[x]
<1> DEFINE u == Textured(cache[s], granted)
<1>1. /\ cache'[s] = u
      /\ \A x \in Slots : x # s => cache'[x] = cache[x]
  BY DEF TypeOK
<1>2. cache[s] \in SlotType /\ SlotOK(cache[s]) /\ "text" \notin cache[s].flags
  BY DEF TypeOK, SharedOK, SlotsOK, SlotOK
<1>3. /\ u \in SlotType /\ SlotOK(u)
      /\ u.picture = cache[s].picture /\ u.gen = cache[s].gen /\ u.work = cache[s].work
      /\ cache[s].flags \subseteq u.flags
      /\ "make" \notin cache[s].flags => u = cache[s]
      /\ u.flags = {} <=> cache[s].flags = {}
  BY <1>2, TexturedOK
<1> HIDE DEF u
<1>4. /\ SlotsOK' /\ SingleOK' /\ cache' \in [Slots -> SlotType]
      /\ \A x \in Slots : /\ cache'[x].picture = cache[x].picture
                          /\ cache'[x].work = cache[x].work
                          /\ cache'[x].gen = cache[x].gen
                          /\ cache[x].flags \subseteq cache'[x].flags
                          /\ cache'[x].flags = {} <=> cache[x].flags = {}
                          /\ "make" \notin cache[x].flags => cache'[x] = cache[x]
  BY <1>1, <1>3 DEF SharedOK, SlotsOK, SingleOK, TypeOK
<1>5. \A j : Waits(cache, j) => Waits(cache', j)
  BY <1>4 DEF Waits, Jobs
<1>6. JobsOK'
  BY <1>5 DEF SharedOK, JobsOK, Popped
<1>7. \A w \in Workers : At(w) => Fills(w)'
  <2> TAKE w \in Workers
  <2> HAVE At(w)
  <2>1. Fills(w)
    BY DEF SharedOK, WorkersOK
  <2>2. workers[w].job.slot \in Slots
    BY <2>1 DEF Fills, Jobs
  <2> QED
    BY <1>4, <2>1, <2>2 DEF Fills, StageOK
<1>8. WorkersOK'
  BY <1>7 DEF SharedOK, WorkersOK, At
<1> QED
  BY <1>4, <1>6, <1>8 DEF SharedOK

(***************************************************************************)
(* The steps of the render thread.                                         *)
(***************************************************************************)

\* What a step of the render thread has to show beyond the shared part.
LEMMA MainStep ==
  ASSUME TypeOK, SharedOK', cache' \in [Slots -> SlotType], lru' \in UseType,
         images' \in [Images -> {"unloaded", "loading", "ready"}],
         main' \in MainType, MainOK', prework' \in Nat,
         UNCHANGED <<multi, jobs, workers>>
  PROVE  CacheInv'
BY DEF TypeOK, CacheInv, SharedOK

\* The position of the render thread, field by field.
LEMMA MainEdit ==
  ASSUME NEW m \in MainType, NEW x, NEW y
  PROVE  /\ [m EXCEPT !.pc = x, !.slot = y]
              = [pc |-> x, picture |-> m.picture, preload |-> m.preload,
                 slot |-> y, tries |-> m.tries]
         /\ [m EXCEPT !.slot = y, !.tries = m.tries + 1, !.pc = x]
              = [pc |-> x, picture |-> m.picture, preload |-> m.preload,
                 slot |-> y, tries |-> m.tries + 1]
<1> DEFINE any == [pc : {m.pc, x}, picture : {m.picture}, preload : {m.preload},
                   slot : {m.slot, y}, tries : {m.tries, m.tries + 1}]
           o == [m EXCEPT !.pc = x]
           n == [m EXCEPT !.slot = y]
           k == [n EXCEPT !.tries = m.tries + 1]
<1>1. m = [pc |-> m.pc, picture |-> m.picture, preload |-> m.preload,
           slot |-> m.slot, tries |-> m.tries]
  BY DEF MainType
<1>2. m \in any
  BY <1>1
<1>3. o = [pc |-> x, picture |-> m.picture, preload |-> m.preload,
           slot |-> m.slot, tries |-> m.tries]
  BY <1>2
<1>4. o \in any
  BY <1>3
<1>5. n = [pc |-> m.pc, picture |-> m.picture, preload |-> m.preload,
           slot |-> y, tries |-> m.tries]
  BY <1>2
<1>6. n \in any
  BY <1>5
<1>7. k = [pc |-> m.pc, picture |-> m.picture, preload |-> m.preload,
           slot |-> y, tries |-> m.tries + 1]
  <2>1. k = [pc |-> n.pc, picture |-> n.picture, preload |-> n.preload,
             slot |-> n.slot, tries |-> m.tries + 1]
    <3> HIDE DEF n
    <3> QED
      BY <1>6
  <2> QED
    BY <1>5, <2>1
<1>8. k \in any
  BY <1>7
<1>9. /\ [m EXCEPT !.pc = x, !.slot = y] = [o EXCEPT !.slot = y]
      /\ [m EXCEPT !.slot = y, !.tries = m.tries + 1, !.pc = x] = [k EXCEPT !.pc = x]
  OBVIOUS
<1> HIDE DEF o, n, k
<1>10. /\ [o EXCEPT !.slot = y] = [pc |-> o.pc, picture |-> o.picture,
                                  preload |-> o.preload, slot |-> y, tries |-> o.tries]
       /\ [k EXCEPT !.pc = x] = [pc |-> x, picture |-> k.picture,
                                preload |-> k.preload, slot |-> k.slot, tries |-> k.tries]
  BY <1>4, <1>8
<1> QED
  BY <1>3, <1>7, <1>9, <1>10

\* Finding a picture.
LEMMA HitStep ==
  ASSUME CacheInv, NEW p \in Pictures, Hit(p)
  PROVE  CacheInv'
<1> DEFINE s == Lookup(p)
<1>1. s \in Slots /\ cache[s].picture = p
  BY LookupFinds DEF Hit
<1>2. TypeOK /\ SharedOK /\ UNCHANGED <<multi, cache, images, jobs, prework, workers>>
  BY DEF CacheInv, SharedOK, Hit
<1>3. SharedOK'
  BY <1>2, SharedKept
<1>4. /\ cache' \in [Slots -> SlotType] /\ prework' \in Nat /\ lru \in UseType
      /\ images' \in [Images -> {"unloaded", "loading", "ready"}]
  BY <1>2 DEF TypeOK
<1> HIDE DEF s
<1>5. CASE p \in Texts
  <2>1. main' = [Resting EXCEPT !.pc = "show", !.picture = p, !.slot = s] /\ lru' = Best(lru, s)
    BY <1>5 DEF Hit, s
  <2>2. lru' \in UseType
    BY <1>1, <1>2, <2>1, BestType DEF TypeOK
  <2>3. main' = [pc |-> "show", picture |-> p, preload |-> FALSE, slot |-> s, tries |-> 0]
    BY <2>1 DEF Resting
  <2>4. "make" \in cache[s].flags
    BY <1>1, <1>2, <1>5, EmptyHasNone DEF SharedOK, SlotsOK, SlotOK
  <2>5. main' \in MainType
    BY <1>1, <2>3 DEF MainType
  <2>6. MainOK'
    BY <1>1, <1>2, <1>5, <2>3, <2>4 DEF MainOK
  <2> QED
    BY <1>2, <1>3, <1>4, <2>2, <2>5, <2>6, MainStep
<1>6. CASE p \notin Texts
  <2>1. main' = [Resting EXCEPT !.pc = "wait", !.picture = p, !.slot = s] /\ lru' = lru
    BY <1>6 DEF Hit, s
  <2>2. main' = [pc |-> "wait", picture |-> p, preload |-> FALSE, slot |-> s, tries |-> 0]
    BY <2>1 DEF Resting
  <2>3. main' \in MainType
    BY <1>1, <2>2 DEF MainType
  <2>4. MainOK'
    BY <1>1, <1>2, <1>6, <2>2 DEF MainOK
  <2> QED
    BY <1>2, <1>3, <1>4, <2>1, <2>3, <2>4, MainStep
<1> QED
  BY <1>5, <1>6

\* Steps that change neither slots nor lists.
LEMMA MoveStep ==
  ASSUME CacheInv, UNCHANGED <<multi, cache, lru, jobs, workers>>,
         images' \in [Images -> {"unloaded", "loading", "ready"}],
         main' \in MainType, MainOK', prework' \in Nat
  PROVE  CacheInv'
<1>1. TypeOK /\ SharedOK
  BY DEF CacheInv, SharedOK
<1>2. SharedOK'
  BY <1>1, SharedKept
<1>3. cache' \in [Slots -> SlotType] /\ lru' \in UseType
  BY <1>1 DEF TypeOK
<1> QED
  BY <1>1, <1>2, <1>3, MainStep

LEMMA MissStep ==
  ASSUME CacheInv, NEW p \in Pictures, NEW preload \in BOOLEAN, Miss(p, preload)
  PROVE  CacheInv'
<1>1. /\ main' = [pc |-> "scan", picture |-> p, preload |-> preload,
                  slot |-> lru.last, tries |-> 0]
      /\ UNCHANGED <<multi, cache, lru, images, jobs, prework, workers>>
  BY DEF Miss
<1>2. lru.last \in Slots /\ TypeOK
  BY DEF CacheInv, TypeOK, UseType
<1>3. main' \in MainType
  BY <1>1, <1>2 DEF MainType
<1>4. MainOK'
  BY <1>1, <1>2 DEF MainOK
<1>5. images' \in [Images -> {"unloaded", "loading", "ready"}] /\ prework' \in Nat
  BY <1>1, <1>2 DEF TypeOK
<1> QED
  BY <1>1, <1>3, <1>4, <1>5, MoveStep

\* Going on to rest.
LEMMA RestStep ==
  ASSUME CacheInv, main' = Resting, prework' \in Nat,
         UNCHANGED <<multi, cache, lru, images, jobs, workers>>
  PROVE  CacheInv'
<1>1. main' \in MainType /\ MainOK'
  BY DEF MainType, MainOK, Resting
<1>2. images' \in [Images -> {"unloaded", "loading", "ready"}]
  BY DEF CacheInv, TypeOK
<1> QED
  BY <1>1, <1>2, MoveStep

LEMMA ScanStep ==
  ASSUME CacheInv, Scan
  PROVE  CacheInv'
<1> DEFINE s == main.slot
           busy == multi /\ "sprite" \in cache[s].flags /\ cache[s].work # "idle"
           p == lru.prev[s]
<1>1. /\ TypeOK /\ SharedOK /\ MainOK
      /\ main.pc = "scan"
      /\ UNCHANGED <<multi, cache, lru, images, jobs, prework, workers>>
  BY DEF CacheInv, SharedOK, Scan
<1>2. main \in MainType /\ s \in Slots /\ main.picture \in Pictures
      /\ p \in Slots \cup {NoSlot}
  BY <1>1 DEF TypeOK, MainOK, UseType
<1>3. images' \in [Images -> {"unloaded", "loading", "ready"}] /\ prework' \in Nat
  BY <1>1 DEF TypeOK
<1>4. CASE cache[s].flags = {}
  <2>1. main' = [main EXCEPT !.pc = "load"]
    BY <1>4 DEF Scan
  <2>2. main' \in MainType /\ MainOK'
    BY <1>1, <1>2, <1>4, <2>1 DEF MainType, MainOK
  <2> QED
    BY <1>1, <1>3, <2>2, MoveStep
<1>5. CASE cache[s].flags # {} /\ ~busy
  <2>1. main' = [main EXCEPT !.pc = "evict"]
    BY <1>5 DEF Scan
  <2>2. cache[s].work = "idle"
    BY <1>1, <1>2, <1>5 DEF SharedOK, SingleOK, SlotsOK, SlotOK
  <2>3. main' \in MainType /\ MainOK'
    BY <1>1, <1>2, <1>5, <2>1, <2>2 DEF MainType, MainOK
  <2> QED
    BY <1>1, <1>3, <2>3, MoveStep
<1>6. CASE cache[s].flags # {} /\ busy
  <2> DEFINE exhausted == main.tries + 1 = Attempts
  <2>1. CASE p = NoSlot \/ (exhausted /\ cache[p].flags # {})
    <3>1. NoRoom
      BY <1>6, <2>1 DEF Scan
    <3>2. CASE main.picture \in Texts
      <4>1. main' = [main EXCEPT !.pc = "show", !.slot = NoSlot]
        BY <3>1, <3>2 DEF NoRoom
      <4>2. main' = [pc |-> "show", picture |-> main.picture, preload |-> main.preload,
                     slot |-> NoSlot, tries |-> main.tries]
        BY <1>2, <4>1, MainEdit
      <4>3. main' \in MainType /\ MainOK'
        BY <1>2, <4>2 DEF MainType, MainOK
      <4> QED
        BY <1>1, <1>3, <4>3, MoveStep
    <3>3. CASE main.picture \notin Texts
      BY <1>1, <1>3, <3>1, <3>3, RestStep DEF NoRoom
    <3> QED
      BY <3>2, <3>3
  <2>2. CASE p # NoSlot /\ ~(exhausted /\ cache[p].flags # {})
    <3> DEFINE pc == IF exhausted THEN "load" ELSE "scan"
    <3>1. main' = [main EXCEPT !.slot = p, !.tries = @ + 1, !.pc = pc]
      BY <1>6, <2>2 DEF Scan
    <3>2. main' = [pc |-> pc, picture |-> main.picture, preload |-> main.preload,
                   slot |-> p, tries |-> main.tries + 1]
      BY <1>2, <3>1, MainEdit
    <3>3. main' \in MainType
      BY <1>2, <2>2, <3>2 DEF MainType
    <3>4. MainOK'
      BY <1>1, <1>2, <2>2, <3>2 DEF MainOK
    <3> QED
      BY <1>1, <1>3, <3>3, <3>4, MoveStep
  <2> QED
    BY <2>1, <2>2
<1> QED
  BY <1>4, <1>5, <1>6

\* Steps that change an idle slot and leave it idle.
LEMMA SlotStep ==
  ASSUME CacheInv, NEW u \in SlotType, SlotOK(u), main.slot \in Slots,
         cache[main.slot].work = "idle", u.work = "idle",
         cache' = [cache EXCEPT ![main.slot] = u], lru' \in UseType,
         main' \in MainType, MainOK',
         UNCHANGED <<multi, images, jobs, prework, workers>>
  PROVE  CacheInv'
<1>1. TypeOK /\ SharedOK
  BY DEF CacheInv, SharedOK
<1>2. SharedOK'
  BY <1>1, IdleSlot
<1>3. /\ cache' \in [Slots -> SlotType] /\ prework' \in Nat
      /\ images' \in [Images -> {"unloaded", "loading", "ready"}]
  BY <1>1 DEF TypeOK
<1> QED
  BY <1>1, <1>2, <1>3, MainStep

LEMMA EvictStep ==
  ASSUME CacheInv, Evict
  PROVE  CacheInv'
<1> DEFINE s == main.slot
           g == (cache[s].gen + 1) % GenSize
           h == IF g = 0 THEN 1 ELSE g
           u == [FreeSlot EXCEPT !.gen = h]
<1>1. /\ TypeOK /\ MainOK /\ main.pc = "evict"
      /\ cache' = [cache EXCEPT ![s] = u]
      /\ main' = [main EXCEPT !.pc = "load"]
      /\ UNCHANGED <<multi, lru, images, jobs, prework, workers>>
  BY DEF CacheInv, Evict
<1>2. /\ s \in Slots /\ main.picture \in Pictures /\ main \in MainType
      /\ cache[s].work = "idle" /\ lru' \in UseType /\ cache[s].gen \in 1 .. GenSize - 1
  BY <1>1 DEF TypeOK, MainOK, SlotType
<1>3. h \in 1 .. GenSize - 1
  <2>1. g \in 0 .. GenSize - 1
    BY <1>2, CacheAssumption
  <2> QED
    BY <2>1, CacheAssumption
<1>4. u = [picture |-> NoPicture, flags |-> {}, pixel |-> NoPicture,
           tex |-> NoPicture, gen |-> h, work |-> "idle"]
  BY DEF FreeSlot
<1>5. u \in SlotType
  <2> HIDE DEF u, h
  <2> QED
    BY <1>3, <1>4 DEF SlotType
<1>6. SlotOK(u)
  <2>1. u.gen = h /\ u.flags = {} /\ u.tex = NoPicture /\ u.pixel = NoPicture
        /\ u.work = "idle" /\ u.picture = NoPicture /\ u = [FreeSlot EXCEPT !.gen = h]
    BY <1>4
  <2> HIDE DEF u, h
  <2> QED
    BY <2>1 DEF SlotOK
<1>7. cache'[s] = u /\ u.flags = {} /\ u.work = "idle"
  BY <1>1, <1>2, <1>4 DEF TypeOK
<1>8. main' \in MainType /\ MainOK'
  BY <1>1, <1>2, <1>7 DEF MainType, MainOK
<1> HIDE DEF u
<1> QED
  BY <1>1, <1>2, <1>5, <1>6, <1>7, <1>8, SlotStep

\* What the render thread knows when it has found an empty slot.
LEMMA AtLoad ==
  ASSUME CacheInv, main.pc = "load"
  PROVE  /\ main.slot \in Slots /\ main.picture \in Pictures /\ main \in MainType
         /\ cache[main.slot] \in SlotType /\ SlotOK(cache[main.slot])
         /\ cache[main.slot].flags = {} /\ cache[main.slot].work = "idle"
         /\ Best(lru, main.slot) \in UseType
<1>1. /\ main.slot \in Slots /\ main.picture \in Pictures /\ main \in MainType
      /\ cache[main.slot] \in SlotType /\ SlotOK(cache[main.slot])
      /\ cache[main.slot].flags = {} /\ lru \in UseType
  BY DEF CacheInv, TypeOK, MainOK, SlotsOK
<1>2. Best(lru, main.slot) \in UseType
  BY <1>1, BestType
<1> QED
  BY <1>1, <1>2 DEF SlotOK

\* An empty slot that is given a text, field by field.
Lettered(t, p, x, F) == [t EXCEPT !.picture = p, !.tex = x, !.flags = F]

LEMMA TextIs ==
  ASSUME NEW t \in SlotType, SlotOK(t), t.flags = {}, NEW p, NEW x, NEW F
  PROVE  Lettered(t, p, x, F)
            = [picture |-> p, flags |-> F, pixel |-> NoPicture, tex |-> x,
               gen |-> t.gen, work |-> "idle"]
<1> DEFINE b == [t EXCEPT !.picture = p]
           o == [t EXCEPT !.picture = p, !.tex = x]
<1>1. t = [picture |-> NoPicture, flags |-> {}, pixel |-> NoPicture,
           tex |-> NoPicture, gen |-> t.gen, work |-> "idle"]
  BY DEF SlotOK, FreeSlot
<1>2. b = [picture |-> p, flags |-> {}, pixel |-> NoPicture, tex |-> NoPicture,
           gen |-> t.gen, work |-> "idle"]
  BY <1>1
<1>3. o = [b EXCEPT !.tex = x]
  OBVIOUS
<1>4. Lettered(t, p, x, F) = [o EXCEPT !.flags = F]
  BY DEF Lettered
<1> HIDE DEF b, o
<1>5. o = [picture |-> p, flags |-> {}, pixel |-> NoPicture, tex |-> x,
           gen |-> t.gen, work |-> "idle"]
  BY <1>2, <1>3
<1> QED
  BY <1>4, <1>5

LEMMA BuildTextStep ==
  ASSUME CacheInv, NEW granted \in BOOLEAN, BuildText(granted)
  PROVE  CacheInv'
<1> DEFINE s == main.slot
           p == main.picture
           flags == {"used", "text", "alloc", "make"}
           x == IF granted THEN p ELSE NoPicture
           F == IF granted THEN flags \cup {"tex"} ELSE flags
           u == [picture |-> p, flags |-> F, pixel |-> NoPicture, tex |-> x,
                 gen |-> cache[s].gen, work |-> "idle"]
<1>1. /\ main.pc = "load" /\ p \in Texts
      /\ cache' = [cache EXCEPT ![s] = [@ EXCEPT !.picture = p, !.tex = x, !.flags = F]]
      /\ lru' = Best(lru, s)
      /\ main' = [main EXCEPT !.pc = "show"]
      /\ UNCHANGED <<multi, images, jobs, prework, workers>>
  BY DEF BuildText, Linked
<1>2. /\ s \in Slots /\ p \in Pictures /\ main \in MainType
      /\ cache[s] \in SlotType /\ SlotOK(cache[s])
      /\ cache[s].flags = {} /\ cache[s].work = "idle"
      /\ lru' \in UseType
  BY <1>1, AtLoad
<1>3. [cache[s] EXCEPT !.picture = p, !.tex = x, !.flags = F] = u
  <2> HIDE DEF x, F
  <2>1. Lettered(cache[s], p, x, F) = u
    BY <1>2, TextIs
  <2> QED
    BY <2>1 DEF Lettered
<1>4. u \in SlotType
  <2>1. F \in SUBSET Flags /\ x \in Pictures \cup {NoPicture} /\ cache[s].gen \in 1 .. GenSize - 1
    BY <1>2 DEF Flags, SlotType
  <2> HIDE DEF x, F
  <2> QED
    BY <1>2, <2>1 DEF SlotType
<1>5. SlotOK(u)
  <2>1. CASE granted
    BY <1>1, <1>2, <2>1, CacheAssumption DEF SlotOK
  <2>2. CASE ~granted
    BY <1>1, <1>2, <2>2, CacheAssumption DEF SlotOK
  <2> QED
    BY <2>1, <2>2
<1>6. u.picture = p /\ "make" \in u.flags /\ u.work = "idle"
  OBVIOUS
<1> HIDE DEF u
<1>7. cache' = [cache EXCEPT ![s] = u] /\ cache'[s] = u
  BY <1>1, <1>2, <1>3 DEF CacheInv, TypeOK
<1>8. main' \in MainType /\ MainOK'
  BY <1>1, <1>2, <1>6, <1>7 DEF MainType, MainOK
<1> QED
  BY <1>1, <1>2, <1>4, <1>5, <1>6, <1>7, <1>8, SlotStep

\* Sprites: drawn at once, prepared at once, or left to the workers.
LEMMA BuildSpriteStep ==
  ASSUME CacheInv, NEW granted \in BOOLEAN, BuildSprite(granted)
  PROVE  CacheInv'
<1> DEFINE s == main.slot
           p == main.picture
           d == Drawn(Allocated(Named(cache[s], p)), p)
           u == Textured(d, granted)
<1>1. /\ main.pc = "load" /\ p \notin Texts
      /\ cache' = [cache EXCEPT ![s] = u]
      /\ lru' = Best(lru, s)
      /\ main' = [main EXCEPT !.pc = "show"]
      /\ UNCHANGED <<multi, images, jobs, prework, workers>>
  BY DEF BuildSprite, Linked
<1>2. /\ s \in Slots /\ p \in Pictures /\ main \in MainType
      /\ cache[s] \in SlotType /\ SlotOK(cache[s])
      /\ cache[s].flags = {} /\ cache[s].work = "idle"
      /\ lru' \in UseType
  BY <1>1, AtLoad
<1>3. /\ d \in SlotType /\ SlotOK(d) /\ d.work = "idle" /\ d.picture = p
      /\ "make" \in d.flags /\ "text" \notin d.flags
  BY <1>1, <1>2, FreshOK
<1> HIDE DEF d
<1>4. /\ u \in SlotType /\ SlotOK(u) /\ u.work = "idle" /\ u.picture = p
      /\ "make" \in u.flags
  BY <1>3, TexturedOK
<1> HIDE DEF u
<1>5. cache'[s] = u
  BY <1>1, <1>2 DEF CacheInv, TypeOK
<1>6. main' \in MainType /\ MainOK'
  BY <1>1, <1>2, <1>4, <1>5 DEF MainType, MainOK
<1> QED
  BY <1>1, <1>2, <1>4, <1>6, SlotStep

LEMMA PrepareSpriteStep ==
  ASSUME CacheInv, PrepareSprite
  PROVE  CacheInv'
<1> DEFINE s == main.slot
           p == main.picture
           d == Drawn(Allocated(Named(cache[s], p)), p)
<1>1. /\ main.pc = "load" /\ p \notin Texts
      /\ cache' = [cache EXCEPT ![s] = d]
      /\ lru' = Best(lru, s)
      /\ main' = Resting
      /\ UNCHANGED <<multi, images, jobs, prework, workers>>
  BY DEF PrepareSprite, Linked
<1>2. /\ s \in Slots /\ p \in Pictures
      /\ cache[s] \in SlotType /\ SlotOK(cache[s])
      /\ cache[s].flags = {} /\ cache[s].work = "idle"
      /\ lru' \in UseType
  BY <1>1, AtLoad
<1>3. d \in SlotType /\ SlotOK(d) /\ d.work = "idle"
  BY <1>1, <1>2, FreshOK
<1> HIDE DEF d
<1>4. main' \in MainType /\ MainOK'
  BY <1>1 DEF MainType, MainOK, Resting
<1> QED
  BY <1>1, <1>2, <1>3, <1>4, SlotStep

LEMMA ReserveSpriteStep ==
  ASSUME CacheInv, ReserveSprite
  PROVE  CacheInv'
<1> DEFINE s == main.slot
           p == main.picture
           r == Named(cache[s], p)
<1>1. /\ main.pc = "load" /\ p \notin Texts /\ multi
      /\ cache' = [cache EXCEPT ![s] = r]
      /\ lru' = Best(lru, s)
      /\ main' = [main EXCEPT !.pc = "enqueue"]
      /\ UNCHANGED <<multi, images, jobs, prework, workers>>
  BY DEF ReserveSprite, Linked
<1>2. /\ s \in Slots /\ p \in Pictures /\ main \in MainType
      /\ cache[s] \in SlotType /\ SlotOK(cache[s])
      /\ cache[s].flags = {} /\ cache[s].work = "idle"
      /\ lru' \in UseType
  BY <1>1, AtLoad
<1>3. /\ r \in SlotType /\ SlotOK(r) /\ r.work = "idle" /\ r.picture = p
      /\ r.flags = {"used", "sprite"}
  BY <1>1, <1>2, FreshOK
<1> HIDE DEF r
<1>4. cache'[s] = r
  BY <1>1, <1>2 DEF CacheInv, TypeOK
<1>5. main' \in MainType /\ MainOK'
  BY <1>1, <1>2, <1>3, <1>4 DEF MainType, MainOK
<1> QED
  BY <1>1, <1>2, <1>3, <1>5, SlotStep

\* The render thread loads an image.
LEMMA LoadSteps ==
  ASSUME CacheInv, LoadImage \/ ImageLoaded
  PROVE  CacheInv'
<1>1. /\ TypeOK /\ MainOK /\ main.pc \in {"load", "loading"} /\ main.picture \notin Texts
      /\ \/ main' = [main EXCEPT !.pc = "loading"]
         \/ main' = [main EXCEPT !.pc = "load"]
      /\ UNCHANGED <<multi, cache, lru, jobs, prework, workers>>
  BY DEF CacheInv, LoadImage, ImageLoaded, MainOK
<1>2. images' \in [Images -> {"unloaded", "loading", "ready"}] /\ prework' \in Nat
  BY <1>1 DEF TypeOK, LoadImage, ImageLoaded
<1>3. main \in MainType /\ main.slot \in Slots /\ main.picture \in Pictures
      /\ cache[main.slot].flags = {}
  BY <1>1 DEF TypeOK, MainOK
<1>4. main' \in MainType /\ MainOK'
  BY <1>1, <1>3 DEF MainType, MainOK
<1> QED
  BY <1>1, <1>2, <1>4, MoveStep

\* The render thread makes the texture of a slot it waited for.
LEMMA ReadyStep ==
  ASSUME CacheInv, NEW granted \in BOOLEAN, Ready(granted)
  PROVE  CacheInv'
<1> DEFINE s == main.slot
<1>1. /\ TypeOK /\ SharedOK /\ MainOK /\ main.pc = "wait" /\ "make" \in cache[s].flags
      /\ cache' = [cache EXCEPT ![s] = Textured(@, granted)]
      /\ lru' = Best(lru, s)
      /\ main' = [main EXCEPT !.pc = "show"]
      /\ UNCHANGED <<multi, images, jobs, prework, workers>>
  BY DEF CacheInv, SharedOK, Ready
<1>2. /\ s \in Slots /\ main.picture \in Pictures \ Texts /\ main \in MainType
      /\ cache[s].picture = main.picture /\ lru \in UseType
  BY <1>1 DEF TypeOK, MainOK
<1>3. "sprite" \in cache[s].flags
  BY <1>1, <1>2 DEF SharedOK, SlotsOK, SlotOK
<1>4. /\ SharedOK' /\ cache' \in [Slots -> SlotType]
      /\ cache'[s].picture = main.picture /\ "make" \in cache'[s].flags
  BY <1>1, <1>2, <1>3, TexturedSlot
<1>5. main' \in MainType /\ MainOK'
  BY <1>1, <1>2, <1>4 DEF MainType, MainOK
<1>6. lru' \in UseType /\ prework' \in Nat
      /\ images' \in [Images -> {"unloaded", "loading", "ready"}]
  BY <1>1, <1>2, BestType DEF TypeOK
<1> QED
  BY <1>1, <1>4, <1>5, <1>6, MainStep

\* ... or of any slot between two frames.
LEMMA UploadStep ==
  ASSUME CacheInv, NEW s \in Slots, NEW granted \in BOOLEAN, Upload(s, granted)
  PROVE  CacheInv'
<1>1. /\ TypeOK /\ SharedOK /\ MainOK /\ main.pc = "idle" /\ "sprite" \in cache[s].flags
      /\ cache' = [cache EXCEPT ![s] = Textured(@, granted)]
      /\ UNCHANGED <<multi, lru, images, jobs, prework, main, workers>>
  BY DEF CacheInv, SharedOK, Upload
<1>2. SharedOK' /\ cache' \in [Slots -> SlotType]
  BY <1>1, TexturedSlot
<1>3. main' \in MainType /\ MainOK'
  BY <1>1 DEF TypeOK, MainOK
<1>4. lru' \in UseType /\ prework' \in Nat
      /\ images' \in [Images -> {"unloaded", "loading", "ready"}]
  BY <1>1 DEF TypeOK
<1> QED
  BY <1>1, <1>2, <1>3, <1>4, MainStep

\* A slot whose state of work changes, field by field.
LEMMA WorkOK ==
  ASSUME NEW t \in SlotType, SlotOK(t), NEW x \in {"idle", "queued", "in_worker"},
         "sprite" \in t.flags
  PROVE  LET u == [t EXCEPT !.work = x]
         IN  /\ u \in SlotType /\ SlotOK(u) /\ u.work = x
             /\ u.picture = t.picture /\ u.flags = t.flags /\ u.gen = t.gen
             /\ u.pixel = t.pixel /\ u.tex = t.tex
<1> DEFINE u == [t EXCEPT !.work = x]
<1>1. u = [picture |-> t.picture, flags |-> t.flags, pixel |-> t.pixel,
           tex |-> t.tex, gen |-> t.gen, work |-> x]
  BY DEF SlotType
<1>2. u \in SlotType
  BY DEF SlotType
<1>3. /\ u.work = x /\ u.picture = t.picture /\ u.flags = t.flags /\ u.gen = t.gen
      /\ u.pixel = t.pixel /\ u.tex = t.tex
  BY <1>1
<1> HIDE DEF u
<1>4. SlotOK(u)
  BY <1>3 DEF SlotOK
<1> QED
  BY <1>2, <1>3, <1>4 DEF u

\* A job joins the queue.
LEMMA EnqueueStep ==
  ASSUME CacheInv, Enqueue
  PROVE  CacheInv'
<1> DEFINE s == main.slot
           j == [slot |-> s, gen |-> cache[s].gen]
           u == [cache[s] EXCEPT !.work = "queued"]
<1>1. /\ TypeOK /\ SharedOK /\ MainOK /\ main.pc = "enqueue"
      /\ s \in Slots /\ cache[s].work = "idle" /\ multi
      /\ cache[s].flags = {"used", "sprite"} /\ main.picture \in Pictures
  BY DEF CacheInv, SharedOK, MainOK, Enqueue
<1>2. /\ jobs' = Append(jobs, j)
      /\ cache' = [cache EXCEPT ![s] = u]
      /\ main' = [main EXCEPT !.pc = "signal"]
      /\ UNCHANGED <<multi, lru, images, prework, workers>>
  BY <1>1 DEF Enqueue
<1>3. cache \in [Slots -> SlotType] /\ cache[s] \in SlotType /\ jobs \in Seq(Jobs)
      /\ main \in MainType
  BY <1>1 DEF TypeOK
<1>4. j \in Jobs
  BY <1>1, <1>3 DEF Jobs, SlotType
<1>5. /\ u \in SlotType /\ SlotOK(u) /\ u.work = "queued"
      /\ u.flags = {"used", "sprite"} /\ u.gen = cache[s].gen
  BY <1>1, <1>3, WorkOK DEF SharedOK, SlotsOK
<1>6. cache'[s] = u /\ \A x \in Slots : x # s => cache'[x] = cache[x]
  BY <1>1, <1>2, <1>3
<1> HIDE DEF u
<1>7. TypeOK'
  <2>1. cache' \in [Slots -> SlotType]
    BY <1>2, <1>3, <1>5
  <2>2. jobs' \in Seq(Jobs)
    BY <1>2, <1>3, <1>4, AppendProperties
  <2>3. main' \in MainType
    BY <1>2, <1>3 DEF MainType
  <2> QED
    BY <1>1, <1>2, <2>1, <2>2, <2>3 DEF TypeOK
<1>8. SlotsOK' /\ SingleOK'
  BY <1>1, <1>2, <1>5, <1>6 DEF SharedOK, SlotsOK, SingleOK
<1>9. /\ Len(jobs') = Len(jobs) + 1 /\ jobs'[Len(jobs) + 1] = j
      /\ \A i \in 1 .. Len(jobs) : jobs'[i] = jobs[i]
  BY <1>2, <1>3, <1>4, AppendProperties
<1>10. \A k : Waits(cache, k) => k.slot # s /\ Waits(cache', k)
  BY <1>1, <1>6 DEF Waits, Jobs
<1>11. Waits(cache', j)
  BY <1>4, <1>5, <1>6 DEF Waits
<1>12. JobsOK'
  <2>1. Len(jobs) \in Nat
    BY <1>3, LenProperties
  <2>2. \A i \in 1 .. Len(jobs') : i \in 1 .. Len(jobs) \/ i = Len(jobs) + 1
    BY <1>9, <2>1
  <2> HIDE DEF j
  <2>3. /\ \A i \in 1 .. Len(jobs) : Waits(cache, jobs[i])
        /\ \A w \in Workers : Popped(w) => Waits(cache, workers[w].job)
    BY <1>1 DEF SharedOK, JobsOK
  <2>4. \A i \in 1 .. Len(jobs') : Waits(cache', jobs'[i])
    BY <1>9, <1>10, <1>11, <2>2, <2>3
  <2>5. j.slot = s
    BY DEF j
  <2>6. \A i, k \in 1 .. Len(jobs') : i # k => jobs'[i].slot # jobs'[k].slot
    BY <1>1, <1>9, <1>10, <2>2, <2>3, <2>5 DEF SharedOK, JobsOK
  <2>7. \A w \in Workers : Popped(w) =>
          /\ Waits(cache', workers[w].job)
          /\ \A i \in 1 .. Len(jobs') : workers[w].job.slot # jobs'[i].slot
    BY <1>1, <1>9, <1>10, <2>2, <2>3, <2>5 DEF SharedOK, JobsOK
  <2> QED
    BY <1>1, <1>2, <2>4, <2>6, <2>7 DEF SharedOK, JobsOK, Popped
<1>13. WorkersOK'
  <2>1. \A w \in Workers : At(w) => Fills(w)'
    BY <1>1, <1>2, <1>6 DEF SharedOK, WorkersOK, Fills, Jobs
  <2> QED
    BY <1>1, <1>2, <2>1 DEF SharedOK, WorkersOK, At
<1>14. MainOK'
  BY <1>1, <1>2, <1>3 DEF MainOK, MainType
<1> QED
  BY <1>7, <1>8, <1>12, <1>13, <1>14 DEF CacheInv

(***************************************************************************)
(* The steps of the workers.                                               *)
(***************************************************************************)

\* Nobody but the workers moves, and there are workers.
WorkerOnly == UNCHANGED <<multi, lru, main>> /\ multi

\* The render thread does not notice what a worker does with its slot.
LEMMA MainKept ==
  ASSUME CacheInv, NEW s \in Slots, NEW u \in SlotType,
         cache[s].work # "idle", cache[s].flags \subseteq u.flags,
         u.picture = cache[s].picture,
         cache' = [cache EXCEPT ![s] = u], WorkerOnly
  PROVE  MainOK'
<1>1. /\ MainOK /\ main' = main /\ multi' = multi
      /\ cache'[s] = u /\ \A x \in Slots : x # s => cache'[x] = cache[x]
      /\ cache[s].flags # {}
  BY DEF CacheInv, WorkerOnly, TypeOK, SlotsOK, SlotOK
<1> QED
  BY <1>1 DEF MainOK

\* The types are kept when the variables of a worker's step keep theirs.
LEMMA WorkerTypes ==
  ASSUME CacheInv, WorkerOnly, cache' \in [Slots -> SlotType], jobs' \in Seq(Jobs),
         images' \in [Images -> {"unloaded", "loading", "ready"}],
         prework' \in Nat, workers' \in [Workers -> WorkerType]
  PROVE  TypeOK'
BY DEF CacheInv, TypeOK, WorkerOnly

\* A worker moves without touching a slot or taking a job: its job and its
\* picture stay, and it stays among those that fill a slot or those that do
\* not.
LEMMA PlainStep ==
  ASSUME CacheInv, NEW w \in Workers, NEW pc \in {"asleep", "pop", "load", "loading",
                                                 "draw", "drawing", "done"},
         workers' = [workers EXCEPT ![w].pc = pc],
         images' \in [Images -> {"unloaded", "loading", "ready"}], prework' \in Nat,
         WorkerOnly, UNCHANGED <<cache, jobs>>,
         pc \in {"asleep", "pop"} => ~At(w) /\ ~Popped(w),
         pc \notin {"asleep", "pop"} =>
           At(w) /\ StageOK(pc, cache[workers[w].job.slot])
  PROVE  CacheInv'
<1>1. TypeOK /\ SlotsOK /\ JobsOK /\ WorkersOK /\ SingleOK /\ MainOK
  BY DEF CacheInv
<1>2. /\ workers'[w].pc = pc /\ workers'[w].job = workers[w].job
      /\ workers'[w].picture = workers[w].picture
      /\ \A v \in Workers : v # w => workers'[v] = workers[v]
      /\ workers' \in [Workers -> WorkerType]
  BY <1>1 DEF TypeOK, WorkerType
<1>3. TypeOK'
  BY <1>1, <1>2, WorkerTypes DEF TypeOK
<1>4. SlotsOK' /\ SingleOK' /\ MainOK'
  BY <1>1 DEF SlotsOK, SingleOK, MainOK, WorkerOnly
<1>5. \A v \in Workers : workers'[v].job = workers[v].job
                         /\ (Popped(v)' <=> workers'[v].pc = "mark")
                         /\ (Popped(v)' => Popped(v))
  BY <1>2 DEF Popped
<1>6. JobsOK'
  BY <1>1, <1>5 DEF JobsOK
<1>7. \A v \in Workers : At(v)' => At(v)
  BY <1>2 DEF At
<1>8. \A v \in Workers : At(v)' => Fills(v)'
  <2> TAKE v \in Workers
  <2> HAVE At(v)'
  <2>1. Fills(v)
    BY <1>1, <1>7 DEF WorkersOK
  <2>2. CASE v # w
    BY <1>2, <2>1, <2>2 DEF Fills
  <2>3. CASE v = w
    <3>1. StageOK(pc, cache[workers[w].job.slot])
      BY <1>2, <2>3 DEF At
    <3> QED
      BY <1>2, <2>1, <2>3, <3>1 DEF Fills
  <2> QED
    BY <2>2, <2>3
<1>9. WorkersOK'
  BY <1>1, <1>5, <1>7, <1>8 DEF WorkersOK
<1> QED
  BY <1>3, <1>4, <1>6, <1>9 DEF CacheInv

LEMMA WakeStep ==
  ASSUME CacheInv, NEW w \in Workers, Wake(w)
  PROVE  CacheInv'
<1>1. /\ multi /\ workers[w].pc = "asleep" /\ prework > 0 /\ prework' = prework - 1
      /\ workers' = [workers EXCEPT ![w].pc = "pop"]
      /\ UNCHANGED <<multi, cache, lru, images, jobs, main>>
  BY DEF Wake, To
<1>2. WorkerOnly /\ ~At(w) /\ ~Popped(w)
  BY <1>1 DEF WorkerOnly, At, Popped
<1>3. prework' \in Nat /\ images' \in [Images -> {"unloaded", "loading", "ready"}]
  BY <1>1 DEF CacheInv, TypeOK
<1> QED
  BY <1>1, <1>2, <1>3, PlainStep

\* Loading an image and finding the buffer.
LEMMA FetchSteps ==
  ASSUME CacheInv, NEW w \in Workers, Fetch(w) \/ Fetched(w) \/ Begin(w)
  PROVE  CacheInv'
<1> DEFINE t == cache[workers[w].job.slot]
<1>1. TypeOK /\ WorkersOK /\ SingleOK
  BY DEF CacheInv
<1>2. At(w)
  BY DEF At, Fetch, Fetched, Begin
<1>3. Fills(w) /\ multi
  BY <1>1, <1>2 DEF WorkersOK, SingleOK, At
<1>4. UNCHANGED <<multi, cache, lru, jobs, prework, main>> /\ WorkerOnly
  BY <1>3 DEF Fetch, Fetched, Begin, WorkerOnly
<1>5. images' \in [Images -> {"unloaded", "loading", "ready"}] /\ prework' \in Nat
  BY <1>1, <1>4 DEF TypeOK, Fetch, Fetched, Begin
<1>6. CASE Fetch(w) \/ Fetched(w)
  <2>1. PICK pc \in {"load", "loading"} : workers' = [workers EXCEPT ![w].pc = pc]
    BY <1>6 DEF Fetch, Fetched, To
  <2>2. StageOK(pc, t)
    BY <1>3, <1>6, <2>1 DEF Fills, StageOK, Fetch, Fetched
  <2> QED
    BY <1>2, <1>4, <1>5, <2>1, <2>2, PlainStep
<1>7. CASE Begin(w)
  <2>1. workers[w].pc = "draw"
        /\ workers' = [workers EXCEPT ![w].pc = IF MayDraw(t) THEN "drawing" ELSE "done"]
    BY <1>7 DEF Begin, To
  <2>2. t.flags = {"used", "sprite", "alloc"} /\ t.pixel = Raw
    BY <1>3, <2>1 DEF Fills, StageOK
  <2>3. MayDraw(t)
    BY <2>2, CacheAssumption DEF MayDraw
  <2>4. workers' = [workers EXCEPT ![w].pc = "drawing"] /\ StageOK("drawing", t)
    BY <2>1, <2>2, <2>3 DEF StageOK
  <2> QED
    BY <1>2, <1>4, <1>5, <2>4, PlainStep
<1> QED
  BY <1>6, <1>7

\* A worker takes the oldest job.
LEMMA PopStep ==
  ASSUME CacheInv, NEW w \in Workers, Pop(w)
  PROVE  CacheInv'
<1>1. TypeOK /\ SlotsOK /\ JobsOK /\ WorkersOK /\ SingleOK /\ MainOK
  BY DEF CacheInv
<1>2. /\ workers[w].pc = "pop"
      /\ UNCHANGED <<multi, cache, lru, images, prework, main>>
  BY DEF Pop
<1>3. WorkerOnly /\ ~At(w) /\ ~Popped(w)
  BY <1>1, <1>2 DEF WorkerOnly, SingleOK, At, Popped
<1>4. prework' \in Nat /\ images' \in [Images -> {"unloaded", "loading", "ready"}]
  BY <1>1, <1>2 DEF TypeOK
<1>5. CASE jobs = <<>>
  <2>1. workers' = [workers EXCEPT ![w].pc = "asleep"] /\ jobs' = jobs
    BY <1>5 DEF Pop, To
  <2> QED
    BY <1>2, <1>3, <1>4, <2>1, PlainStep
<1>6. CASE jobs # <<>>
  <2> DEFINE j == jobs[1]
             o == [workers EXCEPT ![w].pc = "mark"]
  <2>1. /\ workers' = [workers EXCEPT ![w].pc = "mark", ![w].job = Head(jobs)]
        /\ jobs' = Tail(jobs)
    BY <1>6 DEF Pop
  <2>2. jobs \in Seq(Jobs) /\ workers \in [Workers -> WorkerType]
    BY <1>1 DEF TypeOK
  <2>3. /\ Head(jobs) = j /\ j \in Jobs /\ Len(jobs) \in Nat /\ Len(jobs) > 0
        /\ jobs' \in Seq(Jobs) /\ Len(jobs') = Len(jobs) - 1
        /\ \A i \in 1 .. Len(jobs') : jobs'[i] = jobs[i + 1]
    BY <1>6, <2>1, <2>2, HeadTailProperties, EmptySeq, LenProperties
  <2>4. o \in [Workers -> WorkerType] /\ o[w].pc = "mark" /\ o[w].picture = workers[w].picture
        /\ \A v \in Workers : v # w => o[v] = workers[v]
    BY <2>2 DEF WorkerType
  <2>5. workers' = [o EXCEPT ![w].job = j]
    BY <2>1, <2>3
  <2> HIDE DEF o, j
  <2>6. /\ workers' \in [Workers -> WorkerType] /\ workers'[w].pc = "mark"
        /\ workers'[w].job = j
        /\ \A v \in Workers : v # w => workers'[v] = workers[v]
    BY <2>3, <2>4, <2>5 DEF WorkerType
  <2>7. TypeOK'
    BY <1>2, <1>3, <1>4, <2>3, <2>6, WorkerTypes, <1>1 DEF TypeOK
  <2>8. SlotsOK' /\ SingleOK' /\ MainOK'
    BY <1>1, <1>2, <1>3 DEF SlotsOK, SingleOK, MainOK, WorkerOnly
  <2>9. JobsOK'
    <3>1. \A i \in 1 .. Len(jobs') : i + 1 \in 1 .. Len(jobs) /\ i + 1 # 1
      BY <2>3
    <3>2. 1 \in 1 .. Len(jobs)
      BY <2>3
    <3>3. /\ \A i \in 1 .. Len(jobs') : Waits(cache', jobs'[i])
          /\ \A i, k \in 1 .. Len(jobs') : i # k => jobs'[i].slot # jobs'[k].slot
          /\ \A i \in 1 .. Len(jobs') : j.slot # jobs'[i].slot
          /\ Waits(cache', j)
      <4>1. \A i \in 1 .. Len(jobs) : Waits(cache', jobs[i])
        BY <1>1, <1>2 DEF JobsOK
      <4>2. \A i, k \in 1 .. Len(jobs) : i # k => jobs[i].slot # jobs[k].slot
        BY <1>1 DEF JobsOK
      <4>3. \A i, k \in 1 .. Len(jobs') : i # k => jobs'[i].slot # jobs'[k].slot
        BY <2>3, <3>1, <4>2
      <4> QED
        BY <2>3, <3>1, <3>2, <4>1, <4>2, <4>3 DEF j
    <3>4. \A v \in Workers : Popped(v)' =>
             \/ v = w /\ workers'[v].job = j
             \/ v # w /\ Popped(v) /\ workers'[v].job = workers[v].job
      BY <2>6 DEF Popped
    <3>5. \A v \in Workers : Popped(v) =>
             /\ Waits(cache', workers[v].job)
             /\ workers[v].job.slot # j.slot
             /\ \A i \in 1 .. Len(jobs') : workers[v].job.slot # jobs'[i].slot
      BY <1>1, <1>2, <2>3, <3>1, <3>2 DEF JobsOK, j
    <3>6. \A u, v \in Workers :
             Popped(u)' /\ Popped(v)' /\ u # v => workers'[u].job.slot # workers'[v].job.slot
      BY <1>1, <3>4, <3>5 DEF JobsOK
    <3> QED
      BY <3>3, <3>4, <3>5, <3>6 DEF JobsOK
  <2>10. WorkersOK'
    <3>1. \A v \in Workers : At(v)' => v # w /\ At(v) /\ workers'[v] = workers[v]
      BY <2>6 DEF At
    <3> QED
      BY <1>1, <1>2, <3>1 DEF WorkersOK, Fills
  <2> QED
    BY <2>7, <2>8, <2>9, <2>10 DEF CacheInv
<1> QED
  BY <1>5, <1>6

\* A worker changes its slot: what is left to show.
LEMMA FillStep ==
  ASSUME CacheInv, NEW w \in Workers, NEW s \in Slots, s = workers[w].job.slot,
         At(w) \/ Popped(w), NEW u \in SlotType, SlotOK(u),
         cache[s].work # "idle", cache[s].flags \subseteq u.flags,
         u.picture = cache[s].picture,
         cache' = [cache EXCEPT ![s] = u],
         workers' \in [Workers -> WorkerType],
         ~Popped(w)', \A v \in Workers : v # w => workers'[v] = workers[v],
         workers'[w].job = workers[w].job \/ ~At(w)',
         At(w)' => Fills(w)',
         UNCHANGED <<multi, lru, images, jobs, prework, main>>
  PROVE  CacheInv'
<1>1. TypeOK /\ SlotsOK /\ JobsOK /\ WorkersOK /\ SingleOK /\ MainOK
  BY DEF CacheInv
<1>2. WorkerOnly
  BY <1>1 DEF WorkerOnly, SingleOK, At, Popped
<1>3. cache'[s] = u /\ \A x \in Slots : x # s => cache'[x] = cache[x]
  BY <1>1 DEF TypeOK
<1>4. TypeOK' /\ MainOK'
  <2>1. cache' \in [Slots -> SlotType] /\ jobs' \in Seq(Jobs) /\ prework' \in Nat
        /\ images' \in [Images -> {"unloaded", "loading", "ready"}]
    BY <1>1, <1>3 DEF TypeOK
  <2> QED
    BY <1>2, <2>1, WorkerTypes, MainKept
<1>5. SlotsOK' /\ SingleOK'
  BY <1>1, <1>2, <1>3 DEF SlotsOK, SingleOK, WorkerOnly

\* Nobody else waits for the slot or fills it.
<1>6. /\ \A i \in 1 .. Len(jobs) : jobs[i].slot # s /\ jobs[i].slot \in Slots
      /\ \A v \in Workers : v # w /\ (At(v) \/ Popped(v)) =>
             workers[v].job.slot # s /\ workers[v].job.slot \in Slots
  <2>1. CASE Popped(w)
    BY <1>1, <2>1 DEF JobsOK, WorkersOK, Waits, Fills, Jobs
  <2>2. CASE At(w)
    BY <1>1, <2>2 DEF JobsOK, WorkersOK, Waits, Fills, Jobs
  <2> QED
    BY <2>1, <2>2
<1>7. JobsOK'
  <2>1. \A i \in 1 .. Len(jobs) : Waits(cache', jobs[i])
    BY <1>1, <1>3, <1>6 DEF JobsOK, Waits
  <2>2. \A v \in Workers : Popped(v)' => v # w /\ Popped(v) /\ workers'[v] = workers[v]
    BY DEF Popped
  <2>3. \A v \in Workers : v # w /\ Popped(v) => Waits(cache', workers[v].job)
    BY <1>1, <1>3, <1>6 DEF JobsOK, Waits
  <2>4. /\ \A i, k \in 1 .. Len(jobs) : i # k => jobs[i].slot # jobs[k].slot
        /\ \A v \in Workers, i \in 1 .. Len(jobs) :
             Popped(v) => workers[v].job.slot # jobs[i].slot
        /\ \A u1, v \in Workers :
             Popped(u1) /\ Popped(v) /\ u1 # v => workers[u1].job.slot # workers[v].job.slot
    BY <1>1 DEF JobsOK
  <2>5. \A v \in Workers : Popped(v)' => Waits(cache', workers'[v].job)
    BY <2>2, <2>3
  <2>6. \A v \in Workers, i \in 1 .. Len(jobs) :
          Popped(v)' => workers'[v].job.slot # jobs[i].slot
    BY <2>2, <2>4
  <2>7. \A u1, v \in Workers :
          Popped(u1)' /\ Popped(v)' /\ u1 # v => workers'[u1].job.slot # workers'[v].job.slot
    BY <2>2, <2>4
  <2> QED
    BY <2>1, <2>4, <2>5, <2>6, <2>7 DEF JobsOK
<1>8. WorkersOK'
  <2>1. \A v \in Workers : At(v)' /\ v # w => At(v) /\ workers'[v] = workers[v]
    BY DEF At
  <2>2. \A v \in Workers : At(v)' => Fills(v)'
    BY <1>1, <1>3, <1>6, <2>1 DEF WorkersOK, Fills
  <2>3. At(w)' => workers'[w].job.slot = s
    OBVIOUS
  <2> QED
    BY <1>1, <1>6, <2>1, <2>2, <2>3 DEF WorkersOK
<1> QED
  BY <1>4, <1>5, <1>7, <1>8 DEF CacheInv

\* A worker marks the slot of its job.
LEMMA MarkStep ==
  ASSUME CacheInv, NEW w \in Workers, Mark(w)
  PROVE  CacheInv'
<1> DEFINE j == workers[w].job
           s == j.slot
           u == [cache[s] EXCEPT !.work = "in_worker"]
           p == cache[s].picture
           o == [workers EXCEPT ![w].pc = "load"]
<1>1. TypeOK /\ SlotsOK /\ JobsOK
  BY DEF CacheInv
<1>2. workers[w].pc = "mark" /\ Popped(w) /\ Waits(cache, j)
  BY <1>1 DEF Mark, Popped, JobsOK
<1>3. /\ j \in Jobs /\ s \in Slots /\ cache[s].work = "queued" /\ cache[s].gen = j.gen
      /\ cache[s].flags = {"used", "sprite"} /\ cache[s] \in SlotType /\ SlotOK(cache[s])
  BY <1>1, <1>2 DEF Waits, Jobs, TypeOK, SlotsOK
<1>4. /\ cache' = [cache EXCEPT ![s] = u]
      /\ workers' = [workers EXCEPT ![w].pc = "load", ![w].picture = p]
      /\ UNCHANGED <<multi, lru, images, jobs, prework, main>>
  BY <1>3 DEF Mark
<1>5. /\ u \in SlotType /\ SlotOK(u) /\ u.work = "in_worker"
      /\ u.picture = p /\ u.flags = {"used", "sprite"} /\ u.gen = j.gen
  BY <1>3, WorkOK
<1> HIDE DEF u
<1>6. /\ o \in [Workers -> WorkerType] /\ o[w].pc = "load" /\ o[w].job = j
      /\ \A v \in Workers : v # w => o[v] = workers[v]
  BY <1>1 DEF TypeOK, WorkerType
<1>7. workers' = [o EXCEPT ![w].picture = p] /\ p \in Pictures \cup {NoPicture}
  BY <1>3, <1>4 DEF SlotType
<1> HIDE DEF o
<1>8. /\ workers' \in [Workers -> WorkerType] /\ workers'[w].pc = "load"
      /\ workers'[w].job = j /\ workers'[w].picture = p
      /\ \A v \in Workers : v # w => workers'[v] = workers[v]
  BY <1>6, <1>7 DEF WorkerType
<1>9. cache'[s] = u
  BY <1>1, <1>3, <1>4 DEF TypeOK
<1>10. Fills(w)' /\ ~Popped(w)'
  BY <1>3, <1>5, <1>8, <1>9 DEF Fills, StageOK, Popped
<1> QED
  BY <1>2, <1>3, <1>4, <1>5, <1>8, <1>10, FillStep

\* The three steps that fill the slot and give it back.
LEMMA AllocateStep ==
  ASSUME CacheInv, NEW w \in Workers, Allocate(w)
  PROVE  CacheInv'
<1> DEFINE j == workers[w].job
           s == j.slot
           t == cache[s]
           u == Allocated(t)
<1>1. TypeOK /\ SlotsOK /\ WorkersOK
  BY DEF CacheInv
<1>2. /\ workers[w].pc = "load" /\ At(w)
      /\ cache' = [cache EXCEPT ![s] = u]
      /\ workers' = [workers EXCEPT ![w].pc = "draw"]
      /\ UNCHANGED <<multi, lru, images, jobs, prework, main>>
  BY DEF Allocate, To, At
<1>3. Fills(w)
  BY <1>1, <1>2 DEF WorkersOK
<1>4. /\ j \in Jobs /\ s \in Slots /\ t.work = "in_worker" /\ t.gen = j.gen
      /\ t.picture = workers[w].picture /\ t.flags = {"used", "sprite"}
      /\ t \in SlotType /\ SlotOK(t)
  BY <1>1, <1>2, <1>3 DEF Fills, StageOK, Jobs, TypeOK, SlotsOK
<1>5. u = [picture |-> t.picture, flags |-> t.flags \cup {"alloc"}, pixel |-> Raw,
           tex |-> t.tex, gen |-> t.gen, work |-> t.work]
  BY <1>4, AllocatedIs
<1>6. /\ u.picture = t.picture /\ u.flags = {"used", "sprite", "alloc"} /\ u.pixel = Raw
      /\ u.tex = t.tex /\ u.gen = t.gen /\ u.work = "in_worker"
  BY <1>4, <1>5
<1>7. u \in SlotType
  <2>1. t.flags \cup {"alloc"} \in SUBSET Flags
    BY <1>4 DEF SlotType, Flags
  <2> QED
    BY <1>4, <1>5, <2>1 DEF SlotType
<1> HIDE DEF u
<1>8. SlotOK(u)
  BY <1>4, <1>6, CacheAssumption DEF SlotOK
<1>9. /\ workers' \in [Workers -> WorkerType] /\ workers'[w].pc = "draw"
      /\ workers'[w].job = j /\ workers'[w].picture = workers[w].picture
      /\ \A v \in Workers : v # w => workers'[v] = workers[v]
  BY <1>1, <1>2 DEF TypeOK, WorkerType
<1>10. cache'[s] = u
  BY <1>1, <1>2, <1>4 DEF TypeOK
<1>11. Fills(w)' /\ ~Popped(w)'
  BY <1>4, <1>6, <1>9, <1>10 DEF Fills, StageOK, Popped
<1> QED
  BY <1>2, <1>4, <1>6, <1>7, <1>8, <1>9, <1>11, FillStep

LEMMA DrawStep ==
  ASSUME CacheInv, NEW w \in Workers, Draw(w)
  PROVE  CacheInv'
<1> DEFINE j == workers[w].job
           s == j.slot
           t == cache[s]
           p == workers[w].picture
           b == [t EXCEPT !.pixel = p]
           u == [picture |-> p, flags |-> t.flags \cup {"make"}, pixel |-> p,
                 tex |-> t.tex, gen |-> t.gen, work |-> t.work]
<1>1. TypeOK /\ SlotsOK /\ WorkersOK
  BY DEF CacheInv
<1>2. /\ workers[w].pc = "drawing" /\ At(w)
      /\ cache' = [cache EXCEPT ![s].pixel = p, ![s].flags = @ \cup {"make"}]
      /\ workers' = [workers EXCEPT ![w].pc = "done"]
      /\ UNCHANGED <<multi, lru, images, jobs, prework, main>>
  BY DEF Draw, To, At
<1>3. Fills(w)
  BY <1>1, <1>2 DEF WorkersOK
<1>4. /\ j \in Jobs /\ s \in Slots /\ t.work = "in_worker" /\ t.gen = j.gen
      /\ t.picture = p /\ t.flags = {"used", "sprite", "alloc"}
      /\ t \in SlotType /\ SlotOK(t) /\ cache \in [Slots -> SlotType]
  BY <1>1, <1>2, <1>3 DEF Fills, StageOK, Jobs, TypeOK, SlotsOK
<1>5. p \in Pictures \ Texts /\ p # NoPicture
  BY <1>4, CacheAssumption DEF SlotOK
<1>6. u \in SlotType
  <2>1. t.flags \cup {"make"} \in SUBSET Flags
    BY <1>4 DEF SlotType, Flags
  <2> QED
    BY <1>4, <1>5, <2>1 DEF SlotType
<1>7. cache' = [cache EXCEPT ![s] = u]
  <2> DEFINE c == [cache EXCEPT ![s].pixel = p]
             F == t.flags \cup {"make"}
  <2>1. c = [cache EXCEPT ![s] = b] /\ c[s] = b /\ b.flags = t.flags
    BY <1>4 DEF SlotType
  <2>2. b = [picture |-> p, flags |-> t.flags, pixel |-> p,
             tex |-> t.tex, gen |-> t.gen, work |-> t.work]
    <3>1. t \in SlotType
      BY <1>4
    <3>2. t.picture = p
      BY <1>4
    <3> HIDE DEF t, p
    <3>3. b = [picture |-> t.picture, flags |-> t.flags, pixel |-> p,
               tex |-> t.tex, gen |-> t.gen, work |-> t.work]
      BY <3>1 DEF SlotType
    <3> QED
      BY <3>2, <3>3
  <2>3. b \in SlotType
    BY <1>4, <1>5 DEF SlotType
  <2>4. cache' = [c EXCEPT ![s].flags = @ \cup {"make"}]
    BY <1>2
  <2>5. cache' = [c EXCEPT ![s] = [c[s] EXCEPT !.flags = c[s].flags \cup {"make"}]]
    BY <2>4
  <2> HIDE DEF b, c
  <2>6. cache' = [c EXCEPT ![s] = [b EXCEPT !.flags = F]]
    BY <2>1, <2>5
  <2> HIDE DEF F
  <2>7. [b EXCEPT !.flags = F] = [picture |-> b.picture, flags |-> F, pixel |-> b.pixel,
                                  tex |-> b.tex, gen |-> b.gen, work |-> b.work]
    BY <2>3 DEF SlotType
  <2>8. [b EXCEPT !.flags = F] = u
    BY <2>2, <2>7 DEF F
  <2> HIDE DEF u
  <2> QED
    BY <1>4, <2>1, <2>6, <2>8
<1>8. /\ u.picture = t.picture /\ t.flags \subseteq u.flags /\ u.pixel = p
      /\ {"used", "sprite", "alloc", "make"} = u.flags
      /\ u.tex = t.tex /\ u.gen = t.gen /\ u.work = "in_worker"
  BY <1>4
<1> HIDE DEF u
<1>9. SlotOK(u)
  BY <1>4, <1>5, <1>8 DEF SlotOK
<1>10. /\ workers' \in [Workers -> WorkerType] /\ workers'[w].pc = "done"
       /\ workers'[w].job = j /\ workers'[w].picture = p
       /\ \A v \in Workers : v # w => workers'[v] = workers[v]
  BY <1>1, <1>2 DEF TypeOK, WorkerType
<1>11. cache'[s] = u
  BY <1>4, <1>7
<1>12. Fills(w)' /\ ~Popped(w)'
  BY <1>4, <1>8, <1>10, <1>11 DEF Fills, StageOK, Popped
<1> QED
  BY <1>2, <1>4, <1>6, <1>7, <1>8, <1>9, <1>10, <1>12, FillStep

LEMMA FinishStep ==
  ASSUME CacheInv, NEW w \in Workers, Finish(w)
  PROVE  CacheInv'
<1> DEFINE j == workers[w].job
           s == j.slot
           t == cache[s]
           u == [t EXCEPT !.work = "idle"]
<1>1. TypeOK /\ SlotsOK /\ WorkersOK
  BY DEF CacheInv
<1>2. /\ workers[w].pc = "done" /\ At(w)
      /\ workers' = [workers EXCEPT ![w] = Waiting]
      /\ UNCHANGED <<multi, lru, images, jobs, prework, main>>
  BY DEF Finish, At
<1>3. Fills(w)
  BY <1>1, <1>2 DEF WorkersOK
<1>4. /\ j \in Jobs /\ s \in Slots /\ t.work = "in_worker" /\ t.gen = j.gen
      /\ "sprite" \in t.flags /\ t \in SlotType /\ SlotOK(t)
  BY <1>1, <1>2, <1>3 DEF Fills, StageOK, Jobs, TypeOK, SlotsOK
<1>5. cache' = [cache EXCEPT ![s] = u]
  BY <1>4 DEF Finish
<1>6. u \in SlotType /\ SlotOK(u) /\ u.picture = t.picture /\ u.flags = t.flags
  BY <1>4, WorkOK
<1> HIDE DEF u
<1>7. Waiting \in WorkerType
  BY DEF Waiting, WorkerType
<1>8. /\ workers' \in [Workers -> WorkerType] /\ workers'[w] = Waiting
      /\ \A v \in Workers : v # w => workers'[v] = workers[v]
  BY <1>1, <1>2, <1>7 DEF TypeOK
<1>9. ~At(w)' /\ ~Popped(w)'
  BY <1>8 DEF At, Popped, Waiting
<1> QED
  BY <1>2, <1>4, <1>5, <1>6, <1>8, <1>9, FillStep

-----------------------------------------------------------------------------
(***************************************************************************)
(* The invariant and what follows from it.                                 *)
(***************************************************************************)

LEMMA CacheStart == Init => CacheInv
<1> SUFFICES ASSUME Init PROVE CacheInv
  OBVIOUS
<1>1. FreeSlot \in SlotType /\ SlotOK(FreeSlot)
  <2>1. FreeSlot = [FreeSlot EXCEPT !.gen = FreeSlot.gen]
    BY DEF FreeSlot
  <2>2. FreeSlot \in SlotType
    BY CacheAssumption DEF FreeSlot, SlotType, Flags
  <2> QED
    BY <2>1, <2>2, CacheAssumption DEF SlotOK, FreeSlot
<1>2. lru \in UseType
  <2>1. \A s \in Slots : s - 1 \in Slots \cup {NoSlot}
    BY CacheAssumption DEF Slots, NoSlot
  <2>2. \A s \in Slots : s # NumSlots - 1 => s + 1 \in Slots
    BY CacheAssumption DEF Slots
  <2>3. 0 \in Slots /\ NumSlots - 1 \in Slots
    BY CacheAssumption DEF Slots
  <2> QED
    BY <2>1, <2>2, <2>3 DEF Init, UseType
<1>3. Resting \in MainType /\ Waiting \in WorkerType
  BY DEF Resting, MainType, Waiting, WorkerType
<1>4. TypeOK
  <2>1. cache \in [Slots -> SlotType] /\ main \in MainType
        /\ workers \in [Workers -> WorkerType]
    BY <1>1, <1>3 DEF Init
  <2>2. /\ multi \in BOOLEAN
        /\ images \in [Images -> {"unloaded", "loading", "ready"}]
        /\ jobs \in Seq(Jobs)
        /\ prework \in Nat
    BY DEF Init
  <2> QED
    BY <1>2, <2>1, <2>2 DEF TypeOK
<1>5. SlotsOK
  BY <1>1 DEF Init, SlotsOK
<1>6. \A w \in Workers : workers[w].pc = "asleep"
  BY DEF Init, Waiting
<1>7. jobs = <<>> /\ main.pc = "idle"
  BY DEF Init, Resting
<1>8. \A s \in Slots : cache[s].work = "idle"
  BY DEF Init, FreeSlot
<1>9. JobsOK /\ WorkersOK /\ SingleOK
  BY <1>6, <1>7, <1>8 DEF JobsOK, WorkersOK, SingleOK, Popped, At
<1>10. MainOK
  BY <1>7 DEF MainOK
<1> QED
  BY <1>4, <1>5, <1>9, <1>10 DEF CacheInv

LEMMA CacheStep == CacheInv /\ [Next]_vars => CacheInv'
<1> SUFFICES ASSUME CacheInv, [Next]_vars PROVE CacheInv'
  OBVIOUS
<1>1. CASE \E p \in Pictures : Hit(p)
  BY <1>1, HitStep
<1>2. CASE \E p \in Pictures, preload \in BOOLEAN : Miss(p, preload)
  BY <1>2, MissStep
<1>3. CASE \E s \in Slots, granted \in Grants : Upload(s, granted)
  BY <1>3, UploadStep, CacheAssumption
<1>4. CASE Proceed
  <2>1. CASE \E granted \in Grants :
               Ready(granted) \/ BuildText(granted) \/ BuildSprite(granted)
    BY <2>1, ReadyStep, BuildTextStep, BuildSpriteStep, CacheAssumption
  <2>2. CASE TimedOut \/ Signal \/ Show
    <3>1. /\ main' = Resting
          /\ prework' = prework \/ prework' = prework + 1
          /\ UNCHANGED <<multi, cache, lru, images, jobs, workers>>
      BY <2>2 DEF TimedOut, Signal, Show
    <3>2. prework' \in Nat
      BY <3>1 DEF CacheInv, TypeOK
    <3> QED
      BY <3>1, <3>2, RestStep
  <2>3. CASE Scan \/ Evict
    BY <2>3, ScanStep, EvictStep
  <2>4. CASE LoadImage \/ ImageLoaded
    BY <2>4, LoadSteps
  <2>5. CASE PrepareSprite \/ ReserveSprite \/ Enqueue
    BY <2>5, PrepareSpriteStep, ReserveSpriteStep, EnqueueStep
  <2> QED
    BY <1>4, <2>1, <2>2, <2>3, <2>4, <2>5 DEF Proceed
<1>5. CASE \E w \in Workers : Work(w)
  <2> PICK w \in Workers : Work(w)
    BY <1>5
  <2>1. CASE Wake(w) \/ Pop(w) \/ Mark(w)
    BY <2>1, WakeStep, PopStep, MarkStep
  <2>2. CASE Fetch(w) \/ Fetched(w) \/ Begin(w)
    BY <2>2, FetchSteps
  <2>3. CASE Allocate(w) \/ Draw(w) \/ Finish(w)
    BY <2>3, AllocateStep, DrawStep, FinishStep
  <2> QED
    BY <2>1, <2>2, <2>3 DEF Work
<1>6. CASE UNCHANGED vars
  BY <1>6 DEF vars, CacheInv, TypeOK, SlotsOK, JobsOK, WorkersOK, SingleOK, MainOK,
              Popped, Fills, At
<1> QED
  BY <1>1, <1>2, <1>3, <1>4, <1>5, <1>6 DEF Next, Main

LEMMA CacheAlways == Spec => []CacheInv
BY CacheStart, CacheStep, PTL DEF Spec

\* Slots, queue and threads keep their types.
THEOREM CacheTypes == Spec => []TypeOK
<1>1. CacheInv => TypeOK
  BY DEF CacheInv
<1> QED
  BY <1>1, CacheAlways, PTL

\* The slot a worker fills stays its own, whatever the render thread evicts
\* and however late the worker is (texcache_acquire_slot, sdl_pre_backgnd).
THEOREM WorkersKeepSlots == Spec => []WorkerOwnsSlot
<1>1. CacheInv => WorkerOwnsSlot
  <2> SUFFICES ASSUME CacheInv, NEW w \in Workers, At(w)
               PROVE  LET j == workers[w].job
                          t == cache[j.slot]
                      IN  /\ t.work = "in_worker" /\ t.gen = j.gen
                          /\ t.picture = workers[w].picture /\ "sprite" \in t.flags
                          /\ \A v \in Workers \ {w} :
                               At(v) \/ workers[v].pc = "mark"
                                 => workers[v].job.slot # j.slot
                          /\ workers[w].pc \in {"draw", "drawing"} => MayDraw(t)
                          /\ workers[w].pc = "done" => "make" \in t.flags
    BY DEF WorkerOwnsSlot
  <2> DEFINE j == workers[w].job
             t == cache[j.slot]
  <2>1. /\ j \in Jobs /\ t.work = "in_worker" /\ t.gen = j.gen
        /\ t.picture = workers[w].picture /\ StageOK(workers[w].pc, t)
    BY DEF CacheInv, WorkersOK, Fills
  <2>2. "sprite" \in t.flags
    BY <2>1 DEF StageOK, At
  <2>3. \A v \in Workers \ {w} : At(v) => workers[v].job.slot # j.slot
    BY DEF CacheInv, WorkersOK
  <2>4. \A v \in Workers : workers[v].pc = "mark" => workers[v].job.slot # j.slot
    BY <2>1 DEF CacheInv, JobsOK, Popped, Waits
  <2>5. workers[w].pc \in {"draw", "drawing"} => MayDraw(t)
    BY <2>1, CacheAssumption DEF StageOK, MayDraw
  <2>6. workers[w].pc = "done" => "make" \in t.flags
    BY <2>1 DEF StageOK
  <2> QED
    BY <2>1, <2>2, <2>3, <2>4, <2>5, <2>6
<1> QED
  BY <1>1, CacheAlways, PTL

\* The rules of the comment in sdl_texture.c hold of every slot, and a slot
\* shows its own picture.
THEOREM RulesKept == Spec => []SlotRules
<1>1. CacheInv => SlotRules
  <2> SUFFICES ASSUME CacheInv, NEW s \in Slots, SlotOK(cache[s])
               PROVE  LET t == cache[s]
                      IN  /\ "tex" \in t.flags => "make" \in t.flags
                          /\ "make" \in t.flags => "alloc" \in t.flags
                          /\ ~({"sprite", "text"} \subseteq t.flags)
                          /\ t.flags # {} => "used" \in t.flags
                          /\ ("tex" \in t.flags) <=> (t.tex # NoPicture)
                          /\ t.tex \in {t.picture, NoPicture}
                          /\ "make" \in t.flags => t.pixel \in {t.picture, NoPicture}
                          /\ t.pixel = NoPicture /\ "text" \notin t.flags
                               /\ t.picture \notin Blank
                                 => ("alloc" \in t.flags <=> "tex" \in t.flags)
    BY DEF CacheInv, SlotsOK, SlotRules
  <2> QED
    BY DEF SlotOK
<1> QED
  BY <1>1, CacheAlways, PTL

\* The renderer gets the picture it asked for (sdl_tx_load and
\* tex_entry_ensure_ready).
THEOREM RequestsShown == Spec => []ShowsRequest
<1>1. CacheInv => ShowsRequest
  <2> SUFFICES ASSUME CacheInv, main.pc = "show", main.slot # NoSlot
               PROVE  /\ cache[main.slot].picture = main.picture
                      /\ "make" \in cache[main.slot].flags
                      /\ cache[main.slot].tex \in {main.picture, NoPicture}
    BY DEF ShowsRequest
  <2>1. main.slot \in Slots
    BY DEF CacheInv, TypeOK, MainType
  <2>2. cache[main.slot].picture = main.picture /\ "make" \in cache[main.slot].flags
    BY DEF CacheInv, MainOK
  <2>3. SlotOK(cache[main.slot])
    BY <2>1 DEF CacheInv, SlotsOK
  <2> QED
    BY <2>2, <2>3 DEF SlotOK
<1> QED
  BY <1>1, CacheAlways, PTL

(***************************************************************************)
(* A queued slot has its job, and a job its wake-up call.                  *)
(***************************************************************************)

QueuedHasJob ==
  \A s \in Slots : cache[s].work = "queued" =>
    \/ \E i \in 1 .. Len(jobs) : jobs[i].slot = s
    \/ \E w \in Workers : Popped(w) /\ workers[w].job.slot = s

\* The workers that were woken and have not yet looked at the queue.
Woken == {w \in Workers : workers[w].pc = "pop"}

CallsOK ==
  /\ IsFiniteSet(Woken)
  /\ Len(jobs) = prework + Cardinality(Woken) + IF main.pc = "signal" THEN 1 ELSE 0

\* The inductive invariant behind JobsAreCurrent.
WaitInv == CacheInv /\ QueuedHasJob /\ CallsOK

\* Steps that put no job in or out of the queue.
LEMMA QueuedKept ==
  ASSUME QueuedHasJob, jobs' = jobs,
         \A s \in Slots : cache'[s].work = "queued" => cache[s].work = "queued",
         \A w \in Workers : Popped(w) => Popped(w)' /\ workers'[w].job = workers[w].job
  PROVE  QueuedHasJob'
BY DEF QueuedHasJob

\* What the render thread does but for handing over a job.
Renders ==
  \/ \E p \in Pictures : Hit(p)
  \/ \E p \in Pictures, preload \in BOOLEAN : Miss(p, preload)
  \/ \E s \in Slots, granted \in Grants : Upload(s, granted)
  \/ \E granted \in Grants : Ready(granted) \/ BuildText(granted) \/ BuildSprite(granted)
  \/ TimedOut \/ Scan \/ Evict
  \/ LoadImage \/ ImageLoaded \/ PrepareSprite \/ ReserveSprite \/ Show

\* It queues no slot, ...
LEMMA RendersQuietly ==
  ASSUME CacheInv, Renders
  PROVE  /\ UNCHANGED <<jobs, prework, workers>>
         /\ \A x \in Slots : cache'[x].work = "queued" => cache[x].work = "queued"
<1>1. /\ TypeOK /\ SharedOK /\ MainOK /\ cache \in [Slots -> SlotType]
  BY DEF CacheInv, SharedOK, TypeOK
<1>2. ASSUME NEW s \in Slots, NEW u, cache' = [cache EXCEPT ![s] = u], u.work = "idle"
      PROVE  \A x \in Slots : cache'[x].work = "queued" => cache[x].work = "queued"
  BY <1>1, <1>2
<1>3. CASE \/ \E p \in Pictures : Hit(p)
           \/ \E p \in Pictures, preload \in BOOLEAN : Miss(p, preload)
           \/ TimedOut \/ Scan \/ LoadImage \/ ImageLoaded \/ Show
  <2>1. UNCHANGED <<cache, jobs, prework, workers>>
    BY <1>3, Zenon DEF Hit, Miss, TimedOut, Scan, LoadImage, ImageLoaded, Show
  <2> QED
    BY <2>1
<1>4. ASSUME NEW s \in Slots, NEW granted \in Grants, Upload(s, granted)
      PROVE  /\ UNCHANGED <<jobs, prework, workers>>
             /\ \A x \in Slots : cache'[x].work = cache[x].work
  <2>1. /\ "sprite" \in cache[s].flags
        /\ cache' = [cache EXCEPT ![s] = Textured(@, granted)]
        /\ UNCHANGED <<multi, jobs, prework, workers>>
    BY <1>4 DEF Upload
  <2>2. granted \in BOOLEAN
    BY CacheAssumption
  <2> QED
    BY <1>1, <2>1, <2>2, TexturedSlot
<1>5. ASSUME NEW granted \in Grants, Ready(granted)
      PROVE  /\ UNCHANGED <<jobs, prework, workers>>
             /\ \A x \in Slots : cache'[x].work = cache[x].work
  <2> DEFINE s == main.slot
  <2>1. /\ s \in Slots /\ "make" \in cache[s].flags
        /\ cache[s].picture = main.picture /\ main.picture \in Pictures \ Texts
        /\ cache' = [cache EXCEPT ![s] = Textured(@, granted)]
        /\ UNCHANGED <<multi, jobs, prework, workers>>
    BY <1>1, <1>5 DEF Ready, MainOK
  <2>2. "sprite" \in cache[s].flags
    BY <1>1, <2>1 DEF SharedOK, SlotsOK, SlotOK
  <2>3. granted \in BOOLEAN
    BY CacheAssumption
  <2> QED
    BY <1>1, <2>1, <2>2, <2>3, TexturedSlot
<1>6. CASE Evict
  <2> DEFINE s == main.slot
             g == (cache[s].gen + 1) % GenSize
             h == IF g = 0 THEN 1 ELSE g
             u == [FreeSlot EXCEPT !.gen = h]
  <2>1. /\ s \in Slots /\ cache' = [cache EXCEPT ![s] = u]
        /\ UNCHANGED <<jobs, prework, workers>>
    BY <1>1, <1>6 DEF Evict, MainOK
  <2> HIDE DEF h
  <2>2. u.work = "idle"
    BY DEF FreeSlot
  <2> QED
    BY <1>2, <2>1, <2>2
<1>7. ASSUME NEW granted \in Grants, BuildText(granted)
      PROVE  /\ UNCHANGED <<jobs, prework, workers>>
             /\ \A x \in Slots : cache'[x].work = "queued" => cache[x].work = "queued"
  <2> DEFINE s == main.slot
             p == main.picture
             x == IF granted THEN p ELSE NoPicture
             flags == {"used", "text", "alloc", "make"}
             F == IF granted THEN flags \cup {"tex"} ELSE flags
             u == Lettered(cache[s], p, x, F)
  <2>1. /\ main.pc = "load" /\ cache' = [cache EXCEPT ![s] = u]
        /\ UNCHANGED <<jobs, prework, workers>>
    BY <1>7, Zenon DEF BuildText, Lettered
  <2>2. s \in Slots /\ cache[s] \in SlotType /\ SlotOK(cache[s]) /\ cache[s].flags = {}
    BY <2>1, AtLoad
  <2> HIDE DEF x, F
  <2>3. u = [picture |-> p, flags |-> F, pixel |-> NoPicture, tex |-> x,
             gen |-> cache[s].gen, work |-> "idle"]
    BY <2>2, TextIs
  <2> HIDE DEF u
  <2> QED
    BY <1>2, <2>1, <2>2, <2>3
<1>8. ASSUME NEW granted \in BOOLEAN, BuildSprite(granted) \/ PrepareSprite \/ ReserveSprite
      PROVE  /\ UNCHANGED <<jobs, prework, workers>>
             /\ \A x \in Slots : cache'[x].work = "queued" => cache[x].work = "queued"
  <2> DEFINE s == main.slot
             r == Named(cache[s], main.picture)
             d == Drawn(Allocated(r), main.picture)
  <2>1. /\ main.pc = "load" /\ main.picture \notin Texts
        /\ UNCHANGED <<jobs, prework, workers>>
        /\ \/ cache' = [cache EXCEPT ![s] = Textured(d, granted)]
           \/ cache' = [cache EXCEPT ![s] = d]
           \/ cache' = [cache EXCEPT ![s] = r]
    BY <1>8 DEF BuildSprite, PrepareSprite, ReserveSprite
  <2>2. /\ s \in Slots /\ cache[s] \in SlotType /\ SlotOK(cache[s]) /\ cache[s].flags = {}
        /\ main.picture \in Pictures \ Texts
    BY <2>1, AtLoad
  <2>3. /\ r.work = "idle" /\ d.work = "idle"
        /\ d \in SlotType /\ SlotOK(d) /\ "text" \notin d.flags
    BY <2>2, FreshOK
  <2> HIDE DEF r, d
  <2>4. Textured(d, granted).work = "idle"
    BY <2>3, TexturedOK
  <2> QED
    BY <1>2, <2>1, <2>2, <2>3, <2>4
<1>9. CASE PrepareSprite \/ ReserveSprite
  BY <1>8, <1>9
<1>10. CASE \E s \in Slots, granted \in Grants : Upload(s, granted)
  BY <1>4, <1>10
<1>11. CASE \E granted \in Grants : Ready(granted) \/ BuildText(granted) \/ BuildSprite(granted)
  BY <1>5, <1>7, <1>8, <1>11, CacheAssumption
<1> QED
  BY <1>3, <1>6, <1>9, <1>10, <1>11 DEF Renders

\* ... and owes no call.
LEMMA RendersUnsignalled ==
  ASSUME CacheInv, Renders
  PROVE  main.pc # "signal" /\ main'.pc # "signal"
<1>1. main \in MainType
  BY DEF CacheInv, TypeOK
<1>2. CASE \/ \E p \in Pictures, preload \in BOOLEAN : Miss(p, preload)
           \/ \E s \in Slots, granted \in Grants : Upload(s, granted)
           \/ TimedOut \/ PrepareSprite \/ Show
  BY <1>2 DEF Miss, Upload, TimedOut, PrepareSprite, Show, Resting
<1>3. ASSUME NEW p \in Pictures, Hit(p)
      PROVE  main.pc # "signal" /\ main'.pc # "signal"
  <2> DEFINE s == Lookup(p)
  <2>1. /\ main.pc = "idle"
        /\ \/ main' = [Resting EXCEPT !.pc = "show", !.picture = p, !.slot = s]
           \/ main' = [Resting EXCEPT !.pc = "wait", !.picture = p, !.slot = s]
    BY <1>3, Zenon DEF Hit
  <2> HIDE DEF s
  <2> QED
    BY <2>1 DEF Resting
<1>4. CASE \/ \E granted \in Grants :
                Ready(granted) \/ BuildText(granted) \/ BuildSprite(granted)
           \/ Evict \/ LoadImage \/ ImageLoaded \/ ReserveSprite
  <2>1. /\ main.pc # "signal"
        /\ \E pc \in {"show", "load", "loading", "enqueue"} : main' = [main EXCEPT !.pc = pc]
    <3>1. CASE \E granted \in Grants : Ready(granted) \/ BuildSprite(granted)
      BY <3>1 DEF Ready, BuildSprite
    <3>2. CASE \E granted \in Grants : BuildText(granted)
      <4>1. main.pc = "load" /\ main' = [main EXCEPT !.pc = "show"]
        BY <3>2, Zenon DEF BuildText
      <4> QED
        BY <4>1
    <3>3. CASE Evict \/ LoadImage \/ ImageLoaded \/ ReserveSprite
      BY <3>3 DEF Evict, LoadImage, ImageLoaded, ReserveSprite
    <3> QED
      BY <1>4, <3>1, <3>2, <3>3
  <2> QED
    BY <1>1, <2>1 DEF MainType
<1>5. CASE Scan
  <2> DEFINE p == lru.prev[main.slot]
             pc == IF main.tries + 1 = Attempts THEN "load" ELSE "scan"
  <2>1. /\ main.pc = "scan"
        /\ \/ main' = [main EXCEPT !.pc = "load"]
           \/ main' = [main EXCEPT !.pc = "evict"]
           \/ main' = [main EXCEPT !.pc = "show", !.slot = NoSlot]
           \/ main' = Resting
           \/ main' = [main EXCEPT !.slot = p, !.tries = main.tries + 1, !.pc = pc]
    BY <1>5 DEF Scan, NoRoom
  <2>2. [main EXCEPT !.pc = "load"].pc = "load" /\ [main EXCEPT !.pc = "evict"].pc = "evict"
    BY <1>1 DEF MainType
  <2>3. pc # "signal"
    OBVIOUS
  <2> HIDE DEF pc, p
  <2> DEFINE m1 == [main EXCEPT !.pc = "show", !.slot = NoSlot]
             m2 == [main EXCEPT !.slot = p, !.tries = main.tries + 1, !.pc = pc]
  <2>4. /\ m1 = [pc |-> "show", picture |-> main.picture, preload |-> main.preload,
                 slot |-> NoSlot, tries |-> main.tries]
        /\ m2 = [pc |-> pc, picture |-> main.picture, preload |-> main.preload,
                 slot |-> p, tries |-> main.tries + 1]
    BY <1>1, MainEdit, Zenon
  <2>5. m1.pc = "show" /\ m2.pc = pc /\ Resting.pc = "idle"
    BY <2>4 DEF Resting
  <2> DEFINE m3 == [main EXCEPT !.pc = "load"]
             m4 == [main EXCEPT !.pc = "evict"]
             m5 == Resting
  <2>6. /\ main.pc # "signal"
        /\ main' = m1 \/ main' = m2 \/ main' = m3 \/ main' = m4 \/ main' = m5
    BY <2>1
  <2>7. /\ m1.pc # "signal" /\ m2.pc # "signal" /\ m3.pc # "signal"
        /\ m4.pc # "signal" /\ m5.pc # "signal"
    BY <2>2, <2>3, <2>5
  <2> HIDE DEF m1, m2, m3, m4, m5
  <2> QED
    BY <2>6, <2>7
<1>6. CASE \E p \in Pictures : Hit(p)
  BY <1>3, <1>6
<1> QED
  BY <1>2, <1>4, <1>5, <1>6 DEF Renders

\* What the render thread does but for handing over a job keeps the invariant.
LEMMA RendersWait ==
  ASSUME WaitInv, Renders, CacheInv'
  PROVE  WaitInv'
<1>1. CacheInv /\ QueuedHasJob /\ CallsOK
  BY DEF WaitInv
<1>2. /\ jobs' = jobs /\ prework' = prework /\ workers' = workers
      /\ \A x \in Slots : cache'[x].work = "queued" => cache[x].work = "queued"
  BY <1>1, RendersQuietly
<1>3. main.pc # "signal" /\ main'.pc # "signal"
  BY <1>1, RendersUnsignalled
<1>4. QueuedHasJob'
  BY <1>1, <1>2, QueuedKept DEF Popped
<1>5. CallsOK'
  BY <1>1, <1>2, <1>3 DEF CallsOK, Woken
<1> QED
  BY <1>4, <1>5 DEF WaitInv

\* A job joins the queue and a call is owed for it.
LEMMA EnqueueWait ==
  ASSUME WaitInv, Enqueue, CacheInv'
  PROVE  WaitInv'
<1> DEFINE s == main.slot
           j == [slot |-> s, gen |-> cache[s].gen]
           u == [cache[s] EXCEPT !.work = "queued"]
<1>1. TypeOK /\ MainOK /\ QueuedHasJob /\ CallsOK
  BY DEF WaitInv, CacheInv
<1>2. main.pc = "enqueue" /\ s \in Slots /\ cache[s].work = "idle"
  BY <1>1 DEF MainOK, Enqueue
<1>3. /\ jobs' = Append(jobs, j)
      /\ cache' = [cache EXCEPT ![s] = u]
      /\ main' = [main EXCEPT !.pc = "signal"]
      /\ prework' = prework /\ workers' = workers
  BY <1>2 DEF Enqueue
<1>4. cache \in [Slots -> SlotType] /\ jobs \in Seq(Jobs) /\ main \in MainType /\ prework \in Nat
  BY <1>1 DEF TypeOK
<1>5. j \in Jobs
  BY <1>2, <1>4 DEF Jobs, SlotType
<1>6. /\ Len(jobs) \in Nat /\ Len(jobs') = Len(jobs) + 1
      /\ \A i \in 1 .. Len(jobs) : jobs'[i] = jobs[i]
      /\ jobs'[Len(jobs) + 1] = j
  <2> HIDE DEF j
  <2> QED
    BY <1>3, <1>4, <1>5, AppendProperties, LenProperties
<1>7. \A x \in Slots : x # s => cache'[x] = cache[x]
  BY <1>3, <1>4
<1>8. QueuedHasJob'
  <2> SUFFICES ASSUME NEW x \in Slots, cache'[x].work = "queued"
               PROVE  \/ \E i \in 1 .. Len(jobs') : jobs'[i].slot = x
                      \/ \E w \in Workers : Popped(w)' /\ workers'[w].job.slot = x
    BY DEF QueuedHasJob
  <2>1. CASE x = s
    BY <1>6, <2>1
  <2>2. CASE x # s
    <3>1. \/ \E i \in 1 .. Len(jobs) : jobs[i].slot = x
          \/ \E w \in Workers : Popped(w) /\ workers[w].job.slot = x
      BY <1>1, <1>7, <2>2 DEF QueuedHasJob
    <3> QED
      BY <1>3, <1>6, <3>1 DEF Popped
  <2> QED
    BY <2>1, <2>2
<1>9. main.pc # "signal" /\ main'.pc = "signal"
  BY <1>2, <1>3, <1>4 DEF MainType
<1>10. IsFiniteSet(Woken) /\ Woken' = Woken
  BY <1>1, <1>3 DEF CallsOK, Woken
<1>11. Cardinality(Woken) \in Nat
  BY <1>10, FS_CardinalityType
<1>12. CallsOK'
  BY <1>1, <1>3, <1>4, <1>6, <1>9, <1>10, <1>11 DEF CallsOK
<1> QED
  BY <1>8, <1>12 DEF WaitInv

\* The call is made.
LEMMA SignalWait ==
  ASSUME WaitInv, Signal, CacheInv'
  PROVE  WaitInv'
<1>1. TypeOK /\ QueuedHasJob /\ CallsOK
  BY DEF WaitInv, CacheInv
<1>2. /\ main.pc = "signal" /\ prework' = prework + 1 /\ main'.pc = "idle"
      /\ cache' = cache /\ jobs' = jobs /\ workers' = workers
  BY DEF Signal, Resting
<1>3. QueuedHasJob'
  BY <1>1, <1>2, QueuedKept DEF Popped
<1>4. IsFiniteSet(Woken) /\ Woken' = Woken
  BY <1>1, <1>2 DEF CallsOK, Woken
<1>5. Cardinality(Woken) \in Nat /\ prework \in Nat
  BY <1>1, <1>4, FS_CardinalityType DEF TypeOK
<1>6. CallsOK'
  BY <1>1, <1>2, <1>4, <1>5 DEF CallsOK
<1> QED
  BY <1>3, <1>6 DEF WaitInv

\* A worker answers a call.
LEMMA WakeWait ==
  ASSUME WaitInv, NEW w \in Workers, Wake(w), CacheInv'
  PROVE  WaitInv'
<1>1. TypeOK /\ QueuedHasJob /\ CallsOK
  BY DEF WaitInv, CacheInv
<1>2. /\ workers[w].pc = "asleep" /\ prework' = prework - 1
      /\ workers' = [workers EXCEPT ![w].pc = "pop"]
      /\ cache' = cache /\ jobs' = jobs /\ main' = main
  BY DEF Wake, To
<1>3. /\ workers'[w].pc = "pop" /\ \A v \in Workers : v # w => workers'[v] = workers[v]
  BY <1>1, <1>2 DEF TypeOK, WorkerType
<1>4. \A v \in Workers : Popped(v) => Popped(v)' /\ workers'[v].job = workers[v].job
  BY <1>2, <1>3 DEF Popped
<1>5. QueuedHasJob'
  BY <1>1, <1>2, <1>4, QueuedKept
<1>6. Woken' = Woken \cup {w} /\ w \notin Woken
  BY <1>2, <1>3 DEF Woken
<1>7. IsFiniteSet(Woken) /\ Cardinality(Woken) \in Nat /\ prework \in Nat
  BY <1>1, FS_CardinalityType DEF CallsOK, TypeOK
<1>8. IsFiniteSet(Woken') /\ Cardinality(Woken') = Cardinality(Woken) + 1
  BY <1>6, <1>7, FS_AddElement
<1>9. CallsOK'
  BY <1>1, <1>2, <1>7, <1>8 DEF CallsOK
<1> QED
  BY <1>5, <1>9 DEF WaitInv

\* ... and finds a job, because there is one for every call.
LEMMA PopWait ==
  ASSUME WaitInv, NEW w \in Workers, Pop(w), CacheInv'
  PROVE  WaitInv'
<1> DEFINE j == jobs[1]
           o == [workers EXCEPT ![w].pc = "mark"]
<1>1. TypeOK /\ QueuedHasJob /\ CallsOK
  BY DEF WaitInv, CacheInv
<1>2. /\ workers[w].pc = "pop" /\ cache' = cache /\ prework' = prework /\ main' = main
  BY DEF Pop
<1>3. w \in Woken /\ IsFiniteSet(Woken)
  BY <1>1, <1>2 DEF CallsOK, Woken
<1>4. /\ Cardinality(Woken) \in Nat /\ Cardinality(Woken) # 0 /\ prework \in Nat
      /\ jobs \in Seq(Jobs) /\ workers \in [Workers -> WorkerType] /\ Len(jobs) \in Nat
  BY <1>1, <1>3, FS_CardinalityType, FS_EmptySet, LenProperties DEF TypeOK
<1>5. Len(jobs) > 0
  BY <1>1, <1>4 DEF CallsOK
<1>6. jobs # <<>>
  BY <1>5
<1>7. /\ workers' = [workers EXCEPT ![w].pc = "mark", ![w].job = Head(jobs)]
      /\ jobs' = Tail(jobs)
  BY <1>6 DEF Pop
<1>8. /\ Head(jobs) = j /\ j \in Jobs /\ Len(jobs') = Len(jobs) - 1
      /\ \A i \in 1 .. Len(jobs') : jobs'[i] = jobs[i + 1]
  BY <1>4, <1>5, <1>6, <1>7, HeadTailProperties, EmptySeq, LenProperties
<1>9. /\ o \in [Workers -> WorkerType] /\ o[w].pc = "mark"
      /\ \A v \in Workers : v # w => o[v] = workers[v]
  BY <1>4 DEF WorkerType
<1>10. workers' = [o EXCEPT ![w].job = j]
  BY <1>7, <1>8
<1> HIDE DEF o, j
<1>11. /\ workers'[w].pc = "mark" /\ workers'[w].job = j
       /\ \A v \in Workers : v # w => workers'[v] = workers[v]
  BY <1>8, <1>9, <1>10 DEF WorkerType
<1>12. QueuedHasJob'
  <2> SUFFICES ASSUME NEW x \in Slots, cache[x].work = "queued"
               PROVE  \/ \E i \in 1 .. Len(jobs') : jobs'[i].slot = x
                      \/ \E v \in Workers : Popped(v)' /\ workers'[v].job.slot = x
    BY <1>2 DEF QueuedHasJob
  <2>1. \/ \E i \in 1 .. Len(jobs) : jobs[i].slot = x
        \/ \E v \in Workers : Popped(v) /\ workers[v].job.slot = x
    BY <1>1 DEF QueuedHasJob
  <2>2. ASSUME NEW i \in 1 .. Len(jobs), jobs[i].slot = x
        PROVE  \/ \E k \in 1 .. Len(jobs') : jobs'[k].slot = x
               \/ \E v \in Workers : Popped(v)' /\ workers'[v].job.slot = x
    <3>1. CASE i = 1
      BY <1>11, <2>2, <3>1 DEF j, Popped
    <3>2. CASE i # 1
      <4>1. i - 1 \in 1 .. Len(jobs') /\ i - 1 + 1 = i
        BY <1>4, <1>8, <3>2
      <4>2. jobs'[i - 1] = jobs[i]
        BY <1>8, <4>1
      <4> QED
        BY <2>2, <4>1, <4>2
    <3> QED
      BY <3>1, <3>2
  <2>3. ASSUME NEW v \in Workers, Popped(v), workers[v].job.slot = x
        PROVE  \E y \in Workers : Popped(y)' /\ workers'[y].job.slot = x
    BY <1>2, <1>11, <2>3 DEF Popped
  <2> QED
    BY <2>1, <2>2, <2>3
<1>13. Woken' = Woken \ {w}
  BY <1>2, <1>11 DEF Woken
<1>14. IsFiniteSet(Woken') /\ Cardinality(Woken') = Cardinality(Woken) - 1
  BY <1>3, <1>13, FS_RemoveElement
<1>15. CallsOK'
  BY <1>1, <1>2, <1>4, <1>8, <1>14 DEF CallsOK
<1> QED
  BY <1>12, <1>15 DEF WaitInv

\* A worker that has its job changes one slot, which then waits for nobody.
LEMMA FillsWait ==
  ASSUME WaitInv, CacheInv', NEW w \in Workers,
         workers[w].pc # "pop", workers'[w].pc # "pop",
         jobs' = jobs, prework' = prework, main' = main,
         \A v \in Workers : v # w => workers'[v] = workers[v],
         \A x \in Slots : cache'[x].work = "queued" =>
           cache[x].work = "queued" /\ (Popped(w) => workers[w].job.slot # x)
  PROVE  WaitInv'
<1>1. QueuedHasJob /\ CallsOK
  BY DEF WaitInv
<1>2. QueuedHasJob'
  <2> SUFFICES ASSUME NEW x \in Slots, cache'[x].work = "queued"
               PROVE  \/ \E i \in 1 .. Len(jobs') : jobs'[i].slot = x
                      \/ \E v \in Workers : Popped(v)' /\ workers'[v].job.slot = x
    BY DEF QueuedHasJob
  <2>1. \/ \E i \in 1 .. Len(jobs) : jobs[i].slot = x
        \/ \E v \in Workers : v # w /\ Popped(v) /\ workers[v].job.slot = x
    BY <1>1 DEF QueuedHasJob
  <2> QED
    BY <2>1 DEF Popped
<1>3. Woken' = Woken
  BY DEF Woken
<1>4. CallsOK'
  BY <1>1, <1>3 DEF CallsOK
<1> QED
  BY <1>2, <1>4 DEF WaitInv
LEMMA MarkWait ==
  ASSUME WaitInv, NEW w \in Workers, Mark(w), CacheInv'
  PROVE  WaitInv'
<1> DEFINE j == workers[w].job
           s == j.slot
           u == [cache[s] EXCEPT !.work = "in_worker"]
           p == cache[s].picture
<1>1. TypeOK /\ JobsOK
  BY DEF WaitInv, CacheInv
<1>2. workers[w].pc = "mark" /\ Popped(w) /\ Waits(cache, j)
  BY <1>1 DEF Mark, Popped, JobsOK
<1>3. s \in Slots /\ cache[s].gen = j.gen
  BY <1>2 DEF Waits, Jobs
<1>4. /\ cache' = [cache EXCEPT ![s] = u]
      /\ workers' = [workers EXCEPT ![w].pc = "load", ![w].picture = p]
      /\ jobs' = jobs /\ prework' = prework /\ main' = main
  BY <1>3 DEF Mark
<1>5. cache[s] \in SlotType
  BY <1>1, <1>3 DEF TypeOK
<1>6. u.work = "in_worker"
  BY <1>5 DEF SlotType
<1>7. workers'[w].pc = "load" /\ \A v \in Workers : v # w => workers'[v] = workers[v]
  <2> DEFINE o == [workers EXCEPT ![w].pc = "load"]
  <2>1. /\ o \in [Workers -> WorkerType] /\ o[w].pc = "load"
        /\ \A v \in Workers : v # w => o[v] = workers[v]
    BY <1>1 DEF TypeOK, WorkerType
  <2>2. workers' = [o EXCEPT ![w].picture = p]
    BY <1>4
  <2> HIDE DEF o, p
  <2> QED
    BY <2>1, <2>2 DEF WorkerType
<1> HIDE DEF u
<1>8. /\ cache'[s].work = "in_worker"
      /\ \A x \in Slots : x # s => cache'[x] = cache[x]
  BY <1>1, <1>3, <1>4, <1>6 DEF TypeOK
<1>9. \A x \in Slots : cache'[x].work = "queued" =>
         cache[x].work = "queued" /\ (Popped(w) => workers[w].job.slot # x)
  BY <1>8
<1> QED
  BY <1>2, <1>4, <1>7, <1>9, FillsWait

\* The other steps change no slot that waits.
LEMMA WorkWait ==
  ASSUME WaitInv, NEW w \in Workers, CacheInv',
         Fetch(w) \/ Fetched(w) \/ Begin(w) \/ Allocate(w) \/ Draw(w) \/ Finish(w)
  PROVE  WaitInv'
<1> DEFINE j == workers[w].job
           s == j.slot
<1>1. TypeOK /\ WorkersOK
  BY DEF WaitInv, CacheInv
<1>2. At(w) /\ jobs' = jobs /\ prework' = prework /\ main' = main
  BY DEF Fetch, Fetched, Begin, Allocate, Draw, Finish, At
<1>3. j \in Jobs /\ s \in Slots /\ cache[s].work = "in_worker" /\ cache[s].gen = j.gen
  BY <1>1, <1>2 DEF WorkersOK, Fills, Jobs
<1>4. workers \in [Workers -> WorkerType] /\ cache \in [Slots -> SlotType]
  BY <1>1 DEF TypeOK
<1>5. CASE Finish(w)
  <2>1. /\ workers' = [workers EXCEPT ![w] = Waiting]
        /\ cache' = [cache EXCEPT ![s].work = "idle"]
    BY <1>3, <1>5 DEF Finish
  <2>2. workers'[w].pc = "asleep" /\ \A v \in Workers : v # w => workers'[v] = workers[v]
    BY <1>4, <2>1 DEF Waiting
  <2>3. cache'[s].work = "idle" /\ \A x \in Slots : x # s => cache'[x] = cache[x]
    BY <1>3, <1>4, <2>1 DEF SlotType
  <2>4. \A x \in Slots : cache'[x].work = "queued" => cache[x].work = "queued"
    BY <2>3
  <2> QED
    BY <1>2, <2>2, <2>4, FillsWait DEF At, Popped
<1>6. CASE Fetch(w) \/ Fetched(w) \/ Begin(w) \/ Allocate(w) \/ Draw(w)
  <2>1. PICK pc : /\ pc \in {"load", "loading", "draw", "drawing", "done"}
                  /\ workers' = [workers EXCEPT ![w].pc = pc]
    BY <1>6 DEF Fetch, Fetched, Begin, Allocate, Draw, To
  <2>2. /\ workers'[w].pc = pc /\ workers'[w].job = j
        /\ \A v \in Workers : v # w => workers'[v] = workers[v]
    BY <1>4, <2>1 DEF WorkerType
  <2>3. At(w)'
    BY <2>1, <2>2 DEF At
  <2>4. cache'[s].work = "in_worker"
    BY <2>2, <2>3 DEF CacheInv, WorkersOK, Fills
  <2>5. \A x \in Slots : x # s => cache'[x] = cache[x]
    <3>1. CASE Draw(w)
      <4> DEFINE c == [cache EXCEPT ![s].pixel = workers[w].picture]
      <4>1. cache' = [c EXCEPT ![s].flags = @ \cup {"make"}]
        BY <3>1 DEF Draw
      <4>2. DOMAIN c = Slots /\ \A x \in Slots : x # s => c[x] = cache[x]
        BY <1>4
      <4> HIDE DEF c
      <4> QED
        BY <4>1, <4>2
    <3>2. CASE Fetch(w) \/ Fetched(w) \/ Begin(w) \/ Allocate(w)
      BY <1>4, <3>2 DEF Fetch, Fetched, Begin, Allocate
    <3> QED
      BY <1>6, <3>1, <3>2
  <2>6. \A x \in Slots : cache'[x].work = "queued" => cache[x].work = "queued"
    BY <2>4, <2>5
  <2>7. workers[w].pc # "pop" /\ workers'[w].pc # "pop" /\ ~Popped(w)
    BY <1>2, <2>3 DEF At, Popped
  <2> QED
    BY <1>2, <2>2, <2>6, <2>7, FillsWait
<1> QED
  BY <1>5, <1>6

LEMMA WaitStart == Init => WaitInv
<1> SUFFICES ASSUME Init PROVE WaitInv
  OBVIOUS
<1>1. CacheInv
  BY CacheStart
<1>2. /\ \A s \in Slots : cache[s].work = "idle"
      /\ \A w \in Workers : workers[w].pc = "asleep"
      /\ Len(jobs) = 0 /\ prework = 0 /\ main.pc = "idle"
  BY DEF Init, FreeSlot, Waiting, Resting
<1>3. QueuedHasJob
  BY <1>2 DEF QueuedHasJob
<1>4. Woken = {}
  BY <1>2 DEF Woken
<1>5. CallsOK
  BY <1>2, <1>4, FS_EmptySet DEF CallsOK
<1> QED
  BY <1>1, <1>3, <1>5 DEF WaitInv

LEMMA WaitStep == WaitInv /\ [Next]_vars => WaitInv'
<1> SUFFICES ASSUME WaitInv, [Next]_vars PROVE WaitInv'
  OBVIOUS
<1>1. CacheInv'
  BY CacheStep DEF WaitInv
<1>2. CASE Main
  <2>1. Renders \/ Enqueue \/ Signal
    BY <1>2 DEF Main, Proceed, Renders
  <2> QED
    BY <1>1, <2>1, RendersWait, EnqueueWait, SignalWait
<1>3. CASE \E w \in Workers : Work(w)
  <2> PICK w \in Workers : Work(w)
    BY <1>3
  <2>1. CASE Wake(w) \/ Pop(w) \/ Mark(w)
    BY <1>1, <2>1, WakeWait, PopWait, MarkWait
  <2>2. CASE Fetch(w) \/ Fetched(w) \/ Begin(w) \/ Allocate(w) \/ Draw(w) \/ Finish(w)
    BY <1>1, <2>2, WorkWait
  <2> QED
    BY <2>1, <2>2 DEF Work
<1>4. CASE UNCHANGED vars
  <2>1. UNCHANGED <<cache, jobs, prework, main, workers>>
    BY <1>4 DEF vars
  <2> QED
    BY <1>1, <2>1 DEF WaitInv, QueuedHasJob, CallsOK, Woken, Popped
<1> QED
  BY <1>2, <1>3, <1>4 DEF Next

\* A job waits for a slot exactly as long as the slot says so, one job for
\* each slot and of its generation, and every job that waits has a call on its
\* way: tex_jobs_push and tex_jobs_pop with cache_gen, and the semaphore.
THEOREM JobsCurrent == Spec => []JobsAreCurrent
<1>1. WaitInv => JobsAreCurrent
  <2> SUFFICES ASSUME WaitInv PROVE JobsAreCurrent
    OBVIOUS
  <2> DEFINE popped == {w \in Workers : workers[w].pc = "mark"}
             named(s) == {i \in 1 .. Len(jobs) : jobs[i].slot = s}
             taken(s) == {w \in popped : workers[w].job.slot = s}
  <2>1. JobsOK /\ QueuedHasJob /\ CallsOK
    BY DEF WaitInv, CacheInv
  <2>2. \A i \in 1 .. Len(jobs) : /\ jobs[i].gen = cache[jobs[i].slot].gen
                                  /\ cache[jobs[i].slot].work = "queued"
    BY <2>1 DEF JobsOK, Waits
  <2>3. \A w \in popped : /\ workers[w].job.gen = cache[workers[w].job.slot].gen
                          /\ cache[workers[w].job.slot].work = "queued"
    BY <2>1 DEF JobsOK, Waits, Popped
  <2>4. ASSUME NEW s \in Slots
        PROVE  Cardinality(named(s)) + Cardinality(taken(s))
                  = IF cache[s].work = "queued" THEN 1 ELSE 0
    <3> HIDE DEF taken, named
    <3>1. CASE cache[s].work # "queued"
      <4>1. named(s) = {} /\ taken(s) = {}
        BY <2>2, <2>3, <3>1 DEF named, taken
      <4> QED
        BY <3>1, <4>1, FS_EmptySet
    <3>2. CASE cache[s].work = "queued" /\ \E i \in 1 .. Len(jobs) : jobs[i].slot = s
      <4> PICK i \in 1 .. Len(jobs) : jobs[i].slot = s
        BY <3>2
      <4>1. named(s) = {i}
        BY <2>1 DEF JobsOK, named
      <4>2. taken(s) = {}
        BY <2>1 DEF JobsOK, Popped, taken
      <4>3. Cardinality({i}) = 1 /\ Cardinality({}) = 0
        BY FS_EmptySet, FS_Singleton
      <4> QED
        BY <3>2, <4>1, <4>2, <4>3
    <3>3. CASE cache[s].work = "queued" /\ ~\E i \in 1 .. Len(jobs) : jobs[i].slot = s
      <4>1. PICK w \in Workers : Popped(w) /\ workers[w].job.slot = s
        BY <2>1, <3>3 DEF QueuedHasJob
      <4>2. taken(s) = {w}
        BY <2>1, <4>1 DEF JobsOK, Popped, taken
      <4>3. named(s) = {}
        BY <3>3 DEF named
      <4>4. Cardinality({w}) = 1 /\ Cardinality({}) = 0
        BY FS_EmptySet, FS_Singleton
      <4> QED
        BY <3>3, <4>2, <4>3, <4>4
    <3> QED
      BY <3>1, <3>2, <3>3
  <2>5. Len(jobs) = prework + Cardinality({w \in Workers : workers[w].pc = "pop"})
                    + IF main.pc = "signal" THEN 1 ELSE 0
    BY <2>1 DEF CallsOK, Woken
  <2> QED
    BY <2>2, <2>3, <2>4, <2>5 DEF JobsAreCurrent
<1> QED
  BY <1>1, WaitStart, WaitStep, PTL DEF Spec

(***************************************************************************)
(* The two lists are whole.                                                *)
(***************************************************************************)

\* What is read along the links is what the links tell, step by step.
Reads(first, next, q) ==
  /\ q = [i \in 1 .. NumSlots |-> q[i]]
  /\ q[1] = first
  /\ \A i \in 1 .. NumSlots : i # 1 =>
       q[i] = IF q[i - 1] = NoSlot THEN NoSlot ELSE next[q[i - 1]]

LEMMA FollowIs ==
  ASSUME NEW first, NEW next, NEW q, Reads(first, next, q)
  PROVE  Follow(first, next) = q
<1> DEFINE Step(f) == [i \in 1 .. NumSlots |->
                         IF i = 1 THEN first
                         ELSE IF f[i - 1] = NoSlot THEN NoSlot ELSE next[f[i - 1]]]
           at == CHOOSE f : f = Step(f)
<1>1. Follow(first, next) = at
  BY DEF Follow
<1>2. /\ q = [i \in 1 .. NumSlots |-> q[i]] /\ q[1] = first
      /\ \A i \in 1 .. NumSlots : i # 1 =>
           q[i] = IF q[i - 1] = NoSlot THEN NoSlot ELSE next[q[i - 1]]
  BY DEF Reads
<1>3. q = Step(q)
  BY <1>2
<1>4. at = Step(at)
  BY <1>3
<1>5. /\ at = [i \in 1 .. NumSlots |-> at[i]]
      /\ at[1] = first
      /\ \A i \in 1 .. NumSlots : i # 1 =>
           at[i] = IF at[i - 1] = NoSlot THEN NoSlot ELSE next[at[i - 1]]
  <2> HIDE DEF at
  <2>1. 1 \in 1 .. NumSlots
    BY CacheAssumption
  <2> QED
    BY <1>4, <2>1
<1> HIDE DEF at
<1>6. \A i \in 1 .. NumSlots : at[i] = q[i]
  <2> DEFINE bad == {i \in 1 .. NumSlots : at[i] # q[i]}
  <2> SUFFICES ASSUME bad # {} PROVE FALSE
    OBVIOUS
  <2>1. bad \in SUBSET Nat
    BY CacheAssumption
  <2>2. PICK m \in bad : \A j \in bad : <<j, m>> \notin OpToRel(<, Nat)
    BY <2>1, NatLessThanWellFounded, WFMin
  <2>3. \A j \in bad : ~(j < m)
    BY <2>1, <2>2 DEF OpToRel
  <2>4. m # 1
    BY <1>2, <1>5
  <2>5. m - 1 \in 1 .. NumSlots /\ m - 1 \notin bad
    BY <2>3, <2>4, CacheAssumption
  <2>6. at[m - 1] = q[m - 1]
    BY <2>5
  <2>7. /\ at[m] = IF at[m - 1] = NoSlot THEN NoSlot ELSE next[at[m - 1]]
        /\ q[m] = IF q[m - 1] = NoSlot THEN NoSlot ELSE next[q[m - 1]]
    BY <1>2, <1>5, <2>4
  <2>8. at[m] = q[m]
    BY <2>6, <2>7
  <2> QED
    BY <2>8
<1> QED
  BY <1>2, <1>1, <1>5, <1>6

(***************************************************************************)
(* The list of use.                                                        *)
(***************************************************************************)

\* The slots in the order of the list, the latest used first.
Orders == {q \in [1 .. NumSlots -> Slots] :
             /\ \A i, j \in 1 .. NumSlots : i # j => q[i] # q[j]
             /\ \A s \in Slots : \E i \in 1 .. NumSlots : q[i] = s}

\* The list links the slots in this order, both ways.
Links(l, q) ==
  /\ l.best = q[1] /\ l.last = q[NumSlots]
  /\ \A i \in 1 .. NumSlots :
       /\ l.prev[q[i]] = IF i = 1 THEN NoSlot ELSE q[i - 1]
       /\ l.next[q[i]] = IF i = NumSlots THEN NoSlot ELSE q[i + 1]

UseWhole(l) == l \in UseType /\ \E q \in Orders : Links(l, q)

\* The order after the slot at place k was used.
Moved(q, k) == [i \in 1 .. NumSlots |->
                  IF i = 1 THEN q[k] ELSE IF i <= k THEN q[i - 1] ELSE q[i]]

LEMMA MovedOrder ==
  ASSUME NEW q \in Orders, NEW k \in 1 .. NumSlots
  PROVE  Moved(q, k) \in Orders
<1> DEFINE r == Moved(q, k)
           from(i) == IF i = 1 THEN k ELSE IF i <= k THEN i - 1 ELSE i
           to(i) == IF i = k THEN 1 ELSE IF i < k THEN i + 1 ELSE i
<1>1. NumSlots \in Nat /\ NumSlots # 0 /\ k \in Nat /\ 1 <= k /\ k <= NumSlots
  BY CacheAssumption
<1>2. \A i \in 1 .. NumSlots : from(i) \in 1 .. NumSlots /\ r[i] = q[from(i)]
  BY <1>1 DEF Moved
<1>3. \A i, j \in 1 .. NumSlots : i # j => from(i) # from(j)
  BY <1>1
<1>4. \A i \in 1 .. NumSlots : to(i) \in 1 .. NumSlots /\ from(to(i)) = i
  BY <1>1
<1>5. /\ q \in [1 .. NumSlots -> Slots]
      /\ \A i, j \in 1 .. NumSlots : i # j => q[i] # q[j]
      /\ \A s \in Slots : \E i \in 1 .. NumSlots : q[i] = s
  BY DEF Orders
<1>6. r = [i \in 1 .. NumSlots |-> r[i]]
  BY DEF Moved
<1> HIDE DEF r, from, to
<1>7. r \in [1 .. NumSlots -> Slots]
  BY <1>2, <1>5, <1>6
<1>8. \A i, j \in 1 .. NumSlots : i # j => r[i] # r[j]
  BY <1>2, <1>3, <1>5
<1>9. \A s \in Slots : \E i \in 1 .. NumSlots : r[i] = s
  <2> TAKE s \in Slots
  <2>1. PICK i \in 1 .. NumSlots : q[i] = s
    BY <1>5
  <2>2. r[to(i)] = s
    BY <1>2, <1>4, <2>1
  <2> QED
    BY <1>4, <2>2
<1> QED
  BY <1>7, <1>8, <1>9 DEF Orders, r

\* sdl_tx_best moves the slot to the head and keeps the others in order.
LEMMA BestLinks ==
  ASSUME NEW l \in UseType, NEW q \in Orders, Links(l, q), NEW k \in 1 .. NumSlots
  PROVE  Links(Best(l, q[k]), Moved(q, k))
<1> DEFINE s == q[k]
           N == NumSlots
           r == Moved(q, k)
           b == Best(l, s)
           p == l.prev[s]
           n == l.next[s]
<1>1. N \in Nat /\ N # 0 /\ k \in Nat /\ 1 <= k /\ k <= N
  BY CacheAssumption
<1>2. /\ \A i \in 1 .. N : q[i] \in Slots
      /\ \A i, j \in 1 .. N : i # j => q[i] # q[j]
      /\ s \in Slots
  BY DEF Orders
<1>3. /\ l.best = q[1] /\ l.last = q[N]
      /\ \A i \in 1 .. N : /\ l.prev[q[i]] = IF i = 1 THEN NoSlot ELSE q[i - 1]
                           /\ l.next[q[i]] = IF i = N THEN NoSlot ELSE q[i + 1]
  BY DEF Links
<1>4. \A i \in 1 .. N : r[i] = IF i = 1 THEN s ELSE IF i <= k THEN q[i - 1] ELSE q[i]
  BY DEF Moved
<1>5. /\ l.prev \in [Slots -> Slots \cup {NoSlot}] /\ l.next \in [Slots -> Slots \cup {NoSlot}]
  BY DEF UseType
<1>6. \A i \in 1 .. N : q[i] # NoSlot
  BY <1>2, NoSlotIsNone
<1>7. CASE k = 1
  <2>1. p = NoSlot
    BY <1>1, <1>3, <1>7
  <2>2. b = l
    BY <2>1 DEF Best
  <2>3. \A i \in 1 .. N : r[i] = q[i]
    BY <1>1, <1>4, <1>7
  <2> QED
    BY <1>1, <1>3, <2>2, <2>3 DEF Links
<1>8. CASE k # 1 /\ k = N
  <2>1. p = q[N - 1] /\ p # NoSlot /\ n = NoSlot /\ N - 1 \in 1 .. N
    BY <1>1, <1>3, <1>6, <1>8
  <2>2. b = [prev |-> [l.prev EXCEPT ![l.best] = s, ![s] = NoSlot],
             next |-> [l.next EXCEPT ![p] = NoSlot, ![s] = l.best],
             best |-> s, last |-> p]
    BY <2>1 DEF Best
  <2>3. /\ b.best = s /\ b.last = p
        /\ \A x \in Slots : b.prev[x] = IF x = s THEN NoSlot
                                        ELSE IF x = q[1] THEN s ELSE l.prev[x]
        /\ \A x \in Slots : b.next[x] = IF x = s THEN q[1]
                                        ELSE IF x = p THEN NoSlot ELSE l.next[x]
    BY <1>2, <1>3, <1>5, <2>1, <2>2
  <2> HIDE DEF b, r, p, n
  <2>4. \A i \in 1 .. N : b.prev[r[i]] = IF i = 1 THEN NoSlot ELSE r[i - 1]
    BY <1>1, <1>2, <1>3, <1>4, <1>8, <2>3
  <2>5. \A i \in 1 .. N : b.next[r[i]] = IF i = N THEN NoSlot ELSE r[i + 1]
    BY <1>1, <1>2, <1>3, <1>4, <1>8, <2>1, <2>3
  <2>6. b.best = r[1] /\ b.last = r[N]
    BY <1>1, <1>4, <1>8, <2>1, <2>3
  <2> QED
    BY <2>4, <2>5, <2>6 DEF Links, b, r
<1>9. CASE k # 1 /\ k # N
  <2>1. /\ p = q[k - 1] /\ p # NoSlot /\ n = q[k + 1] /\ n # NoSlot
        /\ k - 1 \in 1 .. N /\ k + 1 \in 1 .. N
    BY <1>1, <1>3, <1>6, <1>9
  <2>2. b = [prev |-> [l.prev EXCEPT ![n] = p, ![s] = NoSlot, ![l.best] = s],
             next |-> [l.next EXCEPT ![p] = n, ![s] = l.best],
             best |-> s, last |-> l.last]
    BY <2>1 DEF Best
  <2>3. /\ b.best = s /\ b.last = q[N]
        /\ \A x \in Slots : b.prev[x] = IF x = q[1] THEN s
                                        ELSE IF x = s THEN NoSlot
                                        ELSE IF x = n THEN p ELSE l.prev[x]
        /\ \A x \in Slots : b.next[x] = IF x = s THEN q[1]
                                        ELSE IF x = p THEN n ELSE l.next[x]
    BY <1>2, <1>3, <1>5, <2>1, <2>2
  <2> HIDE DEF b, r, p, n
  <2>4. \A i \in 1 .. N : b.prev[r[i]] = IF i = 1 THEN NoSlot ELSE r[i - 1]
    BY <1>1, <1>2, <1>3, <1>4, <1>9, <2>1, <2>3
  <2>5. \A i \in 1 .. N : b.next[r[i]] = IF i = N THEN NoSlot ELSE r[i + 1]
    BY <1>1, <1>2, <1>3, <1>4, <1>9, <2>1, <2>3
  <2>6. b.best = r[1] /\ b.last = r[N]
    BY <1>1, <1>4, <1>9, <2>1, <2>3
  <2> QED
    BY <2>4, <2>5, <2>6 DEF Links, b, r
<1> QED
  BY <1>7, <1>8, <1>9

LEMMA BestWhole ==
  ASSUME NEW l, UseWhole(l), NEW s \in Slots
  PROVE  UseWhole(Best(l, s))
<1>1. PICK q \in Orders : Links(l, q)
  BY DEF UseWhole
<1>2. PICK k \in 1 .. NumSlots : q[k] = s
  BY DEF Orders
<1>3. l \in UseType
  BY DEF UseWhole
<1>4. Links(Best(l, s), Moved(q, k)) /\ Moved(q, k) \in Orders
  BY <1>1, <1>2, <1>3, BestLinks, MovedOrder
<1>5. Best(l, s) \in UseType
  BY <1>3, BestType
<1> QED
  BY <1>4, <1>5 DEF UseWhole

\* From either end the list shows every slot once.
LEMMA UseRead ==
  ASSUME UseWhole(lru)
  PROVE  LET used == Follow(lru.best, lru.next)
             unused == Follow(lru.last, lru.prev)
         IN  /\ {used[i] : i \in 1 .. NumSlots} = Slots
             /\ \A i \in 1 .. NumSlots : unused[i] = used[NumSlots + 1 - i]
<1> PICK q \in Orders : Links(lru, q)
  BY DEF UseWhole
<1> DEFINE r == [i \in 1 .. NumSlots |-> q[NumSlots + 1 - i]]
<1>1. NumSlots \in Nat /\ NumSlots # 0
  BY CacheAssumption
<1>2. /\ q \in [1 .. NumSlots -> Slots]
      /\ \A i \in 1 .. NumSlots : q[i] # NoSlot
      /\ \A s \in Slots : \E i \in 1 .. NumSlots : q[i] = s
  BY NoSlotIsNone DEF Orders
<1>3. /\ lru.best = q[1] /\ lru.last = q[NumSlots]
      /\ \A i \in 1 .. NumSlots :
           /\ lru.prev[q[i]] = IF i = 1 THEN NoSlot ELSE q[i - 1]
           /\ lru.next[q[i]] = IF i = NumSlots THEN NoSlot ELSE q[i + 1]
  BY DEF Links
<1>4. Follow(lru.best, lru.next) = q
  <2>1. \A i \in 1 .. NumSlots : i # 1 =>
           q[i] = IF q[i - 1] = NoSlot THEN NoSlot ELSE lru.next[q[i - 1]]
    BY <1>1, <1>2, <1>3
  <2>2. Reads(lru.best, lru.next, q)
    BY <1>2, <1>3, <2>1 DEF Reads
  <2> QED
    BY <2>2, FollowIs
<1>5. /\ r[1] = q[NumSlots]
      /\ \A i \in 1 .. NumSlots : r[i] = q[NumSlots + 1 - i]
      /\ r = [i \in 1 .. NumSlots |-> r[i]]
  BY <1>1
<1> HIDE DEF r
<1>6. Follow(lru.last, lru.prev) = r
  <2>1. ASSUME NEW i \in 1 .. NumSlots, i # 1
        PROVE  r[i] = IF r[i - 1] = NoSlot THEN NoSlot ELSE lru.prev[r[i - 1]]
    <3> DEFINE j == NumSlots + 1 - i
    <3>1. j \in 1 .. NumSlots /\ j + 1 \in 1 .. NumSlots /\ j + 1 # 1 /\ j + 1 - 1 = j
          /\ i - 1 \in 1 .. NumSlots /\ NumSlots + 1 - (i - 1) = j + 1
      BY <1>1, <2>1
    <3>2. r[i - 1] = q[j + 1] /\ r[i] = q[j]
      BY <1>5, <3>1
    <3> HIDE DEF j
    <3>3. lru.prev[q[j + 1]] = q[j]
      BY <1>3, <3>1
    <3> QED
      BY <1>2, <3>1, <3>2, <3>3
  <2>2. Reads(lru.last, lru.prev, r)
    BY <1>3, <1>5, <2>1 DEF Reads
  <2> QED
    BY <2>2, FollowIs
<1>7. {q[i] : i \in 1 .. NumSlots} = Slots
  BY <1>2
<1> QED
  BY <1>4, <1>5, <1>6, <1>7

(***************************************************************************)
(* The hash chains.                                                        *)
(***************************************************************************)

ChainType ==
  [head : [Buckets -> Slots \cup {NoSlot}],
   prev : [Slots -> Slots \cup {NoSlot}],
   next : [Slots -> Slots \cup {NoSlot}]]

\* A chain links n slots in the order q, both ways.
Chained(c, b, n, q) ==
  /\ \A i, j \in 1 .. n : i # j => q[i] # q[j]
  /\ c.head[b] = IF n = 0 THEN NoSlot ELSE q[1]
  /\ \A i \in 1 .. n :
       /\ c.prev[q[i]] = IF i = 1 THEN NoSlot ELSE q[i - 1]
       /\ c.next[q[i]] = IF i = n THEN NoSlot ELSE q[i + 1]

\* ... and these slots are the members of a set.
ChainOf(c, b, S) ==
  \E n \in Nat : \E q \in [1 .. n -> S] :
    /\ Chained(c, b, n, q)
    /\ \A s \in S : \E i \in 1 .. n : q[i] = s

\* A slot that is in no chain becomes the head of one.
LEMMA PushChains ==
  ASSUME NEW c \in ChainType, NEW b \in Buckets, NEW S \in SUBSET Slots,
         ChainOf(c, b, S), NEW s \in Slots \ S
  PROVE  LET d == Push(c, b, s)
         IN  /\ d \in ChainType
             /\ ChainOf(d, b, S \cup {s})
             /\ \A a \in Buckets \ {b}, T \in SUBSET (Slots \ (S \cup {s})) :
                  ChainOf(c, a, T) => ChainOf(d, a, T)
<1> DEFINE d == Push(c, b, s)
           h == c.head[b]
<1>1. PICK n \in Nat :
      \E q \in [1 .. n -> S] :
        Chained(c, b, n, q) /\ \A x \in S : \E i \in 1 .. n : q[i] = x
  BY DEF ChainOf
<1>2. PICK q \in [1 .. n -> S] :
      Chained(c, b, n, q) /\ \A x \in S : \E i \in 1 .. n : q[i] = x
  BY <1>1
<1>3. /\ c.head \in [Buckets -> Slots \cup {NoSlot}]
      /\ c.prev \in [Slots -> Slots \cup {NoSlot}]
      /\ c.next \in [Slots -> Slots \cup {NoSlot}]
      /\ h \in Slots \cup {NoSlot} /\ s # NoSlot
  BY NoSlotIsNone DEF ChainType
<1>4. /\ \A i, j \in 1 .. n : i # j => q[i] # q[j]
      /\ h = IF n = 0 THEN NoSlot ELSE q[1]
      /\ \A i \in 1 .. n : /\ c.prev[q[i]] = IF i = 1 THEN NoSlot ELSE q[i - 1]
                           /\ c.next[q[i]] = IF i = n THEN NoSlot ELSE q[i + 1]
  BY <1>2 DEF Chained
<1>5. \A i \in 1 .. n : q[i] \in S /\ q[i] \in Slots /\ q[i] # s /\ q[i] # NoSlot
  BY NoSlotIsNone
<1> HIDE DEF h
<1>6. h # NoSlot => h \in S
  BY <1>4, <1>5
<1> DEFINE hd == [c.head EXCEPT ![b] = s]
           nx == [c.next EXCEPT ![s] = h]
           pv == [[c.prev EXCEPT ![s] = NoSlot]
                   EXCEPT ![IF h = NoSlot THEN s ELSE h] = IF h = NoSlot THEN NoSlot ELSE s]
<1>7. d = [head |-> hd, next |-> nx, prev |-> pv]
  BY DEF Push, h
<1>8. /\ hd \in [Buckets -> Slots \cup {NoSlot}]
      /\ hd[b] = s /\ \A a \in Buckets : a # b => hd[a] = c.head[a]
  BY <1>3
<1>9. /\ nx \in [Slots -> Slots \cup {NoSlot}]
      /\ \A x \in Slots : nx[x] = IF x = s THEN h ELSE c.next[x]
  BY <1>3
<1>10. /\ pv \in [Slots -> Slots \cup {NoSlot}]
       /\ \A x \in Slots : pv[x] = IF x = s THEN NoSlot
                                   ELSE IF x = h THEN s ELSE c.prev[x]
  <2> DEFINE o == [c.prev EXCEPT ![s] = NoSlot]
  <2>1. /\ o \in [Slots -> Slots \cup {NoSlot}]
        /\ \A x \in Slots : o[x] = IF x = s THEN NoSlot ELSE c.prev[x]
    BY <1>3
  <2> HIDE DEF o
  <2>2. CASE h = NoSlot
    <3>1. pv = [o EXCEPT ![s] = NoSlot] /\ h \notin Slots
      BY <2>2, NoSlotIsNone DEF o
    <3> QED
      BY <2>1, <3>1
  <2>3. CASE h # NoSlot
    <3>1. pv = [o EXCEPT ![h] = s] /\ h \in Slots /\ h # s
      BY <1>6, <2>3 DEF o
    <3> QED
      BY <2>1, <3>1
  <2> QED
    BY <2>2, <2>3
<1> HIDE DEF d, hd, nx, pv
<1>11. d.head = hd /\ d.next = nx /\ d.prev = pv
  BY <1>7
<1>12. d \in ChainType
  BY <1>7, <1>8, <1>9, <1>10 DEF ChainType
<1>13. ChainOf(d, b, S \cup {s})
  <2> DEFINE m == n + 1
             r == [i \in 1 .. m |-> IF i = 1 THEN s ELSE q[i - 1]]
  <2>1. /\ m \in Nat /\ m # 0
        /\ \A i \in 1 .. m : i # 1 => i - 1 \in 1 .. n
        /\ \A i \in 1 .. n : i + 1 \in 1 .. m /\ i + 1 # 1 /\ i + 1 - 1 = i
    OBVIOUS
  <2> HIDE DEF m
  <2>2. \A i \in 1 .. m : (IF i = 1 THEN s ELSE q[i - 1]) \in S \cup {s}
    BY <1>5, <2>1
  <2>3. /\ r \in [1 .. m -> S \cup {s}]
        /\ \A i \in 1 .. m : r[i] = IF i = 1 THEN s ELSE q[i - 1]
    BY <2>2
  <2> HIDE DEF r
  <2>4. \A i, j \in 1 .. m : i # j => r[i] # r[j]
    <3> SUFFICES ASSUME NEW i \in 1 .. m, NEW j \in 1 .. m, i # j PROVE r[i] # r[j]
      OBVIOUS
    <3>1. ASSUME NEW k \in 1 .. m, k # 1
          PROVE  r[k] = q[k - 1] /\ k - 1 \in 1 .. n
      BY <2>3, <2>1, <3>1
    <3>2. ASSUME NEW k \in 1 .. m, k # 1
          PROVE  r[k] # s
      BY <1>5, <3>2, <3>1
    <3>3. 1 \in 1 .. m /\ r[1] = s
      BY <2>3, <2>1
    <3>4. CASE i = 1 \/ j = 1
      BY <3>4, <3>2, <3>3
    <3>5. CASE i # 1 /\ j # 1 /\ i # j
      <4>1. i - 1 \in 1 .. n /\ j - 1 \in 1 .. n /\ i - 1 # j - 1
        BY <2>1, <3>5
      <4>2. r[i] = q[i - 1] /\ r[j] = q[j - 1]
        BY <2>3, <3>5
      <4> QED
        BY <1>4, <4>1, <4>2
    <3> QED
      BY <3>4, <3>5
  <2>5. d.head[b] = r[1]
    BY <1>8, <1>11, <2>3, <2>1
  <2>6. \A i \in 1 .. m : d.prev[r[i]] = IF i = 1 THEN NoSlot ELSE r[i - 1]
    <3> TAKE i \in 1 .. m
    <3>1. CASE i = 1
      <4>1. r[i] = s /\ d.prev[s] = NoSlot
        BY <1>10, <1>11, <2>3, <3>1
      <4> QED
        BY <3>1, <4>1
    <3>2. CASE i # 1
      <4> DEFINE k == i - 1
      <4>1. k \in 1 .. n /\ (k = 1 <=> i = 2) /\ (k # 1 => k - 1 \in 1 .. n)
        BY <2>1, <3>2
      <4>2. r[i] = q[k]
        BY <2>3, <3>2
      <4>3. r[k] = IF k = 1 THEN s ELSE q[k - 1]
        <5>1. k \in 1 .. m
          BY <4>1 DEF m
        <5> HIDE DEF k
        <5> QED
          BY <2>3, <5>1
      <4> HIDE DEF k
      <4>4. q[k] \in Slots /\ q[k] # s
        BY <1>5, <4>1
      <4>5. d.prev[q[k]] = IF q[k] = h THEN s ELSE c.prev[q[k]]
        BY <1>10, <1>11, <4>4
      <4>6. c.prev[q[k]] = IF k = 1 THEN NoSlot ELSE q[k - 1]
        BY <1>4, <4>1
      <4>7. q[k] = h <=> k = 1
        BY <1>4, <4>1
      <4> QED
        BY <3>2, <4>2, <4>3, <4>5, <4>6, <4>7 DEF k
    <3> QED
      BY <3>1, <3>2
  <2>7. \A i \in 1 .. m : d.next[r[i]] = IF i = m THEN NoSlot ELSE r[i + 1]
    <3> TAKE i \in 1 .. m
    <3>1. CASE i = 1
      <4>1. r[i] = s /\ d.next[s] = h /\ i \in 1 .. m
        BY <1>9, <1>11, <2>3, <3>1
      <4>2. CASE n = 0
        BY <1>4, <3>1, <4>1, <4>2 DEF m
      <4>3. CASE n # 0
        <5>1. 2 \in 1 .. m /\ 1 # m
          BY <4>3 DEF m
        <5>2. r[2] = q[1] /\ h = q[1]
          BY <1>4, <2>3, <4>3, <5>1
        <5> QED
          BY <3>1, <4>1, <5>1, <5>2
      <4> QED
        BY <4>2, <4>3
    <3>2. CASE i # 1
      <4> DEFINE k == i - 1
      <4>1. k \in 1 .. n /\ k + 1 = i /\ (k = n <=> i = m)
        BY <2>1, <3>2 DEF m
      <4>2. r[i] = q[k]
        BY <2>3, <3>2
      <4>3. i # m => r[i + 1] = q[i]
        <5> SUFFICES ASSUME i # m PROVE r[i + 1] = q[i]
          OBVIOUS
        <5>1. i + 1 \in 1 .. m /\ i + 1 # 1 /\ i + 1 - 1 = i
          BY <2>1
        <5> QED
          BY <2>3, <5>1
      <4> HIDE DEF k
      <4>4. d.next[q[k]] = c.next[q[k]]
        BY <1>5, <1>9, <1>11, <4>1
      <4>5. c.next[q[k]] = IF k = n THEN NoSlot ELSE q[k + 1]
        BY <1>4, <4>1
      <4> QED
        BY <4>1, <4>2, <4>3, <4>4, <4>5
    <3> QED
      BY <3>1, <3>2
  <2>8. Chained(d, b, m, r)
    BY <2>4, <2>5, <2>6, <2>7, <2>1 DEF Chained
  <2>9. \A x \in S \cup {s} : \E i \in 1 .. m : r[i] = x
    <3> TAKE x \in S \cup {s}
    <3>1. CASE x = s
      <4>1. 1 \in 1 .. m
        BY <2>1
      <4> QED
        BY <2>3, <3>1, <4>1
    <3>2. CASE x # s
      <4>1. PICK i \in 1 .. n : q[i] = x
        BY <1>2, <3>2
      <4>2. i + 1 \in 1 .. m /\ r[i + 1] = q[i]
        BY <2>3, <2>1
      <4> QED
        BY <4>1, <4>2
    <3> QED
      BY <3>1, <3>2
  <2> QED
    BY <2>3, <2>8, <2>9, <2>1 DEF ChainOf
<1>14. ASSUME NEW a \in Buckets \ {b}, NEW T \in SUBSET (Slots \ (S \cup {s})), ChainOf(c, a, T)
       PROVE  ChainOf(d, a, T)
  <2>1. PICK m \in Nat :
        \E r \in [1 .. m -> T] :
          Chained(c, a, m, r) /\ \A x \in T : \E i \in 1 .. m : r[i] = x
    BY <1>14 DEF ChainOf
  <2>2. PICK r \in [1 .. m -> T] :
        Chained(c, a, m, r) /\ \A x \in T : \E i \in 1 .. m : r[i] = x
    BY <2>1
  <2>3. \A i \in 1 .. m : r[i] \in Slots /\ r[i] # s /\ r[i] # h
    BY <1>6, NoSlotIsNone
  <2>4. \A i \in 1 .. m : d.prev[r[i]] = c.prev[r[i]] /\ d.next[r[i]] = c.next[r[i]]
    BY <1>9, <1>10, <1>11, <2>3
  <2>5. d.head[a] = c.head[a]
    BY <1>8, <1>11
  <2>6. Chained(d, a, m, r)
    BY <2>2, <2>4, <2>5 DEF Chained
  <2> QED
    BY <2>6, <2>2 DEF ChainOf
<1> QED
  BY <1>12, <1>13, <1>14 DEF d

\* A slot leaves its chain.
LEMMA UnlinkChains ==
  ASSUME NEW c \in ChainType, NEW b \in Buckets, NEW S \in SUBSET Slots,
         ChainOf(c, b, S), NEW s \in S
  PROVE  LET d == Unlink(c, b, s)
         IN  /\ d \in ChainType
             /\ ChainOf(d, b, S \ {s})
             /\ \A a \in Buckets \ {b}, T \in SUBSET (Slots \ S) :
                  ChainOf(c, a, T) => ChainOf(d, a, T)
<1> DEFINE d == Unlink(c, b, s)
           p == c.prev[s]
           x == c.next[s]
<1>1. PICK n \in Nat :
      \E q \in [1 .. n -> S] :
        Chained(c, b, n, q) /\ \A y \in S : \E i \in 1 .. n : q[i] = y
  BY DEF ChainOf
<1>2. PICK q \in [1 .. n -> S] :
      Chained(c, b, n, q) /\ \A y \in S : \E i \in 1 .. n : q[i] = y
  BY <1>1
<1>3. /\ \A i, j \in 1 .. n : i # j => q[i] # q[j]
      /\ c.head[b] = IF n = 0 THEN NoSlot ELSE q[1]
      /\ \A i \in 1 .. n : /\ c.prev[q[i]] = IF i = 1 THEN NoSlot ELSE q[i - 1]
                           /\ c.next[q[i]] = IF i = n THEN NoSlot ELSE q[i + 1]
  BY <1>2 DEF Chained
<1>4. \A i \in 1 .. n : q[i] \in S /\ q[i] \in Slots /\ q[i] # NoSlot
  BY NoSlotIsNone
<1>5. PICK k \in 1 .. n : q[k] = s
  BY <1>2
<1>6. /\ p = IF k = 1 THEN NoSlot ELSE q[k - 1]
      /\ x = IF k = n THEN NoSlot ELSE q[k + 1]
      /\ k # 1 => k - 1 \in 1 .. n
      /\ k # n => k + 1 \in 1 .. n
  BY <1>3, <1>5
<1>7. /\ p \in S \cup {NoSlot} /\ x \in S \cup {NoSlot} /\ NoSlot \notin S
      /\ p = NoSlot <=> k = 1
      /\ x = NoSlot <=> k = n
  BY <1>4, <1>6, NoSlotIsNone
<1>8. /\ c.head \in [Buckets -> Slots \cup {NoSlot}]
      /\ c.prev \in [Slots -> Slots \cup {NoSlot}]
      /\ c.next \in [Slots -> Slots \cup {NoSlot}]
  BY DEF ChainType
<1> DEFINE hd == IF p = NoSlot THEN [c.head EXCEPT ![b] = x] ELSE c.head
           nx == IF p = NoSlot THEN c.next ELSE [c.next EXCEPT ![p] = x]
           pv == IF x = NoSlot THEN c.prev ELSE [c.prev EXCEPT ![x] = p]
<1>9. d = [head |-> hd, next |-> nx, prev |-> pv]
  BY DEF Unlink
<1> HIDE DEF d, p, x
<1>10. /\ hd \in [Buckets -> Slots \cup {NoSlot}]
       /\ hd[b] = IF p = NoSlot THEN x ELSE c.head[b]
       /\ \A a \in Buckets : a # b => hd[a] = c.head[a]
  BY <1>7, <1>8
<1>11. /\ nx \in [Slots -> Slots \cup {NoSlot}]
       /\ \A y \in Slots : nx[y] = IF y = p THEN x ELSE c.next[y]
  <2>1. CASE p = NoSlot
    <3>1. nx = c.next /\ p \notin Slots
      BY <2>1, NoSlotIsNone
    <3> QED
      BY <1>8, <3>1
  <2>2. CASE p # NoSlot
    <3>1. nx = [c.next EXCEPT ![p] = x] /\ p \in Slots /\ x \in Slots \cup {NoSlot}
      BY <1>7, <2>2
    <3> QED
      BY <1>8, <3>1
  <2> QED
    BY <2>1, <2>2
<1>12. /\ pv \in [Slots -> Slots \cup {NoSlot}]
       /\ \A y \in Slots : pv[y] = IF y = x THEN p ELSE c.prev[y]
  <2>1. CASE x = NoSlot
    <3>1. pv = c.prev /\ x \notin Slots
      BY <2>1, NoSlotIsNone
    <3> QED
      BY <1>8, <3>1
  <2>2. CASE x # NoSlot
    <3>1. pv = [c.prev EXCEPT ![x] = p] /\ x \in Slots /\ p \in Slots \cup {NoSlot}
      BY <1>7, <2>2
    <3> QED
      BY <1>8, <3>1
  <2> QED
    BY <2>1, <2>2
<1> HIDE DEF hd, nx, pv
<1>13. d.head = hd /\ d.next = nx /\ d.prev = pv
  BY <1>9
<1>14. d \in ChainType
  BY <1>9, <1>10, <1>11, <1>12 DEF ChainType
<1>15. ChainOf(d, b, S \ {s})
  <2> DEFINE m == n - 1
             r == [i \in 1 .. m |-> IF i < k THEN q[i] ELSE q[i + 1]]
  <2>1. /\ m \in Nat /\ n = m + 1
        /\ \A i \in 1 .. m : i \in 1 .. n /\ i + 1 \in 1 .. n /\ i # n
    BY <1>5
  <2> HIDE DEF m
  <2>2. \A i \in 1 .. m : r[i] = IF i < k THEN q[i] ELSE q[i + 1]
    OBVIOUS
  <2>3. r \in [1 .. m -> S \ {s}]
    <3> SUFFICES ASSUME NEW i \in 1 .. m
                 PROVE  (IF i < k THEN q[i] ELSE q[i + 1]) \in S \ {s}
      OBVIOUS
    <3>1. (i < k => i # k) /\ (~(i < k) => i + 1 # k)
      OBVIOUS
    <3> QED
      BY <1>3, <1>4, <1>5, <2>1, <3>1
  <2> HIDE DEF r
  <2>4. ASSUME NEW i \in 1 .. m, NEW j \in 1 .. m, i # j PROVE r[i] # r[j]
    <3> DEFINE f == IF i < k THEN i ELSE i + 1
               g == IF j < k THEN j ELSE j + 1
    <3>1. f \in 1 .. n /\ g \in 1 .. n /\ f # g
      BY <2>1, <2>4
    <3>2. r[i] = q[f] /\ r[j] = q[g]
      BY <2>2
    <3> HIDE DEF f, g
    <3> QED
      BY <1>3, <3>1, <3>2
  <2>5. d.head[b] = IF m = 0 THEN NoSlot ELSE r[1]
    <3>1. CASE k = 1
      <4>1. d.head[b] = x
        BY <1>7, <1>10, <1>13, <3>1
      <4>2. m # 0 => 1 \in 1 .. m /\ r[1] = q[2] /\ ~(1 < k)
        BY <2>1, <2>2, <3>1
      <4> QED
        BY <1>6, <2>1, <3>1, <4>1, <4>2
    <3>2. CASE k # 1
      <4>1. d.head[b] = q[1] /\ m # 0
        BY <1>3, <1>5, <1>7, <1>10, <1>13, <2>1, <3>2
      <4>2. 1 \in 1 .. m /\ 1 < k
        BY <2>1, <3>2, <4>1
      <4> QED
        BY <2>2, <4>1, <4>2
    <3> QED
      BY <3>1, <3>2
  <2>6. ASSUME NEW i \in 1 .. m
        PROVE  d.prev[r[i]] = IF i = 1 THEN NoSlot ELSE r[i - 1]
    <3>1. CASE i < k
      <4>1. r[i] = q[i] /\ q[i] # x
        <5>1. k # n => i # k + 1
          BY <3>1
        <5> QED
          BY <1>3, <1>4, <1>6, <2>1, <2>2, <3>1, <5>1
      <4>2. d.prev[q[i]] = c.prev[q[i]]
        BY <1>4, <1>12, <1>13, <2>1, <4>1
      <4>3. i # 1 => r[i - 1] = q[i - 1]
        <5> SUFFICES ASSUME i # 1 PROVE r[i - 1] = q[i - 1]
          OBVIOUS
        <5>1. i - 1 \in 1 .. m /\ i - 1 < k
          BY <2>1, <3>1
        <5> QED
          BY <2>2, <5>1
      <4> QED
        BY <1>3, <2>1, <4>1, <4>2, <4>3
    <3>2. CASE i = k
      <4>1. r[i] = q[k + 1] /\ k # n /\ k + 1 \in 1 .. n
        BY <2>1, <2>2, <3>2
      <4>2. d.prev[r[i]] = p
        BY <1>4, <1>6, <1>12, <1>13, <4>1
      <4>3. i # 1 => r[i - 1] = q[i - 1]
        <5> SUFFICES ASSUME i # 1 PROVE r[i - 1] = q[i - 1]
          OBVIOUS
        <5>1. i - 1 \in 1 .. m /\ i - 1 < k
          BY <2>1, <3>2
        <5> QED
          BY <2>2, <5>1
      <4> QED
        BY <1>6, <3>2, <4>2, <4>3
    <3>3. CASE i > k
      <4>1. r[i] = q[i + 1] /\ i + 1 \in 1 .. n /\ i + 1 # 1 /\ i # 1 /\ i + 1 - 1 = i
        BY <2>1, <2>2, <3>3
      <4>2. q[i + 1] # x
        <5>1. k # n => i + 1 # k + 1
          BY <3>3
        <5> QED
          BY <1>3, <1>4, <1>6, <4>1, <5>1
      <4>3. d.prev[q[i + 1]] = q[i]
        BY <1>3, <1>4, <1>12, <1>13, <4>1, <4>2
      <4>4. r[i - 1] = q[i]
        <5>1. i - 1 \in 1 .. m /\ ~(i - 1 < k) /\ i - 1 + 1 = i
          BY <2>1, <3>3
        <5> QED
          BY <2>2, <5>1
      <4> QED
        BY <4>1, <4>3, <4>4
    <3> QED
      BY <3>1, <3>2, <3>3
  <2>7. ASSUME NEW i \in 1 .. m
        PROVE  d.next[r[i]] = IF i = m THEN NoSlot ELSE r[i + 1]
    <3>1. CASE i >= k
      <4>1. r[i] = q[i + 1] /\ i + 1 \in 1 .. n /\ (i = m <=> i + 1 = n)
        BY <2>1, <2>2, <3>1
      <4>2. q[i + 1] # p
        <5>1. k # 1 => i + 1 # k - 1
          BY <3>1
        <5> QED
          BY <1>3, <1>4, <1>6, <4>1, <5>1
      <4>3. d.next[q[i + 1]] = IF i + 1 = n THEN NoSlot ELSE q[i + 1 + 1]
        BY <1>3, <1>4, <1>11, <1>13, <4>1, <4>2
      <4>4. i # m => r[i + 1] = q[i + 1 + 1]
        <5> SUFFICES ASSUME i # m PROVE r[i + 1] = q[i + 1 + 1]
          OBVIOUS
        <5>1. i + 1 \in 1 .. m /\ ~(i + 1 < k)
          BY <2>1, <3>1
        <5> QED
          BY <2>2, <5>1
      <4> QED
        BY <4>1, <4>3, <4>4
    <3>2. CASE i < k /\ i + 1 = k
      <4>1. r[i] = q[i] /\ i = k - 1 /\ k # 1 /\ i \in 1 .. n
        BY <2>1, <2>2, <3>2
      <4>2. d.next[q[i]] = x
        BY <1>4, <1>6, <1>11, <1>13, <4>1
      <4>3. i = m <=> k = n
        BY <2>1, <4>1
      <4>4. i # m => r[i + 1] = q[k + 1]
        <5> SUFFICES ASSUME i # m PROVE r[i + 1] = q[k + 1]
          OBVIOUS
        <5>1. i + 1 \in 1 .. m /\ ~(i + 1 < k) /\ i + 1 + 1 = k + 1
          BY <2>1, <3>2
        <5> QED
          BY <2>2, <5>1
      <4> QED
        BY <1>6, <4>1, <4>2, <4>3, <4>4
    <3>3. CASE i < k /\ i + 1 # k
      <4>1. r[i] = q[i] /\ i \in 1 .. n /\ i # n
        BY <2>1, <2>2, <3>3
      <4>2. q[i] # p
        <5>1. k # 1 => i # k - 1
          BY <3>3
        <5> QED
          BY <1>3, <1>4, <1>6, <4>1, <5>1
      <4>3. d.next[q[i]] = q[i + 1]
        BY <1>3, <1>4, <1>11, <1>13, <4>1, <4>2
      <4>4. i # m /\ r[i + 1] = q[i + 1]
        <5>1. i + 1 \in 1 .. m /\ i + 1 < k /\ i # m
          BY <1>5, <2>1, <3>3
        <5> QED
          BY <2>2, <5>1
      <4> QED
        BY <4>1, <4>3, <4>4
    <3> QED
      BY <3>1, <3>2, <3>3
  <2>8. Chained(d, b, m, r)
    BY <2>4, <2>5, <2>6, <2>7 DEF Chained
  <2>9. ASSUME NEW y \in S \ {s} PROVE \E i \in 1 .. m : r[i] = y
    <3>1. PICK j \in 1 .. n : q[j] = y
      BY <1>2
    <3> DEFINE i == IF j < k THEN j ELSE j - 1
    <3>2. j # k
      BY <1>5, <3>1
    <3>3. i \in 1 .. m /\ (i < k => i = j) /\ (~(i < k) => i + 1 = j)
      BY <2>1, <3>2
    <3> HIDE DEF i
    <3>4. r[i] = q[j]
      BY <2>2, <3>3
    <3> QED
      BY <3>1, <3>3, <3>4
  <2> QED
    BY <2>1, <2>3, <2>8, <2>9 DEF ChainOf
<1>16. ASSUME NEW a \in Buckets \ {b}, NEW T \in SUBSET (Slots \ S), ChainOf(c, a, T)
       PROVE  ChainOf(d, a, T)
  <2>1. PICK m \in Nat :
        \E r \in [1 .. m -> T] :
          Chained(c, a, m, r) /\ \A y \in T : \E i \in 1 .. m : r[i] = y
    BY <1>16 DEF ChainOf
  <2>2. PICK r \in [1 .. m -> T] :
        Chained(c, a, m, r) /\ \A y \in T : \E i \in 1 .. m : r[i] = y
    BY <2>1
  <2>3. \A i \in 1 .. m : r[i] \in Slots /\ r[i] # p /\ r[i] # x
    BY <1>7, NoSlotIsNone
  <2>4. \A i \in 1 .. m : d.prev[r[i]] = c.prev[r[i]] /\ d.next[r[i]] = c.next[r[i]]
    BY <1>11, <1>12, <1>13, <2>3
  <2>5. d.head[a] = c.head[a]
    BY <1>10, <1>13
  <2>6. Chained(d, a, m, r)
    BY <2>2, <2>4, <2>5 DEF Chained
  <2> QED
    BY <2>2, <2>6 DEF ChainOf
<1> QED
  BY <1>14, <1>15, <1>16 DEF d

\* What is read along a chain are its members, each once, linked both ways.
LEMMA ChainRead ==
  ASSUME NEW c \in ChainType, NEW b \in Buckets, NEW S \in SUBSET Slots, ChainOf(c, b, S)
  PROVE  LET q == Follow(c.head[b], c.next)
         IN  /\ {q[i] : i \in Entries(q)} = S
             /\ \A i, j \in Entries(q) : i # j => q[i] # q[j]
             /\ \A i \in Entries(q) : c.prev[q[i]] = IF i = 1 THEN NoSlot ELSE q[i - 1]
<1> DEFINE N == NumSlots
<1>1. PICK n \in Nat :
      \E q \in [1 .. n -> S] :
        Chained(c, b, n, q) /\ \A y \in S : \E i \in 1 .. n : q[i] = y
  BY DEF ChainOf
<1>2. PICK q \in [1 .. n -> S] :
      Chained(c, b, n, q) /\ \A y \in S : \E i \in 1 .. n : q[i] = y
  BY <1>1
<1>3. /\ \A i, j \in 1 .. n : i # j => q[i] # q[j]
      /\ c.head[b] = IF n = 0 THEN NoSlot ELSE q[1]
      /\ \A i \in 1 .. n : /\ c.prev[q[i]] = IF i = 1 THEN NoSlot ELSE q[i - 1]
                           /\ c.next[q[i]] = IF i = n THEN NoSlot ELSE q[i + 1]
  BY <1>2 DEF Chained
<1>4. \A i \in 1 .. n : q[i] \in S /\ q[i] \in Slots /\ q[i] # NoSlot
  BY NoSlotIsNone
<1>5. N \in Nat /\ N # 0
  BY CacheAssumption
<1>6. n <= N
  <2>1. IsFiniteSet(Slots) /\ Cardinality(Slots) = N
    BY <1>5, FS_Interval DEF Slots
  <2>2. IsFiniteSet(1 .. n) /\ Cardinality(1 .. n) = n
    BY FS_Interval
  <2>3. q \in [1 .. n -> Slots]
    OBVIOUS
  <2>4. ~(Cardinality(Slots) < Cardinality(1 .. n))
    BY <1>3, <2>1, <2>2, <2>3, FS_PigeonHole
  <2> QED
    BY <1>5, <2>1, <2>2, <2>4
<1> DEFINE t == [i \in 1 .. N |-> IF i <= n THEN q[i] ELSE NoSlot]
<1>7. /\ \A i \in 1 .. N : t[i] = IF i <= n THEN q[i] ELSE NoSlot
      /\ t = [i \in 1 .. N |-> t[i]]
  OBVIOUS
<1> HIDE DEF t
<1>8. ASSUME NEW i \in 1 .. N, i # 1
      PROVE  t[i] = IF t[i - 1] = NoSlot THEN NoSlot ELSE c.next[t[i - 1]]
  <2> DEFINE k == i - 1
  <2>1. k \in 1 .. N /\ k + 1 = i /\ k \in Nat
    BY <1>5, <1>8
  <2> HIDE DEF k
  <2>2. CASE k <= n
    <3>1. k \in 1 .. n /\ t[k] = q[k] /\ t[k] # NoSlot
      BY <1>4, <1>7, <2>1, <2>2
    <3>2. c.next[q[k]] = IF k = n THEN NoSlot ELSE q[k + 1]
      BY <1>3, <3>1
    <3>3. t[i] = IF k = n THEN NoSlot ELSE q[k + 1]
      BY <1>7, <2>1, <2>2
    <3> QED
      BY <3>1, <3>2, <3>3 DEF k
  <2>3. CASE k > n
    <3>1. t[k] = NoSlot /\ t[i] = NoSlot
      BY <1>7, <2>1, <2>3
    <3> QED
      BY <3>1 DEF k
  <2> QED
    BY <2>1, <2>2, <2>3
<1>9. t[1] = c.head[b]
  BY <1>3, <1>5, <1>7
<1>10. Reads(c.head[b], c.next, t)
  BY <1>7, <1>8, <1>9 DEF Reads
<1>11. Follow(c.head[b], c.next) = t
  BY <1>10, FollowIs
<1>12. Entries(t) = 1 .. n
  <2>1. \A i \in 1 .. N : t[i] \in Slots <=> i <= n
    BY <1>4, <1>7, NoSlotIsNone
  <2>2. Entries(t) = {i \in 1 .. N : i <= n}
    BY <2>1 DEF Entries
  <2> QED
    BY <1>5, <1>6, <2>2
<1>13. \A i \in 1 .. n : t[i] = q[i]
  BY <1>5, <1>6, <1>7
<1>14. {t[i] : i \in 1 .. n} = S
  BY <1>2, <1>4, <1>13
<1>15. \A i \in 1 .. n : c.prev[t[i]] = IF i = 1 THEN NoSlot ELSE t[i - 1]
  <2> TAKE i \in 1 .. n
  <2>1. t[i] = q[i] /\ (i # 1 => t[i - 1] = q[i - 1])
    BY <1>13
  <2> QED
    BY <1>3, <2>1
<1>16. \A i, j \in 1 .. n : i # j => t[i] # t[j]
  BY <1>3, <1>13
<1> DEFINE f == Follow(c.head[b], c.next)
<1>17. f = t
  BY <1>11
<1> HIDE DEF f
<1>18. /\ {f[i] : i \in Entries(f)} = S
       /\ \A i, j \in Entries(f) : i # j => f[i] # f[j]
       /\ \A i \in Entries(f) : c.prev[f[i]] = IF i = 1 THEN NoSlot ELSE f[i - 1]
  <2>1. Entries(f) = 1 .. n
    BY <1>12, <1>17
  <2>2. {f[i] : i \in Entries(f)} = S
    BY <1>14, <1>17, <2>1
  <2>3. \A i, j \in 1 .. n : i # j => f[i] # f[j]
    BY <1>16, <1>17
  <2>4. \A i \in 1 .. n : c.prev[f[i]] = IF i = 1 THEN NoSlot ELSE f[i - 1]
    BY <1>15, <1>17
  <2> HIDE DEF t
  <2> QED
    BY <2>1, <2>2, <2>3, <2>4
<1> QED
  BY <1>18 DEF f

(***************************************************************************)
(* The invariant.                                                          *)
(***************************************************************************)

\* The slots of the pictures with a hash.
In(slots, b) == {s \in Slots : slots[s].picture # NoPicture /\ Bucket[slots[s].picture] = b}

ChainsWhole(c, slots) ==
  c \in ChainType /\ \A b \in Buckets : ChainOf(c, b, In(slots, b))

\* No two slots answer to the same picture.
Once(slots) ==
  \A p \in Pictures, s, t \in Slots : Matches(slots[s], p) /\ Matches(slots[t], p) => s = t

\* The render thread makes room only for a picture that no slot answers to.
Seeking == main.pc \in {"scan", "evict", "load", "loading"}
Absent == Seeking => \A s \in Slots : ~Matches(cache[s], main.picture)

\* The inductive invariant behind ListsWhole.
ListInv == CacheInv /\ UseWhole(lru) /\ ChainsWhole(chains, cache) /\ Once(cache) /\ Absent

\* All slots have the picture they had, and a text the texture it had.
SamePictures(old, new) ==
  \A x \in Slots : /\ new[x].picture = old[x].picture
                   /\ old[x].picture \in Texts => new[x].tex = old[x].tex

\* All slots but one are as they were.
OthersSame(old, new, s) == \A x \in Slots : x # s => new[x] = old[x]

LEMMA SameMatches ==
  ASSUME NEW old, NEW new, SamePictures(old, new), NEW x \in Slots, NEW p
  PROVE  Matches(new[x], p) <=> Matches(old[x], p)
<1>1. new[x].picture = old[x].picture
  BY DEF SamePictures
<1>2. old[x].picture = p /\ p \in Texts => new[x].tex = old[x].tex
  BY DEF SamePictures
<1> QED
  BY <1>1, <1>2, Zenon DEF Matches

LEMMA InBucket ==
  ASSUME NEW slots, NEW a \in Buckets, NEW b \in Buckets, a # b
  PROVE  In(slots, a) \in SUBSET (Slots \ In(slots, b))
BY DEF In

LEMMA ChainsKept ==
  ASSUME NEW c, NEW old, NEW new, ChainsWhole(c, old), Once(old), SamePictures(old, new)
  PROVE  ChainsWhole(c, new) /\ Once(new)
<1>1. \A b \in Buckets : In(new, b) = In(old, b)
  BY DEF In, SamePictures
<1>2. ChainsWhole(c, new)
  BY <1>1 DEF ChainsWhole
<1>3. ASSUME NEW p \in Pictures, NEW s \in Slots, NEW t \in Slots,
             Matches(new[s], p), Matches(new[t], p)
      PROVE  s = t
  <2>1. Matches(old[s], p) /\ Matches(old[t], p)
    BY <1>3, SameMatches
  <2> QED
    BY <2>1 DEF Once
<1> QED
  BY <1>2, <1>3 DEF Once

\* A slot moves to the head of its chain.
LEMMA ChainsPromoted ==
  ASSUME NEW c, NEW slots, ChainsWhole(c, slots), NEW p \in Pictures, NEW s \in Slots,
         slots[s].picture = p
  PROVE  ChainsWhole(Push(Unlink(c, Bucket[p], s), Bucket[p], s), slots)
<1> DEFINE b == Bucket[p]
           S == In(slots, b)
           d == Unlink(c, b, s)
           e == Push(d, b, s)
<1>1. b \in Buckets /\ S \in SUBSET Slots /\ s \in S
  BY CacheAssumption DEF Buckets, In
<1>2. c \in ChainType /\ \A a \in Buckets : ChainOf(c, a, In(slots, a))
  BY DEF ChainsWhole
<1>3. \A a \in Buckets \ {b} : In(slots, a) \in SUBSET (Slots \ S)
  BY <1>1, InBucket
<1> HIDE DEF b, S
<1>4. /\ d \in ChainType /\ ChainOf(d, b, S \ {s})
      /\ \A a \in Buckets \ {b}, T \in SUBSET (Slots \ S) : ChainOf(c, a, T) => ChainOf(d, a, T)
  <2>1. ChainOf(c, b, S)
    BY <1>1, <1>2 DEF S
  <2> QED
    BY <1>1, <1>2, <2>1, UnlinkChains
<1> HIDE DEF d
<1>5. /\ e \in ChainType /\ ChainOf(e, b, (S \ {s}) \cup {s})
      /\ \A a \in Buckets \ {b}, T \in SUBSET (Slots \ ((S \ {s}) \cup {s})) :
           ChainOf(d, a, T) => ChainOf(e, a, T)
  <2>1. S \ {s} \in SUBSET Slots /\ s \in Slots \ (S \ {s})
    BY <1>1
  <2> QED
    BY <1>1, <1>4, <2>1, PushChains
<1>6. (S \ {s}) \cup {s} = S
  BY <1>1
<1> HIDE DEF e
<1>7. ASSUME NEW a \in Buckets PROVE ChainOf(e, a, In(slots, a))
  <2>1. CASE a = b
    BY <1>5, <1>6, <2>1 DEF S
  <2>2. CASE a # b
    BY <1>2, <1>3, <1>4, <1>5, <1>6, <2>2
  <2> QED
    BY <2>1, <2>2
<1>8. ChainsWhole(e, slots)
  BY <1>5, <1>7 DEF ChainsWhole
<1> QED
  BY <1>8 DEF e, d, b

\* A slot loses its picture and leaves its chain.
LEMMA ChainsEvicted ==
  ASSUME NEW c, NEW old, NEW new, ChainsWhole(c, old), NEW p \in Pictures, NEW s \in Slots,
         old[s].picture = p, new[s].picture = NoPicture, OthersSame(old, new, s)
  PROVE  ChainsWhole(Unlink(c, Bucket[p], s), new)
<1> DEFINE b == Bucket[p]
           S == In(old, b)
           d == Unlink(c, b, s)
<1>1. b \in Buckets /\ S \in SUBSET Slots /\ s \in S
  BY CacheAssumption DEF Buckets, In
<1>2. c \in ChainType /\ \A a \in Buckets : ChainOf(c, a, In(old, a))
  BY DEF ChainsWhole
<1>3. \A a \in Buckets \ {b} : In(old, a) \in SUBSET (Slots \ S)
  BY <1>1, InBucket
<1>4. In(new, b) = S \ {s}
  BY DEF In, OthersSame
<1>5. \A a \in Buckets \ {b} : In(new, a) = In(old, a)
  BY DEF In, OthersSame
<1> HIDE DEF b, S
<1>6. /\ d \in ChainType /\ ChainOf(d, b, S \ {s})
      /\ \A a \in Buckets \ {b}, T \in SUBSET (Slots \ S) : ChainOf(c, a, T) => ChainOf(d, a, T)
  <2>1. ChainOf(c, b, S)
    BY <1>1, <1>2 DEF S
  <2> QED
    BY <1>1, <1>2, <2>1, UnlinkChains
<1> HIDE DEF d
<1>7. ASSUME NEW a \in Buckets PROVE ChainOf(d, a, In(new, a))
  <2>1. CASE a = b
    BY <1>4, <1>6, <2>1
  <2>2. CASE a # b
    BY <1>2, <1>3, <1>5, <1>6, <2>2
  <2> QED
    BY <2>1, <2>2
<1>8. ChainsWhole(d, new)
  BY <1>6, <1>7 DEF ChainsWhole
<1> QED
  BY <1>8 DEF d, b

\* An empty slot gets a picture and joins its chain.
LEMMA ChainsLoaded ==
  ASSUME NEW c, NEW old, NEW new, ChainsWhole(c, old), NEW p \in Pictures, NEW s \in Slots,
         old[s].picture = NoPicture, new[s].picture = p, OthersSame(old, new, s)
  PROVE  ChainsWhole(Push(c, Bucket[p], s), new)
<1> DEFINE b == Bucket[p]
           S == In(old, b)
           d == Push(c, b, s)
<1>1. b \in Buckets /\ S \in SUBSET Slots /\ s \in Slots \ S /\ p # NoPicture
  BY CacheAssumption DEF Buckets, In
<1>2. c \in ChainType /\ \A a \in Buckets : ChainOf(c, a, In(old, a))
  BY DEF ChainsWhole
<1>3. \A a \in Buckets \ {b} : In(old, a) \in SUBSET (Slots \ (S \cup {s}))
  BY <1>1 DEF In
<1>4. In(new, b) = S \cup {s}
  BY <1>1 DEF In, OthersSame
<1>5. \A a \in Buckets \ {b} : In(new, a) = In(old, a)
  BY DEF In, OthersSame
<1> HIDE DEF b, S
<1>6. /\ d \in ChainType /\ ChainOf(d, b, S \cup {s})
      /\ \A a \in Buckets \ {b}, T \in SUBSET (Slots \ (S \cup {s})) :
           ChainOf(c, a, T) => ChainOf(d, a, T)
  <2>1. ChainOf(c, b, S)
    BY <1>1, <1>2 DEF S
  <2> QED
    BY <1>1, <1>2, <2>1, PushChains
<1> HIDE DEF d
<1>7. ASSUME NEW a \in Buckets PROVE ChainOf(d, a, In(new, a))
  <2>1. CASE a = b
    BY <1>4, <1>6, <2>1
  <2>2. CASE a # b
    BY <1>2, <1>3, <1>5, <1>6, <2>2
  <2> QED
    BY <2>1, <2>2
<1>8. ChainsWhole(d, new)
  BY <1>6, <1>7 DEF ChainsWhole
<1> QED
  BY <1>8 DEF d, b

\* To a picture that a lookup does not find no slot answers.
LEMMA LookupMisses ==
  ASSUME ChainsWhole(chains, cache), NEW p \in Pictures, Lookup(p) = NoSlot
  PROVE  \A s \in Slots : ~Matches(cache[s], p)
<1> SUFFICES ASSUME NEW s \in Slots, Matches(cache[s], p) PROVE FALSE
  OBVIOUS
<1> DEFINE b == Bucket[p]
           q == Follow(chains.head[b], chains.next)
           hits == {i \in Entries(q) : Matches(cache[q[i]], p)}
           first(i) == \A j \in hits : i <= j
<1>1. b \in Buckets /\ In(cache, b) \in SUBSET Slots /\ s \in In(cache, b)
  BY CacheAssumption DEF Buckets, In, Matches
<1>2. chains \in ChainType /\ ChainOf(chains, b, In(cache, b))
  BY <1>1 DEF ChainsWhole
<1>3. {q[i] : i \in Entries(q)} = In(cache, b)
  <2> HIDE DEF b
  <2> QED
    BY <1>1, <1>2, ChainRead
<1>4. Lookup(p) = IF hits = {} THEN NoSlot ELSE q[CHOOSE i \in hits : first(i)]
  BY DEF Lookup
<1> HIDE DEF q, b
<1>5. PICK i \in Entries(q) : q[i] = s
  BY <1>1, <1>3
<1>6. hits # {}
  BY <1>5
<1>7. hits \in SUBSET Nat
  BY CacheAssumption DEF Entries
<1>8. (CHOOSE k \in hits : first(k)) \in hits
  BY <1>6, <1>7, LeastIn
<1>9. Lookup(p) \in Slots
  BY <1>4, <1>6, <1>8 DEF Entries
<1> QED
  BY <1>9, NoSlotIsNone

LEMMA AbsentKept ==
  ASSUME Absent, SamePictures(cache, cache'),
         Seeking' => Seeking /\ main'.picture = main.picture
  PROVE  Absent'
BY SameMatches DEF Absent

\* Steps that leave the lists and the pictures alone.
LEMMA ListQuiet ==
  ASSUME ListInv, CacheInv', lru' = lru, chains' = chains, SamePictures(cache, cache'), Absent'
  PROVE  ListInv'
<1>1. UseWhole(lru')
  BY DEF ListInv
<1>2. ChainsWhole(chains', cache') /\ Once(cache')
  BY ChainsKept DEF ListInv
<1> QED
  BY <1>1, <1>2 DEF ListInv

\* A picture that was found moves up in both lists.
LEMMA ListTouch ==
  ASSUME ListInv, CacheInv', SamePictures(cache, cache'), ~Seeking',
         NEW s \in Slots, NEW p \in Pictures, cache[s].picture = p,
         lru' = Best(lru, s), chains' = Push(Unlink(chains, Bucket[p], s), Bucket[p], s)
  PROVE  ListInv'
<1>1. UseWhole(lru) /\ ChainsWhole(chains, cache) /\ Once(cache)
  BY DEF ListInv
<1>2. UseWhole(lru')
  BY <1>1, BestWhole
<1>3. ChainsWhole(chains', cache)
  BY <1>1, ChainsPromoted
<1>4. ChainsWhole(chains', cache') /\ Once(cache')
  BY <1>1, <1>3, ChainsKept
<1>5. Absent'
  BY DEF Absent
<1> QED
  BY <1>2, <1>4, <1>5 DEF ListInv

\* A slot that is empty has no picture.
LEMMA EmptySlot ==
  ASSUME CacheInv, NEW s \in Slots
  PROVE  /\ cache[s].flags = {} <=> cache[s].picture = NoPicture
         /\ cache[s].picture # NoPicture => cache[s].picture \in Pictures
<1>1. cache[s] \in SlotType /\ SlotOK(cache[s])
  BY DEF CacheInv, TypeOK, SlotsOK
<1>2. cache[s].picture \in Pictures \cup {NoPicture}
  BY <1>1 DEF SlotType
<1>3. cache[s].flags = {} => cache[s].picture \notin Pictures
  BY <1>1, EmptyHasNone
<1>4. cache[s].flags # {} => cache[s].picture \in Pictures
  BY <1>1, CacheAssumption DEF SlotOK
<1> QED
  BY <1>2, <1>3, <1>4, CacheAssumption

\* A new picture gets the slot that was found or made empty.
LEMMA ListLoad ==
  ASSUME ListInv, CacheInv', main.pc = "load", ~Seeking',
         cache'[main.slot].picture = main.picture, OthersSame(cache, cache', main.slot),
         Linked(main.slot, main.picture)
  PROVE  ListInv'
<1> DEFINE s == main.slot
           p == main.picture
<1>1. UseWhole(lru) /\ ChainsWhole(chains, cache) /\ Once(cache) /\ CacheInv /\ Absent
  BY DEF ListInv
<1>2. s \in Slots /\ p \in Pictures /\ cache[s].flags = {}
  BY <1>1 DEF CacheInv, MainOK
<1>3. cache[s].picture = NoPicture
  BY <1>1, <1>2, EmptySlot
<1>4. \A x \in Slots : ~Matches(cache[x], p)
  BY <1>1 DEF Absent, Seeking
<1>5. lru' = Best(lru, s) /\ chains' = Push(chains, Bucket[p], s)
  BY DEF Linked
<1>6. UseWhole(lru')
  BY <1>1, <1>2, <1>5, BestWhole
<1>7. ChainsWhole(chains', cache')
  BY <1>1, <1>2, <1>3, <1>5, ChainsLoaded
<1>8. Once(cache')
  BY <1>1, <1>4 DEF Once, OthersSame, Matches
<1>9. Absent'
  BY DEF Absent
<1> QED
  BY <1>6, <1>7, <1>8, <1>9 DEF ListInv

\* A slot is taken from its picture.
LEMMA ListEvict ==
  ASSUME ListInv, CacheInv', Evict
  PROVE  ListInv'
<1> DEFINE s == main.slot
           p == cache[s].picture
           g == (cache[s].gen + 1) % GenSize
           h == IF g = 0 THEN 1 ELSE g
           u == [FreeSlot EXCEPT !.gen = h]
<1>1. UseWhole(lru) /\ ChainsWhole(chains, cache) /\ Once(cache) /\ CacheInv /\ Absent
  BY DEF ListInv
<1>2. main.pc = "evict" /\ s \in Slots /\ main.picture \in Pictures /\ cache[s].flags # {}
  BY <1>1 DEF CacheInv, MainOK, Evict
<1>3. p \in Pictures
  BY <1>1, <1>2, EmptySlot
<1>4. /\ chains' = Unlink(chains, Bucket[p], s) /\ lru' = lru
      /\ cache' = [cache EXCEPT ![s] = u]
      /\ main' = [main EXCEPT !.pc = "load"]
  BY DEF Evict
<1>5. u.picture = NoPicture
  <2> HIDE DEF h
  <2> QED
    BY DEF FreeSlot
<1> HIDE DEF u
<1>6. cache'[s].picture = NoPicture /\ OthersSame(cache, cache', s)
  BY <1>1, <1>2, <1>4, <1>5 DEF CacheInv, TypeOK, OthersSame
<1>7. ChainsWhole(chains', cache')
  BY <1>1, <1>2, <1>3, <1>4, <1>6, ChainsEvicted
<1>8. Once(cache')
  BY <1>1, <1>6, CacheAssumption DEF Once, OthersSame, Matches
<1>9. main'.picture = main.picture
  BY <1>1, <1>4 DEF CacheInv, TypeOK, MainType
<1>10. Absent'
  BY <1>1, <1>2, <1>6, <1>9, CacheAssumption DEF Absent, Seeking, OthersSame, Matches
<1> QED
  BY <1>1, <1>4, <1>7, <1>8, <1>10 DEF ListInv

\* The work of the threads on a slot is on the picture it has.
LEMMA WorkPictures ==
  ASSUME CacheInv, CacheInv', NEW w \in Workers, Work(w)
  PROVE  /\ SamePictures(cache, cache')
         /\ lru' = lru /\ chains' = chains /\ main' = main
<1>1. TypeOK /\ WorkersOK /\ JobsOK /\ SlotsOK /\ TypeOK' /\ WorkersOK'
  BY DEF CacheInv
<1>2. cache \in [Slots -> SlotType] /\ workers \in [Workers -> WorkerType]
  BY <1>1 DEF TypeOK
<1>3. lru' = lru /\ chains' = chains /\ main' = main
  BY DEF Work, Wake, Pop, Mark, Fetch, Fetched, Allocate, Begin, Draw, Finish
<1>4. CASE Wake(w) \/ Pop(w)
  BY <1>3, <1>4 DEF Wake, Pop, SamePictures
<1>5. ASSUME NEW s \in Slots, NEW u, cache' = [cache EXCEPT ![s] = u],
             u.picture = cache[s].picture, s \in Slots, "sprite" \in cache[s].flags
      PROVE  SamePictures(cache, cache')
  BY <1>1, <1>2, <1>5 DEF SlotsOK, SlotOK, SamePictures
<1>6. CASE Mark(w)
  <2>1. Waits(cache, workers[w].job)
    BY <1>1, <1>6 DEF Mark, JobsOK, Popped
  <2> DEFINE s == workers[w].job.slot
             u == [cache[s] EXCEPT !.work = "in_worker"]
  <2>2. s \in Slots /\ "sprite" \in cache[s].flags /\ cache' = [cache EXCEPT ![s] = u]
    BY <1>6, <2>1 DEF Waits, Jobs, Mark
  <2>3. u.picture = cache[s].picture
    BY <1>2, <2>2 DEF SlotType
  <2> HIDE DEF s, u
  <2> QED
    BY <1>3, <1>5, <2>2, <2>3
<1>7. CASE Fetch(w) \/ Fetched(w) \/ Begin(w) \/ Allocate(w) \/ Draw(w) \/ Finish(w)
  <2> DEFINE j == workers[w].job
             s == j.slot
  <2>1. At(w)
    BY <1>7 DEF Fetch, Fetched, Begin, Allocate, Draw, Finish, At
  <2>2. /\ s \in Slots /\ cache[s].picture = workers[w].picture /\ cache[s].gen = j.gen
        /\ cache[s].work = "in_worker"
    BY <1>1, <2>1 DEF WorkersOK, Fills, Jobs
  <2>5. "sprite" \in cache[s].flags /\ cache[s].picture \notin Texts
    BY <1>1, <2>2 DEF SlotsOK, SlotOK
  <2>3. CASE Finish(w)
    <3> DEFINE u == [cache[s] EXCEPT !.work = "idle"]
    <3>1. cache' = [cache EXCEPT ![s] = u]
      BY <2>2, <2>3 DEF Finish
    <3>2. u.picture = cache[s].picture
      BY <1>2, <2>2 DEF SlotType
    <3> HIDE DEF s, u
    <3> QED
      BY <1>3, <1>5, <2>2, <2>5, <3>1, <3>2
  <2>4. CASE Fetch(w) \/ Fetched(w) \/ Begin(w) \/ Allocate(w) \/ Draw(w)
    <3>1. PICK pc : /\ pc \in {"load", "loading", "draw", "drawing", "done"}
                    /\ workers' = [workers EXCEPT ![w].pc = pc]
      BY <2>4 DEF Fetch, Fetched, Begin, Allocate, Draw, To
    <3>2. workers'[w].pc = pc /\ workers'[w].job = j /\ workers'[w].picture = workers[w].picture
      BY <1>2, <3>1 DEF WorkerType
    <3>3. At(w)'
      BY <3>1, <3>2 DEF At
    <3>4. cache'[s].picture = workers[w].picture
      <4>1. Fills(w)'
        BY <1>1, <3>3 DEF WorkersOK
      <4> QED
        BY <3>2, <4>1 DEF Fills
    <3>5. \A x \in Slots : x # s => cache'[x] = cache[x]
      <4>1. CASE Draw(w)
        <5> DEFINE c == [cache EXCEPT ![s].pixel = workers[w].picture]
        <5>1. cache' = [c EXCEPT ![s].flags = @ \cup {"make"}]
          BY <4>1 DEF Draw
        <5>2. DOMAIN c = Slots /\ \A x \in Slots : x # s => c[x] = cache[x]
          BY <1>2
        <5> HIDE DEF c
        <5> QED
          BY <5>1, <5>2
      <4>2. CASE Fetch(w) \/ Fetched(w) \/ Begin(w) \/ Allocate(w)
        BY <1>2, <4>2 DEF Fetch, Fetched, Begin, Allocate
      <4> QED
        BY <2>4, <4>1, <4>2
    <3> QED
      BY <1>3, <2>2, <2>5, <3>4, <3>5 DEF SamePictures
  <2> QED
    BY <1>7, <2>3, <2>4
<1> QED
  BY <1>3, <1>4, <1>6, <1>7 DEF Work

\* Requests: what is found is used, what is not found is sought.
LEMMA RequestLists ==
  ASSUME ListInv, CacheInv', NEW p \in Pictures,
         Hit(p) \/ \E preload \in BOOLEAN : Miss(p, preload)
  PROVE  ListInv'
<1>1. UseWhole(lru) /\ ChainsWhole(chains, cache) /\ Once(cache) /\ CacheInv /\ Absent
  BY DEF ListInv
<1>2. cache' = cache /\ SamePictures(cache, cache')
  BY DEF Hit, Miss, SamePictures
<1>3. CASE Hit(p) /\ p \in Texts
  <2> DEFINE s == Lookup(p)
  <2>1. /\ s # NoSlot
        /\ main' = [Resting EXCEPT !.pc = "show", !.picture = p, !.slot = s]
        /\ lru' = Best(lru, s)
        /\ chains' = Push(Unlink(chains, Bucket[p], s), Bucket[p], s)
    BY <1>3 DEF Hit
  <2>2. s \in Slots /\ cache[s].picture = p
    BY <2>1, LookupFinds
  <2> HIDE DEF s
  <2>3. ~Seeking'
    BY <2>1 DEF Seeking, Resting
  <2> QED
    BY <1>2, <2>1, <2>2, <2>3, ListTouch
<1>4. CASE Hit(p) /\ p \notin Texts
  <2> DEFINE s == Lookup(p)
  <2>1. /\ main' = [Resting EXCEPT !.pc = "wait", !.picture = p, !.slot = s]
        /\ lru' = lru /\ chains' = chains
    BY <1>4 DEF Hit
  <2> HIDE DEF s
  <2>2. ~Seeking'
    BY <2>1 DEF Seeking, Resting
  <2> QED
    BY <1>2, <2>1, <2>2, ListQuiet DEF Absent
<1>5. ASSUME NEW preload \in BOOLEAN, Miss(p, preload)
      PROVE  ListInv'
  <2>1. /\ Lookup(p) = NoSlot /\ main'.picture = p
        /\ lru' = lru /\ chains' = chains
    BY <1>5 DEF Miss
  <2>2. \A s \in Slots : ~Matches(cache[s], p)
    BY <1>1, <2>1, LookupMisses
  <2>3. Absent'
    BY <1>2, <2>1, <2>2 DEF Absent
  <2> QED
    BY <1>2, <2>1, <2>3, ListQuiet
<1> QED
  BY <1>3, <1>4, <1>5

\* Steps of the render thread that leave the lists alone.
LEMMA QuietLists ==
  ASSUME ListInv, CacheInv',
         \/ TimedOut \/ Scan \/ LoadImage \/ ImageLoaded \/ Enqueue \/ Signal \/ Show
         \/ \E s \in Slots, granted \in Grants : Upload(s, granted)
  PROVE  ListInv'
<1>1. CacheInv /\ TypeOK /\ Absent /\ main \in MainType /\ cache \in [Slots -> SlotType]
  BY DEF ListInv, CacheInv, TypeOK
<1>2. lru' = lru /\ chains' = chains
  BY DEF TimedOut, Scan, LoadImage, ImageLoaded, Enqueue, Signal, Show, Upload
<1>3. CASE TimedOut \/ Signal \/ Show
  <2>1. cache' = cache /\ main' = Resting
    BY <1>3 DEF TimedOut, Signal, Show
  <2>2. ~Seeking' /\ SamePictures(cache, cache')
    BY <2>1 DEF Seeking, Resting, SamePictures
  <2> QED
    BY <1>2, <2>2, ListQuiet DEF Absent
<1>4. CASE LoadImage \/ ImageLoaded
  <2>1. cache' = cache /\ Seeking /\ \E pc \in {"load", "loading"} : main' = [main EXCEPT !.pc = pc]
    BY <1>4 DEF LoadImage, ImageLoaded, Seeking, MainType
  <2>2. main'.picture = main.picture /\ SamePictures(cache, cache')
    BY <1>1, <2>1 DEF MainType, SamePictures
  <2> QED
    BY <1>1, <1>2, <2>1, <2>2, AbsentKept, ListQuiet
<1>5. CASE Enqueue
  <2> DEFINE s == main.slot
             u == [cache[s] EXCEPT !.work = "queued"]
  <2>1. s \in Slots /\ cache[s].work = "idle" /\ cache[s].picture \notin Texts
    BY <1>1, <1>5 DEF CacheInv, MainOK, Enqueue
  <2>2. cache' = [cache EXCEPT ![s] = u] /\ main' = [main EXCEPT !.pc = "signal"]
    BY <1>5, <2>1 DEF Enqueue
  <2>3. u.picture = cache[s].picture
    BY <1>1, <2>1 DEF SlotType
  <2> HIDE DEF u
  <2>4. SamePictures(cache, cache')
    BY <1>1, <2>1, <2>2, <2>3 DEF SamePictures
  <2>5. ~Seeking'
    BY <1>1, <2>2 DEF Seeking, MainType
  <2> QED
    BY <1>2, <2>4, <2>5, ListQuiet DEF Absent
<1>6. ASSUME NEW s \in Slots, NEW granted \in Grants, Upload(s, granted)
      PROVE  ListInv'
  <2>1. /\ "sprite" \in cache[s].flags /\ main' = main
        /\ cache' = [cache EXCEPT ![s] = Textured(@, granted)]
    BY <1>6 DEF Upload
  <2>2. granted \in BOOLEAN
    BY CacheAssumption
  <2>3. /\ cache[s] \in SlotType /\ SlotOK(cache[s]) /\ "text" \notin cache[s].flags
        /\ cache[s].picture \notin Texts
    BY <1>1, <2>1 DEF CacheInv, SlotsOK, SlotOK
  <2>4. Textured(cache[s], granted).picture = cache[s].picture
    BY <2>2, <2>3, TexturedOK
  <2>5. SamePictures(cache, cache')
    BY <1>1, <2>1, <2>3, <2>4 DEF SamePictures
  <2> QED
    BY <1>1, <1>2, <2>1, <2>5, AbsentKept, ListQuiet DEF Seeking
<1>7. CASE Scan
  <2>1. cache' = cache /\ Seeking /\ SamePictures(cache, cache')
    BY <1>7 DEF Scan, Seeking, SamePictures
  <2>2. Seeking' => main'.picture = main.picture
    <3> DEFINE p == lru.prev[main.slot]
               pc == IF main.tries + 1 = Attempts THEN "load" ELSE "scan"
               m1 == [main EXCEPT !.pc = "show", !.slot = NoSlot]
               m2 == [main EXCEPT !.slot = p, !.tries = main.tries + 1, !.pc = pc]
               m3 == [main EXCEPT !.pc = "load"]
               m4 == [main EXCEPT !.pc = "evict"]
               m5 == Resting
    <3>1. main' = m1 \/ main' = m2 \/ main' = m3 \/ main' = m4 \/ main' = m5
      BY <1>7 DEF Scan, NoRoom
    <3> HIDE DEF p, pc
    <3>2. m1.picture = main.picture /\ m2.picture = main.picture
      <4>1. /\ m1 = [pc |-> "show", picture |-> main.picture, preload |-> main.preload,
                     slot |-> NoSlot, tries |-> main.tries]
            /\ m2 = [pc |-> pc, picture |-> main.picture, preload |-> main.preload,
                     slot |-> p, tries |-> main.tries + 1]
        BY <1>1, MainEdit, Zenon
      <4> HIDE DEF m1, m2
      <4> QED
        BY <4>1
    <3>3. m3.picture = main.picture /\ m4.picture = main.picture
      BY <1>1 DEF MainType
    <3>4. m5.pc = "idle"
      BY DEF Resting
    <3> HIDE DEF m1, m2, m3, m4, m5
    <3> QED
      BY <3>1, <3>2, <3>3, <3>4 DEF Seeking
  <2> QED
    BY <1>1, <1>2, <2>1, <2>2, AbsentKept, ListQuiet
<1> QED
  BY <1>3, <1>4, <1>5, <1>6, <1>7
LEMMA ReadyLists ==
  ASSUME ListInv, CacheInv', NEW granted \in Grants, Ready(granted)
  PROVE  ListInv'
<1> DEFINE s == main.slot
           p == main.picture
<1>1. CacheInv /\ TypeOK /\ main \in MainType /\ cache \in [Slots -> SlotType]
  BY DEF ListInv, CacheInv, TypeOK
<1>2. /\ s \in Slots /\ p \in Pictures \ Texts /\ cache[s].picture = p
      /\ "make" \in cache[s].flags
      /\ cache' = [cache EXCEPT ![s] = Textured(@, granted)]
      /\ lru' = Best(lru, s) /\ chains' = Push(Unlink(chains, Bucket[p], s), Bucket[p], s)
      /\ main' = [main EXCEPT !.pc = "show"]
  BY <1>1 DEF Ready, CacheInv, MainOK
<1>3. cache[s] \in SlotType /\ SlotOK(cache[s]) /\ "text" \notin cache[s].flags
  BY <1>1, <1>2 DEF CacheInv, SlotsOK, SlotOK
<1>4. granted \in BOOLEAN
  BY CacheAssumption
<1>5. Textured(cache[s], granted).picture = cache[s].picture
  BY <1>3, <1>4, TexturedOK
<1>6. SamePictures(cache, cache')
  BY <1>1, <1>2, <1>5 DEF SamePictures
<1>7. ~Seeking'
  BY <1>1, <1>2 DEF Seeking, MainType
<1> HIDE DEF s, p
<1> QED
  BY <1>2, <1>6, <1>7, ListTouch

LEMMA LoadLists ==
  ASSUME ListInv, CacheInv', NEW granted \in BOOLEAN,
         BuildText(granted) \/ BuildSprite(granted) \/ PrepareSprite \/ ReserveSprite
  PROVE  ListInv'
<1> DEFINE s == main.slot
           p == main.picture
<1>1. CacheInv /\ TypeOK /\ main \in MainType /\ cache \in [Slots -> SlotType]
  BY DEF ListInv, CacheInv, TypeOK
<1>2. main.pc = "load" /\ Linked(s, p)
  BY Zenon DEF BuildText, BuildSprite, PrepareSprite, ReserveSprite
<1>3. s \in Slots /\ cache[s] \in SlotType /\ SlotOK(cache[s]) /\ cache[s].flags = {}
      /\ p \in Pictures
  BY <1>1, <1>2 DEF CacheInv, MainOK, SlotsOK
<1>4. ~Seeking'
  <2>1. CASE PrepareSprite
    BY <2>1 DEF PrepareSprite, Resting, Seeking
  <2>2. CASE BuildText(granted) \/ BuildSprite(granted) \/ ReserveSprite
    <3>1. \E pc \in {"show", "enqueue"} : main' = [main EXCEPT !.pc = pc]
      <4>1. CASE BuildText(granted)
        <5>1. main' = [main EXCEPT !.pc = "show"]
          BY <4>1, Zenon DEF BuildText
        <5> QED
          BY <5>1
      <4>2. CASE BuildSprite(granted) \/ ReserveSprite
        BY <4>2 DEF BuildSprite, ReserveSprite
      <4> QED
        BY <2>2, <4>1, <4>2
    <3> QED
      BY <1>1, <3>1 DEF MainType, Seeking
  <2> QED
    BY <2>1, <2>2
<1>5. \E u : cache' = [cache EXCEPT ![s] = u] /\ u.picture = p
  <2>1. CASE BuildText(granted)
    <3> DEFINE x == IF granted THEN p ELSE NoPicture
               flags == {"used", "text", "alloc", "make"}
               F == IF granted THEN flags \cup {"tex"} ELSE flags
               u == Lettered(cache[s], p, x, F)
    <3>1. cache' = [cache EXCEPT ![s] = u]
      BY <2>1, Zenon DEF BuildText, Lettered
    <3> HIDE DEF x, F
    <3>2. u = [picture |-> p, flags |-> F, pixel |-> NoPicture, tex |-> x,
               gen |-> cache[s].gen, work |-> "idle"]
      BY <1>3, TextIs
    <3>3. u.picture = p
      BY <3>2
    <3> HIDE DEF u
    <3> QED
      BY <3>1, <3>3
  <2>2. CASE BuildSprite(granted) \/ PrepareSprite \/ ReserveSprite
    <3> DEFINE r == Named(cache[s], p)
               d == Drawn(Allocated(r), p)
    <3>1. /\ p \notin Texts
          /\ \/ cache' = [cache EXCEPT ![s] = Textured(d, granted)]
             \/ cache' = [cache EXCEPT ![s] = d]
             \/ cache' = [cache EXCEPT ![s] = r]
      BY <2>2 DEF BuildSprite, PrepareSprite, ReserveSprite
    <3>2. /\ r.picture = p /\ d.picture = p
          /\ d \in SlotType /\ SlotOK(d) /\ "text" \notin d.flags
      BY <1>3, <3>1, FreshOK
    <3> HIDE DEF r, d
    <3>3. Textured(d, granted).picture = p
      BY <3>2, TexturedOK
    <3> QED
      BY <3>1, <3>2, <3>3
  <2> QED
    BY <2>1, <2>2
<1>6. cache'[s].picture = p /\ OthersSame(cache, cache', s)
  <2>1. PICK u : cache' = [cache EXCEPT ![s] = u] /\ u.picture = p
    BY <1>5
  <2> QED
    BY <1>1, <1>3, <2>1 DEF OthersSame
<1> QED
  BY <1>2, <1>4, <1>6, ListLoad

LEMMA ListStart == Init => ListInv
<1> SUFFICES ASSUME Init PROVE ListInv
  OBVIOUS
<1>1. CacheInv /\ NumSlots \in Nat /\ NumSlots # 0
  BY CacheStart, CacheAssumption
<1>2. /\ \A s \in Slots : cache[s].picture = NoPicture
      /\ main.pc = "idle"
  BY DEF Init, FreeSlot, Resting
<1>3. UseWhole(lru)
  <2> DEFINE q == [i \in 1 .. NumSlots |-> i - 1]
  <2>1. q \in [1 .. NumSlots -> Slots]
    BY <1>1 DEF Slots
  <2>2. \A i, j \in 1 .. NumSlots : i # j => q[i] # q[j]
    BY <1>1
  <2>3. \A s \in Slots : \E i \in 1 .. NumSlots : q[i] = s
    <3> TAKE s \in Slots
    <3>1. s + 1 \in 1 .. NumSlots /\ q[s + 1] = s
      BY <1>1 DEF Slots
    <3> QED
      BY <3>1
  <2>4. \A i \in 1 .. NumSlots : q[i] = i - 1
    OBVIOUS
  <2>5. /\ lru.best = 0 /\ lru.last = NumSlots - 1
        /\ \A s \in Slots : /\ lru.prev[s] = s - 1
                            /\ lru.next[s] = IF s = NumSlots - 1 THEN NoSlot ELSE s + 1
    BY DEF Init
  <2> HIDE DEF q
  <2>6. Links(lru, q)
    <3>1. ASSUME NEW i \in 1 .. NumSlots
          PROVE  /\ lru.prev[q[i]] = IF i = 1 THEN NoSlot ELSE q[i - 1]
                 /\ lru.next[q[i]] = IF i = NumSlots THEN NoSlot ELSE q[i + 1]
      <4>1. /\ q[i] = i - 1 /\ i - 1 \in Slots
            /\ (i # 1 => q[i - 1] = i - 1 - 1)
            /\ (i # NumSlots => q[i + 1] = i)
        BY <1>1, <2>4 DEF Slots
      <4> QED
        BY <1>1, <2>5, <4>1 DEF NoSlot
    <3>2. q[1] = 0 /\ q[NumSlots] = NumSlots - 1
      BY <1>1, <2>4
    <3> QED
      BY <2>5, <3>1, <3>2 DEF Links
  <2>7. q \in Orders
    BY <2>1, <2>2, <2>3 DEF Orders
  <2>8. lru \in UseType
    BY <1>1 DEF CacheInv, TypeOK
  <2> QED
    BY <2>6, <2>7, <2>8 DEF UseWhole
<1>4. ChainsWhole(chains, cache)
  <2>1. \A b \in Buckets : In(cache, b) = {}
    BY <1>2 DEF In
  <2>2. chains \in ChainType /\ \A b \in Buckets : chains.head[b] = NoSlot
    BY DEF Init, ChainType
  <2>3. ASSUME NEW b \in Buckets PROVE ChainOf(chains, b, {})
    <3> DEFINE q == [i \in 1 .. 0 |-> NoSlot]
    <3>1. q \in [1 .. 0 -> {}] /\ 0 \in Nat /\ 1 .. 0 = {}
      OBVIOUS
    <3> HIDE DEF q
    <3>2. Chained(chains, b, 0, q)
      BY <2>2, <3>1 DEF Chained
    <3> QED
      BY <3>1, <3>2 DEF ChainOf
  <2> QED
    BY <2>1, <2>2, <2>3 DEF ChainsWhole
<1>5. Once(cache) /\ Absent
  BY <1>2, CacheAssumption DEF Once, Absent, Seeking, Matches
<1> QED
  BY <1>1, <1>3, <1>4, <1>5 DEF ListInv

LEMMA ListStep == ListInv /\ [Next]_vars => ListInv'
<1> SUFFICES ASSUME ListInv, [Next]_vars PROVE ListInv'
  OBVIOUS
<1>1. CacheInv /\ CacheInv'
  BY CacheStep DEF ListInv
<1>2. CASE \E p \in Pictures : Hit(p) \/ \E preload \in BOOLEAN : Miss(p, preload)
  BY <1>1, <1>2, RequestLists
<1>3. CASE \/ TimedOut \/ Scan \/ LoadImage \/ ImageLoaded \/ Enqueue \/ Signal \/ Show
           \/ \E s \in Slots, granted \in Grants : Upload(s, granted)
  BY <1>1, <1>3, QuietLists
<1>4. CASE \E granted \in Grants : Ready(granted)
  BY <1>1, <1>4, ReadyLists
<1>5. CASE \/ \E granted \in Grants : BuildText(granted) \/ BuildSprite(granted)
           \/ PrepareSprite \/ ReserveSprite
  BY <1>1, <1>5, LoadLists, CacheAssumption
<1>6. CASE Evict
  BY <1>1, <1>6, ListEvict
<1>7. CASE \E w \in Workers : Work(w)
  <2>1. lru' = lru /\ chains' = chains /\ main' = main /\ SamePictures(cache, cache')
    BY <1>1, <1>7, WorkPictures
  <2>2. Absent'
    BY <2>1, AbsentKept DEF ListInv, Seeking
  <2> QED
    BY <1>1, <2>1, <2>2, ListQuiet
<1>8. CASE UNCHANGED vars
  <2>1. UNCHANGED <<lru, chains, cache, main>>
    BY <1>8 DEF vars
  <2> QED
    BY <1>1, <2>1 DEF ListInv, Absent, Seeking
<1> QED
  BY <1>2, <1>3, <1>4, <1>5, <1>6, <1>7, <1>8 DEF Next, Main, Proceed

\* The list of use has every slot once and reads the same from both ends, each
\* hash chain has the slots of its pictures and no others, linked both ways, and
\* no two slots answer to the same picture: sdl_tx_best,
\* texcache_promote_to_hash_head and texcache_acquire_slot never lose a slot, and
\* what is entered twice is a text that got no texture.
THEOREM ListsAlwaysWhole == Spec => []ListsWhole
<1>1. ListInv => ListsWhole
  <2> SUFFICES ASSUME ListInv PROVE ListsWhole
    OBVIOUS
  <2> DEFINE used == Follow(lru.best, lru.next)
             unused == Follow(lru.last, lru.prev)
             chain(b) == Follow(chains.head[b], chains.next)
  <2>1. CacheInv /\ UseWhole(lru) /\ ChainsWhole(chains, cache) /\ Once(cache)
    BY DEF ListInv
  <2>2. /\ {used[i] : i \in 1 .. NumSlots} = Slots
        /\ \A i \in 1 .. NumSlots : unused[i] = used[NumSlots + 1 - i]
    BY <2>1, UseRead
  <2>3. ASSUME NEW b \in Buckets
        PROVE  /\ \A i, j \in Entries(chain(b)) : i # j => chain(b)[i] # chain(b)[j]
               /\ \A i \in Entries(chain(b)) :
                    chains.prev[chain(b)[i]] = IF i = 1 THEN NoSlot ELSE chain(b)[i - 1]
               /\ {chain(b)[i] : i \in Entries(chain(b))}
                    = {s \in Slots : cache[s].flags # {} /\ Bucket[cache[s].picture] = b}
    <3> DEFINE q == chain(b)
               S == In(cache, b)
    <3>1. S \in SUBSET Slots /\ chains \in ChainType /\ ChainOf(chains, b, S)
      BY <2>1 DEF ChainsWhole, In
    <3>2. /\ {q[i] : i \in Entries(q)} = S
          /\ \A i, j \in Entries(q) : i # j => q[i] # q[j]
          /\ \A i \in Entries(q) : chains.prev[q[i]] = IF i = 1 THEN NoSlot ELSE q[i - 1]
      <4> HIDE DEF S
      <4> QED
        BY <3>1, ChainRead
    <3>3. S = {s \in Slots : cache[s].flags # {} /\ Bucket[cache[s].picture] = b}
      BY <2>1, EmptySlot DEF In
    <3> HIDE DEF q, S
    <3>4. /\ \A i, j \in Entries(q) : i # j => q[i] # q[j]
          /\ \A i \in Entries(q) : chains.prev[q[i]] = IF i = 1 THEN NoSlot ELSE q[i - 1]
          /\ {q[i] : i \in Entries(q)}
               = {s \in Slots : cache[s].flags # {} /\ Bucket[cache[s].picture] = b}
      BY <3>2, <3>3
    <3> QED
      BY <3>4 DEF q
  <2>4. \A p \in Pictures, s, t \in Slots :
          Matches(cache[s], p) /\ Matches(cache[t], p) => s = t
    BY <2>1 DEF Once
  <2> HIDE DEF used, unused, chain
  <2>5. /\ {used[i] : i \in 1 .. NumSlots} = Slots
        /\ \A i \in 1 .. NumSlots : unused[i] = used[NumSlots + 1 - i]
        /\ \A b \in Buckets :
             /\ \A i, j \in Entries(chain(b)) : i # j => chain(b)[i] # chain(b)[j]
             /\ \A i \in Entries(chain(b)) :
                  chains.prev[chain(b)[i]] = IF i = 1 THEN NoSlot ELSE chain(b)[i - 1]
             /\ {chain(b)[i] : i \in Entries(chain(b))}
                  = {s \in Slots : cache[s].flags # {} /\ Bucket[cache[s].picture] = b}
        /\ \A p \in Pictures, s, t \in Slots :
             Matches(cache[s], p) /\ Matches(cache[t], p) => s = t
    BY <2>2, <2>3, <2>4
  <2> QED
    BY <2>5, Zenon DEF ListsWhole, used, unused, chain
<1> QED
  BY <1>1, ListStart, ListStep, PTL DEF Spec
=============================================================================
