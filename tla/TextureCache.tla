---------------------------- MODULE TextureCache ----------------------------
(***************************************************************************)
(* The cache of textures of the client (sdl_texture.c, sdl_core.c and      *)
(* sdl_image.c): one render thread looks pictures up, makes room for them  *)
(* and turns pixels into textures; worker threads load images and compute  *)
(* pixels for pictures that are expected to be drawn soon.                 *)
(*                                                                         *)
(* A picture stands for everything a request names: the sprite with its    *)
(* colours, lights and scale, or a text with its font.  Pictures of the    *)
(* same sprite share an image.  The links of the two lists, the flags, the *)
(* job queue, the semaphore and the generation numbers are those of the    *)
(* code.  The work of the render thread that no other thread can observe   *)
(* is one step; what a worker does between two accesses to shared data is  *)
(* one step.                                                               *)
(***************************************************************************)
EXTENDS Integers, Sequences, FiniteSets

CONSTANTS
    NumSlots,    \* MAX_TEXCACHE
    Attempts,    \* how many candidates texcache_acquire_slot looks at
    GenSize,     \* generations are counted modulo this, and skip 0
    Workers,     \* the threads started when sdl_multi is set
    Pictures,    \* what can be asked for
    Texts,       \* the pictures that are texts
    Blank,       \* the pictures of no size, which get no texture
    Grants,      \* what the graphics card answers when asked for a texture
    Image,       \* the image file of a picture that is not a text
    Bucket,      \* the hash of a request
    NoPicture,
    Raw          \* a pixel buffer that was allocated and not yet drawn

ASSUME CacheAssumption ==
    /\ NumSlots \in Nat \ {0}
    /\ Attempts \in Nat \ {0}
    /\ GenSize \in Nat /\ GenSize > 1
    /\ Texts \subseteq Pictures
    /\ Blank \subseteq Pictures \ Texts
    /\ Grants \subseteq BOOLEAN
    /\ DOMAIN Bucket = Pictures
    /\ DOMAIN Image = Pictures \ Texts
    /\ NoPicture \notin Pictures
    /\ Raw \notin Pictures \cup {NoPicture}

NoSlot == -1
Slots == 0 .. NumSlots - 1
Buckets == {Bucket[p] : p \in Pictures}
Images == {Image[p] : p \in Pictures \ Texts}

VARIABLES
    multi,      \* sdl_multi: there are workers
    cache,      \* sdlt[]: picture, flags, pixels, texture, generation, work
    lru,        \* sdlt[].prev and next, sdlt_best and sdlt_last
    chains,     \* sdlt_cache[], sdlt[].hprev and hnext
    images,     \* sdli_state[]
    jobs,       \* g_tex_jobs
    prework,    \* the semaphore the workers wait for
    main,       \* where the render thread is
    workers     \* where each worker is

vars == <<multi, cache, lru, chains, images, jobs, prework, main, workers>>

Resting == [pc |-> "idle", picture |-> NoPicture, preload |-> FALSE,
            slot |-> NoSlot, tries |-> 0]

Waiting == [pc |-> "asleep", job |-> [slot |-> NoSlot, gen |-> 0],
            picture |-> NoPicture]

FreeSlot == [picture |-> NoPicture, flags |-> {}, pixel |-> NoPicture,
             tex |-> NoPicture, gen |-> 1, work |-> "idle"]

Init ==
    /\ multi \in BOOLEAN
    /\ cache = [s \in Slots |-> FreeSlot]
    /\ lru = [prev |-> [s \in Slots |-> s - 1],
              next |-> [s \in Slots |-> IF s = NumSlots - 1 THEN NoSlot ELSE s + 1],
              best |-> 0,
              last |-> NumSlots - 1]
    /\ chains = [head |-> [b \in Buckets |-> NoSlot],
                 prev |-> [s \in Slots |-> NoSlot],
                 next |-> [s \in Slots |-> NoSlot]]
    /\ images = [i \in Images |-> "unloaded"]
    /\ jobs = <<>>
    /\ prework = 0
    /\ main = Resting
    /\ workers = [w \in Workers |-> Waiting]

-----------------------------------------------------------------------------
(* The two linked lists.                                                    *)

\* sdl_tx_best: the slot moves to the head of the list of least recent use.
Best(l, s) ==
    LET p == l.prev[s]
        n == l.next[s]
    IN  CASE p = NoSlot -> l
          [] p # NoSlot /\ n = NoSlot ->
               [prev |-> [l.prev EXCEPT ![l.best] = s, ![s] = NoSlot],
                next |-> [l.next EXCEPT ![p] = NoSlot, ![s] = l.best],
                best |-> s,
                last |-> p]
          [] OTHER ->
               [prev |-> [l.prev EXCEPT ![n] = p, ![s] = NoSlot, ![l.best] = s],
                next |-> [l.next EXCEPT ![p] = n, ![s] = l.best],
                best |-> s,
                last |-> l.last]

\* A mutant: a slot leaves its chain and its successor still points back to it.
UnlinkOneWay(c, b, s) ==
    LET p == c.prev[s]
        n == c.next[s]
    IN  [head |-> IF p = NoSlot THEN [c.head EXCEPT ![b] = n] ELSE c.head,
         next |-> IF p = NoSlot THEN c.next ELSE [c.next EXCEPT ![p] = n],
         prev |-> c.prev]

\* A slot leaves its hash chain.
Unlink(c, b, s) ==
    LET p == c.prev[s]
        n == c.next[s]
    IN  [head |-> IF p = NoSlot THEN [c.head EXCEPT ![b] = n] ELSE c.head,
         next |-> IF p = NoSlot THEN c.next ELSE [c.next EXCEPT ![p] = n],
         prev |-> IF n = NoSlot THEN c.prev ELSE [c.prev EXCEPT ![n] = p]]

\* A slot becomes the head of a hash chain.
Push(c, b, s) ==
    LET n == c.head[b]
    IN  [head |-> [c.head EXCEPT ![b] = s],
         next |-> [c.next EXCEPT ![s] = n],
         prev |-> [[c.prev EXCEPT ![s] = NoSlot]
                    EXCEPT ![IF n = NoSlot THEN s ELSE n] = IF n = NoSlot THEN NoSlot ELSE s]]

\* The list that starts at a slot and follows the links: its entries in order,
\* as many as there can be.
Follow(first, next) ==
    LET at[i \in 1 .. NumSlots] ==
            IF i = 1 THEN first
            ELSE IF at[i - 1] = NoSlot THEN NoSlot ELSE next[at[i - 1]]
    IN  at

Entries(list) == {i \in 1 .. NumSlots : list[i] \in Slots}

\* tex_entry_matches_request: a text that was refused its texture is never
\* found again, though it stays in its chain until it is evicted.
Matches(t, p) == t.picture = p /\ (p \in Texts => t.tex # NoPicture)

\* texcache_lookup.
Lookup(p) ==
    LET chain == Follow(chains.head[Bucket[p]], chains.next)
        hits == {i \in Entries(chain) : Matches(cache[chain[i]], p)}
    IN  IF hits = {} THEN NoSlot
        ELSE chain[CHOOSE i \in hits : \A j \in hits : i <= j]

Linked(s, p) ==
    /\ lru' = Best(lru, s)
    /\ chains' = Push(chains, Bucket[p], s)

-----------------------------------------------------------------------------
(* sdl_make, which turns an image into pixels and pixels into a texture.    *)

\* A slot is given the parameters of a sprite.
Named(t, p) == [t EXCEPT !.picture = p, !.flags = {"used", "sprite"}]

\* Stage 1 allocates the pixel buffer.
Allocated(t) ==
    IF "alloc" \in t.flags THEN t
    ELSE [t EXCEPT !.pixel = Raw, !.flags = @ \cup {"alloc"}]

\* Stage 2 draws; it refuses without a buffer and when it has been done.
MayDraw(t) == "alloc" \in t.flags /\ t.pixel # NoPicture /\ "make" \notin t.flags

Drawn(t, p) ==
    IF MayDraw(t) THEN [t EXCEPT !.pixel = p, !.flags = @ \cup {"make"}] ELSE t

\* A mutant: a picture of no size that counts as textured.
TexturedBlank(t, granted) ==
    IF "make" \notin t.flags \/ "tex" \in t.flags \/ ~granted THEN t
    ELSE [t EXCEPT !.tex = IF t.picture \in Blank THEN NoPicture ELSE t.pixel,
                   !.pixel = NoPicture, !.flags = @ \cup {"tex"}]

\* Stage 3 makes the texture and frees the pixels.  The graphics card may
\* refuse, which leaves the pixels for another try.
Textured(t, granted) ==
    IF "make" \notin t.flags \/ "tex" \in t.flags THEN t
    ELSE IF t.picture \in Blank THEN [t EXCEPT !.pixel = NoPicture, !.tex = NoPicture]
    ELSE IF granted
         THEN [t EXCEPT !.flags = @ \cup {"tex"}, !.tex = t.pixel, !.pixel = NoPicture]
    ELSE t

-----------------------------------------------------------------------------
(* The render thread.                                                       *)

\* sdl_tx_load finds the picture: a text is ready, a sprite must be waited
\* for.  A prefetch that finds its picture changes nothing.
Hit(p) ==
    /\ main.pc = "idle"
    /\ Lookup(p) # NoSlot
    /\ IF p \in Texts
       THEN LET s == Lookup(p)
            IN  /\ main' = [Resting EXCEPT !.pc = "show", !.picture = p, !.slot = s]
                /\ lru' = Best(lru, s)
                /\ chains' = Push(Unlink(chains, Bucket[p], s), Bucket[p], s)
       ELSE /\ main' = [Resting EXCEPT !.pc = "wait", !.picture = p, !.slot = Lookup(p)]
            /\ UNCHANGED <<lru, chains>>
    /\ UNCHANGED <<multi, cache, images, jobs, prework, workers>>

\* sdl_tx_load does not find the picture and needs a slot, beginning with the
\* one that was not used for longest.
Miss(p, preload) ==
    /\ main.pc = "idle"
    /\ preload => p \notin Texts
    /\ Lookup(p) = NoSlot
    /\ main' = [pc |-> "scan", picture |-> p, preload |-> preload,
                slot |-> lru.last, tries |-> 0]
    /\ UNCHANGED <<multi, cache, lru, chains, images, jobs, prework, workers>>

\* tex_entry_ensure_ready: the pixels are there, the texture is made now if
\* sdl_pre_do did not do it, and the slot moves up in both lists.
Ready(granted) ==
    LET s == main.slot
        b == Bucket[main.picture]
    IN  /\ main.pc = "wait"
        /\ "make" \in cache[s].flags
        /\ cache' = [cache EXCEPT ![s] = Textured(@, granted)]
        /\ lru' = Best(lru, s)
        /\ chains' = Push(Unlink(chains, b, s), b, s)
        /\ main' = [main EXCEPT !.pc = "show"]
        /\ UNCHANGED <<multi, images, jobs, prework, workers>>

\* A mutant: a wait that gives up and hands the slot out all the same.
TimedOutShows ==
    /\ main.pc = "wait"
    /\ "make" \notin cache[main.slot].flags
    /\ main' = [main EXCEPT !.pc = "show"]
    /\ UNCHANGED <<multi, cache, lru, chains, images, jobs, prework, workers>>

\* ... or the worker takes longer than a second and the picture is left out of
\* this frame.
TimedOut ==
    /\ main.pc = "wait"
    /\ "make" \notin cache[main.slot].flags
    /\ main' = Resting
    /\ UNCHANGED <<multi, cache, lru, chains, images, jobs, prework, workers>>

\* Everyone who needed a slot and got none: a sprite is not drawn; the text
\* routine reads the entry in front of the array.
NoRoom ==
    main' = IF main.picture \in Texts
            THEN [main EXCEPT !.pc = "show", !.slot = NoSlot]
            ELSE Resting

\* A mutant: eviction that does not ask whether a worker needs the slot.
ScanForgetsWorkers ==
    LET s == main.slot
    IN  /\ main.pc = "scan"
        /\ main' = [main EXCEPT !.pc = IF cache[s].flags = {} THEN "load" ELSE "evict"]
        /\ UNCHANGED <<multi, cache, lru, chains, images, jobs, prework, workers>>

\* texcache_acquire_slot looks at one candidate under the lock: an empty slot
\* is taken, one that no worker needs is evicted, from a busy one it goes on to
\* the next, which it takes unseen when it has tried often enough and it is
\* empty.
Scan ==
    LET s == main.slot
        busy == multi /\ "sprite" \in cache[s].flags /\ cache[s].work # "idle"
        p == lru.prev[s]
        exhausted == main.tries + 1 = Attempts
    IN  /\ main.pc = "scan"
        /\ CASE cache[s].flags = {} -> main' = [main EXCEPT !.pc = "load"]
             [] cache[s].flags # {} /\ ~busy -> main' = [main EXCEPT !.pc = "evict"]
             [] OTHER ->
                  IF p = NoSlot \/ (exhausted /\ cache[p].flags # {}) THEN NoRoom
                  ELSE main' = [main EXCEPT !.slot = p, !.tries = @ + 1,
                                            !.pc = IF exhausted THEN "load" ELSE "scan"]
        /\ UNCHANGED <<multi, cache, lru, chains, images, jobs, prework, workers>>

\* A mutant: a generation that wraps around to the value that means "never valid".
EvictWrapsToZero ==
    LET s == main.slot
    IN  /\ main.pc = "evict"
        /\ chains' = Unlink(chains, Bucket[cache[s].picture], s)
        /\ cache' = [cache EXCEPT ![s] =
                        [FreeSlot EXCEPT !.gen = (cache[s].gen + 1) % GenSize]]
        /\ main' = [main EXCEPT !.pc = "load"]
        /\ UNCHANGED <<multi, lru, images, jobs, prework, workers>>

\* ... and takes the slot from its picture, now without the lock.
Evict ==
    LET s == main.slot
        g == (cache[s].gen + 1) % GenSize
    IN  /\ main.pc = "evict"
        /\ chains' = Unlink(chains, Bucket[cache[s].picture], s)
        /\ cache' = [cache EXCEPT ![s] = [FreeSlot EXCEPT !.gen = IF g = 0 THEN 1 ELSE g]]
        /\ main' = [main EXCEPT !.pc = "load"]
        /\ UNCHANGED <<multi, lru, images, jobs, prework, workers>>

\* A text is drawn at once, and joins the lists whether it got its texture or
\* not.
BuildText(granted) ==
    LET s == main.slot
        p == main.picture
        flags == {"used", "text", "alloc", "make"}
    IN  /\ main.pc = "load"
        /\ p \in Texts
        /\ cache' = [cache EXCEPT ![s] =
                        [@ EXCEPT !.picture = p,
                                  !.tex = IF granted THEN p ELSE NoPicture,
                                  !.flags = IF granted THEN flags \cup {"tex"} ELSE flags]]
        /\ Linked(s, p)
        /\ main' = [main EXCEPT !.pc = "show"]
        /\ UNCHANGED <<multi, images, jobs, prework, workers>>

\* sdl_ic_load in the render thread: it loads the image itself or waits for
\* the worker that does.
LoadImage ==
    LET i == Image[main.picture]
    IN  /\ main.pc = "load"
        /\ main.picture \notin Texts
        /\ multi => ~main.preload
        /\ images[i] = "unloaded"
        /\ images' = [images EXCEPT ![i] = "loading"]
        /\ main' = [main EXCEPT !.pc = "loading"]
        /\ UNCHANGED <<multi, cache, lru, chains, jobs, prework, workers>>

ImageLoaded ==
    LET i == Image[main.picture]
    IN  /\ main.pc = "loading"
        /\ images' = [images EXCEPT ![i] = "ready"]
        /\ main' = [main EXCEPT !.pc = "load"]
        /\ UNCHANGED <<multi, cache, lru, chains, jobs, prework, workers>>

\* tex_entry_build_sprite for a picture that is drawn now: all three stages.
BuildSprite(granted) ==
    LET s == main.slot
        p == main.picture
    IN  /\ main.pc = "load"
        /\ p \notin Texts
        /\ ~main.preload
        /\ images[Image[p]] = "ready"
        /\ cache' = [cache EXCEPT ![s] =
                        Textured(Drawn(Allocated(Named(@, p)), p), granted)]
        /\ Linked(s, p)
        /\ main' = [main EXCEPT !.pc = "show"]
        /\ UNCHANGED <<multi, images, jobs, prework, workers>>

\* sdl_pre_add without workers: the first two stages, at once.
PrepareSprite ==
    LET s == main.slot
        p == main.picture
    IN  /\ main.pc = "load"
        /\ p \notin Texts
        /\ main.preload /\ ~multi
        /\ images[Image[p]] = "ready"
        /\ cache' = [cache EXCEPT ![s] = Drawn(Allocated(Named(@, p)), p)]
        /\ Linked(s, p)
        /\ main' = Resting
        /\ UNCHANGED <<multi, images, jobs, prework, workers>>

\* sdl_pre_add with workers: the slot names its picture, ...
ReserveSprite ==
    LET s == main.slot
        p == main.picture
    IN  /\ main.pc = "load"
        /\ p \notin Texts
        /\ main.preload /\ multi
        /\ cache' = [cache EXCEPT ![s] = Named(@, p)]
        /\ Linked(s, p)
        /\ main' = [main EXCEPT !.pc = "enqueue"]
        /\ UNCHANGED <<multi, images, jobs, prework, workers>>

\* A mutant: a job whose slot is not marked as queued.
EnqueueUnmarked ==
    /\ main.pc = "enqueue"
    /\ jobs' = Append(jobs, [slot |-> main.slot, gen |-> cache[main.slot].gen])
    /\ main' = [main EXCEPT !.pc = "signal"]
    /\ UNCHANGED <<multi, cache, lru, chains, images, prework, workers>>

\* ... the job joins the queue under the lock (which has room for twice as
\* many jobs as there are slots), ...
Enqueue ==
    LET s == main.slot
    IN  /\ main.pc = "enqueue"
        /\ IF cache[s].work = "idle"
           THEN /\ jobs' = Append(jobs, [slot |-> s, gen |-> cache[s].gen])
                /\ cache' = [cache EXCEPT ![s].work = "queued"]
                /\ main' = [main EXCEPT !.pc = "signal"]
           ELSE /\ main' = Resting
                /\ UNCHANGED <<jobs, cache>>
        /\ UNCHANGED <<multi, lru, chains, images, prework, workers>>

\* ... and a worker is woken.
Signal ==
    /\ main.pc = "signal"
    /\ prework' = prework + 1
    /\ main' = Resting
    /\ UNCHANGED <<multi, cache, lru, chains, images, jobs, workers>>

\* The renderer has drawn the entry it was given.
Show ==
    /\ main.pc = "show"
    /\ main' = Resting
    /\ UNCHANGED <<multi, cache, lru, chains, images, jobs, prework, workers>>

\* sdl_pre_do between two frames: one slot whose pixels are ready.
Upload(s, granted) ==
    /\ main.pc = "idle"
    /\ "sprite" \in cache[s].flags
    /\ "make" \in cache[s].flags
    /\ "tex" \notin cache[s].flags
    /\ cache' = [cache EXCEPT ![s] = Textured(@, granted)]
    /\ UNCHANGED <<multi, lru, chains, images, jobs, prework, main, workers>>

-----------------------------------------------------------------------------
(* sdl_pre_backgnd, the loop of a worker.                                    *)

To(w, pc) == workers' = [workers EXCEPT ![w].pc = pc]

Wake(w) ==
    /\ multi
    /\ workers[w].pc = "asleep"
    /\ prework > 0
    /\ prework' = prework - 1
    /\ To(w, "pop")
    /\ UNCHANGED <<multi, cache, lru, chains, images, jobs, main>>

\* tex_jobs_pop; with an empty queue the worker goes back to sleep.
Pop(w) ==
    /\ workers[w].pc = "pop"
    /\ IF jobs = <<>>
       THEN To(w, "asleep") /\ UNCHANGED jobs
       ELSE /\ workers' = [workers EXCEPT ![w].pc = "mark", ![w].job = Head(jobs)]
            /\ jobs' = Tail(jobs)
    /\ UNCHANGED <<multi, cache, lru, chains, images, prework, main>>

\* A job for an earlier generation of its slot is dropped, before and again
\* under the lock; then the slot is marked and its picture read.
Mark(w) ==
    LET j == workers[w].job
    IN  /\ workers[w].pc = "mark"
        /\ IF cache[j.slot].gen = j.gen
           THEN /\ cache' = [cache EXCEPT ![j.slot].work = "in_worker"]
                /\ workers' = [workers EXCEPT ![w].pc = "load",
                                              ![w].picture = cache[j.slot].picture]
           ELSE /\ workers' = [workers EXCEPT ![w] = Waiting]
                /\ UNCHANGED cache
        /\ UNCHANGED <<multi, lru, chains, images, jobs, prework, main>>

\* sdl_ic_load: whoever finds the image unloaded loads it, the others wait.
Fetch(w) ==
    LET i == Image[workers[w].picture]
    IN  /\ workers[w].pc = "load"
        /\ images[i] = "unloaded"
        /\ images' = [images EXCEPT ![i] = "loading"]
        /\ To(w, "loading")
        /\ UNCHANGED <<multi, cache, lru, chains, jobs, prework, main>>

Fetched(w) ==
    LET i == Image[workers[w].picture]
    IN  /\ workers[w].pc = "loading"
        /\ images' = [images EXCEPT ![i] = "ready"]
        /\ To(w, "load")
        /\ UNCHANGED <<multi, cache, lru, chains, jobs, prework, main>>

Allocate(w) ==
    LET s == workers[w].job.slot
    IN  /\ workers[w].pc = "load"
        /\ images[Image[workers[w].picture]] = "ready"
        /\ cache' = [cache EXCEPT ![s] = Allocated(@)]
        /\ To(w, "draw")
        /\ UNCHANGED <<multi, lru, chains, images, jobs, prework, main>>

\* The worker finds the buffer of the slot and begins to write to it.
Begin(w) ==
    LET s == workers[w].job.slot
    IN  /\ workers[w].pc = "draw"
        /\ To(w, IF MayDraw(cache[s]) THEN "drawing" ELSE "done")
        /\ UNCHANGED <<multi, cache, lru, chains, images, jobs, prework, main>>

Draw(w) ==
    LET s == workers[w].job.slot
    IN  /\ workers[w].pc = "drawing"
        /\ cache' = [cache EXCEPT ![s].pixel = workers[w].picture,
                                  ![s].flags = @ \cup {"make"}]
        /\ To(w, "done")
        /\ UNCHANGED <<multi, lru, chains, images, jobs, prework, main>>

\* A mutant: a worker that leaves its slot marked.
FinishMarked(w) ==
    /\ workers[w].pc = "done"
    /\ workers' = [workers EXCEPT ![w] = Waiting]
    /\ UNCHANGED <<multi, cache, lru, chains, images, jobs, prework, main>>

Finish(w) ==
    LET j == workers[w].job
    IN  /\ workers[w].pc = "done"
        /\ cache' = IF cache[j.slot].gen = j.gen
                    THEN [cache EXCEPT ![j.slot].work = "idle"]
                    ELSE cache
        /\ workers' = [workers EXCEPT ![w] = Waiting]
        /\ UNCHANGED <<multi, lru, chains, images, jobs, prework, main>>

-----------------------------------------------------------------------------
\* What the render thread is in the middle of.
Proceed ==
    \/ \E granted \in Grants : Ready(granted) \/ BuildText(granted) \/ BuildSprite(granted)
    \/ TimedOut \/ Scan \/ Evict
    \/ LoadImage \/ ImageLoaded \/ PrepareSprite \/ ReserveSprite
    \/ Enqueue \/ Signal \/ Show

Main ==
    \/ \E p \in Pictures : Hit(p)
    \/ \E p \in Pictures, preload \in BOOLEAN : Miss(p, preload)
    \/ \E s \in Slots, granted \in Grants : Upload(s, granted)
    \/ Proceed

Work(w) ==
    \/ Wake(w) \/ Pop(w) \/ Mark(w) \/ Fetch(w) \/ Fetched(w)
    \/ Allocate(w) \/ Begin(w) \/ Draw(w) \/ Finish(w)

Next == Main \/ \E w \in Workers : Work(w)

\* The operating system runs every thread; the render thread need not ask for
\* anything.
Fairness ==
    /\ WF_vars(Proceed)
    /\ \A w \in Workers : WF_vars(Work(w))

Spec == Init /\ [][Next]_vars /\ Fairness

-----------------------------------------------------------------------------
Flags == {"used", "sprite", "text", "alloc", "make", "tex"}

Jobs == [slot : Slots, gen : 1 .. GenSize - 1]

SlotType ==
    [picture : Pictures \cup {NoPicture},
     flags : SUBSET Flags,
     pixel : Pictures \cup {NoPicture, Raw},
     tex : Pictures \cup {NoPicture},
     gen : 1 .. GenSize - 1,
     work : {"idle", "queued", "in_worker"}]

UseType ==
    [prev : [Slots -> Slots \cup {NoSlot}],
     next : [Slots -> Slots \cup {NoSlot}],
     best : Slots, last : Slots]

MainType ==
    [pc : {"idle", "wait", "scan", "evict", "load", "loading", "enqueue", "signal", "show"},
     picture : Pictures \cup {NoPicture},
     preload : BOOLEAN,
     slot : Slots \cup {NoSlot},
     tries : Nat]

WorkerType ==
    [pc : {"asleep", "pop", "mark", "load", "loading", "draw", "drawing", "done"},
     job : Jobs \cup {Waiting.job},
     picture : Pictures \cup {NoPicture}]

\* The contents of slots, queue and threads keep their types, and the list of
\* use links slots.
TypeOK ==
    /\ multi \in BOOLEAN
    /\ cache \in [Slots -> SlotType]
    /\ lru \in UseType
    /\ images \in [Images -> {"unloaded", "loading", "ready"}]
    /\ jobs \in Seq(Jobs)
    /\ prework \in Nat
    /\ main \in MainType
    /\ workers \in [Workers -> WorkerType]

At(w) == workers[w].pc \in {"load", "loading", "draw", "drawing", "done"}

\* The slot a worker fills is its own from the moment it is marked until it is
\* released: nobody evicts it or gives it to another picture, the job is the
\* current one, and the buffer a worker draws into is allocated and unfinished.
WorkerOwnsSlot ==
    \A w \in Workers : At(w) =>
        LET j == workers[w].job
            t == cache[j.slot]
        IN  /\ t.work = "in_worker" /\ t.gen = j.gen
            /\ t.picture = workers[w].picture /\ "sprite" \in t.flags
            /\ \A v \in Workers \ {w} :
                   At(v) \/ workers[v].pc = "mark" => workers[v].job.slot # j.slot
            /\ workers[w].pc \in {"draw", "drawing"} => MayDraw(t)
            /\ workers[w].pc = "done" => "make" \in t.flags

\* A job waits for a slot exactly as long as the slot says so: one job per
\* slot, always of the current generation, and every waiting job has a wake-up
\* call on its way.
JobsAreCurrent ==
    LET popped == {w \in Workers : workers[w].pc = "mark"}
        named(s) == {i \in 1 .. Len(jobs) : jobs[i].slot = s}
        taken(s) == {w \in popped : workers[w].job.slot = s}
    IN  /\ \A s \in Slots :
              Cardinality(named(s)) + Cardinality(taken(s))
                  = IF cache[s].work = "queued" THEN 1 ELSE 0
        /\ \A i \in 1 .. Len(jobs) : jobs[i].gen = cache[jobs[i].slot].gen
        /\ \A w \in popped : workers[w].job.gen = cache[workers[w].job.slot].gen
        /\ Len(jobs) = prework + Cardinality({w \in Workers : workers[w].pc = "pop"})
                       + IF main.pc = "signal" THEN 1 ELSE 0

\* The rules the comment in sdl_texture.c gives for flags, and what the
\* pointers beside them hold: a slot shows its own picture or nothing.
SlotRules ==
    \A s \in Slots :
        LET t == cache[s]
        IN  /\ "tex" \in t.flags => "make" \in t.flags
            /\ "make" \in t.flags => "alloc" \in t.flags
            /\ ~({"sprite", "text"} \subseteq t.flags)
            /\ t.flags # {} => "used" \in t.flags
            /\ ("tex" \in t.flags) <=> (t.tex # NoPicture)
            /\ t.tex \in {t.picture, NoPicture}
            /\ "make" \in t.flags => t.pixel \in {t.picture, NoPicture}
            /\ t.pixel = NoPicture /\ "text" \notin t.flags /\ t.picture \notin Blank
                  => ("alloc" \in t.flags <=> "tex" \in t.flags)

\* The list of use holds every slot once and can be read in both directions.
\* A slot is in the chain of its picture's hash while it holds a picture, and
\* no two slots answer to the same picture: what is there twice is a text that
\* the graphics card refused, and at most one of its slots has a texture.
ListsWhole ==
    LET used == Follow(lru.best, lru.next)
        unused == Follow(lru.last, lru.prev)
        chain(b) == Follow(chains.head[b], chains.next)
    IN  /\ {used[i] : i \in 1 .. NumSlots} = Slots
        /\ \A i \in 1 .. NumSlots : unused[i] = used[NumSlots + 1 - i]
        /\ \A b \in Buckets :
              /\ \A i, j \in Entries(chain(b)) : i # j => chain(b)[i] # chain(b)[j]
              /\ \A i \in Entries(chain(b)) :
                    chains.prev[chain(b)[i]] = IF i = 1 THEN NoSlot ELSE chain(b)[i - 1]
              /\ {chain(b)[i] : i \in Entries(chain(b))}
                    = {s \in Slots : cache[s].flags # {} /\ Bucket[cache[s].picture] = b}
        /\ \A p \in Pictures, s, t \in Slots :
              Matches(cache[s], p) /\ Matches(cache[t], p) => s = t

\* What the renderer is given for a picture is a slot of that picture, and if
\* it has a texture it shows this picture.
ShowsRequest ==
    main.pc = "show" /\ main.slot # NoSlot =>
        LET t == cache[main.slot]
        IN  /\ t.picture = main.picture
            /\ "make" \in t.flags
            /\ t.tex \in {main.picture, NoPicture}

\* A picture that was handed to the workers is drawn, and its slot given back.
PrefetchDone ==
    \A s \in Slots :
        (cache[s].work # "idle") ~> (cache[s].work = "idle" /\ "make" \in cache[s].flags)
=============================================================================
