# Formal models of Astonia 3.5

TLA+ specifications of the parts of the Astonia community server and client in
which several processes, threads, characters and timers meet, or in which a long
series of legal steps has to keep two records in agreement; TLC configurations
that check them on small worlds; and TLAPS proofs for worlds of any size. File
names below are relative to `src/astonia_community_server35/src`, those of the
client to `src/astonia_community_client/src`.

## 1. The system

### 1.1 Components

| component | state it keeps | operations | talks to | correct when |
|---|---|---|---|---|
| Logins, queries, `chars` table (`database.c`, `player.c`, `server.c`) | rows of `chars`; per server the query queue `wquery`, the structure `login`, `area[][]`, `ch[]`, `player[]` | `find_login`, `read_login`, `tick_login`, `load_char`, `save_char`, `release_char`, `kick_player`, `kick_char`, `exit_char`, `change_area`, `backup_players`, `db_rescue_char`, `area_alive`, `update_arealist`, `init_database`, shutdown | the MySQL server; every other component | a character is in one game only; no saved change is lost; every login is answered |
| Account depots (`database.c`, `depot.c`, `bank.c`, `chat.c`) | rows of `depot`, lock columns `area, mirror, cID`; `depot_ppd` of each character | `load_depot`, `save_depot`, `release_depot`, `swap_depot`, reload in `player.c` | logins, chat | one character at a time can change the depot; it is given back |
| Quests and their drivers (`questlog.c` and the drivers of the areas) | per player a number for every driver, and the quest log | every line a driver says, what it hears, what it is given, `questlog_open`, `_done`, `_close`, `_reopen` | players | an open quest can be done; it is paid as often as it was opened |
| The trader (`base.c`) | `struct trader_data`, its cursor, its messages | the phrases of a deal, gifts, the timeout | two players, their inventories and token purses | nobody who agreed gets less than agreed; nothing doubles or stays behind |
| Map, movement and actions (`map.c`, `act.c`, `do.c`) | `map[]`, actions of `ch[]` | `do_...`, `act_...`, `set_char`, `remove_char`, `char_swap`, teleports, death | items, timers | a tile is blocked for a reason; nobody shares one |
| Items and containers (`container.c`, `create.c`, `consistency.c`, `tool.c`) | `it[]`, `con[]`, inventories | create, destroy, take, drop, give, swap, container | map, death | an item is in exactly one place |
| Timers, respawn, expiry (`timer.c`, `respawn.c`, `expire.c`) | list of due callbacks | `set_timer`, `expire_timer`, `expire_timer_body`, `door_driver`, respawn | items, characters | a callback acts on what it was set for |
| Client: textures and threads (`sdl/*.c`) | `sdlt[]`, its lists and chains, `sdli_state[]`, the job queue, the semaphore | lookup, eviction, stages of a picture, `sdl_pre_add`, the workers | renderer | a slot shows its own picture; nothing waits for ever |
| Offline tasks (`task.c`, `database.c`) | rows of `task`; `chr` column | `add_task`, `check_task`, `set_task` | `chars` rows, `ch[]` | every task takes effect once |
| Character slots and connections (`player.c`, `io.c`, `create.c`, `lostcon.c`) | `ch[]`, `player[]`, serial numbers, state of a connection | `alloc_char`, `free_char`, `new_player`, `exit_player`, `player_client_exit`, `lostcon_driver` | logins | a number kept somewhere still names what it named |
| Chat server and framing (`chatserver.c`, `chat.c`, `tell.c`) | connection buffers | `tick_chat`, `send_chat`, `cmd_chat` | all servers | messages are not cut or merged |
| Connection streams (`io.c`) | ring buffer, `tbuf`, compressor | `csend`, `pflush`, `send_player`, `receive_player` | clients | the client receives the ticks as sent, or is disconnected |
| Driver messages, sectors, sight (`notify.c`, `sector.c`, `los.c`, `light.c`) | message lists, caches | `notify_area`, `purge_messages`, ... | drivers | caches agree with the map |
| Clans, clubs (`clan.c`, `club.c`, ...) | shared records, versions | `tick_clan`, `db_read_clans`, ... | database | every server converges on the record |
| Bank, stores, merchants, military | amounts | deposits, sales | items | money is conserved |
| Combat, effects, skills; areas and other NPC drivers; commands; player protocol | scripted | many | all | game rules |
| Client: network, user interface, mods; Rust socket shim | view of the map | ticks | server | the view follows the server |
| Account manager, operator tools, containers, zone data, vendored cJSON | none of their own | | `chars` | |

`PROJECT.json` lists all of them with what is modelled of each.

### 1.2 How the modelled part works

A world consists of *areas*; every area has up to 26 *mirrors* of identical
content, and every mirror is a server process. A process has two threads:

* the **game loop** (`server.c:372`): timers, characters, players
  (`tick_player` and, for a client that waits for a login, `read_login`),
  `tick_login`, network; every 2048 ticks `area_alive` and `backup_players`;
* the **database thread** (`db_thread`), which takes queries from a FIFO list
  that the loop fills through `add_query`.

All processes use one MySQL database. The row of a character names the server
it is online on (`current_area`, `current_mirror`, 0 for none), the only area
that may log it in (`allowed_area`), the mirror it chose, and its data.

*Login.* `read_login` calls `find_login` every tick. If the structure `login`
(there is one) is empty, the request fills it and queues a `DT_LOAD`.
`load_char` checks the row; it answers `LS_NEWAREA` when the character belongs
elsewhere, else it copies the data, marks the row online here and sets
`LS_CREATE`. `tick_login` makes the character, or finds it in `ch[]` if the
row said it is online here already, and sets `LS_OK`. The next `find_login` of
that name collects it.

*Leaving.* `change_area`, `exit_char` and the loop after shutdown queue an
update that saves the data, clears `current_area` and sets `allowed_area`, and
destroy the character at once. `kick_player` only cuts the connection; the
`lostcon` driver plays on until the character exits. Every such update ends in
`and current_area=... and current_mirror=...` of its server, so that one that
comes late does nothing.

*Failure.* A server that dies leaves its rows marked. It clears them when it
starts again (`init_database`); before that, a client that asks for such a
character makes its server queue `db_rescue_char`, which moves the character to
area 3 or 1 if the server that has it gave no sign of life for five minutes. That
sign, `area_alive`, goes through the queue of its own database thread
(`database.c:547`), so that a server which runs but whose thread is stuck may be
late with it.

*Depots.* The characters of an account share a depot. Its row names the server
and the character that have it. `load_char` takes it for the character that logs
in if nobody has it; a character in the game that wants it sends a request over
the chat server, upon which every other character of the account saves it and
gives it up (`release_depot`), and queues a `DT_LOADDEPOT`. Backups and the exit
of the character that has it queue an update whose where clause names server
and character.

*Quests.* Every character driver that gives out quests keeps a number per player
(`gwendy_state`, ...) in the persistent data and walks through a switch over it,
one line at a time. The log (`struct quest`, flags and a count of 6 bits) is a
second record. Drivers set each other's numbers, and `questlog_reopen` sets them
back from the player's log window.

*The trader.* Two players name each other, hand over items and tokens, and both
say "accept trade". What they do arrives as messages that name a slot of `ch[]`;
the driver reads them when it next runs.

*The ground.* The game loop runs every character's action: `do_...` checks and
begins it, `act_...` carries it out some ticks later and checks again. Map, items
and characters point at each other; a flag on the tile, `MF_TMOVEBLOCK`, blocks
it while somebody is on it, on the way to it, or a door is closed. Timers remove
what lies about, remove bodies, and close doors; they carry the entry's number
and enough else to find out that the entry has been used again.

*Textures of the client.* The render thread looks pictures up in a cache of
slots with hash chains and a list of least recent use, and evicts; worker threads
take jobs (slot and generation) from a queue and load, allocate and draw the
pixels the render thread then makes a texture of.

### 1.3 What is hard here

Two threads per process and several processes act on a row; what a thread reads
is old when the other uses it; saves are delayed in queues; the check of a row
and its marking are two statements; one login structure serves all clients;
clients leave at any time; servers crash, restart, and are presumed dead.
Messages name slots that are used again. Two records of one thing - log and
driver, item and place, tile and character, slot and job - are kept in step by
the code of each operation alone. Series of legal steps lead to states nobody
wrote a test for. `PROJECT.json` lists the hazards with their lines ("hazards")
and the properties that would catch them.

## 2. Modules

| module | what it is |
|---|---|
| `CharacterLease` | abstract: what the table promises for a character - a lending book |
| `AreaServers` | the servers, their queues, logins, games and clients, and the table; properties; mutants for testing the properties |
| `AreaServersInductive` | the inductive invariants: `IInv` for who has a character, `WholeInv` for everything |
| `AreaServersProofs` | proofs of the type invariant, of `IInv` and of what follows from it |
| `AreaServersData` | proofs about logins and clients, about saves, and that the lending book is implemented |
| `Depot` | the depot of one account, the queues, logins and characters that use it, requests on their way; properties; its inductive invariant |
| `DepotProofs` | proofs of its types, of its inductive invariant and of its two safety properties |
| `QuestLog` | the log of a player and the steps drivers are made of |
| `QuestsCameron`, `QuestsAston`, `QuestsForest`, `QuestsBran`, `QuestsExkordon`, `QuestsNomad`, `QuestsArkhata` | the drivers of the areas |
| `Quests` | all of them with the player; properties |
| `QuestsInductive` | the inductive invariant of `Quests`: `QuestsInv` |
| `QuestsProofs` | proofs of all properties of `Quests` but `SeriesPaidOnce`, which the code does not keep |
| `Trader` | the trader and the players around it; properties |
| `TraderProofs` | proofs of its types and all its safety properties |
| `World` | characters, items, bodies, doors and timers of an area; properties |
| `WorldPlaces`, `WorldThings` | proofs of its types and of who stands where; of where items are and of its timers |
| `TextureCache` | the client's cache, lists, queue, render thread and workers; properties |
| `TextureCacheProofs` | proofs of its types and five safety properties |
| `MC...` | worlds for TLC |

`AreaServers` and `Depot` describe the same servers from two sides and are not
composed: a row of `chars` and a row of `depot` are coupled only by the order of
the statements in `load_char`, and `db_rescue_char`, which both modules model.
`Quests` composes the seven modules of drivers over the variables of `QuestLog`.
`Trader` and `World` meet in `do_give`, `act_give`, `act_take`, `act_drop`: `World`
has them in their two steps for everybody, `Trader` in one step, since what
matters to it is when it reads the message.

Definitions called mutants are not part of a model: each is a plausible bug, and
`PROJECT.json` names the definition it stands in for and the property that then
fails.

### 2.1 `AreaServers`

State and code:

| variable | code |
|---|---|
| `row[c]` | a row of `chars`: `cur` is `current_area, current_mirror`, `allowed` is `allowed_area`, `data` is `chr, item, ppd` (a version number) and `mirror` |
| `queue[s]` | `wquery` of server `s`: `save`, `exit` (save and log out) and `release` are `DT_QUERY` updates, `load` is `DT_LOAD`, `rescue` is `DT_RESCUE` |
| `login[s]` | `login`: `st` is `status` (`read` and `mark` are `LS_READ`: `mark` when the row has been copied; all refusals are `failed`), `current`, `usurp` is `didusurp`, `to` is the target of `LS_NEWAREA`, `stale` says that `ticker > age + 2` |
| `live[s][c]` | the slot of `ch[]` that has player character `c`: `on` (flags), its data, `plr` (its player), `lost` (driver `CDR_LOSTCON`) |
| `up`, `fresh`, `known[s]` | the process; `alive_time` in table `area` not older than five minutes; `area[][]` as `s` last read it |
| `client[k]` | no connection, waiting in `ST_CONNECT`, or `ST_NORMAL` on a server |
| `seen[c]` | history: the newest version the player of `c` has been shown |
| `struck` | history: the characters one of the program's own flaws has struck (below) |
| `faults` | bound |

The database thread takes a query off the list before it executes it; the model
takes it off when it is done. `load_char` runs in two steps, `DbLoadCopy` and
`DbLoadMark`, between which other servers move; every other query is one step,
as it is one statement or runs under `lock tables`. The steps of the loop are
one action for each path through a function (`FindLogin...`, `TickLogin...`).
`KickChar` is shared by every way of leaving; where the character goes next is
chosen freely among the areas.

*What the program does not guard against* is part of the model, and `struck` remembers
whom it befell. No action asks for `struck`; properties do.

* `taken`: two servers had a claim on the character. Either `load_char` marks a row that
  is no longer as it read it (`DbLoadMark`; the lock on `chars` is gone by then,
  finding 1), or `db_rescue_char` takes it from a server that runs but is late with its
  `alive_time` (`DbRescue` after `GoStale`, finding 12).
* `stuck`: `alloc_char` failed and the row stays marked (`TickLoginNoSlot`, finding 4).
* `halved`: `alloc_item` failed, and the character stays in the game with the items it
  has so far (`TickLoginNoItem`, finding 4).

A property excepts a character from the moment on that a flaw which breaks it has
struck that character, and no other (`Untaken`, `Intact`, `Freed`): the others are held
to it whatever happens to the one. `LoadFindsLogin`, `OnlyHolderWrites`, `LoginResolves`
and what `PlayerLink` says of characters make no exception. If a character that was
taken is made a second time where it is in `ch[]` already, `live` keeps the newer one.

Abstracted: passwords, bans, karma, payment, and closing for maintenance (all
`DbLoadRefused`); the content of characters (a version that grows with every
change, lowered to 0 for the half-made character of `TickLoginNoItem`); tick
counts (a result turns `stale` when no client waits for it, because one that
waits asks every tick); positions on the map. A row is created with a mirror
from 1 to 26 (`create_character.c:62`), so mirror 0 and the update that
replaces it are left out. Slots of `ch[]` are identified with characters: the
reuse of a slot while a number of it is kept somewhere is left to a module of
its own (section 6).

### 2.2 `CharacterLease`

Per character a holder, a saved version and a shown version. A character is
taken from the shelf by one holder; only while it is lent does the saved version
change, and it never falls; it comes back with at least what the player has
seen, unless its holder died, which sets the player back to what was saved. An entry
may become void, and promises nothing from then on: that of a character that was taken
or halved.
`Lease == INSTANCE CharacterLease WITH ...` in `AreaServers` maps the table to
the book; `IsLease` is checked as a temporal property.

### 2.3 `Depot`

State and code:

| variable | code |
|---|---|
| `depot` | the row of table `depot`: `holder` is `area, mirror, cID` (-1 in all three is `Nobody`), `data` the contents (a version number) |
| `chr[c]` | `current_area, current_mirror` of the row of character `c` |
| `queue[s]` | `wquery`: `save`, `leave` and `free` are the three updates of `save_depot`, `exit` the update of the character's own row, `load` a `DT_LOAD`, `loaddepot` a `DT_LOADDEPOT`, `rescue` a `DT_RESCUE` |
| `login[s]` | `login`: `loaded` and `data` are `login.depot` |
| `game[s][c]` | the character in `ch[]` with its `depot_ppd`: `loaded`, contents, `dirty` is `lastsave != changes` |
| `asked` | messages on channel 1039 that have not arrived |
| `up` | the process |
| `newest` | history: the newest contents a player has been shown |
| `rescued` | history: a rescue took the depot from a living server |
| `faults` | bound |

Chat messages may be delayed, lost and repeated. `DbLoadDepot` is one step, as
the database thread holds the server lock during it; so are the statements of
`load_depot` under `lock tables depot write`. That `load_char` runs in one step
is the simplification here: what it takes two steps for is in `AreaServers`, and
the properties of `Depot` do not rest on it, since the depot is taken under its
own lock. `GiveUp` lets the characters that lose the depot come in any order, as
they do in the list of characters.

Abstracted: slots, gold and sorting of the contents (all `Change`); the time
between two requests and their number (`player.c:2526`), so that characters may
ask at any time; accounts whose row does not exist yet; errors of single SQL
statements.

### 2.4 `QuestLog`, `Quests...`

`st[n]` is the number driver `n` keeps for the player, `flags[q]` and `done[q]` are
`quest[q].flags` and `quest[q].done`. Counters that drivers share or keep beside
their number (shrines visited, jewels brought, letters delivered, parts, notes)
are numbers of their own. For a driver `X`,

* `XTalks` is its switch, one disjunct for each way on: `Say` says a line and adds
  one, `Move` goes elsewhere, `Offer` and `OfferNew` open a quest, the latter only
  if the log does not say it is done;
* `XHears` is what "repeat" (and, for some, other words) does: back to the start
  of the part the number is in;
* `XTakes` is `NT_GIVE`: the thing wanted ends a quest, whatever the log says;
* `XLapses` is the timeout after which some drivers start over.

A driver that looks at the number of another one does so through `Met(n, S)`. A
*cast* is a set of drivers that touch each other's numbers or quests; TLC takes
one cast at a time, and `Met` of a driver outside the cast may hold or not, so
that a cast allows more than the whole does. The theorems hold for any set of
drivers, the whole program at once among them. `Reopen(q)` is `questlog_reopen`, and
`Restart(q, n, s)` the number it leaves driver `n` with; `Gives(n, q)` says whose
quest `q` is.

Abstracted: wording, pay and its scale, levels, keys and items a driver asks for
before it speaks (it may or may not go on), distance and timing (a driver may be
as slow as it likes), commands of game masters. Where a driver falls through from
one case into the next, so does the model. Quests 47 to 53 (army of the fire
demons) and 61 to 63 have a name in the log's table, but nothing opens or ends them.

### 2.5 `Trader`

| variable | code |
|---|---|
| `ch[s]` | who is, or last was, in the slot, and whether it is in use |
| `citem`, `pack`, `floor`, `lost` | cursor and backpack of each player; items that lie about; items destroyed |
| `tokens`, `loaded`, `saved` | `payment_tokens` of the depot in memory, whether it is loaded, what was handed to the database thread |
| `held`, `mail`, `todo` | the trader's cursor, its messages, and how many of them the running driver has still to read (`Asleep`: it is not running) |
| `dat`, `itm`, `token`, `late` | `struct trader_data`, items and tokens of both sides, whether three minutes are over |
| `seen` | history: what the other side offered when a side agreed |

A message names a slot; `by` is history. `Wake` and `Read` are the driver: the
server is single-threaded, so nothing else happens until it has read all
messages. A party that has left the server or stands in the gatekeeper's room is
chosen when goods are handed over (`away`). Left out: tokens that other systems
give or take, and what is worn.

### 2.6 `World`

| variable | code |
|---|---|
| `map[t]` | `map[m].ch`, `.it`, and `MF_TMOVEBLOCK` |
| `ch[c]` | kind (player, or beast of the area), `x, y`, `tox, toy`, `action` with its direction and target, `citem`, and the rest of the inventory as a set |
| `item[i]` | free, a thing or a body; `serial`, `x, y`, `carried`, `contained`, how often it was laid down (`expire_sn`), and how often a body is still to be left alone (`drdata[8..11]`) |
| `inside[i]` | items of the container of body `i` |
| `timers` | calls of `expire_timer` and `expire_timer_body` with their arguments |
| `door[t]` | `drdata[0]`, `drdata[39]`, and the calls of `door_driver` that are due |
| `born` | the next `sernum` |

`DoWalk`, `DoTake`, `DoDrop`, `DoGive`, `DoUse` begin an action; `ActWalk`, ... carry
it out, or find that it cannot be. `Kill` begins dying, `ActDie` is `die_char` with
everything it calls: the body, what is put into it, the way to the rest area or
out of this server. A body for which there is no container is a `husk`: it lies
about like any other, and what the dead had is freed. Time is left out: an action
takes any number of steps, and a timer may fire whenever it is there.

Abstracted: who may open a body; which part of the inventory is worn (a dead
player keeps any part of it); what keeps a step from happening and changes
nothing else (keys, bonds, quest items, requirements, peaceful zones); chests,
stores, spells, money; step traps; light and sectors; the distance `drop_item` and
`drop_char` look for a free tile in (any free tile will do). Monsters that leave an
item of their own in place of a body (`CF_ITEMDEATH`, `death.c:335`) are left out: one
that can be taken gets no timer at all (`death.c:372`), like those that never decay
(`IF_NODECAY`), and `Due` speaks of things that decay.

### 2.7 `TextureCache`

`cache` is `sdlt[]`, `lru` and `chains` are the two lists with all their links,
`images` is `sdli_state[]`, `jobs` the queue `g_tex_jobs`, `prework` the semaphore,
`main` and `workers` say where each thread is. A picture stands for everything a
request names. A text whose texture the card refused is linked like any other entry
(`sdl_texture.c:509`), but `tex_entry_matches_request` never finds it again (363): the next
request enters it in another slot, and the old entry stays until it is evicted.
`Matches` and `Grants` have this, and `ListsWhole` says of no two slots that they hold one
picture, but that they answer to one. `Hit`, `Miss`, `Scan`, `Evict`, `Build...`, `Upload`, `Enqueue` and `Signal` are the
parts of `sdl_tx_load`, `sdl_pre_add` and `sdl_pre_do` between two points where another thread
can see something; `Wake`, `Pop`, `Mark`, `Fetch`, `Allocate`, `Draw`, `Finish` are
`sdl_pre_backgnd` likewise. A generation is counted modulo
`GenSize` and skips 0, as in the code.

Left out: the shutdown of workers; images that cannot be loaded and sprite numbers
that do not exist (the program ends or shows another one); `sdl_pre_add` in its
form that only asks; statistics; the job `sdl_loop` does itself without workers,
for which the queue is always empty; the limit of the queue, twice the number of
slots, which is never reached because a slot has one job.

## 3. Runs

| run | world | shows |
|---|---|---|
| `two_areas` | areas 1 and 3, one player, 2 faults | `OneCopyUnlessTaken`, `LogoutSaveLands`, `AtRestNothingLost`, `IsLease`, `OnlyHolderWrites` through crashes, rescues, shutdowns, repeated queries, failed creations |
| `two_mirrors` | two mirrors of area 3, two clients of one character, 1 fault | `LeaseHeld`, the inductive invariant `WholeInv`, `NotFoundIsTransient`, `PlayerLink` |
| `one_login` | one server, two characters, 2 faults, fairness | `TypeOK`, `LoadFindsLogin`, `LoginResolves`: every client that asks is answered |
| `lock_lost` | two mirrors | `OneCopy` fails (finding 1) |
| `depot` | two servers, two characters of an account, one fault | `TypeOK`, `UsableUnlessRescued`, `CurrentUnlessRescued`: who has the depot is named in its row and works with the newest contents; `CopyInv`, from which both follow |
| `quests` | 41 casts | `TypeOK` (no driver passes its last line), `OpenIsAsked` (the driver of an open quest is in a state in which the quest can be done), `OneOfSeries`, `Reopened`, `PaidOnce`, `PaysLess` |
| `series` | Brenneth, Gwendylon | `SeriesPaidOnce` fails (finding 2) |
| `trader` | two players, one item, one token | `OnePlace`, `NobodyIsCheated`, `AcceptedOfferStands`, `NothingKept`, `SavedCovers` |
| `own_word` | two players, one item | `OwnWord` fails (finding 3) |
| `world` | a player and a beast, two items, three tiles in a row, the last a doorway | `Placed` (a tile is blocked for one reason), `Linked` (an item is in one place), `Due` (what lies about has its timer, doors count theirs), `InItsOwnTime` |
| `textures` | two slots, three pictures, 0 or 2 workers, fairness | `JobsAreCurrent`, `SlotRules`, `ShowsRequest`, `PrefetchDone`: what was asked for gets drawn |
| `texture_lists` | three slots, four pictures, two workers | `WorkerOwnsSlot`, `ListsWhole` |

The run `lock_lost` and those of the first group are on `MCAreaServers`, `series` on
`MCQuests`, `own_word` on `MCTrader`, both texture runs on `MCTextureCache`, e.g.
`tlc -workers 2 -config two_areas.cfg MCAreaServers`.

**The lock of `load_char`.** It locks `chars` and, before it marks the row, calls
`load_depot`, which locks `depot` and unlocks (`database.c:2125`, `1811`). In MySQL a
session that issues `LOCK TABLES` first releases the locks it has, so `chars` is
unlocked between the check and the marking, and the model has no lock there. All runs
are of the program as it is. `lock_lost` shows `OneCopy` violated; the others show what
holds of every character that was not taken that way, and `OneCopyUnlessTaken` that,
besides it, only a rescue from a running server makes a second copy.

**Bounds.** `MaxVer` = 1: properties compare the saved version with the shown
one, older or not. `MaxQueue` = 1 limits only the number of backups that wait;
logouts, releases, loads and rescues are always queued, so queues of four and
more occur. `MaxFaults` counts crashes, shutdowns, repeated queries, abandoned
logins, failed creations and servers late with `area_alive` together: 2, in `two_areas`
and `one_login`, allow a crash during the recovery from another, or with a query
repeated before it; `two_mirrors`, with its two clients, has 1. `one_login` has
`MaxVer` = 0, as it asks about logins and not about data. `UntilTaken` keeps TLC of
`two_areas` and `two_mirrors` from exploring what follows when their one character was
taken, which all but the properties without exceptions leave open; those are checked
beyond it in `one_login`, or proved. In `two_mirrors` the two clients log in the same
character and are symmetric. Two servers, two clients and at most
two characters make every pair of actors in the code meet; a third adds no new
kind of conflict, as each step involves the row, one server and at most one
other server.

In `depot`, `MaxAsked` = 2 is one request on its way to both servers, or two to
one; `MaxFaults` counts crashes, failed and stale logins; characters and servers
are symmetric; `UntilRescued` keeps TLC from exploring what follows a rescue of a
depot in use, where the invariants claim nothing. The theorems have no bounds.

`quests`: `ReopenLimit` is 1 where the code has 9, and `DoneValues` 6 where it has
64. A quest can be done twice for each time its number was set back, so a count
reaches 4 * `ReopenLimit` + 1 at most, and wraps in neither. Every driver is in a
cast with all whose number it sets; a cast of more would only take away what `Met`
leaves open. The theorems need neither of these bounds, only that
4 * `ReopenLimit` + 1 fits the field, as 37 fits 6 bits.

`trader`: one item and one token are enough for either side to lose or double
them; with one place in the backpack and one in the offer both are full at once.
`MaxMail` = 1 limits how many messages wait; the deal itself takes many rounds, and
players come, go and change slots between any two.

`world`: three tiles let two characters want the same one, and a body or thing lie
beside. `MaxLaid` bounds how often the items there are were laid down: two, so that
a timer of an earlier laying down is still due; `SnSize` = 2 keeps `expire_sn` from
wrapping within that. `MaxBorn` = 2 lets an entry be used again. Beasts carry one
thing here, the player two. `MaxTimers` = 2. `MaxCalls` = 2 lets a door be closed by
hand and opened again while the call of its first opening is still due. `DueAtOnce`
stops TLC at three timers and calls together: the door waits for both its calls beside
one timer, and things have both timers beside one call. Slots and items are symmetric.

`textures`: with two slots and three pictures every request may evict; with
`GenSize` 3 and 2 generations wrap round; a blank picture is in `textures`, a card that
refuses textures in both runs. Three slots are needed for the middle of a list, and let
a text be entered twice beside another picture.

**Fairness** (`FairSpec`). The loop and the database thread run all the time, so
`DbStep`, `TickLogin`, `LoginAges` and the steps of a shutdown are weakly fair.
`FindLogin(k, s)` is strongly fair: every tick goes through all players in slot
order, so a waiting client finds the structure free again and again and gets it
after those before it were answered; strong fairness of `FindLoginOk` says that
a character does not die in its first tick for ever. Clients are not fair, they
may stay silent or leave; abandoned logins are bounded, since a stream of them
could keep the structure busy. In `TextureCache` the workers go on
(weak fairness), and so does the render thread with a request it has begun
(`Proceed`); which picture it asks for next or uploads, and whether it does, is up
to the player.

**Deadlock** is checked in every run but those of `Quests` and `Trader`: players who
are through with everything may stop.

## 4. Findings

With a run that shows them:

1. **The lock of `load_char` is lost** (`lock_lost`): two mirrors load one
   character. Both mark the row; the later one keeps it, and the saves of the
   other are void (`OnlyHolderWrites`).
2. **Later quests of a series are paid again** (`series`): a driver that was set
   back takes the things of the next quests at once, though the log has them done.
   `PaidOnce` holds of all others.
3. **The trader takes one player's word for another's** (`own_word`): messages name
   a slot, and the slot may have a new owner when they are read. What was agreed is
   still handed over as agreed (`NobodyIsCheated` counts what the party whose slot
   it is had seen).

Met while modelling, each by reading the lines again:

4. A full server locks a character out: when `alloc_char` fails, `tick_login`
   (`database.c:1491`) does not release the row it has marked, and after a failed
   `alloc_item` (1513) the character stays with the items it has, to be saved so. Both
   are steps of the model (`TickLoginNoSlot`, `TickLoginNoItem`).
5. A character that chose another mirror but is still online here is sent away and
   sent back between the two (`database.c`, `load_char` and `read_login`).
6. `db_rescue_char` frees a depot another character has (`database.c:2714`); a login
   that finds its character in the game locks the depot and forgets it (2125); the
   result of a query is freed twice (2683).
7. `kick_char` on a character with an illegal position destroys it while its player
   keeps pointing at the slot (`act.c:1246`).
8. James and Lydia open the same quest and look at each other's number
   (`cameron.c:1031`); a potion brought between two lines leaves it open. Sanwyn's
   "repeat" leads from 8 to 7, where quest 29 is done again (`exkordon.c:2011`, 1976).
   The clerk's last note leaves him at a line that then says "too late"
   (`arkhata.c:3261`, 3285). A thief who opens the lock leaves quest 25 open. The first
   case of `hunter_driver` runs on into the second and passes its level. Kelly does not
   open quest 60 when Glori was met first.
9. `questlog_reopen` tests `!questlog[qnr].flags & QLF_REPEATABLE`, which is right by
   accident, and for numbers above 79 beyond the end of the table (`questlog.c:475`).
10. `expire_sn` is a byte: a thing laid down 256 times on one tile within the time of a
    timer vanishes early (`expire.c:17`; `InItsOwnTime` holds before that). The killer
    is remembered by slot (`death.c:247`): who enters it within 12 ticks may open the
    body.
11. `sdl_drawtext` uses the result of `sdl_tx_load` unchecked (`sdl/sdl_draw.c:209`), which is
    -1 when workers have all slots, though `sdl_texture.c:864` calls that a "safe bailout".
    A picture of no size goes through its last stage at every request and counts
    against the uploads of a frame. A text whose texture is refused is entered again at
    every request, each time in another slot (363, 509).
12. `db_rescue_char` goes by `alive_time` alone (`database.c:2677`), which a server writes
    through the queue of its database thread (547): one that runs, but whose thread has
    not come round to it for five minutes, loses its characters to the next client that
    asks for them, and goes on playing them; its saves are void from then on.

## 5. Proofs

All theorems hold for every value of the constants that the named assumptions
of the modules allow: any set of areas, mirrors, servers, characters and
clients, any bounds; for `Depot`, finitely many characters in an account; for `Quests`,
any set of the drivers and any limit of reopening that the count has room for.

| theorem | states |
|---|---|
| `TypeCorrect` | `Spec => []TypeOK` |
| `Invariance` | `Spec => []IInv` |
| `LeaseHeldAlways`, `OneCopyUnlessTakenAlways` | `[]LeaseHeld` and `[]OneCopyUnlessTaken` |
| `OnlyHolderWritesAlways` | `Spec => OnlyHolderWrites` |
| `LoadFindsLoginAlways`, `PlayerLinkAlways` | `[]LoadFindsLogin` and `[]PlayerLink` |
| `WholeInvariance` | `Spec => []WholeInv` |
| `LogoutSaveLandsAlways`, `NotFoundIsTransientAlways`, `AtRestNothingLostAlways` | `[]LogoutSaveLands`, `[]NotFoundIsTransient`, `[]AtRestNothingLost` |
| `IsLeaseAlways` | `Spec => IsLease`: the servers implement `CharacterLease` |
| `DepotTypeCorrect` | of `Depot`: `Spec => []TypeOK` |
| `UsableAlways`, `CurrentAlways` | of `Depot`: `[]UsableUnlessRescued` and `[]CurrentUnlessRescued` |
| `CopyInvariance` | of `Depot`: `[]CopyInv`, the inductive invariant of both |
| `QuestsInvariance`, `QuestTypes` | of `Quests`: `[]QuestsInv` and `[]TypeOK` |
| `OpenAlwaysAsked`, `SeriesOneAtATime` | of `Quests`: `[]OpenIsAsked` and `[]OneOfSeries` |
| `ReopenedAtWish`, `PaidWhenNotDone`, `CountNeverWraps` | of `Quests`: `Reopened`, `PaidOnce` and `PaysLess` |
| `TraderTypeCorrect`, `AgreementKept`, `TableCleared`, `TokensSaved` | of `Trader`: `[]TypeOK`, `[]AcceptedOfferStands`, `[]NothingKept`, `[]SavedCovers` |
| `EveryItemOnce`, `NobodyCheated` | of `Trader`: `[]OnePlace` and `NobodyIsCheated` |
| `CacheTypes`, `WorkersKeepSlots`, `RulesKept`, `RequestsShown`, `JobsCurrent`, `ListsAlwaysWhole` | of `TextureCache`: `[]TypeOK`, `[]WorkerOwnsSlot`, `[]SlotRules`, `[]ShowsRequest`, `[]JobsAreCurrent`, `[]ListsWhole` |
| `WorldTypeCorrect`, `PlacesRight`, `ThingsLinked`, `TimersDue`, `GoesInItsOwnTime` | of `World`: `[]TypeOK`, `[]Placed`, `[]Linked`, `[]Due`, `InItsOwnTime` |

No theorem assumes anything of locks, of free slots or of servers being in time:
`AreaServers` is the program with its flaws, and what it says of a character holds until
one of them strikes that character (section 2.1).

*Why `OneCopyUnlessTaken` is not inductive.* It follows from `LeaseHeld`, as a row names
one server; `LeaseHeld` in turn can be broken by a query still in a queue that
clears the row, by a login about to mark it, or by a rescue. `IInv` says for
each server `s`, and of every character that was not taken:

* `LoadInv`: a queued load is the last one and its login waits; no release comes
  after it, and while the row is being marked the load is at the top. This holds of
  characters that were taken too.
* `LeaseInv`: `LeaseHeld` for `s`. `CreateInv`: what `tick_login` is about to
  make is not in `ch[]`.
* `GiveUpInv`: while a logout or release is queued the character is not in the
  game; a logout behind others finds its row marked, and no earlier query gives
  the same character up. Hence, since the queue is first in, first out, an
  executed logout never frees the row of a character that has come back.
* `DownInv`: a server that is down has nothing.

Nothing need be said of the row between copying and marking, nor of `alive_time`:
a row marked when it is as it was read was nobody's, or this server's own, and any
other mark or rescue makes the character one that was taken.

*How the proof goes.* `TypeCorrect` is proved an action at a time. Then each fact of
`IInv` mentions one server and the rows, so a step of server `s` is treated twice: for
`s` by what it does to the queue (`QuietStep`, `EnqueueStep`, `DequeueStep`,
`StartReadStep`; `DbLoadCopy`,
`DbLoadMark` and `DbWriteAgain` by themselves), and for all others by
`OtherServer`, which needs only that no row they have a claim on is changed, or that the
character is taken from then on.
`InductiveStep` collects the lemmas, one for each action. `LoadFindsLogin` follows from
`LoadInv`. TLC checks `WholeInv`, of which `IInv` is a part, in `two_mirrors`.

*Clients.* `LinkInv` adds to `PlayerLink` that it holds on servers in any state and that
a character waiting to be collected has no client: the gap between `tick_login` and
`read_login`, in which the character may be gone and come back. With `IInv`, which says
that what `tick_login` makes is not in the game, it is inductive (`LinkedStep`).

*Saves.* `WholeInv` adds to `IInv`, of every character as long as it is `Intact`
(`AccountInv`: `Freed`):

* `AccountInv`: a row that names a running server is explained by something there, a
  character in the game or about to be, or a query that will free the row. (After a
  failed `alloc_char` nothing is there: hence `Freed`.)
* `WriteInv`: what is queued finds its row and does not make it older; saves of one
  character are queued in the order of their versions, none comes after a query that
  gives it up, and a logout whose row has gone was written already (a repeated query).
* `HeldInv`: nothing saved or queued is newer than what is in the game, nor newer than
  what a login is about to put there.
* `UnseenInv`: a character made and not collected has shown nothing that is not saved.
  Without it, one discarded uncollected might lose what the player saw before.
* `SeenInv`: what a player was shown is saved, or is in the game or in a queued logout of
  the one server the row names.

There are some forty actions, and what they mean to one server and one character
is one of six moves (`Move`): it idles - its queue gets no save of the character, its
claim and row stay or the row was never its own - it queues a save or logout
(`Stores`), executes an update that finds its row (`Executes`), marks the row (`Marks`),
ends, or starts. `BookMove` says what becomes of the row and of what the player was
shown: nothing, an executed update, a mark, something shown, a row freed by a rescue or
a restart, or a loss in a crash. `EveryStepMoves` proves that each action makes only
such moves, and the facts are proved of the moves (`CharMoves`, `AccountMoves`,
`UnseenMoves`, `SeenMoves`), not of the actions. The refinement needs no more:
`EntryMoves` gives for each `BookMove` the entry in the lending book, `Take` for a mark,
`Save` for a save, `Return` for a logout, a release, a rescue or a restart, `Show` and
`Lose`; that a returned book has all its reader saw is `SeenInv`.

*The depot.* `UsableUnlessRescued` is not inductive either: an update still in a
queue can free the row under the character that has loaded the depot again, and
`tick_login` hands a depot from the login to the game. `DepotInv` adds
`ClaimInv`: the depot in the game, the depot in a login on its way, and a queued
update that gives the depot up are three claims, each says whom the row names,
and a server has at most one of them. `DownInv`: a server that is down has
none. A step either adds no claim (`QuietSelf`), turns the depot in the game into
one queued update (`GivingSelf`), takes a query off the queue (`PopSelf`), or
takes the depot for a server when nobody has it, and then no server has a claim
(`NoClaimUnlessHeld`). Other servers keep theirs because the holder changes only
by the holder's own update, from nobody, by a restart of the holder or by a
rescue (`HolderMoves`, `OtherServer`). After a rescue of a depot in use nothing is
claimed, and the run looks no further (`UntilRescued`).

*Its contents.* `CopyInv` adds to `DepotInv`, for every server, `CurrentInv`: every
update in its queue finds the row, and no login has the depot loaded then; what the
game or the login has is the newest; and where it is not changed since the last save,
or is already given up, the row will have the newest contents once the queue is done
(`Lands`: the last update that saves contents saves those, or there is none and the row
has them). No backup comes after an update that gives the depot up. `FreeInv`: where no
server that runs has the depot, all that was shown is saved. The lemmas on `Lands` say
what a query added to a queue (`PlainJoined`, `SavingJoined`, `UnsavingJoined`) or taken
off it (`TailLands`) does; a step then shows nothing (`IdleCurrent`, `PopCurrent`), makes
the depot in the game the last update (`HandingCurrent`), executes an update
(`UpdateCurrent`) or loads what was saved (`TakenCurrent`), and while a server that runs
has the depot no other changes the row or shows contents (`HeldElsewhere`).

*The trader.* `TraderInv` is the conjunction of `TypeOK` and the three invariants
about the deal; it is inductive because `NothingKept` says what a deal begins with, `AcceptedOfferStands`
what each side saw, and the driver's loop (`todo`) keeps the players out. There is
one lemma for each kind of message (`TradeWithInv`, `AcceptTradeInv`, `GiveTokenInv`,
`TakenInv`, `GivenBackInv`), one for `return_items`, which three of them share, one for
everything the players do (`OthersInv`), and `ReadInv` puts the loop together.
Counting, as `OnePlace` does, tells a step nothing; `OneSpot` names the place instead:
for every item there is a place, the cursor or backpack of a player, the offer of a
side, the floor, the trader's hand or nowhere any more, and it is at that one only
(`OnlyAt`). `GoodsInv` adds it to `TraderInv`, and that whoever is in a slot or a party
is a player (`PartyInv`). A step moves one item from place to place and leaves the
others (`Relocated`), or hands out those that leave the table (`HandedSpots`), once for
each side in `return_items` (`ReturnItemsSpots`), which also says who gets what.
`SpotsArePlaces` counts in the end. `NobodyIsCheated` follows in one step: goods that
reach the other side have left the table, so it was `return_items` (`TableKept`); as
two parties are not the same, sides were switched; so everything the other side had
offered, all that was agreed to and more, came back or was destroyed, and the tokens were
added (`TokensPaid`).

*The texture cache.* `CacheInv` says of every slot (`SlotsOK`) which flags go together,
of every job (`JobsOK`) that its slot is marked for it while the generation is the
same and that no other job names it, of every worker (`WorkersOK`) and of the render
thread (`MainOK`) what the slot in hand looks like at that place of the code and that
no other worker has it, and (`SingleOK`) that without worker threads nothing waits.
`MainStep` and `PlainStep` reduce a step of one thread to the slot
it changes; the others keep theirs because a slot that is marked is changed only by
the worker that marked it. `JobsAreCurrent` also needs the converse, that a slot which
is marked as queued has its job (`QueuedHasJob`), and the count of calls (`CallsOK`):
jobs in the queue are as many as the semaphore, the workers that were woken and did not
look yet, and a call of the render thread that is still to be made. `WaitInv` adds both
to `CacheInv`; a woken worker therefore never finds the queue empty (`PopWait`).

`ListsWhole` speaks of what is read along the links (`Follow`, a recursive function).
The proof never follows them. `ListInv` says that there is an order of all slots
(`UseWhole`), and for every hash one of the slots of its pictures (`ChainsWhole`), which
the links spell out in both directions, and each operation is shown to turn one order
into another: `sdl_tx_best` moves one place to the front (`BestLinks`), a slot leaves a
chain from any place of it (`UnlinkChains`) or joins at the head (`PushChains`), and the
chains of other hashes, whose slots are others, are not touched. Only at the end
`FollowIs` shows, by the least place where they could differ, that reading the links
gives the order, and the pigeonhole principle that a chain is never longer than the walk.
That no picture is in twice (`Once`) needs that the render thread goes on making
room only for a picture that is not there (`Absent`), which starts with the
lookup that missed (`LookupMisses`).

*The ground.* The five properties of `World` are proved one on the other, for any
number of characters, items and tiles, any map and any doors on it.
`Placed` is stated about any map, characters and closed doors (`PlacedIn`). Whoever
moves is first taken off (`TakenOff`), then put on somewhere (`PutOn`), so that a
step, a swap, a teleport and a death are each two short arguments. The tiles
beside a diagonal step are part of it; the map of the run, one row, has none.
`Linked` is stated about any items, map, belongings and bodies (`LinkedIn`), and there
is one lemma for each way a thing goes from one place to another: `LinkedTaken`,
`LinkedDropped`, `LinkedGiven`, `LinkedMade`, `LinkedExchanged`, `LinkedBuried`,
`LinkedVanished`, `LinkedFree`; the operations of the code are made of these.
`Due` and `InItsOwnTime` are not inductive: a timer nobody can see yet may be one
that will hit a later item of the same entry. `Timed` adds that no timer names a
serial not yet given out, that those of a live item are not of a laying that has
yet to come, that no two are of the same laying, and that whatever is on the
ground has its own; `DoorsDue`, that a door counts exactly the calls that are due.
While a thing was laid down no more often than `expire_sn` can count, equal bytes
are equal layings (`SameLaying`); beyond that `InItsOwnTime` promises nothing, as
the code does not.

*The quests.* None of the six properties is inductive, because the log does not know
what drivers do, nor they the log: a driver takes what it waits for whatever the log
says, and only where it stands tells that the quest is not done yet. `QuestsInv` says
so, in tables over drivers, states and quests:

* `NotYet(n, s, q)`: driver `n` in state `s` has yet to see quest `q` done, so the log
  does not have it done; `Behind(n, s, q)`: it has, so the log does (`LogRight`). The
  second is needed where two drivers share a quest, as the imp and William do.
* `OpenIsAsked` itself, which lets a step out of the states that ask for a quest only
  with the quest done.
* `Counted`: a quest was done no more than `ReopenLimit` + 1 times, and no more than
  `ReopenLimit` times while it is not done.
* `FollowersCounted`, for the later quests of a series, which are paid whatever the log
  says (finding 2) and so are not bounded like this. How often one was done, whether its
  driver may come by it (`Due`), and how many reopenings are left to the player that
  lead the driver by it again (`LeftBefore`), never add up to more than at first: being
  done uses up a visit, and a new visit uses up a reopening. This is where
  4 * `ReopenLimit` + 1 comes from, which the count must have room for.

`StepKeeps` proves once what a step has to do to keep all of these, about one
driver going from one state to another while the log changes in one entry. For each
form a step can have there is a lemma (`MoveKeeps`, `SayKeeps`, `OfferKeeps`,
`FirstOfferKeeps`, `SkipKeeps`, `FinishKeeps`, `FinishOpeningKeeps`, and `GuildKeeps`
for the quests that may be done over and over), and another for the drivers that set
each other's number (`TwoGo`). Then, for each driver, a lemma reads
its rows out of the tables (`GwendyTable`, ...) and one goes through its lines
(`GwendySteps`, ...). `ReopenKeeps` treats the player's window: where a driver is
set back to (`SetBack`) asks for the quest that is reopened and for no other that
may be open, since the rest of the series is not. `OneOfSeries` follows from
`OpenIsAsked`: two open quests of a series would ask the same driver to be in two
places (`SeriesApart`). The action properties are facts about the same steps.

What stays with TLC is liveness, `LoginResolves` and `PrefetchDone`, which is out of the
prover's reach: every other property of the passing runs is the subject of a
theorem. The three properties of the violating runs are not theorems, as the code
does not keep them.

## 6. Plan

Not yet modelled, in this order:

1. `LoginSlot`: slots of `ch[]` and serial numbers; `login.cn` between `LS_OK`
   and pickup, the lostcon driver, characters destroyed under their player.
2. `Tasks`: a task takes effect once though its character moves.
3. `Chat` and `IoStream`: framing over a byte stream that cuts anywhere.
4. `Clans`, `Clubs`: versions and read-back of shared records.
5. Drivers that talk but have no quest in the log.

### Not modelled

* Combat, spells, skills, experience, the formulas of bank, stores and military:
  arithmetic that has no specification but itself.
* Packets of the player protocol, the map view, rendering and input: formatting
  and drawing, with no state that several parties share.
* Drivers of monsters, puzzles, labyrinths and the strategy game: each a program of
  its own, of the same kind as those of `Quests` but without a second record to
  disagree with.
* Sockets, files, zone data, the web form, launch scripts and vendored code.
* The memory pools: counters around `malloc`.
