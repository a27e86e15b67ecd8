------------------------------- MODULE Trader -------------------------------
(***************************************************************************)
(* The trader: a character of the server that holds what two players give  *)
(* it and hands it over when both have said "accept trade".                *)
(*                                                                         *)
(* Players speak and give items; each deed puts a message into the         *)
(* trader's queue that names the slot of ch[] it came from.  The trader    *)
(* reads the queue when it next acts, up to a second later, and looks up   *)
(* who is in the slot then.  Players come, leave and walk between.         *)
(*                                                                         *)
(* Of the inventory the model keeps the cursor item and the backpack; an   *)
(* item that lies about can be picked up, so any inventory comes up.       *)
(* What other systems do to tokens (depots, payments) is left out.         *)
(***************************************************************************)
EXTENDS Integers, Sequences, FiniteSets

CONSTANTS
  Players,    \* characters of players, by ID
  Slots,      \* entries of ch[] they come and go through
  Items,
  None,       \* nobody, no item
  PackSize,   \* places in the backpack
  MaxItems,   \* items a side may offer, ten in the code
  Tokens,     \* payment tokens the players own at first, by player
  MaxMail     \* bound on the messages that wait for the trader

ASSUME TraderAssumption ==
  /\ None \notin Players \cup Items
  /\ IsFiniteSet(Items)
  /\ PackSize \in Nat /\ MaxItems \in Nat /\ MaxMail \in Nat
  /\ Tokens \in [Players -> Nat]

VARIABLES
  ch,       \* per slot: who is, or last was, in it, and whether it is in use
  citem,    \* per player: the item on the cursor
  pack,     \* per player: the items of the backpack
  floor,    \* items that lie about
  lost,     \* items that have been destroyed
  tokens,   \* per player: payment_tokens of the depot in memory
  loaded,   \* players whose depot is loaded
  saved,    \* per player: payment_tokens in the database
  held,     \* the item on the trader's cursor
  mail,     \* the trader's messages
  todo,     \* messages left for the driver's loop to read, or Asleep
  dat,      \* the trader's state, parties and their agreement
  itm,      \* per side: the items offered
  token,    \* per side: the tokens offered
  late,     \* the three minutes are over
  seen      \* per side: what the other offered when the side accepted

bags  == <<citem, pack, lost>>
money == <<tokens, loaded, saved>>
deal  == <<dat, itm, token, late, seen>>
vars  == <<ch, bags, floor, money, held, mail, todo, deal>>

Sides == {1, 2}
Other(k) == 3 - k

Text == {"stop trade", "accept trade", "give token"}
Message ==
  [type: {"text"}, co: Slots, by: Players, text: Text \cup Players]
  \cup [type: {"give"}, co: Slots, by: Players]

\* The driver is not running: the server is single-threaded, so nothing else
\* happens while it does.
Asleep == -1

NoDeal == [state |-> 0, ID |-> [k \in Sides |-> None], ok |-> [k \in Sides |-> FALSE]]
NoSight == [items |-> {}, tokens |-> 0]

TypeOK ==
  /\ ch \in [Slots -> [ID: Players \cup {None}, used: BOOLEAN]]
  /\ citem \in [Players -> Items \cup {None}]
  /\ pack \in [Players -> SUBSET Items]
  /\ floor \subseteq Items /\ lost \subseteq Items
  /\ tokens \in [Players -> Nat] /\ saved \in [Players -> Nat]
  /\ loaded \subseteq Players
  /\ held \in Items \cup {None}
  /\ mail \in Seq(Message)
  /\ todo \in Asleep..Len(mail)
  /\ dat \in [state: 0..2, ID: [Sides -> Players \cup {None}],
              ok: [Sides -> BOOLEAN]]
  /\ itm \in [Sides -> SUBSET Items]
  /\ token \in [Sides -> Nat]
  /\ late \in BOOLEAN
  /\ seen \in [Sides -> [items: SUBSET Items, tokens: Nat]]

-----------------------------------------------------------------------------
(* The players.                                                            *)

InGame(p) == \E s \in Slots : ch[s] = [ID |-> p, used |-> TRUE]

\* The slot a player is in.
SlotOf(p) == CHOOSE s \in Slots : ch[s] = [ID |-> p, used |-> TRUE]

\* A player enters this server through a free slot, its depot not loaded.
Login(p, s) ==
  /\ ~InGame(p) /\ ~ch[s].used
  /\ ch' = [ch EXCEPT ![s] = [ID |-> p, used |-> TRUE]]
  /\ loaded' = loaded \ {p}
  /\ UNCHANGED <<bags, floor, tokens, saved, held, mail, todo, deal>>

\* It leaves, for another area or altogether, and is saved.  free_char clears
\* the flags of the slot and nothing else.
Logout(p) ==
  /\ InGame(p)
  /\ ch' = [ch EXCEPT ![SlotOf(p)].used = FALSE]
  /\ saved' = [saved EXCEPT ![p] = tokens[p]]
  /\ UNCHANGED <<bags, floor, tokens, loaded, held, mail, todo, deal>>

LoadDepot(p) ==
  /\ InGame(p)
  /\ loaded' = loaded \cup {p}
  /\ UNCHANGED <<ch, bags, floor, tokens, saved, held, mail, todo, deal>>

PickUp(p, in) ==
  /\ InGame(p) /\ citem[p] = None /\ in \in floor
  /\ citem' = [citem EXCEPT ![p] = in]
  /\ floor' = floor \ {in}
  /\ UNCHANGED <<ch, pack, lost, money, held, mail, todo, deal>>

PutDown(p) ==
  /\ InGame(p) /\ citem[p] # None
  /\ floor' = floor \cup {citem[p]}
  /\ citem' = [citem EXCEPT ![p] = None]
  /\ UNCHANGED <<ch, pack, lost, money, held, mail, todo, deal>>

\* swap: the cursor and one place of the backpack change places.
Swap(p, in) ==
  /\ InGame(p) /\ in \in pack[p] \cup {None}
  /\ in # citem[p]
  /\ LET rest == (pack[p] \ {in}) \cup ({citem[p]} \ {None})
     IN  /\ Cardinality(rest) <= PackSize
         /\ pack' = [pack EXCEPT ![p] = rest]
  /\ citem' = [citem EXCEPT ![p] = in]
  /\ UNCHANGED <<ch, lost, floor, money, held, mail, todo, deal>>

\* A player says something the trader listens to; a player's name stands for
\* "trade with <name>".
Say(p, text) ==
  /\ InGame(p)
  /\ Len(mail) < MaxMail
  /\ mail' = Append(mail, [type |-> "text", co |-> SlotOf(p), by |-> p, text |-> text])
  /\ UNCHANGED <<ch, bags, floor, money, held, todo, deal>>

\* act_give: the item goes from one cursor to the other, if that is free.
Give(p) ==
  /\ InGame(p)
  /\ citem[p] # None /\ held = None
  /\ Len(mail) < MaxMail
  /\ held' = citem[p]
  /\ citem' = [citem EXCEPT ![p] = None]
  /\ mail' = Append(mail, [type |-> "give", co |-> SlotOf(p), by |-> p])
  /\ UNCHANGED <<ch, pack, lost, floor, money, todo, deal>>

-----------------------------------------------------------------------------
(* What the trader hands out.                                              *)

Bags == [citem |-> citem, pack |-> pack, lost |-> lost]

\* give_char_item for each of the items, to a player who can have them: one
\* goes to a free cursor, the rest to the backpack as long as there is room,
\* and what is left is destroyed.  With Reach FALSE all of it is destroyed.
Shares(b, p, items) ==
  {g \in [first: SUBSET items, stored: SUBSET items] :
     /\ g.first \cap g.stored = {}
     /\ Cardinality(g.first) <= 1
     /\ g.first # {} <=> (b.citem[p] = None /\ items # {})
     /\ Cardinality(b.pack[p]) + Cardinality(g.stored) <= PackSize
     /\ g.first \cup g.stored # items
          => Cardinality(b.pack[p]) + Cardinality(g.stored) = PackSize}

Handed(b, p, items, reach) ==
  IF ~reach THEN {[b EXCEPT !.lost = @ \cup items]}
  ELSE {[citem |-> [b.citem EXCEPT ![p] = IF g.first = {} THEN @
                                          ELSE CHOOSE in \in g.first : TRUE],
         pack  |-> [b.pack EXCEPT ![p] = @ \cup g.stored],
         lost  |-> b.lost \cup (items \ (g.first \cup g.stored))] :
          g \in Shares(b, p, items)}

\* A party that is on this server and not in the gatekeeper's room: a player
\* may have gone anywhere by the time the trader acts.
Reached(p, away) == p # None /\ InGame(p) /\ p \notin away

Paid(p, t) == p # None /\ InGame(p) /\ p \in loaded /\ t > 0

\* Mutants: the second side's goods stay, a cancelled trade is not saved,
\* what cannot be paid is kept, the agreement is kept.
ReturnHalf(switched) ==
  \E away \in SUBSET {dat.ID[k] : k \in Sides} :
  LET to(k) == IF switched /\ k = 1 THEN dat.ID[Other(k)] ELSE dat.ID[k]
      sum(p) == (IF to(1) = p /\ Paid(p, token[1]) THEN token[1] ELSE 0)
                + (IF to(2) = p /\ Paid(p, token[2]) THEN token[2] ELSE 0)
  IN  /\ \E b1 \in Handed(Bags, to(1), itm[1], Reached(to(1), away)) :
         \E b2 \in Handed(b1, to(2), itm[2], Reached(to(2), away)) :
            /\ citem' = b2.citem /\ pack' = b2.pack /\ lost' = b2.lost
      /\ tokens' = [p \in Players |-> tokens[p] + sum(p)]
      /\ saved' = [p \in Players |->
                     IF sum(p) > 0 THEN tokens[p] + sum(p) ELSE saved[p]]
      /\ itm' = [k \in Sides |-> {}]
      /\ token' = [k \in Sides |-> 0]
      /\ dat' = [dat EXCEPT !.state = 0, !.ok = [k \in Sides |-> FALSE]]
      /\ late' = FALSE
      /\ seen' = [k \in Sides |-> NoSight]
      /\ UNCHANGED loaded

ReturnUnsaved(switched) ==
  \E away \in SUBSET {dat.ID[k] : k \in Sides} :
  LET to(k) == IF switched THEN dat.ID[Other(k)] ELSE dat.ID[k]
      sum(p) == (IF to(1) = p /\ Paid(p, token[1]) THEN token[1] ELSE 0)
                + (IF to(2) = p /\ Paid(p, token[2]) THEN token[2] ELSE 0)
  IN  /\ \E b1 \in Handed(Bags, to(1), itm[1], Reached(to(1), away)) :
         \E b2 \in Handed(b1, to(2), itm[2], Reached(to(2), away)) :
            /\ citem' = b2.citem /\ pack' = b2.pack /\ lost' = b2.lost
      /\ tokens' = [p \in Players |-> tokens[p] + sum(p)]
      /\ saved' = [p \in Players |->
                     IF sum(p) > 0 /\ switched THEN tokens[p] + sum(p) ELSE saved[p]]
      /\ itm' = [k \in Sides |-> {}]
      /\ token' = [k \in Sides |-> 0]
      /\ dat' = [dat EXCEPT !.state = 0, !.ok = [k \in Sides |-> FALSE]]
      /\ late' = FALSE
      /\ seen' = [k \in Sides |-> NoSight]
      /\ UNCHANGED loaded

ReturnUnpaid(switched) ==
  \E away \in SUBSET {dat.ID[k] : k \in Sides} :
  LET to(k) == IF switched THEN dat.ID[Other(k)] ELSE dat.ID[k]
      sum(p) == (IF to(1) = p /\ Paid(p, token[1]) THEN token[1] ELSE 0)
                + (IF to(2) = p /\ Paid(p, token[2]) THEN token[2] ELSE 0)
  IN  /\ \E b1 \in Handed(Bags, to(1), itm[1], Reached(to(1), away)) :
         \E b2 \in Handed(b1, to(2), itm[2], Reached(to(2), away)) :
            /\ citem' = b2.citem /\ pack' = b2.pack /\ lost' = b2.lost
      /\ tokens' = [p \in Players |-> tokens[p] + sum(p)]
      /\ saved' = [p \in Players |->
                     IF sum(p) > 0 THEN tokens[p] + sum(p) ELSE saved[p]]
      /\ itm' = [k \in Sides |-> {}]
      /\ token' = [k \in Sides |-> IF Paid(to(k), token[k]) THEN 0 ELSE token[k]]
      /\ dat' = [dat EXCEPT !.state = 0, !.ok = [k \in Sides |-> FALSE]]
      /\ late' = FALSE
      /\ seen' = [k \in Sides |-> NoSight]
      /\ UNCHANGED loaded

ReturnAgreed(switched) ==
  \E away \in SUBSET {dat.ID[k] : k \in Sides} :
  LET to(k) == IF switched THEN dat.ID[Other(k)] ELSE dat.ID[k]
      sum(p) == (IF to(1) = p /\ Paid(p, token[1]) THEN token[1] ELSE 0)
                + (IF to(2) = p /\ Paid(p, token[2]) THEN token[2] ELSE 0)
  IN  /\ \E b1 \in Handed(Bags, to(1), itm[1], Reached(to(1), away)) :
         \E b2 \in Handed(b1, to(2), itm[2], Reached(to(2), away)) :
            /\ citem' = b2.citem /\ pack' = b2.pack /\ lost' = b2.lost
      /\ tokens' = [p \in Players |-> tokens[p] + sum(p)]
      /\ saved' = [p \in Players |->
                     IF sum(p) > 0 THEN tokens[p] + sum(p) ELSE saved[p]]
      /\ itm' = [k \in Sides |-> {}]
      /\ token' = [k \in Sides |-> 0]
      /\ dat' = [dat EXCEPT !.state = 0]
      /\ late' = FALSE
      /\ UNCHANGED seen
      /\ UNCHANGED loaded

\* return_items: the first side's goods, then the second side's, to the other
\* party or back to their own.  Who gets tokens is saved at once.
ReturnItems(switched) ==
  \E away \in SUBSET {dat.ID[k] : k \in Sides} :
  LET to(k) == IF switched THEN dat.ID[Other(k)] ELSE dat.ID[k]
      sum(p) == (IF to(1) = p /\ Paid(p, token[1]) THEN token[1] ELSE 0)
                + (IF to(2) = p /\ Paid(p, token[2]) THEN token[2] ELSE 0)
  IN  /\ \E b1 \in Handed(Bags, to(1), itm[1], Reached(to(1), away)) :
         \E b2 \in Handed(b1, to(2), itm[2], Reached(to(2), away)) :
            /\ citem' = b2.citem /\ pack' = b2.pack /\ lost' = b2.lost
      /\ tokens' = [p \in Players |-> tokens[p] + sum(p)]
      /\ saved' = [p \in Players |->
                     IF sum(p) > 0 THEN tokens[p] + sum(p) ELSE saved[p]]
      /\ itm' = [k \in Sides |-> {}]
      /\ token' = [k \in Sides |-> 0]
      /\ dat' = [dat EXCEPT !.state = 0, !.ok = [k \in Sides |-> FALSE]]
      /\ late' = FALSE
      /\ seen' = [k \in Sides |-> NoSight]
      /\ UNCHANGED loaded

-----------------------------------------------------------------------------
(* What the trader does about a message.                                   *)

\* The character now in the slot a message came from.
Speaker(msg) == ch[msg.co].ID

SidesOf(co) == {k \in Sides : dat.ID[k] = co}

Free(co) == PackSize - Cardinality(pack[co])

TradeWith(co, c2) ==
  /\ dat.state = 0 /\ InGame(c2)
  /\ Free(co) >= MaxItems /\ Free(c2) >= MaxItems
  /\ dat' = [dat EXCEPT !.state = 1, !.ID = [k \in Sides |-> IF k = 1 THEN co ELSE c2]]
  /\ late' = FALSE
  /\ UNCHANGED <<bags, money, itm, token, seen>>

StopTrade(co) ==
  /\ dat.state # 0 /\ SidesOf(co) # {}
  /\ ReturnItems(FALSE)

Offer(k) == [items |-> itm[k], tokens |-> token[k]]

AcceptTrade(co) ==
  /\ dat.state # 0 /\ SidesOf(co) # {}
  /\ LET ok == [k \in Sides |-> dat.ok[k] \/ k \in SidesOf(co)]
     IN  IF ok[1] /\ ok[2]
         THEN ReturnItems(TRUE)
         ELSE /\ dat' = [dat EXCEPT !.state = 2, !.ok = ok]
              /\ seen' = [k \in Sides |-> IF k \in SidesOf(co) /\ ~dat.ok[k]
                                          THEN Offer(Other(k)) ELSE seen[k]]
              /\ UNCHANGED <<bags, money, itm, token, late>>

\* A mutant: whether there is a token is not asked.
GiveTokenUnseen(co) ==
  /\ dat.state # 0 /\ SidesOf(co) # {}
  /\ co \in loaded
  /\ tokens' = [tokens EXCEPT ![co] = @ - 1]
  /\ LET k == IF dat.ID[1] = co THEN 1 ELSE 2
     IN  token' = [token EXCEPT ![k] = @ + 1]
  /\ UNCHANGED <<bags, loaded, saved, dat, itm, late, seen>>

\* A token is taken from a party whose depot is loaded; nothing is saved.
GiveToken(co) ==
  /\ dat.state # 0 /\ SidesOf(co) # {}
  /\ co \in loaded /\ tokens[co] > 0
  /\ tokens' = [tokens EXCEPT ![co] = @ - 1]
  /\ LET k == IF dat.ID[1] = co THEN 1 ELSE 2
     IN  token' = [token EXCEPT ![k] = @ + 1]
  /\ UNCHANGED <<bags, loaded, saved, dat, itm, late, seen>>

\* A text from a slot no player is in is dropped.
Heard(msg) ==
  LET co == Speaker(msg)
  IN  /\ msg.type = "text" /\ ch[msg.co].used
      /\ \/ msg.text \in Players /\ TradeWith(co, msg.text)
         \/ msg.text = "stop trade" /\ StopTrade(co)
         \/ msg.text = "accept trade" /\ AcceptTrade(co)
         \/ msg.text = "give token" /\ GiveToken(co)
      /\ UNCHANGED held

\* A mutant: the trader's hand is not emptied.
TakenAndHeld(msg) ==
  LET co == Speaker(msg)
      k  == IF dat.ID[1] = co THEN 1 ELSE 2
  IN  /\ msg.type = "give" /\ held # None
      /\ dat.state = 1 /\ SidesOf(co) # {} /\ Cardinality(itm[k]) < MaxItems
      /\ itm' = [itm EXCEPT ![k] = @ \cup {held}]
      /\ UNCHANGED <<bags, money, held, dat, token, late, seen>>

\* An item that was given joins its side's offer.
Taken(msg) ==
  LET co == Speaker(msg)
      k  == IF dat.ID[1] = co THEN 1 ELSE 2
  IN  /\ msg.type = "give" /\ held # None
      /\ dat.state = 1 /\ SidesOf(co) # {} /\ Cardinality(itm[k]) < MaxItems
      /\ itm' = [itm EXCEPT ![k] = @ \cup {held}]
      /\ held' = None
      /\ UNCHANGED <<bags, money, dat, token, late, seen>>

\* Or it goes back to the slot it came from: to who is in it now, or to nobody.
GivenBack(msg) ==
  LET co == Speaker(msg)
      k  == IF dat.ID[1] = co THEN 1 ELSE 2
  IN  /\ msg.type = "give" /\ held # None
      /\ dat.state # 1 \/ SidesOf(co) = {} \/ Cardinality(itm[k]) >= MaxItems
      /\ \E b \in Handed(Bags, co, {held}, ch[msg.co].used) :
            citem' = b.citem /\ pack' = b.pack /\ lost' = b.lost
      /\ held' = None
      /\ UNCHANGED <<money, deal>>

\* Or it is refused; for a token one has to stand close by.
Refused(msg) ==
  /\ msg.type = "text"
  /\ \/ ~ch[msg.co].used
     \/ LET co == Speaker(msg)
        IN  \/ msg.text \in Players
               /\ (\/ dat.state # 0 \/ ~InGame(msg.text)
                   \/ Free(co) < MaxItems \/ Free(msg.text) < MaxItems)
            \/ msg.text \in Text /\ (dat.state = 0 \/ SidesOf(co) = {})
            \/ msg.text = "give token"
  /\ UNCHANGED <<bags, money, held, deal>>

\* trader_driver is called, and finds the messages that are there.
Wake ==
  /\ todo = Asleep
  /\ todo' = Len(mail)
  /\ UNCHANGED <<ch, bags, floor, money, held, mail, deal>>

\* One message of its loop.
Read ==
  /\ todo > 0
  /\ LET msg == Head(mail)
     IN  Heard(msg) \/ Taken(msg) \/ GivenBack(msg) \/ Refused(msg)
  /\ mail' = Tail(mail)
  /\ todo' = todo - 1
  /\ UNCHANGED <<ch, floor>>

\* After the loop: a trade that took too long is cancelled.
Rest ==
  /\ todo = 0
  /\ IF dat.state # 0 /\ late THEN ReturnItems(FALSE)
                             ELSE UNCHANGED <<bags, money, deal>>
  /\ todo' = Asleep
  /\ UNCHANGED <<ch, floor, held, mail>>

Driver == Wake \/ Read \/ Rest

\* The three minutes pass.
Tick ==
  /\ dat.state # 0 /\ ~late
  /\ late' = TRUE
  /\ UNCHANGED <<ch, bags, floor, money, held, mail, todo, dat, itm, token, seen>>

-----------------------------------------------------------------------------
Init ==
  /\ ch = [s \in Slots |-> [ID |-> None, used |-> FALSE]]
  /\ citem = [p \in Players |-> None]
  /\ pack = [p \in Players |-> {}]
  /\ floor = Items /\ lost = {}
  /\ tokens = Tokens /\ saved = Tokens
  /\ loaded = {}
  /\ held = None /\ mail = <<>> /\ todo = Asleep
  /\ dat = NoDeal
  /\ itm = [k \in Sides |-> {}] /\ token = [k \in Sides |-> 0]
  /\ late = FALSE
  /\ seen = [k \in Sides |-> NoSight]

\* What else goes on while the driver does not run.
Others ==
  \/ \E p \in Players :
       \/ \E s \in Slots : Login(p, s)
       \/ Logout(p) \/ LoadDepot(p)
       \/ \E in \in Items : PickUp(p, in)
       \/ PutDown(p)
       \/ \E in \in Items \cup {None} : Swap(p, in)
       \/ \E text \in Text \cup Players : Say(p, text)
       \/ Give(p)
  \/ Tick

Next ==
  \/ todo = Asleep /\ Others
  \/ Driver

Spec == Init /\ [][Next]_vars

-----------------------------------------------------------------------------
(* Properties.                                                             *)

Has(p, in) == citem[p] = in \/ in \in pack[p]

\* Every item is in exactly one place: it lies about, is destroyed, is on one
\* player's cursor or in one backpack, with the trader, or in one offer.
OnePlace ==
  \A in \in Items :
     LET holders == {p \in Players : Has(p, in)}
         offers  == {k \in Sides : in \in itm[k]}
         here(b) == IF b THEN 1 ELSE 0
     IN  /\ \A p \in Players : ~(citem[p] = in /\ in \in pack[p])
         /\ Cardinality(holders) + Cardinality(offers) + here(in \in floor)
              + here(in \in lost) + here(held = in) = 1

\* What a party has agreed to get in return stays on offer as long as its
\* agreement stands.
AcceptedOfferStands ==
  \A k \in Sides : dat.ok[k] =>
     /\ seen[k].items \subseteq itm[Other(k)]
     /\ seen[k].tokens <= token[Other(k)]

\* Between trades the trader keeps nothing and remembers no agreement.
NothingKept ==
  dat.state = 0 => /\ \A k \in Sides : itm[k] = {} /\ token[k] = 0 /\ ~dat.ok[k]

\* A player's tokens are safe from a crash: the database never has fewer.
SavedCovers == \A p \in Players : saved[p] >= tokens[p]

\* A party whose goods go to the other one gets all that it agreed to, unless
\* the goods are destroyed because it cannot take them.
NobodyIsCheated ==
  [][\A k \in Sides :
       /\ dat.ID[1] # dat.ID[2]
       /\ \E in \in itm[k] : Has(dat.ID[Other(k)], in)'
       /\ dat.ok[k]
       => /\ \A in \in seen[k].items : Has(dat.ID[k], in)' \/ in \in lost'
          /\ Paid(dat.ID[k], 1) =>
               tokens'[dat.ID[k]] >= tokens[dat.ID[k]] + seen[k].tokens]_vars

\* What is on offer for a party was given to the trader by that party, and only
\* its own word counts as its agreement.
OwnWord ==
  [][todo > 0 =>
       LET msg == Head(mail)
       IN  /\ \A k \in Sides : itm'[k] \ itm[k] # {} => msg.by = dat.ID[k]
           /\ \A k \in Sides : ~dat.ok[k] /\ dat'.ok[k] => msg.by = dat.ID[k]]_vars
=============================================================================
