---------------------------- MODULE TraderProofs ----------------------------
(***************************************************************************)
(* The trader keeps its word, for any players, slots and items: it holds   *)
(* nothing between trades, an offer somebody agreed to is not taken back,  *)
(* the tokens of the players are in the database, every item is in one     *)
(* place, and who lets go of goods gets what it was shown.                 *)
(***************************************************************************)
EXTENDS Trader, FiniteSetTheorems, SequenceTheorems, TLAPS

(***************************************************************************)
(* Helpers.                                                                *)
(***************************************************************************)

\* There are two sides, and each is the other of the other.
LEMMA OtherSide == \A k \in Sides : Other(k) \in Sides /\ Other(Other(k)) = k
BY DEF Sides, Other

\* What the driver's data becomes when some of it changes.
DatType == [state: 0..2, ID: [Sides -> Players \cup {None}], ok: [Sides -> BOOLEAN]]

LEMMA DatUpdate ==
  ASSUME NEW d \in DatType, NEW st \in 0..2, NEW id \in [Sides -> Players \cup {None}],
         NEW ok \in [Sides -> BOOLEAN]
  PROVE  /\ [d EXCEPT !.state = st, !.ok = ok] \in DatType
         /\ [d EXCEPT !.state = st, !.ID = id] \in DatType
         /\ [d EXCEPT !.state = st, !.ok = ok].ok = ok
         /\ [d EXCEPT !.state = st, !.ok = ok].state = st
BY DEF DatType

BagType == [citem: [Players -> Items \cup {None}], pack: [Players -> SUBSET Items],
            lost: SUBSET Items]

\* Handing out items makes bags of bags.
LEMMA HandedType ==
  ASSUME NEW b \in BagType, NEW p, NEW items \in SUBSET Items, NEW reach,
         NEW h \in Handed(b, p, items, reach)
  PROVE  h \in BagType
<1>1. CASE ~reach
  <2>1. h = [b EXCEPT !.lost = @ \cup items]
    BY <1>1 DEF Handed
  <2> QED
    BY <2>1 DEF BagType
<1>2. CASE reach
  <2>1. PICK g \in Shares(b, p, items) :
          h = [citem |-> [b.citem EXCEPT ![p] = IF g.first = {} THEN @
                                          ELSE CHOOSE in \in g.first : TRUE],
               pack  |-> [b.pack EXCEPT ![p] = @ \cup g.stored],
               lost  |-> b.lost \cup (items \ (g.first \cup g.stored))]
    BY <1>2 DEF Handed
  <2>2. g.first \subseteq Items /\ g.stored \subseteq Items
    BY DEF Shares
  <2>3. b.citem \in [Players -> Items \cup {None}] /\ b.pack \in [Players -> SUBSET Items]
        /\ b.lost \subseteq Items
    BY DEF BagType
  <2>4. g.first # {} => (CHOOSE in \in g.first : TRUE) \in Items
    BY <2>2
  <2>5. [b.citem EXCEPT ![p] = IF g.first = {} THEN @ ELSE CHOOSE in \in g.first : TRUE]
          \in [Players -> Items \cup {None}]
    BY <2>3, <2>4
  <2>6. [b.pack EXCEPT ![p] = @ \cup g.stored] \in [Players -> SUBSET Items]
    BY <2>2, <2>3
  <2> QED
    BY <2>1, <2>3, <2>5, <2>6 DEF BagType
<1> QED
  BY <1>1, <1>2

\* What the trader returns: bags, purses and savings of their types, and an
\* empty table.  Who gets tokens has them saved.
LEMMA ReturnItemsType ==
  ASSUME TypeOK, SavedCovers, NEW switched \in BOOLEAN, ReturnItems(switched)
  PROVE  /\ citem' \in [Players -> Items \cup {None}]
         /\ pack' \in [Players -> SUBSET Items]
         /\ lost' \subseteq Items
         /\ tokens' \in [Players -> Nat] /\ saved' \in [Players -> Nat]
         /\ SavedCovers'
         /\ loaded' = loaded
         /\ itm' = [k \in Sides |-> {}] /\ token' = [k \in Sides |-> 0]
         /\ dat' = [dat EXCEPT !.state = 0, !.ok = [k \in Sides |-> FALSE]]
         /\ late' = FALSE
         /\ seen' = [k \in Sides |-> NoSight]
<1> DEFINE to(k) == IF switched THEN dat.ID[Other(k)] ELSE dat.ID[k]
           sum(p) == (IF to(1) = p /\ Paid(p, token[1]) THEN token[1] ELSE 0)
                     + (IF to(2) = p /\ Paid(p, token[2]) THEN token[2] ELSE 0)
<1>1. PICK away :
        \E b1 \in Handed(Bags, to(1), itm[1], Reached(to(1), away)) :
          \E b2 \in Handed(b1, to(2), itm[2], Reached(to(2), away)) :
            citem' = b2.citem /\ pack' = b2.pack /\ lost' = b2.lost
  BY DEF ReturnItems
<1>2. PICK b1 \in Handed(Bags, to(1), itm[1], Reached(to(1), away)) :
        \E b2 \in Handed(b1, to(2), itm[2], Reached(to(2), away)) :
            citem' = b2.citem /\ pack' = b2.pack /\ lost' = b2.lost
  BY <1>1
<1>3. PICK b2 \in Handed(b1, to(2), itm[2], Reached(to(2), away)) :
            citem' = b2.citem /\ pack' = b2.pack /\ lost' = b2.lost
  BY <1>2
<1>4. Bags \in BagType
  BY DEF Bags, BagType, TypeOK
<1>5. itm[1] \in SUBSET Items /\ itm[2] \in SUBSET Items
  BY DEF TypeOK, Sides
<1> HIDE DEF to
<1>6. b1 \in BagType
  BY <1>4, <1>5, HandedType
<1>7. b2 \in BagType
  BY <1>5, <1>6, HandedType
<1>8. /\ citem' \in [Players -> Items \cup {None}]
      /\ pack' \in [Players -> SUBSET Items]
      /\ lost' \subseteq Items
  BY <1>3, <1>7 DEF BagType
<1>9. \A p \in Players : sum(p) \in Nat
  <2>1. token[1] \in Nat /\ token[2] \in Nat
    BY DEF TypeOK, Sides
  <2> QED
    BY <2>1
<1>10. /\ tokens' = [p \in Players |-> tokens[p] + sum(p)]
       /\ saved' = [p \in Players |-> IF sum(p) > 0 THEN tokens[p] + sum(p) ELSE saved[p]]
  BY DEF ReturnItems, to
<1> HIDE DEF sum
<1>11. tokens \in [Players -> Nat] /\ saved \in [Players -> Nat]
  BY DEF TypeOK
<1>12. tokens' \in [Players -> Nat] /\ saved' \in [Players -> Nat]
  BY <1>9, <1>10, <1>11
<1>13. SavedCovers'
  <2> SUFFICES ASSUME NEW p \in Players
               PROVE  saved'[p] >= tokens'[p]
    BY DEF SavedCovers
  <2>1. sum(p) \in Nat /\ tokens[p] \in Nat /\ saved[p] \in Nat /\ saved[p] >= tokens[p]
    BY <1>9, <1>11 DEF SavedCovers
  <2>2. tokens'[p] = tokens[p] + sum(p)
        /\ saved'[p] = IF sum(p) > 0 THEN tokens[p] + sum(p) ELSE saved[p]
    BY <1>10
  <2> QED
    BY <2>1, <2>2
<1> QED
  BY <1>8, <1>12, <1>13 DEF ReturnItems

(***************************************************************************)
(* What is needed for a step: the invariants support each other, since a   *)
(* trade that begins has to find the table empty and nothing agreed.       *)
(***************************************************************************)
TraderInv == TypeOK /\ NothingKept /\ AcceptedOfferStands /\ SavedCovers

LEMMA InitInv == Init => TraderInv
<1> SUFFICES ASSUME Init PROVE TraderInv
  OBVIOUS
<1> USE TraderAssumption
<1>1. TypeOK
  <2>1. ch \in [Slots -> [ID: Players \cup {None}, used: BOOLEAN]]
    BY DEF Init
  <2>2. /\ citem \in [Players -> Items \cup {None}]
        /\ pack \in [Players -> SUBSET Items]
        /\ floor \subseteq Items /\ lost \subseteq Items
        /\ tokens \in [Players -> Nat] /\ saved \in [Players -> Nat]
        /\ loaded \subseteq Players
        /\ held \in Items \cup {None} /\ late \in BOOLEAN
    BY DEF Init
  <2>3. mail \in Seq(Message) /\ todo \in Asleep..Len(mail)
    <3>1. mail = <<>> /\ todo = -1
      BY DEF Init, Asleep
    <3>2. Len(mail) = 0 /\ mail \in Seq(Message)
      BY <3>1
    <3> QED
      BY <3>1, <3>2 DEF Asleep
  <2>4. dat \in [state: 0..2, ID: [Sides -> Players \cup {None}], ok: [Sides -> BOOLEAN]]
    BY DEF Init, NoDeal
  <2>5. /\ itm \in [Sides -> SUBSET Items] /\ token \in [Sides -> Nat]
        /\ seen \in [Sides -> [items: SUBSET Items, tokens: Nat]]
    BY DEF Init, NoSight
  <2> QED
    BY <2>1, <2>2, <2>3, <2>4, <2>5 DEF TypeOK
<1>2. NothingKept /\ AcceptedOfferStands
  BY DEF Init, NothingKept, AcceptedOfferStands, NoDeal, Sides
<1>3. SavedCovers
  BY DEF Init, SavedCovers
<1> QED
  BY <1>1, <1>2, <1>3 DEF TraderInv

\* After the table has been cleared the invariants about it hold.
LEMMA Cleared ==
  ASSUME TraderInv,
         itm' = [k \in Sides |-> {}], token' = [k \in Sides |-> 0],
         dat' = [dat EXCEPT !.state = 0, !.ok = [k \in Sides |-> FALSE]]
  PROVE  /\ NothingKept' /\ AcceptedOfferStands'
         /\ dat' \in [state: 0..2, ID: [Sides -> Players \cup {None}], ok: [Sides -> BOOLEAN]]
<1>1. dat \in [state: 0..2, ID: [Sides -> Players \cup {None}], ok: [Sides -> BOOLEAN]]
  BY DEF TraderInv, TypeOK
<1>2. dat'.ok = [k \in Sides |-> FALSE] /\ dat'.state = 0 /\ dat'.ID = dat.ID
  BY <1>1
<1>3. NothingKept'
  BY <1>2 DEF NothingKept
<1>4. AcceptedOfferStands'
  BY <1>2 DEF AcceptedOfferStands
<1>5. dat' \in [state: 0..2, ID: [Sides -> Players \cup {None}], ok: [Sides -> BOOLEAN]]
  <2>1. [k \in Sides |-> FALSE] \in [Sides -> BOOLEAN] /\ 0 \in 0..2
        /\ dat.ID \in [Sides -> Players \cup {None}]
    BY <1>1
  <2>2. dat \in DatType
    BY <1>1 DEF DatType
  <2> QED
    BY <2>1, <2>2, DatUpdate DEF DatType
<1> QED
  BY <1>3, <1>4, <1>5

\* The invariants except the types of what a reading of the mail changes.
DealOK ==
  /\ dat \in [state: 0..2, ID: [Sides -> Players \cup {None}], ok: [Sides -> BOOLEAN]]
  /\ itm \in [Sides -> SUBSET Items]
  /\ token \in [Sides -> Nat]
  /\ late \in BOOLEAN
  /\ seen \in [Sides -> [items: SUBSET Items, tokens: Nat]]

GoodsOK ==
  /\ citem \in [Players -> Items \cup {None}]
  /\ pack \in [Players -> SUBSET Items]
  /\ lost \subseteq Items
  /\ tokens \in [Players -> Nat] /\ saved \in [Players -> Nat]
  /\ loaded \subseteq Players
  /\ held \in Items \cup {None}

ReadOK == DealOK /\ GoodsOK /\ NothingKept /\ AcceptedOfferStands /\ SavedCovers

LEMMA ReturnItemsInv ==
  ASSUME TraderInv, NEW switched \in BOOLEAN, ReturnItems(switched), UNCHANGED held
  PROVE  ReadOK'
<1>1. /\ citem' \in [Players -> Items \cup {None}]
      /\ pack' \in [Players -> SUBSET Items]
      /\ lost' \subseteq Items
      /\ tokens' \in [Players -> Nat] /\ saved' \in [Players -> Nat]
      /\ SavedCovers'
      /\ loaded' = loaded
      /\ itm' = [k \in Sides |-> {}] /\ token' = [k \in Sides |-> 0]
      /\ dat' = [dat EXCEPT !.state = 0, !.ok = [k \in Sides |-> FALSE]]
      /\ late' = FALSE
      /\ seen' = [k \in Sides |-> NoSight]
  BY ReturnItemsType DEF TraderInv
<1>2. GoodsOK'
  BY <1>1 DEF GoodsOK, TraderInv, TypeOK
<1>3. /\ NothingKept' /\ AcceptedOfferStands'
      /\ dat' \in [state: 0..2, ID: [Sides -> Players \cup {None}], ok: [Sides -> BOOLEAN]]
  BY <1>1, Cleared
<1>4. DealOK'
  BY <1>1, <1>3 DEF DealOK, NoSight
<1> QED
  BY <1>1, <1>2, <1>3, <1>4 DEF ReadOK

LEMMA TradeWithInv ==
  ASSUME TraderInv, NEW co \in Players \cup {None}, NEW c2 \in Players,
         TradeWith(co, c2), UNCHANGED held
  PROVE  ReadOK'
<1>1. dat \in [state: 0..2, ID: [Sides -> Players \cup {None}], ok: [Sides -> BOOLEAN]]
      /\ dat.state = 0
  BY DEF TradeWith, TraderInv, TypeOK
<1>2. dat' = [dat EXCEPT !.state = 1, !.ID = [k \in Sides |-> IF k = 1 THEN co ELSE c2]]
  BY DEF TradeWith
<1>3. dat'.state = 1 /\ dat'.ok = dat.ok
      /\ dat' \in [state: 0..2, ID: [Sides -> Players \cup {None}], ok: [Sides -> BOOLEAN]]
  <2> DEFINE id == [k \in Sides |-> IF k = 1 THEN co ELSE c2]
  <2>1. id \in [Sides -> Players \cup {None}] /\ 1 \in 0..2 /\ dat \in DatType
        /\ dat.ok \in [Sides -> BOOLEAN]
    BY <1>1 DEF DatType
  <2>2. dat' = [dat EXCEPT !.state = 1, !.ID = id]
    BY <1>2
  <2> HIDE DEF id
  <2>3. dat' \in DatType
    BY <2>1, <2>2, DatUpdate
  <2>4. dat'.state = 1 /\ dat'.ok = dat.ok
    BY <2>2, <1>1
  <2> QED
    BY <2>3, <2>4 DEF DatType
<1>4. NothingKept' /\ AcceptedOfferStands'
  BY <1>1, <1>3 DEF NothingKept, AcceptedOfferStands, TraderInv
<1>5. DealOK' /\ GoodsOK' /\ SavedCovers'
  BY <1>3 DEF TradeWith, bags, money, DealOK, GoodsOK, SavedCovers, TraderInv, TypeOK
<1> QED
  BY <1>4, <1>5 DEF ReadOK

\* A side that accepts has seen what is on offer then.
LEMMA AcceptTradeInv ==
  ASSUME TraderInv, NEW co \in Players \cup {None}, AcceptTrade(co), UNCHANGED held
  PROVE  ReadOK'
<1> DEFINE ok == [k \in Sides |-> dat.ok[k] \/ k \in SidesOf(co)]
<1>1. CASE ok[1] /\ ok[2]
  <2>1. ReturnItems(TRUE)
    BY <1>1 DEF AcceptTrade
  <2> QED
    BY <2>1, ReturnItemsInv
<1>2. CASE ~(ok[1] /\ ok[2])
  <2>1. /\ dat' = [dat EXCEPT !.state = 2, !.ok = ok]
        /\ seen' = [k \in Sides |-> IF k \in SidesOf(co) /\ ~dat.ok[k]
                                    THEN Offer(Other(k)) ELSE seen[k]]
        /\ UNCHANGED <<bags, money, itm, token, late>>
    BY <1>2 DEF AcceptTrade
  <2>2. DealOK
    BY DEF TraderInv, TypeOK, DealOK
  <2>3. \A k \in Sides : Offer(Other(k)) \in [items: SUBSET Items, tokens: Nat]
    BY <2>2, OtherSide DEF Offer, DealOK
  <2>4. seen' \in [Sides -> [items: SUBSET Items, tokens: Nat]]
    BY <2>1, <2>2, <2>3 DEF DealOK
  <2>5. ok \in [Sides -> BOOLEAN]
    BY <2>2 DEF DealOK
  <2>6. dat' \in [state: 0..2, ID: [Sides -> Players \cup {None}], ok: [Sides -> BOOLEAN]]
        /\ dat'.state = 2 /\ dat'.ok = ok
    <3>1. dat \in DatType /\ 2 \in 0..2 /\ dat.ID \in [Sides -> Players \cup {None}]
      BY <2>2 DEF DealOK, DatType
    <3> HIDE DEF ok
    <3> QED
      BY <2>1, <2>5, <3>1, DatUpdate DEF DatType
  <2>7. DealOK'
    BY <2>1, <2>2, <2>4, <2>6 DEF DealOK
  <2>8. NothingKept'
    BY <2>6 DEF NothingKept
  <2>9. AcceptedOfferStands'
    <3> SUFFICES ASSUME NEW k \in Sides, ok[k]
                 PROVE  /\ seen'[k].items \subseteq itm[Other(k)]
                        /\ seen'[k].tokens <= token[Other(k)]
      BY <2>1, <2>6 DEF AcceptedOfferStands
    <3>1. CASE k \in SidesOf(co) /\ ~dat.ok[k]
      <4>1. seen'[k] = [items |-> itm[Other(k)], tokens |-> token[Other(k)]]
        BY <2>1, <3>1 DEF Offer
      <4>2. token[Other(k)] \in Nat
        BY <2>2, OtherSide DEF DealOK
      <4> QED
        BY <4>1, <4>2
    <3>2. CASE ~(k \in SidesOf(co) /\ ~dat.ok[k])
      <4>1. seen'[k] = seen[k] /\ dat.ok[k]
        BY <2>1, <3>2
      <4> QED
        BY <4>1 DEF TraderInv, AcceptedOfferStands
    <3> QED
      BY <3>1, <3>2
  <2>10. GoodsOK' /\ SavedCovers'
    BY <2>1 DEF bags, money, GoodsOK, SavedCovers, TraderInv, TypeOK
  <2> QED
    BY <2>7, <2>8, <2>9, <2>10 DEF ReadOK
<1> QED
  BY <1>1, <1>2

\* A token more on the table, one less in the purse.
LEMMA GiveTokenInv ==
  ASSUME TraderInv, NEW co \in Players \cup {None}, GiveToken(co), UNCHANGED held
  PROVE  ReadOK'
<1> DEFINE k == IF dat.ID[1] = co THEN 1 ELSE 2
<1>1. DealOK /\ GoodsOK
  BY DEF TraderInv, TypeOK, DealOK, GoodsOK
<1>2. co \in Players /\ tokens[co] \in Nat /\ tokens[co] > 0 /\ k \in Sides
  BY <1>1 DEF GiveToken, GoodsOK, Sides
<1>3. tokens' = [tokens EXCEPT ![co] = @ - 1] /\ token' = [token EXCEPT ![k] = @ + 1]
      /\ UNCHANGED <<bags, loaded, saved, dat, itm, late, seen>> /\ dat.state # 0
  BY DEF GiveToken
<1> HIDE DEF k
<1>4. tokens' \in [Players -> Nat] /\ \A p \in Players : tokens'[p] <= tokens[p]
  BY <1>1, <1>2, <1>3 DEF GoodsOK
<1>5. token' \in [Sides -> Nat] /\ \A j \in Sides : token'[j] >= token[j]
  BY <1>1, <1>2, <1>3 DEF DealOK
<1>6. DealOK' /\ GoodsOK'
  BY <1>1, <1>3, <1>4, <1>5 DEF DealOK, GoodsOK, bags
<1>7. SavedCovers'
  <2> SUFFICES ASSUME NEW p \in Players
               PROVE  saved'[p] >= tokens'[p]
    BY DEF SavedCovers
  <2>1. saved[p] >= tokens[p] /\ saved[p] \in Nat /\ tokens[p] \in Nat /\ tokens'[p] \in Nat
    BY <1>1, <1>4 DEF TraderInv, SavedCovers, GoodsOK
  <2> QED
    BY <2>1, <1>3, <1>4
<1>8. NothingKept'
  BY <1>3 DEF NothingKept
<1>9. AcceptedOfferStands'
  <2> SUFFICES ASSUME NEW j \in Sides, dat.ok[j]
               PROVE  /\ seen[j].items \subseteq itm[Other(j)]
                      /\ seen[j].tokens <= token'[Other(j)]
    BY <1>3 DEF AcceptedOfferStands
  <2>1. /\ seen[j].items \subseteq itm[Other(j)]
        /\ seen[j].tokens <= token[Other(j)] /\ seen[j].tokens \in Nat
    BY <1>1 DEF TraderInv, AcceptedOfferStands, DealOK
  <2>2. token[Other(j)] \in Nat /\ token'[Other(j)] \in Nat
        /\ token'[Other(j)] >= token[Other(j)]
    BY <1>1, <1>5, OtherSide DEF DealOK
  <2> QED
    BY <2>1, <2>2
<1> QED
  BY <1>6, <1>7, <1>8, <1>9 DEF ReadOK

LEMMA TakenInv ==
  ASSUME TraderInv, NEW msg, Taken(msg)
  PROVE  ReadOK'
<1> DEFINE k == IF dat.ID[1] = Speaker(msg) THEN 1 ELSE 2
<1>1. DealOK /\ GoodsOK /\ k \in Sides
  BY DEF TraderInv, TypeOK, DealOK, GoodsOK, Sides
<1>2. itm' = [itm EXCEPT ![k] = @ \cup {held}] /\ held' = None /\ held # None
      /\ UNCHANGED <<bags, money, dat, token, late, seen>> /\ dat.state = 1
  BY DEF Taken
<1> HIDE DEF k
<1>3. itm' \in [Sides -> SUBSET Items] /\ \A j \in Sides : itm[j] \subseteq itm'[j]
  BY <1>1, <1>2 DEF DealOK, GoodsOK
<1>4. DealOK' /\ GoodsOK' /\ SavedCovers'
  BY <1>1, <1>2, <1>3 DEF DealOK, GoodsOK, bags, money, TraderInv, SavedCovers
<1>5. NothingKept'
  BY <1>2 DEF NothingKept
<1>6. AcceptedOfferStands'
  <2> SUFFICES ASSUME NEW j \in Sides, dat.ok[j]
               PROVE  /\ seen[j].items \subseteq itm'[Other(j)]
                      /\ seen[j].tokens <= token[Other(j)]
    BY <1>2 DEF AcceptedOfferStands
  <2> QED
    BY <1>3, OtherSide DEF TraderInv, AcceptedOfferStands
<1> QED
  BY <1>4, <1>5, <1>6 DEF ReadOK

LEMMA GivenBackInv ==
  ASSUME TraderInv, NEW msg, GivenBack(msg)
  PROVE  ReadOK'
<1>1. DealOK /\ GoodsOK
  BY DEF TraderInv, TypeOK, DealOK, GoodsOK
<1>2. PICK b \in Handed(Bags, Speaker(msg), {held}, ch[msg.co].used) :
        citem' = b.citem /\ pack' = b.pack /\ lost' = b.lost
  BY DEF GivenBack
<1>3. Bags \in BagType /\ {held} \in SUBSET Items
  BY <1>1 DEF GoodsOK, Bags, BagType, GivenBack
<1>4. b \in BagType
  BY <1>3, HandedType
<1>5. held' = None /\ UNCHANGED <<money, deal>>
  BY DEF GivenBack
<1>6. GoodsOK' /\ DealOK'
  BY <1>1, <1>2, <1>4, <1>5 DEF GoodsOK, DealOK, BagType, money, deal
<1>7. NothingKept' /\ AcceptedOfferStands' /\ SavedCovers'
  BY <1>5 DEF TraderInv, NothingKept, AcceptedOfferStands, SavedCovers, money, deal
<1> QED
  BY <1>6, <1>7 DEF ReadOK

\* Nothing of the trade or the goods changes.
LEMMA IdleInv ==
  ASSUME TraderInv, UNCHANGED <<bags, money, held, deal>>
  PROVE  ReadOK'
BY DEF TraderInv, TypeOK, ReadOK, DealOK, GoodsOK, NothingKept, AcceptedOfferStands,
       SavedCovers, bags, money, deal

\* One message.
LEMMA ReadInv == ASSUME TraderInv, Read PROVE TraderInv'
<1> DEFINE msg == Head(mail)
<1>1. mail \in Seq(Message) /\ todo \in Asleep..Len(mail) /\ ch \in [Slots -> [ID: Players \cup {None}, used: BOOLEAN]]
      /\ floor \subseteq Items
  BY DEF TraderInv, TypeOK
<1>2. todo > 0
  BY DEF Read
<1>3. Len(mail) \in Nat /\ Len(mail) > 0 /\ mail # <<>>
  BY <1>1, <1>2 DEF Asleep
<1>4. msg \in Message /\ Tail(mail) \in Seq(Message)
  BY <1>1, <1>3
<1>5. Speaker(msg) \in Players \cup {None}
  BY <1>1, <1>4 DEF Speaker, Message
<1>6. ReadOK'
  <2>1. CASE Heard(msg)
    <3>1. UNCHANGED held
      BY <2>1 DEF Heard
    <3>2. CASE msg.text \in Players /\ TradeWith(Speaker(msg), msg.text)
      BY <3>1, <3>2, <1>5, TradeWithInv
    <3>3. CASE StopTrade(Speaker(msg))
      BY <3>1, <3>3, ReturnItemsInv DEF StopTrade
    <3>4. CASE AcceptTrade(Speaker(msg))
      BY <3>1, <3>4, <1>5, AcceptTradeInv
    <3>5. CASE GiveToken(Speaker(msg))
      BY <3>1, <3>5, <1>5, GiveTokenInv
    <3> QED
      BY <2>1, <3>2, <3>3, <3>4, <3>5 DEF Heard
  <2>2. CASE Taken(msg)
    BY <2>2, TakenInv
  <2>3. CASE GivenBack(msg)
    BY <2>3, GivenBackInv
  <2>4. CASE Refused(msg)
    BY <2>4, IdleInv DEF Refused
  <2> QED
    BY <2>1, <2>2, <2>3, <2>4 DEF Read
<1>7. mail' = Tail(mail) /\ todo' = todo - 1 /\ UNCHANGED <<ch, floor>>
  BY DEF Read
<1>8. Len(Tail(mail)) = Len(mail) - 1
  BY <1>1, <1>3
<1>9. todo' \in Asleep..Len(mail')
  BY <1>1, <1>2, <1>7, <1>8 DEF Asleep
<1> QED
  BY <1>1, <1>4, <1>6, <1>7, <1>9 DEF TraderInv, TypeOK, ReadOK, DealOK, GoodsOK

(***************************************************************************)
(* The other steps.                                                        *)
(***************************************************************************)

\* Wherever a player in the game is, it is a slot.
LEMMA SlotOfType == ASSUME NEW p \in Players, InGame(p) PROVE SlotOf(p) \in Slots
BY DEF InGame, SlotOf

\* A message more.
LEMMA MailType ==
  ASSUME TypeOK, NEW m \in Message, mail' = Append(mail, m), todo' = todo
  PROVE  mail' \in Seq(Message) /\ todo' \in Asleep..Len(mail')
<1>1. mail \in Seq(Message) /\ todo \in Asleep..Len(mail)
  BY DEF TypeOK
<1>2. mail' \in Seq(Message) /\ Len(mail') = Len(mail) + 1
  BY <1>1
<1> QED
  BY <1>1, <1>2 DEF Asleep

\* A step that leaves the trade and the money alone keeps what is said of them.
LEMMA DealKept ==
  ASSUME TraderInv, UNCHANGED deal, TypeOK', SavedCovers'
  PROVE  TraderInv'
BY DEF TraderInv, NothingKept, AcceptedOfferStands, deal

LEMMA OthersInv == ASSUME TraderInv, todo = Asleep, Others PROVE TraderInv'
<1>1. ASSUME NEW p \in Players, NEW s \in Slots, Login(p, s) PROVE TraderInv'
  <2>1. ch' \in [Slots -> [ID: Players \cup {None}, used: BOOLEAN]]
    BY <1>1 DEF Login, TraderInv, TypeOK
  <2>2. TypeOK' /\ SavedCovers'
    BY <1>1, <2>1 DEF Login, TraderInv, TypeOK, SavedCovers, bags, deal
  <2> QED
    BY <1>1, <2>2, DealKept DEF Login
<1>2. ASSUME NEW p \in Players, Logout(p) PROVE TraderInv'
  <2>1. ch' \in [Slots -> [ID: Players \cup {None}, used: BOOLEAN]]
    BY <1>2, SlotOfType DEF Logout, TraderInv, TypeOK
  <2>2. TypeOK' /\ SavedCovers'
    BY <1>2, <2>1 DEF Logout, TraderInv, TypeOK, SavedCovers, bags, deal
  <2> QED
    BY <1>2, <2>2, DealKept DEF Logout
<1>3. ASSUME NEW p \in Players, LoadDepot(p) PROVE TraderInv'
  <2>1. TypeOK' /\ SavedCovers'
    BY <1>3 DEF LoadDepot, TraderInv, TypeOK, SavedCovers, bags, deal
  <2> QED
    BY <1>3, <2>1, DealKept DEF LoadDepot
<1>4. ASSUME NEW p \in Players, NEW in \in Items, PickUp(p, in) PROVE TraderInv'
  <2>1. TypeOK' /\ SavedCovers'
    BY <1>4 DEF PickUp, TraderInv, TypeOK, SavedCovers, money, deal
  <2> QED
    BY <1>4, <2>1, DealKept DEF PickUp
<1>5. ASSUME NEW p \in Players, PutDown(p) PROVE TraderInv'
  <2>1. TypeOK' /\ SavedCovers'
    BY <1>5 DEF PutDown, TraderInv, TypeOK, SavedCovers, money, deal
  <2> QED
    BY <1>5, <2>1, DealKept DEF PutDown
<1>6. ASSUME NEW p \in Players, NEW in \in Items \cup {None}, Swap(p, in) PROVE TraderInv'
  <2> DEFINE rest == (pack[p] \ {in}) \cup ({citem[p]} \ {None})
  <2>1. rest \subseteq Items
    BY DEF TraderInv, TypeOK
  <2>2. pack' = [pack EXCEPT ![p] = rest]
    BY <1>6 DEF Swap
  <2> HIDE DEF rest
  <2>3. pack' \in [Players -> SUBSET Items]
    BY <2>1, <2>2 DEF TraderInv, TypeOK
  <2>4. TypeOK' /\ SavedCovers'
    BY <1>6, <2>3 DEF Swap, TraderInv, TypeOK, SavedCovers, money, deal
  <2> QED
    BY <1>6, <2>4, DealKept DEF Swap
<1>7. ASSUME NEW p \in Players, NEW text \in Text \cup Players, Say(p, text) PROVE TraderInv'
  <2>1. [type |-> "text", co |-> SlotOf(p), by |-> p, text |-> text] \in Message
    BY <1>7, SlotOfType DEF Say, Message
  <2>2. mail' \in Seq(Message) /\ todo' \in Asleep..Len(mail')
    BY <1>7, <2>1, MailType DEF Say, TraderInv
  <2>3. TypeOK' /\ SavedCovers'
    BY <1>7, <2>2 DEF Say, TraderInv, TypeOK, SavedCovers, bags, money, deal
  <2> QED
    BY <1>7, <2>3, DealKept DEF Say
<1>8. ASSUME NEW p \in Players, Give(p) PROVE TraderInv'
  <2>1. [type |-> "give", co |-> SlotOf(p), by |-> p] \in Message
    BY <1>8, SlotOfType DEF Give, Message
  <2>2. mail' \in Seq(Message) /\ todo' \in Asleep..Len(mail')
    BY <1>8, <2>1, MailType DEF Give, TraderInv
  <2>3. TypeOK' /\ SavedCovers'
    BY <1>8, <2>2 DEF Give, TraderInv, TypeOK, SavedCovers, money, deal
  <2> QED
    BY <1>8, <2>3, DealKept DEF Give
<1>9. ASSUME Tick PROVE TraderInv'
  BY <1>9 DEF Tick, TraderInv, TypeOK, SavedCovers, NothingKept, AcceptedOfferStands, bags, money
<1> QED
  BY <1>1, <1>2, <1>3, <1>4, <1>5, <1>6, <1>7, <1>8, <1>9 DEF Others

LEMMA RestInv == ASSUME TraderInv, Rest PROVE TraderInv'
<1>1. ReadOK'
  <2>1. CASE dat.state # 0 /\ late
    BY <2>1, ReturnItemsInv DEF Rest
  <2>2. CASE ~(dat.state # 0 /\ late)
    BY <2>2, IdleInv DEF Rest
  <2> QED
    BY <2>1, <2>2
<1>2. todo' = Asleep /\ UNCHANGED <<ch, floor, held, mail>>
  BY DEF Rest
<1>3. Len(mail) \in Nat
  BY DEF TraderInv, TypeOK
<1> QED
  BY <1>1, <1>2, <1>3 DEF ReadOK, DealOK, GoodsOK, TraderInv, TypeOK, Asleep

LEMMA WakeInv == ASSUME TraderInv, Wake PROVE TraderInv'
<1>1. Len(mail) \in Nat
  BY DEF TraderInv, TypeOK
<1>2. TypeOK'
  BY <1>1 DEF Wake, TraderInv, TypeOK, Asleep, bags, money, deal
<1>3. SavedCovers'
  BY DEF Wake, TraderInv, SavedCovers, money
<1> QED
  BY <1>2, <1>3, DealKept DEF Wake

LEMMA NextInv == TraderInv /\ [Next]_vars => TraderInv'
<1> SUFFICES ASSUME TraderInv, [Next]_vars PROVE TraderInv'
  OBVIOUS
<1>1. CASE todo = Asleep /\ Others
  BY <1>1, OthersInv
<1>2. CASE Wake
  BY <1>2, WakeInv
<1>3. CASE Read
  BY <1>3, ReadInv
<1>4. CASE Rest
  BY <1>4, RestInv
<1>5. CASE UNCHANGED vars
  BY <1>5 DEF vars, bags, money, deal, TraderInv, TypeOK, NothingKept, AcceptedOfferStands,
              SavedCovers
<1> QED
  BY <1>1, <1>2, <1>3, <1>4, <1>5 DEF Next, Driver

(***************************************************************************)
(* The theorems.                                                           *)
(***************************************************************************)

\* The trader's data, the players' goods and the mail have their types in every
\* state (struct trader_data and the inventories, base.c).
THEOREM TraderTypeCorrect == Spec => []TypeOK
<1>1. TraderInv => TypeOK
  BY DEF TraderInv
<1> QED
  BY <1>1, InitInv, NextInv, PTL DEF Spec

\* A side that has agreed is never shown less than what it agreed to: no message
\* of the other side, and no coming and going, takes an offer back while the
\* agreement stands (trader_driver).
THEOREM AgreementKept == Spec => []AcceptedOfferStands
<1>1. TraderInv => AcceptedOfferStands
  BY DEF TraderInv
<1> QED
  BY <1>1, InitInv, NextInv, PTL DEF Spec

\* When no trade is on, no item or token is left with the trader and nobody's
\* agreement is remembered, so that the next trade begins with nothing
\* (return_items and the assignments after each of its calls).
THEOREM TableCleared == Spec => []NothingKept
<1>1. TraderInv => NothingKept
  BY DEF TraderInv
<1> QED
  BY <1>1, InitInv, NextInv, PTL DEF Spec

\* No player has more tokens in memory than the database knows of, so none is
\* lost in a crash (save_char in return_items).
THEOREM TokensSaved == Spec => []SavedCovers
<1>1. TraderInv => SavedCovers
  BY DEF TraderInv
<1> QED
  BY <1>1, InitInv, NextInv, PTL DEF Spec

(***************************************************************************)
(* Where the items are.                                                    *)
(***************************************************************************)

\* The places an item can be at: the cursor and the backpack of a player, the
\* offer of a side, and the others, which are nobody's.
Places ==
  ({"cursor", "pack"} \X Players) \cup ({"offer"} \X Sides)
    \cup ({"lost", "floor", "held"} \X {None})

\* As far as bags b go, item in is at place k of w and nowhere else.
BagsAt(b, in, k, w) ==
  /\ \A p \in Players : /\ b.citem[p] = in <=> k = "cursor" /\ w = p
                        /\ in \in b.pack[p] <=> k = "pack" /\ w = p
  /\ in \in b.lost <=> k = "lost"

\* The same with what lies on floor f, the trader's hand h, and the offers o.
OnlyAt(b, f, h, o, in, k, w) ==
  /\ BagsAt(b, in, k, w)
  /\ \A j \in Sides : in \in o[j] <=> k = "offer" /\ w = j
  /\ in \in f <=> k = "floor"
  /\ in = h <=> k = "held"

OneSpot(b, f, h, o) ==
  \A in \in Items : \E x \in Places : OnlyAt(b, f, h, o, in, x[1], x[2])

\* Who is in a slot, or a party to a trade, is a player.
PartyInv ==
  /\ \A s \in Slots : ch[s].used => ch[s].ID \in Players
  /\ dat.state # 0 => \A k \in Sides : dat.ID[k] \in Players

\* The inductive invariant behind OnePlace and NobodyIsCheated.
GoodsInv == TraderInv /\ PartyInv /\ OneSpot(Bags, floor, held, itm)

\* What the places are.
LEMMA PlacesAre ==
  /\ \A x \in Places :
       \/ x[1] \in {"cursor", "pack"} /\ x[2] \in Players
       \/ x[1] = "offer" /\ x[2] \in Sides
       \/ x[1] \in {"lost", "floor", "held"}
  /\ \A p \in Players : <<"cursor", p>> \in Places /\ <<"pack", p>> \in Places
  /\ \A j \in Sides : <<"offer", j>> \in Places
  /\ \A k \in {"lost", "floor", "held"} : <<k, None>> \in Places
BY DEF Places

\* An item at one spot is counted once.
LEMMA SpotsArePlaces ==
  ASSUME OneSpot(Bags, floor, held, itm)
  PROVE  OnePlace
<1> SUFFICES ASSUME NEW in \in Items
             PROVE  LET holders == {p \in Players : Has(p, in)}
                        offers  == {k \in Sides : in \in itm[k]}
                        here(b) == IF b THEN 1 ELSE 0
                    IN  /\ \A p \in Players : ~(citem[p] = in /\ in \in pack[p])
                        /\ Cardinality(holders) + Cardinality(offers)
                             + here(in \in floor) + here(in \in lost)
                             + here(held = in) = 1
  BY DEF OnePlace
<1> DEFINE holders == {p \in Players : Has(p, in)}
           offers  == {k \in Sides : in \in itm[k]}
           here(b) == IF b THEN 1 ELSE 0
<1>1. PICK x \in Places : OnlyAt(Bags, floor, held, itm, in, x[1], x[2])
  BY DEF OneSpot
<1>2. PICK k0, w0 : k0 = x[1] /\ w0 = x[2]
  OBVIOUS
<1>3. /\ \A p \in Players : /\ citem[p] = in <=> k0 = "cursor" /\ w0 = p
                            /\ in \in pack[p] <=> k0 = "pack" /\ w0 = p
      /\ \A k \in Sides : in \in itm[k] <=> k0 = "offer" /\ w0 = k
      /\ in \in floor <=> k0 = "floor"
      /\ in \in lost <=> k0 = "lost"
      /\ held = in <=> k0 = "held"
  BY <1>1, <1>2 DEF OnlyAt, BagsAt, Bags
<1>4. Cardinality({}) = 0 /\ Cardinality({w0}) = 1
  BY FS_EmptySet, FS_Singleton
<1>5. \A p \in Players : ~(citem[p] = in /\ in \in pack[p])
  BY <1>3
<1>6. Cardinality(holders) + Cardinality(offers) + here(in \in floor)
        + here(in \in lost) + here(held = in) = 1
  <2>1. CASE k0 \in {"cursor", "pack"} /\ w0 \in Players
    <3>1. holders = {w0} /\ offers = {}
      BY <1>3, <2>1 DEF Has
    <3> HIDE DEF holders, offers
    <3> QED
      BY <1>3, <1>4, <2>1, <3>1
  <2>2. CASE k0 = "offer" /\ w0 \in Sides
    <3>1. holders = {} /\ offers = {w0}
      BY <1>3, <2>2 DEF Has
    <3> HIDE DEF holders, offers
    <3> QED
      BY <1>3, <1>4, <2>2, <3>1
  <2>3. CASE k0 \in {"floor", "lost", "held"}
    <3>1. holders = {} /\ offers = {}
      BY <1>3, <2>3 DEF Has
    <3> HIDE DEF holders, offers
    <3> QED
      BY <1>3, <1>4, <2>3, <3>1
  <2> QED
    BY <1>1, <1>2, <2>1, <2>2, <2>3, PlacesAre
<1> QED
  BY <1>5, <1>6, Zenon

\* What is handed out goes to the cursor or the backpack of who gets it, or is
\* destroyed; all else in the bags stays.
LEMMA HandedPlaces ==
  ASSUME NEW b \in BagType, NEW p, NEW items \in SUBSET Items, NEW reach,
         reach => p \in Players, NEW h \in Handed(b, p, items, reach),
         \A in \in items : /\ \A q \in Players : b.citem[q] # in /\ in \notin b.pack[q]
                           /\ in \notin b.lost
  PROVE  /\ \A in \in Items \ items : \A k, w :
              BagsAt(b, in, k, w) => BagsAt(h, in, k, w)
         /\ \A in \in items :
              \/ BagsAt(h, in, "lost", None)
              \/ /\ p \in Players
                 /\ BagsAt(h, in, "cursor", p) \/ BagsAt(h, in, "pack", p)
<1>1. CASE ~reach
  <2>1. h = [b EXCEPT !.lost = @ \cup items]
    BY <1>1 DEF Handed
  <2>2. h.citem = b.citem /\ h.pack = b.pack /\ h.lost = b.lost \cup items
    BY <2>1 DEF BagType
  <2> QED
    BY <2>2 DEF BagsAt
<1>2. CASE reach
  <2>0. p \in Players /\ None \notin Items
    BY <1>2, TraderAssumption
  <2>1. PICK g \in Shares(b, p, items) :
          h = [citem |-> [b.citem EXCEPT ![p] = IF g.first = {} THEN @
                                          ELSE CHOOSE in \in g.first : TRUE],
               pack  |-> [b.pack EXCEPT ![p] = @ \cup g.stored],
               lost  |-> b.lost \cup (items \ (g.first \cup g.stored))]
    BY <1>2 DEF Handed
  <2>2. /\ g.first \subseteq items /\ g.stored \subseteq items
        /\ g.first \cap g.stored = {} /\ Cardinality(g.first) <= 1
        /\ g.first # {} => b.citem[p] = None
    BY DEF Shares
  <2>3. /\ b.citem \in [Players -> Items \cup {None}]
        /\ b.pack \in [Players -> SUBSET Items]
    BY DEF BagType
  <2>4. PICK x : /\ g.first # {} => g.first = {x}
                 /\ g.first # {} => (CHOOSE in \in g.first : TRUE) = x
    <3>1. CASE g.first = {}
      BY <3>1
    <3>2. CASE g.first # {}
      <4>1. IsFiniteSet(g.first) /\ Cardinality(g.first) \in Nat
        BY <2>2, TraderAssumption, FS_Subset, FS_CardinalityType
      <4>2. Cardinality(g.first) # 0
        BY <3>2, <4>1, FS_EmptySet
      <4>3. Cardinality(g.first) = 1
        BY <2>2, <4>1, <4>2
      <4>4. PICK y : g.first = {y}
        BY <4>1, <4>3, FS_Singleton
      <4>5. (CHOOSE in \in g.first : TRUE) \in g.first
        BY <3>2
      <4> QED
        BY <4>4, <4>5
    <3> QED
      BY <3>1, <3>2
  <2>5. /\ \A q \in Players : q # p => h.citem[q] = b.citem[q] /\ h.pack[q] = b.pack[q]
        /\ h.citem[p] = IF g.first = {} THEN b.citem[p] ELSE x
        /\ h.pack[p] = b.pack[p] \cup g.stored
        /\ h.lost = b.lost \cup (items \ (g.first \cup g.stored))
    BY <2>0, <2>1, <2>3, <2>4
  <2>6. ASSUME NEW in \in Items \ items, NEW k, NEW w, BagsAt(b, in, k, w)
        PROVE  BagsAt(h, in, k, w)
    <3>1. g.first # {} => x # in /\ b.citem[p] # in
      BY <2>0, <2>2, <2>4
    <3>2. \A q \in Players : h.citem[q] = in <=> b.citem[q] = in
      BY <2>5, <3>1
    <3>3. \A q \in Players : in \in h.pack[q] <=> in \in b.pack[q]
      BY <2>2, <2>5
    <3>4. in \in h.lost <=> in \in b.lost
      BY <2>5
    <3> QED
      BY <2>6, <3>2, <3>3, <3>4 DEF BagsAt
  <2>7. ASSUME NEW in \in items
        PROVE  \/ BagsAt(h, in, "lost", None)
               \/ BagsAt(h, in, "cursor", p) \/ BagsAt(h, in, "pack", p)
    <3>2. \A q \in Players : h.citem[q] = in <=> q = p /\ in \in g.first
      BY <2>4, <2>5
    <3>3. \A q \in Players : in \in h.pack[q] <=> q = p /\ in \in g.stored
      BY <2>5
    <3>4. in \in h.lost <=> in \notin g.first /\ in \notin g.stored
      BY <2>5
    <3> QED
      BY <2>2, <3>2, <3>3, <3>4 DEF BagsAt
  <2> QED
    BY <2>0, <2>6, <2>7
<1> QED
  BY <1>1, <1>2

\* These items leave the trader's hand or the table, and no others.
TakenOff(items, h, o, h2, o2) ==
  /\ \A in \in items : /\ in = h \/ \E j \in Sides : in \in o[j]
                       /\ in # h2 /\ \A j \in Sides : in \notin o2[j]
  /\ \A in \in Items \ items : /\ in = h2 <=> in = h
                               /\ \A j \in Sides : in \in o2[j] <=> in \in o[j]

\* They are in the bags afterwards.
LEMMA HandedSpots ==
  ASSUME NEW b \in BagType, NEW f, NEW h, NEW o, OneSpot(b, f, h, o),
         NEW p, NEW items \in SUBSET Items, NEW reach, reach => p \in Players,
         NEW b2 \in Handed(b, p, items, reach), NEW h2, NEW o2,
         TakenOff(items, h, o, h2, o2)
  PROVE  /\ OneSpot(b2, f, h2, o2)
         /\ \A in \in Items \ items : \A k, w :
              BagsAt(b, in, k, w) => BagsAt(b2, in, k, w)
         /\ \A in \in items :
              \/ BagsAt(b2, in, "lost", None)
              \/ /\ p \in Players
                 /\ BagsAt(b2, in, "cursor", p) \/ BagsAt(b2, in, "pack", p)
<1>1. ASSUME NEW in \in items
      PROVE  /\ in \notin f /\ in \notin b.lost
             /\ \A q \in Players : b.citem[q] # in /\ in \notin b.pack[q]
  <2>1. PICK x \in Places : OnlyAt(b, f, h, o, in, x[1], x[2])
    BY DEF OneSpot
  <2>2. x[1] \in {"held", "offer"}
    BY <2>1 DEF OnlyAt, TakenOff
  <2> QED
    BY <2>1, <2>2 DEF OnlyAt, BagsAt
<1>2. /\ \A in \in Items \ items : \A k, w :
           BagsAt(b, in, k, w) => BagsAt(b2, in, k, w)
      /\ \A in \in items :
           \/ BagsAt(b2, in, "lost", None)
           \/ /\ p \in Players
              /\ BagsAt(b2, in, "cursor", p) \/ BagsAt(b2, in, "pack", p)
  BY <1>1, HandedPlaces
<1>3. ASSUME NEW in \in items
      PROVE  \E x \in Places : OnlyAt(b2, f, h2, o2, in, x[1], x[2])
  <2>1. ASSUME NEW k \in {"lost", "cursor", "pack"}, NEW w, <<k, w>> \in Places,
               BagsAt(b2, in, k, w)
        PROVE  \E x \in Places : OnlyAt(b2, f, h2, o2, in, x[1], x[2])
    <3>1. OnlyAt(b2, f, h2, o2, in, k, w)
      BY <1>1, <2>1 DEF OnlyAt, TakenOff
    <3>2. PICK x \in Places : x = <<k, w>> /\ x[1] = k /\ x[2] = w
      BY <2>1
    <3> QED
      BY <3>1, <3>2
  <2> QED
    BY <1>2, <2>1, PlacesAre
<1>4. ASSUME NEW in \in Items \ items
      PROVE  \E x \in Places : OnlyAt(b2, f, h2, o2, in, x[1], x[2])
  <2>1. PICK x \in Places : OnlyAt(b, f, h, o, in, x[1], x[2])
    BY DEF OneSpot
  <2>2. OnlyAt(b2, f, h2, o2, in, x[1], x[2])
    BY <1>2, <2>1 DEF OnlyAt, TakenOff
  <2> QED
    BY <2>2
<1> QED
  BY <1>2, <1>3, <1>4 DEF OneSpot

\* Item i is where it was.
Stays(b, f, h, o, b2, f2, h2, o2, i) ==
  /\ \A q \in Players : /\ b2.citem[q] = i <=> b.citem[q] = i
                        /\ i \in b2.pack[q] <=> i \in b.pack[q]
  /\ i \in b2.lost <=> i \in b.lost
  /\ \A j \in Sides : i \in o2[j] <=> i \in o[j]
  /\ i \in f2 <=> i \in f
  /\ i = h2 <=> i = h

LEMMA Relocated ==
  ASSUME NEW b, NEW f, NEW h, NEW o, OneSpot(b, f, h, o),
         NEW b2, NEW f2, NEW h2, NEW o2,
         \A i \in Items :
           \/ Stays(b, f, h, o, b2, f2, h2, o2, i)
           \/ \E k, w : <<k, w>> \in Places /\ OnlyAt(b2, f2, h2, o2, i, k, w)
  PROVE  OneSpot(b2, f2, h2, o2)
<1> SUFFICES ASSUME NEW i \in Items
             PROVE  \E x \in Places : OnlyAt(b2, f2, h2, o2, i, x[1], x[2])
  BY DEF OneSpot
<1>1. CASE Stays(b, f, h, o, b2, f2, h2, o2, i)
  <2>1. PICK x \in Places : OnlyAt(b, f, h, o, i, x[1], x[2])
    BY DEF OneSpot
  <2>2. OnlyAt(b2, f2, h2, o2, i, x[1], x[2])
    BY <1>1, <2>1 DEF Stays, OnlyAt, BagsAt
  <2> QED
    BY <2>2
<1>2. ASSUME NEW k, NEW w, <<k, w>> \in Places, OnlyAt(b2, f2, h2, o2, i, k, w)
      PROVE  \E x \in Places : OnlyAt(b2, f2, h2, o2, i, x[1], x[2])
  <2>1. PICK x \in Places : x = <<k, w>> /\ x[1] = k /\ x[2] = w
    BY <1>2
  <2> QED
    BY <1>2, <2>1
<1> QED
  BY <1>1, <1>2

\* Where the items are, by the variables.
LEMMA BagFacts ==
  /\ Bags.citem = citem /\ Bags.pack = pack /\ Bags.lost = lost
  /\ Bags'.citem = citem' /\ Bags'.pack = pack' /\ Bags'.lost = lost'
BY DEF Bags

\* Nothing is moved.
LEMMA NothingMoved ==
  ASSUME OneSpot(Bags, floor, held, itm), UNCHANGED <<bags, floor, held, itm>>
  PROVE  OneSpot(Bags', floor', held', itm')
<1>1. \A i \in Items :
        Stays(Bags, floor, held, itm, Bags', floor', held', itm', i)
  BY BagFacts DEF bags, Stays
<1> QED
  BY <1>1, Relocated

\* From the floor to a cursor, and back.
LEMMA PickUpSpots ==
  ASSUME TypeOK, OneSpot(Bags, floor, held, itm),
         NEW p \in Players, NEW in \in Items, PickUp(p, in)
  PROVE  OneSpot(Bags', floor', held', itm')
<1>1. /\ \A q \in Players : citem'[q] = IF q = p THEN in ELSE citem[q]
      /\ citem[p] = None /\ in \in floor /\ floor' = floor \ {in}
      /\ pack' = pack /\ lost' = lost /\ held' = held /\ itm' = itm
      /\ None \notin Items
  BY TraderAssumption DEF PickUp, TypeOK, deal
<1>2. ASSUME NEW i \in Items, i # in
      PROVE  Stays(Bags, floor, held, itm, Bags', floor', held', itm', i)
  BY <1>1, <1>2, BagFacts DEF Stays
<1>3. OnlyAt(Bags', floor', held', itm', in, "cursor", p)
  <2>1. PICK x \in Places : OnlyAt(Bags, floor, held, itm, in, x[1], x[2])
    BY DEF OneSpot
  <2>2. x[1] = "floor"
    BY <1>1, <2>1 DEF OnlyAt
  <2> QED
    BY <1>1, <2>1, <2>2, BagFacts DEF OnlyAt, BagsAt
<1> QED
  BY <1>2, <1>3, Relocated, PlacesAre

LEMMA PutDownSpots ==
  ASSUME TypeOK, OneSpot(Bags, floor, held, itm), NEW p \in Players, PutDown(p)
  PROVE  OneSpot(Bags', floor', held', itm')
<1>1. /\ \A q \in Players : citem'[q] = IF q = p THEN None ELSE citem[q]
      /\ citem[p] \in Items /\ floor' = floor \cup {citem[p]}
      /\ pack' = pack /\ lost' = lost /\ held' = held /\ itm' = itm
      /\ None \notin Items
  BY TraderAssumption DEF PutDown, TypeOK, deal
<1>2. ASSUME NEW i \in Items, i # citem[p]
      PROVE  Stays(Bags, floor, held, itm, Bags', floor', held', itm', i)
  BY <1>1, <1>2, BagFacts DEF Stays
<1>3. OnlyAt(Bags', floor', held', itm', citem[p], "floor", None)
  <2>1. PICK x \in Places : OnlyAt(Bags, floor, held, itm, citem[p], x[1], x[2])
    BY <1>1 DEF OneSpot
  <2>2. x[1] = "cursor" /\ x[2] = p
    BY <2>1, BagFacts DEF OnlyAt, BagsAt
  <2> QED
    BY <1>1, <2>1, <2>2, BagFacts DEF OnlyAt, BagsAt
<1> QED
  BY <1>2, <1>3, Relocated, PlacesAre

\* The cursor and a place of the backpack change places.
LEMMA SwapSpots ==
  ASSUME TypeOK, OneSpot(Bags, floor, held, itm), NEW p \in Players,
         NEW in \in Items \cup {None}, Swap(p, in)
  PROVE  OneSpot(Bags', floor', held', itm')
<1> DEFINE old == citem[p]
<1>1. /\ \A q \in Players : citem'[q] = IF q = p THEN in ELSE citem[q]
      /\ \A q \in Players : pack'[q] = IF q = p
                                         THEN (pack[p] \ {in}) \cup ({old} \ {None})
                                         ELSE pack[q]
      /\ in \in pack[p] \cup {None} /\ in # old
      /\ floor' = floor /\ lost' = lost /\ held' = held /\ itm' = itm
      /\ None \notin Items
  BY TraderAssumption DEF Swap, TypeOK, deal
<1> HIDE DEF old
<1>2. ASSUME NEW i \in Items, i # in, i # old
      PROVE  Stays(Bags, floor, held, itm, Bags', floor', held', itm', i)
  BY <1>1, <1>2, BagFacts DEF Stays, old
<1>3. ASSUME in \in Items
      PROVE  OnlyAt(Bags', floor', held', itm', in, "cursor", p)
  <2>1. PICK x \in Places : OnlyAt(Bags, floor, held, itm, in, x[1], x[2])
    BY <1>3 DEF OneSpot
  <2>2. x[1] = "pack" /\ x[2] = p
    BY <1>1, <1>3, <2>1, BagFacts DEF OnlyAt, BagsAt
  <2> QED
    BY <1>1, <2>1, <2>2, BagFacts DEF OnlyAt, BagsAt
<1>4. ASSUME old \in Items
      PROVE  OnlyAt(Bags', floor', held', itm', old, "pack", p)
  <2>1. PICK x \in Places : OnlyAt(Bags, floor, held, itm, old, x[1], x[2])
    BY <1>4 DEF OneSpot
  <2>2. x[1] = "cursor" /\ x[2] = p
    BY <2>1, BagFacts DEF OnlyAt, BagsAt, old
  <2> QED
    BY <1>1, <1>4, <2>1, <2>2, BagFacts DEF OnlyAt, BagsAt
<1> QED
  BY <1>2, <1>3, <1>4, Relocated, PlacesAre

\* From a cursor to the trader's.
LEMMA GiveSpots ==
  ASSUME TypeOK, OneSpot(Bags, floor, held, itm), NEW p \in Players, Give(p)
  PROVE  OneSpot(Bags', floor', held', itm')
<1>1. /\ \A q \in Players : citem'[q] = IF q = p THEN None ELSE citem[q]
      /\ citem[p] \in Items /\ held = None /\ held' = citem[p]
      /\ pack' = pack /\ lost' = lost /\ floor' = floor /\ itm' = itm
      /\ None \notin Items
  BY TraderAssumption DEF Give, TypeOK, deal
<1>2. ASSUME NEW i \in Items, i # citem[p]
      PROVE  Stays(Bags, floor, held, itm, Bags', floor', held', itm', i)
  BY <1>1, <1>2, BagFacts DEF Stays
<1>3. OnlyAt(Bags', floor', held', itm', citem[p], "held", None)
  <2>1. PICK x \in Places : OnlyAt(Bags, floor, held, itm, citem[p], x[1], x[2])
    BY <1>1 DEF OneSpot
  <2>2. x[1] = "cursor" /\ x[2] = p
    BY <2>1, BagFacts DEF OnlyAt, BagsAt
  <2> QED
    BY <1>1, <2>1, <2>2, BagFacts DEF OnlyAt, BagsAt
<1> QED
  BY <1>2, <1>3, Relocated, PlacesAre

\* From there to the table.
LEMMA TakenSpots ==
  ASSUME TypeOK, OneSpot(Bags, floor, held, itm), NEW msg, Taken(msg),
         UNCHANGED floor
  PROVE  OneSpot(Bags', floor', held', itm')
<1> DEFINE k == IF dat.ID[1] = Speaker(msg) THEN 1 ELSE 2
<1>1. /\ k \in Sides /\ held \in Items /\ held' = None /\ None \notin Items
      /\ \A j \in Sides : itm'[j] = IF j = k THEN itm[k] \cup {held} ELSE itm[j]
      /\ UNCHANGED <<citem, pack, lost>>
  BY TraderAssumption DEF Taken, TypeOK, Sides, bags
<1> HIDE DEF k
<1>2. ASSUME NEW i \in Items, i # held
      PROVE  Stays(Bags, floor, held, itm, Bags', floor', held', itm', i)
  BY <1>1, <1>2, BagFacts DEF Stays
<1>3. OnlyAt(Bags', floor', held', itm', held, "offer", k)
  <2>1. PICK x \in Places : OnlyAt(Bags, floor, held, itm, held, x[1], x[2])
    BY <1>1 DEF OneSpot
  <2>2. x[1] = "held"
    BY <2>1 DEF OnlyAt
  <2> QED
    BY <1>1, <2>1, <2>2, BagFacts DEF OnlyAt, BagsAt
<1> QED
  BY <1>1, <1>2, <1>3, Relocated, PlacesAre

\* The bags are those that were handed out.
LEMMA BagsAre ==
  ASSUME NEW b, NEW f, NEW h, NEW o, OneSpot(b, f, h, o),
         citem' = b.citem, pack' = b.pack, lost' = b.lost
  PROVE  OneSpot(Bags', f, h, o)
<1>1. \A i \in Items : Stays(b, f, h, o, Bags', f, h, o, i)
  BY BagFacts DEF Stays
<1> QED
  BY <1>1, Relocated

\* Or from there to somebody's bags.
LEMMA GivenBackSpots ==
  ASSUME TypeOK, PartyInv, OneSpot(Bags, floor, held, itm),
         NEW msg \in Message, GivenBack(msg), UNCHANGED floor
  PROVE  OneSpot(Bags', floor', held', itm')
<1>1. PICK b \in Handed(Bags, Speaker(msg), {held}, ch[msg.co].used) :
        citem' = b.citem /\ pack' = b.pack /\ lost' = b.lost
  BY DEF GivenBack
<1>2. /\ Bags \in BagType /\ held \in Items /\ {held} \in SUBSET Items
      /\ held' = None /\ itm' = itm /\ None \notin Items
  BY TraderAssumption DEF TypeOK, Bags, BagType, GivenBack, deal
<1>3. ch[msg.co].used => Speaker(msg) \in Players
  BY DEF PartyInv, Speaker, Message
<1>4. \A j \in Sides : held \notin itm[j]
  <2>1. PICK x \in Places : OnlyAt(Bags, floor, held, itm, held, x[1], x[2])
    BY <1>2 DEF OneSpot
  <2> QED
    BY <2>1 DEF OnlyAt
<1>5. TakenOff({held}, held, itm, None, itm)
  BY <1>2, <1>4 DEF TakenOff
<1>6. OneSpot(b, floor, None, itm)
  BY <1>1, <1>2, <1>3, <1>5, HandedSpots
<1> QED
  BY <1>1, <1>2, <1>6, BagsAre

(***************************************************************************)
(* What return_items does with the items.                                  *)
(***************************************************************************)

\* Who gets what side k has offered.
Taker(k, switched) == IF switched THEN dat.ID[Other(k)] ELSE dat.ID[k]

\* They get it, unless it is destroyed, and nobody else does.
LEMMA ReturnItemsSpots ==
  ASSUME TypeOK, OneSpot(Bags, floor, held, itm), NEW switched \in BOOLEAN,
         ReturnItems(switched), UNCHANGED <<floor, held>>
  PROVE  /\ OneSpot(Bags', floor', held', itm')
         /\ \A k \in Sides : \E t :
              /\ t = Taker(k, switched)
              /\ \A in \in itm[k] : /\ in \in lost' \/ Has(t, in)'
                                    /\ \A q \in Players : Has(q, in)' => q = t
<1>1. /\ Taker(1, switched) \in Players \cup {None}
      /\ Taker(2, switched) \in Players \cup {None}
      /\ itm[1] \in SUBSET Items /\ itm[2] \in SUBSET Items
  BY OtherSide DEF TypeOK, Taker, Sides
<1>2. PICK away :
        \E b1 \in Handed(Bags, Taker(1, switched), itm[1],
                         Reached(Taker(1, switched), away)) :
          \E b2 \in Handed(b1, Taker(2, switched), itm[2],
                           Reached(Taker(2, switched), away)) :
            citem' = b2.citem /\ pack' = b2.pack /\ lost' = b2.lost
  BY DEF ReturnItems, Taker
<1>3. PICK t1, t2, r1, r2 : /\ t1 = Taker(1, switched) /\ t2 = Taker(2, switched)
                            /\ r1 = Reached(t1, away) /\ r2 = Reached(t2, away)
  OBVIOUS
<1>4. PICK b1 : /\ b1 \in Handed(Bags, t1, itm[1], r1)
                 /\ \E b2 \in Handed(b1, t2, itm[2], r2) :
                      citem' = b2.citem /\ pack' = b2.pack /\ lost' = b2.lost
  BY <1>2, <1>3
<1>5. PICK b2 : /\ b2 \in Handed(b1, t2, itm[2], r2)
                 /\ citem' = b2.citem /\ pack' = b2.pack /\ lost' = b2.lost
  BY <1>4
<1>6. /\ Bags \in BagType
      /\ r1 => t1 \in Players
      /\ r2 => t2 \in Players
  BY <1>1, <1>3 DEF Bags, BagType, TypeOK, Reached
<1>7. b1 \in BagType
  BY <1>1, <1>4, <1>6, HandedType
<1> DEFINE o1 == [k \in Sides |-> IF k = 1 THEN {} ELSE itm[k]]
           o2 == [k \in Sides |-> {}]
<1>8. /\ \A in : in \notin o1[1] /\ in \notin o2[1] /\ in \notin o2[2]
      /\ \A in : in \in o1[2] <=> in \in itm[2]
      /\ \A j \in Sides : j = 1 \/ j = 2
      /\ 1 \in Sides /\ 2 \in Sides
  BY DEF Sides
<1>9. \A in \in Items : /\ in \in itm[1] => in # held /\ in \notin itm[2]
                        /\ in \in itm[2] => in # held
  <2> SUFFICES ASSUME NEW in \in Items
               PROVE  /\ in \in itm[1] => in # held /\ in \notin itm[2]
                      /\ in \in itm[2] => in # held
    OBVIOUS
  <2>1. PICK x \in Places : OnlyAt(Bags, floor, held, itm, in, x[1], x[2])
    BY DEF OneSpot
  <2> QED
    BY <1>8, <2>1 DEF OnlyAt
<1> HIDE DEF o1, o2
<1>10. /\ OneSpot(b1, floor, held, o1)
       /\ \A in \in Items \ itm[1] : \A k, w :
            BagsAt(Bags, in, k, w) => BagsAt(b1, in, k, w)
       /\ \A in \in itm[1] :
            \/ BagsAt(b1, in, "lost", None)
            \/ /\ t1 \in Players
               /\ BagsAt(b1, in, "cursor", t1) \/ BagsAt(b1, in, "pack", t1)
  <2>1. TakenOff(itm[1], held, itm, held, o1)
    BY <1>1, <1>8, <1>9 DEF TakenOff
  <2> QED
    BY <1>1, <1>4, <1>6, <2>1, HandedSpots
<1>11. /\ OneSpot(b2, floor, held, o2)
       /\ \A in \in Items \ itm[2] : \A k, w :
            BagsAt(b1, in, k, w) => BagsAt(b2, in, k, w)
       /\ \A in \in itm[2] :
            \/ BagsAt(b2, in, "lost", None)
            \/ /\ t2 \in Players
               /\ BagsAt(b2, in, "cursor", t2) \/ BagsAt(b2, in, "pack", t2)
  <2>1. TakenOff(itm[2], held, o1, held, o2)
    BY <1>1, <1>8, <1>9 DEF TakenOff
  <2>2. OneSpot(b1, floor, held, o1)
    BY <1>10
  <2>3. itm[2] \in SUBSET Items /\ (r2 => t2 \in Players)
    BY <1>1, <1>6
  <2> QED
    BY <1>5, <1>7, <2>1, <2>2, <2>3, HandedSpots
<1>12. itm' = o2
  BY DEF ReturnItems, o2
<1>13. ASSUME NEW in, NEW t,
              \/ BagsAt(b2, in, "lost", None)
              \/ /\ t \in Players
                 /\ BagsAt(b2, in, "cursor", t) \/ BagsAt(b2, in, "pack", t)
       PROVE  /\ in \in lost' \/ Has(t, in)'
              /\ \A q \in Players : Has(q, in)' => q = t
  BY <1>5, <1>13 DEF BagsAt, Has
<1>14. \A in \in itm[1] :
         \/ BagsAt(b2, in, "lost", None)
         \/ /\ t1 \in Players
            /\ BagsAt(b2, in, "cursor", t1) \/ BagsAt(b2, in, "pack", t1)
  BY <1>1, <1>9, <1>10, <1>11
<1>15. OneSpot(Bags', floor', held', itm')
  BY <1>5, <1>11, <1>12, BagsAre
<1>16. \A k \in Sides : \E t :
         /\ t = Taker(k, switched)
         /\ \A in \in itm[k] : /\ in \in lost' \/ Has(t, in)'
                               /\ \A q \in Players : Has(q, in)' => q = t
  <2>1. \A in \in itm[1] : /\ in \in lost' \/ Has(t1, in)'
                           /\ \A q \in Players : Has(q, in)' => q = t1
    BY <1>13, <1>14
  <2>2. \A in \in itm[2] : /\ in \in lost' \/ Has(t2, in)'
                           /\ \A q \in Players : Has(q, in)' => q = t2
    BY <1>11, <1>13
  <2> QED
    BY <1>3, <1>8, <2>1, <2>2
<1> QED
  BY <1>15, <1>16

(***************************************************************************)
(* The items and the parties stay in order.                                *)
(***************************************************************************)

\* What a text may do.
LEMMA HeardTexts ==
  ASSUME NEW msg, Heard(msg)
  PROVE  /\ ch[msg.co].used /\ held' = held
         /\ \/ msg.text \in Players /\ TradeWith(Speaker(msg), msg.text)
            \/ StopTrade(Speaker(msg))
            \/ AcceptTrade(Speaker(msg))
            \/ GiveToken(Speaker(msg))
BY Zenon DEF Heard

LEMMA RefusedStays ==
  ASSUME NEW msg, Refused(msg)
  PROVE  UNCHANGED <<bags, money, held, deal>>
BY Zenon DEF Refused

LEMMA HeardTable ==
  ASSUME NEW msg, Heard(msg)
  PROVE  (\E sw \in BOOLEAN : ReturnItems(sw)) \/ UNCHANGED <<bags, itm>>
<1>1. ASSUME NEW co, NEW c2, TradeWith(co, c2) \/ GiveToken(co)
      PROVE  UNCHANGED <<bags, itm>>
  BY <1>1, Zenon DEF TradeWith, GiveToken
<1>2. ASSUME NEW co, StopTrade(co)
      PROVE  ReturnItems(FALSE)
  BY <1>2, Zenon DEF StopTrade
<1>3. ASSUME NEW co, AcceptTrade(co)
      PROVE  ReturnItems(TRUE) \/ UNCHANGED <<bags, itm>>
  BY <1>3, Zenon DEF AcceptTrade
<1> QED
  BY <1>1, <1>2, <1>3, HeardTexts

\* The parties after a text.
LEMMA HeardParty ==
  ASSUME TraderInv, PartyInv, NEW msg \in Message, Heard(msg), UNCHANGED ch
  PROVE  PartyInv'
<1> DEFINE co == Speaker(msg)
<1>1. co \in Players /\ dat \in DatType
  BY HeardTexts DEF Speaker, PartyInv, Message, TraderInv, TypeOK, DatType
<1>2. CASE msg.text \in Players /\ TradeWith(co, msg.text)
  <2> DEFINE id == [k \in Sides |-> IF k = 1 THEN co ELSE msg.text]
  <2>1. dat' = [dat EXCEPT !.state = 1, !.ID = id]
    BY <1>2 DEF TradeWith
  <2>2. \A k \in Sides : id[k] \in Players
    BY <1>1, <1>2
  <2> HIDE DEF id
  <2>3. dat'.ID = id
    BY <1>1, <2>1 DEF DatType
  <2> QED
    BY <2>2, <2>3 DEF PartyInv
<1>3. CASE StopTrade(co) \/ AcceptTrade(co) \/ GiveToken(co)
  <2>1. dat'.ID = dat.ID /\ dat.state # 0
    <3>1. CASE \E sw \in BOOLEAN : ReturnItems(sw)
      <4>1. dat' = [dat EXCEPT !.state = 0, !.ok = [k \in Sides |-> FALSE]]
        BY <3>1 DEF ReturnItems
      <4>2. dat'.ID = dat.ID
        BY <1>1, <4>1 DEF DatType
      <4> QED
        BY <1>3, <4>2 DEF StopTrade, AcceptTrade, GiveToken
    <3>2. ASSUME NEW ok, dat' = [dat EXCEPT !.state = 2, !.ok = ok]
          PROVE  dat'.ID = dat.ID
      BY <1>1, <3>2 DEF DatType
    <3>3. CASE StopTrade(co)
      BY <3>1, <3>3 DEF StopTrade
    <3>4. CASE AcceptTrade(co)
      <4>1. \/ ReturnItems(TRUE)
            \/ \E ok : dat' = [dat EXCEPT !.state = 2, !.ok = ok]
        BY <3>4, Zenon DEF AcceptTrade
      <4>2. dat.state # 0
        BY <3>4, Zenon DEF AcceptTrade
      <4> QED
        BY <3>1, <3>2, <4>1, <4>2, Zenon
    <3>5. CASE GiveToken(co)
      BY <3>5 DEF GiveToken
    <3> QED
      BY <1>3, <3>3, <3>4, <3>5
  <2> QED
    BY <2>1 DEF PartyInv
<1> QED
  BY <1>2, <1>3, HeardTexts, Zenon

\* The items after a text.
LEMMA HeardSpots ==
  ASSUME TraderInv, OneSpot(Bags, floor, held, itm), NEW msg, Heard(msg),
         UNCHANGED floor
  PROVE  OneSpot(Bags', floor', held', itm')
<1>1. held' = held /\ TypeOK
  BY HeardTexts DEF TraderInv
<1>2. CASE \E sw \in BOOLEAN : ReturnItems(sw)
  BY <1>1, <1>2, ReturnItemsSpots
<1>3. CASE UNCHANGED <<bags, itm>>
  BY <1>1, <1>3, NothingMoved
<1> QED
  BY <1>2, <1>3, HeardTable DEF bags

\* One message.
LEMMA ReadGoods ==
  ASSUME GoodsInv, Read
  PROVE  PartyInv' /\ OneSpot(Bags', floor', held', itm')
<1> DEFINE msg == Head(mail)
<1>1. /\ TraderInv /\ TypeOK /\ PartyInv /\ OneSpot(Bags, floor, held, itm)
      /\ UNCHANGED <<ch, floor>>
  BY DEF GoodsInv, TraderInv, Read
<1>2. msg \in Message
  <2>1. mail \in Seq(Message) /\ todo \in Asleep..Len(mail) /\ todo > 0
    BY <1>1 DEF TypeOK, Read
  <2>2. mail # <<>>
    BY <2>1 DEF Asleep
  <2> QED
    BY <2>1, <2>2
<1> HIDE DEF msg
<1>3. CASE Heard(msg)
  BY <1>1, <1>2, <1>3, HeardParty, HeardSpots
<1>4. CASE Taken(msg)
  <2>1. PartyInv'
    BY <1>1, <1>4 DEF Taken, PartyInv
  <2> QED
    BY <1>1, <1>4, <2>1, TakenSpots
<1>5. CASE GivenBack(msg)
  <2>1. PartyInv'
    BY <1>1, <1>5 DEF GivenBack, PartyInv, deal
  <2> QED
    BY <1>1, <1>2, <1>5, <2>1, GivenBackSpots
<1>6. CASE Refused(msg)
  <2>1. PartyInv'
    BY <1>1, <1>6, RefusedStays DEF PartyInv, deal
  <2>2. UNCHANGED <<bags, floor, held, itm>>
    BY <1>1, <1>6, RefusedStays DEF deal
  <2> QED
    BY <1>1, <2>1, <2>2, NothingMoved
<1> QED
  BY <1>3, <1>4, <1>5, <1>6 DEF Read, msg

\* Whatever players do.
LEMMA OthersGoods ==
  ASSUME GoodsInv, Others
  PROVE  PartyInv' /\ OneSpot(Bags', floor', held', itm')
<1>1. TypeOK /\ PartyInv /\ OneSpot(Bags, floor, held, itm)
  BY DEF GoodsInv, TraderInv
<1>2. ASSUME NEW p \in Players, NEW s \in Slots, Login(p, s)
      PROVE  PartyInv' /\ UNCHANGED <<bags, floor, held, itm>>
  BY <1>1, <1>2 DEF Login, PartyInv, TypeOK, deal
<1>3. ASSUME NEW p \in Players, Logout(p)
      PROVE  PartyInv' /\ UNCHANGED <<bags, floor, held, itm>>
  <2>1. /\ \A s \in Slots : /\ ch'[s].ID = ch[s].ID
                            /\ ch'[s].used => ch[s].used
        /\ dat' = dat
    BY <1>1, <1>3, SlotOfType DEF Logout, TypeOK, deal
  <2> QED
    BY <1>1, <1>3, <2>1 DEF Logout, PartyInv, deal
<1>4. ASSUME NEW p \in Players,
             \/ LoadDepot(p) \/ \E text \in Text \cup Players : Say(p, text)
      PROVE  PartyInv' /\ UNCHANGED <<bags, floor, held, itm>>
  BY <1>1, <1>4 DEF LoadDepot, Say, PartyInv, deal
<1>5. ASSUME NEW p \in Players,
             \/ \E in \in Items : PickUp(p, in)
             \/ PutDown(p) \/ Give(p)
             \/ \E in \in Items \cup {None} : Swap(p, in)
      PROVE  PartyInv' /\ OneSpot(Bags', floor', held', itm')
  <2>1. ch' = ch /\ dat' = dat
    BY <1>5 DEF PickUp, PutDown, Give, Swap, deal
  <2>2. PartyInv'
    BY <1>1, <2>1 DEF PartyInv
  <2> QED
    BY <1>1, <1>5, <2>2, PickUpSpots, PutDownSpots, GiveSpots, SwapSpots
<1>6. ASSUME Tick
      PROVE  PartyInv' /\ UNCHANGED <<bags, floor, held, itm>>
  BY <1>1, <1>6 DEF Tick, PartyInv
<1> QED
  BY <1>1, <1>2, <1>3, <1>4, <1>5, <1>6, NothingMoved DEF Others

\* A trade that took too long.
LEMMA RestGoods ==
  ASSUME GoodsInv, Rest
  PROVE  PartyInv' /\ OneSpot(Bags', floor', held', itm')
<1>1. /\ TypeOK /\ PartyInv /\ OneSpot(Bags, floor, held, itm)
      /\ UNCHANGED <<ch, floor, held>>
  BY DEF GoodsInv, TraderInv, Rest
<1>2. CASE ReturnItems(FALSE)
  <2>1. dat' = [dat EXCEPT !.state = 0, !.ok = [k \in Sides |-> FALSE]]
    BY <1>2 DEF ReturnItems
  <2>2. dat'.state = 0
    BY <1>1, <2>1 DEF TypeOK
  <2> QED
    BY <1>1, <1>2, <2>2, ReturnItemsSpots DEF PartyInv
<1>3. CASE UNCHANGED <<bags, money, deal>>
  BY <1>1, <1>3, NothingMoved DEF PartyInv, deal
<1> QED
  BY <1>2, <1>3 DEF Rest

\* GoodsInv is inductive.
LEMMA GoodsInit == Init => GoodsInv
<1> SUFFICES ASSUME Init PROVE GoodsInv
  OBVIOUS
<1>1. PartyInv
  BY DEF Init, PartyInv, NoDeal
<1>2. ASSUME NEW in \in Items
      PROVE  OnlyAt(Bags, floor, held, itm, in, "floor", None)
  BY TraderAssumption, BagFacts DEF Init, OnlyAt, BagsAt
<1>3. ASSUME NEW in \in Items
      PROVE  \E x \in Places : OnlyAt(Bags, floor, held, itm, in, x[1], x[2])
  <2>1. PICK x \in Places : x = <<"floor", None>> /\ x[1] = "floor" /\ x[2] = None
    BY PlacesAre
  <2> QED
    BY <1>2, <2>1
<1> QED
  BY <1>1, <1>3, InitInv DEF GoodsInv, OneSpot

LEMMA GoodsStep == GoodsInv /\ [Next]_vars => GoodsInv'
<1> SUFFICES ASSUME GoodsInv, [Next]_vars PROVE GoodsInv'
  OBVIOUS
<1>1. TraderInv'
  BY NextInv DEF GoodsInv
<1>2. PartyInv' /\ OneSpot(Bags', floor', held', itm')
  <2>1. CASE Others \/ Read \/ Rest
    BY <2>1, OthersGoods, ReadGoods, RestGoods
  <2>2. CASE Wake \/ UNCHANGED vars
    <3>1. UNCHANGED <<ch, dat, bags, floor, held, itm>>
      BY <2>2 DEF Wake, vars, deal
    <3>2. PartyInv'
      BY <3>1 DEF GoodsInv, PartyInv
    <3> QED
      BY <3>1, <3>2, NothingMoved DEF GoodsInv
  <2> QED
    BY <2>1, <2>2 DEF Next, Driver
<1>3. OneSpot(Bags, floor, held, itm)'
  BY <1>2
<1> QED
  BY <1>1, <1>2, <1>3 DEF GoodsInv

(***************************************************************************)
(* Nobody is cheated.                                                      *)
(***************************************************************************)

\* Only return_items takes anything off the table.
LEMMA TableKept ==
  ASSUME GoodsInv, [Next]_vars
  PROVE  \/ \E sw \in BOOLEAN : ReturnItems(sw) /\ UNCHANGED <<floor, held>>
         \/ \A k \in Sides : itm[k] \subseteq itm'[k]
<1>1. itm \in [Sides -> SUBSET Items]
  BY DEF GoodsInv, TraderInv, TypeOK
<1>2. CASE itm' = itm
  BY <1>2
<1>3. ASSUME NEW msg, Taken(msg)
      PROVE  \A k \in Sides : itm[k] \subseteq itm'[k]
  <2> DEFINE k0 == IF dat.ID[1] = Speaker(msg) THEN 1 ELSE 2
  <2>1. itm' = [itm EXCEPT ![k0] = @ \cup {held}]
    BY <1>3 DEF Taken
  <2> HIDE DEF k0
  <2> QED
    BY <1>1, <2>1
<1>4. ASSUME NEW msg, Heard(msg)
      PROVE  \/ \E sw \in BOOLEAN : ReturnItems(sw) /\ held' = held
             \/ itm' = itm
  BY <1>4, HeardTexts, HeardTable
<1>5. CASE Read
  <2>1. floor' = floor
    BY <1>5 DEF Read
  <2>2. \E msg : Heard(msg) \/ Taken(msg) \/ GivenBack(msg) \/ Refused(msg)
    BY <1>5 DEF Read
  <2> QED
    BY <1>2, <1>3, <1>4, <2>1, <2>2, RefusedStays DEF GivenBack, deal
<1>6. CASE Rest
  BY <1>2, <1>6 DEF Rest, deal
<1>7. CASE Others
  BY <1>2, <1>7 DEF Others, Login, Logout, LoadDepot, PickUp, PutDown, Swap,
                    Say, Give, Tick, deal
<1>8. CASE Wake \/ UNCHANGED vars
  BY <1>2, <1>8 DEF Wake, vars, deal
<1> QED
  BY <1>5, <1>6, <1>7, <1>8 DEF Next, Driver

\* What is paid out to a party is added to its tokens.
LEMMA TokensPaid ==
  ASSUME TypeOK, ReturnItems(TRUE), NEW k \in Sides,
         dat.ID[1] # dat.ID[2], Paid(dat.ID[k], 1), dat.ID[k] \in Players
  PROVE  tokens'[dat.ID[k]] = tokens[dat.ID[k]] + token[Other(k)]
<1> DEFINE sum(p) ==
      (IF dat.ID[2] = p /\ Paid(p, token[1]) THEN token[1] ELSE 0)
        + (IF dat.ID[1] = p /\ Paid(p, token[2]) THEN token[2] ELSE 0)
<1>1. tokens' = [p \in Players |-> tokens[p] + sum(p)]
  BY DEF ReturnItems, Other
<1>2. PICK p \in Players : p = dat.ID[k]
  OBVIOUS
<1>3. /\ token[1] \in Nat /\ token[2] \in Nat
      /\ (k = 1 /\ Other(k) = 2) \/ (k = 2 /\ Other(k) = 1)
  BY DEF TypeOK, Sides, Other
<1>4. \A t \in Nat : Paid(p, t) <=> t > 0
  BY <1>2 DEF Paid
<1>5. sum(p) = token[Other(k)]
  BY <1>2, <1>3, <1>4
<1> HIDE DEF sum
<1> QED
  BY <1>1, <1>2, <1>5

\* One step of the trade.
LEMMA FairStep ==
  ASSUME GoodsInv, GoodsInv', [Next]_vars
  PROVE  \A k \in Sides :
           /\ dat.ID[1] # dat.ID[2]
           /\ \E in \in itm[k] : Has(dat.ID[Other(k)], in)'
           /\ dat.ok[k]
           => /\ \A in \in seen[k].items : Has(dat.ID[k], in)' \/ in \in lost'
              /\ Paid(dat.ID[k], 1) =>
                   tokens'[dat.ID[k]] >= tokens[dat.ID[k]] + seen[k].tokens
<1>1. SUFFICES ASSUME NEW k \in Sides, dat.ID[1] # dat.ID[2],
                      NEW in \in itm[k], Has(dat.ID[Other(k)], in)', dat.ok[k]
               PROVE  /\ \A i \in seen[k].items : Has(dat.ID[k], i)' \/ i \in lost'
                      /\ Paid(dat.ID[k], 1) =>
                           tokens'[dat.ID[k]] >= tokens[dat.ID[k]] + seen[k].tokens
  OBVIOUS
<1>2. /\ TypeOK /\ PartyInv /\ OneSpot(Bags, floor, held, itm)
      /\ NothingKept /\ AcceptedOfferStands
  BY DEF GoodsInv, TraderInv
<1>3. /\ OneSpot(Bags', floor', held', itm')
      /\ PartyInv' /\ NothingKept' /\ TypeOK'
  BY DEF GoodsInv, TraderInv
<1>4. /\ Other(k) \in Sides /\ Other(Other(k)) = k
      /\ dat.ID[Other(k)] # dat.ID[k]
      /\ in \in Items
  BY <1>1, <1>2, OtherSide DEF Sides, Other, TypeOK
<1>5. dat.ID[k] \in Players /\ dat.ID[Other(k)] \in Players
  BY <1>2, <1>4 DEF NothingKept, PartyInv
<1>6. ~ \A j \in Sides : itm[j] \subseteq itm'[j]
  <2>1. SUFFICES ASSUME in \in itm'[k] PROVE FALSE
    OBVIOUS
  <2>2. PICK q \in Players : Has(q, in)'
    <3>1. dat'.ID[Other(k)] \in Players
      BY <1>3, <1>4, <2>1 DEF NothingKept, PartyInv
    <3> QED
      BY <1>1, <3>1 DEF Has
  <2>3. PICK x \in Places : OnlyAt(Bags', floor', held', itm', in, x[1], x[2])
    BY <1>3, <1>4 DEF OneSpot
  <2>4. x[1] = "offer"
    BY <2>1, <2>3 DEF OnlyAt
  <2> QED
    BY <2>2, <2>3, <2>4, BagFacts DEF OnlyAt, BagsAt, Has
<1>7. PICK sw \in BOOLEAN : ReturnItems(sw) /\ UNCHANGED <<floor, held>>
  BY <1>6, TableKept
<1>8. \A j \in Sides : \E t :
        /\ t = Taker(j, sw)
        /\ \A i \in itm[j] : /\ i \in lost' \/ Has(t, i)'
                             /\ \A q \in Players : Has(q, i)' => q = t
  BY <1>2, <1>7, ReturnItemsSpots
<1>9. dat'.ID = dat.ID
  <2>1. dat' = [dat EXCEPT !.state = 0, !.ok = [j \in Sides |-> FALSE]]
    BY <1>7 DEF ReturnItems
  <2>2. dat \in DatType
    BY <1>2 DEF TypeOK, DatType
  <2> QED
    BY <2>1, <2>2 DEF DatType
<1>10. PICK q \in Players : q = dat.ID[Other(k)] /\ Has(q, in)'
  BY <1>1, <1>5, <1>9 DEF Has
<1>11. sw
  BY <1>4, <1>8, <1>10 DEF Taker
<1>12. \A i \in seen[k].items : Has(dat.ID[k], i)' \/ i \in lost'
  <2> SUFFICES ASSUME NEW i \in seen[k].items, i \notin lost'
               PROVE  Has(dat.ID[k], i)'
    OBVIOUS
  <2>1. i \in itm[Other(k)]
    BY <1>1, <1>2 DEF AcceptedOfferStands
  <2>2. PICK t : t = Taker(Other(k), sw) /\ Has(t, i)'
    BY <1>4, <1>8, <2>1
  <2>3. t = dat.ID[k]
    BY <1>4, <1>11, <2>2 DEF Taker
  <2> QED
    BY <1>9, <2>2, <2>3 DEF Has
<1>13. ASSUME Paid(dat.ID[k], 1)
       PROVE  tokens'[dat.ID[k]] >= tokens[dat.ID[k]] + seen[k].tokens
  <2>1. tokens'[dat.ID[k]] = tokens[dat.ID[k]] + token[Other(k)]
    BY <1>1, <1>2, <1>5, <1>7, <1>11, <1>13, TokensPaid
  <2>2. /\ seen[k].tokens <= token[Other(k)]
        /\ seen[k].tokens \in Nat /\ token[Other(k)] \in Nat
        /\ tokens[dat.ID[k]] \in Nat
    BY <1>1, <1>2, <1>4, <1>5 DEF AcceptedOfferStands, TypeOK
  <2> QED
    BY <2>1, <2>2
<1> QED
  BY <1>12, <1>13

\* Every item is in exactly one place at any time: swap, act_give, give_char_item
\* and return_items of the code between them duplicate none and lose none
\* without destroying it.
THEOREM EveryItemOnce == Spec => []OnePlace
<1>1. GoodsInv => OnePlace
  BY SpotsArePlaces DEF GoodsInv
<1> QED
  BY <1>1, GoodsInit, GoodsStep, PTL DEF Spec

\* A party whose goods reach the other gets what it had agreed to, whoever
\* comes, goes, or speaks between the acceptance and the exchange.
THEOREM NobodyCheated == Spec => NobodyIsCheated
<1>1. GoodsInv /\ GoodsInv' /\ [Next]_vars =>
        [\A k \in Sides :
           /\ dat.ID[1] # dat.ID[2]
           /\ \E in \in itm[k] : Has(dat.ID[Other(k)], in)'
           /\ dat.ok[k]
           => /\ \A in \in seen[k].items : Has(dat.ID[k], in)' \/ in \in lost'
              /\ Paid(dat.ID[k], 1) =>
                   tokens'[dat.ID[k]] >= tokens[dat.ID[k]] + seen[k].tokens]_vars
  BY FairStep
<1> QED
  BY <1>1, GoodsInit, GoodsStep, PTL DEF Spec, NobodyIsCheated
=============================================================================
