----------------------------- MODULE Orderbook -----------------------------
(***************************************************************************)
(* One instrument's limit order book (src/src/Orderbook.cpp).              *)
(*                                                                         *)
(* The code keeps the orders of a price level in an intrusive doubly       *)
(* linked list.  A pointer to an order is modelled by the id of the order, *)
(* a pointer to a level by the side and the price of the level; Nil is the *)
(* null pointer.  A freed object keeps a slot here (NoOrder, NoLevel), so  *)
(* that a dangling pointer is a state the invariants can see:              *)
(*   book.order    what every order object holds                           *)
(*   book.resting  the keys of the map orders_                             *)
(*   book.level    what every level object holds                           *)
(*   book.open     the keys of the maps bids_ and asks_                    *)
(*                                                                         *)
(* Handlers are single steps, except that each pass of the loop in         *)
(* Orderbook::FillLevel is a step of its own (`sweep' holds the loop's     *)
(* locals): the book is single-threaded, so no other handler runs before   *)
(* the loop ends, but the list must be well formed between its passes.     *)
(*                                                                         *)
(* Timestamps are left out (no handler decides on one) and the violation   *)
(* counters of Stats are represented by the one the last event bumped.     *)
(***************************************************************************)
EXTENDS Integers, FiniteSets

CONSTANTS Ids,      \* order ids the feed uses; 0 means "trade by price level"
          Sides,    \* NQ_BID and NQ_ASK
          Bid,      \* NQ_BID, the side sorted by descending price
          Prices,   \* prices the feed uses
          Nil,      \* the null pointer
          MaxQty    \* bound on the quantity of an event

Keys == Sides \X Prices

ASSUME IdsAssumption == Ids \subseteq Nat /\ IsFiniteSet(Ids)
ASSUME PricesAssumption == Prices \subseteq Int /\ Prices # {} /\ Bid \in Sides
ASSUME NilAssumption == Nil \notin Ids /\ Nil \notin Keys
ASSUME MaxQtyAssumption == MaxQty \in Nat

Qtys == 0..MaxQty

VARIABLES book,   \* the book
          sweep,  \* the locals of a running FillLevel loop, or Nil
          out     \* what the last finished event returned and counted

vars == <<book, sweep, out>>

Flags == {"none", "qty_invalid", "add_duplicate", "cancel_unknown", "modify_unknown",
          "trade_unknown", "trade_over_order", "trade_over_level"}

Orders == [side : Sides, price : Prices, qty : Nat,
           prev : Ids \cup {Nil}, next : Ids \cup {Nil}, level : Keys \cup {Nil}]
Levels == [qty : Int, count : Int, head : Ids \cup {Nil}, tail : Ids \cup {Nil}]

Books == [order : [Ids -> Orders],  resting : SUBSET Ids,
          level : [Keys -> Levels], open    : SUBSET Keys]

NoOrder == [side |-> Bid, price |-> CHOOSE p \in Prices : TRUE, qty |-> 0,
            prev |-> Nil, next |-> Nil, level |-> Nil]
NoLevel == [qty |-> 0, count |-> 0, head |-> Nil, tail |-> Nil]

EmptyBook == [order   |-> [i \in Ids |-> NoOrder],  resting |-> {},
              level   |-> [k \in Keys |-> NoLevel], open    |-> {}]

Returned(filled, flag) == [filled |-> filled, flag |-> flag]

-----------------------------------------------------------------------------
(* The private helpers, as operators from a book to a book.                *)

FindOrCreateLevel(b, k) ==
  IF k \in b.open THEN b
  ELSE [b EXCEPT !.open = @ \cup {k}, !.level[k] = NoLevel]

RemoveLevel(b, k) == [b EXCEPT !.open = @ \ {k}, !.level[k] = NoLevel]

\* A plausible bug: the order is put in front of the list, not behind it.
LinkOrderAtHead(b, i, k) ==
  LET lv == b.level[k]
      pointed == [b.order EXCEPT ![i].level = k, ![i].next = lv.head, ![i].prev = Nil]
  IN  [b EXCEPT
         !.order = IF lv.head # Nil THEN [pointed EXCEPT ![lv.head].prev = i] ELSE pointed,
         !.level[k] = [head  |-> i,
                       tail  |-> IF lv.tail # Nil THEN lv.tail ELSE i,
                       qty   |-> lv.qty + b.order[i].qty,
                       count |-> lv.count + 1]]

\* Append order i to the list of level k.
LinkOrder(b, i, k) ==
  LET lv == b.level[k]
      pointed == [b.order EXCEPT ![i].level = k, ![i].prev = lv.tail, ![i].next = Nil]
  IN  [b EXCEPT
         !.order = IF lv.tail # Nil THEN [pointed EXCEPT ![lv.tail].next = i] ELSE pointed,
         !.level[k] = [head  |-> IF lv.tail # Nil THEN lv.head ELSE i,
                       tail  |-> i,
                       qty   |-> lv.qty + b.order[i].qty,
                       count |-> lv.count + 1]]

\* The neighbours of order i, or the ends of its level, point past it.
Bypassed(order, i) ==
  LET p == order[i].prev
      n == order[i].next
  IN  [j \in Ids |->
         IF j = i THEN [order[i] EXCEPT !.prev = Nil, !.next = Nil, !.level = Nil]
         ELSE [order[j] EXCEPT !.next = IF j = p THEN n ELSE @,
                               !.prev = IF j = n THEN p ELSE @]]

\* Take order i out of its level, and the level out of the book with its last order.
UnlinkOrder(b, i) ==
  LET me == b.order[i]
      lv == b.level[me.level]
      u  == [b EXCEPT !.order = Bypassed(b.order, i),
                      !.level[me.level] = [head  |-> IF me.prev # Nil THEN lv.head ELSE me.next,
                                           tail  |-> IF me.next # Nil THEN lv.tail ELSE me.prev,
                                           qty   |-> lv.qty - me.qty,
                                           count |-> lv.count - 1]]
  IN  IF lv.count - 1 = 0 THEN RemoveLevel(u, <<me.side, me.level[2]>>) ELSE u

\* RemoveOrder also returns the object to the pool (module OrderPool).
RemoveOrder(b, i) ==
  LET u == UnlinkOrder(b, i)
  IN  [u EXCEPT !.resting = @ \ {i}, !.order[i] = NoOrder]

\* A plausible bug: the level's total is not reduced with the order.
ReduceOrderOnly(b, i, q) == [b EXCEPT !.order[i].qty = @ - q]

\* Reduce order i in place by q, which is less than its quantity.
Reduce(b, i, q) == [b EXCEPT !.order[i].qty = @ - q, !.level[b.order[i].level].qty = @ - q]

Lesser(x, y) == IF x < y THEN x ELSE y

\* A plausible bug: a fill is not capped by what the order has.
FillQtyUncapped(b, i, q) == q

FillQty(b, i, q) == Lesser(q, b.order[i].qty)

\* A plausible bug: a wholly filled order is reduced to nothing and kept.
FillKeepingOrder(b, i, q) == Reduce(b, i, FillQty(b, i, q))

Fill(b, i, q) ==
  IF FillQty(b, i, q) = b.order[i].qty THEN RemoveOrder(b, i)
  ELSE Reduce(b, i, FillQty(b, i, q))

-----------------------------------------------------------------------------
(* The feed handlers.  m.qty <= 0 is represented by 0.                     *)

\* The order object is filled in, and entered in orders_; it is in no list yet.
NewOrder(b, i, s, p, q) ==
  [b EXCEPT !.order[i] = [side |-> s, price |-> p, qty |-> q,
                          prev |-> Nil, next |-> Nil, level |-> Nil],
            !.resting = @ \cup {i}]

OnOrder(i, s, p, q) ==
  /\ sweep = Nil
  /\ CASE q = 0 -> UNCHANGED book /\ out' = Returned(0, "qty_invalid")
       [] q # 0 /\ i \in book.resting ->
            UNCHANGED book /\ out' = Returned(0, "add_duplicate")
       [] OTHER ->
            /\ book' = LinkOrder(FindOrCreateLevel(NewOrder(book, i, s, p, q), <<s, p>>),
                                 i, <<s, p>>)
            /\ out' = Returned(0, "none")
  /\ UNCHANGED sweep

OnCancel(i, q) ==
  /\ sweep = Nil
  /\ CASE i \notin book.resting -> UNCHANGED book /\ out' = Returned(0, "cancel_unknown")
       [] i \in book.resting /\ (q = 0 \/ q >= book.order[i].qty) ->
            book' = RemoveOrder(book, i) /\ out' = Returned(0, "none")
       [] OTHER -> book' = Reduce(book, i, q) /\ out' = Returned(0, "none")
  /\ UNCHANGED sweep

\* The order gets price p and quantity q and goes to the end of level k.
Requeued(b, i, p, q, k) ==
  LET u == UnlinkOrder(b, i)
      r == [u EXCEPT !.order[i].price = p, !.order[i].qty = q]
  IN  LinkOrder(IF k = b.order[i].level THEN r ELSE FindOrCreateLevel(r, k), i, k)

\* A plausible bug: an order alone in its level is requeued too, at a freed level.
LosesPriorityAlways(b, i, q) == q > b.order[i].qty

\* OnModify's test for requeueing at an unchanged price.
LosesPriority(b, i, q) ==
  q > b.order[i].qty /\ (b.order[i].prev # Nil \/ b.order[i].next # Nil)

Modified(b, i, p, q) ==
  LET o == b.order[i]
  IN  CASE q = 0        -> RemoveOrder(b, i)
        [] q # 0 /\ p # o.price -> Requeued(b, i, p, q, <<o.side, p>>)
        [] q # 0 /\ p = o.price /\ LosesPriority(b, i, q) -> Requeued(b, i, p, q, o.level)
        [] OTHER        -> Reduce(b, i, o.qty - q)

OnModify(i, p, q) ==
  /\ sweep = Nil
  /\ IF i \in book.resting
     THEN book' = Modified(book, i, p, q) /\ out' = Returned(0, "none")
     ELSE UNCHANGED book /\ out' = Returned(0, "modify_unknown")
  /\ UNCHANGED sweep

\* OnTrade with an order id.
OnTradeOrder(i, q) ==
  /\ sweep = Nil
  /\ i # 0
  /\ CASE q = 0 -> UNCHANGED book /\ out' = Returned(0, "qty_invalid")
       [] q # 0 /\ i \notin book.resting ->
            UNCHANGED book /\ out' = Returned(0, "trade_unknown")
       [] OTHER ->
            /\ book' = Fill(book, i, q)
            /\ out' = Returned(FillQty(book, i, q),
                               IF FillQty(book, i, q) < q THEN "trade_over_order" ELSE "none")
  /\ UNCHANGED sweep

\* OnTrade with id 0, up to the loop of FillLevel.
OnTradeLevel(s, p, q) ==
  /\ sweep = Nil
  /\ UNCHANGED book
  /\ CASE q = 0 -> out' = Returned(0, "qty_invalid") /\ UNCHANGED sweep
       [] q # 0 /\ <<s, p>> \notin book.open ->
            out' = Returned(0, "trade_over_level") /\ UNCHANGED sweep
       [] OTHER -> /\ sweep' = [key |-> <<s, p>>, asked |-> q, remaining |-> q, before |-> book]
                   /\ UNCHANGED out

\* FillLevel returns asked - left, and OnTrade counts a trade beyond the level.
SweepEnds(left) ==
  /\ sweep' = Nil
  /\ out' = Returned(sweep.asked - left, IF left > 0 THEN "trade_over_level" ELSE "none")

\* A plausible bug: the loop does not leave at the last order.
NeverLast(b, i) == FALSE

\* `last', read before Fill frees the order and perhaps the level.
IsLast(b, i) == b.order[i].next = Nil

\* One evaluation of the while condition and, if it holds, one pass.
FillLevelPass ==
  /\ sweep # Nil
  /\ LET head == book.level[sweep.key].head
         left == sweep.remaining - FillQty(book, head, sweep.remaining)
     IN  IF sweep.remaining > 0 /\ head # Nil
         THEN /\ book' = Fill(book, head, sweep.remaining)
              /\ IF IsLast(book, head) THEN SweepEnds(left)
                 ELSE sweep' = [sweep EXCEPT !.remaining = left] /\ UNCHANGED out
         ELSE SweepEnds(sweep.remaining) /\ UNCHANGED book

OnClear ==
  /\ sweep = Nil
  /\ book' = EmptyBook
  /\ out' = Returned(0, "none")
  /\ UNCHANGED sweep

Init == book = EmptyBook /\ sweep = Nil /\ out = Returned(0, "none")

Next ==
  \/ \E i \in Ids, s \in Sides, p \in Prices, q \in Qtys : OnOrder(i, s, p, q)
  \/ \E i \in Ids, q \in Qtys : OnCancel(i, q)
  \/ \E i \in Ids, p \in Prices, q \in Qtys : OnModify(i, p, q)
  \/ \E i \in Ids, q \in Qtys : OnTradeOrder(i, q)
  \/ \E s \in Sides, p \in Prices, q \in Qtys : OnTradeLevel(s, p, q)
  \/ FillLevelPass
  \/ OnClear

\* FillLevel's loop runs to its end once it is entered.
Spec == Init /\ [][Next]_vars /\ WF_vars(FillLevelPass)

-----------------------------------------------------------------------------
(* The book as a structure.                                                *)

OrdersAt(b, k) == {i \in b.resting : b.order[i].level = k}

\* The ids met by walking the list of level k from its head.
Queue(b, k) ==
  LET at[n \in 1..Cardinality(Ids)] ==
        IF n = 1 THEN b.level[k].head
        ELSE IF at[n - 1] = Nil THEN Nil ELSE b.order[at[n - 1]].next
  IN  [n \in 1..Cardinality({m \in 1..Cardinality(Ids) : at[m] # Nil}) |-> at[n]]

Sweeps == [key : Keys, asked : Qtys, remaining : Qtys, before : Books]

ASSUME SweepAssumption == Nil \notin Sweeps

\* The types of the variables (Orderbook.h and nlib's order and level).
TypeOK ==
  /\ book \in Books
  /\ sweep \in Sweeps \cup {Nil}
  /\ sweep # Nil => sweep.remaining <= sweep.asked
  /\ out \in [filled : Nat, flag : Flags]

\* The two sides of order i: a neighbour that points back, or the end of the level.
PrevLinked(b, i) ==
  LET o == b.order[i]
  IN  IF o.prev = Nil THEN b.level[o.level].head = i
      ELSE o.prev \in b.resting /\ b.order[o.prev].next = i /\ b.order[o.prev].level = o.level

NextLinked(b, i) ==
  LET o == b.order[i]
  IN  IF o.next = Nil THEN b.level[o.level].tail = i
      ELSE o.next \in b.resting /\ b.order[o.next].prev = i /\ b.order[o.next].level = o.level

Placed(b, i) ==
  /\ b.order[i].qty > 0
  /\ b.order[i].level = <<b.order[i].side, b.order[i].price>>
  /\ b.order[i].level \in b.open

OrderLinked(b, i) == Placed(b, i) /\ PrevLinked(b, i) /\ NextLinked(b, i)

LevelLinked(b, k) ==
  LET lv == b.level[k]
  IN  /\ lv.head \in OrdersAt(b, k) /\ b.order[lv.head].prev = Nil
      /\ lv.tail \in OrdersAt(b, k) /\ b.order[lv.tail].next = Nil
      /\ lv.count = Cardinality(OrdersAt(b, k))

Linked(b) ==
  /\ \A i \in b.resting : OrderLinked(b, i)
  /\ \A k \in b.open : LevelLinked(b, k)
  /\ \A i \in Ids \ b.resting : b.order[i] = NoOrder
  /\ \A k \in Keys \ b.open : b.level[k] = NoLevel

-----------------------------------------------------------------------------
(* Properties.                                                             *)

\* After every handler and between the passes of FillLevel, the lists are
\* sound: neighbours point at each other, the ends of a level at its first and
\* last order, a level's count is the number of its orders, a level is in the
\* map exactly while it has orders, and nothing points at a freed object.
LinksOK == Linked(book)

\* FillLevel evaluates `lv->head' only while the level is still in the map:
\* a pass that frees the last order, and with it the level, leaves the loop.
SweepLevelLive == sweep # Nil /\ sweep.remaining > 0 => sweep.key \in book.open

\* The loop of FillLevel ends.
SweepTerminates == (sweep # Nil) ~> (sweep = Nil)
=============================================================================
