-------------------------- MODULE OrderbookProofs --------------------------
(***************************************************************************)
(* What holds of the order book after every handler and between the passes *)
(* of FillLevel, for every set of ids and prices.                          *)
(*                                                                         *)
(* The lists are sound (WellFormed): no order has a neighbour that does    *)
(* not have it, and no list closes into a ring. Every handler takes orders *)
(* out of their lists and puts them behind the last of a level, so there   *)
(* is one lemma for each of the helpers that do this, and few lines per    *)
(* handler.                                                                *)
(*                                                                         *)
(* The totals of a level are the sums over its orders (Totals), though     *)
(* they are kept by differences: every helper changes an order and the     *)
(* totals of its level alike. From this and a description of what `Best'   *)
(* and `Level' step through follows that features read the depth the       *)
(* orders have.                                                            *)
(*                                                                         *)
(* Along its list a level has a queue of its orders (Lists); the same      *)
(* helpers take an order out of its queue, put it at the end of one, or    *)
(* change a quantity in place, which is what BookSpec does. FillLevel's    *)
(* loop takes from the front (Traded), and its last pass is the one trade  *)
(* of BookSpec.                                                            *)
(***************************************************************************)
EXTENDS OrderbookMC, FiniteSetTheorems, WellFoundedInduction, TLAPS

USE IdsAssumption, PricesAssumption, NilAssumption, MaxQtyAssumption

\* No list closes into a ring: an order ranks above the one before it.
Ranked(b, r) ==
  \A j \in b.resting : b.order[j].prev # Nil => r[b.order[j].prev] < r[j]

Acyclic(b) == \E r \in [Ids -> Nat] : Ranked(b, r)

WellFormed(b) == b \in Books /\ Linked(b) /\ Acyclic(b)

\* A well-formed book but for order i, which is in no list.
Detached(b, i) ==
  /\ i \in b.resting
  /\ b.order[i].level = Nil /\ b.order[i].prev = Nil /\ b.order[i].next = Nil
  /\ \A j \in b.resting \ {i} : OrderLinked(b, j)
  /\ \A k \in b.open : LevelLinked(b, k)
  /\ \A j \in Ids \ b.resting : b.order[j] = NoOrder
  /\ \A k \in Keys \ b.open : b.level[k] = NoLevel

LEMMA NoOrderType == NoOrder \in Orders /\ NoLevel \in Levels
  BY DEF NoOrder, NoLevel, Orders, Levels

LEMMA OrderExtensionality ==
  ASSUME NEW x \in Orders, NEW y \in Orders,
         x.side = y.side, x.price = y.price, x.qty = y.qty,
         x.prev = y.prev, x.next = y.next, x.level = y.level
  PROVE  x = y
  BY DEF Orders

LEMMA EmptyBookType == EmptyBook \in Books
  BY NoOrderType DEF EmptyBook, Books

LEMMA EmptyBookLinked == Linked(EmptyBook)
  BY DEF EmptyBook, Linked

\* The sets of orders of a level are finite.
LEMMA OrdersAtFinite ==
  ASSUME NEW b \in Books, NEW k
  PROVE  IsFiniteSet(OrdersAt(b, k)) /\ Cardinality(OrdersAt(b, k)) \in Nat
<1>1. OrdersAt(b, k) \subseteq Ids
  BY DEF OrdersAt, Books
<1> QED BY <1>1, FS_Subset, FS_CardinalityType

\* Reducing an order that keeps a positive quantity disturbs no list.
LEMMA ReduceWellFormed ==
  ASSUME NEW b, WellFormed(b), NEW i \in b.resting, NEW q \in Int,
         b.order[i].qty - q > 0
  PROVE  WellFormed(Reduce(b, i, q)) /\ Reduce(b, i, q).open = b.open
<1> DEFINE k == b.order[i].level
           c == Reduce(b, i, q)
<1>0. b \in Books /\ Linked(b) /\ Acyclic(b)
  BY DEF WellFormed
<1>1. i \in Ids /\ k \in b.open /\ k \in Keys
  BY <1>0 DEF Linked, OrderLinked, Placed, Books
<1>2. /\ b.order \in [Ids -> Orders] /\ b.level \in [Keys -> Levels]
      /\ b.resting \subseteq Ids /\ b.open \subseteq Keys
  BY <1>0 DEF Books
<1>a. b.order[i] \in Orders /\ b.level[k] \in Levels
  BY <1>1, <1>2
<1>3. b.order[i].qty - q \in Nat /\ b.level[k].qty - q \in Int
  BY <1>a DEF Orders, Levels
<1>b. b = [order |-> b.order, resting |-> b.resting, level |-> b.level, open |-> b.open]
  BY <1>0 DEF Books
<1>c. c.order = [b.order EXCEPT ![i] = [b.order[i] EXCEPT !.qty = b.order[i].qty - q]]
  BY <1>1, <1>2, <1>b DEF Reduce
<1>d. c.level = [b.level EXCEPT ![k] = [b.level[k] EXCEPT !.qty = b.level[k].qty - q]]
  BY <1>1, <1>2, <1>b DEF Reduce
<1>e. c.resting = b.resting /\ c.open = b.open
  BY <1>1, <1>2, <1>b DEF Reduce
<1>4. /\ c.order = [b.order EXCEPT ![i] = [b.order[i] EXCEPT !.qty = b.order[i].qty - q]]
      /\ c.level = [b.level EXCEPT ![k] = [b.level[k] EXCEPT !.qty = b.level[k].qty - q]]
      /\ c.resting = b.resting /\ c.open = b.open
  BY <1>c, <1>d, <1>e
<1>g. /\ [b.order[i] EXCEPT !.qty = b.order[i].qty - q] \in Orders
      /\ [b.level[k] EXCEPT !.qty = b.level[k].qty - q] \in Levels
  BY <1>a, <1>3 DEF Orders, Levels
<1>5. c.order \in [Ids -> Orders] /\ c.level \in [Keys -> Levels]
  <2>1. ASSUME NEW f \in [Ids -> Orders], NEW o \in Orders PROVE [f EXCEPT ![i] = o] \in [Ids -> Orders]
    OBVIOUS
  <2>2. ASSUME NEW f \in [Keys -> Levels], NEW l \in Levels PROVE [f EXCEPT ![k] = l] \in [Keys -> Levels]
    OBVIOUS
  <2>3. [b.order EXCEPT ![i] = [b.order[i] EXCEPT !.qty = b.order[i].qty - q]] \in [Ids -> Orders]
    BY <2>1, <1>2, <1>g
  <2>4. [b.level EXCEPT ![k] = [b.level[k] EXCEPT !.qty = b.level[k].qty - q]] \in [Keys -> Levels]
    BY <2>2, <1>2, <1>g
  <2>5. QED
    BY <2>3, <2>4, <1>c, <1>d
<1>6. c \in Books
  BY <1>1, <1>2, <1>4, <1>5, <1>b DEF Books, Reduce
<1> HIDE DEF c
<1>h. \A j \in Ids : c.order[j] = IF j = i THEN [b.order[i] EXCEPT !.qty = b.order[i].qty - q]
                                ELSE b.order[j]
  BY <1>1, <1>2, <1>4
<1>i. \A l \in Keys : c.level[l] = IF l = k THEN [b.level[k] EXCEPT !.qty = b.level[k].qty - q]
                                 ELSE b.level[l]
  BY <1>1, <1>2, <1>4
<1>7. ASSUME NEW j \in Ids
      PROVE  /\ c.order[j].level = b.order[j].level
             /\ c.order[j].prev = b.order[j].prev /\ c.order[j].next = b.order[j].next
             /\ c.order[j].side = b.order[j].side /\ c.order[j].price = b.order[j].price
             /\ j # i => c.order[j] = b.order[j]
  <2>1. b.order[j] \in Orders
    BY <1>2
  <2> QED BY <1>h, <2>1 DEF Orders
<1>8. ASSUME NEW l \in Keys
      PROVE  /\ c.level[l].head = b.level[l].head /\ c.level[l].tail = b.level[l].tail
             /\ c.level[l].count = b.level[l].count
             /\ l # k => c.level[l] = b.level[l]
  <2>1. b.level[l] \in Levels
    BY <1>2
  <2> QED BY <1>i, <2>1 DEF Levels
<1>9. \A l : OrdersAt(c, l) = OrdersAt(b, l)
  BY <1>2, <1>4, <1>7, SMTT(30) DEF OrdersAt
<1>10. \A j \in c.resting : OrderLinked(c, j)
  <2> SUFFICES ASSUME NEW j \in b.resting PROVE OrderLinked(c, j)
    BY <1>4
  <2>1. Placed(b, j) /\ PrevLinked(b, j) /\ NextLinked(b, j) /\ j \in Ids
    BY <1>0, <1>2 DEF Linked, OrderLinked
  <2>2. c.order[j].qty > 0
    BY <1>1, <1>2, <1>4, <1>7, <2>1 DEF Placed, Orders
  <2>3. Placed(c, j)
    BY <1>4, <1>7, <2>1, <2>2 DEF Placed
  <2>4. b.order[j].level \in Keys
    BY <1>2, <2>1 DEF Placed
  <2>a. /\ c.order[j].prev = b.order[j].prev /\ c.order[j].next = b.order[j].next
        /\ c.order[j].level = b.order[j].level
        /\ c.level[b.order[j].level].head = b.level[b.order[j].level].head
        /\ c.level[b.order[j].level].tail = b.level[b.order[j].level].tail
    BY <1>7, <1>8, <2>1, <2>4
  <2>5. PrevLinked(c, j)
    <3>1. CASE b.order[j].prev = Nil
      BY <2>1, <2>a, <3>1 DEF PrevLinked
    <3>2. CASE b.order[j].prev # Nil
      <4> DEFINE p == b.order[j].prev
      <4>1. p \in b.resting /\ b.order[p].next = j /\ b.order[p].level = b.order[j].level
        BY <2>1, <3>2 DEF PrevLinked
      <4>2. c.order[p].next = j /\ c.order[p].level = b.order[j].level
        BY <1>2, <1>7, <4>1
      <4> QED BY <1>4, <2>a, <3>2, <4>1, <4>2 DEF PrevLinked
    <3> QED BY <3>1, <3>2
  <2>6. NextLinked(c, j)
    <3>1. CASE b.order[j].next = Nil
      BY <2>1, <2>a, <3>1 DEF NextLinked
    <3>2. CASE b.order[j].next # Nil
      <4> DEFINE q1 == b.order[j].next
      <4>1. q1 \in b.resting /\ b.order[q1].prev = j /\ b.order[q1].level = b.order[j].level
        BY <2>1, <3>2 DEF NextLinked
      <4>2. c.order[q1].prev = j /\ c.order[q1].level = b.order[j].level
        BY <1>2, <1>7, <4>1
      <4> QED BY <1>4, <2>a, <3>2, <4>1, <4>2 DEF NextLinked
    <3> QED BY <3>1, <3>2
  <2> QED BY <2>3, <2>5, <2>6 DEF OrderLinked
<1>11. \A l \in c.open : LevelLinked(c, l)
  <2> SUFFICES ASSUME NEW l \in b.open PROVE LevelLinked(c, l)
    BY <1>4
  <2>1. LevelLinked(b, l) /\ l \in Keys
    BY <1>0, <1>2 DEF Linked
  <2>2. b.level[l].head \in Ids /\ b.level[l].tail \in Ids
    BY <2>1, <1>2 DEF LevelLinked, OrdersAt
  <2>3. c.order[b.level[l].head].prev = Nil /\ c.order[b.level[l].tail].next = Nil
    BY <1>7, <2>1, <2>2 DEF LevelLinked
  <2> QED BY <1>8, <1>9, <2>1, <2>3 DEF LevelLinked
<1>12. \A j \in Ids \ c.resting : c.order[j] = NoOrder
  BY <1>4, <1>0, <1>7 DEF Linked
<1>13. \A l \in Keys \ c.open : c.level[l] = NoLevel
  BY <1>1, <1>4, <1>0, <1>8, Zenon DEF Linked
<1>14. Acyclic(c)
  <2>1. PICK r \in [Ids -> Nat] : Ranked(b, r)
    BY <1>0 DEF Acyclic
  <2>2. Ranked(c, r)
    BY <1>2, <1>4, <1>7, <2>1 DEF Ranked
  <2> QED BY <2>2 DEF Acyclic
<1>15. WellFormed(c)
  BY <1>6, <1>10, <1>11, <1>12, <1>13, <1>14 DEF Linked, WellFormed
<1> QED BY <1>4, <1>15 DEF c

\* The least-number principle.
LEMMA LeastNatural ==
  ASSUME NEW T, T \subseteq Nat, T # {}
  PROVE  \E x \in T : \A y \in T : x <= y
<1>1. PICK x \in T : \A y \in T : ~ (<<y, x>> \in OpToRel(<, Nat))
  BY WFMin, NatLessThanWellFounded
<1>2. ASSUME NEW y \in T PROVE x <= y
  <2>1. x \in Nat /\ y \in Nat
    OBVIOUS
  <2>2. <<y, x>> \notin OpToRel(<, Nat)
    BY <1>1
  <2>3. ~ (y < x)
    BY <2>1, <2>2 DEF OpToRel
  <2> QED BY <2>1, <2>3
<1> QED BY <1>2

\* An order with no neighbour is the only one of its level: this is where rings
\* must be excluded, for a ring beside it would satisfy all the local conditions.
LEMMA AloneInLevel ==
  ASSUME NEW b, WellFormed(b), NEW i \in b.resting,
         b.order[i].prev = Nil, b.order[i].next = Nil
  PROVE  OrdersAt(b, b.order[i].level) = {i}
<1> DEFINE k == b.order[i].level
           S == OrdersAt(b, k) \ {i}
<1>1. /\ b.order \in [Ids -> Orders] /\ b.level \in [Keys -> Levels]
      /\ b.resting \subseteq Ids /\ b.open \subseteq Keys /\ i \in Ids
  BY DEF WellFormed, Books
<1>2. \A j \in b.resting : Placed(b, j) /\ PrevLinked(b, j) /\ NextLinked(b, j)
  BY DEF WellFormed, Linked, OrderLinked
<1>3. b.level[k].head = i
  BY <1>2 DEF PrevLinked
<1>4. ASSUME S # {} PROVE FALSE
  <2>1. PICK r \in [Ids -> Nat] : Ranked(b, r)
    BY DEF WellFormed, Acyclic
  <2>2. S \subseteq b.resting /\ S \subseteq Ids
    BY <1>1 DEF OrdersAt
  <2>3. PICK m \in S : \A y \in S : r[m] <= r[y]
    <3> DEFINE T == {r[y] : y \in S}
    <3>1. T \subseteq Nat
      BY <2>1, <2>2
    <3>a. T # {}
      BY <1>4
    <3>2. PICK x \in T : \A y \in T : x <= y
      BY <3>1, <3>a, LeastNatural
    <3> QED BY <3>2
  <2>4. m \in b.resting /\ b.order[m].level = k /\ m # i
    BY DEF OrdersAt
  <2>5. b.order[m].prev # Nil
    BY <1>2, <1>3, <2>4 DEF PrevLinked
  <2>6. /\ b.order[m].prev \in b.resting /\ b.order[b.order[m].prev].level = k
        /\ b.order[b.order[m].prev].next = m
    BY <1>2, <2>4, <2>5 DEF PrevLinked
  <2>7. b.order[m].prev # i
    BY <2>4, <2>6, <1>1
  <2>8. b.order[m].prev \in S
    BY <2>6, <2>7 DEF OrdersAt
  <2>9. r[b.order[m].prev] < r[m]
    BY <2>1, <2>4, <2>5 DEF Ranked
  <2>10. r[m] \in Nat /\ r[b.order[m].prev] \in Nat /\ r[m] <= r[b.order[m].prev]
    BY <2>1, <2>2, <2>3, <2>8
  <2> QED BY <2>9, <2>10
<1> QED BY <1>4 DEF OrdersAt

\* What the order objects old become when order i is taken out of its list.
LinkedAround(new, old, i) ==
  /\ \A j \in Ids : /\ new[j].side = old[j].side
                    /\ new[j].price = old[j].price
                    /\ new[j].qty = old[j].qty
  /\ new[i].level = Nil /\ new[i].prev = Nil /\ new[i].next = Nil
  /\ \A j \in Ids \ {i} :
       /\ new[j].level = old[j].level
       /\ new[j].next = IF j = old[i].prev THEN old[i].next ELSE old[j].next
       /\ new[j].prev = IF j = old[i].next THEN old[i].prev ELSE old[j].prev

\* What UnlinkOrder does to the order objects.
LEMMA BypassedFields ==
  ASSUME NEW b, WellFormed(b), NEW i \in b.resting
  PROVE  /\ Bypassed(b.order, i) \in [Ids -> Orders]
         /\ LinkedAround(Bypassed(b.order, i), b.order, i)
<1> DEFINE p == b.order[i].prev
           n == b.order[i].next
           new(j) == IF j = i THEN [b.order[i] EXCEPT !.prev = Nil, !.next = Nil, !.level = Nil]
                     ELSE [b.order[j] EXCEPT !.next = IF j = p THEN n ELSE @,
                                             !.prev = IF j = n THEN p ELSE @]
<1>1. b.order \in [Ids -> Orders] /\ b.resting \subseteq Ids /\ i \in Ids
  BY DEF WellFormed, Books
<1>2. p \in Ids \cup {Nil} /\ n \in Ids \cup {Nil}
  BY <1>1 DEF Orders
<1>3. ASSUME NEW j \in Ids
      PROVE  /\ new(j) \in Orders
             /\ new(j).side = b.order[j].side /\ new(j).price = b.order[j].price
             /\ new(j).qty = b.order[j].qty
             /\ j = i => new(j).level = Nil /\ new(j).prev = Nil /\ new(j).next = Nil
             /\ j # i => /\ new(j).level = b.order[j].level
                         /\ new(j).next = IF j = p THEN n ELSE b.order[j].next
                         /\ new(j).prev = IF j = n THEN p ELSE b.order[j].prev
  <2>1. b.order[j] \in Orders
    BY <1>1
  <2> QED BY <1>2, <2>1 DEF Orders
<1>4. Bypassed(b.order, i) = [j \in Ids |-> new(j)]
  BY DEF Bypassed
<1> HIDE DEF new
<1>5. \A j \in Ids : Bypassed(b.order, i)[j] = new(j)
  BY <1>4
<1>6. Bypassed(b.order, i) \in [Ids -> Orders]
  BY <1>3, <1>4
<1>7. LinkedAround(Bypassed(b.order, i), b.order, i)
  BY <1>1, <1>3, <1>5 DEF LinkedAround
<1> QED BY <1>6, <1>7

\* What UnlinkOrder does to the book.
LEMMA UnlinkFields ==
  ASSUME NEW b, WellFormed(b), NEW i \in b.resting
  PROVE  LET me == b.order[i]
             k  == me.level
             lv == b.level[k]
             c  == UnlinkOrder(b, i)
         IN  /\ c \in Books
             /\ c.order = Bypassed(b.order, i)
             /\ c.resting = b.resting
             /\ c.open = IF lv.count = 1 THEN b.open \ {k} ELSE b.open
             /\ c.level = [b.level EXCEPT ![k] =
                             IF lv.count = 1 THEN NoLevel
                             ELSE [head  |-> IF me.prev # Nil THEN lv.head ELSE me.next,
                                   tail  |-> IF me.next # Nil THEN lv.tail ELSE me.prev,
                                   qty   |-> lv.qty - me.qty,
                                   count |-> lv.count - 1]]
<1> DEFINE me == b.order[i]
           k  == me.level
           lv == b.level[k]
           rec == [head  |-> IF me.prev # Nil THEN lv.head ELSE me.next,
                   tail  |-> IF me.next # Nil THEN lv.tail ELSE me.prev,
                   qty   |-> lv.qty - me.qty,
                   count |-> lv.count - 1]
           u == [b EXCEPT !.order = Bypassed(b.order, i), !.level[k] = rec]
           c == UnlinkOrder(b, i)
<1>1. /\ b.order \in [Ids -> Orders] /\ b.level \in [Keys -> Levels]
      /\ b.resting \subseteq Ids /\ b.open \subseteq Keys /\ i \in Ids
      /\ b = [order |-> b.order, resting |-> b.resting, level |-> b.level, open |-> b.open]
  BY DEF WellFormed, Books
<1>2. Placed(b, i)
  BY DEF WellFormed, Linked, OrderLinked
<1>3. k \in Keys /\ k = <<me.side, me.price>> /\ <<me.side, k[2]>> = k
  BY <1>1, <1>2 DEF Placed
<1>4. me \in Orders /\ lv \in Levels
  BY <1>1, <1>3
<1>5. rec \in Levels
  BY <1>4 DEF Orders, Levels
<1>6. Bypassed(b.order, i) \in [Ids -> Orders]
  BY BypassedFields
<1>7. /\ u.order = Bypassed(b.order, i) /\ u.resting = b.resting /\ u.open = b.open
      /\ u.level = [b.level EXCEPT ![k] = rec]
      /\ u \in Books
  <2>1. u.order = Bypassed(b.order, i) /\ u.level = [b.level EXCEPT ![k] = rec]
    BY <1>1
  <2>2. u.resting = b.resting /\ u.open = b.open
    BY <1>1
  <2>3. [b.level EXCEPT ![k] = rec] \in [Keys -> Levels]
    BY <1>1, <1>5
  <2>4. u \in Books
    BY <1>1, <1>6, <2>3, Zenon DEF Books
  <2> QED BY <2>1, <2>2, <2>4
<1>8. lv.count - 1 = 0 <=> lv.count = 1
  BY <1>4 DEF Levels
<1>9. c = IF lv.count = 1 THEN RemoveLevel(u, k) ELSE u
  BY <1>3, <1>8 DEF UnlinkOrder
<1>10. CASE lv.count = 1
  <2>1. [[b.level EXCEPT ![k] = rec] EXCEPT ![k] = NoLevel] = [b.level EXCEPT ![k] = NoLevel]
    BY <1>1, <1>3, SMTT(30)
  <2>2. [u.level EXCEPT ![k] = NoLevel] \in [Keys -> Levels]
    BY <1>1, <1>7, <2>1, NoOrderType, Zenon
  <2> HIDE DEF u
  <2>3. u = [order |-> u.order, resting |-> u.resting, level |-> u.level, open |-> u.open]
    BY <1>7 DEF Books
  <2>4. /\ RemoveLevel(u, k).order = u.order /\ RemoveLevel(u, k).resting = u.resting
        /\ RemoveLevel(u, k).open = u.open \ {k}
    BY <2>3 DEF RemoveLevel
  <2>5. RemoveLevel(u, k).level = [u.level EXCEPT ![k] = NoLevel]
    BY <2>3 DEF RemoveLevel
  <2>6. RemoveLevel(u, k) \in Books
    BY <1>7, <2>2, <2>3, Zenon DEF Books, RemoveLevel
  <2> QED BY <1>7, <1>9, <1>10, <2>1, <2>4, <2>5, <2>6
<1>11. CASE lv.count # 1
  BY <1>7, <1>9, <1>11
<1> QED BY <1>10, <1>11

\* Unlinking an order leaves every other list sound, and no empty level.
LEMMA UnlinkDetaches ==
  ASSUME NEW b, WellFormed(b), NEW i \in b.resting
  PROVE  Detached(UnlinkOrder(b, i), i) /\ Acyclic(UnlinkOrder(b, i))
<1> DEFINE me == b.order[i]
           k  == me.level
           lv == b.level[k]
           c  == UnlinkOrder(b, i)
<1>1. /\ b.order \in [Ids -> Orders] /\ b.level \in [Keys -> Levels]
      /\ b.resting \subseteq Ids /\ b.open \subseteq Keys /\ i \in Ids
  BY DEF WellFormed, Books
<1>2. \A j \in b.resting : Placed(b, j) /\ PrevLinked(b, j) /\ NextLinked(b, j)
  BY DEF WellFormed, Linked, OrderLinked
<1>3. k \in Keys /\ k \in b.open /\ me \in Orders /\ lv \in Levels
  BY <1>1, <1>2 DEF Placed
<1>4. \A l \in b.open : LevelLinked(b, l)
  BY DEF WellFormed, Linked
<1>5. /\ c \in Books
      /\ c.order = Bypassed(b.order, i)
      /\ c.resting = b.resting
      /\ c.open = IF lv.count = 1 THEN b.open \ {k} ELSE b.open
      /\ c.level = [b.level EXCEPT ![k] =
                      IF lv.count = 1 THEN NoLevel
                      ELSE [head  |-> IF me.prev # Nil THEN lv.head ELSE me.next,
                            tail  |-> IF me.next # Nil THEN lv.tail ELSE me.prev,
                            qty   |-> lv.qty - me.qty,
                            count |-> lv.count - 1]]
  BY UnlinkFields, Zenon
<1> HIDE DEF c
<1>6. /\ \A j \in Ids : /\ c.order[j].side = b.order[j].side
                        /\ c.order[j].price = b.order[j].price
                        /\ c.order[j].qty = b.order[j].qty
      /\ c.order[i].level = Nil /\ c.order[i].prev = Nil /\ c.order[i].next = Nil
      /\ \A j \in Ids \ {i} :
           /\ c.order[j].level = b.order[j].level
           /\ c.order[j].next = IF j = me.prev THEN me.next ELSE b.order[j].next
           /\ c.order[j].prev = IF j = me.next THEN me.prev ELSE b.order[j].prev
  <2>1. LinkedAround(c.order, b.order, i)
    BY <1>5, BypassedFields
  <2> QED BY <2>1 DEF LinkedAround
<1>7. PICK r \in [Ids -> Nat] : Ranked(b, r)
  BY DEF WellFormed, Acyclic
<1>8. \* the neighbours of i are not i, and are of its level
      /\ me.prev # Nil => /\ me.prev \in b.resting \ {i} /\ b.order[me.prev].next = i
                          /\ b.order[me.prev].level = k
      /\ me.next # Nil => /\ me.next \in b.resting \ {i} /\ b.order[me.next].prev = i
                          /\ b.order[me.next].level = k
  <2>1. ASSUME me.prev # Nil
        PROVE  me.prev \in b.resting \ {i} /\ b.order[me.prev].next = i
               /\ b.order[me.prev].level = k
    <3>1. PrevLinked(b, i)
      BY <1>2
    <3>2. /\ me.prev \in b.resting /\ b.order[me.prev].next = i
          /\ b.order[me.prev].level = k
      BY <2>1, <3>1 DEF PrevLinked
    <3>3. r[me.prev] < r[i] /\ r[i] \in Nat
      BY <1>1, <1>7, <2>1 DEF Ranked
    <3> QED BY <3>2, <3>3
  <2>2. ASSUME me.next # Nil
        PROVE  me.next \in b.resting \ {i} /\ b.order[me.next].prev = i
               /\ b.order[me.next].level = k
    <3>1. NextLinked(b, i)
      BY <1>2
    <3>2. /\ me.next \in b.resting /\ b.order[me.next].prev = i
          /\ b.order[me.next].level = k
      BY <2>2, <3>1 DEF NextLinked
    <3>3. i # Nil
      BY <1>1
    <3>4. r[i] < r[me.next] /\ r[i] \in Nat
      BY <1>1, <1>7, <3>2, <3>3 DEF Ranked
    <3> QED BY <3>2, <3>4
  <2> QED BY <2>1, <2>2
<1>9. \A l \in Keys \ {k} : c.level[l] = b.level[l] /\ OrdersAt(c, l) = OrdersAt(b, l)
  <2> SUFFICES ASSUME NEW l \in Keys \ {k}
               PROVE  c.level[l] = b.level[l] /\ OrdersAt(c, l) = OrdersAt(b, l)
    OBVIOUS
  <2>1. c.level[l] = b.level[l]
    BY <1>1, <1>3, <1>5
  <2>2. ASSUME NEW j \in b.resting
        PROVE  c.order[j].level = l <=> b.order[j].level = l
    <3>1. CASE j = i
      BY <1>3, <1>6, <3>1
    <3>2. CASE j # i
      <4>1. j \in Ids \ {i}
        BY <1>1, <3>2
      <4>2. c.order[j].level = b.order[j].level
        BY <1>6, <4>1
      <4> QED BY <4>2
    <3> QED BY <3>1, <3>2
  <2> QED BY <1>5, <2>1, <2>2 DEF OrdersAt
<1>10. OrdersAt(c, k) = OrdersAt(b, k) \ {i} /\ i \in OrdersAt(b, k)
  <2>1. c.order[i].level # k
    BY <1>3, <1>6
  <2>2. \A j \in b.resting \ {i} : c.order[j].level = k <=> b.order[j].level = k
    BY <1>1, <1>6
  <2> HIDE DEF k
  <2>3. OrdersAt(c, k) = OrdersAt(b, k) \ {i}
    BY <1>5, <2>1, <2>2 DEF OrdersAt
  <2> QED BY <2>3 DEF OrdersAt, k
<1>11. lv.count = Cardinality(OrdersAt(b, k)) /\ IsFiniteSet(OrdersAt(b, k))
  BY <1>3, <1>4, OrdersAtFinite DEF LevelLinked, WellFormed
<1> HIDE DEF k, lv, me
<1>12. Cardinality(OrdersAt(c, k)) = lv.count - 1
  BY <1>10, <1>11, FS_RemoveElement
<1>13. lv.count = 1 => OrdersAt(b, k) = {i}
  <2> SUFFICES ASSUME lv.count = 1 PROVE OrdersAt(b, k) = {i}
    OBVIOUS
  <2>1. PICK x : OrdersAt(b, k) = {x}
    BY <1>11, FS_Singleton
  <2> QED BY <1>10, <2>1
<1>14. lv.count # 1 => me.prev # Nil \/ me.next # Nil
  <2>1. me.prev = Nil /\ me.next = Nil => OrdersAt(b, k) = {i}
    BY AloneInLevel DEF me, k
  <2> QED BY <1>11, <2>1, FS_Singleton
<1>15. k # Nil /\ i # Nil
  BY <1>1, <1>3
<1>16. c.order \in [Ids -> Orders] /\ c.level \in [Keys -> Levels]
  BY <1>5 DEF Books
<1>17. lv.count # 1 => /\ c.open = b.open
                       /\ c.level[k].head = IF me.prev # Nil THEN lv.head ELSE me.next
                       /\ c.level[k].tail = IF me.next # Nil THEN lv.tail ELSE me.prev
                       /\ c.level[k].count = lv.count - 1
  BY <1>1, <1>3, <1>5
<1>18. lv.count = 1 => c.open = b.open \ {k} /\ c.level[k] = NoLevel
  BY <1>1, <1>3, <1>5
<1>19. ASSUME NEW j \in b.resting \ {i}, b.order[j].level # k
       PROVE  OrderLinked(c, j)
  <2>1. Placed(b, j) /\ PrevLinked(b, j) /\ NextLinked(b, j) /\ j \in Ids
    BY <1>1, <1>2
  <2>2. /\ c.order[j].level = b.order[j].level /\ c.order[j].prev = b.order[j].prev
        /\ c.order[j].next = b.order[j].next
        /\ b.order[j].level \in Keys \ {k}
    BY <1>1, <1>6, <1>8, <1>15, <1>19, <2>1 DEF Placed
  <2>3. c.level[b.order[j].level] = b.level[b.order[j].level]
    BY <1>9, <2>2
  <2>4. Placed(c, j)
    BY <1>5, <1>6, <2>1, <2>2 DEF Placed
  <2>5. PrevLinked(c, j)
    <3>1. CASE b.order[j].prev = Nil
      BY <2>1, <2>2, <2>3, <3>1 DEF PrevLinked
    <3>2. CASE b.order[j].prev # Nil
      <4> DEFINE q == b.order[j].prev
      <4>1. q \in b.resting /\ b.order[q].next = j /\ b.order[q].level = b.order[j].level
        BY <2>1, <3>2 DEF PrevLinked
      <4>2. q # i /\ q # me.prev
        BY <1>8, <1>15, <1>19, <3>2, <4>1 DEF k, me
      <4>3. c.order[q].next = j /\ c.order[q].level = b.order[j].level
        BY <1>1, <1>6, <4>1, <4>2
      <4> QED BY <1>5, <2>2, <3>2, <4>1, <4>3 DEF PrevLinked
    <3> QED BY <3>1, <3>2
  <2>6. NextLinked(c, j)
    <3>1. CASE b.order[j].next = Nil
      BY <2>1, <2>2, <2>3, <3>1 DEF NextLinked
    <3>2. CASE b.order[j].next # Nil
      <4> DEFINE q == b.order[j].next
      <4>1. q \in b.resting /\ b.order[q].prev = j /\ b.order[q].level = b.order[j].level
        BY <2>1, <3>2 DEF NextLinked
      <4>2. q # i /\ q # me.next
        BY <1>8, <1>15, <1>19, <3>2, <4>1 DEF k, me
      <4>3. c.order[q].prev = j /\ c.order[q].level = b.order[j].level
        BY <1>1, <1>6, <4>1, <4>2
      <4> QED BY <1>5, <2>2, <3>2, <4>1, <4>3 DEF NextLinked
    <3> QED BY <3>1, <3>2
  <2> QED BY <2>4, <2>5, <2>6 DEF OrderLinked
<1>20. ASSUME NEW j \in b.resting \ {i}, b.order[j].level = k
       PROVE  OrderLinked(c, j)
  <2>1. Placed(b, j) /\ PrevLinked(b, j) /\ NextLinked(b, j) /\ j \in Ids /\ j # Nil
    BY <1>1, <1>2
  <2>2. lv.count # 1
    BY <1>13, <1>20 DEF OrdersAt
  <2>3. c.order[j].level = k
    BY <1>6, <1>20, <2>1
  <2>4. Placed(c, j)
    BY <1>5, <1>6, <1>17, <1>20, <2>1, <2>2 DEF Placed
  <2>5. PrevLinked(c, j)
    <3>1. CASE j = me.next
      <4>1. c.order[j].prev = me.prev
        BY <1>6, <2>1, <3>1
      <4>2. CASE me.prev = Nil
        BY <1>17, <2>2, <2>3, <3>1, <4>1, <4>2 DEF PrevLinked
      <4>3. CASE me.prev # Nil
        <5>1. /\ me.prev \in b.resting /\ c.order[me.prev].next = j
              /\ c.order[me.prev].level = k
          BY <1>1, <1>6, <1>8, <3>1, <4>3
        <5> QED BY <1>5, <2>3, <4>1, <4>3, <5>1 DEF PrevLinked
      <4> QED BY <4>2, <4>3
    <3>2. CASE j # me.next
      <4>1. c.order[j].prev = b.order[j].prev
        BY <1>6, <2>1, <3>2
      <4>2. CASE b.order[j].prev = Nil
        <5>1. lv.head = j
          BY <1>20, <2>1, <4>2 DEF PrevLinked, lv
        <5>2. me.prev # Nil
          BY <1>2, <5>1, <2>1, <1>20 DEF PrevLinked, me, lv, k
        <5> QED BY <1>17, <2>2, <2>3, <4>1, <4>2, <5>1, <5>2 DEF PrevLinked
      <4>3. CASE b.order[j].prev # Nil
        <5> DEFINE q == b.order[j].prev
        <5>1. q \in b.resting /\ b.order[q].next = j /\ b.order[q].level = k
          BY <1>20, <2>1, <4>3 DEF PrevLinked
        <5>2. q # i /\ q # me.prev
          BY <1>8, <3>2, <4>3, <5>1, <1>20 DEF me
        <5>3. c.order[q].next = j /\ c.order[q].level = k
          BY <1>1, <1>6, <5>1, <5>2
        <5> QED BY <1>5, <2>3, <4>1, <4>3, <5>1, <5>3 DEF PrevLinked
      <4> QED BY <4>2, <4>3
    <3> QED BY <3>1, <3>2
  <2>6. NextLinked(c, j)
    <3>1. CASE j = me.prev
      <4>1. c.order[j].next = me.next
        BY <1>6, <2>1, <3>1
      <4>2. CASE me.next = Nil
        BY <1>17, <2>2, <2>3, <3>1, <4>1, <4>2 DEF NextLinked
      <4>3. CASE me.next # Nil
        <5>1. /\ me.next \in b.resting /\ c.order[me.next].prev = j
              /\ c.order[me.next].level = k
          BY <1>1, <1>6, <1>8, <3>1, <4>3
        <5> QED BY <1>5, <2>3, <4>1, <4>3, <5>1 DEF NextLinked
      <4> QED BY <4>2, <4>3
    <3>2. CASE j # me.prev
      <4>1. c.order[j].next = b.order[j].next
        BY <1>6, <2>1, <3>2
      <4>2. CASE b.order[j].next = Nil
        <5>1. lv.tail = j
          BY <1>20, <2>1, <4>2 DEF NextLinked, lv
        <5>2. me.next # Nil
          BY <1>2, <5>1, <2>1, <1>20 DEF NextLinked, me, lv, k
        <5> QED BY <1>17, <2>2, <2>3, <4>1, <4>2, <5>1, <5>2 DEF NextLinked
      <4>3. CASE b.order[j].next # Nil
        <5> DEFINE q == b.order[j].next
        <5>1. q \in b.resting /\ b.order[q].prev = j /\ b.order[q].level = k
          BY <1>20, <2>1, <4>3 DEF NextLinked
        <5>2. q # i /\ q # me.next
          BY <1>8, <3>2, <4>3, <5>1, <1>20 DEF me
        <5>3. c.order[q].prev = j /\ c.order[q].level = k
          BY <1>1, <1>6, <5>1, <5>2
        <5> QED BY <1>5, <2>3, <4>1, <4>3, <5>1, <5>3 DEF NextLinked
      <4> QED BY <4>2, <4>3
    <3> QED BY <3>1, <3>2
  <2> QED BY <2>4, <2>5, <2>6 DEF OrderLinked
<1>21. ASSUME NEW l \in c.open PROVE LevelLinked(c, l)
  <2>1. CASE l # k
    <3>1. l \in b.open /\ l \in Keys \ {k}
      BY <1>1, <1>5, <2>1
    <3>2. LevelLinked(b, l) /\ c.level[l] = b.level[l] /\ OrdersAt(c, l) = OrdersAt(b, l)
      BY <1>4, <1>9, <3>1
    <3>3. /\ b.level[l].head \in Ids \ {i} /\ b.order[b.level[l].head].level = l
          /\ b.level[l].tail \in Ids \ {i} /\ b.order[b.level[l].tail].level = l
      BY <1>1, <2>1, <3>2 DEF LevelLinked, OrdersAt, k, me
    <3>4. b.level[l].head # me.next /\ b.level[l].tail # me.prev
      BY <1>1, <1>8, <2>1, <3>3
    <3>5. /\ c.order[b.level[l].head].prev = Nil
          /\ c.order[b.level[l].tail].next = Nil
      BY <1>6, <3>2, <3>3, <3>4 DEF LevelLinked
    <3> QED BY <3>2, <3>5 DEF LevelLinked
  <2>2. CASE l = k
    <3>1. lv.count # 1
      BY <1>18, <2>2
    <3>2. /\ lv.head \in b.resting /\ b.order[lv.head].level = k /\ b.order[lv.head].prev = Nil
          /\ lv.tail \in b.resting /\ b.order[lv.tail].level = k /\ b.order[lv.tail].next = Nil
      BY <1>3, <1>4 DEF LevelLinked, OrdersAt, lv
    <3>3. /\ c.level[k].head \in OrdersAt(c, k)
          /\ c.order[c.level[k].head].prev = Nil
      <4>1. CASE me.prev # Nil
        <5>a. c.level[k].head = lv.head
          BY <1>17, <3>1, <4>1
        <5>b. lv.head \in Ids \ {i}
          BY <1>1, <1>15, <3>2, <4>1 DEF me
        <5>c. lv.head # me.next
          BY <1>1, <1>8, <3>2 DEF me
        <5>1. c.level[k].head = lv.head /\ lv.head \in Ids \ {i} /\ lv.head # me.next
          BY <5>a, <5>b, <5>c
        <5>2. c.order[lv.head].prev = Nil /\ c.order[lv.head].level = k
          BY <1>6, <3>2, <5>1
        <5> HIDE DEF c, lv, me, k
        <5> QED BY <1>10, <3>2, <5>1, <5>2 DEF OrdersAt
      <4>2. CASE me.prev = Nil
        <5>1. c.level[k].head = me.next /\ me.next # Nil
          BY <1>14, <1>17, <3>1, <4>2
        <5>2. me.next \in b.resting \ {i} /\ b.order[me.next].level = k /\ me.next \in Ids
          BY <1>1, <1>8, <5>1
        <5> QED BY <1>6, <1>10, <4>2, <5>1, <5>2 DEF OrdersAt
      <4> QED BY <4>1, <4>2
    <3>4. /\ c.level[k].tail \in OrdersAt(c, k)
          /\ c.order[c.level[k].tail].next = Nil
      <4>1. CASE me.next # Nil
        <5>a. c.level[k].tail = lv.tail
          BY <1>17, <3>1, <4>1
        <5>b. lv.tail \in Ids \ {i}
          BY <1>1, <1>15, <3>2, <4>1 DEF me
        <5>c. lv.tail # me.prev
          BY <1>1, <1>8, <3>2 DEF me
        <5>1. c.level[k].tail = lv.tail /\ lv.tail \in Ids \ {i} /\ lv.tail # me.prev
          BY <5>a, <5>b, <5>c
        <5>2. c.order[lv.tail].next = Nil /\ c.order[lv.tail].level = k
          BY <1>6, <3>2, <5>1
        <5> HIDE DEF c, lv, me, k
        <5> QED BY <1>10, <3>2, <5>1, <5>2 DEF OrdersAt
      <4>2. CASE me.next = Nil
        <5>1. c.level[k].tail = me.prev /\ me.prev # Nil
          BY <1>14, <1>17, <3>1, <4>2
        <5>2. me.prev \in b.resting \ {i} /\ b.order[me.prev].level = k /\ me.prev \in Ids
          BY <1>1, <1>8, <5>1
        <5> QED BY <1>6, <1>10, <4>2, <5>1, <5>2 DEF OrdersAt
      <4> QED BY <4>1, <4>2
    <3> QED BY <1>12, <1>17, <2>2, <3>1, <3>3, <3>4 DEF LevelLinked
  <2> QED BY <2>1, <2>2
<1>22. \A j \in Ids \ c.resting : c.order[j] = NoOrder
  <2> SUFFICES ASSUME NEW j \in Ids \ b.resting PROVE c.order[j] = NoOrder
    BY <1>5
  <2>1. b.order[j] = NoOrder /\ j # i /\ j # me.prev /\ j # me.next
    BY <1>1, <1>8, <1>15 DEF WellFormed, Linked
  <2>2. c.order[j] \in Orders /\ b.order[j] \in Orders
    BY <1>1, <1>16
  <2>3. /\ c.order[j].side = b.order[j].side /\ c.order[j].price = b.order[j].price
        /\ c.order[j].qty = b.order[j].qty /\ c.order[j].prev = b.order[j].prev
        /\ c.order[j].next = b.order[j].next /\ c.order[j].level = b.order[j].level
    BY <1>6, <2>1
  <2> QED BY <2>1, <2>2, <2>3, OrderExtensionality
<1>23. ASSUME NEW l \in Keys \ c.open PROVE c.level[l] = NoLevel
  <2>1. CASE l = k
    BY <1>3, <1>17, <1>18, <1>23, <2>1
  <2>2. CASE l # k
    <3>1. l \notin b.open
      BY <1>5, <1>23, <2>2
    <3>2. b.level[l] = NoLevel
      BY <1>23, <3>1 DEF WellFormed, Linked
    <3> QED BY <1>9, <1>23, <2>2, <3>2
  <2> QED BY <2>1, <2>2
<1>24. Detached(c, i)
  BY <1>5, <1>6, <1>19, <1>20, <1>21, <1>22, <1>23 DEF Detached
<1>25. Ranked(c, r)
  <2> SUFFICES ASSUME NEW j \in b.resting, c.order[j].prev # Nil
               PROVE  r[c.order[j].prev] < r[j]
    BY <1>5 DEF Ranked
  <2>1. j # i /\ j \in Ids
    BY <1>1, <1>6
  <2>2. CASE j = me.next
    <3>1. c.order[j].prev = me.prev /\ me.prev # Nil /\ me.prev \in Ids
      BY <1>1, <1>6, <1>8, <2>1, <2>2
    <3>2. r[me.prev] < r[i]
      BY <1>7, <3>1 DEF Ranked, me
    <3>3. r[i] < r[j]
      BY <1>1, <1>7, <1>8, <1>15, <2>1, <2>2 DEF Ranked
    <3>4. r[me.prev] \in Nat /\ r[i] \in Nat /\ r[j] \in Nat
      BY <1>1, <1>7, <2>1, <3>1
    <3> QED BY <3>1, <3>2, <3>3, <3>4
  <2>3. CASE j # me.next
    BY <1>6, <1>7, <2>1, <2>3 DEF Ranked
  <2> QED BY <2>2, <2>3
<1> QED BY <1>7, <1>24, <1>25 DEF Acyclic, c

\* What the book c is when order i of book d has been put at the end of level k.
LinkedBehind(c, d, i, k) ==
  LET lv == d.level[k]
  IN  /\ c \in Books
      /\ c.resting = d.resting
      /\ c.open = d.open \cup {k}
      /\ c.level = [d.level EXCEPT ![k] =
                      [head  |-> IF lv.tail # Nil THEN lv.head ELSE i,
                       tail  |-> i,
                       qty   |-> lv.qty + d.order[i].qty,
                       count |-> lv.count + 1]]
      /\ c.order[i].level = k /\ c.order[i].prev = lv.tail /\ c.order[i].next = Nil
      /\ \A j \in Ids : /\ c.order[j].side = d.order[j].side
                        /\ c.order[j].price = d.order[j].price
                        /\ c.order[j].qty = d.order[j].qty
      /\ \A j \in Ids \ {i} :
           /\ c.order[j].level = d.order[j].level
           /\ c.order[j].prev = d.order[j].prev
           /\ c.order[j].next = IF j = lv.tail THEN i ELSE d.order[j].next
           /\ j # lv.tail => c.order[j] = d.order[j]

\* What FindOrCreateLevel and LinkOrder do to a book with a detached order.
LEMMA LinkFields ==
  ASSUME NEW d \in Books, NEW i, Detached(d, i), NEW k \in Keys
  PROVE  LinkedBehind(LinkOrder(FindOrCreateLevel(d, k), i, k), d, i, k)
<1> DEFINE lv == d.level[k]
           f  == FindOrCreateLevel(d, k)
           c  == LinkOrder(f, i, k)
           rec == [head  |-> IF lv.tail # Nil THEN lv.head ELSE i,
                   tail  |-> i,
                   qty   |-> lv.qty + d.order[i].qty,
                   count |-> lv.count + 1]
           pointed == [d.order EXCEPT ![i].level = k, ![i].prev = lv.tail, ![i].next = Nil]
           relinked == IF lv.tail # Nil THEN [pointed EXCEPT ![lv.tail].next = i] ELSE pointed
<1>1. /\ d.order \in [Ids -> Orders] /\ d.level \in [Keys -> Levels]
      /\ d.resting \subseteq Ids /\ d.open \subseteq Keys /\ i \in Ids
      /\ d = [order |-> d.order, resting |-> d.resting, level |-> d.level, open |-> d.open]
  BY DEF Books, Detached
<1>2. /\ lv \in Levels /\ d.order[i] \in Orders
      /\ lv.tail \in Ids \cup {Nil} /\ lv.head \in Ids \cup {Nil}
  BY <1>1 DEF Levels
<1>3. k \notin d.open => lv = NoLevel
  BY DEF Detached
<1>4. lv.tail # i
  <2>1. CASE k \in d.open
    <3>1. lv.tail \in OrdersAt(d, k)
      BY <2>1 DEF Detached, LevelLinked
    <3>2. d.order[i].level # k
      BY DEF Detached
    <3> QED BY <3>1, <3>2 DEF OrdersAt
  <2>2. CASE k \notin d.open
    BY <1>1, <1>3, <2>2 DEF NoLevel
  <2> QED BY <2>1, <2>2
<1>5. /\ f.order = d.order /\ f.resting = d.resting /\ f.level[k] = lv
      /\ f.open = d.open \cup {k}
      /\ \A x : [f.level EXCEPT ![k] = x] = [d.level EXCEPT ![k] = x]
      /\ f = [order |-> f.order, resting |-> f.resting, level |-> f.level, open |-> f.open]
  <2>1. CASE k \in d.open
    BY <1>1, <2>1 DEF FindOrCreateLevel
  <2>2. CASE k \notin d.open
    <3>1. f = [d EXCEPT !.open = @ \cup {k}, !.level[k] = NoLevel]
      BY <2>2 DEF FindOrCreateLevel
    <3>2. /\ f.order = d.order /\ f.resting = d.resting /\ f.open = d.open \cup {k}
          /\ f.level = [d.level EXCEPT ![k] = NoLevel]
      BY <1>1, <3>1
    <3>3. [d.level EXCEPT ![k] = NoLevel] \in [Keys -> Levels]
      BY <1>1, NoOrderType
    <3>a. d.open \cup {k} \in SUBSET Keys
      BY <1>1
    <3>4. f \in Books
      BY <1>1, <3>1, <3>3, <3>a DEF Books
    <3> HIDE DEF f
    <3>5. f = [order |-> f.order, resting |-> f.resting, level |-> f.level, open |-> f.open]
      BY <3>4 DEF Books
    <3>6. f.level[k] = lv
      BY <1>1, <1>3, <2>2, <3>2
    <3>7. \A x : [f.level EXCEPT ![k] = x] = [d.level EXCEPT ![k] = x]
      BY <1>1, <3>2
    <3> QED BY <3>2, <3>5, <3>6, <3>7
  <2> QED BY <2>1, <2>2
<1> HIDE DEF f
<1>6. c = [f EXCEPT !.order = relinked, !.level[k] = rec]
  BY <1>5 DEF LinkOrder
<1>7. /\ c.order = relinked /\ c.resting = d.resting /\ c.open = d.open \cup {k}
      /\ c.level = [d.level EXCEPT ![k] = rec]
  BY <1>5, <1>6
<1>8. rec \in Levels
  BY <1>1, <1>2 DEF Levels, Orders
<1>9. pointed \in [Ids -> Orders]
  <2>1. [d.order[i] EXCEPT !.level = k, !.prev = lv.tail, !.next = Nil] \in Orders
    BY <1>2 DEF Orders
  <2>2. pointed = [d.order EXCEPT ![i] =
                     [d.order[i] EXCEPT !.level = k, !.prev = lv.tail, !.next = Nil]]
    BY <1>1
  <2> QED BY <1>1, <2>1, <2>2
<1>10. /\ pointed[i].level = k /\ pointed[i].prev = lv.tail /\ pointed[i].next = Nil
       /\ pointed[i].side = d.order[i].side /\ pointed[i].price = d.order[i].price
       /\ pointed[i].qty = d.order[i].qty
       /\ \A j \in Ids \ {i} : pointed[j] = d.order[j]
  BY <1>1, <1>2 DEF Orders
<1> HIDE DEF pointed
<1>11. relinked \in [Ids -> Orders]
  <2>1. CASE lv.tail # Nil
    <3>1. lv.tail \in Ids /\ pointed[lv.tail] \in Orders
      BY <1>2, <1>9, <2>1
    <3>2. [pointed[lv.tail] EXCEPT !.next = i] \in Orders
      BY <1>1, <3>1 DEF Orders
    <3>3. relinked = [pointed EXCEPT ![lv.tail] = [pointed[lv.tail] EXCEPT !.next = i]]
      BY <2>1
    <3> QED BY <1>9, <3>1, <3>2, <3>3
  <2>2. CASE lv.tail = Nil
    BY <1>9, <2>2
  <2> QED BY <2>1, <2>2
<1>12. ASSUME NEW j \in Ids
       PROVE  /\ j # lv.tail => relinked[j] = pointed[j]
              /\ j = lv.tail => /\ relinked[j].next = i
                                /\ relinked[j].side = pointed[j].side
                                /\ relinked[j].price = pointed[j].price
                                /\ relinked[j].qty = pointed[j].qty
                                /\ relinked[j].prev = pointed[j].prev
                                /\ relinked[j].level = pointed[j].level
  <2>1. pointed[j] \in Orders /\ j # Nil
    BY <1>9
  <2> QED BY <1>9, <2>1 DEF Orders
<1>13. c \in Books
  <2>1. [d.level EXCEPT ![k] = rec] \in [Keys -> Levels]
    BY <1>1, <1>8
  <2>2. [f.level EXCEPT ![k] = rec] \in [Keys -> Levels]
    BY <1>5, <2>1
  <2> HIDE DEF relinked, rec
  <2>3. c = [order |-> relinked, resting |-> f.resting,
             level |-> [f.level EXCEPT ![k] = rec], open |-> f.open]
    BY <1>5, <1>6
  <2>4. f.resting \in SUBSET Ids /\ f.open \in SUBSET Keys
    BY <1>1, <1>5
  <2> HIDE DEF c
  <2> QED BY <1>11, <2>2, <2>3, <2>4 DEF Books
<1> HIDE DEF relinked, c
<1>14. /\ c.order[i].level = k /\ c.order[i].prev = lv.tail /\ c.order[i].next = Nil
       /\ c.order[i] = pointed[i]
  BY <1>1, <1>4, <1>7, <1>10, <1>12
<1> HIDE DEF rec, lv
<1>15. ASSUME NEW j \in Ids
       PROVE  /\ c.order[j].side = d.order[j].side /\ c.order[j].price = d.order[j].price
              /\ c.order[j].qty = d.order[j].qty
  <2>1. /\ relinked[j].side = pointed[j].side /\ relinked[j].price = pointed[j].price
        /\ relinked[j].qty = pointed[j].qty
    BY <1>12
  <2>2. /\ pointed[j].side = d.order[j].side /\ pointed[j].price = d.order[j].price
        /\ pointed[j].qty = d.order[j].qty
    BY <1>10
  <2> QED BY <1>7, <2>1, <2>2
<1>16. ASSUME NEW j \in Ids \ {i}
       PROVE  /\ c.order[j].level = d.order[j].level
              /\ c.order[j].prev = d.order[j].prev
              /\ c.order[j].next = IF j = lv.tail THEN i ELSE d.order[j].next
              /\ j # lv.tail => c.order[j] = d.order[j]
  <2>1. pointed[j] = d.order[j] /\ c.order[j] = relinked[j]
    BY <1>7, <1>10
  <2>2. CASE j = lv.tail
    BY <1>12, <2>1, <2>2
  <2>3. CASE j # lv.tail
    BY <1>12, <2>1, <2>3
  <2> QED BY <2>2, <2>3
<1>17. /\ c.resting = d.resting /\ c.open = d.open \cup {k}
       /\ c.level = [d.level EXCEPT ![k] = rec]
  BY <1>7
<1>18. LinkedBehind(c, d, i, k)
  BY <1>13, <1>14, <1>15, <1>16, <1>17 DEF LinkedBehind, lv, rec
<1> QED BY <1>18 DEF c, f

\* Linking a detached order at its own level gives a well-formed book again.
LEMMA LinkWellFormed ==
  ASSUME NEW d \in Books, NEW i, Detached(d, i), Acyclic(d), NEW k \in Keys,
         k = <<d.order[i].side, d.order[i].price>>, d.order[i].qty > 0
  PROVE  WellFormed(LinkOrder(FindOrCreateLevel(d, k), i, k))
<1> DEFINE lv == d.level[k]
           c  == LinkOrder(FindOrCreateLevel(d, k), i, k)
<1>1. /\ d.order \in [Ids -> Orders] /\ d.level \in [Keys -> Levels]
      /\ d.resting \subseteq Ids /\ d.open \subseteq Keys /\ i \in Ids /\ i \in d.resting
      /\ i # Nil /\ lv \in Levels
  BY DEF Books, Detached
<1>2. /\ \A j \in d.resting \ {i} : Placed(d, j) /\ PrevLinked(d, j) /\ NextLinked(d, j)
      /\ \A l \in d.open : LevelLinked(d, l)
      /\ \A l \in Keys \ d.open : d.level[l] = NoLevel
      /\ d.order[i].level = Nil /\ d.order[i].prev = Nil /\ d.order[i].next = Nil
  BY DEF Detached, OrderLinked
<1>3. /\ c \in Books
      /\ c.resting = d.resting
      /\ c.open = d.open \cup {k}
      /\ c.level = [d.level EXCEPT ![k] =
                      [head  |-> IF lv.tail # Nil THEN lv.head ELSE i,
                       tail  |-> i,
                       qty   |-> lv.qty + d.order[i].qty,
                       count |-> lv.count + 1]]
      /\ c.order[i].level = k /\ c.order[i].prev = lv.tail /\ c.order[i].next = Nil
      /\ \A j \in Ids : /\ c.order[j].side = d.order[j].side
                        /\ c.order[j].price = d.order[j].price
                        /\ c.order[j].qty = d.order[j].qty
      /\ \A j \in Ids \ {i} :
           /\ c.order[j].level = d.order[j].level
           /\ c.order[j].prev = d.order[j].prev
           /\ c.order[j].next = IF j = lv.tail THEN i ELSE d.order[j].next
           /\ j # lv.tail => c.order[j] = d.order[j]
  <2>1. LinkedBehind(c, d, i, k)
    BY LinkFields
  <2> HIDE DEF c
  <2> QED BY <2>1, Zenon DEF LinkedBehind
<1> HIDE DEF c
<1>4. /\ c.level[k].head = IF lv.tail # Nil THEN lv.head ELSE i
      /\ c.level[k].tail = i /\ c.level[k].count = lv.count + 1
      /\ \A l \in Keys \ {k} : c.level[l] = d.level[l]
  <2> DEFINE rec == [head  |-> IF lv.tail # Nil THEN lv.head ELSE i,
                     tail  |-> i,
                     qty   |-> lv.qty + d.order[i].qty,
                     count |-> lv.count + 1]
  <2>1. c.level = [d.level EXCEPT ![k] = rec]
    BY <1>3, Zenon
  <2>2. /\ rec.head = IF lv.tail # Nil THEN lv.head ELSE i
        /\ rec.tail = i /\ rec.count = lv.count + 1
    OBVIOUS
  <2> HIDE DEF rec
  <2>3. c.level[k] = rec /\ \A l \in Keys \ {k} : c.level[l] = d.level[l]
    BY <1>1, <2>1
  <2> QED BY <2>2, <2>3
<1>5.
      \/ /\ k \in d.open /\ lv.tail \in d.resting \ {i} /\ lv.head \in d.resting \ {i}
         /\ lv.tail # Nil
         /\ d.order[lv.tail].level = k /\ d.order[lv.tail].next = Nil
         /\ d.order[lv.head].level = k /\ d.order[lv.head].prev = Nil
      \/ k \notin d.open /\ lv = NoLevel /\ lv.tail = Nil /\ lv.head = Nil
  <2>1. CASE k \in d.open
    <3>1. LevelLinked(d, k)
      BY <1>2, <2>1
    <3>2. lv.tail \in d.resting \ {i} /\ lv.head \in d.resting \ {i}
      BY <1>2, <3>1, Zenon DEF LevelLinked, OrdersAt
    <3>3. /\ d.order[lv.tail].level = k /\ d.order[lv.tail].next = Nil
          /\ d.order[lv.head].level = k /\ d.order[lv.head].prev = Nil
      BY <3>1, Zenon DEF LevelLinked, OrdersAt
    <3>4. lv.tail # Nil
      BY <1>1, <3>2
    <3> QED BY <2>1, <3>2, <3>3, <3>4, Zenon
  <2>2. CASE k \notin d.open
    <3>1. lv = NoLevel
      BY <1>2, <2>2
    <3>2. lv.tail = Nil /\ lv.head = Nil
      BY <3>1 DEF NoLevel
    <3> QED BY <2>2, <3>1, <3>2
  <2> QED BY <2>1, <2>2, Zenon
<1>6. ASSUME NEW l \in Keys \ {k} PROVE OrdersAt(c, l) = OrdersAt(d, l)
  <2> HIDE DEF lv
  <2>1. ASSUME NEW j \in d.resting PROVE c.order[j].level = l <=> d.order[j].level = l
    <3>1. CASE j = i
      <4>1. c.order[j].level = k /\ d.order[j].level = Nil
        BY <1>2, <1>3, <3>1
      <4> QED BY <4>1, NilAssumption
    <3>2. CASE j # i
      <4>1. j \in Ids \ {i}
        BY <1>1, <3>2
      <4>2. c.order[j].level = d.order[j].level
        BY <1>3, <4>1
      <4> QED BY <4>2
    <3> QED BY <3>1, <3>2
  <2>2. c.resting = d.resting
    BY <1>3
  <2> QED BY <2>1, <2>2 DEF OrdersAt
<1>7. OrdersAt(c, k) = OrdersAt(d, k) \cup {i} /\ i \notin OrdersAt(d, k)
  <2> HIDE DEF lv
  <2>1. ASSUME NEW j \in d.resting \ {i} PROVE c.order[j].level = k <=> d.order[j].level = k
    <3>1. j \in Ids \ {i}
      BY <1>1
    <3>2. c.order[j].level = d.order[j].level
      BY <1>3, <3>1
    <3> QED BY <3>2
  <2>2. d.order[i].level # k
    <3>1. d.order[i].level = Nil /\ k # Nil
      BY <1>2, NilAssumption
    <3> QED BY <3>1
  <2>3. c.order[i].level = k /\ c.resting = d.resting /\ i \in d.resting
    BY <1>1, <1>3
  <2>4. OrdersAt(c, k) = OrdersAt(d, k) \cup {i}
    BY <2>1, <2>2, <2>3 DEF OrdersAt
  <2> QED BY <2>2, <2>4 DEF OrdersAt
<1>8. lv.count = Cardinality(OrdersAt(d, k))
  <2>1. CASE k \in d.open
    BY <1>2, <2>1 DEF LevelLinked
  <2>2. CASE k \notin d.open
    <3>1. OrdersAt(d, k) = {}
      <4> SUFFICES ASSUME NEW j \in OrdersAt(d, k) PROVE FALSE
        OBVIOUS
      <4>1. j \in d.resting \ {i} /\ d.order[j].level = k
        BY <1>7 DEF OrdersAt
      <4> QED BY <1>2, <2>2, <4>1 DEF Placed
    <3>2. lv = NoLevel
      BY <1>5, <2>2, Zenon
    <3>3. lv.count = 0
      BY <3>2 DEF NoLevel
    <3> QED BY <3>1, <3>3, FS_EmptySet
  <2> QED BY <2>1, <2>2
<1>9. Cardinality(OrdersAt(c, k)) = lv.count + 1
  <2> HIDE DEF lv
  <2> QED BY <1>7, <1>8, OrdersAtFinite, FS_AddElement
<1>10. OrderLinked(c, i)
  <2>1. Placed(c, i)
    BY <1>1, <1>3 DEF Placed
  <2>2. PrevLinked(c, i)
    <3>1. CASE lv.tail = Nil
      BY <1>3, <1>4, <3>1, Zenon DEF PrevLinked
    <3>2. CASE lv.tail # Nil
      <4>1. /\ lv.tail \in c.resting /\ c.order[lv.tail].next = i
            /\ c.order[lv.tail].level = k
        BY <1>1, <1>3, <1>5, <3>2, Zenon
      <4> QED BY <1>3, <3>2, <4>1, Zenon DEF PrevLinked
    <3> QED BY <3>1, <3>2
  <2>3. NextLinked(c, i)
    BY <1>3, <1>4, Zenon DEF NextLinked
  <2> QED BY <2>1, <2>2, <2>3 DEF OrderLinked
<1>11. ASSUME NEW j \in d.resting \ {i} PROVE OrderLinked(c, j)
  <2>1. Placed(d, j) /\ PrevLinked(d, j) /\ NextLinked(d, j) /\ j \in Ids /\ j # Nil
    BY <1>1, <1>2
  <2>2. /\ c.order[j].level = d.order[j].level /\ c.order[j].prev = d.order[j].prev
        /\ d.order[j].level \in Keys /\ d.order[j].level # Nil
    BY <1>1, <1>3, <2>1, Zenon DEF Placed
  <2>3. Placed(c, j)
    BY <1>3, <2>1, <2>2, Zenon DEF Placed
  <2>4. PrevLinked(c, j)
    <3>1. CASE d.order[j].prev = Nil
      <4>1. d.level[d.order[j].level].head = j
        BY <2>1, <3>1 DEF PrevLinked
      <4>2. c.level[d.order[j].level].head = j
        <5>1. CASE d.order[j].level = k
          BY <1>4, <1>5, <2>1, <4>1, <5>1, Zenon DEF Placed
        <5>2. CASE d.order[j].level # k
          BY <1>4, <2>2, <4>1, <5>2
        <5> QED BY <5>1, <5>2
      <4> QED BY <2>2, <3>1, <4>2 DEF PrevLinked
    <3>2. CASE d.order[j].prev # Nil
      <4> DEFINE q == d.order[j].prev
      <4>1. q \in d.resting /\ d.order[q].next = j /\ d.order[q].level = d.order[j].level
        BY <2>1, <3>2 DEF PrevLinked
      <4>2. q # i /\ q # lv.tail
        BY <1>2, <1>5, <2>1, <2>2, <3>2, <4>1, Zenon
      <4>a. q \in Ids \ {i}
        BY <1>1, <4>1, <4>2
      <4>3. c.order[q].next = j /\ c.order[q].level = d.order[j].level
        <5> HIDE DEF q, lv
        <5> QED BY <1>3, <4>1, <4>2, <4>a
      <4> QED BY <1>3, <2>2, <3>2, <4>1, <4>3, Zenon DEF PrevLinked
    <3> QED BY <3>1, <3>2
  <2>5. NextLinked(c, j)
    <3>1. CASE j = lv.tail
      <4> HIDE DEF lv
      <4>1. d.order[j].level = k
        BY <1>5, <2>1, <3>1
      <4>2. c.order[j].next = i /\ i \in c.resting /\ i # Nil
        BY <1>1, <1>3, <2>1, <3>1
      <4>3. c.order[i].prev = j /\ c.order[i].level = c.order[j].level
        BY <1>3, <2>2, <3>1, <4>1
      <4> QED BY <4>2, <4>3 DEF NextLinked
    <3>2. CASE j # lv.tail /\ d.order[j].next = Nil
      <4>1. c.order[j].next = Nil /\ d.level[d.order[j].level].tail = j
        BY <1>3, <2>1, <3>2, Zenon DEF NextLinked
      <4>2. c.level[d.order[j].level].tail = j
        BY <1>4, <2>2, <3>2, <4>1
      <4> QED BY <2>2, <4>1, <4>2 DEF NextLinked
    <3>3. CASE j # lv.tail /\ d.order[j].next # Nil
      <4> DEFINE q == d.order[j].next
      <4>1. q \in d.resting /\ d.order[q].prev = j /\ d.order[q].level = d.order[j].level
        BY <2>1, <3>3 DEF NextLinked
      <4>2. q # i
        BY <1>2, <2>1, <4>1
      <4>3. c.order[q].prev = j /\ c.order[q].level = d.order[j].level /\ c.order[j].next = q
        BY <1>1, <1>3, <2>1, <3>3, <4>1, <4>2, Zenon
      <4> QED BY <1>3, <2>2, <3>3, <4>1, <4>3, Zenon DEF NextLinked
    <3> QED BY <3>1, <3>2, <3>3
  <2> QED BY <2>3, <2>4, <2>5 DEF OrderLinked
<1>12. ASSUME NEW l \in c.open PROVE LevelLinked(c, l)
  <2>1. CASE l = k
    <3>1. c.level[k].head \in OrdersAt(c, k) /\ c.order[c.level[k].head].prev = Nil
      <4>1. CASE lv.tail = Nil
        BY <1>3, <1>4, <1>7, <4>1, Zenon
      <4>2. CASE lv.tail # Nil
        <5>1. /\ c.level[k].head = lv.head /\ lv.head \in d.resting \ {i}
              /\ d.order[lv.head].level = k /\ d.order[lv.head].prev = Nil
          BY <1>4, <1>5, <4>2, Zenon
        <5>2. c.order[lv.head].level = k /\ c.order[lv.head].prev = Nil
          BY <1>1, <1>3, <5>1, Zenon
        <5> QED BY <1>3, <5>1, <5>2, Zenon DEF OrdersAt
      <4> QED BY <4>1, <4>2, Zenon
    <3>2. c.level[k].tail \in OrdersAt(c, k) /\ c.order[c.level[k].tail].next = Nil
      BY <1>3, <1>4, <1>7, Zenon
    <3> QED BY <1>4, <1>9, <2>1, <3>1, <3>2, Zenon DEF LevelLinked
  <2>2. CASE l # k
    <3>1. l \in d.open /\ l \in Keys \ {k}
      BY <1>1, <1>3, <2>2, Zenon
    <3>2. LevelLinked(d, l) /\ c.level[l] = d.level[l] /\ OrdersAt(c, l) = OrdersAt(d, l)
      BY <1>2, <1>4, <1>6, <3>1
    <3>3. /\ d.level[l].head \in Ids \ {i}
          /\ d.level[l].tail \in Ids \ {i} /\ d.level[l].tail # lv.tail
      <4>1. /\ d.level[l].head \in d.resting /\ d.order[d.level[l].head].level = l
            /\ d.level[l].tail \in d.resting /\ d.order[d.level[l].tail].level = l
        BY <3>2 DEF LevelLinked, OrdersAt
      <4>2. l # Nil /\ d.level[l].tail # Nil
        BY <1>1, <3>1, <4>1
      <4> QED BY <1>1, <1>2, <1>5, <2>2, <4>1, <4>2, Zenon
    <3>4. c.order[d.level[l].head].prev = Nil /\ c.order[d.level[l].tail].next = Nil
      BY <1>3, <3>2, <3>3, Zenon DEF LevelLinked
    <3> QED BY <3>2, <3>4 DEF LevelLinked
  <2> QED BY <2>1, <2>2
<1>13. ASSUME NEW j \in Ids \ c.resting PROVE c.order[j] = NoOrder
  <2>1. j \in Ids \ {i} /\ j \notin d.resting /\ j # Nil
    BY <1>1, <1>3, Zenon
  <2>2. j # lv.tail
    BY <1>5, <2>1, Zenon
  <2>3. d.order[j] = NoOrder
    BY <2>1 DEF Detached
  <2> QED BY <1>3, <2>1, <2>2, <2>3, Zenon
<1>14. ASSUME NEW l \in Keys \ c.open PROVE c.level[l] = NoLevel
  BY <1>2, <1>3, <1>4, Zenon
<1>15. Linked(c)
  <2> HIDE DEF lv
  <2>1. \A j \in c.resting : OrderLinked(c, j)
    BY <1>3, <1>10, <1>11
  <2> QED BY <2>1, <1>12, <1>13, <1>14 DEF Linked
<1>16. Acyclic(c)
  <2>1. PICK r \in [Ids -> Nat] : Ranked(d, r)
    BY DEF Acyclic
  <2> DEFINE s == [r EXCEPT ![i] = IF lv.tail = Nil THEN 0 ELSE r[lv.tail] + 1]
  <2>2. s \in [Ids -> Nat]
    <3>1. lv.tail # Nil => lv.tail \in Ids
      BY <1>1, <1>5, Zenon
    <3>2. (IF lv.tail = Nil THEN 0 ELSE r[lv.tail] + 1) \in Nat
      <4> HIDE DEF lv
      <4>1. CASE lv.tail = Nil
        BY <4>1
      <4>2. CASE lv.tail # Nil
        <5>1. r[lv.tail] \in Nat
          BY <2>1, <3>1, <4>2
        <5> QED BY <4>2, <5>1
      <4> QED BY <4>1, <4>2
    <3> QED BY <1>1, <2>1, <3>2
  <2>3. ASSUME NEW j \in c.resting, c.order[j].prev # Nil PROVE s[c.order[j].prev] < s[j]
    <3>1. CASE j = i
      <4>1. c.order[j].prev = lv.tail /\ lv.tail \in Ids \ {i} /\ lv.tail # Nil
        BY <1>1, <1>3, <1>5, <2>3, <3>1, Zenon
      <4>2. s[j] = r[lv.tail] + 1 /\ s[lv.tail] = r[lv.tail] /\ r[lv.tail] \in Nat
        <5> HIDE DEF lv
        <5>1. r[lv.tail] \in Nat
          BY <2>1, <4>1
        <5>2. s[i] = r[lv.tail] + 1
          BY <1>1, <2>1, <4>1
        <5>3. s[lv.tail] = r[lv.tail]
          BY <2>1, <4>1
        <5>4. s[j] = r[lv.tail] + 1
          BY <3>1, <5>2
        <5> HIDE DEF s
        <5> QED BY <5>1, <5>3, <5>4
      <4> HIDE DEF s, lv
      <4> QED BY <4>1, <4>2
    <3>2. CASE j # i
      <4>1. j \in d.resting \ {i} /\ j \in Ids /\ c.order[j].prev = d.order[j].prev
        BY <1>1, <1>3, <3>2, Zenon
      <4>2. d.order[j].prev \in Ids \ {i}
        <5>1. PrevLinked(d, j) /\ d.order[j].prev # Nil /\ j # Nil
          BY <1>1, <1>2, <2>3, <4>1
        <5>2. d.order[j].prev \in d.resting /\ d.order[d.order[j].prev].next = j
          BY <5>1 DEF PrevLinked
        <5> QED BY <1>1, <1>2, <5>1, <5>2
      <4>3. r[d.order[j].prev] < r[j]
        BY <2>1, <2>3, <4>1 DEF Ranked
      <4> QED BY <2>1, <4>1, <4>2, <4>3
    <3> QED BY <3>1, <3>2
  <2> HIDE DEF s
  <2> QED BY <2>2, <2>3 DEF Acyclic, Ranked
<1> QED BY <1>3, <1>15, <1>16, Zenon DEF WellFormed, c

\* An order with a neighbour leaves its level in the map when it is unlinked.
LEMMA LevelSurvives ==
  ASSUME NEW b, WellFormed(b), NEW i \in b.resting,
         b.order[i].prev # Nil \/ b.order[i].next # Nil
  PROVE  b.order[i].level \in UnlinkOrder(b, i).open
<1> DEFINE k == b.order[i].level
<1>1. /\ b.resting \subseteq Ids /\ b.open \subseteq Keys /\ i \in Ids /\ i # Nil
      /\ Placed(b, i) /\ PrevLinked(b, i) /\ NextLinked(b, i)
  BY DEF WellFormed, Linked, OrderLinked, Books
<1>2. k \in Keys /\ k \in b.open
  BY <1>1 DEF Placed
<1>3. PICK r \in [Ids -> Nat] : Ranked(b, r)
  BY DEF WellFormed, Acyclic
<1>4. \E n \in b.resting : n # i /\ b.order[n].level = k
  <2>1. CASE b.order[i].next # Nil
    <3>1. /\ b.order[i].next \in b.resting /\ b.order[b.order[i].next].prev = i
          /\ b.order[b.order[i].next].level = k
      BY <1>1, <2>1 DEF NextLinked
    <3>2. r[i] < r[b.order[i].next] /\ r[i] \in Nat
      BY <1>1, <1>3, <3>1 DEF Ranked
    <3> QED BY <3>1, <3>2
  <2>2. CASE b.order[i].prev # Nil
    <3>1. b.order[i].prev \in b.resting /\ b.order[b.order[i].prev].level = k
      BY <1>1, <2>2 DEF PrevLinked
    <3>2. r[b.order[i].prev] < r[i] /\ r[i] \in Nat
      BY <1>1, <1>3, <2>2 DEF Ranked
    <3> QED BY <3>1, <3>2
  <2> QED BY <2>1, <2>2
<1>5. PICK n \in b.resting : n # i /\ b.order[n].level = k
  BY <1>4
<1>6. LevelLinked(b, k) /\ i \in OrdersAt(b, k) /\ n \in OrdersAt(b, k)
  BY <1>2, <1>5 DEF WellFormed, Linked, OrdersAt
<1>7. b.level[k].count = Cardinality(OrdersAt(b, k)) /\ IsFiniteSet(OrdersAt(b, k))
  BY <1>6, OrdersAtFinite DEF LevelLinked, WellFormed
<1>8. ASSUME b.level[k].count = 1 PROVE FALSE
  <2>1. PICK x : OrdersAt(b, k) = {x}
    BY <1>7, <1>8, FS_Singleton
  <2> QED BY <1>5, <1>6, <2>1
<1>9. UnlinkOrder(b, i).open = b.open
  BY <1>8, UnlinkFields
<1> QED BY <1>2, <1>9

\* Removing an order leaves a well-formed book.
LEMMA RemoveWellFormed ==
  ASSUME NEW b, WellFormed(b), NEW i \in b.resting
  PROVE  /\ WellFormed(RemoveOrder(b, i))
         /\ b.order[i].next # Nil => b.order[i].level \in RemoveOrder(b, i).open
<1> DEFINE u == UnlinkOrder(b, i)
           c == RemoveOrder(b, i)
<1>1. Detached(u, i) /\ Acyclic(u) /\ u \in Books /\ u.resting = b.resting
  BY UnlinkDetaches, UnlinkFields
<1> HIDE DEF u
<1>2. /\ u.order \in [Ids -> Orders] /\ u.level \in [Keys -> Levels]
      /\ u.resting \subseteq Ids /\ u.open \subseteq Keys /\ i \in Ids /\ i # Nil
      /\ u = [order |-> u.order, resting |-> u.resting, level |-> u.level, open |-> u.open]
  BY <1>1 DEF Books, Detached
<1>3. /\ c.order = [u.order EXCEPT ![i] = NoOrder] /\ c.resting = u.resting \ {i}
      /\ c.level = u.level /\ c.open = u.open
  BY <1>2 DEF RemoveOrder, u
<1>4. c \in Books
  <2>1. [u.order EXCEPT ![i] = NoOrder] \in [Ids -> Orders]
    BY <1>2, NoOrderType
  <2>2. u.resting \ {i} \in SUBSET Ids
    BY <1>2
  <2> QED BY <1>2, <2>1, <2>2 DEF Books, RemoveOrder, u
<1> HIDE DEF c
<1>5. c.order[i] = NoOrder /\ \A j \in Ids \ {i} : c.order[j] = u.order[j]
  BY <1>2, <1>3
<1>6. u.order[i].level = Nil /\ u.order[i].next = Nil /\ u.order[i].prev = Nil
  BY <1>1 DEF Detached
<1>7. ASSUME NEW j \in c.resting
      PROVE  /\ OrderLinked(c, j)
             /\ c.order[j].prev # Nil => c.order[j].prev \in c.resting
  <2>1. /\ j \in Ids \ {i} /\ j # Nil
        /\ Placed(u, j) /\ PrevLinked(u, j) /\ NextLinked(u, j)
    BY <1>1, <1>2, <1>3 DEF Detached, OrderLinked
  <2>2. c.order[j] = u.order[j]
    BY <1>5, <2>1
  <2>3. Placed(c, j)
    BY <1>3, <2>1, <2>2 DEF Placed
  <2>4. PrevLinked(c, j) /\ (c.order[j].prev # Nil => c.order[j].prev \in c.resting)
    <3>1. CASE u.order[j].prev = Nil
      BY <1>3, <2>1, <2>2, <3>1 DEF PrevLinked
    <3>2. CASE u.order[j].prev # Nil
      <4> DEFINE q == u.order[j].prev
      <4>1. q \in u.resting /\ u.order[q].next = j /\ u.order[q].level = u.order[j].level
        BY <2>1, <3>2 DEF PrevLinked
      <4>2. q \in Ids \ {i}
        BY <1>2, <1>6, <2>1, <4>1
      <4> QED BY <1>3, <1>5, <2>2, <3>2, <4>1, <4>2 DEF PrevLinked
    <3> QED BY <3>1, <3>2
  <2>5. NextLinked(c, j)
    <3>1. CASE u.order[j].next = Nil
      BY <1>3, <2>1, <2>2, <3>1 DEF NextLinked
    <3>2. CASE u.order[j].next # Nil
      <4> DEFINE q == u.order[j].next
      <4>1. q \in u.resting /\ u.order[q].prev = j /\ u.order[q].level = u.order[j].level
        BY <2>1, <3>2 DEF NextLinked
      <4>2. q \in Ids \ {i}
        BY <1>2, <1>6, <2>1, <4>1
      <4> QED BY <1>3, <1>5, <2>2, <3>2, <4>1, <4>2 DEF NextLinked
    <3> QED BY <3>1, <3>2
  <2> QED BY <2>3, <2>4, <2>5 DEF OrderLinked
<1>8. ASSUME NEW l \in Keys PROVE OrdersAt(c, l) = OrdersAt(u, l)
  <2>1. \A j \in u.resting \ {i} : c.order[j].level = l <=> u.order[j].level = l
    BY <1>2, <1>5
  <2>2. u.order[i].level # l
    BY <1>6
  <2> QED BY <1>3, <2>1, <2>2 DEF OrdersAt
<1>9. ASSUME NEW l \in c.open PROVE LevelLinked(c, l)
  <2>1. l \in Keys /\ LevelLinked(u, l) /\ OrdersAt(c, l) = OrdersAt(u, l)
    BY <1>1, <1>2, <1>3, <1>8 DEF Detached
  <2>2. /\ u.level[l].head \in Ids /\ u.order[u.level[l].head].level = l
        /\ u.level[l].tail \in Ids /\ u.order[u.level[l].tail].level = l
    BY <1>2, <2>1 DEF LevelLinked, OrdersAt
  <2>3. u.level[l].head # i /\ u.level[l].tail # i
    BY <1>6, <2>1, <2>2
  <2>4. /\ c.order[u.level[l].head] = u.order[u.level[l].head]
        /\ c.order[u.level[l].tail] = u.order[u.level[l].tail]
    BY <1>5, <2>2, <2>3
  <2> QED BY <1>3, <2>1, <2>4 DEF LevelLinked
<1>10. ASSUME NEW j \in Ids \ c.resting PROVE c.order[j] = NoOrder
  BY <1>1, <1>3, <1>5 DEF Detached
<1>11. ASSUME NEW l \in Keys \ c.open PROVE c.level[l] = NoLevel
  BY <1>1, <1>3 DEF Detached
<1>12. Linked(c)
  BY <1>7, <1>9, <1>10, <1>11 DEF Linked
<1>13. Acyclic(c)
  <2>1. PICK r \in [Ids -> Nat] : Ranked(u, r)
    BY <1>1 DEF Acyclic
  <2>2. Ranked(c, r)
    BY <1>2, <1>3, <1>5, <2>1 DEF Ranked
  <2> QED BY <2>2 DEF Acyclic
<1>14. b.order[i].next # Nil => b.order[i].level \in c.open
  BY <1>3, LevelSurvives DEF u
<1> QED BY <1>4, <1>12, <1>13, <1>14 DEF WellFormed, c

\* What the book r is when the unlinked order i of book u has got its new price and quantity.
Repriced(r, u, i, p, q, k) ==
  /\ r \in Books /\ Detached(r, i) /\ Acyclic(r)
  /\ r.resting = u.resting /\ r.level = u.level /\ r.open = u.open
  /\ \A j \in Ids \ {i} : r.order[j] = u.order[j]
  /\ k \in Keys /\ k = <<r.order[i].side, r.order[i].price>>
  /\ r.order[i].price = p /\ r.order[i].qty = q /\ q > 0

\* A requeued order is linked to a level that is in the map, or is made for it.
LEMMA RequeueDetaches ==
  ASSUME NEW b, WellFormed(b), NEW i \in b.resting, NEW p \in Prices, NEW q \in Nat, q > 0,
         NEW k, k = <<b.order[i].side, p>>,
         k = b.order[i].level => b.order[i].prev # Nil \/ b.order[i].next # Nil
  PROVE  \E r : Repriced(r, UnlinkOrder(b, i), i, p, q, k)
               /\ Requeued(b, i, p, q, k) = LinkOrder(FindOrCreateLevel(r, k), i, k)
<1> DEFINE u == UnlinkOrder(b, i)
           r == [u EXCEPT !.order[i].price = p, !.order[i].qty = q]
<1>1. Detached(u, i) /\ Acyclic(u) /\ u \in Books /\ u.resting = b.resting
  BY UnlinkDetaches, UnlinkFields
<1>2. u.order[i].side = b.order[i].side /\ i \in Ids
  <2>1. i \in Ids
    BY DEF WellFormed, Books
  <2>2. u.order = Bypassed(b.order, i)
    BY UnlinkFields, Zenon
  <2> HIDE DEF u
  <2>3. Bypassed(b.order, i)[i].side = b.order[i].side
    BY <2>1, BypassedFields DEF LinkedAround
  <2> QED BY <2>1, <2>2, <2>3
<1>3. k = b.order[i].level => k \in u.open
  BY LevelSurvives
<1> HIDE DEF u
<1>4. /\ u.order \in [Ids -> Orders] /\ u.level \in [Keys -> Levels]
      /\ u.resting \subseteq Ids /\ u.open \subseteq Keys /\ i # Nil
      /\ u = [order |-> u.order, resting |-> u.resting, level |-> u.level, open |-> u.open]
  BY <1>1, <1>2 DEF Books
<1> DEFINE o == [u.order[i] EXCEPT !.price = p, !.qty = q]
<1>5. /\ r.order = [u.order EXCEPT ![i] = o]
      /\ r.resting = u.resting /\ r.level = u.level /\ r.open = u.open
  BY <1>2, <1>4
<1>6. /\ o \in Orders /\ o.side = u.order[i].side /\ o.price = p /\ o.qty = q
      /\ o.level = u.order[i].level /\ o.prev = u.order[i].prev /\ o.next = u.order[i].next
  <2>1. u.order[i] \in Orders
    BY <1>2, <1>4
  <2> QED BY <2>1 DEF Orders
<1>7. r \in Books
  <2>1. [u.order EXCEPT ![i] = o] \in [Ids -> Orders]
    BY <1>4, <1>6
  <2> QED BY <1>1, <1>2, <1>4, <2>1 DEF Books
<1>8. LinkOrder(IF k = b.order[i].level THEN r ELSE FindOrCreateLevel(r, k), i, k)
        = LinkOrder(FindOrCreateLevel(r, k), i, k)
  BY <1>3, <1>5 DEF FindOrCreateLevel
<1>9. Requeued(b, i, p, q, k) = LinkOrder(FindOrCreateLevel(r, k), i, k)
  BY <1>8 DEF Requeued, u
<1> HIDE DEF o
<1>10. r.order[i] = o /\ \A j \in Ids \ {i} : r.order[j] = u.order[j]
  BY <1>2, <1>4, <1>5
<1> HIDE DEF r
<1>11. /\ u.order[i].level = Nil /\ u.order[i].prev = Nil /\ u.order[i].next = Nil
       /\ \A j \in u.resting \ {i} : OrderLinked(u, j)
       /\ \A l \in u.open : LevelLinked(u, l)
       /\ i \in u.resting
  BY <1>1 DEF Detached
<1>12. ASSUME NEW j \in Ids
       PROVE  /\ r.order[j].level = u.order[j].level /\ r.order[j].prev = u.order[j].prev
              /\ r.order[j].next = u.order[j].next
  BY <1>6, <1>10
<1>13. ASSUME NEW j \in r.resting \ {i} PROVE OrderLinked(r, j)
  <2>1. Placed(u, j) /\ PrevLinked(u, j) /\ NextLinked(u, j) /\ j \in Ids \ {i}
    BY <1>4, <1>5, <1>11 DEF OrderLinked
  <2>2. Placed(r, j)
    BY <1>5, <1>10, <2>1 DEF Placed
  <2>3. PrevLinked(r, j)
    BY <1>4, <1>5, <1>12, <2>1 DEF PrevLinked
  <2>4. NextLinked(r, j)
    BY <1>4, <1>5, <1>12, <2>1 DEF NextLinked
  <2> QED BY <2>2, <2>3, <2>4 DEF OrderLinked
<1>14. ASSUME NEW l \in r.open PROVE LevelLinked(r, l)
  <2>1. l \in Keys /\ LevelLinked(u, l)
    BY <1>4, <1>5, <1>11
  <2>2. OrdersAt(r, l) = OrdersAt(u, l) /\ OrdersAt(u, l) \subseteq Ids
    BY <1>4, <1>5, <1>12 DEF OrdersAt
  <2>3. u.level[l].head \in Ids /\ u.level[l].tail \in Ids
    BY <2>1, <2>2 DEF LevelLinked
  <2> QED BY <1>5, <1>12, <2>1, <2>2, <2>3 DEF LevelLinked
<1>15. Detached(r, i)
  <2>1. \A j \in Ids \ r.resting : r.order[j] = NoOrder
    BY <1>1, <1>5, <1>10, <1>11 DEF Detached
  <2>2. \A l \in Keys \ r.open : r.level[l] = NoLevel
    BY <1>1, <1>5 DEF Detached
  <2> QED BY <1>2, <1>5, <1>11, <1>12, <1>13, <1>14, <2>1, <2>2 DEF Detached
<1>16. Acyclic(r)
  <2>1. PICK rank \in [Ids -> Nat] : Ranked(u, rank)
    BY <1>1 DEF Acyclic
  <2>2. Ranked(r, rank)
    BY <1>4, <1>5, <1>12, <2>1 DEF Ranked
  <2> QED BY <2>2 DEF Acyclic
<1>17. k \in Keys /\ k = <<r.order[i].side, r.order[i].price>> /\ r.order[i].qty > 0
  <2>1. u.order[i].side \in Sides
    BY <1>2, <1>4 DEF Orders
  <2> QED BY <1>2, <1>6, <1>10, <2>1 DEF Keys
<1>18. Repriced(r, u, i, p, q, k)
  BY <1>5, <1>6, <1>7, <1>10, <1>15, <1>16, <1>17 DEF Repriced
<1> QED BY <1>9, <1>18 DEF u

\* Requeueing an order leaves a well-formed book; at its old level only if the
\* order is not alone there, which is OnModify's `o->prev || o->next'.
LEMMA RequeueWellFormed ==
  ASSUME NEW b, WellFormed(b), NEW i \in b.resting, NEW p \in Prices, NEW q \in Nat, q > 0,
         NEW k, k = <<b.order[i].side, p>>,
         k = b.order[i].level => b.order[i].prev # Nil \/ b.order[i].next # Nil
  PROVE  WellFormed(Requeued(b, i, p, q, k))
<1>1. PICK r : /\ Repriced(r, UnlinkOrder(b, i), i, p, q, k)
               /\ Requeued(b, i, p, q, k) = LinkOrder(FindOrCreateLevel(r, k), i, k)
  BY RequeueDetaches
<1>2. /\ r \in Books /\ Detached(r, i) /\ Acyclic(r) /\ k \in Keys
      /\ k = <<r.order[i].side, r.order[i].price>> /\ r.order[i].qty > 0
  BY <1>1 DEF Repriced
<1> QED BY <1>1, <1>2, LinkWellFormed

\* A fill takes no more than is asked and leaves a well-formed book.
LEMMA FillWellFormed ==
  ASSUME NEW b, WellFormed(b), NEW i \in b.resting, NEW q \in Nat, q > 0
  PROVE  /\ WellFormed(Fill(b, i, q))
         /\ FillQty(b, i, q) \in 1..q
         /\ b.order[i].next # Nil => b.order[i].level \in Fill(b, i, q).open
<1>1. i \in Ids /\ b.order[i] \in Orders /\ b \in Books /\ Linked(b) /\ Placed(b, i)
  BY DEF WellFormed, Books, Linked, OrderLinked
<1>2. b.order[i].qty \in Nat /\ b.order[i].qty > 0
  BY <1>1 DEF Orders, Placed
<1>3. /\ FillQty(b, i, q) \in 1..q
      /\ FillQty(b, i, q) # b.order[i].qty => b.order[i].qty - FillQty(b, i, q) > 0
  BY <1>2 DEF FillQty, Lesser
<1>4. CASE FillQty(b, i, q) = b.order[i].qty
  BY <1>3, <1>4, RemoveWellFormed DEF Fill
<1>5. CASE FillQty(b, i, q) # b.order[i].qty
  <2>1. Fill(b, i, q) = Reduce(b, i, FillQty(b, i, q))
    BY <1>5 DEF Fill
  <2> QED BY <1>1, <1>3, <1>5, <2>1, ReduceWellFormed DEF Placed, WellFormed
<1> QED BY <1>4, <1>5

\* A modify leaves a well-formed book in each of its four cases.
LEMMA ModifyWellFormed ==
  ASSUME NEW b, WellFormed(b), NEW i \in b.resting, NEW p \in Prices, NEW q \in Nat
  PROVE  WellFormed(Modified(b, i, p, q))
<1> DEFINE o == b.order[i]
<1>1. o \in Orders /\ Placed(b, i)
  BY DEF WellFormed, Books, Linked, OrderLinked
<1>2. o.qty \in Nat /\ o.level = <<o.side, o.price>>
  BY <1>1 DEF Orders, Placed
<1>3. CASE q = 0
  <2>1. Modified(b, i, p, q) = RemoveOrder(b, i)
    BY <1>3 DEF Modified
  <2> QED BY <2>1, RemoveWellFormed
<1>4. CASE q # 0 /\ p # o.price
  <2>1. Modified(b, i, p, q) = Requeued(b, i, p, q, <<o.side, p>>)
    BY <1>4 DEF Modified
  <2>2. <<o.side, p>> # o.level
    BY <1>2, <1>4
  <2> QED BY <1>4, <2>1, <2>2, RequeueWellFormed
<1>5. CASE q # 0 /\ p = o.price /\ LosesPriority(b, i, q)
  <2>1. Modified(b, i, p, q) = Requeued(b, i, p, q, o.level)
    BY <1>5 DEF Modified
  <2>2. o.prev # Nil \/ o.next # Nil
    BY <1>5 DEF LosesPriority
  <2> QED BY <1>2, <1>5, <2>1, <2>2, RequeueWellFormed
<1>6. CASE q # 0 /\ p = o.price /\ ~LosesPriority(b, i, q)
  <2>1. Modified(b, i, p, q) = Reduce(b, i, o.qty - q)
    BY <1>6 DEF Modified
  <2>2. o.qty - q \in Int /\ o.qty - (o.qty - q) > 0
    BY <1>2, <1>6
  <2> QED BY <2>1, <2>2, ReduceWellFormed
<1> QED BY <1>3, <1>4, <1>5, <1>6

\* A new order, before FindOrCreateLevel and LinkOrder, is detached.
LEMMA NewOrderDetached ==
  ASSUME NEW b, WellFormed(b), NEW i \in Ids, i \notin b.resting,
         NEW s \in Sides, NEW p \in Prices, NEW q \in Nat
  PROVE  LET d == NewOrder(b, i, s, p, q)
         IN  /\ d \in Books /\ Detached(d, i) /\ Acyclic(d)
             /\ d.order[i].side = s /\ d.order[i].price = p /\ d.order[i].qty = q
<1> DEFINE o == [side |-> s, price |-> p, qty |-> q, prev |-> Nil, next |-> Nil, level |-> Nil]
           d == NewOrder(b, i, s, p, q)
<1>1. /\ b.order \in [Ids -> Orders] /\ b.level \in [Keys -> Levels]
      /\ b.resting \subseteq Ids /\ b.open \subseteq Keys /\ i # Nil
      /\ b = [order |-> b.order, resting |-> b.resting, level |-> b.level, open |-> b.open]
  BY DEF WellFormed, Books
<1>2. o \in Orders
  BY DEF Orders
<1>3. /\ d.order = [b.order EXCEPT ![i] = o] /\ d.resting = b.resting \cup {i}
      /\ d.level = b.level /\ d.open = b.open
  BY <1>1 DEF NewOrder
<1>4. d \in Books
  <2>1. [b.order EXCEPT ![i] = o] \in [Ids -> Orders]
    BY <1>1, <1>2
  <2>2. b.resting \cup {i} \in SUBSET Ids
    BY <1>1
  <2> QED BY <1>1, <2>1, <2>2 DEF Books, NewOrder
<1> HIDE DEF d
<1>5. /\ d.order[i].side = s /\ d.order[i].price = p /\ d.order[i].qty = q
      /\ d.order[i].level = Nil /\ d.order[i].prev = Nil /\ d.order[i].next = Nil
      /\ \A j \in Ids \ {i} : d.order[j] = b.order[j]
  BY <1>1, <1>3
<1>6. ASSUME NEW j \in b.resting
      PROVE  OrderLinked(d, j) /\ (b.order[j].prev # Nil => b.order[j].prev \in b.resting)
  <2>1. /\ Placed(b, j) /\ PrevLinked(b, j) /\ NextLinked(b, j) /\ j \in Ids \ {i}
        /\ d.order[j] = b.order[j]
    BY <1>1, <1>5 DEF WellFormed, Linked, OrderLinked
  <2>2. Placed(d, j)
    BY <1>3, <2>1 DEF Placed
  <2>3. PrevLinked(d, j) /\ (b.order[j].prev # Nil => b.order[j].prev \in b.resting)
    BY <1>1, <1>3, <1>5, <2>1 DEF PrevLinked
  <2>4. NextLinked(d, j)
    BY <1>1, <1>3, <1>5, <2>1 DEF NextLinked
  <2> QED BY <2>2, <2>3, <2>4 DEF OrderLinked
<1>7. ASSUME NEW l \in d.open PROVE LevelLinked(d, l)
  <2>1. LevelLinked(b, l) /\ l # Nil
    BY <1>1, <1>3 DEF WellFormed, Linked
  <2>2. OrdersAt(d, l) = OrdersAt(b, l) /\ OrdersAt(b, l) \subseteq Ids \ {i}
    BY <1>1, <1>3, <1>5, <2>1 DEF OrdersAt
  <2>3. b.level[l].head \in Ids \ {i} /\ b.level[l].tail \in Ids \ {i}
    BY <2>1, <2>2 DEF LevelLinked
  <2> QED BY <1>3, <1>5, <2>1, <2>2, <2>3 DEF LevelLinked
<1>8. \A j \in Ids \ d.resting : d.order[j] = NoOrder
  BY <1>3, <1>5 DEF WellFormed, Linked
<1>9. \A l \in Keys \ d.open : d.level[l] = NoLevel
  BY <1>3 DEF WellFormed, Linked
<1>10. Detached(d, i)
  BY <1>3, <1>5, <1>6, <1>7, <1>8, <1>9 DEF Detached
<1>11. Acyclic(d)
  <2>1. PICK r \in [Ids -> Nat] : Ranked(b, r)
    BY DEF WellFormed, Acyclic
  <2>2. Ranked(d, r)
    BY <1>1, <1>3, <1>5, <2>1 DEF Ranked
  <2> QED BY <2>2 DEF Acyclic
<1> QED BY <1>4, <1>5, <1>10, <1>11 DEF d

-----------------------------------------------------------------------------
\* The inductive invariant: the lists are sound and have no ring, and a running
\* FillLevel loop holds a level that is in the book.
IInv == TypeOK /\ WellFormed(book) /\ SweepLevelLive

LEMMA InitIInv == Init => IInv
<1> SUFFICES ASSUME Init PROVE IInv
  OBVIOUS
<1>1. TypeOK
  BY EmptyBookType DEF Init, TypeOK, Returned, Flags
<1>2. Acyclic(EmptyBook)
  <2>1. [j \in Ids |-> 0] \in [Ids -> Nat]
    OBVIOUS
  <2>2. Ranked(EmptyBook, [j \in Ids |-> 0])
    BY DEF Ranked, EmptyBook
  <2> QED BY <2>1, <2>2 DEF Acyclic
<1> QED BY <1>1, <1>2, EmptyBookType, EmptyBookLinked DEF Init, IInv, WellFormed, SweepLevelLive

\* Every handler, and every pass of FillLevel, preserves the inductive invariant.
LEMMA NextIInv == IInv /\ [Next]_vars => IInv'
<1> SUFFICES ASSUME IInv, [Next]_vars PROVE IInv'
  OBVIOUS
<1>1. /\ book \in Books /\ WellFormed(book) /\ out \in [filled : Nat, flag : Flags]
      /\ sweep \in Sweeps \cup {Nil} /\ (sweep # Nil => sweep.remaining <= sweep.asked)
      /\ Qtys \subseteq Nat /\ book.resting \subseteq Ids
      /\ SweepLevelLive
  BY DEF IInv, TypeOK, Qtys, Books
<1>2. ASSUME WellFormed(book'), sweep = Nil, UNCHANGED sweep,
             out' \in [filled : Nat, flag : Flags]
      PROVE  IInv'
  BY <1>2 DEF IInv, TypeOK, WellFormed, SweepLevelLive
<1>3. ASSUME NEW n \in Nat, NEW f \in Flags PROVE Returned(n, f) \in [filled : Nat, flag : Flags]
  BY DEF Returned
<1>4. ASSUME NEW i \in Ids, NEW s \in Sides, NEW p \in Prices, NEW q \in Qtys, OnOrder(i, s, p, q)
      PROVE  IInv'
  <2> DEFINE d == NewOrder(book, i, s, p, q)
  <2>1. sweep = Nil /\ UNCHANGED sweep
    BY <1>4 DEF OnOrder
  <2>2. CASE q = 0 \/ i \in book.resting
    BY <1>1, <1>2, <1>3, <1>4, <2>1, <2>2 DEF OnOrder, Flags
  <2>3. CASE q # 0 /\ i \notin book.resting
    <3>1. /\ book' = LinkOrder(FindOrCreateLevel(d, <<s, p>>), i, <<s, p>>)
          /\ out' = Returned(0, "none")
      BY <1>4, <2>3 DEF OnOrder
    <3>2. /\ d \in Books /\ Detached(d, i) /\ Acyclic(d)
          /\ d.order[i].side = s /\ d.order[i].price = p /\ d.order[i].qty = q
      BY <1>1, <2>3, NewOrderDetached
    <3> HIDE DEF d
    <3>3. <<s, p>> \in Keys /\ q > 0
      BY <1>1, <2>3 DEF Keys
    <3>4. WellFormed(book')
      BY <3>1, <3>2, <3>3, LinkWellFormed
    <3> QED BY <1>2, <1>3, <2>1, <3>1, <3>4 DEF Flags
  <2> QED BY <2>2, <2>3
<1>5. ASSUME NEW i \in Ids, NEW q \in Qtys, OnCancel(i, q)
      PROVE  IInv'
  <2>1. sweep = Nil /\ UNCHANGED sweep
    BY <1>5 DEF OnCancel
  <2>2. CASE i \notin book.resting
    BY <1>1, <1>2, <1>3, <1>5, <2>1, <2>2 DEF OnCancel, Flags
  <2>3. CASE i \in book.resting /\ (q = 0 \/ q >= book.order[i].qty)
    <3>1. book' = RemoveOrder(book, i) /\ out' = Returned(0, "none")
      BY <1>5, <2>3 DEF OnCancel
    <3> QED BY <1>1, <1>2, <1>3, <2>1, <2>3, <3>1, RemoveWellFormed DEF Flags
  <2>4. CASE i \in book.resting /\ ~(q = 0 \/ q >= book.order[i].qty)
    <3>1. book' = Reduce(book, i, q) /\ out' = Returned(0, "none")
      BY <1>5, <2>4 DEF OnCancel
    <3>2. book.order[i].qty \in Nat
      BY <1>1 DEF Books, Orders
    <3>3. q \in Int /\ book.order[i].qty - q > 0
      BY <1>1, <2>4, <3>2
    <3> QED BY <1>1, <1>2, <1>3, <2>1, <2>4, <3>1, <3>3, ReduceWellFormed DEF Flags
  <2> QED BY <2>2, <2>3, <2>4
<1>6. ASSUME NEW i \in Ids, NEW p \in Prices, NEW q \in Qtys, OnModify(i, p, q)
      PROVE  IInv'
  <2>1. sweep = Nil /\ UNCHANGED sweep
    BY <1>6 DEF OnModify
  <2>2. CASE i \notin book.resting
    BY <1>1, <1>2, <1>3, <1>6, <2>1, <2>2 DEF OnModify, Flags
  <2>3. CASE i \in book.resting
    <3>1. book' = Modified(book, i, p, q) /\ out' = Returned(0, "none")
      BY <1>6, <2>3 DEF OnModify
    <3>2. WellFormed(Modified(book, i, p, q))
      BY <1>1, <2>3, ModifyWellFormed
    <3> QED BY <1>2, <1>3, <2>1, <3>1, <3>2 DEF Flags
  <2> QED BY <2>2, <2>3
<1>7. ASSUME NEW i \in Ids, NEW q \in Qtys, OnTradeOrder(i, q)
      PROVE  IInv'
  <2>1. sweep = Nil /\ UNCHANGED sweep
    BY <1>7 DEF OnTradeOrder
  <2>2. CASE q = 0 \/ i \notin book.resting
    BY <1>1, <1>2, <1>3, <1>7, <2>1, <2>2 DEF OnTradeOrder, Flags
  <2>3. CASE q # 0 /\ i \in book.resting
    <3>1. /\ book' = Fill(book, i, q)
          /\ out' = Returned(FillQty(book, i, q),
                             IF FillQty(book, i, q) < q THEN "trade_over_order" ELSE "none")
      BY <1>7, <2>3 DEF OnTradeOrder
    <3>2. WellFormed(Fill(book, i, q)) /\ FillQty(book, i, q) \in Nat
      BY <1>1, <2>3, FillWellFormed
    <3> QED BY <1>2, <1>3, <2>1, <3>1, <3>2 DEF Flags
  <2> QED BY <2>2, <2>3
<1>8. ASSUME NEW s \in Sides, NEW p \in Prices, NEW q \in Qtys, OnTradeLevel(s, p, q)
      PROVE  IInv'
  <2>1. sweep = Nil /\ UNCHANGED book
    BY <1>8 DEF OnTradeLevel
  <2>2. CASE q = 0 \/ <<s, p>> \notin book.open
    <3>1. UNCHANGED sweep /\ out' \in [filled : Nat, flag : Flags]
      BY <1>3, <1>8, <2>2 DEF OnTradeLevel, Flags
    <3> QED BY <1>1, <1>2, <2>1, <3>1
  <2>3. CASE q # 0 /\ <<s, p>> \in book.open
    <3>1. /\ sweep' = [key |-> <<s, p>>, asked |-> q, remaining |-> q, before |-> book]
          /\ UNCHANGED out
      BY <1>8, <2>3 DEF OnTradeLevel
    <3>2. sweep' \in Sweeps /\ sweep'.remaining <= sweep'.asked /\ sweep'.key \in book'.open
      BY <1>1, <2>1, <2>3, <3>1 DEF Sweeps, Keys
    <3> QED BY <1>1, <2>1, <3>1, <3>2 DEF IInv, TypeOK, WellFormed, SweepLevelLive
  <2> QED BY <2>2, <2>3
<1>9. ASSUME FillLevelPass
      PROVE  IInv'
  <2> DEFINE head == book.level[sweep.key].head
             left == sweep.remaining - FillQty(book, head, sweep.remaining)
  <2>1. /\ sweep # Nil /\ sweep \in Sweeps /\ sweep.key \in Keys
        /\ sweep.asked \in Nat /\ sweep.remaining \in Nat /\ sweep.remaining <= sweep.asked
    BY <1>1, <1>9 DEF FillLevelPass, Sweeps
  <2>2. ASSUME NEW n \in Nat, n <= sweep.asked, SweepEnds(n), WellFormed(book') PROVE IInv'
    <3>1. sweep' = Nil /\ out' \in [filled : Nat, flag : Flags]
      BY <1>3, <2>1, <2>2 DEF SweepEnds, Flags
    <3> QED BY <2>2, <3>1 DEF IInv, TypeOK, WellFormed, SweepLevelLive
  <2>3. CASE ~(sweep.remaining > 0 /\ head # Nil)
    <3>1. SweepEnds(sweep.remaining) /\ UNCHANGED book
      BY <1>9, <2>3 DEF FillLevelPass
    <3> QED BY <1>1, <2>1, <2>2, <3>1
  <2>4. CASE sweep.remaining > 0 /\ head # Nil
    <3>1. /\ book' = Fill(book, head, sweep.remaining)
          /\ IF IsLast(book, head) THEN SweepEnds(left)
             ELSE sweep' = [sweep EXCEPT !.remaining = left] /\ UNCHANGED out
      BY <1>9, <2>4 DEF FillLevelPass
    <3>2. head \in book.resting /\ book.order[head].level = sweep.key
      BY <1>1, <2>1, <2>4 DEF SweepLevelLive, WellFormed, Linked, LevelLinked, OrdersAt
    <3>3. /\ WellFormed(book') /\ FillQty(book, head, sweep.remaining) \in 1..sweep.remaining
          /\ book.order[head].next # Nil => sweep.key \in book'.open
      <4> HIDE DEF head
      <4> QED BY <1>1, <2>1, <2>4, <3>1, <3>2, FillWellFormed
    <3>4. left \in Nat /\ left <= sweep.asked
      <4> HIDE DEF head
      <4> QED BY <2>1, <3>3
    <3> HIDE DEF left
    <3>5. CASE IsLast(book, head)
      BY <2>2, <3>1, <3>3, <3>4, <3>5
    <3>6. CASE ~IsLast(book, head)
      <4>1. sweep' = [sweep EXCEPT !.remaining = left] /\ out' = out
        BY <3>1, <3>6
      <4>2. left \in Qtys
        BY <2>1, <3>3, <3>4 DEF Sweeps, Qtys, left
      <4>3. /\ sweep' \in Sweeps /\ sweep'.key = sweep.key /\ sweep'.asked = sweep.asked
            /\ sweep'.remaining = left
        BY <2>1, <4>1, <4>2 DEF Sweeps
      <4>4. sweep.key \in book'.open
        BY <3>3, <3>6 DEF IsLast
      <4> QED BY <1>1, <3>3, <3>4, <4>1, <4>3, <4>4 DEF IInv, TypeOK, WellFormed, SweepLevelLive
    <3> QED BY <3>5, <3>6
  <2> QED BY <2>3, <2>4
<1>10. ASSUME OnClear
       PROVE  IInv'
  <2>1. Acyclic(EmptyBook)
    <3>1. [j \in Ids |-> 0] \in [Ids -> Nat]
      OBVIOUS
    <3>2. Ranked(EmptyBook, [j \in Ids |-> 0])
      BY DEF Ranked, EmptyBook
    <3> QED BY <3>1, <3>2 DEF Acyclic
  <2> QED BY <1>2, <1>3, <1>10, <2>1, EmptyBookType, EmptyBookLinked
          DEF OnClear, Flags, WellFormed
<1>11. CASE UNCHANGED vars
  BY <1>1, <1>11 DEF vars, IInv, TypeOK, WellFormed, Linked, Acyclic, Ranked, SweepLevelLive
<1> QED BY <1>4, <1>5, <1>6, <1>7, <1>8, <1>9, <1>10, <1>11 DEF Next

LEMMA Invariance == Spec => []IInv
<1> QED BY InitIInv, NextIInv, PTL DEF Spec

\* The variables keep their types for any ids, sides, prices and quantities.
THEOREM TypeCorrect == Spec => []TypeOK
<1>1. IInv => TypeOK
  BY DEF IInv
<1> QED BY <1>1, Invariance, PTL

\* The lists, the order map and the level maps of the book agree with each
\* other after every feed event and between the passes of FillLevel: no dangling
\* pointer, no empty level, no wrong count, for any number of orders and levels.
THEOREM ListsSound == Spec => []LinksOK
<1>1. IInv => LinksOK
  BY DEF IInv, WellFormed, LinksOK
<1> QED BY <1>1, Invariance, PTL

\* FillLevel never looks at a level that a fill has freed.
THEOREM NoFreedLevelRead == Spec => []SweepLevelLive
<1>1. IInv => SweepLevelLive
  BY DEF IInv
<1> QED BY <1>1, Invariance, PTL

-----------------------------------------------------------------------------
(* Induction.                                                              *)

\* A set of natural numbers that holds 0 and with each number the next holds them all:
\* the least number outside it would follow one inside.
LEMMA Induct ==
  ASSUME NEW T \in SUBSET Nat, 0 \in T, \A n \in T : n + 1 \in T
  PROVE  T = Nat
<1> SUFFICES ASSUME Nat \ T # {} PROVE FALSE
  OBVIOUS
<1>1. PICK n \in Nat \ T : \A m \in Nat \ T : ~(<<m, n>> \in OpToRel(<, Nat))
  <2>1. Nat \ T \subseteq Nat
    OBVIOUS
  <2>2. QED
    BY <2>1, NatLessThanWellFounded, WFMin, Zenon
<1>2. n # 0 /\ n - 1 \in Nat /\ n - 1 < n
  OBVIOUS
<1>3. n - 1 \in T
  BY <1>1, <1>2 DEF OpToRel
<1>4. QED
  BY <1>2, <1>3

\* A function can be defined by recursion on 0..N.
Steps(N, A, a, step) == N \in Nat /\ a \in A /\ step \in [1..N -> [A -> A]]

Runs(N, A, a, step, f) ==
  f \in [0..N -> A] /\ f[0] = a /\ \A n \in 1..N : f[n] = step[n][f[n - 1]]

LEMMA Recursion ==
  ASSUME NEW N, NEW A, NEW a, NEW step, Steps(N, A, a, step)
  PROVE  \E f : Runs(N, A, a, step, f)
<1> USE DEF Steps
<1> DEFINE T == {m \in Nat : m <= N =>
                   \E f \in [0..m -> A] : f[0] = a /\ \A n \in 1..m : f[n] = step[n][f[n - 1]]}
<1>1. 0 \in T
  <2> DEFINE f == [n \in 0..0 |-> a]
  <2>1. f \in [0..0 -> A] /\ f[0] = a /\ \A n \in 1..0 : f[n] = step[n][f[n - 1]]
    OBVIOUS
  <2>2. QED
    BY <2>1
<1>2. ASSUME NEW m \in T PROVE m + 1 \in T
  <2> SUFFICES ASSUME m + 1 <= N
               PROVE  \E f \in [0..m + 1 -> A] :
                        f[0] = a /\ \A n \in 1..m + 1 : f[n] = step[n][f[n - 1]]
    OBVIOUS
  <2>1. m \in Nat
    OBVIOUS
  <2>2. PICK f \in [0..m -> A] : f[0] = a /\ \A n \in 1..m : f[n] = step[n][f[n - 1]]
    BY <2>1
  <2> DEFINE g == [k \in 0..m + 1 |-> IF k = m + 1 THEN step[m + 1][f[m]] ELSE f[k]]
  <2>3. m + 1 \in 1..N /\ m \in 0..m /\ f[m] \in A /\ step[m + 1] \in [A -> A]
    BY <2>1
  <2>4. g \in [0..m + 1 -> A]
    BY <2>1, <2>3
  <2>5. g[0] = a
    BY <2>1, <2>2
  <2>6. ASSUME NEW n \in 1..m + 1 PROVE g[n] = step[n][g[n - 1]]
    <3>1. n - 1 \in 0..m /\ n \in 0..m + 1 /\ n - 1 \in 0..m + 1 /\ n - 1 # m + 1
      BY <2>1
    <3>2. g[n - 1] = f[n - 1]
      BY <3>1
    <3>3. CASE n = m + 1
      BY <3>1, <3>2, <3>3, <2>1
    <3>4. CASE n # m + 1
      <4>1. n \in 1..m
        BY <2>1, <3>4
      <4>2. QED
        BY <3>1, <3>2, <3>4, <4>1, <2>2
    <3>5. QED
      BY <3>3, <3>4
  <2>7. QED
    BY <2>4, <2>5, <2>6
<1>3. T = Nat
  <2> HIDE DEF T
  <2>1. T \in SUBSET Nat
    BY DEF T
  <2>2. QED
    BY <1>1, <1>2, <2>1, Induct
<1>4. QED
  BY <1>3 DEF Runs

-----------------------------------------------------------------------------
(* Sums over finite sets.                                                  *)

\* What a sum is over: whole numbers at every element of a finite set.
Summable(f, S) == IsFiniteSet(S) /\ \A x \in S : f[x] \in Int

\* The recursive function that SumFunctionOnSet evaluates.
Iterates(f, S, g) ==
  g = [T \in SUBSET S |-> IF T = {} THEN 0
                          ELSE LET x == CHOOSE x \in T : TRUE IN f[x] + g[T \ {x}]]

\* An element less.
LEMMA Without ==
  ASSUME NEW T, IsFiniteSet(T), NEW x \in T
  PROVE  /\ IsFiniteSet(T \ {x}) /\ Cardinality(T) \in Nat \ {0}
         /\ Cardinality(T \ {x}) = Cardinality(T) - 1
<1>1. Cardinality(T) \in Nat /\ IsFiniteSet(T \ {x})
  BY FS_CardinalityType, FS_RemoveElement
<1>2. Cardinality(T) # 0
  BY FS_EmptySet
<1>3. QED
  BY <1>1, <1>2, FS_RemoveElement

LEMMA IterExists ==
  ASSUME NEW f, NEW S, IsFiniteSet(S)
  PROVE  \E g : Iterates(f, S, g)
<1> DEFINE Small(n) == {T \in SUBSET S : Cardinality(T) <= n}
           Next1(T, g) == LET x == CHOOSE x \in T : TRUE IN f[x] + g[T \ {x}]
           Solves(n, g) == g = [T \in Small(n) |-> IF T = {} THEN 0 ELSE Next1(T, g)]
           P == {n \in Nat : \E g : Solves(n, g)}
<1>1. \A T \in SUBSET S : IsFiniteSet(T) /\ Cardinality(T) \in Nat /\ Cardinality(T) <= Cardinality(S)
  BY FS_Subset, FS_CardinalityType
<1>2. 0 \in P
  <2> DEFINE g == [T \in Small(0) |-> 0]
  <2>1. \A T \in Small(0) : T = {}
    BY <1>1, FS_EmptySet
  <2>2. Solves(0, g)
    BY <2>1
  <2>3. QED
    BY <2>2
<1>3. ASSUME NEW n \in P PROVE n + 1 \in P
  <2>1. n \in Nat
    OBVIOUS
  <2>2. PICK g : Solves(n, g)
    OBVIOUS
  <2> DEFINE h == [T \in Small(n + 1) |-> IF T = {} THEN 0 ELSE Next1(T, g)]
  <2>3. ASSUME NEW T \in Small(n + 1), T # {}
        PROVE  Next1(T, g) = Next1(T, h)
    <3> DEFINE x == CHOOSE x \in T : TRUE
               U == T \ {x}
    <3>1. x \in T
      BY <2>3
    <3>2. U \in SUBSET S /\ Cardinality(U) = Cardinality(T) - 1
      BY <3>1, <1>1, Without
    <3>3. U \in Small(n) /\ U \in Small(n + 1)
      BY <3>2, <2>1, <1>1
    <3>4. g[U] = IF U = {} THEN 0 ELSE Next1(U, g)
      BY <2>2, <3>3
    <3>5. h[U] = IF U = {} THEN 0 ELSE Next1(U, g)
      BY <3>3
    <3>6. g[U] = h[U]
      BY <3>4, <3>5
    <3>7. QED
      BY <3>6
  <2>4. Solves(n + 1, h)
    <3> HIDE DEF Next1
    <3>1. h = [T \in Small(n + 1) |-> IF T = {} THEN 0 ELSE Next1(T, h)]
      BY <2>3
    <3>2. QED
      BY <3>1
  <2>5. QED
    <3> HIDE DEF Solves
    <3>1. n + 1 \in Nat
      BY <2>1
    <3>2. QED
      BY <3>1, <2>4
<1>4. P = Nat
  <2> HIDE DEF P
  <2>1. P \in SUBSET Nat
    BY DEF P
  <2>2. QED
    BY <1>2, <1>3, <2>1, Induct
<1>5. PICK g : Solves(Cardinality(S), g)
  BY <1>1, <1>4
<1>6. Small(Cardinality(S)) = SUBSET S
  BY <1>1
<1>7. g = [T \in SUBSET S |-> IF T = {} THEN 0 ELSE Next1(T, g)]
  <2> HIDE DEF Small, Next1
  <2>1. QED
    BY <1>5, <1>6
<1>8. QED
  BY <1>7, Zenon DEF Iterates

LEMMA IterUnique ==
  ASSUME NEW f, NEW S, IsFiniteSet(S), NEW R \in SUBSET S,
         NEW g, Iterates(f, S, g), NEW h, Iterates(f, R, h)
  PROVE  \A T \in SUBSET R : g[T] = h[T]
<1> DEFINE P == {n \in Nat : \A T \in SUBSET R : Cardinality(T) = n => g[T] = h[T]}
           Next1(T, k) == LET x == CHOOSE x \in T : TRUE IN f[x] + k[T \ {x}]
<1>1. \A T \in SUBSET R : /\ IsFiniteSet(T) /\ Cardinality(T) \in Nat /\ T \in SUBSET S
                          /\ g[T] = (IF T = {} THEN 0 ELSE Next1(T, g))
                          /\ h[T] = (IF T = {} THEN 0 ELSE Next1(T, h))
  <2> SUFFICES ASSUME NEW T \in SUBSET R
               PROVE  /\ IsFiniteSet(T) /\ Cardinality(T) \in Nat /\ T \in SUBSET S
                      /\ g[T] = (IF T = {} THEN 0 ELSE Next1(T, g))
                      /\ h[T] = (IF T = {} THEN 0 ELSE Next1(T, h))
    OBVIOUS
  <2>1. T \in SUBSET S /\ IsFiniteSet(T) /\ Cardinality(T) \in Nat
    BY FS_Subset, FS_CardinalityType
  <2>2. g[T] = (IF T = {} THEN 0 ELSE Next1(T, g))
    BY <2>1 DEF Iterates
  <2>3. h[T] = (IF T = {} THEN 0 ELSE Next1(T, h))
    BY DEF Iterates
  <2>4. QED
    BY <2>1, <2>2, <2>3
<1>2. 0 \in P
  BY <1>1, FS_EmptySet
<1>3. ASSUME NEW n \in P PROVE n + 1 \in P
  <2> SUFFICES ASSUME NEW T \in SUBSET R, Cardinality(T) = n + 1 PROVE g[T] = h[T]
    OBVIOUS
  <2> DEFINE x == CHOOSE x \in T : TRUE
  <2>1. n \in Nat /\ T # {} /\ IsFiniteSet(T)
    <3>1. n \in Nat /\ IsFiniteSet(T)
      BY <1>1
    <3>2. n + 1 # 0
      BY <3>1
    <3>3. QED
      BY <3>1, <3>2, FS_EmptySet
  <2>2. x \in T
    BY <2>1
  <2>3. T \ {x} \in SUBSET R /\ Cardinality(T \ {x}) = n
    <3>1. Cardinality(T \ {x}) = Cardinality(T) - 1
      BY <2>1, <2>2, Without
    <3>2. QED
      BY <2>1, <3>1
  <2>4. g[T \ {x}] = h[T \ {x}]
    BY <2>3
  <2>5. QED
    BY <2>1, <2>4, <1>1
<1>4. P = Nat
  <2> HIDE DEF P
  <2>1. P \in SUBSET Nat
    BY DEF P
  <2>2. QED
    BY <1>2, <1>3, <2>1, Induct
<1>5. QED
  BY <1>1, <1>4

\* The sum over S is what is left when its chosen element is taken out, and that.
LEMMA SumChosen ==
  ASSUME NEW f, NEW S, IsFiniteSet(S)
  PROVE  SumFunctionOnSet(f, S) =
           IF S = {} THEN 0
           ELSE LET x == CHOOSE x \in S : TRUE IN f[x] + SumFunctionOnSet(f, S \ {x})
<1>1. ASSUME NEW R, IsFiniteSet(R)
      PROVE  \E g : Iterates(f, R, g) /\ SumFunctionOnSet(f, R) = g[R]
  <2> DEFINE g == CHOOSE g : Iterates(f, R, g)
  <2>1. Iterates(f, R, g)
    BY <1>1, IterExists
  <2>2. SumFunctionOnSet(f, R) = g[R]
    BY DEF SumFunctionOnSet, FoldFunctionOnSet, MapThenFoldSet, Iterates
  <2>3. QED
    BY <2>1, <2>2
<1>2. PICK g : Iterates(f, S, g) /\ SumFunctionOnSet(f, S) = g[S]
  BY <1>1
<1>3. CASE S = {}
  BY <1>2, <1>3 DEF Iterates
<1>4. CASE S # {}
  <2> DEFINE x == CHOOSE x \in S : TRUE
             U == S \ {x}
  <2>1. g[S] = f[x] + g[U]
    BY <1>2, <1>4 DEF Iterates
  <2>2. IsFiniteSet(U) /\ U \in SUBSET S
    BY FS_Subset
  <2>3. PICK h : Iterates(f, U, h) /\ SumFunctionOnSet(f, U) = h[U]
    BY <1>1, <2>2
  <2>4. g[U] = h[U]
    BY <1>2, <2>2, <2>3, IterUnique
  <2>5. QED
    BY <1>2, <1>4, <2>1, <2>3, <2>4
<1>5. QED
  BY <1>3, <1>4

LEMMA SumEmpty == ASSUME NEW f PROVE SumFunctionOnSet(f, {}) = 0
BY SumChosen, FS_EmptySet

\* A sum is a whole number, and depends on the summands alone.
LEMMA SumFacts ==
  ASSUME NEW f, NEW h, NEW S, Summable(f, S), \A x \in S : f[x] = h[x]
  PROVE  SumFunctionOnSet(f, S) \in Int /\ SumFunctionOnSet(f, S) = SumFunctionOnSet(h, S)
<1> USE DEF Summable
<1> DEFINE Good(T) == SumFunctionOnSet(f, T) \in Int
                        /\ SumFunctionOnSet(f, T) = SumFunctionOnSet(h, T)
           P == {n \in Nat : \A T \in SUBSET S : Cardinality(T) = n => Good(T)}
<1>1. \A T \in SUBSET S : IsFiniteSet(T) /\ Cardinality(T) \in Nat
  BY FS_Subset, FS_CardinalityType
<1>2. 0 \in P
  BY <1>1, SumEmpty, FS_EmptySet
<1>3. ASSUME NEW n \in P PROVE n + 1 \in P
  <2> SUFFICES ASSUME NEW T \in SUBSET S, Cardinality(T) = n + 1 PROVE Good(T)
    OBVIOUS
  <2> DEFINE x == CHOOSE x \in T : TRUE
  <2>1. n \in Nat /\ T # {} /\ IsFiniteSet(T)
    <3>1. n \in Nat /\ IsFiniteSet(T)
      BY <1>1
    <3>2. n + 1 # 0
      BY <3>1
    <3>3. QED
      BY <3>1, <3>2, FS_EmptySet
  <2>2. x \in T
    BY <2>1
  <2>3. Good(T \ {x})
    <3>1. Cardinality(T \ {x}) = Cardinality(T) - 1
      BY <2>1, <2>2, Without
    <3>2. QED
      BY <2>1, <3>1
  <2>4. SumFunctionOnSet(f, T) = f[x] + SumFunctionOnSet(f, T \ {x})
    BY <2>1, SumChosen
  <2>5. SumFunctionOnSet(h, T) = h[x] + SumFunctionOnSet(h, T \ {x})
    BY <2>1, SumChosen
  <2>6. f[x] \in Int /\ f[x] = h[x]
    BY <2>2
  <2>7. QED
    BY <2>3, <2>4, <2>5, <2>6
<1>4. P = Nat
  <2> HIDE DEF P
  <2>1. P \in SUBSET Nat
    BY DEF P
  <2>2. QED
    BY <1>2, <1>3, <2>1, Induct
<1>5. QED
  BY <1>1, <1>4

\* Any element may be taken out: the order in which a sum is formed does not matter.
LEMMA SumWithout ==
  ASSUME NEW f, NEW S, Summable(f, S), NEW z \in S
  PROVE  SumFunctionOnSet(f, S) = f[z] + SumFunctionOnSet(f, S \ {z})
<1> USE DEF Summable
<1> DEFINE P == {n \in Nat : \A T \in SUBSET S : Cardinality(T) = n =>
                   \A y \in T : SumFunctionOnSet(f, T) = f[y] + SumFunctionOnSet(f, T \ {y})}
<1>1. \A T \in SUBSET S : /\ IsFiniteSet(T) /\ Cardinality(T) \in Nat
                          /\ SumFunctionOnSet(f, T) \in Int
  <2>1. \A T \in SUBSET S : IsFiniteSet(T) /\ Cardinality(T) \in Nat
    BY FS_Subset, FS_CardinalityType
  <2>2. QED
    BY <2>1, SumFacts
<1>2. 0 \in P
  BY <1>1, FS_EmptySet
<1>3. ASSUME NEW n \in P PROVE n + 1 \in P
  <2> SUFFICES ASSUME NEW T \in SUBSET S, Cardinality(T) = n + 1, NEW y \in T
               PROVE  SumFunctionOnSet(f, T) = f[y] + SumFunctionOnSet(f, T \ {y})
    OBVIOUS
  <2> DEFINE x == CHOOSE x \in T : TRUE
             Both == (T \ {x}) \ {y}
  <2>1. n \in Nat /\ IsFiniteSet(T) /\ x \in T
    BY <1>1
  <2>2. SumFunctionOnSet(f, T) = f[x] + SumFunctionOnSet(f, T \ {x})
    BY <2>1, SumChosen
  <2>3. CASE x = y
    BY <2>2, <2>3
  <2>4. CASE x # y
    <3>1. \A u \in T : T \ {u} \in SUBSET S /\ Cardinality(T \ {u}) = n
      <4>1. \A u \in T : Cardinality(T \ {u}) = Cardinality(T) - 1
        BY <2>1, Without
      <4>2. QED
        BY <2>1, <4>1
    <3>2. SumFunctionOnSet(f, T \ {x}) = f[y] + SumFunctionOnSet(f, Both)
      <4>1. y \in T \ {x}
        BY <2>4
      <4>2. QED
        BY <2>1, <3>1, <4>1
    <3>3. SumFunctionOnSet(f, T \ {y}) = f[x] + SumFunctionOnSet(f, Both)
      <4>1. x \in T \ {y} /\ (T \ {y}) \ {x} = Both
        BY <2>1, <2>4
      <4>2. QED
        BY <3>1, <4>1
    <3>4. f[x] \in Int /\ f[y] \in Int /\ SumFunctionOnSet(f, Both) \in Int
      BY <2>1, <1>1
    <3> HIDE DEF x, Both
    <3>5. QED
      BY <2>2, <3>2, <3>3, <3>4
  <2>5. QED
    BY <2>3, <2>4
<1>4. P = Nat
  <2> HIDE DEF P
  <2>1. P \in SUBSET Nat
    BY DEF P
  <2>2. QED
    BY <1>2, <1>3, <2>1, Induct
<1>5. QED
  BY <1>1, <1>4

LEMMA SumWith ==
  ASSUME NEW f, NEW S, Summable(f, S), NEW z, f[z] \in Int, z \notin S
  PROVE  SumFunctionOnSet(f, S \cup {z}) = SumFunctionOnSet(f, S) + f[z]
<1>1. Summable(f, S \cup {z})
  BY FS_AddElement DEF Summable
<1>2. (S \cup {z}) \ {z} = S
  OBVIOUS
<1>3. SumFunctionOnSet(f, S \cup {z}) = f[z] + SumFunctionOnSet(f, S)
  BY <1>1, <1>2, SumWithout
<1>4. SumFunctionOnSet(f, S) \in Int
  BY SumFacts
<1>5. QED
  BY <1>3, <1>4

-----------------------------------------------------------------------------
(* The totals of the levels.                                               *)

Qty(b) == [i \in Ids |-> b.order[i].qty]

\* The quantity on level k by its orders.
QtyAt(b, k) == SumFunctionOnSet(Qty(b), OrdersAt(b, k))

Totals(b) == \A k \in Keys : b.level[k].qty = QtyAt(b, k)

LEMMA QtySummable ==
  ASSUME NEW b \in Books, NEW k
  PROVE  /\ Summable(Qty(b), OrdersAt(b, k)) /\ QtyAt(b, k) \in Int
         /\ OrdersAt(b, k) \subseteq Ids
<1>1. OrdersAt(b, k) \subseteq Ids /\ IsFiniteSet(OrdersAt(b, k))
  BY OrdersAtFinite DEF OrdersAt, Books
<1>2. \A i \in Ids : Qty(b)[i] \in Int
  BY DEF Qty, Books, Orders
<1>3. Summable(Qty(b), OrdersAt(b, k))
  BY <1>1, <1>2 DEF Summable
<1> QED BY <1>1, <1>3, SumFacts DEF QtyAt

\* The same orders with the same quantities make the same total.
LEMMA QtySame ==
  ASSUME NEW b \in Books, NEW c, NEW k,
         OrdersAt(c, k) = OrdersAt(b, k),
         \A i \in OrdersAt(b, k) : c.order[i].qty = b.order[i].qty
  PROVE  QtyAt(c, k) = QtyAt(b, k)
<1>1. Summable(Qty(b), OrdersAt(b, k)) /\ OrdersAt(b, k) \subseteq Ids
  BY QtySummable
<1>2. \A i \in OrdersAt(b, k) : Qty(b)[i] = Qty(c)[i]
  BY <1>1 DEF Qty
<1> QED BY <1>1, <1>2, SumFacts DEF QtyAt

\* What Reduce changes: two quantities.
LEMMA ReduceFields ==
  ASSUME NEW b, WellFormed(b), NEW i \in b.resting, NEW q \in Int, b.order[i].qty - q > 0
  PROVE  LET k == b.order[i].level
             c == Reduce(b, i, q)
         IN  /\ \A j \in Ids : /\ c.order[j].level = b.order[j].level
                               /\ c.order[j].next = b.order[j].next
                               /\ c.order[j].qty = IF j = i THEN b.order[j].qty - q
                                                   ELSE b.order[j].qty
             /\ \A l \in Keys : /\ c.level[l].head = b.level[l].head
                                /\ c.level[l].qty = IF l = k THEN b.level[l].qty - q
                                                    ELSE b.level[l].qty
             /\ c.resting = b.resting /\ c.open = b.open
<1> DEFINE k == b.order[i].level
           c == Reduce(b, i, q)
<1>1. /\ b.order \in [Ids -> Orders] /\ b.level \in [Keys -> Levels]
      /\ b.resting \subseteq Ids /\ i \in Ids
      /\ b = [order |-> b.order, resting |-> b.resting, level |-> b.level, open |-> b.open]
  BY DEF WellFormed, Books
<1>2. k \in Keys
  BY <1>1 DEF WellFormed, Linked, OrderLinked, Placed, Books
<1>3. c.order = [b.order EXCEPT ![i] = [b.order[i] EXCEPT !.qty = b.order[i].qty - q]]
  BY <1>1, <1>2 DEF Reduce
<1>4. c.level = [b.level EXCEPT ![k] = [b.level[k] EXCEPT !.qty = b.level[k].qty - q]]
  BY <1>1, <1>2 DEF Reduce
<1>5. c.resting = b.resting /\ c.open = b.open
  BY <1>1, <1>2 DEF Reduce
<1> HIDE DEF c
<1>6. ASSUME NEW j \in Ids
      PROVE  /\ c.order[j].level = b.order[j].level /\ c.order[j].next = b.order[j].next
             /\ c.order[j].qty = IF j = i THEN b.order[j].qty - q ELSE b.order[j].qty
  <2>1. b.order[j] \in Orders
    BY <1>1
  <2>2. c.order[j] = IF j = i THEN [b.order[i] EXCEPT !.qty = b.order[i].qty - q] ELSE b.order[j]
    BY <1>1, <1>3
  <2> QED BY <2>1, <2>2 DEF Orders
<1>7. ASSUME NEW l \in Keys
      PROVE  /\ c.level[l].head = b.level[l].head
             /\ c.level[l].qty = IF l = k THEN b.level[l].qty - q ELSE b.level[l].qty
  <2>1. b.level[l] \in Levels
    BY <1>1
  <2>2. c.level[l] = IF l = k THEN [b.level[k] EXCEPT !.qty = b.level[k].qty - q] ELSE b.level[l]
    BY <1>1, <1>4
  <2> QED BY <2>1, <2>2 DEF Levels
<1> QED BY <1>5, <1>6, <1>7 DEF c

\* A reduction takes as much from the order as from its level.
LEMMA ReduceTotals ==
  ASSUME NEW b, WellFormed(b), Totals(b), NEW i \in b.resting, NEW q \in Int,
         b.order[i].qty - q > 0
  PROVE  Totals(Reduce(b, i, q))
<1> DEFINE k == b.order[i].level
           c == Reduce(b, i, q)
<1>1. b \in Books /\ b.resting \subseteq Ids /\ i \in Ids
  BY DEF WellFormed, Books
<1>2. c \in Books
  BY ReduceWellFormed DEF WellFormed
<1>3. /\ \A j \in Ids : /\ c.order[j].level = b.order[j].level
                        /\ c.order[j].qty = IF j = i THEN b.order[j].qty - q ELSE b.order[j].qty
      /\ \A l \in Keys : c.level[l].qty = IF l = k THEN b.level[l].qty - q ELSE b.level[l].qty
      /\ c.resting = b.resting
  BY ReduceFields
<1> HIDE DEF c
<1>4. \A l : OrdersAt(c, l) = OrdersAt(b, l) /\ (l # k => i \notin OrdersAt(b, l))
  <2>1. \A j \in b.resting : c.order[j].level = b.order[j].level
    BY <1>1, <1>3
  <2>2. c.resting = b.resting
    BY <1>3
  <2> QED BY <2>1, <2>2 DEF OrdersAt
<1>5. ASSUME NEW l \in Keys, l # k PROVE c.level[l].qty = QtyAt(c, l)
  <2>1. \A j \in OrdersAt(b, l) : c.order[j].qty = b.order[j].qty
    BY <1>1, <1>3, <1>4, <1>5 DEF OrdersAt
  <2>2. QtyAt(c, l) = QtyAt(b, l)
    BY <1>1, <1>4, <2>1, QtySame
  <2> QED BY <1>3, <1>5, <2>2 DEF Totals
<1>6. ASSUME k \in Keys PROVE c.level[k].qty = QtyAt(c, k)
  <2> DEFINE S == OrdersAt(b, k)
             rest == SumFunctionOnSet(Qty(b), S \ {i})
  <2>1. i \in S /\ Summable(Qty(b), S) /\ Summable(Qty(c), S) /\ S \subseteq Ids
    <3>1. i \in S
      BY DEF OrdersAt
    <3>2. Summable(Qty(b), S) /\ S \subseteq Ids
      BY <1>1, QtySummable
    <3>3. OrdersAt(c, k) = S
      BY <1>4
    <3>4. Summable(Qty(c), OrdersAt(c, k))
      BY <1>2, QtySummable
    <3> QED BY <3>1, <3>2, <3>3, <3>4
  <2>2. QtyAt(b, k) = Qty(b)[i] + rest
    BY <2>1, SumWithout DEF QtyAt
  <2>3. QtyAt(c, k) = Qty(c)[i] + SumFunctionOnSet(Qty(c), S \ {i})
    BY <1>4, <2>1, SumWithout DEF QtyAt
  <2>4. SumFunctionOnSet(Qty(c), S \ {i}) = rest /\ rest \in Int
    <3>1. Summable(Qty(b), S \ {i})
      BY <2>1, FS_Subset DEF Summable
    <3>2. \A j \in S \ {i} : Qty(b)[j] = Qty(c)[j]
      BY <1>3, <2>1 DEF Qty
    <3> QED BY <3>1, <3>2, SumFacts
  <2>5. Qty(c)[i] = Qty(b)[i] - q /\ Qty(b)[i] \in Int
    BY <1>1, <1>3, <2>1 DEF Qty, Summable
  <2>6. c.level[k].qty = b.level[k].qty - q /\ b.level[k].qty = QtyAt(b, k)
    BY <1>3, <1>6 DEF Totals
  <2> HIDE DEF rest
  <2> QED BY <2>2, <2>3, <2>4, <2>5, <2>6
<1> QED BY <1>5, <1>6 DEF Totals, c

\* An unlinked order takes its quantity from the total with it.
LEMMA UnlinkTotals ==
  ASSUME NEW b, WellFormed(b), Totals(b), NEW i \in b.resting
  PROVE  Totals(UnlinkOrder(b, i))
<1> DEFINE k == b.order[i].level
           c == UnlinkOrder(b, i)
           lv == b.level[k]
<1>1. b \in Books /\ b.resting \subseteq Ids /\ i \in Ids /\ Placed(b, i) /\ LevelLinked(b, k)
  BY DEF WellFormed, Books, Linked, OrderLinked, Placed
<1>2. /\ c \in Books /\ c.resting = b.resting /\ c.order = Bypassed(b.order, i)
      /\ c.open = IF lv.count = 1 THEN b.open \ {k} ELSE b.open
      /\ c.level = [b.level EXCEPT ![k] =
                      IF lv.count = 1 THEN NoLevel
                      ELSE [head  |-> IF b.order[i].prev # Nil THEN lv.head ELSE b.order[i].next,
                            tail  |-> IF b.order[i].next # Nil THEN lv.tail ELSE b.order[i].prev,
                            qty   |-> lv.qty - b.order[i].qty,
                            count |-> lv.count - 1]]
  BY UnlinkFields, Zenon
<1>3. LinkedAround(c.order, b.order, i)
  BY <1>2, BypassedFields
<1> HIDE DEF c
<1>4. k \in Keys /\ Nil \notin Keys /\ b.level \in [Keys -> Levels]
  BY <1>1 DEF Placed, Books
<1>5. \A l \in Keys : OrdersAt(c, l) = OrdersAt(b, l) \ {i}
  <2>1. \A j \in b.resting : IF j = i THEN c.order[j].level = Nil
                            ELSE c.order[j].level = b.order[j].level
    BY <1>1, <1>3 DEF LinkedAround
  <2>2. c.resting = b.resting
    BY <1>2
  <2> QED BY <1>4, <2>1, <2>2 DEF OrdersAt
<1>6. \A j \in Ids : c.order[j].qty = b.order[j].qty
  BY <1>3 DEF LinkedAround
<1>7. ASSUME NEW l \in Keys, l # k PROVE c.level[l].qty = QtyAt(c, l)
  <2>1. i \notin OrdersAt(b, l)
    BY <1>7 DEF OrdersAt
  <2>2. OrdersAt(c, l) = OrdersAt(b, l)
    BY <1>5, <2>1
  <2>a. \A j \in OrdersAt(b, l) : c.order[j].qty = b.order[j].qty
    BY <1>1, <1>6 DEF OrdersAt
  <2>3. QtyAt(c, l) = QtyAt(b, l)
    BY <1>1, <2>2, <2>a, QtySame
  <2>4. c.level[l] = b.level[l]
    BY <1>2, <1>4, <1>7
  <2> QED BY <2>3, <2>4 DEF Totals
<1>8. c.level[k].qty = QtyAt(c, k)
  <2> DEFINE S == OrdersAt(b, k)
             rest == SumFunctionOnSet(Qty(b), S \ {i})
  <2>1. i \in S /\ Summable(Qty(b), S) /\ S \subseteq Ids
    BY <1>1, QtySummable DEF OrdersAt
  <2>2. QtyAt(b, k) = b.order[i].qty + rest /\ rest \in Int /\ b.order[i].qty \in Int
    <3>1. Summable(Qty(b), S \ {i})
      BY <2>1, FS_Subset DEF Summable
    <3>2. rest \in Int
      BY <3>1, SumFacts
    <3>3. Qty(b)[i] = b.order[i].qty /\ Qty(b)[i] \in Int
      BY <1>1, <2>1 DEF Qty, Summable
    <3> QED BY <2>1, <3>2, <3>3, SumWithout DEF QtyAt
  <2>3. QtyAt(c, k) = rest
    <3>1. \A j \in S \ {i} : Qty(b)[j] = Qty(c)[j]
      BY <1>6, <2>1 DEF Qty
    <3>2. Summable(Qty(b), S \ {i})
      BY <2>1, FS_Subset DEF Summable
    <3>3. OrdersAt(c, k) = S \ {i}
      BY <1>4, <1>5
    <3> QED BY <3>1, <3>2, <3>3, SumFacts DEF QtyAt
  <2>4. CASE lv.count # 1
    <3>1. c.level[k].qty = lv.qty - b.order[i].qty
      BY <1>2, <1>4, <2>4
    <3>2. lv.qty = QtyAt(b, k)
      BY <1>4 DEF Totals
    <3> HIDE DEF rest
    <3> QED BY <2>2, <2>3, <3>1, <3>2
  <2>5. CASE lv.count = 1
    <3>1. c.level[k].qty = 0
      BY <1>2, <1>4, <2>5 DEF NoLevel
    <3>2. Cardinality(S) = 1 /\ IsFiniteSet(S)
      BY <1>1, <2>5, OrdersAtFinite DEF LevelLinked
    <3>3. PICK x : S = {x}
      BY <3>2, FS_Singleton
    <3>4. S \ {i} = {}
      BY <2>1, <3>3
    <3> QED BY <2>3, <3>1, <3>4, SumEmpty
  <2> QED BY <2>4, <2>5
<1> QED BY <1>7, <1>8 DEF Totals, c

\* A linked order brings its quantity to the total.
LEMMA LinkTotals ==
  ASSUME NEW d \in Books, NEW i, Detached(d, i), NEW k \in Keys, Totals(d)
  PROVE  Totals(LinkOrder(FindOrCreateLevel(d, k), i, k))
<1> DEFINE c == LinkOrder(FindOrCreateLevel(d, k), i, k)
<1>1. LinkedBehind(c, d, i, k)
  BY LinkFields
<1> HIDE DEF c
<1>2. /\ i \in Ids /\ i \in d.resting /\ d.resting \subseteq Ids /\ d.order[i].level = Nil
      /\ Nil \notin Keys /\ d.level \in [Keys -> Levels]
  BY DEF Books, Detached
<1>3. /\ c \in Books /\ c.resting = d.resting /\ c.order[i].level = k
      /\ \A j \in Ids : c.order[j].qty = d.order[j].qty
      /\ \A j \in Ids \ {i} : c.order[j].level = d.order[j].level
      /\ c.level[k].qty = d.level[k].qty + d.order[i].qty
      /\ \A l \in Keys : l # k => c.level[l] = d.level[l]
  <2>1. c.level = [d.level EXCEPT ![k] =
                     [head  |-> IF d.level[k].tail # Nil THEN d.level[k].head ELSE i,
                      tail  |-> i,
                      qty   |-> d.level[k].qty + d.order[i].qty,
                      count |-> d.level[k].count + 1]]
    BY <1>1 DEF LinkedBehind
  <2>2. /\ c.level[k].qty = d.level[k].qty + d.order[i].qty
        /\ \A l \in Keys : l # k => c.level[l] = d.level[l]
    BY <1>2, <2>1
  <2> QED BY <1>1, <2>2 DEF LinkedBehind
<1>4. i \notin OrdersAt(d, k) /\ OrdersAt(c, k) = OrdersAt(d, k) \cup {i}
  BY <1>2, <1>3 DEF OrdersAt
<1>5. \A l \in Keys : l # k => OrdersAt(c, l) = OrdersAt(d, l)
  BY <1>2, <1>3 DEF OrdersAt
<1>6. ASSUME NEW l \in Keys, l # k PROVE c.level[l].qty = QtyAt(c, l)
  <2>1. \A j \in OrdersAt(d, l) : c.order[j].qty = d.order[j].qty
    BY <1>2, <1>3 DEF OrdersAt
  <2>2. QtyAt(c, l) = QtyAt(d, l)
    BY <1>5, <1>6, <2>1, QtySame
  <2> QED BY <1>3, <1>6, <2>2 DEF Totals
<1>7. c.level[k].qty = QtyAt(c, k)
  <2> DEFINE S == OrdersAt(d, k)
  <2>1. Summable(Qty(d), S) /\ S \subseteq Ids /\ QtyAt(d, k) \in Int
    BY QtySummable
  <2>2. Qty(d)[i] = d.order[i].qty /\ d.order[i].qty \in Int
    BY <1>2 DEF Qty, Books, Orders
  <2>3. SumFunctionOnSet(Qty(d), S \cup {i}) = QtyAt(d, k) + d.order[i].qty
    BY <1>4, <2>1, <2>2, SumWith DEF QtyAt
  <2>4. QtyAt(c, k) = SumFunctionOnSet(Qty(d), S \cup {i})
    <3>1. Summable(Qty(d), S \cup {i})
      BY <2>1, <2>2, FS_AddElement DEF Summable
    <3>2. \A j \in S \cup {i} : Qty(d)[j] = Qty(c)[j]
      BY <1>2, <1>3, <2>1 DEF Qty
    <3> QED BY <1>4, <3>1, <3>2, SumFacts DEF QtyAt
  <2>5. d.level[k].qty = QtyAt(d, k)
    BY DEF Totals
  <2> QED BY <1>3, <2>3, <2>4, <2>5
<1> QED BY <1>6, <1>7 DEF Totals, c

\* What RemoveOrder leaves: the book without the unlinked order.
LEMMA RemoveFields ==
  ASSUME NEW b, WellFormed(b), NEW i \in b.resting
  PROVE  LET u == UnlinkOrder(b, i)
             c == RemoveOrder(b, i)
         IN  /\ c.resting = b.resting \ {i} /\ c.level = u.level /\ c.open = u.open
             /\ \A j \in Ids \ {i} : c.order[j] = u.order[j]
<1> DEFINE u == UnlinkOrder(b, i)
           c == RemoveOrder(b, i)
<1>1. u \in Books /\ u.resting = b.resting /\ i \in Ids
  BY UnlinkFields, Zenon DEF WellFormed, Books
<1> HIDE DEF u
<1>2. /\ u.order \in [Ids -> Orders]
      /\ u = [order |-> u.order, resting |-> u.resting, level |-> u.level, open |-> u.open]
  BY <1>1 DEF Books
<1>3. /\ c.order = [u.order EXCEPT ![i] = NoOrder] /\ c.resting = u.resting \ {i}
      /\ c.level = u.level /\ c.open = u.open
  BY <1>2 DEF RemoveOrder, u
<1> HIDE DEF c
<1>4. \A j \in Ids \ {i} : c.order[j] = u.order[j]
  BY <1>2, <1>3
<1> QED BY <1>1, <1>3, <1>4 DEF u, c

LEMMA RemoveTotals ==
  ASSUME NEW b, WellFormed(b), Totals(b), NEW i \in b.resting
  PROVE  Totals(RemoveOrder(b, i))
<1> DEFINE u == UnlinkOrder(b, i)
           c == RemoveOrder(b, i)
<1>1. u \in Books /\ u.resting = b.resting /\ Detached(u, i) /\ Totals(u)
  BY UnlinkFields, UnlinkDetaches, UnlinkTotals
<1>2. /\ c.resting = b.resting \ {i} /\ c.level = u.level
      /\ \A j \in Ids \ {i} : c.order[j] = u.order[j]
  BY RemoveFields
<1> HIDE DEF u, c
<1>3. u.resting \subseteq Ids /\ u.order[i].level = Nil /\ Nil \notin Keys
  BY <1>1 DEF Books, Detached
<1>4. ASSUME NEW l \in Keys PROVE QtyAt(c, l) = QtyAt(u, l)
  <2>1. OrdersAt(c, l) = OrdersAt(u, l) /\ \A j \in OrdersAt(u, l) : c.order[j] = u.order[j]
    BY <1>1, <1>2, <1>3 DEF OrdersAt
  <2> QED BY <1>1, <2>1, QtySame
<1> QED BY <1>1, <1>2, <1>4 DEF Totals, c

\* An order that is in no list counts in no total.
LEMMA DetachedTotals ==
  ASSUME NEW b \in Books, Totals(b), NEW d, NEW i, d.level = b.level,
         d.resting \ {i} = b.resting \ {i},
         \A j \in Ids \ {i} : d.order[j] = b.order[j],
         d.order[i].level = Nil, i \in b.resting => b.order[i].level = Nil
  PROVE  Totals(d)
<1>1. b.resting \subseteq Ids /\ Nil \notin Keys
  BY DEF Books
<1>2. ASSUME NEW l \in Keys PROVE QtyAt(d, l) = QtyAt(b, l)
  <2>1. OrdersAt(d, l) = OrdersAt(b, l) /\ \A j \in OrdersAt(b, l) : d.order[j] = b.order[j]
    BY <1>1 DEF OrdersAt
  <2> QED BY <2>1, QtySame
<1> QED BY <1>2 DEF Totals

LEMMA RequeueTotals ==
  ASSUME NEW b, WellFormed(b), Totals(b), NEW i \in b.resting,
         NEW p \in Prices, NEW q \in Nat, q > 0,
         NEW k, k = <<b.order[i].side, p>>,
         k = b.order[i].level => b.order[i].prev # Nil \/ b.order[i].next # Nil
  PROVE  Totals(Requeued(b, i, p, q, k))
<1> DEFINE u == UnlinkOrder(b, i)
<1>1. u \in Books /\ u.resting = b.resting /\ Detached(u, i) /\ Totals(u)
  BY UnlinkFields, UnlinkDetaches, UnlinkTotals
<1>2. PICK r : /\ Repriced(r, u, i, p, q, k)
               /\ Requeued(b, i, p, q, k) = LinkOrder(FindOrCreateLevel(r, k), i, k)
  BY RequeueDetaches
<1> HIDE DEF u
<1>3. /\ r \in Books /\ Detached(r, i) /\ k \in Keys /\ r.resting = u.resting
      /\ r.level = u.level /\ \A j \in Ids \ {i} : r.order[j] = u.order[j]
  BY <1>2 DEF Repriced
<1>4. Totals(r)
  <2>1. r.order[i].level = Nil /\ u.order[i].level = Nil
    BY <1>1, <1>3 DEF Detached
  <2> QED BY <1>1, <1>3, <2>1, DetachedTotals
<1> QED BY <1>2, <1>3, <1>4, LinkTotals

LEMMA FillTotals ==
  ASSUME NEW b, WellFormed(b), Totals(b), NEW i \in b.resting, NEW q \in Nat, q > 0
  PROVE  Totals(Fill(b, i, q))
<1>1. b.order[i].qty \in Nat
  BY DEF WellFormed, Books, Orders
<1>2. CASE FillQty(b, i, q) = b.order[i].qty
  BY <1>2, RemoveTotals DEF Fill
<1>3. CASE FillQty(b, i, q) # b.order[i].qty
  <2>1. Fill(b, i, q) = Reduce(b, i, FillQty(b, i, q))
    BY <1>3 DEF Fill
  <2>2. FillQty(b, i, q) \in Int /\ b.order[i].qty - FillQty(b, i, q) > 0
    BY <1>1, <1>3 DEF FillQty, Lesser
  <2> QED BY <2>1, <2>2, ReduceTotals
<1> QED BY <1>2, <1>3

LEMMA ModifyTotals ==
  ASSUME NEW b, WellFormed(b), Totals(b), NEW i \in b.resting, NEW p \in Prices, NEW q \in Nat
  PROVE  Totals(Modified(b, i, p, q))
<1> DEFINE o == b.order[i]
<1>1. o \in Orders /\ Placed(b, i)
  BY DEF WellFormed, Books, Linked, OrderLinked
<1>2. o.qty \in Nat /\ o.level = <<o.side, o.price>>
  BY <1>1 DEF Orders, Placed
<1>3. CASE q = 0
  <2>1. Modified(b, i, p, q) = RemoveOrder(b, i)
    BY <1>3 DEF Modified
  <2> QED BY <2>1, RemoveTotals
<1>4. CASE q # 0 /\ p # o.price
  <2>1. Modified(b, i, p, q) = Requeued(b, i, p, q, <<o.side, p>>)
    BY <1>4 DEF Modified
  <2>2. <<o.side, p>> # o.level /\ q > 0
    BY <1>2, <1>4
  <2> QED BY <2>1, <2>2, RequeueTotals
<1>5. CASE q # 0 /\ p = o.price /\ LosesPriority(b, i, q)
  <2>1. Modified(b, i, p, q) = Requeued(b, i, p, q, o.level)
    BY <1>5 DEF Modified
  <2>2. (o.prev # Nil \/ o.next # Nil) /\ q > 0
    BY <1>5 DEF LosesPriority
  <2> QED BY <1>2, <1>5, <2>1, <2>2, RequeueTotals
<1>6. CASE q # 0 /\ p = o.price /\ ~LosesPriority(b, i, q)
  <2>1. Modified(b, i, p, q) = Reduce(b, i, o.qty - q)
    BY <1>6 DEF Modified
  <2>2. o.qty - q \in Int /\ o.qty - (o.qty - q) > 0
    BY <1>2, <1>6
  <2> QED BY <2>1, <2>2, ReduceTotals
<1> QED BY <1>3, <1>4, <1>5, <1>6

LEMMA EmptyTotals == Totals(EmptyBook)
<1>1. \A k \in Keys : OrdersAt(EmptyBook, k) = {} /\ EmptyBook.level[k].qty = 0
  BY DEF EmptyBook, NoLevel, OrdersAt
<1> QED BY <1>1, SumEmpty DEF Totals, QtyAt

\* Every handler, and every pass of FillLevel, keeps the totals of the levels right.
LEMMA NextTotals == ASSUME IInv, Totals(book), [Next]_vars PROVE Totals(book)'
<1>1. WellFormed(book) /\ Qtys \subseteq Nat
  BY DEF IInv, Qtys
<1>2. UNCHANGED book => Totals(book)'
  BY DEF Totals, QtyAt, OrdersAt, Qty
<1>3. ASSUME NEW i \in Ids, NEW s \in Sides, NEW p \in Prices, NEW q \in Qtys, OnOrder(i, s, p, q)
      PROVE  Totals(book')
  <2> DEFINE d == NewOrder(book, i, s, p, q)
             k == <<s, p>>
  <2>1. CASE q = 0 \/ i \in book.resting
    BY <1>2, <1>3, <2>1 DEF OnOrder
  <2>2. CASE q # 0 /\ i \notin book.resting
    <3>1. book' = LinkOrder(FindOrCreateLevel(d, k), i, k)
      BY <1>3, <2>2 DEF OnOrder
    <3>2. d \in Books /\ Detached(d, i) /\ k \in Keys
      BY <1>1, <2>2, NewOrderDetached DEF Keys
    <3>3. Totals(d)
      <4>1. /\ book \in Books /\ book.order \in [Ids -> Orders]
            /\ book = [order |-> book.order, resting |-> book.resting,
                       level |-> book.level, open |-> book.open]
        BY <1>1 DEF WellFormed, Books
      <4>2. /\ d.level = book.level /\ d.resting = book.resting \cup {i}
            /\ \A j \in Ids \ {i} : d.order[j] = book.order[j]
        BY <4>1 DEF NewOrder
      <4>3. d.order[i].level = Nil
        BY <3>2 DEF Detached
      <4> HIDE DEF d
      <4>4. d.resting \ {i} = book.resting \ {i}
        BY <4>2
      <4> QED BY <2>2, <4>1, <4>2, <4>3, <4>4, DetachedTotals
    <3> QED BY <3>1, <3>2, <3>3, LinkTotals
  <2> QED BY <2>1, <2>2
<1>4. ASSUME NEW i \in Ids, NEW q \in Qtys, OnCancel(i, q) PROVE Totals(book')
  <2>1. CASE i \notin book.resting
    BY <1>2, <1>4, <2>1 DEF OnCancel
  <2>2. CASE i \in book.resting /\ (q = 0 \/ q >= book.order[i].qty)
    BY <1>1, <1>4, <2>2, RemoveTotals DEF OnCancel
  <2>3. CASE i \in book.resting /\ ~(q = 0 \/ q >= book.order[i].qty)
    <3>1. book' = Reduce(book, i, q)
      BY <1>4, <2>3 DEF OnCancel
    <3>2. q \in Int /\ book.order[i].qty - q > 0
      BY <1>1, <2>3 DEF WellFormed, Books, Orders
    <3> QED BY <1>1, <2>3, <3>1, <3>2, ReduceTotals
  <2> QED BY <2>1, <2>2, <2>3
<1>5. ASSUME NEW i \in Ids, NEW p \in Prices, NEW q \in Qtys, OnModify(i, p, q)
      PROVE  Totals(book')
  <2>1. CASE i \notin book.resting
    BY <1>2, <1>5, <2>1 DEF OnModify
  <2>2. CASE i \in book.resting
    BY <1>1, <1>5, <2>2, ModifyTotals DEF OnModify
  <2> QED BY <2>1, <2>2
<1>6. ASSUME NEW i \in Ids, NEW q \in Qtys, OnTradeOrder(i, q) PROVE Totals(book')
  <2>1. CASE q = 0 \/ i \notin book.resting
    BY <1>2, <1>6, <2>1 DEF OnTradeOrder
  <2>2. CASE q # 0 /\ i \in book.resting
    <3>1. book' = Fill(book, i, q) /\ q \in Nat /\ q > 0
      BY <1>1, <1>6, <2>2 DEF OnTradeOrder
    <3> QED BY <1>1, <2>2, <3>1, FillTotals
  <2> QED BY <2>1, <2>2
<1>7. ASSUME FillLevelPass PROVE Totals(book')
  <2> DEFINE head == book.level[sweep.key].head
  <2>1. CASE ~(sweep.remaining > 0 /\ head # Nil)
    BY <1>2, <1>7, <2>1 DEF FillLevelPass
  <2>2. CASE sweep.remaining > 0 /\ head # Nil
    <3>1. book' = Fill(book, head, sweep.remaining) /\ sweep # Nil
      BY <1>7, <2>2 DEF FillLevelPass
    <3>2. sweep \in Sweeps
      BY <3>1 DEF IInv, TypeOK
    <3>3. sweep.remaining \in Nat /\ sweep.key \in book.open
      BY <1>1, <2>2, <3>1, <3>2 DEF IInv, SweepLevelLive, Sweeps
    <3>4. head \in book.resting
      BY <1>1, <3>3 DEF WellFormed, Linked, LevelLinked, OrdersAt
    <3> HIDE DEF head
    <3> QED BY <1>1, <2>2, <3>1, <3>3, <3>4, FillTotals
  <2> QED BY <2>1, <2>2
<1>8. ASSUME OnClear PROVE Totals(book')
  BY <1>8, EmptyTotals DEF OnClear
<1>9. ASSUME NEW s \in Sides, NEW p \in Prices, NEW q \in Qtys, OnTradeLevel(s, p, q)
      PROVE  Totals(book')
  BY <1>2, <1>9 DEF OnTradeLevel
<1>10. CASE UNCHANGED vars
  BY <1>2, <1>10 DEF vars
<1> QED BY <1>3, <1>4, <1>5, <1>6, <1>7, <1>8, <1>9, <1>10 DEF Next

\* The total of a level is the sum of what its orders have left, after every handler
\* and between the passes of FillLevel: what each of them adds and takes, sums up.
THEOREM TotalsInductive == Spec => [](IInv /\ Totals(book))
<1>1. Init => Totals(book)
  BY EmptyTotals DEF Init
<1>2. Totals(book) /\ IInv /\ [Next]_vars => Totals(book)'
  BY NextTotals
<1> QED BY <1>1, <1>2, Invariance, PTL DEF Spec
-----------------------------------------------------------------------------
(* The levels by their prices.                                             *)

LEMMA BeforeOrders ==
  ASSUME NEW s, NEW p \in Int, NEW q \in Int, NEW r \in Int
  PROVE  /\ ~Before(s, p, p)
         /\ p # q => Before(s, p, q) \/ Before(s, q, p)
         /\ ~(Before(s, p, q) /\ Before(s, q, p))
         /\ Before(s, p, q) /\ Before(s, q, r) => Before(s, p, r)
BY DEF Before

\* Some prices, and those of them that are before p.
Priced(P) == P \in SUBSET Int /\ IsFiniteSet(P)
Better(s, P, p) == {q \in P : Before(s, q, p)}

\* A map that has prices has a first one.
LEMMA BeginIs ==
  ASSUME NEW s, NEW P, Priced(P), P # {}
  PROVE  Begin(s, P) \in P /\ \A q \in P \ {Begin(s, P)} : Before(s, Begin(s, P), q)
<1> DEFINE First(p, Q) == p \in Q /\ \A q \in Q \ {p} : Before(s, p, q)
           T == {n \in Nat : \A Q \in SUBSET P : Cardinality(Q) = n + 1 => \E p \in Q : First(p, Q)}
<1>1. \A Q \in SUBSET P : IsFiniteSet(Q) /\ Cardinality(Q) \in Nat /\ Q \subseteq Int
  BY FS_Subset, FS_CardinalityType DEF Priced
<1>2. 0 \in T
  <2> SUFFICES ASSUME NEW Q \in SUBSET P, Cardinality(Q) = 1 PROVE \E p \in Q : First(p, Q)
    OBVIOUS
  <2>1. PICK p : Q = {p}
    BY <1>1, FS_Singleton
  <2> QED BY <2>1
<1>3. ASSUME NEW n \in T PROVE n + 1 \in T
  <2> SUFFICES ASSUME NEW Q \in SUBSET P, Cardinality(Q) = n + 2
               PROVE  \E p \in Q : First(p, Q)
    OBVIOUS
  <2>1. n \in Nat /\ Q # {} /\ IsFiniteSet(Q)
    BY <1>1, FS_EmptySet
  <2>2. PICK x \in Q : TRUE
    BY <2>1
  <2>3. Cardinality(Q \ {x}) = n + 1
    BY <2>1, Without
  <2>4. PICK p \in Q \ {x} : First(p, Q \ {x})
    BY <2>3
  <2>5. x \in Int /\ p \in Int /\ x # p /\ \A q \in Q : q \in Int
    BY <1>1
  <2>6. CASE Before(s, p, x)
    BY <2>4, <2>6
  <2>7. CASE Before(s, x, p)
    <3>1. ASSUME NEW q \in Q \ {x} PROVE Before(s, x, q)
      <4>1. q = p \/ Before(s, p, q)
        BY <2>4
      <4> QED BY <2>5, <2>7, <4>1, BeforeOrders
    <3> QED BY <3>1
  <2> QED BY <2>5, <2>6, <2>7, BeforeOrders
<1>4. T = Nat
  <2> HIDE DEF T
  <2>1. T \in SUBSET Nat
    BY DEF T
  <2> QED BY <1>2, <1>3, <2>1, Induct
<1>5. \E p \in P : First(p, P)
  <2>1. P \in SUBSET P /\ Cardinality(P) # 0 /\ Cardinality(P) \in Nat
    BY <1>1, FS_EmptySet
  <2>2. Cardinality(P) - 1 \in T /\ Cardinality(P) = (Cardinality(P) - 1) + 1
    BY <1>4, <2>1
  <2> QED BY <2>1, <2>2
<1> QED BY <1>5 DEF Begin

\* What the recursion of NthLevel asks of a function.
Peels(s, P, k, f) ==
  f = [n \in 0..k |-> IF n = 0 THEN P ELSE f[n - 1] \ {Begin(s, f[n - 1])}]

LEMMA PeelExists ==
  ASSUME NEW s, NEW P, NEW k \in Nat
  PROVE  \E f : Peels(s, P, k, f)
<1> DEFINE step == [n \in 1..k |-> [Q \in SUBSET P |-> Q \ {Begin(s, Q)}]]
<1>1. Steps(k, SUBSET P, P, step)
  BY DEF Steps
<1>2. PICK f : Runs(k, SUBSET P, P, step, f)
  BY <1>1, Recursion
<1>3. f \in [0..k -> SUBSET P] /\ f[0] = P
  BY <1>2 DEF Runs
<1>4. ASSUME NEW n \in 1..k PROVE f[n] = f[n - 1] \ {Begin(s, f[n - 1])}
  <2>1. f[n] = step[n][f[n - 1]]
    BY <1>2 DEF Runs
  <2>2. f[n - 1] \in SUBSET P
    BY <1>3
  <2> QED BY <2>1, <2>2
<1>5. \A n \in 0..k : f[n] = IF n = 0 THEN P ELSE f[n - 1] \ {Begin(s, f[n - 1])}
  BY <1>3, <1>4
<1> QED BY <1>3, <1>5 DEF Peels

\* Taking the first price n times leaves those that the n best are before.
LEMMA PeelIs ==
  ASSUME NEW s, NEW P, Priced(P), NEW k \in Nat, k < Cardinality(P), NEW f, Peels(s, P, k, f)
  PROVE  /\ f[k] \in SUBSET P /\ f[k] # {} /\ Cardinality(P \ f[k]) = k
         /\ \A q \in P \ f[k] : \A p \in f[k] : Before(s, q, p)
<1> DEFINE Good(n) == /\ f[n] \in SUBSET P /\ Cardinality(P \ f[n]) = n
                      /\ \A q \in P \ f[n] : \A p \in f[n] : Before(s, q, p)
           T == {n \in Nat : n <= k => Good(n)}
<1>1. \A Q \in SUBSET P : IsFiniteSet(Q) /\ Cardinality(Q) \in Nat /\ Q \subseteq Int
  BY FS_Subset, FS_CardinalityType DEF Priced
<1>2. f[0] = P /\ \A n \in 1..k : f[n] = f[n - 1] \ {Begin(s, f[n - 1])}
  <2>1. \A n \in 0..k : f[n] = IF n = 0 THEN P ELSE f[n - 1] \ {Begin(s, f[n - 1])}
    BY Zenon DEF Peels
  <2>2. 0 \in 0..k /\ \A n \in 1..k : n \in 0..k /\ n # 0
    OBVIOUS
  <2> QED BY <2>1, <2>2
<1>3. 0 \in T
  <2>1. P \ f[0] = {}
    BY <1>2
  <2> QED BY <1>2, <2>1, FS_EmptySet
<1>4. ASSUME NEW n \in Nat, Good(n), n <= k PROVE f[n] # {}
  BY <1>4
<1>5. ASSUME NEW n \in T PROVE n + 1 \in T
  <2> SUFFICES ASSUME n + 1 <= k PROVE Good(n + 1)
    BY DEF T
  <2> DEFINE x == Begin(s, f[n])
  <2>1. n \in Nat /\ Good(n) /\ n <= k
    OBVIOUS
  <2>2. Priced(f[n]) /\ f[n] # {}
    BY <1>1, <1>4, <2>1 DEF Priced
  <2>3. x \in f[n] /\ \A q \in f[n] \ {x} : Before(s, x, q)
    BY <2>2, BeginIs
  <2>4. f[n + 1] = f[n] \ {x}
    BY <1>2, <2>1
  <2> HIDE DEF x
  <2>5. P \ f[n + 1] = (P \ f[n]) \cup {x} /\ x \notin P \ f[n] /\ IsFiniteSet(P \ f[n])
    BY <1>1, <2>1, <2>3, <2>4
  <2>6. Cardinality(P \ f[n + 1]) = n + 1
    BY <2>1, <2>5, FS_AddElement
  <2> QED BY <2>1, <2>3, <2>4, <2>5, <2>6
<1>6. T = Nat
  <2> HIDE DEF T
  <2>1. T \in SUBSET Nat
    BY DEF T
  <2> QED BY <1>3, <1>5, <2>1, Induct
<1>7. Good(k)
  BY <1>6
<1> QED BY <1>4, <1>7

\* Different prices have different numbers of better ones.
LEMMA BetterApart ==
  ASSUME NEW s, NEW P, Priced(P), NEW p \in P, NEW q \in P, Before(s, p, q)
  PROVE  Cardinality(Better(s, P, p)) < Cardinality(Better(s, P, q))
<1>1. \A Q \in SUBSET P : IsFiniteSet(Q) /\ Cardinality(Q) \in Nat
  BY FS_Subset, FS_CardinalityType DEF Priced
<1>2. \A x \in P : x \in Int
  BY DEF Priced
<1>3. p \notin Better(s, P, p)
  BY <1>2, BeforeOrders DEF Better
<1>4. Better(s, P, p) \cup {p} \in SUBSET Better(s, P, q)
  <2>1. \A x \in P : Before(s, x, p) => Before(s, x, q)
    BY <1>2, BeforeOrders
  <2> QED BY <2>1 DEF Better
<1>5. /\ Better(s, P, p) \in SUBSET P /\ Better(s, P, q) \in SUBSET P
  BY DEF Better
<1>6. Cardinality(Better(s, P, p) \cup {p}) = Cardinality(Better(s, P, p)) + 1
  BY <1>1, <1>3, <1>5, FS_AddElement
<1>7. Cardinality(Better(s, P, p) \cup {p}) <= Cardinality(Better(s, P, q))
  BY <1>1, <1>4, <1>5, FS_Subset
<1> QED BY <1>1, <1>5, <1>6, <1>7

\* The price at the end of n steps behind begin() is the one with n better ones.
LEMMA PeelNth ==
  ASSUME NEW s, NEW P, Priced(P), NEW k \in Nat, k < Cardinality(P), NEW f, Peels(s, P, k, f)
  PROVE  /\ Begin(s, f[k]) \in P
         /\ Begin(s, f[k]) = CHOOSE p \in P : Cardinality(Better(s, P, p)) = k
<1> DEFINE x == Begin(s, f[k])
<1>1. /\ f[k] \in SUBSET P /\ f[k] # {} /\ Cardinality(P \ f[k]) = k
      /\ \A q \in P \ f[k] : \A p \in f[k] : Before(s, q, p)
  BY PeelIs
<1>2. Priced(f[k]) /\ \A y \in P : y \in Int
  BY <1>1, FS_Subset DEF Priced
<1>3. x \in f[k] /\ \A q \in f[k] \ {x} : Before(s, x, q)
  BY <1>1, <1>2, BeginIs
<1> HIDE DEF x
<1>4. x \in P
  BY <1>1, <1>3
<1>5. Better(s, P, x) = P \ f[k]
  <2>1. \A q \in f[k] : ~Before(s, q, x)
    BY <1>1, <1>2, <1>3, <1>4, BeforeOrders
  <2> QED BY <1>1, <1>3, <2>1 DEF Better
<1>6. ASSUME NEW p \in P, Cardinality(Better(s, P, p)) = k PROVE p = x
  <2>1. ~Before(s, p, x) /\ ~Before(s, x, p)
    BY <1>1, <1>4, <1>5, <1>6, BetterApart
  <2> QED BY <1>2, <1>4, <2>1, BeforeOrders
<1>7. x = CHOOSE p \in P : Cardinality(Better(s, P, p)) = k
  BY <1>1, <1>4, <1>5, <1>6
<1> QED BY <1>4, <1>7 DEF x

\* The prices of the open levels of a side are those at which an order rests.
LEMMA OpenIsResting ==
  ASSUME WellFormed(book), NEW s \in Sides
  PROVE  /\ OpenPrices(book, s) = RestingPrices(s)
         /\ Priced(RestingPrices(s))
         /\ \A p \in RestingPrices(s) : OrdersOn(s, p) = OrdersAt(book, <<s, p>>)
<1>1. /\ book \in Books /\ book.resting \subseteq Ids /\ book.open \subseteq Keys
      /\ \A i \in book.resting : Placed(book, i)
      /\ \A k \in book.open : LevelLinked(book, k)
  BY DEF WellFormed, Books, Linked, OrderLinked
<1>2. ASSUME NEW p \in Prices
      PROVE  OrdersOn(s, p) = OrdersAt(book, <<s, p>>)
  BY <1>1 DEF OrdersOn, OrdersAt, Placed
<1>3. ASSUME NEW p \in Prices PROVE <<s, p>> \in book.open <=> OrdersOn(s, p) # {}
  <2>1. ASSUME <<s, p>> \in book.open PROVE OrdersOn(s, p) # {}
    BY <1>1, <1>2, <2>1 DEF LevelLinked
  <2>2. ASSUME NEW i \in OrdersOn(s, p) PROVE <<s, p>> \in book.open
    BY <1>1 DEF OrdersOn, Placed
  <2> QED BY <2>1, <2>2
<1>4. OpenPrices(book, s) = RestingPrices(s)
  BY <1>3 DEF OpenPrices, RestingPrices
<1>5. IsFiniteSet(RestingPrices(s))
  <2> DEFINE R == {i \in book.resting : book.order[i].side = s}
             price == [i \in R |-> book.order[i].price]
  <2>1. IsFiniteSet(R)
    BY <1>1, FS_Subset
  <2>2. \A i \in R : book.order[i].price \in RestingPrices(s)
    <3> SUFFICES ASSUME NEW i \in R PROVE book.order[i].price \in RestingPrices(s)
      OBVIOUS
    <3>1. book.order[i].price \in Prices
      BY <1>1 DEF Books, Orders
    <3>2. i \in OrdersOn(s, book.order[i].price)
      BY DEF OrdersOn
    <3> QED BY <3>1, <3>2 DEF RestingPrices
  <2>3. \A p \in RestingPrices(s) : \E i \in R : price[i] = p
    BY DEF RestingPrices, OrdersOn
  <2>4. price \in Surjection(R, RestingPrices(s))
    BY <2>2, <2>3 DEF Surjection
  <2> QED BY <2>1, <2>4, FS_Surjection
<1> QED BY <1>2, <1>4, <1>5 DEF Priced, RestingPrices

\* What the k-th level of the book is, and of the depth.
LEMMA NthLevelIs ==
  ASSUME WellFormed(book), NEW s \in Sides, NEW k \in Nat
  PROVE  /\ Cardinality(RestingPrices(s)) \in Nat
         /\ NthLevel(book, s, k) = IF k >= Cardinality(RestingPrices(s)) THEN Nil
                                   ELSE <<s, NthBest(s, k + 1)>>
         /\ k < Cardinality(RestingPrices(s)) => NthBest(s, k + 1) \in RestingPrices(s)
<1> DEFINE P == RestingPrices(s)
           f == CHOOSE f : Peels(s, P, k, f)
<1>1. OpenPrices(book, s) = P /\ Priced(P)
  BY OpenIsResting
<1>2. Cardinality(P) \in Nat
  BY <1>1, FS_CardinalityType DEF Priced
<1>3. Peels(s, P, k, f)
  BY PeelExists
<1>4. NthLevel(book, s, k) = IF k >= Cardinality(P) THEN Nil ELSE <<s, Begin(s, f[k])>>
  BY <1>1 DEF NthLevel, Peels
<1> HIDE DEF f
<1>5. ASSUME k < Cardinality(P)
      PROVE  Begin(s, f[k]) \in P /\ Begin(s, f[k]) = NthBest(s, k + 1)
  <2>1. /\ Begin(s, f[k]) \in P
        /\ Begin(s, f[k]) = CHOOSE p \in P : Cardinality(Better(s, P, p)) = k
    BY <1>1, <1>3, <1>5, PeelNth
  <2>2. (k + 1) - 1 = k
    OBVIOUS
  <2> QED BY <2>1, <2>2 DEF NthBest, Better
<1> QED BY <1>2, <1>4, <1>5

\* BestBid and BestAsk are the 0-th level.
LEMMA BestIsFirst ==
  ASSUME WellFormed(book), NEW s \in Sides
  PROVE  BestLevel(book, s) = NthLevel(book, s, 0)
<1> DEFINE P == RestingPrices(s)
           f == CHOOSE f : Peels(s, P, 0, f)
<1>1. OpenPrices(book, s) = P /\ Priced(P)
  BY OpenIsResting
<1>2. Peels(s, P, 0, f)
  BY PeelExists
<1>3. NthLevel(book, s, 0) = IF 0 >= Cardinality(P) THEN Nil ELSE <<s, Begin(s, f[0])>>
  BY <1>1 DEF NthLevel, Peels
<1> HIDE DEF f
<1>4. f[0] = P
  BY <1>2 DEF Peels
<1>5. 0 >= Cardinality(P) <=> P = {}
  BY <1>1, FS_CardinalityType, FS_EmptySet DEF Priced
<1> QED BY <1>1, <1>3, <1>4, <1>5 DEF BestLevel

\* A function on 1..n is a sequence of n elements.
LEMMA LenIs == ASSUME NEW n \in Nat, NEW A, NEW f \in [1..n -> A] PROVE Len(f) = n
OBVIOUS

\* The levels that the features see are those of the resting orders: the book's running
\* totals and counts, and the places of the levels in the maps, are what a book made anew
\* from the orders would have, for any numbers of orders and prices.
THEOREM DepthSeen == Spec => []DepthTrue
<1>1. IInv /\ Totals(book) => DepthTrue
  <2> SUFFICES ASSUME WellFormed(book), Totals(book), NEW s \in Sides
               PROVE  /\ Best(book, s) = MockBest(Depth(s))
                      /\ \A k \in 0..Cardinality(Ids) : Level(book, s, k) = MockLevel(Depth(s), k)
    BY DEF IInv, DepthTrue
  <2> DEFINE N == Cardinality(RestingPrices(s))
             Seen(n) == [price |-> NthBest(s, n), qty |-> TotalQty(OrdersOn(s, NthBest(s, n))),
                         count |-> Cardinality(OrdersOn(s, NthBest(s, n)))]
  <2>1. N \in Nat
    BY NthLevelIs
  <2>2. Depth(s) = [n \in 1..N |-> Seen(n)]
    BY DEF Depth
  <2>3. Len(Depth(s)) = N
    <3> DEFINE A == {Seen(n) : n \in 1..N}
    <3>1. Depth(s) \in [1..N -> A]
      BY <2>2
    <3> HIDE DEF A, N
    <3> QED BY <2>1, <3>1, LenIs
  <2>4. ASSUME NEW k \in Nat PROVE Level(book, s, k) = MockLevel(Depth(s), k)
    <3>1. CASE k >= N
      <4>1. NthLevel(book, s, k) = Nil
        BY <3>1, NthLevelIs
      <4> QED BY <2>3, <3>1, <4>1 DEF Level, MockLevel
    <3>2. CASE k < N
      <4> DEFINE p == NthBest(s, k + 1)
                 key == <<s, p>>
      <4>1. NthLevel(book, s, k) = key /\ p \in RestingPrices(s)
        BY <2>1, <3>2, NthLevelIs
      <4>2. OrdersOn(s, p) = OrdersAt(book, key) /\ OpenPrices(book, s) = RestingPrices(s)
        BY <4>1, OpenIsResting
      <4>3. key \in Keys /\ key # Nil /\ key \in book.open
        BY <4>1, <4>2 DEF RestingPrices, OpenPrices, Keys
      <4>4. book.level[key].qty = TotalQty(OrdersOn(s, p))
        BY <4>2, <4>3 DEF Totals, QtyAt, Qty, TotalQty
      <4>5. book.level[key].count = Cardinality(OrdersOn(s, p))
        BY <4>2, <4>3 DEF WellFormed, Linked, LevelLinked
      <4>6. Level(book, s, k) = ToLevel(book, key)
        BY <4>1, <4>3 DEF Level
      <4>7. ToLevel(book, key) = Seen(k + 1)
        BY <4>4, <4>5 DEF ToLevel
      <4>8. ~(k >= N) /\ k + 1 \in 1..N
        BY <2>1, <3>2
      <4> HIDE DEF p, key, N, Seen
      <4>9. MockLevel(Depth(s), k) = Seen(k + 1)
        BY <2>2, <2>3, <4>8 DEF MockLevel
      <4> QED BY <4>6, <4>7, <4>9
    <3> QED BY <2>1, <3>1, <3>2
  <2>5. Best(book, s) = Level(book, s, 0)
    BY BestIsFirst DEF Best, Level
  <2>6. \A k \in 0..Cardinality(Ids) : k \in Nat
    BY FS_CardinalityType
  <2> QED BY <2>4, <2>5, <2>6 DEF MockBest
<1> QED BY <1>1, TotalsInductive, PTL
-----------------------------------------------------------------------------
(* Sequences of entries, as BookSpec has them.                             *)

Entries == [id : Ids, qty : Nat]

\* No order is in the queue q twice.
Once(q) == \A m, n \in 1..Len(q) : q[m].id = q[n].id => m = n

\* The n-th place left where place n is taken out.
Skipping(m, n) == IF m < n THEN m ELSE m + 1

LEMMA EntryIs ==
  ASSUME NEW i \in Ids, NEW q \in Nat
  PROVE  /\ Abstract!Entry(i, q) \in Entries
         /\ Abstract!Entry(i, q).id = i /\ Abstract!Entry(i, q).qty = q
BY DEF Abstract!Entry, Entries

LEMMA EntryEta ==
  ASSUME NEW e \in Entries PROVE Abstract!Entry(e.id, e.qty) = e /\ e.id \in Ids /\ e.qty \in Nat
BY DEF Abstract!Entry, Entries

LEMMA EntryAt ==
  ASSUME NEW q \in Seq(Entries), NEW n \in 1..Len(q)
  PROVE  q[n] \in Entries /\ q[n].id \in Ids /\ q[n].id # Nil /\ q[n].qty \in Nat
<1>1. q[n] \in Entries
  OBVIOUS
<1> QED BY <1>1, EntryEta

\* Two sequences with the same elements are the same.
LEMMA SameSequence ==
  ASSUME NEW A, NEW s \in Seq(A), NEW t \in Seq(A), Len(s) = Len(t),
         \A n \in 1..Len(s) : s[n] = t[n]
  PROVE  s = t
OBVIOUS

LEMMA RemoveAtIs ==
  ASSUME NEW A, NEW s \in Seq(A), NEW n \in 1..Len(s)
  PROVE  /\ Abstract!RemoveAt(s, n) \in Seq(A)
         /\ Len(Abstract!RemoveAt(s, n)) = Len(s) - 1
         /\ \A m \in 1..Len(s) - 1 : Abstract!RemoveAt(s, n)[m] = s[Skipping(m, n)]
<1> DEFINE front == SubSeq(s, 1, n - 1)
           back == SubSeq(s, n + 1, Len(s))
<1>1. Abstract!RemoveAt(s, n) = front \o back
  BY DEF Abstract!RemoveAt
<1>2. Len(s) \in Nat /\ n \in Nat
  OBVIOUS
<1>3. front \in Seq(A) /\ Len(front) = n - 1 /\ \A m \in 1..n - 1 : front[m] = s[m]
  OBVIOUS
<1>4. /\ back \in Seq(A) /\ Len(back) = Len(s) - n
      /\ \A m \in 1..Len(s) - n : back[m] = s[m + n]
  OBVIOUS
<1> HIDE DEF front, back
<1>5. front \o back \in Seq(A) /\ Len(front \o back) = Len(s) - 1
  <2>1. front \o back \in Seq(A)
    BY <1>3, <1>4
  <2>2. ASSUME NEW t \in Seq(A), NEW u \in Seq(A) PROVE Len(t \o u) = Len(t) + Len(u)
    OBVIOUS
  <2>3. Len(front \o back) = Len(front) + Len(back)
    BY <1>3, <1>4, <2>2
  <2> QED BY <1>2, <1>3, <1>4, <2>1, <2>3
<1>6. ASSUME NEW m \in 1..Len(s) - 1 PROVE (front \o back)[m] = s[Skipping(m, n)]
  <2>1. CASE m < n
    <3>1. m \in 1..n - 1
      BY <1>2, <2>1
    <3>2. (front \o back)[m] = front[m]
      BY <1>2, <1>3, <1>4, <3>1
    <3> QED BY <1>3, <2>1, <3>1, <3>2 DEF Skipping
  <2>2. CASE ~(m < n)
    <3>1. m - (n - 1) \in 1..Len(s) - n /\ m - (n - 1) + n = m + 1
      BY <1>2, <2>2
    <3>2. (front \o back)[m] = back[m - (n - 1)]
      BY <1>2, <1>3, <1>4, <2>2
    <3> QED BY <1>4, <2>2, <3>1, <3>2 DEF Skipping
  <2> QED BY <2>1, <2>2
<1> QED BY <1>1, <1>5, <1>6

\* The place of an order.
LEMMA PlaceIs ==
  ASSUME NEW q \in Seq(Entries), Once(q), NEW n \in 1..Len(q)
  PROVE  Abstract!Place(q, q[n].id) = n /\ q[n].id \in Abstract!At(q)
<1>1. DOMAIN q = 1..Len(q)
  OBVIOUS
<1>2. \A m \in DOMAIN q : q[m].id = q[n].id => m = n
  BY <1>1 DEF Once
<1> QED BY <1>1, <1>2 DEF Abstract!Place, Abstract!At

\* What is left of a queue without the n-th order, or an order that is not in it.
LEMMA WithoutIs ==
  ASSUME NEW q \in Seq(Entries), Once(q), NEW n \in 1..Len(q)
  PROVE  LET r == Abstract!Without(q[n].id, q)
         IN  /\ r \in Seq(Entries) /\ Len(r) = Len(q) - 1
             /\ \A m \in 1..Len(q) - 1 : r[m] = q[Skipping(m, n)]
BY PlaceIs, RemoveAtIs DEF Abstract!Without

LEMMA WithoutOther ==
  ASSUME NEW q \in Seq(Entries), NEW i, \A n \in 1..Len(q) : q[n].id # i
  PROVE  /\ i \notin Abstract!At(q) /\ Abstract!Without(i, q) = q
         /\ \A x : Abstract!WithQty(i, x, q) = q
<1>1. DOMAIN q = 1..Len(q)
  OBVIOUS
<1>2. i \notin Abstract!At(q) /\ Abstract!Without(i, q) = q
  BY <1>1 DEF Abstract!At, Abstract!Without
<1>3. [n \in DOMAIN q |-> q[n]] = q
  OBVIOUS
<1>4. ASSUME NEW x
      PROVE  [n \in DOMAIN q |-> IF q[n].id = i THEN Abstract!Entry(i, x) ELSE q[n]] = q
  BY <1>1, <1>3
<1> QED BY <1>2, <1>4 DEF Abstract!WithQty

\* A queue in which the n-th order has got another quantity, which is not 0.
LEMMA WithQtyIs ==
  ASSUME NEW q \in Seq(Entries), Once(q), NEW n \in 1..Len(q), NEW x \in Nat \ {0}
  PROVE  LET r == Abstract!WithQty(q[n].id, x, q)
         IN  /\ r \in Seq(Entries) /\ Len(r) = Len(q)
             /\ \A m \in 1..Len(q) : /\ r[m].id = q[m].id
                                     /\ m # n => r[m] = q[m]
             /\ r[n].qty = x
<1> DEFINE e == Abstract!Entry(q[n].id, x)
           f == [m \in 1..Len(q) |-> IF q[m].id = q[n].id THEN e ELSE q[m]]
<1>1. DOMAIN q = 1..Len(q) /\ Len(q) \in Nat /\ \A m \in 1..Len(q) : q[m] \in Entries
  OBVIOUS
<1>2. e \in Entries /\ e.id = q[n].id /\ e.qty = x
  BY <1>1, EntryEta, EntryIs
<1>3. Abstract!WithQty(q[n].id, x, q) = f
  BY <1>1 DEF Abstract!WithQty
<1> HIDE DEF e
<1>4. \A m \in 1..Len(q) : f[m] = IF m = n THEN e ELSE q[m]
  BY DEF Once
<1>5. f \in [1..Len(q) -> Entries]
  BY <1>1, <1>2
<1>6. f \in Seq(Entries) /\ Len(f) = Len(q)
  BY <1>1, <1>5
<1> HIDE DEF f
<1> QED BY <1>2, <1>3, <1>4, <1>6
-----------------------------------------------------------------------------
(* The queues of the levels.                                               *)

\* Of the book b, the queue q has the orders of level k, in the order of its list.
Lists(b, k, q) ==
  /\ q \in Seq(Entries) /\ Once(q)
  /\ \A n \in 1..Len(q) :
       /\ q[n].id \in OrdersAt(b, k) /\ q[n].qty = b.order[q[n].id].qty
       /\ b.order[q[n].id].next = IF n = Len(q) THEN Nil ELSE q[n + 1].id
  /\ \A i \in OrdersAt(b, k) : \E n \in 1..Len(q) : q[n].id = i

\* What the walk along the list of level k meets.
Path(q, n) == IF n <= Len(q) THEN q[n].id ELSE Nil

\* What the recursion in Queue asks of a function.
Walks(b, k, at) ==
  at = [n \in 1..Cardinality(Ids) |->
          IF n = 1 THEN b.level[k].head
          ELSE IF at[n - 1] = Nil THEN Nil ELSE b.order[at[n - 1]].next]

LEMMA PathWalks ==
  ASSUME NEW b, NEW k, NEW q, Lists(b, k, q), b.level[k].head = Path(q, 1)
  PROVE  Walks(b, k, [n \in 1..Cardinality(Ids) |-> Path(q, n)])
<1> DEFINE N == Cardinality(Ids)
           at == [n \in 1..N |-> Path(q, n)]
<1>1. N \in Nat /\ Len(q) \in Nat
  BY FS_CardinalityType DEF Lists
<1>2. ASSUME NEW n \in 1..Len(q) PROVE q[n].id # Nil
  BY EntryAt DEF Lists
<1> HIDE DEF N
<1>3. ASSUME NEW n \in 1..N, n # 1
      PROVE  at[n] = IF at[n - 1] = Nil THEN Nil ELSE b.order[at[n - 1]].next
  <2>1. n - 1 \in 1..N /\ at[n] = Path(q, n) /\ at[n - 1] = Path(q, n - 1)
    BY <1>1, <1>3
  <2> HIDE DEF at
  <2>2. CASE n - 1 <= Len(q)
    <3>1. n - 1 \in 1..Len(q) /\ (n - 1) + 1 = n /\ (n - 1 = Len(q) <=> ~(n <= Len(q)))
      BY <1>1, <2>1, <2>2
    <3>2. b.order[q[n - 1].id].next = IF n - 1 = Len(q) THEN Nil ELSE q[(n - 1) + 1].id
      BY <3>1 DEF Lists
    <3>3. q[n - 1].id # Nil
      BY <1>2, <3>1
    <3> QED BY <2>1, <2>2, <3>1, <3>2, <3>3 DEF Path
  <2>3. CASE ~(n - 1 <= Len(q))
    BY <1>1, <2>1, <2>3 DEF Path
  <2> QED BY <2>2, <2>3
<1>4. 1 \in 1..N => at[1] = b.level[k].head
  OBVIOUS
<1>5. at = [n \in 1..N |-> at[n]]
  OBVIOUS
<1> HIDE DEF at
<1>6. \A n \in 1..N : at[n] = IF n = 1 THEN b.level[k].head
                              ELSE IF at[n - 1] = Nil THEN Nil ELSE b.order[at[n - 1]].next
  BY <1>3, <1>4
<1>7. Walks(b, k, at)
  BY <1>5, <1>6 DEF Walks, N
<1> QED BY <1>7 DEF at, N

\* The recursion determines the walk.
LEMMA WalkOnce ==
  ASSUME NEW b, NEW k, NEW at, NEW to, Walks(b, k, at), Walks(b, k, to)
  PROVE  at = to
<1> DEFINE N == Cardinality(Ids)
           T == {n \in Nat : n + 1 \in 1..N => at[n + 1] = to[n + 1]}
<1>1. N \in Nat
  BY FS_CardinalityType
<1>2. ASSUME NEW n \in 1..N
      PROVE  /\ at[n] = IF n = 1 THEN b.level[k].head
                        ELSE IF at[n - 1] = Nil THEN Nil ELSE b.order[at[n - 1]].next
             /\ to[n] = IF n = 1 THEN b.level[k].head
                        ELSE IF to[n - 1] = Nil THEN Nil ELSE b.order[to[n - 1]].next
  BY <1>2, Zenon DEF Walks
<1>3. at = [n \in 1..N |-> at[n]] /\ to = [n \in 1..N |-> to[n]]
  BY Zenon DEF Walks
<1> HIDE DEF N
<1>4. 0 \in T
  BY <1>1, <1>2
<1>5. \A n \in T : n + 1 \in T
  <2> SUFFICES ASSUME NEW n \in T, n + 2 \in 1..N PROVE at[n + 2] = to[n + 2]
    OBVIOUS
  <2>1. n \in Nat /\ n + 1 \in 1..N /\ n + 2 # 1 /\ (n + 2) - 1 = n + 1
    BY <1>1
  <2>2. at[n + 1] = to[n + 1]
    BY <2>1
  <2> QED BY <1>2, <2>1, <2>2
<1>6. T = Nat
  BY <1>4, <1>5, Induct, Zenon
<1>7. ASSUME NEW n \in 1..N PROVE at[n] = to[n]
  <2>1. n - 1 \in Nat /\ (n - 1) + 1 = n
    BY <1>1, <1>7
  <2>2. n - 1 \in T
    BY <1>6, <2>1
  <2> QED BY <2>1, <2>2
<1> QED BY <1>3, <1>7

\* A queue has no more places than there are ids.
LEMMA QueueFits ==
  ASSUME NEW q \in Seq(Entries), Once(q)
  PROVE  Len(q) \in 0..Cardinality(Ids)
<1> DEFINE f == [n \in 1..Len(q) |-> q[n].id]
<1>1. Len(q) \in Nat /\ IsFiniteSet(1..Len(q)) /\ Cardinality(1..Len(q)) = Len(q)
  BY FS_Interval
<1>2. f \in [1..Len(q) -> Ids]
  BY EntryAt
<1>3. \A m, n \in 1..Len(q) : f[m] = f[n] => m = n
  BY DEF Once
<1> HIDE DEF f
<1>4. f \in Injection(1..Len(q), Ids)
  BY <1>2, <1>3 DEF Injection, IsInjective
<1>5. Cardinality(1..Len(q)) <= Cardinality(Ids)
  BY <1>4, FS_Injection DEF ExistsInjection
<1> QED BY <1>1, <1>5, FS_CardinalityType

\* The head of a level is its first order.
LEMMA HeadIs ==
  ASSUME NEW b, WellFormed(b), NEW k \in Keys, NEW q, Lists(b, k, q)
  PROVE  b.level[k].head = Path(q, 1)
<1>1. /\ b.resting \subseteq Ids /\ Len(q) \in Nat
      /\ \A j \in b.resting : Placed(b, j) /\ NextLinked(b, j)
      /\ \A l \in b.open : LevelLinked(b, l)
      /\ \A l \in Keys \ b.open : b.level[l] = NoLevel
  BY DEF WellFormed, Linked, OrderLinked, Books, Lists
<1>2. CASE k \notin b.open
  <2>1. OrdersAt(b, k) = {}
    BY <1>1, <1>2 DEF OrdersAt, Placed
  <2>2. ~(1 <= Len(q))
    BY <2>1, <1>1 DEF Lists
  <2> QED BY <1>1, <1>2, <2>2 DEF Path, NoLevel
<1>3. CASE k \in b.open
  <2>1. b.level[k].head \in OrdersAt(b, k) /\ b.order[b.level[k].head].prev = Nil
    BY <1>1, <1>3 DEF LevelLinked
  <2>2. PICK n \in 1..Len(q) : q[n].id = b.level[k].head
    BY <2>1 DEF Lists
  <2>3. ASSUME n # 1 PROVE FALSE
    <3>1. n - 1 \in 1..Len(q) /\ n - 1 # Len(q) /\ (n - 1) + 1 = n
      BY <1>1, <2>3
    <3>2. b.order[q[n - 1].id].next = q[n].id /\ q[n - 1].id \in OrdersAt(b, k)
      BY <3>1 DEF Lists
    <3>3. q[n].id \in Ids /\ q[n - 1].id \in b.resting /\ q[n - 1].id # Nil
      BY <1>1, <2>1, <2>2, <3>2 DEF OrdersAt
    <3>4. b.order[q[n].id].prev = q[n - 1].id
      BY <1>1, <3>2, <3>3 DEF NextLinked
    <3> QED BY <2>1, <2>2, <3>3, <3>4
  <2> QED BY <1>1, <2>2, <2>3 DEF Path
<1> QED BY <1>2, <1>3

\* What the refinement takes for the queue of a level is the queue of the list.
LEMMA QueuesIs ==
  ASSUME NEW b, WellFormed(b), NEW k \in Keys, NEW q, Lists(b, k, q)
  PROVE  Queues(b)[k] = q
<1> DEFINE N == Cardinality(Ids)
           at == [n \in 1..N |-> Path(q, n)]
           met == {m \in 1..N : at[m] # Nil}
<1>1. q \in Seq(Entries) /\ Len(q) \in 0..N /\ Len(q) \in Nat /\ N \in Nat
  BY QueueFits, FS_CardinalityType DEF Lists
<1>2. Walks(b, k, at)
  BY HeadIs, PathWalks
<1>3. Queue(b, k) = [n \in 1..Cardinality(met) |-> at[n]]
  <2> HIDE DEF at
  <2> DEFINE to == CHOOSE w : Walks(b, k, w)
  <2>1. Queue(b, k) = [n \in 1..Cardinality({m \in 1..N : to[m] # Nil}) |-> to[n]]
    BY Zenon DEF Queue, Walks
  <2>2. to = at
    <3>1. Walks(b, k, to)
      BY <1>2
    <3> QED BY <1>2, <3>1, WalkOnce
  <2> QED BY <2>1, <2>2
<1> HIDE DEF N
<1>4. \A n \in 1..N : at[n] = IF n <= Len(q) THEN q[n].id ELSE Nil
  BY DEF Path
<1>5. \A n \in 1..Len(q) : q[n] \in Entries /\ q[n].id # Nil
  BY <1>1, EntryAt
<1>6. met = 1..Len(q)
  BY <1>1, <1>4, <1>5
<1> HIDE DEF at, met
<1>7. Cardinality(1..Len(q)) = Len(q)
  <2>1. ASSUME NEW n \in Nat PROVE Cardinality(1..n) = n
    BY FS_Interval
  <2> QED BY <1>1, <2>1
<1>8. Queue(b, k) = [n \in 1..Len(q) |-> q[n].id]
  <2>1. Queue(b, k) = [n \in 1..Len(q) |-> at[n]]
    BY <1>3, <1>6, <1>7
  <2>2. \A n \in 1..Len(q) : at[n] = q[n].id
    BY <1>1, <1>4
  <2> QED BY <2>1, <2>2
<1>9. Queues(b)[k] = [n \in 1..Len(q) |-> [id |-> q[n].id, qty |-> b.order[q[n].id].qty]]
  BY <1>8 DEF Queues
<1>10. \A n \in 1..Len(q) : [id |-> q[n].id, qty |-> b.order[q[n].id].qty] = q[n]
  BY <1>5 DEF Lists, Entries
<1>11. q = [n \in 1..Len(q) |-> q[n]]
  BY <1>1
<1> QED BY <1>9, <1>10, <1>11

\* A queue is the same where the orders of a level and their successors are.
LEMMA ListsSame ==
  ASSUME NEW b, NEW c, NEW k, NEW q, Lists(b, k, q), OrdersAt(c, k) = OrdersAt(b, k),
         \A j \in OrdersAt(b, k) : /\ c.order[j].next = b.order[j].next
                                   /\ c.order[j].qty = b.order[j].qty
  PROVE  Lists(c, k, q)
BY DEF Lists

\* In a well-formed book the list of a level leads back as it leads on.
LEMMA PrevIs ==
  ASSUME NEW b, WellFormed(b), NEW k, NEW q, Lists(b, k, q), NEW m \in 1..Len(q), NEW n \in 1..Len(q)
  PROVE  b.order[q[n].id].prev = q[m].id <=> m + 1 = n
<1>1. /\ b.resting \subseteq Ids /\ Len(q) \in Nat /\ q[m].id \in Ids /\ q[n].id \in Ids
      /\ q[m].id \in b.resting /\ q[n].id \in b.resting /\ q[m].id # Nil /\ q[n].id # Nil
      /\ \A j \in b.resting : PrevLinked(b, j) /\ NextLinked(b, j)
  BY EntryAt DEF WellFormed, Linked, OrderLinked, Books, Lists, OrdersAt
<1>2. b.order[q[m].id].next = IF m = Len(q) THEN Nil ELSE q[m + 1].id
  BY DEF Lists
<1>3. ASSUME m + 1 = n PROVE b.order[q[n].id].prev = q[m].id
  BY <1>1, <1>2, <1>3 DEF NextLinked
<1>4. ASSUME b.order[q[n].id].prev = q[m].id PROVE m + 1 = n
  <2>1. b.order[q[m].id].next = q[n].id
    BY <1>1, <1>4 DEF PrevLinked
  <2>2. m # Len(q) /\ m + 1 \in 1..Len(q) /\ q[m + 1].id = q[n].id
    BY <1>1, <1>2, <2>1
  <2> QED BY <2>2 DEF Lists, Once
<1> QED BY <1>3, <1>4

\* UnlinkOrder takes an order out of the queue of its level, and leaves the others alone.
LEMMA UnlinkLists ==
  ASSUME NEW b, WellFormed(b), NEW i \in b.resting, NEW k \in Keys, NEW q, Lists(b, k, q)
  PROVE  Lists(UnlinkOrder(b, i), k, Abstract!Without(i, q))
<1> DEFINE u == UnlinkOrder(b, i)
<1>1. /\ b.resting \subseteq Ids /\ i \in Ids /\ q \in Seq(Entries) /\ Once(q) /\ Len(q) \in Nat
      /\ Nil \notin Keys
  BY DEF WellFormed, Books, Lists
<1>2. u.resting = b.resting /\ LinkedAround(u.order, b.order, i)
  <2>1. u.resting = b.resting /\ u.order = Bypassed(b.order, i)
    BY UnlinkFields, Zenon
  <2> QED BY <2>1, BypassedFields
<1> HIDE DEF u
<1>3. /\ u.order[i].level = Nil
      /\ \A j \in Ids \ {i} :
           /\ u.order[j].level = b.order[j].level /\ u.order[j].qty = b.order[j].qty
           /\ u.order[j].next = IF j = b.order[i].prev THEN b.order[i].next ELSE b.order[j].next
  BY <1>2 DEF LinkedAround
<1>4. OrdersAt(u, k) = OrdersAt(b, k) \ {i}
  <2>1. ASSUME NEW j \in b.resting, j # i PROVE u.order[j].level = b.order[j].level
    BY <1>1, <1>3, <2>1
  <2>2. u.order[i].level # k
    BY <1>1, <1>3
  <2> QED BY <1>2, <2>1, <2>2 DEF OrdersAt
<1>5. CASE b.order[i].level # k
  <2>1. i \notin OrdersAt(b, k)
    BY <1>5 DEF OrdersAt
  <2>2. Abstract!Without(i, q) = q
    <3>1. \A n \in 1..Len(q) : q[n].id # i
      BY <2>1 DEF Lists
    <3> QED BY <1>1, <3>1, WithoutOther
  <2>3. ASSUME NEW j \in OrdersAt(b, k)
        PROVE  u.order[j].next = b.order[j].next /\ u.order[j].qty = b.order[j].qty
    <3>1. j \in Ids \ {i} /\ b.order[j].level = k /\ j \in b.resting
      BY <1>1, <2>1 DEF OrdersAt
    <3>2. PrevLinked(b, i)
      BY DEF WellFormed, Linked, OrderLinked
    <3>3. j # b.order[i].prev
      BY <1>1, <1>5, <3>1, <3>2 DEF PrevLinked
    <3> QED BY <1>3, <3>1, <3>3
  <2>4. OrdersAt(u, k) = OrdersAt(b, k)
    BY <1>4, <2>1
  <2> QED BY <2>2, <2>3, <2>4, ListsSame DEF u
<1>6. CASE b.order[i].level = k
  <2> DEFINE r == Abstract!Without(i, q)
  <2>1. i \in OrdersAt(b, k)
    BY <1>6 DEF OrdersAt
  <2>2. PICK n \in 1..Len(q) : q[n].id = i
    BY <2>1 DEF Lists
  <2>3. /\ r \in Seq(Entries) /\ Len(r) = Len(q) - 1
        /\ \A m \in 1..Len(q) - 1 : r[m] = q[Skipping(m, n)]
    BY <1>1, <2>2, WithoutIs
  <2> HIDE DEF r
  <2>4. \A m \in 1..Len(q) - 1 : Skipping(m, n) \in 1..Len(q) /\ Skipping(m, n) # n
    BY <1>1 DEF Skipping
  <2>5. Once(r)
    <3>1. ASSUME NEW l \in 1..Len(q) - 1, NEW m \in 1..Len(q) - 1, r[l].id = r[m].id PROVE l = m
      <4>1. Skipping(l, n) = Skipping(m, n)
        BY <1>1, <2>3, <2>4, <3>1 DEF Once
      <4> QED BY <1>1, <4>1 DEF Skipping
    <3> QED BY <2>3, <3>1 DEF Once
  <2>6. ASSUME NEW m \in 1..Len(q) - 1
        PROVE  /\ r[m].id \in OrdersAt(u, k) /\ r[m].qty = u.order[r[m].id].qty
               /\ u.order[r[m].id].next = IF m = Len(q) - 1 THEN Nil ELSE r[m + 1].id
    <3> DEFINE s == Skipping(m, n)
    <3>1. s \in 1..Len(q) /\ s # n /\ r[m] = q[s]
      BY <2>3, <2>4
    <3>2. /\ q[s].id \in OrdersAt(b, k) /\ q[s].qty = b.order[q[s].id].qty /\ q[s].id \in Ids
          /\ b.order[q[s].id].next = IF s = Len(q) THEN Nil ELSE q[s + 1].id
      <4> HIDE DEF s
      <4> QED BY <1>1, <3>1, EntryAt DEF Lists
    <3>3. q[s].id # i
      <4> HIDE DEF s
      <4> QED BY <1>1, <2>2, <3>1 DEF Once
    <3>4. q[s].id \in OrdersAt(u, k) /\ q[s].qty = u.order[q[s].id].qty
      BY <1>3, <1>4, <3>2, <3>3
    <3>5. b.order[i].prev = q[s].id <=> s + 1 = n
      <4> HIDE DEF s
      <4> QED BY <2>2, <3>1, PrevIs
    <3>6. b.order[i].next = IF n = Len(q) THEN Nil ELSE q[n + 1].id
      BY <2>2 DEF Lists
    <3>7. u.order[q[s].id].next = IF s + 1 = n THEN b.order[i].next ELSE b.order[q[s].id].next
      BY <1>3, <3>2, <3>3, <3>5
    <3>8. m # Len(q) - 1 => m + 1 \in 1..Len(q) - 1 /\ r[m + 1] = q[Skipping(m + 1, n)]
      BY <1>1, <2>3
    <3>9. u.order[q[s].id].next = IF m = Len(q) - 1 THEN Nil ELSE r[m + 1].id
      <4>1. CASE s + 1 = n
        <5>1. s = m /\ (m = Len(q) - 1 <=> n = Len(q)) /\ Skipping(m + 1, n) = n + 1
          BY <1>1, <4>1 DEF Skipping
        <5> QED BY <3>6, <3>7, <3>8, <4>1, <5>1
      <4>2. CASE s + 1 # n
        <5>1. (s = Len(q) <=> m = Len(q) - 1) /\ Skipping(m + 1, n) = s + 1
          BY <1>1, <4>2 DEF Skipping
        <5> HIDE DEF s
        <5> QED BY <3>2, <3>7, <3>8, <4>2, <5>1
      <4> QED BY <4>1, <4>2
    <3> HIDE DEF s
    <3> QED BY <3>1, <3>4, <3>9
  <2>7. ASSUME NEW j \in OrdersAt(u, k) PROVE \E m \in 1..Len(q) - 1 : r[m].id = j
    <3>1. j \in OrdersAt(b, k) /\ j # i
      BY <1>4
    <3>2. PICK x \in 1..Len(q) : q[x].id = j
      BY <3>1 DEF Lists
    <3> DEFINE m == IF x < n THEN x ELSE x - 1
    <3>3. x # n
      BY <2>2, <3>1, <3>2
    <3>4. m \in 1..Len(q) - 1 /\ Skipping(m, n) = x
      BY <1>1, <3>3 DEF Skipping
    <3> QED BY <2>3, <3>2, <3>4
  <2>8. Lists(u, k, r)
    BY <2>3, <2>5, <2>6, <2>7 DEF Lists
  <2> QED BY <2>8 DEF u, r
<1> QED BY <1>5, <1>6

LEMMA RemoveLists ==
  ASSUME NEW b, WellFormed(b), NEW i \in b.resting, NEW k \in Keys, NEW q, Lists(b, k, q)
  PROVE  Lists(RemoveOrder(b, i), k, Abstract!Without(i, q))
<1> DEFINE u == UnlinkOrder(b, i)
           c == RemoveOrder(b, i)
<1>1. u \in Books /\ u.resting = b.resting /\ Detached(u, i)
  BY UnlinkFields, UnlinkDetaches
<1>2. c.resting = b.resting \ {i} /\ \A j \in Ids \ {i} : c.order[j] = u.order[j]
  BY RemoveFields
<1>3. Lists(u, k, Abstract!Without(i, q))
  BY UnlinkLists
<1> HIDE DEF u, c
<1>4. u.resting \subseteq Ids /\ u.order[i].level = Nil /\ Nil \notin Keys
  BY <1>1 DEF Books, Detached
<1>5. OrdersAt(c, k) = OrdersAt(u, k) /\ \A j \in OrdersAt(u, k) : c.order[j] = u.order[j]
  BY <1>1, <1>2, <1>4 DEF OrdersAt
<1>6. Lists(c, k, Abstract!Without(i, q))
  BY <1>3, <1>5, ListsSame
<1> QED BY <1>6 DEF c

\* LinkOrder puts an order behind the last of its level, and leaves the others alone.
LEMMA LinkLists ==
  ASSUME NEW d \in Books, NEW i, Detached(d, i), NEW k \in Keys, NEW l \in Keys,
         NEW q, Lists(d, l, q)
  PROVE  Lists(LinkOrder(FindOrCreateLevel(d, k), i, k), l,
               IF l = k THEN Append(q, Abstract!Entry(i, d.order[i].qty)) ELSE q)
<1> DEFINE c == LinkOrder(FindOrCreateLevel(d, k), i, k)
           tail == d.level[k].tail
           e == Abstract!Entry(i, d.order[i].qty)
<1>1. LinkedBehind(c, d, i, k)
  BY LinkFields
<1> HIDE DEF c
<1>2. /\ i \in Ids /\ i # Nil /\ i \in d.resting /\ d.resting \subseteq Ids /\ d.order[i].level = Nil
      /\ Nil \notin Keys /\ d.order[i].qty \in Nat
      /\ q \in Seq(Entries) /\ Once(q) /\ Len(q) \in Nat
  BY DEF Books, Detached, Orders, Lists
<1>3. /\ c.resting = d.resting /\ c.order[i].level = k /\ c.order[i].next = Nil
      /\ \A j \in Ids : c.order[j].qty = d.order[j].qty
      /\ \A j \in Ids \ {i} : /\ c.order[j].level = d.order[j].level
                              /\ c.order[j].next = IF j = tail THEN i ELSE d.order[j].next
  BY <1>1 DEF LinkedBehind
<1>4. CASE l # k
  <2>1. \A j \in OrdersAt(d, l) : j \in Ids \ {i} /\ j # tail
    <3>1. ASSUME NEW j \in OrdersAt(d, l), j = tail PROVE FALSE
      <4>1. j \in Ids /\ d.order[j].level = l
        BY <1>2 DEF OrdersAt
      <4>2. k \in d.open
        BY <3>1, <4>1 DEF Detached, NoLevel
      <4>3. tail \in OrdersAt(d, k)
        BY <4>2 DEF Detached, LevelLinked
      <4> QED BY <1>4, <3>1, <4>1, <4>3 DEF OrdersAt
    <3> HIDE DEF tail
    <3> QED BY <1>2, <3>1 DEF OrdersAt
  <2>2. OrdersAt(c, l) = OrdersAt(d, l)
    <3>1. ASSUME NEW j \in d.resting PROVE c.order[j].level = l <=> d.order[j].level = l
      BY <1>2, <1>3, <1>4
    <3> QED BY <1>3, <3>1 DEF OrdersAt
  <2>3. \A j \in OrdersAt(d, l) : /\ c.order[j].next = d.order[j].next
                                  /\ c.order[j].qty = d.order[j].qty
    BY <1>3, <2>1
  <2>4. Lists(c, l, q)
    BY <2>2, <2>3, ListsSame
  <2> QED BY <1>4, <2>4 DEF c
<1>5. CASE l = k
  <2> DEFINE r == Append(q, e)
  <2>1. e \in Entries /\ e.id = i /\ e.qty = d.order[i].qty
    BY <1>2, EntryIs
  <2>2. OrdersAt(c, k) = OrdersAt(d, k) \cup {i} /\ i \notin OrdersAt(d, k)
    <3>1. ASSUME NEW j \in d.resting PROVE c.order[j].level = k <=> d.order[j].level = k \/ j = i
      BY <1>2, <1>3
    <3>2. d.order[i].level # k
      BY <1>2
    <3> QED BY <1>2, <1>3, <3>1, <3>2 DEF OrdersAt
  <2>3. ASSUME NEW n \in 1..Len(q) PROVE q[n].id = tail <=> n = Len(q)
    <3>1. q[n].id \in OrdersAt(d, k) /\ q[n].id \in Ids /\ q[n].id # Nil /\ q[n].id # i
      BY <1>2, <1>5, <2>2, EntryAt DEF Lists
    <3>2. k \in d.open
      BY <1>2, <3>1 DEF Detached, OrdersAt, OrderLinked, Placed
    <3>3. tail \in OrdersAt(d, k) /\ d.order[tail].next = Nil
      BY <3>2 DEF Detached, LevelLinked
    <3> HIDE DEF tail
    <3>4. PICK m \in 1..Len(q) : q[m].id = tail
      BY <1>5, <3>3 DEF Lists
    <3>5. m = Len(q)
      <4>1. d.order[q[m].id].next = IF m = Len(q) THEN Nil ELSE q[m + 1].id
        BY DEF Lists
      <4>2. ASSUME m # Len(q) PROVE FALSE
        <5>1. m + 1 \in 1..Len(q)
          BY <1>2, <4>2
        <5>2. q[m + 1].id # Nil
          BY <1>2, <5>1, EntryAt
        <5> QED BY <3>3, <3>4, <4>1, <4>2, <5>2
      <4> QED BY <4>2
    <3> QED BY <1>2, <3>4, <3>5 DEF Once
  <2>4. /\ r \in Seq(Entries) /\ Len(r) = Len(q) + 1 /\ r[Len(q) + 1] = e
        /\ \A n \in 1..Len(q) : r[n] = q[n]
    <3> HIDE DEF e
    <3> QED BY <1>2, <2>1
  <2> HIDE DEF r, e, tail
  <2>5. ASSUME NEW n \in 1..Len(q) PROVE q[n].id \in OrdersAt(d, k) /\ q[n].id # i /\ q[n].id \in Ids
    BY <1>2, <1>5, <2>2, EntryAt DEF Lists
  <2>6. Once(r)
    <3>1. ASSUME NEW m \in 1..Len(q) + 1, NEW n \in 1..Len(q) + 1, r[m].id = r[n].id PROVE m = n
      <4>1. CASE m \in 1..Len(q) /\ n \in 1..Len(q)
        BY <1>2, <2>4, <3>1, <4>1 DEF Once
      <4>2. CASE ~(m \in 1..Len(q) /\ n \in 1..Len(q))
        <5>1. ASSUME NEW x \in 1..Len(q) + 1 PROVE r[x].id = i <=> x = Len(q) + 1
          BY <1>2, <2>1, <2>4, <2>5, <5>1
        <5>2. r[m].id = i /\ r[n].id = i
          <6>1. m = Len(q) + 1 \/ n = Len(q) + 1
            <7>1. ASSUME NEW s \in Nat, NEW u \in 1..s + 1, NEW v \in 1..s + 1, ~(u \in 1..s /\ v \in 1..s)
                  PROVE  u = s + 1 \/ v = s + 1
              BY <7>1
            <7> QED BY <1>2, <4>2, <7>1
          <6> QED BY <3>1, <5>1, <6>1
        <5> QED BY <5>1, <5>2
      <4> QED BY <4>1, <4>2
    <3> QED BY <2>4, <3>1 DEF Once
  <2>7. ASSUME NEW n \in 1..Len(q) + 1
        PROVE  /\ r[n].id \in OrdersAt(c, k) /\ r[n].qty = c.order[r[n].id].qty
               /\ c.order[r[n].id].next = IF n = Len(q) + 1 THEN Nil ELSE r[n + 1].id
    <3>1. CASE n = Len(q) + 1
      BY <1>2, <1>3, <2>1, <2>2, <2>4, <3>1
    <3>2. CASE n # Len(q) + 1
      <4>1. n \in 1..Len(q) /\ r[n] = q[n]
        BY <1>2, <2>4, <3>2
      <4>2. q[n].qty = d.order[q[n].id].qty
        BY <4>1 DEF Lists
      <4>3. d.order[q[n].id].next = IF n = Len(q) THEN Nil ELSE q[n + 1].id
        BY <4>1 DEF Lists
      <4>4. c.order[q[n].id].next = IF n = Len(q) THEN i ELSE d.order[q[n].id].next
        BY <1>3, <2>3, <2>5, <4>1
      <4>5. r[n + 1].id = IF n = Len(q) THEN i ELSE q[n + 1].id
        BY <1>2, <2>1, <2>4, <4>1
      <4>6. q[n].id \in OrdersAt(c, k) /\ c.order[q[n].id].qty = d.order[q[n].id].qty
        BY <1>3, <2>2, <2>5, <4>1
      <4> QED BY <3>2, <4>1, <4>2, <4>3, <4>4, <4>5, <4>6
    <3> QED BY <3>1, <3>2
  <2>8. ASSUME NEW j \in OrdersAt(c, k) PROVE \E n \in 1..Len(q) + 1 : r[n].id = j
    <3>1. CASE j = i
      BY <1>2, <2>1, <2>4, <3>1
    <3>2. CASE j # i
      <4>1. PICK n \in 1..Len(q) : q[n].id = j
        BY <1>5, <2>2, <3>2 DEF Lists
      <4> QED BY <1>2, <2>4, <4>1
    <3> QED BY <3>1, <3>2
  <2>9. Lists(c, k, r)
    BY <2>4, <2>6, <2>7, <2>8 DEF Lists
  <2> QED BY <1>5, <2>9 DEF c, r, e
<1> QED BY <1>4, <1>5

\* Reduce changes an entry in place.
LEMMA ReduceLists ==
  ASSUME NEW b, WellFormed(b), NEW i \in b.resting, NEW x \in Int, b.order[i].qty - x > 0,
         NEW k \in Keys, NEW q, Lists(b, k, q)
  PROVE  Lists(Reduce(b, i, x), k, Abstract!WithQty(i, b.order[i].qty - x, q))
<1> DEFINE c == Reduce(b, i, x)
           y == b.order[i].qty - x
           r == Abstract!WithQty(i, y, q)
<1>1. /\ c.resting = b.resting
      /\ \A j \in Ids : /\ c.order[j].level = b.order[j].level
                        /\ c.order[j].next = b.order[j].next
                        /\ c.order[j].qty = IF j = i THEN b.order[j].qty - x ELSE b.order[j].qty
  BY ReduceFields
<1> HIDE DEF c
<1>2. /\ b.resting \subseteq Ids /\ i \in Ids /\ b.order[i].qty \in Nat
      /\ q \in Seq(Entries) /\ Once(q) /\ Len(q) \in Nat
  <2>1. b.resting \subseteq Ids /\ i \in Ids /\ b.order[i] \in Orders
    BY DEF WellFormed, Books
  <2>2. b.order[i].qty \in Nat
    BY <2>1 DEF Orders
  <2> QED BY <2>1, <2>2 DEF Lists
<1>3. y \in Nat \ {0}
  <2>1. ASSUME NEW n \in Nat, NEW m \in Int, n - m > 0 PROVE n - m \in Nat \ {0}
    BY <2>1
  <2> QED BY <1>2, <2>1
<1>4. OrdersAt(c, k) = OrdersAt(b, k) /\ OrdersAt(b, k) \subseteq Ids
  BY <1>1, <1>2 DEF OrdersAt
<1>5. CASE i \notin OrdersAt(b, k)
  <2>1. r = q
    <3>1. \A n \in 1..Len(q) : q[n].id # i
      BY <1>5 DEF Lists
    <3> HIDE DEF y
    <3> QED BY <1>2, <3>1, WithoutOther
  <2>2. \A j \in OrdersAt(b, k) : c.order[j].next = b.order[j].next /\ c.order[j].qty = b.order[j].qty
    BY <1>1, <1>4, <1>5
  <2>3. Lists(c, k, q)
    BY <1>4, <2>2, ListsSame
  <2> QED BY <2>1, <2>3 DEF c
<1>6. CASE i \in OrdersAt(b, k)
  <2>1. PICK n \in 1..Len(q) : q[n].id = i
    BY <1>6 DEF Lists
  <2>2. c.order[i].qty = y
    BY <1>1, <1>2
  <2> HIDE DEF y
  <2>3. /\ r \in Seq(Entries) /\ Len(r) = Len(q)
        /\ \A m \in 1..Len(q) : r[m].id = q[m].id /\ (m # n => r[m] = q[m])
        /\ r[n].qty = y
    BY <1>2, <1>3, <2>1, WithQtyIs
  <2> HIDE DEF r
  <2>4. Once(r)
    BY <1>2, <2>3 DEF Once
  <2>5. ASSUME NEW m \in 1..Len(q)
        PROVE  /\ r[m].id \in OrdersAt(c, k) /\ r[m].qty = c.order[r[m].id].qty
               /\ c.order[r[m].id].next = IF m = Len(r) THEN Nil ELSE r[m + 1].id
    <3>1. r[m].id = q[m].id /\ q[m].id \in OrdersAt(b, k) /\ q[m].id \in Ids
      BY <1>4, <2>3 DEF Lists
    <3>2. r[m].qty = c.order[r[m].id].qty
      <4>1. CASE m = n
        BY <2>1, <2>2, <2>3, <3>1, <4>1
      <4>2. CASE m # n
        <5>1. r[m] = q[m] /\ q[m].id # i
          BY <1>2, <2>1, <2>3, <4>2 DEF Once
        <5>2. q[m].qty = b.order[q[m].id].qty
          BY DEF Lists
        <5> QED BY <1>1, <3>1, <5>1, <5>2
      <4> QED BY <4>1, <4>2
    <3>3. b.order[q[m].id].next = IF m = Len(q) THEN Nil ELSE q[m + 1].id
      BY DEF Lists
    <3>4. m # Len(q) => r[m + 1].id = q[m + 1].id
      BY <1>2, <2>3
    <3> QED BY <1>1, <1>4, <2>3, <3>1, <3>2, <3>3, <3>4
  <2>6. ASSUME NEW j \in OrdersAt(c, k) PROVE \E m \in 1..Len(q) : r[m].id = j
    <3>1. PICK m \in 1..Len(q) : q[m].id = j
      BY <1>4 DEF Lists
    <3> QED BY <2>3, <3>1
  <2>7. Lists(c, k, r)
    BY <2>3, <2>4, <2>5, <2>6 DEF Lists
  <2> QED BY <2>7 DEF c, r, y
<1> QED BY <1>5, <1>6
-----------------------------------------------------------------------------
(* What the handlers do to the queues.                                     *)

\* Every level has a queue.
Queued(b) == \A k \in Keys : Lists(b, k, Queues(b)[k])

\* The queues of c are those that Change makes of the queues of b.
LEMMA QueuesBecome ==
  ASSUME NEW c, WellFormed(c), NEW Change, \A k \in Keys : Lists(c, k, Change[k])
  PROVE  Queued(c) /\ \A k \in Keys : Queues(c)[k] = Change[k]
<1>1. \A k \in Keys : Queues(c)[k] = Change[k]
  BY QueuesIs
<1> QED BY <1>1 DEF Queued

LEMMA EmptyQueues == WellFormed(EmptyBook) /\ Queued(EmptyBook) /\ \A k \in Keys : Queues(EmptyBook)[k] = <<>>
<1>1. WellFormed(EmptyBook)
  <2>1. [j \in Ids |-> 0] \in [Ids -> Nat]
    OBVIOUS
  <2>2. Ranked(EmptyBook, [j \in Ids |-> 0])
    BY DEF Ranked, EmptyBook
  <2> QED BY <2>1, <2>2, EmptyBookType, EmptyBookLinked DEF WellFormed, Acyclic
<1>2. ASSUME NEW k \in Keys PROVE Lists(EmptyBook, k, <<>>)
  <2>1. OrdersAt(EmptyBook, k) = {}
    BY DEF OrdersAt, EmptyBook
  <2>2. <<>> \in Seq(Entries) /\ Len(<<>>) = 0
    OBVIOUS
  <2> QED BY <2>1, <2>2 DEF Lists, Once
<1> DEFINE none == [k \in Keys |-> <<>>]
<1>3. \A k \in Keys : Lists(EmptyBook, k, none[k])
  BY <1>2
<1>4. \A k \in Keys : none[k] = <<>>
  OBVIOUS
<1> HIDE DEF none
<1> QED BY <1>1, <1>3, <1>4, QueuesBecome

\* An order rests where it is in a queue, and in no other.
LEMMA InQueue ==
  ASSUME NEW b, WellFormed(b), Queued(b), NEW i \in Ids
  PROVE  /\ \A k \in Keys : i \in Abstract!At(Queues(b)[k]) <=> i \in b.resting /\ b.order[i].level = k
         /\ i \in b.resting => b.order[i].level \in Keys
<1>1. \A j \in b.resting : Placed(b, j)
  BY DEF WellFormed, Linked, OrderLinked
<1>2. i \in b.resting => b.order[i].level \in Keys
  BY <1>1 DEF Placed, WellFormed, Books
<1>3. ASSUME NEW k \in Keys
      PROVE  i \in Abstract!At(Queues(b)[k]) <=> i \in OrdersAt(b, k)
  <2> DEFINE q == Queues(b)[k]
  <2>1. Lists(b, k, q)
    BY DEF Queued
  <2> HIDE DEF q
  <2>2. DOMAIN q = 1..Len(q)
    BY <2>1 DEF Lists
  <2>3. i \in Abstract!At(q) <=> \E n \in 1..Len(q) : q[n].id = i
    BY <2>2 DEF Abstract!At
  <2>4. i \in Abstract!At(q) <=> i \in OrdersAt(b, k)
    BY <2>1, <2>3 DEF Lists
  <2> QED BY <2>4 DEF q
<1> QED BY <1>2, <1>3 DEF OrdersAt

\* What BookSpec finds of a resting order.
LEMMA EntryOf ==
  ASSUME NEW b, WellFormed(b), Queued(b), NEW i \in b.resting
  PROVE  LET q == Queues(b)[b.order[i].level]
         IN  /\ b.order[i].level \in Keys /\ b.order[i].qty \in Nat \ {0}
             /\ Lists(b, b.order[i].level, q)
             /\ Abstract!QtyIn(q, i) = b.order[i].qty
             /\ \E n \in 1..Len(q) : q[n].id = i
<1> DEFINE k == b.order[i].level
           q == Queues(b)[k]
<1>1. i \in Ids /\ b.order[i] \in Orders /\ Placed(b, i)
  BY DEF WellFormed, Books, Linked, OrderLinked
<1>2. k \in Keys /\ b.order[i].qty \in Nat \ {0}
  BY <1>1, InQueue DEF Orders, Placed
<1>3. Lists(b, k, q) /\ i \in OrdersAt(b, k)
  BY <1>2 DEF Queued, OrdersAt
<1> HIDE DEF k, q
<1>4. PICK n \in 1..Len(q) : q[n].id = i
  BY <1>3 DEF Lists
<1>5. Abstract!Place(q, i) = n /\ q[n].qty = b.order[i].qty
  BY <1>3, <1>4, PlaceIs DEF Lists
<1>6. Abstract!QtyIn(q, i) = b.order[i].qty
  BY <1>5 DEF Abstract!QtyIn
<1> QED BY <1>2, <1>3, <1>4, <1>6 DEF k, q

LEMMA RemoveQueues ==
  ASSUME NEW b, WellFormed(b), Queued(b), NEW i \in b.resting
  PROVE  LET c == RemoveOrder(b, i)
         IN  Queued(c) /\ \A k \in Keys : Queues(c)[k] = Abstract!WithQty(i, 0, Queues(b)[k])
<1> DEFINE c == RemoveOrder(b, i)
           Change == [k \in Keys |-> Abstract!WithQty(i, 0, Queues(b)[k])]
<1>1. WellFormed(c)
  BY RemoveWellFormed
<1>2. \A k \in Keys : Lists(c, k, Abstract!Without(i, Queues(b)[k]))
  BY RemoveLists DEF Queued
<1>3. \A k \in Keys : Change[k] = Abstract!WithQty(i, 0, Queues(b)[k])
  OBVIOUS
<1>4. \A k \in Keys : Change[k] = Abstract!Without(i, Queues(b)[k])
  BY <1>3 DEF Abstract!WithQty
<1> HIDE DEF Change, c
<1>5. \A k \in Keys : Lists(c, k, Change[k])
  BY <1>2, <1>4
<1> QED BY <1>1, <1>3, <1>5, QueuesBecome DEF c

LEMMA ReduceQueues ==
  ASSUME NEW b, WellFormed(b), Queued(b), NEW i \in b.resting, NEW x \in Int, b.order[i].qty - x > 0
  PROVE  LET c == Reduce(b, i, x)
         IN  /\ Queued(c)
             /\ \A k \in Keys :
                  Queues(c)[k] = Abstract!WithQty(i, b.order[i].qty - x, Queues(b)[k])
<1> DEFINE c == Reduce(b, i, x)
           Change == [k \in Keys |-> Abstract!WithQty(i, b.order[i].qty - x, Queues(b)[k])]
<1>1. WellFormed(c)
  BY ReduceWellFormed
<1>2. \A k \in Keys : Lists(c, k, Abstract!WithQty(i, b.order[i].qty - x, Queues(b)[k]))
  BY ReduceLists DEF Queued
<1>3. \A k \in Keys : Change[k] = Abstract!WithQty(i, b.order[i].qty - x, Queues(b)[k])
  OBVIOUS
<1> HIDE DEF Change, c
<1>4. \A k \in Keys : Lists(c, k, Change[k])
  BY <1>2, <1>3
<1> QED BY <1>1, <1>3, <1>4, QueuesBecome DEF c

\* What is linked behind a queue: a new entry at its end.
Appended(q, i, x, l, k) == IF l = k THEN Append(q, Abstract!Entry(i, x)) ELSE q

LEMMA LinkQueues ==
  ASSUME NEW d \in Books, NEW i, Detached(d, i), Acyclic(d), NEW k \in Keys,
         k = <<d.order[i].side, d.order[i].price>>, d.order[i].qty > 0,
         NEW Change, \A l \in Keys : Lists(d, l, Change[l])
  PROVE  LET c == LinkOrder(FindOrCreateLevel(d, k), i, k)
         IN  /\ Queued(c)
             /\ \A l \in Keys : Queues(c)[l] = Appended(Change[l], i, d.order[i].qty, l, k)
<1> DEFINE c == LinkOrder(FindOrCreateLevel(d, k), i, k)
           To == [l \in Keys |-> Appended(Change[l], i, d.order[i].qty, l, k)]
<1>1. WellFormed(c)
  BY LinkWellFormed
<1>2. \A l \in Keys : Lists(c, l, Appended(Change[l], i, d.order[i].qty, l, k))
  BY LinkLists DEF Appended
<1>3. \A l \in Keys : To[l] = Appended(Change[l], i, d.order[i].qty, l, k)
  OBVIOUS
<1> HIDE DEF To, c
<1>4. \A l \in Keys : Lists(c, l, To[l])
  BY <1>2, <1>3
<1> QED BY <1>1, <1>3, <1>4, QueuesBecome DEF c

\* A new order goes to the end of its level.
LEMMA AddQueues ==
  ASSUME NEW b, WellFormed(b), Queued(b), NEW i \in Ids, i \notin b.resting,
         NEW s \in Sides, NEW p \in Prices, NEW x \in Nat, x > 0
  PROVE  LET k == <<s, p>>
             c == LinkOrder(FindOrCreateLevel(NewOrder(b, i, s, p, x), k), i, k)
         IN  Queued(c) /\ \A l \in Keys : Queues(c)[l] = Appended(Queues(b)[l], i, x, l, k)
<1> DEFINE d == NewOrder(b, i, s, p, x)
           k == <<s, p>>
<1>1. /\ d \in Books /\ Detached(d, i) /\ Acyclic(d)
      /\ d.order[i].side = s /\ d.order[i].price = p /\ d.order[i].qty = x
  BY NewOrderDetached
<1>2. k \in Keys
  BY DEF Keys
<1>3. /\ b.resting \subseteq Ids /\ Nil \notin Keys /\ b.order \in [Ids -> Orders]
      /\ b = [order |-> b.order, resting |-> b.resting, level |-> b.level, open |-> b.open]
  BY DEF WellFormed, Books
<1>4. d.resting = b.resting \cup {i} /\ \A j \in Ids \ {i} : d.order[j] = b.order[j]
  BY <1>3 DEF NewOrder
<1> HIDE DEF d
<1>5. d.order[i].level = Nil
  BY <1>1 DEF Detached
<1>6. ASSUME NEW l \in Keys PROVE Lists(d, l, Queues(b)[l])
  <2>1. OrdersAt(d, l) = OrdersAt(b, l) /\ \A j \in OrdersAt(b, l) : d.order[j] = b.order[j]
    BY <1>3, <1>4, <1>5 DEF OrdersAt
  <2>2. Lists(b, l, Queues(b)[l])
    BY DEF Queued
  <2> QED BY <2>1, <2>2, ListsSame
<1> QED BY <1>1, <1>2, <1>6, LinkQueues DEF d

\* A requeued order leaves its queue and goes to the end of that of its new price.
LEMMA RequeueQueues ==
  ASSUME NEW b, WellFormed(b), Queued(b), NEW i \in b.resting,
         NEW p \in Prices, NEW x \in Nat, x > 0,
         NEW k, k = <<b.order[i].side, p>>,
         k = b.order[i].level => b.order[i].prev # Nil \/ b.order[i].next # Nil
  PROVE  LET c == Requeued(b, i, p, x, k)
         IN  /\ Queued(c)
             /\ \A l \in Keys :
                  Queues(c)[l] = Appended(Abstract!Without(i, Queues(b)[l]), i, x, l, k)
<1> DEFINE u == UnlinkOrder(b, i)
           Change == [l \in Keys |-> Abstract!Without(i, Queues(b)[l])]
<1>1. u \in Books /\ u.resting = b.resting /\ Detached(u, i)
  BY UnlinkFields, UnlinkDetaches
<1>2. \A l \in Keys : Lists(u, l, Abstract!Without(i, Queues(b)[l]))
  BY UnlinkLists DEF Queued
<1>3. PICK r : /\ Repriced(r, u, i, p, x, k)
               /\ Requeued(b, i, p, x, k) = LinkOrder(FindOrCreateLevel(r, k), i, k)
  BY RequeueDetaches
<1>4. \A l \in Keys : Change[l] = Abstract!Without(i, Queues(b)[l])
  OBVIOUS
<1> HIDE DEF u, Change
<1>5. /\ r \in Books /\ Detached(r, i) /\ Acyclic(r) /\ r.resting = u.resting
      /\ \A j \in Ids \ {i} : r.order[j] = u.order[j]
      /\ k \in Keys /\ k = <<r.order[i].side, r.order[i].price>> /\ r.order[i].qty = x
  BY <1>3 DEF Repriced
<1>6. /\ u.order[i].level = Nil /\ r.order[i].level = Nil /\ Nil \notin Keys
      /\ u.resting \subseteq Ids
  BY <1>1, <1>5 DEF Detached, Books
<1>7. ASSUME NEW l \in Keys PROVE Lists(r, l, Change[l])
  <2>1. OrdersAt(r, l) = OrdersAt(u, l) /\ \A j \in OrdersAt(u, l) : r.order[j] = u.order[j]
    BY <1>5, <1>6 DEF OrdersAt
  <2> QED BY <1>2, <1>4, <2>1, ListsSame
<1>8. r.order[i].qty > 0
  BY <1>5
<1>9. LET c == LinkOrder(FindOrCreateLevel(r, k), i, k)
      IN  Queued(c) /\ \A l \in Keys : Queues(c)[l] = Appended(Change[l], i, r.order[i].qty, l, k)
  BY <1>5, <1>7, <1>8, LinkQueues
<1> QED BY <1>3, <1>4, <1>5, <1>9

LEMMA FillQueues ==
  ASSUME NEW b, WellFormed(b), Queued(b), NEW i \in b.resting, NEW x \in Nat, x > 0
  PROVE  LET c == Fill(b, i, x)
         IN  /\ Queued(c)
             /\ \A k \in Keys :
                  Queues(c)[k] = Abstract!WithQty(i, b.order[i].qty - FillQty(b, i, x), Queues(b)[k])
<1>1. b.order[i].qty \in Nat \ {0}
  BY EntryOf
<1>2. FillQty(b, i, x) \in Nat /\ FillQty(b, i, x) <= b.order[i].qty
  BY <1>1 DEF FillQty, Lesser
<1>3. CASE FillQty(b, i, x) = b.order[i].qty
  <2>1. Fill(b, i, x) = RemoveOrder(b, i) /\ b.order[i].qty - FillQty(b, i, x) = 0
    BY <1>1, <1>3 DEF Fill
  <2> QED BY <2>1, RemoveQueues
<1>4. CASE FillQty(b, i, x) # b.order[i].qty
  <2>1. /\ Fill(b, i, x) = Reduce(b, i, FillQty(b, i, x)) /\ FillQty(b, i, x) \in Int
        /\ b.order[i].qty - FillQty(b, i, x) > 0
    BY <1>1, <1>2, <1>4 DEF Fill
  <2> QED BY <2>1, ReduceQueues
<1> QED BY <1>3, <1>4

\* The queues of c are those of b but for that of level k, which is q.
Becomes(b, c, k, q) == Queues(c) = [Queues(b) EXCEPT ![k] = q]

ElseSame(b, c, k) == \A l \in Keys : l # k => Queues(c)[l] = Queues(b)[l]

LEMMA QueuesExcept ==
  ASSUME NEW b, NEW c, NEW k \in Keys, ElseSame(b, c, k)
  PROVE  Becomes(b, c, k, Queues(c)[k])
<1>1. Queues(b) = [l \in Keys |-> Queues(b)[l]] /\ Queues(c) = [l \in Keys |-> Queues(c)[l]]
  BY DEF Queues
<1> DEFINE f == Queues(b)
           g == Queues(c)
<1>2. f = [l \in Keys |-> f[l]] /\ g = [l \in Keys |-> g[l]] /\ \A l \in Keys : l # k => g[l] = f[l]
  BY <1>1 DEF ElseSame
<1> HIDE DEF f, g
<1>3. g = [f EXCEPT ![k] = g[k]]
  BY <1>2
<1> QED BY <1>3 DEF f, g, Becomes

\* The queues of c are those of b with the quantity of order i set to x.
Requantified(b, c, i, x) == \A l \in Keys : Queues(c)[l] = Abstract!WithQty(i, x, Queues(b)[l])

\* An order whose quantity changes in place disturbs the queue of its level only.
LEMMA InPlace ==
  ASSUME NEW b, WellFormed(b), Queued(b), NEW i \in b.resting, NEW x, NEW c, Requantified(b, c, i, x)
  PROVE  LET k == b.order[i].level
         IN  Becomes(b, c, k, Abstract!WithQty(i, x, Queues(b)[k]))
<1> DEFINE k == b.order[i].level
<1>1. k \in Keys
  BY EntryOf
<1>2. ASSUME NEW l \in Keys, l # k PROVE Queues(c)[l] = Queues(b)[l]
  <2>1. Lists(b, l, Queues(b)[l])
    BY DEF Queued
  <2>2. i \notin OrdersAt(b, l)
    BY <1>2 DEF OrdersAt
  <2> DEFINE q == Queues(b)[l]
  <2>3. q \in Seq(Entries) /\ \A n \in 1..Len(q) : q[n].id # i
    BY <2>1, <2>2 DEF Lists
  <2> HIDE DEF q
  <2>4. Abstract!WithQty(i, x, q) = q
    BY <2>3, WithoutOther
  <2> QED BY <2>4 DEF q, Requantified
<1> HIDE DEF k
<1>3. Becomes(b, c, k, Queues(c)[k])
  <2>1. ElseSame(b, c, k)
    BY <1>2 DEF ElseSame
  <2> QED BY <1>1, <2>1, QueuesExcept
<1>4. Queues(c)[k] = Abstract!WithQty(i, x, Queues(b)[k])
  BY <1>1 DEF Requantified
<1> QED BY <1>3, <1>4 DEF k

-----------------------------------------------------------------------------
(* The book implements BookSpec.                                           *)

\* Outside of FillLevel's loop BookSpec sees the book, and finds an order at its level.
LEMMA SeesBook ==
  ASSUME sweep = Nil, WellFormed(book), Queued(book), NEW i \in Ids
  PROVE  /\ Visible = book
         /\ Abstract!Resting(i) <=> i \in book.resting
         /\ i \in book.resting => Abstract!KeyOf(i) = book.order[i].level
<1>1. Visible = book
  BY DEF Visible
<1>2. /\ \A k \in Keys : i \in Abstract!At(Queues(book)[k]) <=> i \in book.resting /\ book.order[i].level = k
      /\ i \in book.resting => book.order[i].level \in Keys
  BY InQueue
<1>3. Abstract!Resting(i) <=> i \in book.resting
  BY <1>1, <1>2 DEF Abstract!Resting, Abstract!Keys, Keys
<1>4. ASSUME i \in book.resting PROVE Abstract!KeyOf(i) = book.order[i].level
  <2>1. Abstract!KeyOf(i) = CHOOSE k \in Keys : i \in Abstract!At(Queues(book)[k])
    BY <1>1 DEF Abstract!KeyOf, Abstract!Keys, Keys
  <2> QED BY <1>2, <1>4, <2>1
<1> QED BY <1>1, <1>3, <1>4

LEMMA CancelStep ==
  ASSUME IInv, Queued(book), NEW i \in Ids, NEW q \in Qtys, OnCancel(i, q)
  PROVE  Queued(book') /\ Abstract!Cancel(i, q)
<1>1. /\ WellFormed(book) /\ sweep = Nil /\ sweep' = Nil /\ q \in Nat
      /\ Visible = book /\ Visible' = book'
      /\ Abstract!Resting(i) <=> i \in book.resting
      /\ i \in book.resting => Abstract!KeyOf(i) = book.order[i].level
  BY SeesBook DEF IInv, OnCancel, Qtys, Visible
<1>2. CASE i \notin book.resting
  <2>1. UNCHANGED book /\ out' = Returned(0, "cancel_unknown")
    BY <1>2 DEF OnCancel
  <2> QED BY <1>1, <1>2, <2>1 DEF Returned, Abstract!Cancel, Abstract!Refuse, Abstract!Result
<1>3. CASE i \in book.resting
  <2> DEFINE x == book.order[i].qty
             left == IF q = 0 \/ q >= x THEN 0 ELSE x - q
             k == book.order[i].level
  <2>1. x \in Nat \ {0} /\ Abstract!QtyIn(Queues(book)[k], i) = x /\ k \in Keys
    BY <1>1, <1>3, EntryOf
  <2>2. /\ Queued(book') /\ out' = Returned(0, "none")
        /\ Requantified(book, book', i, left)
    <3>1. CASE q = 0 \/ q >= x
      <4>1. book' = RemoveOrder(book, i) /\ out' = Returned(0, "none")
        BY <1>3, <3>1 DEF OnCancel
      <4> QED BY <1>1, <1>3, <3>1, <4>1, RemoveQueues DEF Requantified
    <3>2. CASE ~(q = 0 \/ q >= x)
      <4>1. book' = Reduce(book, i, q) /\ out' = Returned(0, "none")
        BY <1>3, <3>2 DEF OnCancel
      <4>2. q \in Int /\ x - q > 0 /\ left = x - q
        BY <1>1, <2>1, <3>2
      <4> QED BY <1>1, <1>3, <4>1, <4>2, ReduceQueues DEF Requantified
    <3> QED BY <3>1, <3>2
  <2>3. Queues(book') = [Queues(book) EXCEPT ![k] = Abstract!WithQty(i, left, Queues(book)[k])]
    <3> HIDE DEF left
    <3>1. Becomes(book, book', k, Abstract!WithQty(i, left, Queues(book)[k]))
      BY <1>1, <1>3, <2>2, InPlace
    <3> QED BY <3>1 DEF Becomes
  <2>4. left = IF q = 0 THEN 0 ELSE Abstract!Max({0, x - q})
    <3>1. ASSUME NEW n \in Int PROVE Abstract!Max({0, n}) = IF n > 0 THEN n ELSE 0
      BY DEF Abstract!Max
    <3> QED BY <1>1, <2>1, <3>1
  <2> HIDE DEF x, left, k
  <2>5. Queues(Visible)' = [Queues(Visible) EXCEPT ![Abstract!KeyOf(i)] =
          Abstract!WithQty(i, IF q = 0 THEN 0
                              ELSE Abstract!Max({0, Abstract!QtyIn(Queues(Visible)[Abstract!KeyOf(i)], i) - q}),
                           Queues(Visible)[Abstract!KeyOf(i)])]
    BY <1>1, <1>3, <2>1, <2>3, <2>4 DEF k
  <2> QED BY <1>1, <1>3, <2>2, <2>5 DEF Returned, Abstract!Cancel, Abstract!Result
<1> QED BY <1>2, <1>3

LEMMA AddStep ==
  ASSUME IInv, Queued(book), NEW i \in Ids, NEW s \in Sides, NEW p \in Prices, NEW q \in Qtys,
         OnOrder(i, s, p, q)
  PROVE  Queued(book') /\ Abstract!Add(i, s, p, q)
<1>1. /\ WellFormed(book) /\ sweep = Nil /\ sweep' = Nil /\ q \in Nat
      /\ Visible = book /\ Visible' = book'
      /\ Abstract!Resting(i) <=> i \in book.resting
  BY SeesBook DEF IInv, OnOrder, Qtys, Visible
<1>2. CASE q = 0
  <2>1. UNCHANGED book /\ out' = Returned(0, "qty_invalid")
    BY <1>2 DEF OnOrder
  <2> QED BY <1>1, <1>2, <2>1 DEF Returned, Abstract!Add, Abstract!Refuse, Abstract!Result
<1>3. CASE q # 0 /\ i \in book.resting
  <2>1. UNCHANGED book /\ out' = Returned(0, "add_duplicate") /\ q > 0
    BY <1>1, <1>3 DEF OnOrder
  <2> QED BY <1>1, <1>3, <2>1 DEF Returned, Abstract!Add, Abstract!Refuse, Abstract!Result
<1>4. CASE q # 0 /\ i \notin book.resting
  <2> DEFINE k == <<s, p>>
  <2>1. /\ book' = LinkOrder(FindOrCreateLevel(NewOrder(book, i, s, p, q), k), i, k)
        /\ out' = Returned(0, "none") /\ q > 0 /\ k \in Keys
    BY <1>1, <1>4 DEF OnOrder, Keys
  <2>2. Queued(book') /\ \A l \in Keys : Queues(book')[l] = Appended(Queues(book)[l], i, q, l, k)
    BY <1>1, <1>4, <2>1, AddQueues
  <2> HIDE DEF k
  <2>3. ElseSame(book, book', k)
    BY <2>2 DEF ElseSame, Appended
  <2>4. Becomes(book, book', k, Queues(book')[k])
    BY <2>1, <2>3, QueuesExcept
  <2>5. Queues(book')[k] = Append(Queues(book)[k], Abstract!Entry(i, q))
    BY <2>1, <2>2 DEF Appended
  <2>6. Queues(Visible)' = [Queues(Visible) EXCEPT ![k] = Append(Queues(Visible)[k], Abstract!Entry(i, q))]
    BY <1>1, <2>4, <2>5 DEF Becomes
  <2> QED BY <1>1, <1>4, <2>1, <2>2, <2>6 DEF k, Returned, Abstract!Add, Abstract!Result
<1> QED BY <1>2, <1>3, <1>4

LEMMA TradeOrderStep ==
  ASSUME IInv, Queued(book), NEW i \in Ids, NEW q \in Qtys, OnTradeOrder(i, q)
  PROVE  Queued(book') /\ Abstract!TradeOrder(i, q)
<1>1. /\ WellFormed(book) /\ sweep = Nil /\ sweep' = Nil /\ q \in Nat
      /\ Visible = book /\ Visible' = book'
      /\ Abstract!Resting(i) <=> i \in book.resting
      /\ i \in book.resting => Abstract!KeyOf(i) = book.order[i].level
  BY SeesBook DEF IInv, OnTradeOrder, Qtys, Visible
<1>2. CASE q = 0
  <2>1. UNCHANGED book /\ out' = Returned(0, "qty_invalid")
    BY <1>2 DEF OnTradeOrder
  <2> QED BY <1>1, <1>2, <2>1 DEF Returned, Abstract!TradeOrder, Abstract!Refuse, Abstract!Result
<1>3. CASE q # 0 /\ i \notin book.resting
  <2>1. UNCHANGED book /\ out' = Returned(0, "trade_unknown") /\ q > 0
    BY <1>1, <1>3 DEF OnTradeOrder
  <2> QED BY <1>1, <1>3, <2>1 DEF Returned, Abstract!TradeOrder, Abstract!Refuse, Abstract!Result
<1>4. CASE q # 0 /\ i \in book.resting
  <2> DEFINE x == book.order[i].qty
             y == FillQty(book, i, q)
             left == x - y
             k == book.order[i].level
  <2>1. x \in Nat \ {0} /\ Abstract!QtyIn(Queues(book)[k], i) = x /\ k \in Keys /\ q > 0
    BY <1>1, <1>4, EntryOf
  <2>2. /\ book' = Fill(book, i, q)
        /\ out' = Returned(y, IF y < q THEN "trade_over_order" ELSE "none")
    BY <1>4 DEF OnTradeOrder
  <2>3. Queued(book') /\ Requantified(book, book', i, left)
    BY <1>1, <1>4, <2>1, <2>2, FillQueues DEF Requantified
  <2>4. /\ y = Abstract!Min({q, x}) /\ left = Abstract!Max({0, x - q})
        /\ y < q <=> q > x
    <3>1. ASSUME NEW n \in Int PROVE Abstract!Max({0, n}) = IF n > 0 THEN n ELSE 0
      BY DEF Abstract!Max
    <3>2. ASSUME NEW m \in Int, NEW n \in Int PROVE Abstract!Min({m, n}) = IF m < n THEN m ELSE n
      BY DEF Abstract!Min
    <3>3. y = IF q < x THEN q ELSE x
      BY DEF FillQty, Lesser
    <3> HIDE DEF x, y
    <3> QED BY <1>1, <2>1, <3>1, <3>2, <3>3
  <2> HIDE DEF x, y, left
  <2>5. Becomes(book, book', k, Abstract!WithQty(i, left, Queues(book)[k]))
    BY <1>1, <1>4, <2>3, InPlace
  <2> HIDE DEF k
  <2>6. Abstract!KeyOf(i) = k
    BY <1>1, <1>4 DEF k
  <2>7. Queues(Visible)' = [Queues(Visible) EXCEPT ![k] =
          Abstract!WithQty(i, Abstract!Max({0, x - q}), Queues(Visible)[k])]
    BY <1>1, <2>4, <2>5 DEF Becomes
  <2>8. Abstract!QtyIn(Queues(Visible)[k], i) = x
    BY <1>1, <2>1
  <2>9. Abstract!Result(Abstract!Min({q, x}), IF q > x THEN "trade_over_order" ELSE "none")
    BY <2>2, <2>4 DEF Returned, Abstract!Result
  <2> QED BY <1>1, <1>4, <2>1, <2>3, <2>6, <2>7, <2>8, <2>9 DEF Abstract!TradeOrder
<1> QED BY <1>2, <1>3, <1>4

LEMMA ClearStep ==
  ASSUME IInv, Queued(book), OnClear
  PROVE  Queued(book') /\ Abstract!Clear
<1>1. /\ book' = EmptyBook /\ Visible' = book' /\ out' = Returned(0, "none")
  BY DEF OnClear, Visible
<1>2. Queued(book') /\ \A k \in Keys : Queues(book')[k] = <<>>
  BY <1>1, EmptyQueues
<1>3. Queues(book') = [k \in Keys |-> <<>>]
  <2> DEFINE f == Queues(book')
  <2>1. f = [k \in Keys |-> f[k]]
    BY DEF Queues
  <2> HIDE DEF f
  <2>2. f = [k \in Keys |-> <<>>]
    BY <1>2, <2>1 DEF f
  <2> QED BY <2>2 DEF f
<1> QED BY <1>1, <1>2, <1>3 DEF Returned, Abstract!Clear, Abstract!Result, Abstract!Keys, Keys

\* A queue of one order is the same whether this keeps or loses its place.
LEMMA AloneInQueue ==
  ASSUME NEW q \in Seq(Entries), Once(q), Len(q) = 1, NEW i, q[1].id = i, NEW x \in Nat \ {0}
  PROVE  Abstract!WithQty(i, x, q) = Append(Abstract!Without(i, q), Abstract!Entry(i, x))
<1> DEFINE r == Abstract!WithQty(i, x, q)
           w == Abstract!Without(i, q)
           e == Abstract!Entry(i, x)
<1>1. 1 \in 1..Len(q) /\ i \in Ids
  BY EntryAt
<1>2. r \in Seq(Entries) /\ Len(r) = 1 /\ r[1].id = i /\ r[1].qty = x
  <2> DEFINE r1 == Abstract!WithQty(q[1].id, x, q)
  <2>1. /\ r1 \in Seq(Entries) /\ Len(r1) = Len(q)
        /\ \A m \in 1..Len(q) : /\ r1[m].id = q[m].id
                                /\ m # 1 => r1[m] = q[m]
        /\ r1[1].qty = x
    BY <1>1, WithQtyIs, Zenon
  <2>2. r = r1
    OBVIOUS
  <2> HIDE DEF r, r1
  <2> QED BY <1>1, <2>1, <2>2
<1>3. w \in Seq(Entries) /\ Len(w) = 0
  <2> DEFINE w1 == Abstract!Without(q[1].id, q)
  <2>1. w1 \in Seq(Entries) /\ Len(w1) = Len(q) - 1
    BY <1>1, WithoutIs
  <2>2. w = w1
    OBVIOUS
  <2> HIDE DEF w, w1
  <2> QED BY <2>1, <2>2
<1>4. e \in Entries /\ r[1] = e
  <2> HIDE DEF r
  <2>1. 1 \in 1..Len(r)
    BY <1>2
  <2>2. r[1] \in Entries
    BY <1>2, <2>1, EntryAt
  <2> QED BY <1>1, <1>2, <2>2, EntryIs, EntryEta
<1> HIDE DEF r, w, e
<1>5. Append(w, e) \in Seq(Entries) /\ Len(Append(w, e)) = 1 /\ Append(w, e)[1] = e
  BY <1>3, <1>4
<1>6. r = Append(w, e)
  BY <1>2, <1>4, <1>5
<1> QED BY <1>6 DEF r, w, e

\* The queues of c are those of b with order i taken out and put at the end of level k.
Moved(b, c, i, x, k) ==
  \A l \in Keys : Queues(c)[l] = Appended(Abstract!Without(i, Queues(b)[l]), i, x, l, k)

\* What Modified does to the queues, in each of its cases.
LEMMA ModifyQueues ==
  ASSUME NEW b, WellFormed(b), Queued(b), NEW i \in b.resting, NEW p \in Prices, NEW q \in Nat
  PROVE  LET o == b.order[i]
             c == Modified(b, i, p, q)
         IN  /\ Queued(c)
             /\ IF q = 0 \/ (p = o.price /\ q <= o.qty) THEN Requantified(b, c, i, q)
                ELSE Moved(b, c, i, q, <<o.side, p>>)
<1> DEFINE o == b.order[i]
           c == Modified(b, i, p, q)
<1>1. o \in Orders /\ Placed(b, i)
  BY DEF WellFormed, Books, Linked, OrderLinked
<1>2. o.qty \in Nat \ {0} /\ o.level = <<o.side, o.price>> /\ o.level \in Keys
  BY <1>1, EntryOf DEF Placed
<1>3. CASE q = 0
  <2>1. c = RemoveOrder(b, i)
    BY <1>3 DEF Modified
  <2> QED BY <1>3, <2>1, RemoveQueues DEF Requantified
<1>4. CASE q # 0 /\ p # o.price
  <2>1. c = Requeued(b, i, p, q, <<o.side, p>>)
    BY <1>4 DEF Modified
  <2>2. <<o.side, p>> # o.level
    BY <1>2, <1>4
  <2>3. Queued(c) /\ Moved(b, c, i, q, <<o.side, p>>)
    BY <1>4, <2>1, <2>2, RequeueQueues DEF Moved
  <2> QED BY <1>4, <2>3
<1>5. CASE q # 0 /\ p = o.price /\ LosesPriority(b, i, q)
  <2>1. c = Requeued(b, i, p, q, o.level)
    BY <1>5 DEF Modified
  <2>2. (o.prev # Nil \/ o.next # Nil) /\ q > o.qty
    BY <1>5 DEF LosesPriority
  <2>3. Queued(c) /\ Moved(b, c, i, q, <<o.side, p>>)
    BY <1>2, <1>5, <2>1, <2>2, RequeueQueues DEF Moved
  <2>4. ~(q = 0 \/ (p = o.price /\ q <= o.qty))
    BY <1>2, <1>5, <2>2
  <2> QED BY <2>3, <2>4
<1>6. CASE q # 0 /\ p = o.price /\ ~LosesPriority(b, i, q)
  <2>1. c = Reduce(b, i, o.qty - q)
    BY <1>6 DEF Modified
  <2>2. o.qty - q \in Int /\ o.qty - (o.qty - q) > 0 /\ o.qty - (o.qty - q) = q
    BY <1>2, <1>6
  <2>3. Queued(c) /\ Requantified(b, c, i, q)
    BY <2>1, <2>2, ReduceQueues DEF Requantified
  <2>4. CASE q <= o.qty
    BY <1>6, <2>3, <2>4
  <2>5. CASE ~(q <= o.qty)
    <3> DEFINE k == o.level
               s == Queues(b)[k]
    <3>1. o.prev = Nil /\ o.next = Nil
      BY <1>2, <1>6, <2>5 DEF LosesPriority
    <3>2. OrdersAt(b, k) = {i}
      BY <3>1, AloneInLevel
    <3>3. Lists(b, k, s) /\ \E n \in 1..Len(s) : s[n].id = i
      BY EntryOf
    <3> HIDE DEF s
    <3>4. Len(s) \in Nat /\ s \in Seq(Entries) /\ Once(s)
      BY <3>3 DEF Lists
    <3>5. \A n \in 1..Len(s) : s[n].id = i
      BY <3>2, <3>3 DEF Lists
    <3>6. Len(s) = 1 /\ s[1].id = i
      <4>1. ASSUME Len(s) > 1 PROVE FALSE
        <5>1. 1 \in 1..Len(s) /\ 2 \in 1..Len(s)
          BY <3>4, <4>1
        <5> QED BY <3>4, <3>5, <5>1 DEF Once
      <4>2. PICK n \in 1..Len(s) : s[n].id = i
        BY <3>3
      <4>3. Len(s) = 1 /\ 1 \in 1..Len(s)
        <5>1. ASSUME NEW l \in Nat, ~(l > 1), NEW m \in 1..l PROVE l = 1 /\ 1 \in 1..l
          BY <5>1
        <5> QED BY <3>4, <4>1, <4>2, <5>1
      <4> QED BY <3>5, <4>3
    <3>7. Abstract!WithQty(i, q, s) = Append(Abstract!Without(i, s), Abstract!Entry(i, q))
      BY <1>6, <3>4, <3>6, AloneInQueue
    <3>8. ASSUME NEW l \in Keys, l # k
          PROVE  Abstract!WithQty(i, q, Queues(b)[l]) = Abstract!Without(i, Queues(b)[l])
      <4> DEFINE r == Queues(b)[l]
      <4>1. Lists(b, l, r) /\ i \notin OrdersAt(b, l)
        BY <3>8 DEF Queued, OrdersAt
      <4> HIDE DEF r
      <4>2. r \in Seq(Entries) /\ \A n \in 1..Len(r) : r[n].id # i
        BY <4>1 DEF Lists
      <4>3. Abstract!WithQty(i, q, r) = Abstract!Without(i, r)
        BY <4>2, WithoutOther
      <4> QED BY <4>3 DEF r
    <3>9. Moved(b, c, i, q, k)
      <4> HIDE DEF c, k
      <4>1. ASSUME NEW l \in Keys
            PROVE  Queues(c)[l] = Appended(Abstract!Without(i, Queues(b)[l]), i, q, l, k)
        <5>1. Queues(c)[l] = Abstract!WithQty(i, q, Queues(b)[l])
          BY <2>3 DEF Requantified
        <5>2. CASE l = k
          BY <3>7, <5>1, <5>2 DEF Appended, s
        <5>3. CASE l # k
          BY <3>8, <5>1, <5>3 DEF Appended
        <5> QED BY <5>2, <5>3
      <4> QED BY <4>1 DEF Moved
    <3>10. k = <<o.side, p>> /\ ~(q = 0 \/ (p = o.price /\ q <= o.qty))
      BY <1>2, <1>6, <2>5
    <3> QED BY <2>3, <3>9, <3>10
  <2> QED BY <2>4, <2>5
<1> QED BY <1>3, <1>4, <1>5, <1>6

LEMMA ModifyStep ==
  ASSUME IInv, Queued(book), NEW i \in Ids, NEW p \in Prices, NEW q \in Qtys, OnModify(i, p, q)
  PROVE  Queued(book') /\ Abstract!Modify(i, p, q)
<1>1. /\ WellFormed(book) /\ sweep = Nil /\ sweep' = Nil /\ q \in Nat
      /\ Visible = book /\ Visible' = book'
      /\ Abstract!Resting(i) <=> i \in book.resting
      /\ i \in book.resting => Abstract!KeyOf(i) = book.order[i].level
  BY SeesBook DEF IInv, OnModify, Qtys, Visible
<1>2. CASE i \notin book.resting
  <2>1. UNCHANGED book /\ out' = Returned(0, "modify_unknown")
    BY <1>2 DEF OnModify
  <2> QED BY <1>1, <1>2, <2>1 DEF Returned, Abstract!Modify, Abstract!Refuse, Abstract!Result
<1>3. CASE i \in book.resting
  <2> DEFINE o == book.order[i]
             k == o.level
             to == <<o.side, p>>
             stays == q = 0 \/ (to = k /\ q <= o.qty)
  <2>1. /\ book' = Modified(book, i, p, q) /\ out' = Returned(0, "none")
    BY <1>3 DEF OnModify
  <2>2. /\ k = <<o.side, o.price>> /\ k[1] = o.side /\ k \in Keys
        /\ Abstract!QtyIn(Queues(book)[k], i) = o.qty
    <3>1. Placed(book, i)
      BY <1>1, <1>3 DEF WellFormed, Linked, OrderLinked
    <3>2. k \in Keys /\ Abstract!QtyIn(Queues(book)[k], i) = o.qty
      BY <1>1, <1>3, EntryOf
    <3> QED BY <3>1, <3>2 DEF Placed
  <2>3. to = k <=> p = o.price
    BY <2>2
  <2>4. /\ Queued(book')
        /\ IF stays THEN Requantified(book, book', i, q) ELSE Moved(book, book', i, q, to)
    BY <1>1, <1>3, <2>1, <2>3, ModifyQueues
  <2>5. Abstract!KeyOf(i) = k /\ Abstract!QtyIn(Queues(Visible)[k], i) = o.qty
    BY <1>1, <1>3, <2>2
  <2>6. ASSUME stays
        PROVE  Queues(Visible)' = [Queues(Visible) EXCEPT ![k] = Abstract!WithQty(i, q, Queues(Visible)[k])]
    <3>1. Requantified(book, book', i, q)
      BY <2>4, <2>6
    <3> HIDE DEF stays
    <3>2. Becomes(book, book', k, Abstract!WithQty(i, q, Queues(book)[k]))
      BY <1>1, <1>3, <3>1, InPlace
    <3> QED BY <1>1, <3>2 DEF Becomes
  <2>7. ASSUME ~stays
        PROVE  Queues(Visible)' = [l \in Abstract!Keys |->
                                     LET rest == Abstract!Without(i, Queues(Visible)[l])
                                     IN  IF l = to THEN Append(rest, Abstract!Entry(i, q)) ELSE rest]
    <3>1. Moved(book, book', i, q, to)
      BY <2>4, <2>7
    <3> HIDE DEF stays, to
    <3> DEFINE f == Queues(book')
    <3>2. f = [l \in Keys |-> f[l]]
      BY DEF Queues
    <3>3. \A l \in Keys : f[l] = LET rest == Abstract!Without(i, Queues(book)[l])
                                 IN  IF l = to THEN Append(rest, Abstract!Entry(i, q)) ELSE rest
      BY <3>1 DEF Moved, Appended
    <3>4. f = [l \in Keys |-> LET rest == Abstract!Without(i, Queues(book)[l])
                              IN  IF l = to THEN Append(rest, Abstract!Entry(i, q)) ELSE rest]
      <4> HIDE DEF f
      <4> QED BY <3>2, <3>3
    <3> QED BY <1>1, <3>4 DEF Abstract!Keys, Keys
  <2>8. Abstract!Result(0, "none")
    BY <2>1 DEF Returned, Abstract!Result
  <2> HIDE DEF o, k, to
  <2>9. <<k[1], p>> = to
    BY <2>2 DEF to
  <2> QED BY <1>1, <1>3, <2>4, <2>5, <2>6, <2>7, <2>8, <2>9 DEF Abstract!Modify
<1> QED BY <1>2, <1>3
-----------------------------------------------------------------------------
(* What a trade leaves of a queue.                                         *)

\* BookSpec's sums are those of the library.
LEMMA SameSum == ASSUME NEW f, NEW S PROVE Abstract!SumFunctionOnSet(f, S) = SumFunctionOnSet(f, S)
BY DEF Abstract!SumFunctionOnSet, Abstract!FoldFunctionOnSet, Abstract!MapThenFoldSet,
       SumFunctionOnSet, FoldFunctionOnSet, MapThenFoldSet

\* Every order of the queue has something left.
Positive(q) == \A n \in 1..Len(q) : q[n].qty > 0

\* The quantity ahead of a place grows by the order that stands there.
LEMMA AheadIs ==
  ASSUME NEW q \in Seq(Entries)
  PROVE  /\ Abstract!QtyAhead(q, 0) = 0
         /\ \A n \in 1..Len(q) : Abstract!QtyAhead(q, n) = Abstract!QtyAhead(q, n - 1) + q[n].qty
<1> DEFINE f == [m \in DOMAIN q |-> q[m].qty]
<1>1. DOMAIN q = 1..Len(q) /\ Len(q) \in Nat
  OBVIOUS
<1>2. \A m \in 1..Len(q) : f[m] = q[m].qty /\ f[m] \in Int
  BY <1>1, EntryAt
<1>3. \A n : Abstract!QtyAhead(q, n) = SumFunctionOnSet(f, 1..n)
  BY SameSum, Zenon DEF Abstract!QtyAhead
<1> HIDE DEF f
<1>4. Abstract!QtyAhead(q, 0) = 0
  <2>1. 1..0 = {}
    OBVIOUS
  <2> QED BY <1>3, <2>1, SumEmpty
<1>5. ASSUME NEW n \in 1..Len(q)
      PROVE  Abstract!QtyAhead(q, n) = Abstract!QtyAhead(q, n - 1) + q[n].qty
  <2>1. n - 1 \in Nat /\ n \in Nat
    BY <1>1
  <2>2. IsFiniteSet(1..n - 1)
    BY <2>1, FS_Interval
  <2>3. \A m \in 1..n - 1 : m \in 1..Len(q)
    BY <1>1, <2>1
  <2>4. Summable(f, 1..n - 1)
    BY <1>2, <2>2, <2>3 DEF Summable
  <2>5. n \notin 1..n - 1 /\ 1..n = (1..n - 1) \cup {n}
    BY <2>1
  <2>6. SumFunctionOnSet(f, (1..n - 1) \cup {n}) = SumFunctionOnSet(f, 1..n - 1) + f[n]
    BY <1>2, <2>4, <2>5, SumWith
  <2> QED BY <1>2, <1>3, <2>5, <2>6
<1> QED BY <1>4, <1>5

LEMMA AheadGrows ==
  ASSUME NEW q \in Seq(Entries), Positive(q), NEW n \in 0..Len(q)
  PROVE  /\ Abstract!QtyAhead(q, n) \in Nat
         /\ \A m \in 0..n - 1 : Abstract!QtyAhead(q, m) < Abstract!QtyAhead(q, n)
<1> DEFINE A(m) == Abstract!QtyAhead(q, m)
           T == {k \in Nat : k <= Len(q) =>
                   A(k) \in Nat /\ \A m \in 0..k - 1 : A(m) \in Nat /\ A(m) < A(k)}
<1>1. Len(q) \in Nat
  OBVIOUS
<1>2. A(0) = 0 /\ \A k \in 1..Len(q) : A(k) = A(k - 1) + q[k].qty /\ q[k].qty \in Nat /\ q[k].qty > 0
  BY AheadIs, EntryAt DEF Positive
<1> HIDE DEF A
<1>3. 0 \in T
  BY <1>2
<1>4. ASSUME NEW k \in T PROVE k + 1 \in T
  <2> SUFFICES ASSUME k + 1 <= Len(q)
               PROVE  A(k + 1) \in Nat /\ \A m \in 0..k : A(m) \in Nat /\ A(m) < A(k + 1)
    OBVIOUS
  <2>1. k \in Nat /\ k <= Len(q) /\ k + 1 \in 1..Len(q) /\ (k + 1) - 1 = k
    BY <1>1
  <2>2. A(k) \in Nat /\ \A m \in 0..k - 1 : A(m) \in Nat /\ A(m) < A(k)
    BY <2>1
  <2>3. A(k + 1) = A(k) + q[k + 1].qty /\ q[k + 1].qty \in Nat /\ q[k + 1].qty > 0
    BY <1>2, <2>1
  <2>4. A(k + 1) \in Nat /\ A(k) < A(k + 1)
    BY <2>2, <2>3
  <2>5. ASSUME NEW m \in 0..k PROVE A(m) \in Nat /\ A(m) < A(k + 1)
    <3>1. CASE m = k
      BY <2>2, <2>4, <3>1
    <3>2. CASE m # k
      <4>1. m \in 0..k - 1
        BY <2>1, <3>2
      <4> QED BY <2>2, <2>4, <4>1
    <3> QED BY <3>1, <3>2
  <2> QED BY <2>4, <2>5
<1>5. T = Nat
  <2> HIDE DEF T
  <2>1. T \in SUBSET Nat
    BY DEF T
  <2> QED BY <1>3, <1>4, <2>1, Induct
<1>6. n \in Nat /\ n <= Len(q) /\ n \in T
  BY <1>1, <1>5
<1>7. A(n) \in Nat /\ \A m \in 0..n - 1 : A(m) < A(n)
  BY <1>6
<1> QED BY <1>7 DEF A

\* A trade that pays the first g orders of a queue and not the next pays g orders.
LEMMA PaidIs ==
  ASSUME NEW s \in Seq(Entries), Positive(s), NEW g \in 0..Len(s), NEW x \in Nat,
         Abstract!QtyAhead(s, g) <= x, g < Len(s) => x < Abstract!QtyAhead(s, g + 1)
  PROVE  Abstract!Paid(s, x) = g
<1> DEFINE A(n) == Abstract!QtyAhead(s, n)
<1>1. Len(s) \in Nat /\ DOMAIN s = 1..Len(s)
  OBVIOUS
<1>2. \A n \in 0..Len(s) : A(n) \in Nat /\ \A m \in 0..n - 1 : A(m) < A(n)
  BY AheadGrows
<1>3. A(g) <= x /\ (g < Len(s) => x < A(g + 1))
  OBVIOUS
<1>4. Abstract!Paid(s, x) = Abstract!Max({n \in 0..Len(s) : A(n) <= x})
  BY DEF Abstract!Paid
<1> HIDE DEF A
<1>5. ASSUME NEW n \in 0..Len(s) PROVE A(n) <= x <=> n <= g
  <2>1. A(n) \in Nat /\ A(g) \in Nat
    BY <1>1, <1>2
  <2>2. CASE n = g
    BY <1>1, <1>3, <2>2
  <2>3. CASE n < g
    <3>1. n \in 0..g - 1
      BY <1>1, <2>3
    <3>2. A(n) < A(g)
      BY <1>2, <3>1
    <3> QED BY <1>3, <2>1, <2>3, <3>2
  <2>4. CASE n = g + 1
    BY <1>1, <1>3, <2>1, <2>4
  <2>5. CASE n > g + 1
    <3>1. g + 1 \in 0..n - 1 /\ g + 1 \in 0..Len(s) /\ g < Len(s) /\ n \in 0..Len(s)
      BY <1>1, <2>5
    <3>2. A(g + 1) < A(n) /\ A(g + 1) \in Nat
      BY <1>2, <3>1
    <3> QED BY <1>3, <2>1, <2>5, <3>1, <3>2
  <2> QED BY <1>1, <2>2, <2>3, <2>4, <2>5
<1>6. {n \in 0..Len(s) : A(n) <= x} = 0..g
  BY <1>1, <1>5
<1>7. Abstract!Max(0..g) = g
  <2>1. g \in 0..g /\ \A n \in 0..g : g >= n
    BY <1>1
  <2>2. \A m \in 0..g : (\A n \in 0..g : m >= n) => m = g
    BY <1>1, <2>1
  <2> QED BY <2>1, <2>2, Zenon DEF Abstract!Max
<1> QED BY <1>4, <1>6, <1>7

\* Of the queue s, which t has been taken from, r is left: the first g orders are
\* paid, and x of the next.
Parts(s, t, r, g, x) ==
  /\ g \in 0..Len(s) /\ x \in Nat
  /\ Len(r) = Len(s) - g
  /\ Abstract!QtyAhead(s, g) + x = t
  /\ x > 0 => g < Len(s) /\ x < s[g + 1].qty
  /\ \A n \in 1..Len(r) :
       r[n].id = s[g + n].id /\ r[n].qty = IF n = 1 THEN s[g + 1].qty - x ELSE s[g + n].qty

Traded(s, t, r) == \E g, x : Parts(s, t, r, g, x)

LEMMA TradedNothing == ASSUME NEW s \in Seq(Entries) PROVE Traded(s, 0, s)
<1>1. Abstract!QtyAhead(s, 0) = 0 /\ Len(s) \in Nat
  BY AheadIs
<1>2. \A n \in 1..Len(s) : s[n].qty \in Nat
  BY EntryAt
<1>3. Parts(s, 0, s, 0, 0)
  BY <1>1, <1>2 DEF Parts
<1> QED BY <1>3 DEF Traded

\* A pass of the loop takes y from the first order that is left.
LEMMA TradedMore ==
  ASSUME NEW s \in Seq(Entries), Positive(s), NEW r \in Seq(Entries), Once(r), NEW t \in Nat,
         Traded(s, t, r), Len(r) > 0, NEW y \in Nat, y > 0, y <= r[1].qty
  PROVE  Traded(s, t + y, Abstract!WithQty(r[1].id, r[1].qty - y, r))
<1> DEFINE w == Abstract!WithQty(r[1].id, r[1].qty - y, r)
           A(n) == Abstract!QtyAhead(s, n)
<1>1. PICK g, x : Parts(s, t, r, g, x)
  BY DEF Traded
<1>2. /\ Len(s) \in Nat /\ Len(r) \in Nat /\ 1 \in 1..Len(r) /\ g \in 0..Len(s) /\ x \in Nat
      /\ Len(r) = Len(s) - g /\ g + 1 \in 1..Len(s) /\ (g + 1) - 1 = g
  BY <1>1 DEF Parts
<1>3. /\ r[1].qty = s[g + 1].qty - x /\ s[g + 1].qty \in Nat /\ r[1].qty \in Nat
      /\ A(g) + x = t /\ A(g) \in Nat
      /\ A(g + 1) = A(g) + s[g + 1].qty
  BY <1>1, <1>2, EntryAt, AheadIs, AheadGrows DEF Parts
<1>4. \A n \in 1..Len(r) :
        r[n].id = s[g + n].id /\ r[n].qty = IF n = 1 THEN s[g + 1].qty - x ELSE s[g + n].qty
  BY <1>1 DEF Parts
<1>5. CASE y = r[1].qty
  <2>1. w = Abstract!Without(r[1].id, r)
    BY <1>3, <1>5 DEF Abstract!WithQty
  <2>2. /\ w \in Seq(Entries) /\ Len(w) = Len(r) - 1
        /\ \A m \in 1..Len(r) - 1 : w[m] = r[Skipping(m, 1)]
    <3>1. LET v == Abstract!Without(r[1].id, r)
          IN  /\ v \in Seq(Entries) /\ Len(v) = Len(r) - 1
              /\ \A m \in 1..Len(r) - 1 : v[m] = r[Skipping(m, 1)]
      BY <1>2, WithoutIs
    <3> HIDE DEF w
    <3> QED BY <2>1, <3>1
  <2> HIDE DEF w, A
  <2>3. ASSUME NEW m \in 1..Len(w)
        PROVE  w[m].id = s[(g + 1) + m].id /\ w[m].qty = s[(g + 1) + m].qty
    <3>1. m \in 1..Len(r) - 1 /\ m + 1 \in 1..Len(r) /\ m + 1 # 1 /\ g + (m + 1) = (g + 1) + m
      BY <1>2, <2>2
    <3>2. Skipping(m, 1) = m + 1
      BY DEF Skipping
    <3>3. r[m + 1].id = s[g + (m + 1)].id /\ r[m + 1].qty = s[g + (m + 1)].qty
      BY <1>4, <3>1
    <3>4. w[m] = r[m + 1]
      BY <2>2, <3>1, <3>2
    <3> QED BY <3>1, <3>3, <3>4
  <2>4. A(g + 1) + 0 = t + y
    BY <1>2, <1>3, <1>5
  <2>5. \A m \in 1..Len(w) : (g + 1) + m \in 1..Len(s)
    BY <1>2, <2>2
  <2>6. \A m \in 1..Len(w) : s[(g + 1) + m].qty \in Nat
    BY <2>5, EntryAt
  <2>7. \A m \in 1..Len(w) : /\ w[m].id = s[(g + 1) + m].id
                             /\ w[m].qty = IF m = 1 THEN s[(g + 1) + 1].qty - 0 ELSE s[(g + 1) + m].qty
    BY <2>3, <2>6
  <2>8. Parts(s, t + y, w, g + 1, 0)
    <3>1. g + 1 \in 0..Len(s) /\ 0 \in Nat /\ Len(w) = Len(s) - (g + 1)
      BY <1>2, <2>2
    <3> QED BY <2>4, <2>7, <3>1 DEF Parts, A
  <2> QED BY <2>8 DEF Traded, w
<1>6. CASE y # r[1].qty
  <2>1. r[1].qty - y \in Nat \ {0}
    BY <1>3, <1>6
  <2>2. /\ w \in Seq(Entries) /\ Len(w) = Len(r)
        /\ \A m \in 1..Len(r) : /\ w[m].id = r[m].id
                                /\ m # 1 => w[m] = r[m]
        /\ w[1].qty = r[1].qty - y
    <3>1. LET v == Abstract!WithQty(r[1].id, r[1].qty - y, r)
          IN  /\ v \in Seq(Entries) /\ Len(v) = Len(r)
              /\ \A m \in 1..Len(r) : /\ v[m].id = r[m].id
                                      /\ m # 1 => v[m] = r[m]
              /\ v[1].qty = r[1].qty - y
      <4>1. r[1].qty - y \in Nat \ {0} /\ 1 \in 1..Len(r)
        BY <1>2, <2>1
      <4> DEFINE z == r[1].qty - y
      <4> HIDE DEF z
      <4>2. LET v == Abstract!WithQty(r[1].id, z, r)
            IN  /\ v \in Seq(Entries) /\ Len(v) = Len(r)
                /\ \A m \in 1..Len(r) : /\ v[m].id = r[m].id
                                        /\ m # 1 => v[m] = r[m]
                /\ v[1].qty = z
        BY <4>1, WithQtyIs, Zenon DEF z
      <4> QED BY <4>2 DEF z
    <3> QED BY <3>1
  <2> HIDE DEF w, A
  <2>3. /\ A(g) + (x + y) = t + y /\ x + y \in Nat /\ x + y < s[g + 1].qty /\ g < Len(s)
        /\ r[1].qty - y = s[g + 1].qty - (x + y)
    <3>1. r[1].qty - y > 0
      BY <1>3, <2>1
    <3>2. A(g) + (x + y) = t + y
      <4>1. ASSUME NEW k \in Nat, k + x = t PROVE k + (x + y) = t + y
        BY <1>2, <4>1
      <4> QED BY <1>3, <4>1
    <3>4. x + y \in Nat /\ g < Len(s)
      BY <1>2
    <3>3. x + y < s[g + 1].qty /\ r[1].qty - y = s[g + 1].qty - (x + y)
      <4>1. ASSUME NEW l \in Nat, NEW m \in Nat, l = m - x, l - y > 0
            PROVE  x + y < m /\ l - y = m - (x + y)
        BY <1>2, <4>1
      <4> QED BY <1>3, <3>1, <4>1
    <3> QED BY <3>2, <3>3, <3>4
  <2>4. \A m \in 1..Len(w) :
          w[m].id = s[g + m].id /\ w[m].qty = IF m = 1 THEN s[g + 1].qty - (x + y) ELSE s[g + m].qty
    BY <1>2, <1>4, <2>2, <2>3
  <2>5. Parts(s, t + y, w, g, x + y)
    BY <1>2, <2>2, <2>3, <2>4 DEF Parts, A
  <2> QED BY <2>5 DEF Traded, w
<1> QED BY <1>5, <1>6

\* Where the loop ends, because the asked quantity is traded or the queue is
\* empty, it has done what BookSpec promises.
LEMMA TradedAll ==
  ASSUME NEW s \in Seq(Entries), Positive(s), NEW r \in Seq(Entries), NEW t \in Nat,
         Traded(s, t, r), NEW q \in Nat, t <= q, t = q \/ Len(r) = 0
  PROVE  LET total == Abstract!QtyAhead(s, Len(s))
         IN  /\ r = Abstract!AfterTrade(s, q)
             /\ Abstract!Min({q, total}) = t
             /\ q > total <=> q > t
<1> DEFINE A(n) == Abstract!QtyAhead(s, n)
           total == A(Len(s))
<1>1. PICK g, x : Parts(s, t, r, g, x)
  BY DEF Traded
<1>2. /\ Len(s) \in Nat /\ Len(r) \in Nat /\ g \in 0..Len(s) /\ x \in Nat /\ Len(r) = Len(s) - g
      /\ A(g) + x = t
      /\ x > 0 => g < Len(s) /\ x < s[g + 1].qty
  BY <1>1 DEF Parts
<1>3. \A n \in 1..Len(r) :
        r[n].id = s[g + n].id /\ r[n].qty = IF n = 1 THEN s[g + 1].qty - x ELSE s[g + n].qty
  BY <1>1 DEF Parts
<1>4. /\ \A n \in 0..Len(s) : A(n) \in Nat /\ \A m \in 0..n - 1 : A(m) < A(n)
      /\ \A n \in 1..Len(s) : A(n) = A(n - 1) + s[n].qty /\ s[n].qty \in Nat /\ s[n].qty > 0
  BY AheadIs, AheadGrows, EntryAt DEF Positive
<1>5. A(g) <= q
  <2> HIDE DEF A
  <2> QED BY <1>2, <1>4
<1>6. ASSUME g < Len(s) PROVE t = q /\ q < A(g + 1) /\ A(g + 1) \in Nat /\ A(g + 1) = A(g) + s[g + 1].qty
  <2> HIDE DEF A
  <2>1. g + 1 \in 1..Len(s) /\ (g + 1) - 1 = g /\ t = q
    BY <1>2, <1>6
  <2>2. A(g + 1) = A(g) + s[g + 1].qty /\ s[g + 1].qty \in Nat /\ s[g + 1].qty > 0 /\ A(g) \in Nat
        /\ A(g + 1) \in Nat
    BY <1>2, <1>4, <2>1
  <2> QED BY <1>2, <2>1, <2>2
<1>7. Abstract!Paid(s, q) = g
  <2>1. g < Len(s) => q < Abstract!QtyAhead(s, g + 1)
    BY <1>6
  <2> QED BY <1>2, <1>5, <2>1, PaidIs
<1>8. Abstract!Min({q, total}) = t /\ (q > total <=> q > t)
  <2> HIDE DEF A
  <2>1. total \in Nat
    BY <1>2, <1>4
  <2>2. CASE g = Len(s)
    <3>1. t = total
      BY <1>2, <1>4, <2>1, <2>2
    <3> HIDE DEF total
    <3> QED BY <2>1, <3>1 DEF Abstract!Min
  <2>3. CASE g # Len(s)
    <3>1. g < Len(s)
      BY <1>2, <2>3
    <3>2. A(g + 1) <= total
      <4>1. CASE g + 1 = Len(s)
        BY <1>6, <3>1, <4>1
      <4>2. CASE g + 1 # Len(s)
        <5>1. g + 1 \in 0..Len(s) - 1 /\ Len(s) \in 0..Len(s)
          BY <1>2, <3>1, <4>2
        <5>2. A(g + 1) < total
          BY <1>4, <5>1
        <5> QED BY <1>6, <2>1, <3>1, <5>2
      <4> QED BY <4>1, <4>2
    <3>3. t = q /\ q < total
      BY <1>6, <2>1, <3>1, <3>2
    <3> HIDE DEF total
    <3> QED BY <2>1, <3>3 DEF Abstract!Min
  <2> QED BY <2>2, <2>3
<1>9. ASSUME NEW n \in 1..Len(r) PROVE r[n] = Abstract!Entry(s[g + n].id, Abstract!Left(s, g + n, q))
  <2>1. g + n \in 1..Len(s) /\ g < Len(s) /\ g + n \in 0..Len(s)
    BY <1>2
  <2> DEFINE v == s[g + n].qty
             d == A(g + n) - q
  <2>2. Abstract!Left(s, g + n, q) = Abstract!Min({v, Abstract!Max({0, d})})
    BY DEF Abstract!Left
  <2> HIDE DEF A
  <2>3. v \in Nat /\ d \in Int /\ r[n].qty \in Nat /\ s[g + n].id \in Ids
    BY <1>4, <2>1, EntryAt
  <2>4. d > 0 /\ r[n].qty = IF d < v THEN d ELSE v
    <3>1. CASE n = 1
      <4>1. r[n].qty = s[g + 1].qty - x /\ v = s[g + 1].qty /\ d = A(g + 1) - q
        BY <1>3, <3>1
      <4>2. A(g) \in Nat
        BY <1>2, <1>4
      <4> HIDE DEF v, d
      <4>3. /\ t = q /\ q < A(g + 1) /\ A(g + 1) \in Nat /\ A(g + 1) = A(g) + s[g + 1].qty
            /\ A(g) + x = t
        BY <1>2, <1>6, <2>1
      <4>4. A(g + 1) = A(g) + v
        BY <4>1, <4>3
      <4>5. d > 0
        BY <4>1, <4>3
      <4>6. d = v - x
        <5>1. ASSUME NEW k \in Nat, NEW l \in Nat, NEW m \in Nat, NEW o \in Nat, k + m = q, l = k + o
              PROVE  l - q = o - m
          BY <5>1
        <5>2. A(g + 1) - q = v - x
          BY <1>2, <2>3, <4>2, <4>3, <4>4, <5>1
        <5> QED BY <4>1, <5>2
      <4> QED BY <1>2, <2>3, <4>1, <4>5, <4>6
    <3>2. CASE n # 1
      <4>1. r[n].qty = v
        BY <1>3, <3>2
      <4>2. g + 1 \in 0..(g + n) - 1 /\ (g + n) - 1 \in 0..Len(s)
        BY <1>2, <2>1, <3>2
      <4>3. A(g + n) = A((g + n) - 1) + v /\ A((g + n) - 1) \in Nat
        BY <1>4, <2>1, <4>2
      <4>4. A((g + n) - 1) > q
        <5>1. CASE g + 1 = (g + n) - 1
          BY <1>6, <2>1, <5>1
        <5>2. CASE g + 1 # (g + n) - 1
          <6>1. g + 1 \in 0..((g + n) - 1) - 1
            BY <1>2, <4>2, <5>2
          <6>2. A(g + 1) < A((g + n) - 1)
            BY <1>4, <4>2, <6>1
          <6> QED BY <1>6, <2>1, <4>3, <6>2
        <5> QED BY <5>1, <5>2
      <4> QED BY <2>3, <4>1, <4>3, <4>4
    <3> QED BY <3>1, <3>2
  <2> HIDE DEF v, d
  <2>5. Abstract!Left(s, g + n, q) = r[n].qty
    <3>1. ASSUME NEW m \in Int, m > 0 PROVE Abstract!Max({0, m}) = m
      BY <3>1 DEF Abstract!Max
    <3>2. ASSUME NEW l \in Int, NEW m \in Int PROVE Abstract!Min({l, m}) = IF m < l THEN m ELSE l
      BY DEF Abstract!Min
    <3>3. Abstract!Max({0, d}) = d
      BY <2>3, <2>4, <3>1
    <3>4. Abstract!Left(s, g + n, q) = Abstract!Min({v, d})
      BY <2>2, <3>3
    <3>5. Abstract!Min({v, d}) = IF d < v THEN d ELSE v
      BY <2>3, <3>2
    <3> QED BY <2>4, <3>4, <3>5
  <2>6. r[n].id = s[g + n].id /\ r[n] \in Entries
    BY <1>3, EntryAt
  <2> QED BY <2>5, <2>6, EntryEta
<1>10. r = [n \in 1..Len(r) |-> r[n]]
  OBVIOUS
<1>11. Abstract!AfterTrade(s, q) = [n \in 1..Len(r) |-> Abstract!Entry(s[g + n].id, Abstract!Left(s, g + n, q))]
  BY <1>2, <1>7 DEF Abstract!AfterTrade
<1>12. r = Abstract!AfterTrade(s, q)
  BY <1>9, <1>10, <1>11, Zenon
<1> QED BY <1>8, <1>12
-----------------------------------------------------------------------------
(* FillLevel's loop is one trade of BookSpec.                              *)

\* While the loop runs, the queue of its level is what the trade has left so far
\* of the queue that was there before, and the other queues are as they were.
Underway(w, b) ==
  /\ WellFormed(w.before) /\ Queued(w.before) /\ w.asked > 0
  /\ ElseSame(w.before, b, w.key)
  /\ Traded(Queues(w.before)[w.key], w.asked - w.remaining, Queues(b)[w.key])

LoopInv == sweep # Nil => Underway(sweep, book)

\* The inductive invariant of the refinement.
RefInv == IInv /\ Queued(book) /\ LoopInv

LEMMA QueuePositive ==
  ASSUME NEW b, WellFormed(b), NEW k, NEW q, Lists(b, k, q)
  PROVE  q \in Seq(Entries) /\ Once(q) /\ Positive(q) /\ Len(q) \in Nat
<1>1. \A j \in b.resting : b.order[j].qty > 0
  BY DEF WellFormed, Linked, OrderLinked, Placed
<1> QED BY <1>1 DEF Lists, Positive, OrdersAt

\* The pass that ends the loop is the trade.
LEMMA LoopEnds ==
  ASSUME RefInv, sweep # Nil, NEW left \in Nat, left <= sweep.asked, SweepEnds(left), Queued(book'),
         ElseSame(sweep.before, book', sweep.key),
         Traded(Queues(sweep.before)[sweep.key], sweep.asked - left, Queues(book')[sweep.key]),
         left = 0 \/ Len(Queues(book')[sweep.key]) = 0
  PROVE  Abstract!TradeLevel(sweep.key[1], sweep.key[2], sweep.asked)
<1> DEFINE s == Queues(sweep.before)[sweep.key]
           r == Queues(book')[sweep.key]
           total == Abstract!QtyAhead(s, Len(s))
           t == sweep.asked - left
<1>1. /\ sweep.key \in Keys /\ sweep.asked \in Nat /\ sweep.asked > 0
      /\ WellFormed(sweep.before) /\ Queued(sweep.before)
  BY DEF RefInv, IInv, TypeOK, LoopInv, Underway, Sweeps, Qtys
<1>2. /\ Visible = sweep.before /\ Visible' = book'
      /\ out' = Returned(t, IF left > 0 THEN "trade_over_level" ELSE "none")
  BY DEF Visible, SweepEnds
<1>3. Lists(sweep.before, sweep.key, s) /\ Lists(book', sweep.key, r)
  BY <1>1 DEF Queued
<1>4. s \in Seq(Entries) /\ Positive(s) /\ r \in Seq(Entries)
  <2> HIDE DEF s, r
  <2>1. s \in Seq(Entries) /\ Positive(s)
    BY <1>1, <1>3, QueuePositive
  <2>2. r \in Seq(Entries)
    BY <1>3 DEF Lists
  <2> QED BY <2>1, <2>2
<1>5. t \in Nat /\ t <= sweep.asked /\ (t = sweep.asked <=> left = 0) /\ (sweep.asked > t <=> left > 0)
  BY <1>1
<1>6. Traded(s, t, r) /\ (t = sweep.asked \/ Len(r) = 0)
  BY <1>5
<1> HIDE DEF s, r, t
<1>7. /\ r = Abstract!AfterTrade(s, sweep.asked)
      /\ Abstract!Min({sweep.asked, total}) = t
      /\ sweep.asked > total <=> sweep.asked > t
  BY <1>1, <1>4, <1>5, <1>6, TradedAll
<1>8. Becomes(sweep.before, book', sweep.key, r)
  BY <1>1, QueuesExcept DEF r
<1> HIDE DEF total
<1>9. Queues(Visible)' = [Queues(Visible) EXCEPT ![sweep.key] = Abstract!AfterTrade(s, sweep.asked)]
  BY <1>2, <1>7, <1>8 DEF Becomes
<1>10. s = Queues(Visible)[sweep.key] /\ total = Abstract!QtyAhead(s, Len(s))
  BY <1>2 DEF s, total
<1>11. Abstract!Result(Abstract!Min({sweep.asked, total}),
                       IF sweep.asked > total THEN "trade_over_level" ELSE "none")
  BY <1>2, <1>5, <1>7 DEF Returned, Abstract!Result
<1>12. <<sweep.key[1], sweep.key[2]>> = sweep.key
  BY <1>1 DEF Keys
<1> QED BY <1>1, <1>9, <1>10, <1>11, <1>12 DEF Abstract!TradeLevel

\* OnTrade with id 0 refuses, or finds no level, or enters the loop.
LEMMA TradeLevelStep ==
  ASSUME RefInv, NEW s \in Sides, NEW p \in Prices, NEW q \in Qtys, OnTradeLevel(s, p, q)
  PROVE  /\ Queued(book') /\ LoopInv'
         /\ Abstract!TradeLevel(s, p, q) \/ UNCHANGED Abstract!vars
<1> DEFINE k == <<s, p>>
<1>1. /\ WellFormed(book) /\ Queued(book) /\ sweep = Nil /\ q \in Nat /\ book' = book
      /\ Visible = book /\ k \in Keys
  BY DEF RefInv, IInv, OnTradeLevel, Qtys, Visible, Keys
<1>2. Queued(book')
  BY <1>1
<1>3. CASE q = 0
  <2>1. UNCHANGED sweep /\ out' = Returned(0, "qty_invalid") /\ Visible' = book'
    BY <1>1, <1>3 DEF OnTradeLevel, Visible
  <2>2. LoopInv'
    BY <1>1, <2>1 DEF LoopInv
  <2> QED BY <1>1, <1>2, <1>3, <2>1, <2>2
          DEF Returned, Abstract!TradeLevel, Abstract!Refuse, Abstract!Result
<1>4. CASE q # 0 /\ k \notin book.open
  <2> DEFINE r == Queues(book)[k]
             total == Abstract!QtyAhead(r, Len(r))
  <2>1. UNCHANGED sweep /\ out' = Returned(0, "trade_over_level") /\ Visible' = book'
    BY <1>1, <1>4 DEF OnTradeLevel, Visible
  <2>2. LoopInv'
    BY <1>1, <2>1 DEF LoopInv
  <2>3. Lists(book, k, r)
    BY <1>1 DEF Queued
  <2> HIDE DEF r
  <2>4. r \in Seq(Entries) /\ Positive(r) /\ Len(r) \in Nat
    BY <1>1, <2>3, QueuePositive
  <2>5. Len(r) = 0
    <3>1. OrdersAt(book, k) = {}
      BY <1>1, <1>4 DEF WellFormed, Linked, OrderLinked, Placed, OrdersAt
    <3>2. ASSUME Len(r) > 0 PROVE FALSE
      <4>1. 1 \in 1..Len(r)
        BY <2>4, <3>2
      <4> QED BY <2>3, <3>1, <4>1 DEF Lists
    <3> QED BY <2>4, <3>2
  <2>6. Traded(r, 0, r)
    BY <2>4, TradedNothing
  <2>7. /\ r = Abstract!AfterTrade(r, q) /\ Abstract!Min({q, total}) = 0
        /\ q > total <=> q > 0
    <3>1. 0 \in Nat /\ 0 <= q /\ (0 = q \/ Len(r) = 0)
      BY <1>1, <2>5
    <3> QED BY <1>1, <2>4, <2>6, <3>1, TradedAll
  <2> HIDE DEF total, k
  <2>8. Becomes(book, book, k, r)
    <3>1. ElseSame(book, book, k)
      BY DEF ElseSame
    <3> QED BY <1>1, <3>1, QueuesExcept DEF r
  <2>9. Queues(Visible)' = [Queues(Visible) EXCEPT ![k] = Abstract!AfterTrade(r, q)]
    BY <1>1, <2>1, <2>7, <2>8 DEF Becomes
  <2>10. r = Queues(Visible)[k] /\ total = Abstract!QtyAhead(r, Len(r)) /\ q > 0
    BY <1>1, <1>4 DEF r, total
  <2>11. Abstract!Result(Abstract!Min({q, total}), IF q > total THEN "trade_over_level" ELSE "none")
    BY <2>1, <2>7, <2>10 DEF Returned, Abstract!Result
  <2>12. Abstract!TradeLevel(s, p, q)
    BY <2>9, <2>10, <2>11 DEF Abstract!TradeLevel, k
  <2> QED BY <1>2, <2>2, <2>12
<1>5. CASE q # 0 /\ k \in book.open
  <2> DEFINE w == [key |-> k, asked |-> q, remaining |-> q, before |-> book]
  <2>1. sweep' = w /\ UNCHANGED out
    BY <1>5 DEF OnTradeLevel
  <2>2. w.key = k /\ w.asked = q /\ w.remaining = q /\ w.before = book
    OBVIOUS
  <2>3. Visible' = book
    BY <1>1, <2>1 DEF Visible
  <2>4. Underway(w, book)
    <3> HIDE DEF w
    <3>1. ElseSame(book, book, k)
      BY DEF ElseSame
    <3> DEFINE r == Queues(book)[k]
    <3>2. Lists(book, k, r)
      BY <1>1 DEF Queued
    <3>3. Traded(r, 0, r)
      BY <3>2, TradedNothing DEF Lists
    <3>4. q - q = 0 /\ q > 0
      BY <1>1, <1>5
    <3> QED BY <1>1, <2>2, <3>1, <3>3, <3>4 DEF Underway
  <2> HIDE DEF w
  <2>5. LoopInv'
    BY <1>1, <2>1, <2>4 DEF LoopInv
  <2>6. UNCHANGED Abstract!vars
    BY <1>1, <2>1, <2>3 DEF Abstract!vars
  <2> QED BY <1>2, <2>5, <2>6
<1> QED BY <1>3, <1>4, <1>5

\* A pass of the loop goes on with the trade, or ends it.
LEMMA PassStep ==
  ASSUME RefInv, FillLevelPass
  PROVE  /\ Queued(book') /\ LoopInv'
         /\ \/ \E s \in Sides, p \in Prices, q \in Qtys : Abstract!TradeLevel(s, p, q)
            \/ UNCHANGED Abstract!vars
<1> DEFINE k == sweep.key
           s == Queues(sweep.before)[k]
           r == Queues(book)[k]
           head == book.level[k].head
           left == sweep.remaining - FillQty(book, head, sweep.remaining)
           Traded1 == \E u \in Sides, p \in Prices, q \in Qtys : Abstract!TradeLevel(u, p, q)
<1>1. /\ sweep # Nil /\ sweep \in Sweeps /\ k \in Keys /\ sweep.asked \in Qtys
      /\ sweep.asked \in Nat /\ sweep.remaining \in Nat /\ sweep.remaining <= sweep.asked
      /\ WellFormed(book) /\ Queued(book) /\ Underway(sweep, book)
  BY DEF FillLevelPass, RefInv, IInv, TypeOK, LoopInv, Sweeps, Qtys
<1>2. /\ WellFormed(sweep.before) /\ Queued(sweep.before) /\ sweep.asked > 0
      /\ ElseSame(sweep.before, book, k)
      /\ Traded(s, sweep.asked - sweep.remaining, r)
  BY <1>1 DEF Underway
<1>3. ASSUME Abstract!TradeLevel(sweep.key[1], sweep.key[2], sweep.asked) PROVE Traded1
  <2>1. k[1] \in Sides /\ k[2] \in Prices
    BY <1>1 DEF Keys
  <2> QED BY <1>1, <1>3, <2>1
<1>4. CASE ~(sweep.remaining > 0 /\ head # Nil)
  <2>1. SweepEnds(sweep.remaining) /\ UNCHANGED book
    BY <1>4 DEF FillLevelPass
  <2>2. Queued(book') /\ LoopInv'
    BY <1>1, <2>1 DEF LoopInv, SweepEnds
  <2>3. sweep.remaining = 0
    <3>1. ASSUME sweep.remaining > 0 PROVE FALSE
      <4>1. k \in book.open
        BY <1>1, <3>1 DEF RefInv, IInv, SweepLevelLive
      <4>2. head \in OrdersAt(book, k) /\ book.resting \subseteq Ids
        BY <1>1, <4>1 DEF WellFormed, Linked, LevelLinked, Books
      <4> HIDE DEF head
      <4>3. head # Nil
        BY <4>2 DEF OrdersAt
      <4> QED BY <1>4, <3>1, <4>3
    <3> QED BY <1>1, <3>1
  <2>4. Abstract!TradeLevel(sweep.key[1], sweep.key[2], sweep.asked)
    BY <1>1, <1>2, <2>1, <2>2, <2>3, LoopEnds
  <2> QED BY <1>3, <2>2, <2>4
<1>5. CASE sweep.remaining > 0 /\ head # Nil
  <2> DEFINE y == FillQty(book, head, sweep.remaining)
             t == sweep.asked - sweep.remaining
             c == Queues(book')[k]
  <2>1. /\ book' = Fill(book, head, sweep.remaining)
        /\ IF IsLast(book, head) THEN SweepEnds(left)
           ELSE sweep' = [sweep EXCEPT !.remaining = left] /\ UNCHANGED out
    BY <1>5 DEF FillLevelPass
  <2>2. Lists(book, k, r) /\ Lists(sweep.before, k, s)
    BY <1>1, <1>2 DEF Queued
  <2>3. /\ s \in Seq(Entries) /\ Positive(s)
        /\ r \in Seq(Entries) /\ Once(r) /\ Positive(r) /\ Len(r) \in Nat
    <3> HIDE DEF s, r
    <3>1. s \in Seq(Entries) /\ Positive(s)
      BY <1>2, <2>2, QueuePositive
    <3> QED BY <1>1, <2>2, <3>1, QueuePositive
  <2>4. head = r[1].id /\ Len(r) > 0 /\ 1 \in 1..Len(r)
    <3> HIDE DEF r
    <3>1. head = Path(r, 1)
      BY <1>1, <2>2, HeadIs
    <3> HIDE DEF head
    <3> QED BY <1>5, <2>3, <3>1 DEF Path
  <2> HIDE DEF s, r, head, k
  <2>5. /\ head \in book.resting /\ book.order[head].level = k /\ r[1].qty = book.order[head].qty
        /\ IsLast(book, head) <=> Len(r) = 1
    <3>1. /\ head \in OrdersAt(book, k) /\ r[1].qty = book.order[head].qty
          /\ book.order[head].next = IF 1 = Len(r) THEN Nil ELSE r[1 + 1].id
      BY <2>2, <2>4 DEF Lists
    <3>2. Len(r) # 1 => r[2].id # Nil
      <4>1. Len(r) # 1 => 2 \in 1..Len(r)
        <5>1. ASSUME NEW n \in Nat, n > 0, n # 1 PROVE 2 \in 1..n
          BY <5>1
        <5> QED BY <2>3, <2>4, <5>1
      <4> QED BY <2>3, <4>1, EntryAt
    <3> QED BY <3>1, <3>2 DEF OrdersAt, IsLast
  <2>6. r[1].qty \in Nat /\ r[1].qty > 0
    BY <2>3, <2>4, EntryAt DEF Positive
  <2>7. /\ y \in Nat /\ y > 0 /\ y <= r[1].qty /\ y <= sweep.remaining
        /\ y = sweep.remaining \/ y = r[1].qty
    BY <1>1, <1>5, <2>5, <2>6 DEF FillQty, Lesser
  <2>8. Queued(book') /\ Requantified(book, book', head, r[1].qty - y)
    BY <1>1, <1>5, <2>1, <2>5, FillQueues DEF Requantified
  <2> HIDE DEF y
  <2>9. Becomes(book, book', k, Abstract!WithQty(r[1].id, r[1].qty - y, r))
    <3>1. Becomes(book, book', book.order[head].level,
                  Abstract!WithQty(head, r[1].qty - y, Queues(book)[book.order[head].level]))
      BY <1>1, <2>5, <2>8, InPlace
    <3> QED BY <2>4, <2>5, <3>1 DEF r
  <2>10. ElseSame(sweep.before, book', k) /\ c = Abstract!WithQty(r[1].id, r[1].qty - y, r)
    <3> DEFINE f == Queues(book)
               g == Queues(book')
               v == Abstract!WithQty(r[1].id, r[1].qty - y, r)
    <3>1. g = [f EXCEPT ![k] = v] /\ f = [l \in Keys |-> f[l]]
      BY <2>9 DEF Becomes, Queues
    <3> HIDE DEF f, g, v
    <3>2. k \in Keys
      BY <1>1 DEF k
    <3>3. g[k] = v /\ \A l \in Keys : l # k => g[l] = f[l]
      BY <3>1, <3>2
    <3>4. \A l \in Keys : l # k => f[l] = Queues(sweep.before)[l]
      BY <1>2 DEF ElseSame, f
    <3>5. \A l \in Keys : l # k => Queues(book')[l] = Queues(sweep.before)[l]
      BY <3>3, <3>4 DEF g
    <3> QED BY <3>3, <3>5 DEF ElseSame, g, v
  <2>11. t \in Nat /\ left \in Nat /\ left <= sweep.asked /\ t + y = sweep.asked - left
    BY <1>1, <2>7 DEF y
  <2> HIDE DEF t, left, c
  <2>12. Traded(s, t + y, c)
    BY <1>2, <2>3, <2>4, <2>7, <2>10, <2>11, TradedMore DEF t
  <2>13. CASE IsLast(book, head)
    <3>1. SweepEnds(left)
      BY <2>1, <2>13
    <3>2. sweep' = Nil
      BY <3>1 DEF SweepEnds
    <3>3. left = 0 \/ Len(c) = 0
      <4>1. CASE y = sweep.remaining
        BY <1>1, <4>1 DEF left, y
      <4>2. CASE y = r[1].qty
        <5>1. c = Abstract!Without(r[1].id, r)
          BY <2>6, <2>10, <4>2 DEF Abstract!WithQty
        <5>2. Len(Abstract!Without(r[1].id, r)) = Len(r) - 1
          BY <2>3, <2>4, WithoutIs
        <5> QED BY <2>5, <2>13, <5>1, <5>2
      <4> QED BY <2>7, <4>1, <4>2
    <3>4. Abstract!TradeLevel(sweep.key[1], sweep.key[2], sweep.asked)
      <4>1. ElseSame(sweep.before, book', sweep.key)
        BY <2>10 DEF k
      <4>2. Traded(Queues(sweep.before)[sweep.key], sweep.asked - left, Queues(book')[sweep.key])
        BY <2>11, <2>12 DEF s, c, k
      <4>3. left = 0 \/ Len(Queues(book')[sweep.key]) = 0
        BY <3>3 DEF c, k
      <4> QED BY <1>1, <2>8, <2>11, <3>1, <4>1, <4>2, <4>3, LoopEnds
    <3>5. LoopInv'
      BY <3>2 DEF LoopInv
    <3> QED BY <1>3, <2>8, <3>4, <3>5
  <2>14. CASE ~IsLast(book, head)
    <3>1. sweep' = [sweep EXCEPT !.remaining = left] /\ out' = out
      BY <2>1, <2>14
    <3>2. left \in Qtys
      BY <1>1, <2>11 DEF Qtys
    <3>3. /\ sweep' \in Sweeps /\ sweep'.key = sweep.key /\ sweep'.asked = sweep.asked
          /\ sweep'.remaining = left /\ sweep'.before = sweep.before
      BY <1>1, <3>1, <3>2 DEF Sweeps
    <3>4. sweep' # Nil
      BY <3>3, SweepAssumption
    <3>5. Underway(sweep', book')
      <4>1. Traded(Queues(sweep.before)[sweep.key], sweep.asked - left, Queues(book')[sweep.key])
        BY <2>11, <2>12 DEF s, c, k
      <4>2. ElseSame(sweep.before, book', sweep.key)
        BY <2>10 DEF k
      <4> QED BY <1>2, <3>3, <4>1, <4>2 DEF Underway
    <3>6. LoopInv'
      BY <3>5 DEF LoopInv
    <3>7. Visible' = Visible
      BY <1>1, <3>3, <3>4 DEF Visible
    <3>8. UNCHANGED Abstract!vars
      BY <3>1, <3>7 DEF Abstract!vars
    <3> QED BY <2>8, <3>6, <3>8
  <2> QED BY <2>13, <2>14
<1> QED BY <1>4, <1>5

LEMMA InitRefInv == Init => RefInv /\ Abstract!Init
<1> SUFFICES ASSUME Init PROVE RefInv /\ Abstract!Init
  OBVIOUS
<1>1. IInv
  BY InitIInv
<1>2. book = EmptyBook /\ sweep = Nil /\ out = Returned(0, "none") /\ Visible = book
  BY DEF Init, Visible
<1>3. Queued(book) /\ \A k \in Keys : Queues(book)[k] = <<>>
  BY <1>2, EmptyQueues
<1>4. Queues(book) = [k \in Keys |-> <<>>]
  <2> DEFINE f == Queues(book)
  <2>1. f = [k \in Keys |-> f[k]]
    BY DEF Queues
  <2> HIDE DEF f
  <2>2. f = [k \in Keys |-> <<>>]
    BY <1>3, <2>1 DEF f
  <2> QED BY <2>2 DEF f
<1> QED BY <1>1, <1>2, <1>3, <1>4 DEF RefInv, LoopInv, Returned, Abstract!Init, Abstract!Keys, Keys

\* Every handler is a step of BookSpec, and every pass of FillLevel one or none.
LEMMA NextRefInv == RefInv /\ [Next]_vars => RefInv' /\ [Abstract!Next]_Abstract!vars
<1> SUFFICES ASSUME RefInv, [Next]_vars PROVE RefInv' /\ [Abstract!Next]_Abstract!vars
  OBVIOUS
<1>1. IInv /\ Queued(book) /\ LoopInv
  BY DEF RefInv
<1>2. IInv'
  BY <1>1, NextIInv
<1>3. ASSUME Queued(book'), UNCHANGED sweep, sweep = Nil PROVE RefInv'
  BY <1>2, <1>3 DEF RefInv, LoopInv
<1>4. Abstract!Qtys = Qtys
  BY DEF Abstract!Qtys, Qtys
<1>5. ASSUME NEW i \in Ids, NEW s \in Sides, NEW p \in Prices, NEW q \in Qtys, OnOrder(i, s, p, q)
      PROVE  RefInv' /\ Abstract!Next
  <2>1. sweep = Nil /\ UNCHANGED sweep
    BY <1>5 DEF OnOrder
  <2>2. Queued(book') /\ Abstract!Add(i, s, p, q)
    BY <1>1, <1>5, AddStep
  <2> QED BY <1>3, <1>4, <2>1, <2>2 DEF Abstract!Next
<1>6. ASSUME NEW i \in Ids, NEW q \in Qtys, OnCancel(i, q)
      PROVE  RefInv' /\ Abstract!Next
  <2>1. sweep = Nil /\ UNCHANGED sweep
    BY <1>6 DEF OnCancel
  <2>2. Queued(book') /\ Abstract!Cancel(i, q)
    BY <1>1, <1>6, CancelStep
  <2> QED BY <1>3, <1>4, <2>1, <2>2 DEF Abstract!Next
<1>7. ASSUME NEW i \in Ids, NEW p \in Prices, NEW q \in Qtys, OnModify(i, p, q)
      PROVE  RefInv' /\ Abstract!Next
  <2>1. sweep = Nil /\ UNCHANGED sweep
    BY <1>7 DEF OnModify
  <2>2. Queued(book') /\ Abstract!Modify(i, p, q)
    BY <1>1, <1>7, ModifyStep
  <2> QED BY <1>3, <1>4, <2>1, <2>2 DEF Abstract!Next
<1>8. ASSUME NEW i \in Ids, NEW q \in Qtys, OnTradeOrder(i, q)
      PROVE  RefInv' /\ Abstract!Next
  <2>1. sweep = Nil /\ UNCHANGED sweep /\ i \in Ids \ {0}
    BY <1>8 DEF OnTradeOrder
  <2>2. Queued(book') /\ Abstract!TradeOrder(i, q)
    BY <1>1, <1>8, TradeOrderStep
  <2> QED BY <1>3, <1>4, <2>1, <2>2 DEF Abstract!Next
<1>9. ASSUME NEW s \in Sides, NEW p \in Prices, NEW q \in Qtys, OnTradeLevel(s, p, q)
      PROVE  RefInv' /\ [Abstract!Next]_Abstract!vars
  <2>1. /\ Queued(book') /\ LoopInv'
        /\ Abstract!TradeLevel(s, p, q) \/ UNCHANGED Abstract!vars
    BY <1>9, TradeLevelStep
  <2>2. RefInv'
    BY <1>2, <2>1 DEF RefInv
  <2> QED BY <1>4, <2>1, <2>2 DEF Abstract!Next
<1>10. ASSUME FillLevelPass
       PROVE  RefInv' /\ [Abstract!Next]_Abstract!vars
  <2>1. /\ Queued(book') /\ LoopInv'
        /\ \/ \E s \in Sides, p \in Prices, q \in Qtys : Abstract!TradeLevel(s, p, q)
           \/ UNCHANGED Abstract!vars
    BY <1>10, PassStep
  <2>2. RefInv'
    BY <1>2, <2>1 DEF RefInv
  <2> QED BY <1>4, <2>1, <2>2 DEF Abstract!Next
<1>11. ASSUME OnClear
       PROVE  RefInv' /\ Abstract!Next
  <2>1. sweep = Nil /\ UNCHANGED sweep
    BY <1>11 DEF OnClear
  <2>2. Queued(book') /\ Abstract!Clear
    BY <1>1, <1>11, ClearStep
  <2> QED BY <1>3, <2>1, <2>2 DEF Abstract!Next
<1>12. CASE UNCHANGED vars
  <2>1. book' = book /\ sweep' = sweep /\ out' = out
    BY <1>12 DEF vars
  <2>2. Visible' = Visible
    BY <2>1 DEF Visible
  <2>3. UNCHANGED Abstract!vars
    BY <2>1, <2>2 DEF Abstract!vars
  <2>4. Queued(book') /\ LoopInv'
    BY <1>1, <2>1 DEF LoopInv
  <2> QED BY <1>2, <2>3, <2>4 DEF RefInv
<1> QED BY <1>5, <1>6, <1>7, <1>8, <1>9, <1>10, <1>11, <1>12 DEF Next

\* The linked book, with its list surgery and its loop over a level, is a
\* price-time-priority book: for any ids, prices and quantities every event adds,
\* cancels, modifies and trades as BookSpec says, and returns and counts the same.
THEOREM Implements == Spec => ImplementsBookSpec
<1>1. Init => RefInv /\ Abstract!Init
  BY InitRefInv
<1>2. RefInv /\ [Next]_vars => RefInv' /\ [Abstract!Next]_Abstract!vars
  BY NextRefInv
<1> QED BY <1>1, <1>2, PTL DEF Spec, ImplementsBookSpec, Abstract!Spec
=============================================================================
