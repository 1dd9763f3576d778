-------------------------- MODULE OrderPoolProofs --------------------------
(***************************************************************************)
(* Proofs about OrderPool for any number of orders and slots. The          *)
(* inductive invariant says that there is a list of the slots that are     *)
(* carved and not in use, each once, that `free' and `next' run through    *)
(* from its end to its start. So what Alloc takes from it is in use        *)
(* nowhere, and when it finds nothing every slot is in use.                *)
(*                                                                         *)
(* FreeListHolds: the walk from `free' along `next' is that list read from *)
(* its end.                                                                *)
(***************************************************************************)
EXTENDS OrderPool, FiniteSetTheorems, WellFoundedInduction, TLAPS

\* The slots that are carved and hold no order.
Idle == (1..carved) \ Live

\* list has the idle slots, each once, and the free list leads through it.
FreeList(k, list) ==
  /\ \A s \in Idle : \E n \in 1..k : list[n] = s
  /\ \A m, n \in 1..k : list[m] = list[n] => m = n
  /\ free = IF k = 0 THEN Nil ELSE list[k]
  /\ \A n \in 1..k : next[list[n]] = IF n = 1 THEN Nil ELSE list[n - 1]

FreeListed == \E k \in Nat : \E list \in [1..k -> Idle] : FreeList(k, list)

IInv == TypeOK /\ NoSharedSlot /\ FreeListed

-----------------------------------------------------------------------------

LEMMA InitInductive == Init => IInv
<1> SUFFICES ASSUME Init PROVE IInv
  OBVIOUS
<1>1. DOMAIN owned = {} /\ Live = {} /\ carved = 0 /\ Idle = {}
  BY DEF Init, Live, Idle
<1>2. TypeOK
  BY <1>1, PoolAssumption DEF Init, TypeOK, Slots
<1>3. NoSharedSlot /\ FreeListed
  <2>1. FreeList(0, <<>>) /\ <<>> \in [1..0 -> Idle]
    BY <1>1 DEF Init, FreeList
  <2>2. QED
    BY <2>1, <1>1 DEF NoSharedSlot, FreeListed
<1>4. QED
  BY <1>2, <1>3 DEF IInv

\* If the list is empty then no slot is idle, and if not, its end is `free'.
LEMMA FreeEnd ==
  ASSUME TypeOK, NEW k \in Nat, NEW list \in [1..k -> Idle], FreeList(k, list)
  PROVE  /\ free = Nil => k = 0 /\ Idle = {}
         /\ free # Nil => k \in 1..k /\ free = list[k] /\ free \in Idle
<1>1. Nil \notin Idle
  BY PoolAssumption DEF Idle, TypeOK
<1>2. k # 0 => k \in 1..k /\ list[k] \in Idle
  OBVIOUS
<1>3. k = 0 => Idle = {}
  BY DEF FreeList
<1>4. QED
  BY <1>1, <1>2, <1>3 DEF FreeList

\* The slot of a new order is one that no order has, and the idle ones that are left
\* point where they did.
LEMMA OnOrderInductive == ASSUME IInv, NEW i \in Ids, OnOrder(i) PROVE IInv'
<1> DEFINE a == AllocSlot
<1> USE DEF IInv
<1>a. PICK k \in Nat : \E list \in [1..k -> Idle] : FreeList(k, list)
  BY DEF FreeListed
<1>0. PICK list \in [1..k -> Idle] : FreeList(k, list)
  BY <1>a
<1>1. Nil \notin 1..MaxSlots /\ MaxSlots \in Nat /\ carved \in Nat /\ carved <= MaxSlots
  BY PoolAssumption DEF TypeOK
<1>2. /\ carved' \in 0..MaxSlots /\ room' \in 0..MaxSlots - carved' /\ chunk' \in 1..2 * MaxSlots
      /\ carved <= carved' /\ a \in 1..carved' /\ a \notin Live
  <2>1. CASE Reuse
    BY <2>1, <1>0, <1>1, FreeEnd DEF OnOrder, Alloc, AllocSlot, Reuse, TypeOK, Idle
  <2>2. CASE ~Reuse /\ room > 0
    BY <2>2, <1>1 DEF OnOrder, Alloc, AllocSlot, TypeOK
  <2>3. CASE ~Reuse /\ room = 0
    BY <2>3, <1>1 DEF OnOrder, Alloc, AllocSlot, TypeOK
  <2>4. QED
    BY <2>1, <2>2, <2>3 DEF TypeOK
<1>3. /\ i \notin DOMAIN owned
      /\ owned' = [j \in DOMAIN owned \cup {i} |-> IF j = i THEN a ELSE owned[j]]
  BY DEF OnOrder
<1>4. Live' = Live \cup {a}
  <2>1. DOMAIN owned' = DOMAIN owned \cup {i}
    BY <1>3
  <2>2. \A j \in DOMAIN owned : owned'[j] = owned[j]
    BY <1>3
  <2>3. owned'[i] = a
    BY <1>3
  <2>4. QED
    BY <2>1, <2>2, <2>3 DEF Live
<1>5. PICK tail \in Live \cup {Nil} :
        next' = [s \in Slots |-> CASE s = a -> Nil [] s = tail -> a [] OTHER -> next[s]]
  BY DEF OnOrder
<1>6. Idle' = Idle \ {a}
  <2>1. CASE Reuse
    BY <2>1, <1>4 DEF OnOrder, Alloc, Idle
  <2>2. CASE ~Reuse
    <3>1. carved' = carved + 1 /\ a = carved + 1
      BY <2>2 DEF OnOrder, Alloc, AllocSlot
    <3>2. QED
      BY <3>1, <1>1, <1>4 DEF Idle
  <2>3. QED
    BY <2>1, <2>2
<1>7. \A s \in Idle' : next'[s] = next[s]
  <2>1. Idle' \subseteq Slots
    BY <1>1, <1>2 DEF Idle, Slots
  <2>2. \A s \in Idle' : s # a /\ s # tail
    BY <1>1, <1>2, <1>4, <1>6, <1>5 DEF Idle
  <2>3. QED
    BY <2>1, <2>2, <1>5
<1>8. TypeOK'
  <2>1. DOMAIN owned' \subseteq Ids /\ Live' \subseteq 1..carved'
    BY <1>1, <1>2, <1>3, <1>4 DEF TypeOK
  <2>2. next' \in [Slots -> Slots \cup {Nil}]
    BY <1>1, <1>2, <1>5 DEF TypeOK, Slots
  <2>3. free' \in 1..carved' \cup {Nil}
    <3>1. CASE Reuse
      <4>1. free = list[k] /\ k \in 1..k /\ free' = next[free]
        BY <3>1, <1>0, FreeEnd DEF OnOrder, Alloc, Reuse
      <4>2. next[list[k]] = (IF k = 1 THEN Nil ELSE list[k - 1]) /\ (k # 1 => k - 1 \in 1..k)
        BY <4>1, <1>0 DEF FreeList
      <4>3. free' \in Idle \cup {Nil}
        BY <4>1, <4>2
      <4>4. QED
        BY <4>3, <1>1, <1>2 DEF Idle
    <3>2. CASE ~Reuse
      BY <3>2, <1>1, <1>2 DEF OnOrder, Alloc, Reuse
    <3>3. QED
      BY <3>1, <3>2
  <2>4. QED
    BY <2>1, <2>2, <2>3, <1>2 DEF TypeOK
<1>9. NoSharedSlot'
  <2>1. \A j \in DOMAIN owned : owned[j] # a
    BY <1>2 DEF Live
  <2>2. QED
    BY <2>1, <1>3 DEF NoSharedSlot
<1>10. FreeListed'
  <2>1. CASE Reuse
    <3> DEFINE rest == [n \in 1..k - 1 |-> list[n]]
    <3>1. a = list[k] /\ k \in 1..k /\ k - 1 \in Nat /\ free' = next[list[k]]
      BY <2>1, <1>0, FreeEnd DEF OnOrder, Alloc, AllocSlot, Reuse
    <3>2. \A n \in 1..k - 1 : n \in 1..k /\ rest[n] = list[n] /\ list[n] \in Idle'
      BY <3>1, <1>0, <1>6 DEF FreeList
    <3>3. rest \in [1..k - 1 -> Idle']
      BY <3>2
    <3>4. \A s \in Idle' : \E n \in 1..k - 1 : rest[n] = s
      <4>1. SUFFICES ASSUME NEW s \in Idle' PROVE \E n \in 1..k - 1 : rest[n] = s
        OBVIOUS
      <4>2. PICK n \in 1..k : list[n] = s
        BY <1>0, <1>6 DEF FreeList
      <4>3. n \in 1..k - 1
        BY <4>2, <3>1, <1>6
      <4>4. QED
        BY <4>2, <4>3, <3>2
    <3>5. \A m, n \in 1..k - 1 : rest[m] = rest[n] => m = n
      BY <3>2, <1>0 DEF FreeList
    <3>6. free' = IF k - 1 = 0 THEN Nil ELSE rest[k - 1]
      BY <3>1, <3>2, <1>0 DEF FreeList
    <3>7. \A n \in 1..k - 1 : next'[rest[n]] = IF n = 1 THEN Nil ELSE rest[n - 1]
      <4>1. SUFFICES ASSUME NEW n \in 1..k - 1
                     PROVE next'[rest[n]] = IF n = 1 THEN Nil ELSE rest[n - 1]
        OBVIOUS
      <4>2. next'[rest[n]] = next[list[n]]
        BY <3>2, <1>7
      <4>3. next[list[n]] = IF n = 1 THEN Nil ELSE list[n - 1]
        BY <3>2, <1>0 DEF FreeList
      <4>4. n # 1 => n - 1 \in 1..k - 1
        BY <3>1
      <4>5. QED
        BY <4>2, <4>3, <4>4, <3>2
    <3>8. QED
      BY <3>1, <3>3, <3>4, <3>5, <3>6, <3>7 DEF FreeListed, FreeList
  <2>2. CASE ~Reuse
    <3>1. free = Nil /\ free' = free /\ k = 0 /\ Idle = {}
      BY <2>2, <1>0, FreeEnd DEF OnOrder, Alloc, Reuse
    <3>2. Idle' = {}
      BY <3>1, <1>6
    <3>3. FreeList(0, list)' /\ list \in [1..0 -> Idle']
      BY <3>1, <3>2, <1>0 DEF FreeList
    <3>4. QED
      BY <3>3 DEF FreeListed
  <2>3. QED
    BY <2>1, <2>2
<1>11. QED
  BY <1>8, <1>9, <1>10

\* The freed slot becomes the head of the list; nothing idle pointed at it.
LEMMA RemoveOrderInductive == ASSUME IInv, NEW i \in Ids, RemoveOrder(i) PROVE IInv'
<1> DEFINE s == owned[i]
<1> USE DEF IInv
<1>a. PICK k \in Nat : \E list \in [1..k -> Idle] : FreeList(k, list)
  BY DEF FreeListed
<1>0. PICK list \in [1..k -> Idle] : FreeList(k, list)
  BY <1>a
<1>1. Nil \notin 1..MaxSlots /\ MaxSlots \in Nat /\ carved \in Nat /\ carved <= MaxSlots
  BY PoolAssumption DEF TypeOK
<1>2. /\ i \in DOMAIN owned /\ owned' = [j \in DOMAIN owned \ {i} |-> owned[j]]
      /\ free' = s /\ UNCHANGED <<carved, room, chunk>>
  BY DEF RemoveOrder
<1>3. s \in Live /\ s \in 1..carved /\ s # Nil /\ s \notin Idle
  BY <1>1, <1>2 DEF Live, TypeOK, Idle
<1>4. Live' = Live \ {s}
  <2>1. DOMAIN owned' = DOMAIN owned \ {i}
    BY <1>2
  <2>2. \A j \in DOMAIN owned \ {i} : owned'[j] = owned[j] /\ owned[j] # s
    BY <1>2 DEF NoSharedSlot
  <2>3. QED
    BY <2>1, <2>2 DEF Live
<1>5. PICK prev \in (Live \ {s}) \cup {Nil} :
        next' = [r \in Slots |-> IF r = prev THEN next[s] ELSE Freed(s)[r]]
  BY DEF RemoveOrder
<1>6. Idle' = Idle \cup {s}
  BY <1>2, <1>3, <1>4 DEF Idle
<1>7. /\ \A r \in Idle : next'[r] = next[r]
      /\ next'[s] = free
  <2>1. Idle \subseteq Slots /\ s \in Slots /\ DOMAIN next = Slots
    BY <1>1, <1>3 DEF Idle, Slots, TypeOK
  <2>2. \A r \in Idle : r # prev /\ r # s
    BY <1>1, <1>3, <1>5 DEF Idle
  <2>3. s # prev
    BY <1>3, <1>5
  <2>4. QED
    BY <2>1, <2>2, <2>3, <1>5 DEF Freed
<1>8. TypeOK'
  <2>1. next' \in [Slots -> Slots \cup {Nil}]
    <3>1. s \in Slots /\ next \in [Slots -> Slots \cup {Nil}] /\ free \in Slots \cup {Nil}
      BY <1>1, <1>3 DEF TypeOK, Slots
    <3>2. QED
      BY <3>1, <1>5 DEF Freed
  <2>2. QED
    BY <2>1, <1>2, <1>3, <1>4 DEF TypeOK
<1>9. NoSharedSlot'
  BY <1>2 DEF NoSharedSlot
<1>10. FreeListed'
  <2> DEFINE more == [n \in 1..k + 1 |-> IF n = k + 1 THEN s ELSE list[n]]
  <2>1. k + 1 \in Nat /\ 1..k + 1 = 1..k \cup {k + 1} /\ k + 1 \notin 1..k
    BY <1>0
  <2>2. /\ \A n \in 1..k : more[n] = list[n] /\ list[n] \in Idle /\ list[n] # s
        /\ more[k + 1] = s
    BY <2>1, <1>0, <1>3
  <2>3. more \in [1..k + 1 -> Idle']
    BY <2>1, <2>2, <1>6
  <2>4. \A r \in Idle' : \E n \in 1..k + 1 : more[n] = r
    <3>1. SUFFICES ASSUME NEW r \in Idle' PROVE \E n \in 1..k + 1 : more[n] = r
      OBVIOUS
    <3>2. CASE r = s
      BY <3>2, <2>1, <2>2
    <3>3. CASE r \in Idle
      <4>1. PICK n \in 1..k : list[n] = r
        BY <3>3, <1>0 DEF FreeList
      <4>2. QED
        BY <4>1, <2>1, <2>2
    <3>4. QED
      BY <3>2, <3>3, <1>6
  <2>5. \A m, n \in 1..k + 1 : more[m] = more[n] => m = n
    <3>1. \A m, n \in 1..k : list[m] = list[n] => m = n
      BY <1>0 DEF FreeList
    <3>2. QED
      BY <3>1, <2>1, <2>2
  <2>6. free' = IF k + 1 = 0 THEN Nil ELSE more[k + 1]
    BY <1>2, <2>1, <2>2
  <2>7. \A n \in 1..k + 1 : next'[more[n]] = IF n = 1 THEN Nil ELSE more[n - 1]
    <3>1. SUFFICES ASSUME NEW n \in 1..k + 1
                   PROVE next'[more[n]] = IF n = 1 THEN Nil ELSE more[n - 1]
      OBVIOUS
    <3>2. CASE n = k + 1
      <4>1. next'[more[n]] = IF k = 0 THEN Nil ELSE list[k]
        BY <3>2, <2>2, <1>7, <1>0 DEF FreeList
      <4>2. k # 0 => k \in 1..k /\ n - 1 = k /\ n # 1
        BY <3>2
      <4>3. k = 0 => n = 1
        BY <3>2
      <4>4. QED
        BY <4>1, <4>2, <4>3, <2>2
    <3>3. CASE n \in 1..k
      <4>1. next'[more[n]] = next[list[n]]
        BY <3>3, <2>2, <1>7
      <4>2. next[list[n]] = IF n = 1 THEN Nil ELSE list[n - 1]
        BY <3>3, <1>0 DEF FreeList
      <4>3. n # 1 => n - 1 \in 1..k
        BY <3>3
      <4>4. QED
        BY <4>1, <4>2, <4>3, <2>2
    <3>4. QED
      BY <3>2, <3>3, <2>1
  <2>8. \E l \in [1..k + 1 -> Idle'] :
          /\ \A r \in Idle' : \E n \in 1..k + 1 : l[n] = r
          /\ \A m, n \in 1..k + 1 : l[m] = l[n] => m = n
          /\ free' = IF k + 1 = 0 THEN Nil ELSE l[k + 1]
          /\ \A n \in 1..k + 1 : next'[l[n]] = IF n = 1 THEN Nil ELSE l[n - 1]
    <3> HIDE DEF more
    <3>1. QED
      BY <2>3, <2>4, <2>5, <2>6, <2>7
  <2>9. QED
    BY <2>1, <2>8 DEF FreeListed, FreeList
<1>11. QED
  BY <1>8, <1>9, <1>10

LEMMA OnClearInductive == ASSUME IInv, OnClear PROVE IInv'
<1>1. /\ DOMAIN owned' = {} /\ carved' = 0 /\ room' = 0 /\ free' = Nil
      /\ UNCHANGED <<next, chunk>>
  BY DEF OnClear, Reset
<1>2. Live' = {} /\ Idle' = {}
  BY <1>1 DEF Live, Idle
<1>3. TypeOK'
  BY <1>1, <1>2, PoolAssumption DEF IInv, TypeOK
<1>4. NoSharedSlot' /\ FreeListed'
  <2>1. FreeList(0, <<>>)' /\ <<>> \in [1..0 -> Idle']
    BY <1>1, <1>2 DEF FreeList
  <2>2. QED
    BY <2>1, <1>1 DEF NoSharedSlot, FreeListed
<1>5. QED
  BY <1>3, <1>4 DEF IInv

\* The pool's invariant: TypeOK, and what keeps the free list apart from the orders.
THEOREM Inductive == Spec => []IInv
<1>1. Init => IInv
  BY InitInductive
<1>2. IInv /\ [Next]_vars => IInv'
  <2> SUFFICES ASSUME IInv, [Next]_vars PROVE IInv'
    OBVIOUS
  <2>1. ASSUME NEW i \in Ids, OnOrder(i) PROVE IInv'
    BY <2>1, OnOrderInductive
  <2>2. ASSUME NEW i \in Ids, RemoveOrder(i) PROVE IInv'
    BY <2>2, RemoveOrderInductive
  <2>3. CASE OnClear
    BY <2>3, OnClearInductive
  <2>4. CASE UNCHANGED vars
    <3>1. UNCHANGED <<owned, next, free, carved, room, chunk, Live, Idle>>
      BY <2>4 DEF vars, Live, Idle
    <3>2. TypeOK' /\ NoSharedSlot'
      BY <3>1 DEF IInv, TypeOK, NoSharedSlot
    <3>3. PICK k \in Nat : \E list \in [1..k -> Idle] : FreeList(k, list)
      BY DEF IInv, FreeListed
    <3>4. \E list \in [1..k -> Idle'] : FreeList(k, list)'
      BY <3>1, <3>3 DEF FreeList
    <3>5. QED
      BY <3>2, <3>3, <3>4 DEF IInv, FreeListed
  <2>5. QED
    BY <2>1, <2>2, <2>3, <2>4 DEF Next
<1>3. QED
  BY <1>1, <1>2, PTL DEF Spec

\* Nothing points outside the chunks a pool has, however many slots there may be.
THEOREM TypeCorrect == Spec => []TypeOK
<1>1. IInv => TypeOK
  BY DEF IInv
<1>2. QED
  BY <1>1, Inductive, PTL

\* No two resting orders ever share a slot.
THEOREM SlotsApart == Spec => []NoSharedSlot
<1>1. IInv => NoSharedSlot
  BY DEF IInv
<1>2. QED
  BY <1>1, Inductive, PTL

\* With an empty free list every carved slot is in use.
LEMMA EmptyListMeansFull == ASSUME IInv, free = Nil PROVE Live = 1..carved
<1>1. PICK k \in Nat : \E list \in [1..k -> Idle] : FreeList(k, list)
  BY DEF IInv, FreeListed
<1>2. PICK list \in [1..k -> Idle] : FreeList(k, list)
  BY <1>1
<1>3. Idle = {}
  BY <1>2, FreeEnd DEF IInv
<1>4. QED
  BY <1>3 DEF Idle, IInv, TypeOK

\* With an order on the list, that order is carved and holds nothing.
LEMMA ListHeadIdle == ASSUME IInv, free # Nil PROVE free \in Idle
<1>1. PICK k \in Nat : \E list \in [1..k -> Idle] : FreeList(k, list)
  BY DEF IInv, FreeListed
<1>2. PICK list \in [1..k -> Idle] : FreeList(k, list)
  BY <1>1
<1>3. QED
  BY <1>2, FreeEnd DEF IInv

\* Alloc takes a place of the pool that is free, and adds places only when none is.
LEMMA OnOrderTakes == ASSUME IInv, NEW i \in Ids, OnOrder(i) PROVE Abstract!Take(i)
<1> DEFINE size == carved + room
<1>1. /\ carved \in Nat /\ room \in Nat /\ size \in Nat /\ carved <= size
      /\ MaxSlots \in Nat /\ chunk \in Nat \ {0}
  BY PoolAssumption DEF IInv, TypeOK
<1>2. /\ i \notin DOMAIN owned /\ Alloc
      /\ owned' = [j \in DOMAIN owned \cup {i} |-> IF j = i THEN AllocSlot ELSE owned[j]]
  BY DEF OnOrder
<1>3. /\ size' \in IF Live = 1..size THEN size + 1..MaxSlots ELSE {size}
      /\ AllocSlot \in (1..size') \ Live
  <2>1. CASE Reuse
    <3>1. size' = size /\ AllocSlot = free
      BY <2>1, <1>2 DEF Alloc, AllocSlot
    <3>2. free \in 1..size /\ free \notin Live
      BY <2>1, <1>1, ListHeadIdle DEF Reuse, Idle
    <3>3. QED
      BY <3>1, <3>2
  <2>2. CASE ~Reuse /\ room > 0
    <3>1. size' = size /\ AllocSlot = carved + 1 /\ Live = 1..carved
      BY <2>2, <1>1, <1>2, EmptyListMeansFull DEF Alloc, AllocSlot, Reuse
    <3>2. carved + 1 \in 1..size /\ carved + 1 \notin 1..carved
      BY <2>2, <1>1
    <3>3. QED
      BY <3>1, <3>2
  <2>3. CASE ~Reuse /\ room = 0
    <3>1. /\ size' = carved + chunk /\ carved + chunk <= MaxSlots
          /\ AllocSlot = carved + 1 /\ Live = 1..carved /\ size = carved
      BY <2>3, <1>1, <1>2, EmptyListMeansFull DEF Alloc, AllocSlot, Reuse
    <3>2. /\ carved + chunk \in carved + 1..MaxSlots
          /\ carved + 1 \in 1..carved + chunk /\ carved + 1 \notin 1..carved
      BY <3>1, <1>1
    <3>3. QED
      BY <3>1, <3>2
  <2>4. QED
    BY <2>1, <2>2, <2>3, <1>1
<1>4. QED
  BY <1>2, <1>3 DEF Abstract!Take, Abstract!Taken, Live

\* The pool is a set of places, whatever the numbers of orders and slots: what an order
\* gets no other has, and what was freed is found again before a chunk is added.
THEOREM Implements == Spec => ImplementsPoolSpec
<1>1. Init => Abstract!Init
  BY DEF Init, Abstract!Init
<1>2. IInv /\ [Next]_vars => [Abstract!Next]_Abstract!vars
  <2> SUFFICES ASSUME IInv, [Next]_vars PROVE [Abstract!Next]_Abstract!vars
    OBVIOUS
  <2>1. ASSUME NEW i \in Ids, OnOrder(i) PROVE Abstract!Next
    BY <2>1, OnOrderTakes DEF Abstract!Next
  <2>2. ASSUME NEW i \in Ids, RemoveOrder(i) PROVE Abstract!Next
    BY <2>2 DEF RemoveOrder, Abstract!Give, Abstract!Next
  <2>3. CASE OnClear
    BY <2>3 DEF OnClear, Reset, Abstract!Drop, Abstract!Next
  <2>4. CASE UNCHANGED vars
    BY <2>4 DEF vars, Abstract!vars
  <2>5. QED
    BY <2>1, <2>2, <2>3, <2>4 DEF Next
<1>3. QED
  BY <1>1, <1>2, Inductive, PTL DEF Spec, ImplementsPoolSpec, Abstract!Spec
-----------------------------------------------------------------------------
(* The walk along the free list.                                           *)

\* A set of natural numbers that holds 0 and with each number the next holds them all.
LEMMA Induct ==
  ASSUME NEW T \in SUBSET Nat, 0 \in T, \A n \in T : n + 1 \in T
  PROVE  T = Nat
<1> SUFFICES ASSUME Nat \ T # {} PROVE FALSE
  OBVIOUS
<1>1. PICK n \in Nat \ T : \A m \in Nat \ T : ~(<<m, n>> \in OpToRel(<, Nat))
  <2>1. Nat \ T \subseteq Nat
    OBVIOUS
  <2>2. QED
    BY <2>1, NatLessThanWellFounded, WFMin, Zenon
<1>2. n # 0 /\ n - 1 \in Nat /\ n - 1 < n
  OBVIOUS
<1>3. n - 1 \in T
  BY <1>1, <1>2 DEF OpToRel
<1>4. QED
  BY <1>2, <1>3

\* The list read from its end, and nothing after it.
Read(k, list) == [n \in 1..MaxSlots + 1 |-> IF n <= k THEN list[k + 1 - n] ELSE Nil]

\* What the recursion of Walk asks of a function.
Walks(at) ==
  at = [n \in 1..MaxSlots + 1 |->
          IF n = 1 THEN free ELSE IF at[n - 1] = Nil THEN Nil ELSE next[at[n - 1]]]

LEMMA ReadWalks ==
  ASSUME TypeOK, NEW k \in Nat, NEW list \in [1..k -> Idle], FreeList(k, list)
  PROVE  Walks(Read(k, list))
<1> DEFINE at == Read(k, list)
<1>1. Nil \notin Idle /\ MaxSlots \in Nat
  BY PoolAssumption DEF Idle, TypeOK
<1>2. at[1] = free
  <2>1. at[1] = IF 1 <= k THEN list[k] ELSE Nil
    BY <1>1 DEF Read
  <2>2. QED
    BY <2>1 DEF FreeList
<1>3. ASSUME NEW n \in 1..MaxSlots + 1, n # 1
      PROVE  at[n] = IF at[n - 1] = Nil THEN Nil ELSE next[at[n - 1]]
  <2>1. n - 1 \in 1..MaxSlots + 1 /\ n \in Nat /\ n >= 2
    BY <1>1, <1>3
  <2>2. /\ at[n] = IF n <= k THEN list[k + 1 - n] ELSE Nil
        /\ at[n - 1] = IF n - 1 <= k THEN list[k + 1 - (n - 1)] ELSE Nil
    BY <2>1 DEF Read
  <2>3. CASE n - 1 <= k
    <3> DEFINE m == k + 1 - (n - 1)
    <3>1. m \in 1..k /\ m - 1 = k + 1 - n /\ (m = 1 <=> ~(n <= k))
      BY <2>1, <2>3
    <3>2. at[n - 1] = list[m] /\ list[m] # Nil
      BY <1>1, <2>2, <2>3, <3>1
    <3>3. next[list[m]] = IF m = 1 THEN Nil ELSE list[m - 1]
      BY <3>1 DEF FreeList
    <3> HIDE DEF m, at
    <3>4. QED
      BY <2>2, <3>1, <3>2, <3>3
  <2>4. CASE ~(n - 1 <= k)
    BY <2>1, <2>2, <2>4
  <2>5. QED
    BY <2>3, <2>4
<1>4. QED
  <2>1. at = [n \in 1..MaxSlots + 1 |-> at[n]]
    BY DEF Read
  <2> HIDE DEF at
  <2>2. QED
    BY <2>1, <1>2, <1>3 DEF Walks, at

\* The recursion determines the walk.
LEMMA WalkIsRead ==
  ASSUME TypeOK, NEW k \in Nat, NEW list \in [1..k -> Idle], FreeList(k, list)
  PROVE  Walk = Read(k, list)
<1> DEFINE at == Read(k, list)
<1>1. Walks(at)
  BY ReadWalks
<1>2. Walks(Walk)
  <2>1. Walk = CHOOSE w : Walks(w)
    BY DEF Walk, Walks
  <2>2. QED
    BY <1>1, <2>1
<1> HIDE DEF at
<1> DEFINE T == {n \in Nat : n + 1 \in 1..MaxSlots + 1 => Walk[n + 1] = at[n + 1]}
<1>3. MaxSlots \in Nat
  BY PoolAssumption
<1>4. 0 \in T
  <2>1. Walk[1] = free /\ at[1] = free
    BY <1>1, <1>2, <1>3 DEF Walks
  <2>2. QED
    BY <2>1
<1>5. \A n \in T : n + 1 \in T
  <2> SUFFICES ASSUME NEW n \in T, n + 2 \in 1..MaxSlots + 1 PROVE Walk[n + 2] = at[n + 2]
    OBVIOUS
  <2>1. n \in Nat /\ n + 1 \in 1..MaxSlots + 1 /\ n + 2 # 1 /\ (n + 2) - 1 = n + 1
    BY <1>3
  <2>2. Walk[n + 1] = at[n + 1]
    BY <2>1
  <2>3. /\ Walk[n + 2] = IF Walk[n + 1] = Nil THEN Nil ELSE next[Walk[n + 1]]
        /\ at[n + 2] = IF at[n + 1] = Nil THEN Nil ELSE next[at[n + 1]]
    BY <1>1, <1>2, <2>1 DEF Walks
  <2>4. QED
    BY <2>2, <2>3
<1>6. T = Nat
  BY <1>4, <1>5, Induct, Zenon
<1>7. \A n \in 1..MaxSlots + 1 : Walk[n] = at[n]
  <2>1. \A n \in Nat : n + 1 \in 1..MaxSlots + 1 => Walk[n + 1] = at[n + 1]
    BY <1>6
  <2> SUFFICES ASSUME NEW n \in 1..MaxSlots + 1 PROVE Walk[n] = at[n]
    OBVIOUS
  <2>2. n - 1 \in Nat /\ (n - 1) + 1 = n
    BY <1>3
  <2>3. QED
    BY <2>1, <2>2
<1>8. /\ Walk = [n \in 1..MaxSlots + 1 |-> Walk[n]]
      /\ at = [n \in 1..MaxSlots + 1 |-> at[n]]
  BY <1>1, <1>2, Zenon DEF Walks
<1>9. QED
  BY <1>7, <1>8 DEF at

\* The list is as long as there are idle slots, and there is one place more in the walk.
LEMMA ListLength ==
  ASSUME TypeOK, NEW k \in Nat, NEW list \in [1..k -> Idle], FreeList(k, list)
  PROVE  Cardinality(Idle) = k /\ k <= MaxSlots
<1>1. ExistsBijection(1..k, Idle)
  BY DEF FreeList, ExistsBijection, Bijection, Injection, Surjection, IsInjective
<1>2. IsFiniteSet(1..k) /\ Cardinality(1..k) = k
  BY FS_Interval
<1>3. Cardinality(Idle) = k
  BY <1>1, <1>2, FS_Bijection, Zenon
<1>4. carved \in Nat /\ carved <= MaxSlots /\ MaxSlots \in Nat
  BY PoolAssumption DEF TypeOK
<1>5. IsFiniteSet(1..carved) /\ Cardinality(1..carved) = carved
  BY <1>4, FS_Interval
<1>6. Idle \in SUBSET (1..carved)
  BY DEF Idle
<1>7. Cardinality(Idle) <= Cardinality(1..carved)
  BY <1>5, <1>6, FS_Subset, Zenon
<1>8. QED
  BY <1>3, <1>4, <1>5, <1>7

\* The free list holds each slot that is carved and not in use once, and ends, for any
\* numbers of orders and slots: no write of the book to `next' reaches into it.
THEOREM FreeListHolds == Spec => []FreeListSound
<1>1. IInv => FreeListSound
  <2> SUFFICES ASSUME IInv PROVE FreeListSound
    OBVIOUS
  <2>0. TypeOK
    BY DEF IInv
  <2>1. PICK k \in Nat : \E list \in [1..k -> Idle] : FreeList(k, list)
    BY DEF IInv, FreeListed
  <2>2. PICK list \in [1..k -> Idle] : FreeList(k, list)
    BY <2>1
  <2>3. Walk = Read(k, list) /\ Cardinality(Idle) = k /\ k <= MaxSlots
    BY <2>0, <2>2, WalkIsRead, ListLength
  <2>4. MaxSlots \in Nat /\ Nil \notin Idle
    BY <2>0, PoolAssumption DEF Idle, TypeOK
  <2>5. /\ DOMAIN Walk = 1..MaxSlots + 1
        /\ \A n \in 1..MaxSlots + 1 : Walk[n] = IF n <= k THEN list[k + 1 - n] ELSE Nil
    BY <2>3 DEF Read
  <2>6. {Walk[n] : n \in DOMAIN Walk} \ {Nil} = Idle
    <3>1. ASSUME NEW n \in 1..MaxSlots + 1, Walk[n] # Nil PROVE Walk[n] \in Idle
      <4>1. n <= k /\ Walk[n] = list[k + 1 - n] /\ k + 1 - n \in 1..k
        BY <2>4, <2>5, <3>1
      <4>2. QED
        BY <4>1
    <3>2. ASSUME NEW s \in Idle
          PROVE  s # Nil /\ \E n \in 1..MaxSlots + 1 : Walk[n] = s
      <4>1. PICK m \in 1..k : list[m] = s
        BY <2>2 DEF FreeList
      <4>2. /\ k + 1 - m \in 1..MaxSlots + 1 /\ k + 1 - m <= k
            /\ k + 1 - (k + 1 - m) = m
        BY <2>3, <2>4
      <4>3. Walk[k + 1 - m] = s
        BY <2>5, <4>1, <4>2
      <4>4. QED
        BY <2>4, <4>2, <4>3
    <3>3. QED
      BY <2>5, <3>1, <3>2
  <2>7. Walk[Cardinality(Idle) + 1] = Nil
    BY <2>3, <2>4, <2>5
  <2>8. QED
    BY <2>6, <2>7 DEF FreeListSound, Idle
<1>2. QED
  BY <1>1, Inductive, PTL
=============================================================================
