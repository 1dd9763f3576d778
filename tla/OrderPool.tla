----------------------------- MODULE OrderPool -----------------------------
(***************************************************************************)
(* Where the orders of a book live: Orderbook::OrderPool.  Freed orders    *)
(* are kept on a list through the very `next' field that links the orders  *)
(* of a level; fresh ones are carved from the last chunk, and a chunk that *)
(* is used up is followed by one of twice the size.                        *)
(*                                                                         *)
(* A chunk is only ever carved from front to back, so the slots of a pool  *)
(* are numbered in the order they were carved.  nlib::memory_pool is a     *)
(* chunk that answers null when it is full.  The calls are the book's:     *)
(* OnOrder, RemoveOrder and OnClear, with what these write to `next'.      *)
(***************************************************************************)
EXTENDS Integers, FiniteSets

CONSTANTS Ids,       \* order ids
          Nil,       \* the null pointer
          Expected,  \* expected_orders: the size of the first chunk
          MaxSlots   \* bound on the slots of a pool, and on a chunk

ASSUME PoolAssumption ==
  Expected \in Nat /\ MaxSlots \in Nat \ {0} /\ Expected <= MaxSlots /\ Nil \notin 1..MaxSlots

Slots == 1..MaxSlots

VARIABLES owned,   \* the orders_ map: from the ids that rest to their slots
          next,    \* the `next' field of every slot
          free,    \* free_
          carved,  \* slots placed since the last Reset
          room,    \* what is left of the last chunk
          chunk    \* chunk_, the size of the next chunk

vars == <<owned, next, free, carved, room, chunk>>

Live == {owned[i] : i \in DOMAIN owned}

\* A plausible bug: an order is carved even when one is free.
ReuseNever == FALSE

\* Alloc takes the first free order, if there is one.
Reuse == free # Nil

\* The slot Alloc returns.
AllocSlot == IF Reuse THEN free ELSE carved + 1

\* Alloc: a free order, or one from the last chunk, or one from a new chunk.
Alloc ==
  \/ Reuse /\ free' = next[free] /\ UNCHANGED <<carved, room, chunk>>
  \/ ~Reuse /\ room > 0 /\ carved' = carved + 1 /\ room' = room - 1 /\ UNCHANGED <<free, chunk>>
  \/ /\ ~Reuse /\ room = 0 /\ carved + chunk <= MaxSlots
     /\ carved' = carved + 1 /\ room' = chunk - 1 /\ chunk' = 2 * chunk
     /\ UNCHANGED free

\* OnOrder: the new order is the last of its level, and the one before, if any, points at it.
OnOrder(i) ==
  /\ i \notin DOMAIN owned
  /\ Alloc
  /\ owned' = [j \in DOMAIN owned \cup {i} |-> IF j = i THEN AllocSlot ELSE owned[j]]
  /\ \E tail \in Live \cup {Nil} :
       next' = [s \in Slots |->
                  CASE s = AllocSlot -> Nil
                    [] s = tail      -> AllocSlot
                    [] OTHER         -> next[s]]

\* A plausible bug: the freed order still points into its level.
FreeUnlinked(s) == next

\* A plausible bug: the rest of the free list is lost.
FreedAlone(s) == [next EXCEPT ![s] = Nil]

\* Free(o) puts the order in front of the free list.
Freed(s) == [next EXCEPT ![s] = free]

\* RemoveOrder: the order before it, if any, points past it, and it is freed.
RemoveOrder(i) ==
  /\ i \in DOMAIN owned
  /\ LET s == owned[i]
     IN  /\ \E prev \in (Live \ {s}) \cup {Nil} :
              next' = [r \in Slots |-> IF r = prev THEN next[s] ELSE Freed(s)[r]]
         /\ free' = s
  /\ owned' = [j \in DOMAIN owned \ {i} |-> owned[j]]
  /\ UNCHANGED <<carved, room, chunk>>

\* A plausible bug: the free list survives the chunks it points into.
ResetKeepingFree == carved' = 0 /\ room' = 0 /\ UNCHANGED <<next, free, chunk>>

\* Reset drops every chunk, and keeps chunk_.
Reset == carved' = 0 /\ room' = 0 /\ free' = Nil /\ UNCHANGED <<next, chunk>>

OnClear == owned' = [i \in {} |-> Nil] /\ Reset

Init ==
  /\ owned = [i \in {} |-> Nil]
  /\ next = [s \in Slots |-> Nil]
  /\ free = Nil /\ carved = 0 /\ room = 0
  /\ chunk = IF Expected > 0 THEN Expected ELSE 1

Next == (\E i \in Ids : OnOrder(i) \/ RemoveOrder(i)) \/ OnClear

Spec == Init /\ [][Next]_vars

-----------------------------------------------------------------------------
(* Properties.                                                             *)

\* The slots met on the free list.
Walk ==
  LET at[n \in 1..MaxSlots + 1] ==
        IF n = 1 THEN free ELSE IF at[n - 1] = Nil THEN Nil ELSE next[at[n - 1]]
  IN  at

\* The types of the variables: nothing points outside the chunks the pool has.
TypeOK ==
  /\ DOMAIN owned \subseteq Ids /\ Live \subseteq 1..carved
  /\ next \in [Slots -> Slots \cup {Nil}] /\ free \in 1..carved \cup {Nil}
  /\ carved \in 0..MaxSlots /\ room \in 0..MaxSlots - carved
  /\ chunk \in 1..2 * MaxSlots

\* No two resting orders share a slot.
NoSharedSlot == \A i, j \in DOMAIN owned : i # j => owned[i] # owned[j]

\* The free list holds each slot that is carved and not in use once, and ends:
\* neither the book's writes to `next' nor a Clear ever reach into it.
FreeListSound ==
  /\ {Walk[n] : n \in DOMAIN Walk} \ {Nil} = (1..carved) \ Live
  /\ Walk[Cardinality((1..carved) \ Live) + 1] = Nil

Abstract == INSTANCE PoolSpec WITH size <- carved + room

\* The pool is a set of places: whatever the order of adds, removals and Clears, an order
\* gets a place that no other order has, and a chunk is added only when all are in use.
ImplementsPoolSpec == Abstract!Spec
=============================================================================
