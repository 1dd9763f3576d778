------------------------------ MODULE PoolSpec ------------------------------
(***************************************************************************)
(* What the pool of a book promises, without free lists and chunks: a new  *)
(* order gets a place that no order has, places are added only when every  *)
(* one is taken, and a Clear drops them all.  OrderPool implements it.     *)
(***************************************************************************)
EXTENDS Integers

CONSTANTS Ids, MaxSlots

VARIABLES owned,  \* from the ids that rest to their places
          size    \* the places there are

vars == <<owned, size>>

Taken == {owned[i] : i \in DOMAIN owned}

Take(i) ==
  /\ i \notin DOMAIN owned
  /\ size' \in IF Taken = 1..size THEN size + 1..MaxSlots ELSE {size}
  /\ \E s \in (1..size') \ Taken :
       owned' = [j \in DOMAIN owned \cup {i} |-> IF j = i THEN s ELSE owned[j]]

Give(i) ==
  /\ i \in DOMAIN owned
  /\ owned' = [j \in DOMAIN owned \ {i} |-> owned[j]]
  /\ UNCHANGED size

Drop == DOMAIN owned' = {} /\ size' = 0

Init == DOMAIN owned = {} /\ size = 0

Next == (\E i \in Ids : Take(i) \/ Give(i)) \/ Drop

Spec == Init /\ [][Next]_vars
=============================================================================
