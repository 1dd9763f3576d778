------------------------------ MODULE BookSpec ------------------------------
(***************************************************************************)
(* What the order book promises, without lists, levels or counters: for    *)
(* every side and price a queue of orders, first come first served.        *)
(* Orderbook implements it (module OrderbookMC).                           *)
(***************************************************************************)
EXTENDS Integers, SequencesExt

CONSTANTS Ids, Sides, Prices, MaxQty

Keys == Sides \X Prices
Qtys == 0..MaxQty

VARIABLES queue,  \* for each side and price, the resting orders in priority order
          out     \* what the last event returned and counted

vars == <<queue, out>>

At(s) == {s[n].id : n \in DOMAIN s}
KeyOf(i) == CHOOSE k \in Keys : i \in At(queue[k])
Resting(i) == \E k \in Keys : i \in At(queue[k])

Entry(i, q) == [id |-> i, qty |-> q]

\* The place and the quantity of order i, which is in the queue s.
Place(s, i) == CHOOSE n \in DOMAIN s : s[n].id = i
QtyIn(s, i) == s[Place(s, i)].qty

Without(i, s) == IF i \in At(s) THEN RemoveAt(s, Place(s, i)) ELSE s

\* The queue s with the quantity of order i set to q, in place; none, if that is 0.
WithQty(i, q, s) ==
  IF q = 0 THEN Without(i, s) ELSE [n \in DOMAIN s |-> IF s[n].id = i THEN Entry(i, q) ELSE s[n]]

Result(filled, flag) == out' = [filled |-> filled, flag |-> flag]

Refuse(flag) == Result(0, flag) /\ UNCHANGED queue

Add(i, s, p, q) ==
  \/ q = 0 /\ Refuse("qty_invalid")
  \/ q > 0 /\ Refuse("add_duplicate") /\ Resting(i)
  \/ /\ q > 0 /\ Result(0, "none")
     /\ ~Resting(i)
     /\ queue' = [queue EXCEPT ![<<s, p>>] = Append(@, Entry(i, q))]

\* A quantity of 0, or of no less than what rests, cancels the whole order.
Cancel(i, q) ==
  \/ Refuse("cancel_unknown") /\ ~Resting(i)
  \/ /\ Result(0, "none")
     /\ Resting(i)
     /\ queue' = [queue EXCEPT ![KeyOf(i)] =
                    WithQty(i, IF q = 0 THEN 0 ELSE Max({0, QtyIn(@, i) - q}), @)]

\* A new price, or a larger quantity, costs an order its place in the queue.
Modify(i, p, q) ==
  \/ Refuse("modify_unknown") /\ ~Resting(i)
  \/ /\ Result(0, "none")
     /\ Resting(i)
     /\ LET from == KeyOf(i)
            to == <<from[1], p>>
        IN  IF q = 0 \/ (to = from /\ q <= QtyIn(queue[from], i))
            THEN queue' = [queue EXCEPT ![from] = WithQty(i, q, @)]
            ELSE queue' = [k \in Keys |->
                             LET rest == Without(i, queue[k])
                             IN  IF k = to THEN Append(rest, Entry(i, q)) ELSE rest]

\* A trade against order i takes what it can.
TradeOrder(i, q) ==
  \/ q = 0 /\ Refuse("qty_invalid")
  \/ q > 0 /\ Refuse("trade_unknown") /\ ~Resting(i)
  \/ /\ q > 0 /\ Resting(i)
     /\ LET had == QtyIn(queue[KeyOf(i)], i)
        IN  /\ Result(Min({q, had}), IF q > had THEN "trade_over_order" ELSE "none")
            /\ queue' = [queue EXCEPT ![KeyOf(i)] = WithQty(i, Max({0, had - q}), @)]

\* What rests in the first n places of the queue s.
QtyAhead(s, n) == SumFunctionOnSet([m \in DOMAIN s |-> s[m].qty], 1..n)

\* What a trade of q leaves of the n-th order of s: those ahead of it pay first.
Left(s, n, q) == Min({s[n].qty, Max({0, QtyAhead(s, n) - q})})

\* How many orders, from the front of the queue s, a trade of q pays in full.
Paid(s, q) == Max({n \in 0..Len(s) : QtyAhead(s, n) <= q})

AfterTrade(s, q) ==
  LET g == Paid(s, q)
  IN  [n \in 1..Len(s) - g |-> Entry(s[g + n].id, Left(s, g + n, q))]

\* A trade against a level takes from its orders strictly in queue order.
TradeLevel(s, p, q) ==
  \/ q = 0 /\ Refuse("qty_invalid")
  \/ /\ q > 0
     /\ LET level == queue[<<s, p>>]
            total == QtyAhead(level, Len(level))
        IN  /\ Result(Min({q, total}), IF q > total THEN "trade_over_level" ELSE "none")
            /\ queue' = [queue EXCEPT ![<<s, p>>] = AfterTrade(level, q)]

Clear == Result(0, "none") /\ queue' = [k \in Keys |-> <<>>]

Init == queue = [k \in Keys |-> <<>>] /\ out = [filled |-> 0, flag |-> "none"]

Next ==
  \/ \E i \in Ids, s \in Sides, p \in Prices, q \in Qtys : Add(i, s, p, q)
  \/ \E i \in Ids, q \in Qtys : Cancel(i, q)
  \/ \E i \in Ids, p \in Prices, q \in Qtys : Modify(i, p, q)
  \/ \E i \in Ids \ {0}, q \in Qtys : TradeOrder(i, q)
  \/ \E s \in Sides, p \in Prices, q \in Qtys : TradeLevel(s, p, q)
  \/ Clear

Spec == Init /\ [][Next]_vars
=============================================================================
