--------------------------- MODULE OrderbookView ---------------------------
(***************************************************************************)
(* What the features see of a book: the functions of an nq_book_view       *)
(* (OrderbookView.cpp) on the maps bids_ and asks_.                        *)
(*                                                                         *)
(* A level is seen as its price, its total and its number of orders; Nil   *)
(* stands for the result 1, with nothing stored.                           *)
(***************************************************************************)
EXTENDS Orderbook, Sequences, Functions

\* The orders of the maps: std::greater for bids, std::less for asks.
Before(s, p, q) == IF s = Bid THEN p > q ELSE p < q

\* begin() of a map with the prices P.
Begin(s, P) == CHOOSE p \in P : \A q \in P \ {p} : Before(s, p, q)

OpenPrices(b, s) == {p \in Prices : <<s, p>> \in b.open}

ToLevel(b, k) == [price |-> k[2], qty |-> b.level[k].qty, count |-> b.level[k].count]

\* The level that BestBid and BestAsk point at, if there is one.
BestLevel(b, s) ==
  IF OpenPrices(b, s) = {} THEN Nil ELSE <<s, Begin(s, OpenPrices(b, s))>>

Best(b, s) == IF BestLevel(b, s) = Nil THEN Nil ELSE ToLevel(b, BestLevel(b, s))

\* NthLevel: the level k steps behind begin().
NthLevel(b, s, k) ==
  LET behind[n \in 0..k] ==
        IF n = 0 THEN OpenPrices(b, s)
        ELSE behind[n - 1] \ {Begin(s, behind[n - 1])}
  IN  IF k >= Cardinality(OpenPrices(b, s)) THEN Nil ELSE <<s, Begin(s, behind[k])>>

Level(b, s, k) == IF NthLevel(b, s, k) = Nil THEN Nil ELSE ToLevel(b, NthLevel(b, s, k))

\* The MockBook that plugin tests use instead (nq/feature_testing.hpp), of which SetBids
\* or SetAsks has set the levels.
MockLevel(levels, k) == IF k >= Len(levels) THEN Nil ELSE levels[k + 1]
MockBest(levels) == MockLevel(levels, 0)

-----------------------------------------------------------------------------

OrdersOn(s, p) == {i \in book.resting : book.order[i].side = s /\ book.order[i].price = p}
RestingPrices(s) == {p \in Prices : OrdersOn(s, p) # {}}

\* The sum of the quantities of the orders S.
TotalQty(S) == SumFunctionOnSet([i \in Ids |-> book.order[i].qty], S)

\* The n-th best price on side s: n - 1 of those at which an order rests are better.
NthBest(s, n) ==
  CHOOSE p \in RestingPrices(s) :
    Cardinality({q \in RestingPrices(s) : Before(s, q, p)}) = n - 1

\* The depth of side s by the orders themselves, best price first.
Depth(s) ==
  [n \in 1..Cardinality(RestingPrices(s)) |->
     LET S == OrdersOn(s, NthBest(s, n))
     IN  [price |-> NthBest(s, n), qty |-> TotalQty(S), count |-> Cardinality(S)]]

\* A feature sees of the book what it would see of a MockBook set to the depth of the
\* resting orders: the k-th level is the k-th best price at which an order rests, with
\* the sum of the quantities and the number of the orders there (the code maintains both
\* by differences, and a level's place by inserting and erasing it).
DepthTrue ==
  \A s \in Sides :
    LET levels == Depth(s)
    IN  /\ Best(book, s) = MockBest(levels)
        /\ \A k \in 0..Cardinality(Ids) : Level(book, s, k) = MockLevel(levels, k)
=============================================================================
