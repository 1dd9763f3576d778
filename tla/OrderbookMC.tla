---------------------------- MODULE OrderbookMC ----------------------------
(***************************************************************************)
(* The book on a small instance, and its refinement of BookSpec.           *)
(***************************************************************************)
EXTENDS OrderbookView, Sequences

\* The queues of a book, as BookSpec sees them.
Queues(b) ==
  [k \in Keys |-> LET q == Queue(b, k)
                  IN  [n \in DOMAIN q |-> [id |-> q[n], qty |-> b.order[q[n]].qty]]]

\* While FillLevel's loop runs, the abstract trade has not happened yet.
Visible == IF sweep = Nil THEN book ELSE sweep.before

Abstract == INSTANCE BookSpec WITH queue <- Queues(Visible)

\* The linked book is a price-time-priority book: adds go to the back, a
\* reduction keeps its place, a new price or a larger quantity loses it, and a
\* trade against a level takes from the front, whatever list surgery it took;
\* the filled quantity and the counted violation are those of the abstract book.
ImplementsBookSpec == Abstract!Spec
=============================================================================
