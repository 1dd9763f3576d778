------------------------------ MODULE Sampler ------------------------------
(***************************************************************************)
(* One sampler of one instrument (Feature/Sampler.h and Sampler.cpp).      *)
(*                                                                         *)
(* The state of a sampler is a record and its methods are operators that   *)
(* return the new record; rows is what it has handed to its sink.  A       *)
(* sampler has two columns: `volume', of kind NQ_COLUMN_CUMULATIVE, and    *)
(* `seen', a snapshot of the book, which is represented by the number of   *)
(* the last event applied to the book.  Values are whole numbers.          *)
(***************************************************************************)
EXTENDS Integers, Sequences

SamplerSpec(trigger, every, fill_gaps) ==
  [trigger |-> trigger, every |-> every, fill_gaps |-> fill_gaps]

NewSampler == [next |-> 0, started |-> FALSE, dirty |-> FALSE, last_ts |-> 0, count |-> 0,
               last |-> 0, rows |-> <<>>]

\* C++ division rounds towards zero.
Quotient(a, b) == IF a >= 0 THEN a \div b ELSE -((-a) \div b)

\* A plausible bug: an event on a boundary is put in the bar that ends there.
BarEndRoundedUp(ts, every) == Quotient(ts + every - 1, every) * every

\* The close time of the bar that an event at ts falls in.
BarEnd(ts, every) == (Quotient(ts, every) + 1) * every

\* A plausible bug: a row does not move the baseline of the cumulative column.
EmitKeepingBaseline(s, ts, v) ==
  [s EXCEPT !.rows = Append(@, [ts |-> ts, volume |-> v.volume - s.last, seen |-> v.seen]),
            !.dirty = FALSE]

Emit(s, ts, v) ==
  [s EXCEPT !.rows = Append(@, [ts |-> ts, volume |-> v.volume - s.last, seen |-> v.seen]),
            !.last = v.volume,
            !.dirty = FALSE]

ResetBaseline(s) == [s EXCEPT !.last = 0]

\* Advance calls for the values of the features.
Due(spec, s, ts) == spec.trigger = "time" /\ s.started /\ ts >= s.next

\* The while loop of Advance: a row for every boundary up to ts.
FillGaps(spec, s, ts, v) ==
  LET passes == Quotient(ts - s.next, spec.every) + 1
      after[k \in 0..passes] ==
        IF k = 0 THEN s
        ELSE [Emit(after[k - 1], after[k - 1].next, v) EXCEPT !.next = @ + spec.every]
  IN  after[passes]

Advance(spec, s, ts, v) ==
  CASE spec.trigger = "time" /\ ~s.started ->
         [s EXCEPT !.started = TRUE, !.next = BarEnd(ts, spec.every)]
    [] Due(spec, s, ts) /\ spec.fill_gaps -> FillGaps(spec, s, ts, v)
    [] Due(spec, s, ts) /\ ~spec.fill_gaps ->
         [Emit(s, s.next, v) EXCEPT !.next = BarEnd(ts, spec.every)]
    [] OTHER -> s

\* A plausible bug: every event counts towards the next row of a trades sampler.
CountsAll(spec, action) == spec.trigger # "time"

\* The event counts towards the next row.
Counts(spec, action) ==
  spec.trigger = "events" \/ (spec.trigger = "trades" /\ action = "trade")

\* A plausible bug: a row is due one event late.
FiresLate(spec, s, action) == Counts(spec, action) /\ s.count >= spec.every

\* OnEvent returns true.
Fires(spec, s, action) == Counts(spec, action) /\ s.count + 1 >= spec.every

\* OnEvent, and Emit if it returns true.
OnEvent(spec, s, ts, action, v) ==
  LET noted == [s EXCEPT !.last_ts = ts,
                         !.dirty = @ \/ spec.trigger = "time",
                         !.count = CASE Fires(spec, s, action) -> 0
                                     [] Counts(spec, action) /\ ~Fires(spec, s, action) -> @ + 1
                                     [] OTHER -> @]
  IN  IF Fires(spec, s, action) THEN Emit(noted, ts, v) ELSE noted

\* Whether Close emits the row that is still open.
Open(spec, s) ==
  IF spec.trigger = "time" THEN s.started /\ (s.dirty \/ spec.fill_gaps) ELSE s.count # 0

\* A plausible bug: the open bar is dropped.
CloseTimeless(spec, s, v) ==
  IF Open(spec, s) /\ spec.trigger # "time" THEN Emit([s EXCEPT !.count = 0], s.last_ts, v) ELSE s

Close(spec, s, v) ==
  IF ~Open(spec, s) THEN s
  ELSE IF spec.trigger = "time" THEN Emit(s, s.next, v)
  ELSE Emit([s EXCEPT !.count = 0], s.last_ts, v)
=============================================================================
