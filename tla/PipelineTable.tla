--------------------------- MODULE PipelineTable ---------------------------
(***************************************************************************)
(* The pipelines of one run (PipelineTable.cpp), each a book and a feature *)
(* engine with its samplers (Pipeline.h, Feature/FeatureEngine.cpp).       *)
(*                                                                         *)
(* An engine keeps the state of one feature plugin, a running total of the *)
(* filled quantity that a Reset control sets to zero (the example plugin's *)
(* TradeVolume), and the number of the last event applied to its book,     *)
(* which stands for everything a snapshot column can show.  What a trade   *)
(* fills is the business of module Orderbook, and left open here.          *)
(*                                                                         *)
(* `log' is the feed so far: no action reads it, the properties do.        *)
(***************************************************************************)
EXTENDS Sampler, FiniteSetsExt, Functions

CONSTANTS Instruments,  \* instrument ids the feed uses
          Named,        \* those the resolver knows
          Samplers,     \* the catalog's samplers: a function from names to SamplerSpecs
          Slots,        \* defaults::kInstrumentSlots
          IdRange,      \* the number of values of uint32_t
          Jumps,        \* by how much an event's ts may differ from the last one's
          Fills,        \* what a trade may fill
          MinTs,        \* bound on the ts of the events, from below
          MaxEvents     \* bound on the length of the feed

ASSUME InstrumentsAssumption == Instruments \subseteq 0..IdRange - 1 /\ Named \subseteq Instruments
ASSUME SamplersAssumption ==
  \A s \in DOMAIN Samplers :
    Samplers[s] \in [trigger : {"time", "events", "trades"}, every : Nat \ {0}, fill_gaps : BOOLEAN]
ASSUME BoundsAssumption ==
  /\ Slots \in Nat /\ IdRange \in Nat \ {0} /\ Jumps \subseteq Int /\ Fills \subseteq Nat
  /\ MinTs \in Int /\ MaxEvents \in Nat

VARIABLES size,    \* entries_.size()
          pipe,    \* the entries that have a pipeline
          stats,   \* FeedStats
          closed,  \* Close has been called
          outside, \* ids for which entries_ was indexed beyond its end
          log

vars == <<size, pipe, stats, closed, outside, log>>

Names == DOMAIN Samplers

NewStats == [events |-> 0, ts_regressions |-> 0, first_ts |-> 0, last_ts |-> 0]
FeedStats == [events |-> 0, ts_regressions |-> 0, first_ts |-> 0, last_ts |-> 0, unknown |-> 0]

NewEngine == [volume |-> 0, seen |-> 0, fresh |-> FALSE,
              values |-> [volume |-> 0, seen |-> 0],
              samplers |-> [s \in Names |-> NewSampler]]

NewEntry(i) == [resolved |-> i \in Named, stats |-> NewStats, engine |-> NewEngine]

-----------------------------------------------------------------------------
(* FeatureEngine.                                                          *)

\* ReadAll returns the cached values, or reads the plugins and the book.
Values(e) == IF e.fresh THEN e.values ELSE [volume |-> e.volume, seen |-> e.seen]

\* The engine after ReadAll, if it was called.
AfterRead(e, called) == IF called THEN [e EXCEPT !.values = Values(e), !.fresh = TRUE] ELSE e

\* FeatureEngine::Advance.
EngineAdvance(e, ts) ==
  LET due == \E s \in Names : Due(Samplers[s], e.samplers[s], ts)
  IN  [AfterRead(e, due) EXCEPT
         !.samplers = [s \in Names |-> Advance(Samplers[s], e.samplers[s], ts, Values(e))]]

\* FeatureEngine::Close.
EngineClose(e) ==
  LET due == \E s \in Names : Open(Samplers[s], e.samplers[s])
  IN  [AfterRead(e, due) EXCEPT
         !.samplers = [s \in Names |-> Close(Samplers[s], e.samplers[s], Values(e))]]

\* The example plugin TradeVolume, on trades of one side: OnEvent adds what a trade
\* filled, OnControl starts again after the Reset that a Clear sends.
TradeVolume(volume, action, filled) ==
  CASE action = "trade" -> volume + filled
    [] action = "clear" -> 0
    [] OTHER            -> volume

\* A plausible bug: values read before the event are taken for fresh.
ObservedStale(e, k, action, filled) ==
  [e EXCEPT !.seen = k,
            !.volume = TradeVolume(@, action, filled),
            !.samplers = IF action = "clear" THEN [s \in Names |-> ResetBaseline(@[s])] ELSE @]

\* The book has taken event k, and the plugins its fill, or the Reset of a Clear.
Observed(e, k, action, filled) ==
  [e EXCEPT !.seen = k,
            !.fresh = FALSE,
            !.volume = TradeVolume(@, action, filled),
            !.samplers = IF action = "clear" THEN [s \in Names |-> ResetBaseline(@[s])] ELSE @]

\* Pipeline::Apply: the book first, then FeatureEngine::OnEvent.
EngineApply(e, k, m) ==
  LET o == Observed(e, k, m.action, m.filled)
      due == \E s \in Names : Fires(Samplers[s], o.samplers[s], m.action)
  IN  [AfterRead(o, due) EXCEPT
         !.samplers = [s \in Names |->
                         OnEvent(Samplers[s], o.samplers[s], m.ts, m.action, Values(o))]]

-----------------------------------------------------------------------------
(* PipelineTable.                                                          *)

Larger(x, y) == IF x > y THEN x ELSE y

\* A plausible bug: the id is taken for the new size.
GrownShort(i) == IF i >= size THEN Larger(i, size * 2) ELSE size

\* Resolve's resize; `instrument + 1' is a uint32_t.
Grown(i) == IF i >= size THEN Larger((i + 1) % IdRange, size * 2) ELSE size

\* Resolve's entries: an instrument seen for the first time gets a pipeline.
Resolved(i) == IF i \in DOMAIN pipe THEN pipe ELSE [j \in DOMAIN pipe \cup {i} |->
                                                   IF j = i THEN NewEntry(i) ELSE pipe[j]]

\* A plausible bug: every event before the latest ts counts as a regression.
CountedFromLatest(st, ts) ==
  [st EXCEPT !.events = @ + 1,
             !.first_ts = IF st.events = 0 THEN ts ELSE @,
             !.last_ts = Larger(@, ts),
             !.ts_regressions = @ + IF st.events # 0 /\ ts < st.last_ts THEN 1 ELSE 0]

\* The statistics of the feed, or of an instrument, after one more event.
Counted(st, ts) ==
  [st EXCEPT !.events = @ + 1,
             !.first_ts = IF st.events = 0 THEN ts ELSE @,
             !.last_ts = ts,
             !.ts_regressions = @ + IF st.events # 0 /\ ts < st.last_ts THEN 1 ELSE 0]

\* A plausible bug: only the event's own instrument is advanced.
AdvancedOwn(entries, m) == [entries EXCEPT ![m.instrument].engine = EngineAdvance(@, m.ts)]

\* Every live instrument is advanced to the event's ts.
Advanced(entries, m) ==
  [j \in DOMAIN entries |-> [entries[j] EXCEPT !.engine = EngineAdvance(@, m.ts)]]

\* PipelineTable::Apply.
Apply(m) ==
  LET i == m.instrument
      k == Len(log) + 1
      entries == [Resolved(i) EXCEPT ![i].stats = Counted(@, m.ts)]
  IN  /\ ~closed /\ outside = {}
      /\ i < Grown(i) /\ size' = Grown(i)
      /\ stats' = [Counted(stats, m.ts) EXCEPT
                     !.unknown = stats.unknown
                                   + IF i \in Named \/ i \in DOMAIN pipe THEN 0 ELSE 1]
      /\ pipe' = [Advanced(entries, m) EXCEPT ![i].engine = EngineApply(@, k, m)]
      /\ log' = Append(log, m)
      /\ UNCHANGED <<closed, outside>>

\* Resolve indexes entries_ beyond its end, since the resize has not reached the id.  What
\* lies there may be anything, and nothing is said of what the program does with it.
ResolveOutside(i) ==
  /\ ~closed /\ outside = {} /\ Len(log) < MaxEvents
  /\ i >= Grown(i) /\ size' = Grown(i)
  /\ outside' = {i}
  /\ UNCHANGED <<pipe, stats, closed, log>>

\* PipelineTable::Close, at the end of the run.
CloseTable ==
  /\ ~closed /\ outside = {}
  /\ pipe' = [j \in DOMAIN pipe |-> [pipe[j] EXCEPT !.engine = EngineClose(@)]]
  /\ closed' = TRUE
  /\ UNCHANGED <<size, stats, outside, log>>

Init ==
  /\ size = Slots /\ stats = FeedStats /\ closed = FALSE /\ outside = {}
  /\ pipe = [i \in {} |-> NewEntry(i)]
  /\ log = <<>>

Event(i, ts, action, filled) ==
  [instrument |-> i, ts |-> ts, action |-> action, filled |-> filled]

\* The next event of the feed, with a ts not far from the last one's.
Feed(i, jump) ==
  /\ Len(log) < MaxEvents /\ stats.last_ts + jump >= MinTs
  /\ \/ \E a \in {"add", "clear"} : Apply(Event(i, stats.last_ts + jump, a, 0))
     \/ \E f \in Fills : Apply(Event(i, stats.last_ts + jump, "trade", f))

Next ==
  \/ \E i \in Instruments, jump \in Jumps : Feed(i, jump)
  \/ \E i \in Instruments : ResolveOutside(i)
  \/ CloseTable

Spec == Init /\ [][Next]_vars

-----------------------------------------------------------------------------
(* What the rows should be, from the feed alone.  k, j are numbers of      *)
(* events; 0 is the time before the first.                                 *)

Live == DOMAIN pipe
Rows(i, s) == pipe[i].engine.samplers[s].rows
TimeSamplers == {s \in Names : Samplers[s].trigger = "time"}
Highest(S) == IF S = {} THEN 0 ELSE Max(S)

\* The events of instrument i up to the k-th of the feed.
EventsOf(i, k) == {j \in 1..k : log[j].instrument = i}

\* The latest ts of any event since the first of instrument i: the instrument's clock.
Clock(i, k) == Max({log[j].ts : j \in Min(EventsOf(i, k))..k})

\* The last Clear of instrument i, and what its trades filled since then.
LastClear(i, k) == Highest({j \in EventsOf(i, k) : log[j].action = "clear"})
Filled == [j \in DOMAIN log |-> log[j].filled]
Volume(i, k) == SumFunctionOnSet(Filled, {j \in EventsOf(i, k) : j > LastClear(i, k)})

\* The event that the row before the n-th of sampler s had seen.
SeenBefore(i, s, n) == IF n = 1 THEN 0 ELSE Rows(i, s)[n - 1].seen

\* The events that count for sampler s.
CountedBy(i, s) == {j \in EventsOf(i, Len(log)) :
                      Samplers[s].trigger = "events" \/ log[j].action = "trade"}

\* What the rows of a sampler hold, and the sum of those with a ts in (after, upto].
Volumes(rows) == [n \in DOMAIN rows |-> rows[n].volume]
RowsSum(rows, after, upto) ==
  SumFunctionOnSet(Volumes(rows), {n \in DOMAIN rows : rows[n].ts > after /\ rows[n].ts <= upto})

-----------------------------------------------------------------------------
(* Properties.                                                             *)

\* A row holds what was traded since the row before it, or since the last Clear,
\* as of the event whose book it shows, whoever read the plugins last and
\* whatever the cache of ReadAll held.
RowsTrue ==
  \A i \in Live, s \in Names : \A n \in DOMAIN Rows(i, s) :
    LET row == Rows(i, s)[n]
        before == SeenBefore(i, s, n)
    IN  row.volume = Volume(i, row.seen)
                       - IF LastClear(i, row.seen) > before THEN 0 ELSE Volume(i, before)

\* The row of a bar shows the instrument as its clock reaches the end of the bar:
\* every event before that is in, none after it (`time samplers close bars before
\* the event that crosses the boundary is applied'), and a bar whose end the clock
\* has passed is not waiting for its row.
BarsAsOf ==
  \A i \in Live, s \in TimeSamplers :
    /\ \A n \in DOMAIN Rows(i, s) :
         Rows(i, s)[n].seen = Highest({j \in EventsOf(i, Len(log)) :
                                         Clock(i, j) < Rows(i, s)[n].ts})
    /\ \A j \in EventsOf(i, Len(log)) :
         \/ closed /\ \E n \in DOMAIN Rows(i, s) : Rows(i, s)[n].seen >= j
         \/ Clock(i, j) \div Samplers[s].every = Clock(i, Len(log)) \div Samplers[s].every
         \/ \E n \in DOMAIN Rows(i, s) : Rows(i, s)[n].seen >= j

\* Bars end at whole multiples of their length, in order, the first right after
\* the instrument's first event; with fill_gaps none is left out.
BarGrid ==
  \A i \in Live, s \in TimeSamplers :
    LET rows == Rows(i, s)
        every == Samplers[s].every
        start == log[Min(EventsOf(i, Len(log)))].ts
    IN  \A n \in DOMAIN rows :
          /\ rows[n].ts % every = 0
          /\ n = 1 => start < rows[n].ts /\ rows[n].ts <= start + every
          /\ n > 1 => /\ rows[n].ts > rows[n - 1].ts
                      /\ Samplers[s].fill_gaps => rows[n].ts = rows[n - 1].ts + every

\* An events or trades sampler has a row for every N-th event that counts, taken
\* right after it, and at the end one for the events left over.
CountRows ==
  \A i \in Live, s \in Names \ TimeSamplers :
    LET rows == Rows(i, s)
        counted == CountedBy(i, s)
        every == Samplers[s].every
        Nth(m) == CHOOSE j \in counted : Cardinality({h \in counted : h <= j}) = m
        full == Cardinality(counted) \div every
    IN  /\ Len(rows) = full + IF closed /\ Cardinality(counted) % every # 0 THEN 1 ELSE 0
        /\ \A n \in DOMAIN rows :
             LET at == IF n <= full THEN Nth(n * every) ELSE Max(EventsOf(i, Len(log)))
             IN  rows[n].seen = at /\ rows[n].ts = log[at].ts

\* At the end of a run the rows of every sampler add up to what was traded since
\* the last Clear: no trade is left in a bar that was never emitted.
AllReported ==
  closed => \A i \in Live, s \in Names :
    LET since == {n \in DOMAIN Rows(i, s) : Rows(i, s)[n].seen >= LastClear(i, Len(log))}
    IN  SumFunctionOnSet(Volumes(Rows(i, s)), since) = Volume(i, Len(log))

Regressions(S) == Cardinality({j \in S : \E h \in S : /\ h < j /\ log[h].ts > log[j].ts
                                                      /\ \A g \in S : ~(h < g /\ g < j)})

\* The feed report: events, steps back in time and instruments without a name are
\* counted for the feed and for each instrument as they occurred in the feed.
StatsTrue ==
  /\ stats.events = Len(log) /\ stats.ts_regressions = Regressions(DOMAIN log)
  /\ stats.unknown = Cardinality(Live \ Named)
  /\ \A i \in Live : LET mine == EventsOf(i, Len(log))
                     IN  /\ pipe[i].stats.events = Cardinality(mine)
                         /\ pipe[i].stats.ts_regressions = Regressions(mine)
                         /\ pipe[i].stats.first_ts = log[Min(mine)].ts

\* Resolve indexes entries_ within its bounds, however far apart the ids of the
\* instruments are and in whatever order they come, and what it has found stays there.
\* Only the largest id of all, for which `instrument + 1' is 0, can lie outside, and only
\* while doubling does not reach it: when neither the slots at the start nor any id
\* before it take up half of the range.
EntriesInBounds ==
  /\ \A i \in Live : i < size
  /\ \A i \in outside :
       i = IdRange - 1 /\ 2 * Slots <= i /\ \A j \in Live : 2 * (j + 1) <= i

\* The manual's "so the 1-second rows sum to the 5-second rows".
FineSumsToCoarse ==
  \A i \in Live, fine, coarse \in TimeSamplers :
    Samplers[coarse].every % Samplers[fine].every = 0 =>
      \A n \in DOMAIN Rows(i, coarse) :
        RowsSum(Rows(i, fine), IF n = 1 THEN 0 ELSE Rows(i, coarse)[n - 1].ts,
                Rows(i, coarse)[n].ts) = Rows(i, coarse)[n].volume
=============================================================================
