-------------------------- MODULE SyntheticAdapter --------------------------
(***************************************************************************)
(* The synthetic adapter (plugins/adapters/synthetic), from the parameters *)
(* it is constructed with to the end of its feed, through the entry points *)
(* that NQ_ADAPTER gives it (nq/adapter.hpp).                              *)
(*                                                                         *)
(* A parameter's text is a string: one of Number, the texts that strtoll   *)
(* takes as a whole, or another; Absent stands for a key that is not       *)
(* there.  The caller may call Next again after the end of the feed, as    *)
(* AdapterSandbox (nq/adapter_testing.hpp) does.  `log' holds the events   *)
(* returned: no action reads it.                                           *)
(***************************************************************************)
EXTENDS Integers, Sequences

CONSTANTS Texts,     \* the texts each parameter may have: a function of the keys
          Number,    \* the numbers of those that are numbers
          MaxEvents, \* bound on an endless feed
          MaxCalls   \* bound on the calls of an adapter that waits

Keys == {"count", "instruments", "endless", "again_every", "fail_after"}
Absent == "absent"

ASSUME TextsAssumption ==
  /\ DOMAIN Texts = Keys /\ \A k \in Keys : Texts[k] \subseteq STRING
  /\ DOMAIN Number \subseteq STRING \ {Absent} /\ \A t \in DOMAIN Number : Number[t] \in Int
  /\ MaxEvents \in Nat /\ MaxCalls \in Nat

VARIABLES params,  \* the texts of the parameters
          state,   \* none, made, failed: what nq_adapter_init has come to
          next,    \* next_
          calls,   \* calls_
          answer,  \* LastStatus of the sandbox: what Next returned
          log

vars == <<params, state, next, calls, answer, log>>

-----------------------------------------------------------------------------
(* Params, and the constructor.                                            *)

\* Whether GetInt and GetBool return at all.
IsInt(key) == params[key] \in DOMAIN Number
IsBool(key) == params[key] \in {"1", "true", "yes", "0", "false", "no"}

GetInt(key, fallback) == IF params[key] = Absent THEN fallback ELSE Number[params[key]]
GetBool(key, fallback) ==
  IF params[key] = Absent THEN fallback ELSE params[key] \in {"1", "true", "yes"}

count == GetInt("count", 0)
instruments == GetInt("instruments", 1)
endless == GetBool("endless", FALSE)
again_every == GetInt("again_every", 0)
fail_after == GetInt("fail_after", 0)

\* The constructor does not throw: the count is there, the rest are there or not.
Accepted ==
  /\ IsInt("count")
  /\ \A k \in {"instruments", "again_every", "fail_after"} : IsInt(k) \/ params[k] = Absent
  /\ IsBool("endless") \/ params["endless"] = Absent

\* nq_adapter_init: a null pointer when the constructor throws.
AdapterInit ==
  /\ state = "none"
  /\ state' = IF Accepted THEN "made" ELSE "failed"
  /\ UNCHANGED <<params, next, calls, answer, log>>

\* table_.
Table == 1..instruments

\* FindInstrument finds it.
Described(id) == id \in Table

-----------------------------------------------------------------------------
(* Next.                                                                   *)

\* i % instruments_ + 1.  C++ rounds the quotient to zero, so the sign of the divisor
\* does not matter.
InstrumentOf(i) == (i % (IF instruments < 0 THEN -instruments ELSE instruments)) + 1

Failing == fail_after > 0 /\ next >= fail_after
Ended == ~endless /\ next >= count
Waits == again_every > 0 /\ (calls + 1) % again_every = 0

Calls == calls < MaxCalls /\ calls' = IF again_every > 0 THEN calls + 1 ELSE calls

Answers(a) == state = "made" /\ answer # "Crash" /\ answer' = a

NextError ==
  /\ Answers("Error") /\ Failing
  /\ UNCHANGED <<params, state, next, calls, log>>

NextEnd ==
  /\ Answers("End") /\ ~Failing /\ Ended
  /\ UNCHANGED <<params, state, next, calls, log>>

\* A plausible bug: the adapter looks whether to wait before it looks for the end.
NextAgainFirst ==
  /\ Answers("Again") /\ Waits /\ Calls
  /\ UNCHANGED <<params, state, next, log>>

\* A plausible bug: the number is used up by a call that returns no event.
NextAgainCounting ==
  /\ Answers("Again") /\ ~Failing /\ ~Ended /\ Waits /\ Calls
  /\ next' = next + 1
  /\ UNCHANGED <<params, state, log>>

\* A plausible bug: the calls that wait are not counted.
NextAgainUncounted ==
  /\ Answers("Again") /\ ~Failing /\ ~Ended /\ Waits
  /\ UNCHANGED <<params, state, next, calls, log>>

NextAgain ==
  /\ Answers("Again") /\ ~Failing /\ ~Ended /\ Waits /\ Calls
  /\ UNCHANGED <<params, state, next, log>>

Event(instrument) == [ts |-> next + 1, id |-> next + 1, price |-> 1000 + next, qty |-> 1,
                      instrument |-> instrument, side |-> next % 2, action |-> "add"]

NextEvent ==
  /\ Answers("Event") /\ ~Failing /\ ~Ended /\ ~Waits /\ Calls
  /\ next < MaxEvents
  /\ \E i \in IF instruments = 0 THEN {next + 1} ELSE {InstrumentOf(next)} :
       log' = Append(log, Event(i))
  /\ next' = next + 1
  /\ UNCHANGED <<params, state>>

\* A division by zero ends the process, or yields what NextEvent returns above: the
\* remainder of an ARM is the dividend.
NextDividesByZero ==
  /\ Answers("Crash") /\ ~Failing /\ ~Ended /\ ~Waits /\ Calls
  /\ instruments = 0 /\ next < MaxEvents
  /\ next' = next + 1
  /\ UNCHANGED <<params, state, log>>

Init ==
  /\ params \in {p \in [Keys -> UNION {Texts[k] : k \in Keys}] : \A k \in Keys : p[k] \in Texts[k]}
  /\ state = "none" /\ next = 0 /\ calls = 0 /\ answer = "Again" /\ log = <<>>

Next ==
  \/ AdapterInit
  \/ NextError \/ NextEnd \/ NextAgain \/ NextEvent \/ NextDividesByZero

\* The adapter thread calls Next over and over.
Spec == Init /\ [][Next]_vars /\ WF_vars(Next)

-----------------------------------------------------------------------------
(* Properties.                                                             *)

Over == answer \in {"End", "Error"}

\* The types of the variables: the parameters of an adapter that was made are of
\* their types, and next_ is the number of events returned.
TypeOK ==
  /\ state \in {"none", "made", "failed"}
  /\ answer \in {"Again", "Event", "End", "Error", "Crash"}
  /\ next \in Nat /\ calls \in Nat
  /\ state = "made" => /\ params["count"] \in DOMAIN Number
                       /\ \A k \in Keys \ {"endless"} : params[k] \in DOMAIN Number \cup {Absent}

\* However often the adapter answers Again, its events are numbered without a gap,
\* their timestamps rise, and it can describe the instrument of each if it has any.
FeedWellFormed ==
  \A n \in DOMAIN log :
    /\ log[n].id = n
    /\ n > 1 => log[n].ts > log[n - 1].ts
    /\ instruments > 0 => Described(log[n].instrument)

\* The feed ends after as many events as asked for (none, if that is negative), or
\* fails after those.
EndsAsAsked ==
  /\ answer = "End" => /\ ~endless /\ Len(log) = IF count > 0 THEN count ELSE 0
                       /\ fail_after > 0 => count < fail_after
  /\ answer = "Error" => Len(log) = fail_after

\* Once a feed is over, it stays so however often Next is called.
StaysOver == [][Over => answer' = answer /\ UNCHANGED log]_vars

\* A feed that is not endless comes to an end, unless every call waits; without
\* instruments it may end the process.
FeedEnds ==
  state = "made" /\ (~endless \/ fail_after \in 1..MaxEvents) /\ again_every # 1
    ~> Over \/ answer = "Crash"
=============================================================================
