------------------------------- MODULE Config -------------------------------
(***************************************************************************)
(* What nqbook makes of its arguments (Config.cpp, nq/params.hpp).         *)
(*                                                                         *)
(* A sampler argument NAME=TRIGGER:EVERY is a record: the name (empty when *)
(* NAME or the = is missing), the trigger, the number EVERY starts with    *)
(* (Missing if there is none) and what follows the number.  A parameter is *)
(* a pair of a key (empty when the line or argument has none) and a value. *)
(***************************************************************************)
EXTENDS Integers, Sequences, SequencesExt

CONSTANTS IntMax,  \* the largest std::int64_t
          Units    \* the units of durations: a function to nanoseconds

ASSUME ConfigAssumption ==
  IntMax \in Nat \ {0} /\ \A u \in DOMAIN Units : Units[u] \in 1..IntMax

Missing == -1

\* A text with nothing in it.
NoText == ""

\* What the parsers return when they throw.
Bad == [name |-> NoText, trigger |-> NoText, every |-> 0]

\* A product that does not fit wraps around, in the builds there are.
Wrapped(x) == ((x + IntMax + 1) % (2 * (IntMax + 1))) - (IntMax + 1)

\* from_chars leaves the result 0 when the number does not fit.
FromChars(number) == IF number <= IntMax THEN number ELSE 0

\* ParseCount; 0 if it throws.
ParseCount(t) == IF t.number = Missing \/ t.unit # NoText THEN 0 ELSE FromChars(t.number)

DurationOK(t) == t.number # Missing /\ t.unit \in DOMAIN Units /\ FromChars(t.number) > 0

ParseDuration(t) == Wrapped(FromChars(t.number) * Units[t.unit])

ParseSamplerSpec(t) ==
  CASE t.name # NoText /\ t.trigger = "time" /\ DurationOK(t) ->
         [name |-> t.name, trigger |-> "time", every |-> ParseDuration(t)]
    [] t.name # NoText /\ t.trigger \in {"events", "trades"} /\ ParseCount(t) > 0 ->
         [name |-> t.name, trigger |-> t.trigger, every |-> ParseCount(t)]
    [] OTHER -> Bad

-----------------------------------------------------------------------------

Keys(params) == {params[n].key : n \in DOMAIN params}

\* ParamsBuilder::Set: a key that is there already gets the new value.
Set(params, p) ==
  IF p.key \in Keys(params)
  THEN [n \in DOMAIN params |-> IF params[n].key = p.key THEN p ELSE params[n]]
  ELSE Append(params, p)

\* The parameters built from what the .params file says, then the command line.
BuildParams(list) == FoldLeft(Set, <<>>, list)
=============================================================================
