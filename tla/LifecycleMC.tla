---------------------------- MODULE LifecycleMC ----------------------------
(***************************************************************************)
(* Lifecycle with a few arguments of every kind, on integers of six bits.  *)
(***************************************************************************)
EXTENDS Lifecycle

Arg(name, trigger, number, unit) ==
  [name |-> name, trigger |-> trigger, number |-> number, unit |-> unit]

\* Two nanosecond-like units: 3c fits into six bits, 4c wraps to 0, 5c to a wrong
\* period, and 40 does not fit at all.
MCUnits == [u |-> 1, c |-> 16]

MCSamplerArgs ==
  {Arg("a", "time", 1, "c"), Arg("a", "time", 4, "c"), Arg("b", "time", 5, "c"),
   Arg("b", "time", 40, "u"), Arg("b", "time", Missing, "u"), Arg("b", "time", 1, ""),
   Arg("", "time", 1, "u"), Arg("a", "events", 2, ""), Arg("b", "trades", 0, ""),
   Arg("b", "trades", 1, "u"), Arg("b", "ticks", 1, "")}

Param(key, value) == [key |-> key, value |-> value]
MCParams == {Param("count", 1), Param("count", 2), Param("seed", 1), Param("", 1)}
=============================================================================
