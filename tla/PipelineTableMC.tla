-------------------------- MODULE PipelineTableMC --------------------------
(***************************************************************************)
(* PipelineTable on short feeds of a few instruments, not all with a name, *)
(* with a sampler of every kind.                                           *)
(***************************************************************************)
EXTENDS PipelineTable

Catalog == [fine   |-> SamplerSpec("time", 1, FALSE),
            coarse |-> SamplerSpec("time", 2, FALSE),
            filled |-> SamplerSpec("time", 2, TRUE),
            events |-> SamplerSpec("events", 2, FALSE),
            trades |-> SamplerSpec("trades", 2, FALSE)]

\* The bars alone, of length 1 and 2.
Bars == [fine   |-> SamplerSpec("time", 1, FALSE),
         coarse |-> SamplerSpec("time", 2, FALSE)]

\* A step back, the next boundary, and a jump over a whole bar.
MCJumps == {-1, 1, 3}
=============================================================================
