-------------------------- MODULE ParquetWriterMC --------------------------
(***************************************************************************)
(* ParquetWriter with two samplers, and with one named like the            *)
(* instrument table.                                                       *)
(***************************************************************************)
EXTENDS ParquetWriter

TwoSamplers == <<"e", "t">>
ClashingSamplers == <<"instruments", "e">>
=============================================================================
