----------------------------- MODULE SessionMC -----------------------------
(***************************************************************************)
(* Session on a feed of three events of two instruments, one of which the  *)
(* adapter does not name.                                                  *)
(***************************************************************************)
EXTENDS Session

MCInstruments == {"a", "b"}
MCUnnamed == {"a"}
MCFeed == <<"a", "b", "a">>
=============================================================================
