------------------------- MODULE SyntheticAdapterMC -------------------------
(***************************************************************************)
(* SyntheticAdapter with every parameter there, missing and malformed.     *)
(***************************************************************************)
EXTENDS SyntheticAdapter, TLC

MCNumber == ("0" :> 0) @@ ("1" :> 1) @@ ("2" :> 2) @@ ("3" :> 3) @@ ("5" :> 5) @@ ("-2" :> -2)

MCTexts == [count       |-> {"absent", "x", "-2", "0", "3", "5"},
            instruments |-> {"absent", "x", "-2", "0", "2", "3"},
            endless     |-> {"absent", "x", "yes", "0"},
            again_every |-> {"absent", "x", "0", "1", "2", "3"},
            fail_after  |-> {"absent", "x", "2", "5"}]
=============================================================================
