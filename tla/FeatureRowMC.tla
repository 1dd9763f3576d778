---------------------------- MODULE FeatureRowMC ----------------------------
(***************************************************************************)
(* FeatureRow, and what CatalogReport and CsvWriter print of it, with      *)
(* bundles of two features and every special character somewhere in a      *)
(* name, a doc, a path, a parameter or a symbol.                           *)
(***************************************************************************)
EXTENDS CatalogReport, CsvWriter

Column(name, cumulative, doc) == [name |-> name, cumulative |-> cumulative, doc |-> doc]

\* The first bundle has features of two columns and of one; a name of a column occurs
\* in both.
P == <<"p">>
Q == <<"q", Newline>>
MCBundles ==
  (P :> <<<<Column(<<"a">>, FALSE, <<"x", Quote, Backslash>>), Column(<<Comma>>, TRUE, <<>>)>>,
          <<Column(<<"c">>, TRUE, <<Backslash, "n">>)>>>>)
  @@ (Q :> <<<<Column(<<Tab>>, FALSE, <<Newline>>)>>, <<Column(<<"a">>, TRUE, <<>>)>>>>)

MCPathOf == (P :> P) @@ (Q :> <<Backslash>> \o Q)
MCParamsOf == (P :> <<<<<<"k">>, <<>>>>, <<<<Quote>>, <<Backslash>>>>>>) @@ (Q :> <<>>)

N == <<"n", Quote>>
MCNames == {<<>>, N}

\* All columns, some of them out of order and repeated, and one that may be missing.
MCSelections == {<<>>,
                 <<P \o <<".", "c">>, P \o <<".", "a">>, P \o <<".", "c">>>>,
                 <<N \o <<".", "a">>, Q \o <<".", Tab>>>>}
MCSamplerNames == {<<"s">>, <<Backslash, "t">>}

\* Instrument 1, after a gap.
MCEntries == <<[id |-> "0", symbol |-> <<>>], [id |-> "1", symbol |-> <<"A", Newline, Quote>>]>>
=============================================================================
