--------------------------- MODULE CatalogReport ---------------------------
(***************************************************************************)
(* `nqbook check --format json': PrintCatalogJson (Report.cpp) of every    *)
(* catalog that module FeatureRow's LoadPlugin and AddSampler build.       *)
(*                                                                         *)
(* Layout is left out, and so are the members that hold nothing but one of *)
(* a few words: the SDK version, what a plugin requires, the unit of a     *)
(* column (a text like its doc), the trigger and fill_gaps of a sampler.   *)
(***************************************************************************)
EXTENDS FeatureRow, Quoting

CONSTANTS PathOf,   \* the path each plugin is loaded from
          ParamsOf  \* the KeyValues of its .params file

ASSUME FilesAssumption ==
  /\ PathOf \in [DOMAIN Bundles -> Seq(STRING)]
  /\ ParamsOf \in [DOMAIN Bundles -> Seq(Seq(STRING) \X Seq(STRING))]

KindName(c) == IF c.cumulative THEN "cumulative" ELSE "snapshot"

\* A word between quotes, as it stands in the format string.
Quoted(word) == <<Quote, word, Quote>>

\* "name": ...
Named(name, text) == Quoted(name) \o <<":">> \o text

Members(texts) == <<"{">> \o Joined(texts, <<Comma>>) \o <<"}">>

\* The loops: a comma before every element but the first.
Elements(texts) == <<"[">> \o Joined(texts, <<Comma>>) \o <<"]">>

PluginJson(p) ==
  LET params == ParamsOf[p.stem]
  IN  Members(<<Named("name", JsonString(p.name)), Named("path", JsonString(PathOf[p.stem])),
                Named("ncol", <<ToString(Ncol(p.stem))>>),
                Named("params", Members([n \in DOMAIN params |->
                                           JsonString(params[n][1]) \o <<":">> \o JsonString(params[n][2])]))>>)

ColumnJson(c) ==
  Members(<<Named("name", JsonString(c.name)), Named("kind", Quoted(KindName(c))),
            Named("doc", JsonString(c.doc)), Named("plugin", JsonString(plugins[c.plugin].name))>>)

SamplerJson(s) ==
  Members(<<Named("name", JsonString(s.name)), Named("every", <<ToString(s.every)>>),
            Named("columns", Elements([n \in DOMAIN s.names |-> JsonString(s.names[n])]))>>)

\* PrintCatalogJson.
CatalogJson ==
  Members(<<Named("plugins", Elements([p \in DOMAIN plugins |-> PluginJson(plugins[p])])),
            Named("columns", Elements([c \in DOMAIN columns |-> ColumnJson(columns[c])])),
            Named("samplers", Elements([s \in DOMAIN samplers |-> SamplerJson(samplers[s])]))>>)

-----------------------------------------------------------------------------
(* Properties.                                                             *)

\* The list as a value: what the catalog holds, and nothing else.
Catalog ==
  LET texts(s) == Array([n \in DOMAIN s |-> Text(s[n])])
      plugin(p) == Object(<<Member(<<"name">>, Text(p.name)), Member(<<"path">>, Text(PathOf[p.stem])),
                            Member(<<"ncol">>, Word(ToString(Ncol(p.stem)))),
                            Member(<<"params">>,
                                   Object([n \in DOMAIN ParamsOf[p.stem] |->
                                             Member(ParamsOf[p.stem][n][1], Text(ParamsOf[p.stem][n][2]))]))>>)
      column(c) == Object(<<Member(<<"name">>, Text(c.name)), Member(<<"kind">>, Text(<<KindName(c)>>)),
                            Member(<<"doc">>, Text(c.doc)),
                            Member(<<"plugin">>, Text(plugins[c.plugin].name))>>)
      sampler(s) == Object(<<Member(<<"name">>, Text(s.name)), Member(<<"every">>, Word(ToString(s.every))),
                             Member(<<"columns">>, texts(s.names))>>)
  IN  Object(<<Member(<<"plugins">>, Array([p \in DOMAIN plugins |-> plugin(plugins[p])])),
               Member(<<"columns">>, Array([c \in DOMAIN columns |-> column(columns[c])])),
               Member(<<"samplers">>, Array([s \in DOMAIN samplers |-> sampler(samplers[s])]))>>)

\* What check prints (there is no engine yet) reads back as the catalog: the manual's
\* "`--format json` prints the same list as JSON", whatever quotes, backslashes, tabs and
\* newlines are in the names, paths, docs and parameters, and however short its lists.
JsonReadsBack ==
  engine = <<>> => IsJson(CatalogJson) /\ JsonValue(CatalogJson) = Catalog
=============================================================================
