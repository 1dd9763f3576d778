----------------------------- MODULE FeatureRow -----------------------------
(***************************************************************************)
(* How a value gets from a feature into the cell under its name.           *)
(*                                                                         *)
(* A plugin is a bundle of features that lie side by side in its columns   *)
(* (Bundle in feature.hpp).  The FeatureCatalog lists the columns of all   *)
(* plugins, and a sampler picks some of them by index.  The FeatureEngine  *)
(* of an instrument reads every plugin into one flat vector, from which    *)
(* the samplers take their cells (Sampler::Emit).                          *)
(*                                                                         *)
(* A value is the record of where and when it was read: the column of a    *)
(* feature of a plugin, and what the feature had been shown by then.  The  *)
(* samplers here are `events' samplers; the other triggers are module      *)
(* Sampler's.  `log' is the feed: no action reads it.                      *)
(***************************************************************************)
EXTENDS Naturals, FiniteSets, SequencesExt

CONSTANTS Bundles,      \* the plugin files: a function from stems to sequences of features
          Names,        \* the names LoadPlugin may be given; <<>> for none
          Selections,   \* the SamplerSpec::columns one may ask for
          Periods,      \* and the N of `events:N'
          SamplerNames,
          MaxPlugins, MaxSamplers, MaxEvents  \* bounds of the runs

\* A feature is the sequence of its columns; names are sequences.
ASSUME BundlesAssumption ==
  /\ DOMAIN Bundles \cup Names \subseteq Seq(STRING)
  /\ \A b \in DOMAIN Bundles :
       Bundles[b] \in Seq(Seq([name : Seq(STRING), cumulative : BOOLEAN, doc : Seq(STRING)]))
ASSUME SamplersAssumption ==
  Periods \subseteq Nat /\ SamplerNames \subseteq Seq(STRING) /\ Selections \subseteq Seq(Seq(STRING))

VARIABLES plugins,   \* the catalog: the plugins' names and stems,
          columns,   \* their columns
          samplers,  \* and the sampler templates
          engine,    \* the FeatureEngine, or a sequence of none
          log

catalog == <<plugins, columns, samplers>>
vars == <<catalog, engine, log>>

-----------------------------------------------------------------------------
(* Bundle.                                                                 *)

\* kColumns, and the ncol of the schema.
Concat(b) == FlattenSeq(Bundles[b])
Ncol(b) == Len(Concat(b))

\* A feature that has just been constructed has been shown nothing.
NewState == [events |-> 0, resets |-> 0]
NewInstance(b) == [f \in DOMAIN Bundles[b] |-> NewState]

Shown(inst, action) ==
  [f \in DOMAIN inst |-> IF action = "clear" THEN [inst[f] EXCEPT !.resets = @ + 1]
                                             ELSE [inst[f] EXCEPT !.events = @ + 1]]

\* out.subspan(off), written by one feature.
Written(out, off, cells) ==
  [n \in DOMAIN out |-> IF n \in off + 1..off + Len(cells) THEN cells[n - off] ELSE out[n]]

Value(p, f, c, state) == [plugin |-> p, feature |-> f, column |-> c, state |-> state]

FeatureCells(p, f, inst) ==
  [c \in DOMAIN Bundles[plugins[p].stem][f] |-> Value(p, f, c, inst[f])]

\* A plausible bug: the offset moves by one per feature.
ReadByFeature(p, inst, out, from) ==
  LET read[f \in 0..Len(inst)] ==
        IF f = 0 THEN out ELSE Written(read[f - 1], from + f - 1, FeatureCells(p, f, inst))
  IN  read[Len(inst)]

\* Bundle::Read of plugin p into the values from an offset on.
Read(p, inst, out, from) ==
  LET read[f \in 0..Len(inst)] ==
        IF f = 0 THEN [out |-> out, off |-> from]
        ELSE [out |-> Written(read[f - 1].out, read[f - 1].off, FeatureCells(p, f, inst)),
              off |-> read[f - 1].off + Len(Bundles[plugins[p].stem][f])]
  IN  read[Len(inst)].out

-----------------------------------------------------------------------------
(* FeatureCatalog.                                                         *)

Dot == <<".">>

\* The name a plugin is loaded under: the one given, or the stem of its path.
PluginName(stem, name) == IF name = <<>> THEN stem ELSE name

ColumnInfos(index, stem, name) ==
  [c \in 1..Ncol(stem) |-> [name |-> name \o Dot \o Concat(stem)[c].name,
                            cumulative |-> Concat(stem)[c].cumulative,
                            doc |-> Concat(stem)[c].doc, plugin |-> index, local |-> c]]

\* LoadPlugin throws, and leaves the catalog as it was, when there are samplers or
\* when the name is taken.
LoadPlugin(stem, given) ==
  LET name == PluginName(stem, given)
      index == Len(plugins) + 1
  IN  /\ Len(plugins) < MaxPlugins /\ engine = <<>>
      /\ samplers = <<>>
      /\ \A p \in DOMAIN plugins : plugins[p].name # name
      /\ columns' = columns \o ColumnInfos(index, stem, name)
      /\ plugins' = Append(plugins, [name |-> name, stem |-> stem])
      /\ UNCHANGED <<samplers, engine, log>>

\* The first column of a name; 0 where FindColumn throws.
FindColumn(name) == SelectInSeq(columns, LAMBDA c : c.name = name)

\* The columns of a new sampler template, as indices into the catalog's.
Chosen(names) ==
  IF names = <<>> THEN [i \in DOMAIN columns |-> i] ELSE [n \in DOMAIN names |-> FindColumn(names[n])]

Template(name, names, every) ==
  [name |-> name, every |-> every, wanted |-> names,
   names |-> [n \in DOMAIN Chosen(names) |-> columns[Chosen(names)[n]].name],
   columns |-> Chosen(names)]

\* AddSampler throws for a period that is not positive, a name that is taken, and a
\* column that is unknown.
AddSampler(name, names, every) ==
  /\ Len(samplers) < MaxSamplers /\ engine = <<>>
  /\ every > 0
  /\ \A s \in DOMAIN samplers : samplers[s].name # name
  /\ \A n \in DOMAIN names : FindColumn(names[n]) # 0
  /\ samplers' = Append(samplers, Template(name, names, every))
  /\ UNCHANGED <<plugins, columns, engine, log>>

-----------------------------------------------------------------------------
(* FeatureEngine.                                                          *)

Zero == Value(0, 0, 0, NewState)

\* values_.size() as each plugin is added.
Offsets ==
  LET size[p \in 0..Len(plugins)] == IF p = 0 THEN 0 ELSE size[p - 1] + Ncol(plugins[p].stem)
  IN  [p \in DOMAIN plugins |-> size[p - 1]]

\* The constructor: an instance of every plugin, a sampler for every template.
NewEngine ==
  /\ engine = <<>>
  /\ engine' = <<[instances |-> [p \in DOMAIN plugins |-> NewInstance(plugins[p].stem)],
                  offsets   |-> Offsets,
                  values    |-> [c \in DOMAIN columns |-> Zero],
                  fresh     |-> FALSE,
                  samplers  |-> [s \in DOMAIN samplers |->
                                   [count |-> 0, rows |-> <<>>,
                                    last |-> [k \in DOMAIN samplers[s].columns |-> Zero]]]]>>
  /\ UNCHANGED <<catalog, log>>

\* ReadAll, unless the values are fresh.
ReadAll(e) ==
  LET read[p \in 0..Len(plugins)] ==
        IF p = 0 THEN e.values ELSE Read(p, e.instances[p], read[p - 1], e.offsets[p])
  IN  IF e.fresh THEN e ELSE [e EXCEPT !.fresh = TRUE, !.values = read[Len(plugins)]]

\* Sampler::Emit: the cell of a cumulative column is the difference of two values.
Emit(s, m, values) ==
  LET cols == samplers[s].columns
  IN  [m EXCEPT
         !.count = 0,
         !.rows = Append(@, [at |-> Len(log) + 1,
                             cells |-> [k \in DOMAIN cols |->
                                          [value |-> values[cols[k]],
                                           since |-> IF columns[cols[k]].cumulative
                                                     THEN m.last[k] ELSE Zero]]]),
         !.last = [k \in DOMAIN cols |-> IF columns[cols[k]].cumulative
                                         THEN values[cols[k]] ELSE @[k]]]

ResetBaseline(m) == [m EXCEPT !.last = [k \in DOMAIN @ |-> Zero]]

Fires(s, m) == m.count + 1 >= samplers[s].every

\* FeatureEngine::OnEvent.
OnEvent(action) ==
  /\ engine # <<>> /\ Len(log) < MaxEvents
  /\ LET e == engine[1]
         shown == [e EXCEPT
                     !.fresh = FALSE,
                     !.instances = [p \in DOMAIN @ |-> Shown(@[p], action)],
                     !.samplers = IF action = "clear" THEN [s \in DOMAIN @ |-> ResetBaseline(@[s])]
                                                      ELSE @]
         read == ReadAll(shown)
     IN  engine' = <<[(IF \E s \in DOMAIN samplers : Fires(s, shown.samplers[s]) THEN read ELSE shown)
                       EXCEPT !.samplers =
                         [s \in DOMAIN samplers |->
                            LET m == shown.samplers[s]
                            IN  IF Fires(s, m) THEN Emit(s, m, read.values)
                                ELSE [m EXCEPT !.count = @ + 1]]]>>
  /\ log' = Append(log, action)
  /\ UNCHANGED catalog

Init == plugins = <<>> /\ columns = <<>> /\ samplers = <<>> /\ engine = <<>> /\ log = <<>>

Next ==
  \/ \E stem \in DOMAIN Bundles, name \in Names : LoadPlugin(stem, name)
  \/ \E name \in SamplerNames, names \in Selections, every \in Periods : AddSampler(name, names, every)
  \/ NewEngine
  \/ \E action \in {"add", "clear"} : OnEvent(action)

Spec == Init /\ [][Next]_vars

-----------------------------------------------------------------------------
(* Properties.                                                             *)

\* Every column of every feature of the plugins loaded, in order.
Declared ==
  FlattenSeq([p \in DOMAIN plugins |->
    LET stem == plugins[p].stem
    IN  FlattenSeq([f \in DOMAIN Bundles[stem] |->
          [c \in DOMAIN Bundles[stem][f] |->
             [name |-> plugins[p].name \o Dot \o Bundles[stem][f][c].name,
              cumulative |-> Bundles[stem][f][c].cumulative,
              plugin |-> p, feature |-> f, column |-> c]]])])

\* The features of a plugin are shown every event and every Reset, so they all agree.
StateAt(k) == [events |-> Cardinality({j \in 1..k : log[j] # "clear"}),
               resets |-> Cardinality({j \in 1..k : log[j] = "clear"})]
ValueAt(d, k) == Value(d.plugin, d.feature, d.column, StateAt(k))

\* The baseline of the n-th row of a sampler: the row before it, or a Clear since.
Baseline(d, rows, n) ==
  IF n = 1 \/ \E j \in rows[n - 1].at + 1..rows[n].at : log[j] = "clear" THEN Zero
  ELSE ValueAt(d, rows[n - 1].at)

\* The cell under a name is of a feature's column of that name, through the offsets of
\* the features in the bundle, of the bundles in the engine and the sampler's choice; it
\* is as of the row's event; and a cumulative one is against the same column's value
\* in the row before, or since the last Clear.
CellsUnderTheirNames ==
  engine # <<>> =>
    LET declared == Declared
    IN  \A s \in DOMAIN samplers :
          LET rows == engine[1].samplers[s].rows
          IN  \A n \in DOMAIN rows : \A k \in DOMAIN samplers[s].names :
                \E d \in ToSet(declared) :
                  /\ d.name = samplers[s].names[k]
                  /\ rows[n].cells[k].value = ValueAt(d, rows[n].at)
                  /\ rows[n].cells[k].since = IF d.cumulative THEN Baseline(d, rows, n) ELSE Zero
=============================================================================
