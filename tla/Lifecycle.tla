----------------------------- MODULE Lifecycle -----------------------------
(***************************************************************************)
(* One command of nqbook from its arguments to its exit code (main.cpp):   *)
(* what it acquires, in which order, and how it lets go of it again when   *)
(* any of the steps fails.                                                 *)
(*                                                                         *)
(* It acquires the shared objects of the feature plugins and of the        *)
(* adapter (dlopen), the output files, the adapter's state, and for every  *)
(* instrument the state of every feature plugin (nq_init).  States must be *)
(* destroyed through the shared object that made them, hence before it is  *)
(* closed.  What happens while the session runs is module Session's; here  *)
(* it meets instruments and comes to some end.                             *)
(***************************************************************************)
EXTENDS Config, FiniteSets

CONSTANTS PluginNames,  \* stems of the plugin files one may name
          SamplerArgs,  \* the --sampler arguments one may give
          Params,       \* the parameters of an adapter one may give
          MaxArgs,      \* bound on the arguments of a kind
          Instruments   \* the instruments of the feed

ASSUME ArgsAssumption == MaxArgs \in Nat

ASSUME SamplerArgsAssumption == \A t \in SamplerArgs : t.number \in Nat \cup {Missing}

kOk == 0
kPluginLoad == 2
kAbiMismatch == 3
kPluginInit == 4
kSamplerInvalid == 5
kParamsInvalid == 6
kAdapterFailed == 7
kOutputFailed == 8
kInterrupted == 130

Running == -1

Args(S) == UNION {[1..n -> S] : n \in 0..MaxArgs}

VARIABLES cmd,       \* the command line
          pc,        \* where Check or Run is
          loaded,    \* the plugins of the catalog: the indices of cmd.plugins that are open
          specs,     \* the parsed --sampler arguments
          samplers,  \* the catalog's samplers
          asked,     \* the adapter's parameters as given, the .params file first
          params,    \* the adapter's parameters as built
          adapter,   \* what there is of the adapter: its shared object, its state
          files,     \* output files have been opened
          building,  \* the instrument whose pipeline is being made, or Nobody
          states,    \* feature plugin states: pairs of an instrument and a plugin
          code,      \* the exit code
          cause      \* what went wrong: no action reads it

catalog == <<loaded, specs, samplers>>
given == <<asked, params>>
pipelines == <<building, states>>
outcome == <<code, cause>>
vars == <<cmd, pc, catalog, given, adapter, files, pipelines, outcome>>

Nobody == "nobody"
Probe == "probe"

ASSUME InstrumentsAssumption == Instruments \cap {Nobody, Probe} = {}

-----------------------------------------------------------------------------
(* Attempt, and where it goes on.                                          *)

\* A plausible bug: the base class of the plugin errors is looked for first.
ExitCodeForBase(e, fallback) == IF e = "other" THEN fallback ELSE kAdapterFailed

\* ExitCodeFor: the exceptions are named for their classes.  Nothing throws a plain
\* PluginError, for which it has kAdapterFailed.
ExitCodeFor(e, fallback) ==
  CASE e = "AbiMismatchError" -> kAbiMismatch
    [] e = "PluginInitError"  -> kPluginInit
    [] e = "PluginLoadError"  -> kPluginLoad
    [] OTHER                  -> fallback

\* The step threw e: the command returns.
Throws(e, fallback, what) ==
  /\ code' = ExitCodeFor(e, fallback)
  /\ cause' = what
  /\ pc' = "unwind"

Goes(to) == pc' = to /\ UNCHANGED <<outcome>>

-----------------------------------------------------------------------------
(* LoadCatalog.                                                            *)

\* ParseSamplerSpec of every --sampler, before anything is touched.
ParseSamplers ==
  /\ pc = "specs"
  /\ specs' = [n \in DOMAIN cmd.samplers |-> ParseSamplerSpec(cmd.samplers[n])]
  /\ IF \E n \in DOMAIN specs' : specs'[n] = Bad
     THEN Throws("other", kSamplerInvalid, "sampler") ELSE Goes("params")
  /\ UNCHANGED <<cmd, loaded, samplers, given, adapter, files, pipelines>>

\* DescribePluginFile of every plugin and ScanPluginDir.
DescribePlugins ==
  /\ pc = "params"
  /\ \/ Goes("plugins")
     \/ Throws("other", kParamsInvalid, "params")
  /\ UNCHANGED <<cmd, catalog, given, adapter, files, pipelines>>

NextPlugin == Cardinality(loaded) + 1

\* The constructors of Plugin and AdapterPlugin throw, and have closed what they
\* opened: no shared object, entry point or schema, or another ABI.
PluginThrows ==
  \/ Throws("PluginLoadError", kPluginLoad, "load")
  \/ Throws("AbiMismatchError", kPluginLoad, "abi")

\* LoadPlugin of the next plugin, whose name may be taken.
LoadPlugin ==
  /\ pc = "plugins"
  /\ UNCHANGED <<cmd, specs, samplers, given, adapter, files, pipelines>>
  /\ LET n == NextPlugin
         taken == \E m \in loaded : cmd.plugins[m] = cmd.plugins[n]
     IN  \/ n > Len(cmd.plugins) /\ Goes("samplers") /\ UNCHANGED loaded
         \/ n <= Len(cmd.plugins) /\ taken
            /\ Throws("other", kPluginLoad, "load") /\ UNCHANGED loaded
         \/ n <= Len(cmd.plugins) /\ ~taken
            /\ \/ Goes("plugins") /\ loaded' = loaded \cup {n}
               \/ PluginThrows /\ UNCHANGED loaded

AfterSamplers == IF cmd.command = "check" THEN "probe" ELSE "adapterParams"

\* The sampler AddSampler is called with.
NextSpec == specs[Len(samplers) + 1]

FindSampler(name) == {m \in DOMAIN samplers : samplers[m].name = name}

\* A plausible bug: a period that has overflowed is not refused.
RefusedTaken == FindSampler(NextSpec.name) # {}

\* A plausible bug: a name that is taken is not refused.
RefusedEmpty == NextSpec.every <= 0

\* AddSampler throws: the name is taken, or the period has overflowed.
Refused == NextSpec.every <= 0 \/ FindSampler(NextSpec.name) # {}

\* AddSampler of the next sampler.
AddSampler ==
  /\ pc = "samplers"
  /\ \/ Len(samplers) = Len(specs) /\ Goes(AfterSamplers) /\ UNCHANGED samplers
     \/ Len(samplers) < Len(specs) /\ Refused
        /\ Throws("other", kSamplerInvalid, "sampler") /\ UNCHANGED samplers
     \/ Len(samplers) < Len(specs) /\ ~Refused
        /\ Goes("samplers") /\ samplers' = Append(samplers, NextSpec)
  /\ UNCHANGED <<cmd, loaded, specs, given, adapter, files, pipelines>>

-----------------------------------------------------------------------------
(* Run, up to the session.                                                 *)

\* A line of the .params file, or an argument, has no key.
Malformed(list) == NoText \in Keys(list)

\* A plausible bug: the files are opened before the adapter's parameters are read.
ParseAdapterParamsLate ==
  /\ pc = "adapterParams"
  /\ asked' \in Args(Params)
  /\ files' = (cmd.out = "parquet")
  /\ \/ ~Malformed(asked') /\ params' = BuildParams(asked') /\ Goes("output")
     \/ UNCHANGED params /\ Throws("other", kParamsInvalid, "params")
  /\ UNCHANGED <<cmd, catalog, adapter, pipelines>>

\* The parameters of the adapter's file, then those of the command line; one without
\* a key is refused, and so is a file that cannot be read.  Nobody sees what an
\* unfinished builder holds.
ParseAdapterParams ==
  /\ pc = "adapterParams"
  /\ asked' \in Args(Params)
  /\ \/ ~Malformed(asked') /\ params' = BuildParams(asked') /\ Goes("output")
     \/ UNCHANGED params /\ Throws("other", kParamsInvalid, "params")
  /\ UNCHANGED <<cmd, catalog, adapter, files, pipelines>>

\* The constructor of ParquetWriter opens the files.
OpenOutput ==
  /\ pc = "output"
  /\ \/ cmd.out # "parquet" /\ Goes("adapter") /\ UNCHANGED files
     \/ cmd.out = "parquet" /\ files' = TRUE
        /\ (Goes("adapter") \/ Throws("other", kOutputFailed, "output"))
  /\ UNCHANGED <<cmd, catalog, given, adapter, pipelines>>

\* The constructor of AdapterPlugin.
LoadAdapter ==
  /\ pc = "adapter"
  /\ \/ adapter' = {"object"} /\ Goes("session")
     \/ UNCHANGED adapter /\ PluginThrows
  /\ UNCHANGED <<cmd, catalog, given, files, pipelines>>

\* Plugin::Create and AdapterPlugin::Create: the plugin refuses.
InitThrows(fallback) == Throws("PluginInitError", fallback, "init")

\* The constructor of Session makes the adapter's state.
CreateSession ==
  /\ pc = "session"
  /\ \/ adapter' = adapter \cup {"state"} /\ Goes("running")
     \/ UNCHANGED adapter /\ InitThrows(kAdapterFailed)
  /\ UNCHANGED <<cmd, catalog, given, files, pipelines>>

-----------------------------------------------------------------------------
(* The session, and the pipeline `check' makes to try the plugins.         *)

MetInstruments == {s[1] : s \in states}

\* The first event of an instrument makes its pipeline.
Meet(i) ==
  /\ pc = "running" /\ building = Nobody /\ i \notin MetInstruments
  /\ building' = i
  /\ UNCHANGED <<cmd, pc, catalog, given, adapter, files, states, outcome>>

Try ==
  /\ pc = "probe" /\ building = Nobody
  /\ building' = Probe
  /\ UNCHANGED <<cmd, pc, catalog, given, adapter, files, states, outcome>>

MadeFor(i) == {s \in states : s[1] = i}

\* A plausible bug: a failed plugin leaves the states made before it behind.
Abandoned(i) == states

\* The states left when the constructor of FeatureEngine throws.
Dropped(i) == states \ MadeFor(i)

\* The constructor of FeatureEngine: nq_init of the next plugin.
InitPlugin ==
  /\ building # Nobody /\ Cardinality(MadeFor(building)) < Cardinality(loaded)
  /\ LET n == Cardinality(MadeFor(building)) + 1
     IN  \/ states' = states \cup {<<building, n>>} /\ UNCHANGED <<pc, building, outcome>>
         \/ /\ InitThrows(IF pc = "probe" THEN kPluginInit ELSE kAdapterFailed)
            /\ states' = Dropped(building) /\ building' = Nobody
  /\ UNCHANGED <<cmd, catalog, given, adapter, files>>

Built == building # Nobody /\ Cardinality(MadeFor(building)) = Cardinality(loaded)

\* The pipeline is in the table ...
EnterPipeline ==
  /\ pc = "running" /\ Built
  /\ building' = Nobody
  /\ UNCHANGED <<cmd, pc, catalog, given, adapter, files, states, outcome>>

\* ... or, if it was only a probe, gone again.
CheckEnds ==
  /\ pc = "probe" /\ Built
  /\ building' = Nobody /\ states' = Dropped(Probe)
  /\ code' = kOk /\ cause' = "none" /\ pc' = "unwind"
  /\ UNCHANGED <<cmd, catalog, given, adapter, files>>

\* Session::Run has returned; with CSV output the rows are written now.
Ends(c, what) == code' = c /\ cause' = what /\ pc' = "unwind"

RunEnds ==
  /\ pc = "running" /\ building = Nobody
  /\ \/ cmd.out # "none" /\ Ends(kOutputFailed, "output")
     \/ Ends(kInterrupted, "interrupted")
     \/ Ends(kAdapterFailed, "adapter")
     \/ Ends(kOk, "none")
  /\ files' = (files \/ cmd.out = "csv")
  /\ UNCHANGED <<cmd, catalog, given, adapter, pipelines>>

-----------------------------------------------------------------------------
(* Leaving Run or Check destroys its locals, the last one first: the       *)
(* session (its pipelines, then its adapter), the adapter plugin, and the  *)
(* catalog with its plugins.                                               *)

DestroyPipeline ==
  /\ pc = "unwind"
  /\ \E i \in MetInstruments : states' = Dropped(i)
  /\ UNCHANGED <<cmd, pc, catalog, given, adapter, files, building, outcome>>

DestroyAdapter ==
  /\ pc = "unwind" /\ states = {} /\ "state" \in adapter
  /\ adapter' = adapter \ {"state"}
  /\ UNCHANGED <<cmd, pc, catalog, given, files, pipelines, outcome>>

CloseAdapter ==
  /\ pc = "unwind" /\ states = {} /\ adapter = {"object"}
  /\ adapter' = {}
  /\ UNCHANGED <<cmd, pc, catalog, given, files, pipelines, outcome>>

\* A plausible bug: the catalog is declared after the session, and dies before it.
ClosePluginEarly ==
  /\ pc = "unwind" /\ loaded # {}
  /\ \E n \in loaded : loaded' = loaded \ {n}
  /\ UNCHANGED <<cmd, pc, specs, samplers, given, adapter, files, pipelines, outcome>>

ClosePlugin ==
  /\ pc = "unwind" /\ states = {} /\ adapter = {} /\ loaded # {}
  /\ \E n \in loaded : loaded' = loaded \ {n}
  /\ UNCHANGED <<cmd, pc, specs, samplers, given, adapter, files, pipelines, outcome>>

Exit ==
  /\ pc = "unwind" /\ states = {} /\ adapter = {} /\ loaded = {}
  /\ pc' = "exited"
  /\ UNCHANGED <<cmd, catalog, given, adapter, files, pipelines, outcome>>

\* The process has ended.
Exited == pc = "exited" /\ UNCHANGED vars

FirstStep(command) == IF command = "check-feed" THEN "adapterParams" ELSE "specs"

\* check takes no output and no adapter, check-feed only an adapter.
Init ==
  /\ \/ cmd \in [command : {"run"}, out : {"none", "parquet", "csv"},
                 plugins : Args(PluginNames), samplers : Args(SamplerArgs)]
     \/ cmd \in [command : {"check"}, out : {"none"},
                 plugins : Args(PluginNames), samplers : Args(SamplerArgs)]
     \/ cmd \in [command : {"check-feed"}, out : {"none"}, plugins : {<<>>}, samplers : {<<>>}]
  /\ pc = FirstStep(cmd.command)
  /\ loaded = {} /\ specs = <<>> /\ samplers = <<>> /\ asked = <<>> /\ params = <<>>
  /\ adapter = {} /\ files = FALSE
  /\ building = Nobody /\ states = {} /\ code = Running /\ cause = "none"

Next ==
  \/ ParseSamplers \/ DescribePlugins \/ LoadPlugin \/ AddSampler
  \/ ParseAdapterParams \/ OpenOutput \/ LoadAdapter \/ CreateSession
  \/ (\E i \in Instruments : Meet(i)) \/ Try \/ InitPlugin
  \/ EnterPipeline \/ CheckEnds \/ RunEnds
  \/ DestroyPipeline \/ DestroyAdapter \/ CloseAdapter \/ ClosePlugin \/ Exit \/ Exited

Spec == Init /\ [][Next]_vars

-----------------------------------------------------------------------------
(* Properties.                                                             *)

\* A state is gone before the shared object that made it is closed, and nothing is
\* made through one that is not open, on every way out of a command.
StatesOutlived ==
  /\ \A s \in states : s[2] \in loaded
  /\ "state" \in adapter => "object" \in adapter

\* An instrument has the state of every plugin, or none: when one of the plugins
\* refuses an instrument, the states already made for it go, the others stay.
NoHalfPipeline ==
  \A i \in MetInstruments : i = building \/ MadeFor(i) = {i} \X loaded

\* The manual's table of exit codes.
Meaning(c) ==
  CASE c = kOk -> {"none"}              [] c = kPluginLoad -> {"load"}
    [] c = kAbiMismatch -> {"abi"}      [] c = kPluginInit -> {"init"}
    [] c = kSamplerInvalid -> {"sampler"} [] c = kParamsInvalid -> {"params"}
    [] c = kAdapterFailed -> {"adapter"}  [] c = kOutputFailed -> {"output"}
    [] c = kInterrupted -> {"interrupted"}

\* The exit code tells what went wrong first, in whichever step it was thrown and
\* whatever fallback that step has.
ExitCodeTold == code # Running => cause \in Meaning(code)

\* Codes 5 and 6, which "point at the command line", mean that no output file was
\* touched and that no code of the adapter ran.
RefusedUntouched == code \in {kSamplerInvalid, kParamsInvalid} => ~files /\ adapter = {}

\* Once files are opened or a pipeline is made, no two samplers share a name, and so
\* a file, and no two plugins share one, and so their columns; none is missing.
CatalogUnambiguous ==
  (files /\ code = Running) \/ building # Nobody =>
    /\ Len(samplers) = Len(cmd.samplers) /\ loaded = DOMAIN cmd.plugins
    /\ \A m, n \in DOMAIN samplers : m # n => samplers[m].name # samplers[n].name
    /\ \A m, n \in loaded : m # n => cmd.plugins[m] # cmd.plugins[n]

\* No sampler divides by its period before that is positive, although a duration may
\* overflow while it is parsed; a period that has not overflowed is the one asked for.
PeriodsUsable ==
  \A n \in DOMAIN samplers :
    LET arg == cmd.samplers[n]
        asks == arg.number * IF arg.trigger = "time" THEN Units[arg.unit] ELSE 1
    IN  samplers[n].every > 0 /\ (asks <= IntMax => samplers[n].every = asks)
=============================================================================
