-------------------------- MODULE LifecycleProofs --------------------------
(***************************************************************************)
(* Proofs about Lifecycle for any number of plugins, samplers and          *)
(* instruments. The inductive invariant ties what a command holds to where *)
(* it is: plugins are only closed when nothing they made is left, and a    *)
(* pipeline that is not being made has all of its states or none.          *)
(*                                                                         *)
(* A second invariant, Catalog, says that the samplers in the catalog are  *)
(* those asked for so far, each parsed from its argument without an error; *)
(* two of one name do not get past AddSampler.                             *)
(*                                                                         *)
(* The second part is about PluginHandles, the handles that the commands   *)
(* hold plugins and states through.                                        *)
(***************************************************************************)
EXTENDS Lifecycle, PluginHandles, FiniteSetTheorems, TLAPS

Owners == Instruments \cup {Probe}

\* The plugins are loaded in order, and stay while something is made of them.
Loaded ==
  /\ IsFiniteSet(loaded)
  /\ pc \notin {"unwind", "exited"} \/ states # {} => loaded = 1..Cardinality(loaded)

\* A pipeline has the states of the first plugins while it is made, and then all.
Made ==
  /\ building \in Owners \cup {Nobody} /\ states \subseteq Owners \X Nat
  /\ building # Nobody =>
       \E m \in 0..Cardinality(loaded) : MadeFor(building) = {building} \X (1..m)
  /\ \A i \in Owners \ {building} : MadeFor(i) = {} \/ MadeFor(i) = {i} \X loaded

\* What there is at each place of a command.
Placed ==
  /\ building # Nobody => pc \in {"probe", "running"}
  /\ states # {} => pc \in {"probe", "running", "unwind"}
  /\ pc = "probe" => building = Probe \/ (building = Nobody /\ states = {})
  /\ adapter # {} => pc \in {"session", "running", "unwind"}
  /\ pc = "session" \/ "state" \in adapter => "object" \in adapter
  /\ files => pc \in {"adapter", "session", "running", "unwind", "exited"}
  /\ code # Running => pc \in {"unwind", "exited"}

IInv == Loaded /\ Made /\ Placed /\ ExitCodeTold /\ RefusedUntouched

\* The exit codes as numbers.
USE DEF kOk, kPluginLoad, kAbiMismatch, kPluginInit, kSamplerInvalid, kParamsInvalid,
        kAdapterFailed, kOutputFailed, kInterrupted, Running

-----------------------------------------------------------------------------

LEMMA NobodyOwns == Nobody \notin Owners /\ Probe \in Owners
BY InstrumentsAssumption DEF Nobody, Probe, Owners

LEMMA InitInductive == Init => IInv
<1> SUFFICES ASSUME Init PROVE IInv
  OBVIOUS
<1>1. /\ pc \in {"specs", "adapterParams"} /\ loaded = {} /\ adapter = {} /\ files = FALSE
      /\ building = Nobody /\ states = {} /\ code = Running
  BY DEF Init, FirstStep
<1>2. Loaded
  <2>1. IsFiniteSet({}) /\ Cardinality({}) = 0
    BY FS_EmptySet
  <2>2. 1..0 = {}
    OBVIOUS
  <2>3. QED
    BY <1>1, <2>1, <2>2 DEF Loaded
<1>3. Made
  BY <1>1 DEF Made, MadeFor, Owners
<1>4. Placed
  BY <1>1 DEF Placed
<1>5. ExitCodeTold /\ RefusedUntouched
  BY <1>1 DEF ExitCodeTold, RefusedUntouched
<1>6. QED
  BY <1>2, <1>3, <1>4, <1>5 DEF IInv

\* A step that throws tells what went wrong, and only codes 5 and 6 say that nothing
\* was touched.
LEMMA ThrowsTold ==
  ASSUME \/ Throws("PluginLoadError", kPluginLoad, "load")
         \/ Throws("AbiMismatchError", kPluginLoad, "abi")
         \/ Throws("other", kPluginLoad, "load")
         \/ Throws("PluginInitError", kPluginInit, "init")
         \/ Throws("PluginInitError", kAdapterFailed, "init")
         \/ Throws("other", kOutputFailed, "output")
  PROVE  /\ pc' = "unwind" /\ ExitCodeTold'
         /\ code' \notin {kSamplerInvalid, kParamsInvalid, Running}
BY DEF Throws, ExitCodeFor, ExitCodeTold, Meaning

LEMMA RefusalTold ==
  ASSUME \/ Throws("other", kSamplerInvalid, "sampler")
         \/ Throws("other", kParamsInvalid, "params")
  PROVE  pc' = "unwind" /\ ExitCodeTold' /\ code' # Running
BY DEF Throws, ExitCodeFor, ExitCodeTold, Meaning

\* Nothing has been told before a command unwinds.
LEMMA Untold ==
  ASSUME IInv, pc \notin {"unwind", "exited"}
  PROVE  code = Running
BY DEF IInv, Placed

\* Steps that touch neither plugins nor pipelines.
LEMMA PipelinesUntouched ==
  ASSUME IInv, UNCHANGED <<loaded, states, building>>,
         pc \in {"unwind", "exited"} => pc' \in {"unwind", "exited"}
  PROVE  Loaded' /\ Made'
<1>1. UNCHANGED <<Owners>> /\ \A i : MadeFor(i)' = MadeFor(i)
  BY DEF Owners, MadeFor
<1>2. Loaded'
  BY DEF IInv, Loaded
<1>3. Made'
  BY <1>1 DEF IInv, Made
<1>4. QED
  BY <1>2, <1>3

-----------------------------------------------------------------------------
(* The steps before the session: they refuse or go on.                     *)

LEMMA RefusingInductive ==
  ASSUME IInv, ParseSamplers \/ DescribePlugins \/ AddSampler \/ ParseAdapterParams
  PROVE  IInv'
<1>1. /\ pc \in {"specs", "params", "samplers", "adapterParams"}
      /\ UNCHANGED <<loaded, states, building, adapter, files>>
  BY DEF ParseSamplers, DescribePlugins, AddSampler, ParseAdapterParams, given, pipelines, catalog
<1>2. adapter = {} /\ ~files /\ states = {} /\ building = Nobody /\ code = Running
  BY <1>1, Untold DEF IInv, Placed
<1>3. \/ /\ pc' \in {"params", "plugins", "samplers", "probe", "adapterParams", "output"}
         /\ UNCHANGED outcome
      \/ Throws("other", kSamplerInvalid, "sampler")
      \/ Throws("other", kParamsInvalid, "params")
  BY DEF ParseSamplers, DescribePlugins, AddSampler, ParseAdapterParams, Goes, AfterSamplers
<1>4. Loaded' /\ Made'
  BY <1>1, PipelinesUntouched
<1>5. ExitCodeTold' /\ (pc' = "unwind" \/ code' = Running) /\ pc' # "session"
  BY <1>2, <1>3, RefusalTold DEF outcome, ExitCodeTold
<1>6. Placed'
  BY <1>1, <1>2, <1>5 DEF Placed
<1>7. RefusedUntouched'
  BY <1>1, <1>2 DEF RefusedUntouched
<1>8. QED
  BY <1>4, <1>5, <1>6, <1>7 DEF IInv

\* The files are opened after everything that is refused, the adapter after the files.
LEMMA AcquiringInductive ==
  ASSUME IInv, OpenOutput \/ LoadAdapter \/ CreateSession
  PROVE  IInv'
<1>1. pc \in {"output", "adapter", "session"} /\ UNCHANGED <<loaded, states, building>>
  BY DEF OpenOutput, LoadAdapter, CreateSession, pipelines, catalog
<1>2. states = {} /\ building = Nobody /\ code = Running
  BY <1>1, Untold DEF IInv, Placed
<1>3. \/ pc' \in {"adapter", "session", "running"} /\ UNCHANGED outcome
      \/ Throws("other", kOutputFailed, "output")
      \/ Throws("PluginLoadError", kPluginLoad, "load")
      \/ Throws("AbiMismatchError", kPluginLoad, "abi")
      \/ Throws("PluginInitError", kAdapterFailed, "init")
  BY DEF OpenOutput, LoadAdapter, CreateSession, Goes, PluginThrows, InitThrows
<1>4. Loaded' /\ Made'
  BY <1>1, PipelinesUntouched
<1>5. ExitCodeTold' /\ code' \notin {kSamplerInvalid, kParamsInvalid}
      /\ (pc' = "unwind" \/ code' = Running)
  BY <1>2, <1>3, ThrowsTold DEF outcome, ExitCodeTold
<1>6. Placed'
  <2>1. CASE OpenOutput
    BY <2>1, <1>1, <1>2, <1>3, <1>5, ThrowsTold DEF OpenOutput, Goes, Throws, IInv, Placed
  <2>2. CASE LoadAdapter
    BY <2>2, <1>1, <1>2, <1>3, <1>5, ThrowsTold DEF LoadAdapter, Goes, PluginThrows, Throws,
       IInv, Placed
  <2>3. CASE CreateSession
    BY <2>3, <1>1, <1>2, <1>3, <1>5, ThrowsTold DEF CreateSession, Goes, InitThrows, Throws,
       IInv, Placed
  <2>4. QED
    BY <2>1, <2>2, <2>3
<1>7. RefusedUntouched'
  BY <1>5 DEF RefusedUntouched
<1>8. QED
  BY <1>4, <1>5, <1>6, <1>7 DEF IInv

\* The plugins are loaded one after the other.
LEMMA LoadPluginInductive == ASSUME IInv, LoadPlugin PROVE IInv'
<1>1. pc = "plugins" /\ UNCHANGED <<states, building, adapter, files>>
  BY DEF LoadPlugin, pipelines
<1>2. adapter = {} /\ ~files /\ states = {} /\ building = Nobody /\ code = Running
  BY <1>1, Untold DEF IInv, Placed
<1>3. \/ loaded' = loaded \/ loaded' = loaded \cup {Cardinality(loaded) + 1}
  BY DEF LoadPlugin, NextPlugin
<1>4. \/ pc' \in {"samplers", "plugins"} /\ UNCHANGED outcome
      \/ Throws("other", kPluginLoad, "load")
      \/ Throws("PluginLoadError", kPluginLoad, "load")
      \/ Throws("AbiMismatchError", kPluginLoad, "abi")
  BY DEF LoadPlugin, Goes, PluginThrows
<1>5. Loaded'
  <2>1. IsFiniteSet(loaded) /\ loaded = 1..Cardinality(loaded) /\ Cardinality(loaded) \in Nat
    BY <1>1, FS_CardinalityType DEF IInv, Loaded
  <2>2. CASE loaded' = loaded
    BY <2>1, <2>2 DEF Loaded
  <2>3. CASE loaded' = loaded \cup {Cardinality(loaded) + 1}
    <3>1. Cardinality(loaded) + 1 \notin loaded
      BY <2>1
    <3>2. IsFiniteSet(loaded') /\ Cardinality(loaded') = Cardinality(loaded) + 1
      BY <2>1, <2>3, <3>1, FS_AddElement
    <3>3. loaded' = 1..Cardinality(loaded) + 1
      BY <2>1, <2>3
    <3>4. QED
      BY <3>2, <3>3 DEF Loaded
  <2>4. QED
    BY <1>3, <2>2, <2>3
<1>6. Made'
  BY <1>1, <1>2 DEF Made, MadeFor, Owners
<1>7. ExitCodeTold' /\ code' \notin {kSamplerInvalid, kParamsInvalid}
      /\ (pc' = "unwind" \/ code' = Running) /\ pc' # "session"
  BY <1>2, <1>4, ThrowsTold DEF outcome, ExitCodeTold
<1>8. Placed' /\ RefusedUntouched'
  BY <1>1, <1>2, <1>7 DEF Placed, RefusedUntouched
<1>9. QED
  BY <1>5, <1>6, <1>7, <1>8 DEF IInv

-----------------------------------------------------------------------------
(* The session and the probe.                                              *)

\* The states of the first m plugins are m states.
LEMMA CountMade ==
  ASSUME NEW i, NEW m \in Nat
  PROVE  Cardinality({i} \X (1..m)) = m
<1>1. IsFiniteSet({i}) /\ Cardinality({i}) = 1
  BY FS_Singleton
<1>2. IsFiniteSet(1..m) /\ Cardinality(1..m) = m
  BY FS_Interval
<1>3. Cardinality({i} \X (1..m)) = 1 * m
  BY <1>1, <1>2, FS_Product
<1>4. QED
  BY <1>3

\* Where pipelines are made nothing has been told, and the plugins are all there.
LEMMA WhileMade ==
  ASSUME IInv, pc \in {"probe", "running"}
  PROVE  /\ code = Running /\ loaded = 1..Cardinality(loaded) /\ Cardinality(loaded) \in Nat
         /\ (pc = "probe" => adapter = {} /\ ~files)
BY Untold, FS_CardinalityType DEF IInv, Loaded, Placed

LEMMA BeginsInductive ==
  ASSUME IInv, Try \/ \E i \in Instruments : Meet(i)
  PROVE  IInv'
<1>1. /\ pc \in {"probe", "running"} /\ building = Nobody
      /\ UNCHANGED <<cmd, pc, catalog, given, adapter, files, states, outcome>>
  BY DEF Try, Meet
<1>2. UNCHANGED <<loaded, states, code, cause, pc, adapter, files>>
  BY <1>1 DEF catalog, outcome
<1>3. PICK i \in Owners : building' = i /\ MadeFor(i) = {} /\ (pc = "probe" => i = Probe)
  <2>1. CASE Try
    BY <2>1, <1>1 DEF Try, Owners, MadeFor, IInv, Placed, Nobody, Probe
  <2>2. ASSUME NEW i \in Instruments, Meet(i)
        PROVE  building' = i /\ MadeFor(i) = {} /\ pc = "running" /\ i \in Owners
    BY <2>2 DEF Meet, MetInstruments, MadeFor, Owners
  <2>3. QED
    BY <2>1, <2>2 DEF Owners
<1>4. Loaded' /\ Placed' /\ ExitCodeTold' /\ RefusedUntouched'
  BY <1>1, <1>2, <1>3 DEF IInv, Loaded, Placed, ExitCodeTold, RefusedUntouched
<1>5. UNCHANGED Owners /\ \A j : MadeFor(j)' = MadeFor(j)
  BY <1>2 DEF Owners, MadeFor
<1>6. MadeFor(i) = {i} \X (1..0) /\ 0 \in 0..Cardinality(loaded)
  BY <1>1, <1>3, WhileMade
<1>7. Made'
  <2>1. \A j \in Owners : MadeFor(j)' = {} \/ MadeFor(j)' = {j} \X loaded
    BY <1>1, <1>5, NobodyOwns DEF IInv, Made
  <2>2. \E m \in 0..Cardinality(loaded) : MadeFor(i)' = {i} \X (1..m)
    BY <1>5, <1>6
  <2>3. QED
    BY <2>1, <2>2, <1>2, <1>3, <1>5 DEF IInv, Made
<1>8. QED
  BY <1>4, <1>7 DEF IInv

\* What is left when a pipeline is dropped is what the others have.
LEMMA DroppedLeaves ==
  ASSUME IInv, NEW i, states' = Dropped(i), UNCHANGED loaded,
         building' = Nobody, building \in {i, Nobody}
  PROVE  Made'
<1>1. states' \subseteq states /\ \A j : MadeFor(j)' = IF j = i THEN {} ELSE MadeFor(j)
  BY DEF Dropped, MadeFor
<1>2. \A j \in Owners : MadeFor(j)' = {} \/ MadeFor(j)' = {j} \X loaded
  <2>1. SUFFICES ASSUME NEW j \in Owners, j # i PROVE MadeFor(j) = {} \/ MadeFor(j) = {j} \X loaded
    BY <1>1
  <2>2. j # building
    BY <2>1, NobodyOwns
  <2>3. QED
    BY <2>2 DEF IInv, Made
<1>3. QED
  BY <1>1, <1>2 DEF IInv, Made, Owners

\* The next plugin makes its state, or all the states of the pipeline go.
LEMMA InitPluginInductive == ASSUME IInv, InitPlugin PROVE IInv'
<1>1. /\ building # Nobody /\ pc \in {"probe", "running"}
      /\ UNCHANGED <<cmd, loaded, specs, samplers, adapter, files>>
  BY DEF InitPlugin, IInv, Placed, catalog
<1>2. PICK m \in 0..Cardinality(loaded) : MadeFor(building) = {building} \X (1..m)
  BY <1>1 DEF IInv, Made
<1>3. m \in Nat /\ Cardinality(MadeFor(building)) = m /\ m < Cardinality(loaded)
      /\ loaded = 1..Cardinality(loaded) /\ Cardinality(loaded) \in Nat
  <2>1. loaded = 1..Cardinality(loaded) /\ Cardinality(loaded) \in Nat
    BY <1>1, WhileMade
  <2>2. m \in Nat
    BY <2>1
  <2>3. Cardinality(MadeFor(building)) = m
    BY <1>2, <2>2, CountMade
  <2>4. QED
    BY <2>1, <2>2, <2>3 DEF InitPlugin
<1>4. code = Running
  BY <1>1, WhileMade
<1>5. CASE states' = states \cup {<<building, m + 1>>} /\ UNCHANGED <<pc, building, outcome>>
  <2>1. UNCHANGED Owners /\ building \in Owners /\ m + 1 \in 1..Cardinality(loaded)
    BY <1>1, <1>3 DEF Owners, IInv, Made
  <2>2. \A j : MadeFor(j)' = IF j = building THEN MadeFor(j) \cup {<<building, m + 1>>} ELSE MadeFor(j)
    BY <1>5 DEF MadeFor
  <2>3. MadeFor(building)' = {building} \X (1..m + 1)
    <3>1. 1..m + 1 = 1..m \cup {m + 1}
      BY <1>3
    <3>2. QED
      BY <2>2, <3>1, <1>2, <1>5
  <2>4. Made'
    <3>1. states' \subseteq Owners \X Nat
      BY <1>5, <2>1, <1>3 DEF IInv, Made
    <3>2. m + 1 \in 0..Cardinality(loaded)
      BY <2>1
    <3>3. \A i \in Owners \ {building} : MadeFor(i)' = {} \/ MadeFor(i)' = {i} \X loaded
      BY <2>2 DEF IInv, Made
    <3>4. QED
      BY <2>1, <2>3, <3>1, <3>2, <3>3, <1>1, <1>5 DEF IInv, Made
  <2>5. Loaded'
    BY <1>1, <1>3, <1>5 DEF IInv, Loaded
  <2>6. Placed' /\ ExitCodeTold' /\ RefusedUntouched'
    BY <1>1, <1>4, <1>5 DEF outcome, IInv, Placed, ExitCodeTold, RefusedUntouched
  <2>7. QED
    BY <2>4, <2>5, <2>6 DEF IInv
<1>6. CASE /\ InitThrows(IF pc = "probe" THEN kPluginInit ELSE kAdapterFailed)
           /\ states' = Dropped(building) /\ building' = Nobody
  <2>1. \/ Throws("PluginInitError", kPluginInit, "init")
        \/ Throws("PluginInitError", kAdapterFailed, "init")
    BY <1>6 DEF InitThrows
  <2>2. pc' = "unwind" /\ ExitCodeTold' /\ code' \notin {kSamplerInvalid, kParamsInvalid, Running}
    BY <2>1, ThrowsTold
  <2>3. Made'
    BY <1>1, <1>6, DroppedLeaves
  <2>4. Loaded'
    BY <1>1, <1>3 DEF IInv, Loaded
  <2>5. Placed' /\ RefusedUntouched'
    BY <1>1, <1>6, <2>2 DEF IInv, Placed, RefusedUntouched
  <2>6. QED
    BY <2>2, <2>3, <2>4, <2>5 DEF IInv
<1>7. QED
  BY <1>3, <1>5, <1>6 DEF InitPlugin

\* A pipeline that has all of its states counts as made.
LEMMA BuiltWhole ==
  ASSUME IInv, Built, pc \in {"probe", "running"}
  PROVE  MadeFor(building) = {building} \X loaded
<1>1. PICK m \in 0..Cardinality(loaded) : MadeFor(building) = {building} \X (1..m)
  BY DEF Built, IInv, Made
<1>2. loaded = 1..Cardinality(loaded) /\ Cardinality(loaded) \in Nat
  BY WhileMade
<1>3. m \in Nat /\ Cardinality(MadeFor(building)) = m
  <2>1. m \in Nat
    BY <1>2
  <2>2. QED
    BY <1>1, <2>1, CountMade
<1>4. QED
  BY <1>1, <1>2, <1>3 DEF Built

LEMMA EnterPipelineInductive == ASSUME IInv, EnterPipeline PROVE IInv'
<1>1. /\ pc = "running" /\ building' = Nobody
      /\ UNCHANGED <<pc, loaded, adapter, files, states, code, cause>>
  BY DEF EnterPipeline, catalog, outcome
<1>2. MadeFor(building) = {building} \X loaded
  BY <1>1, BuiltWhole DEF EnterPipeline
<1>3. UNCHANGED Owners /\ \A i : MadeFor(i)' = MadeFor(i)
  BY <1>1 DEF Owners, MadeFor
<1>4. Made'
  BY <1>1, <1>2, <1>3 DEF IInv, Made
<1>5. QED
  BY <1>1, <1>4 DEF IInv, Loaded, Placed, ExitCodeTold, RefusedUntouched

LEMMA CheckEndsInductive == ASSUME IInv, CheckEnds PROVE IInv'
<1>1. /\ pc = "probe" /\ pc' = "unwind" /\ building' = Nobody /\ states' = Dropped(Probe)
      /\ code' = kOk /\ cause' = "none" /\ UNCHANGED <<loaded, adapter, files>>
  BY DEF CheckEnds, catalog
<1>2. building \in {Probe, Nobody}
  BY <1>1 DEF IInv, Placed, CheckEnds
<1>3. Made'
  BY <1>1, <1>2, DroppedLeaves
<1>4. Loaded'
  BY <1>1, WhileMade DEF IInv, Loaded
<1>5. QED
  BY <1>1, <1>3, <1>4 DEF IInv, Placed, ExitCodeTold, RefusedUntouched, Meaning

LEMMA RunEndsInductive == ASSUME IInv, RunEnds PROVE IInv'
<1>1. /\ pc = "running" /\ pc' = "unwind" /\ building = Nobody
      /\ UNCHANGED <<loaded, adapter, building, states>>
  BY DEF RunEnds, Ends, catalog, pipelines
<1>2. ExitCodeTold' /\ code' \notin {kSamplerInvalid, kParamsInvalid}
  BY DEF RunEnds, Ends, ExitCodeTold, Meaning
<1>3. Loaded' /\ Made'
  BY <1>1, PipelinesUntouched
<1>4. Placed' /\ RefusedUntouched'
  BY <1>1, <1>2 DEF IInv, Placed, RefusedUntouched
<1>5. QED
  BY <1>2, <1>3, <1>4 DEF IInv

-----------------------------------------------------------------------------
(* The way out.                                                            *)

LEMMA DestroyPipelineInductive == ASSUME IInv, DestroyPipeline PROVE IInv'
<1>1. PICK i : states' = Dropped(i)
  BY DEF DestroyPipeline
<1>2. /\ pc = "unwind" /\ building = Nobody
      /\ UNCHANGED <<pc, loaded, adapter, files, building, code, cause>>
  BY DEF DestroyPipeline, catalog, outcome, IInv, Placed
<1>3. Made'
  BY <1>1, <1>2, DroppedLeaves
<1>4. states' # {} => states # {}
  BY <1>1 DEF Dropped
<1>5. QED
  BY <1>2, <1>3, <1>4 DEF IInv, Loaded, Placed, ExitCodeTold, RefusedUntouched

LEMMA LetsGoInductive ==
  ASSUME IInv, DestroyAdapter \/ CloseAdapter \/ Exit \/ Exited
  PROVE  IInv'
<1>1. /\ pc \in {"unwind", "exited"} /\ pc' \in {"unwind", "exited"}
      /\ UNCHANGED <<loaded, states, building, files, code, cause>>
  BY DEF DestroyAdapter, CloseAdapter, Exit, Exited, vars, catalog, outcome, pipelines
<1>2. adapter' \subseteq adapter /\ ("state" \in adapter' => "object" \in adapter')
      /\ (adapter' # {} => pc' = "unwind")
  BY DEF DestroyAdapter, CloseAdapter, Exit, Exited, vars, IInv, Placed
<1>3. states' # {} => pc' = "unwind"
  BY <1>1 DEF DestroyAdapter, CloseAdapter, Exit, Exited, vars, IInv, Placed
<1>4. Loaded' /\ Made'
  BY <1>1, PipelinesUntouched
<1>5. Placed' /\ ExitCodeTold' /\ RefusedUntouched'
  BY <1>1, <1>2, <1>3 DEF IInv, Placed, ExitCodeTold, RefusedUntouched
<1>6. QED
  BY <1>4, <1>5 DEF IInv

LEMMA ClosePluginInductive == ASSUME IInv, ClosePlugin PROVE IInv'
<1>1. /\ pc = "unwind" /\ states = {} /\ building = Nobody
      /\ UNCHANGED <<pc, states, building, adapter, files, code, cause>>
  BY DEF ClosePlugin, outcome, pipelines, IInv, Placed
<1>2. PICK n : loaded' = loaded \ {n}
  BY DEF ClosePlugin
<1>3. IsFiniteSet(loaded')
  BY <1>2, FS_RemoveElement DEF IInv, Loaded
<1>4. Loaded' /\ Made'
  BY <1>1, <1>3 DEF IInv, Loaded, Made, MadeFor, Owners
<1>5. QED
  BY <1>1, <1>4 DEF IInv, Placed, ExitCodeTold, RefusedUntouched

-----------------------------------------------------------------------------
\* What a command holds, and has said, is tied to where it is.
THEOREM Inductive == Spec => []IInv
<1>1. Init => IInv
  BY InitInductive
<1>2. IInv /\ [Next]_vars => IInv'
  <2> SUFFICES ASSUME IInv, [Next]_vars PROVE IInv'
    OBVIOUS
  <2>1. CASE ParseSamplers \/ DescribePlugins \/ AddSampler \/ ParseAdapterParams
    BY <2>1, RefusingInductive
  <2>2. CASE LoadPlugin
    BY <2>2, LoadPluginInductive
  <2>3. CASE OpenOutput \/ LoadAdapter \/ CreateSession
    BY <2>3, AcquiringInductive
  <2>4. CASE Try \/ \E i \in Instruments : Meet(i)
    BY <2>4, BeginsInductive
  <2>5. CASE InitPlugin
    BY <2>5, InitPluginInductive
  <2>6. CASE EnterPipeline
    BY <2>6, EnterPipelineInductive
  <2>7. CASE CheckEnds
    BY <2>7, CheckEndsInductive
  <2>8. CASE RunEnds
    BY <2>8, RunEndsInductive
  <2>9. CASE DestroyPipeline
    BY <2>9, DestroyPipelineInductive
  <2>10. CASE DestroyAdapter \/ CloseAdapter \/ Exit \/ Exited
    BY <2>10, LetsGoInductive
  <2>11. CASE ClosePlugin
    BY <2>11, ClosePluginInductive
  <2>12. CASE UNCHANGED vars
    <3>1. UNCHANGED <<pc, loaded, states, building, adapter, files, code, cause>>
      BY <2>12 DEF vars, catalog, pipelines, outcome
    <3>2. Loaded' /\ Made'
      BY <3>1, PipelinesUntouched
    <3>3. QED
      BY <3>1, <3>2 DEF IInv, Placed, ExitCodeTold, RefusedUntouched
  <2>13. QED
    BY <2>1, <2>2, <2>3, <2>4, <2>5, <2>6, <2>7, <2>8, <2>9, <2>10, <2>11, <2>12 DEF Next
<1>3. QED
  BY <1>1, <1>2, PTL DEF Spec

\* Every state a plugin or the adapter made is gone before its shared object is closed,
\* on every way out of every command.
THEOREM Outlived == Spec => []StatesOutlived
<1>1. IInv => StatesOutlived
  <2> SUFFICES ASSUME IInv PROVE StatesOutlived
    OBVIOUS
  <2>1. ASSUME NEW s \in states PROVE s[2] \in loaded
    <3>1. s \in Owners \X Nat /\ s \in MadeFor(s[1]) /\ loaded = 1..Cardinality(loaded)
      BY <2>1 DEF IInv, Made, MadeFor, Loaded
    <3>2. CASE s[1] = building
      <4>1. building # Nobody
        BY <3>1, <3>2, NobodyOwns
      <4>2. PICK m \in 0..Cardinality(loaded) : MadeFor(building) = {building} \X (1..m)
        BY <4>1 DEF IInv, Made
      <4>3. Cardinality(loaded) \in Nat
        BY FS_CardinalityType DEF IInv, Loaded
      <4>4. s[2] \in 1..m /\ m \in Nat
        BY <3>1, <3>2, <4>2, <4>3
      <4>5. QED
        BY <3>1, <4>2, <4>3, <4>4
    <3>3. CASE s[1] # building
      <4>1. MadeFor(s[1]) = {s[1]} \X loaded
        BY <3>1, <3>3 DEF IInv, Made
      <4>2. QED
        BY <3>1, <4>1
    <3>4. QED
      BY <3>2, <3>3
  <2>2. QED
    BY <2>1 DEF IInv, Placed, StatesOutlived
<1>2. QED
  BY <1>1, Inductive, PTL

\* An instrument has the state of every plugin or none, whichever plugin refuses it.
THEOREM WholePipelines == Spec => []NoHalfPipeline
<1>1. IInv => NoHalfPipeline
  <2> SUFFICES ASSUME IInv, NEW i \in MetInstruments, i # building
               PROVE  MadeFor(i) = {i} \X loaded
    BY DEF NoHalfPipeline
  <2>1. PICK s \in states : i = s[1]
    BY DEF MetInstruments
  <2>2. s \in MadeFor(i) /\ i \in Owners
    BY <2>1 DEF MadeFor, IInv, Made
  <2>3. QED
    BY <2>2 DEF IInv, Made
<1>2. QED
  BY <1>1, Inductive, PTL

\* The exit code tells what went wrong first.
THEOREM Told == Spec => []ExitCodeTold
<1>1. IInv => ExitCodeTold
  BY DEF IInv
<1>2. QED
  BY <1>1, Inductive, PTL

\* Codes 5 and 6 mean that no output file and no adapter was touched.
THEOREM Untouched == Spec => []RefusedUntouched
<1>1. IInv => RefusedUntouched
  BY DEF IInv
<1>2. QED
  BY <1>1, Inductive, PTL
-----------------------------------------------------------------------------
(* The catalog.                                                            *)

\* The samplers a command line can ask for.
ParsedArgs == {ParseSamplerSpec(a) : a \in SamplerArgs}

\* Behind the loading of the plugins, and behind that of the samplers.
PluginsDone == {"samplers", "probe", "adapterParams", "output", "adapter", "session", "running"}
SamplersDone == PluginsDone \ {"samplers"}

\* The samplers are parsed in order ...
Parsed ==
  /\ cmd.samplers \in Seq(SamplerArgs) /\ specs \in Seq(ParsedArgs)
  /\ pc = "specs" => specs = <<>>
  /\ pc # "specs" =>
       /\ Len(specs) = Len(cmd.samplers)
       /\ \A n \in 1..Len(specs) : specs[n] = ParseSamplerSpec(cmd.samplers[n])

\* ... and added in order, the first of them so far.
Added ==
  /\ samplers \in Seq(ParsedArgs) /\ Len(samplers) <= Len(specs)
  /\ \A n \in 1..Len(samplers) : samplers[n] = specs[n] /\ samplers[n].every > 0
  /\ \A m, n \in 1..Len(samplers) : m # n => samplers[m].name # samplers[n].name
  /\ pc \in SamplersDone => Len(samplers) = Len(specs)

\* No two of the plugins loaded so far share a name.
Named ==
  /\ cmd.plugins \in Seq(PluginNames) /\ loaded \subseteq 1..Len(cmd.plugins)
  /\ \A m, n \in loaded : m # n => cmd.plugins[m] # cmd.plugins[n]
  /\ pc \in PluginsDone => loaded = 1..Len(cmd.plugins)

\* A command that unwinds has told why.
ToldWhy == pc \in {"unwind", "exited"} => code # Running

Catalog == Parsed /\ Added /\ Named /\ ToldWhy

LEMMA InitCatalog == Init => Catalog
<1> SUFFICES ASSUME Init PROVE Catalog
  OBVIOUS
<1>1. cmd.samplers \in Seq(SamplerArgs) /\ cmd.plugins \in Seq(PluginNames)
  <2>1. ASSUME NEW S PROVE Args(S) \subseteq Seq(S)
    BY ArgsAssumption DEF Args
  <2>2. <<>> \in Seq(SamplerArgs) /\ <<>> \in Seq(PluginNames)
    OBVIOUS
  <2>3. /\ cmd.samplers \in Args(SamplerArgs) \cup {<<>>}
        /\ cmd.plugins \in Args(PluginNames) \cup {<<>>}
    BY DEF Init
  <2>4. QED
    BY <2>1, <2>2, <2>3
<1>2. /\ specs = <<>> /\ samplers = <<>> /\ loaded = {} /\ code = Running
      /\ pc = FirstStep(cmd.command) /\ pc \in {"specs", "adapterParams"}
  BY DEF Init, FirstStep
<1>3. pc = "adapterParams" => cmd.samplers = <<>> /\ cmd.plugins = <<>>
  BY DEF Init, FirstStep
<1>4. Parsed
  BY <1>1, <1>2, <1>3 DEF Parsed
<1>5. Added
  BY <1>2 DEF Added
<1>6. Named
  BY <1>1, <1>2, <1>3 DEF Named, PluginsDone
<1>7. QED
  BY <1>2, <1>4, <1>5, <1>6 DEF Catalog, ToldWhy

\* What is parsed is a number.
LEMMA EveryInt ==
  ASSUME NEW s \in ParsedArgs
  PROVE  s.every \in Int
<1>1. PICK t \in SamplerArgs : s = ParseSamplerSpec(t)
  BY DEF ParsedArgs
<1>2. t.number \in Int /\ FromChars(t.number) \in Int
  BY <1>1, SamplerArgsAssumption DEF FromChars, Missing
<1>3. ParseCount(t) \in Int
  BY <1>2 DEF ParseCount
<1>4. DurationOK(t) => ParseDuration(t) \in Int
  <2>1. SUFFICES ASSUME DurationOK(t) PROVE ParseDuration(t) \in Int
    OBVIOUS
  <2>2. Units[t.unit] \in Int /\ IntMax \in Nat \ {0}
    BY <2>1, ConfigAssumption DEF DurationOK
  <2>3. FromChars(t.number) * Units[t.unit] \in Int
    BY <1>2, <2>2
  <2>4. \A x \in Int : Wrapped(x) \in Int
    BY <2>2 DEF Wrapped
  <2>5. QED
    BY <2>3, <2>4 DEF ParseDuration
<1>5. QED
  BY <1>1, <1>3, <1>4 DEF ParseSamplerSpec, Bad

\* A number that fits is left as it is.
LEMMA WrappedFits ==
  ASSUME NEW x \in Nat, x <= IntMax
  PROVE  Wrapped(x) = x
<1>1. IntMax \in Nat \ {0}
  BY ConfigAssumption
<1>2. (x + IntMax + 1) % (2 * (IntMax + 1)) = x + IntMax + 1
  BY <1>1
<1>3. QED
  BY <1>1, <1>2 DEF Wrapped

\* A usable period is the one asked for, where the product fits.
LEMMA PeriodAsked ==
  ASSUME NEW t \in SamplerArgs, ParseSamplerSpec(t).every > 0,
         t.number * (IF t.trigger = "time" THEN Units[t.unit] ELSE 1) <= IntMax
  PROVE  ParseSamplerSpec(t).every = t.number * (IF t.trigger = "time" THEN Units[t.unit] ELSE 1)
<1>1. t.number \in Nat \cup {Missing} /\ t.number \in Int
  BY SamplerArgsAssumption DEF Missing
<1>2. CASE t.name # NoText /\ t.trigger = "time" /\ DurationOK(t)
  <2>1. Units[t.unit] \in 1..IntMax /\ IntMax \in Nat \ {0}
    BY <1>2, ConfigAssumption DEF DurationOK
  <2>2. t.number \in Nat /\ FromChars(t.number) = t.number
    BY <1>1, <1>2, <2>1 DEF DurationOK, FromChars
  <2>3. t.number * Units[t.unit] \in Nat
    BY <2>1, <2>2
  <2>4. Wrapped(t.number * Units[t.unit]) = t.number * Units[t.unit]
    BY <1>2, <2>3, WrappedFits
  <2>5. QED
    BY <1>2, <2>2, <2>4 DEF ParseSamplerSpec, ParseDuration
<1>3. CASE t.name # NoText /\ t.trigger \in {"events", "trades"} /\ ParseCount(t) > 0
  <2>1. t.trigger # "time" /\ ParseSamplerSpec(t).every = ParseCount(t)
    BY <1>3 DEF ParseSamplerSpec
  <2>2. ParseCount(t) = t.number
    BY <1>1, <1>3 DEF ParseCount, FromChars
  <2>3. QED
    BY <1>1, <2>1, <2>2
<1>4. QED
  BY <1>2, <1>3 DEF ParseSamplerSpec, Bad

-----------------------------------------------------------------------------

\* Steps that touch neither the command line nor the catalog.
LEMMA CatalogUntouched ==
  ASSUME Catalog, UNCHANGED <<cmd, loaded, specs, samplers>>, pc # "specs", pc' # "specs",
         pc' \in SamplersDone => pc \in SamplersDone,
         pc' \in PluginsDone => pc \in PluginsDone,
         pc' \in {"unwind", "exited"} => code' # Running
  PROVE  Catalog'
<1>1. Parsed'
  BY DEF Catalog, Parsed, ParsedArgs
<1>2. Added'
  BY DEF Catalog, Added, ParsedArgs, SamplersDone, PluginsDone
<1>3. Named'
  BY DEF Catalog, Named, PluginsDone
<1>4. QED
  BY <1>1, <1>2, <1>3 DEF Catalog, ToldWhy
\* A step that throws has told why, whatever it throws.
LEMMA ThrowTells ==
  ASSUME NEW e, NEW what,
         \/ Throws(e, kSamplerInvalid, what) \/ Throws(e, kParamsInvalid, what)
         \/ Throws(e, kPluginLoad, what) \/ Throws(e, kOutputFailed, what)
         \/ Throws(e, kPluginInit, what) \/ Throws(e, kAdapterFailed, what)
  PROVE  pc' = "unwind" /\ code' # Running
BY DEF Throws, ExitCodeFor

LEMMA ParseSamplersCatalog == ASSUME Catalog, ParseSamplers PROVE Catalog'
<1>1. /\ pc = "specs" /\ UNCHANGED <<cmd, loaded, samplers>>
      /\ specs' = [n \in DOMAIN cmd.samplers |-> ParseSamplerSpec(cmd.samplers[n])]
      /\ \/ Throws("other", kSamplerInvalid, "sampler")
         \/ pc' = "params" /\ UNCHANGED <<code>>
  BY DEF ParseSamplers, Goes, outcome
<1>2. (pc' = "unwind" /\ code' # Running) \/ pc' = "params"
  BY <1>1, ThrowTells
<1>3. cmd.samplers \in Seq(SamplerArgs) /\ Len(samplers) = 0
  BY <1>1 DEF Catalog, Parsed, Added
<1>4. /\ specs' \in Seq(ParsedArgs) /\ Len(specs') = Len(cmd.samplers)
      /\ \A n \in 1..Len(specs') : specs'[n] = ParseSamplerSpec(cmd.samplers[n])
  <2>1. DOMAIN cmd.samplers = 1..Len(cmd.samplers) /\ Len(cmd.samplers) \in Nat
    BY <1>3
  <2>2. \A n \in 1..Len(cmd.samplers) : ParseSamplerSpec(cmd.samplers[n]) \in ParsedArgs
    BY <1>3 DEF ParsedArgs
  <2>3. QED
    BY <1>1, <2>1, <2>2
<1>5. Parsed'
  BY <1>1, <1>2, <1>3, <1>4 DEF Parsed, ParsedArgs
<1>6. Added'
  BY <1>1, <1>2, <1>3, <1>4 DEF Catalog, Added, ParsedArgs, SamplersDone, PluginsDone
<1>7. Named'
  BY <1>1, <1>2 DEF Catalog, Named, PluginsDone
<1>8. QED
  BY <1>2, <1>5, <1>6, <1>7 DEF Catalog, ToldWhy

LEMMA LoadPluginCatalog == ASSUME Catalog, IInv, LoadPlugin PROVE Catalog'
<1>1. pc = "plugins" /\ UNCHANGED <<cmd, specs, samplers>>
  BY DEF LoadPlugin
<1>2. /\ Cardinality(loaded) \in Nat /\ loaded = 1..Cardinality(loaded)
      /\ loaded \subseteq 1..Len(cmd.plugins) /\ Len(cmd.plugins) \in Nat
  BY <1>1, FS_CardinalityType DEF IInv, Loaded, Catalog, Named
<1>3. \/ /\ NextPlugin > Len(cmd.plugins) /\ UNCHANGED loaded /\ pc' = "samplers"
      \/ /\ UNCHANGED loaded /\ pc' = "unwind" /\ code' # Running
      \/ /\ NextPlugin <= Len(cmd.plugins) /\ loaded' = loaded \cup {NextPlugin}
         /\ \A m \in loaded : cmd.plugins[m] # cmd.plugins[NextPlugin]
         /\ pc' = "plugins"
  <2>1. /\ Throws("other", kPluginLoad, "load") => pc' = "unwind" /\ code' # Running
        /\ PluginThrows => pc' = "unwind" /\ code' # Running
    BY ThrowTells DEF PluginThrows
  <2>2. QED
    BY <2>1 DEF LoadPlugin, Goes
<1>4. Parsed'
  BY <1>1, <1>3 DEF Catalog, Parsed, ParsedArgs
<1>5. Added'
  BY <1>1, <1>3 DEF Catalog, Added, ParsedArgs, SamplersDone, PluginsDone
<1>6. Named'
  <2>1. CASE NextPlugin > Len(cmd.plugins) /\ UNCHANGED loaded /\ pc' = "samplers"
    <3>1. Len(cmd.plugins) = Cardinality(loaded)
      BY <1>2, <2>1 DEF NextPlugin
    <3>2. QED
      BY <1>1, <1>2, <2>1, <3>1 DEF Catalog, Named, PluginsDone
  <2>2. CASE UNCHANGED loaded /\ pc' = "unwind"
    BY <1>1, <2>2 DEF Catalog, Named, PluginsDone
  <2>3. CASE /\ NextPlugin <= Len(cmd.plugins) /\ loaded' = loaded \cup {NextPlugin}
             /\ \A m \in loaded : cmd.plugins[m] # cmd.plugins[NextPlugin]
             /\ pc' = "plugins"
    <3>1. NextPlugin \in 1..Len(cmd.plugins)
      BY <1>2, <2>3 DEF NextPlugin
    <3>2. QED
      BY <1>1, <2>3, <3>1 DEF Catalog, Named, PluginsDone
  <2>4. QED
    BY <1>3, <2>1, <2>2, <2>3
<1>7. QED
  BY <1>3, <1>4, <1>5, <1>6 DEF Catalog, ToldWhy

LEMMA AddSamplerCatalog == ASSUME Catalog, AddSampler PROVE Catalog'
<1>1. pc = "samplers" /\ UNCHANGED <<cmd, loaded, specs>>
  BY DEF AddSampler
<1>2. \/ /\ Len(samplers) = Len(specs) /\ UNCHANGED samplers /\ pc' \in {"probe", "adapterParams"}
      \/ /\ UNCHANGED samplers /\ pc' = "unwind" /\ code' # Running
      \/ /\ Len(samplers) < Len(specs) /\ ~Refused /\ samplers' = Append(samplers, NextSpec)
         /\ pc' = "samplers"
  BY ThrowTells DEF AddSampler, Goes, AfterSamplers
<1>3. Parsed'
  BY <1>1, <1>2 DEF Catalog, Parsed, ParsedArgs
<1>4. Named'
  BY <1>1, <1>2 DEF Catalog, Named, PluginsDone
<1>5. Added'
  <2>1. CASE UNCHANGED samplers /\ (Len(samplers) = Len(specs) \/ pc' = "unwind")
    BY <1>1, <2>1 DEF Catalog, Added, ParsedArgs, SamplersDone, PluginsDone
  <2>2. CASE /\ Len(samplers) < Len(specs) /\ ~Refused /\ samplers' = Append(samplers, NextSpec)
             /\ pc' = "samplers"
    <3>1. /\ samplers \in Seq(ParsedArgs) /\ specs \in Seq(ParsedArgs) /\ Len(samplers) \in Nat
          /\ NextSpec \in ParsedArgs /\ NextSpec = specs[Len(samplers) + 1]
      BY <2>2 DEF Catalog, Parsed, Added, NextSpec
    <3>2. NextSpec.every > 0
      BY <2>2, <3>1, EveryInt DEF Refused
    <3>3. \A m \in 1..Len(samplers) : samplers[m].name # NextSpec.name
      BY <2>2, <3>1 DEF Refused, FindSampler
    <3>4. /\ samplers' \in Seq(ParsedArgs) /\ Len(samplers') = Len(samplers) + 1
          /\ \A n \in 1..Len(samplers) : samplers'[n] = samplers[n]
          /\ samplers'[Len(samplers) + 1] = NextSpec
      BY <2>2, <3>1
    <3>5. Len(samplers') <= Len(specs')
      BY <1>1, <2>2, <3>1, <3>4
    <3>6. \A n \in 1..Len(samplers') : samplers'[n] = specs'[n] /\ samplers'[n].every > 0
      BY <1>1, <3>1, <3>2, <3>4 DEF Catalog, Added
    <3>7. \A m, n \in 1..Len(samplers') : m # n => samplers'[m].name # samplers'[n].name
      BY <3>1, <3>3, <3>4 DEF Catalog, Added
    <3>8. QED
      BY <2>2, <3>4, <3>5, <3>6, <3>7 DEF Added, ParsedArgs, SamplersDone, PluginsDone
  <2>3. QED
    BY <1>2, <2>1, <2>2
<1>6. QED
  BY <1>2, <1>3, <1>4, <1>5 DEF Catalog, ToldWhy

\* The steps behind the catalog do not touch it, until it is let go of.
LEMMA OthersCatalog ==
  ASSUME Catalog, IInv,
         \/ DescribePlugins \/ ParseAdapterParams \/ OpenOutput \/ LoadAdapter \/ CreateSession
         \/ (\E i \in Instruments : Meet(i)) \/ Try \/ InitPlugin
         \/ EnterPipeline \/ CheckEnds \/ RunEnds
         \/ DestroyPipeline \/ DestroyAdapter \/ CloseAdapter \/ Exit \/ UNCHANGED vars
  PROVE  Catalog'
<1>1. UNCHANGED <<cmd, loaded, specs, samplers>>
  BY DEF DescribePlugins, ParseAdapterParams, OpenOutput, LoadAdapter, CreateSession, Meet, Try,
         InitPlugin, EnterPipeline, CheckEnds, RunEnds, DestroyPipeline, DestroyAdapter,
         CloseAdapter, Exit, vars, catalog
<1>2. CASE UNCHANGED vars
  <2>1. UNCHANGED <<pc, code>>
    BY <1>2 DEF vars, outcome
  <2>2. Parsed' /\ Added' /\ Named' /\ ToldWhy'
    BY <1>1, <2>1 DEF Catalog, Parsed, ParsedArgs, Added, SamplersDone, PluginsDone, Named, ToldWhy
  <2>3. QED
    BY <2>2 DEF Catalog
<1>3. CASE DescribePlugins
  <2>1. pc = "params" /\ (pc' = "plugins" \/ (pc' = "unwind" /\ code' # Running))
    BY <1>3, ThrowTells DEF DescribePlugins, Goes
  <2>2. QED
    BY <1>1, <2>1, CatalogUntouched DEF SamplersDone, PluginsDone
<1>4. CASE ParseAdapterParams \/ OpenOutput \/ LoadAdapter \/ CreateSession
  <2>1. /\ pc \in {"adapterParams", "output", "adapter", "session"}
        /\ \/ pc' \in {"output", "adapter", "session", "running"}
           \/ pc' = "unwind" /\ code' # Running
    BY <1>4, ThrowTells DEF ParseAdapterParams, OpenOutput, LoadAdapter, CreateSession, Goes,
       PluginThrows, InitThrows
  <2>2. QED
    BY <1>1, <2>1, CatalogUntouched DEF SamplersDone, PluginsDone
<1>5. CASE InitPlugin
  <2>1. pc \in {"probe", "running"}
    BY <1>5 DEF InitPlugin, IInv, Placed
  <2>2. pc' = pc \/ (pc' = "unwind" /\ code' # Running)
    <3>1. CASE UNCHANGED <<pc, building, outcome>>
      BY <3>1
    <3>2. CASE InitThrows(IF pc = "probe" THEN kPluginInit ELSE kAdapterFailed)
      BY <3>2, ThrowTells DEF InitThrows
    <3>3. QED
      BY <1>5, <3>1, <3>2 DEF InitPlugin
  <2>3. QED
    BY <1>1, <2>1, <2>2, CatalogUntouched DEF SamplersDone, PluginsDone
<1>6. CASE CheckEnds \/ RunEnds
  <2>1. pc \in {"probe", "running"} /\ pc' = "unwind" /\ code' # Running
    BY <1>6 DEF CheckEnds, RunEnds, Ends
  <2>2. QED
    BY <1>1, <2>1, CatalogUntouched DEF SamplersDone, PluginsDone
<1>7. CASE \/ (\E i \in Instruments : Meet(i)) \/ Try \/ EnterPipeline
           \/ DestroyPipeline \/ DestroyAdapter \/ CloseAdapter \/ Exit
  <2>1. /\ code' = code
        /\ \/ pc' = pc /\ pc \in {"running", "probe", "unwind"}
           \/ pc = "unwind" /\ pc' = "exited"
    BY <1>7 DEF Meet, Try, EnterPipeline, DestroyPipeline, DestroyAdapter, CloseAdapter, Exit,
       outcome
  <2>2. pc \in {"unwind", "exited"} => code # Running
    BY DEF Catalog, ToldWhy
  <2>3. QED
    BY <1>1, <2>1, <2>2, CatalogUntouched DEF SamplersDone, PluginsDone
<1>8. QED
  BY <1>2, <1>3, <1>4, <1>5, <1>6, <1>7

LEMMA ClosePluginCatalog == ASSUME Catalog, ClosePlugin PROVE Catalog'
<1>1. /\ pc = "unwind" /\ loaded' \subseteq loaded
      /\ UNCHANGED <<cmd, pc, specs, samplers, code>>
  BY DEF ClosePlugin, outcome
<1>2. Parsed' /\ Added' /\ ToldWhy'
  BY <1>1 DEF Catalog, Parsed, ParsedArgs, Added, SamplersDone, PluginsDone, ToldWhy
<1>3. Named'
  BY <1>1 DEF Catalog, Named, PluginsDone
<1>4. QED
  BY <1>2, <1>3 DEF Catalog

\* The catalog holds what the command line asks for, as far as it has been read.
THEOREM CatalogAsAsked == Spec => []Catalog
<1>1. Init => Catalog
  BY InitCatalog
<1>2. Catalog /\ IInv /\ [Next]_vars => Catalog'
  <2> SUFFICES ASSUME Catalog, IInv, [Next]_vars PROVE Catalog'
    OBVIOUS
  <2>1. CASE ParseSamplers
    BY <2>1, ParseSamplersCatalog
  <2>2. CASE LoadPlugin
    BY <2>2, LoadPluginCatalog
  <2>3. CASE AddSampler
    BY <2>3, AddSamplerCatalog
  <2>4. CASE ClosePlugin
    BY <2>4, ClosePluginCatalog
  <2>5. CASE Exited \/ UNCHANGED vars
    <3>1. UNCHANGED vars
      BY <2>5 DEF Exited
    <3>2. QED
      BY <3>1, OthersCatalog
  <2>6. QED
    BY <2>1, <2>2, <2>3, <2>4, <2>5, OthersCatalog DEF Next
<1>3. QED
  BY <1>1, <1>2, Inductive, PTL DEF Spec

\* Once files are opened or a pipeline is made, no two samplers and no two plugins share a
\* name, and none that was asked for is missing.
THEOREM NamesApart == Spec => []CatalogUnambiguous
<1>1. IInv /\ Catalog => CatalogUnambiguous
  <2> SUFFICES ASSUME IInv, Catalog, (files /\ code = Running) \/ building # Nobody
               PROVE  /\ Len(samplers) = Len(cmd.samplers) /\ loaded = DOMAIN cmd.plugins
                      /\ \A m, n \in DOMAIN samplers : m # n => samplers[m].name # samplers[n].name
                      /\ \A m, n \in loaded : m # n => cmd.plugins[m] # cmd.plugins[n]
    BY DEF CatalogUnambiguous
  <2>1. pc \in SamplersDone
    BY DEF IInv, Placed, Catalog, ToldWhy, SamplersDone, PluginsDone
  <2>2. pc # "specs" /\ pc \in PluginsDone
    BY <2>1 DEF SamplersDone, PluginsDone
  <2>3. Len(samplers) = Len(cmd.samplers)
    BY <2>1, <2>2 DEF Catalog, Parsed, Added
  <2>4. loaded = DOMAIN cmd.plugins
    BY <2>2 DEF Catalog, Named
  <2>5. QED
    BY <2>3, <2>4 DEF Catalog, Added, Named
<1>2. QED
  BY <1>1, Inductive, CatalogAsAsked, PTL

\* The period of a sampler is positive, and the one asked for wherever that fits.
THEOREM PeriodsAsAsked == Spec => []PeriodsUsable
<1>1. Catalog => PeriodsUsable
  <2> SUFFICES ASSUME Catalog, NEW n \in DOMAIN samplers
               PROVE  LET arg == cmd.samplers[n]
                          asks == arg.number * IF arg.trigger = "time" THEN Units[arg.unit] ELSE 1
                      IN  samplers[n].every > 0 /\ (asks <= IntMax => samplers[n].every = asks)
    BY DEF PeriodsUsable
  <2>1. /\ n \in 1..Len(samplers) /\ n \in 1..Len(specs)
        /\ samplers[n].every > 0 /\ samplers[n] = specs[n]
    BY DEF Catalog, Parsed, Added
  <2>2. /\ cmd.samplers[n] \in SamplerArgs
        /\ specs[n] = ParseSamplerSpec(cmd.samplers[n])
    BY <2>1 DEF Catalog, Parsed
  <2>3. QED
    BY <2>1, <2>2, PeriodAsked
<1>2. QED
  BY <1>1, CatalogAsAsked, PTL
-----------------------------------------------------------------------------
(***************************************************************************)
(* PluginHandles, for any sets of shared objects, slots and addresses:     *)
(* reference counts equal the handles that hold them, and every state has  *)
(* exactly one owner, which calls the functions of its maker.  (Outlived   *)
(* is what PluginHandles expects of the commands.)                         *)
(*                                                                         *)
(* The inductive invariant adds to the properties that the functions of an *)
(* open plugin are those of its own shared object (FnsMatch), and that a   *)
(* shared object with states has a handle whose constructor has returned   *)
(* (Mapped): the handle under construction may still be rejected, and must *)
(* not be the only one.                                                    *)
(***************************************************************************)

\* An open plugin calls its own shared object.
FnsMatch == \A p \in alive : handle[p] # Nil => fns[p] = handle[p]

\* A shared object that has made states is held by a finished plugin.
Mapped == \A s \in States : maker[s] # Nil => \E p \in alive : handle[p] = maker[s]

\* Instances know who made their states.
ViaMatch == \A i \in Instances : state[i] # Nil => via[i] = maker[state[i]]

\* Every state has an owner, and only one.
Owned == \A s \in States : maker[s] # Nil => \E i \in Instances : state[i] = s
Injective == \A i, j \in Instances : state[i] # Nil /\ state[i] = state[j] => i = j
NotDangling == \A i \in Instances : state[i] # Nil => maker[state[i]] # Nil

PluginInv == OpenAsHeld /\ FnsMatch
StateInv == ViaMatch /\ Owned /\ Injective /\ NotDangling
HandlesInv == TypeOK /\ PluginInv /\ StateInv /\ Mapped

-----------------------------------------------------------------------------
(* Counting handles.                                                       *)

\* The slots whose handle in h is l.
HoldersIn(h, l) == {p \in Plugins : h[p] = l}

LEMMA HoldersFinite ==
  ASSUME NEW h, NEW l
  PROVE  IsFiniteSet(HoldersIn(h, l)) /\ Cardinality(HoldersIn(h, l)) \in Nat
<1>1. HoldersIn(h, l) \subseteq Plugins
  BY DEF HoldersIn
<1> QED
  BY <1>1, HandlesAssumption, FS_Subset, FS_CardinalityType

\* One slot, which did not hold l, does or not.
LEMMA Taking ==
  ASSUME NEW h, NEW g, NEW p \in Plugins, NEW l, h[p] # l,
         \A q \in Plugins \ {p} : g[q] = h[q]
  PROVE  Cardinality(HoldersIn(g, l)) =
           IF g[p] = l THEN Cardinality(HoldersIn(h, l)) + 1 ELSE Cardinality(HoldersIn(h, l))
<1>1. CASE g[p] = l
  <2>1. HoldersIn(g, l) = HoldersIn(h, l) \cup {p}
    BY <1>1 DEF HoldersIn
  <2>2. p \notin HoldersIn(h, l)
    BY DEF HoldersIn
  <2> QED
    BY <1>1, <2>1, <2>2, HoldersFinite, FS_AddElement
<1>2. CASE g[p] # l
  <2>1. HoldersIn(g, l) = HoldersIn(h, l)
    BY <1>2 DEF HoldersIn
  <2> QED
    BY <1>2, <2>1
<1> QED
  BY <1>1, <1>2

\* A handle that moves into a slot that does not hold l changes no count.
LEMMA Moving ==
  ASSUME NEW h \in [Plugins -> Libs \cup {Nil}], NEW g, NEW to \in Plugins, NEW from \in Plugins,
         NEW l, h[to] # l, g[from] # l, g[to] = h[from], to # from,
         \A q \in Plugins \ {to, from} : g[q] = h[q]
  PROVE  Cardinality(HoldersIn(g, l)) = Cardinality(HoldersIn(h, l))
<1> DEFINE H == HoldersIn(h, l)
<1>1. IsFiniteSet(H) /\ Cardinality(H) \in Nat
  BY HoldersFinite
<1>2. CASE h[from] = l
  <2>1. HoldersIn(g, l) = (H \ {from}) \cup {to}
    BY <1>2 DEF HoldersIn
  <2>2. from \in H /\ to \notin H \ {from}
    BY <1>2 DEF HoldersIn
  <2> HIDE DEF H
  <2>3. IsFiniteSet(H \ {from}) /\ Cardinality(H \ {from}) = Cardinality(H) - 1
    BY <1>1, <2>2, FS_RemoveElement
  <2>4. Cardinality((H \ {from}) \cup {to}) = Cardinality(H \ {from}) + 1
    BY <2>2, <2>3, FS_AddElement
  <2> QED
    BY <1>1, <2>1, <2>3, <2>4 DEF H
<1>3. CASE h[from] # l
  BY <1>3 DEF HoldersIn
<1> QED
  BY <1>2, <1>3

\* Two handles of a shared object: when one goes, another is left.
LEMMA OneLeft ==
  ASSUME NEW p \in Plugins, NEW l \in Libs, Cardinality(HoldersIn(handle, l)) > 1
  PROVE  \E q \in Plugins : q # p /\ handle[q] = l
<1> SUFFICES ASSUME \A q \in Plugins : q # p => handle[q] # l PROVE FALSE
  OBVIOUS
<1>1. HoldersIn(handle, l) \subseteq {p}
  BY DEF HoldersIn
<1>2. IsFiniteSet({p}) /\ Cardinality({p}) = 1
  BY FS_Singleton
<1>3. Cardinality(HoldersIn(handle, l)) <= 1
  BY <1>1, <1>2, FS_Subset
<1> QED
  BY <1>3, HoldersFinite

LEMMA SomeHolder ==
  ASSUME OpenAsHeld, NEW l \in Libs, NEW p \in Plugins, handle[p] = l
  PROVE  opens[l] > 0
<1>1. p \in HoldersIn(handle, l) /\ IsFiniteSet(HoldersIn(handle, l))
  BY HoldersFinite DEF HoldersIn
<1>2. Cardinality(HoldersIn(handle, l)) # 0 /\ Cardinality(HoldersIn(handle, l)) \in Nat
  BY <1>1, FS_EmptySet, HoldersFinite
<1>3. opens[l] = Cardinality(HoldersIn(handle, l))
  BY DEF OpenAsHeld, Holders, HoldersIn
<1> QED
  BY <1>2, <1>3

-----------------------------------------------------------------------------
(* The steps.                                                              *)

\* OpenAsHeld in terms of the counted sets.
LEMMA Counts == OpenAsHeld <=> \A l \in Libs : opens[l] = Cardinality(HoldersIn(handle, l))
  BY DEF OpenAsHeld, Holders, HoldersIn

\* Giving up a handle keeps the counts, wherever it happens.
LEMMA ClosedCounts ==
  ASSUME TypeOK, OpenAsHeld, NEW p \in Plugins, NEW g, g[p] = Nil,
         \A q \in Plugins \ {p} : g[q] = handle[q]
  PROVE  /\ Closed(p) \in [Libs -> Nat]
         /\ \A l \in Libs : Closed(p)[l] = Cardinality(HoldersIn(g, l))
<1>1. ASSUME NEW l \in Libs PROVE Closed(p)[l] = Cardinality(HoldersIn(g, l))
  <2>1. g[p] # l
    BY HandlesAssumption
  <2>2. Cardinality(HoldersIn(g, l)) =
          IF handle[p] = l THEN Cardinality(HoldersIn(handle, l)) - 1 ELSE Cardinality(HoldersIn(handle, l))
    <3>1. HoldersIn(g, l) = HoldersIn(handle, l) \ {p}
      BY <2>1 DEF HoldersIn
    <3>2. p \in HoldersIn(handle, l) <=> handle[p] = l
      BY DEF HoldersIn
    <3>3. IsFiniteSet(HoldersIn(handle, l))
      BY HoldersFinite
    <3> QED
      BY <3>1, <3>2, <3>3, FS_RemoveElement
  <2>3. opens[l] = Cardinality(HoldersIn(handle, l))
    BY Counts
  <2> QED
    BY <2>2, <2>3 DEF Closed
<1>2. \A l \in Libs : Closed(p)[l] \in Nat
  BY <1>1, HoldersFinite
<1>3. Closed(p) = [l \in Libs |-> Closed(p)[l]]
  BY DEF Closed
<1> QED
  BY <1>1, <1>2, <1>3

\* The states and their owners are left alone by what happens to plugins.
LEMMA StatesKept == StateInv /\ UNCHANGED instances => StateInv'
  BY DEF StateInv, ViaMatch, Owned, Injective, NotDangling, instances

LEMMA OpenStep ==
  ASSUME HandlesInv, NEW p \in Plugins, NEW l \in Libs, Open(p, l)
  PROVE  HandlesInv'
<1> USE HandlesAssumption
<1>1. handle[p] = Nil
  BY DEF Open, TypeOK, HandlesInv
<1>2. /\ handle' = [handle EXCEPT ![p] = l] /\ opens' = [opens EXCEPT ![l] = @ + 1]
      /\ UNCHANGED <<alive, fns, instances>>
  BY DEF Open
<1>3. ASSUME NEW k \in Libs PROVE opens'[k] = Cardinality(HoldersIn(handle', k))
  <2>1. handle'[p] = l /\ \A q \in Plugins \ {p} : handle'[q] = handle[q]
    BY <1>2 DEF HandlesInv, TypeOK
  <2>2. Cardinality(HoldersIn(handle', k)) =
          IF l = k THEN Cardinality(HoldersIn(handle, k)) + 1 ELSE Cardinality(HoldersIn(handle, k))
    BY <1>1, <2>1, Taking
  <2>3. opens[k] = Cardinality(HoldersIn(handle, k))
    BY Counts DEF HandlesInv, PluginInv
  <2> QED
    BY <1>2, <2>2, <2>3 DEF HandlesInv, TypeOK
<1>4. OpenAsHeld'
  BY <1>3 DEF OpenAsHeld, Holders, HoldersIn
<1>5. TypeOK'
  BY DEF Open, HandlesInv, TypeOK, instances
<1>6. FnsMatch'
  BY <1>1, <1>2 DEF HandlesInv, PluginInv, FnsMatch, Open, TypeOK
<1>7. Mapped'
  BY <1>1, <1>2 DEF HandlesInv, Mapped, TypeOK, instances
<1> QED
  BY <1>2, <1>4, <1>5, <1>6, <1>7, StatesKept DEF HandlesInv, PluginInv

LEMMA AcceptStep ==
  ASSUME HandlesInv, NEW p \in Plugins, Accept(p)
  PROVE  HandlesInv'
<1>1. UNCHANGED <<handle, opens, instances>> /\ alive' = alive \cup {p}
  BY DEF Accept
<1>2. OpenAsHeld'
  BY <1>1 DEF HandlesInv, PluginInv, OpenAsHeld, Holders
<1>3. TypeOK'
  BY HandlesAssumption DEF Accept, HandlesInv, TypeOK, instances
<1>4. FnsMatch'
  BY DEF Accept, HandlesInv, PluginInv, FnsMatch, TypeOK
<1>5. Mapped'
  BY <1>1 DEF HandlesInv, Mapped, instances
<1> QED
  BY <1>1, <1>2, <1>3, <1>4, <1>5, StatesKept DEF HandlesInv, PluginInv

LEMMA RejectStep ==
  ASSUME HandlesInv, NEW p \in Plugins, Reject(p)
  PROVE  HandlesInv'
<1>1. /\ handle' = [handle EXCEPT ![p] = Nil] /\ opens' = Closed(p)
      /\ UNCHANGED <<alive, fns, instances>>
  BY DEF Reject
<1>a. handle'[p] = Nil /\ \A q \in Plugins \ {p} : handle'[q] = handle[q]
  BY <1>1 DEF HandlesInv, TypeOK
<1>b. opens' \in [Libs -> Nat] /\ \A l \in Libs : opens'[l] = Cardinality(HoldersIn(handle', l))
  BY <1>1, <1>a, ClosedCounts DEF HandlesInv, PluginInv
<1>2. OpenAsHeld'
  BY <1>b DEF OpenAsHeld, Holders, HoldersIn
<1>3. TypeOK'
  BY <1>b, HandlesAssumption DEF Reject, HandlesInv, TypeOK, instances
<1>4. FnsMatch'
  BY <1>1 DEF HandlesInv, PluginInv, FnsMatch, TypeOK
<1>5. p \notin alive
  BY HandlesAssumption DEF Reject, HandlesInv, TypeOK
<1>6. Mapped'
  BY <1>1, <1>5 DEF HandlesInv, Mapped, TypeOK, instances
<1> QED
  BY <1>1, <1>2, <1>3, <1>4, <1>6, StatesKept DEF HandlesInv, PluginInv

\* Closing under the client's rule leaves every shared object that has states with a handle.
LEMMA StillMapped ==
  ASSUME HandlesInv, constructing = Nil, NEW p \in alive, MayClose(p), NEW s \in States, maker[s] # Nil
  PROVE  \E q \in alive : q # p /\ handle[q] = maker[s]
<1>1. maker[s] \in Libs /\ p \in Plugins
  BY DEF HandlesInv, TypeOK
<1>2. PICK r \in alive : handle[r] = maker[s]
  BY DEF HandlesInv, Mapped
<1>3. CASE r # p
  BY <1>2, <1>3
<1>4. CASE r = p
  <2>1. handle[p] = maker[s] /\ handle[p] # Nil
    BY <1>2, <1>4
  <2>2. opens[handle[p]] > 1
    BY <2>1 DEF MayClose
  <2>3. opens[handle[p]] = Cardinality(HoldersIn(handle, handle[p]))
    BY <1>1, <2>1, Counts DEF HandlesInv, PluginInv
  <2>4. PICK q \in Plugins : q # p /\ handle[q] = maker[s]
    BY <1>1, <2>1, <2>2, <2>3, OneLeft
  <2>5. q \in alive
    BY <2>1, <2>4, HandlesAssumption DEF HandlesInv, TypeOK
  <2> QED
    BY <2>4, <2>5
<1> QED
  BY <1>3, <1>4

LEMMA DestroyPluginStep ==
  ASSUME HandlesInv, NEW p \in Plugins, DestroyPlugin(p)
  PROVE  HandlesInv'
<1>1. /\ handle' = [handle EXCEPT ![p] = Nil] /\ opens' = Closed(p) /\ alive' = alive \ {p}
      /\ UNCHANGED <<fns, constructing, instances>> /\ p \in alive /\ constructing = Nil /\ MayClose(p)
  BY DEF DestroyPlugin
<1>a. handle'[p] = Nil /\ \A q \in Plugins \ {p} : handle'[q] = handle[q]
  BY <1>1 DEF HandlesInv, TypeOK
<1>b. opens' \in [Libs -> Nat] /\ \A l \in Libs : opens'[l] = Cardinality(HoldersIn(handle', l))
  BY <1>1, <1>a, ClosedCounts DEF HandlesInv, PluginInv
<1>2. OpenAsHeld'
  BY <1>b DEF OpenAsHeld, Holders, HoldersIn
<1>3. TypeOK'
  BY <1>1, <1>b, HandlesAssumption DEF HandlesInv, TypeOK, instances
<1>4. FnsMatch'
  BY <1>1 DEF HandlesInv, PluginInv, FnsMatch, TypeOK
<1>5. Mapped'
  <2> SUFFICES ASSUME NEW s \in States, maker[s] # Nil
               PROVE  \E q \in alive' : handle'[q] = maker[s]
    BY <1>1 DEF Mapped, instances
  <2>1. PICK q \in alive : q # p /\ handle[q] = maker[s]
    BY <1>1, StillMapped
  <2> QED
    BY <1>1, <2>1 DEF HandlesInv, TypeOK
<1> QED
  BY <1>1, <1>2, <1>3, <1>4, <1>5, StatesKept DEF HandlesInv, PluginInv

LEMMA MovePluginStep ==
  ASSUME HandlesInv, NEW to \in Plugins, NEW from \in Plugins, MovePlugin(to, from)
  PROVE  HandlesInv'
<1>1. /\ handle' = [handle EXCEPT ![to] = handle[from], ![from] = Nil]
      /\ fns' = [fns EXCEPT ![to] = fns[from]] /\ alive' = alive \cup {to}
      /\ UNCHANGED <<constructing, opens, instances>>
      /\ from \in alive /\ to \notin alive /\ constructing = Nil
  BY DEF MovePlugin
<1>2. handle[to] = Nil /\ to # from
  BY <1>1, HandlesAssumption DEF HandlesInv, TypeOK
<1>3. /\ handle'[to] = handle[from] /\ handle'[from] = Nil
      /\ \A q \in Plugins \ {to, from} : handle'[q] = handle[q]
  BY <1>1, <1>2 DEF HandlesInv, TypeOK
<1>4. OpenAsHeld'
  <2>1. \A l \in Libs : Cardinality(HoldersIn(handle', l)) = Cardinality(HoldersIn(handle, l))
    BY <1>2, <1>3, Moving, HandlesAssumption DEF HandlesInv, TypeOK
  <2>2. \A l \in Libs : opens'[l] = Cardinality(HoldersIn(handle', l))
    BY <1>1, <2>1, Counts DEF HandlesInv, PluginInv
  <2> QED
    BY <2>2 DEF OpenAsHeld, Holders, HoldersIn
<1>5. TypeOK'
  BY <1>1, HandlesAssumption DEF HandlesInv, TypeOK, instances
<1>6. FnsMatch'
  BY <1>1, <1>2 DEF HandlesInv, PluginInv, FnsMatch, TypeOK
<1>7. Mapped'
  <2> SUFFICES ASSUME NEW s \in States, maker[s] # Nil
               PROVE  \E q \in alive' : handle'[q] = maker[s]
    BY <1>1 DEF Mapped, instances
  <2>1. PICK r \in alive : handle[r] = maker[s]
    BY DEF HandlesInv, Mapped
  <2>2. CASE r = from
    BY <1>1, <1>2, <2>1, <2>2 DEF HandlesInv, TypeOK
  <2>3. CASE r # from
    BY <1>1, <2>1, <2>3 DEF HandlesInv, TypeOK
  <2> QED
    BY <2>2, <2>3
<1> QED
  BY <1>1, <1>4, <1>5, <1>6, <1>7, StatesKept DEF HandlesInv, PluginInv

LEMMA AssignPluginStep ==
  ASSUME HandlesInv, NEW to \in Plugins, NEW from \in Plugins, AssignPlugin(to, from)
  PROVE  HandlesInv'
<1>1. /\ handle' = [handle EXCEPT ![to] = handle[from], ![from] = Nil]
      /\ opens' = Closed(to) /\ fns' = [fns EXCEPT ![to] = fns[from]]
      /\ UNCHANGED <<alive, constructing, instances>>
      /\ from \in alive /\ to \in alive /\ to # from /\ constructing = Nil /\ MayClose(to)
  BY DEF AssignPlugin
<1>2. PICK h \in [Plugins -> Libs \cup {Nil}] :
        h[to] = Nil /\ \A q \in Plugins \ {to} : h[q] = handle[q]
  <2>1. [handle EXCEPT ![to] = Nil] \in [Plugins -> Libs \cup {Nil}]
    BY DEF HandlesInv, TypeOK
  <2> QED
    BY <2>1 DEF HandlesInv, TypeOK
<1>3. opens' \in [Libs -> Nat] /\ \A l \in Libs : opens'[l] = Cardinality(HoldersIn(h, l))
  BY <1>1, <1>2, ClosedCounts DEF HandlesInv, PluginInv
<1>4. /\ handle'[to] = h[from] /\ handle'[from] = Nil
      /\ \A q \in Plugins \ {to, from} : handle'[q] = h[q]
  BY <1>1, <1>2 DEF HandlesInv, TypeOK
<1>5. OpenAsHeld'
  <2>1. \A l \in Libs : Cardinality(HoldersIn(handle', l)) = Cardinality(HoldersIn(h, l))
    <3> SUFFICES ASSUME NEW l \in Libs
                 PROVE  Cardinality(HoldersIn(handle', l)) = Cardinality(HoldersIn(h, l))
      OBVIOUS
    <3>1. h[to] # l /\ handle'[from] # l
      BY <1>2, <1>4, HandlesAssumption
    <3> QED
      <4>1. \A k : /\ k[from] # l /\ k[to] = h[from]
                   /\ \A q \in Plugins \ {to, from} : k[q] = h[q]
                   => Cardinality(HoldersIn(k, l)) = Cardinality(HoldersIn(h, l))
        BY <1>1, <1>2, <3>1, Moving
      <4> QED
        BY <1>4, <3>1, <4>1
  <2> QED
    BY <1>3, <2>1 DEF OpenAsHeld, Holders, HoldersIn
<1>6. TypeOK'
  BY <1>1, <1>3, HandlesAssumption DEF HandlesInv, TypeOK, instances
<1>7. FnsMatch'
  BY <1>1 DEF HandlesInv, PluginInv, FnsMatch, TypeOK
<1>8. Mapped'
  <2> SUFFICES ASSUME NEW s \in States, maker[s] # Nil
               PROVE  \E q \in alive' : handle'[q] = maker[s]
    BY <1>1 DEF Mapped, instances
  <2>1. PICK r \in alive : r # to /\ handle[r] = maker[s]
    BY <1>1, StillMapped
  <2>2. CASE r = from
    BY <1>1, <2>1, <2>2 DEF HandlesInv, TypeOK
  <2>3. CASE r # from
    BY <1>1, <2>1, <2>3 DEF HandlesInv, TypeOK
  <2> QED
    BY <2>2, <2>3
<1> QED
  BY <1>1, <1>5, <1>6, <1>7, <1>8, StatesKept DEF HandlesInv, PluginInv

-----------------------------------------------------------------------------

\* The plugins are left alone by what happens to instances.
LEMMA PluginsKept == PluginInv /\ UNCHANGED plugins => PluginInv'
  BY DEF PluginInv, OpenAsHeld, Holders, FnsMatch, plugins

LEMMA CreateStep ==
  ASSUME HandlesInv, NEW i \in Instances, NEW p \in Plugins, Create(i, p)
  PROVE  HandlesInv'
<1>1. PICK s \in States :
        /\ maker[s] = Nil
        /\ maker' = [maker EXCEPT ![s] = fns[p]] /\ state' = [state EXCEPT ![i] = s]
  BY DEF Create
<1>2. /\ via' = [via EXCEPT ![i] = fns[p]] /\ held' = held \cup {i} /\ UNCHANGED plugins
      /\ p \in alive /\ handle[p] # Nil /\ i \notin held
  BY DEF Create
<1>3. fns[p] = handle[p] /\ fns[p] \in Libs /\ fns[p] # Nil /\ s # Nil
  BY <1>2, HandlesAssumption DEF HandlesInv, PluginInv, FnsMatch, TypeOK
<1>4. TypeOK'
  BY <1>1, <1>2, <1>3 DEF HandlesInv, TypeOK, plugins
<1>5. state[i] = Nil /\ \A j \in Instances : state[j] # s
  BY <1>1, <1>2, <1>3 DEF HandlesInv, TypeOK, StateInv, NotDangling
<1>6. ViaMatch' /\ NotDangling'
  BY <1>1, <1>2, <1>3, <1>5 DEF HandlesInv, TypeOK, StateInv, ViaMatch, NotDangling
<1>7. Owned'
  <2> SUFFICES ASSUME NEW t \in States, maker'[t] # Nil PROVE \E j \in Instances : state'[j] = t
    BY DEF Owned
  <2>1. CASE t = s
    BY <1>1, <2>1 DEF HandlesInv, TypeOK
  <2>2. CASE t # s
    <3>1. PICK j \in Instances : state[j] = t
      BY <1>1, <2>2 DEF HandlesInv, TypeOK, StateInv, Owned
    <3>2. j # i
      BY <1>5, <3>1, HandlesAssumption
    <3> QED
      BY <1>1, <3>1, <3>2 DEF HandlesInv, TypeOK
  <2> QED
    BY <2>1, <2>2
<1>8. Injective'
  BY <1>1, <1>5 DEF HandlesInv, TypeOK, StateInv, Injective
<1>9. Mapped'
  BY <1>1, <1>2, <1>3 DEF HandlesInv, TypeOK, Mapped, plugins
<1> QED
  BY <1>2, <1>4, <1>6, <1>7, <1>8, <1>9, PluginsKept DEF HandlesInv, StateInv

\* What remains once the state of one instance has been released.
LEMMA Releasing ==
  ASSUME HandlesInv, NEW i \in Instances
  PROVE  /\ Released(i) \in [States -> Libs \cup {Nil}]
         /\ \A s \in States : Released(i)[s] = IF s = state[i] THEN Nil ELSE maker[s]
  BY DEF HandlesInv, TypeOK, Released

LEMMA DestroyInstanceStep ==
  ASSUME HandlesInv, NEW i \in Instances, DestroyInstance(i)
  PROVE  HandlesInv'
<1>1. /\ maker' = Released(i) /\ state' = [state EXCEPT ![i] = Nil] /\ held' = held \ {i}
      /\ UNCHANGED <<plugins, via>>
  BY DEF DestroyInstance
<1>2. TypeOK'
  BY <1>1, Releasing DEF HandlesInv, TypeOK, plugins
<1>3. \A s \in States : maker'[s] = IF s = state[i] THEN Nil ELSE maker[s]
  BY <1>1, Releasing
<1>4. \A j \in Instances : state'[j] # Nil => j # i /\ state'[j] = state[j] /\ state[j] # state[i]
  BY <1>1 DEF HandlesInv, TypeOK, StateInv, Injective
<1>5. ViaMatch' /\ NotDangling' /\ Injective'
  BY <1>1, <1>3, <1>4 DEF HandlesInv, TypeOK, StateInv, ViaMatch, NotDangling, Injective
<1>6. Owned'
  BY <1>1, <1>3 DEF HandlesInv, TypeOK, StateInv, Owned
<1>7. Mapped'
  BY <1>1, <1>3 DEF HandlesInv, Mapped, plugins
<1> QED
  BY <1>1, <1>2, <1>5, <1>6, <1>7, PluginsKept DEF HandlesInv, StateInv

LEMMA MoveInstanceStep ==
  ASSUME HandlesInv, NEW to \in Instances, NEW from \in Instances, MoveInstance(to, from)
  PROVE  HandlesInv'
<1>1. /\ state' = [state EXCEPT ![to] = state[from], ![from] = Nil]
      /\ via' = [via EXCEPT ![to] = via[from]] /\ held' = held \cup {to}
      /\ UNCHANGED <<plugins, maker>> /\ from \in held /\ to \notin held
  BY DEF MoveInstance
<1>2. TypeOK'
  BY <1>1 DEF HandlesInv, TypeOK, plugins
<1>3. state[to] = Nil /\ to # from
  BY <1>1 DEF HandlesInv, TypeOK
<1>4. /\ state'[to] = state[from] /\ state'[from] = Nil /\ via'[to] = via[from]
      /\ \A j \in Instances \ {to, from} : state'[j] = state[j] /\ via'[j] = via[j]
  BY <1>1, <1>3 DEF HandlesInv, TypeOK
<1>5. ViaMatch' /\ NotDangling'
  <2> SUFFICES ASSUME NEW j \in Instances, state'[j] # Nil
               PROVE  via'[j] = maker[state'[j]] /\ maker[state'[j]] # Nil
    BY <1>1 DEF ViaMatch, NotDangling
  <2>1. PICK k \in Instances : state'[j] = state[k] /\ via'[j] = via[k]
    BY <1>1, <1>4
  <2>2. via[k] = maker[state[k]] /\ maker[state[k]] # Nil
    BY <2>1 DEF HandlesInv, StateInv, ViaMatch, NotDangling
  <2> QED
    BY <2>1, <2>2
<1>6. Injective'
  <2> SUFFICES ASSUME NEW j \in Instances, NEW k \in Instances, state'[j] # Nil, state'[j] = state'[k]
               PROVE  j = k
    BY DEF Injective
  <2>1. \A x, y \in Instances : state[x] # Nil /\ state[x] = state[y] => x = y
    BY DEF HandlesInv, StateInv, Injective
  <2>2. j # from /\ k # from
    BY <1>1, <1>4
  <2> QED
    BY <1>4, <2>1, <2>2
<1>7. Owned'
  <2> SUFFICES ASSUME NEW s \in States, maker[s] # Nil PROVE \E j \in Instances : state'[j] = s
    BY <1>1 DEF Owned
  <2>1. PICK j \in Instances : state[j] = s
    BY DEF HandlesInv, StateInv, Owned
  <2> QED
    BY <1>3, <1>4, <2>1, HandlesAssumption
<1>8. Mapped'
  BY <1>1 DEF HandlesInv, Mapped, plugins
<1> QED
  BY <1>1, <1>2, <1>5, <1>6, <1>7, <1>8, PluginsKept DEF HandlesInv, StateInv

LEMMA AssignInstanceStep ==
  ASSUME HandlesInv, NEW to \in Instances, NEW from \in Instances, AssignInstance(to, from)
  PROVE  HandlesInv'
<1>1. /\ maker' = Released(to) /\ state' = [state EXCEPT ![to] = state[from], ![from] = Nil]
      /\ via' = [via EXCEPT ![to] = via[from]]
      /\ UNCHANGED <<plugins, held>> /\ from \in held /\ to \in held /\ to # from
  BY DEF AssignInstance
<1>2. TypeOK'
  BY <1>1, Releasing DEF HandlesInv, TypeOK, plugins
<1>3. \A s \in States : maker'[s] = IF s = state[to] THEN Nil ELSE maker[s]
  BY <1>1, Releasing
<1>4. /\ state'[to] = state[from] /\ state'[from] = Nil /\ via'[to] = via[from]
      /\ \A j \in Instances \ {to, from} : state'[j] = state[j] /\ via'[j] = via[j]
  BY <1>1 DEF HandlesInv, TypeOK
<1>5. \A j \in Instances \ {to} : state[j] # Nil => state[j] # state[to]
  BY DEF HandlesInv, StateInv, Injective
<1>6. ViaMatch' /\ NotDangling'
  <2> SUFFICES ASSUME NEW j \in Instances, state'[j] # Nil
               PROVE  via'[j] = maker'[state'[j]] /\ maker'[state'[j]] # Nil
    BY DEF ViaMatch, NotDangling
  <2>1. PICK k \in Instances \ {to} : state'[j] = state[k] /\ via'[j] = via[k]
    BY <1>1, <1>4
  <2>2. state[k] # state[to] /\ state[k] \in States
    BY <1>5, <2>1 DEF HandlesInv, TypeOK
  <2>3. via[k] = maker[state[k]] /\ maker[state[k]] # Nil
    BY <2>1 DEF HandlesInv, StateInv, ViaMatch, NotDangling
  <2> QED
    BY <1>3, <2>1, <2>2, <2>3
<1>7. Injective'
  <2> SUFFICES ASSUME NEW j \in Instances, NEW k \in Instances, state'[j] # Nil, state'[j] = state'[k]
               PROVE  j = k
    BY DEF Injective
  <2>1. \A x, y \in Instances : state[x] # Nil /\ state[x] = state[y] => x = y
    BY DEF HandlesInv, StateInv, Injective
  <2>2. j # from /\ k # from
    BY <1>1, <1>4
  <2> QED
    BY <1>4, <2>1, <2>2
<1>8. Owned'
  <2> SUFFICES ASSUME NEW s \in States, maker[s] # Nil, s # state[to]
               PROVE  \E j \in Instances : state'[j] = s
    BY <1>3 DEF Owned
  <2>1. PICK j \in Instances : state[j] = s
    BY DEF HandlesInv, StateInv, Owned
  <2> QED
    BY <1>4, <2>1
<1>9. Mapped'
  BY <1>1, <1>3 DEF HandlesInv, Mapped, plugins
<1> QED
  BY <1>1, <1>2, <1>6, <1>7, <1>8, <1>9, PluginsKept DEF HandlesInv, StateInv

-----------------------------------------------------------------------------

LEMMA PluginStepsKeep ==
  ASSUME HandlesInv, NEW P \in SUBSET Plugins, PluginSteps(P)
  PROVE  HandlesInv'
  BY OpenStep, AcceptStep, RejectStep, DestroyPluginStep, MovePluginStep, AssignPluginStep DEF PluginSteps

LEMMA InstanceStepsKeep ==
  ASSUME HandlesInv, NEW I \in SUBSET Instances, NEW P \in SUBSET Plugins, InstanceSteps(I, P)
  PROVE  HandlesInv'
  BY CreateStep, DestroyInstanceStep, MoveInstanceStep, AssignInstanceStep DEF InstanceSteps

LEMMA StutterStep == HandlesInv /\ UNCHANGED handleVars => HandlesInv'
<1> SUFFICES ASSUME HandlesInv, UNCHANGED handleVars PROVE HandlesInv'
  OBVIOUS
<1>1. UNCHANGED plugins /\ UNCHANGED instances
  BY DEF handleVars
<1>2. TypeOK'
  BY <1>1 DEF HandlesInv, TypeOK, plugins, instances
<1>3. Mapped'
  BY <1>1 DEF HandlesInv, Mapped, plugins, instances
<1> QED
  BY <1>1, <1>2, <1>3, StatesKept, PluginsKept DEF HandlesInv

LEMMA InitInv == HandlesInit => HandlesInv
<1> SUFFICES ASSUME HandlesInit PROVE HandlesInv
  OBVIOUS
<1>1. TypeOK
  BY HandlesAssumption DEF HandlesInit, TypeOK
<1>2. OpenAsHeld
  <2>1. \A l \in Libs : HoldersIn(handle, l) = {}
    BY HandlesAssumption DEF HandlesInit, HoldersIn
  <2> QED
    BY <2>1, Counts, FS_EmptySet DEF HandlesInit
<1>3. FnsMatch /\ Mapped /\ StateInv
  BY DEF HandlesInit, FnsMatch, Mapped, StateInv, ViaMatch, Owned, Injective, NotDangling
<1> QED
  BY <1>1, <1>2, <1>3 DEF HandlesInv, PluginInv

\* The invariant is inductive.
THEOREM HandlesInductive == HandlesSpec => []HandlesInv
<1>1. HandlesInv /\ [HandlesNext]_handleVars => HandlesInv'
  <2> SUFFICES ASSUME HandlesInv, [HandlesNext]_handleVars PROVE HandlesInv'
    OBVIOUS
  <2>1. /\ FeaturePlugins \in SUBSET Plugins /\ AdapterPlugins \in SUBSET Plugins
        /\ FeatureInstances \in SUBSET Instances /\ AdapterInstances \in SUBSET Instances
    BY DEF Plugins, Instances
  <2>2. CASE FeaturePluginStep
    BY <2>1, <2>2, PluginStepsKeep DEF FeaturePluginStep
  <2>3. CASE AdapterPluginStep
    BY <2>1, <2>3, PluginStepsKeep DEF AdapterPluginStep
  <2>4. CASE PluginInstanceStep
    BY <2>1, <2>4, InstanceStepsKeep DEF PluginInstanceStep
  <2>5. CASE AdapterInstanceStep
    BY <2>1, <2>5, InstanceStepsKeep DEF AdapterInstanceStep
  <2>6. CASE UNCHANGED handleVars
    BY <2>6, StutterStep
  <2> QED
    BY <2>2, <2>3, <2>4, <2>5, <2>6 DEF HandlesNext
<1> QED
  BY InitInv, <1>1, PTL DEF HandlesSpec

\* The variables keep their types, and a slot without an object owns nothing.
THEOREM HandlesTyped == HandlesSpec => []TypeOK
<1>1. HandlesInv => TypeOK
  BY DEF HandlesInv
<1> QED
  BY HandlesInductive, <1>1, PTL

\* Plugin's and AdapterPlugin's constructors, moves and destructors balance dlopen and dlclose.
THEOREM OpensBalanced == HandlesSpec => []OpenAsHeld
<1>1. HandlesInv => OpenAsHeld
  BY DEF HandlesInv, PluginInv
<1> QED
  BY HandlesInductive, <1>1, PTL

\* Every state from nq_init is owned by one instance, and goes to nq_destroy once.
THEOREM OwnedOnce == HandlesSpec => []OneOwner
<1>1. HandlesInv => OneOwner
  <2> SUFFICES ASSUME HandlesInv PROVE OneOwner
    OBVIOUS
  <2>1. \A s \in States : s # Nil
    BY HandlesAssumption
  <2> QED
    BY <2>1 DEF HandlesInv, StateInv, Owned, Injective, NotDangling, OneOwner
<1> QED
  BY HandlesInductive, <1>1, PTL

\* An instance only calls into the shared object that made its state, while it is mapped.
THEOREM CallsOwnFunctions == HandlesSpec => []OwnFunctions
<1>1. HandlesInv => OwnFunctions
  <2> SUFFICES ASSUME HandlesInv, NEW i \in Instances, state[i] # Nil
               PROVE  via[i] = maker[state[i]] /\ opens[via[i]] > 0
    BY DEF OwnFunctions
  <2>1. via[i] = maker[state[i]] /\ maker[state[i]] # Nil /\ state[i] \in States
    BY DEF HandlesInv, StateInv, ViaMatch, NotDangling, TypeOK
  <2>2. PICK p \in alive : handle[p] = maker[state[i]]
    BY <2>1 DEF HandlesInv, Mapped
  <2>3. p \in Plugins /\ via[i] \in Libs /\ handle[p] = via[i]
    BY <2>1, <2>2 DEF HandlesInv, TypeOK
  <2> QED
    BY <2>1, <2>3, SomeHolder DEF HandlesInv, PluginInv
<1> QED
  BY HandlesInductive, <1>1, PTL
=============================================================================
