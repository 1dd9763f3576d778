--------------------------- MODULE PluginHandles ---------------------------
(***************************************************************************)
(* The owning handles of nq::host.  A Plugin owns one dlopen of a shared   *)
(* object, a PluginInstance one state that the shared object has made; so  *)
(* do AdapterPlugin and AdapterInstance for adapters.  All four can be     *)
(* moved and not copied: they travel through vectors that grow, an         *)
(* optional, constructor parameters and members.                           *)
(*                                                                         *)
(* A slot is a place in memory where a handle may live.  The program that  *)
(* uses the handles is free to construct, move, assign and destroy them in *)
(* any order C++ allows, within two rules: it makes states only through a  *)
(* handle that is open, and gives up the last handle of a shared object    *)
(* only when the states made by it are gone (module Lifecycle shows that   *)
(* the commands of nqbook do).                                             *)
(***************************************************************************)
EXTENDS Naturals, FiniteSets

CONSTANTS Libs,              \* shared objects
          FeaturePlugins,    \* slots for a host::Plugin
          AdapterPlugins,    \* slots for a host::AdapterPlugin
          FeatureInstances,  \* slots for a host::PluginInstance
          AdapterInstances,  \* slots for a host::AdapterInstance
          States,            \* addresses at which a plugin may put a state
          Nil                \* the null pointer

Plugins == FeaturePlugins \cup AdapterPlugins
Instances == FeatureInstances \cup AdapterInstances

ASSUME HandlesAssumption ==
  /\ Nil \notin Libs \cup Plugins \cup States
  /\ IsFiniteSet(Plugins)

VARIABLES alive,         \* the plugin slots that hold an object
          handle,        \* handle_
          fns,           \* fns_: the shared object they point into
          constructing,  \* the slot whose constructor is running, or Nil
          opens,         \* dlopen's reference counts
          held,          \* the instance slots that hold an object
          state,         \* state_
          via,           \* fns_ of an instance: the shared object they point into
          maker          \* the shared object that has made the state at an address, if there is one

plugins == <<alive, handle, fns, constructing, opens>>
instances == <<held, state, via, maker>>
handleVars == <<plugins, instances>>

-----------------------------------------------------------------------------
(* Plugin and AdapterPlugin.                                               *)

\* The client's second rule.
MayClose(p) ==
  handle[p] # Nil =>
    opens[handle[p]] > 1 \/ \A s \in States : maker[s] # handle[p]

\* The reference counts once p has dropped its handle, if it has one.
Closed(p) ==
  [l \in Libs |-> IF l = handle[p] THEN opens[l] - 1 ELSE opens[l]]

\* The constructor's dlopen has succeeded; when it fails there is nothing to undo.
Open(p, l) ==
  /\ constructing = Nil /\ p \notin alive
  /\ opens' = [opens EXCEPT ![l] = @ + 1]
  /\ handle' = [handle EXCEPT ![p] = l]
  /\ constructing' = p
  /\ UNCHANGED <<alive, fns, instances>>

\* Every symbol is there, and the schema is one this host reads.
Accept(p) ==
  /\ constructing = p
  /\ fns' = [fns EXCEPT ![p] = handle[p]]
  /\ alive' = alive \cup {p}
  /\ constructing' = Nil
  /\ UNCHANGED <<handle, opens, instances>>

\* A plausible bug: the constructor throws without closing.
RejectLeaving(p) ==
  /\ constructing = p
  /\ handle' = [handle EXCEPT ![p] = Nil]
  /\ constructing' = Nil
  /\ UNCHANGED <<alive, fns, opens, instances>>

\* A symbol is missing, or the schema is refused: no destructor will run.
Reject(p) ==
  /\ constructing = p
  /\ opens' = Closed(p)
  /\ handle' = [handle EXCEPT ![p] = Nil]
  /\ constructing' = Nil
  /\ UNCHANGED <<alive, fns, instances>>

DestroyPlugin(p) ==
  /\ constructing = Nil /\ p \in alive /\ MayClose(p)
  /\ opens' = Closed(p)
  /\ handle' = [handle EXCEPT ![p] = Nil]
  /\ alive' = alive \ {p}
  /\ UNCHANGED <<fns, constructing, instances>>

\* The move constructor.
MovePlugin(to, from) ==
  /\ constructing = Nil /\ from \in alive /\ to \notin alive
  /\ handle' = [handle EXCEPT ![to] = handle[from], ![from] = Nil]
  /\ fns' = [fns EXCEPT ![to] = fns[from]]
  /\ alive' = alive \cup {to}
  /\ UNCHANGED <<constructing, opens, instances>>

\* Move assignment: what the target held is closed first.  Onto itself it does nothing.
AssignPlugin(to, from) ==
  /\ constructing = Nil /\ to \in alive /\ from \in alive /\ to # from /\ MayClose(to)
  /\ opens' = Closed(to)
  /\ handle' = [handle EXCEPT ![to] = handle[from], ![from] = Nil]
  /\ fns' = [fns EXCEPT ![to] = fns[from]]
  /\ UNCHANGED <<alive, constructing, instances>>

-----------------------------------------------------------------------------
(* PluginInstance and AdapterInstance.                                     *)

\* A plausible bug: a released state is not handed to nq_destroy.
ReleasedNever(i) == maker

\* Release: nq_destroy takes the state, if there is one.
Released(i) == [s \in States |-> IF s = state[i] THEN Nil ELSE maker[s]]

\* Plugin::Create.  An nq_init that answers null makes Create throw, with nothing made.
Create(i, p) ==
  /\ constructing = Nil /\ p \in alive /\ handle[p] # Nil /\ i \notin held
  /\ \E s \in States :
       /\ maker[s] = Nil
       /\ maker' = [maker EXCEPT ![s] = fns[p]]
       /\ state' = [state EXCEPT ![i] = s]
  /\ via' = [via EXCEPT ![i] = fns[p]]
  /\ held' = held \cup {i}
  /\ UNCHANGED plugins

DestroyInstance(i) ==
  /\ i \in held
  /\ maker' = Released(i)
  /\ state' = [state EXCEPT ![i] = Nil]
  /\ held' = held \ {i}
  /\ UNCHANGED <<plugins, via>>

\* The move constructor.
MoveInstance(to, from) ==
  /\ from \in held /\ to \notin held
  /\ state' = [state EXCEPT ![to] = state[from], ![from] = Nil]
  /\ via' = [via EXCEPT ![to] = via[from]]
  /\ held' = held \cup {to}
  /\ UNCHANGED <<plugins, maker>>

\* A plausible bug: the functions stay those of the state that is gone.
AssignInstanceKeepingFns(to, from) ==
  /\ to \in held /\ from \in held /\ to # from
  /\ maker' = Released(to)
  /\ state' = [state EXCEPT ![to] = state[from], ![from] = Nil]
  /\ UNCHANGED <<plugins, held, via>>

\* Move assignment: what the target held is released first.
AssignInstance(to, from) ==
  /\ to \in held /\ from \in held /\ to # from
  /\ maker' = Released(to)
  /\ state' = [state EXCEPT ![to] = state[from], ![from] = Nil]
  /\ via' = [via EXCEPT ![to] = via[from]]
  /\ UNCHANGED <<plugins, held>>

-----------------------------------------------------------------------------

\* What can happen to the handles of one pair of classes.
PluginSteps(P) ==
  \E p \in P :
    \/ \E l \in Libs : Open(p, l)
    \/ Accept(p) \/ Reject(p) \/ DestroyPlugin(p)
    \/ \E q \in P : MovePlugin(p, q) \/ AssignPlugin(p, q)

InstanceSteps(I, P) ==
  \E i \in I :
    \/ \E p \in P : Create(i, p)
    \/ DestroyInstance(i)
    \/ \E j \in I : MoveInstance(i, j) \/ AssignInstance(i, j)

\* A program that has features only, and one that has adapters too.
FeaturePluginStep == PluginSteps(FeaturePlugins)
AdapterPluginStep == PluginSteps(AdapterPlugins)
PluginInstanceStep == InstanceSteps(FeatureInstances, FeaturePlugins)
AdapterInstanceStep == InstanceSteps(AdapterInstances, AdapterPlugins)

HandlesInit ==
  /\ alive = {} /\ held = {} /\ constructing = Nil
  /\ handle = [p \in Plugins |-> Nil] /\ fns = [p \in Plugins |-> Nil]
  /\ opens = [l \in Libs |-> 0]
  /\ state = [i \in Instances |-> Nil] /\ via = [i \in Instances |-> Nil]
  /\ maker = [s \in States |-> Nil]

HandlesNext == FeaturePluginStep \/ AdapterPluginStep \/ PluginInstanceStep \/ AdapterInstanceStep

HandlesSpec == HandlesInit /\ [][HandlesNext]_handleVars

-----------------------------------------------------------------------------
(* Properties.                                                             *)

\* The types of the variables; a slot without an object owns nothing.
TypeOK ==
  /\ alive \subseteq Plugins /\ held \subseteq Instances
  /\ constructing \in (Plugins \ alive) \cup {Nil}
  /\ handle \in [Plugins -> Libs \cup {Nil}] /\ fns \in [Plugins -> Libs \cup {Nil}]
  /\ opens \in [Libs -> Nat]
  /\ state \in [Instances -> States \cup {Nil}] /\ via \in [Instances -> Libs \cup {Nil}]
  /\ maker \in [States -> Libs \cup {Nil}]
  /\ \A p \in Plugins : handle[p] # Nil => p \in alive \/ p = constructing
  /\ \A i \in Instances : state[i] # Nil => i \in held

\* A shared object is open as often as handles hold it, whatever was moved where and
\* whichever constructors threw: none is closed under a handle, none stays open.
Holders(l) == {p \in Plugins : handle[p] = l}
OpenAsHeld == \A l \in Libs : opens[l] = Cardinality(Holders(l))

\* Every state a plugin has made is owned by one handle, and no handle owns a state
\* that is gone: none leaks, none is destroyed twice.
OneOwner ==
  /\ \A i \in Instances : state[i] # Nil => maker[state[i]] # Nil
  /\ \A s \in States : maker[s] # Nil =>
       \E i \in Instances : state[i] = s /\ \A j \in Instances : state[j] = s => j = i

\* The functions an instance will call are those of the shared object that made its
\* state, and that shared object is still mapped.
OwnFunctions ==
  \A i \in Instances : state[i] # Nil => via[i] = maker[state[i]] /\ opens[via[i]] > 0
=============================================================================
