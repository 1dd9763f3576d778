-------------------------- MODULE PluginHandlesMC --------------------------
(***************************************************************************)
(* PluginHandles with interchangeable shared objects, slots and addresses. *)
(***************************************************************************)
EXTENDS PluginHandles, TLC

Symmetry ==
  UNION {Permutations(S) : S \in {Libs, FeaturePlugins, AdapterPlugins,
                                  FeatureInstances, AdapterInstances, States}}
=============================================================================
