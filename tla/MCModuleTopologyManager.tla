---------------------- MODULE MCModuleTopologyManager ----------------------
(* TLC instances of ModuleTopologyManager.                                 *)
EXTENDS ModuleTopologyManager, TLC

Symmetry == Permutations(Topo) \cup Permutations(Request) \cup Permutations(BizThread)
=============================================================================
