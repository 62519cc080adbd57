------------------------------ MODULE MCAgent ------------------------------
(***************************************************************************)
(* Agent for TLC: two names of one resource, such as msr/lstar and LSTAR.  Items  *)
(* and processes differ in nothing but their names, and so do the two      *)
(* directory names.                                                        *)
(***************************************************************************)
EXTENDS Agent, TLC

CONSTANT res

MCResourceOf == [n \in Names |-> res]
MCWriteActions == {{}, {"LOG", "STICKY"}}
MCStickyVals == {0}
AgentSymmetry ==
  Permutations(Names) \cup Permutations(Items) \cup Permutations(Procs)
=============================================================================
