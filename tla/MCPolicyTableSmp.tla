-------------------------- MODULE MCPolicyTableSmp --------------------------
(***************************************************************************)
(* PolicyTableSmp with two CPUs, which differ in nothing but their names.  *)
(***************************************************************************)
EXTENDS PolicyTableSmp, TLC

MCOneAction == {{}}
MCStickyVals == {0}
CpuSymmetry == Permutations(Cpus)
=============================================================================
