----------------------------- MODULE MCGuardSmp -----------------------------
(***************************************************************************)
(* GuardSmp with two bits of CR0: one the messages of the moment are about *)
(* and one they are not.                                                   *)
(***************************************************************************)
EXTENDS GuardSmp, TLC

MCWriteActions == {{}, {"SKIP"}, {"STICKY"}}
MCStickyZero == {0}
MCMsrVals == {0}
BitSymmetry == Permutations(Cr0Res)
=============================================================================
