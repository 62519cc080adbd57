-------------------------- MODULE MCRegisterGuard --------------------------
(***************************************************************************)
(* RegisterGuard with policies that allow, log and skip, or pin, and two   *)
(* values for an MSR; the configurations choose the registers.             *)
(***************************************************************************)
EXTENDS RegisterGuard

MCWriteActions == {{}, {"LOG", "SKIP"}, {"STICKY"}}
MCStickyVals == {0, 1}
MCMsrVals == {0, 1}
=============================================================================
