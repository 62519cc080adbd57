----------------------------- MODULE MCLogSetup -----------------------------
(***************************************************************************)
(* LogSetup with memory for three logs, so that the driver can be loaded   *)
(* three times, and a last block that is smaller than the others.          *)
(***************************************************************************)
EXTENDS LogSetup
=============================================================================
