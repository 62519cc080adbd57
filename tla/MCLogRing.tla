----------------------------- MODULE MCLogRing -----------------------------
(***************************************************************************)
(* LogRing for TLC; the configurations give the constants their values.    *)
(***************************************************************************)
EXTENDS LogRing
=============================================================================
