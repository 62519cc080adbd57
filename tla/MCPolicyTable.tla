--------------------------- MODULE MCPolicyTable ---------------------------
(***************************************************************************)
(* PolicyTable with three resources, one of each kind the messages tell    *)
(* apart, and two write actions, so that an overwrite shows.               *)
(***************************************************************************)
EXTENDS PolicyTable

MCWriteActions == {{}, {"SKIP"}}
MCStickyVals == {0}
=============================================================================
