--------------------------- MODULE MCPolicyScript ---------------------------
(***************************************************************************)
(* PolicyScript with a file that pins CR0.WP to 1.                         *)
(***************************************************************************)
EXTENDS PolicyScript

CONSTANT wp

MCResourceOf == [n \in Names |-> wp]
MCWriteActions == {{}, {"STICKY"}}
MCStickyVals == {0, 1}
MCFile == [enable |-> TRUE, write |-> {"STICKY"}, sticky_value |-> 1]
MCDictOrder == <<"write", "enable", "sticky_value">>
=============================================================================
