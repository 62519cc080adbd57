---------------------------- MODULE PolicyScript ----------------------------
(***************************************************************************)
(* policy/parse_policy.py with one directory of its policy file: it makes  *)
(* the directory and echoes a value into each of the attributes, through   *)
(* the driver's stores.  Nothing fails here and nobody else uses the       *)
(* agent, so that what goes wrong is the script's own.                     *)
(*                                                                         *)
(* The file is read into a Python 2 dict, so the attributes are written in *)
(* the order of their hashes: CPython 2.7 visits write, enable,            *)
(* sticky_value, whatever their order in the file.                         *)
(***************************************************************************)
EXTENDS Agent, Sequences

CONSTANTS
  key,        \* the directory, one of Names
  File,       \* File[attr]: the value the policy file gives the attribute
  DictOrder,  \* the attributes in the order iteritems visits them
  shell       \* the process, one of Procs

VARIABLE todo   \* the steps ahead of the script, << >> once it ended

scriptVars == <<agentVars, todo>>

ScriptInit == AgentInit /\ todo = <<"mkdir">> \o DictOrder

MakeDirectory ==
  /\ todo # << >> /\ Head(todo) = "mkdir"
  /\ \E o \in Items : make_item(key, o)
  /\ todo' = Tail(todo)

Echo ==
  /\ todo # << >> /\ Head(todo) # "mkdir"
  /\ store_attribute(shell, key, Head(todo), File[Head(todo)])
  /\ todo' = Tail(todo)

(* A store that fails makes check_call raise, and the script exits.        *)
Refusal ==
  /\ CheckLocked(shell) /\ Locked(shell)
  /\ todo' = << >>

Proceed ==
  /\ \/ CheckLocked(shell) /\ ~Locked(shell)
     \/ Assign(shell)
     \/ GetWrite(shell) \/ GetSticky(shell) \/ MessageHandled(shell)
     \/ SetEnable(shell) \/ SetLocked(shell)
  /\ UNCHANGED todo

ScriptNext == MakeDirectory \/ Echo \/ Refusal \/ Proceed

ScriptSpec == ScriptInit /\ [][ScriptNext]_scriptVars

-----------------------------------------------------------------------------
(* Properties                                                              *)

(* "JSON file defining evmm hardening policy" (policy/parse_policy.py:77): *)
(* when the script has ended, what the handler enforces is what the file   *)
(* defines.  False for a sticky policy: enable is written before           *)
(* sticky_value, so the handler gets the value 0, and the lock refuses the *)
(* right one.                                                              *)
FileIsEnforced ==
  todo = << >> /\ proc[shell].pc = "idle" /\ File.enable =>
    policyInTable[ResourceOf[key]] =
      [w_action |-> File.write, sticky_val |-> File.sticky_value]
=============================================================================
