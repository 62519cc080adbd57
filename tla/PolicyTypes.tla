---------------------------- MODULE PolicyTypes ----------------------------
(***************************************************************************)
(* The vocabulary the driver and the handler share: resource ids, write    *)
(* actions and policy entries (common/include/policy_common.h) and the     *)
(* predicates of handler/policy.h on them.                                 *)
(*                                                                         *)
(* A CR0/CR4 resource id names one bit of its register and stands for that *)
(* bit too, so a register value is the set of the bits that are 1.  The    *)
(* read and exec actions, the counters and the CPU masks (always -1) are   *)
(* stored by the code and never decide anything: they are left out.        *)
(***************************************************************************)
EXTENDS Naturals, FiniteSets

CONSTANTS
  Cr0Res,        \* RESOURCE_ID_CR0_PE .. RESOURCE_ID_CR0_PG
  Cr4Res,        \* RESOURCE_ID_CR4_VME .. RESOURCE_ID_CR4_SMAP
  MsrListed,     \* RESOURCE_ID_MSR_* with a row in msr_res_id_table
  MsrUnlisted,   \* RESOURCE_ID_MSR_* without one (STAR and LSTAR)
  UNKNOWN,       \* RESOURCE_ID_UNKNOWN: no resource, marks a free slot
  WriteActions,  \* the w_action values in use, each a set of ActionBit
  StickyVals     \* the sticky_val values in use

ActionBit == {"LOG", "SKIP", "STICKY"}

Resource == Cr0Res \cup Cr4Res \cup MsrListed \cup MsrUnlisted

(* The enumeration gives every resource one id of one class.               *)
ASSUME ResourceAssumption ==
  /\ IsFiniteSet(Resource)
  /\ Resource # {}
  /\ UNKNOWN \notin Resource
  /\ Cr0Res \cap Cr4Res = {}
  /\ (Cr0Res \cup Cr4Res) \cap (MsrListed \cup MsrUnlisted) = {}
  /\ MsrListed \cap MsrUnlisted = {}

ASSUME ActionAssumption ==
  /\ WriteActions \subseteq SUBSET ActionBit
  /\ {} \in WriteActions
  /\ StickyVals \subseteq Nat
  /\ 0 \in StickyVals

(* One id per resource, so the table has as many slots as there are        *)
(* resources.                                                              *)
POLICY_MAX_ENTRIES == Cardinality(Resource)

Slots == 0 .. POLICY_MAX_ENTRIES - 1

(* A slot's contents, or what a message carries.  policy_sanity_check      *)
(* tests nothing, so the handler would store any id it is sent; the driver *)
(* sends those of its tables of names only, and only those are here.       *)
Entry ==
  [resource_id : Resource \cup {UNKNOWN},
   w_action    : WriteActions,
   sticky_val  : StickyVals]

FreeEntry == [resource_id |-> UNKNOWN, w_action |-> {}, sticky_val |-> 0]

HAS_STICKY(e) == "STICKY" \in e.w_action
W_HAS_SKIP(e) == "SKIP" \in e.w_action
W_HAS_LOG(e)  == "LOG" \in e.w_action

(* What a message or an entry asks for its resource, the id aside.         *)
Policy == [w_action : WriteActions, sticky_val : StickyVals]

PolicyOf(e) == [w_action |-> e.w_action, sticky_val |-> e.sticky_val]
=============================================================================
