---------------------------- MODULE PolicyStore ----------------------------
(***************************************************************************)
(* What the handler's policy component promises: at most one policy per    *)
(* resource, the last one enabled, and none of it changes once the store   *)
(* is immutable.  PolicyTable and PolicyTableSmp implement this.           *)
(***************************************************************************)
CONSTANTS Resource, Policy, NoPolicy

VARIABLES
  policy,     \* policy[r]: what is enforced on r, or NoPolicy
  immutable

vars == <<policy, immutable>>

Init ==
  /\ policy = [r \in Resource |-> NoPolicy]
  /\ immutable = FALSE

Enable(r, p) ==
  /\ ~immutable
  /\ policy' = [policy EXCEPT ![r] = p]
  /\ UNCHANGED immutable

Disable(r) ==
  /\ ~immutable
  /\ policy' = [policy EXCEPT ![r] = NoPolicy]
  /\ UNCHANGED immutable

MakeImmutable ==
  /\ immutable' = TRUE
  /\ UNCHANGED policy

Next ==
  \/ \E r \in Resource, p \in Policy : Enable(r, p)
  \/ \E r \in Resource : Disable(r)
  \/ MakeImmutable

Spec == Init /\ [][Next]_vars
=============================================================================
