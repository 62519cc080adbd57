---------------------------- MODULE PolicyTable ----------------------------
(***************************************************************************)
(* The handler's policy table (handler/policy.c) and the messages that     *)
(* change it.  A message is one action: nothing else runs in the handler   *)
(* meanwhile.  PolicyTableSmp drops that assumption.                       *)
(***************************************************************************)
EXTENDS PolicyTypes

CONSTANT NoPolicy

ASSUME NoPolicyAssumption == NoPolicy \notin Policy

VARIABLES
  policy_entry,       \* g_policy_table->policy_entry
  num_entries,        \* g_policy_table->num_entries
  g_policy_immutable,
  monitored,          \* hypervisor: resources whose writes it reports
  monitor_failed      \* history: resources for which it refused a call

vars == <<policy_entry, num_entries, g_policy_immutable,
          monitored, monitor_failed>>

(* The slots a scan of the table can stop at, and where it does stop.      *)
SlotsOf(id) == {i \in Slots : policy_entry[i].resource_id = id}
First(S) == CHOOSE i \in S : \A j \in S : i <= j

Init ==
  /\ policy_entry = [i \in Slots |-> FreeEntry]
  /\ num_entries = 0
  /\ g_policy_immutable = FALSE
  /\ monitored = {}
  /\ monitor_failed = {}

-----------------------------------------------------------------------------
(* Handlers of the messages                                                *)

(* Mutants of the definitions below have their names with a suffix.        *)

(* No search for the resource's own entry before a free slot is taken.     *)
policy_entry_add_NoOwnScan(e) ==
  LET free == SlotsOf(UNKNOWN)
  IN \/ /\ free # {}
        /\ policy_entry' = [policy_entry EXCEPT ![First(free)] = e]
        /\ num_entries' = num_entries + 1
     \/ /\ free = {}
        /\ UNCHANGED <<policy_entry, num_entries>>

(* An overwritten entry is counted again.                                  *)
policy_entry_add_CountsTwice(e) ==
  LET own == SlotsOf(e.resource_id)
      target == IF own # {} THEN own ELSE SlotsOf(UNKNOWN)
  IN /\ target # {}
     /\ policy_entry' = [policy_entry EXCEPT ![First(target)] = e]
     /\ num_entries' = num_entries + 1

(* Overwrite the resource's entry, else take the first free slot, else     *)
(* drop the entry.                                                         *)
policy_entry_add(e) ==
  LET own == SlotsOf(e.resource_id)
      free == SlotsOf(UNKNOWN)
  IN \/ /\ own # {}
        /\ policy_entry' = [policy_entry EXCEPT ![First(own)] = e]
        /\ UNCHANGED num_entries
     \/ /\ own = {} /\ free # {}
        /\ policy_entry' = [policy_entry EXCEPT ![First(free)] = e]
        /\ num_entries' = num_entries + 1
     \/ /\ own = {} /\ free = {}
        /\ UNCHANGED <<policy_entry, num_entries>>

(* The slot is filled with zeroes, and 0 is not RESOURCE_ID_UNKNOWN.       *)
policy_entry_del_Zeroes(id) ==
  LET own == SlotsOf(id)
  IN \/ /\ own # {}
        /\ policy_entry' =
             [policy_entry EXCEPT ![First(own)].resource_id = 0]
        /\ num_entries' = IF num_entries # 0 THEN num_entries - 1 ELSE 0
     \/ /\ own = {}
        /\ UNCHANGED <<policy_entry, num_entries>>

(* Free the resource's entry; all but its id is left in the slot.          *)
policy_entry_del(id) ==
  LET own == SlotsOf(id)
  IN \/ /\ own # {}
        /\ policy_entry' =
             [policy_entry EXCEPT ![First(own)].resource_id = UNKNOWN]
        /\ num_entries' = IF num_entries # 0 THEN num_entries - 1 ELSE 0
     \/ /\ own = {}
        /\ UNCHANGED <<policy_entry, num_entries>>

(* The result of res_id_to_msr is not tested.                              *)
policy_set_monitor_AnyMsr(id, enable) ==
  /\ monitored' = IF enable THEN monitored \cup {id} ELSE monitored \ {id}
  /\ UNCHANGED monitor_failed

(* The call to the hypervisor, which may refuse it.  A resource that       *)
(* res_id_to_msr does not know ends in an error before any call.           *)
policy_set_monitor(id, enable) ==
  \/ /\ id \notin MsrUnlisted
     /\ monitored' = IF enable THEN monitored \cup {id} ELSE monitored \ {id}
     /\ UNCHANGED monitor_failed
  \/ /\ id \notin MsrUnlisted
     /\ monitor_failed' = monitor_failed \cup {id}
     /\ UNCHANGED monitored
  \/ /\ id \in MsrUnlisted
     /\ UNCHANGED <<monitored, monitor_failed>>

(* No test of g_policy_immutable.                                          *)
handle_msg_policy_enable_Always(msg) ==
  /\ msg.resource_id # UNKNOWN
  /\ policy_entry_add(msg)
  /\ policy_set_monitor(msg.resource_id, TRUE)
  /\ UNCHANGED g_policy_immutable

(* policy_msg_add ignores the status of policy_set_monitor: the entry      *)
(* stays in the table when the hypervisor refused to watch its resource.   *)
handle_msg_policy_enable(msg) ==
  /\ ~g_policy_immutable
  /\ msg.resource_id # UNKNOWN
  /\ policy_entry_add(msg)
  /\ policy_set_monitor(msg.resource_id, TRUE)
  /\ UNCHANGED g_policy_immutable

(* The monitoring stops before the test of g_policy_immutable.             *)
handle_msg_policy_disable_LateTest(id) ==
  /\ id # UNKNOWN
  /\ policy_set_monitor(id, FALSE)
  /\ \/ g_policy_immutable /\ UNCHANGED <<policy_entry, num_entries>>
     \/ ~g_policy_immutable /\ policy_entry_del(id)
  /\ UNCHANGED g_policy_immutable

handle_msg_policy_disable(id) ==
  /\ ~g_policy_immutable
  /\ id # UNKNOWN
  /\ policy_set_monitor(id, FALSE)
  /\ policy_entry_del(id)
  /\ UNCHANGED g_policy_immutable

handle_msg_policy_make_immutable ==
  /\ ~g_policy_immutable
  /\ g_policy_immutable' = TRUE
  /\ UNCHANGED <<policy_entry, num_entries, monitored, monitor_failed>>

Next ==
  \/ \E msg \in Entry : handle_msg_policy_enable(msg)
  \/ \E id \in Resource \cup {UNKNOWN} : handle_msg_policy_disable(id)
  \/ handle_msg_policy_make_immutable

Spec == Init /\ [][Next]_vars

-----------------------------------------------------------------------------
(* Properties                                                              *)

Used == {i \in Slots : policy_entry[i].resource_id # UNKNOWN}

InTable(r) == SlotsOf(r) # {}

(* The variables hold values of their types.                               *)
TypeOK ==
  /\ policy_entry \in [Slots -> Entry]
  /\ num_entries \in Nat
  /\ g_policy_immutable \in BOOLEAN
  /\ monitored \subseteq Resource \ MsrUnlisted
  /\ monitor_failed \subseteq Resource \ MsrUnlisted

(* No history of enables and disables leaves two entries for one resource: *)
(* the event handlers of cpu_cr0.c and cpu_cr4.c flip a bit once per       *)
(* entry, so a second entry would undo the first.                          *)
UniqueEntries ==
  \A i, j \in Used :
    policy_entry[i].resource_id = policy_entry[j].resource_id => i = j

(* num_entries counts the used slots, whatever was overwritten, freed      *)
(* twice or never found.                                                   *)
NumEntriesExact == num_entries = Cardinality(Used)

(* "policy table is full" (policy.c:172) cannot happen: a resource without *)
(* an entry always finds a free slot.                                      *)
NeverFull ==
  \A r \in Resource : ~InTable(r) => SlotsOf(UNKNOWN) # {}

(* As long as the hypervisor refused nothing for a resource, its writes    *)
(* are reported exactly while a policy for it is in the table: enabling    *)
(* adds before it watches, disabling stops watching before it frees, and   *)
(* an immutable table does neither.                                        *)
MonitoredExactly ==
  \A r \in Resource \ (MsrUnlisted \cup monitor_failed) :
    r \in monitored <=> InTable(r)

(* "Creates configfs nodes for various cpu assets to enable monitoring"    *)
(* (driver/configfs_setup.c:29): every enabled policy is watched unless    *)
(* the hypervisor refused.  False for the MSRs without a row in            *)
(* msr_res_id_table.                                                       *)
EnabledIsMonitored ==
  \A r \in Resource \ monitor_failed : InTable(r) => r \in monitored

(* The table stands for the abstract store: a resource's policy is in the  *)
(* first slot a scan finds.                                                *)
policyInTable ==
  [r \in Resource |->
     IF InTable(r) THEN PolicyOf(policy_entry[First(SlotsOf(r))])
     ELSE NoPolicy]

Store == INSTANCE PolicyStore
           WITH policy <- policyInTable, immutable <- g_policy_immutable

(* Every behaviour of the table is one of the abstract store: scans, free  *)
(* slots and the hypervisor's refusals never lose, merge or revive a       *)
(* policy, and an immutable store never changes.                           *)
ImplementsStore == Store!Spec
=============================================================================
