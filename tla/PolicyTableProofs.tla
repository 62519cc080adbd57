------------------------- MODULE PolicyTableProofs -------------------------
(***************************************************************************)
(* The properties of PolicyTable for any number of resources, actions and  *)
(* sticky values, and its implementation of PolicyStore.                   *)
(***************************************************************************)
EXTENDS PolicyTable, TLAPS, FiniteSetTheorems

-----------------------------------------------------------------------------
(* Slots and scans                                                         *)

(* A set of natural numbers that is not empty has a least element.         *)
LEMMA LeastElement ==
  ASSUME NEW S \in SUBSET Nat, S # {}
  PROVE  \E i \in S : \A j \in S : i <= j
<1> DEFINE R == {ss \in Nat \X Nat : ss[1] < ss[2]}
<1>1. IsWellFoundedOn(R, Nat)
  BY NatLessThanWellFounded DEF OpToRel
<1>2. PICK i \in S : \A j \in S : <<j, i>> \notin R
  <2> HIDE DEF R
  <2> QED BY <1>1, WFMin
<1>3. ASSUME NEW j \in S  PROVE i <= j
  <2>1. ~(j < i)
    BY <1>2, <1>3
  <2> QED BY <2>1
<1> QED BY <1>3

(* There is a slot for every resource.                                     *)
LEMMA SlotCount ==
  /\ POLICY_MAX_ENTRIES \in Nat \ {0}
  /\ Slots \subseteq Nat
  /\ IsFiniteSet(Slots)
  /\ Cardinality(Slots) = Cardinality(Resource)
<1>1. POLICY_MAX_ENTRIES \in Nat
  BY ResourceAssumption, FS_CardinalityType DEF POLICY_MAX_ENTRIES
<1>2. POLICY_MAX_ENTRIES # 0
  BY ResourceAssumption, FS_EmptySet DEF POLICY_MAX_ENTRIES
<1>3. /\ IsFiniteSet(Slots)
      /\ Cardinality(Slots) = POLICY_MAX_ENTRIES
  <2> HIDE DEF POLICY_MAX_ENTRIES
  <2>1. POLICY_MAX_ENTRIES - 1 \in Int
    BY <1>1
  <2> QED BY <1>1, <1>2, <2>1, FS_Interval DEF Slots
<1>4. Slots \subseteq Nat
  BY <1>1 DEF Slots
<1> QED BY <1>1, <1>2, <1>3, <1>4 DEF POLICY_MAX_ENTRIES

(* A scan that can stop does stop, at the first slot where it can.         *)
LEMMA FirstIsLeast ==
  ASSUME NEW S \in SUBSET Slots, S # {}
  PROVE  First(S) \in S /\ \A j \in S : First(S) <= j
BY LeastElement, SlotCount DEF First

(* SlotsOf and First find a slot with the id exactly if there is one.      *)
LEMMA ScanFinds ==
  ASSUME NEW id, SlotsOf(id) # {}
  PROVE  /\ First(SlotsOf(id)) \in Slots
         /\ policy_entry[First(SlotsOf(id))].resource_id = id
<1>1. SlotsOf(id) \in SUBSET Slots
  BY DEF SlotsOf
<1>2. First(SlotsOf(id)) \in SlotsOf(id)
  BY <1>1, FirstIsLeast
<1> QED BY <1>2 DEF SlotsOf

-----------------------------------------------------------------------------
(* The table is never full                                                 *)

(* If every slot holds an entry and no two the same resource, every        *)
(* resource has an entry: there are as many slots as resources.            *)
LEMMA Pigeonhole ==
  ASSUME TypeOK, UniqueEntries
  PROVE  NeverFull
<1> SUFFICES ASSUME NEW r \in Resource, ~InTable(r), SlotsOf(UNKNOWN) = {}
             PROVE  FALSE
  BY DEF NeverFull
<1> DEFINE others == Resource \ {r}
           f == [i \in Slots |-> policy_entry[i].resource_id]
<1>1. \A i \in Slots : policy_entry[i].resource_id \in others
  BY DEF TypeOK, Entry, InTable, SlotsOf
<1>2. f \in [Slots -> others]
  BY <1>1
<1>3. /\ IsFiniteSet(others)
      /\ Cardinality(others) = Cardinality(Resource) - 1
  BY ResourceAssumption, FS_RemoveElement
<1>4. Cardinality(others) < Cardinality(Slots)
  BY <1>3, SlotCount, ResourceAssumption, FS_CardinalityType
<1>5. PICK i \in Slots, j \in Slots : i # j /\ f[i] = f[j]
  <2> HIDE DEF f, others
  <2>1. IsFiniteSet(Slots) /\ IsFiniteSet(others)
    BY <1>3, SlotCount
  <2>2. \E x, y \in Slots : x # y /\ f[x] = f[y]
    BY <1>2, <1>4, <2>1, FS_PigeonHole
  <2> QED BY <2>2
<1>6. i \in Used /\ j \in Used
  BY <1>1, ResourceAssumption DEF Used
<1> QED BY <1>5, <1>6 DEF UniqueEntries

-----------------------------------------------------------------------------
(* What the two changes of the table do                                    *)

(* Adding writes one slot: the resource's own, or a free one if it has     *)
(* none.                                                                   *)
LEMMA AddWritesSlot ==
  ASSUME TypeOK, UniqueEntries,
         NEW e \in Entry, e.resource_id # UNKNOWN,
         policy_entry_add(e)
  PROVE  \E i \in Slots :
           /\ policy_entry' = [policy_entry EXCEPT ![i] = e]
           /\ \/ /\ policy_entry[i].resource_id = e.resource_id
                 /\ num_entries' = num_entries
              \/ /\ SlotsOf(e.resource_id) = {}
                 /\ policy_entry[i].resource_id = UNKNOWN
                 /\ num_entries' = num_entries + 1
<1> DEFINE own == SlotsOf(e.resource_id)
           free == SlotsOf(UNKNOWN)
<1>1. CASE own # {} /\ policy_entry' = [policy_entry EXCEPT ![First(own)] = e]
           /\ UNCHANGED num_entries
  BY <1>1, ScanFinds
<1>2. CASE /\ own = {} /\ free # {}
           /\ policy_entry' = [policy_entry EXCEPT ![First(free)] = e]
           /\ num_entries' = num_entries + 1
  BY <1>2, ScanFinds
<1>3. ~(own = {} /\ free = {})
  <2>1. NeverFull
    BY Pigeonhole
  <2>2. e.resource_id \in Resource
    BY DEF Entry
  <2> QED BY <2>1, <2>2 DEF NeverFull, InTable
<1> QED BY <1>1, <1>2, <1>3 DEF policy_entry_add

(* Deleting frees one slot of the resource, if it has any.                 *)
LEMMA DelFreesSlot ==
  ASSUME NEW id, policy_entry_del(id)
  PROVE  \/ \E i \in Slots :
              /\ policy_entry[i].resource_id = id
              /\ policy_entry' =
                   [policy_entry EXCEPT ![i].resource_id = UNKNOWN]
              /\ num_entries' = IF num_entries # 0 THEN num_entries - 1 ELSE 0
         \/ /\ SlotsOf(id) = {}
            /\ UNCHANGED <<policy_entry, num_entries>>
BY ScanFinds DEF policy_entry_del

(* The call to the hypervisor keeps the types of what it records.          *)
LEMMA MonitorType ==
  ASSUME TypeOK, NEW id \in Resource, NEW enable \in BOOLEAN,
         policy_set_monitor(id, enable)
  PROVE  /\ monitored' \subseteq Resource \ MsrUnlisted
         /\ monitor_failed' \subseteq Resource \ MsrUnlisted
BY DEF TypeOK, policy_set_monitor

-----------------------------------------------------------------------------
(* The inductive invariant                                                 *)

(* Each of the properties needs TypeOK; the count and the monitoring need  *)
(* that a resource has one entry, so that freeing it leaves none.          *)
TableInv == TypeOK /\ UniqueEntries /\ NumEntriesExact /\ MonitoredExactly

(* The empty table satisfies the invariant.                                *)
LEMMA InitInv == Init => TableInv
<1> SUFFICES ASSUME Init PROVE TableInv
  OBVIOUS
<1> USE DEF Init
<1>1. FreeEntry \in Entry
  BY ActionAssumption DEF FreeEntry, Entry
<1>2. TypeOK
  BY <1>1 DEF TypeOK
<1>3. Used = {}
  BY DEF Used, FreeEntry
<1>4. UniqueEntries /\ NumEntriesExact
  BY <1>3, FS_EmptySet DEF UniqueEntries, NumEntriesExact
<1>5. \A r \in Resource : ~InTable(r)
  BY ResourceAssumption DEF InTable, SlotsOf, FreeEntry
<1>6. MonitoredExactly
  BY <1>5 DEF MonitoredExactly
<1> QED BY <1>2, <1>4, <1>6 DEF TableInv

(* Enabling a policy keeps the invariant.                                  *)
LEMMA EnableInv ==
  ASSUME TableInv, NEW msg \in Entry, handle_msg_policy_enable(msg)
  PROVE  TableInv'
<1> USE DEF TableInv
<1> DEFINE id == msg.resource_id
<1>1. id \in Resource /\ id # UNKNOWN
  BY ResourceAssumption DEF handle_msg_policy_enable, Entry
<1>2. PICK i \in Slots :
        /\ policy_entry' = [policy_entry EXCEPT ![i] = msg]
        /\ \/ /\ policy_entry[i].resource_id = id
              /\ num_entries' = num_entries
           \/ /\ SlotsOf(id) = {}
              /\ policy_entry[i].resource_id = UNKNOWN
              /\ num_entries' = num_entries + 1
  BY <1>1, AddWritesSlot DEF handle_msg_policy_enable
<1>3. policy_set_monitor(id, TRUE) /\ UNCHANGED g_policy_immutable
  BY DEF handle_msg_policy_enable
<1>4. policy_entry \in [Slots -> Entry]
  BY DEF TypeOK
<1>5. \A j \in Slots : policy_entry'[j] = IF j = i THEN msg ELSE policy_entry[j]
  BY <1>2, <1>4
<1>6. TypeOK'
  <2>1. /\ monitored' \subseteq Resource \ MsrUnlisted
        /\ monitor_failed' \subseteq Resource \ MsrUnlisted
    BY <1>1, <1>3, MonitorType
  <2>2. policy_entry' \in [Slots -> Entry]
    BY <1>2, <1>4
  <2>3. num_entries' \in Nat
    BY <1>2 DEF TypeOK
  <2> QED BY <1>3, <2>1, <2>2, <2>3 DEF TypeOK
<1>7. UniqueEntries'
  <2> SUFFICES ASSUME NEW j \in Slots, NEW k \in Slots,
                      policy_entry'[j].resource_id # UNKNOWN,
                      policy_entry'[k].resource_id # UNKNOWN,
                      policy_entry'[j].resource_id = policy_entry'[k].resource_id
               PROVE  j = k
    BY DEF UniqueEntries, Used
  <2>1. \A m \in Slots : policy_entry[m].resource_id = id => m = i
    BY <1>1, <1>2 DEF SlotsOf, UniqueEntries, Used
  <2>2. CASE j = i \/ k = i
    BY <1>5, <2>1, <2>2
  <2>3. CASE j # i /\ k # i
    BY <1>5, <2>3 DEF UniqueEntries, Used
  <2> QED BY <2>2, <2>3
<1>8. NumEntriesExact'
  <2>1. Used' = Used \cup {i}
    BY <1>1, <1>5 DEF Used
  <2>2. IsFiniteSet(Used)
    BY SlotCount, FS_Subset DEF Used
  <2>3. Cardinality(Used') = IF i \in Used THEN Cardinality(Used)
                             ELSE Cardinality(Used) + 1
    BY <2>1, <2>2, FS_AddElement
  <2>4. i \in Used <=> policy_entry[i].resource_id # UNKNOWN
    BY DEF Used
  <2> QED BY <1>1, <1>2, <2>3, <2>4 DEF NumEntriesExact
<1>9. MonitoredExactly'
  <2> SUFFICES ASSUME NEW r \in Resource \ (MsrUnlisted \cup monitor_failed')
               PROVE  r \in monitored' <=> InTable(r)'
    BY DEF MonitoredExactly
  <2>1. r \in Resource \ (MsrUnlisted \cup monitor_failed)
    BY <1>3 DEF policy_set_monitor
  <2>2. r \in monitored <=> InTable(r)
    BY <2>1 DEF MonitoredExactly
  <2>3. CASE r = id
    <3>1. id \in monitored'
      BY <1>3, <2>3 DEF policy_set_monitor
    <3>2. i \in SlotsOf(id)'
      BY <1>5 DEF SlotsOf
    <3> QED BY <2>3, <3>1, <3>2 DEF InTable
  <2>4. CASE r # id
    <3>1. r \in monitored' <=> r \in monitored
      BY <1>3, <2>4 DEF policy_set_monitor
    <3>2. SlotsOf(r)' = SlotsOf(r)
      BY <1>1, <1>2, <1>5, <2>4, ResourceAssumption DEF SlotsOf
    <3> QED BY <2>2, <3>1, <3>2 DEF InTable
  <2> QED BY <2>3, <2>4
<1> QED BY <1>6, <1>7, <1>8, <1>9

(* Disabling a policy keeps the invariant.                                 *)
LEMMA DisableInv ==
  ASSUME TableInv, NEW id \in Resource \cup {UNKNOWN},
         handle_msg_policy_disable(id)
  PROVE  TableInv'
<1> USE DEF TableInv
<1>1. id \in Resource /\ id # UNKNOWN
  BY DEF handle_msg_policy_disable
<1>2. policy_set_monitor(id, FALSE) /\ UNCHANGED g_policy_immutable
  BY DEF handle_msg_policy_disable
<1>3. policy_entry \in [Slots -> Entry]
  BY DEF TypeOK
<1>4. /\ monitored' \subseteq Resource \ MsrUnlisted
      /\ monitor_failed' \subseteq Resource \ MsrUnlisted
  BY <1>1, <1>2, MonitorType
<1>5. CASE \E i \in Slots :
             /\ policy_entry[i].resource_id = id
             /\ policy_entry' = [policy_entry EXCEPT ![i].resource_id = UNKNOWN]
             /\ num_entries' = IF num_entries # 0 THEN num_entries - 1 ELSE 0
  <2>1. PICK i \in Slots :
             /\ policy_entry[i].resource_id = id
             /\ policy_entry' = [policy_entry EXCEPT ![i].resource_id = UNKNOWN]
             /\ num_entries' = IF num_entries # 0 THEN num_entries - 1 ELSE 0
    BY <1>5
  <2> DEFINE freed == [policy_entry[i] EXCEPT !.resource_id = UNKNOWN]
  <2>2. policy_entry[i] \in Entry
    BY <1>3
  <2>3. freed \in Entry /\ freed.resource_id = UNKNOWN
    BY <2>2 DEF Entry
  <2>4. policy_entry' = [policy_entry EXCEPT ![i] = freed]
    BY <2>1, <1>3
  <2>5. \A j \in Slots :
          policy_entry'[j] = IF j = i THEN freed ELSE policy_entry[j]
    <3> HIDE DEF freed
    <3> QED BY <2>4, <1>3
  <2> HIDE DEF freed
  <2>6. TypeOK'
    <3>1. policy_entry' \in [Slots -> Entry]
      BY <2>3, <2>4, <1>3
    <3>2. num_entries' \in Nat
      BY <2>1 DEF TypeOK
    <3> QED BY <1>2, <1>4, <3>1, <3>2 DEF TypeOK
  <2>7. UniqueEntries'
    BY <2>3, <2>5 DEF UniqueEntries, Used
  <2>8. NumEntriesExact'
    <3>1. Used' = Used \ {i} /\ i \in Used
      BY <1>1, <2>1, <2>3, <2>5 DEF Used
    <3>2. IsFiniteSet(Used)
      BY SlotCount, FS_Subset DEF Used
    <3>3. Cardinality(Used') = Cardinality(Used) - 1
      BY <3>1, <3>2, FS_RemoveElement
    <3>4. num_entries # 0
      BY <3>1, <3>2, FS_EmptySet DEF NumEntriesExact
    <3> QED BY <2>1, <3>3, <3>4 DEF NumEntriesExact
  <2>9. MonitoredExactly'
    <3> SUFFICES ASSUME NEW r \in Resource \ (MsrUnlisted \cup monitor_failed')
                 PROVE  r \in monitored' <=> InTable(r)'
      BY DEF MonitoredExactly
    <3>1. r \in Resource \ (MsrUnlisted \cup monitor_failed)
      BY <1>2 DEF policy_set_monitor
    <3>2. r \in monitored <=> InTable(r)
      BY <3>1 DEF MonitoredExactly
    <3>3. CASE r = id
      <4>1. id \notin monitored'
        BY <1>2, <3>3 DEF policy_set_monitor
      <4>2. SlotsOf(id)' = {}
        BY <1>1, <2>1, <2>3, <2>5 DEF SlotsOf, UniqueEntries, Used
      <4> QED BY <3>3, <4>1, <4>2 DEF InTable
    <3>4. CASE r # id
      <4>1. r \in monitored' <=> r \in monitored
        BY <1>2, <3>4 DEF policy_set_monitor
      <4>2. SlotsOf(r)' = SlotsOf(r)
        BY <2>1, <2>3, <2>5, <3>4, ResourceAssumption DEF SlotsOf
      <4> QED BY <3>2, <4>1, <4>2 DEF InTable
    <3> QED BY <3>3, <3>4
  <2> QED BY <2>6, <2>7, <2>8, <2>9
<1>6. CASE SlotsOf(id) = {} /\ UNCHANGED <<policy_entry, num_entries>>
  <2>1. TypeOK'
    BY <1>2, <1>4, <1>6 DEF TypeOK
  <2>2. Used' = Used /\ \A r : SlotsOf(r)' = SlotsOf(r)
    BY <1>6 DEF Used, SlotsOf
  <2>3. UniqueEntries' /\ NumEntriesExact'
    BY <1>6, <2>2 DEF UniqueEntries, NumEntriesExact
  <2>4. MonitoredExactly'
    <3> SUFFICES ASSUME NEW r \in Resource \ (MsrUnlisted \cup monitor_failed')
                 PROVE  r \in monitored' <=> InTable(r)'
      BY DEF MonitoredExactly
    <3>1. r \in Resource \ (MsrUnlisted \cup monitor_failed)
      BY <1>2 DEF policy_set_monitor
    <3>2. r \in monitored <=> InTable(r)
      BY <3>1 DEF MonitoredExactly
    <3>3. r \in monitored' <=> r \in monitored
      BY <1>2, <1>6, <3>2 DEF policy_set_monitor, InTable
    <3> QED BY <2>2, <3>2, <3>3 DEF InTable
  <2> QED BY <2>1, <2>3, <2>4
<1> QED BY <1>5, <1>6, DelFreesSlot DEF handle_msg_policy_disable

(* Making the table immutable changes no part of the invariant but the     *)
(* type of the flag, and a step that changes nothing keeps it.             *)
LEMMA ImmutableInv ==
  ASSUME TableInv, handle_msg_policy_make_immutable \/ UNCHANGED vars
  PROVE  TableInv'
<1>1. /\ UNCHANGED <<policy_entry, num_entries, monitored, monitor_failed>>
      /\ g_policy_immutable' \in BOOLEAN
  BY DEF handle_msg_policy_make_immutable, vars, TableInv, TypeOK
<1>2. TypeOK'
  BY <1>1 DEF TableInv, TypeOK
<1>3. UniqueEntries' /\ NumEntriesExact'
  BY <1>1 DEF TableInv, UniqueEntries, NumEntriesExact, Used
<1>4. MonitoredExactly'
  BY <1>1 DEF TableInv, MonitoredExactly, InTable, SlotsOf
<1> QED BY <1>2, <1>3, <1>4 DEF TableInv

(* Every step keeps the invariant.                                         *)
LEMMA StepInv == TableInv /\ [Next]_vars => TableInv'
<1> SUFFICES ASSUME TableInv, [Next]_vars PROVE TableInv'
  OBVIOUS
<1>1. CASE \E msg \in Entry : handle_msg_policy_enable(msg)
  BY <1>1, EnableInv
<1>2. CASE \E id \in Resource \cup {UNKNOWN} : handle_msg_policy_disable(id)
  BY <1>2, DisableInv
<1>3. CASE handle_msg_policy_make_immutable \/ UNCHANGED vars
  BY <1>3, ImmutableInv
<1> QED BY <1>1, <1>2, <1>3 DEF Next

(* The invariant holds in every reachable state.                           *)
LEMMA Invariance == Spec => []TableInv
BY InitInv, StepInv, PTL DEF Spec

-----------------------------------------------------------------------------
(* Theorems                                                                *)

(* The variables of the policy table always hold values of their types.    *)
THEOREM TypeCorrect == Spec => []TypeOK
BY Invariance, PTL DEF TableInv

(* However enables and disables follow each other, a resource has at most  *)
(* one entry in the policy table.                                          *)
THEOREM EntriesUnique == Spec => []UniqueEntries
BY Invariance, PTL DEF TableInv

(* num_entries is always the number of used slots.                         *)
THEOREM CountExact == Spec => []NumEntriesExact
BY Invariance, PTL DEF TableInv

(* policy_entry_add never drops an entry for lack of a slot.               *)
THEOREM TableNeverFull == Spec => []NeverFull
<1>1. TableInv => NeverFull
  BY Pigeonhole DEF TableInv
<1> QED BY <1>1, Invariance, PTL

(* A resource is watched exactly while it has an entry, as long as the     *)
(* hypervisor refused no call for it.                                      *)
THEOREM WatchedExactly == Spec => []MonitoredExactly
BY Invariance, PTL DEF TableInv

-----------------------------------------------------------------------------
(* The table implements the store                                          *)

(* A resource's policy is that of the slot with its id, wherever it is.    *)
LEMMA PolicyFromSlot ==
  ASSUME UniqueEntries, NEW r \in Resource, NEW i \in Slots,
         policy_entry[i].resource_id = r
  PROVE  policyInTable[r] = PolicyOf(policy_entry[i])
<1>1. SlotsOf(r) # {}
  BY DEF SlotsOf
<1>2. First(SlotsOf(r)) = i
  BY <1>1, ScanFinds, ResourceAssumption DEF UniqueEntries, Used
<1> QED BY <1>1, <1>2 DEF policyInTable, InTable

(* The same, for the table after a step.                                   *)
LEMMA PolicyFromSlotPrime ==
  ASSUME UniqueEntries', NEW r \in Resource, NEW i \in Slots,
         policy_entry'[i].resource_id = r
  PROVE  policyInTable'[r] = PolicyOf(policy_entry'[i])
<1>1. SlotsOf(r)' # {}
  BY DEF SlotsOf
<1>2. First(SlotsOf(r)')= i
  <2>1. SlotsOf(r)' \in SUBSET Slots
    BY DEF SlotsOf
  <2>2. First(SlotsOf(r)') \in SlotsOf(r)'
    BY <1>1, <2>1, FirstIsLeast
  <2> QED BY <2>2, ResourceAssumption DEF UniqueEntries, Used, SlotsOf
<1> QED BY <1>1, <1>2 DEF policyInTable, InTable, PolicyOf

(* A resource whose slots and their contents did not change keeps its      *)
(* policy.                                                                 *)
LEMMA PolicyUnchanged ==
  ASSUME NEW r \in Resource, SlotsOf(r)' = SlotsOf(r),
         \A j \in SlotsOf(r) : policy_entry'[j] = policy_entry[j]
  PROVE  policyInTable'[r] = policyInTable[r]
<1>1. CASE SlotsOf(r) = {}
  BY <1>1 DEF policyInTable, InTable
<1>2. CASE SlotsOf(r) # {}
  <2>1. First(SlotsOf(r)) \in SlotsOf(r)
    BY <1>2, ScanFinds DEF SlotsOf
  <2>2. policyInTable[r] = PolicyOf(policy_entry[First(SlotsOf(r))])
    BY <1>2 DEF policyInTable, InTable
  <2>3. policyInTable'[r] = PolicyOf(policy_entry[First(SlotsOf(r))])'
    BY <1>2 DEF policyInTable, InTable
  <2> QED BY <2>1, <2>2, <2>3 DEF PolicyOf
<1> QED BY <1>1, <1>2

(* Enabling a policy is the store's Enable, whichever slot it lands in.    *)
LEMMA EnableImplements ==
  ASSUME TableInv, NEW msg \in Entry, handle_msg_policy_enable(msg)
  PROVE  Store!Enable(msg.resource_id, PolicyOf(msg))
<1> DEFINE id == msg.resource_id
<1>1. id \in Resource /\ id # UNKNOWN
  BY ResourceAssumption DEF handle_msg_policy_enable, Entry
<1>2. PICK i \in Slots :
        /\ policy_entry' = [policy_entry EXCEPT ![i] = msg]
        /\ \/ policy_entry[i].resource_id = id
           \/ policy_entry[i].resource_id = UNKNOWN
  BY <1>1, AddWritesSlot DEF handle_msg_policy_enable, TableInv
<1>3. \A j \in Slots : policy_entry'[j] = IF j = i THEN msg ELSE policy_entry[j]
  BY <1>2 DEF TableInv, TypeOK
<1>4. UniqueEntries'
  BY EnableInv DEF TableInv
<1>5. policyInTable'[id] = PolicyOf(msg)
  BY <1>1, <1>3, <1>4, PolicyFromSlotPrime DEF PolicyOf
<1>6. ASSUME NEW r \in Resource, r # id
      PROVE  policyInTable'[r] = policyInTable[r]
  <2>1. /\ SlotsOf(r)' = SlotsOf(r)
        /\ \A j \in SlotsOf(r) : policy_entry'[j] = policy_entry[j]
    BY <1>2, <1>3, <1>6, ResourceAssumption DEF SlotsOf
  <2> QED BY <2>1, PolicyUnchanged
<1>7. policyInTable' = [policyInTable EXCEPT ![id] = PolicyOf(msg)]
  <2>1. policyInTable' = [r \in Resource |-> policyInTable'[r]]
    BY DEF policyInTable
  <2>2. policyInTable = [r \in Resource |-> policyInTable[r]]
    BY DEF policyInTable
  <2> QED BY <1>1, <1>5, <1>6, <2>1, <2>2
<1> QED BY <1>7 DEF Store!Enable, handle_msg_policy_enable

(* Disabling a policy is the store's Disable, or nothing at all if the     *)
(* resource has none.                                                      *)
LEMMA DisableImplements ==
  ASSUME TableInv, NEW id \in Resource \cup {UNKNOWN},
         handle_msg_policy_disable(id)
  PROVE  id \in Resource /\ Store!Disable(id)
<1>1. id \in Resource /\ id # UNKNOWN
  BY DEF handle_msg_policy_disable
<1>2. ASSUME NEW r \in Resource, r # id
      PROVE  policyInTable'[r] = policyInTable[r]
  <2>1. CASE \E i \in Slots :
               /\ policy_entry[i].resource_id = id
               /\ policy_entry' =
                    [policy_entry EXCEPT ![i].resource_id = UNKNOWN]
    <3>1. PICK i \in Slots :
               /\ policy_entry[i].resource_id = id
               /\ policy_entry' =
                    [policy_entry EXCEPT ![i].resource_id = UNKNOWN]
      BY <2>1
    <3>2. policy_entry'[i].resource_id = UNKNOWN
      BY <3>1 DEF TableInv, TypeOK, Entry
    <3>3. \A j \in Slots \ {i} : policy_entry'[j] = policy_entry[j]
      BY <3>1 DEF TableInv, TypeOK
    <3>4. /\ SlotsOf(r)' = SlotsOf(r)
          /\ \A j \in SlotsOf(r) : policy_entry'[j] = policy_entry[j]
      BY <1>2, <3>1, <3>2, <3>3, ResourceAssumption DEF SlotsOf
    <3> QED BY <3>4, PolicyUnchanged
  <2>2. CASE UNCHANGED policy_entry
    BY <2>2, PolicyUnchanged DEF SlotsOf
  <2> QED BY <2>1, <2>2, DelFreesSlot DEF handle_msg_policy_disable
<1>3. ~InTable(id)'
  <2>1. CASE \E i \in Slots :
               /\ policy_entry[i].resource_id = id
               /\ policy_entry' =
                    [policy_entry EXCEPT ![i].resource_id = UNKNOWN]
    <3>1. PICK i \in Slots :
               /\ policy_entry[i].resource_id = id
               /\ policy_entry' =
                    [policy_entry EXCEPT ![i].resource_id = UNKNOWN]
      BY <2>1
    <3>2. policy_entry'[i].resource_id = UNKNOWN
      BY <3>1 DEF TableInv, TypeOK, Entry
    <3>3. \A j \in Slots \ {i} : policy_entry'[j] = policy_entry[j]
      BY <3>1 DEF TableInv, TypeOK
    <3>4. \A j \in Slots \ {i} : policy_entry[j].resource_id # id
      BY <1>1, <3>1 DEF TableInv, UniqueEntries, Used
    <3> QED BY <1>1, <3>2, <3>3, <3>4 DEF InTable, SlotsOf
  <2>2. CASE SlotsOf(id) = {} /\ UNCHANGED policy_entry
    BY <2>2 DEF InTable, SlotsOf
  <2> QED BY <2>1, <2>2, DelFreesSlot DEF handle_msg_policy_disable
<1>4. policyInTable' = [policyInTable EXCEPT ![id] = NoPolicy]
  <2>1. policyInTable' = [r \in Resource |-> policyInTable'[r]]
    BY DEF policyInTable
  <2>2. policyInTable = [r \in Resource |-> policyInTable[r]]
    BY DEF policyInTable
  <2>3. policyInTable'[id] = NoPolicy
    BY <1>1, <1>3 DEF policyInTable
  <2> QED BY <1>1, <1>2, <2>1, <2>2, <2>3
<1> QED BY <1>1, <1>4 DEF Store!Disable, handle_msg_policy_disable

(* Every behaviour of the table, read through policyInTable, is one of the *)
(* abstract store: a resource has the policy last enabled and not          *)
(* disabled, and none of it changes once the table is immutable.           *)
THEOREM TableImplementsStore == Spec => ImplementsStore
<1>1. Init => Store!Init
  <2> SUFFICES ASSUME Init PROVE Store!Init
    OBVIOUS
  <2>1. \A r \in Resource : ~InTable(r)
    BY ResourceAssumption DEF Init, InTable, SlotsOf, FreeEntry
  <2> QED BY <2>1 DEF Init, Store!Init, policyInTable
<1>2. TableInv /\ [Next]_vars => [Store!Next]_(Store!vars)
  <2> SUFFICES ASSUME TableInv, [Next]_vars
               PROVE  [Store!Next]_(Store!vars)
    OBVIOUS
  <2>1. CASE \E msg \in Entry : handle_msg_policy_enable(msg)
    <3>1. PICK msg \in Entry : handle_msg_policy_enable(msg)
      BY <2>1
    <3>2. msg.resource_id \in Resource
      BY <3>1 DEF handle_msg_policy_enable, Entry
    <3>3. PolicyOf(msg) \in Policy
      BY DEF PolicyOf, Policy, Entry
    <3> QED BY <3>1, <3>2, <3>3, EnableImplements DEF Store!Next
  <2>2. CASE \E id \in Resource \cup {UNKNOWN} : handle_msg_policy_disable(id)
    BY <2>2, DisableImplements DEF Store!Next
  <2>3. CASE handle_msg_policy_make_immutable
    <3>1. policyInTable' = policyInTable
      BY <2>3 DEF handle_msg_policy_make_immutable, policyInTable, InTable,
                  SlotsOf, PolicyOf
    <3> QED BY <2>3, <3>1
            DEF handle_msg_policy_make_immutable, Store!Next, Store!MakeImmutable
  <2>4. CASE UNCHANGED vars
    <3>1. policyInTable' = policyInTable
      BY <2>4 DEF vars, policyInTable, InTable, SlotsOf, PolicyOf
    <3> QED BY <2>4, <3>1 DEF vars, Store!vars
  <2> QED BY <2>1, <2>2, <2>3, <2>4 DEF Next
<1> QED BY <1>1, <1>2, Invariance, PTL DEF Spec, ImplementsStore, Store!Spec
=============================================================================
