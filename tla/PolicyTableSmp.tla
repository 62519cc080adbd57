--------------------------- MODULE PolicyTableSmp ---------------------------
(***************************************************************************)
(* The messages of PolicyTable, handled by several CPUs at once.  Every    *)
(* CPU enters the handler at a VMEXIT of its own, and handler/ takes no    *)
(* lock.  A step is one access to what the CPUs share: a slot's resource   *)
(* id, an entry, num_entries, g_policy_immutable, the hypervisor.          *)
(*                                                                         *)
(* Whether the hypervisor lets two CPUs into the handler at once is not in *)
(* this repository: the constant Serialised says that it does not.         *)
(***************************************************************************)
EXTENDS PolicyTable

CONSTANTS
  Cpus,
  Serialised,  \* TRUE: a message is handled only after the one before it
  MaxCount     \* bound: no message comes once num_entries drifted past it

ASSUME SmpAssumption ==
  /\ Serialised \in BOOLEAN
  /\ MaxCount \in Nat /\ POLICY_MAX_ENTRIES <= MaxCount

VARIABLE cpu   \* cpu[c]: the locals of handle_msg_event on the CPU c

smpVars == <<vars, cpu>>
tableVars == <<policy_entry, num_entries>>
monitorVars == <<monitored, monitor_failed>>

Command == {"ENABLE", "DISABLE", "MAKE_IMMUTABLE"}

Idle == [pc |-> "idle", command |-> "ENABLE", entry |-> FreeEntry,
         i |-> 0, count |-> 0]

SmpInit == Init /\ cpu = [c \in Cpus |-> Idle]

Goto(c, pc) == cpu' = [cpu EXCEPT ![c].pc = pc]
Return(c) == cpu' = [cpu EXCEPT ![c] = Idle]

-----------------------------------------------------------------------------
(* handle_msg_event: the CPU takes a copy of the message of its guest.     *)
Receive(c, command, entry) ==
  /\ cpu[c].pc = "idle"
  /\ Serialised => \A d \in Cpus : cpu[d].pc = "idle"
  /\ num_entries <= MaxCount
  /\ cpu' = [cpu EXCEPT ![c] = [Idle EXCEPT !.pc = "check",
                                            !.command = command,
                                            !.entry = entry]]
  /\ UNCHANGED vars

(* The test that every message handler starts with.  (The mutant leaves    *)
(* it out.)                                                                *)
Refused_Never == FALSE
Refused == g_policy_immutable

(* Mutant: an enable already starts the monitoring here.                   *)
CheckImmutable_WatchFirst(c) ==
  /\ cpu[c].pc = "check"
  /\ IF Refused THEN Return(c)
     ELSE Goto(c, CASE cpu[c].command = "ENABLE" -> "own"
                    [] cpu[c].command = "DISABLE" -> "unmonitor"
                    [] cpu[c].command = "MAKE_IMMUTABLE" -> "freeze")
  /\ IF ~Refused /\ cpu[c].command = "ENABLE"
     THEN policy_set_monitor(cpu[c].entry.resource_id, TRUE)
     ELSE UNCHANGED monitorVars
  /\ UNCHANGED <<tableVars, g_policy_immutable>>

CheckImmutable(c) ==
  /\ cpu[c].pc = "check"
  /\ IF Refused THEN Return(c)
     ELSE Goto(c, CASE cpu[c].command = "ENABLE" -> "own"
                    [] cpu[c].command = "DISABLE" -> "unmonitor"
                    [] cpu[c].command = "MAKE_IMMUTABLE" -> "freeze")
  /\ UNCHANGED vars

Freeze(c) ==
  /\ cpu[c].pc = "freeze"
  /\ g_policy_immutable' = TRUE
  /\ Return(c)
  /\ UNCHANGED <<tableVars, monitorVars>>

-----------------------------------------------------------------------------
(* Is i the last slot of a loop?  (The mutant goes one further.)           *)
LastSlot_Late(i) == i \notin Slots
LastSlot(i) == i + 1 \notin Slots

(* One test of a loop over the slots: for id, going on at found; after the *)
(* last slot, the loop ends and the CPU goes on at missing, or returns.    *)
Scan(c, id, found, missing) ==
  LET me == cpu[c]
      hit == policy_entry[me.i].resource_id = id
  IN /\ IF hit THEN Goto(c, found)
        ELSE IF ~LastSlot(me.i) THEN cpu' = [cpu EXCEPT ![c].i = @ + 1]
        ELSE IF missing = "idle" THEN Return(c)
        ELSE cpu' = [cpu EXCEPT ![c].pc = missing, ![c].i = 0]
     /\ UNCHANGED vars

(* Mutant: no search for the resource's own entry.                         *)
ScanOwn_Skip(c) ==
  /\ cpu[c].pc = "own"
  /\ Goto(c, "free")
  /\ UNCHANGED vars

(* policy_entry_add                                                        *)
ScanOwn(c) ==
  /\ cpu[c].pc = "own"
  /\ Scan(c, cpu[c].entry.resource_id, "overwrite", "free")

ScanFree(c) ==
  /\ cpu[c].pc = "free"
  /\ Scan(c, UNKNOWN, "fill", "monitor")

WriteEntry(c, from, to) ==
  /\ cpu[c].pc = from
  /\ policy_entry' = [policy_entry EXCEPT ![cpu[c].i] = cpu[c].entry]
  /\ Goto(c, to)
  /\ UNCHANGED <<num_entries, g_policy_immutable, monitorVars>>

Overwrite(c) == WriteEntry(c, "overwrite", "monitor")
Fill(c) == WriteEntry(c, "fill", "loadCount")

(* policy_entry_del                                                        *)
ScanDel(c) ==
  /\ cpu[c].pc = "find"
  /\ Scan(c, cpu[c].entry.resource_id, "clear", "idle")

Clear(c) ==
  /\ cpu[c].pc = "clear"
  /\ policy_entry' = [policy_entry EXCEPT ![cpu[c].i].resource_id = UNKNOWN]
  /\ Goto(c, "loadCount")
  /\ UNCHANGED <<num_entries, g_policy_immutable, monitorVars>>

(* num_entries++ and if (num_entries) num_entries--: a load and a store.   *)
LoadCount(c) ==
  /\ cpu[c].pc = "loadCount"
  /\ cpu' = [cpu EXCEPT ![c].pc = "storeCount", ![c].count = num_entries]
  /\ UNCHANGED vars

StoreCount(c) ==
  LET me == cpu[c]
      n == me.count
  IN /\ me.pc = "storeCount"
     /\ \/ /\ me.command = "ENABLE"
           /\ num_entries' = n + 1
           /\ Goto(c, "monitor")
        \/ /\ me.command = "DISABLE"
           /\ num_entries' = IF n # 0 THEN n - 1 ELSE num_entries
           /\ Return(c)
     /\ UNCHANGED <<policy_entry, g_policy_immutable, monitorVars>>

-----------------------------------------------------------------------------
(* policy_set_monitor: last for an enable, first for a disable.            *)
Monitor(c) ==
  /\ cpu[c].pc = "monitor"
  /\ policy_set_monitor(cpu[c].entry.resource_id, TRUE)
  /\ Return(c)
  /\ UNCHANGED <<tableVars, g_policy_immutable>>

Unmonitor(c) ==
  /\ cpu[c].pc = "unmonitor"
  /\ policy_set_monitor(cpu[c].entry.resource_id, FALSE)
  /\ Goto(c, "find")
  /\ UNCHANGED <<tableVars, g_policy_immutable>>

Handle(c) ==
  \/ CheckImmutable(c) \/ Freeze(c)
  \/ ScanOwn(c) \/ Overwrite(c) \/ ScanFree(c) \/ Fill(c)
  \/ ScanDel(c) \/ Clear(c)
  \/ LoadCount(c) \/ StoreCount(c)
  \/ Monitor(c) \/ Unmonitor(c)

SmpNext ==
  \E c \in Cpus :
    \/ \E command \in Command, entry \in Entry :
         /\ entry.resource_id # UNKNOWN
         /\ Receive(c, command, entry)
    \/ Handle(c)

SmpSpec == SmpInit /\ [][SmpNext]_smpVars

-----------------------------------------------------------------------------
(* Properties                                                              *)

(* The variables hold values of their types.                               *)
SmpTypeOK ==
  /\ TypeOK
  /\ \A c \in Cpus :
       /\ cpu[c].command \in Command
       /\ cpu[c].entry \in Entry
       /\ cpu[c].i \in Slots
       /\ cpu[c].count \in Nat

(* No CPU is between its test of the flag and the end of its message.      *)
Quiet == \A c \in Cpus : cpu[c].pc \in {"idle", "check", "freeze"}

(* make_immutable does not stop a message that has passed its test, but    *)
(* once the last such message has ended, no message gets past its test any *)
(* more and nothing changes the table, the monitoring or the flag, with    *)
(* any number of CPUs and no lock.                                         *)
FrozenOnceQuiet ==
  [][g_policy_immutable /\ Quiet => UNCHANGED vars /\ Quiet']_smpVars
=============================================================================
