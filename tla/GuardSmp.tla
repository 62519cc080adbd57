------------------------------ MODULE GuardSmp ------------------------------
(***************************************************************************)
(* A register event on one CPU while other CPUs handle messages:           *)
(* PolicyTableSmp's handlers, which here copy an entry into the table      *)
(* field by field, and the event handler of RegisterGuard, which here      *)
(* reads the table field by field (handler/cpu_cr0.c, cpu_cr4.c).  No lock *)
(* keeps one from the other.                                               *)
(*                                                                         *)
(* An MSR event reads one entry (cpu_msr.c); it is left to RegisterGuard,  *)
(* and msr does not change here.  So is the log that an entry asks for.    *)
(***************************************************************************)
EXTENDS PolicyTableSmp, RegisterGuard

CONSTANT MayRefuse   \* bound: the resources whose monitoring may be refused

VARIABLES
  copied,   \* copied[c]: the fields of *entry that are in the slot on c
  ev,       \* the locals of handle_cr0_event or handle_cr4_event
  touched,  \* history: resources of the messages that were past their test
            \*   of g_policy_immutable at some time during the event
  settled   \* history: the table without entries that are half copied

guardSmpVars == <<smpVars, cr, msr, lastFault, copied, ev, touched,
                  settled>>
messageVars == <<smpVars, copied>>
registerVars == <<cr, msr, lastFault>>

EntryField == {"resource_id", "w_action", "sticky_val"}

NoEvent == [pc |-> "idle", reg |-> "CR0", req |-> {}, new |-> {},
            i |-> 0, bit |-> UNKNOWN]

GuardSmpInit ==
  /\ SmpInit
  /\ GInit
  /\ copied = [c \in Cpus |-> {}]
  /\ ev = NoEvent
  /\ touched = {}
  /\ settled = policy_entry

-----------------------------------------------------------------------------
(* The messages, with the assignment of an entry split up                  *)

(* Where policy_entry_add goes on once the slot is written.                *)
AfterCopy(pc) == IF pc = "fill" THEN "loadCount" ELSE "monitor"

(* policy_entry[i] = *entry: the fields, in whatever order the compiler    *)
(* chose.                                                                  *)
CopyField(c, f) ==
  LET me == cpu[c]
      done == copied[c] \cup {f} = EntryField
  IN /\ me.pc \in {"overwrite", "fill"}
     /\ f \notin copied[c]
     /\ policy_entry' = [policy_entry EXCEPT ![me.i][f] = me.entry[f]]
     /\ copied' = [copied EXCEPT ![c] = IF done THEN {} ELSE @ \cup {f}]
     /\ IF done THEN Goto(c, AfterCopy(me.pc)) ELSE UNCHANGED cpu
     /\ UNCHANGED <<num_entries, g_policy_immutable, monitorVars>>

(* Bound on the messages: of those that differ only in what their handler  *)
(* does not read, one.                                                     *)
Relevant(command, entry) ==
  CASE command = "ENABLE" -> entry.resource_id # UNKNOWN
    [] command = "DISABLE" ->
         /\ entry.resource_id # UNKNOWN
         /\ PolicyOf(entry) = PolicyOf(FreeEntry)
    [] command = "MAKE_IMMUTABLE" -> entry = FreeEntry

HandleByField(c) ==
  \/ \E f \in EntryField : CopyField(c, f)
  \/ /\ \/ CheckImmutable(c) \/ Freeze(c)
        \/ ScanOwn(c) \/ ScanFree(c)
        \/ ScanDel(c) \/ Clear(c)
        \/ LoadCount(c) \/ StoreCount(c)
        \/ Monitor(c) \/ Unmonitor(c)
     /\ UNCHANGED copied

MessageStep ==
  /\ \E c \in Cpus :
       \/ \E command \in Command, entry \in Entry :
            /\ Relevant(command, entry)
            /\ Receive(c, command, entry)
            /\ UNCHANGED copied
       \/ HandleByField(c)
  /\ monitor_failed' \subseteq MayRefuse
  /\ lastFault' = "none"
  /\ UNCHANGED <<cr, msr, ev>>

-----------------------------------------------------------------------------
(* The event                                                               *)

(* The guest writes req to reg and the hypervisor reports it.  diff is not *)
(* empty, or the handler returns at once.                                  *)
BeginEvent(reg, req) ==
  /\ ev.pc = "idle"
  /\ req # cr[reg]
  /\ ev' = [NoEvent EXCEPT !.pc = "id", !.reg = reg, !.req = req,
                           !.new = req]
  /\ lastFault' = "none"
  /\ UNCHANGED <<messageVars, cr, msr>>

(* The operand is no register the handler knows, or a register cannot be   *)
(* read: the event ends before the walk ("read" stands for both here).     *)
ReadFails(reg, req) ==
  /\ ev.pc = "idle"
  /\ cr' = [cr EXCEPT ![reg] = req]
  /\ lastFault' = "read"
  /\ UNCHANGED <<messageVars, msr, ev>>

(* ev on its way to the next slot, or past the last one.                   *)
NextSlot(me) ==
  IF LastSlot(me.i) THEN [me EXCEPT !.pc = "end"]
  ELSE [me EXCEPT !.pc = "id", !.i = @ + 1]

Invert(me) == [me EXCEPT !.new = SymDiff(@, {me.bit})]

Reading(pc) == /\ ev.pc = pc
               /\ lastFault' = "none"
               /\ UNCHANGED <<messageVars, cr, msr>>

(* The walk ends at the first free slot.                                   *)
ReadId_StopAtFree ==
  LET id == policy_entry[ev.i].resource_id
  IN /\ Reading("id")
     /\ ev' = IF id = UNKNOWN THEN [ev EXCEPT !.pc = "end"]
              ELSE IF id \in SymDiff(cr[ev.reg], ev.req) \cap CrRes[ev.reg]
              THEN [ev EXCEPT !.pc = "sticky", !.bit = id]
              ELSE NextSlot(ev)

(* All tests of the id before the last one can only pass over the slot.    *)
ReadId ==
  LET id == policy_entry[ev.i].resource_id
  IN /\ Reading("id")
     /\ ev' = IF id \in SymDiff(cr[ev.reg], ev.req) \cap CrRes[ev.reg]
              THEN [ev EXCEPT !.pc = "sticky", !.bit = id]
              ELSE NextSlot(ev)

(* POLICY_ENTRY_HAS_STICKY                                                 *)
ReadSticky ==
  /\ Reading("sticky")
  /\ ev' = [ev EXCEPT !.pc = IF HAS_STICKY(policy_entry[ev.i])
                             THEN "value" ELSE "skip"]

(* A sticky bit is inverted whatever the new value has there.              *)
ReadStickyValue_Always ==
  /\ Reading("value")
  /\ ev' = NextSlot(Invert(ev))

(* The bit has the sticky value afterwards.                                *)
ReadStickyValue ==
  LET value == Odd(policy_entry[ev.i].sticky_val)
  IN /\ Reading("value")
     /\ ev' = NextSlot(IF (ev.bit \in ev.new) # value THEN Invert(ev) ELSE ev)

(* POLICY_ENTRY_W_HAS_SKIP, which reads w_action again.                    *)
ReadSkip ==
  /\ Reading("skip")
  /\ ev' = NextSlot(IF W_HAS_SKIP(policy_entry[ev.i]) THEN Invert(ev) ELSE ev)

(* REDIRECT, or the write of the new value, which may fail.                *)
EndEvent ==
  /\ ev.pc = "end"
  /\ \/ /\ cr' = [cr EXCEPT ![ev.reg] = ev.new]
        /\ lastFault' = "none"
     \/ /\ ev.new # cr[ev.reg]
        /\ cr' = [cr EXCEPT ![ev.reg] = ev.req]
        /\ lastFault' = "write"
  /\ ev' = NoEvent
  /\ UNCHANGED <<messageVars, msr>>

(* A write the hypervisor does not report, from the same CPU.              *)
SilentWrite(reg, req) ==
  /\ ev.pc = "idle"
  /\ UnreportedCrWrite(reg, req)
  /\ UNCHANGED <<messageVars, ev>>

EventStep ==
  \/ \E reg \in Reg : \E req \in SUBSET Bits(reg) :
       BeginEvent(reg, req) \/ ReadFails(reg, req) \/ SilentWrite(reg, req)
  \/ ReadId \/ ReadSticky \/ ReadStickyValue \/ ReadSkip
  \/ EndEvent

-----------------------------------------------------------------------------
PastTest == {cpu[c].entry.resource_id :
               c \in {d \in Cpus : cpu[d].pc \notin {"idle", "check", "freeze"}}}

KeepTouched ==
  touched' = IF ev'.pc = "idle" THEN {}
             ELSE touched \cup PastTest \cup PastTest'

KeepSettled ==
  settled' = IF \E c \in Cpus : copied'[c] # {} THEN settled
             ELSE policy_entry'

GuardSmpNext == (MessageStep \/ EventStep) /\ KeepTouched /\ KeepSettled

GuardSmpSpec == GuardSmpInit /\ [][GuardSmpNext]_guardSmpVars

-----------------------------------------------------------------------------
(* Properties                                                              *)

(* The variables hold values of their types.                               *)
GuardSmpTypeOK ==
  /\ SmpTypeOK
  /\ GTypeOK
  /\ copied \in [Cpus -> SUBSET EntryField]
  /\ ev.pc \in {"idle", "id", "sticky", "value", "skip", "end"}
  /\ ev.reg \in Reg
  /\ ev.req \subseteq Bits(ev.reg) /\ ev.new \subseteq Bits(ev.reg)
  /\ ev.i \in Slots
  /\ ev.bit \in CrRes[ev.reg] \cup {UNKNOWN}
  /\ touched \subseteq Resource
  /\ settled \in [Slots -> Entry]

(* A resource the hypervisor watches has its entry in the table at every   *)
(* access of every message, as long as the hypervisor refused nothing for  *)
(* it: an entry is written whole before its monitoring starts and freed    *)
(* only after it has stopped (policy_msg_add, policy_msg_del), so no       *)
(* reported write finds the table without the policy it is reported for.   *)
(* For one message at a time.                                              *)
WatchedHaveEntries == \A r \in monitored \ monitor_failed : InTable(r)

(* One message at a time, an event gives every bit what its policy says,   *)
(* although it reads the table in pieces while the message changes it,     *)
(* except for the resources of the messages it overlaps: an entry that is  *)
(* half copied or half freed, and a slot that changes hands, never spill   *)
(* over.                                                                   *)
UntouchedVerdict ==
  ev.pc = "end" =>
    \A b \in CrRes[ev.reg] \ touched :
      (b \in ev.new) = BitVerdict(ev.reg, ev.req, b)

(* RegisterGuard's PinnedForever for control registers, with events that   *)
(* take time and messages one at a time: only an event that a message      *)
(* about r overlapped may still undo the value, also when it ends long     *)
(* after make_immutable.                                                   *)
PinnedUnlessInFlight ==
  [][\A r \in Resource :
       Pinned(r) /\ r \notin touched =>
         Pinned(r)' \/ lastFault' # "none"]_guardSmpVars

policySettled ==
  [r \in Resource |->
     LET own == {i \in Slots : settled[i].resource_id = r}
     IN IF own = {} THEN NoPolicy ELSE PolicyOf(settled[First(own)])]

SettledStore == INSTANCE PolicyStore
                  WITH policy <- policySettled,
                       immutable <- g_policy_immutable

(* One message at a time, the handlers implement the abstract store access *)
(* by access and field by field: a message takes effect at one step, the   *)
(* last field of its entry or the freed id, and before or after it nothing *)
(* is lost, merged or revived.  settled leaves the half copies out by its  *)
(* definition: what the table is to a reader during a copy is the subject  *)
(* of UntouchedVerdict.                                                    *)
ImplementsStoreByField == SettledStore!Spec
=============================================================================
