--------------------------- MODULE GuardSmpProofs ---------------------------
(***************************************************************************)
(* Proofs about GuardSmp for any number of CPUs, resources and bits, of    *)
(* what holds when the hypervisor serialises the messages: the table is    *)
(* consistent between them and implements the abstract store field by      *)
(* field, and a register event that runs meanwhile gives every bit that no *)
(* message is about its verdict.                                           *)
(***************************************************************************)
EXTENDS GuardSmp, PolicyTableSmpProofs, RegisterGuardProofs

-----------------------------------------------------------------------------
(* Types                                                                   *)

EvPc == {"idle", "id", "sticky", "value", "skip", "end"}
AnyBits == UNION {Bits(reg) : reg \in Reg}
EvT == [pc : EvPc, reg : Reg, req : SUBSET AnyBits, new : SUBSET AnyBits,
        i : Slots, bit : Resource \cup {UNKNOWN}]

RegisterTypes ==
  /\ cr \in [Reg -> SUBSET AnyBits]
  /\ \A reg \in Reg : cr[reg] \subseteq Bits(reg)
  /\ msr \in [MsrRes -> MsrVals]
  /\ lastFault \in CrFault

EventTypes ==
  /\ ev \in EvT
  /\ ev.req \subseteq Bits(ev.reg) /\ ev.new \subseteq Bits(ev.reg)
  /\ ev.bit \in CrRes[ev.reg] \cup {UNKNOWN}
  /\ ev.pc \in {"sticky", "value", "skip"} => ev.bit # UNKNOWN

SmpTypes ==
  /\ SmpInv
  /\ RegisterTypes
  /\ EventTypes
  /\ copied \in [Cpus -> SUBSET EntryField]
  /\ touched \subseteq Resource
  /\ settled \in [Slots -> Entry]

-----------------------------------------------------------------------------
(* One message at a time                                                   *)

(* Where in its handler the message is, and that no other message made the *)
(* table immutable meanwhile.                                              *)
StageOK(c) ==
  LET me == cpu[c]
  IN /\ me.pc \in {"check", "unmonitor"} => me.i = 0
     /\ me.pc \notin {"idle", "check"} => g_policy_immutable = FALSE
     /\ me.pc \in {"own", "overwrite", "free", "fill", "monitor"} =>
          me.command = "ENABLE"
     /\ me.pc \in {"unmonitor", "find", "clear"} => me.command = "DISABLE"
     /\ me.pc \in {"loadCount", "storeCount"} =>
          me.command \in {"ENABLE", "DISABLE"}

(* What the loops have found, and that the slot is still as it was found   *)
(* when it is written.                                                     *)
SlotOK(c) ==
  LET me == cpu[c]
      id == me.entry.resource_id
      idOf(j) == policy_entry[j].resource_id
      idThere == "resource_id" \in copied[c]
  IN /\ me.pc \in {"own", "find"} =>
          \A j \in Slots : j < me.i => idOf(j) # id
     /\ me.pc \in {"overwrite", "clear"} => idOf(me.i) = id
     /\ me.pc = "free" =>
          ~InTable(id) /\ \A j \in Slots : j < me.i => idOf(j) # UNKNOWN
     /\ me.pc = "fill" =>
          IF idThere THEN idOf(me.i) = id
          ELSE ~InTable(id) /\ idOf(me.i) = UNKNOWN
     /\ me.pc = "monitor" => InTable(id)
     /\ me.pc \in {"loadCount", "storeCount"} =>
          (me.command = "ENABLE" <=> InTable(id))

(* The copied fields are there, and settled is the table without them.     *)
CopyOK(c) ==
  LET me == cpu[c]
  IN /\ copied[c] # {} => me.pc \in {"overwrite", "fill"}
     /\ copied[c] # EntryField
     /\ \A f \in copied[c] : policy_entry[me.i][f] = me.entry[f]
     /\ copied[c] = {} => settled = policy_entry
     /\ copied[c] # {} =>
          /\ \A j \in Slots \ {me.i} : settled[j] = policy_entry[j]
          /\ settled[me.i].resource_id =
               IF me.pc = "fill" THEN UNKNOWN ELSE me.entry.resource_id

(* The count is off by one between a change of the table and its store.    *)
CountOK(c) ==
  LET me == cpu[c]
      counting == me.pc \in {"loadCount", "storeCount"}
      filled == me.pc = "fill" /\ "resource_id" \in copied[c]
      used == Cardinality(Used)
  IN /\ filled \/ (counting /\ me.command = "ENABLE") => used = num_entries + 1
     /\ counting /\ me.command # "ENABLE" => num_entries = used + 1
     /\ ~filled /\ ~counting => num_entries = used
     /\ me.pc = "storeCount" => me.count = num_entries

(* The resource of the message alone may be watched without an entry or    *)
(* have an entry unwatched.                                                *)
WatchOK(c) ==
  LET me == cpu[c]
      id == me.entry.resource_id
  IN /\ \A r \in Resource \ (MsrUnlisted \cup monitor_failed) :
          (r # id \/ me.pc \notin {"fill", "loadCount", "storeCount", "monitor",
                                   "find", "clear"})
            => (r \in monitored <=> InTable(r))
     /\ (\/ me.pc \in {"find", "clear"}
         \/ me.pc = "fill" /\ "resource_id" \notin copied[c]
         \/ me.pc \in {"loadCount", "storeCount"} /\ me.command = "DISABLE")
          => (id \in monitored => id \in monitor_failed)

(* The table between two messages.                                         *)
RestOK ==
  /\ \A c \in Cpus : cpu[c].pc = "idle" /\ copied[c] = {}
  /\ UniqueEntries /\ NumEntriesExact /\ MonitoredExactly
  /\ settled = policy_entry

(* The table while the CPU c alone handles a message.                      *)
BusyOK(c) ==
  /\ cpu[c].pc # "idle"
  /\ \A d \in Cpus \ {c} : cpu[d].pc = "idle" /\ copied[d] = {}
  /\ UniqueEntries
  /\ StageOK(c) /\ SlotOK(c) /\ CopyOK(c) /\ CountOK(c) /\ WatchOK(c)

MessageInv == RestOK \/ \E c \in Cpus : BusyOK(c)

-----------------------------------------------------------------------------
(* An event among messages                                                 *)

(* A slot that the walk has left behind.                                   *)
Behind(i) == ev.pc = "end" \/ i < ev.i

(* The bits that the event may change.                                     *)
EvDiff == SymDiff(cr[ev.reg], ev.req) \cap CrRes[ev.reg]

(* A bit that no message touches has its verdict once its slot is behind,  *)
(* and the requested value before; the entry being read is that of ev.bit. *)
BitOK(b) ==
  /\ \A i \in SlotsOf(b) :
       b \in ev.new <=> IF Behind(i) THEN BitVerdict(ev.reg, ev.req, b)
                        ELSE b \in ev.req
  /\ ~InTable(b) => (b \in ev.new <=> b \in ev.req)
  /\ ev.pc \in {"sticky", "value", "skip"} =>
       (ev.bit = b <=> policy_entry[ev.i].resource_id = b)
  /\ ev.pc \in {"value", "skip"} /\ ev.bit = b =>
       (ev.pc = "value" <=> HAS_STICKY(policy_entry[ev.i]))

EventInv ==
  ev.pc # "idle" =>
    /\ PastTest \subseteq touched
    /\ ev.pc \in {"sticky", "value", "skip"} => ev.bit \in EvDiff
    /\ \A b \in CrRes[ev.reg] \ touched : BitOK(b)

GuardSmpInv == SmpTypes /\ MessageInv /\ EventInv

-----------------------------------------------------------------------------
(* Types, whether or not the messages are serialised                       *)

(* A register of CR0 and CR4 has bits of its own and others.               *)
LEMMA RegisterBits ==
  ASSUME NEW reg \in Reg PROVE Bits(reg) \subseteq AnyBits
BY DEF AnyBits

LEMMA SmpInitTypes == GuardSmpInit => SmpTypes
<1> SUFFICES ASSUME GuardSmpInit PROVE SmpTypes OBVIOUS
<1>1. SmpInv BY SmpInitInv DEF GuardSmpInit
<1>2. RegisterTypes
  BY DEF GuardSmpInit, GInit, RegisterTypes, AnyBits, CrFault
<1>3. EventTypes
  <2>1. "CR0" \in Reg /\ 0 \in Slots BY Registers, IdleOk
  <2> QED BY <2>1 DEF GuardSmpInit, NoEvent, EventTypes, EvT, EvPc
<1>4. settled \in [Slots -> Entry]
  BY <1>1 DEF GuardSmpInit, SmpInv, TypeOK
<1> QED BY <1>1, <1>2, <1>3, <1>4 DEF GuardSmpInit, SmpTypes

(* A field of one entry in the place of that of another.                   *)
LEMMA FieldType ==
  ASSUME NEW a \in Entry, NEW b \in Entry, NEW f \in EntryField
  PROVE [a EXCEPT ![f] = b[f]] \in Entry
<1>1. CASE f = "resource_id" BY <1>1 DEF Entry
<1>2. CASE f = "w_action" BY <1>2 DEF Entry
<1>3. CASE f = "sticky_val" BY <1>3 DEF Entry
<1> QED BY <1>1, <1>2, <1>3 DEF EntryField

(* The slot gets the field; nothing else changes in the table.             *)
LEMMA CopyEffect ==
  ASSUME SmpInv, NEW c \in Cpus, NEW f \in EntryField, CopyField(c, f)
  PROVE LET me == cpu[c]
            e == [policy_entry[me.i] EXCEPT ![f] = me.entry[f]]
        IN /\ me.i \in Slots /\ me.entry \in Entry /\ e \in Entry
           /\ policy_entry' \in [Slots -> Entry]
           /\ policy_entry'[me.i] = e
           /\ \A j \in Slots \ {me.i} : policy_entry'[j] = policy_entry[j]
<1> DEFINE me == cpu[c]
           e == [policy_entry[me.i] EXCEPT ![f] = me.entry[f]]
<1>1. /\ me.i \in Slots /\ me.entry \in Entry
      /\ policy_entry \in [Slots -> Entry]
  BY DEF SmpInv, LocalOk, Locals, TypeOK
<1>2. e \in Entry BY <1>1, FieldType
<1>3. policy_entry' = [policy_entry EXCEPT ![me.i] = e] BY DEF CopyField
<1> HIDE DEF me, e
<1> QED BY <1>1, <1>2, <1>3 DEF me, e

LEMMA CopyStep ==
  ASSUME SmpInv, NEW c \in Cpus, NEW f \in EntryField, CopyField(c, f)
  PROVE SmpInv'
<1>1. policy_entry' \in [Slots -> Entry] BY CopyEffect
<1>2. TypeOK' BY <1>1 DEF CopyField, SmpInv, TypeOK, monitorVars
<1>3. CASE UNCHANGED cpu BY <1>2, <1>3 DEF SmpInv, LocalOk
<1>4. CASE Goto(c, AfterCopy(cpu[c].pc))
  <2>1. AfterCopy(cpu[c].pc) \in Pc \ BeforeTest /\ cpu[c].pc \notin BeforeTest
    BY DEF CopyField, AfterCopy, Pc, BeforeTest
  <2> QED BY <1>2, <1>4, <2>1, MoveOn
<1> QED BY <1>3, <1>4 DEF CopyField

(* One step of one handler.                                                *)
LEMMA OneHandler ==
  ASSUME MessageStep
  PROVE \E c \in Cpus :
          \/ \E command \in Command, entry \in Entry :
               /\ Relevant(command, entry)
               /\ Receive(c, command, entry)
               /\ UNCHANGED copied
          \/ \E f \in EntryField : CopyField(c, f)
          \/ /\ \/ CheckImmutable(c) \/ Freeze(c)
                \/ ScanOwn(c) \/ ScanFree(c) \/ ScanDel(c) \/ Clear(c)
                \/ LoadCount(c) \/ StoreCount(c)
                \/ Monitor(c) \/ Unmonitor(c)
             /\ UNCHANGED copied
BY DEF MessageStep, HandleByField

LEMMA MessageTypes ==
  ASSUME SmpTypes, MessageStep
  PROVE SmpInv' /\ copied' \in [Cpus -> SUBSET EntryField]
<1> USE DEF SmpTypes
<1>1. PICK c \in Cpus :
        \/ \E command \in Command, entry \in Entry :
             /\ Relevant(command, entry)
             /\ Receive(c, command, entry)
             /\ UNCHANGED copied
        \/ \E f \in EntryField : CopyField(c, f)
        \/ /\ \/ CheckImmutable(c) \/ Freeze(c)
              \/ ScanOwn(c) \/ ScanFree(c) \/ ScanDel(c) \/ Clear(c)
              \/ LoadCount(c) \/ StoreCount(c)
              \/ Monitor(c) \/ Unmonitor(c)
           /\ UNCHANGED copied
  BY OneHandler
<1>2. ASSUME NEW command \in Command, NEW entry \in Entry,
             Relevant(command, entry), Receive(c, command, entry)
      PROVE SmpInv'
  <2>1. command = "MAKE_IMMUTABLE" \/ entry.resource_id # UNKNOWN
    BY <1>2 DEF Relevant, Command
  <2> QED BY <1>2, <2>1, ReceiveStep
<1>3. ASSUME NEW f \in EntryField, CopyField(c, f)
      PROVE SmpInv' /\ copied' \in [Cpus -> SUBSET EntryField]
  BY <1>3, CopyStep DEF CopyField
<1>4. ASSUME \/ CheckImmutable(c) \/ Freeze(c)
             \/ ScanOwn(c) \/ ScanFree(c) \/ ScanDel(c) \/ Clear(c)
             \/ LoadCount(c) \/ StoreCount(c)
             \/ Monitor(c) \/ Unmonitor(c)
      PROVE SmpInv'
  BY <1>4, FlagStep, ScansStep, EntryStep, CountStep, MonitorStep
<1> QED BY <1>1, <1>2, <1>3, <1>4

(* The registers and the event's locals.                                   *)
LEMMA EventStepTypes ==
  ASSUME SmpTypes, EventStep
  PROVE RegisterTypes' /\ EventTypes' /\ UNCHANGED messageVars
<1> USE DEF SmpTypes
<1>1. \A reg \in Reg : Bits(reg) \subseteq AnyBits BY RegisterBits
<1>2. ev \in EvT /\ EventTypes /\ cr \in [Reg -> SUBSET AnyBits]
  BY DEF EventTypes, RegisterTypes
<1>3. 0 \in Slots /\ NoEvent \in EvT
  <2>1. "CR0" \in Reg /\ 0 \in Slots BY Registers, IdleOk
  <2> QED BY <2>1 DEF NoEvent, EvT, EvPc
<1>4. ASSUME NEW reg \in Reg, NEW val \in SUBSET Bits(reg),
             cr' = [cr EXCEPT ![reg] = val], UNCHANGED msr,
             lastFault' \in CrFault
      PROVE RegisterTypes'
  <2>1. cr' \in [Reg -> SUBSET AnyBits] BY <1>1, <1>2, <1>4
  <2>2. \A q \in Reg : cr'[q] \subseteq Bits(q)
    BY <1>2, <1>4 DEF RegisterTypes
  <2> QED BY <1>4, <2>1, <2>2 DEF RegisterTypes, Bits, AnyBits
<1>5. ASSUME UNCHANGED <<cr, msr>>, lastFault' \in CrFault PROVE RegisterTypes'
  BY <1>5 DEF RegisterTypes, Bits, AnyBits
<1>6. UNCHANGED ev => EventTypes'
  BY DEF EventTypes, Bits
<1>7. ASSUME NEW E \in EvT, ev' = E,
             E.req \subseteq Bits(E.reg) /\ E.new \subseteq Bits(E.reg),
             E.bit \in CrRes[E.reg] \cup {UNKNOWN},
             E.pc \in {"sticky", "value", "skip"} => E.bit # UNKNOWN
      PROVE EventTypes'
  BY <1>7 DEF EventTypes, Bits
<1>8. ASSUME NEW me, me \in EvT, me.new \subseteq Bits(me.reg)
      PROVE LET E == NextSlot(me)
            IN /\ E \in EvT /\ E.reg = me.reg /\ E.req = me.req
               /\ E.new = me.new /\ E.bit = me.bit
               /\ E.pc \in {"end", "id"}
  <2>1. CASE LastSlot(me.i) BY <1>8, <2>1 DEF NextSlot, EvT, EvPc
  <2>2. CASE ~LastSlot(me.i)
    BY <1>8, <2>2 DEF NextSlot, EvT, EvPc, LastSlot
  <2> QED BY <2>1, <2>2
<1>9. ASSUME ev.bit # UNKNOWN
      PROVE LET E == Invert(ev)
            IN /\ E \in EvT /\ E.reg = ev.reg /\ E.req = ev.req
               /\ E.new \subseteq Bits(ev.reg) /\ E.bit = ev.bit
  <2>1. SymDiff(ev.new, {ev.bit}) \subseteq Bits(ev.reg)
    BY <1>2, <1>9 DEF EventTypes, SymDiff, Bits
  <2>2. SymDiff(ev.new, {ev.bit}) \in SUBSET AnyBits
    BY <1>1, <1>2, <2>1 DEF EvT
  <2> QED BY <1>2, <2>1, <2>2 DEF Invert, EvT
<1>10. ASSUME NEW reg \in Reg, NEW req \in SUBSET Bits(reg),
              BeginEvent(reg, req)
       PROVE EventTypes' /\ RegisterTypes' /\ UNCHANGED messageVars
  <2> DEFINE E == [NoEvent EXCEPT !.pc = "id", !.reg = reg, !.req = req,
                                  !.new = req]
  <2>1. /\ E \in EvT /\ E.reg = reg /\ E.req = req /\ E.new = req
        /\ E.pc = "id" /\ E.bit = NoEvent.bit
    BY <1>1, <1>3 DEF EvT, EvPc
  <2>2. E.bit = UNKNOWN BY <2>1 DEF NoEvent
  <2>3. ev' = E BY <1>10 DEF BeginEvent
  <2> HIDE DEF E
  <2>4. EventTypes' BY <1>7, <2>1, <2>2, <2>3
  <2> QED BY <1>5, <1>10, <2>4 DEF BeginEvent, CrFault
<1>11. ASSUME NEW reg \in Reg, NEW req \in SUBSET Bits(reg),
              ReadFails(reg, req) \/ SilentWrite(reg, req)
       PROVE EventTypes' /\ RegisterTypes' /\ UNCHANGED messageVars
  <2>1. /\ cr' = [cr EXCEPT ![reg] = req] /\ UNCHANGED <<msr, ev>>
        /\ lastFault' \in CrFault /\ UNCHANGED messageVars
    BY <1>11 DEF ReadFails, SilentWrite, UnreportedCrWrite, CrFault
  <2> QED BY <1>4, <1>6, <2>1
<1>12. ASSUME ReadId \/ ReadSticky \/ ReadStickyValue \/ ReadSkip
       PROVE EventTypes' /\ RegisterTypes' /\ UNCHANGED messageVars
  <2>1. /\ UNCHANGED messageVars /\ UNCHANGED <<cr, msr>> /\ lastFault' = "none"
    BY <1>12 DEF ReadId, ReadSticky, ReadStickyValue, ReadSkip, Reading
  <2> SUFFICES EventTypes' BY <1>5, <2>1 DEF CrFault
  <2>2. ev.new \subseteq Bits(ev.reg) /\ ev.req \subseteq Bits(ev.reg)
        /\ ev.bit \in CrRes[ev.reg] \cup {UNKNOWN}
    BY <1>2 DEF EventTypes
  <2>3. ASSUME ev' = NextSlot(ev) PROVE EventTypes'
    <3> DEFINE E == NextSlot(ev)
    <3>1. /\ E \in EvT /\ E.reg = ev.reg /\ E.req = ev.req
          /\ E.new = ev.new /\ E.bit = ev.bit /\ E.pc \in {"end", "id"}
      BY <1>2, <1>8, <2>2
    <3> HIDE DEF E
    <3>2. ev' = E BY <2>3 DEF E
    <3> QED BY <1>7, <2>2, <3>1, <3>2
  <2>4. ASSUME ev' = NextSlot(Invert(ev)), ev.bit # UNKNOWN PROVE EventTypes'
    <3> DEFINE F == Invert(ev)
               E == NextSlot(F)
    <3>1. /\ F \in EvT /\ F.reg = ev.reg /\ F.req = ev.req
          /\ F.new \subseteq Bits(ev.reg) /\ F.bit = ev.bit
      BY <1>9, <2>4
    <3>2. ev' = E BY <2>4
    <3> HIDE DEF F
    <3>3. /\ E \in EvT /\ E.reg = F.reg /\ E.req = F.req
          /\ E.new = F.new /\ E.bit = F.bit /\ E.pc \in {"end", "id"}
      BY <1>8, <3>1
    <3> HIDE DEF E
    <3> QED BY <1>7, <2>2, <3>1, <3>2, <3>3
  <2>5. CASE ReadId
    <3> DEFINE id == policy_entry[ev.i].resource_id
               E == [ev EXCEPT !.pc = "sticky", !.bit = id]
    <3>1. CASE id \in SymDiff(cr[ev.reg], ev.req) \cap CrRes[ev.reg]
      <4>1. id \in CrRes[ev.reg] /\ id \in Resource /\ id # UNKNOWN
        BY <1>2, <3>1, Registers, ResourceAssumption DEF EvT
      <4>2. /\ E \in EvT /\ E.reg = ev.reg /\ E.req = ev.req
            /\ E.new = ev.new /\ E.bit = id
        BY <1>2, <4>1 DEF EvT, EvPc
      <4>3. ev' = E BY <2>5, <3>1 DEF ReadId
      <4> HIDE DEF E, id
      <4> QED BY <1>7, <2>2, <4>1, <4>2, <4>3
    <3>2. CASE id \notin SymDiff(cr[ev.reg], ev.req) \cap CrRes[ev.reg]
      BY <2>3, <2>5, <3>2 DEF ReadId
    <3> QED BY <3>1, <3>2
  <2>6. CASE ReadSticky
    <3> DEFINE pc == IF HAS_STICKY(policy_entry[ev.i]) THEN "value" ELSE "skip"
               E == [ev EXCEPT !.pc = pc]
    <3>1. ev' = E /\ ev.bit # UNKNOWN
      BY <1>2, <2>6 DEF ReadSticky, EventTypes, Reading
    <3>2. pc \in EvPc BY DEF EvPc
    <3> HIDE DEF pc
    <3>3. /\ E \in EvT /\ E.reg = ev.reg /\ E.req = ev.req
          /\ E.new = ev.new /\ E.bit = ev.bit
      BY <1>2, <3>2 DEF EvT
    <3> HIDE DEF E
    <3> QED BY <1>7, <2>2, <3>1, <3>3
  <2>7. CASE ReadStickyValue
    <3>1. ev.bit # UNKNOWN BY <1>2, <2>7 DEF ReadStickyValue, EventTypes, Reading
    <3>2. ev' = NextSlot(Invert(ev)) \/ ev' = NextSlot(ev)
      BY <2>7 DEF ReadStickyValue
    <3> QED BY <2>3, <2>4, <3>1, <3>2
  <2>8. CASE ReadSkip
    <3>1. ev.bit # UNKNOWN BY <1>2, <2>8 DEF ReadSkip, EventTypes, Reading
    <3>2. ev' = NextSlot(Invert(ev)) \/ ev' = NextSlot(ev)
      BY <2>8 DEF ReadSkip
    <3> QED BY <2>3, <2>4, <3>1, <3>2
  <2> QED BY <1>12, <2>5, <2>6, <2>7, <2>8
<1>13. CASE EndEvent
  <2>1. PICK val \in {ev.new, ev.req} : cr' = [cr EXCEPT ![ev.reg] = val]
    BY <1>13 DEF EndEvent
  <2>2. ev.reg \in Reg /\ val \in SUBSET Bits(ev.reg)
    BY <1>2 DEF EventTypes, EvT
  <2>3. /\ UNCHANGED <<messageVars, msr>> /\ lastFault' \in CrFault
        /\ ev' = NoEvent
    BY <1>13 DEF EndEvent, CrFault
  <2>4. EventTypes'
    BY <1>3, <1>7, <2>3 DEF NoEvent
  <2> QED BY <1>4, <2>1, <2>2, <2>3, <2>4
<1> QED BY <1>10, <1>11, <1>12, <1>13 DEF EventStep

(* The ids of the messages that have passed their test are resources.      *)
LEMMA PastTestType == SmpInv => PastTest \subseteq Resource
BY DEF SmpInv, LocalOk, Locals, BeforeTest, PastTest, Entry

LEMMA SmpTypesStep == SmpTypes /\ [GuardSmpNext]_guardSmpVars => SmpTypes'
<1> SUFFICES ASSUME SmpTypes, [GuardSmpNext]_guardSmpVars PROVE SmpTypes'
  OBVIOUS
<1> USE DEF SmpTypes
<1>1. CASE GuardSmpNext
  <2>1. /\ SmpInv' /\ copied' \in [Cpus -> SUBSET EntryField]
        /\ RegisterTypes' /\ EventTypes'
    <3>1. CASE MessageStep
      <4>1. RegisterTypes' /\ EventTypes'
        BY <3>1 DEF MessageStep, RegisterTypes, EventTypes, Bits, AnyBits,
                    CrFault
      <4> QED BY <3>1, <4>1, MessageTypes
    <3>2. CASE EventStep
      <4>1. RegisterTypes' /\ EventTypes' /\ UNCHANGED messageVars
        BY <3>2, EventStepTypes
      <4>2. UNCHANGED smpVars /\ UNCHANGED copied
        BY <4>1 DEF messageVars
      <4>3. SmpInv' BY <4>2, TableUnchanged DEF smpVars, SmpInv, LocalOk
      <4> QED BY <4>1, <4>2, <4>3
    <3> QED BY <1>1, <3>1, <3>2 DEF GuardSmpNext
  <2>2. touched' \subseteq Resource
    <3>1. PastTest \subseteq Resource /\ PastTest' \subseteq Resource
      <4>1. PastTest' \subseteq Resource
        BY <2>1 DEF SmpInv, LocalOk, Locals, BeforeTest, PastTest, Entry
      <4> QED BY <4>1, PastTestType
    <3> QED BY <1>1, <3>1 DEF GuardSmpNext, KeepTouched
  <2>3. settled' \in [Slots -> Entry]
    BY <1>1, <2>1 DEF GuardSmpNext, KeepSettled, SmpInv, TypeOK
  <2> QED BY <2>1, <2>2, <2>3
<1>2. CASE UNCHANGED guardSmpVars
  <2>1. SmpInv'
    BY <1>2, TableUnchanged DEF guardSmpVars, smpVars, SmpInv, LocalOk
  <2> QED BY <1>2, <2>1
          DEF guardSmpVars, RegisterTypes, EventTypes, Bits, AnyBits
<1> QED BY <1>1, <1>2

LEMMA SmpTypesInvariance == GuardSmpSpec => []SmpTypes
BY SmpInitTypes, SmpTypesStep, PTL DEF GuardSmpSpec

(* With any number of CPUs in their handlers at once, serialised or not,   *)
(* table, messages, registers and the event's locals stay well-typed.      *)
THEOREM GuardSmpTypeCorrect == GuardSmpSpec => []GuardSmpTypeOK
<1>1. SmpTypes => GuardSmpTypeOK
  <2> SUFFICES ASSUME SmpTypes PROVE GuardSmpTypeOK OBVIOUS
  <2>1. SmpTypeOK /\ TypeOK
    BY DEF SmpTypes, SmpInv, SmpTypeOK, LocalOk, Locals
  <2>2. GTypeOK BY <2>1 DEF SmpTypes, RegisterTypes, GTypeOK
  <2> QED BY <2>1, <2>2 DEF SmpTypes, GuardSmpTypeOK, EventTypes, EvT, EvPc
<1> QED BY <1>1, SmpTypesInvariance, PTL

-----------------------------------------------------------------------------
(* A step of the handler on the CPU c                                      *)

(* c goes on at pc with the slot i, or ends its message; no other CPU      *)
(* moves.                                                                  *)
Alone(c) == \A d \in Cpus \ {c} : cpu'[d] = cpu[d]

Moves(c, pc, i) ==
  /\ cpu'[c].pc = pc /\ cpu'[c].i = i
  /\ cpu'[c].command = cpu[c].command /\ cpu'[c].entry = cpu[c].entry
  /\ Alone(c)

Ends(c) == cpu'[c].pc = "idle" /\ Alone(c)

LEMMA GotoMoves ==
  ASSUME SmpInv, NEW c \in Cpus, NEW pc, Goto(c, pc)
  PROVE Moves(c, pc, cpu[c].i)
<1> DEFINE m == [cpu[c] EXCEPT !.pc = pc]
<1>1. cpu \in [Cpus -> Locals] BY DEF SmpInv
<1>2. /\ m.pc = pc /\ m.i = cpu[c].i /\ m.command = cpu[c].command
      /\ m.entry = cpu[c].entry
  BY <1>1 DEF Locals
<1>3. cpu' = [cpu EXCEPT ![c] = m] BY DEF Goto
<1> HIDE DEF m
<1> QED BY <1>1, <1>2, <1>3 DEF Moves, Alone

LEMMA ReturnEnds ==
  ASSUME SmpInv, NEW c \in Cpus, Return(c)
  PROVE Ends(c)
<1>1. cpu \in [Cpus -> Locals] BY DEF SmpInv
<1>2. Idle.pc = "idle" BY DEF Idle
<1>3. cpu' = [cpu EXCEPT ![c] = Idle] BY DEF Return
<1> HIDE DEF Idle
<1> QED BY <1>1, <1>2, <1>3 DEF Ends, Alone

(* The slot of the loop is the one looked for, or it is another one and    *)
(* the loop goes on, or it ends.                                           *)
LEMMA ScanMoves ==
  ASSUME SmpInv, NEW c \in Cpus, NEW id, NEW found, NEW missing,
         Scan(c, id, found, missing)
  PROVE LET me == cpu[c]
            hit == policy_entry[me.i].resource_id = id
        IN /\ UNCHANGED vars
           /\ \/ hit /\ Moves(c, found, me.i)
              \/ ~hit /\ me.i + 1 \in Slots /\ Moves(c, me.pc, me.i + 1)
              \/ /\ ~hit /\ me.i + 1 \notin Slots
                 /\ IF missing = "idle" THEN Ends(c) ELSE Moves(c, missing, 0)
<1> DEFINE me == cpu[c]
           hit == policy_entry[me.i].resource_id = id
           on == [me EXCEPT !.i = me.i + 1]
           over == [me EXCEPT !.pc = missing, !.i = 0]
<1>1. cpu \in [Cpus -> Locals] /\ me \in Locals BY DEF SmpInv
<1>2. /\ on.pc = me.pc /\ on.i = me.i + 1 /\ on.command = me.command
      /\ on.entry = me.entry
  BY <1>1 DEF Locals
<1>3. /\ over.pc = missing /\ over.i = 0 /\ over.command = me.command
      /\ over.entry = me.entry
  BY <1>1 DEF Locals
<1>4. /\ UNCHANGED vars
      /\ \/ hit /\ Goto(c, found)
         \/ ~hit /\ me.i + 1 \in Slots /\ cpu' = [cpu EXCEPT ![c] = on]
         \/ /\ ~hit /\ me.i + 1 \notin Slots
            /\ IF missing = "idle" THEN Return(c)
               ELSE cpu' = [cpu EXCEPT ![c] = over]
  BY DEF Scan, LastSlot
<1> HIDE DEF on, over
<1>5. cpu' = [cpu EXCEPT ![c] = on] => Moves(c, me.pc, me.i + 1)
  BY <1>1, <1>2 DEF Moves, Alone
<1>6. cpu' = [cpu EXCEPT ![c] = over] => Moves(c, missing, 0)
  BY <1>1, <1>3 DEF Moves, Alone
<1>7. Goto(c, found) => Moves(c, found, me.i) BY GotoMoves
<1>8. Return(c) => Ends(c) BY ReturnEnds
<1> QED BY <1>4, <1>5, <1>6, <1>7, <1>8

(* The slots that a loop has seen: none at first, then one more at each    *)
(* slot, and all of them at its end.                                       *)
LEMMA Seen ==
  /\ \A j \in Slots : ~(j < 0)
  /\ \A i, j \in Slots : j < i + 1 => j < i \/ j = i
  /\ \A i, j \in Slots : i + 1 \notin Slots => j < i \/ j = i
<1>1. POLICY_MAX_ENTRIES \in Nat BY SlotCount
<1> HIDE DEF POLICY_MAX_ENTRIES
<1> QED BY <1>1 DEF Slots

LEMMA SameTable ==
  ASSUME UNCHANGED policy_entry
  PROVE /\ Used' = Used /\ (UniqueEntries' <=> UniqueEntries)
        /\ \A r : InTable(r)' <=> InTable(r)
BY DEF Used, UniqueEntries, InTable, SlotsOf

(* A step that leaves the table as it is keeps most of the invariant, and  *)
(* leaves to show what its change of the locals, the count and the         *)
(* monitoring is about.                                                    *)
LEMMA QuietStep ==
  ASSUME NEW c \in Cpus, BusyOK(c), copied[c] = {}, Alone(c),
         UNCHANGED <<policy_entry, copied>>, KeepSettled
  PROVE /\ settled' = settled /\ settled = policy_entry
        /\ Used' = Used /\ \A r : InTable(r)' <=> InTable(r)
        /\ copied'[c] = {}
        /\ (cpu'[c].pc = "idle" /\ NumEntriesExact' /\ MonitoredExactly'
              => RestOK')
        /\ (cpu'[c].pc # "idle" /\ StageOK(c)' /\ SlotOK(c)' /\ CountOK(c)'
              /\ WatchOK(c)' => BusyOK(c)')
<1>1. \A d \in Cpus : copied'[d] = {} BY DEF BusyOK
<1>2. settled = policy_entry /\ settled' = policy_entry'
  BY <1>1 DEF BusyOK, CopyOK, KeepSettled
<1>3. \A d \in Cpus \ {c} : cpu'[d].pc = "idle" BY DEF BusyOK, Alone
<1>4. UniqueEntries' BY SameTable DEF BusyOK
<1>5. CopyOK(c)' BY <1>1, <1>2 DEF CopyOK, EntryField
<1>6. Used' = Used /\ \A r : InTable(r)' <=> InTable(r) BY SameTable
<1>7. cpu'[c].pc = "idle" /\ NumEntriesExact' /\ MonitoredExactly' => RestOK'
  BY <1>1, <1>2, <1>3, <1>4 DEF RestOK
<1>8. cpu'[c].pc # "idle" /\ StageOK(c)' /\ SlotOK(c)' /\ CountOK(c)'
        /\ WatchOK(c)' => BusyOK(c)'
  BY <1>1, <1>3, <1>4, <1>5 DEF BusyOK
<1> QED BY <1>1, <1>2, <1>6, <1>7, <1>8

LEMMA CheckBusy ==
  ASSUME SmpTypes, NEW c \in Cpus, BusyOK(c), CheckImmutable(c),
         UNCHANGED copied, KeepSettled
  PROVE BusyOK(c)' \/ RestOK'
<1> DEFINE me == cpu[c]
<1>1. SmpInv /\ me.command \in Command /\ me.pc = "check" /\ UNCHANGED vars
  BY DEF SmpTypes, SmpInv, LocalOk, Locals, CheckImmutable
<1>2. copied[c] = {} BY <1>1 DEF BusyOK, CopyOK
<1>3. UNCHANGED <<policy_entry, num_entries, monitored, monitor_failed,
                  g_policy_immutable>>
  BY <1>1 DEF vars
<1>4. /\ num_entries = Cardinality(Used) /\ me.i = 0
      /\ \A r \in Resource \ (MsrUnlisted \cup monitor_failed) :
           r \in monitored <=> InTable(r)
  BY <1>1 DEF BusyOK, StageOK, CountOK, WatchOK
<1>5. CASE Refused
  <2>1. Ends(c) BY <1>1, <1>5, ReturnEnds DEF CheckImmutable
  <2>2. NumEntriesExact' BY <1>3, <1>4, SameTable DEF NumEntriesExact
  <2>3. MonitoredExactly' BY <1>3, <1>4, SameTable DEF MonitoredExactly
  <2> QED BY <1>2, <1>3, <2>1, <2>2, <2>3, QuietStep DEF Ends
<1>6. CASE ~Refused
  <2>1. PICK pc \in {"own", "unmonitor", "freeze"} :
          /\ Goto(c, pc)
          /\ pc = "own" => me.command = "ENABLE"
          /\ pc = "unmonitor" => me.command = "DISABLE"
    BY <1>1, <1>6 DEF CheckImmutable, Command
  <2>2. Moves(c, pc, 0) BY <1>1, <1>4, <2>1, GotoMoves
  <2>3. g_policy_immutable = FALSE BY <1>1, <1>6 DEF Refused, SmpInv, TypeOK
  <2>4. StageOK(c)' BY <1>3, <2>1, <2>2, <2>3 DEF StageOK, Moves
  <2>5. SlotOK(c)' BY <2>1, <2>2, Seen DEF SlotOK, Moves
  <2>6. CountOK(c)' BY <1>3, <1>4, <2>1, <2>2, SameTable DEF CountOK, Moves
  <2>7. WatchOK(c)' BY <1>3, <1>4, <2>1, <2>2, SameTable DEF WatchOK, Moves
  <2> QED BY <1>2, <1>3, <2>1, <2>2, <2>4, <2>5, <2>6, <2>7, QuietStep DEF Moves
<1> QED BY <1>5, <1>6

LEMMA FreezeBusy ==
  ASSUME SmpTypes, NEW c \in Cpus, BusyOK(c), Freeze(c),
         UNCHANGED copied, KeepSettled
  PROVE RestOK'
<1> DEFINE me == cpu[c]
<1>1. /\ SmpInv /\ me.pc = "freeze"
      /\ UNCHANGED <<policy_entry, num_entries, monitored, monitor_failed>>
  BY DEF SmpTypes, Freeze, tableVars, monitorVars
<1>2. copied[c] = {} BY <1>1 DEF BusyOK, CopyOK
<1>3. Ends(c) BY <1>1, ReturnEnds DEF Freeze
<1>4. /\ num_entries = Cardinality(Used)
      /\ \A r \in Resource \ (MsrUnlisted \cup monitor_failed) :
           r \in monitored <=> InTable(r)
  BY <1>1 DEF BusyOK, CountOK, WatchOK
<1>5. NumEntriesExact' BY <1>1, <1>4, SameTable DEF NumEntriesExact
<1>6. MonitoredExactly' BY <1>1, <1>4, SameTable DEF MonitoredExactly
<1> QED BY <1>1, <1>2, <1>3, <1>5, <1>6, QuietStep DEF Ends

(* The loops: what is known of the slots seen so far carries over to the   *)
(* next slot, and at the end is known of all.                              *)
LEMMA ScanOwnBusy ==
  ASSUME SmpTypes, NEW c \in Cpus, BusyOK(c), ScanOwn(c),
         UNCHANGED copied, KeepSettled
  PROVE BusyOK(c)'
<1> DEFINE me == cpu[c]
           id == me.entry.resource_id
<1>1. /\ SmpInv /\ me.pc = "own" /\ me.i \in Slots
  BY DEF SmpTypes, SmpInv, LocalOk, Locals, ScanOwn
<1>2. copied[c] = {} /\ me.command = "ENABLE" /\ g_policy_immutable = FALSE
  BY <1>1 DEF BusyOK, CopyOK, StageOK
<1>3. /\ num_entries = Cardinality(Used)
      /\ \A r \in Resource \ (MsrUnlisted \cup monitor_failed) :
           r \in monitored <=> InTable(r)
      /\ \A j \in Slots : j < me.i => policy_entry[j].resource_id # id
  BY <1>1 DEF BusyOK, CountOK, WatchOK, SlotOK
<1>4. PICK pc \in {"own", "overwrite", "free"}, i \in Slots :
        /\ Moves(c, pc, i)
        /\ UNCHANGED vars
        /\ pc = "own" => \A j \in Slots : j < i => policy_entry[j].resource_id # id
        /\ pc = "overwrite" => policy_entry[i].resource_id = id
        /\ pc = "free" => i = 0 /\ ~InTable(id)
  <2> DEFINE hit == policy_entry[me.i].resource_id = id
  <2>1. /\ UNCHANGED vars
        /\ \/ hit /\ Moves(c, "overwrite", me.i)
           \/ ~hit /\ me.i + 1 \in Slots /\ Moves(c, me.pc, me.i + 1)
           \/ ~hit /\ me.i + 1 \notin Slots /\ Moves(c, "free", 0)
    BY <1>1, ScanMoves DEF ScanOwn
  <2>2. CASE hit /\ Moves(c, "overwrite", me.i) BY <1>1, <2>1, <2>2
  <2>3. CASE ~hit /\ me.i + 1 \in Slots /\ Moves(c, me.pc, me.i + 1)
    <3>1. \A j \in Slots : j < me.i + 1 => j < me.i \/ j = me.i
      BY <1>1, Seen
    <3> QED BY <1>1, <1>3, <2>1, <2>3, <3>1
  <2>4. CASE ~hit /\ me.i + 1 \notin Slots /\ Moves(c, "free", 0)
    <3>1. \A j \in Slots : policy_entry[j].resource_id # id
      BY <1>1, <1>3, <2>4, Seen
    <3> QED BY <2>1, <2>4, <3>1, IdleOk DEF InTable, SlotsOf
  <2> QED BY <2>1, <2>2, <2>3, <2>4
<1>5. UNCHANGED <<policy_entry, num_entries, monitored, monitor_failed,
                  g_policy_immutable>>
  BY <1>4 DEF vars
<1>6. StageOK(c)' BY <1>2, <1>4, <1>5 DEF StageOK, Moves
<1>7. SlotOK(c)'
  BY <1>4, <1>5, SameTable, Seen DEF SlotOK, Moves
<1>8. CountOK(c)' BY <1>3, <1>4, <1>5, SameTable DEF CountOK, Moves
<1>9. WatchOK(c)' BY <1>3, <1>4, <1>5, SameTable DEF WatchOK, Moves
<1> QED BY <1>2, <1>4, <1>5, <1>6, <1>7, <1>8, <1>9, QuietStep DEF Moves

(* The loop for a free slot never misses: without the resource's own entry *)
(* the table is not full.                                                  *)
LEMMA ScanFreeBusy ==
  ASSUME SmpTypes, NEW c \in Cpus, BusyOK(c), ScanFree(c),
         UNCHANGED copied, KeepSettled
  PROVE BusyOK(c)'
<1> DEFINE me == cpu[c]
           id == me.entry.resource_id
           free(j) == policy_entry[j].resource_id = UNKNOWN
<1>1. /\ SmpInv /\ me.pc = "free" /\ me.i \in Slots /\ id \in Resource
  BY DEF SmpTypes, SmpInv, LocalOk, Locals, ScanFree, Entry, BeforeTest
<1>2. copied[c] = {} /\ me.command = "ENABLE" /\ g_policy_immutable = FALSE
  BY <1>1 DEF BusyOK, CopyOK, StageOK
<1>3. /\ num_entries = Cardinality(Used)
      /\ \A r \in Resource \ (MsrUnlisted \cup monitor_failed) :
           r \in monitored <=> InTable(r)
      /\ ~InTable(id) /\ \A j \in Slots : j < me.i => ~free(j)
  BY <1>1 DEF BusyOK, CountOK, WatchOK, SlotOK
<1>4. PICK pc \in {"free", "fill"}, i \in Slots :
        /\ Moves(c, pc, i)
        /\ UNCHANGED vars
        /\ pc = "free" => \A j \in Slots : j < i => ~free(j)
        /\ pc = "fill" => free(i)
  <2>1. /\ UNCHANGED vars
        /\ \/ free(me.i) /\ Moves(c, "fill", me.i)
           \/ ~free(me.i) /\ me.i + 1 \in Slots /\ Moves(c, me.pc, me.i + 1)
           \/ ~free(me.i) /\ me.i + 1 \notin Slots
    BY <1>1, ScanMoves DEF ScanFree
  <2>2. CASE free(me.i) /\ Moves(c, "fill", me.i) BY <1>1, <2>1, <2>2
  <2>3. CASE ~free(me.i) /\ me.i + 1 \in Slots /\ Moves(c, me.pc, me.i + 1)
    <3>1. \A j \in Slots : j < me.i + 1 => j < me.i \/ j = me.i
      BY <1>1, Seen
    <3> QED BY <1>1, <1>3, <2>1, <2>3, <3>1
  <2>4. ~(~free(me.i) /\ me.i + 1 \notin Slots)
    <3> SUFFICES ASSUME ~free(me.i), me.i + 1 \notin Slots PROVE FALSE
      OBVIOUS
    <3>1. \A j \in Slots : ~free(j) BY <1>1, <1>3, Seen
    <3>2. SlotsOf(UNKNOWN) = {} BY <3>1 DEF SlotsOf
    <3>3. NeverFull BY <1>1, Pigeonhole DEF SmpInv, BusyOK
    <3> QED BY <1>1, <1>3, <3>2, <3>3 DEF NeverFull
  <2> QED BY <2>1, <2>2, <2>3, <2>4
<1>5. UNCHANGED <<policy_entry, num_entries, monitored, monitor_failed,
                  g_policy_immutable>>
  BY <1>4 DEF vars
<1>6. StageOK(c)' BY <1>2, <1>4, <1>5 DEF StageOK, Moves
<1>7. SlotOK(c)'
  BY <1>2, <1>3, <1>4, <1>5, SameTable, Seen DEF SlotOK, Moves
<1>8. CountOK(c)' BY <1>2, <1>3, <1>4, <1>5, SameTable DEF CountOK, Moves
<1>9. WatchOK(c)'
  <2>1. id \in monitored => id \in monitor_failed
    BY <1>1, <1>3 DEF SmpInv, TypeOK
  <2> QED BY <1>3, <1>4, <1>5, <2>1, SameTable DEF WatchOK, Moves
<1> QED BY <1>2, <1>4, <1>5, <1>6, <1>7, <1>8, <1>9, QuietStep DEF Moves

LEMMA ScanDelBusy ==
  ASSUME SmpTypes, NEW c \in Cpus, BusyOK(c), ScanDel(c),
         UNCHANGED copied, KeepSettled
  PROVE BusyOK(c)' \/ RestOK'
<1> DEFINE me == cpu[c]
           id == me.entry.resource_id
           hit == policy_entry[me.i].resource_id = id
<1>1. /\ SmpInv /\ me.pc = "find" /\ me.i \in Slots
  BY DEF SmpTypes, SmpInv, LocalOk, Locals, ScanDel
<1>2. copied[c] = {} /\ me.command = "DISABLE" /\ g_policy_immutable = FALSE
  BY <1>1 DEF BusyOK, CopyOK, StageOK
<1>3. /\ num_entries = Cardinality(Used)
      /\ \A r \in Resource \ (MsrUnlisted \cup monitor_failed) :
           r # id => (r \in monitored <=> InTable(r))
      /\ id \in monitored => id \in monitor_failed
      /\ \A j \in Slots : j < me.i => policy_entry[j].resource_id # id
  BY <1>1 DEF BusyOK, CountOK, WatchOK, SlotOK
<1>4. /\ UNCHANGED vars
      /\ \/ hit /\ Moves(c, "clear", me.i)
         \/ ~hit /\ me.i + 1 \in Slots /\ Moves(c, me.pc, me.i + 1)
         \/ ~hit /\ me.i + 1 \notin Slots /\ Ends(c)
  BY <1>1, ScanMoves DEF ScanDel
<1>5. UNCHANGED <<policy_entry, num_entries, monitored, monitor_failed,
                  g_policy_immutable>>
  BY <1>4 DEF vars
<1>6. ASSUME NEW pc \in {"find", "clear"}, NEW i \in Slots, Moves(c, pc, i),
             pc = "find" =>
               \A j \in Slots : j < i => policy_entry[j].resource_id # id,
             pc = "clear" => policy_entry[i].resource_id = id
      PROVE BusyOK(c)'
  <2>1. StageOK(c)' BY <1>2, <1>5, <1>6 DEF StageOK, Moves
  <2>2. SlotOK(c)' BY <1>5, <1>6 DEF SlotOK, Moves
  <2>3. CountOK(c)' BY <1>3, <1>5, <1>6, SameTable DEF CountOK, Moves
  <2>4. WatchOK(c)' BY <1>3, <1>5, <1>6, SameTable DEF WatchOK, Moves
  <2> QED BY <1>2, <1>5, <1>6, <2>1, <2>2, <2>3, <2>4, QuietStep DEF Moves
<1>7. CASE hit /\ Moves(c, "clear", me.i) BY <1>1, <1>6, <1>7
<1>8. CASE ~hit /\ me.i + 1 \in Slots /\ Moves(c, me.pc, me.i + 1)
  <2>1. \A j \in Slots : j < me.i + 1 => j < me.i \/ j = me.i
    BY <1>1, Seen
  <2> QED BY <1>1, <1>3, <1>6, <1>8, <2>1
<1>9. CASE ~hit /\ me.i + 1 \notin Slots /\ Ends(c)
  <2>1. \A j \in Slots : policy_entry[j].resource_id # id
    BY <1>1, <1>3, <1>9, Seen
  <2>2. ~InTable(id) BY <2>1 DEF InTable, SlotsOf
  <2>3. NumEntriesExact' BY <1>3, <1>5, SameTable DEF NumEntriesExact
  <2>4. MonitoredExactly' BY <1>3, <1>5, <2>2, SameTable DEF MonitoredExactly
  <2> QED BY <1>2, <1>5, <1>9, <2>3, <2>4, QuietStep DEF Ends
<1> QED BY <1>4, <1>7, <1>8, <1>9

LEMMA LoadBusy ==
  ASSUME SmpTypes, NEW c \in Cpus, BusyOK(c), LoadCount(c),
         UNCHANGED copied, KeepSettled
  PROVE BusyOK(c)'
<1> DEFINE me == cpu[c]
           m == [me EXCEPT !.pc = "storeCount", !.count = num_entries]
<1>1. /\ SmpInv /\ me.pc = "loadCount" /\ me \in Locals
      /\ cpu \in [Cpus -> Locals]
  BY DEF SmpTypes, SmpInv, LoadCount
<1>2. copied[c] = {} BY <1>1 DEF BusyOK, CopyOK
<1>3. m.pc = "storeCount" /\ m.count = num_entries /\ m.i = me.i
      /\ m.command = me.command /\ m.entry = me.entry
  BY <1>1 DEF Locals
<1>4. cpu' = [cpu EXCEPT ![c] = m] BY DEF LoadCount
<1> HIDE DEF m
<1>5. Moves(c, "storeCount", me.i) /\ cpu'[c].count = num_entries
  BY <1>1, <1>3, <1>4 DEF Moves, Alone
<1>6. UNCHANGED <<policy_entry, num_entries, monitored, monitor_failed,
                  g_policy_immutable>>
  BY DEF LoadCount, vars
<1>7. StageOK(c)' BY <1>1, <1>5, <1>6 DEF BusyOK, StageOK, Moves
<1>8. SlotOK(c)' BY <1>1, <1>5, <1>6, SameTable DEF BusyOK, SlotOK, Moves
<1>9. CountOK(c)' BY <1>1, <1>5, <1>6, SameTable DEF BusyOK, CountOK, Moves
<1>10. WatchOK(c)' BY <1>1, <1>5, <1>6, SameTable DEF BusyOK, WatchOK, Moves
<1> QED BY <1>2, <1>5, <1>6, <1>7, <1>8, <1>9, <1>10, QuietStep DEF Moves

(* The store makes up for the entry that was added or freed.               *)
LEMMA StoreBusy ==
  ASSUME SmpTypes, NEW c \in Cpus, BusyOK(c), StoreCount(c),
         UNCHANGED copied, KeepSettled
  PROVE BusyOK(c)' \/ RestOK'
<1> DEFINE me == cpu[c]
           id == me.entry.resource_id
<1>1. /\ SmpInv /\ me.pc = "storeCount" /\ num_entries \in Nat
  BY DEF SmpTypes, SmpInv, TypeOK, StoreCount
<1>2. copied[c] = {} BY <1>1 DEF BusyOK, CopyOK
<1>3. UNCHANGED <<policy_entry, monitored, monitor_failed, g_policy_immutable>>
  BY DEF StoreCount, monitorVars
<1>4. Cardinality(Used) \in Nat
  <2>1. IsFiniteSet(Used) BY SlotCount, FS_Subset DEF Used
  <2> QED BY <2>1, FS_CardinalityType
<1>5. /\ me.count = num_entries /\ g_policy_immutable = FALSE
      /\ \A r \in Resource \ (MsrUnlisted \cup monitor_failed) :
           r # id => (r \in monitored <=> InTable(r))
      /\ me.command = "ENABLE" <=> InTable(id)
  BY <1>1 DEF BusyOK, CountOK, WatchOK, SlotOK, StageOK
<1>6. CASE me.command = "ENABLE"
  <2>1. num_entries' = me.count + 1 /\ Goto(c, "monitor")
    BY <1>6 DEF StoreCount
  <2>2. Moves(c, "monitor", me.i) BY <1>1, <2>1, GotoMoves
  <2>3. num_entries' = Cardinality(Used)
    BY <1>1, <1>4, <1>5, <1>6, <2>1 DEF BusyOK, CountOK
  <2>4. StageOK(c)' BY <1>3, <1>5, <1>6, <2>2 DEF StageOK, Moves
  <2>5. SlotOK(c)' BY <1>3, <1>5, <1>6, <2>2, SameTable DEF SlotOK, Moves
  <2>6. CountOK(c)' BY <1>3, <2>2, <2>3, SameTable DEF CountOK, Moves
  <2>7. WatchOK(c)' BY <1>3, <1>5, <2>2, SameTable DEF WatchOK, Moves
  <2> QED BY <1>2, <1>3, <2>2, <2>4, <2>5, <2>6, <2>7, QuietStep DEF Moves
<1>7. CASE me.command = "DISABLE"
  <2>1. /\ num_entries' = IF me.count # 0 THEN me.count - 1 ELSE num_entries
        /\ Return(c)
    BY <1>7 DEF StoreCount
  <2>2. num_entries = Cardinality(Used) + 1
        /\ (id \in monitored => id \in monitor_failed)
    BY <1>1, <1>7 DEF BusyOK, CountOK, WatchOK
  <2>3. num_entries' = Cardinality(Used) BY <1>4, <1>5, <2>1, <2>2
  <2>4. Ends(c) BY <1>1, <2>1, ReturnEnds
  <2>5. NumEntriesExact' BY <1>3, <2>3, SameTable DEF NumEntriesExact
  <2>6. MonitoredExactly'
    BY <1>3, <1>5, <1>7, <2>2, SameTable DEF MonitoredExactly
  <2> QED BY <1>2, <1>3, <2>4, <2>5, <2>6, QuietStep DEF Ends
<1> QED BY <1>6, <1>7 DEF StoreCount

(* The hypervisor watches the resource, or has recorded its refusal.       *)
LEMMA MonitorBusy ==
  ASSUME SmpTypes, NEW c \in Cpus, BusyOK(c), Monitor(c),
         UNCHANGED copied, KeepSettled
  PROVE RestOK'
<1> DEFINE me == cpu[c]
           id == me.entry.resource_id
<1>1. /\ SmpInv /\ me.pc = "monitor" /\ policy_set_monitor(id, TRUE)
      /\ UNCHANGED <<policy_entry, num_entries>>
  BY DEF SmpTypes, Monitor, tableVars
<1>2. copied[c] = {} BY <1>1 DEF BusyOK, CopyOK
<1>3. Ends(c) BY <1>1, ReturnEnds DEF Monitor
<1>4. /\ num_entries = Cardinality(Used) /\ InTable(id)
      /\ \A r \in Resource \ (MsrUnlisted \cup monitor_failed) :
           r # id => (r \in monitored <=> InTable(r))
  BY <1>1 DEF BusyOK, CountOK, WatchOK, SlotOK
<1>5. NumEntriesExact' BY <1>1, <1>4, SameTable DEF NumEntriesExact
<1>6. MonitoredExactly'
  BY <1>1, <1>4, SameTable DEF MonitoredExactly, policy_set_monitor
<1> QED BY <1>1, <1>2, <1>3, <1>5, <1>6, QuietStep DEF Ends

LEMMA UnmonitorBusy ==
  ASSUME SmpTypes, NEW c \in Cpus, BusyOK(c), Unmonitor(c),
         UNCHANGED copied, KeepSettled
  PROVE BusyOK(c)'
<1> DEFINE me == cpu[c]
           id == me.entry.resource_id
<1>1. /\ SmpInv /\ me.pc = "unmonitor" /\ policy_set_monitor(id, FALSE)
      /\ UNCHANGED <<policy_entry, num_entries, g_policy_immutable>>
  BY DEF SmpTypes, Unmonitor, tableVars
<1>2. copied[c] = {} BY <1>1 DEF BusyOK, CopyOK
<1>3. /\ num_entries = Cardinality(Used) /\ me.i = 0
      /\ g_policy_immutable = FALSE /\ me.command = "DISABLE"
      /\ \A r \in Resource \ (MsrUnlisted \cup monitor_failed) :
           r \in monitored <=> InTable(r)
  BY <1>1 DEF BusyOK, CountOK, WatchOK, StageOK
<1>4. Moves(c, "find", 0) BY <1>1, <1>3, GotoMoves DEF Unmonitor
<1>5. id \in monitored' => id \in monitor_failed'
  BY <1>1 DEF policy_set_monitor, SmpInv, TypeOK
<1>6. StageOK(c)' BY <1>1, <1>3, <1>4 DEF StageOK, Moves
<1>7. SlotOK(c)' BY <1>4, Seen DEF SlotOK, Moves
<1>8. CountOK(c)' BY <1>1, <1>3, <1>4, SameTable DEF CountOK, Moves
<1>9. WatchOK(c)'
  <2>1. \A r \in Resource \ (MsrUnlisted \cup monitor_failed') :
          r # id => (r \in monitored' <=> InTable(r)')
    BY <1>1, <1>3, SameTable DEF policy_set_monitor
  <2> QED BY <1>4, <1>5, <2>1 DEF WatchOK, Moves
<1> QED BY <1>1, <1>2, <1>4, <1>6, <1>7, <1>8, <1>9, QuietStep DEF Moves

(* What a write of one slot does to the ids in the table.                  *)
OnlySlot(i) == \A j \in Slots \ {i} : policy_entry'[j] = policy_entry[j]

LEMMA SameIds ==
  ASSUME NEW i \in Slots, OnlySlot(i),
         policy_entry'[i].resource_id = policy_entry[i].resource_id
  PROVE /\ Used' = Used /\ (UniqueEntries' <=> UniqueEntries)
        /\ \A r : InTable(r)' <=> InTable(r)
<1>1. \A j \in Slots : policy_entry'[j].resource_id = policy_entry[j].resource_id
  BY DEF OnlySlot
<1> QED BY <1>1 DEF Used, UniqueEntries, InTable, SlotsOf

LEMMA SlotFilled ==
  ASSUME NEW i \in Slots, OnlySlot(i), UniqueEntries, NEW id \in Resource,
         ~InTable(id), policy_entry[i].resource_id = UNKNOWN,
         policy_entry'[i].resource_id = id
  PROVE /\ Cardinality(Used') = Cardinality(Used) + 1
        /\ Cardinality(Used) \in Nat
        /\ UniqueEntries' /\ InTable(id)'
        /\ \A r \in Resource \ {id} : InTable(r)' <=> InTable(r)
<1>1. id # UNKNOWN /\ \A j \in Slots : policy_entry[j].resource_id # id
  BY ResourceAssumption DEF InTable, SlotsOf
<1>2. Used' = Used \cup {i} /\ i \notin Used BY <1>1 DEF Used, OnlySlot
<1>3. IsFiniteSet(Used) BY SlotCount, FS_Subset DEF Used
<1>4. Cardinality(Used') = Cardinality(Used) + 1
  BY <1>2, <1>3, FS_AddElement
<1>5. UniqueEntries'
  <2> SUFFICES ASSUME NEW j \in Slots, NEW k \in Slots,
                      policy_entry'[j].resource_id # UNKNOWN,
                      policy_entry'[j].resource_id = policy_entry'[k].resource_id
               PROVE  j = k
    BY DEF UniqueEntries, Used
  <2> QED BY <1>1 DEF UniqueEntries, Used, OnlySlot
<1>6. InTable(id)' BY DEF InTable, SlotsOf
<1>7. \A r \in Resource \ {id} : InTable(r)' <=> InTable(r)
  BY ResourceAssumption DEF InTable, SlotsOf, OnlySlot
<1> QED BY <1>3, <1>4, <1>5, <1>6, <1>7, FS_CardinalityType

LEMMA SlotFreed ==
  ASSUME NEW i \in Slots, OnlySlot(i), UniqueEntries, NEW id \in Resource,
         policy_entry[i].resource_id = id,
         policy_entry'[i].resource_id = UNKNOWN
  PROVE /\ Cardinality(Used) = Cardinality(Used') + 1
        /\ UniqueEntries' /\ ~InTable(id)'
        /\ \A r \in Resource \ {id} : InTable(r)' <=> InTable(r)
<1>1. id # UNKNOWN /\ i \in Used BY ResourceAssumption DEF Used
<1>2. \A j \in Slots \ {i} : policy_entry[j].resource_id # id
  BY <1>1 DEF UniqueEntries, Used
<1>3. Used' = Used \ {i} BY <1>1 DEF Used, OnlySlot
<1>4. IsFiniteSet(Used) BY SlotCount, FS_Subset DEF Used
<1>5. Cardinality(Used) = Cardinality(Used') + 1
  <2>1. Cardinality(Used') = Cardinality(Used) - 1
    BY <1>1, <1>3, <1>4, FS_RemoveElement
  <2>2. Cardinality(Used) \in Nat BY <1>4, FS_CardinalityType
  <2> QED BY <2>1, <2>2
<1>6. UniqueEntries' BY DEF UniqueEntries, Used, OnlySlot
<1>7. ~InTable(id)' BY <1>1, <1>2 DEF InTable, SlotsOf, OnlySlot
<1>8. \A r \in Resource \ {id} : InTable(r)' <=> InTable(r)
  BY ResourceAssumption DEF InTable, SlotsOf, OnlySlot
<1> QED BY <1>5, <1>6, <1>7, <1>8

(* The slot with the id loses it, and all that was settled in it.          *)
LEMMA ClearEffect ==
  ASSUME SmpInv, NEW c \in Cpus, Clear(c)
  PROVE /\ cpu[c].pc = "clear" /\ cpu[c].i \in Slots
        /\ cpu[c].entry.resource_id \in Resource
        /\ OnlySlot(cpu[c].i)
        /\ policy_entry'[cpu[c].i].resource_id = UNKNOWN
        /\ Moves(c, "loadCount", cpu[c].i)
        /\ UNCHANGED <<num_entries, g_policy_immutable, monitored,
                       monitor_failed>>
<1> DEFINE i == cpu[c].i
           freed == [policy_entry[i] EXCEPT !.resource_id = UNKNOWN]
<1>1. /\ i \in Slots /\ policy_entry \in [Slots -> Entry]
      /\ cpu[c].pc = "clear" /\ cpu[c].entry.resource_id \in Resource
  BY DEF SmpInv, TypeOK, LocalOk, Locals, Entry, Clear, BeforeTest
<1>2. freed.resource_id = UNKNOWN BY <1>1 DEF Entry
<1>3. policy_entry' = [policy_entry EXCEPT ![i] = freed] BY <1>1 DEF Clear
<1>4. Moves(c, "loadCount", i) BY <1>1, GotoMoves DEF Clear
<1> HIDE DEF freed
<1>5. OnlySlot(i) /\ policy_entry'[i].resource_id = UNKNOWN
  BY <1>1, <1>2, <1>3 DEF OnlySlot
<1> QED BY <1>1, <1>4, <1>5 DEF Clear, monitorVars

LEMMA ClearBusy ==
  ASSUME SmpTypes, NEW c \in Cpus, BusyOK(c), Clear(c),
         UNCHANGED copied, KeepSettled
  PROVE BusyOK(c)'
<1> DEFINE me == cpu[c]
           id == me.entry.resource_id
<1>1. SmpInv BY DEF SmpTypes
<1>2. /\ me.pc = "clear" /\ me.i \in Slots /\ id \in Resource
      /\ OnlySlot(me.i) /\ policy_entry'[me.i].resource_id = UNKNOWN
      /\ Moves(c, "loadCount", me.i)
      /\ UNCHANGED <<num_entries, g_policy_immutable, monitored,
                     monitor_failed>>
  BY <1>1, ClearEffect
<1>3. /\ me.command = "DISABLE" /\ g_policy_immutable = FALSE
      /\ num_entries = Cardinality(Used) /\ copied[c] = {}
      /\ policy_entry[me.i].resource_id = id
      /\ id \in monitored => id \in monitor_failed
      /\ \A r \in Resource \ (MsrUnlisted \cup monitor_failed) :
           r # id => (r \in monitored <=> InTable(r))
  BY <1>2 DEF BusyOK, StageOK, CountOK, CopyOK, SlotOK, WatchOK
<1> PICK own \in Resource : own = id BY <1>2
<1>4. /\ Cardinality(Used) = Cardinality(Used') + 1
      /\ UniqueEntries' /\ ~InTable(own)'
      /\ \A r \in Resource \ {own} : InTable(r)' <=> InTable(r)
  BY <1>2, <1>3, SlotFreed DEF BusyOK
<1>5. \A d \in Cpus : copied'[d] = {} BY <1>3 DEF BusyOK
<1>6. settled' = policy_entry' BY <1>5 DEF KeepSettled
<1>7. StageOK(c)' BY <1>2, <1>3 DEF StageOK, Moves
<1>8. SlotOK(c)' BY <1>2, <1>3, <1>4 DEF SlotOK, Moves
<1>9. CopyOK(c)' BY <1>5, <1>6 DEF CopyOK, EntryField
<1>10. CountOK(c)' BY <1>2, <1>3, <1>4 DEF CountOK, Moves
<1>11. WatchOK(c)' BY <1>2, <1>3, <1>4 DEF WatchOK, Moves
<1>12. /\ cpu'[c].pc # "idle"
       /\ \A d \in Cpus \ {c} : cpu'[d].pc = "idle" /\ copied'[d] = {}
  BY <1>2, <1>5 DEF BusyOK, Moves, Alone
<1> QED BY <1>4, <1>7, <1>8, <1>9, <1>10, <1>11, <1>12 DEF BusyOK

(* One field of the entry: the id may be the first field or the last.      *)
LEMMA CopyBusy ==
  ASSUME SmpTypes, NEW c \in Cpus, BusyOK(c), NEW f \in EntryField,
         CopyField(c, f), KeepSettled
  PROVE BusyOK(c)'
<1> DEFINE me == cpu[c]
           id == me.entry.resource_id
           e == [policy_entry[me.i] EXCEPT ![f] = me.entry[f]]
           now == copied[c] \cup {f}
           done == now = EntryField
<1>1. /\ SmpInv /\ me.pc \in {"overwrite", "fill"} /\ id \in Resource
      /\ policy_entry \in [Slots -> Entry]
      /\ f \notin copied[c] /\ copied \in [Cpus -> SUBSET EntryField]
  BY DEF SmpTypes, SmpInv, TypeOK, LocalOk, Locals, Entry, CopyField, BeforeTest
<1>2. /\ me.i \in Slots /\ me.entry \in Entry /\ e \in Entry
      /\ policy_entry'[me.i] = e /\ OnlySlot(me.i)
  BY <1>1, CopyEffect DEF OnlySlot
<1>3. e[f] = me.entry[f] /\ \A g \in EntryField \ {f} : e[g] = policy_entry[me.i][g]
  BY <1>1, <1>2 DEF Entry, EntryField
<1>4. /\ me.command = "ENABLE" /\ g_policy_immutable = FALSE
      /\ UniqueEntries
      /\ IF me.pc = "fill" /\ "resource_id" \in copied[c]
         THEN Cardinality(Used) = num_entries + 1
         ELSE num_entries = Cardinality(Used)
      /\ me.pc = "overwrite" \/ "resource_id" \in copied[c]
           => policy_entry[me.i].resource_id = id
      /\ me.pc = "fill" /\ "resource_id" \notin copied[c]
           => policy_entry[me.i].resource_id = UNKNOWN /\ ~InTable(id)
      /\ \A g \in copied[c] : policy_entry[me.i][g] = me.entry[g]
  BY <1>1 DEF BusyOK, StageOK, CountOK, CopyOK, SlotOK
<1>5. \A r \in Resource \ (MsrUnlisted \cup monitor_failed) :
        r # id \/ me.pc = "overwrite" => (r \in monitored <=> InTable(r))
  BY <1>1 DEF BusyOK, WatchOK
<1> PICK own \in Resource : own = id BY <1>1
<1>6. UNCHANGED <<num_entries, g_policy_immutable, monitored, monitor_failed>>
  BY DEF CopyField, monitorVars
<1>7. /\ \A d \in Cpus \ {c} : copied'[d] = {}
      /\ copied'[c] = IF done THEN {} ELSE now
  BY <1>1 DEF CopyField, BusyOK
<1>8. PICK pc \in {"overwrite", "fill", "loadCount", "monitor"} :
        /\ Moves(c, pc, me.i)
        /\ pc = IF done THEN AfterCopy(me.pc) ELSE me.pc
  <2>1. CASE done
    <3>1. Moves(c, AfterCopy(me.pc), me.i) BY <1>1, <2>1, GotoMoves DEF CopyField
    <3> QED BY <2>1, <3>1 DEF AfterCopy
  <2>2. CASE ~done BY <1>1, <2>2 DEF CopyField, Moves, Alone
  <2> QED BY <2>1, <2>2
<1>9. \A g \in now : policy_entry'[me.i][g] = me.entry[g]
  <2> HIDE DEF e
  <2>1. copied[c] \subseteq EntryField BY <1>1
  <2> QED BY <1>1, <1>2, <1>3, <1>4, <2>1
<1>10. /\ UniqueEntries'
       /\ IF me.pc = "fill" /\ "resource_id" \in now
          THEN Cardinality(Used') = num_entries + 1
          ELSE Cardinality(Used') = num_entries
       /\ me.pc = "overwrite" \/ "resource_id" \in now
            => policy_entry'[me.i].resource_id = id /\ InTable(own)'
       /\ me.pc = "fill" /\ "resource_id" \notin now
            => policy_entry'[me.i].resource_id = UNKNOWN /\ ~InTable(own)'
       /\ \A r \in Resource : r # id \/ me.pc = "overwrite" =>
            (InTable(r)' <=> InTable(r))
  <2> HIDE DEF e
  <2>1. CASE me.pc = "fill" /\ f = "resource_id"
    <3>1. policy_entry'[me.i].resource_id = id BY <1>2, <1>3, <2>1
    <3>2. /\ Cardinality(Used') = Cardinality(Used) + 1
          /\ UniqueEntries' /\ InTable(own)'
          /\ \A r \in Resource \ {own} : InTable(r)' <=> InTable(r)
      BY <1>1, <1>2, <1>4, <2>1, <3>1, SlotFilled
    <3> QED BY <1>1, <1>4, <2>1, <3>1, <3>2
  <2>2. CASE ~(me.pc = "fill" /\ f = "resource_id")
    <3>1. policy_entry'[me.i].resource_id = policy_entry[me.i].resource_id
      BY <1>1, <1>2, <1>3, <1>4, <2>2 DEF EntryField
    <3>2. /\ Used' = Used /\ UniqueEntries'
          /\ \A r : InTable(r)' <=> InTable(r)
      BY <1>2, <1>4, <3>1, SameIds
    <3>3. policy_entry[me.i].resource_id = id => InTable(id)
      BY <1>2 DEF InTable, SlotsOf
    <3>4. me.pc = "overwrite" \/ ("resource_id" \in now <=> "resource_id" \in copied[c])
      BY <1>1, <2>2
    <3>5. InTable(own)' <=> InTable(own) BY <3>2
    <3> QED BY <1>1, <1>4, <3>1, <3>2, <3>3, <3>4, <3>5
  <2> QED BY <2>1, <2>2
<1>11. done => "resource_id" \in now BY DEF EntryField
<1> HIDE DEF e
<1>12. StageOK(c)' BY <1>1, <1>4, <1>6, <1>8 DEF StageOK, Moves, AfterCopy
<1>13. SlotOK(c)'
  BY <1>1, <1>4, <1>7, <1>8, <1>10, <1>11 DEF SlotOK, Moves, AfterCopy
<1>14. CountOK(c)'
  BY <1>1, <1>4, <1>6, <1>7, <1>8, <1>10, <1>11 DEF CountOK, Moves, AfterCopy
<1>15. WatchOK(c)'
  <2>1. me.pc = "fill" /\ "resource_id" \notin now =>
          (id \in monitored => id \in monitor_failed)
    BY DEF BusyOK, WatchOK
  <2>2. pc = "fill" => me.pc = "fill" /\ copied'[c] = now
    BY <1>1, <1>7, <1>8 DEF AfterCopy
  <2> QED BY <1>1, <1>4, <1>5, <1>6, <1>8, <1>10, <1>11, <2>1, <2>2
          DEF WatchOK, Moves, AfterCopy
<1>16. CopyOK(c)'
  <2>1. CASE done
    <3>1. \A d \in Cpus : copied'[d] = {} BY <1>7, <2>1
    <3>2. settled' = policy_entry' BY <3>1 DEF KeepSettled
    <3> QED BY <3>1, <3>2 DEF CopyOK, EntryField
  <2>2. CASE ~done
    <3>1. settled' = settled BY <1>7, <2>2 DEF KeepSettled
    <3>2. /\ \A j \in Slots \ {me.i} : settled[j] = policy_entry[j]
          /\ settled[me.i].resource_id = IF me.pc = "fill" THEN UNKNOWN ELSE id
      BY <1>1, <1>4 DEF BusyOK, CopyOK
    <3>3. \A j \in Slots \ {me.i} : settled'[j] = policy_entry'[j]
      BY <1>2, <3>1, <3>2 DEF OnlySlot
    <3>4. /\ copied'[c] = now /\ now # {} /\ now # EntryField
          /\ cpu'[c].pc = me.pc /\ cpu'[c].i = me.i /\ cpu'[c].entry = me.entry
      BY <1>7, <1>8, <2>2 DEF Moves
    <3> HIDE DEF now, done
    <3> QED BY <1>1, <1>9, <3>1, <3>2, <3>3, <3>4 DEF CopyOK
  <2> QED BY <2>1, <2>2
<1>17. /\ cpu'[c].pc # "idle"
       /\ \A d \in Cpus \ {c} : cpu'[d].pc = "idle" /\ copied'[d] = {}
  BY <1>7, <1>8 DEF BusyOK, Moves, Alone
<1> QED BY <1>10, <1>12, <1>13, <1>14, <1>15, <1>16, <1>17 DEF BusyOK

-----------------------------------------------------------------------------
(* One message after the other                                             *)

(* A message starts from a table at rest.                                  *)
LEMMA ReceiveBusy ==
  ASSUME SmpTypes, RestOK, NEW c \in Cpus, NEW command \in Command,
         NEW entry \in Entry, Receive(c, command, entry),
         UNCHANGED copied, KeepSettled
  PROVE BusyOK(c)'
<1> DEFINE m == [Idle EXCEPT !.pc = "check", !.command = command,
                             !.entry = entry]
<1>1. cpu \in [Cpus -> Locals] BY DEF SmpTypes, SmpInv
<1>2. m.pc = "check" /\ m.i = 0 BY DEF Idle
<1>3. cpu' = [cpu EXCEPT ![c] = m]
      /\ UNCHANGED <<policy_entry, num_entries, monitored, monitor_failed>>
  BY DEF Receive, vars
<1> HIDE DEF m
<1>4. cpu'[c].pc = "check" /\ cpu'[c].i = 0 /\ Alone(c)
  BY <1>1, <1>2, <1>3 DEF Alone
<1>5. \A d \in Cpus : copied'[d] = {} BY DEF RestOK
<1>6. settled' = policy_entry' BY <1>5 DEF KeepSettled
<1>7. /\ num_entries = Cardinality(Used) /\ UniqueEntries
      /\ \A r \in Resource \ (MsrUnlisted \cup monitor_failed) :
           r \in monitored <=> InTable(r)
  BY DEF RestOK, NumEntriesExact, MonitoredExactly
<1>8. StageOK(c)' BY <1>4 DEF StageOK
<1>9. SlotOK(c)' BY <1>4 DEF SlotOK
<1>10. CopyOK(c)' BY <1>5, <1>6 DEF CopyOK, EntryField
<1>11. CountOK(c)' BY <1>3, <1>4, <1>7, SameTable DEF CountOK
<1>12. WatchOK(c)' BY <1>3, <1>4, <1>7, SameTable DEF WatchOK
<1>13. UniqueEntries' BY <1>3, <1>7, SameTable
<1>14. \A d \in Cpus \ {c} : cpu'[d].pc = "idle" /\ copied'[d] = {}
  BY <1>4, <1>5 DEF RestOK, Alone
<1> QED BY <1>4, <1>8, <1>9, <1>10, <1>11, <1>12, <1>13, <1>14 DEF BusyOK

(* A handler runs only on a CPU that has a message.                        *)
LEMMA HandlerNotIdle ==
  ASSUME NEW c \in Cpus,
         \/ \E f \in EntryField : CopyField(c, f)
         \/ CheckImmutable(c) \/ Freeze(c)
         \/ ScanOwn(c) \/ ScanFree(c) \/ ScanDel(c) \/ Clear(c)
         \/ LoadCount(c) \/ StoreCount(c)
         \/ Monitor(c) \/ Unmonitor(c)
  PROVE cpu[c].pc # "idle"
BY DEF CopyField, CheckImmutable, Freeze, ScanOwn, ScanFree, ScanDel, Clear,
       LoadCount, StoreCount, Monitor, Unmonitor

(* With messages one at a time, a step is one of the message that is being *)
(* handled, or the first of a new one when none is.                        *)
LEMMA SerialStep ==
  ASSUME Serialised = TRUE, SmpTypes, MessageInv, MessageStep
  PROVE \E c \in Cpus :
          \/ /\ RestOK /\ UNCHANGED copied
             /\ \E command \in Command, entry \in Entry :
                  Receive(c, command, entry)
          \/ /\ BusyOK(c)
             /\ \E f \in EntryField : CopyField(c, f)
          \/ /\ BusyOK(c) /\ UNCHANGED copied
             /\ \/ CheckImmutable(c) \/ Freeze(c)
                \/ ScanOwn(c) \/ ScanFree(c) \/ ScanDel(c) \/ Clear(c)
                \/ LoadCount(c) \/ StoreCount(c)
                \/ Monitor(c) \/ Unmonitor(c)
<1>1. PICK c \in Cpus :
        \/ \E command \in Command, entry \in Entry :
             /\ Relevant(command, entry)
             /\ Receive(c, command, entry)
             /\ UNCHANGED copied
        \/ \E f \in EntryField : CopyField(c, f)
        \/ /\ \/ CheckImmutable(c) \/ Freeze(c)
              \/ ScanOwn(c) \/ ScanFree(c) \/ ScanDel(c) \/ Clear(c)
              \/ LoadCount(c) \/ StoreCount(c)
              \/ Monitor(c) \/ Unmonitor(c)
           /\ UNCHANGED copied
  BY OneHandler
<1>2. CASE \E command \in Command, entry \in Entry :
             /\ Relevant(command, entry)
             /\ Receive(c, command, entry)
             /\ UNCHANGED copied
  <2>1. \A d \in Cpus : cpu[d].pc = "idle" BY <1>2 DEF Receive
  <2>2. RestOK BY <2>1 DEF MessageInv, BusyOK
  <2> QED BY <1>2, <2>2
<1>3. ASSUME cpu[c].pc # "idle" PROVE BusyOK(c)
  <2>1. PICK d \in Cpus : BusyOK(d) BY <1>3 DEF MessageInv, RestOK
  <2>2. d = c BY <1>3, <2>1 DEF BusyOK
  <2> QED BY <2>1, <2>2
<1> QED BY <1>1, <1>2, <1>3, HandlerNotIdle

LEMMA MessageInvStep ==
  ASSUME Serialised = TRUE, SmpTypes, MessageInv, MessageStep, KeepSettled
  PROVE MessageInv'
<1>1. PICK c \in Cpus :
          \/ /\ RestOK /\ UNCHANGED copied
             /\ \E command \in Command, entry \in Entry :
                  Receive(c, command, entry)
          \/ /\ BusyOK(c)
             /\ \E f \in EntryField : CopyField(c, f)
          \/ /\ BusyOK(c) /\ UNCHANGED copied
             /\ \/ CheckImmutable(c) \/ Freeze(c)
                \/ ScanOwn(c) \/ ScanFree(c) \/ ScanDel(c) \/ Clear(c)
                \/ LoadCount(c) \/ StoreCount(c)
                \/ Monitor(c) \/ Unmonitor(c)
  BY SerialStep
<1>2. BusyOK(c)' \/ RestOK'
  BY <1>1, ReceiveBusy, CopyBusy, CheckBusy, FreezeBusy, ScanOwnBusy,
     ScanFreeBusy, ScanDelBusy, ClearBusy, LoadBusy, StoreBusy, MonitorBusy,
     UnmonitorBusy
<1> QED BY <1>2 DEF MessageInv

(* Events, and steps of nothing, leave the messages alone.                 *)
LEMMA MessageInvSame ==
  ASSUME MessageInv, UNCHANGED <<messageVars, settled>>
  PROVE MessageInv'
<1>1. UNCHANGED <<policy_entry, num_entries, g_policy_immutable, monitored,
                  monitor_failed, cpu, copied, settled>>
  BY DEF messageVars, smpVars, vars
<1>2. RestOK => RestOK'
  BY <1>1, SameTable DEF RestOK, NumEntriesExact, MonitoredExactly
<1>3. ASSUME NEW c \in Cpus, BusyOK(c) PROVE BusyOK(c)'
  <2>1. StageOK(c)' BY <1>1, <1>3 DEF BusyOK, StageOK
  <2>2. SlotOK(c)' BY <1>1, <1>3, SameTable DEF BusyOK, SlotOK
  <2>3. CopyOK(c)' BY <1>1, <1>3 DEF BusyOK, CopyOK
  <2>4. CountOK(c)' BY <1>1, <1>3, SameTable DEF BusyOK, CountOK
  <2>5. WatchOK(c)' BY <1>1, <1>3, SameTable DEF BusyOK, WatchOK
  <2> QED BY <1>1, <1>3, <2>1, <2>2, <2>3, <2>4, <2>5, SameTable DEF BusyOK
<1> QED BY <1>2, <1>3 DEF MessageInv

(* A step that writes no field of the table settles nothing.               *)
LEMMA SettledStays ==
  ASSUME MessageInv, UNCHANGED <<policy_entry, copied>>, KeepSettled
  PROVE UNCHANGED settled
<1>1. (\A c \in Cpus : copied[c] = {}) => settled = policy_entry
  <2> SUFFICES ASSUME \A c \in Cpus : copied[c] = {}
               PROVE settled = policy_entry
    OBVIOUS
  <2>1. CASE RestOK BY <2>1 DEF RestOK
  <2>2. CASE \E c \in Cpus : BusyOK(c) BY <2>2 DEF BusyOK, CopyOK
  <2> QED BY <2>1, <2>2 DEF MessageInv
<1> QED BY <1>1 DEF KeepSettled

LEMMA MessageInvUnique == MessageInv => UniqueEntries
BY DEF MessageInv, RestOK, BusyOK

-----------------------------------------------------------------------------
(* The event among the messages                                            *)

(* A step of a message writes at most one slot, which before and after     *)
(* belongs to the resource of the message or to none.                      *)
LEMMA MessageEffect ==
  ASSUME Serialised = TRUE, SmpTypes, MessageInv, MessageStep
  PROVE \/ UNCHANGED policy_entry
        \/ \E id \in PastTest, i \in Slots :
             /\ OnlySlot(i)
             /\ policy_entry[i].resource_id \in {UNKNOWN, id}
             /\ policy_entry'[i].resource_id \in {UNKNOWN, id}
<1> SUFFICES ASSUME policy_entry' # policy_entry
             PROVE \E id \in PastTest, i \in Slots :
                     /\ OnlySlot(i)
                     /\ policy_entry[i].resource_id \in {UNKNOWN, id}
                     /\ policy_entry'[i].resource_id \in {UNKNOWN, id}
  OBVIOUS
<1>1. PICK c \in Cpus :
        BusyOK(c) /\ (Clear(c) \/ \E f \in EntryField : CopyField(c, f))
  BY SerialStep DEF Receive, CheckImmutable, Freeze, ScanOwn, ScanFree, ScanDel,
     Scan, LoadCount, StoreCount, Monitor, Unmonitor, vars, tableVars
<1> DEFINE me == cpu[c]
           id == me.entry.resource_id
<1>2. SmpInv BY DEF SmpTypes
<1>3. CASE Clear(c)
  <2>1. /\ me.pc = "clear" /\ me.i \in Slots /\ OnlySlot(me.i)
        /\ policy_entry'[me.i].resource_id = UNKNOWN
    BY <1>2, <1>3, ClearEffect
  <2>2. id \in PastTest BY <2>1 DEF PastTest
  <2>3. policy_entry[me.i].resource_id = id
    BY <1>1, <2>1 DEF BusyOK, SlotOK
  <2> QED BY <2>1, <2>2, <2>3
<1>4. CASE \E f \in EntryField : CopyField(c, f)
  <2> PICK f \in EntryField : CopyField(c, f) BY <1>4
  <2> DEFINE e == [policy_entry[me.i] EXCEPT ![f] = me.entry[f]]
  <2>1. /\ me.i \in Slots /\ me.entry \in Entry /\ e \in Entry
        /\ policy_entry'[me.i] = e /\ OnlySlot(me.i)
        /\ policy_entry[me.i] \in Entry
    BY <1>2, CopyEffect DEF OnlySlot, SmpInv, TypeOK
  <2>2. me.pc \in {"overwrite", "fill"} BY DEF CopyField
  <2>3. id \in PastTest BY <2>2 DEF PastTest
  <2>4. policy_entry[me.i].resource_id \in {UNKNOWN, id}
    BY <1>1, <2>2 DEF BusyOK, SlotOK
  <2>5. e.resource_id \in {policy_entry[me.i].resource_id, id}
    BY <2>1 DEF Entry, EntryField
  <2> HIDE DEF e
  <2> QED BY <2>1, <2>3, <2>4, <2>5
<1> QED BY <1>1, <1>3, <1>4

(* The slots of the other resources stay as they are.                      *)
SameSlots(b) ==
  /\ SlotsOf(b)' = SlotsOf(b)
  /\ \A j \in SlotsOf(b) : policy_entry'[j] = policy_entry[j]

LEMMA OthersSlots ==
  ASSUME NEW id, NEW i \in Slots, OnlySlot(i),
         policy_entry[i].resource_id \in {UNKNOWN, id},
         policy_entry'[i].resource_id \in {UNKNOWN, id},
         NEW b \in Resource, b # id
  PROVE SameSlots(b)
BY ResourceAssumption DEF OnlySlot, SlotsOf, SameSlots

LEMMA UnchangedSlots ==
  ASSUME UNCHANGED policy_entry, NEW b
  PROVE SameSlots(b)
BY DEF SlotsOf, SameSlots

LEMMA SameVerdict ==
  ASSUME NEW b \in Resource, SameSlots(b), UNCHANGED cr,
         NEW reg, NEW req
  PROVE BitVerdict(reg, req, b)' <=> BitVerdict(reg, req, b)
<1>1. policyInTable'[b] = policyInTable[b] BY PolicyUnchanged DEF SameSlots
<1> QED BY <1>1 DEF BitVerdict, Odd, HAS_STICKY, W_HAS_SKIP

(* What is true of a bit during an event does not depend on other bits'    *)
(* slots.                                                                  *)
LEMMA BitStays ==
  ASSUME SmpTypes, NEW b \in Resource, BitOK(b), SameSlots(b),
         UNCHANGED <<cr, ev>>
  PROVE BitOK(b)'
<1>1. ev.i \in Slots BY DEF SmpTypes, EventTypes, EvT
<1>2. PICK reg, req : reg = ev.reg /\ req = ev.req OBVIOUS
<1>3. BitVerdict(reg, req, b)' <=> BitVerdict(reg, req, b) BY SameVerdict
<1>4. /\ ev' = ev /\ (InTable(b)' <=> InTable(b))
      /\ SlotsOf(b)' = SlotsOf(b)
  BY DEF InTable, SameSlots
<1>5. policy_entry'[ev.i].resource_id = b <=> policy_entry[ev.i].resource_id = b
  BY <1>1 DEF SameSlots, SlotsOf
<1>6. policy_entry[ev.i].resource_id = b => policy_entry'[ev.i] = policy_entry[ev.i]
  BY <1>1 DEF SameSlots, SlotsOf
<1> QED BY <1>2, <1>3, <1>4, <1>5, <1>6 DEF BitOK, Behind, HAS_STICKY

LEMMA EventMessageStep ==
  ASSUME Serialised = TRUE, SmpTypes, MessageInv, EventInv, MessageStep,
         KeepTouched
  PROVE EventInv'
<1>1. UNCHANGED <<cr, ev>> BY DEF MessageStep
<1> SUFFICES ASSUME ev.pc # "idle"
             PROVE /\ PastTest' \subseteq touched'
                   /\ ev.pc \in {"sticky", "value", "skip"} =>
                        ev.bit \in EvDiff
                   /\ \A b \in CrRes[ev.reg] \ touched' : BitOK(b)'
  BY <1>1 DEF EventInv, EvDiff
<1>2. touched' = touched \cup PastTest \cup PastTest'
  BY <1>1 DEF KeepTouched
<1>3. ASSUME NEW b \in CrRes[ev.reg] \ touched' PROVE BitOK(b)'
  <2>1. b \in Resource /\ b \notin PastTest /\ BitOK(b)
    <3>1. ev.reg \in Reg BY DEF SmpTypes, EventTypes, EvT
    <3> QED BY <1>2, <1>3, <3>1, Registers DEF EventInv
  <2>2. SameSlots(b)
    BY <2>1, MessageEffect, OthersSlots, UnchangedSlots
  <2> QED BY <1>1, <2>1, <2>2, BitStays
<1> QED BY <1>2, <1>3 DEF EventInv

-----------------------------------------------------------------------------
(* The steps of the event                                                  *)

LEMMA NextSlotFields ==
  ASSUME NEW me \in EvT
  PROVE LET E == NextSlot(me)
        IN /\ E.reg = me.reg /\ E.req = me.req /\ E.new = me.new
           /\ E.bit = me.bit
           /\ \/ me.i + 1 \in Slots /\ E.pc = "id" /\ E.i = me.i + 1
              \/ me.i + 1 \notin Slots /\ E.pc = "end"
BY DEF NextSlot, LastSlot, EvT

(* The walk leaves a slot behind that changed only its own bit.            *)
LEMMA PassSlot ==
  ASSUME SmpTypes, UniqueEntries, UNCHANGED <<policy_entry, cr>>,
         ev.pc \in {"id", "sticky", "value", "skip"},
         NEW me \in EvT, ev' = NextSlot(me),
         me.reg = ev.reg, me.req = ev.req, me.i = ev.i,
         NEW b \in CrRes[ev.reg], BitOK(b),
         policy_entry[ev.i].resource_id # b => (b \in me.new <=> b \in ev.new),
         policy_entry[ev.i].resource_id = b
           => (b \in me.new <=> BitVerdict(ev.reg, ev.req, b))
  PROVE BitOK(b)'
<1>1. ev.i \in Slots /\ ev.reg \in Reg BY DEF SmpTypes, EventTypes, EvT
<1>2. b \in Resource /\ b # UNKNOWN BY <1>1, Registers, ResourceAssumption
<1>3. PICK reg, req : reg = ev.reg /\ req = ev.req OBVIOUS
<1>4. SameSlots(b) BY UnchangedSlots
<1>5. BitVerdict(reg, req, b)' <=> BitVerdict(reg, req, b)
  BY <1>2, <1>4, SameVerdict
<1>6. /\ ev'.reg = reg /\ ev'.req = req /\ ev'.new = me.new
      /\ \/ ev.i + 1 \in Slots /\ ev'.pc = "id" /\ ev'.i = ev.i + 1
         \/ ev.i + 1 \notin Slots /\ ev'.pc = "end"
  BY <1>3, NextSlotFields
<1>7. \A j \in Slots : Behind(j)' <=> Behind(j) \/ j = ev.i
  <2>1. ev.i \in Nat /\ \A j \in Slots : j \in Nat BY <1>1, SlotCount
  <2> QED BY <1>1, <1>6, <2>1, Seen DEF Behind
<1>8. ~Behind(ev.i)
  <2>1. ev.i \in Nat BY <1>1, SlotCount
  <2>2. ~(ev.i < ev.i) BY <2>1
  <2> QED BY <2>2 DEF Behind
<1>9. /\ SlotsOf(b)' = SlotsOf(b) /\ SlotsOf(b) \subseteq Slots
      /\ (InTable(b)' <=> InTable(b))
  BY <1>4 DEF SameSlots, SlotsOf, InTable
<1>10. policy_entry[ev.i].resource_id = b => SlotsOf(b) = {ev.i}
  BY <1>1, <1>2 DEF SlotsOf, UniqueEntries, Used
<1>11. policy_entry[ev.i].resource_id # b => ev.i \notin SlotsOf(b)
  BY DEF SlotsOf
<1>12. \A j \in SlotsOf(b) :
         b \in me.new <=> IF Behind(j)' THEN BitVerdict(ev.reg, ev.req, b)
                          ELSE b \in ev.req
  BY <1>7, <1>8, <1>9, <1>10, <1>11 DEF BitOK
<1>13. ~InTable(b) => (b \in me.new <=> b \in ev.req)
  BY <1>10 DEF BitOK, InTable
<1> QED BY <1>3, <1>5, <1>6, <1>9, <1>12, <1>13 DEF BitOK

LEMMA EventEventStep ==
  ASSUME SmpTypes, UniqueEntries, EventInv, EventStep, KeepTouched
  PROVE EventInv'
<1>1. /\ EventTypes /\ TypeOK /\ ev \in EvT /\ ev.i \in Slots /\ ev.reg \in Reg
      /\ CrRes[ev.reg] \subseteq Resource
  BY Registers DEF SmpTypes, SmpInv, EventTypes, EvT
<1>2. UNCHANGED <<policy_entry, cpu>>
  <2>1. UNCHANGED messageVars BY EventStepTypes
  <2> QED BY <2>1 DEF messageVars, smpVars, vars
<1>3. PastTest' = PastTest BY <1>2 DEF PastTest
<1>4. ev'.pc # "idle" => PastTest' \subseteq touched' /\ touched \subseteq touched'
  BY DEF KeepTouched
<1>5. ASSUME NEW reg \in Reg, NEW req \in SUBSET Bits(reg), BeginEvent(reg, req)
      PROVE EventInv'
  <2> DEFINE E == [NoEvent EXCEPT !.pc = "id", !.reg = reg, !.req = req,
                                  !.new = req]
  <2>1. E.pc = "id" /\ E.reg = reg /\ E.req = req /\ E.new = req /\ E.i = 0
    BY DEF NoEvent
  <2>2. ev' = E BY <1>5 DEF BeginEvent
  <2> HIDE DEF E
  <2>3. \A j \in Slots : ~Behind(j)' BY <2>1, <2>2, Seen DEF Behind
  <2>4. ASSUME NEW b PROVE BitOK(b)'
    <3>1. SlotsOf(b)' \subseteq Slots BY DEF SlotsOf
    <3> QED BY <2>1, <2>2, <2>3, <3>1 DEF BitOK
  <2> QED BY <1>4, <2>1, <2>2, <2>4 DEF EventInv
<1>6. ASSUME NEW reg \in Reg, NEW req \in SUBSET Bits(reg),
             ReadFails(reg, req) \/ SilentWrite(reg, req)
      PROVE EventInv'
  BY <1>6 DEF ReadFails, SilentWrite, EventInv
<1>7. CASE EndEvent BY <1>7 DEF EndEvent, NoEvent, EventInv
<1>8. ASSUME ReadId \/ ReadSticky \/ ReadStickyValue \/ ReadSkip
      PROVE EventInv'
  <2> DEFINE id == policy_entry[ev.i].resource_id
             e == policy_entry[ev.i]
             ours == CrRes[ev.reg] \ touched
  <2>1. UNCHANGED cr /\ ev.pc \in {"id", "sticky", "value", "skip"}
    BY <1>8 DEF ReadId, ReadSticky, ReadStickyValue, ReadSkip, Reading
  <2>2. /\ \A b \in ours : BitOK(b)
        /\ ev.pc \in {"sticky", "value", "skip"} => ev.bit \in EvDiff
    BY <2>1 DEF EventInv
  <2>3. ASSUME ev'.reg = ev.reg, ev'.pc # "idle",
               ev'.pc \in {"sticky", "value", "skip"} => ev'.bit \in EvDiff',
               \A b \in ours : BitOK(b)'
        PROVE EventInv'
    BY <1>4, <2>3 DEF EventInv
  <2>4. \A b \in ours :
          /\ b \in EvDiff <=> (b \in cr[ev.reg]) # (b \in ev.req)
          /\ b \notin EvDiff => (BitVerdict(ev.reg, ev.req, b) <=> b \in ev.req)
    BY DEF EvDiff, SymDiff, BitVerdict
  \* A bit that its own entry is about to decide still has its requested value.
  <2>5. ASSUME NEW b \in ours, id = b
        PROVE /\ b \in ev.new <=> b \in ev.req
              /\ b \in Resource /\ policyInTable[b] # NoPolicy
              /\ policyInTable[b].w_action = e.w_action
              /\ policyInTable[b].sticky_val = e.sticky_val
    <3>1. ~Behind(ev.i)
      <4>1. ev.i \in Nat BY <1>1, SlotCount
      <4>2. ~(ev.i < ev.i) BY <4>1
      <4> QED BY <2>1, <4>2 DEF Behind
    <3>2. ev.i \in SlotsOf(b) BY <1>1, <2>5 DEF SlotsOf
    <3>3. b \in ev.new <=> b \in ev.req BY <2>2, <3>1, <3>2 DEF BitOK
    <3> QED BY <1>1, <2>5, <3>3, PolicyOfSlot
  <2>6. ASSUME NEW me \in EvT, ev' = NextSlot(me),
               me.reg = ev.reg, me.req = ev.req, me.i = ev.i,
               \A b \in ours : id # b => (b \in me.new <=> b \in ev.new),
               \A b \in ours :
                 id = b => (b \in me.new <=> BitVerdict(ev.reg, ev.req, b))
        PROVE EventInv'
    <3>1. ev'.reg = ev.reg /\ ev'.pc \in {"id", "end"}
      BY <2>6, NextSlotFields
    <3>2. \A b \in ours : BitOK(b)' BY <1>2, <2>1, <2>2, <2>6, PassSlot
    <3> QED BY <2>3, <3>1, <3>2
  <2>7. ASSUME ev.bit \in EvDiff
        PROVE LET me == Invert(ev)
              IN /\ me \in EvT /\ me.reg = ev.reg /\ me.req = ev.req
                 /\ me.i = ev.i
                 /\ \A b : b \in me.new <=> (b \in ev.new) # (b = ev.bit)
    <3>1. SymDiff(ev.new, {ev.bit}) \in SUBSET AnyBits
      <4>1. ev.bit \in CrRes[ev.reg] BY <2>7 DEF EvDiff
      <4>2. ev.bit \in AnyBits BY <1>1, <4>1, RegisterBits DEF Bits
      <4>3. ev.new \subseteq AnyBits BY <1>1 DEF EvT
      <4> QED BY <4>2, <4>3 DEF SymDiff
    <3>2. \A b : b \in SymDiff(ev.new, {ev.bit}) <=> (b \in ev.new) # (b = ev.bit)
      BY DEF SymDiff
    <3> QED BY <1>1, <3>1, <3>2 DEF Invert, EvT
  <2>8. CASE ReadId
    <3>1. CASE id \in EvDiff
      <4> DEFINE E == [ev EXCEPT !.pc = "sticky", !.bit = id]
      <4>1. ev' = E BY <2>8, <3>1 DEF ReadId, EvDiff
      <4>2. /\ E.pc = "sticky" /\ E.bit = id /\ E.reg = ev.reg
            /\ E.req = ev.req /\ E.new = ev.new /\ E.i = ev.i
        BY <1>1 DEF EvT
      <4> HIDE DEF E
      <4>3. id \in EvDiff' BY <2>1, <3>1, <4>1, <4>2 DEF EvDiff
      <4>4. ASSUME NEW b \in ours PROVE BitOK(b)'
        <5>1. b \in Resource /\ SameSlots(b) /\ BitOK(b)
          BY <1>1, <1>2, <2>2, UnchangedSlots
        <5>2. PICK reg, req : reg = ev.reg /\ req = ev.req OBVIOUS
        <5>3. BitVerdict(reg, req, b)' <=> BitVerdict(reg, req, b)
          BY <2>1, <5>1, SameVerdict
        <5>4. SlotsOf(b)' = SlotsOf(b) /\ (InTable(b)' <=> InTable(b))
          BY <5>1 DEF SameSlots, InTable
        <5>5. \A j \in Slots : Behind(j)' <=> Behind(j)
          BY <2>1, <2>8, <4>1, <4>2 DEF Behind, ReadId, Reading
        <5>6. SlotsOf(b) \subseteq Slots BY DEF SlotsOf
        <5> QED BY <1>2, <4>1, <4>2, <5>1, <5>2, <5>3, <5>4, <5>5, <5>6
                DEF BitOK
      <4> QED BY <2>3, <4>1, <4>2, <4>3, <4>4
    <3>2. CASE id \notin EvDiff
      <4>1. ev' = NextSlot(ev) BY <2>8, <3>2 DEF ReadId, EvDiff
      <4>2. ASSUME NEW b \in ours, id = b
            PROVE b \in ev.new <=> BitVerdict(ev.reg, ev.req, b)
        BY <2>4, <2>5, <3>2, <4>2
      <4> QED BY <1>1, <2>6, <4>1, <4>2
    <3> QED BY <3>1, <3>2
  <2>9. CASE ReadSticky
    <3> DEFINE pc == IF HAS_STICKY(e) THEN "value" ELSE "skip"
               E == [ev EXCEPT !.pc = pc]
    <3>1. ev' = E /\ ev.pc = "sticky" BY <2>9 DEF ReadSticky, Reading
    <3>2. /\ E.pc = pc /\ E.bit = ev.bit /\ E.reg = ev.reg
          /\ E.req = ev.req /\ E.new = ev.new /\ E.i = ev.i
      BY <1>1 DEF EvT
    <3>3. pc \in {"value", "skip"} /\ (pc = "value" <=> HAS_STICKY(e)) OBVIOUS
    <3> HIDE DEF E, pc
    <3>4. ev'.bit \in EvDiff' BY <2>1, <2>2, <3>1, <3>2 DEF EvDiff
    <3>5. ASSUME NEW b \in ours PROVE BitOK(b)'
      <4>1. b \in Resource /\ SameSlots(b) /\ BitOK(b)
        BY <1>1, <1>2, <2>2, UnchangedSlots
      <4>2. PICK reg, req : reg = ev.reg /\ req = ev.req OBVIOUS
      <4>3. BitVerdict(reg, req, b)' <=> BitVerdict(reg, req, b)
        BY <2>1, <4>1, SameVerdict
      <4>4. SlotsOf(b)' = SlotsOf(b) /\ (InTable(b)' <=> InTable(b))
        BY <4>1 DEF SameSlots, InTable
      <4>5. \A j \in Slots : Behind(j)' <=> Behind(j)
        BY <3>1, <3>2, <3>3 DEF Behind
      <4>6. SlotsOf(b) \subseteq Slots BY DEF SlotsOf
      <4>7. HAS_STICKY(policy_entry[ev.i])' <=> HAS_STICKY(e)
        BY <1>2, <3>1, <3>2 DEF HAS_STICKY
      <4> QED BY <1>2, <3>1, <3>2, <3>3, <4>1, <4>2, <4>3, <4>4, <4>5, <4>6, <4>7
              DEF BitOK
    <3> QED BY <2>3, <3>1, <3>2, <3>3, <3>4, <3>5
  <2>10. CASE ReadStickyValue
    <3> DEFINE value == Odd(e.sticky_val)
               me == IF (ev.bit \in ev.new) # value THEN Invert(ev) ELSE ev
    <3>1. ev' = NextSlot(me) /\ ev.pc = "value"
      BY <2>10 DEF ReadStickyValue, Reading
    <3>2. ev.bit \in EvDiff BY <2>2, <3>1
    <3>3. value \in BOOLEAN BY DEF Odd
    <3>4. ASSUME NEW b \in ours, id = b
          PROVE BitVerdict(ev.reg, ev.req, b) <=> value
      <4>1. HAS_STICKY(e) /\ b \in EvDiff
        BY <2>2, <3>1, <3>2, <3>4 DEF BitOK
      <4> QED BY <2>4, <2>5, <3>4, <4>1 DEF BitVerdict, HAS_STICKY
    <3> HIDE DEF value
    <3>5. /\ me \in EvT /\ me.reg = ev.reg /\ me.req = ev.req /\ me.i = ev.i
          /\ \A b : b # ev.bit => (b \in me.new <=> b \in ev.new)
          /\ ev.bit \in me.new <=> value
      BY <1>1, <2>7, <3>2, <3>3
    <3> HIDE DEF me
    <3>6. \A b \in ours : ev.bit = b <=> id = b BY <2>2, <3>1 DEF BitOK
    <3> QED BY <2>6, <3>1, <3>4, <3>5, <3>6
  <2>11. CASE ReadSkip
    <3> DEFINE skip == W_HAS_SKIP(e)
               me == IF skip THEN Invert(ev) ELSE ev
    <3>1. ev' = NextSlot(me) /\ ev.pc = "skip"
      BY <2>11 DEF ReadSkip, Reading
    <3>2. ev.bit \in EvDiff BY <2>2, <3>1
    <3>3. skip \in BOOLEAN BY DEF W_HAS_SKIP
    <3>4. ASSUME NEW b \in ours, id = b
          PROVE BitVerdict(ev.reg, ev.req, b) <=> (b \in ev.new) # skip
      <4>1. ~HAS_STICKY(e) /\ b \in EvDiff
        BY <2>2, <3>1, <3>2, <3>4 DEF BitOK
      <4>2. BitVerdict(ev.reg, ev.req, b) <=>
              IF skip THEN b \in cr[ev.reg] ELSE b \in ev.req
        BY <2>4, <2>5, <3>4, <4>1 DEF BitVerdict, HAS_STICKY, W_HAS_SKIP
      <4> QED BY <2>4, <2>5, <3>3, <3>4, <4>1, <4>2
    <3> HIDE DEF skip
    <3>5. /\ me \in EvT /\ me.reg = ev.reg /\ me.req = ev.req /\ me.i = ev.i
          /\ \A b : b # ev.bit => (b \in me.new <=> b \in ev.new)
          /\ ev.bit \in me.new <=> (ev.bit \in ev.new) # skip
      BY <1>1, <2>7, <3>2, <3>3
    <3> HIDE DEF me
    <3>6. \A b \in ours : ev.bit = b <=> id = b BY <2>2, <3>1 DEF BitOK
    <3> QED BY <2>6, <3>1, <3>4, <3>5, <3>6
  <2> QED BY <1>8, <2>8, <2>9, <2>10, <2>11
<1> QED BY <1>5, <1>6, <1>7, <1>8 DEF EventStep

-----------------------------------------------------------------------------
(* The inductive invariant                                                 *)

LEMMA GuardSmpInitInv == GuardSmpInit => GuardSmpInv
<1> SUFFICES ASSUME GuardSmpInit PROVE GuardSmpInv OBVIOUS
<1>1. SmpTypes BY SmpInitTypes
<1>2. TableInv BY InitInv DEF GuardSmpInit, SmpInit
<1>3. \A c \in Cpus : cpu[c].pc = "idle" /\ copied[c] = {}
  BY DEF GuardSmpInit, SmpInit, Idle
<1>4. RestOK BY <1>2, <1>3 DEF RestOK, TableInv, GuardSmpInit
<1>5. EventInv BY DEF GuardSmpInit, NoEvent, EventInv
<1> QED BY <1>1, <1>4, <1>5 DEF GuardSmpInv, MessageInv

LEMMA GuardSmpStepInv ==
  ASSUME Serialised = TRUE, GuardSmpInv, [GuardSmpNext]_guardSmpVars
  PROVE GuardSmpInv'
<1> USE DEF GuardSmpInv
<1>1. SmpTypes' BY SmpTypesStep
<1>2. UniqueEntries BY MessageInvUnique
<1>3. CASE MessageStep /\ KeepTouched /\ KeepSettled
  BY <1>1, <1>3, MessageInvStep, EventMessageStep
<1>4. CASE EventStep /\ KeepTouched /\ KeepSettled
  <2>1. UNCHANGED messageVars BY <1>4, EventStepTypes
  <2>2. UNCHANGED <<policy_entry, copied>>
    BY <2>1 DEF messageVars, smpVars, vars
  <2>3. UNCHANGED settled BY <1>4, <2>2, SettledStays
  <2>4. MessageInv' BY <2>1, <2>3, MessageInvSame
  <2>5. EventInv' BY <1>2, <1>4, EventEventStep
  <2> QED BY <1>1, <2>4, <2>5
<1>5. CASE UNCHANGED guardSmpVars
  <2>1. UNCHANGED <<messageVars, settled, policy_entry, cpu, cr, ev, touched>>
    BY <1>5 DEF guardSmpVars, messageVars, smpVars, vars
  <2>2. MessageInv' BY <2>1, MessageInvSame
  <2>3. EventInv'
    <3>1. PastTest' = PastTest /\ EvDiff' = EvDiff
      BY <2>1 DEF PastTest, EvDiff
    <3>2. ASSUME NEW b \in CrRes[ev.reg] \ touched, ev.pc # "idle" PROVE BitOK(b)'
      <4>1. b \in Resource
        <5>1. ev.reg \in Reg BY DEF SmpTypes, EventTypes, EvT
        <5> QED BY <5>1, Registers
      <4>2. BitOK(b) BY <3>2 DEF EventInv
      <4> QED BY <2>1, <4>1, <4>2, BitStays, UnchangedSlots
    <3> QED BY <2>1, <3>1, <3>2 DEF EventInv
  <2> QED BY <1>1, <2>2, <2>3
<1> QED BY <1>3, <1>4, <1>5 DEF GuardSmpNext

LEMMA GuardSmpInvariance ==
  ASSUME Serialised = TRUE PROVE GuardSmpSpec => []GuardSmpInv
<1>1. GuardSmpInv /\ [GuardSmpNext]_guardSmpVars => GuardSmpInv'
  BY GuardSmpStepInv
<1> QED BY <1>1, GuardSmpInitInv, PTL DEF GuardSmpSpec

-----------------------------------------------------------------------------
(* Theorems on messages one at a time                                      *)

(* Field by field and with events that read it meanwhile, no resource ever *)
(* has two entries in the table, not even half copied ones.                *)
THEOREM EntriesUniqueByField ==
  ASSUME Serialised = TRUE PROVE GuardSmpSpec => []UniqueEntries
<1>1. GuardSmpInv => UniqueEntries BY MessageInvUnique DEF GuardSmpInv
<1> QED BY <1>1, GuardSmpInvariance, PTL

(* One message at a time, a resource that the hypervisor watches and never *)
(* refused has an entry in the table at every access of every message.     *)
THEOREM WatchedHaveEntriesByField ==
  ASSUME Serialised = TRUE PROVE GuardSmpSpec => []WatchedHaveEntries
<1>1. ASSUME GuardSmpInv PROVE WatchedHaveEntries
  <2> SUFFICES ASSUME NEW r \in monitored, r \notin monitor_failed
               PROVE InTable(r)
    BY DEF WatchedHaveEntries
  <2>1. r \in Resource \ (MsrUnlisted \cup monitor_failed)
    BY <1>1 DEF GuardSmpInv, SmpTypes, SmpInv, TypeOK
  <2>2. CASE RestOK BY <2>1, <2>2 DEF RestOK, MonitoredExactly
  <2>3. CASE \E c \in Cpus : BusyOK(c)
    <3>1. PICK c \in Cpus : BusyOK(c) BY <2>3
    <3> DEFINE me == cpu[c]
               id == me.entry.resource_id
    <3>2. StageOK(c) /\ WatchOK(c) /\ SlotOK(c) BY <3>1 DEF BusyOK
    <3>3. me.i \in Slots
      BY <1>1 DEF GuardSmpInv, SmpTypes, SmpInv, LocalOk, Locals
    <3>4. CASE r # id \/ me.pc \notin {"fill", "loadCount", "storeCount",
                                      "monitor", "find", "clear"}
      BY <2>1, <3>2, <3>4 DEF WatchOK
    <3>5. CASE r = id /\ me.pc = "fill"
      <4>1. "resource_id" \in copied[c] BY <2>1, <3>2, <3>5 DEF WatchOK
      <4> QED BY <3>2, <3>3, <3>5, <4>1 DEF SlotOK, InTable, SlotsOf
    <3>6. CASE r = id /\ me.pc \in {"loadCount", "storeCount"}
      <4>1. me.command # "DISABLE" BY <2>1, <3>2, <3>6 DEF WatchOK
      <4>2. me.command = "ENABLE" BY <3>2, <3>6, <4>1 DEF StageOK
      <4> QED BY <3>2, <3>6, <4>2 DEF SlotOK
    <3>7. CASE r = id /\ me.pc = "monitor" BY <3>2, <3>7 DEF SlotOK
    <3>8. CASE r = id /\ me.pc \in {"find", "clear"}
      BY <2>1, <3>2, <3>8 DEF WatchOK
    <3> QED BY <3>4, <3>5, <3>6, <3>7, <3>8
  <2> QED BY <1>1, <2>2, <2>3 DEF GuardSmpInv, MessageInv
<1> QED BY <1>1, GuardSmpInvariance, PTL

(* The verdict that an event has reached at the end of its walk.           *)
LEMMA VerdictAtEnd ==
  ASSUME GuardSmpInv, ev.pc = "end", NEW b \in CrRes[ev.reg] \ touched
  PROVE b \in ev.new <=> BitVerdict(ev.reg, ev.req, b)
<1>1. BitOK(b) BY DEF GuardSmpInv, EventInv
<1>2. CASE InTable(b)
  <2>1. PICK i \in SlotsOf(b) : TRUE BY <1>2 DEF InTable
  <2> QED BY <1>1, <2>1 DEF BitOK, Behind
<1>3. CASE ~InTable(b)
  <2>1. b \in Resource
    <3>1. ev.reg \in Reg BY DEF GuardSmpInv, SmpTypes, EventTypes, EvT
    <3> QED BY <3>1, Registers
  <2>2. policyInTable[b] = NoPolicy BY <1>3, <2>1 DEF policyInTable
  <2> QED BY <1>1, <1>3, <2>2 DEF BitOK, BitVerdict
<1> QED BY <1>2, <1>3

(* Every bit that no message is about gets what its policy says, although  *)
(* the event reads the table field by field while messages write it.       *)
THEOREM UntouchedGetVerdict ==
  ASSUME Serialised = TRUE PROVE GuardSmpSpec => []UntouchedVerdict
<1>1. GuardSmpInv => UntouchedVerdict
  <2> SUFFICES ASSUME GuardSmpInv, ev.pc = "end",
                      NEW b \in CrRes[ev.reg] \ touched
               PROVE (b \in ev.new) = BitVerdict(ev.reg, ev.req, b)
    BY DEF UntouchedVerdict
  <2>1. b \in ev.new <=> BitVerdict(ev.reg, ev.req, b) BY VerdictAtEnd
  <2>2. BitVerdict(ev.reg, ev.req, b) \in BOOLEAN
    <3> DEFINE p == policyInTable[b]
    <3>1. /\ (b \in ev.req) \in BOOLEAN /\ (b \in cr[ev.reg]) \in BOOLEAN
          /\ Odd(p.sticky_val) \in BOOLEAN
      BY DEF Odd
    <3>2. CASE p = NoPolicy \/ (b \in cr[ev.reg]) = (b \in ev.req)
      BY <3>1, <3>2 DEF BitVerdict
    <3>3. CASE ~(p = NoPolicy \/ (b \in cr[ev.reg]) = (b \in ev.req))
      <4>1. CASE HAS_STICKY(p) BY <3>1, <3>3, <4>1 DEF BitVerdict
      <4>2. CASE ~HAS_STICKY(p) BY <3>1, <3>3, <4>2 DEF BitVerdict
      <4> QED BY <4>1, <4>2
    <3> QED BY <3>2, <3>3
  <2> QED BY <2>1, <2>2
<1> QED BY <1>1, GuardSmpInvariance, PTL

(* An immutable table has no message left that could change it.            *)
LEMMA ImmutableAtRest ==
  ASSUME Serialised = TRUE, GuardSmpInv, MessageStep, g_policy_immutable
  PROVE UNCHANGED vars
<1>1. PICK c \in Cpus :
          \/ \E command \in Command, entry \in Entry : Receive(c, command, entry)
          \/ /\ BusyOK(c)
             /\ \E f \in EntryField : CopyField(c, f)
          \/ /\ BusyOK(c)
             /\ \/ CheckImmutable(c) \/ Freeze(c)
                \/ ScanOwn(c) \/ ScanFree(c) \/ ScanDel(c) \/ Clear(c)
                \/ LoadCount(c) \/ StoreCount(c)
                \/ Monitor(c) \/ Unmonitor(c)
  BY SerialStep DEF GuardSmpInv
<1>2. BusyOK(c) => cpu[c].pc = "check" BY DEF BusyOK, StageOK
<1> QED BY <1>1, <1>2 DEF Receive, CopyField, CheckImmutable, Freeze, ScanOwn,
           ScanFree, ScanDel, Clear, LoadCount, StoreCount, Monitor, Unmonitor

(* PinnedForever for events that take time: whatever messages an event     *)
(* overlapped, a pinned bit that none of them was about keeps its value.   *)
THEOREM PinnedByField ==
  ASSUME Serialised = TRUE PROVE GuardSmpSpec => PinnedUnlessInFlight
<1> DEFINE Keeps == \A r \in Resource :
                      Pinned(r) /\ r \notin touched =>
                        Pinned(r)' \/ lastFault' # "none"
<1>1. GuardSmpInv /\ [GuardSmpNext]_guardSmpVars => [Keeps]_guardSmpVars
  <2> SUFFICES ASSUME GuardSmpInv, GuardSmpNext, NEW r \in Resource,
                      Pinned(r), r \notin touched, lastFault' = "none"
               PROVE Pinned(r)'
    OBVIOUS
  <2>1. g_policy_immutable BY DEF Pinned
  <2>2. UNCHANGED vars
    <3>1. CASE MessageStep BY <2>1, <3>1, ImmutableAtRest
    <3>2. CASE EventStep
      BY <3>2, EventStepTypes DEF GuardSmpInv, messageVars, smpVars
    <3> QED BY <3>1, <3>2 DEF GuardSmpNext
  <2>3. /\ UNCHANGED <<g_policy_immutable, monitored>>
        /\ policyInTable'[r] = policyInTable[r]
    BY <2>2, PolicyUnchanged, UnchangedSlots DEF vars, SameSlots
  <2>4. ASSUME UNCHANGED msr,
               \A reg \in Reg : r \in CrRes[reg] =>
                 (r \in cr'[reg] <=> r \in cr[reg])
        PROVE Pinned(r)'
    <3>1. PICK p : p = policyInTable[r] OBVIOUS
    <3> QED BY <2>3, <2>4, <3>1 DEF Pinned, HAS_STICKY, Odd
  <2>5. cr \in [Reg -> SUBSET AnyBits] /\ ev.reg \in Reg
    BY DEF GuardSmpInv, SmpTypes, RegisterTypes, EventTypes, EvT
  <2>6. CASE UNCHANGED <<cr, msr>> BY <2>4, <2>6
  <2>7. ASSUME NEW reg \in Reg, NEW req \in SUBSET Bits(reg),
               BeginEvent(reg, req) \/ ReadFails(reg, req) \/ SilentWrite(reg, req)
        PROVE Pinned(r)'
    <3>1. CASE BeginEvent(reg, req) BY <2>6, <3>1 DEF BeginEvent
    <3>2. ~ReadFails(reg, req) BY DEF ReadFails
    <3>3. CASE SilentWrite(reg, req)
      <4>1. /\ SymDiff(cr[reg], req) \cap monitored = {}
            /\ cr' = [cr EXCEPT ![reg] = req] /\ UNCHANGED msr
        BY <3>3 DEF SilentWrite, UnreportedCrWrite
      <4>2. r \in monitored BY DEF Pinned
      <4>3. r \in req <=> r \in cr[reg] BY <4>1, <4>2 DEF SymDiff
      <4> QED BY <2>4, <2>5, <4>1, <4>3
    <3> QED BY <2>7, <3>1, <3>2, <3>3
  <2>8. CASE EndEvent
    <3>1. /\ cr' = [cr EXCEPT ![ev.reg] = ev.new] /\ UNCHANGED msr
          /\ ev.pc = "end"
      BY <2>8 DEF EndEvent
    <3>2. CASE r \notin CrRes[ev.reg] BY <2>4, <2>5, <3>1, <3>2
    <3>3. CASE r \in CrRes[ev.reg]
      <4> PICK p : p = policyInTable[r] OBVIOUS
      <4>1. r \in ev.new <=> BitVerdict(ev.reg, ev.req, r)
        BY <3>1, <3>3, VerdictAtEnd
      <4>2. p # NoPolicy /\ HAS_STICKY(p) BY DEF Pinned
      <4>3. r \in ev.new <=> IF (r \in cr[ev.reg]) = (r \in ev.req)
                             THEN r \in ev.req ELSE Odd(p.sticky_val)
        BY <4>1, <4>2 DEF BitVerdict
      <4>4. \A q \in Reg : r \in CrRes[q] => q = ev.reg
        BY <2>5, <3>3, Registers, ResourceAssumption
      <4>5. /\ (r \in cr[ev.reg] <=> Odd(p.sticky_val))
            /\ r \notin MsrListed
        <5>1. r \in Cr0Res \cup Cr4Res BY <2>5, <3>3, Registers
        <5>2. r \notin MsrListed BY <5>1, ResourceAssumption
        <5> QED BY <3>3, <4>4, <5>2 DEF Pinned, Odd
      <4>6. r \in ev.new <=> r \in cr[ev.reg] BY <4>3, <4>5
      <4> QED BY <2>4, <2>5, <3>1, <4>6
    <3> QED BY <3>2, <3>3
  <2> QED BY <2>6, <2>7, <2>8
          DEF GuardSmpNext, MessageStep, EventStep, ReadId, ReadSticky,
              ReadStickyValue, ReadSkip, Reading
<1> QED BY <1>1, GuardSmpInvariance, PTL DEF GuardSmpSpec, PinnedUnlessInFlight

-----------------------------------------------------------------------------
(* The handlers implement the store, access by access                      *)

(* The policies in a table t.                                              *)
OwnSlots(t, r) == {i \in Slots : t[i].resource_id = r}
PolicyIn(t) ==
  [r \in Resource |-> IF OwnSlots(t, r) = {} THEN NoPolicy
                      ELSE PolicyOf(t[First(OwnSlots(t, r))])]

LEMMA SettledPolicy ==
  policySettled = PolicyIn(settled) /\ policySettled' = PolicyIn(settled')
<1>1. policySettled = PolicyIn(settled) BY DEF policySettled, PolicyIn, OwnSlots
<1>2. policySettled' = PolicyIn(settled')
  BY DEF policySettled, PolicyIn, OwnSlots, First, PolicyOf
<1> QED BY <1>1, <1>2

(* One slot that was free or belonged to id now belongs to id alone, or to *)
(* none.                                                                   *)
LEMMA PolicyWritten ==
  ASSUME NEW t, NEW u, NEW i \in Slots, NEW id \in Resource,
         t[i].resource_id \in {UNKNOWN, id},
         u[i].resource_id \in {UNKNOWN, id},
         \A j \in Slots \ {i} : u[j] = t[j] /\ u[j].resource_id # id
  PROVE PolicyIn(u) =
          [PolicyIn(t) EXCEPT ![id] = IF u[i].resource_id = id
                                      THEN PolicyOf(u[i]) ELSE NoPolicy]
<1>1. id # UNKNOWN BY ResourceAssumption
<1>2. ASSUME NEW r \in Resource, r # id PROVE PolicyIn(u)[r] = PolicyIn(t)[r]
  <2>1. r # UNKNOWN BY ResourceAssumption
  <2>2. OwnSlots(u, r) = OwnSlots(t, r) /\ i \notin OwnSlots(t, r)
    BY <1>2, <2>1 DEF OwnSlots
  <2>3. CASE OwnSlots(t, r) = {} BY <2>2, <2>3 DEF PolicyIn
  <2>4. CASE OwnSlots(t, r) # {}
    <3>1. OwnSlots(t, r) \in SUBSET Slots BY DEF OwnSlots
    <3>2. First(OwnSlots(t, r)) \in Slots \ {i}
      BY <2>2, <2>4, <3>1, FirstIsLeast
    <3> QED BY <2>2, <3>2 DEF PolicyIn
  <2> QED BY <2>3, <2>4
<1>3. PolicyIn(u)[id] = IF u[i].resource_id = id THEN PolicyOf(u[i]) ELSE NoPolicy
  <2>1. CASE u[i].resource_id = id
    <3>1. OwnSlots(u, id) = {i} BY <2>1 DEF OwnSlots
    <3>2. First({i}) = i BY FirstIsLeast
    <3> QED BY <2>1, <3>1, <3>2 DEF PolicyIn
  <2>2. CASE u[i].resource_id # id
    <3>1. OwnSlots(u, id) = {} BY <2>2 DEF OwnSlots
    <3> QED BY <2>2, <3>1 DEF PolicyIn
  <2> QED BY <2>1, <2>2
<1>4. /\ PolicyIn(u) = [r \in Resource |-> PolicyIn(u)[r]]
      /\ PolicyIn(t) = [r \in Resource |-> PolicyIn(t)[r]]
  BY DEF PolicyIn
<1> QED BY <1>2, <1>3, <1>4

(* The last field of an entry is the store's Enable.                       *)
LEMMA CopyImplements ==
  ASSUME SmpTypes, NEW c \in Cpus, BusyOK(c), NEW f \in EntryField,
         CopyField(c, f), KeepSettled
  PROVE \/ UNCHANGED <<policySettled, g_policy_immutable>>
        \/ SettledStore!Enable(cpu[c].entry.resource_id, PolicyOf(cpu[c].entry))
<1> DEFINE me == cpu[c]
           id == me.entry.resource_id
           e == [policy_entry[me.i] EXCEPT ![f] = me.entry[f]]
           done == copied[c] \cup {f} = EntryField
<1>1. /\ SmpInv /\ id \in Resource /\ me.pc \in {"overwrite", "fill"}
      /\ copied \in [Cpus -> SUBSET EntryField]
  BY DEF SmpTypes, SmpInv, LocalOk, Locals, Entry, CopyField, BeforeTest
<1>2. /\ me.i \in Slots /\ me.entry \in Entry /\ e \in Entry
      /\ policy_entry'[me.i] = e /\ OnlySlot(me.i)
      /\ policy_entry[me.i] \in Entry
  BY <1>1, CopyEffect DEF OnlySlot, SmpInv, TypeOK
<1>3. g_policy_immutable = FALSE /\ UNCHANGED g_policy_immutable
  BY <1>1 DEF BusyOK, StageOK, CopyField
<1>4. CASE ~done
  <2>1. copied'[c] # {} BY <1>1, <1>4 DEF CopyField
  <2>2. UNCHANGED settled BY <2>1 DEF KeepSettled
  <2> QED BY <1>3, <2>2, SettledPolicy
<1>5. CASE done
  <2>1. copied'[c] = {} BY <1>1, <1>5 DEF CopyField
  <2>2. \A d \in Cpus : copied'[d] = {}
    BY <1>1, <2>1 DEF CopyField, BusyOK
  <2>3. settled' = policy_entry' BY <2>2 DEF KeepSettled
  <2>4. /\ copied[c] # {}
        /\ \A j \in Slots \ {me.i} : settled[j] = policy_entry[j]
        /\ settled[me.i].resource_id \in {UNKNOWN, id}
        /\ \A g \in EntryField \ {f} : policy_entry[me.i][g] = me.entry[g]
    <3>1. copied[c] # {} BY <1>5 DEF EntryField
    <3>2. EntryField \ {f} \subseteq copied[c] BY <1>5
    <3> QED BY <3>1, <3>2 DEF BusyOK, CopyOK
  <2>5. e.resource_id = id /\ PolicyOf(e) = PolicyOf(me.entry)
    BY <1>2, <2>4 DEF EntryField, PolicyOf, Entry
  <2>6. \A j \in Slots \ {me.i} : policy_entry'[j].resource_id # id
    <3>1. UniqueEntries' BY CopyBusy DEF BusyOK
    <3> HIDE DEF e
    <3> QED BY <1>1, <1>2, <2>5, <3>1, ResourceAssumption DEF UniqueEntries, Used
  <2> HIDE DEF e
  <2> PICK t, u : t = settled /\ u = settled' OBVIOUS
  <2>7. /\ t[me.i].resource_id \in {UNKNOWN, id}
        /\ u[me.i].resource_id \in {UNKNOWN, id}
        /\ \A j \in Slots \ {me.i} : u[j] = t[j] /\ u[j].resource_id # id
        /\ u[me.i].resource_id = id /\ PolicyOf(u[me.i]) = PolicyOf(me.entry)
    BY <1>2, <2>3, <2>4, <2>5, <2>6 DEF OnlySlot
  <2>8. PolicyIn(u) = [PolicyIn(t) EXCEPT ![id] = PolicyOf(me.entry)]
    BY <1>1, <1>2, <2>7, PolicyWritten
  <2>9. policySettled = PolicyIn(t) /\ policySettled' = PolicyIn(u)
    BY SettledPolicy
  <2> QED BY <1>3, <2>8, <2>9 DEF SettledStore!Enable
<1> QED BY <1>4, <1>5

(* The freed id is the store's Disable.                                    *)
LEMMA ClearImplements ==
  ASSUME SmpTypes, NEW c \in Cpus, BusyOK(c), Clear(c),
         UNCHANGED copied, KeepSettled
  PROVE SettledStore!Disable(cpu[c].entry.resource_id)
<1> DEFINE me == cpu[c]
           id == me.entry.resource_id
<1>1. /\ me.pc = "clear" /\ me.i \in Slots /\ id \in Resource
      /\ OnlySlot(me.i) /\ policy_entry'[me.i].resource_id = UNKNOWN
      /\ UNCHANGED g_policy_immutable
  BY ClearEffect DEF SmpTypes
<1>2. /\ g_policy_immutable = FALSE /\ policy_entry[me.i].resource_id = id
      /\ copied[c] = {} /\ settled = policy_entry
  BY <1>1 DEF BusyOK, StageOK, SlotOK, CopyOK
<1>3. \A d \in Cpus : copied'[d] = {} BY <1>2 DEF BusyOK
<1>4. settled' = policy_entry' BY <1>3 DEF KeepSettled
<1>5. \A j \in Slots \ {me.i} : policy_entry[j].resource_id # id
  BY <1>1, <1>2, ResourceAssumption DEF BusyOK, UniqueEntries, Used
<1> PICK t, u : t = settled /\ u = settled' OBVIOUS
<1>6. /\ t[me.i].resource_id \in {UNKNOWN, id}
      /\ u[me.i].resource_id \in {UNKNOWN, id} /\ u[me.i].resource_id # id
      /\ \A j \in Slots \ {me.i} : u[j] = t[j] /\ u[j].resource_id # id
  BY <1>1, <1>2, <1>4, <1>5, ResourceAssumption DEF OnlySlot
<1>7. PolicyIn(u) = [PolicyIn(t) EXCEPT ![id] = NoPolicy]
  BY <1>1, <1>6, PolicyWritten
<1>8. policySettled = PolicyIn(t) /\ policySettled' = PolicyIn(u)
  BY SettledPolicy
<1> QED BY <1>1, <1>2, <1>7, <1>8 DEF SettledStore!Disable

(* Every other step is the store's MakeImmutable or none of it.            *)
LEMMA MessageImplements ==
  ASSUME Serialised = TRUE, SmpTypes, MessageInv, MessageStep, KeepSettled
  PROVE [SettledStore!Next]_(SettledStore!vars)
<1>1. PICK c \in Cpus :
          \/ /\ RestOK /\ UNCHANGED copied
             /\ \E command \in Command, entry \in Entry :
                  Receive(c, command, entry)
          \/ /\ BusyOK(c)
             /\ \E f \in EntryField : CopyField(c, f)
          \/ /\ BusyOK(c) /\ UNCHANGED copied
             /\ \/ CheckImmutable(c) \/ Freeze(c)
                \/ ScanOwn(c) \/ ScanFree(c) \/ ScanDel(c) \/ Clear(c)
                \/ LoadCount(c) \/ StoreCount(c)
                \/ Monitor(c) \/ Unmonitor(c)
  BY SerialStep
<1>2. UNCHANGED settled => UNCHANGED policySettled
  BY SettledPolicy
<1>3. CASE BusyOK(c) /\ \E f \in EntryField : CopyField(c, f)
  <2>1. /\ cpu[c].entry.resource_id \in Resource
        /\ PolicyOf(cpu[c].entry) \in Policy
    BY <1>3 DEF SmpTypes, SmpInv, LocalOk, Locals, Entry, CopyField, BeforeTest,
                PolicyOf, Policy
  <2> QED BY <1>3, <2>1, CopyImplements
          DEF SettledStore!Next, SettledStore!vars
<1>4. CASE BusyOK(c) /\ UNCHANGED copied /\ Clear(c)
  <2>1. cpu[c].entry.resource_id \in Resource
    BY <1>4, ClearEffect DEF SmpTypes
  <2> QED BY <1>4, <2>1, ClearImplements DEF SettledStore!Next
<1>5. CASE UNCHANGED copied /\ Freeze(c)
  <2>1. UNCHANGED <<policy_entry, copied>> /\ g_policy_immutable' = TRUE
    BY <1>5 DEF Freeze, tableVars
  <2>2. UNCHANGED policySettled BY <1>2, <2>1, SettledStays
  <2> QED BY <2>1, <2>2 DEF SettledStore!Next, SettledStore!MakeImmutable
<1>6. ASSUME UNCHANGED <<policy_entry, copied, g_policy_immutable>>
      PROVE UNCHANGED SettledStore!vars
  BY <1>2, <1>6, SettledStays DEF SettledStore!vars
<1>7. CASE /\ UNCHANGED copied
           /\ \/ \E command \in Command, entry \in Entry :
                   Receive(c, command, entry)
              \/ CheckImmutable(c)
              \/ ScanOwn(c) \/ ScanFree(c) \/ ScanDel(c)
              \/ LoadCount(c) \/ StoreCount(c)
              \/ Monitor(c) \/ Unmonitor(c)
  BY <1>6, <1>7 DEF Receive, CheckImmutable, ScanOwn, ScanFree, ScanDel, Scan,
                    LoadCount, StoreCount, Monitor, Unmonitor, vars, tableVars
<1> QED BY <1>1, <1>3, <1>4, <1>5, <1>7

(* Messages that are handled one at a time, field by field and with events *)
(* between their accesses, are the steps of the abstract store: each takes *)
(* effect at one access, and nothing is lost, merged or revived.           *)
THEOREM StoreByField ==
  ASSUME Serialised = TRUE PROVE GuardSmpSpec => ImplementsStoreByField
<1>1. GuardSmpInit => SettledStore!Init
  <2> SUFFICES ASSUME GuardSmpInit PROVE SettledStore!Init OBVIOUS
  <2>1. settled = [i \in Slots |-> FreeEntry] /\ g_policy_immutable = FALSE
    BY DEF GuardSmpInit, SmpInit, Init
  <2>2. \A r \in Resource : OwnSlots(settled, r) = {}
    BY <2>1, ResourceAssumption DEF OwnSlots, FreeEntry
  <2> QED BY <2>1, <2>2, SettledPolicy DEF PolicyIn, SettledStore!Init
<1>2. GuardSmpInv /\ [GuardSmpNext]_guardSmpVars
        => [SettledStore!Next]_(SettledStore!vars)
  <2> SUFFICES ASSUME GuardSmpInv, [GuardSmpNext]_guardSmpVars
               PROVE [SettledStore!Next]_(SettledStore!vars)
    OBVIOUS
  <2>1. UNCHANGED <<settled, g_policy_immutable>> => UNCHANGED SettledStore!vars
    BY SettledPolicy DEF SettledStore!vars
  <2>2. CASE MessageStep /\ KeepSettled
    BY <2>2, MessageImplements DEF GuardSmpInv
  <2>3. CASE EventStep /\ KeepSettled
    <3>1. UNCHANGED messageVars BY <2>3, EventStepTypes DEF GuardSmpInv
    <3>2. UNCHANGED <<policy_entry, copied, g_policy_immutable>>
      BY <3>1 DEF messageVars, smpVars, vars
    <3> QED BY <2>1, <2>3, <3>2, SettledStays DEF GuardSmpInv
  <2>4. CASE UNCHANGED guardSmpVars
    BY <2>1, <2>4 DEF guardSmpVars, smpVars, vars
  <2> QED BY <2>2, <2>3, <2>4 DEF GuardSmpNext
<1> QED BY <1>1, <1>2, GuardSmpInvariance, PTL
        DEF GuardSmpSpec, ImplementsStoreByField, SettledStore!Spec
=============================================================================
