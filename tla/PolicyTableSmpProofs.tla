------------------------ MODULE PolicyTableSmpProofs ------------------------
(***************************************************************************)
(* Proofs about PolicyTableSmp for any number of CPUs and resources,       *)
(* whether or not the hypervisor serialises the messages: the handlers'    *)
(* loops stay inside the table, and an immutable table comes to rest.      *)
(***************************************************************************)
EXTENDS PolicyTableSmp, PolicyTableProofs

Pc == {"idle", "check", "freeze", "own", "overwrite", "free", "fill", "find",
       "clear", "loadCount", "storeCount", "monitor", "unmonitor"}

Locals == [pc : Pc, command : Command, entry : Entry, i : Slots, count : Nat]

(* Where a CPU is before it has passed the test of the flag.               *)
BeforeTest == {"idle", "check", "freeze"}

(* A message under way is about a resource, but make_immutable is not.     *)
LocalOk(me) ==
  /\ me \in Locals
  /\ me.pc \notin BeforeTest => me.entry.resource_id # UNKNOWN
  /\ me.pc # "idle" /\ me.command # "MAKE_IMMUTABLE" =>
       me.entry.resource_id # UNKNOWN

SmpInv ==
  /\ TypeOK
  /\ cpu \in [Cpus -> Locals]
  /\ \A c \in Cpus : LocalOk(cpu[c])

(* A CPU without a message.                                                *)
LEMMA IdleOk == LocalOk(Idle) /\ 0 \in Slots
<1>1. 0 \in Slots BY SlotCount DEF Slots
<1>2. FreeEntry \in Entry BY ActionAssumption DEF FreeEntry, Entry
<1> QED BY <1>1, <1>2 DEF LocalOk, Idle, Locals, Pc, Command, BeforeTest

LEMMA SmpInitInv == SmpInit => SmpInv
<1> SUFFICES ASSUME SmpInit PROVE SmpInv OBVIOUS
<1>1. TypeOK BY InitInv DEF SmpInit, TableInv
<1>2. LocalOk(Idle) /\ Idle \in Locals BY IdleOk DEF LocalOk
<1> QED BY <1>1, <1>2 DEF SmpInv, SmpInit

(* A step of one CPU that keeps the table's types.                         *)
LEMMA OneCpu ==
  ASSUME SmpInv, NEW c \in Cpus, NEW m, LocalOk(m), TypeOK',
         cpu' = [cpu EXCEPT ![c] = m]
  PROVE SmpInv'
<1>1. m \in Locals BY DEF LocalOk
<1>2. cpu' \in [Cpus -> Locals] BY <1>1 DEF SmpInv
<1>3. ASSUME NEW d \in Cpus PROVE LocalOk(cpu'[d])
  <2>1. CASE d = c BY <2>1 DEF SmpInv
  <2>2. CASE d # c BY <2>2 DEF SmpInv
  <2> QED BY <2>1, <2>2
<1> QED BY <1>2, <1>3 DEF SmpInv, LocalOk

(* A step to another statement of the same message.                        *)
LEMMA GotoOk ==
  ASSUME SmpInv, NEW c \in Cpus, NEW pc \in Pc,
         pc = "freeze" \/ cpu[c].entry.resource_id # UNKNOWN,
         pc = "freeze" => cpu[c].command = "MAKE_IMMUTABLE"
  PROVE LocalOk([cpu[c] EXCEPT !.pc = pc])
BY DEF SmpInv, LocalOk, Locals, BeforeTest

LEMMA TableUnchanged == TypeOK /\ UNCHANGED vars => TypeOK'
BY DEF TypeOK, vars

LEMMA ReceiveStep ==
  ASSUME SmpInv, NEW c \in Cpus, NEW command \in Command,
         NEW entry \in Entry,
         command = "MAKE_IMMUTABLE" \/ entry.resource_id # UNKNOWN,
         Receive(c, command, entry)
  PROVE SmpInv'
<1> DEFINE m == [Idle EXCEPT !.pc = "check", !.command = command,
                             !.entry = entry]
<1>1. Idle \in Locals BY IdleOk DEF LocalOk
<1>2. /\ m \in Locals /\ m.entry = entry /\ m.pc = "check"
      /\ m.command = command
  BY <1>1 DEF Locals, Pc
<1>3. cpu' = [cpu EXCEPT ![c] = m] /\ TypeOK'
  BY TableUnchanged DEF Receive, SmpInv
<1> HIDE DEF m
<1>4. LocalOk(m) BY <1>2 DEF LocalOk, BeforeTest
<1> QED BY <1>3, <1>4, OneCpu

(* Goto and Return keep the invariant when the table keeps its types.      *)
LEMMA MoveOn ==
  ASSUME SmpInv, TypeOK', NEW c \in Cpus, cpu[c].pc \notin BeforeTest,
         Return(c) \/ \E pc \in Pc \ BeforeTest : Goto(c, pc)
  PROVE SmpInv'
<1>1. CASE Return(c) BY <1>1, IdleOk, OneCpu DEF Return
<1>2. CASE \E pc \in Pc \ BeforeTest : Goto(c, pc)
  <2> PICK pc \in Pc \ BeforeTest : Goto(c, pc) BY <1>2
  <2> DEFINE m == [cpu[c] EXCEPT !.pc = pc]
  <2>1. LocalOk(m)
    BY GotoOk DEF SmpInv, LocalOk, BeforeTest
  <2>2. cpu' = [cpu EXCEPT ![c] = m] BY DEF Goto
  <2> HIDE DEF m
  <2> QED BY <2>1, <2>2, OneCpu
<1> QED BY <1>1, <1>2

(* A loop's test of a slot.                                                *)
LEMMA ScanStep ==
  ASSUME SmpInv, NEW c \in Cpus, cpu[c].pc \notin BeforeTest,
         NEW id, NEW found \in Pc \ BeforeTest,
         NEW missing \in (Pc \ BeforeTest) \cup {"idle"},
         Scan(c, id, found, missing)
  PROVE SmpInv'
<1> DEFINE me == cpu[c]
           on == [me EXCEPT !.i = me.i + 1]
           over == [me EXCEPT !.pc = missing, !.i = 0]
<1>1. TypeOK' BY TableUnchanged DEF Scan, SmpInv
<1>2. /\ LocalOk(me) /\ me \in Locals
      /\ me.entry.resource_id # UNKNOWN
  BY DEF SmpInv, LocalOk
<1>3. \/ Return(c) \/ Goto(c, found)
      \/ ~LastSlot(me.i) /\ cpu' = [cpu EXCEPT ![c] = on]
      \/ missing # "idle" /\ cpu' = [cpu EXCEPT ![c] = over]
  BY DEF Scan
<1>4. CASE Return(c) \/ Goto(c, found) BY <1>1, <1>4, MoveOn
<1>5. CASE ~LastSlot(me.i) /\ cpu' = [cpu EXCEPT ![c] = on]
  <2>1. me.i + 1 \in Slots BY <1>5 DEF LastSlot
  <2>2. on \in Locals /\ on.entry = me.entry BY <1>2, <2>1 DEF Locals
  <2> HIDE DEF me, on
  <2>3. LocalOk(on) BY <1>2, <2>2 DEF LocalOk
  <2> QED BY <1>1, <1>5, <2>3, OneCpu
<1>6. CASE missing # "idle" /\ cpu' = [cpu EXCEPT ![c] = over]
  <2>1. over \in Locals /\ over.entry = me.entry
    BY <1>2, <1>6, IdleOk DEF Locals
  <2> HIDE DEF me, over
  <2>2. LocalOk(over) BY <1>2, <2>1 DEF LocalOk
  <2> QED BY <1>1, <1>6, <2>2, OneCpu
<1> QED BY <1>3, <1>4, <1>5, <1>6

(* The stores to the table.                                                *)
LEMMA EntryStep ==
  ASSUME SmpInv, NEW c \in Cpus, Overwrite(c) \/ Fill(c) \/ Clear(c)
  PROVE SmpInv'
<1>1. /\ cpu[c].pc \notin BeforeTest
      /\ \E pc \in Pc \ BeforeTest : Goto(c, pc)
      /\ UNCHANGED <<num_entries, g_policy_immutable, monitorVars>>
      /\ \/ policy_entry' = [policy_entry EXCEPT ![cpu[c].i] = cpu[c].entry]
         \/ policy_entry' =
              [policy_entry EXCEPT ![cpu[c].i].resource_id = UNKNOWN]
  BY DEF Overwrite, Fill, WriteEntry, Clear, Pc, BeforeTest
<1>2. policy_entry' \in [Slots -> Entry]
  <2>1. /\ cpu[c].i \in Slots /\ cpu[c].entry \in Entry
        /\ policy_entry \in [Slots -> Entry]
    BY DEF SmpInv, LocalOk, Locals, TypeOK
  <2> QED BY <1>1, <2>1 DEF Entry
<1>3. TypeOK' BY <1>1, <1>2 DEF TypeOK, SmpInv, monitorVars
<1> QED BY <1>1, <1>3, MoveOn

(* The load and the store of the count.                                    *)
LEMMA CountStep ==
  ASSUME SmpInv, NEW c \in Cpus, LoadCount(c) \/ StoreCount(c)
  PROVE SmpInv'
<1> DEFINE me == cpu[c]
           m == [me EXCEPT !.pc = "storeCount", !.count = num_entries]
<1>1. LocalOk(me) /\ me \in Locals /\ num_entries \in Nat
  BY DEF SmpInv, LocalOk, TypeOK
<1>2. CASE LoadCount(c)
  <2>1. cpu' = [cpu EXCEPT ![c] = m] /\ TypeOK' /\ me.pc \notin BeforeTest
    BY <1>2, TableUnchanged DEF LoadCount, SmpInv, BeforeTest
  <2>2. m \in Locals /\ m.entry = me.entry BY <1>1 DEF Locals, Pc
  <2> HIDE DEF m
  <2>3. LocalOk(m) BY <1>1, <2>1, <2>2 DEF LocalOk
  <2> QED BY <2>1, <2>3, OneCpu
<1>3. CASE StoreCount(c)
  <2>1. me.count \in Nat BY <1>1 DEF Locals
  <2>2. num_entries' \in Nat BY <1>1, <1>3, <2>1 DEF StoreCount
  <2>3. TypeOK'
    BY <1>3, <2>2 DEF StoreCount, TypeOK, SmpInv, monitorVars
  <2>4. me.pc \notin BeforeTest /\ (Return(c) \/ Goto(c, "monitor"))
    BY <1>3 DEF StoreCount, BeforeTest
  <2> QED BY <2>3, <2>4, MoveOn DEF Pc, BeforeTest
<1> QED BY <1>2, <1>3

(* The calls to the hypervisor.                                            *)
LEMMA MonitorStep ==
  ASSUME SmpInv, NEW c \in Cpus, Monitor(c) \/ Unmonitor(c)
  PROVE SmpInv'
<1>1. /\ cpu[c].pc \notin BeforeTest /\ (Return(c) \/ Goto(c, "find"))
      /\ UNCHANGED <<tableVars, g_policy_immutable>>
      /\ \E enable \in BOOLEAN :
           policy_set_monitor(cpu[c].entry.resource_id, enable)
  BY DEF Monitor, Unmonitor, BeforeTest
<1>2. cpu[c].entry.resource_id \in Resource
  BY <1>1 DEF SmpInv, LocalOk, Locals, Entry
<1>3. TypeOK BY DEF SmpInv
<1>4. /\ monitored' \subseteq Resource \ MsrUnlisted
      /\ monitor_failed' \subseteq Resource \ MsrUnlisted
  BY <1>1, <1>2, <1>3, MonitorType
<1>5. TypeOK' BY <1>1, <1>3, <1>4 DEF TypeOK, tableVars
<1> QED BY <1>1, <1>5, MoveOn DEF Pc, BeforeTest

(* The test of the flag, and its assignment.                               *)
LEMMA FlagStep ==
  ASSUME SmpInv, NEW c \in Cpus, CheckImmutable(c) \/ Freeze(c)
  PROVE SmpInv'
<1>1. cpu[c].pc # "idle" BY DEF CheckImmutable, Freeze
<1>2. TypeOK'
  <2>1. CASE CheckImmutable(c)
    BY <2>1, TableUnchanged DEF CheckImmutable, SmpInv
  <2>2. CASE Freeze(c)
    BY <2>2 DEF Freeze, SmpInv, TypeOK, tableVars, monitorVars
  <2> QED BY <2>1, <2>2
<1>3. CASE Return(c) BY <1>2, <1>3, IdleOk, OneCpu DEF Return
<1>4. CASE ~Return(c)
  <2> DEFINE pc == CASE cpu[c].command = "ENABLE" -> "own"
                     [] cpu[c].command = "DISABLE" -> "unmonitor"
                     [] cpu[c].command = "MAKE_IMMUTABLE" -> "freeze"
             m == [cpu[c] EXCEPT !.pc = pc]
  <2>1. cpu' = [cpu EXCEPT ![c] = m]
    BY <1>4 DEF CheckImmutable, Freeze, Goto
  <2>2. cpu[c].command \in Command /\ LocalOk(cpu[c])
    BY DEF SmpInv, LocalOk, Locals
  <2>3. /\ pc \in Pc /\ (pc = "freeze" => cpu[c].command = "MAKE_IMMUTABLE")
        /\ pc # "freeze" => cpu[c].command # "MAKE_IMMUTABLE"
    BY <2>2 DEF Command, Pc
  <2>4. pc = "freeze" \/ cpu[c].entry.resource_id # UNKNOWN
    BY <1>1, <2>2, <2>3 DEF LocalOk
  <2> HIDE DEF pc
  <2>5. LocalOk(m) BY <2>3, <2>4, GotoOk
  <2> HIDE DEF m
  <2> QED BY <1>2, <2>1, <2>5, OneCpu
<1> QED BY <1>3, <1>4

LEMMA ScansStep ==
  ASSUME SmpInv, NEW c \in Cpus, ScanOwn(c) \/ ScanFree(c) \/ ScanDel(c)
  PROVE SmpInv'
<1>1. CASE ScanOwn(c) BY <1>1, ScanStep DEF ScanOwn, Pc, BeforeTest
<1>2. CASE ScanFree(c) BY <1>2, ScanStep DEF ScanFree, Pc, BeforeTest
<1>3. CASE ScanDel(c) BY <1>3, ScanStep DEF ScanDel, Pc, BeforeTest
<1> QED BY <1>1, <1>2, <1>3

LEMMA SmpStep == SmpInv /\ [SmpNext]_smpVars => SmpInv'
<1> SUFFICES ASSUME SmpInv, [SmpNext]_smpVars PROVE SmpInv' OBVIOUS
<1>1. CASE SmpNext
  BY <1>1, ReceiveStep, FlagStep, ScansStep, EntryStep, CountStep, MonitorStep
  DEF SmpNext, Handle
<1>2. CASE UNCHANGED smpVars
  BY <1>2, TableUnchanged DEF smpVars, SmpInv, LocalOk
<1> QED BY <1>1, <1>2

LEMMA SmpInvariance == SmpSpec => []SmpInv
BY SmpInitInv, SmpStep, PTL DEF SmpSpec

(* With any number of CPUs in the handlers at once, table, count and every *)
(* CPU's index and message stay well-typed: no loop leaves the table.      *)
THEOREM SmpTypeCorrect == SmpSpec => []SmpTypeOK
<1>1. SmpInv => SmpTypeOK BY DEF SmpInv, SmpTypeOK, LocalOk, Locals
<1> QED BY <1>1, SmpInvariance, PTL

(* Once the flag is set and no CPU is past its test, nothing changes.      *)
LEMMA FrozenStep ==
  ASSUME SmpInv, SmpNext, g_policy_immutable, Quiet
  PROVE UNCHANGED vars /\ Quiet'
<1>1. cpu \in [Cpus -> Locals] BY DEF SmpInv
<1>2. PICK c \in Cpus :
        \/ \E command \in Command, entry \in Entry : Receive(c, command, entry)
        \/ Handle(c)
  BY DEF SmpNext
<1>3. cpu[c].pc \in {"idle", "check", "freeze"} BY DEF Quiet
<1>4. ASSUME NEW m, m.pc \in {"idle", "check", "freeze"},
             cpu' = [cpu EXCEPT ![c] = m]
      PROVE Quiet'
  BY <1>1, <1>4 DEF Quiet
<1>5. Return(c) => Quiet'
  <2>1. Idle.pc \in {"idle", "check", "freeze"} BY DEF Idle
  <2>2. ASSUME Return(c) PROVE cpu' = [cpu EXCEPT ![c] = Idle]
    BY <2>2 DEF Return
  <2> HIDE DEF Idle
  <2> QED BY <1>4, <2>1, <2>2
<1>6. ASSUME NEW command \in Command, NEW entry \in Entry,
             Receive(c, command, entry)
      PROVE UNCHANGED vars /\ Quiet'
  <2> DEFINE to == [Idle EXCEPT !.pc = "check", !.command = command,
                                !.entry = entry]
  <2>1. to.pc \in {"idle", "check", "freeze"} BY DEF Idle
  <2>2. UNCHANGED vars BY <1>6 DEF Receive
  <2>3. cpu' = [cpu EXCEPT ![c] = to] BY <1>6 DEF Receive
  <2> HIDE DEF to
  <2>4. Quiet' BY <1>1, <2>1, <2>3 DEF Quiet
  <2> QED BY <2>2, <2>4
<1>7. CASE CheckImmutable(c)
  <2>1. Return(c) /\ UNCHANGED vars BY <1>7 DEF CheckImmutable, Refused
  <2> QED BY <1>5, <2>1
<1>8. CASE Freeze(c)
  <2>1. Return(c) /\ UNCHANGED <<tableVars, monitorVars>>
        /\ g_policy_immutable' = TRUE
    BY <1>8 DEF Freeze
  <2>2. g_policy_immutable \in BOOLEAN BY DEF SmpInv, TypeOK
  <2>3. g_policy_immutable' = g_policy_immutable BY <2>1, <2>2
  <2>4. UNCHANGED vars BY <2>1, <2>3 DEF vars, tableVars, monitorVars
  <2> QED BY <1>5, <2>1, <2>4
<1>9. CASE Handle(c) /\ ~CheckImmutable(c) /\ ~Freeze(c)
  BY <1>3, <1>9 DEF Handle, ScanOwn, Overwrite, ScanFree, Fill, WriteEntry,
                    ScanDel, Clear, LoadCount, StoreCount, Monitor, Unmonitor
<1> QED BY <1>2, <1>6, <1>7, <1>8, <1>9

(* make_immutable holds without a lock from the end of the last message    *)
(* that had passed its test, for any number of CPUs.                       *)
THEOREM FrozenForGood == SmpSpec => FrozenOnceQuiet
<1>1. SmpInv /\ [SmpNext]_smpVars
        => [g_policy_immutable /\ Quiet => UNCHANGED vars /\ Quiet']_smpVars
  BY FrozenStep
<1> QED BY <1>1, SmpInvariance, PTL DEF SmpSpec, FrozenOnceQuiet
=============================================================================
