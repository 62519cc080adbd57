---------------------------- MODULE AgentProofs ----------------------------
(***************************************************************************)
(* Proofs about Agent for any number of processes, items and directory     *)
(* names: what an item says of the policy it is in charge of, and that a   *)
(* locked item is frozen.                                                  *)
(***************************************************************************)
EXTENDS Agent, PolicyTableProofs

-----------------------------------------------------------------------------
(* The inductive invariant                                                 *)

PC == {"idle", "check", "assign", "getWrite", "getSticky", "hypercall",
       "setEnable", "setLocked"}
CfgT == [resource : Resource, enable : BOOLEAN, locked : BOOLEAN,
         write : WriteActions, sticky_value : StickyVals]
LocalsT == [pc : PC, item : Items \cup {NoItem}, attr : Attribute,
            value : BOOLEAN \cup WriteActions \cup StickyVals, msg : Entry]

AgentTypes ==
  /\ dir \in [Names -> Items \cup {NoItem}]
  /\ cfg \in [Items -> CfgT]
  /\ proc \in [Procs -> LocalsT]
  /\ sender \in [Resource -> Items \cup {NoItem}]
  /\ contended \subseteq Items

(* A store of the attribute enable sends a message, for the resource of    *)
(* its item; the other two stores assign.                                  *)
LocalsOK(p) ==
  LET me == proc[p]
  IN /\ me.value \in ValuesOf[me.attr]
     /\ me.pc = "idle" <=> me.item = NoItem
     /\ me.pc = "assign" => me.attr # "enable"
     /\ me.pc \in {"getWrite", "getSticky", "hypercall", "setEnable",
                   "setLocked"} => me.attr = "enable"
     /\ me.pc \in {"getSticky", "hypercall"} =>
          me.msg.resource_id = cfg[me.item].resource

(* An item has one directory; unless it is contended, it has one store at  *)
(* a time; it is in charge of no resource but its own.                     *)
DirInv ==
  /\ \A m, n \in Names : dir[m] = dir[n] /\ dir[m] # NoItem => m = n
  /\ \A o \in Live \ contended : \A p, q \in StoringTo(o) : p = q
  /\ \A r \in Resource : sender[r] # NoItem => cfg[sender[r]].resource = r

(* What an item knows of the policy that its message made or removed,      *)
(* before the end of the store that sent it and after.                     *)
Charge(o) ==
  LET policy == policyInTable[cfg[o].resource]
      pc(p) == proc[p].pc
  IN /\ \A p \in StoringTo(o) : pc(p) \in {"getSticky", "hypercall"} =>
          proc[p].msg.w_action = cfg[o].write
     /\ sender[cfg[o].resource] = o =>
          /\ \A p \in StoringTo(o) : pc(p) = "setEnable" =>
               (proc[p].value = TRUE <=> policy # NoPolicy)
          /\ (\A p \in StoringTo(o) : pc(p) # "setEnable") =>
               (cfg[o].enable = TRUE <=> policy # NoPolicy)
          /\ \A p \in StoringTo(o) : pc(p) \in {"setEnable", "setLocked"} =>
               (policy # NoPolicy => policy.w_action = cfg[o].write)
          /\ (\A p \in StoringTo(o) : pc(p) \notin {"setEnable", "setLocked"}) =>
               (policy # NoPolicy /\ HAS_STICKY(policy) => cfg[o].locked = TRUE)

AgentInv ==
  /\ TableInv
  /\ AgentTypes
  /\ \A p \in Procs : LocalsOK(p)
  /\ DirInv
  /\ \A o \in Live \ contended : Charge(o)

-----------------------------------------------------------------------------
(* The table's policies                                                    *)

(* A policy in the table is not NoPolicy.                                  *)
LEMMA PolicyIsPolicy ==
  ASSUME NEW e \in Entry PROVE PolicyOf(e) # NoPolicy
<1>1. PolicyOf(e) \in Policy BY DEF PolicyOf, Policy, Entry
<1> QED BY <1>1, NoPolicyAssumption

(* A resource has an entry exactly if it has a policy.                     *)
LEMMA InTableIsPolicy ==
  ASSUME TypeOK, NEW r \in Resource
  PROVE InTable(r) <=> policyInTable[r] # NoPolicy
<1>1. CASE InTable(r)
  <2>1. policy_entry[First(SlotsOf(r))] \in Entry
    BY <1>1, ScanFinds DEF InTable, TypeOK
  <2>2. policyInTable[r] = PolicyOf(policy_entry[First(SlotsOf(r))])
    BY <1>1 DEF policyInTable
  <2> QED BY <1>1, <2>1, <2>2, PolicyIsPolicy
<1>2. CASE ~InTable(r) BY <1>2 DEF policyInTable
<1> QED BY <1>1, <1>2

LEMMA TableKept ==
  ASSUME TableInv, UNCHANGED vars
  PROVE TableInv' /\ policyInTable' = policyInTable
<1>1. TableInv' BY ImmutableInv
<1>2. UNCHANGED policy_entry BY DEF vars
<1>3. policyInTable' = policyInTable
  BY <1>2 DEF policyInTable, InTable, SlotsOf, PolicyOf
<1> QED BY <1>1, <1>3

-----------------------------------------------------------------------------
(* What a step leaves as it was                                            *)

LEMMA LocalsKept ==
  ASSUME NEW q, LocalsOK(q), proc'[q] = proc[q],
         proc[q].item # NoItem =>
           cfg'[proc[q].item].resource = cfg[proc[q].item].resource
  PROVE LocalsOK(q)'
BY DEF LocalsOK

LEMMA ChargeKept ==
  ASSUME NEW o \in Items, Charge(o), cfg'[o] = cfg[o],
         StoringTo(o)' = StoringTo(o),
         \A q \in StoringTo(o) : proc'[q] = proc[q],
         sender'[cfg[o].resource] = o =>
           /\ sender[cfg[o].resource] = o
           /\ policyInTable'[cfg[o].resource] = policyInTable[cfg[o].resource]
  PROVE Charge(o)'
<1> DEFINE r == cfg[o].resource
<1>1. cfg'[o].resource = r /\ cfg'[o].write = cfg[o].write
      /\ cfg'[o].enable = cfg[o].enable /\ cfg'[o].locked = cfg[o].locked
  OBVIOUS
<1>2. \A q \in StoringTo(o) : /\ proc'[q].pc = proc[q].pc
                              /\ proc'[q].msg = proc[q].msg
                              /\ proc'[q].value = proc[q].value
  OBVIOUS
<1> HIDE DEF r
<1>3. CASE sender'[r] = o
  BY <1>1, <1>2, <1>3 DEF Charge, HAS_STICKY, r
<1>4. CASE sender'[r] # o
  BY <1>1, <1>2, <1>4 DEF Charge, r
<1> QED BY <1>3, <1>4

(* An uncontended item has no store but that of p.                         *)
LEMMA OnlyStore ==
  ASSUME AgentInv, NEW p \in Procs, proc[p].item \in Live \ contended
  PROVE StoringTo(proc[p].item) = {p}
BY DEF AgentInv, DirInv, StoringTo

(* What a step of one store has to show: its own locals and, if nobody     *)
(* else stores to it, its own item; a step leaves the other items alone    *)
(* and the policies that they are in charge of.                            *)
LEMMA StoreStep ==
  ASSUME AgentInv, NEW p \in Procs, NEW own, own = proc[p].item,
         TableInv', AgentTypes',
         UNCHANGED <<dir, contended>>,
         \A q \in Procs \ {p} : proc'[q] = proc[q],
         proc'[p].item \in {own, NoItem},
         LocalsOK(p)',
         \A o \in Items : cfg'[o].resource = cfg[o].resource,
         \A o \in Items \ {own} : cfg'[o] = cfg[o],
         \A r \in Resource :
           \/ sender'[r] \in {sender[r], NoItem}
           \/ sender'[r] = own /\ cfg[own].resource = r,
         \A r \in Resource :
           sender'[r] = sender[r] /\ sender[r] # own =>
             policyInTable'[r] = policyInTable[r],
         own \in Live \ contended => Charge(own)'
  PROVE AgentInv'
<1>1. own \in Items \cup {NoItem} BY DEF AgentInv, AgentTypes, LocalsT
<1>2. ASSUME NEW q \in Procs \ {p} PROVE LocalsOK(q)'
  <2>1. LocalsOK(q) /\ proc[q].item \in Items \cup {NoItem}
    BY DEF AgentInv, AgentTypes, LocalsT
  <2> QED BY <2>1, LocalsKept
<1>3. \A o \in Items : StoringTo(o)' \subseteq StoringTo(o)
  BY AgentAssumption DEF StoringTo
<1>4. \A o \in Items \ {own} : StoringTo(o)' = StoringTo(o)
  BY AgentAssumption DEF StoringTo
<1>5. Live' = Live /\ contended' = contended /\ Live \subseteq Items
  BY DEF Live
<1>6. DirInv'
  <2>1. \A o \in Live' \ contended' : \A q1, q2 \in StoringTo(o)' : q1 = q2
    BY <1>3, <1>5 DEF AgentInv, DirInv
  <2>2. ASSUME NEW r \in Resource, sender'[r] # NoItem
        PROVE cfg'[sender'[r]].resource = r
    <3>1. sender'[r] \in Items BY <2>2 DEF AgentTypes
    <3>2. cfg[sender'[r]].resource = r
      BY <2>2 DEF AgentInv, DirInv
    <3> QED BY <3>1, <3>2
  <2> QED BY <2>1, <2>2 DEF AgentInv, DirInv, StoringTo, Live
<1>7. ASSUME NEW o \in Live' \ contended' PROVE Charge(o)'
  <2>1. o \in Live \ contended /\ o \in Items /\ Charge(o)
    BY <1>5 DEF AgentInv
  <2>2. CASE o = own BY <2>1, <2>2
  <2>3. CASE o # own
    <3> DEFINE r == cfg[o].resource
    <3>1. cfg'[o] = cfg[o] /\ StoringTo(o)' = StoringTo(o)
      BY <1>4, <2>1, <2>3
    <3>2. \A q \in StoringTo(o) : proc'[q] = proc[q]
      BY <2>3 DEF StoringTo
    <3>3. r \in Resource BY <2>1 DEF AgentInv, AgentTypes, CfgT
    <3>4. sender'[r] = o => sender[r] = o
      BY <2>1, <2>3, <3>3, AgentAssumption
    <3>5. sender'[r] = o => policyInTable'[r] = policyInTable[r]
      BY <2>3, <3>3, <3>4
    <3> QED BY <2>1, <3>1, <3>2, <3>4, <3>5, ChargeKept
  <2> QED BY <2>2, <2>3
<1> QED BY <1>2, <1>6, <1>7 DEF AgentInv

-----------------------------------------------------------------------------
(* Stores                                                                  *)

(* The locals of p become X.                                               *)
LEMMA NewLocals ==
  ASSUME AgentTypes, NEW p \in Procs, NEW X \in LocalsT,
         proc' = [proc EXCEPT ![p] = X]
  PROVE /\ proc' \in [Procs -> LocalsT]
        /\ proc'[p] = X
        /\ \A q \in Procs \ {p} : proc'[q] = proc[q]
BY DEF AgentTypes

LEMMA IdleType == Idle \in LocalsT /\ Idle.pc = "idle" /\ Idle.item = NoItem
<1>1. FreeEntry \in Entry BY ActionAssumption DEF FreeEntry, Entry
<1> QED BY <1>1 DEF Idle, LocalsT, PC, Attribute

(* The locals of a store that runs.                                        *)
LEMMA RunningLocals ==
  ASSUME AgentInv, NEW p \in Procs, proc[p].pc # "idle"
  PROVE /\ proc[p] \in LocalsT
        /\ proc[p].item \in Items
        /\ cfg[proc[p].item] \in CfgT
        /\ LocalsOK(p)
BY DEF AgentInv, AgentTypes, LocalsT, LocalsOK

(* A store that ends: its locals are gone.                                 *)
LEMMA EndedLocals ==
  ASSUME AgentInv, NEW p \in Procs, Return(p)
  PROVE /\ proc' \in [Procs -> LocalsT]
        /\ proc'[p] = Idle
        /\ \A q \in Procs \ {p} : proc'[q] = proc[q]
        /\ LocalsOK(p)'
<1>1. /\ proc' \in [Procs -> LocalsT] /\ proc'[p] = Idle
      /\ \A q \in Procs \ {p} : proc'[q] = proc[q]
  BY NewLocals, IdleType DEF Return, AgentInv
<1>2. FALSE \in ValuesOf["enable"] BY DEF ValuesOf
<1>3. Idle.attr = "enable" /\ Idle.value = FALSE /\ Idle.pc = "idle"
      /\ Idle.item = NoItem
  BY DEF Idle
<1>4. LocalsOK(p)' BY <1>1, <1>2, <1>3 DEF LocalsOK
<1> QED BY <1>1, <1>4

(* A store that goes on: its locals are the old ones, but for pc.          *)
LEMMA GoneOnLocals ==
  ASSUME AgentInv, NEW p \in Procs, NEW pc \in PC, Goto(p, pc)
  PROVE /\ proc' \in [Procs -> LocalsT]
        /\ proc'[p].pc = pc /\ proc'[p].item = proc[p].item
        /\ proc'[p].attr = proc[p].attr /\ proc'[p].value = proc[p].value
        /\ proc'[p].msg = proc[p].msg
        /\ \A q \in Procs \ {p} : proc'[q] = proc[q]
<1> DEFINE X == [proc[p] EXCEPT !.pc = pc]
<1>1. proc[p] \in LocalsT BY DEF AgentInv, AgentTypes
<1>2. /\ X \in LocalsT /\ X.pc = pc /\ X.item = proc[p].item
      /\ X.attr = proc[p].attr /\ X.value = proc[p].value
      /\ X.msg = proc[p].msg
  BY <1>1 DEF LocalsT
<1>3. proc' = [proc EXCEPT ![p] = X] BY DEF Goto
<1> HIDE DEF X
<1> QED BY <1>2, <1>3, NewLocals DEF AgentInv

(* The item has a store that nobody disturbs.                              *)
LEMMA StoresToOwn ==
  ASSUME AgentInv, NEW p \in Procs, NEW own, own = proc[p].item,
         own \in Live \ contended,
         \A q \in Procs \ {p} : proc'[q] = proc[q]
  PROVE /\ Charge(own)
        /\ StoringTo(own) = {p}
        /\ StoringTo(own)' = IF proc'[p].item = own THEN {p} ELSE {}
<1>1. StoringTo(own) = {p} BY OnlyStore
<1> QED BY <1>1 DEF StoringTo, AgentInv

LEMMA CheckStep ==
  ASSUME AgentInv, NEW p \in Procs, CheckLocked(p) PROVE AgentInv'
<1>1. /\ UNCHANGED <<vars, dir, cfg, sender, contended>>
      /\ proc[p].pc = "check"
  BY DEF CheckLocked, history
<1>2. TableInv' /\ policyInTable' = policyInTable
  BY <1>1, TableKept DEF AgentInv
<1> DEFINE next == IF proc[p].attr = "enable" THEN "getWrite" ELSE "assign"
<1>3. PICK own : own = proc[p].item OBVIOUS
<1>4. /\ own \in Items /\ LocalsOK(p) /\ own # NoItem
      /\ proc[p].attr \in Attribute
  BY <1>1, <1>3, RunningLocals, AgentAssumption DEF LocalsT
<1>5. /\ proc' \in [Procs -> LocalsT]
      /\ \A q \in Procs \ {p} : proc'[q] = proc[q]
      /\ proc'[p].item \in {own, NoItem}
      /\ LocalsOK(p)'
      /\ proc'[p].pc \in {"idle", "getWrite", "assign"}
  <2>1. CASE Return(p) BY <2>1, EndedLocals, IdleType
  <2>2. CASE Goto(p, next)
    <3>1. next \in {"getWrite", "assign"} /\ next \in PC BY DEF PC
    <3>2. LocalsOK(p)'
      BY <1>1, <1>3, <1>4, <2>2, <3>1, GoneOnLocals DEF LocalsOK
    <3> HIDE DEF next
    <3> QED BY <1>3, <2>2, <3>1, <3>2, GoneOnLocals
  <2> QED BY <2>1, <2>2 DEF CheckLocked
<1>6. AgentTypes' BY <1>1, <1>5 DEF AgentInv, AgentTypes
<1>7. ASSUME own \in Live \ contended PROVE Charge(own)'
  <2>1. /\ Charge(own) /\ StoringTo(own) = {p}
        /\ StoringTo(own)' \subseteq {p}
    BY <1>3, <1>5, <1>7, StoresToOwn
  <2> QED BY <1>1, <1>2, <1>5, <2>1 DEF Charge, HAS_STICKY
<1> QED BY <1>1, <1>2, <1>3, <1>5, <1>6, <1>7, StoreStep

(* store_write and store_sticky_value: nothing that an item knows of its   *)
(* policy depends on the attributes that wait for the next message.        *)
LEMMA AssignStep ==
  ASSUME AgentInv, NEW p \in Procs, Assign(p) PROVE AgentInv'
<1>1. PICK own : own = proc[p].item OBVIOUS
<1>2. /\ UNCHANGED <<vars, dir, sender, contended>>
      /\ proc[p].pc = "assign" /\ Return(p)
      /\ cfg' = [cfg EXCEPT ![own][proc[p].attr] = proc[p].value]
  BY <1>1 DEF Assign, history
<1>3. TableInv' /\ policyInTable' = policyInTable
  BY <1>2, TableKept DEF AgentInv
<1>4. /\ own \in Items /\ cfg[own] \in CfgT
      /\ proc[p].attr \in {"write", "sticky_value"}
      /\ proc[p].value \in ValuesOf[proc[p].attr]
  BY <1>1, <1>2, RunningLocals DEF LocalsT, Attribute, LocalsOK
<1>5. /\ proc' \in [Procs -> LocalsT] /\ proc'[p] = Idle
      /\ \A q \in Procs \ {p} : proc'[q] = proc[q]
      /\ LocalsOK(p)'
  BY <1>2, EndedLocals
<1>6. /\ cfg' \in [Items -> CfgT]
      /\ cfg'[own].resource = cfg[own].resource
      /\ cfg'[own].enable = cfg[own].enable
      /\ cfg'[own].locked = cfg[own].locked
      /\ \A o \in Items \ {own} : cfg'[o] = cfg[o]
  <2>1. cfg \in [Items -> CfgT] BY DEF AgentInv, AgentTypes
  <2> DEFINE X == [cfg[own] EXCEPT ![proc[p].attr] = proc[p].value]
  <2>2. /\ X \in CfgT /\ X.resource = cfg[own].resource
        /\ X.enable = cfg[own].enable /\ X.locked = cfg[own].locked
    <3>1. CASE proc[p].attr = "write" BY <1>4, <3>1 DEF CfgT, ValuesOf
    <3>2. CASE proc[p].attr = "sticky_value"
      BY <1>4, <3>2 DEF CfgT, ValuesOf
    <3> QED BY <1>4, <3>1, <3>2
  <2>3. cfg' = [cfg EXCEPT ![own] = X] BY <1>2
  <2> HIDE DEF X
  <2> QED BY <1>4, <2>1, <2>2, <2>3
<1>7. AgentTypes' BY <1>2, <1>5, <1>6 DEF AgentInv, AgentTypes
<1>8. ASSUME own \in Live \ contended PROVE Charge(own)'
  <2>1. /\ Charge(own) /\ StoringTo(own) = {p} /\ StoringTo(own)' = {}
    BY <1>1, <1>4, <1>5, <1>8, StoresToOwn, IdleType, AgentAssumption
  <2> QED BY <1>1, <1>2, <1>3, <1>6, <2>1 DEF Charge, HAS_STICKY
<1>9. \A o \in Items : cfg'[o].resource = cfg[o].resource BY <1>6
<1> QED BY <1>1, <1>2, <1>3, <1>5, <1>6, <1>7, <1>8, <1>9, StoreStep, IdleType

(* The message gets the write actions that the item has.                   *)
LEMMA GetWriteStep ==
  ASSUME AgentInv, NEW p \in Procs, GetWrite(p) PROVE AgentInv'
<1>1. PICK own : own = proc[p].item OBVIOUS
<1>2. /\ UNCHANGED <<vars, dir, cfg, sender, contended>>
      /\ proc[p].pc = "getWrite"
  BY DEF GetWrite, history
<1>3. TableInv' /\ policyInTable' = policyInTable
  BY <1>2, TableKept DEF AgentInv
<1>4. /\ own \in Items /\ cfg[own] \in CfgT /\ proc[p] \in LocalsT
      /\ LocalsOK(p)
  BY <1>1, <1>2, RunningLocals
<1> DEFINE msg == [proc[p].msg EXCEPT !.resource_id = cfg[own].resource,
                                      !.w_action = cfg[own].write]
           X == [proc[p] EXCEPT !.pc = "getSticky", !.msg = msg]
<1>5. /\ msg \in Entry /\ msg.resource_id = cfg[own].resource
      /\ msg.w_action = cfg[own].write
  BY <1>4 DEF LocalsT, Entry, CfgT
<1>6. proc' = [proc EXCEPT ![p] = X]
  BY <1>1 DEF GetWrite
<1> HIDE DEF msg
<1>7. /\ X \in LocalsT /\ X.pc = "getSticky" /\ X.item = own
      /\ X.attr = proc[p].attr /\ X.value = proc[p].value /\ X.msg = msg
  BY <1>1, <1>4, <1>5 DEF LocalsT, PC
<1> HIDE DEF X
<1>8. /\ proc' \in [Procs -> LocalsT] /\ proc'[p] = X
      /\ \A q \in Procs \ {p} : proc'[q] = proc[q]
  BY <1>6, <1>7, NewLocals DEF AgentInv
<1>9. LocalsOK(p)'
  BY <1>1, <1>2, <1>4, <1>5, <1>7, <1>8, AgentAssumption DEF LocalsOK
<1>10. AgentTypes' BY <1>2, <1>8 DEF AgentInv, AgentTypes
<1>11. ASSUME own \in Live \ contended PROVE Charge(own)'
  <2>1. /\ Charge(own) /\ StoringTo(own) = {p} /\ StoringTo(own)' = {p}
    BY <1>1, <1>7, <1>8, <1>11, StoresToOwn
  <2> QED BY <1>1, <1>2, <1>3, <1>5, <1>7, <1>8, <2>1 DEF Charge, HAS_STICKY
<1> QED BY <1>1, <1>2, <1>3, <1>7, <1>8, <1>9, <1>10, <1>11, StoreStep

LEMMA GetStickyStep ==
  ASSUME AgentInv, NEW p \in Procs, GetSticky(p) PROVE AgentInv'
<1>1. PICK own : own = proc[p].item OBVIOUS
<1>2. /\ UNCHANGED <<vars, dir, cfg, sender, contended>>
      /\ proc[p].pc = "getSticky"
  BY DEF GetSticky, history
<1>3. TableInv' /\ policyInTable' = policyInTable
  BY <1>2, TableKept DEF AgentInv
<1>4. /\ own \in Items /\ cfg[own] \in CfgT /\ proc[p] \in LocalsT
      /\ LocalsOK(p)
  BY <1>1, <1>2, RunningLocals
<1> DEFINE msg == [proc[p].msg EXCEPT !.sticky_val = cfg[own].sticky_value]
           X == [proc[p] EXCEPT !.pc = "hypercall", !.msg = msg]
<1>5. /\ msg \in Entry /\ msg.resource_id = proc[p].msg.resource_id
      /\ msg.w_action = proc[p].msg.w_action
  BY <1>4 DEF LocalsT, Entry, CfgT
<1>6. proc' = [proc EXCEPT ![p] = X]
  BY <1>1 DEF GetSticky
<1> HIDE DEF msg
<1>7. /\ X \in LocalsT /\ X.pc = "hypercall" /\ X.item = own
      /\ X.attr = proc[p].attr /\ X.value = proc[p].value /\ X.msg = msg
  BY <1>1, <1>4, <1>5 DEF LocalsT, PC
<1> HIDE DEF X
<1>8. /\ proc' \in [Procs -> LocalsT] /\ proc'[p] = X
      /\ \A q \in Procs \ {p} : proc'[q] = proc[q]
  BY <1>6, <1>7, NewLocals DEF AgentInv
<1>9. LocalsOK(p)'
  BY <1>1, <1>2, <1>4, <1>5, <1>7, <1>8, AgentAssumption DEF LocalsOK
<1>10. AgentTypes' BY <1>2, <1>8 DEF AgentInv, AgentTypes
<1>11. ASSUME own \in Live \ contended PROVE Charge(own)'
  <2>1. /\ Charge(own) /\ StoringTo(own) = {p} /\ StoringTo(own)' = {p}
    BY <1>1, <1>7, <1>8, <1>11, StoresToOwn
  <2> QED BY <1>1, <1>2, <1>3, <1>5, <1>7, <1>8, <2>1 DEF Charge, HAS_STICKY
<1> QED BY <1>1, <1>2, <1>3, <1>7, <1>8, <1>9, <1>10, <1>11, StoreStep

(* A hypercall that fails ends the store; what the item knows of its       *)
(* policy is what it knew before.                                          *)
LEMMA HypercallFailsStep ==
  ASSUME AgentInv, NEW p \in Procs, HypercallFails(p) PROVE AgentInv'
<1>1. PICK own : own = proc[p].item OBVIOUS
<1>2. /\ UNCHANGED <<vars, dir, cfg, sender, contended>>
      /\ proc[p].pc = "hypercall" /\ Return(p)
  BY DEF HypercallFails, AfterFailure, history
<1>3. TableInv' /\ policyInTable' = policyInTable
  BY <1>2, TableKept DEF AgentInv
<1>4. /\ proc' \in [Procs -> LocalsT] /\ proc'[p] = Idle
      /\ \A q \in Procs \ {p} : proc'[q] = proc[q]
      /\ LocalsOK(p)' /\ own \in Items
  BY <1>1, <1>2, EndedLocals, RunningLocals
<1>5. AgentTypes' BY <1>2, <1>4 DEF AgentInv, AgentTypes
<1>6. ASSUME own \in Live \ contended PROVE Charge(own)'
  <2>1. /\ Charge(own) /\ StoringTo(own) = {p} /\ StoringTo(own)' = {}
    BY <1>1, <1>4, <1>6, StoresToOwn, IdleType, AgentAssumption
  <2> QED BY <1>1, <1>2, <1>3, <2>1 DEF Charge, HAS_STICKY
<1> QED BY <1>1, <1>2, <1>3, <1>4, <1>5, <1>6, StoreStep, IdleType

(* After the hypercall the message is gone.                                *)
LEMMA SentLocals ==
  ASSUME AgentInv, NEW p \in Procs, proc[p].pc = "hypercall", AfterSuccess(p)
  PROVE /\ proc' \in [Procs -> LocalsT]
        /\ proc'[p].pc = "setEnable" /\ proc'[p].item = proc[p].item
        /\ proc'[p].value = proc[p].value
        /\ \A q \in Procs \ {p} : proc'[q] = proc[q]
        /\ LocalsOK(p)'
<1> DEFINE X == [proc[p] EXCEPT !.pc = "setEnable", !.msg = FreeEntry]
<1>1. proc[p] \in LocalsT /\ LocalsOK(p) /\ proc[p].item \in Items
  BY RunningLocals
<1>2. FreeEntry \in Entry BY ActionAssumption DEF FreeEntry, Entry
<1>3. /\ X \in LocalsT /\ X.pc = "setEnable" /\ X.item = proc[p].item
      /\ X.attr = proc[p].attr /\ X.value = proc[p].value
  BY <1>1, <1>2 DEF LocalsT, PC
<1>4. proc' = [proc EXCEPT ![p] = X] BY DEF AfterSuccess
<1> HIDE DEF X
<1>5. /\ proc' \in [Procs -> LocalsT] /\ proc'[p] = X
      /\ \A q \in Procs \ {p} : proc'[q] = proc[q]
  BY <1>3, <1>4, NewLocals DEF AgentInv
<1>6. LocalsOK(p)' BY <1>1, <1>3, <1>5, AgentAssumption DEF LocalsOK
<1> QED BY <1>3, <1>5, <1>6

(* An item whose message was ignored is in charge of nothing.              *)
LEMMA IgnoredStep ==
  ASSUME AgentInv, NEW p \in Procs, MessageIgnored(p) PROVE AgentInv'
<1>1. PICK own : own = proc[p].item OBVIOUS
<1> DEFINE r == proc[p].msg.resource_id
<1>2. /\ UNCHANGED <<vars, dir, cfg, contended>>
      /\ proc[p].pc = "hypercall" /\ AfterSuccess(p)
      /\ sender' = [sender EXCEPT ![r] = IF @ = own THEN NoItem ELSE @]
  BY <1>1 DEF MessageIgnored
<1>3. TableInv' /\ policyInTable' = policyInTable
  BY <1>2, TableKept DEF AgentInv
<1>4. /\ own \in Items /\ own # NoItem /\ r = cfg[own].resource
      /\ r \in Resource
  BY <1>1, <1>2, RunningLocals, AgentAssumption DEF LocalsOK, CfgT
<1>5. /\ proc' \in [Procs -> LocalsT]
      /\ proc'[p].pc = "setEnable" /\ proc'[p].item = own
      /\ \A q \in Procs \ {p} : proc'[q] = proc[q]
      /\ LocalsOK(p)'
  BY <1>1, <1>2, SentLocals
<1> HIDE DEF r
<1>6. /\ sender' \in [Resource -> Items \cup {NoItem}]
      /\ sender'[r] # own
      /\ \A s \in Resource : sender'[s] \in {sender[s], NoItem}
  BY <1>2, <1>4 DEF AgentInv, AgentTypes
<1>7. AgentTypes' BY <1>2, <1>5, <1>6 DEF AgentInv, AgentTypes
<1>8. ASSUME own \in Live \ contended PROVE Charge(own)'
  <2>1. StoringTo(own)' = {p} BY <1>1, <1>5, <1>8, StoresToOwn
  <2>2. sender'[cfg'[own].resource] # own BY <1>2, <1>4, <1>6
  <2> QED BY <1>5, <2>1, <2>2 DEF Charge
<1> QED BY <1>1, <1>2, <1>3, <1>5, <1>6, <1>7, <1>8, StoreStep

(* What the handler makes of the message: the resource has the policy that *)
(* was sent, or none.                                                      *)
LEMMA HandledPolicy ==
  ASSUME AgentInv, NEW p \in Procs, MessageHandled(p),
         NEW r, r = proc[p].msg.resource_id, r \in Resource
  PROVE /\ TableInv'
        /\ proc[p].value = TRUE =>
             policyInTable'[r] = PolicyOf(proc[p].msg)
        /\ proc[p].value # TRUE => policyInTable'[r] = NoPolicy
        /\ \A s \in Resource \ {r} : policyInTable'[s] = policyInTable[s]
<1>1. proc[p].msg \in Entry /\ TableInv
  BY DEF AgentInv, AgentTypes, LocalsT
<1>2. policyInTable = [s \in Resource |-> policyInTable[s]]
  BY DEF policyInTable
<1>3. CASE proc[p].value = TRUE
  <2>1. handle_msg_policy_enable(proc[p].msg) BY <1>3 DEF MessageHandled
  <2>2. TableInv' BY <1>1, <2>1, EnableInv
  <2>3. policyInTable' = [policyInTable EXCEPT ![r] = PolicyOf(proc[p].msg)]
    BY <1>1, <2>1, EnableImplements DEF Store!Enable
  <2> QED BY <1>2, <1>3, <2>2, <2>3
<1>4. CASE proc[p].value # TRUE
  <2>1. handle_msg_policy_disable(r) BY <1>4 DEF MessageHandled
  <2>2. TableInv' BY <1>1, <2>1, DisableInv
  <2>3. policyInTable' = [policyInTable EXCEPT ![r] = NoPolicy]
    BY <1>1, <2>1, DisableImplements DEF Store!Disable
  <2> QED BY <1>2, <1>4, <2>2, <2>3
<1> QED BY <1>3, <1>4

(* An item whose message was handled is in charge, and will say what the   *)
(* handler does.                                                           *)
LEMMA HandledStep ==
  ASSUME AgentInv, NEW p \in Procs, MessageHandled(p) PROVE AgentInv'
<1>1. PICK own : own = proc[p].item OBVIOUS
<1>2. PICK r : r = proc[p].msg.resource_id OBVIOUS
<1>3. /\ UNCHANGED <<dir, cfg, contended>>
      /\ proc[p].pc = "hypercall" /\ AfterSuccess(p)
      /\ sender' = [sender EXCEPT ![r] = own]
  BY <1>1, <1>2 DEF MessageHandled
<1>4. /\ own \in Items /\ own # NoItem /\ r = cfg[own].resource
      /\ r \in Resource /\ proc[p].msg \in Entry
  BY <1>1, <1>2, <1>3, RunningLocals, AgentAssumption
  DEF LocalsOK, CfgT, LocalsT
<1>5. /\ proc' \in [Procs -> LocalsT]
      /\ proc'[p].pc = "setEnable" /\ proc'[p].item = own
      /\ proc'[p].value = proc[p].value
      /\ \A q \in Procs \ {p} : proc'[q] = proc[q]
      /\ LocalsOK(p)'
  BY <1>1, <1>3, SentLocals
<1>6. /\ TableInv'
      /\ proc[p].value = TRUE => policyInTable'[r] = PolicyOf(proc[p].msg)
      /\ proc[p].value # TRUE => policyInTable'[r] = NoPolicy
      /\ \A s \in Resource \ {r} : policyInTable'[s] = policyInTable[s]
  BY <1>2, <1>4, HandledPolicy
<1>7. /\ sender' \in [Resource -> Items \cup {NoItem}]
      /\ sender'[r] = own
      /\ \A s \in Resource \ {r} : sender'[s] = sender[s]
  BY <1>3, <1>4 DEF AgentInv, AgentTypes
<1>8. AgentTypes' BY <1>3, <1>5, <1>7 DEF AgentInv, AgentTypes
<1>9. ASSUME own \in Live \ contended PROVE Charge(own)'
  <2>1. Charge(own) /\ StoringTo(own) = {p} /\ StoringTo(own)' = {p}
    BY <1>1, <1>5, <1>9, StoresToOwn
  <2>2. proc[p].msg.w_action = cfg[own].write
    BY <1>3, <2>1 DEF Charge
  <2>3. proc[p].value = TRUE <=> policyInTable'[r] # NoPolicy
    BY <1>4, <1>6, PolicyIsPolicy
  <2>4. policyInTable'[r] # NoPolicy =>
          policyInTable'[r].w_action = cfg[own].write
    <3>1. PolicyOf(proc[p].msg).w_action = cfg[own].write
      BY <2>2 DEF PolicyOf
    <3>2. CASE proc[p].value = TRUE BY <1>6, <3>1, <3>2
    <3>3. CASE proc[p].value # TRUE BY <1>6, <3>3
    <3> QED BY <3>2, <3>3
  <2> QED BY <1>3, <1>4, <1>5, <2>1, <2>3, <2>4 DEF Charge
<1>10. \A s \in Resource :
         \/ sender'[s] \in {sender[s], NoItem}
         \/ sender'[s] = own /\ cfg[own].resource = s
  BY <1>4, <1>7
<1>11. \A s \in Resource :
         sender'[s] = sender[s] /\ sender[s] # own =>
           policyInTable'[s] = policyInTable[s]
  BY <1>6, <1>7
<1> QED BY <1>1, <1>3, <1>5, <1>6, <1>8, <1>9, <1>10, <1>11, StoreStep

LEMMA SetEnableStep ==
  ASSUME AgentInv, NEW p \in Procs, SetEnable(p) PROVE AgentInv'
<1>1. PICK own : own = proc[p].item OBVIOUS
<1>2. /\ UNCHANGED <<vars, dir, sender, contended>>
      /\ proc[p].pc = "setEnable" /\ Goto(p, "setLocked")
      /\ cfg' = [cfg EXCEPT ![own].enable = proc[p].value]
  BY <1>1 DEF SetEnable, history
<1>3. TableInv' /\ policyInTable' = policyInTable
  BY <1>2, TableKept DEF AgentInv
<1>4. /\ own \in Items /\ cfg[own] \in CfgT /\ LocalsOK(p) /\ own # NoItem
      /\ cfg \in [Items -> CfgT]
  BY <1>1, <1>2, RunningLocals, AgentAssumption DEF AgentInv, AgentTypes
<1>5. proc[p].value \in BOOLEAN
  BY <1>2, <1>4 DEF LocalsOK, ValuesOf
<1>6. /\ proc' \in [Procs -> LocalsT]
      /\ proc'[p].pc = "setLocked" /\ proc'[p].item = own
      /\ proc'[p].attr = proc[p].attr /\ proc'[p].value = proc[p].value
      /\ \A q \in Procs \ {p} : proc'[q] = proc[q]
  BY <1>1, <1>2, GoneOnLocals DEF PC
<1>7. LocalsOK(p)' BY <1>1, <1>2, <1>4, <1>6 DEF LocalsOK
<1>8. /\ cfg' \in [Items -> CfgT]
      /\ cfg'[own].resource = cfg[own].resource
      /\ cfg'[own].enable = proc[p].value
      /\ cfg'[own].locked = cfg[own].locked
      /\ cfg'[own].write = cfg[own].write
      /\ \A o \in Items \ {own} : cfg'[o] = cfg[o]
  BY <1>2, <1>4, <1>5 DEF CfgT
<1>9. AgentTypes' BY <1>2, <1>6, <1>8 DEF AgentInv, AgentTypes
<1>10. ASSUME own \in Live \ contended PROVE Charge(own)'
  <2>1. Charge(own) /\ StoringTo(own) = {p} /\ StoringTo(own)' = {p}
    BY <1>1, <1>6, <1>10, StoresToOwn
  <2> QED BY <1>2, <1>3, <1>6, <1>8, <2>1 DEF Charge
<1>11. \A o \in Items : cfg'[o].resource = cfg[o].resource BY <1>8
<1> QED BY <1>1, <1>2, <1>3, <1>6, <1>7, <1>8, <1>9, <1>10, <1>11, StoreStep

(* The lock is that of the message: write has not changed since.           *)
LEMMA SetLockedStep ==
  ASSUME AgentInv, NEW p \in Procs, SetLocked(p) PROVE AgentInv'
<1>1. PICK own : own = proc[p].item OBVIOUS
<1> DEFINE lock == cfg[own].locked \/ Sticky(cfg[own])
<1>2. /\ UNCHANGED <<vars, dir, sender, contended>>
      /\ proc[p].pc = "setLocked" /\ Return(p)
      /\ cfg' = [cfg EXCEPT ![own].locked = lock]
  BY <1>1 DEF SetLocked, history
<1>3. TableInv' /\ policyInTable' = policyInTable
  BY <1>2, TableKept DEF AgentInv
<1>4. /\ own \in Items /\ cfg[own] \in CfgT /\ own # NoItem
      /\ cfg \in [Items -> CfgT]
  BY <1>1, <1>2, RunningLocals, AgentAssumption DEF AgentInv, AgentTypes
<1>5. /\ proc' \in [Procs -> LocalsT] /\ proc'[p] = Idle
      /\ \A q \in Procs \ {p} : proc'[q] = proc[q]
      /\ LocalsOK(p)'
  BY <1>2, EndedLocals
<1>6. lock \in BOOLEAN OBVIOUS
<1>7. Sticky(cfg[own]) => lock = TRUE OBVIOUS
<1> HIDE DEF lock
<1>8. /\ cfg' \in [Items -> CfgT]
      /\ cfg'[own].resource = cfg[own].resource
      /\ cfg'[own].enable = cfg[own].enable
      /\ cfg'[own].locked = lock
      /\ cfg'[own].write = cfg[own].write
      /\ \A o \in Items \ {own} : cfg'[o] = cfg[o]
  BY <1>2, <1>4, <1>6 DEF CfgT
<1>9. AgentTypes' BY <1>2, <1>5, <1>8 DEF AgentInv, AgentTypes
<1>10. ASSUME own \in Live \ contended PROVE Charge(own)'
  <2>1. Charge(own) /\ StoringTo(own) = {p} /\ StoringTo(own)' = {}
    BY <1>1, <1>4, <1>5, <1>10, StoresToOwn, IdleType
  <2> QED BY <1>2, <1>3, <1>7, <1>8, <2>1 DEF Charge, HAS_STICKY, Sticky
<1>11. \A o \in Items : cfg'[o].resource = cfg[o].resource BY <1>8
<1> QED
  BY <1>1, <1>2, <1>3, <1>5, <1>8, <1>9, <1>10, <1>11, StoreStep, IdleType

LEMMA StoreOpsStep ==
  ASSUME AgentInv, NEW p \in Procs, store(p) PROVE AgentInv'
BY CheckStep, AssignStep, GetWriteStep, GetStickyStep, HypercallFailsStep,
   IgnoredStep, HandledStep, SetEnableStep, SetLockedStep DEF store

-----------------------------------------------------------------------------
(* Directories, new stores and the debug sysctl                            *)

(* A new item is in charge of nothing and nobody stores to it.             *)
LEMMA MakeStep ==
  ASSUME AgentInv, NEW n \in Names, NEW new \in Items, make_item(n, new)
  PROVE AgentInv'
<1>1. /\ UNCHANGED <<vars, proc, contended>>
      /\ dir[n] = NoItem /\ new \notin Live /\ StoringTo(new) = {}
      /\ dir' = [dir EXCEPT ![n] = new]
      /\ cfg' = [cfg EXCEPT ![new] = NewCfg(ResourceOf[n])]
      /\ sender' = [r \in Resource |->
                      IF sender[r] = new THEN NoItem ELSE sender[r]]
  BY DEF make_item
<1>2. TableInv' /\ policyInTable' = policyInTable
  BY <1>1, TableKept DEF AgentInv
<1>3. AgentTypes BY DEF AgentInv
<1>4. NewCfg(ResourceOf[n]) \in CfgT
  BY AgentAssumption, ActionAssumption DEF NewCfg, CfgT
<1>5. AgentTypes' BY <1>1, <1>3, <1>4 DEF AgentTypes
<1>6. \A o \in Items \ {new} : cfg'[o] = cfg[o]
  BY <1>1, <1>3 DEF AgentTypes
<1>7. /\ \A r \in Resource : sender'[r] # new
      /\ \A r \in Resource : sender'[r] # NoItem => sender'[r] = sender[r]
  BY <1>1, AgentAssumption
<1>8. ASSUME NEW q \in Procs PROVE LocalsOK(q)'
  <2>1. proc[q].item \in Items \cup {NoItem} /\ proc[q].item # new
    BY <1>1, <1>3 DEF AgentTypes, LocalsT, StoringTo
  <2> QED BY <1>1, <1>6, <2>1, LocalsKept DEF AgentInv
<1>9. /\ Live' = Live \cup {new} /\ Live \subseteq Items
      /\ \A o : StoringTo(o)' = StoringTo(o)
  BY <1>1, <1>3, AgentAssumption DEF Live, StoringTo, AgentTypes
<1>10. DirInv'
  <2>1. \A k, m \in Names : dir'[k] = dir'[m] /\ dir'[k] # NoItem => k = m
    BY <1>1, <1>3 DEF AgentInv, DirInv, AgentTypes, Live
  <2>2. \A o \in Live' \ contended' : \A p, q \in StoringTo(o)' : p = q
    BY <1>1, <1>9 DEF AgentInv, DirInv
  <2>3. ASSUME NEW r \in Resource, sender'[r] # NoItem
        PROVE cfg'[sender'[r]].resource = r
    <3>1. sender'[r] = sender[r] /\ sender[r] \in Items \ {new}
      BY <1>3, <1>7, <2>3 DEF AgentTypes
    <3> QED BY <1>6, <2>3, <3>1 DEF AgentInv, DirInv
  <2> QED BY <2>1, <2>2, <2>3 DEF DirInv
<1>11. ASSUME NEW o \in Live' \ contended' PROVE Charge(o)'
  <2>1. CASE o = new
    <3>1. StoringTo(new)' = {} BY <1>1, <1>9
    <3>2. cfg'[new].resource \in Resource
      BY <1>5 DEF AgentTypes, CfgT
    <3> QED BY <1>7, <2>1, <3>1, <3>2 DEF Charge
  <2>2. CASE o # new
    <3>1. o \in Live \ contended /\ o \in Items \ {new} /\ Charge(o)
      BY <1>1, <1>9, <2>2 DEF AgentInv
    <3>2. cfg[o].resource \in Resource BY <1>3, <3>1 DEF AgentTypes, CfgT
    <3>3. sender'[cfg[o].resource] = o => sender[cfg[o].resource] = o
      BY <1>7, <3>1, <3>2, AgentAssumption
    <3> QED BY <1>1, <1>2, <1>6, <1>9, <3>1, <3>3, ChargeKept
  <2> QED BY <2>1, <2>2
<1> QED BY <1>2, <1>5, <1>8, <1>10, <1>11 DEF AgentInv

(* Where the step leaves tables and items alone.                           *)
LEMMA RemoveStep ==
  ASSUME AgentInv, NEW n \in Names, remove_item(n) PROVE AgentInv'
<1>1. PICK old : old = dir[n] OBVIOUS
<1>2. /\ UNCHANGED <<vars, cfg, proc, sender>>
      /\ old # NoItem
      /\ dir' = [dir EXCEPT ![n] = NoItem]
      /\ contended' = contended \ {old}
  BY <1>1 DEF remove_item
<1>3. TableInv' /\ policyInTable' = policyInTable
  BY <1>2, TableKept DEF AgentInv
<1>4. AgentTypes BY DEF AgentInv
<1>5. AgentTypes' BY <1>2, <1>4 DEF AgentTypes
<1>6. \A q \in Procs : LocalsOK(q)' BY <1>2 DEF AgentInv, LocalsOK
<1>7. \A k \in Names : dir'[k] = IF k = n THEN NoItem ELSE dir[k]
  BY <1>2, <1>4 DEF AgentTypes
<1>8. /\ Live' = Live \ {old} /\ Live \subseteq Items
      /\ \A o : StoringTo(o)' = StoringTo(o)
  BY <1>1, <1>2, <1>7, AgentAssumption
  DEF Live, StoringTo, AgentInv, DirInv
<1>9. Live' \ contended' \subseteq Live \ contended BY <1>2, <1>8
<1>10. DirInv'
  <2>1. \A k, m \in Names : dir'[k] = dir'[m] /\ dir'[k] # NoItem => k = m
    BY <1>7 DEF AgentInv, DirInv
  <2>2. \A o \in Live' \ contended' : \A p, q \in StoringTo(o)' : p = q
    BY <1>8, <1>9 DEF AgentInv, DirInv
  <2> QED BY <1>2, <2>1, <2>2 DEF AgentInv, DirInv
<1>11. ASSUME NEW o \in Live' \ contended' PROVE Charge(o)'
  <2>1. o \in Items /\ Charge(o) BY <1>8, <1>9 DEF AgentInv
  <2> QED BY <1>2, <1>3, <1>8, <2>1, ChargeKept
<1> QED BY <1>3, <1>5, <1>6, <1>10, <1>11 DEF AgentInv

(* A new store to an item that has one makes the item contended.           *)
LEMMA StoreAttributeStep ==
  ASSUME AgentInv, NEW p \in Procs, NEW n \in Names, NEW attr \in Attribute,
         NEW value \in ValuesOf[attr], store_attribute(p, n, attr, value)
  PROVE AgentInv'
<1>1. PICK own : own = dir[n] OBVIOUS
<1> DEFINE X == [Idle EXCEPT !.pc = "check", !.item = own, !.attr = attr,
                             !.value = value]
<1>2. /\ UNCHANGED <<vars, dir, cfg, sender>>
      /\ proc[p].pc = "idle" /\ own # NoItem
      /\ proc' = [proc EXCEPT ![p] = X]
      /\ contended' = IF StoringTo(own) = {} THEN contended
                      ELSE contended \cup {own}
  BY <1>1 DEF store_attribute
<1>3. TableInv' /\ policyInTable' = policyInTable
  BY <1>2, TableKept DEF AgentInv
<1>4. AgentTypes BY DEF AgentInv
<1>5. own \in Items /\ own \in Live
  BY <1>1, <1>2, <1>4 DEF AgentTypes, Live
<1>6. /\ X \in LocalsT /\ X.pc = "check" /\ X.item = own
      /\ X.attr = attr /\ X.value = value
  <2>1. value \in BOOLEAN \cup WriteActions \cup StickyVals
    <3>1. CASE attr = "enable" BY <3>1 DEF ValuesOf
    <3>2. CASE attr = "write" BY <3>2 DEF ValuesOf
    <3>3. CASE attr = "sticky_value" BY <3>3 DEF ValuesOf
    <3> QED BY <3>1, <3>2, <3>3 DEF Attribute
  <2> QED BY <1>5, <2>1, IdleType DEF LocalsT, PC
<1> HIDE DEF X
<1>7. /\ proc' \in [Procs -> LocalsT] /\ proc'[p] = X
      /\ \A q \in Procs \ {p} : proc'[q] = proc[q]
  BY <1>2, <1>4, <1>6, NewLocals
<1>8. AgentTypes' BY <1>2, <1>4, <1>5, <1>7 DEF AgentTypes
<1>9. proc[p].item = NoItem BY <1>2 DEF AgentInv, LocalsOK
<1>10. \A q \in Procs : LocalsOK(q)'
  <2>1. LocalsOK(p)' BY <1>2, <1>6, <1>7 DEF LocalsOK
  <2>2. ASSUME NEW q \in Procs \ {p} PROVE LocalsOK(q)'
    BY <1>2, <1>7, LocalsKept DEF AgentInv
  <2> QED BY <2>1, <2>2
<1>11. /\ Live' = Live /\ Live \subseteq Items
       /\ StoringTo(own)' = StoringTo(own) \cup {p}
       /\ \A o \in Items \ {own} : StoringTo(o)' = StoringTo(o)
  BY <1>2, <1>6, <1>7, <1>9, AgentAssumption DEF Live, StoringTo
<1>12. Live' \ contended' \subseteq Live \ contended
  BY <1>2, <1>11
<1>13. DirInv'
  <2>1. \A o \in Live' \ contended' : \A q1, q2 \in StoringTo(o)' : q1 = q2
    <3> SUFFICES ASSUME NEW o \in Live' \ contended'
                 PROVE \A q1, q2 \in StoringTo(o)' : q1 = q2
      OBVIOUS
    <3>1. CASE o = own BY <1>2, <1>11, <3>1
    <3>2. CASE o # own BY <1>11, <1>12, <3>2 DEF AgentInv, DirInv
    <3> QED BY <3>1, <3>2
  <2> QED BY <1>2, <2>1 DEF AgentInv, DirInv
<1>14. ASSUME NEW o \in Live' \ contended' PROVE Charge(o)'
  <2>1. o \in Items /\ Charge(o) BY <1>11, <1>12 DEF AgentInv
  <2>2. CASE o # own
    <3>1. \A q \in StoringTo(o) : proc'[q] = proc[q]
      BY <1>7, <1>9, <2>1, AgentAssumption DEF StoringTo
    <3> QED BY <1>2, <1>3, <1>11, <2>1, <2>2, <3>1, ChargeKept
  <2>3. CASE o = own
    <3>1. StoringTo(o) = {} /\ StoringTo(o)' = {p}
      BY <1>2, <1>11, <2>3
    <3> QED BY <1>2, <1>3, <1>6, <1>7, <2>1, <3>1 DEF Charge, HAS_STICKY
  <2> QED BY <2>2, <2>3
<1> QED BY <1>3, <1>8, <1>10, <1>13, <1>14 DEF AgentInv

(* Making the table immutable changes no policy.                           *)
LEMMA ElseStep ==
  ASSUME AgentInv, ikgt_debug \/ UNCHANGED agentVars PROVE AgentInv'
<1>1. /\ UNCHANGED <<dir, cfg, proc, sender, contended>>
      /\ UNCHANGED policy_entry
      /\ handle_msg_policy_make_immutable \/ UNCHANGED vars
  BY DEF ikgt_debug, agentVars, history, vars,
         handle_msg_policy_make_immutable
<1>2. TableInv' BY <1>1, ImmutableInv DEF AgentInv
<1>3. policyInTable' = policyInTable
  BY <1>1 DEF policyInTable, InTable, SlotsOf, PolicyOf
<1>4. AgentTypes' BY <1>1 DEF AgentInv, AgentTypes
<1>5. \A q \in Procs : LocalsOK(q)' BY <1>1 DEF AgentInv, LocalsOK
<1>6. Live' = Live /\ Live \subseteq Items /\ \A o : StoringTo(o)' = StoringTo(o)
  BY <1>1 DEF Live, StoringTo
<1>7. DirInv' BY <1>1, <1>6 DEF AgentInv, DirInv
<1>8. ASSUME NEW o \in Live' \ contended' PROVE Charge(o)'
  <2>1. o \in Items /\ Charge(o) BY <1>1, <1>6 DEF AgentInv
  <2> QED BY <1>1, <1>3, <1>6, <2>1, ChargeKept
<1> QED BY <1>2, <1>4, <1>5, <1>7, <1>8 DEF AgentInv

LEMMA AgentInitInv == AgentInit => AgentInv
<1> SUFFICES ASSUME AgentInit PROVE AgentInv OBVIOUS
<1>1. TableInv BY InitInv DEF AgentInit
<1>2. PICK r \in Resource : cfg = [o \in Items |-> NewCfg(r)]
  BY DEF AgentInit
<1>3. NewCfg(r) \in CfgT BY ActionAssumption DEF NewCfg, CfgT
<1>4. AgentTypes BY <1>2, <1>3, IdleType DEF AgentInit, AgentTypes
<1>5. ASSUME NEW q \in Procs PROVE LocalsOK(q)
  <2>1. FALSE \in ValuesOf["enable"] BY DEF ValuesOf
  <2>2. /\ proc[q].attr = "enable" /\ proc[q].value = FALSE
        /\ proc[q].pc = "idle" /\ proc[q].item = NoItem
    BY DEF AgentInit, Idle
  <2> QED BY <2>1, <2>2 DEF LocalsOK
<1>6. Live = {} BY AgentAssumption DEF AgentInit, Live
<1>7. DirInv BY <1>6 DEF AgentInit, DirInv
<1> QED BY <1>1, <1>4, <1>5, <1>6, <1>7 DEF AgentInv

LEMMA AgentStep == AgentInv /\ [AgentNext]_agentVars => AgentInv'
<1> SUFFICES ASSUME AgentInv, [AgentNext]_agentVars PROVE AgentInv' OBVIOUS
<1>1. CASE \E n \in Names, o \in Items : make_item(n, o)
  BY <1>1, MakeStep
<1>2. CASE \E n \in Names : remove_item(n) BY <1>2, RemoveStep
<1>3. CASE \E p \in Procs :
             \E n \in Names, attr \in Attribute :
               \E value \in ValuesOf[attr] : store_attribute(p, n, attr, value)
  BY <1>3, StoreAttributeStep
<1>4. CASE \E p \in Procs : store(p) BY <1>4, StoreOpsStep
<1>5. CASE ikgt_debug \/ UNCHANGED agentVars BY <1>5, ElseStep
<1> QED BY <1>1, <1>2, <1>3, <1>4, <1>5 DEF AgentNext

LEMMA AgentInvariance == AgentSpec => []AgentInv
BY AgentInitInv, AgentStep, PTL DEF AgentSpec

-----------------------------------------------------------------------------
(* The results                                                             *)

(* The variables of table, directories, items and stores hold values of    *)
(* their types.                                                            *)
THEOREM AgentTypeCorrect == AgentSpec => []AgentTypeOK
<1>1. AgentInv => AgentTypeOK
  <2> SUFFICES ASSUME AgentInv PROVE AgentTypeOK OBVIOUS
  <2>1. \A p \in Procs : proc[p] \in LocalsT /\ LocalsOK(p)
    BY DEF AgentInv, AgentTypes
  <2>2. \A p \in Procs : /\ proc[p].item \in Items \cup {NoItem}
                         /\ proc[p].attr \in Attribute
                         /\ proc[p].value \in ValuesOf[proc[p].attr]
                         /\ proc[p].msg \in Entry
    BY <2>1 DEF LocalsT, LocalsOK
  <2> QED BY <2>2 DEF AgentInv, AgentTypes, TableInv, AgentTypeOK, CfgT
<1> QED BY <1>1, AgentInvariance, PTL

(* What an item that is in charge shows in enable is what the handler      *)
(* does: for any number of processes, names and items.                     *)
THEOREM EnableTrue == AgentSpec => []EnableIsTrue
<1>1. AgentInv => EnableIsTrue
  <2> SUFFICES ASSUME AgentInv, NEW o \in Items, InCharge(o)
               PROVE cfg[o].enable <=> InTable(cfg[o].resource)
    BY DEF EnableIsTrue
  <2>1. cfg[o].resource \in Resource /\ cfg[o].enable \in BOOLEAN
    BY DEF AgentInv, AgentTypes, CfgT
  <2>2. Charge(o) BY DEF AgentInv, InCharge
  <2>3. cfg[o].enable = TRUE <=> policyInTable[cfg[o].resource] # NoPolicy
    BY <2>2 DEF Charge, InCharge
  <2> QED BY <2>1, <2>3, InTableIsPolicy DEF AgentInv, TableInv
<1> QED BY <1>1, AgentInvariance, PTL

(* An item that is in charge of a sticky policy is locked.                 *)
THEOREM StickyLocked == AgentSpec => []StickyIsLocked
<1>1. AgentInv => StickyIsLocked
  <2> SUFFICES ASSUME AgentInv, NEW o \in Items, InCharge(o),
                      policyInTable[cfg[o].resource] # NoPolicy,
                      HAS_STICKY(policyInTable[cfg[o].resource])
               PROVE cfg[o].locked
    BY DEF StickyIsLocked
  <2>1. Charge(o) BY DEF AgentInv, InCharge
  <2>2. cfg[o].locked = TRUE BY <2>1 DEF Charge, InCharge
  <2> QED BY <2>2
<1> QED BY <1>1, AgentInvariance, PTL

(* A step leaves the locals of a store alone, ends or begins the store, or *)
(* changes its pc.                                                         *)
LEMMA FrozenStep ==
  AgentInv /\ [AgentNext]_agentVars =>
    \A o \in Live : cfg[o].locked /\ Untested(o)
                      => cfg'[o] = cfg[o] /\ Untested(o)'
<1> SUFFICES ASSUME AgentInv, [AgentNext]_agentVars, NEW o \in Live,
                    cfg[o].locked, Untested(o)
             PROVE cfg'[o] = cfg[o] /\ Untested(o)'
  OBVIOUS
<1>1. /\ AgentTypes /\ o \in Items
      /\ \A q \in Procs : proc[q].item = o => proc[q].pc = "check"
  BY DEF AgentInv, Live, Untested, StoringTo
<1>2. (\A q \in Procs : proc'[q].item = o => proc'[q].pc = "check") =>
        Untested(o)'
  BY DEF Untested, StoringTo
<1>3. CASE \E n \in Names, new \in Items : make_item(n, new)
  BY <1>1, <1>2, <1>3 DEF make_item, AgentTypes
<1>4. CASE (\E n \in Names : remove_item(n)) \/ ikgt_debug
           \/ UNCHANGED agentVars
  BY <1>1, <1>2, <1>4 DEF remove_item, ikgt_debug, agentVars
<1>5. CASE \E p \in Procs :
             \E n \in Names, attr \in Attribute :
               \E value \in ValuesOf[attr] : store_attribute(p, n, attr, value)
  <2>1. PICK p \in Procs, n \in Names, attr \in Attribute :
          \E value \in ValuesOf[attr] : store_attribute(p, n, attr, value)
    BY <1>5
  <2>2. PICK value \in ValuesOf[attr] : store_attribute(p, n, attr, value)
    BY <2>1
  <2>3. proc'[p].pc = "check" /\ \A q \in Procs \ {p} : proc'[q] = proc[q]
    BY <1>1, <2>2 DEF store_attribute, AgentTypes, Idle
  <2> QED BY <1>1, <1>2, <2>2, <2>3 DEF store_attribute
<1>6. CASE \E p \in Procs : store(p)
  <2>1. PICK p \in Procs : store(p) BY <1>6
  <2>2. CASE proc[p].item = o
    <3>1. CheckLocked(p)
      BY <1>1, <2>1, <2>2
      DEF store, Assign, GetWrite, GetSticky, HypercallFails, MessageIgnored,
          MessageHandled, SetEnable, SetLocked
    <3>2. Return(p) BY <2>2, <3>1 DEF CheckLocked, Locked
    <3>3. proc'[p] = Idle /\ \A q \in Procs \ {p} : proc'[q] = proc[q]
      BY <3>2, EndedLocals
    <3> QED BY <1>1, <1>2, <3>1, <3>3, IdleType, AgentAssumption
            DEF CheckLocked
  <2>3. CASE proc[p].item # o
    <3>1. cfg'[o] = cfg[o]
      BY <1>1, <2>1, <2>3
      DEF store, CheckLocked, Assign, GetWrite, GetSticky, HypercallFails,
          MessageIgnored, MessageHandled, SetEnable, SetLocked, AgentTypes
    <3>2. /\ \A q \in Procs \ {p} : proc'[q] = proc[q]
          /\ proc'[p].item \in {proc[p].item, NoItem}
      <4>1. proc \in [Procs -> LocalsT] /\ proc[p] \in LocalsT
        BY <1>1 DEF AgentTypes
      <4> QED
        BY <2>1, <4>1, IdleType
        DEF store, CheckLocked, Assign, GetWrite, GetSticky, HypercallFails,
            AfterFailure, MessageIgnored, MessageHandled, AfterSuccess,
            SetEnable, SetLocked, Return, Goto, LocalsT
    <3> QED BY <1>1, <1>2, <2>3, <3>1, <3>2, AgentAssumption
  <2> QED BY <2>2, <2>3
<1> QED BY <1>3, <1>4, <1>5, <1>6 DEF AgentNext

(* Once the stores that had passed the test of the lock have ended, a      *)
(* locked item stays as it is until its directory is removed.              *)
THEOREM LockedFrozen == AgentSpec => LockedIsFrozen
<1>1. AgentInv /\ [AgentNext]_agentVars =>
        [\A o \in Live : cfg[o].locked /\ Untested(o)
           => cfg'[o] = cfg[o] /\ Untested(o)']_agentVars
  BY FrozenStep
<1> QED BY <1>1, AgentInvariance, PTL DEF AgentSpec, LockedIsFrozen
=============================================================================
