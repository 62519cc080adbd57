------------------------ MODULE RegisterGuardProofs ------------------------
(***************************************************************************)
(* Proofs about RegisterGuard for any table and any number of bits and     *)
(* MSRs: the walk over the slots gives every bit the verdict of its own    *)
(* policy, and what is pinned or skipped keeps its value.                  *)
(***************************************************************************)
EXTENDS RegisterGuard, PolicyTableProofs

-----------------------------------------------------------------------------
(* The walk over the table                                                 *)

(* The registers are CR0 and CR4, whose resources have no bit in common    *)
(* with OtherBits.                                                         *)
LEMMA Registers ==
  /\ Reg = {"CR0", "CR4"}
  /\ CrRes["CR0"] = Cr0Res /\ CrRes["CR4"] = Cr4Res
  /\ \A reg \in Reg : CrRes[reg] \subseteq Resource
  /\ \A reg \in Reg : CrRes[reg] \cap OtherBits = {}
<1>1. Reg = {"CR0", "CR4"} BY DEF Reg, CrRes
<1>2. CrRes["CR0"] = Cr0Res /\ CrRes["CR4"] = Cr4Res BY DEF CrRes
<1> QED BY <1>1, <1>2, GuardAssumption DEF Resource

(* f is the walk over the slots up to the slot n.                          *)
WalkTo(f, n, diff, req) ==
  f = [i \in 0 .. n |->
         IF i = 0 THEN [new |-> req, log |-> FALSE]
         ELSE process_cr_policy(policy_entry[i - 1], diff, f[i - 1])]

(* The same, one slot at a time.                                           *)
LEMMA WalkSteps ==
  ASSUME NEW n \in Nat, NEW f, NEW diff, NEW req
  PROVE WalkTo(f, n, diff, req) <=>
          /\ f = [i \in 0 .. n |-> f[i]]
          /\ f[0] = [new |-> req, log |-> FALSE]
          /\ \A i \in 0 .. n : i # 0 =>
               f[i] = process_cr_policy(policy_entry[i - 1], diff, f[i - 1])
<1> DEFINE body(i) == IF i = 0 THEN [new |-> req, log |-> FALSE]
                      ELSE process_cr_policy(policy_entry[i - 1], diff, f[i - 1])
<1>1. WalkTo(f, n, diff, req) <=> f = [i \in 0 .. n |-> body(i)] BY DEF WalkTo
<1>2. 0 \in 0 .. n OBVIOUS
<1>3. /\ body(0) = [new |-> req, log |-> FALSE]
      /\ \A i \in 0 .. n : i # 0 =>
           body(i) = process_cr_policy(policy_entry[i - 1], diff, f[i - 1])
  OBVIOUS
<1> HIDE DEF body
<1>4. f = [i \in 0 .. n |-> body(i)] <=>
        f = [i \in 0 .. n |-> f[i]] /\ \A i \in 0 .. n : f[i] = body(i)
  OBVIOUS
<1> QED BY <1>1, <1>2, <1>3, <1>4

(* Such a walk exists: the least length that has none could be walked from *)
(* the one before it.                                                      *)
LEMMA WalkExists ==
  ASSUME NEW n \in Nat, NEW diff, NEW req
  PROVE \E f : WalkTo(f, n, diff, req)
<1> DEFINE bad == {k \in Nat : ~\E f : WalkTo(f, k, diff, req)}
<1> SUFFICES ASSUME bad # {} PROVE FALSE OBVIOUS
<1>1. PICK k \in bad : \A j \in bad : k <= j
  <2> HIDE DEF bad
  <2>1. bad \in SUBSET Nat BY DEF bad
  <2> QED BY <2>1, LeastElement
<1>2. CASE k = 0
  <2> DEFINE f == [i \in 0 .. 0 |-> [new |-> req, log |-> FALSE]]
  <2>1. /\ f = [i \in 0 .. 0 |-> f[i]]
        /\ f[0] = [new |-> req, log |-> FALSE]
        /\ \A i \in 0 .. 0 : i = 0
    OBVIOUS
  <2> HIDE DEF f
  <2>2. WalkTo(f, 0, diff, req) BY <2>1, WalkSteps
  <2> QED BY <1>1, <1>2, <2>2
<1>3. CASE k # 0
  <2>1. k - 1 \in Nat /\ k - 1 \notin bad BY <1>1, <1>3
  <2>2. PICK f : WalkTo(f, k - 1, diff, req) BY <2>1
  <2> DEFINE last == process_cr_policy(policy_entry[k - 1], diff, f[k - 1])
             g == [i \in 0 .. k |-> IF i = k THEN last ELSE f[i]]
  <2>3. WalkTo(g, k, diff, req)
    <3>1. /\ f[0] = [new |-> req, log |-> FALSE]
          /\ \A i \in 0 .. k - 1 : i # 0 =>
               f[i] = process_cr_policy(policy_entry[i - 1], diff, f[i - 1])
      BY <2>1, <2>2, WalkSteps
    <3>2. k \in Nat BY <1>1
    <3>3. g = [i \in 0 .. k |-> g[i]] OBVIOUS
    <3>4. g[0] = f[0] /\ g[k] = last
      BY <1>3, <3>2
    <3>5. ASSUME NEW i \in 0 .. k, i # 0
          PROVE g[i] = process_cr_policy(policy_entry[i - 1], diff, g[i - 1])
      <4>1. i - 1 \in 0 .. k /\ i - 1 # k BY <3>2, <3>5
      <4>2. g[i - 1] = f[i - 1] BY <4>1
      <4>3. CASE i = k BY <3>4, <4>2, <4>3
      <4>4. CASE i # k
        <5>1. i \in 0 .. k - 1 BY <3>2, <4>4
        <5>2. g[i] = f[i] BY <4>4
        <5>3. f[i] = process_cr_policy(policy_entry[i - 1], diff, f[i - 1])
          BY <3>1, <3>5, <5>1
        <5> HIDE DEF g
        <5> QED BY <4>2, <5>2, <5>3
      <4> QED BY <4>3, <4>4
    <3>6. g[0] = [new |-> req, log |-> FALSE] BY <3>1, <3>4
    <3>7. \A i \in 0 .. k : i # 0 =>
            g[i] = process_cr_policy(policy_entry[i - 1], diff, g[i - 1])
      BY <3>5
    <3> HIDE DEF g
    <3> QED BY <3>2, <3>3, <3>6, <3>7, WalkSteps
  <2> QED BY <1>1, <2>3
<1> QED BY <1>2, <1>3

(* The walk of the event handler is one.                                   *)
LEMMA ScanWalks ==
  ASSUME NEW reg, NEW cur, NEW req
  PROVE WalkTo(ScanTable(reg, cur, req), POLICY_MAX_ENTRIES,
               SymDiff(cur, req) \cap CrRes[reg], req)
<1> DEFINE diff == SymDiff(cur, req) \cap CrRes[reg]
<1>1. \E f : WalkTo(f, POLICY_MAX_ENTRIES, diff, req)
  BY SlotCount, WalkExists
<1>2. ScanTable(reg, cur, req) =
        CHOOSE f : WalkTo(f, POLICY_MAX_ENTRIES, diff, req)
  BY DEF ScanTable, WalkTo
<1> HIDE DEF diff
<1>3. WalkTo(CHOOSE f : WalkTo(f, POLICY_MAX_ENTRIES, diff, req),
             POLICY_MAX_ENTRIES, diff, req)
  BY <1>1
<1> QED BY <1>2, <1>3 DEF diff

-----------------------------------------------------------------------------
(* The loop invariant of the walk                                          *)

(* What the guest wants to change, of the bits with a resource.            *)
Diff(reg, req) == SymDiff(cr[reg], req) \cap CrRes[reg]

(* The bits of the write whose entries are in the first k slots.           *)
Passed(reg, req, k) ==
  {b \in Diff(reg, req) :
     \E j \in Slots : j < k /\ policy_entry[j].resource_id = b}

(* After k slots, the bits with an entry there have their verdict, and the *)
(* others what the guest wants.                                            *)
Walked(ctx, reg, req, k) ==
  /\ ctx.new \subseteq Bits(reg)
  /\ \A b \in Bits(reg) :
       b \in ctx.new <=> IF b \in Passed(reg, req, k)
                         THEN BitVerdict(reg, req, b) ELSE b \in req
  /\ ctx.log <=> \E b \in Passed(reg, req, k) : W_HAS_LOG(policyInTable[b])

(* A policy in the table is not NoPolicy.                                  *)
LEMMA PolicyOfSlot ==
  ASSUME TypeOK, UniqueEntries, NEW r \in Resource, NEW i \in Slots,
         policy_entry[i].resource_id = r
  PROVE /\ policyInTable[r] # NoPolicy
        /\ policyInTable[r].w_action = policy_entry[i].w_action
        /\ policyInTable[r].sticky_val = policy_entry[i].sticky_val
<1>1. policyInTable[r] = PolicyOf(policy_entry[i]) BY PolicyFromSlot
<1>2. policy_entry[i] \in Entry BY DEF TypeOK
<1>3. PolicyOf(policy_entry[i]) \in Policy BY <1>2 DEF PolicyOf, Policy, Entry
<1> QED BY <1>1, <1>3, NoPolicyAssumption DEF PolicyOf

(* One more slot.                                                          *)
LEMMA WalkOn ==
  ASSUME TypeOK, UniqueEntries, NEW reg \in Reg, NEW req \in SUBSET Bits(reg),
         NEW k \in Slots, NEW ctx, Walked(ctx, reg, req, k)
  PROVE Walked(process_cr_policy(policy_entry[k], Diff(reg, req), ctx),
               reg, req, k + 1)
<1> DEFINE e == policy_entry[k]
           id == e.resource_id
           diff == Diff(reg, req)
           next == process_cr_policy(e, diff, ctx)
<1>1. k \in Nat /\ \A j \in Slots : j \in Nat /\ (j < k + 1 <=> j < k \/ j = k)
  BY SlotCount
<1>2. CASE id \notin diff
  <2>1. next = ctx BY <1>2 DEF process_cr_policy, Concerns
  <2>2. Passed(reg, req, k + 1) = Passed(reg, req, k)
    BY <1>1, <1>2 DEF Passed
  <2> HIDE DEF next
  <2> QED BY <2>1, <2>2 DEF Walked, next
<1>3. CASE id \in diff
  <2>1. id \in CrRes[reg] /\ id \in Resource /\ id # UNKNOWN
    BY <1>3, Registers, ResourceAssumption DEF Diff
  <2>2. id \in cr[reg] <=> id \notin req
    BY <1>3 DEF Diff, SymDiff
  <2>3. id \notin Passed(reg, req, k)
    BY <1>1, <2>1 DEF Passed, UniqueEntries, Used
  <2>4. Passed(reg, req, k + 1) = Passed(reg, req, k) \cup {id}
    BY <1>1, <1>3 DEF Passed
  <2>5. /\ policyInTable[id] # NoPolicy
        /\ HAS_STICKY(policyInTable[id]) <=> HAS_STICKY(e)
        /\ W_HAS_SKIP(policyInTable[id]) <=> W_HAS_SKIP(e)
        /\ W_HAS_LOG(policyInTable[id]) <=> W_HAS_LOG(e)
        /\ Odd(policyInTable[id].sticky_val) <=> Odd(e.sticky_val)
    BY <2>1, PolicyOfSlot DEF HAS_STICKY, W_HAS_SKIP, W_HAS_LOG, Odd
  <2>6. id \in Bits(reg) BY <2>1 DEF Bits
  <2>7. id \in ctx.new <=> id \in req BY <2>3, <2>6 DEF Walked
  <2>8. /\ next.new = IF Flips(e, ctx.new) THEN SymDiff(ctx.new, {id})
                      ELSE ctx.new
        /\ next.log = Logs(e, ctx.log)
    BY <1>3 DEF process_cr_policy, Concerns
  <2>9. \A b : b # id => (b \in next.new <=> b \in ctx.new)
    BY <2>8 DEF SymDiff
  <2>10. id \in next.new <=> BitVerdict(reg, req, id)
    <3>1. BitVerdict(reg, req, id) <=>
            IF HAS_STICKY(e) THEN Odd(e.sticky_val)
            ELSE IF W_HAS_SKIP(e) THEN id \in cr[reg] ELSE id \in req
      BY <2>2, <2>5 DEF BitVerdict
    <3>2. id \in next.new <=>
            IF Flips(e, ctx.new) THEN id \notin ctx.new ELSE id \in ctx.new
      BY <2>8 DEF SymDiff
    <3>3. Flips(e, ctx.new) <=>
            IF HAS_STICKY(e) THEN ~(id \in ctx.new <=> Odd(e.sticky_val))
            ELSE W_HAS_SKIP(e)
      BY DEF Flips, Odd, HAS_STICKY, W_HAS_SKIP
    <3> QED BY <2>2, <2>7, <3>1, <3>2, <3>3
  <2>11. next.new \subseteq Bits(reg)
    BY <2>6, <2>9 DEF Walked
  <2>12. next.log <=>
           \E b \in Passed(reg, req, k + 1) : W_HAS_LOG(policyInTable[b])
    BY <2>4, <2>5, <2>8 DEF Walked, Logs
  <2> HIDE DEF next, id
  <2>13. ASSUME NEW b \in Bits(reg)
         PROVE b \in next.new <=> IF b \in Passed(reg, req, k + 1)
                                  THEN BitVerdict(reg, req, b) ELSE b \in req
    <3>1. CASE b = id BY <2>4, <2>10, <3>1
    <3>2. CASE b # id BY <2>4, <2>9, <3>2 DEF Walked
    <3> QED BY <3>1, <3>2
  <2> QED BY <2>11, <2>12, <2>13 DEF Walked, next
<1> QED BY <1>2, <1>3

(* The walk satisfies it after every slot.                                 *)
LEMMA WalkInvariant ==
  ASSUME TypeOK, UniqueEntries, NEW reg \in Reg, NEW req \in SUBSET Bits(reg)
  PROVE Walked(ScanTable(reg, cr[reg], req)[POLICY_MAX_ENTRIES],
               reg, req, POLICY_MAX_ENTRIES)
<1> DEFINE N == POLICY_MAX_ENTRIES
           f == ScanTable(reg, cr[reg], req)
           bad == {k \in 0 .. N : ~Walked(f[k], reg, req, k)}
<1>1. N \in Nat \ {0} /\ Slots = 0 .. N - 1 BY SlotCount DEF Slots
<1>2. /\ f[0] = [new |-> req, log |-> FALSE]
      /\ \A i \in 0 .. N : i # 0 =>
           f[i] = process_cr_policy(policy_entry[i - 1], Diff(reg, req), f[i - 1])
  <2>1. WalkTo(f, N, Diff(reg, req), req) BY ScanWalks DEF Diff
  <2> HIDE DEF f, N
  <2> QED BY <1>1, <2>1, WalkSteps
<1> HIDE DEF f, N
<1>3. Walked(f[0], reg, req, 0)
  <2>1. Passed(reg, req, 0) = {} BY SlotCount DEF Passed
  <2> QED BY <1>2, <2>1 DEF Walked
<1>4. bad = {}
  <2> SUFFICES ASSUME bad # {} PROVE FALSE OBVIOUS
  <2>1. PICK k \in bad : \A j \in bad : k <= j
    <3>1. bad \in SUBSET Nat BY <1>1
    <3> HIDE DEF bad
    <3> QED BY <3>1, LeastElement
  <2>2. k # 0 BY <1>3, <2>1
  <2>3. k - 1 \in 0 .. N /\ k - 1 \in Slots /\ k - 1 \notin bad
    BY <1>1, <2>1, <2>2
  <2>4. Walked(f[k - 1], reg, req, k - 1) BY <2>3
  <2>5. f[k] = process_cr_policy(policy_entry[k - 1], Diff(reg, req), f[k - 1])
    BY <1>2, <2>1, <2>2
  <2>6. (k - 1) + 1 = k BY <1>1, <2>1
  <2>7. Walked(f[k], reg, req, k) BY <2>3, <2>4, <2>5, <2>6, WalkOn
  <2> QED BY <2>1, <2>7
<1>5. N \in 0 .. N BY <1>1
<1> QED BY <1>4, <1>5 DEF f, N

-----------------------------------------------------------------------------
(* The verdict of the event handlers                                       *)

(* A write that changes a bit: the walk ends with the verdict on each bit. *)
LEMMA ScanEndsWithVerdict ==
  ASSUME TypeOK, UniqueEntries, NEW reg \in Reg, NEW req \in SUBSET Bits(reg)
  PROVE LET ctx == ScanTable(reg, cr[reg], req)[POLICY_MAX_ENTRIES]
        IN /\ ctx.new = Verdict(reg, req)
           /\ ctx.log <=> \E b \in Diff(reg, req) :
                /\ policyInTable[b] # NoPolicy
                /\ W_HAS_LOG(policyInTable[b])
<1> DEFINE ctx == ScanTable(reg, cr[reg], req)[POLICY_MAX_ENTRIES]
           passed == Passed(reg, req, POLICY_MAX_ENTRIES)
<1>1. Walked(ctx, reg, req, POLICY_MAX_ENTRIES) BY WalkInvariant
<1> HIDE DEF ctx
<1>2. \A j \in Slots : j < POLICY_MAX_ENTRIES BY SlotCount DEF Slots
<1>3. passed \subseteq Diff(reg, req) /\ Diff(reg, req) \subseteq CrRes[reg]
  BY DEF Passed, Diff
<1>4. ASSUME NEW b \in Diff(reg, req)
      PROVE b \in passed <=> policyInTable[b] # NoPolicy
  <2>1. b \in Resource BY <1>3, Registers
  <2>2. b \in passed <=> \E j \in Slots : policy_entry[j].resource_id = b
    BY <1>2 DEF Passed
  <2>3. CASE b \in passed BY <2>1, <2>2, <2>3, PolicyOfSlot
  <2>4. CASE b \notin passed
    <3>1. ~InTable(b) BY <2>2, <2>4 DEF InTable, SlotsOf
    <3> QED BY <2>1, <2>4, <3>1 DEF policyInTable
  <2> QED BY <2>3, <2>4
<1>5. ASSUME NEW b \in CrRes[reg]
      PROVE b \in ctx.new <=> BitVerdict(reg, req, b)
  <2>1. b \in Bits(reg) BY DEF Bits
  <2>2. CASE b \in passed BY <1>1, <2>1, <2>2 DEF Walked
  <2>3. CASE b \in Diff(reg, req) /\ b \notin passed
    <3>1. BitVerdict(reg, req, b) <=> b \in req BY <1>4, <2>3 DEF BitVerdict
    <3> QED BY <1>1, <2>1, <2>3, <3>1 DEF Walked
  <2>4. CASE b \notin Diff(reg, req)
    <3>1. b \in cr[reg] <=> b \in req BY <2>4 DEF Diff, SymDiff
    <3>2. BitVerdict(reg, req, b) <=> b \in req BY <3>1 DEF BitVerdict
    <3> QED BY <1>1, <1>3, <2>1, <2>4, <3>2 DEF Walked
  <2> QED BY <2>2, <2>3, <2>4
<1>6. ASSUME NEW b \in OtherBits PROVE b \in ctx.new <=> b \in req
  <2>1. b \notin passed /\ b \in Bits(reg) BY <1>3, Registers DEF Bits
  <2> QED BY <1>1, <2>1 DEF Walked
<1>7. ctx.new \subseteq CrRes[reg] \cup OtherBits
  BY <1>1 DEF Walked, Bits
<1>8. ctx.new = Verdict(reg, req)
  <2>1. ASSUME NEW b PROVE b \in ctx.new <=> b \in Verdict(reg, req)
    <3>1. b \in Verdict(reg, req) <=>
            \/ b \in CrRes[reg] /\ BitVerdict(reg, req, b)
            \/ b \in OtherBits /\ b \in req
      BY DEF Verdict
    <3>2. b \in ctx.new => b \in CrRes[reg] \/ b \in OtherBits
      BY <1>7
    <3> QED BY <1>5, <1>6, <3>1, <3>2
  <2> QED BY <2>1
<1>9. ctx.log <=> \E b \in Diff(reg, req) :
        policyInTable[b] # NoPolicy /\ W_HAS_LOG(policyInTable[b])
  BY <1>1, <1>3, <1>4 DEF Walked
<1> QED BY <1>8, <1>9 DEF ctx

(* The event handler, which returns at once when nothing changes.          *)
LEMMA EventIsVerdict ==
  ASSUME TypeOK, UniqueEntries, NEW reg \in Reg, cr[reg] \subseteq Bits(reg),
         NEW req \in SUBSET Bits(reg)
  PROVE /\ handle_cr_event(reg, req, "none").value = Verdict(reg, req)
        /\ handle_cr_event(reg, req, "none").logged <=>
             \E b \in Diff(reg, req) :
               policyInTable[b] # NoPolicy /\ W_HAS_LOG(policyInTable[b])
<1> DEFINE ctx == ScanTable(reg, cr[reg], req)[POLICY_MAX_ENTRIES]
           event == handle_cr_event(reg, req, "none")
<1>1. CASE req = cr[reg]
  <2>1. event.value = req /\ event.logged = FALSE BY <1>1 DEF handle_cr_event
  <2>2. Diff(reg, req) = {} BY <1>1 DEF Diff, SymDiff
  <2>3. \A b \in CrRes[reg] : BitVerdict(reg, req, b) <=> b \in req
    BY <1>1 DEF BitVerdict
  <2>4. Verdict(reg, req) = req BY <2>3 DEF Verdict, Bits
  <2> QED BY <2>1, <2>2, <2>4
<1>2. CASE req # cr[reg]
  <2>1. event.value = ctx.new /\ event.logged = ctx.log
    BY <1>2 DEF handle_cr_event
  <2> HIDE DEF event
  <2> QED BY <2>1, ScanEndsWithVerdict DEF event
<1> QED BY <1>1, <1>2

(* Whatever fails, the register gets a value of its type.                  *)
LEMMA EventType ==
  ASSUME TypeOK, UniqueEntries, NEW reg \in Reg, cr[reg] \subseteq Bits(reg),
         NEW req \in SUBSET Bits(reg), NEW fault
  PROVE handle_cr_event(reg, req, fault).value \subseteq Bits(reg)
<1> DEFINE ctx == ScanTable(reg, cr[reg], req)[POLICY_MAX_ENTRIES]
<1>1. ctx.new \subseteq Bits(reg)
  BY ScanEndsWithVerdict DEF Verdict, Bits
<1>2. handle_cr_event(reg, req, fault).value \in {req, cr[reg], ctx.new}
  BY DEF handle_cr_event
<1> HIDE DEF ctx
<1> QED BY <1>1, <1>2

(* An MSR has a value of its type after an event.                          *)
LEMMA MsrEventType ==
  ASSUME msr \in [MsrRes -> MsrVals], NEW r \in MsrRes, NEW req \in MsrVals,
         NEW fault
  PROVE handle_msr_event(r, req, fault).value \in MsrVals
BY DEF handle_msr_event

-----------------------------------------------------------------------------
(* The inductive invariant                                                 *)

(* The verdict is right in every state in which the table is: nothing else *)
(* is needed but the types.                                                *)
GInv == TableInv /\ GTypeOK /\ cr = [reg \in Reg |-> cr[reg]]

LEMMA GuardInit == GInit => GInv
<1> SUFFICES ASSUME GInit PROVE GInv OBVIOUS
<1>1. TableInv BY InitInv DEF GInit
<1>2. cr = [reg \in Reg |-> cr[reg]] BY DEF GInit
<1>3. GTypeOK BY <1>1 DEF GInit, GTypeOK, TableInv, CrFault
<1> QED BY <1>1, <1>2, <1>3 DEF GInv

(* No step of the registers touches the table.                             *)
LEMMA RegisterSteps ==
  ASSUME GNext
  PROVE \/ Next /\ lastFault' = "none" /\ UNCHANGED <<cr, msr>>
        \/ UNCHANGED vars
BY DEF GNext, TableStep, ReportedCrWrite, UnreportedCrWrite, ReportedMsrWrite,
       UnreportedMsrWrite

LEMMA GuardStep == GInv /\ [GNext]_guardVars => GInv'
<1> SUFFICES ASSUME GInv, [GNext]_guardVars PROVE GInv' OBVIOUS
<1> USE DEF GInv
<1>1. TableInv'
  <2>1. [Next]_vars BY RegisterSteps DEF guardVars
  <2> QED BY <2>1, StepInv
<1>2. TypeOK /\ UniqueEntries /\ TypeOK' BY <1>1 DEF TableInv
<1>3. ASSUME NEW reg \in Reg, NEW value \in SUBSET Bits(reg),
             cr' = [cr EXCEPT ![reg] = value], UNCHANGED msr,
             lastFault' \in CrFault
      PROVE GInv'
  <2>1. cr' = [q \in Reg |-> cr'[q]] BY <1>3
  <2>2. \A q \in Reg : cr'[q] \subseteq Bits(q) BY <1>3 DEF GTypeOK
  <2> QED BY <1>1, <1>2, <1>3, <2>1, <2>2 DEF GTypeOK, Bits
<1>4. ASSUME NEW r \in MsrRes, NEW value \in MsrVals,
             msr' = [msr EXCEPT ![r] = value], UNCHANGED cr,
             lastFault' \in CrFault
      PROVE GInv'
  BY <1>1, <1>2, <1>4 DEF GTypeOK, Bits
<1>5. CASE TableStep BY <1>1, <1>2, <1>5 DEF TableStep, GTypeOK, Bits, CrFault
<1>6. ASSUME NEW reg \in Reg, NEW req \in SUBSET Bits(reg), NEW fault \in CrFault,
             ReportedCrWrite(reg, req, fault)
      PROVE GInv'
  <2> DEFINE value == handle_cr_event(reg, req, fault).value
  <2>1. value \in SUBSET Bits(reg) BY <1>2, EventType DEF GTypeOK
  <2>2. /\ cr' = [cr EXCEPT ![reg] = value] /\ UNCHANGED msr
        /\ lastFault' \in CrFault
    BY <1>6 DEF ReportedCrWrite
  <2> HIDE DEF value
  <2> QED BY <1>3, <2>1, <2>2
<1>7. ASSUME NEW reg \in Reg, NEW req \in SUBSET Bits(reg),
             UnreportedCrWrite(reg, req)
      PROVE GInv'
  BY <1>3, <1>7 DEF UnreportedCrWrite, CrFault
<1>8. ASSUME NEW r \in MsrRes, NEW req \in MsrVals, NEW fault \in MsrFault,
             ReportedMsrWrite(r, req, fault)
      PROVE GInv'
  <2> DEFINE value == handle_msr_event(r, req, fault).value
  <2>1. value \in MsrVals BY MsrEventType DEF GTypeOK
  <2>2. msr' = [msr EXCEPT ![r] = value] /\ UNCHANGED cr /\ lastFault' \in CrFault
    BY <1>8 DEF ReportedMsrWrite, MsrFault, CrFault
  <2> HIDE DEF value
  <2> QED BY <1>4, <2>1, <2>2
<1>9. ASSUME NEW r \in MsrRes, NEW req \in MsrVals, UnreportedMsrWrite(r, req)
      PROVE GInv'
  BY <1>4, <1>9 DEF UnreportedMsrWrite, CrFault
<1>10. CASE UNCHANGED guardVars
  BY <1>1, <1>2, <1>10 DEF guardVars, GTypeOK, Bits
<1> QED BY <1>5, <1>6, <1>7, <1>8, <1>9, <1>10 DEF GNext

LEMMA GuardInvariance == GSpec => []GInv
BY GuardInit, GuardStep, PTL DEF GSpec

-----------------------------------------------------------------------------
(* Theorems                                                                *)

(* Registers and the table hold values of their types, whatever fails in   *)
(* the event handlers.                                                     *)
THEOREM GuardTypeCorrect == GSpec => []GTypeOK
BY GuardInvariance, PTL DEF GInv

(* In every state that messages and writes can reach, the walk of          *)
(* handle_cr0_event and handle_cr4_event over the slots gives each bit of  *)
(* each possible write what the bit's own policy says, for any number of   *)
(* policies in any order.                                                  *)
THEOREM WalkGivesVerdict == GSpec => []ScanIsVerdict
<1>1. GInv => ScanIsVerdict
  BY EventIsVerdict DEF GInv, TableInv, GTypeOK, ScanIsVerdict
<1> QED BY <1>1, GuardInvariance, PTL

(* An MSR write that the handler recognises is logged exactly if the MSR   *)
(* has a LOG policy, whatever slots the MSR's entry and stale ones are in. *)
LEMMA MsrEventLogs ==
  ASSUME TypeOK, NEW r \in MsrListed, NEW req \in MsrVals
  PROVE handle_msr_event(r, req, "none").logged <=>
          policyInTable[r] # NoPolicy /\ W_HAS_LOG(policyInTable[r])
<1> DEFINE own == SlotsOf(r)
           e == policy_entry[First(own)]
           event == handle_msr_event(r, req, "none")
<1>1. r \in Resource /\ r \notin MsrUnlisted
  BY ResourceAssumption DEF Resource
<1>2. event.logged <=> own # {} /\ W_HAS_LOG(e)
  BY <1>1 DEF handle_msr_event, LogsMsr
<1>3. policyInTable[r] = IF own # {} THEN PolicyOf(e) ELSE NoPolicy
  BY <1>1 DEF policyInTable, InTable
<1>4. own # {} => e \in Entry
  BY FirstIsLeast DEF SlotsOf, TypeOK
<1>5. own # {} => PolicyOf(e) # NoPolicy
  BY <1>4, NoPolicyAssumption DEF Entry, Policy, PolicyOf
<1>6. W_HAS_LOG(PolicyOf(e)) <=> W_HAS_LOG(e) BY DEF PolicyOf, W_HAS_LOG
<1> HIDE DEF event, own, e
<1> QED BY <1>2, <1>3, <1>5, <1>6 DEF event

(* An event asks for a log exactly if the write changes the bit of a LOG   *)
(* policy or writes the MSR of one.                                        *)
THEOREM TouchedAreLogged == GSpec => []LogsTouchedPolicies
<1>1. ASSUME GInv PROVE LogsTouchedPolicies
  <2>1. ASSUME NEW reg \in Reg, NEW req \in SUBSET Bits(reg)
        PROVE handle_cr_event(reg, req, "none").logged <=>
                \E b \in SymDiff(cr[reg], req) \cap CrRes[reg] :
                  policyInTable[b] # NoPolicy /\ W_HAS_LOG(policyInTable[b])
    BY <1>1, EventIsVerdict DEF GInv, TableInv, GTypeOK, Diff
  <2>2. TypeOK BY <1>1 DEF GInv, TableInv
  <2> QED BY <2>1, <2>2, MsrEventLogs DEF LogsTouchedPolicies
<1> QED BY <1>1, GuardInvariance, PTL

(* A step that leaves the table alone leaves every policy as it was.       *)
LEMMA SamePolicies ==
  ASSUME UNCHANGED vars
  PROVE policyInTable' = policyInTable
BY DEF vars, policyInTable, InTable, SlotsOf, PolicyOf

(* What a reported write makes of a bit when nothing keeps the policies    *)
(* from it.                                                                *)
LEMMA ReportedBit ==
  ASSUME GInv, NEW reg \in Reg, NEW req \in SUBSET Bits(reg),
         NEW fault \in CrFault, ReportedCrWrite(reg, req, fault),
         lastFault' = "none",
         NEW r \in CrRes[reg]
  PROVE r \in cr'[reg] <=> BitVerdict(reg, req, r)
<1>1. fault = "none" BY DEF ReportedCrWrite
<1>2. cr'[reg] = Verdict(reg, req)
  BY <1>1, EventIsVerdict DEF ReportedCrWrite, GInv, GTypeOK, TableInv
<1>3. r \notin OtherBits BY Registers
<1> QED BY <1>2, <1>3 DEF Verdict

(* What an unreported write makes of a watched bit: nothing.               *)
LEMMA UnreportedBit ==
  ASSUME GInv, NEW reg \in Reg, NEW req \in SUBSET Bits(reg),
         UnreportedCrWrite(reg, req), NEW r \in monitored
  PROVE r \in cr'[reg] <=> r \in cr[reg]
BY DEF UnreportedCrWrite, GInv, SymDiff

(* What a reported write makes of an MSR under a policy, likewise.         *)
LEMMA ReportedMsr ==
  ASSUME GInv, NEW r \in MsrListed, NEW req \in MsrVals, NEW fault \in MsrFault,
         ReportedMsrWrite(r, req, fault), lastFault' = "none",
         policyInTable[r] # NoPolicy
  PROVE LET p == policyInTable[r]
        IN msr'[r] = IF IF HAS_STICKY(p) THEN req # p.sticky_val
                        ELSE W_HAS_SKIP(p)
                     THEN msr[r] ELSE req
<1> DEFINE p == policyInTable[r]
           e == policy_entry[First(SlotsOf(r))]
<1>1. r \in Resource /\ r \in MsrRes /\ r \notin MsrUnlisted
  BY ResourceAssumption DEF Resource, MsrRes
<1>2. InTable(r) /\ p = PolicyOf(e)
  BY <1>1 DEF policyInTable
<1>3. SlotsOf(r) # {} BY <1>2 DEF InTable
<1>4. /\ HAS_STICKY(p) <=> HAS_STICKY(e)
      /\ W_HAS_SKIP(p) <=> W_HAS_SKIP(e)
      /\ p.sticky_val = e.sticky_val
  BY <1>2 DEF PolicyOf, HAS_STICKY, W_HAS_SKIP
<1>5. fault = "none" BY DEF ReportedMsrWrite
<1>6. msr'[r] = handle_msr_event(r, req, "none").value
  BY <1>1, <1>5 DEF ReportedMsrWrite, GInv, GTypeOK
<1>7. handle_msr_event(r, req, "none").value =
        IF Refuses(e, req) THEN msr[r] ELSE req
  BY <1>1, <1>3 DEF handle_msr_event
<1>8. Refuses(e, req) <=> IF HAS_STICKY(p) THEN req # p.sticky_val
                          ELSE W_HAS_SKIP(p)
  BY <1>4 DEF Refuses
<1> QED BY <1>6, <1>7, <1>8

(* Writes to other registers and MSRs leave a value alone.                 *)
LEMMA OtherRegisters ==
  ASSUME GInv, GNext, UNCHANGED vars
  PROVE /\ \A reg \in Reg :
             \/ cr'[reg] = cr[reg]
             \/ \E req \in SUBSET Bits(reg) :
                  \/ \E fault \in CrFault : ReportedCrWrite(reg, req, fault)
                  \/ UnreportedCrWrite(reg, req)
        /\ \A r \in MsrRes :
             \/ msr'[r] = msr[r]
             \/ \E req \in MsrVals :
                  \/ \E fault \in MsrFault : ReportedMsrWrite(r, req, fault)
                  \/ UnreportedMsrWrite(r, req)
<1>1. cr = [reg \in Reg |-> cr[reg]] /\ msr \in [MsrRes -> MsrVals]
  BY DEF GInv, GTypeOK
<1>2. CASE TableStep BY <1>2 DEF TableStep
<1>3. ASSUME NEW reg \in Reg, NEW req \in SUBSET Bits(reg),
             \/ \E fault \in CrFault : ReportedCrWrite(reg, req, fault)
             \/ UnreportedCrWrite(reg, req)
      PROVE /\ msr' = msr
            /\ \A q \in Reg \ {reg} : cr'[q] = cr[q]
  BY <1>1, <1>3 DEF ReportedCrWrite, UnreportedCrWrite
<1>4. ASSUME NEW r \in MsrRes, NEW req \in MsrVals,
             \/ \E fault \in MsrFault : ReportedMsrWrite(r, req, fault)
             \/ UnreportedMsrWrite(r, req)
      PROVE /\ cr' = cr
            /\ \A q \in MsrRes \ {r} : msr'[q] = msr[q]
  BY <1>1, <1>4 DEF ReportedMsrWrite, UnreportedMsrWrite
<1>5. CASE \E reg \in Reg : \E req \in SUBSET Bits(reg) :
             \/ \E fault \in CrFault : ReportedCrWrite(reg, req, fault)
             \/ UnreportedCrWrite(reg, req)
  <2>1. PICK reg \in Reg : \E req \in SUBSET Bits(reg) :
          \/ \E fault \in CrFault : ReportedCrWrite(reg, req, fault)
          \/ UnreportedCrWrite(reg, req)
    BY <1>5
  <2>2. msr' = msr /\ \A q \in Reg \ {reg} : cr'[q] = cr[q] BY <1>3, <2>1
  <2> QED BY <2>1, <2>2
<1>6. CASE \E r \in MsrRes, req \in MsrVals :
             \/ \E fault \in MsrFault : ReportedMsrWrite(r, req, fault)
             \/ UnreportedMsrWrite(r, req)
  BY <1>4, <1>6
<1> QED BY <1>2, <1>5, <1>6 DEF GNext

(* A pinned bit keeps its value in every step without a fault.             *)
LEMMA PinnedStep ==
  ASSUME GInv, GNext, lastFault' = "none", NEW r \in Resource, Pinned(r)
  PROVE Pinned(r)'
<1> DEFINE p == policyInTable[r]
<1>1. UNCHANGED vars
  BY RegisterSteps DEF Next, handle_msg_policy_enable,
     handle_msg_policy_disable, handle_msg_policy_make_immutable, Pinned
<1>2. policyInTable' = policyInTable BY <1>1, SamePolicies
<1>3. g_policy_immutable' /\ r \in monitored' BY <1>1 DEF vars, Pinned
<1>4. r \in monitored /\ p # NoPolicy /\ HAS_STICKY(p) BY DEF Pinned
<1>5. ASSUME NEW reg \in Reg, r \in CrRes[reg],
             r \in cr[reg] <=> Odd(p.sticky_val)
      PROVE r \in cr'[reg] <=> Odd(p.sticky_val)
  <2>1. CASE cr'[reg] = cr[reg] BY <1>5, <2>1
  <2>2. ASSUME NEW req \in SUBSET Bits(reg), NEW fault \in CrFault,
               ReportedCrWrite(reg, req, fault)
        PROVE r \in cr'[reg] <=> Odd(p.sticky_val)
    <3>1. r \in cr'[reg] <=> BitVerdict(reg, req, r)
      BY <1>5, <2>2, ReportedBit
    <3> QED BY <1>4, <1>5, <3>1 DEF BitVerdict
  <2>3. ASSUME NEW req \in SUBSET Bits(reg), UnreportedCrWrite(reg, req)
        PROVE r \in cr'[reg] <=> Odd(p.sticky_val)
    BY <1>4, <1>5, <2>3, UnreportedBit
  <2> QED BY <1>1, <2>1, <2>2, <2>3, OtherRegisters
<1>6. ASSUME r \in MsrListed, msr[r] = p.sticky_val
      PROVE msr'[r] = p.sticky_val
  <2>1. r \in MsrRes BY <1>6 DEF MsrRes
  <2>2. CASE msr'[r] = msr[r] BY <1>6, <2>2
  <2>3. ASSUME NEW req \in MsrVals, NEW fault \in MsrFault,
               ReportedMsrWrite(r, req, fault)
        PROVE msr'[r] = p.sticky_val
    BY <1>4, <1>6, <2>3, ReportedMsr
  <2>4. ~\E req \in MsrVals : UnreportedMsrWrite(r, req)
    BY <1>4 DEF UnreportedMsrWrite
  <2> QED BY <1>1, <2>1, <2>2, <2>3, <2>4, OtherRegisters
<1>7. CASE \E reg \in Reg : r \in CrRes[reg] /\ (r \in cr[reg]) = Odd(p.sticky_val)
  <2>1. PICK reg \in Reg : r \in CrRes[reg] /\ (r \in cr[reg]) = Odd(p.sticky_val)
    BY <1>7
  <2>2. (r \in cr'[reg]) = Odd(p.sticky_val) BY <1>5, <2>1 DEF Odd
  <2> QED BY <1>2, <1>3, <1>4, <2>1, <2>2 DEF Pinned, Odd, HAS_STICKY
<1>8. CASE r \in MsrListed /\ msr[r] = p.sticky_val
  BY <1>2, <1>3, <1>4, <1>6, <1>8 DEF Pinned, HAS_STICKY
<1> QED BY <1>7, <1>8 DEF Pinned

(* Once the table is immutable, a watched bit or MSR under a sticky policy *)
(* that has its sticky value never loses it, by any write to any register, *)
(* unless a call of the event handler fails or the handler does not        *)
(* recognise the register or the MSR that the instruction names.           *)
THEOREM PinnedStays == GSpec => PinnedForever
<1>1. GInv /\ [GNext]_guardVars =>
        [\A r \in Resource : Pinned(r) =>
           Pinned(r)' \/ lastFault' # "none"]_guardVars
  BY PinnedStep
<1> QED BY <1>1, GuardInvariance, PTL DEF GSpec, PinnedForever

(* The same for a policy that skips writes.                                *)
LEMMA SkippedStep ==
  ASSUME GInv, GNext, lastFault' = "none", NEW r \in monitored,
         policyInTable[r] # NoPolicy, W_HAS_SKIP(policyInTable[r]),
         ~HAS_STICKY(policyInTable[r])
  PROVE /\ \A reg \in Reg : r \in CrRes[reg] =>
             (r \in cr'[reg]) = (r \in cr[reg])
        /\ r \in MsrListed => msr'[r] = msr[r]
<1>1. CASE UNCHANGED <<cr, msr>> BY <1>1
<1>2. CASE UNCHANGED vars
  <2>1. ASSUME NEW reg \in Reg, r \in CrRes[reg]
        PROVE r \in cr'[reg] <=> r \in cr[reg]
    <3>1. CASE cr'[reg] = cr[reg] BY <3>1
    <3>2. ASSUME NEW req \in SUBSET Bits(reg), NEW fault \in CrFault,
                 ReportedCrWrite(reg, req, fault)
          PROVE r \in cr'[reg] <=> r \in cr[reg]
      <4>1. r \in cr'[reg] <=> BitVerdict(reg, req, r)
        BY <2>1, <3>2, ReportedBit
      <4> QED BY <4>1 DEF BitVerdict
    <3>3. ASSUME NEW req \in SUBSET Bits(reg), UnreportedCrWrite(reg, req)
          PROVE r \in cr'[reg] <=> r \in cr[reg]
      BY <3>3, UnreportedBit
    <3> QED BY <1>2, <3>1, <3>2, <3>3, OtherRegisters
  <2>2. ASSUME r \in MsrListed PROVE msr'[r] = msr[r]
    <3>1. r \in MsrRes BY <2>2 DEF MsrRes
    <3>2. ASSUME NEW req \in MsrVals, NEW fault \in MsrFault,
                 ReportedMsrWrite(r, req, fault)
          PROVE msr'[r] = msr[r]
      BY <2>2, <3>2, ReportedMsr
    <3>3. ~\E req \in MsrVals : UnreportedMsrWrite(r, req)
      BY DEF UnreportedMsrWrite
    <3> QED BY <1>2, <3>1, <3>2, <3>3, OtherRegisters
  <2> QED BY <2>1, <2>2
<1> QED BY <1>1, <1>2, RegisterSteps

(* No write ever changes a watched bit or MSR under a SKIP policy, with    *)
(* any other bits in the same write, with the same two exceptions.         *)
THEOREM SkippedStays == GSpec => SkippedKeeps
<1> DEFINE Kept(r) ==
             LET p == policyInTable[r]
             IN /\ p # NoPolicy
                /\ W_HAS_SKIP(p) /\ ~HAS_STICKY(p)
                /\ lastFault' = "none"
                => /\ \A reg \in Reg : r \in CrRes[reg] =>
                        (r \in cr'[reg]) = (r \in cr[reg])
                   /\ r \in MsrListed => msr'[r] = msr[r]
<1>1. GInv /\ [GNext]_guardVars => [\A r \in monitored : Kept(r)]_guardVars
  BY SkippedStep
<1> QED BY <1>1, GuardInvariance, PTL DEF GSpec, SkippedKeeps
=============================================================================
