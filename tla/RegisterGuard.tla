--------------------------- MODULE RegisterGuard ---------------------------
(***************************************************************************)
(* Guest writes to CR0, CR4 and the MSRs, and what the handler's table     *)
(* makes of them (handler/cpu_cr0.c, cpu_cr4.c, cpu_msr.c).  The registers *)
(* are those of one CPU: CPUs share nothing here but the table.            *)
(*                                                                         *)
(* The hypervisor reports every write that changes a monitored bit or      *)
(* writes a monitored MSR; it may report others.  It then applies the      *)
(* handler's response: ALLOW lets the instruction write what its operand   *)
(* holds by now, REDIRECT skips the instruction.                           *)
(***************************************************************************)
EXTENDS PolicyTable

CONSTANTS
  OtherBits,   \* bits of CR0 and CR4 that no resource id names
  MsrVals      \* the values the guest writes to an MSR

ASSUME GuardAssumption ==
  /\ OtherBits \cap (Resource \cup {UNKNOWN}) = {}
  /\ MsrVals \subseteq Nat
  /\ 0 \in MsrVals

VARIABLES
  cr,        \* cr[reg]: the bits of the control register that are 1
  msr,       \* msr[r]: the value of the MSR r
  lastFault  \* history: what kept the policies from the last write, if any

guardVars == <<vars, cr, msr, lastFault>>

CrRes == [CR0 |-> Cr0Res, CR4 |-> Cr4Res]
Reg == DOMAIN CrRes
Bits(reg) == CrRes[reg] \cup OtherBits
MsrRes == MsrListed \cup MsrUnlisted

(* What can keep the policies from a reported write.  "operand": the       *)
(* handler does not know the register or the MSR that the instruction      *)
(* names, although no call fails.  For a CR, operand_reg is                *)
(* IKGT_CPU_REG_UNKNOWN or has no row in the map.  For an MSR, RCX has a   *)
(* bit above the lower 32 set: WRMSR ignores these, switch (rcx) does not  *)
(* and takes its default branch.  "read", "write": read_guest_reg or       *)
(* write_guest_reg fails.                                                  *)
CrFault == {"none", "operand", "read", "write"}
MsrFault == {"none", "operand", "read"}

GInit ==
  /\ Init
  /\ cr \in [Reg -> UNION {SUBSET Bits(reg) : reg \in Reg}]
  /\ \A reg \in Reg : cr[reg] \subseteq Bits(reg)
  /\ msr \in [MsrRes -> MsrVals]
  /\ lastFault = "none"

-----------------------------------------------------------------------------
(* Control registers                                                       *)

Odd(n) == n % 2 = 1
SymDiff(S, T) == (S \ T) \cup (T \ S)

(* Does a write that changes the bits of diff concern the entry?  (The     *)
(* mutant leaves the test out.)                                            *)
Concerns_Always(e, diff) == e.resource_id # UNKNOWN
Concerns(e, diff) == e.resource_id \in diff

(* Does the entry invert its bit in the value new?  (The mutant does not   *)
(* clear a bit whose sticky value is even.)                                *)
Flips_OnlySet(e, new) ==
  IF HAS_STICKY(e) THEN e.resource_id \notin new /\ Odd(e.sticky_val)
  ELSE W_HAS_SKIP(e)

Flips(e, new) ==
  IF HAS_STICKY(e) THEN (e.resource_id \in new) # Odd(e.sticky_val)
  ELSE W_HAS_SKIP(e)

(* (The mutant forgets that an earlier entry asked for a log.)             *)
Logs_Last(e, log) == W_HAS_LOG(e)
Logs(e, log) == log \/ W_HAS_LOG(e)

(* One entry's say on a write that changes the bits of diff: ctx.new is    *)
(* the value the write will have, ctx.log whether to log it.               *)
process_cr_policy(e, diff, ctx) ==
  IF Concerns(e, diff)
  THEN [new |-> IF Flips(e, ctx.new) THEN SymDiff(ctx.new, {e.resource_id})
                ELSE ctx.new,
        log |-> Logs(e, ctx.log)]
  ELSE ctx

(* The walk over the table: ScanTable(...)[i] is ctx after i slots.        *)
ScanTable(reg, cur, req) ==
  LET diff == SymDiff(cur, req) \cap CrRes[reg]
      ctx[i \in 0 .. POLICY_MAX_ENTRIES] ==
        IF i = 0 THEN [new |-> req, log |-> FALSE]
        ELSE process_cr_policy(policy_entry[i - 1], diff, ctx[i - 1])
  IN ctx

(* The event handler of a write of req to reg, which leaves the register   *)
(* with the value it returns.  It allows the write on every fault.         *)
handle_cr_event(reg, req, fault) ==
  LET ctx == ScanTable(reg, cr[reg], req)[POLICY_MAX_ENTRIES]
  IN IF fault \in {"operand", "read"} \/ req = cr[reg]
     THEN [value |-> req, logged |-> FALSE]
     ELSE [value  |-> IF ctx.new = cr[reg] THEN cr[reg]       \* REDIRECT
                      ELSE IF fault = "write" THEN req ELSE ctx.new,
           logged |-> ctx.log]

(* handle_cr0_event or handle_cr4_event, as the register says.             *)
ReportedCrWrite(reg, req, fault) ==
  /\ cr' = [cr EXCEPT ![reg] = handle_cr_event(reg, req, fault).value]
  /\ lastFault' = fault
  /\ UNCHANGED <<vars, msr>>

UnreportedCrWrite(reg, req) ==
  /\ SymDiff(cr[reg], req) \cap monitored = {}
  /\ cr' = [cr EXCEPT ![reg] = req]
  /\ lastFault' = "none"
  /\ UNCHANGED <<vars, msr>>

-----------------------------------------------------------------------------
(* Model-specific registers                                                *)

(* Does the entry refuse the value req?  (Mutants: only sticky policies    *)
(* count; only a lower value than the sticky one is refused.)              *)
Refuses_NoSkip(e, req) == HAS_STICKY(e) /\ req # e.sticky_val
Refuses_Lower(e, req) ==
  IF HAS_STICKY(e) THEN req < e.sticky_val ELSE W_HAS_SKIP(e)
Refuses(e, req) ==
  IF HAS_STICKY(e) THEN req # e.sticky_val ELSE W_HAS_SKIP(e)

(* Does the entry ask for a log of the write?  (The mutant logs only what  *)
(* it allows.)                                                             *)
LogsMsr_Allowed(e, req) == W_HAS_LOG(e) /\ ~Refuses(e, req)
LogsMsr(e, req) == W_HAS_LOG(e)

(* The first entry of the MSR decides; an MSR that the switch of           *)
(* handle_msr_event does not list is allowed.                              *)
handle_msr_event(r, req, fault) ==
  LET own == SlotsOf(r)
      entry == policy_entry[First(own)]
      found == fault = "none" /\ r \notin MsrUnlisted /\ own # {}
  IN [value  |-> IF found /\ Refuses(entry, req) THEN msr[r]    \* REDIRECT
                 ELSE req,
      logged |-> found /\ LogsMsr(entry, req)]

(* A WRMSR to the MSR r; with "operand", RCX is r plus bits above the      *)
(* lower 32.                                                               *)
ReportedMsrWrite(r, req, fault) ==
  /\ msr' = [msr EXCEPT ![r] = handle_msr_event(r, req, fault).value]
  /\ lastFault' = fault
  /\ UNCHANGED <<vars, cr>>

UnreportedMsrWrite(r, req) ==
  /\ r \notin monitored
  /\ msr' = [msr EXCEPT ![r] = req]
  /\ lastFault' = "none"
  /\ UNCHANGED <<vars, cr>>

-----------------------------------------------------------------------------
TableStep == Next /\ lastFault' = "none" /\ UNCHANGED <<cr, msr>>

GNext ==
  \/ TableStep
  \/ \E reg \in Reg : \E req \in SUBSET Bits(reg) :
       \/ \E fault \in CrFault : ReportedCrWrite(reg, req, fault)
       \/ UnreportedCrWrite(reg, req)
  \/ \E r \in MsrRes, req \in MsrVals :
       \/ \E fault \in MsrFault : ReportedMsrWrite(r, req, fault)
       \/ UnreportedMsrWrite(r, req)

GSpec == GInit /\ [][GNext]_guardVars

-----------------------------------------------------------------------------
(* Properties                                                              *)

(* The variables hold values of their types.                               *)
GTypeOK ==
  /\ TypeOK
  /\ \A reg \in Reg : cr[reg] \subseteq Bits(reg)
  /\ msr \in [MsrRes -> MsrVals]
  /\ lastFault \in CrFault

(* What the policies say a write of req to reg should make of a bit, bit   *)
(* by bit and without a table: a sticky bit that the write changes gets    *)
(* its sticky value, a skipped one keeps its value, any other gets the     *)
(* requested one.                                                          *)
BitVerdict(reg, req, b) ==
  LET p == policyInTable[b]
  IN IF p = NoPolicy \/ (b \in cr[reg]) = (b \in req) THEN b \in req
     ELSE IF HAS_STICKY(p) THEN Odd(p.sticky_val)
     ELSE IF W_HAS_SKIP(p) THEN b \in cr[reg]
     ELSE b \in req

Verdict(reg, req) ==
  {b \in CrRes[reg] : BitVerdict(reg, req, b)} \cup (req \cap OtherBits)

(* Walking the slots and flipping bits gives each bit what its own policy  *)
(* says, whatever the order of the entries and the stale contents of the   *)
(* free ones.                                                              *)
ScanIsVerdict ==
  \A reg \in Reg : \A req \in SUBSET Bits(reg) :
    handle_cr_event(reg, req, "none").value = Verdict(reg, req)

(* A write the handler recognises is logged if and only if it changes the  *)
(* bit of a LOG policy, even when the policies then undo all of it, or     *)
(* writes the MSR of one, even when it is refused.                         *)
LogsTouchedPolicies ==
  /\ \A reg \in Reg : \A req \in SUBSET Bits(reg) :
       handle_cr_event(reg, req, "none").logged <=>
         \E b \in SymDiff(cr[reg], req) \cap CrRes[reg] :
           policyInTable[b] # NoPolicy /\ W_HAS_LOG(policyInTable[b])
  /\ \A r \in MsrListed, req \in MsrVals :
       handle_msr_event(r, req, "none").logged <=>
         policyInTable[r] # NoPolicy /\ W_HAS_LOG(policyInTable[r])

(* A resource whose policy is final, watched and not violated at present.  *)
Pinned(r) ==
  LET p == policyInTable[r]
  IN /\ g_policy_immutable
     /\ r \in monitored
     /\ p # NoPolicy
     /\ HAS_STICKY(p)
     /\ \/ \E reg \in Reg :
             r \in CrRes[reg] /\ (r \in cr[reg]) = Odd(p.sticky_val)
        \/ r \in MsrListed /\ msr[r] = p.sticky_val

(* Once an immutable table pins a bit or an MSR to its sticky value, it    *)
(* keeps that value for ever, reported or not and with any other bits in   *)
(* the same write.  It loses it only to a write that the handler lets past *)
(* the table ("allow all other actions by default", handler.c:48): a call  *)
(* it makes fails, or it does not recognise the register or the MSR that   *)
(* the instruction names.                                                  *)
PinnedForever ==
  [][\A r \in Resource :
       Pinned(r) => Pinned(r)' \/ lastFault' # "none"]_guardVars

(* A write to a bit or MSR under a SKIP policy that is watched has no      *)
(* effect, with the same two exceptions.                                   *)
SkippedKeeps ==
  [][\A r \in monitored :
       LET p == policyInTable[r]
       IN /\ p # NoPolicy
          /\ W_HAS_SKIP(p) /\ ~HAS_STICKY(p)
          /\ lastFault' = "none"
          => /\ \A reg \in Reg : r \in CrRes[reg] =>
                  (r \in cr'[reg]) = (r \in cr[reg])
             /\ r \in MsrListed => msr'[r] = msr[r]
    ]_guardVars
=============================================================================
