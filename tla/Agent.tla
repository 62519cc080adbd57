------------------------------- MODULE Agent -------------------------------
(***************************************************************************)
(* The driver's configfs directories (driver/configfs_setup.c, cr0.c,      *)
(* cr4.c, msr.c) in front of the handler's policy table.  A directory like *)
(* cr0/pe is a config item with the attributes enable, write and           *)
(* sticky_value.  Processes make and remove directories and write the      *)
(* attributes, each through a file of its own; configfs serialises the     *)
(* writes of one open file only, and the driver takes no lock.             *)
(*                                                                         *)
(* cr0.c, cr4.c and msr.c have the same stores on the same struct and are  *)
(* one here.  A text that kstrtoul refuses, a name outside the tables and  *)
(* a failing kzalloc of an item change nothing and are left out.  A step   *)
(* is one access to an item, or the hypercall with what the handler makes  *)
(* of its message.                                                         *)
(***************************************************************************)
EXTENDS PolicyTable

CONSTANTS
  Names,        \* directory names, such as "pe" and "PE" in "cr0" and "CR0"
  ResourceOf,   \* ResourceOf[n]: what the name stands for, whatever its case
  Items,        \* bound: the items that can exist at once
  NoItem,
  Procs,
  DEBUG         \* the driver and the handler were built with -DDEBUG

ASSUME AgentAssumption ==
  /\ DEBUG \in BOOLEAN
  /\ ResourceOf \in [Names -> Resource]
  /\ NoItem \notin Items

VARIABLES
  dir,      \* dir[n]: the item of the directory n, or NoItem
  cfg,      \* cfg[o]: struct cr0_cfg, cr4_cfg or msr_cfg of the item o
  proc,     \* proc[p]: the locals of the store that the process p is in
  sender,   \* history: sender[r]: the item whose message for r was handled
            \*   last, unless the handler ignored a later one from it
  contended \* history: items that two processes stored to at once

agentVars == <<vars, dir, cfg, proc, sender, contended>>
history == <<sender, contended>>

Attribute == {"enable", "write", "sticky_value"}
ValuesOf == [enable |-> BOOLEAN, write |-> WriteActions,
             sticky_value |-> StickyVals]

(* ci_name is only used to look the resource up.                           *)
NewCfg(r) == [resource |-> r, enable |-> FALSE, locked |-> FALSE,
              write |-> {}, sticky_value |-> 0]

Idle == [pc |-> "idle", item |-> NoItem, attr |-> "enable", value |-> FALSE,
         msg |-> FreeEntry]

Live == {o \in Items : \E n \in Names : dir[n] = o}
StoringTo(o) == {p \in Procs : proc[p].item = o}

(* group_children_subsys has no default groups: the tree starts without    *)
(* directories.                                                            *)
AgentInit ==
  /\ Init
  /\ dir = [n \in Names |-> NoItem]
  /\ \E r \in Resource : cfg = [o \in Items |-> NewCfg(r)]
  /\ proc = [p \in Procs |-> Idle]
  /\ sender = [r \in Resource |-> NoItem]
  /\ contended = {}

-----------------------------------------------------------------------------
(* Directories                                                             *)

(* mkdir: cr0_make_item and its like.  The memory may be that of an item   *)
(* released before.                                                        *)
make_item(n, o) ==
  /\ dir[n] = NoItem
  /\ o \notin Live /\ StoringTo(o) = {}
  /\ dir' = [dir EXCEPT ![n] = o]
  /\ cfg' = [cfg EXCEPT ![o] = NewCfg(ResourceOf[n])]
  /\ sender' = [r \in Resource |->
                  IF sender[r] = o THEN NoItem ELSE sender[r]]
  /\ UNCHANGED <<vars, proc, contended>>

(* rmdir tells the handler nothing.  The item is released when the last    *)
(* store to it ends.                                                       *)
remove_item(n) ==
  /\ dir[n] # NoItem
  /\ dir' = [dir EXCEPT ![n] = NoItem]
  /\ contended' = contended \ {dir[n]}
  /\ UNCHANGED <<vars, cfg, proc, sender>>

-----------------------------------------------------------------------------
(* Stores                                                                  *)

Goto(p, pc) == proc' = [proc EXCEPT ![p].pc = pc]
Return(p) == proc' = [proc EXCEPT ![p] = Idle]

(* A process writes the value to the attribute file attr in directory n.   *)
store_attribute(p, n, attr, value) ==
  /\ proc[p].pc = "idle"
  /\ dir[n] # NoItem
  /\ proc' = [proc EXCEPT ![p] = [Idle EXCEPT !.pc = "check",
                !.item = dir[n], !.attr = attr, !.value = value]]
  /\ contended' = IF StoringTo(dir[n]) = {} THEN contended
                  ELSE contended \cup {dir[n]}
  /\ UNCHANGED <<vars, dir, cfg, sender>>

(* Is the store refused with -EPERM?  (The mutant forgets the test in      *)
(* store_write.)                                                           *)
Locked_NotWrite(p) ==
  cfg[proc[p].item].locked /\ proc[p].attr # "write"
Locked(p) == cfg[proc[p].item].locked

CheckLocked(p) ==
  /\ proc[p].pc = "check"
  /\ IF Locked(p) THEN Return(p)
     ELSE Goto(p, IF proc[p].attr = "enable" THEN "getWrite" ELSE "assign")
  /\ UNCHANGED <<vars, dir, cfg, history>>

(* store_write and store_sticky_value                                      *)
Assign(p) ==
  LET me == proc[p]
  IN /\ me.pc = "assign"
     /\ cfg' = [cfg EXCEPT ![me.item][me.attr] = me.value]
     /\ Return(p)
     /\ UNCHANGED <<vars, dir, history>>

(* policy_set_cr0 and its like fill the message from the item.             *)
GetWrite(p) ==
  LET item == cfg[proc[p].item]
  IN /\ proc[p].pc = "getWrite"
     /\ proc' = [proc EXCEPT ![p].pc = "getSticky",
                             ![p].msg.resource_id = item.resource,
                             ![p].msg.w_action = item.write]
     /\ UNCHANGED <<vars, dir, cfg, history>>

GetSticky(p) ==
  /\ proc[p].pc = "getSticky"
  /\ proc' = [proc EXCEPT
       ![p].pc = "hypercall",
       ![p].msg.sticky_val = cfg[proc[p].item].sticky_value]
  /\ UNCHANGED <<vars, dir, cfg, history>>

(* policy_set_cr0 frees the message and returns.                           *)
AfterSuccess(p) ==
  proc' = [proc EXCEPT ![p].pc = "setEnable", ![p].msg = FreeEntry]

(* Where store_enable goes on after the hypercall failed.  (The mutant     *)
(* takes its result for success.)                                          *)
AfterFailure_Enable(p) == AfterSuccess(p)
AfterFailure(p) == Return(p)

(* The kzalloc of the message or the hypercall fails.                      *)
HypercallFails(p) ==
  /\ proc[p].pc = "hypercall"
  /\ AfterFailure(p)
  /\ UNCHANGED <<vars, dir, cfg, history>>

(* The hypercall succeeds, but the handler has no memory for the message,  *)
(* cannot copy it or finds the table immutable.  The driver cannot tell.   *)
MessageIgnored(p) ==
  LET me == proc[p]
      r == me.msg.resource_id
  IN /\ me.pc = "hypercall"
     /\ sender' = [sender EXCEPT ![r] = IF @ = me.item THEN NoItem ELSE @]
     /\ AfterSuccess(p)
     /\ UNCHANGED <<vars, dir, cfg, contended>>

MessageHandled(p) ==
  LET me == proc[p]
  IN /\ me.pc = "hypercall"
     /\ \/ me.value /\ handle_msg_policy_enable(me.msg)
        \/ ~me.value /\ handle_msg_policy_disable(me.msg.resource_id)
     /\ sender' = [sender EXCEPT ![me.msg.resource_id] = me.item]
     /\ AfterSuccess(p)
     /\ UNCHANGED <<dir, cfg, contended>>

SetEnable(p) ==
  LET me == proc[p]
  IN /\ me.pc = "setEnable"
     /\ cfg' = [cfg EXCEPT ![me.item].enable = me.value]
     /\ Goto(p, "setLocked")
     /\ UNCHANGED <<vars, dir, history>>

(* Does a successful store_enable lock the item?  (The mutant compares the *)
(* whole of write with POLICY_ACT_STICKY.)                                 *)
Sticky_Only(item) == item.write = {"STICKY"}
Sticky(item) == "STICKY" \in item.write

(* The item is read again: write may not be what the message said.         *)
SetLocked(p) ==
  LET o == proc[p].item
  IN /\ proc[p].pc = "setLocked"
     /\ cfg' = [cfg EXCEPT ![o].locked = @ \/ Sticky(cfg[o])]
     /\ Return(p)
     /\ UNCHANGED <<vars, dir, history>>

store(p) ==
  \/ CheckLocked(p) \/ Assign(p)
  \/ GetWrite(p) \/ GetSticky(p)
  \/ HypercallFails(p) \/ MessageIgnored(p) \/ MessageHandled(p)
  \/ SetEnable(p) \/ SetLocked(p)

-----------------------------------------------------------------------------
(* The debug sysctl                                                        *)

(* A write of 400 to ikgt_agent_debug, and POLICY_DEBUG in the handler:    *)
(* the only way to make the table immutable that the driver has.  A        *)
(* hypercall that fails or is ignored leaves everything as it is, and the  *)
(* other values only print.                                                *)
ikgt_debug ==
  /\ DEBUG
  /\ handle_msg_policy_make_immutable
  /\ UNCHANGED <<dir, cfg, proc, history>>

-----------------------------------------------------------------------------
AgentNext ==
  \/ \E n \in Names, o \in Items : make_item(n, o)
  \/ \E n \in Names : remove_item(n)
  \/ \E p \in Procs :
       \/ \E n \in Names, attr \in Attribute :
            \E value \in ValuesOf[attr] : store_attribute(p, n, attr, value)
       \/ store(p)
  \/ ikgt_debug

AgentSpec == AgentInit /\ [][AgentNext]_agentVars

-----------------------------------------------------------------------------
(* Properties                                                              *)

(* The variables hold values of their types.                               *)
AgentTypeOK ==
  LET Cfg == [resource : Resource, enable : BOOLEAN, locked : BOOLEAN,
              write : WriteActions, sticky_value : StickyVals]
  IN /\ TypeOK
     /\ dir \in [Names -> Items \cup {NoItem}]
     /\ cfg \in [Items -> Cfg]
     /\ \A p \in Procs :
          /\ proc[p].item \in Items \cup {NoItem}
          /\ proc[p].attr \in Attribute
          /\ proc[p].value \in ValuesOf[proc[p].attr]
          /\ proc[p].msg \in Entry
     /\ sender \in [Resource -> Items \cup {NoItem}]
     /\ contended \subseteq Items

(* The item's own last message is the last one the handler handled for its *)
(* resource, and no two stores to the item overlapped.                     *)
InCharge(o) ==
  /\ o \in Live /\ StoringTo(o) = {}
  /\ sender[cfg[o].resource] = o
  /\ o \notin contended

(* What the attribute enable of such an item shows is what the handler     *)
(* does, over any sequence of stores, failed hypercalls, removed           *)
(* directories, directories of the same resource under another name and a  *)
(* table made immutable behind the directory's back.                       *)
EnableIsTrue ==
  \A o \in Items :
    InCharge(o) => (cfg[o].enable <=> InTable(cfg[o].resource))

(* If its policy is sticky, the item is locked: no store to this directory *)
(* can change or disable the policy any more.                              *)
StickyIsLocked ==
  \A o \in Items :
    LET p == policyInTable[cfg[o].resource]
    IN InCharge(o) /\ p # NoPolicy /\ HAS_STICKY(p) => cfg[o].locked

(* No store to the item has passed its test of the lock.                   *)
Untested(o) == \A p \in StoringTo(o) : proc[p].pc = "check"

(* Once the stores that were under way when an item was locked have ended, *)
(* no store passes its test any more and the item does not change, for any *)
(* number of processes, until its directory is removed.                    *)
LockedIsFrozen ==
  [][\A o \in Live :
       cfg[o].locked /\ Untested(o)
         => cfg'[o] = cfg[o] /\ Untested(o)']_agentVars

(* "Sticky is set and locked!" (driver/cr0.c:178): a locked item in charge *)
(* of its resource has a sticky policy with the handler.  False: the lock  *)
(* follows from the attribute write alone, also when enable was set to 0.  *)
LockedMeansSticky ==
  \A o \in Items :
    LET p == policyInTable[cfg[o].resource]
    IN InCharge(o) /\ cfg[o].locked => p # NoPolicy /\ HAS_STICKY(p)
=============================================================================
