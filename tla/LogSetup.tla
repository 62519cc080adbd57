------------------------------ MODULE LogSetup ------------------------------
(***************************************************************************)
(* How the event log comes into being: the driver allocates it and hands   *)
(* its address to the handler (driver/main.c, driver/log.c), the handler   *)
(* translates the address, publishes it to log_event on all CPUs and makes *)
(* the pages read-only for the guest, block by block (handler/log.c,       *)
(* handler/utils.c); from then on a guest write to the log is an event     *)
(* that is logged (handler/memory.c).  The driver may be removed and       *)
(* loaded again; the handler stays.  Any call on the way may fail.         *)
(*                                                                         *)
(* What is in the log is LogRing's subject.  A buffer stands for its guest *)
(* address and for the host address it translates to.                      *)
(***************************************************************************)
EXTENDS Naturals, FiniteSets

CONSTANTS
  Cpus,
  Buffers,           \* what kzalloc may return for the log
  LOG_PAGES_PER_CPU,
  BlockPages,        \* IKGT_ADDRINFO_MAX_COUNT: pages in one call
  NULL

ASSUME SetupAssumption ==
  /\ IsFiniteSet(Cpus) /\ Cpus # {}
  /\ NULL \notin Buffers
  /\ LOG_PAGES_PER_CPU \in Nat \ {0}
  /\ BlockPages \in Nat \ {0}

VARIABLES
  \* the driver
  agent,               \* where init_agent is, or what became of it
  registered,          \* the configfs tree, and log.txt, can be used
  allocated,           \* the buffers that kzalloc gave and kfree did not get
  log_data_gva,
  log_record_seq_num,  \* the array of cursors: "NULL", "live" or "freed"
  \* the handler
  g_b_init_status,
  g_log_gva,
  g_log_data_hva,
  start,               \* the locals of start_log
  logging,             \* logging[c]: the log a log_event on c will write to
  readonly,            \* readonly[b]: the pages with PERMISSION_READ only
  \* history
  failed,              \* a call failed since the driver was loaded
  answer               \* what became of the last memory event

driverVars  == <<agent, registered, allocated, log_data_gva,
                 log_record_seq_num>>
handlerVars == <<g_b_init_status, g_log_gva, g_log_data_hva, start, logging,
                 readonly, answer>>
vars == <<driverVars, handlerVars, failed>>

(* size in init_log and g_log_size, in pages.                              *)
log_size == Cardinality(Cpus) * LOG_PAGES_PER_CPU
Pages == 0 .. log_size - 1
Address == Buffers \cup {NULL}

Access == {"R", "W", "X"}

(* start_log is not running.                                               *)
Returned == [pc |-> "idle", cpu |-> NULL, log_addr |-> NULL, page |-> 0]

NoAnswer == [denied |-> {}, response |-> "ALLOW", log |-> NULL]

(* policy_initialize may run out of memory; handler_initialize keeps what  *)
(* it says.                                                                *)
Init ==
  /\ agent = "unloaded"
  /\ registered = FALSE
  /\ allocated = {}
  /\ log_data_gva = NULL
  /\ log_record_seq_num = "NULL"
  /\ g_b_init_status \in BOOLEAN
  /\ g_log_gva = NULL
  /\ g_log_data_hva = NULL
  /\ start = Returned
  /\ logging = [c \in Cpus |-> NULL]
  /\ readonly = [b \in Buffers |-> {}]
  /\ failed = FALSE
  /\ answer = NoAnswer

-----------------------------------------------------------------------------
(* The driver: init_agent and exit_agent                                   *)

(* Mutants of the definitions below have their names with a suffix.        *)

(* No test of what init_log returned.                                      *)
AfterNoLog_GoOn == "message"

(* Where init_agent goes on when init_log returned NULL.  It returns 1:    *)
(* Linux warns of a status above 0 and keeps the module.                   *)
AfterNoLog == "failed"

(* init_log: the cursors, then the log.  The cursors are freed again when  *)
(* there is no memory for the log, and their address is kept.              *)
init_log ==
  /\ agent = "unloaded"
  /\ \/ \E b \in Buffers \ allocated :
          /\ allocated' = allocated \cup {b}
          /\ log_data_gva' = b
          /\ log_record_seq_num' = "live"
          /\ agent' = "message"
          /\ UNCHANGED failed
     \/ /\ log_record_seq_num' \in {"NULL", "freed"}
        /\ agent' = AfterNoLog
        /\ failed' = TRUE
        /\ UNCHANGED <<allocated, log_data_gva>>
  /\ UNCHANGED <<registered, handlerVars>>

(* handler_report_event: every event is allowed, and nothing else happens, *)
(* until the handler is initialised.                                       *)
handler_report_event == g_b_init_status

(* ikgt_hypercall with POLICY_INIT_LOG, from the CPU c.  It fails; or it   *)
(* succeeds although the handler did nothing, being not initialised or     *)
(* without memory for the message, or start_log having got no address; or  *)
(* start_log goes to work.                                                 *)
ikgt_hypercall(c) ==
  /\ agent = "message"
  /\ logging[c] = NULL
  /\ \/ /\ agent' = "failed"
        /\ failed' = TRUE
        /\ UNCHANGED start
     \/ /\ agent' = "register"
        /\ failed' = TRUE
        /\ UNCHANGED start
     \/ /\ handler_report_event /\ log_data_gva # NULL
        /\ agent' = "hypercall"
        /\ start' = [pc |-> "translate", cpu |-> c,
                     log_addr |-> log_data_gva, page |-> 0]
        /\ UNCHANGED failed
  /\ UNCHANGED <<registered, allocated, log_data_gva, log_record_seq_num,
                 g_b_init_status, g_log_gva, g_log_data_hva, logging,
                 readonly, answer>>

(* init_agent returns 0 even when the registration fails.                  *)
init_configfs_setup ==
  /\ agent = "register"
  /\ agent' = "up"
  /\ \/ registered' = TRUE /\ UNCHANGED failed
     \/ failed' = TRUE /\ UNCHANGED registered
  /\ UNCHANGED <<allocated, log_data_gva, log_record_seq_num, handlerVars>>

(* The log is freed with the module.                                       *)
FreedAtExit_Log == {log_data_gva}

(* What exit_agent frees.                                                  *)
FreedAtExit == {}

(* rmmod: the module's variables are gone and the log stays allocated.     *)
(* The handler is not told.  (Removing a module whose init_agent failed    *)
(* unregisters what was never registered; that is not modelled.)           *)
exit_agent ==
  /\ agent = "up" /\ registered
  /\ agent' = "unloaded"
  /\ registered' = FALSE
  /\ allocated' = allocated \ FreedAtExit
  /\ log_data_gva' = NULL
  /\ log_record_seq_num' = "NULL"
  /\ failed' = FALSE
  /\ UNCHANGED handlerVars

-----------------------------------------------------------------------------
(* The handler: start_log, on the CPU that made the hypercall              *)

(* The VMCALL returns SUCCESS whatever start_log met.                      *)
ReturnToDriver == start' = Returned /\ agent' = "register"

unchangedInStart ==
  <<registered, allocated, log_data_gva, log_record_seq_num,
    g_b_init_status, logging, answer>>

(* The address is stored before its translation, which may fail.           *)
TranslateAddress ==
  /\ start.pc = "translate"
  /\ g_log_gva' = start.log_addr
  /\ \/ start' = [start EXCEPT !.pc = "publish"] /\ UNCHANGED <<agent, failed>>
     \/ ReturnToDriver /\ failed' = TRUE
  /\ UNCHANGED <<unchangedInStart, g_log_data_hva, readonly>>

(* An address of an earlier driver is kept.                                *)
NewLog_Keep == IF g_log_data_hva # NULL THEN g_log_data_hva ELSE g_log_gva

(* The host address that start_log stores.                                 *)
NewLog == g_log_gva

PublishLog ==
  /\ start.pc = "publish"
  /\ g_log_data_hva' = NewLog
  /\ start' = [start EXCEPT !.pc = "protect"]
  /\ UNCHANGED <<unchangedInStart, agent, g_log_gva, readonly, failed>>

(* The block starts one page late.                                         *)
Block_Late(page) ==
  {p \in Pages : page < p /\ p <= page + BlockPages}

(* The pages of util_monitor_memory's call when page is the first one that *)
(* util_monitor_memory_ex has not dealt with.                              *)
Block(page) == {p \in Pages : page <= p /\ p < page + BlockPages}

(* The size is reduced by whole blocks, so that it wraps around below 0    *)
(* instead of becoming 0.                                                  *)
MoreLeft_Wraps(page) == TRUE

(* while (size): does the loop go on at page?                              *)
MoreLeft(page) == page \in Pages

(* The protection starts over after a block that failed.                   *)
AfterFailedBlock_StartOver ==
  start' = [start EXCEPT !.page = 0] /\ UNCHANGED agent

(* util_monitor_memory_ex breaks out of its loop; start_log ignores that.  *)
AfterFailedBlock == ReturnToDriver

(* One iteration of util_monitor_memory_ex: the call for a whole block     *)
(* changes the permission of all its pages, or it fails, for lack of       *)
(* memory, on a page's translation or in the hypervisor, and changes none. *)
(* The last is an assumption on the hypervisor: that its call              *)
(* ikgt_update_page_permission, when it returns an error, has changed no   *)
(* page of the list it was given.                                          *)
ProtectBlock ==
  LET blk == Block(start.page)
      next == start.page + BlockPages
  IN /\ start.pc = "protect"
     /\ \/ /\ readonly' = [readonly EXCEPT ![g_log_gva] = @ \cup blk]
           /\ IF MoreLeft(next)
              THEN start' = [start EXCEPT !.page = next] /\ UNCHANGED agent
              ELSE ReturnToDriver
           /\ UNCHANGED failed
        \/ /\ AfterFailedBlock
           /\ failed' = TRUE
           /\ UNCHANGED readonly
     /\ UNCHANGED <<unchangedInStart, g_log_gva, g_log_data_hva>>

start_log == TranslateAddress \/ PublishLog \/ ProtectBlock

-----------------------------------------------------------------------------
(* The handler: events on any CPU that is not in the hypercall             *)

unchangedInEvent == <<driverVars, g_b_init_status, g_log_gva, g_log_data_hva,
                      start, readonly, failed>>

(* log_event reads the address of the log once.                            *)
BeginLogEvent(c) == logging' = [logging EXCEPT ![c] = g_log_data_hva]

(* A register event under a LOG policy.                                    *)
handle_cpu_event(c) ==
  /\ handler_report_event
  /\ c # start.cpu /\ logging[c] = NULL
  /\ BeginLogEvent(c)
  /\ UNCHANGED <<unchangedInEvent, answer>>

(* The classification looks at what was attempted only.                    *)
Violation_Attempted(perms, attempt) ==
  CASE "X" \in attempt -> "EXECUTE"
    [] "X" \notin attempt /\ "R" \in attempt -> "READ"
    [] attempt = {"W"} -> "WRITE"
    [] OTHER -> "UNKNOWN"

(* violation_type_t: the first access, in the order execute, read, write,  *)
(* that was attempted and not permitted.                                   *)
Violation(perms, attempt) ==
  LET denied == attempt \ perms
  IN CASE "X" \in denied -> "EXECUTE"
       [] "X" \notin denied /\ "R" \in denied -> "READ"
       [] denied = {"W"} -> "WRITE"
       [] OTHER -> "UNKNOWN"

(* The guest on c accesses a page of b against its permissions; a          *)
(* read-modify-write attempts both.  Only a write is logged, and an        *)
(* execution is left without a response.                                   *)
handle_memory_event(c, b, page, attempt) ==
  LET perms == IF page \in readonly[b] THEN {"R"} ELSE Access
      type == Violation(perms, attempt)
  IN /\ handler_report_event
     /\ c # start.cpu /\ logging[c] = NULL
     /\ ~(attempt \subseteq perms)
     /\ IF type = "WRITE" THEN BeginLogEvent(c) ELSE UNCHANGED logging
     /\ answer' = [denied |-> attempt \ perms,
                   response |-> IF type = "EXECUTE" THEN "UNSPECIFIED"
                                ELSE "ALLOW",
                   log |-> logging'[c]]
     /\ UNCHANGED unchangedInEvent

(* The record goes to the log that was read, by now perhaps an old one.    *)
log_buffer_add_record(c) ==
  /\ logging[c] # NULL
  /\ logging' = [logging EXCEPT ![c] = NULL]
  /\ UNCHANGED <<unchangedInEvent, answer>>

-----------------------------------------------------------------------------
init_agent ==
  init_log \/ (\E c \in Cpus : ikgt_hypercall(c)) \/ init_configfs_setup

handler_event(c) ==
  \/ handle_cpu_event(c)
  \/ \E b \in Buffers, page \in Pages, attempt \in {{"W"}, {"R", "W"}, {"X"}} :
       handle_memory_event(c, b, page, attempt)
  \/ log_buffer_add_record(c)

Next ==
  \/ init_agent
  \/ exit_agent
  \/ start_log
  \/ \E c \in Cpus : handler_event(c)

(* The handler runs to its end in root mode, so start_log takes its steps. *)
(* Nothing makes anybody load or remove the driver.                        *)
Spec == Init /\ [][Next]_vars /\ WF_vars(start_log)

-----------------------------------------------------------------------------
(* Properties                                                              *)

(* The variables hold values of their types.                               *)
SetupTypeOK ==
  /\ agent \in {"unloaded", "message", "hypercall", "register", "up",
                "failed"}
  /\ registered \in BOOLEAN
  /\ allocated \subseteq Buffers
  /\ log_data_gva \in Address
  /\ log_record_seq_num \in {"NULL", "live", "freed"}
  /\ g_b_init_status \in BOOLEAN
  /\ g_log_gva \in Address
  /\ g_log_data_hva \in Address
  /\ start \in [pc : {"idle", "translate", "publish", "protect"},
                cpu : Cpus \cup {NULL}, log_addr : Address, page : Pages]
  /\ logging \in [Cpus -> Address]
  /\ readonly \in [Buffers -> SUBSET Pages]
  /\ failed \in BOOLEAN
  /\ answer \in [denied : SUBSET Access, response : {"ALLOW", "UNSPECIFIED"},
                 log : Address]

(* Nobody tells the handler that the driver is gone, so whatever it may    *)
(* still write to, and whatever it made read-only, must stay allocated:    *)
(* through removals, new loads, failed calls and events in flight.         *)
LogMemoryOwned ==
  /\ {g_log_data_hva} \ {NULL} \subseteq allocated
  /\ \A c \in Cpus : {logging[c]} \ {NULL} \subseteq allocated
  /\ \A b \in Buffers : readonly[b] # {} => b \in allocated

(* The read-only part of a log is a run of whole blocks from its first     *)
(* page on, wherever the protection stopped, provided the hypervisor's     *)
(* call changes all pages of a block or none.                              *)
ProtectedInBlocks ==
  \A b \in Buffers :
    \E n \in 0 .. log_size :
      /\ readonly[b] = 0 .. n - 1
      /\ n % BlockPages = 0 \/ n = log_size

(* When the driver is up and no call failed, the handler writes to the log *)
(* this driver reads, and all of it is read-only: also after a removal and *)
(* a new load, when the handler already had a log.                         *)
LogInForce ==
  agent = "up" /\ ~failed =>
    /\ g_log_data_hva = log_data_gva
    /\ readonly[log_data_gva] = Pages

(* Every guest write to a read-only page of any log is logged and let      *)
(* through, from the first page that is protected on and while the rest    *)
(* is: the address is published before the protection, and a               *)
(* read-modify-write is a write.                                           *)
WritesLogged ==
  "W" \in answer.denied => answer.log # NULL /\ answer.response = "ALLOW"

(* log.txt can be opened only when there is a log behind it: dump_log      *)
(* tests neither log_data_gva nor whether its cursors were freed.          *)
LogReadable ==
  registered => log_record_seq_num = "live" /\ log_data_gva \in allocated

(* start_log comes to an end, whatever fails on its way, and the driver    *)
(* gets on.                                                                *)
StartLogEnds == agent = "hypercall" ~> agent = "register"
=============================================================================
