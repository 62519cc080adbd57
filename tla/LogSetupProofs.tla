--------------------------- MODULE LogSetupProofs ---------------------------
(***************************************************************************)
(* Proofs about LogSetup for any number of CPUs, any logs and blocks of    *)
(* any size: who owns the log's memory, which writes to it are logged, and *)
(* that log.txt has a log behind it.                                       *)
(***************************************************************************)
EXTENDS LogSetup, TLAPS, FiniteSetTheorems

(* The log has pages.                                                      *)
LEMMA LogHasPages == log_size \in Nat \ {0} /\ 0 \in Pages
<1>1. Cardinality(Cpus) \in Nat \ {0}
  BY SetupAssumption, FS_CardinalityType, FS_EmptySet
<1>2. \A n, m \in Nat \ {0} : n * m \in Nat \ {0}
  OBVIOUS
<1>3. log_size \in Nat \ {0} BY <1>1, <1>2, SetupAssumption DEF log_size
<1> QED BY <1>3 DEF Pages

-----------------------------------------------------------------------------
(* What the driver and the handler know of the log at every step.          *)

(* The driver never gives a log back, and knows one once init_log is done. *)
DriverInv ==
  /\ log_data_gva \in allocated \cup {NULL}
  /\ agent \in {"message", "hypercall", "register", "up"} =>
       log_data_gva \in allocated /\ log_record_seq_num = "live"
  /\ registered => agent = "up"

(* start_log works on a log that is allocated.                             *)
StartInv ==
  /\ g_log_gva \in allocated \cup {NULL}
  /\ start.pc # "idle" => agent = "hypercall" /\ start.log_addr \in allocated
  /\ start.pc \in {"publish", "protect"} => g_log_gva = start.log_addr
  /\ start.pc = "protect" => g_log_data_hva # NULL

(* Nothing is protected before a log is published.                         *)
PublishedFirst ==
  \A b \in Buffers : readonly[b] # {} => g_log_data_hva # NULL

SetupInv ==
  /\ SetupTypeOK
  /\ DriverInv
  /\ StartInv
  /\ LogMemoryOwned
  /\ PublishedFirst
  /\ WritesLogged

LEMMA SetupInit == Init => SetupInv
<1> SUFFICES ASSUME Init PROVE SetupInv OBVIOUS
<1> USE DEF Init
<1>1. SetupTypeOK
  BY LogHasPages DEF SetupTypeOK, Address, Returned, NoAnswer, Access
<1>2. DriverInv BY DEF DriverInv
<1>3. StartInv BY DEF StartInv, Returned
<1>4. LogMemoryOwned BY DEF LogMemoryOwned
<1>5. PublishedFirst BY DEF PublishedFirst
<1>6. WritesLogged BY DEF WritesLogged, NoAnswer
<1> QED BY <1>1, <1>2, <1>3, <1>4, <1>5, <1>6 DEF SetupInv

-----------------------------------------------------------------------------
(* The driver's steps                                                      *)

LEMMA InitLogStep == SetupInv /\ init_log => SetupInv'
<1> SUFFICES ASSUME SetupInv, init_log PROVE SetupInv' OBVIOUS
<1> USE DEF SetupInv, init_log, handlerVars
<1>1. SetupTypeOK'
  <2>1. UNCHANGED <<g_b_init_status, g_log_gva, g_log_data_hva, start, logging,
                    readonly, answer>>
    OBVIOUS
  <2>2. /\ agent' \in {"unloaded", "message", "hypercall", "register", "up",
                       "failed"}
        /\ registered' \in BOOLEAN /\ allocated' \subseteq Buffers
        /\ log_data_gva' \in Address
        /\ log_record_seq_num' \in {"NULL", "live", "freed"}
        /\ failed' \in BOOLEAN
    BY DEF SetupTypeOK, Address, AfterNoLog
  <2> QED BY <2>1, <2>2 DEF SetupTypeOK
<1>2. DriverInv' BY DEF DriverInv, AfterNoLog
<1>3. StartInv' BY DEF StartInv
<1>4. LogMemoryOwned' BY DEF LogMemoryOwned
<1>5. PublishedFirst' /\ WritesLogged' BY DEF PublishedFirst, WritesLogged
<1> QED BY <1>1, <1>2, <1>3, <1>4, <1>5

LEMMA HypercallStep ==
  ASSUME SetupInv, NEW c \in Cpus, ikgt_hypercall(c) PROVE SetupInv'
<1> USE DEF SetupInv, ikgt_hypercall
<1>1. SetupTypeOK'
  <2>1. start' \in [pc : {"idle", "translate", "publish", "protect"},
                    cpu : Cpus \cup {NULL}, log_addr : Address, page : Pages]
    BY LogHasPages DEF SetupTypeOK
  <2>2. agent' \in {"message", "hypercall", "register", "failed"}
        /\ failed' \in BOOLEAN
    BY DEF SetupTypeOK
  <2> QED BY <2>1, <2>2 DEF SetupTypeOK
<1>2. DriverInv' BY DEF DriverInv
<1>3. StartInv' BY DEF StartInv, DriverInv
<1>4. LogMemoryOwned' BY DEF LogMemoryOwned
<1>5. PublishedFirst' /\ WritesLogged' BY DEF PublishedFirst, WritesLogged
<1> QED BY <1>1, <1>2, <1>3, <1>4, <1>5

LEMMA RegisterStep == SetupInv /\ init_configfs_setup => SetupInv'
<1> SUFFICES ASSUME SetupInv, init_configfs_setup PROVE SetupInv' OBVIOUS
<1> USE DEF SetupInv, init_configfs_setup, handlerVars
<1>1. SetupTypeOK' BY DEF SetupTypeOK
<1>2. DriverInv' BY DEF DriverInv
<1>3. StartInv' BY DEF StartInv
<1>4. LogMemoryOwned' BY DEF LogMemoryOwned
<1>5. PublishedFirst' /\ WritesLogged' BY DEF PublishedFirst, WritesLogged
<1> QED BY <1>1, <1>2, <1>3, <1>4, <1>5

LEMMA ExitStep == SetupInv /\ exit_agent => SetupInv'
<1> SUFFICES ASSUME SetupInv, exit_agent PROVE SetupInv' OBVIOUS
<1> USE DEF SetupInv, exit_agent, handlerVars
<1>1. allocated' = allocated BY DEF FreedAtExit
<1>2. SetupTypeOK' BY <1>1 DEF SetupTypeOK, Address
<1>3. DriverInv' BY <1>1 DEF DriverInv
<1>4. StartInv' BY <1>1 DEF StartInv
<1>5. LogMemoryOwned' BY <1>1 DEF LogMemoryOwned
<1>6. PublishedFirst' /\ WritesLogged' BY DEF PublishedFirst, WritesLogged
<1> QED BY <1>2, <1>3, <1>4, <1>5, <1>6

-----------------------------------------------------------------------------
(* The handler's steps                                                     *)

LEMMA TranslateStep == SetupInv /\ TranslateAddress => SetupInv'
<1> SUFFICES ASSUME SetupInv, TranslateAddress PROVE SetupInv' OBVIOUS
<1> USE DEF SetupInv, TranslateAddress, unchangedInStart, ReturnToDriver
<1>1. SetupTypeOK'
  <2>1. start' \in [pc : {"idle", "translate", "publish", "protect"},
                    cpu : Cpus \cup {NULL}, log_addr : Address, page : Pages]
    BY LogHasPages DEF SetupTypeOK, Returned, Address
  <2>2. /\ g_log_gva' \in Address /\ failed' \in BOOLEAN
        /\ agent' \in {agent, "register"}
    BY DEF SetupTypeOK
  <2> QED BY <2>1, <2>2 DEF SetupTypeOK
<1>2. DriverInv' BY DEF DriverInv, StartInv
<1>3. StartInv' BY DEF StartInv, SetupTypeOK, Returned
<1>4. LogMemoryOwned' BY DEF LogMemoryOwned
<1>5. PublishedFirst' /\ WritesLogged' BY DEF PublishedFirst, WritesLogged
<1> QED BY <1>1, <1>2, <1>3, <1>4, <1>5

LEMMA PublishStep == SetupInv /\ PublishLog => SetupInv'
<1> SUFFICES ASSUME SetupInv, PublishLog PROVE SetupInv' OBVIOUS
<1> USE DEF SetupInv, PublishLog, NewLog, unchangedInStart
<1>1. g_log_gva \in allocated /\ g_log_gva # NULL
  BY SetupAssumption DEF StartInv, SetupTypeOK
<1>2. SetupTypeOK' BY DEF SetupTypeOK
<1>3. DriverInv' BY DEF DriverInv
<1>4. StartInv' BY <1>1 DEF StartInv, SetupTypeOK
<1>5. LogMemoryOwned' BY <1>1 DEF LogMemoryOwned
<1>6. PublishedFirst' /\ WritesLogged'
  BY <1>1 DEF PublishedFirst, WritesLogged
<1> QED BY <1>2, <1>3, <1>4, <1>5, <1>6

LEMMA ProtectStep == SetupInv /\ ProtectBlock => SetupInv'
<1> SUFFICES ASSUME SetupInv, ProtectBlock PROVE SetupInv' OBVIOUS
<1> DEFINE blk == Block(start.page)
           next == start.page + BlockPages
<1> USE DEF SetupInv
<1>1. /\ g_log_gva \in allocated /\ g_log_gva \in Buffers
      /\ g_log_data_hva # NULL /\ blk \subseteq Pages
  BY DEF ProtectBlock, StartInv, SetupTypeOK, Block
<1>2. /\ UNCHANGED unchangedInStart
      /\ UNCHANGED <<g_log_gva, g_log_data_hva>>
      /\ \/ readonly' = [readonly EXCEPT ![g_log_gva] = @ \cup blk]
         \/ UNCHANGED readonly
      /\ \/ /\ start' = [start EXCEPT !.page = next] /\ next \in Pages
            /\ agent' = agent
         \/ start' = Returned /\ agent' = "register"
      /\ failed' \in BOOLEAN
      /\ start.pc = "protect"
  BY DEF ProtectBlock, MoreLeft, AfterFailedBlock, ReturnToDriver, SetupTypeOK
<1> HIDE DEF blk, next
<1> USE DEF unchangedInStart
<1>3. SetupTypeOK'
  <2>1. start' \in [pc : {"idle", "translate", "publish", "protect"},
                    cpu : Cpus \cup {NULL}, log_addr : Address, page : Pages]
    BY <1>2, LogHasPages DEF SetupTypeOK, Returned, Address
  <2>2. readonly' \in [Buffers -> SUBSET Pages]
    BY <1>1, <1>2 DEF SetupTypeOK
  <2> QED BY <1>2, <2>1, <2>2 DEF SetupTypeOK
<1>4. DriverInv' BY <1>2 DEF DriverInv, StartInv
<1>5. StartInv' BY <1>2 DEF StartInv, Returned, SetupTypeOK
<1>6. \A b \in Buffers \ {g_log_gva} : readonly'[b] = readonly[b]
  BY <1>2 DEF SetupTypeOK
<1>7. LogMemoryOwned' BY <1>1, <1>2, <1>6 DEF LogMemoryOwned
<1>8. PublishedFirst' /\ WritesLogged'
  BY <1>1, <1>2, <1>6 DEF PublishedFirst, WritesLogged
<1> QED BY <1>3, <1>4, <1>5, <1>7, <1>8

(* A register event, and the end of an event's record.                     *)
LEMMA LoggingStep ==
  ASSUME SetupInv, NEW c \in Cpus,
         handle_cpu_event(c) \/ log_buffer_add_record(c)
  PROVE SetupInv'
<1> USE DEF SetupInv
<1>1. /\ UNCHANGED unchangedInEvent /\ UNCHANGED answer
      /\ \/ logging' = [logging EXCEPT ![c] = g_log_data_hva]
         \/ logging' = [logging EXCEPT ![c] = NULL]
  BY DEF handle_cpu_event, log_buffer_add_record, BeginLogEvent
<1> USE DEF unchangedInEvent, driverVars
<1>2. SetupTypeOK' BY <1>1 DEF SetupTypeOK, Address
<1>3. DriverInv' /\ StartInv' BY <1>1 DEF DriverInv, StartInv
<1>4. \A d \in Cpus : logging'[d] \in {logging[d], g_log_data_hva, NULL}
  BY <1>1 DEF SetupTypeOK
<1>5. LogMemoryOwned' BY <1>1, <1>4 DEF LogMemoryOwned
<1>6. PublishedFirst' /\ WritesLogged'
  BY <1>1 DEF PublishedFirst, WritesLogged
<1> QED BY <1>2, <1>3, <1>5, <1>6

(* A guest access against the permissions of a page.                       *)
LEMMA MemoryStep ==
  ASSUME SetupInv, NEW c \in Cpus, NEW b \in Buffers, NEW page \in Pages,
         NEW attempt \in {{"W"}, {"R", "W"}, {"X"}},
         handle_memory_event(c, b, page, attempt)
  PROVE SetupInv'
<1> DEFINE perms == IF page \in readonly[b] THEN {"R"} ELSE Access
           type == Violation(perms, attempt)
<1> USE DEF SetupInv
<1>1. /\ UNCHANGED unchangedInEvent
      /\ ~(attempt \subseteq perms)
      /\ answer' = [denied |-> attempt \ perms,
                    response |-> IF type = "EXECUTE" THEN "UNSPECIFIED"
                                 ELSE "ALLOW",
                    log |-> logging'[c]]
      /\ IF type = "WRITE"
         THEN logging' = [logging EXCEPT ![c] = g_log_data_hva]
         ELSE logging' = logging
  BY DEF handle_memory_event, BeginLogEvent
<1>2. page \in readonly[b] /\ perms = {"R"}
  BY <1>1 DEF Access
<1>3. attempt \ perms \in {{"W"}, {"X"}} BY <1>1, <1>2
<1>4. g_log_data_hva # NULL BY <1>2 DEF PublishedFirst
<1>5. "W" \in attempt \ perms => type = "WRITE"
  BY <1>2, <1>3 DEF Violation
<1> HIDE DEF perms, type
<1> USE DEF unchangedInEvent, driverVars
<1>6. \A d \in Cpus : logging'[d] \in {logging[d], g_log_data_hva}
  BY <1>1 DEF SetupTypeOK
<1>7. SetupTypeOK'
  <2>1. logging' \in [Cpus -> Address] BY <1>1 DEF SetupTypeOK
  <2>2. answer' \in [denied : SUBSET Access,
                     response : {"ALLOW", "UNSPECIFIED"}, log : Address]
    BY <1>1, <1>3, <2>1 DEF Access
  <2> QED BY <1>1, <2>1, <2>2 DEF SetupTypeOK
<1>8. DriverInv' /\ StartInv' BY <1>1 DEF DriverInv, StartInv
<1>9. LogMemoryOwned' BY <1>1, <1>6 DEF LogMemoryOwned
<1>10. PublishedFirst' BY <1>1 DEF PublishedFirst
<1>11. WritesLogged'
  <2>1. CASE type = "WRITE"
    <3>1. logging'[c] = g_log_data_hva BY <1>1, <2>1 DEF SetupTypeOK
    <3> QED BY <1>1, <1>4, <2>1, <3>1 DEF WritesLogged
  <2>2. CASE type # "WRITE" BY <1>1, <1>5, <2>2 DEF WritesLogged
  <2> QED BY <2>1, <2>2
<1> QED BY <1>7, <1>8, <1>9, <1>10, <1>11

LEMMA StutterStep == SetupInv /\ UNCHANGED vars => SetupInv'
BY DEF SetupInv, vars, driverVars, handlerVars, SetupTypeOK, DriverInv,
       StartInv, LogMemoryOwned, PublishedFirst, WritesLogged

LEMMA SetupStep == SetupInv /\ [Next]_vars => SetupInv'
<1> SUFFICES ASSUME SetupInv, [Next]_vars PROVE SetupInv' OBVIOUS
<1>1. CASE init_agent
  BY <1>1, InitLogStep, HypercallStep, RegisterStep DEF init_agent
<1>2. CASE exit_agent BY <1>2, ExitStep
<1>3. CASE start_log
  BY <1>3, TranslateStep, PublishStep, ProtectStep DEF start_log
<1>4. CASE \E c \in Cpus : handler_event(c)
  BY <1>4, LoggingStep, MemoryStep DEF handler_event
<1>5. CASE UNCHANGED vars BY <1>5, StutterStep
<1> QED BY <1>1, <1>2, <1>3, <1>4, <1>5 DEF Next

LEMMA SetupInvariance == Spec => []SetupInv
BY SetupInit, SetupStep, PTL DEF Spec

-----------------------------------------------------------------------------
(* How far start_log has got with the protection.                          *)

(* One block more is still a whole number of blocks.                       *)
LEMMA OneBlockMore ==
  ASSUME NEW n \in Nat, NEW L \in Nat \ {0}, n % L = 0
  PROVE (n + L) % L = 0
<1> DEFINE p == (n \div L) + 1
           q == (n + L) \div L
           r == (n + L) % L
<1>1. n = L * (n \div L) + (n % L) /\ n \div L \in Int OBVIOUS
<1>2. n + L = L * p /\ p \in Int BY <1>1
<1>3. n + L = L * q + r /\ q \in Int /\ r \in 0 .. L - 1 OBVIOUS
<1> HIDE DEF p, q, r
<1>4. r = L * (p - q) /\ p - q \in Int BY <1>2, <1>3
<1>5. CASE p - q <= 0 BY <1>3, <1>4, <1>5 DEF r
<1>6. CASE p - q >= 1 BY <1>3, <1>4, <1>6
<1> QED BY <1>4, <1>5, <1>6

(* A log that is new to the driver has no protected page, the loop of      *)
(* util_monitor_memory_ex has dealt with the pages before start.page, and  *)
(* without a failure the whole log is protected when it ends.              *)
ProgressInv ==
  /\ start.pc # "idle" <=> agent = "hypercall"
  /\ agent = "hypercall" => start.log_addr = log_data_gva
  /\ agent = "message" => readonly[log_data_gva] = {}
  /\ start.pc \in {"translate", "publish"} =>
       start.page = 0 /\ readonly[log_data_gva] = {}
  /\ start.pc = "protect" =>
       /\ g_log_data_hva = log_data_gva
       /\ start.page % BlockPages = 0
       /\ readonly[log_data_gva] = 0 .. start.page - 1
  /\ agent \in {"register", "up"} /\ ~failed =>
       /\ g_log_data_hva = log_data_gva
       /\ readonly[log_data_gva] = Pages
  /\ ProtectedInBlocks

LEMMA ProgressInit == Init => ProgressInv
<1> SUFFICES ASSUME Init PROVE ProgressInv OBVIOUS
<1>1. ProtectedInBlocks
  <2> SUFFICES ASSUME NEW b \in Buffers
               PROVE \E n \in 0 .. log_size :
                       /\ readonly[b] = 0 .. n - 1
                       /\ n % BlockPages = 0 \/ n = log_size
    BY DEF ProtectedInBlocks
  <2>1. 0 \in 0 .. log_size BY LogHasPages
  <2>2. readonly[b] = 0 .. 0 - 1 BY DEF Init
  <2>3. 0 % BlockPages = 0 BY SetupAssumption
  <2> QED BY <2>1, <2>2, <2>3
<1> QED BY <1>1 DEF Init, ProgressInv, Returned

(* Where the steps below leave readonly alone.                             *)
LEMMA SameBlocks ==
  ASSUME ProgressInv, readonly' = readonly PROVE ProtectedInBlocks'
BY DEF ProgressInv, ProtectedInBlocks, log_size

(* The log is one that nobody has, so none of its pages is read-only.      *)
LEMMA InitLogProgress ==
  ASSUME SetupInv, ProgressInv, init_log PROVE ProgressInv'
<1>1. UNCHANGED <<readonly, start, g_log_data_hva>>
  BY DEF init_log, handlerVars
<1>2. start.pc = "idle"
  BY DEF init_log, ProgressInv, SetupInv, SetupTypeOK
<1>3. CASE agent' = "message"
  <2>1. log_data_gva' \in Buffers \ allocated
    BY <1>3 DEF init_log, AfterNoLog
  <2>2. readonly[log_data_gva'] = {}
    BY <2>1 DEF SetupInv, LogMemoryOwned
  <2> QED BY <1>1, <1>2, <1>3, <2>2, SameBlocks DEF ProgressInv
<1>4. CASE agent' # "message"
  <2>1. agent' = "failed" BY <1>4 DEF init_log, AfterNoLog
  <2> QED BY <1>1, <1>2, <2>1, SameBlocks DEF ProgressInv
<1> QED BY <1>3, <1>4

(* The hypercall fails, is ignored or starts start_log.                    *)
LEMMA HypercallProgress ==
  ASSUME SetupInv, ProgressInv, NEW c \in Cpus, ikgt_hypercall(c)
  PROVE ProgressInv'
<1>1. /\ UNCHANGED <<readonly, g_log_data_hva, log_data_gva>>
      /\ agent = "message" /\ readonly[log_data_gva] = {}
  BY DEF ikgt_hypercall, ProgressInv
<1>2. start.pc = "idle" BY <1>1 DEF ProgressInv, SetupInv, SetupTypeOK
<1>3. CASE agent' = "hypercall"
  <2>1. start' = [pc |-> "translate", cpu |-> c, log_addr |-> log_data_gva,
                  page |-> 0]
    BY <1>3 DEF ikgt_hypercall
  <2> QED BY <1>1, <1>3, <2>1, SameBlocks DEF ProgressInv
<1>4. CASE agent' # "hypercall"
  <2>1. start' = start /\ failed' = TRUE /\ agent' \in {"failed", "register"}
    BY <1>4 DEF ikgt_hypercall
  <2> QED BY <1>1, <1>2, <1>4, <2>1, SameBlocks DEF ProgressInv
<1> QED BY <1>3, <1>4

(* init_configfs_setup and exit_agent come when start_log is done.         *)
LEMMA DriverProgress ==
  ASSUME SetupInv, ProgressInv, init_configfs_setup \/ exit_agent
  PROVE ProgressInv'
<1>1. /\ UNCHANGED <<readonly, start, g_log_data_hva>>
      /\ agent \in {"register", "up"} /\ agent' \in {"up", "unloaded"}
      /\ agent' = "up" => UNCHANGED log_data_gva /\ agent = "register"
      /\ agent' = "up" /\ ~failed' => ~failed
  BY DEF init_configfs_setup, exit_agent, handlerVars, SetupInv, SetupTypeOK
<1>2. start.pc = "idle" BY <1>1 DEF ProgressInv, SetupInv, SetupTypeOK
<1>3. CASE agent' = "up"
  BY <1>1, <1>2, <1>3, SameBlocks DEF ProgressInv
<1>4. CASE agent' = "unloaded"
  BY <1>1, <1>2, <1>4, SameBlocks DEF ProgressInv
<1> QED BY <1>1, <1>3, <1>4

LEMMA TranslateProgress ==
  ASSUME SetupInv, ProgressInv, TranslateAddress PROVE ProgressInv'
<1>1. /\ UNCHANGED <<readonly, g_log_data_hva, log_data_gva>>
      /\ start.pc = "translate" /\ agent = "hypercall"
      /\ \/ start' = [start EXCEPT !.pc = "publish"] /\ agent' = agent
         \/ start' = Returned /\ agent' = "register" /\ failed' = TRUE
  BY DEF TranslateAddress, unchangedInStart, ReturnToDriver, ProgressInv
<1>2. CASE agent' = agent
  <2>1. start' = [start EXCEPT !.pc = "publish"] BY <1>1, <1>2
  <2>2. /\ start'.pc = "publish" /\ start'.page = start.page
        /\ start'.log_addr = start.log_addr
    BY <2>1 DEF SetupInv, SetupTypeOK
  <2> QED BY <1>1, <1>2, <2>2, SameBlocks DEF ProgressInv
<1>3. CASE agent' # agent
  BY <1>1, <1>3, SameBlocks DEF ProgressInv, Returned
<1> QED BY <1>2, <1>3

(* The published log is the one of this driver: g_log_gva was stored in    *)
(* this very call.                                                         *)
LEMMA PublishProgress ==
  ASSUME SetupInv, ProgressInv, PublishLog PROVE ProgressInv'
<1>1. /\ UNCHANGED <<readonly, log_data_gva, agent>>
      /\ start.pc = "publish" /\ agent = "hypercall"
      /\ start' = [start EXCEPT !.pc = "protect"]
      /\ g_log_data_hva' = g_log_gva
  BY DEF PublishLog, NewLog, unchangedInStart, ProgressInv
<1>2. /\ start'.pc = "protect" /\ start'.page = 0
      /\ start'.log_addr = log_data_gva
  BY <1>1 DEF SetupInv, SetupTypeOK, ProgressInv
<1>3. g_log_data_hva' = log_data_gva
  BY <1>1 DEF SetupInv, StartInv, ProgressInv
<1>4. readonly[log_data_gva] = 0 .. 0 - 1 /\ 0 % BlockPages = 0
  BY <1>1, SetupAssumption DEF ProgressInv
<1> QED BY <1>1, <1>2, <1>3, <1>4, SameBlocks DEF ProgressInv

(* One block more: the protected pages stay a run from the first page on,  *)
(* of whole blocks until the last one, which ends with the log.            *)
LEMMA ProtectProgress ==
  ASSUME SetupInv, ProgressInv, ProtectBlock PROVE ProgressInv'
<1> DEFINE page == start.page
           next == page + BlockPages
           done == IF next \in Pages THEN next ELSE log_size
<1>1. /\ UNCHANGED <<g_log_data_hva, log_data_gva, g_log_gva>>
      /\ start.pc = "protect" /\ agent = "hypercall"
      /\ g_log_data_hva = log_data_gva /\ g_log_gva = log_data_gva
      /\ page % BlockPages = 0
      /\ readonly[log_data_gva] = 0 .. page - 1
  BY DEF ProtectBlock, unchangedInStart, ProgressInv, SetupInv, StartInv
<1>2. page \in 0 .. log_size - 1 /\ log_size \in Nat \ {0}
  BY LogHasPages DEF SetupInv, SetupTypeOK, Pages
<1>3. next \in Nat /\ next % BlockPages = 0
  BY <1>1, <1>2, OneBlockMore, SetupAssumption
<1>4. /\ done \in 0 .. log_size
      /\ done % BlockPages = 0 \/ done = log_size
      /\ (0 .. page - 1) \cup Block(page) = 0 .. done - 1
  BY <1>2, <1>3, SetupAssumption DEF Block, Pages
<1>5. CASE UNCHANGED readonly
  <2>1. start' = Returned /\ agent' = "register" /\ failed' = TRUE
    <3>1. CASE AfterFailedBlock /\ failed' = TRUE
      BY <3>1 DEF AfterFailedBlock, ReturnToDriver
    <3>2. CASE readonly' = [readonly EXCEPT ![g_log_gva] = @ \cup Block(page)]
      <4>1. g_log_gva \in Buffers
        BY <1>1 DEF SetupInv, SetupTypeOK, StartInv
      <4>2. page \in readonly'[g_log_gva]
        BY <1>2, <3>2, <4>1, SetupAssumption
        DEF Block, Pages, SetupInv, SetupTypeOK
      <4> QED BY <1>1, <1>2, <1>5, <4>2
    <3> QED BY <3>1, <3>2 DEF ProtectBlock
  <2> QED BY <1>1, <1>5, <2>1, SameBlocks DEF ProgressInv, Returned
<1>6. CASE readonly' # readonly
  <2>1. /\ readonly' = [readonly EXCEPT ![g_log_gva] = @ \cup Block(page)]
        /\ IF next \in Pages
           THEN start' = [start EXCEPT !.page = next] /\ agent' = agent
           ELSE start' = Returned /\ agent' = "register"
    BY <1>6 DEF ProtectBlock, MoreLeft, ReturnToDriver
  <2>2. g_log_gva \in Buffers
    BY <1>1 DEF SetupInv, SetupTypeOK, StartInv
  <2>3. /\ readonly'[log_data_gva] = 0 .. done - 1
        /\ \A b \in Buffers \ {log_data_gva} : readonly'[b] = readonly[b]
    BY <1>1, <1>4, <2>1, <2>2 DEF SetupInv, SetupTypeOK
  <2> HIDE DEF page, done
  <2>4. ProtectedInBlocks'
    <3> SUFFICES ASSUME NEW b \in Buffers
                 PROVE \E n \in 0 .. log_size :
                         /\ readonly'[b] = 0 .. n - 1
                         /\ n % BlockPages = 0 \/ n = log_size
      BY DEF ProtectedInBlocks, log_size
    <3>1. CASE b = log_data_gva BY <1>4, <2>3, <3>1
    <3>2. CASE b # log_data_gva
      BY <2>3, <3>2 DEF ProgressInv, ProtectedInBlocks
    <3> QED BY <3>1, <3>2
  <2>5. CASE next \in Pages
    <3>1. /\ start'.pc = "protect" /\ start'.page = next
          /\ start'.log_addr = start.log_addr /\ agent' = "hypercall"
      BY <1>1, <2>1, <2>5 DEF SetupInv, SetupTypeOK
    <3>2. done = next BY <2>5 DEF done
    <3> QED BY <1>1, <1>3, <2>3, <2>4, <3>1, <3>2 DEF ProgressInv
  <2>6. CASE next \notin Pages
    <3>1. /\ start'.pc = "idle" /\ agent' = "register"
      BY <2>1, <2>6 DEF Returned
    <3>2. 0 .. done - 1 = Pages BY <2>6 DEF done, Pages
    <3>3. Pages' = Pages BY DEF Pages, log_size
    <3> QED BY <1>1, <2>3, <2>4, <3>1, <3>2, <3>3 DEF ProgressInv
  <2> QED BY <2>5, <2>6
<1> QED BY <1>5, <1>6

(* An event touches neither start_log's state nor the permissions.         *)
LEMMA EventProgress ==
  ASSUME ProgressInv, UNCHANGED unchangedInEvent PROVE ProgressInv'
<1>1. UNCHANGED <<agent, log_data_gva, g_log_data_hva, start, readonly,
                  failed>>
  BY DEF unchangedInEvent, driverVars
<1>2. Pages' = Pages BY DEF Pages, log_size
<1> QED BY <1>1, <1>2, SameBlocks DEF ProgressInv

LEMMA ProgressStep ==
  SetupInv /\ ProgressInv /\ [Next]_vars => ProgressInv'
<1> SUFFICES ASSUME SetupInv, ProgressInv, [Next]_vars PROVE ProgressInv'
  OBVIOUS
<1>1. CASE init_agent
  BY <1>1, InitLogProgress, HypercallProgress, DriverProgress DEF init_agent
<1>2. CASE exit_agent BY <1>2, DriverProgress
<1>3. CASE start_log
  BY <1>3, TranslateProgress, PublishProgress, ProtectProgress DEF start_log
<1>4. CASE \E c \in Cpus : handler_event(c)
  BY <1>4, EventProgress
  DEF handler_event, handle_cpu_event, handle_memory_event,
      log_buffer_add_record
<1>5. CASE UNCHANGED vars
  BY <1>5, EventProgress DEF vars, unchangedInEvent, handlerVars
<1> QED BY <1>1, <1>2, <1>3, <1>4, <1>5 DEF Next

LEMMA ProgressInvariance == Spec => []ProgressInv
BY SetupInvariance, ProgressInit, ProgressStep, PTL DEF Spec

-----------------------------------------------------------------------------
(* The results                                                             *)

(* The variables of driver and handler hold values of their types.         *)
THEOREM SetupTypeCorrect == Spec => []SetupTypeOK
<1>1. SetupInv => SetupTypeOK BY DEF SetupInv
<1> QED BY <1>1, SetupInvariance, PTL

(* What the handler may write to, and the pages it made read-only, are     *)
(* never given back to Linux: over any number of loads and removals of the *)
(* driver and events that still run on any CPU.                            *)
THEOREM MemoryOwned == Spec => []LogMemoryOwned
<1>1. SetupInv => LogMemoryOwned BY DEF SetupInv
<1> QED BY <1>1, SetupInvariance, PTL

(* No guest write to a protected page goes unlogged: a log is published    *)
(* before the first page is protected and never withdrawn.                 *)
THEOREM EveryWriteLogged == Spec => []WritesLogged
<1>1. SetupInv => WritesLogged BY DEF SetupInv
<1> QED BY <1>1, SetupInvariance, PTL

(* While log.txt can be opened, dump_log finds its log and its cursors.    *)
THEOREM AlwaysReadable == Spec => []LogReadable
<1>1. SetupInv => LogReadable BY DEF SetupInv, DriverInv, LogReadable
<1> QED BY <1>1, SetupInvariance, PTL

(* The read-only pages of any log, of this driver or an earlier one, are a *)
(* run of whole blocks from its first page on, or all of it.               *)
THEOREM BlocksFromTheFirst == Spec => []ProtectedInBlocks
<1>1. ProgressInv => ProtectedInBlocks BY DEF ProgressInv
<1> QED BY <1>1, ProgressInvariance, PTL

(* A driver that came up without a failure has its own log with the        *)
(* handler, read-only to the last page, on every load.                     *)
THEOREM UpIsInForce == Spec => []LogInForce
<1>1. ProgressInv => LogInForce BY DEF ProgressInv, LogInForce
<1> QED BY <1>1, ProgressInvariance, PTL
=============================================================================
