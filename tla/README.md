# A TLA+ verification of the iKGT example usage

The repository is an example *usage* of iKGT: a Linux driver (`driver/`) through
which an administrator states which writes to CR0, CR4 and a few MSRs the guest
may make, and a handler (`handler/`), a plugin of the xmon hypervisor, that
enforces it. This directory holds a TLA+ model of both, the TLC runs that check
it and TLAPS proofs about it. Paths below are relative to the repository's root
(`src/` in `PROJECT.json`).

To run a check: `tlc -config X.cfg M` for the runs of `PROJECT.json`; `tlapm M.tla`
for the proofs, which are in the eight modules `*Proofs`.

## 1. Inventory

| Component | State | Operations | Correct when |
|---|---|---|---|
| policy table (`handler/policy.c`) | `g_policy_table` (slots, `num_entries`), `g_policy_immutable` | messages enable, disable, make immutable | one entry per resource, the last one enabled; the hypervisor watches exactly those; final once immutable |
| register events (`handler/cpu*.c`) | none of its own; reads the table, reads and writes guest registers | `handle_cr0_event`, `handle_cr4_event`, `handle_msr_event` | each bit or MSR gets what its policy says and only that; LOG policies are logged |
| event log, handler side (`handler/log.c`) | a ring and a head per CPU, in the driver's memory; `g_log_*` | `log_event`, `start_log` (`stop_log` has no caller) | records whole before the head shows them; only the log in force is written |
| event log, driver side (`driver/log.c`) | a cursor per CPU | `init_log`, `dump_log` | the events shown whole, in order and without a gap unless overwritten |
| message dispatch (`handler/message.c`, `handler.c`) | `g_b_init_status` | `handler_initialize`, `handler_report_event`, `handle_msg_event` | a message is handled whole or ignored |
| configfs agent (`driver/cr0.c`, `cr4.c`, `msr.c`, `configfs_setup.c`) | one item per directory: `enable`, `locked`, `write`, `sticky_value` | mkdir, rmdir, store of each attribute | what it shows and locks agrees with the handler |
| driver start and stop (`driver/main.c`) | log memory, the configfs tree | `init_agent` sends `POLICY_INIT_LOG`; `exit_agent` tells nobody and leaves the log allocated | the handler never has memory that Linux gave away |
| memory protection and events (`handler/utils.c`, `memory.c`) | page permissions of the hypervisor | `util_monitor_memory_ex`, `handle_memory_event` | the log's pages are protected from the first one on; writes to them are logged |
| policy script (`policy/parse_policy.py`) | the policy file | makes directories, echoes values | the handler enforces what the file says |
| debug sysctl (`driver/debug.c`) | - | a write of 400 sends `POLICY_MAKE_IMMUTABLE`; others print | - |
| build, handler headers | - | - | - |

How they interact: a process writes a configfs attribute; the driver sends a
`policy_message_t` by the hypercall `IKGT_POLICY_MSG`; the guest exits to the
hypervisor on that CPU, which calls `handler_report_event`; the handler copies
the message out of guest memory, changes the table and asks the hypervisor to
watch the resource. Later a guest write to it exits in the same way, and the
handler answers ALLOW or REDIRECT (skip the instruction) and may change the
register that holds the operand. Logged events go to the ring of the CPU; the
driver reads the rings when a process reads `log.txt`. The handler's answer
never reaches the driver: the hypercall succeeds once the message is delivered.

What is hard here: **no component takes a lock.** The handler runs on every CPU
at its exits, the rings are shared between guest and hypervisor without
synchronisation, and the stores of two processes to one item interleave.
Statuses are dropped: allocation, translation, register access and monitoring
can each fail, and the code goes on, mostly by allowing. `PROJECT.json` lists
these hazards at their lines.

## 2. Modules

    PolicyTypes          resources, actions, entries
      PolicyTable        the table and its messages      --implements-->  PolicyStore
        PolicyTableSmp   the same, access by access, on several CPUs
        RegisterGuard    writes to CR0, CR4 and MSRs against the table
          GuardSmp       both: events and messages, field by field  -->  PolicyStore
        Agent            configfs items and hypercalls in front of the table
          PolicyScript   the script in front of the agent
        PolicyTableProofs, PolicyTableSmpProofs, RegisterGuardProofs,
        GuardSmpProofs, AgentProofs
    LogRing              the rings, the handler that fills them, the driver that reads
        LogRingProofs (writer, cursor), LogRingReaderProofs
    LogSetup             from kzalloc to read-only pages, and the driver's removal
        LogSetupProofs

- **PolicyTypes** is `policy_common.h` and `policy.h`. A resource id of CR0 or
  CR4 stands for its bit, so a register is the set of its bits that are 1. The
  classes of resources are constants; `MsrUnlisted` is the set of MSRs for which
  `res_id_to_msr` finds nothing (STAR and LSTAR in `cpu_msr.c`). Messages carry
  the ids of these classes only, which are the ones in the driver's tables.
- **PolicyStore** is the promise: a function from resources to policies that
  enable, disable and make-immutable messages change.
- **PolicyTable** is `policy.c`: slots, `num_entries`, the flag. One action per
  message, with everything the message does: the scans, the slot's stale fields,
  the count, the call to the hypervisor and its possible refusal. `monitored` is
  the hypervisor's state; `monitor_failed` is history for the properties.
- **PolicyTableSmp** takes the same handlers apart. A step is one access to
  shared memory: one id compared in a scan, the copy of an entry, the load and
  the store of `num_entries`, the test of the flag, the hypervisor's call.
  Whether xmon lets two CPUs into the handler at once cannot be read in this
  repository; the constant `Serialised` states it, and both cases are checked.
  The copy of one entry is one step here; GuardSmp takes it apart.
- **RegisterGuard** adds one CPU's registers. `handle_cr_event` walks the slots
  as the code does, flipping bits of the new value; `handle_msr_event` lets the
  first entry of the MSR decide. Both say whether the event is logged. The one
  function `handle_cr_event` stands for `handle_cr0_event` and `handle_cr4_event`,
  which differ in the register they name. `CrFault` and `MsrFault` are what lets a
  reported write past the policies: a register that cannot be read or written,
  and an operand that the handler does not recognise though no call fails. That
  is an unknown operand register for a CR, and for an MSR a number in RCX with
  bits above the lower 32, which WRMSR ignores and `switch (rcx)`
  (`cpu_msr.c:125`) does not. `lastFault` is history: the fault of the last
  write. The hypervisor's part is external: it reports at least the writes that
  change a watched bit or go to a watched MSR.
- **GuardSmp** composes the two: CPUs in the message handlers of PolicyTableSmp,
  which here store the fields of an entry one by one in any order, and one CPU in
  `handle_cr0_event` or `handle_cr4_event`, which here reads the id, the action
  and the sticky value of a slot one by one. No lock keeps them apart. `touched`
  and `settled` are history.
- **LogRing** has the handler's stores to a record in any order, then the head
  (`meta.head++` is the last store in the source, and x86 keeps stores in order;
  the order of the fields among themselves does not matter and is left open),
  and `dump_log` one shared access per step, the struct copy field by field.
  A record is its number, one field for all that it says, and `valid`. A page is
  full after `PageMin` to `PageMax` records: records have different lengths, so
  where a page ends is left open within that range. The record that fills it is
  cut short, or it ends exactly at the end of the page (`exact`): it is then on
  the page whole, and the cursor goes back to it all the same
  (`driver/log.c:104`). `filled` is the history of such records.
- **LogSetup** is the life of the log: `init_agent` with each failure on its way,
  the hypercall that may succeed without effect, `start_log` (store the address,
  translate, publish, protect block by block, each of which may fail), events on
  other CPUs that have read the log's address and not yet written the record,
  `handle_memory_event`, `exit_agent` and new loads. `handler_initialize` is in
  the initial states: it returns nothing, so the system goes on with either value
  of `g_b_init_status`. A buffer stands for its guest and its host address; what
  is in it is LogRing's subject. `ikgt_update_page_permission` is external and
  called for a block of pages at once; it is assumed to change no page when it
  fails.
- **Agent** has items, directories and processes in a store. `cr0.c`, `cr4.c`
  and `msr.c` contain the same functions but for names, and are one here. The
  stores read `locked`, `write` and `sticky_value` in steps of their own. The
  hypercall may fail; it may succeed and the handler may ignore the message (no
  memory, copy failed, table immutable); or the message is an action of
  PolicyTable. configfs (external) serialises the writes through one open file
  only, and keeps an item until its last store has ended. A file is opened for
  one write. With `DEBUG`, the sysctl makes the table immutable at any time.
- **PolicyScript** lets the script drive the agent, without failures.
- **MC\*** modules give constants their values. Mutants: an operator with a
  suffix (`Flips_OnlySet`) is the operator named before the suffix with a
  plausible mistake in it; every checked property is violated by one of them.

## 3. What the runs check

| Run | Question | Bounds |
|---|---|---|
| PolicyTable | Is the table right after any history of messages, and does it implement PolicyStore? | 3 resources, one of each kind that `policy_set_monitor` tells apart; 4896 states, all of them |
| StarUnmonitored | Is every enabled policy watched? **No** | same |
| RegisterGuardCr | Does the walk over the slots give each bit its policy's verdict? Are pinned and skipped bits kept? | 2 bits, so that entries come in both orders and a write can touch one or both |
| RegisterGuardMsr | The same for an MSR and CR4 sharing the table: are the right writes logged, pinned and skipped? | 1 bit, 1 MSR, 2 values |
| LogRing | Are the events shown whole, in order and without a gap? Are those of the first CPU delivered? | 2 CPUs, rings of 2 (wrap and overtake), pages of 1 to 3, 3 events a CPU |
| LogTwoReadersCount | Does `read_logs` get a sensible count with two readers? **No** | 1 CPU, ring of 3, 2 events |
| SmpConcurrent | With two messages at once, do loops stay in bounds and does immutability hold in the end? | 2 CPUs, 2 resources |
| GuardSmp | With one message at a time, is every partial state harmless to the store and to the events of other CPUs? | 2 bits of CR0, the actions none, SKIP and STICKY, sticky value 0; 1.2 million states |
| LogSetup | Does the handler only ever write to memory it may have, and are writes to the log logged? | 2 CPUs, memory for 3 logs, so 3 loads; 4 pages in blocks of 3 |
| Agent | Does the driver's view agree with the handler's? | 2 processes, 2 names of one resource, 2 items; 2.6 million states |
| LockedNotSticky | Does a lock mean a sticky policy? **No** | 1 process, 1 item |
| ScriptOrder | Does the handler enforce the policy file? **No** | 1 directory |

The properties, and why the bounds reach what they are about:

- *UniqueEntries, NumEntriesExact, NeverFull, MonitoredExactly,
  ImplementsStore*: any two resources already use every branch of the scans
  (own slot before or after a free one); the proofs cover the rest.
- *ScanIsVerdict* compares the code's walk with a definition that knows no
  slots; *LogsTouchedPolicies* does the same for the log, of CRs and MSRs.
  *PinnedForever*: once the table is immutable, a watched sticky bit or MSR that
  has its value keeps it. *SkippedKeeps* likewise for SKIP. Both except the writes
  that the handler lets past the table (`lastFault`): a call fails, or the operand
  is not recognised. So neither would catch a further write of this kind, and
  **a guest write to a watched, pinned MSR with a bit above the lower 32 of RCX
  set does go through**. Two bits are enough for a write that is partly refused
  (the code then changes the operand) and one that is wholly refused (REDIRECT).
- *RetainedWindow* is what the lock-free reader relies on; *ReadsNewest* is the
  index arithmetic of `read_logs` under a running writer; *EventsInOrder*
  covers many dumps and full pages, and allows one repetition: that of a record
  which ended exactly at the end of a page. They are conditional on the handler not
  having overwritten what was not delivered (`lapped`), which the code cannot
  prevent. A ring of 2 with 3 events wraps and can be overtaken; `UINT32` is as
  small as the rings allow.
- *FrozenOnceQuiet*: without any lock, a message that passed its test before
  another CPU set the flag may still change the table, and nothing else may.
- *UntouchedVerdict*: an event may read a slot while it is half copied, half freed
  or given to another resource, and may pass a slot before an entry moves into
  it. It is then wrong at most about the resources of messages that were in the
  handler meanwhile: for those it may mix the id of one policy with the action of
  another. Two bits are the resource of the message and another. Monitoring is
  never refused in this run (`MayRefuse`), and `Relevant` is a bound: of messages
  that differ only in what their handler does not read, it keeps one. Messages
  come one at a time here (`Serialised = TRUE`); that is a hypothesis of this run,
  and nothing in the repository enforces it.
- *PinnedUnlessInFlight*: the exception of `touched` is needed. An event that
  began before an enable or before make-immutable may end after it and write what
  the old policy said over a bit that is pinned by now. No other event can, which
  takes the walk, the messages and the flag together.
- *ImplementsStoreByField*: a message takes effect at one store, the last field
  of its entry or the freed id. `settled` leaves half copies out by its
  definition; what they are to a reader is the subject of UntouchedVerdict.
  *WatchedHaveEntries*: at every access of a message, a resource that is watched
  has its entry, because enable adds it first and disable frees it last.
- *LogMemoryOwned*: all of what the handler may still write to, or has made
  read-only, is allocated. It holds because the log is never freed, not even by
  `exit_agent`: a leak by design, as the handler is not told. Three loads reach a
  removal during an event and a start that fails with an older log in force.
- *LogInForce* (no call failed since the load), *WritesLogged* and
  *ProtectedInBlocks* (whatever failed) say what the protection is worth. The
  last block of 4 pages in blocks of 3 is shorter, where the unsigned size in
  `util_monitor_memory_ex` must reach 0 exactly.
- *LogReadable*: `dump_log` tests only whether the cursors are NULL, so there must
  be no `log.txt` without a log; after a failed allocation `log_record_seq_num`
  dangles.
- *EnableIsTrue* and *StickyIsLocked* hold for the item whose message was the
  last one handled for its resource, if no two stores to it overlapped; overlap
  breaks both (`cr0.c:188` reads `write` again), as the hazards say.
  *LockedIsFrozen* holds for any interleaving: only a store that had passed its
  test before the lock was set changes a locked item. The run uses an MSR
  without monitoring, to keep the hypervisor out of the state space.

**Symmetry** is used for CPUs, processes, items and names, and in GuardSmp for
the bits of CR0, in runs without liveness only. **Deadlock** is not checked where a bound (`MaxSeq`,
`MaxCount`) stops the model or the work is done: the script ends, and a driver
whose start failed is not removed.

**Fairness.** *FirstCpuDelivered* assumes that a process polls `log.txt` and
never stops inside `dump_log`, which loops without waiting (`WF` of
`dump_log(r)`). Nothing is assumed of the handler there: it may stop logging
between any two stores. *StartLogEnds* assumes that `start_log` takes its steps
(`WF(start_log)`): it runs to its end in root mode on a CPU that can do nothing
else. Nothing makes anybody load or remove the driver.

### Disagreements found

1. **STAR and LSTAR are never watched** (`cpu_msr.c:42`, run StarUnmonitored):
   the driver offers them, the handler stores the policy and drops the error.
2. **Two readers of `log.txt`** (`driver/log.c:215`, run LogTwoReadersCount): the
   shared cursor overtakes the head one of them read, and the count wraps.
3. **Locked without a sticky policy** (`cr0.c:188`, run LockedNotSticky): writing
   0 to `enable` while `write` has the sticky bit disables the policy and locks
   the item.
4. **The script cannot pin a bit to 1** (`parse_policy.py:36`, run ScriptOrder):
   the order of the dict is `write`, `enable`, `sticky_value`; the bit is pinned
   to 0, the driver locks the item, and the script dies at `sticky_value`.

In PolicyTableSmp with `Serialised = FALSE`, `UniqueEntries` is violated (two
CPUs enable one resource at once), and two entries make the flips of the register
events cancel; an update of `num_entries` can be lost too. Neither is listed as a
disagreement, since xmon may serialise.

## 4. What is proved

All from the named assumptions on the constants, for any number of CPUs,
resources, readers, buffers, pages and slots.

| Module | Theorem | States |
|---|---|---|
| PolicyTableProofs | TypeCorrect | `Spec => []TypeOK` |
| | EntriesUnique | `Spec => []UniqueEntries` |
| | CountExact | `Spec => []NumEntriesExact` |
| | TableNeverFull | `Spec => []NeverFull` |
| | WatchedExactly | `Spec => []MonitoredExactly` |
| | TableImplementsStore | `Spec => ImplementsStore`, the refinement of PolicyStore |
| PolicyTableSmpProofs | SmpTypeCorrect | `SmpSpec => []SmpTypeOK` |
| | FrozenForGood | `SmpSpec => FrozenOnceQuiet` |
| RegisterGuardProofs | GuardTypeCorrect | `GSpec => []GTypeOK` |
| | WalkGivesVerdict | `GSpec => []ScanIsVerdict` |
| | TouchedAreLogged | `GSpec => []LogsTouchedPolicies` |
| | PinnedStays | `GSpec => PinnedForever` |
| | SkippedStays | `GSpec => SkippedKeeps` |
| GuardSmpProofs | GuardSmpTypeCorrect | `GuardSmpSpec => []GuardSmpTypeOK` |
| (the rest under the hypothesis | EntriesUniqueByField | `GuardSmpSpec => []UniqueEntries` |
| `Serialised = TRUE`) | WatchedHaveEntriesByField | `GuardSmpSpec => []WatchedHaveEntries` |
| | UntouchedGetVerdict | `GuardSmpSpec => []UntouchedVerdict` |
| | PinnedByField | `GuardSmpSpec => PinnedUnlessInFlight` |
| | StoreByField | `GuardSmpSpec => ImplementsStoreByField`, the refinement of PolicyStore |
| LogRingProofs | WindowRetained | `Spec => []RetainedWindow` |
| | CursorNeverPassesHead | `Spec => []CursorBehindHead` |
| LogRingReaderProofs | LogTypeCorrect | `Spec => []TypeOK` |
| (the rest for one | CountReachesNoFurther | `Spec => []CountIsAvailable` |
| reader at most) | NewestAreRead | `Spec => []ReadsNewest` |
| | EventsShownInOrder | `Spec => []EventsInOrder` |
| LogSetupProofs | SetupTypeCorrect | `Spec => []SetupTypeOK` |
| | MemoryOwned | `Spec => []LogMemoryOwned` |
| | EveryWriteLogged | `Spec => []WritesLogged` |
| | AlwaysReadable | `Spec => []LogReadable` |
| | BlocksFromTheFirst | `Spec => []ProtectedInBlocks` |
| | UpIsInForce | `Spec => []LogInForce` |
| AgentProofs | AgentTypeCorrect | `AgentSpec => []AgentTypeOK` |
| | EnableTrue | `AgentSpec => []EnableIsTrue` |
| | StickyLocked | `AgentSpec => []StickyIsLocked` |
| | LockedFrozen | `AgentSpec => LockedIsFrozen` |

**PolicyTableProofs** (`ResourceAssumption`, `ActionAssumption`,
`NoPolicyAssumption`: finitely many resources in disjoint classes; `UNKNOWN` is
none of them; the empty action and sticky value 0 exist). The inductive
invariant `TableInv` is the conjunction of the first three and MonitoredExactly.
None is inductive alone: the count after an overwrite or a disable is right only
because the resource has one entry; freeing the entry that a scan finds empties
the resource only because there is no second one; the monitoring after a disable
is right for the same reason. NeverFull follows from uniqueness: if no slot were
free, the slots would map one-to-one into the resources other than the one
without an entry, which are fewer than the slots (`Pigeonhole`). The lemmas
`FirstIsLeast` and `ScanFinds` say where a loop over the slots stops,
`AddWritesSlot` and `DelFreesSlot` what the two table operations do under the
invariant, and each message has a step of its own. The refinement maps a
resource to the entry in the first slot a scan finds; `PolicyUnchanged` shows
that a slot written for one resource leaves the policies of the others alone.

**PolicyTableSmpProofs** (the same and `SmpAssumption`). With no lock
(`Serialised` is either value) only two things are left, and they are proved for
any number of CPUs in the handlers: every index of every loop stays inside the
table, which needs that a CPU has an entry with a resource once it is past its
test, and a table that is immutable and quiet stays as it is, since every
message that starts then ends at its test.

**RegisterGuardProofs** (`GuardAssumption` besides: the other bits are no
resources). The walk over the slots is a recursive function, whose existence and
value at each slot are proved first (`WalkExists`, by the least slot at which it
could go wrong). `Walked` is its loop invariant: after k slots, the bits whose
entries are in those slots have the verdict of their policies, and the others
what the guest asked for. A slot moves one bit from the second kind to the first,
because no other slot has that bit (UniqueEntries) and the flip looks only at the
old value of the bit. Stale fields of free slots do nothing, as `UNKNOWN` is no
bit. PinnedForever and SkippedKeeps follow: an unreported write leaves watched
bits alone, a reported one gives them their verdict, and an immutable table keeps
the policies. Both theorems have the exception of `lastFault`, as the properties do.

**GuardSmpProofs** (all of these). The types hold with any number of messages at
once. The other theorems say `Serialised = TRUE` in their statement, which is the
case the run checks: with two messages at once UniqueEntries is false (section
3), and whether xmon rules that out is not in the repository. Events are not serialised with messages. The inductive invariant
`GuardSmpInv` has two parts. `MessageInv`: either all CPUs are outside the
handlers and the table is consistent (`RestOK`), or one CPU is inside
(`BusyOK`), and then what its loops have found is still so (`SlotOK`), the
fields it has copied are there and the rest of the table is as before (`CopyOK`),
the count is off by one between the change and its store (`CountOK`), and the
monitoring agrees with the table except for the message's own resource, which is
not watched while its entry is on its way in or out (`WatchOK`).
`EventInv`: for each bit that no message touched since the event began, the bit
has its verdict once the walk is past its slot, and the requested value before
(`BitOK`); between two reads of a slot, the bit it was read for is still the one
there. The two meet in `MessageEffect`: a message writes to one slot at most,
which holds its own resource or nothing, before and after. For the refinement,
`settled` is the table without the fields of a copy that is not whole, and
`PolicyWritten` shows that the step which completes or frees an entry is the
abstract step, and that any other is a stutter. With whole messages in the place
of their accesses this is TableImplementsStore; what StoreByField adds is only
that the accesses between do not matter to the store.

**AgentProofs** (`AgentAssumption` besides PolicyTable's). LockedIsFrozen needs
only the types and that a store past its test has its item. The other two need
`Charge`: what an item that is in charge of its resource, and is not contended,
knows of its policy before and after each step of its one store: that the message
has the item's `write`; that `value` and, once it is assigned, `enable` say
whether there is a policy; that the lock follows before the store ends. Messages
of other directories take charge away, removal and a message that is ignored do
too.

**LogRingProofs** (`LogAssumption`). `WriterInv` adds to RetainedWindow that the
fields `log_buffer_add_record` has stored so far are in the slot of the head, and
that no slot has a number above the head. Advancing the head then moves a whole
record into the window; that a store to the head's slot leaves the window alone
is the arithmetic of `LOG_SEQ_NUM_TO_INDEX`: two numbers less than
`LOGS_PER_CPU` apart have different slots (`IndexInjective`). It uses the
uniqueness of quotient and remainder, proved in the module. `ReaderInv` says
that a reader's head, its copies and the cursors it has not
stored yet have numbers no higher than the ring's head; the cursor then never
passes it, **for any number of readers** of `log.txt`, although they share it.
(What goes wrong with two readers is the count computed from an older head,
LogTwoReadersCount.)

**LogRingReaderProofs** (the same). `TypeInv` holds for any number of readers,
whose counts may then be anything in 32 bits: the clamp alone keeps the copies in
a ring's size, and the results have whole numbers to set the cursor back to. The
other theorems say `LoneReader` (`Readers` has one element at most) in their
statement; with two, CountIsAvailable and what builds on it are false. `LoneInv`:
the record a reader is at is the one `count` events before the head it read, by
three facts about the index (`StartIndexIs`, `NextIndexIs`, `LastIndexAtEnd`);
what it copied is of the events before that one, as far as the handler has not
begun to overwrite them. `DeliveredInv`: in a ring that was not lapped, the cursor
is the event that is due, which is the one after the last one shown, or that one
again if its record exactly filled its page (`DueAfter`); or a reader carries
exactly the events from there on. Then the clamp takes nothing away, and the
number a full page sets the cursor back to is the next one due.

**LogSetupProofs** (`SetupAssumption`). `SetupInv` is the types, what the driver
has at each point of `init_agent` (`DriverInv`), what the handler has at each
point of `start_log` (`StartInv`), LogMemoryOwned, WritesLogged, and
`PublishedFirst`: a buffer with a read-only page was published, and nothing ever
takes the address back, which is why a write to a protected page finds a log.
LogMemoryOwned is not inductive alone, since it does not say that the address on
its way to the handler is the driver's. `ProgressInv` adds how far the protection
has come at each point of `start_log`, for ProtectedInBlocks and LogInForce: each
round of the loop protects the next block or the shorter last one, and ends at
the page where the log ends.

Only model-checked: the two liveness properties, FirstCpuDelivered and
StartLogEnds, as TLAPS does not prove ENABLED and fairness here; the violated
claims; and PolicyScript. Every other property of a passing run is a theorem. The
inductive invariants were themselves checked by TLC on the bounds of their runs
(GuardSmpInv also with two CPUs) before they were proved.

## 5. Not modelled, and why

- Resource ids that are in no table of the driver. `policy_sanity_check`
  (`policy.c:256`) tests nothing, so the handler would store them, and NeverFull
  would not hold with them; the driver never sends one.
- Which pages a failing `ikgt_update_page_permission` has changed: none, by
  assumption.
- The starvation of later CPUs in `dump_log`: it needs an unbounded stream of
  events, and TLC bounds their number.
- The operand register after a partly refused write (its old value is lost, as a
  TODO in the code says).
- Which `thread_id`s the hypervisor passes to `log_event`, and what it does with
  an execution event whose response stays `UNSPECIFIED` (`memory.c:60`): neither
  is in the repository. LogSetup records the response.
- mkdir at the top of the configfs tree: a group keeps no state of its own. A name
  that is none of the four gets a group that was never initialised
  (`configfs_setup.c:65`), and `log` and `LOG` are two directories with one set of
  cursors, which is the case of two readers; the rest is up to configfs.
- The removal of a module whose start failed, which unregisters what configfs
  never registered (`main.c:63`).
- `stop_log`, which has no caller; `test_log`, which writes a word nobody reads.
- The mask of exit reasons that `log_event` does not record (it only decides
  whether there is an event), the access counters, DEBUG output, `show`
  functions, the text of `log.txt`.
- In the script: nested groups, `-r` and its log file.

## 6. Plan

1. (done) PolicyTypes, PolicyStore, PolicyTable and its proofs; RegisterGuard;
   LogRing; PolicyTableSmp; Agent and PolicyScript.
2. (done) LogSetup, with `handler_initialize` and events before it; GuardSmp; the
   debug sysctl in Agent; LogRingProofs, LogSetupProofs, PolicyTableSmpProofs.
3. (done) RegisterGuardProofs, AgentProofs, GuardSmpProofs with the refinement of
   PolicyStore field by field, LogRingReaderProofs, the rest of LogSetupProofs.
4. Left: shorter proofs where one lemma serves several modules, and what the
   violated claims become when their causes are excluded (one store to an item at a
   time, one reader), as theorems next to the ones here.
