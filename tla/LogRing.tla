------------------------------ MODULE LogRing ------------------------------
(***************************************************************************)
(* The event log: one ring of records per CPU in memory the driver         *)
(* allocated, filled by the handler on that CPU at VMEXIT (handler/log.c)  *)
(* and read by the driver on any CPU when a process reads log.txt          *)
(* (driver/log.c).  Nothing synchronises the two sides, nor two readers.   *)
(*                                                                         *)
(* A step is one access to shared memory and the local work up to the      *)
(* next one.  What a record says of its event (rip, reason, qualification, *)
(* gva) is one field, data, holding the number of the event, so that data  *)
(* and seq_num disagree in a record mixed from two events.                 *)
(***************************************************************************)
EXTENDS Integers, Sequences

CONSTANTS
  NumCpus,        \* num_of_cpus
  LOGS_PER_CPU,   \* records in a ring
  UINT32,         \* 2^32, the range of num_of_logs_to_read
  Readers,        \* processes reading log.txt, each through its own file
  PageMin,        \* the least and the greatest number of records on a page
  PageMax,        \*   of log.txt before the one that fills it
  MaxSeq          \* bound: events logged on a CPU

ASSUME LogAssumption ==
  /\ NumCpus \in Nat \ {0}
  /\ LOGS_PER_CPU \in Nat \ {0}
  /\ UINT32 \in Nat /\ LOGS_PER_CPU < UINT32
  /\ PageMin \in Nat \ {0} /\ PageMax \in Nat /\ PageMin <= PageMax
  /\ MaxSeq \in Nat

VARIABLES
  head,       \* head[c]: meta.head of the ring of c, the next event's number
  ring,       \* ring[c][i]: the record at index i of the ring of c
  stored,     \* stored[c]: fields the handler on c stored of its next record
  log_record_seq_num,   \* the driver's cursor in each ring
  rd,         \* rd[r]: the locals of dump_log in reader r
  delivered,  \* history: the records of c that log.txt showed whole, in order
  filled,     \* history: the places in delivered[c] of the records that
              \*   ended exactly at the end of their page
  lapped      \* history: c began to overwrite a record still due in log.txt

writerVars == <<head, ring, stored>>
history == <<delivered, filled, lapped>>
vars == <<head, ring, stored, log_record_seq_num, rd, history>>

Cpu  == 0 .. NumCpus - 1
Slot == 1 .. LOGS_PER_CPU
None == -1     \* not copied yet
Zeroed == -2   \* the data of a record no event was stored in

(* seq_num and data are copied to the reader, valid is only tested.        *)
Copied == {"seq_num", "data"}
Field  == Copied \cup {"valid"}

LOG_SEQ_NUM_TO_INDEX(seq) == (seq % LOGS_PER_CPU) + 1

ZeroRecord == [seq_num |-> 0, data |-> Zeroed, valid |-> FALSE]

(* The record of the event number s.                                       *)
RecordOf(s) == [seq_num |-> s, data |-> s, valid |-> TRUE]

Blank == [f \in Copied |-> None]
CopyOf(s) == [f \in Copied |-> s]

(* dump_log before its first access, which is also a reader at rest.       *)
AtRest == [pc |-> "head", cpu |-> 0, last |-> 0, count |-> 0, index |-> 1,
           part |-> Blank, results |-> << >>, dumped |-> 0]

(* init_log allocates the rings and empties them, then the handler learns  *)
(* their address.                                                          *)
Init ==
  /\ head = [c \in Cpu |-> 0]
  /\ ring = [c \in Cpu |-> [i \in Slot |-> ZeroRecord]]
  /\ stored = [c \in Cpu |-> {}]
  /\ log_record_seq_num = [c \in Cpu |-> 0]
  /\ rd = [r \in Readers |-> AtRest]
  /\ delivered = [c \in Cpu |-> << >>]
  /\ filled = [c \in Cpu |-> {}]
  /\ lapped = [c \in Cpu |-> FALSE]

-----------------------------------------------------------------------------
(* The handler: log_buffer_add_record                                      *)

(* The number of the event that log.txt should show after the first k      *)
(* records: the one after the last of them, or that one again when it      *)
(* filled its page.                                                        *)
DueAfter(c, k) ==
  IF k = 0 THEN 0
  ELSE delivered[c][k].seq_num + (IF k \in filled[c] THEN 0 ELSE 1)

(* The stores to the record's fields, in whatever order the compiler left  *)
(* them.                                                                   *)
StoreField(c, f) ==
  LET s == head[c]
  IN /\ s < MaxSeq
     /\ f \notin stored[c]
     /\ ring' = [ring EXCEPT ![c][LOG_SEQ_NUM_TO_INDEX(s)][f] =
                   RecordOf(s)[f]]
     /\ stored' = [stored EXCEPT ![c] = @ \cup {f}]
     /\ lapped' = [lapped EXCEPT ![c] =
                     @ \/ s - LOGS_PER_CPU >= DueAfter(c, Len(delivered[c]))]
     /\ UNCHANGED <<head, log_record_seq_num, rd, delivered, filled>>

(* Mutant: the head may advance before the record is whole.                *)
AdvanceHead_Early(c) ==
  /\ "seq_num" \in stored[c]
  /\ head' = [head EXCEPT ![c] = @ + 1]
  /\ stored' = [stored EXCEPT ![c] = {}]
  /\ UNCHANGED <<ring, log_record_seq_num, rd, history>>

(* meta.head++, the last statement and, on x86, the last store to land.    *)
AdvanceHead(c) ==
  /\ stored[c] = Field
  /\ head' = [head EXCEPT ![c] = @ + 1]
  /\ stored' = [stored EXCEPT ![c] = {}]
  /\ UNCHANGED <<ring, log_record_seq_num, rd, history>>

log_buffer_add_record(c) == AdvanceHead(c) \/ \E f \in Field : StoreField(c, f)

-----------------------------------------------------------------------------
(* The driver: dump_log, and read_logs which it calls                      *)

(* The next iteration of the loop over the CPUs, or the return.            *)
NextCpu(me) ==
  IF me.cpu + 1 < NumCpus
  THEN [AtRest EXCEPT !.cpu = me.cpu + 1, !.dumped = me.dumped]
  ELSE AtRest

get_last_seq_num(r) ==
  LET me == rd[r]
  IN /\ me.pc = "head"
     /\ rd' = [rd EXCEPT ![r].last = head[me.cpu], ![r].pc = "cursor"]
     /\ UNCHANGED <<writerVars, log_record_seq_num, history>>

(* num_of_logs_to_read: a 64-bit difference stored in 32 bits.  (The       *)
(* mutant swaps the operands.)                                             *)
num_of_logs_to_read_Swapped(last, cursor) == (cursor - last) % UINT32
num_of_logs_to_read(last, cursor) == (last - cursor) % UINT32

CountLogs(r) ==
  LET me == rd[r]
  IN /\ me.pc = "cursor"
     /\ rd' = [rd EXCEPT
          ![r].count = num_of_logs_to_read(me.last, log_record_seq_num[me.cpu]),
          ![r].pc = "set"]
     /\ UNCHANGED <<writerVars, log_record_seq_num, history>>

(* How many records read_logs reads and the index it starts at.  The       *)
(* comparison with LOGS_PER_CPU is unsigned: a negative count is too       *)
(* large as well.                                                          *)
ClampCount(count) == IF count > LOGS_PER_CPU THEN LOGS_PER_CPU ELSE count

(* Mutant: one record too far when the range does not wrap.                *)
StartIndex_OffByOne(last, count) ==
  LET index == LOG_SEQ_NUM_TO_INDEX(last)
  IN IF index <= count THEN LOGS_PER_CPU - (count - index)
     ELSE index - count + 1

StartIndex(last, count) ==
  LET index == LOG_SEQ_NUM_TO_INDEX(last)
  IN IF index <= count THEN LOGS_PER_CPU - (count - index) ELSE index - count

(* Mutant: the wrap comes one index late.                                  *)
NextIndex_Late(index) == IF index > LOGS_PER_CPU THEN 1 ELSE index + 1

NextIndex(index) == IF index >= LOGS_PER_CPU THEN 1 ELSE index + 1

(* The cursor for the next dump is the head this one read.  (The mutant    *)
(* sets it past the head.)                                                 *)
NewCursor_Past(me) == me.last + 1
NewCursor(me) == me.last

SetCursor(r) ==
  LET me == rd[r]
      count == ClampCount(me.count)
  IN /\ me.pc = "set"
     /\ log_record_seq_num' =
          [log_record_seq_num EXCEPT ![me.cpu] = NewCursor(me)]
     /\ rd' = [rd EXCEPT ![r] =
          IF me.count = 0 \/ me.last = 0 THEN NextCpu(me)
          ELSE [me EXCEPT !.pc = "copy", !.count = count,
                          !.index = StartIndex(me.last, count)]]
     /\ UNCHANGED <<writerVars, history>>

(* The rest of the body of read_logs' loop, with the results read so far.  *)
AdvanceIndex(me, results) ==
  LET index == NextIndex(me.index)
      done == index = LOG_SEQ_NUM_TO_INDEX(me.last) \/ me.count = 1
  IN [me EXCEPT !.pc = IF done THEN "emit" ELSE "copy",
                !.index = index,
                !.count = IF done THEN @ ELSE @ - 1,
                !.part = Blank,
                !.results = results]

(* The struct copy out of the ring, field by field in any order.  A record *)
(* that is not valid is passed over: the count of a lone reader never      *)
(* reaches one, a count that another reader spoiled does.                  *)
CopyField(r, f) ==
  LET me == rd[r]
      entry == ring[me.cpu][me.index]
      part == [me.part EXCEPT ![f] = entry[f]]
      whole == \E g \in Copied \ {f} : me.part[g] # None
  IN /\ me.pc = "copy"
     /\ me.part[f] = None
     /\ rd' = [rd EXCEPT ![r] =
          IF ~entry.valid THEN AdvanceIndex(me, me.results)
          ELSE IF whole THEN AdvanceIndex(me, Append(me.results, part))
          ELSE [me EXCEPT !.part = part]]
     /\ UNCHANGED <<writerVars, log_record_seq_num, history>>

(* What log.txt has shown of the CPU's log with the first k results.       *)
Deliver(me, k) ==
  delivered' = [delivered EXCEPT ![me.cpu] =
                  IF lapped[me.cpu] THEN @
                  ELSE @ \o SubSeq(me.results, 1, k)]

(* The loop over the results, when all of them fit on the page.            *)
EmitAll(r) ==
  LET me == rd[r]
      n == me.dumped + Len(me.results)
  IN /\ me.pc = "emit"
     /\ n <= PageMax
     /\ Deliver(me, Len(me.results))
     /\ rd' = [rd EXCEPT ![r] = NextCpu([me EXCEPT !.dumped = n])]
     /\ UNCHANGED <<writerVars, log_record_seq_num, filled, lapped>>

(* Where the cursor goes when the result after the first k fills the page: *)
(* back to it, for the next dump to show it.  (Mutants: it stays; it goes  *)
(* past the record.)                                                       *)
Rewind_Not(me, k) == me.last
Rewind_Skip(me, k) == me.results[k + 1].seq_num + 1
Rewind(me, k) == me.results[k + 1].seq_num

(* The same loop when the result after the first k fills the page.  It is  *)
(* on the page cut short, or whole when it ends exactly at the page's end. *)
EmitUntilFull(r, k, exact) ==
  LET me == rd[r]
      c == me.cpu
  IN /\ me.pc = "emit"
     /\ k < Len(me.results)
     /\ me.dumped + k \in PageMin .. PageMax
     /\ log_record_seq_num' = [log_record_seq_num EXCEPT ![c] = Rewind(me, k)]
     /\ Deliver(me, IF exact THEN k + 1 ELSE k)
     /\ filled' = [filled EXCEPT ![c] =
          IF lapped[c] \/ ~exact THEN @ ELSE @ \cup {Len(delivered[c]) + k + 1}]
     /\ rd' = [rd EXCEPT ![r] = AtRest]
     /\ UNCHANGED <<writerVars, lapped>>

dump_log(r) ==
  \/ get_last_seq_num(r)
  \/ CountLogs(r)
  \/ SetCursor(r)
  \/ \E f \in Copied : CopyField(r, f)
  \/ EmitAll(r)
  \/ \E k \in 0 .. LOGS_PER_CPU - 1, exact \in BOOLEAN :
       EmitUntilFull(r, k, exact)

Next ==
  \/ \E c \in Cpu : log_buffer_add_record(c)
  \/ \E r \in Readers : dump_log(r)

Spec == Init /\ [][Next]_vars

(* A process that polls log.txt: it never stops inside dump_log and reads  *)
(* the file again and again.                                               *)
Fairness == \A r \in Readers : WF_vars(dump_log(r))

FairSpec == Spec /\ Fairness

-----------------------------------------------------------------------------
(* Properties                                                              *)

(* The variables hold values of their types.                               *)
TypeOK ==
  LET recordType == [seq_num : Nat, data : Nat \cup {Zeroed}, valid : BOOLEAN]
      copyType == [Copied -> Nat \cup {Zeroed, None}]
  IN /\ head \in [Cpu -> 0 .. MaxSeq]
     /\ ring \in [Cpu -> [Slot -> recordType]]
     /\ stored \in [Cpu -> SUBSET Field]
     /\ log_record_seq_num \in [Cpu -> Nat]
     /\ \A r \in Readers :
          /\ rd[r].pc \in {"head", "cursor", "set", "copy", "emit"}
          /\ rd[r].cpu \in Cpu
          /\ rd[r].last \in Nat
          /\ rd[r].count \in 0 .. UINT32 - 1
          /\ rd[r].index \in Slot
          /\ rd[r].part \in copyType
          /\ \A k \in 1 .. Len(rd[r].results) : rd[r].results[k] \in copyType
          /\ Len(rd[r].results) <= LOGS_PER_CPU
          /\ rd[r].dumped \in 0 .. PageMax

(* The first event whose record the handler has not begun to overwrite.    *)
Oldest(c) ==
  LET begun == IF stored[c] = {} THEN head[c] ELSE head[c] + 1
  IN IF begun <= LOGS_PER_CPU THEN 0 ELSE begun - LOGS_PER_CPU

(* The last LOGS_PER_CPU events have whole records at their indices,       *)
(* except one while the handler stores over it: what the driver relies on  *)
(* when it reads head and then the records without a lock.                 *)
RetainedWindow ==
  \A c \in Cpu : \A s \in Oldest(c) .. head[c] - 1 :
    ring[c][LOG_SEQ_NUM_TO_INDEX(s)] = RecordOf(s)

(* The cursor is never past the head: no event would be skipped for having *)
(* a number smaller than the cursor.  It holds for any number of readers,  *)
(* although the cursor may come from a record read while it was written.   *)
CursorBehindHead == \A c \in Cpu : log_record_seq_num[c] <= head[c]

(* "count: the number of log entries counting backwards" from              *)
(* start_seq_num (driver/log.c:114): the count that read_logs is given     *)
(* never reaches back further than the log does.  False when two readers   *)
(* share the cursor: one moves it past the head the other has read.        *)
CountIsAvailable ==
  \A r \in Readers :
    rd[r].pc = "set" /\ rd[r].last # 0 => rd[r].count <= rd[r].last

(* read_logs returns the newest records before last, whole and in order:   *)
(* the index arithmetic, the wrap and the order of the two sides' accesses *)
(* together.  Only a handler that overtakes the oldest of them during the  *)
(* copy spoils it.                                                         *)
ReadsNewest ==
  \A r \in Readers :
    LET me == rd[r]
        first == me.last - Len(me.results)
    IN (me.pc = "emit" /\ first >= Oldest(me.cpu))
         => me.results = [k \in 1 .. Len(me.results) |-> CopyOf(first + k - 1)]

(* As long as the handler did not overwrite what log.txt still has to      *)
(* show, log.txt shows the events of a CPU whole, in order and without a   *)
(* gap, over any number of dumps and full pages.  Each is shown once, but  *)
(* for one whose record ends exactly at the end of a page: the next page   *)
(* shows it again before the events after it.                              *)
EventsInOrder ==
  \A c \in Cpu :
    ~lapped[c] =>
      \A k \in 1 .. Len(delivered[c]) :
        delivered[c][k] = CopyOf(DueAfter(c, k - 1))

(* An event on the first CPU is shown whole in the end, unless it is       *)
(* overwritten first.  (A later CPU may starve: a page filled by the CPUs  *)
(* before it never reaches it.)                                            *)
FirstCpuDelivered ==
  \A s \in 0 .. MaxSeq - 1 :
    head[0] > s ~>
      \/ \E k \in 1 .. Len(delivered[0]) : delivered[0][k] = CopyOf(s)
      \/ lapped[0]
=============================================================================
