--------------------------- MODULE LogRingProofs ---------------------------
(***************************************************************************)
(* Proofs about LogRing for any number of CPUs and readers, rings of any   *)
(* size and any number of events.  The writer's side: the newest records   *)
(* are always whole (RetainedWindow).  The reader's side: the cursor never *)
(* passes the head (CursorBehindHead), although readers share it and may   *)
(* set it back from a record they read while it was written.               *)
(***************************************************************************)
EXTENDS LogRing, TLAPS

RecordT == [seq_num : Int, data : Int, valid : BOOLEAN]
CopyT == [Copied -> Int]

-----------------------------------------------------------------------------
(* Arithmetic: different numbers less than a ring apart have different     *)
(* indices.                                                                *)

(* Division with remainder.                                                *)
LEMMA DivMod ==
  ASSUME NEW L \in Nat \ {0}, NEW a \in Int
  PROVE /\ a \div L \in Int
        /\ a = L * (a \div L) + (a % L)
        /\ a % L \in 0 .. L - 1
  OBVIOUS

(* No multiple of L lies strictly between 0 and L.                         *)
LEMMA NoMultipleBetween ==
  ASSUME NEW L \in Nat \ {0}, NEW k \in Int, L * k < L, 0 < L * k
  PROVE FALSE
<1>1. CASE k <= 0 BY <1>1
<1>2. CASE k >= 1 BY <1>2
<1> QED BY <1>1, <1>2

(* % L tells numbers apart that differ by less than L.                     *)
LEMMA ModInjective ==
  ASSUME NEW L \in Nat \ {0}, NEW a \in Nat, NEW b \in Nat,
         a < b, b - a < L
  PROVE a % L # b % L
<1> SUFFICES ASSUME a % L = b % L PROVE FALSE OBVIOUS
<1> DEFINE p == a \div L
           q == b \div L
           m == a % L
<1>1. p \in Int /\ q \in Int /\ m \in Int BY DivMod
<1>2. a = L * p + m BY DivMod
<1>3. b = L * q + m BY DivMod
<1> HIDE DEF p, q, m
<1>4. b - a = L * (q - p) BY <1>1, <1>2, <1>3
<1>5. q - p \in Int BY <1>1
<1> QED BY <1>4, <1>5, NoMultipleBetween

(* An event's index is one of the ring.                                    *)
LEMMA IndexInSlot ==
  ASSUME NEW s \in Int
  PROVE LOG_SEQ_NUM_TO_INDEX(s) \in Slot
<1>1. s % LOGS_PER_CPU \in 0 .. LOGS_PER_CPU - 1 BY DivMod, LogAssumption
<1> QED BY <1>1, LogAssumption DEF LOG_SEQ_NUM_TO_INDEX, Slot

(* Two events less than a ring apart do not share an index.                *)
LEMMA IndexInjective ==
  ASSUME NEW a \in Nat, NEW b \in Nat, a < b, b - a < LOGS_PER_CPU
  PROVE LOG_SEQ_NUM_TO_INDEX(a) # LOG_SEQ_NUM_TO_INDEX(b)
<1>1. a % LOGS_PER_CPU # b % LOGS_PER_CPU BY ModInjective, LogAssumption
<1>2. a % LOGS_PER_CPU \in Int /\ b % LOGS_PER_CPU \in Int
  BY DivMod, LogAssumption
<1> QED BY <1>1, <1>2 DEF LOG_SEQ_NUM_TO_INDEX

-----------------------------------------------------------------------------
(* Records                                                                 *)

(* A store to one field leaves a record, with that field of the event.     *)
LEMMA StoredField ==
  ASSUME NEW R \in RecordT, NEW f \in Field, NEW s \in Nat
  PROVE LET S == [R EXCEPT ![f] = RecordOf(s)[f]]
        IN /\ S \in RecordT
           /\ S[f] = RecordOf(s)[f]
           /\ \A g \in Field \ {f} : S[g] = R[g]
           /\ \A h \in Nat : R.seq_num <= h /\ s <= h => S.seq_num <= h
<1>1. CASE f = "seq_num" BY <1>1 DEF RecordT, RecordOf, Field, Copied
<1>2. CASE f = "data" BY <1>2 DEF RecordT, RecordOf, Field, Copied
<1>3. CASE f = "valid" BY <1>3 DEF RecordT, RecordOf, Field, Copied
<1> QED BY <1>1, <1>2, <1>3 DEF Field, Copied

(* A record all of whose fields are the event's is the event's record.     *)
LEMMA WholeRecord ==
  ASSUME NEW R \in RecordT, NEW s \in Nat,
         \A f \in Field : R[f] = RecordOf(s)[f]
  PROVE R = RecordOf(s)
<1>1. R.seq_num = s /\ R.data = s /\ R.valid = TRUE
  BY DEF Field, Copied, RecordOf
<1> QED BY <1>1 DEF RecordT, RecordOf

(* A field copied to the reader leaves a copy, with no number past what    *)
(* the copy and the record had.                                            *)
LEMMA CopiedField ==
  ASSUME NEW R \in RecordT, NEW f \in Copied, NEW p \in CopyT, NEW h \in Nat,
         R.seq_num <= h, p.seq_num <= h
  PROVE LET q == [p EXCEPT ![f] = R[f]]
        IN q \in CopyT /\ q.seq_num <= h
  BY DEF RecordT, CopyT, Copied

-----------------------------------------------------------------------------
(* The writer                                                              *)

WriterType ==
  /\ head \in [Cpu -> Nat]
  /\ ring \in [Cpu -> [Slot -> RecordT]]
  /\ stored \in [Cpu -> SUBSET Field]

(* What the handler stored of its next record is there.                    *)
StoredIsThere ==
  \A c \in Cpu : \A f \in stored[c] :
    ring[c][LOG_SEQ_NUM_TO_INDEX(head[c])][f] = RecordOf(head[c])[f]

(* No record claims a number past the head.                                *)
RingBehindHead ==
  \A c \in Cpu : \A i \in Slot : ring[c][i].seq_num <= head[c]

WriterInv == WriterType /\ StoredIsThere /\ RetainedWindow /\ RingBehindHead

LEMMA OldestIsNat ==
  ASSUME NEW c \in Cpu, WriterType
  PROVE Oldest(c) \in Nat
  BY LogAssumption DEF Oldest, WriterType

LEMMA WriterInit == Init => WriterInv
<1> SUFFICES ASSUME Init PROVE WriterInv OBVIOUS
<1>1. ZeroRecord \in RecordT /\ ZeroRecord.seq_num = 0
  BY DEF ZeroRecord, RecordT, Zeroed
<1>2. WriterType BY <1>1 DEF Init, WriterType, Field
<1>3. StoredIsThere BY DEF Init, StoredIsThere
<1>4. RetainedWindow
  BY LogAssumption DEF Init, RetainedWindow, Oldest
<1>5. RingBehindHead BY <1>1 DEF Init, RingBehindHead
<1> QED BY <1>2, <1>3, <1>4, <1>5 DEF WriterInv

(* A store to a field of the next record.                                  *)
LEMMA WriterStore ==
  ASSUME WriterInv, NEW c \in Cpu, NEW f \in Field, StoreField(c, f)
  PROVE WriterInv'
<1> DEFINE s == head[c]
           i == LOG_SEQ_NUM_TO_INDEX(s)
           S == [ring[c][i] EXCEPT ![f] = RecordOf(s)[f]]
<1> USE DEF WriterInv
<1>1. s \in Nat /\ i \in Slot /\ ring[c][i] \in RecordT
  BY IndexInSlot DEF WriterType
<1>2. /\ S \in RecordT
      /\ S[f] = RecordOf(s)[f]
      /\ \A g \in Field \ {f} : S[g] = ring[c][i][g]
      /\ S.seq_num <= s
  <2>1. ring[c][i].seq_num <= s BY <1>1 DEF RingBehindHead
  <2> QED BY <1>1, <2>1, StoredField
<1>3. /\ head' = head
      /\ stored' = [stored EXCEPT ![c] = @ \cup {f}]
      /\ ring' = [ring EXCEPT ![c] = [ring[c] EXCEPT ![i] = S]]
  BY DEF StoreField
<1> HIDE DEF i, S
<1>4. WriterType'
  BY <1>1, <1>2, <1>3 DEF WriterType
<1>5. /\ ring'[c][i] = S
      /\ \A d \in Cpu, j \in Slot :
           d # c \/ j # i => ring'[d][j] = ring[d][j]
  BY <1>1, <1>3 DEF WriterType
<1>6. StoredIsThere'
  <2> SUFFICES ASSUME NEW d \in Cpu, NEW g \in stored'[d]
               PROVE ring'[d][LOG_SEQ_NUM_TO_INDEX(head[d])][g]
                       = RecordOf(head[d])[g]
    BY <1>3 DEF StoredIsThere
  <2>1. CASE d # c
    <3>1. g \in stored[d] BY <1>3, <2>1 DEF WriterType
    <3>2. LOG_SEQ_NUM_TO_INDEX(head[d]) \in Slot
      BY IndexInSlot DEF WriterType
    <3> QED BY <1>5, <2>1, <3>1, <3>2 DEF StoredIsThere
  <2>2. CASE d = c /\ g = f BY <1>2, <1>5, <2>2 DEF i
  <2>3. CASE d = c /\ g # f
    <3>1. g \in stored[c] /\ g \in Field BY <1>3, <2>3 DEF WriterType
    <3>2. ring[c][i][g] = RecordOf(s)[g] BY <3>1 DEF StoredIsThere, i
    <3> QED BY <1>2, <1>5, <2>3, <3>1, <3>2 DEF i
  <2> QED BY <2>1, <2>2, <2>3
<1>7. RetainedWindow'
  <2> SUFFICES ASSUME NEW d \in Cpu, NEW t \in Oldest(d)' .. head[d] - 1
               PROVE ring'[d][LOG_SEQ_NUM_TO_INDEX(t)] = RecordOf(t)
    BY <1>3 DEF RetainedWindow
  <2>1. head[d] \in Nat /\ Oldest(d)' \in Nat
    <3>1. head[d] \in Nat BY DEF WriterType
    <3> QED BY <1>3, <3>1, LogAssumption DEF Oldest
  <2>2. t \in Nat /\ t < head[d] /\ LOG_SEQ_NUM_TO_INDEX(t) \in Slot
    BY <2>1, IndexInSlot
  <2>3. CASE d # c
    <3>1. Oldest(d)' = Oldest(d) BY <1>3, <2>3 DEF Oldest, WriterType
    <3>2. ring[d][LOG_SEQ_NUM_TO_INDEX(t)] = RecordOf(t)
      BY <3>1 DEF RetainedWindow
    <3> QED BY <1>5, <2>2, <2>3, <3>2
  <2>4. CASE d = c
    <3>1. stored'[c] # {} BY <1>3 DEF WriterType
    <3>2. Oldest(c)' + LOGS_PER_CPU >= s + 1
      BY <1>1, <1>3, <3>1, LogAssumption DEF Oldest
    <3>3. LOG_SEQ_NUM_TO_INDEX(t) # i
      BY <1>1, <2>1, <2>2, <2>4, <3>2, IndexInjective, LogAssumption DEF i
    <3>4. Oldest(c) <= Oldest(c)'
      BY <1>1, <1>3, <3>1, LogAssumption DEF Oldest
    <3>5. t \in Oldest(c) .. head[c] - 1 BY <2>1, <2>2, <2>4, <3>4, OldestIsNat
    <3>6. ring[c][LOG_SEQ_NUM_TO_INDEX(t)] = RecordOf(t)
      BY <3>5 DEF RetainedWindow
    <3> QED BY <1>5, <2>2, <2>4, <3>3, <3>6
  <2> QED BY <2>3, <2>4
<1>8. RingBehindHead'
  <2> SUFFICES ASSUME NEW d \in Cpu, NEW j \in Slot
               PROVE ring'[d][j].seq_num <= head[d]
    BY <1>3 DEF RingBehindHead
  <2> QED BY <1>2, <1>5 DEF RingBehindHead
<1> QED BY <1>4, <1>6, <1>7, <1>8

(* The head moves over a record all of which is stored.                    *)
LEMMA WriterAdvance ==
  ASSUME WriterInv, NEW c \in Cpu, AdvanceHead(c)
  PROVE WriterInv'
<1> USE DEF WriterInv
<1>1. /\ head' = [head EXCEPT ![c] = @ + 1]
      /\ stored' = [stored EXCEPT ![c] = {}]
      /\ ring' = ring
      /\ stored[c] = Field
  BY DEF AdvanceHead
<1>2. WriterType' BY <1>1 DEF WriterType
<1>3. /\ head'[c] = head[c] + 1 /\ stored'[c] = {}
      /\ \A d \in Cpu \ {c} : head'[d] = head[d] /\ stored'[d] = stored[d]
  BY <1>1 DEF WriterType
<1>4. \A d \in Cpu : head[d] \in Nat BY DEF WriterType
<1>5. StoredIsThere'
  BY <1>1, <1>3 DEF StoredIsThere
<1>6. RetainedWindow'
  <2> SUFFICES ASSUME NEW d \in Cpu, NEW t \in Oldest(d)' .. head'[d] - 1
               PROVE ring[d][LOG_SEQ_NUM_TO_INDEX(t)] = RecordOf(t)
    BY <1>1 DEF RetainedWindow
  <2>1. Oldest(d)' = Oldest(d)
    BY <1>1, <1>3 DEF Oldest, Field
  <2>2. Oldest(d) \in Nat BY OldestIsNat
  <2>3. CASE t < head[d]
    BY <1>4, <2>1, <2>2, <2>3 DEF RetainedWindow
  <2>4. CASE t >= head[d]
    <3>1. d = c /\ t = head[c] BY <1>3, <1>4, <2>1, <2>2, <2>4
    <3>2. ring[c][LOG_SEQ_NUM_TO_INDEX(t)] \in RecordT
      BY <1>4, <3>1, IndexInSlot DEF WriterType
    <3>3. \A f \in Field :
            ring[c][LOG_SEQ_NUM_TO_INDEX(t)][f] = RecordOf(t)[f]
      BY <1>1, <3>1 DEF StoredIsThere
    <3> QED BY <1>4, <3>1, <3>2, <3>3, WholeRecord
  <2> QED BY <1>4, <2>1, <2>2, <2>3, <2>4
<1>7. RingBehindHead'
  <2> SUFFICES ASSUME NEW d \in Cpu, NEW j \in Slot
               PROVE ring[d][j].seq_num <= head'[d]
    BY <1>1 DEF RingBehindHead
  <2>1. ring[d][j].seq_num \in Int /\ ring[d][j].seq_num <= head[d]
    BY DEF RingBehindHead, WriterType, RecordT
  <2> QED BY <1>3, <1>4, <2>1
<1> QED BY <1>2, <1>5, <1>6, <1>7

(* No reader writes to the rings.                                          *)
LEMMA ReadersOnlyRead ==
  ASSUME NEW r \in Readers, dump_log(r)
  PROVE UNCHANGED writerVars
  BY DEF dump_log, get_last_seq_num, CountLogs, SetCursor, CopyField,
         EmitAll, EmitUntilFull

LEMMA WriterUnchanged ==
  ASSUME WriterInv, UNCHANGED writerVars
  PROVE WriterInv'
  BY DEF WriterInv, WriterType, StoredIsThere, RetainedWindow, Oldest,
         RingBehindHead, writerVars

LEMMA WriterStep == WriterInv /\ [Next]_vars => WriterInv'
<1> SUFFICES ASSUME WriterInv, [Next]_vars PROVE WriterInv' OBVIOUS
<1>1. CASE \E c \in Cpu : log_buffer_add_record(c)
  BY <1>1, WriterStore, WriterAdvance DEF log_buffer_add_record
<1>2. CASE \E r \in Readers : dump_log(r)
  BY <1>2, ReadersOnlyRead, WriterUnchanged
<1>3. CASE UNCHANGED vars
  BY <1>3, WriterUnchanged DEF vars, writerVars
<1> QED BY <1>1, <1>2, <1>3 DEF Next

(* The last LOGS_PER_CPU events, or all but the one being overwritten, are *)
(* whole in the ring at any time: what the driver relies on when it reads  *)
(* head and then the records without a lock, for rings of any size.        *)
THEOREM WindowRetained == Spec => []RetainedWindow
<1>1. WriterInv => RetainedWindow BY DEF WriterInv
<1> QED BY <1>1, WriterInit, WriterStep, PTL DEF Spec

-----------------------------------------------------------------------------
(* The readers                                                             *)

ReaderT ==
  [pc : {"head", "cursor", "set", "copy", "emit"}, cpu : Cpu, last : Nat,
   count : Int, index : Slot, part : CopyT, results : Seq(CopyT), dumped : Int]

(* A reader that has seen no number greater than h.                        *)
SeenUpTo(me, h) ==
  /\ me.last <= h
  /\ me.part.seq_num <= h
  /\ \A k \in 1 .. Len(me.results) : me.results[k].seq_num <= h

(* The part of the invariant about one reader.                             *)
ReaderOk(me) ==
  /\ me \in ReaderT
  /\ me.pc = "set" => me.count \in Nat
  /\ SeenUpTo(me, head[me.cpu])

(* All that readers know, and the cursor they leave, is of events that     *)
(* happened.                                                               *)
ReaderInv ==
  /\ log_record_seq_num \in [Cpu -> Int]
  /\ CursorBehindHead
  /\ DOMAIN rd = Readers /\ rd = [r \in Readers |-> rd[r]]
  /\ \A r \in Readers : ReaderOk(rd[r])

(* The next CPU starts with nothing seen.                                  *)
LEMMA NextCpuOk ==
  ASSUME WriterType, NEW me \in ReaderT
  PROVE ReaderOk(NextCpu(me))
<1>1. Blank \in CopyT /\ Blank.seq_num = -1
  BY DEF Blank, CopyT, Copied, None
<1>2. 0 \in Cpu /\ 1 \in Slot BY LogAssumption DEF Cpu, Slot
<1>3. ASSUME NEW m \in ReaderT, m.pc = "head", m.last = 0, m.part = Blank,
             m.results = << >>
      PROVE ReaderOk(m)
  BY <1>1, <1>3 DEF ReaderOk, SeenUpTo, WriterType, ReaderT
<1>4. /\ AtRest \in ReaderT /\ AtRest.pc = "head" /\ AtRest.last = 0
      /\ AtRest.part = Blank /\ AtRest.results = << >>
  BY <1>1, <1>2 DEF AtRest, ReaderT
<1>5. CASE me.cpu + 1 < NumCpus
  <2> DEFINE m == [AtRest EXCEPT !.cpu = me.cpu + 1, !.dumped = me.dumped]
  <2>1. me.cpu + 1 \in Cpu /\ me.dumped \in Int
    BY <1>5, LogAssumption DEF ReaderT, Cpu
  <2>2. /\ m \in ReaderT /\ m.pc = "head" /\ m.last = 0
        /\ m.part = Blank /\ m.results = << >>
    BY <1>4, <2>1 DEF ReaderT
  <2> HIDE DEF m
  <2>3. ReaderOk(m) BY <1>3, <2>2
  <2> QED BY <1>5, <2>3 DEF NextCpu, m
<1>6. CASE ~(me.cpu + 1 < NumCpus)
  <2>1. ReaderOk(AtRest) BY <1>3, <1>4
  <2> QED BY <1>6, <2>1 DEF NextCpu
<1> QED BY <1>5, <1>6

(* Where read_logs starts is in the ring.                                  *)
LEMMA StartIndexInSlot ==
  ASSUME NEW last \in Nat, NEW count \in Nat
  PROVE /\ ClampCount(count) \in Nat
        /\ StartIndex(last, ClampCount(count)) \in Slot
<1>1. LOG_SEQ_NUM_TO_INDEX(last) \in Slot BY IndexInSlot
<1> QED BY <1>1, LogAssumption DEF StartIndex, ClampCount, Slot

(* So is where it goes on.                                                 *)
LEMMA NextIndexInSlot ==
  ASSUME NEW index \in Slot
  PROVE NextIndex(index) \in Slot
  BY LogAssumption DEF NextIndex, Slot

(* The end of an iteration of read_logs' loop.                             *)
LEMMA AdvanceIndexOk ==
  ASSUME WriterType, NEW me, ReaderOk(me), NEW results \in Seq(CopyT),
         \A k \in 1 .. Len(results) : results[k].seq_num <= head[me.cpu]
  PROVE ReaderOk(AdvanceIndex(me, results))
<1> DEFINE i == NextIndex(me.index)
           done == i = LOG_SEQ_NUM_TO_INDEX(me.last) \/ me.count = 1
           p == IF done THEN "emit" ELSE "copy"
           n == IF done THEN me.count ELSE me.count - 1
           m == [me EXCEPT !.pc = p, !.index = i, !.count = n,
                           !.part = Blank, !.results = results]
<1>1. Blank \in CopyT /\ Blank.seq_num = -1
  BY DEF Blank, CopyT, Copied, None
<1>2. i \in Slot BY NextIndexInSlot DEF ReaderOk, ReaderT
<1>3. head[me.cpu] \in Nat BY DEF ReaderOk, ReaderT, WriterType
<1>4. p \in {"emit", "copy"} OBVIOUS
<1>5. me \in ReaderT /\ n \in Int BY DEF ReaderOk, ReaderT
<1>6. AdvanceIndex(me, results) = m BY DEF AdvanceIndex
<1> HIDE DEF i, done, p, n
<1>7. m \in ReaderT BY <1>1, <1>2, <1>4, <1>5 DEF ReaderT
<1>8. /\ m.pc # "set" /\ m.cpu = me.cpu /\ m.last = me.last
      /\ m.part = Blank /\ m.results = results
  BY <1>4, <1>5 DEF ReaderT
<1> HIDE DEF m
<1>9. ReaderOk(m) BY <1>1, <1>3, <1>7, <1>8 DEF ReaderOk, SeenUpTo
<1> QED BY <1>6, <1>9

LEMMA ReaderInit == Init => ReaderInv
<1> SUFFICES ASSUME Init PROVE ReaderInv OBVIOUS
<1>1. Blank \in CopyT /\ Blank.seq_num = -1
  BY DEF Blank, CopyT, Copied, None
<1>2. 0 \in Cpu /\ 1 \in Slot BY LogAssumption DEF Cpu, Slot
<1>3. AtRest \in ReaderT BY <1>1, <1>2 DEF AtRest, ReaderT
<1>4. ReaderOk(AtRest)
  BY <1>1, <1>2, <1>3 DEF ReaderOk, SeenUpTo, AtRest, Init
<1>5. CursorBehindHead BY DEF Init, CursorBehindHead
<1> QED BY <1>4, <1>5 DEF Init, ReaderInv

(* A step that changes one reader, and the cursor at most to an event      *)
(* that happened.                                                          *)
LEMMA OneReader ==
  ASSUME ReaderInv, WriterType, NEW r \in Readers, NEW m, ReaderOk(m),
         UNCHANGED writerVars, rd' = [rd EXCEPT ![r] = m],
         \/ UNCHANGED log_record_seq_num
         \/ \E c \in Cpu, n \in Int :
              n <= head[c] /\
              log_record_seq_num' = [log_record_seq_num EXCEPT ![c] = n]
  PROVE ReaderInv'
<1> USE DEF ReaderInv
<1>1. head' = head BY DEF writerVars
<1>2. /\ log_record_seq_num' \in [Cpu -> Int]
      /\ \A c \in Cpu : log_record_seq_num'[c] <= head[c]
  <2>1. CASE UNCHANGED log_record_seq_num BY <2>1 DEF CursorBehindHead
  <2>2. CASE ~ UNCHANGED log_record_seq_num
    BY <2>2 DEF CursorBehindHead
  <2> QED BY <2>1, <2>2
<1>3. CursorBehindHead' BY <1>1, <1>2 DEF CursorBehindHead
<1>4. DOMAIN rd' = Readers /\ rd' = [q \in Readers |-> rd'[q]] OBVIOUS
<1>5. ASSUME NEW q \in Readers PROVE ReaderOk(rd[q])'
  <2>1. ReaderOk(rd'[q])
    <3>1. CASE q = r BY <3>1
    <3>2. CASE q # r BY <3>2
    <3> QED BY <3>1, <3>2
  <2> QED BY <1>1, <2>1 DEF ReaderOk, SeenUpTo
<1> QED BY <1>2, <1>3, <1>4, <1>5

(* The handler's steps: the head never goes back.                          *)
LEMMA ReaderDuringWrite ==
  ASSUME ReaderInv, WriterType, UNCHANGED <<rd, log_record_seq_num>>,
         head' \in [Cpu -> Nat], \A c \in Cpu : head[c] <= head'[c]
  PROVE ReaderInv'
<1> USE DEF ReaderInv
<1>1. \A c \in Cpu : head[c] \in Nat BY DEF WriterType
<1>2. CursorBehindHead' BY <1>1 DEF CursorBehindHead
<1>3. ASSUME NEW q \in Readers PROVE ReaderOk(rd[q])'
  <2> DEFINE me == rd[q]
             h == head[me.cpu]
             g == head'[me.cpu]
  <2>1. ReaderOk(me) OBVIOUS
  <2>2. h \in Nat /\ g \in Nat /\ h <= g
    BY <1>1, <2>1 DEF ReaderOk, ReaderT
  <2>3. /\ me.last \in Int /\ me.part.seq_num \in Int
        /\ \A k \in 1 .. Len(me.results) : me.results[k].seq_num \in Int
    BY <2>1 DEF ReaderOk, ReaderT, CopyT, Copied
  <2>4. SeenUpTo(me, h) BY <2>1 DEF ReaderOk
  <2> HIDE DEF me, h, g
  <2>5. SeenUpTo(me, g) BY <2>2, <2>3, <2>4 DEF SeenUpTo
  <2> QED BY <2>1, <2>5 DEF ReaderOk, SeenUpTo, me, g
<1> QED BY <1>2, <1>3

(* dump_log reads the head, and has seen that much.                        *)
LEMMA ReadHead ==
  ASSUME ReaderInv, WriterType, NEW r \in Readers, get_last_seq_num(r)
  PROVE ReaderInv'
<1> DEFINE me == rd[r]
           m == [me EXCEPT !.last = head[me.cpu], !.pc = "cursor"]
<1>1. ReaderOk(me) BY DEF ReaderInv
<1>2. head[me.cpu] \in Nat BY <1>1 DEF ReaderOk, ReaderT, WriterType
<1>3. m \in ReaderT BY <1>1, <1>2 DEF ReaderOk, ReaderT
<1>4. ReaderOk(m)
  BY <1>1, <1>2, <1>3 DEF ReaderOk, SeenUpTo, ReaderT
<1>5. /\ rd' = [rd EXCEPT ![r] = m]
      /\ UNCHANGED writerVars /\ UNCHANGED log_record_seq_num
  BY DEF get_last_seq_num, ReaderInv
<1> HIDE DEF m
<1> QED BY <1>4, <1>5, OneReader

(* It computes the count.                                                  *)
LEMMA ReadCursor ==
  ASSUME ReaderInv, WriterType, NEW r \in Readers, CountLogs(r)
  PROVE ReaderInv'
<1> DEFINE me == rd[r]
           n == num_of_logs_to_read(me.last, log_record_seq_num[me.cpu])
           m == [me EXCEPT !.count = n, !.pc = "set"]
<1>1. ReaderOk(me) BY DEF ReaderInv
<1>2. n \in Nat
  <2>1. me.last \in Int /\ log_record_seq_num[me.cpu] \in Int
    BY <1>1 DEF ReaderOk, ReaderT, ReaderInv
  <2>2. me.last - log_record_seq_num[me.cpu] \in Int BY <2>1
  <2>3. UINT32 \in Nat \ {0} BY LogAssumption
  <2>4. (me.last - log_record_seq_num[me.cpu]) % UINT32 \in 0 .. UINT32 - 1
    BY <2>2, <2>3, DivMod
  <2> QED BY <2>3, <2>4 DEF num_of_logs_to_read
<1>3. /\ rd' = [rd EXCEPT ![r] = m]
      /\ UNCHANGED writerVars /\ UNCHANGED log_record_seq_num
  BY DEF CountLogs, ReaderInv
<1> HIDE DEF n
<1>4. m \in ReaderT
  <2>1. n \in Int BY <1>2
  <2> QED BY <1>1, <2>1 DEF ReaderOk, ReaderT
<1>5. ReaderOk(m) BY <1>1, <1>2, <1>4 DEF ReaderOk, SeenUpTo, ReaderT
<1> HIDE DEF m
<1> QED BY <1>3, <1>5, OneReader

(* It moves the cursor to the head it read.                                *)
LEMMA MoveCursor ==
  ASSUME ReaderInv, WriterType, NEW r \in Readers, SetCursor(r)
  PROVE ReaderInv'
<1> DEFINE me == rd[r]
           n == ClampCount(me.count)
           i == StartIndex(me.last, n)
           m == [me EXCEPT !.pc = "copy", !.count = n, !.index = i]
<1>1. ReaderOk(me) BY DEF ReaderInv
<1>2. /\ me \in ReaderT /\ me.cpu \in Cpu /\ me.last \in Nat
      /\ me.last <= head[me.cpu]
  BY <1>1 DEF ReaderOk, ReaderT, SeenUpTo
<1>3. me.count \in Nat BY <1>1 DEF SetCursor, ReaderOk
<1>4. n \in Nat /\ i \in Slot BY <1>2, <1>3, StartIndexInSlot
<1>5. /\ UNCHANGED writerVars
      /\ log_record_seq_num' = [log_record_seq_num EXCEPT ![me.cpu] = me.last]
  BY DEF SetCursor, NewCursor
<1>6. \/ rd' = [rd EXCEPT ![r] = NextCpu(me)]
      \/ rd' = [rd EXCEPT ![r] = m]
  BY DEF SetCursor
<1> HIDE DEF n, i
<1>7. m \in ReaderT
  <2>1. n \in Int BY <1>4
  <2> QED BY <1>2, <1>4, <2>1 DEF ReaderT
<1>8. ReaderOk(m) BY <1>1, <1>7 DEF ReaderOk, SeenUpTo, ReaderT
<1>9. ReaderOk(NextCpu(me)) BY <1>2, NextCpuOk
<1> HIDE DEF me, m
<1>10. \E c \in Cpu, k \in Int :
         k <= head[c] /\
         log_record_seq_num' = [log_record_seq_num EXCEPT ![c] = k]
  <2>1. me.last \in Int BY <1>2
  <2> QED BY <1>2, <1>5, <2>1
<1> QED BY <1>5, <1>6, <1>8, <1>9, <1>10, OneReader

(* It copies a field of a record, or passes over the record.               *)
LEMMA ReadField ==
  ASSUME ReaderInv, WriterInv, NEW r \in Readers, NEW f \in Copied,
         CopyField(r, f)
  PROVE ReaderInv'
<1> DEFINE me == rd[r]
           h == head[me.cpu]
           entry == ring[me.cpu][me.index]
           part == [me.part EXCEPT ![f] = entry[f]]
           results == Append(me.results, part)
           m == [me EXCEPT !.part = part]
<1>1. ReaderOk(me) BY DEF ReaderInv
<1>2. me \in ReaderT /\ me.cpu \in Cpu /\ me.index \in Slot /\ me.part \in CopyT
      /\ me.results \in Seq(CopyT)
  BY <1>1 DEF ReaderOk, ReaderT
<1>3. WriterType /\ RingBehindHead BY DEF WriterInv
<1>4. h \in Nat /\ entry \in RecordT BY <1>2, <1>3 DEF WriterType
<1>5. entry.seq_num <= h BY <1>2, <1>3 DEF RingBehindHead
<1>6. /\ me.part.seq_num <= h
      /\ \A k \in 1 .. Len(me.results) : me.results[k].seq_num <= h
  BY <1>1 DEF ReaderOk, SeenUpTo
<1> HIDE DEF h, entry
<1>7. part \in CopyT /\ part.seq_num <= h
  BY <1>2, <1>4, <1>5, <1>6, CopiedField
<1>8. \/ rd' = [rd EXCEPT ![r] = AdvanceIndex(me, me.results)]
      \/ rd' = [rd EXCEPT ![r] = AdvanceIndex(me, results)]
      \/ rd' = [rd EXCEPT ![r] = m]
  BY DEF CopyField, entry
<1>9. UNCHANGED writerVars /\ UNCHANGED log_record_seq_num
  BY DEF CopyField
<1> HIDE DEF part
<1>10. results \in Seq(CopyT) BY <1>2, <1>7
<1>11. \A k \in 1 .. Len(results) : results[k].seq_num <= h
  <2> SUFFICES ASSUME NEW k \in 1 .. Len(results)
               PROVE results[k].seq_num <= h
    OBVIOUS
  <2>1. CASE k \in 1 .. Len(me.results) BY <1>2, <1>6, <1>7, <2>1
  <2>2. CASE k = Len(me.results) + 1 BY <1>2, <1>7, <2>2
  <2> QED BY <1>2, <1>7, <2>1, <2>2
<1>12. m \in ReaderT BY <1>2, <1>7 DEF ReaderT
<1>13. ReaderOk(m)
  BY <1>1, <1>2, <1>7, <1>12 DEF ReaderOk, SeenUpTo, ReaderT, h
<1> HIDE DEF results, m
<1>14. ReaderOk(AdvanceIndex(me, results))
  BY <1>1, <1>3, <1>10, <1>11, AdvanceIndexOk DEF h
<1>15. ReaderOk(AdvanceIndex(me, me.results))
  BY <1>1, <1>2, <1>3, <1>6, AdvanceIndexOk DEF h
<1> HIDE DEF me
<1> QED BY <1>3, <1>8, <1>9, <1>13, <1>14, <1>15, OneReader

(* It shows all it read.                                                   *)
LEMMA ShowAll ==
  ASSUME ReaderInv, WriterType, NEW r \in Readers, EmitAll(r)
  PROVE ReaderInv'
<1> DEFINE me == rd[r]
           n == me.dumped + Len(me.results)
           m == [me EXCEPT !.dumped = n]
<1>1. me \in ReaderT BY DEF ReaderInv, ReaderOk
<1>2. n \in Int BY <1>1 DEF ReaderT
<1>3. /\ rd' = [rd EXCEPT ![r] = NextCpu(m)]
      /\ UNCHANGED writerVars /\ UNCHANGED log_record_seq_num
  BY DEF EmitAll
<1> HIDE DEF n
<1>4. m \in ReaderT BY <1>1, <1>2 DEF ReaderT
<1> HIDE DEF m
<1>5. ReaderOk(NextCpu(m)) BY <1>4, NextCpuOk
<1> QED BY <1>3, <1>5, OneReader

(* It sets the cursor back to the record that fills the page.              *)
LEMMA ShowUntilFull ==
  ASSUME ReaderInv, WriterType, NEW r \in Readers, NEW k \in Nat,
         NEW exact \in BOOLEAN, EmitUntilFull(r, k, exact)
  PROVE ReaderInv'
<1> DEFINE me == rd[r]
           n == me.results[k + 1].seq_num
<1>1. ReaderOk(me) BY DEF ReaderInv
<1>2. me.cpu \in Cpu /\ me.results \in Seq(CopyT)
  BY <1>1 DEF ReaderOk, ReaderT
<1>3. k + 1 \in 1 .. Len(me.results) BY <1>2 DEF EmitUntilFull
<1>4. n \in Int BY <1>2, <1>3 DEF CopyT, Copied
<1>5. n <= head[me.cpu] BY <1>1, <1>3 DEF ReaderOk, SeenUpTo
<1>6. /\ log_record_seq_num' = [log_record_seq_num EXCEPT ![me.cpu] = n]
      /\ rd' = [rd EXCEPT ![r] = AtRest]
      /\ UNCHANGED writerVars
  BY DEF EmitUntilFull, Rewind
<1> HIDE DEF me, n
<1>7. ReaderOk(AtRest)
  <2>1. Blank \in CopyT /\ Blank.seq_num = -1
    BY DEF Blank, CopyT, Copied, None
  <2>2. 0 \in Cpu /\ 1 \in Slot BY LogAssumption DEF Cpu, Slot
  <2>3. AtRest \in ReaderT BY <2>1, <2>2 DEF AtRest, ReaderT
  <2> QED BY <2>1, <2>2, <2>3 DEF ReaderOk, SeenUpTo, AtRest, WriterType
<1>8. \E c \in Cpu, j \in Int :
        j <= head[c] /\
        log_record_seq_num' = [log_record_seq_num EXCEPT ![c] = j]
  BY <1>2, <1>4, <1>5, <1>6
<1> QED BY <1>6, <1>7, <1>8, OneReader

LEMMA ReaderStep == WriterInv /\ ReaderInv /\ [Next]_vars => ReaderInv'
<1> SUFFICES ASSUME WriterInv, ReaderInv, [Next]_vars PROVE ReaderInv'
  OBVIOUS
<1>1. WriterType BY DEF WriterInv
<1>2. CASE \E c \in Cpu : log_buffer_add_record(c)
  <2> PICK c \in Cpu : log_buffer_add_record(c) BY <1>2
  <2>1. UNCHANGED <<rd, log_record_seq_num>>
    BY DEF log_buffer_add_record, StoreField, AdvanceHead
  <2>2. head' = head \/ head' = [head EXCEPT ![c] = @ + 1]
    BY DEF log_buffer_add_record, StoreField, AdvanceHead
  <2>3. /\ head' \in [Cpu -> Nat]
        /\ \A d \in Cpu : head[d] <= head'[d]
    BY <1>1, <2>2 DEF WriterType
  <2> QED BY <1>1, <2>1, <2>3, ReaderDuringWrite
<1>3. CASE \E r \in Readers : dump_log(r)
  <2> PICK r \in Readers : dump_log(r) BY <1>3
  <2>1. 0 .. LOGS_PER_CPU - 1 \subseteq Nat BY LogAssumption
  <2> QED BY <1>1, <2>1, ReadHead, ReadCursor, MoveCursor, ReadField,
             ShowAll, ShowUntilFull DEF dump_log
<1>4. CASE UNCHANGED vars
  <2>1. /\ UNCHANGED <<rd, log_record_seq_num>>
        /\ head' \in [Cpu -> Nat] /\ \A c \in Cpu : head[c] <= head'[c]
    BY <1>1, <1>4 DEF vars, WriterType
  <2> QED BY <1>1, <2>1, ReaderDuringWrite
<1> QED BY <1>2, <1>3, <1>4 DEF Next

(* No reader ever moves the cursor past the head, whatever it read and     *)
(* however many share the cursor: no event is skipped for having a number  *)
(* smaller than the cursor of dump_log.                                    *)
THEOREM CursorNeverPassesHead == Spec => []CursorBehindHead
<1>1. ReaderInv => CursorBehindHead BY DEF ReaderInv
<1> QED BY <1>1, WriterInit, WriterStep, ReaderInit, ReaderStep, PTL DEF Spec
=============================================================================
