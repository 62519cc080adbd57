------------------------ MODULE LogRingReaderProofs ------------------------
(***************************************************************************)
(* Proofs about the reader of LogRing.  With any number of readers: the    *)
(* variables keep their types, so that no count, index or page leaves its  *)
(* bound and no cursor becomes negative (TypeOK).  With one reader at      *)
(* most, which is what log.txt promises anything for: the count is never   *)
(* past the log (CountIsAvailable), the index arithmetic reads the newest  *)
(* records in order (ReadsNewest), and over all dumps and full pages the   *)
(* reader shows the events in order and without a gap (EventsInOrder).     *)
(***************************************************************************)
EXTENDS LogRingProofs

-----------------------------------------------------------------------------
(* Types, for any number of readers                                        *)

(* What is in the rings is numbered, and the bound on events holds.        *)
RingTypes ==
  /\ \A c \in Cpu : \A i \in Slot :
       ring[c][i].seq_num \in Nat /\ ring[c][i].data \in Nat \cup {Zeroed}
  /\ \A c \in Cpu :
       head[c] <= MaxSeq /\ (stored[c] # {} => head[c] < MaxSeq)

(* A whole copy, and one of which fields may be missing.                   *)
WholeT == {p \in CopyT : p.seq_num \in Nat /\ p.data \in Nat \cup {Zeroed}}
PartT == {p \in CopyT : /\ p.seq_num \in Nat \cup {None}
                        /\ p.data \in Nat \cup {Zeroed, None}}

(* The locals of one reader: what is read and what is left to read fit in  *)
(* a ring.                                                                 *)
LocalsOk(me) ==
  /\ me.count \in 0 .. UINT32 - 1
  /\ me.dumped \in 0 .. PageMax
  /\ me.part \in PartT
  /\ me.results \in Seq(WholeT)
  /\ me.pc \in {"head", "cursor", "set"} => me.results = << >>
  /\ me.pc = "copy" => me.count >= 1 /\ Len(me.results) + me.count <= LOGS_PER_CPU
  /\ Len(me.results) <= LOGS_PER_CPU

TypeInv ==
  /\ RingTypes
  /\ log_record_seq_num \in [Cpu -> Nat]
  /\ \A r \in Readers : LocalsOk(rd[r])

LEMMA BlankIsPart == Blank \in PartT
  BY DEF Blank, PartT, CopyT, Copied, None

(* A store leaves a number in the record's fields.                         *)
LEMMA StoreTypes ==
  ASSUME WriterType, RingTypes, NEW c \in Cpu, NEW f \in Field,
         StoreField(c, f)
  PROVE RingTypes'
<1> DEFINE s == head[c]
           i == LOG_SEQ_NUM_TO_INDEX(s)
           S == [ring[c][i] EXCEPT ![f] = RecordOf(s)[f]]
<1>1. s \in Nat /\ i \in Slot /\ ring[c][i] \in RecordT
  BY IndexInSlot DEF WriterType
<1>2. ring[c][i].seq_num \in Nat /\ ring[c][i].data \in Nat \cup {Zeroed}
  BY <1>1 DEF RingTypes
<1>3. S.seq_num \in Nat /\ S.data \in Nat \cup {Zeroed}
  BY <1>1, <1>2 DEF Field, Copied, RecordOf, RecordT
<1>4. /\ head' = head
      /\ stored' = [stored EXCEPT ![c] = @ \cup {f}]
      /\ ring' = [ring EXCEPT ![c] = [ring[c] EXCEPT ![i] = S]]
      /\ head[c] < MaxSeq
  BY DEF StoreField
<1> HIDE DEF i, S
<1>5. ASSUME NEW d \in Cpu, NEW j \in Slot
      PROVE ring'[d][j].seq_num \in Nat /\ ring'[d][j].data \in Nat \cup {Zeroed}
  <2>1. CASE d = c /\ j = i
    <3>1. ring'[d][j] = S BY <1>1, <1>4, <2>1 DEF WriterType
    <3> QED BY <1>3, <3>1
  <2>2. CASE ~(d = c /\ j = i)
    <3>1. ring'[d][j] = ring[d][j] BY <1>1, <1>4, <2>2 DEF WriterType
    <3> QED BY <3>1 DEF RingTypes
  <2> QED BY <2>1, <2>2
<1>6. ASSUME NEW d \in Cpu
      PROVE head'[d] <= MaxSeq /\ (stored'[d] # {} => head'[d] < MaxSeq)
  <2>1. CASE d = c BY <1>4, <2>1 DEF RingTypes
  <2>2. CASE d # c
    <3>1. stored'[d] = stored[d] BY <1>4, <2>2 DEF WriterType
    <3> QED BY <1>4, <3>1 DEF RingTypes
  <2> QED BY <2>1, <2>2
<1> QED BY <1>5, <1>6 DEF RingTypes

LEMMA AdvanceTypes ==
  ASSUME WriterType, RingTypes, NEW c \in Cpu, AdvanceHead(c)
  PROVE RingTypes'
<1>1. /\ head' = [head EXCEPT ![c] = @ + 1]
      /\ stored' = [stored EXCEPT ![c] = {}]
      /\ ring' = ring
      /\ head[c] < MaxSeq
  BY DEF AdvanceHead, RingTypes, Field
<1>2. ASSUME NEW d \in Cpu
      PROVE head'[d] <= MaxSeq /\ (stored'[d] # {} => head'[d] < MaxSeq)
  <2>1. head[c] \in Nat /\ MaxSeq \in Nat BY LogAssumption DEF WriterType
  <2>2. CASE d = c
    BY <1>1, <2>1, <2>2 DEF WriterType
  <2>3. CASE d # c
    <3>1. stored'[d] = stored[d] /\ head'[d] = head[d]
      BY <1>1, <2>3 DEF WriterType
    <3> QED BY <3>1 DEF RingTypes
  <2> QED BY <2>2, <2>3
<1> QED BY <1>1, <1>2 DEF RingTypes

(* The next CPU keeps only what is already on the page.                    *)
LEMMA NextCpuLocals ==
  ASSUME NEW me \in ReaderT, me.dumped \in 0 .. PageMax
  PROVE LocalsOk(NextCpu(me))
<1>1. ASSUME NEW m, m.pc = "head", m.count = 0, m.dumped \in 0 .. PageMax,
             m.part = Blank, m.results = << >>
      PROVE LocalsOk(m)
  BY <1>1, BlankIsPart, LogAssumption DEF LocalsOk
<1>2. LocalsOk(AtRest) BY <1>1, LogAssumption DEF AtRest
<1>3. CASE me.cpu + 1 < NumCpus
  <2> DEFINE m == [AtRest EXCEPT !.cpu = me.cpu + 1, !.dumped = me.dumped]
  <2>1. /\ m.pc = "head" /\ m.count = 0 /\ m.dumped = me.dumped
        /\ m.part = Blank /\ m.results = << >>
    BY DEF AtRest
  <2>2. NextCpu(me) = m BY <1>3 DEF NextCpu
  <2> HIDE DEF m
  <2> QED BY <1>1, <2>1, <2>2
<1>4. CASE ~(me.cpu + 1 < NumCpus) BY <1>2, <1>4 DEF NextCpu
<1> QED BY <1>3, <1>4

(* The fields of what AdvanceIndex returns.                                *)
LEMMA AdvanceFields ==
  ASSUME NEW me \in ReaderT, NEW results \in Seq(CopyT)
  PROVE LET m == AdvanceIndex(me, results)
            done == \/ NextIndex(me.index) = LOG_SEQ_NUM_TO_INDEX(me.last)
                    \/ me.count = 1
        IN /\ m.cpu = me.cpu /\ m.last = me.last /\ m.dumped = me.dumped
           /\ m.index = NextIndex(me.index)
           /\ m.part = Blank /\ m.results = results
           /\ done => m.pc = "emit" /\ m.count = me.count
           /\ ~done => m.pc = "copy" /\ m.count = me.count - 1
  BY DEF AdvanceIndex, ReaderT

(* The end of an iteration: one record less to read, at most one more read.*)
LEMMA AdvanceLocals ==
  ASSUME NEW me \in ReaderT, me.pc = "copy", LocalsOk(me),
         NEW results \in Seq(WholeT), Len(results) <= Len(me.results) + 1
  PROVE LocalsOk(AdvanceIndex(me, results))
<1> DEFINE m == AdvanceIndex(me, results)
<1>1. results \in Seq(CopyT) BY DEF WholeT
<1>2. /\ m.dumped = me.dumped /\ m.part = Blank /\ m.results = results
      /\ \/ m.pc = "emit" /\ m.count = me.count
         \/ m.pc = "copy" /\ m.count = me.count - 1 /\ me.count # 1
  BY <1>1, AdvanceFields
<1> HIDE DEF m
<1>3. /\ me.count \in 0 .. UINT32 - 1 /\ me.count >= 1
      /\ Len(me.results) + me.count <= LOGS_PER_CPU
      /\ me.dumped \in 0 .. PageMax /\ UINT32 \in Nat /\ LOGS_PER_CPU \in Nat
      /\ Len(me.results) \in Nat /\ Len(results) \in Nat
  BY LogAssumption DEF LocalsOk
<1>4. LocalsOk(m)
  BY <1>2, <1>3, BlankIsPart DEF LocalsOk
<1> QED BY <1>4 DEF m

(* A field copied from a record of the ring.                               *)
LEMMA CopyPart ==
  ASSUME NEW R, R.seq_num \in Nat, R.data \in Nat \cup {Zeroed},
         NEW f \in Copied, NEW p \in PartT
  PROVE LET q == [p EXCEPT ![f] = R[f]]
        IN /\ q \in PartT
           /\ (\E g \in Copied \ {f} : p[g] # None) => q \in WholeT
  BY DEF PartT, WholeT, CopyT, Copied, None, Zeroed

(* A step that changes one reader's locals.                                *)
LEMMA OneReaderTypes ==
  ASSUME TypeInv, ReaderInv, NEW r \in Readers, NEW m, LocalsOk(m),
         UNCHANGED writerVars, rd' = [rd EXCEPT ![r] = m],
         log_record_seq_num' \in [Cpu -> Nat]
  PROVE TypeInv'
<1>1. RingTypes' BY DEF TypeInv, RingTypes, writerVars
<1>2. ASSUME NEW q \in Readers PROVE LocalsOk(rd'[q])
  <2>1. CASE q = r BY <2>1 DEF ReaderInv
  <2>2. CASE q # r BY <2>2 DEF ReaderInv, TypeInv
  <2> QED BY <2>1, <2>2
<1>3. \A q \in Readers : LocalsOk(rd[q])'
  BY <1>2 DEF LocalsOk
<1> QED BY <1>1, <1>3 DEF TypeInv

(* Each step of dump_log, field by field.                                  *)
LEMMA NextCpuFields ==
  ASSUME NEW me
  PROVE LET m == NextCpu(me)
        IN m.pc = "head" /\ m.part = Blank /\ m.results = << >>
<1>1. CASE me.cpu + 1 < NumCpus
  BY <1>1 DEF NextCpu, AtRest
<1>2. CASE ~(me.cpu + 1 < NumCpus)
  BY <1>2 DEF NextCpu, AtRest
<1> QED BY <1>1, <1>2

LEMMA HeadStep ==
  ASSUME ReaderInv, NEW r \in Readers, get_last_seq_num(r)
  PROVE \E m :
    /\ rd' = [rd EXCEPT ![r] = m]
    /\ rd[r].pc = "head" /\ m.pc = "cursor"
    /\ m.last = head[rd[r].cpu]
    /\ m.cpu = rd[r].cpu /\ m.count = rd[r].count /\ m.part = rd[r].part
    /\ m.results = rd[r].results /\ m.dumped = rd[r].dumped
<1> DEFINE me == rd[r]
           m == [me EXCEPT !.last = head[me.cpu], !.pc = "cursor"]
<1>1. me \in ReaderT BY DEF ReaderInv, ReaderOk
<1>2. rd' = [rd EXCEPT ![r] = m] /\ me.pc = "head"
  BY DEF get_last_seq_num, ReaderInv
<1>3. /\ m.pc = "cursor" /\ m.last = head[me.cpu]
      /\ m.cpu = me.cpu /\ m.count = me.count /\ m.part = me.part
      /\ m.results = me.results /\ m.dumped = me.dumped
  BY <1>1 DEF ReaderT
<1> HIDE DEF m
<1> QED BY <1>2, <1>3

LEMMA CountStep ==
  ASSUME ReaderInv, NEW r \in Readers, CountLogs(r)
  PROVE \E m :
    /\ rd' = [rd EXCEPT ![r] = m]
    /\ rd[r].pc = "cursor" /\ m.pc = "set"
    /\ m.count = (rd[r].last - log_record_seq_num[rd[r].cpu]) % UINT32
    /\ m.cpu = rd[r].cpu /\ m.last = rd[r].last /\ m.part = rd[r].part
    /\ m.results = rd[r].results /\ m.dumped = rd[r].dumped
<1> DEFINE me == rd[r]
           n == num_of_logs_to_read(me.last, log_record_seq_num[me.cpu])
           m == [me EXCEPT !.count = n, !.pc = "set"]
<1>1. me \in ReaderT BY DEF ReaderInv, ReaderOk
<1>2. rd' = [rd EXCEPT ![r] = m] /\ me.pc = "cursor"
  BY DEF CountLogs, ReaderInv
<1>3. n = (me.last - log_record_seq_num[me.cpu]) % UINT32
  BY DEF num_of_logs_to_read
<1> HIDE DEF n
<1>4. /\ m.pc = "set" /\ m.count = n
      /\ m.cpu = me.cpu /\ m.last = me.last /\ m.part = me.part
      /\ m.results = me.results /\ m.dumped = me.dumped
  BY <1>1 DEF ReaderT
<1> HIDE DEF m
<1> QED BY <1>2, <1>3, <1>4

LEMMA SetStep ==
  ASSUME ReaderInv, NEW r \in Readers, SetCursor(r)
  PROVE
    /\ rd[r].pc = "set"
    /\ log_record_seq_num' =
         [log_record_seq_num EXCEPT ![rd[r].cpu] = rd[r].last]
    /\ (rd[r].count = 0 \/ rd[r].last = 0)
         => rd' = [rd EXCEPT ![r] = NextCpu(rd[r])]
    /\ ~(rd[r].count = 0 \/ rd[r].last = 0)
         => \E m :
              /\ rd' = [rd EXCEPT ![r] = m]
              /\ m.pc = "copy" /\ m.count = ClampCount(rd[r].count)
              /\ m.index = StartIndex(rd[r].last, m.count)
              /\ m.cpu = rd[r].cpu /\ m.last = rd[r].last
              /\ m.part = rd[r].part /\ m.results = rd[r].results
              /\ m.dumped = rd[r].dumped
<1> DEFINE me == rd[r]
           n == ClampCount(me.count)
           i == StartIndex(me.last, n)
           m == [me EXCEPT !.pc = "copy", !.count = n, !.index = i]
<1>1. me \in ReaderT BY DEF ReaderInv, ReaderOk
<1>2. /\ me.pc = "set"
      /\ log_record_seq_num' = [log_record_seq_num EXCEPT ![me.cpu] = me.last]
      /\ (me.count = 0 \/ me.last = 0) => rd' = [rd EXCEPT ![r] = NextCpu(me)]
      /\ ~(me.count = 0 \/ me.last = 0) => rd' = [rd EXCEPT ![r] = m]
  BY DEF SetCursor, NewCursor
<1> HIDE DEF i, n
<1>3. /\ m.pc = "copy" /\ m.count = n /\ m.index = i
      /\ m.cpu = me.cpu /\ m.last = me.last /\ m.part = me.part
      /\ m.results = me.results /\ m.dumped = me.dumped
  BY <1>1 DEF ReaderT
<1> HIDE DEF m
<1> QED BY <1>2, <1>3 DEF i, n

(* The record is passed over, or is whole, or is not whole yet.            *)
LEMMA CopyStep ==
  ASSUME ReaderInv, NEW r \in Readers, NEW f \in Copied, CopyField(r, f)
  PROVE
    LET me == rd[r]
        entry == ring[me.cpu][me.index]
        part == [me.part EXCEPT ![f] = entry[f]]
        whole == \E g \in Copied \ {f} : me.part[g] # None
    IN /\ me.pc = "copy" /\ me.part[f] = None
       /\ ~entry.valid =>
            rd' = [rd EXCEPT ![r] = AdvanceIndex(me, me.results)]
       /\ entry.valid /\ whole =>
            rd' = [rd EXCEPT ![r] = AdvanceIndex(me, Append(me.results, part))]
       /\ entry.valid /\ ~whole =>
            \E m :
              /\ rd' = [rd EXCEPT ![r] = m]
              /\ m.part = part
              /\ m.pc = me.pc /\ m.count = me.count /\ m.index = me.index
              /\ m.cpu = me.cpu /\ m.last = me.last
              /\ m.results = me.results /\ m.dumped = me.dumped
<1> DEFINE me == rd[r]
           entry == ring[me.cpu][me.index]
           part == [me.part EXCEPT ![f] = entry[f]]
           whole == \E g \in Copied \ {f} : me.part[g] # None
           m == [me EXCEPT !.part = part]
<1>1. me \in ReaderT BY DEF ReaderInv, ReaderOk
<1>2. /\ me.pc = "copy" /\ me.part[f] = None
      /\ ~entry.valid => rd' = [rd EXCEPT ![r] = AdvanceIndex(me, me.results)]
      /\ (entry.valid /\ whole) =>
            rd' = [rd EXCEPT ![r] = AdvanceIndex(me, Append(me.results, part))]
      /\ (entry.valid /\ ~whole) => rd' = [rd EXCEPT ![r] = m]
  BY DEF CopyField
<1> HIDE DEF part
<1>3. /\ m.part = part
      /\ m.pc = me.pc /\ m.count = me.count /\ m.index = me.index
      /\ m.cpu = me.cpu /\ m.last = me.last
      /\ m.results = me.results /\ m.dumped = me.dumped
  BY <1>1 DEF ReaderT
<1> HIDE DEF m
<1>4. ASSUME entry.valid, ~whole
      PROVE \E n :
              /\ rd' = [rd EXCEPT ![r] = n]
              /\ n.part = part
              /\ n.pc = me.pc /\ n.count = me.count /\ n.index = me.index
              /\ n.cpu = me.cpu /\ n.last = me.last
              /\ n.results = me.results /\ n.dumped = me.dumped
  BY <1>2, <1>3, <1>4
<1> HIDE DEF me, entry, whole
<1> QED BY <1>2, <1>4 DEF me, entry, whole, part

LEMMA HeadTypes ==
  ASSUME TypeInv, ReaderInv, NEW r \in Readers, get_last_seq_num(r)
  PROVE TypeInv'
<1> PICK m :
    /\ rd' = [rd EXCEPT ![r] = m]
    /\ rd[r].pc = "head" /\ m.pc = "cursor"
    /\ m.last = head[rd[r].cpu]
    /\ m.cpu = rd[r].cpu /\ m.count = rd[r].count /\ m.part = rd[r].part
    /\ m.results = rd[r].results /\ m.dumped = rd[r].dumped
  BY HeadStep
<1>1. LocalsOk(rd[r]) BY DEF TypeInv
<1>2. LocalsOk(m) BY <1>1 DEF LocalsOk
<1>3. UNCHANGED writerVars /\ log_record_seq_num' \in [Cpu -> Nat]
  BY DEF get_last_seq_num, TypeInv
<1> QED BY <1>2, <1>3, OneReaderTypes

LEMMA CountTypes ==
  ASSUME TypeInv, ReaderInv, NEW r \in Readers, CountLogs(r)
  PROVE TypeInv'
<1> PICK m :
    /\ rd' = [rd EXCEPT ![r] = m]
    /\ rd[r].pc = "cursor" /\ m.pc = "set"
    /\ m.count = (rd[r].last - log_record_seq_num[rd[r].cpu]) % UINT32
    /\ m.cpu = rd[r].cpu /\ m.last = rd[r].last /\ m.part = rd[r].part
    /\ m.results = rd[r].results /\ m.dumped = rd[r].dumped
  BY CountStep
<1>1. LocalsOk(rd[r]) BY DEF TypeInv
<1>2. m.count \in 0 .. UINT32 - 1
  <2>1. rd[r].last - log_record_seq_num[rd[r].cpu] \in Int
    BY DEF TypeInv, ReaderInv, ReaderOk, ReaderT
  <2>2. UINT32 \in Nat \ {0} BY LogAssumption
  <2> QED BY <2>1, <2>2, DivMod
<1>3. LocalsOk(m) BY <1>1, <1>2 DEF LocalsOk
<1>4. UNCHANGED writerVars /\ log_record_seq_num' \in [Cpu -> Nat]
  BY DEF CountLogs, TypeInv
<1> QED BY <1>3, <1>4, OneReaderTypes

LEMMA SetTypes ==
  ASSUME TypeInv, ReaderInv, NEW r \in Readers, SetCursor(r)
  PROVE TypeInv'
<1> DEFINE me == rd[r]
<1>1. LocalsOk(me) BY DEF TypeInv
<1>2. me \in ReaderT /\ me.cpu \in Cpu /\ me.last \in Nat
  BY DEF ReaderInv, ReaderOk, ReaderT
<1>3. me.count \in Nat /\ me.dumped \in 0 .. PageMax
  BY <1>1, LogAssumption DEF LocalsOk
<1>4. /\ me.pc = "set"
      /\ log_record_seq_num' = [log_record_seq_num EXCEPT ![me.cpu] = me.last]
  BY SetStep
<1>5. UNCHANGED writerVars /\ log_record_seq_num' \in [Cpu -> Nat]
  BY <1>2, <1>4 DEF SetCursor, TypeInv
<1>6. CASE me.count = 0 \/ me.last = 0
  <2>1. rd' = [rd EXCEPT ![r] = NextCpu(me)] BY <1>6, SetStep
  <2>2. LocalsOk(NextCpu(me)) BY <1>2, <1>3, NextCpuLocals
  <2> QED BY <1>5, <2>1, <2>2, OneReaderTypes
<1>7. CASE ~(me.count = 0 \/ me.last = 0)
  <2> PICK m :
        /\ rd' = [rd EXCEPT ![r] = m]
        /\ m.pc = "copy" /\ m.count = ClampCount(me.count)
        /\ m.index = StartIndex(me.last, m.count)
        /\ m.cpu = me.cpu /\ m.last = me.last
        /\ m.part = me.part /\ m.results = me.results
        /\ m.dumped = me.dumped
    BY <1>7, SetStep
  <2>1. m.count \in 1 .. LOGS_PER_CPU /\ m.count \in 0 .. UINT32 - 1
    BY <1>1, <1>7, LogAssumption DEF LocalsOk, ClampCount
  <2>2. me.results = << >> /\ me.part \in PartT BY <1>1, <1>4 DEF LocalsOk
  <2>3. LocalsOk(m) BY <1>3, <2>1, <2>2, LogAssumption DEF LocalsOk
  <2> QED BY <1>5, <2>3, OneReaderTypes
<1> QED BY <1>6, <1>7

LEMMA CopyTypes ==
  ASSUME TypeInv, WriterType, ReaderInv, NEW r \in Readers, NEW f \in Copied,
         CopyField(r, f)
  PROVE TypeInv'
<1> DEFINE me == rd[r]
           entry == ring[me.cpu][me.index]
           part == [me.part EXCEPT ![f] = entry[f]]
           whole == \E g \in Copied \ {f} : me.part[g] # None
<1>1. LocalsOk(me) BY DEF TypeInv
<1>2. me \in ReaderT /\ me.cpu \in Cpu /\ me.index \in Slot
  BY DEF ReaderInv, ReaderOk, ReaderT
<1>3. entry.seq_num \in Nat /\ entry.data \in Nat \cup {Zeroed}
  BY <1>2 DEF TypeInv, RingTypes
<1>4. entry.valid \in BOOLEAN BY <1>2 DEF WriterType, RecordT
<1>5. me.part \in PartT /\ me.results \in Seq(WholeT) BY <1>1 DEF LocalsOk
<1>6. part \in PartT /\ (whole => part \in WholeT)
  <2> HIDE DEF entry
  <2> QED BY <1>3, <1>5, CopyPart
<1>7. UNCHANGED writerVars /\ log_record_seq_num' \in [Cpu -> Nat]
  BY DEF CopyField, TypeInv
<1>8. /\ me.pc = "copy"
      /\ ~entry.valid => rd' = [rd EXCEPT ![r] = AdvanceIndex(me, me.results)]
      /\ entry.valid /\ whole =>
           rd' = [rd EXCEPT ![r] = AdvanceIndex(me, Append(me.results, part))]
      /\ entry.valid /\ ~whole =>
           \E m :
             /\ rd' = [rd EXCEPT ![r] = m]
             /\ m.part = part
             /\ m.pc = me.pc /\ m.count = me.count /\ m.index = me.index
             /\ m.cpu = me.cpu /\ m.last = me.last
             /\ m.results = me.results /\ m.dumped = me.dumped
  BY CopyStep
<1> HIDE DEF entry, part, whole
<1>9. CASE ~entry.valid
  <2>1. LocalsOk(AdvanceIndex(me, me.results))
    BY <1>1, <1>2, <1>5, <1>8, AdvanceLocals
  <2> QED BY <1>7, <1>8, <1>9, <2>1, OneReaderTypes
<1>10. CASE entry.valid /\ whole
  <2> DEFINE results == Append(me.results, part)
  <2>1. results \in Seq(WholeT) /\ Len(results) = Len(me.results) + 1
    BY <1>5, <1>6, <1>10
  <2> HIDE DEF results
  <2>2. LocalsOk(AdvanceIndex(me, results))
    BY <1>1, <1>2, <1>8, <2>1, AdvanceLocals
  <2>3. rd' = [rd EXCEPT ![r] = AdvanceIndex(me, results)]
    BY <1>8, <1>10 DEF results
  <2> QED BY <1>7, <2>2, <2>3, OneReaderTypes
<1>11. CASE entry.valid /\ ~whole
  <2> PICK m :
        /\ rd' = [rd EXCEPT ![r] = m]
        /\ m.part = part
        /\ m.pc = me.pc /\ m.count = me.count /\ m.index = me.index
        /\ m.cpu = me.cpu /\ m.last = me.last
        /\ m.results = me.results /\ m.dumped = me.dumped
    BY <1>8, <1>11
  <2>1. LocalsOk(m) BY <1>1, <1>6 DEF LocalsOk
  <2> QED BY <1>7, <2>1, OneReaderTypes
<1> QED BY <1>9, <1>10, <1>11

LEMMA EmitAllTypes ==
  ASSUME TypeInv, ReaderInv, NEW r \in Readers, EmitAll(r)
  PROVE TypeInv'
<1> DEFINE me == rd[r]
           n == me.dumped + Len(me.results)
           m == [me EXCEPT !.dumped = n]
<1>1. me \in ReaderT BY DEF ReaderInv, ReaderOk
<1>2. n \in 0 .. PageMax
  BY LogAssumption DEF EmitAll, TypeInv, LocalsOk
<1>3. /\ rd' = [rd EXCEPT ![r] = NextCpu(m)]
      /\ UNCHANGED writerVars /\ log_record_seq_num' \in [Cpu -> Nat]
  BY DEF EmitAll, TypeInv
<1> HIDE DEF n, me
<1>4. m \in ReaderT /\ m.dumped \in 0 .. PageMax
  <2>1. n \in Int BY <1>2
  <2>2. m \in ReaderT BY <1>1, <2>1 DEF ReaderT
  <2>3. m.dumped = n BY <1>1 DEF ReaderT
  <2> QED BY <1>2, <2>2, <2>3
<1> HIDE DEF m
<1>5. LocalsOk(NextCpu(m)) BY <1>4, NextCpuLocals
<1> QED BY <1>3, <1>5, OneReaderTypes

LEMMA EmitUntilFullTypes ==
  ASSUME TypeInv, ReaderInv, NEW r \in Readers, NEW k \in Nat,
         NEW exact \in BOOLEAN, EmitUntilFull(r, k, exact)
  PROVE TypeInv'
<1> DEFINE me == rd[r]
           n == me.results[k + 1].seq_num
<1>1. me.cpu \in Cpu BY DEF ReaderInv, ReaderOk, ReaderT
<1>2. me.results \in Seq(WholeT) BY DEF TypeInv, LocalsOk
<1>3. k + 1 \in 1 .. Len(me.results) BY <1>2 DEF EmitUntilFull
<1>4. n \in Nat BY <1>2, <1>3 DEF WholeT
<1>5. /\ log_record_seq_num' = [log_record_seq_num EXCEPT ![me.cpu] = n]
      /\ rd' = [rd EXCEPT ![r] = AtRest]
      /\ UNCHANGED writerVars
  BY DEF EmitUntilFull, Rewind
<1> HIDE DEF n
<1>6. log_record_seq_num' \in [Cpu -> Nat] BY <1>4, <1>5 DEF TypeInv
<1>7. LocalsOk(AtRest)
  BY BlankIsPart, LogAssumption DEF LocalsOk, AtRest
<1> QED BY <1>5, <1>6, <1>7, OneReaderTypes

LEMMA TypesInit == Init => TypeInv
<1> SUFFICES ASSUME Init PROVE TypeInv OBVIOUS
<1>1. LocalsOk(AtRest)
  BY BlankIsPart, LogAssumption DEF LocalsOk, AtRest
<1>2. RingTypes BY LogAssumption DEF Init, RingTypes, ZeroRecord
<1>3. log_record_seq_num \in [Cpu -> Nat] BY DEF Init
<1> QED BY <1>1, <1>2, <1>3 DEF Init, TypeInv

LEMMA TypesStep ==
  WriterInv /\ ReaderInv /\ TypeInv /\ [Next]_vars => TypeInv'
<1> SUFFICES ASSUME WriterInv, ReaderInv, TypeInv, [Next]_vars PROVE TypeInv'
  OBVIOUS
<1>1. WriterType /\ RingTypes BY DEF WriterInv, TypeInv
<1>2. ASSUME RingTypes', UNCHANGED <<rd, log_record_seq_num>> PROVE TypeInv'
  BY <1>2 DEF TypeInv, LocalsOk
<1>3. CASE \E c \in Cpu : log_buffer_add_record(c)
  <2> PICK c \in Cpu : log_buffer_add_record(c) BY <1>3
  <2>1. UNCHANGED <<rd, log_record_seq_num>>
    BY DEF log_buffer_add_record, StoreField, AdvanceHead
  <2>2. RingTypes'
    BY <1>1, StoreTypes, AdvanceTypes DEF log_buffer_add_record
  <2> QED BY <1>2, <2>1, <2>2
<1>4. CASE \E r \in Readers : dump_log(r)
  <2> PICK r \in Readers : dump_log(r) BY <1>4
  <2>1. 0 .. LOGS_PER_CPU - 1 \subseteq Nat BY LogAssumption
  <2> QED BY <1>1, <2>1, HeadTypes, CountTypes, SetTypes, CopyTypes,
             EmitAllTypes, EmitUntilFullTypes DEF dump_log
<1>5. CASE UNCHANGED vars
  BY <1>1, <1>2, <1>5 DEF vars, RingTypes
<1> QED BY <1>3, <1>4, <1>5 DEF Next

(* The variables hold values of their types for any number of readers, of  *)
(* which each may spoil the others' count: no count leaves its 32 bits, no *)
(* index the ring, no copy the buffer of one ring, no page its size, and   *)
(* no cursor becomes negative.                                             *)
THEOREM LogTypeCorrect == Spec => []TypeOK
<1>1. WriterInv /\ ReaderInv /\ TypeInv => TypeOK
  <2> SUFFICES ASSUME WriterInv, ReaderInv, TypeInv PROVE TypeOK OBVIOUS
  <2> DEFINE recordType == [seq_num : Nat, data : Nat \cup {Zeroed},
                            valid : BOOLEAN]
             copyType == [Copied -> Nat \cup {Zeroed, None}]
  <2>1. head \in [Cpu -> 0 .. MaxSeq]
    BY LogAssumption DEF WriterInv, WriterType, TypeInv, RingTypes
  <2>2. ring \in [Cpu -> [Slot -> recordType]]
    <3>1. ASSUME NEW c \in Cpu, NEW i \in Slot
          PROVE ring[c][i] \in recordType
      BY DEF WriterInv, WriterType, RecordT, TypeInv, RingTypes
    <3> QED BY <3>1 DEF WriterInv, WriterType
  <2>3. stored \in [Cpu -> SUBSET Field] BY DEF WriterInv, WriterType
  <2>4. log_record_seq_num \in [Cpu -> Nat] BY DEF TypeInv
  <2>5. WholeT \subseteq copyType /\ PartT \subseteq copyType
    BY DEF WholeT, PartT, CopyT, Copied
  <2>6. ASSUME NEW r \in Readers
        PROVE /\ rd[r].pc \in {"head", "cursor", "set", "copy", "emit"}
              /\ rd[r].cpu \in Cpu
              /\ rd[r].last \in Nat
              /\ rd[r].count \in 0 .. UINT32 - 1
              /\ rd[r].index \in Slot
              /\ rd[r].part \in copyType
              /\ \A k \in 1 .. Len(rd[r].results) :
                   rd[r].results[k] \in copyType
              /\ Len(rd[r].results) <= LOGS_PER_CPU
              /\ rd[r].dumped \in 0 .. PageMax
    <3>1. rd[r] \in ReaderT BY DEF ReaderInv, ReaderOk
    <3>2. LocalsOk(rd[r]) BY DEF TypeInv
    <3> HIDE DEF copyType
    <3> QED BY <2>5, <3>1, <3>2 DEF ReaderT, LocalsOk
  <2> QED BY <2>1, <2>2, <2>3, <2>4, <2>6 DEF TypeOK
<1> QED BY <1>1, WriterInit, WriterStep, ReaderInit, ReaderStep, TypesInit,
           TypesStep, PTL DEF Spec

-----------------------------------------------------------------------------
(* The index arithmetic of read_logs                                       *)

(* A remainder and a quotient are the only ones.                           *)
LEMMA ModUnique ==
  ASSUME NEW L \in Nat \ {0}, NEW a \in Int, NEW q \in Int,
         NEW m \in 0 .. L - 1, a = L * q + m
  PROVE a % L = m
<1> DEFINE p == a \div L
           n == a % L
<1>1. p \in Int /\ a = L * p + n /\ n \in 0 .. L - 1 BY DivMod
<1> HIDE DEF p, n
<1>2. L * (q - p) = n - m BY <1>1
<1>3. L * (p - q) = m - n BY <1>1
<1>4. q - p \in Int /\ p - q \in Int BY <1>1
<1>5. CASE n > m
  <2>1. 0 < L * (q - p) /\ L * (q - p) < L BY <1>1, <1>2, <1>5
  <2> QED BY <1>4, <2>1, NoMultipleBetween
<1>6. CASE m > n
  <2>1. 0 < L * (p - q) /\ L * (p - q) < L BY <1>1, <1>3, <1>6
  <2> QED BY <1>4, <2>1, NoMultipleBetween
<1>7. CASE n = m BY <1>7 DEF n
<1> QED BY <1>1, <1>5, <1>6, <1>7

(* A remainder is never more than the number, and is it when it is small.  *)
LEMMA ModAtMost ==
  ASSUME NEW L \in Nat \ {0}, NEW a \in Nat
  PROVE a % L <= a /\ (a < L => a % L = a)
<1> DEFINE p == a \div L
           n == a % L
<1>1. p \in Int /\ a = L * p + n /\ n \in 0 .. L - 1 BY DivMod
<1>2. a < L => n = a
  <2> SUFFICES ASSUME a < L PROVE n = a OBVIOUS
  <2>1. a = L * 0 + a /\ a \in 0 .. L - 1 OBVIOUS
  <2> QED BY <2>1, ModUnique
<1> HIDE DEF p, n
<1>3. n <= a BY <1>1, <1>2
<1> QED BY <1>2, <1>3 DEF n

(* The index after the one of an event is the one of the next event.       *)
LEMMA NextIndexIs ==
  ASSUME NEW s \in Int
  PROVE NextIndex(LOG_SEQ_NUM_TO_INDEX(s)) = LOG_SEQ_NUM_TO_INDEX(s + 1)
<1> DEFINE L == LOGS_PER_CPU
           q == s \div L
           m == s % L
<1>1. L \in Nat \ {0} BY LogAssumption
<1>2. q \in Int /\ s = L * q + m /\ m \in 0 .. L - 1 BY <1>1, DivMod
<1>3. LOG_SEQ_NUM_TO_INDEX(s) = m + 1 BY DEF LOG_SEQ_NUM_TO_INDEX
<1>4. LOG_SEQ_NUM_TO_INDEX(s + 1) = ((s + 1) % L) + 1
  BY DEF LOG_SEQ_NUM_TO_INDEX
<1>5. NextIndex(m + 1) = IF m + 1 >= L THEN 1 ELSE (m + 1) + 1
  BY DEF NextIndex
<1> HIDE DEF L, q, m
<1>6. CASE m + 1 >= L
  <2>1. s + 1 = L * (q + 1) + 0 /\ 0 \in 0 .. L - 1 /\ q + 1 \in Int
    BY <1>1, <1>2, <1>6
  <2>2. (s + 1) % L = 0 BY <1>1, <2>1, ModUnique
  <2> QED BY <1>3, <1>4, <1>5, <1>6, <2>2
<1>7. CASE ~(m + 1 >= L)
  <2>1. s + 1 = L * q + (m + 1) /\ m + 1 \in 0 .. L - 1
    BY <1>1, <1>2, <1>7
  <2>2. (s + 1) % L = m + 1 BY <1>1, <1>2, <2>1, ModUnique
  <2> QED BY <1>3, <1>4, <1>5, <1>7, <2>2
<1> QED BY <1>6, <1>7

(* read_logs starts at the index of the event count before last.           *)
LEMMA StartIndexIs ==
  ASSUME NEW last \in Int, NEW count \in 1 .. LOGS_PER_CPU
  PROVE StartIndex(last, count) = LOG_SEQ_NUM_TO_INDEX(last - count)
<1> DEFINE L == LOGS_PER_CPU
           q == last \div L
           m == last % L
<1>1. L \in Nat \ {0} BY LogAssumption
<1>2. q \in Int /\ last = L * q + m /\ m \in 0 .. L - 1 BY <1>1, DivMod
<1>3. LOG_SEQ_NUM_TO_INDEX(last) = m + 1 BY DEF LOG_SEQ_NUM_TO_INDEX
<1>4. StartIndex(last, count) =
        IF m + 1 <= count THEN L - (count - (m + 1)) ELSE (m + 1) - count
  BY <1>3 DEF StartIndex
<1>5. LOG_SEQ_NUM_TO_INDEX(last - count) = ((last - count) % L) + 1
  BY DEF LOG_SEQ_NUM_TO_INDEX
<1>6. count \in 1 .. L OBVIOUS
<1> HIDE DEF L, q, m
<1>7. CASE m + 1 <= count
  <2> DEFINE n == L - count + m
  <2>1. last - count = L * (q - 1) + n /\ n \in 0 .. L - 1 /\ q - 1 \in Int
    BY <1>1, <1>2, <1>6, <1>7
  <2>2. L - (count - (m + 1)) = n + 1 /\ last - count \in Int
    BY <1>1, <1>2, <1>6
  <2> HIDE DEF n
  <2>3. (last - count) % L = n BY <1>1, <2>1, <2>2, ModUnique
  <2> QED BY <1>4, <1>5, <1>7, <2>2, <2>3
<1>8. CASE ~(m + 1 <= count)
  <2>1. last - count = L * q + (m - count) /\ m - count \in 0 .. L - 1
    BY <1>1, <1>2, <1>6, <1>8
  <2>2. (last - count) % L = m - count BY <1>1, <1>2, <2>1, ModUnique
  <2>3. (m + 1) - count = (m - count) + 1 BY <1>1, <1>2, <1>6
  <2> QED BY <1>4, <1>5, <1>8, <2>2, <2>3
<1> QED BY <1>7, <1>8

(* It does not meet the index of last before the count is used up.         *)
LEMMA LastIndexAtEnd ==
  ASSUME NEW last \in Nat, NEW count \in 1 .. LOGS_PER_CPU, count <= last,
         NextIndex(LOG_SEQ_NUM_TO_INDEX(last - count))
           = LOG_SEQ_NUM_TO_INDEX(last)
  PROVE count = 1
<1> SUFFICES ASSUME count > 1 PROVE FALSE BY LogAssumption
<1> DEFINE a == last - count + 1
<1>1. a \in Nat /\ a < last /\ last - a < LOGS_PER_CPU
      /\ last - count \in Int
  BY LogAssumption
<1>2. (last - count) + 1 = a BY LogAssumption
<1>3. LOG_SEQ_NUM_TO_INDEX(a) = LOG_SEQ_NUM_TO_INDEX(last)
  BY <1>1, <1>2, NextIndexIs
<1> HIDE DEF a
<1> QED BY <1>1, <1>3, IndexInjective

-----------------------------------------------------------------------------
(* One reader at most                                                      *)

LoneReader == \A q, r \in Readers : q = r

(* Every record behind the head has its valid field set, for good.         *)
ValidBehindHead ==
  \A c \in Cpu : \A s \in 0 .. head[c] - 1 :
    ring[c][LOG_SEQ_NUM_TO_INDEX(s)].valid = TRUE

(* The records a reader has still to copy, and the first of those it reads.*)
Left(me) == IF me.pc = "copy" THEN me.count ELSE 0
First(me) == me.last - Len(me.results) - Left(me)

Reading(me) == me.pc \in {"copy", "emit"}

(* What the reader copied is of the events from First on, as far as they   *)
(* are not being overwritten, and the record it is at is the next one.     *)
CopiesOk(me) ==
  Reading(me) =>
    /\ First(me) \in Nat
    /\ \A k \in 1 .. Len(me.results) :
         First(me) + k - 1 >= Oldest(me.cpu)
           => me.results[k] = CopyOf(First(me) + k - 1)
    /\ me.pc = "copy" =>
         /\ me.index = LOG_SEQ_NUM_TO_INDEX(me.last - me.count)
         /\ me.last - me.count >= Oldest(me.cpu) =>
              \A f \in Copied : me.part[f] \in {None, me.last - me.count}

(* Between reading the cursor and setting it nobody else sets it.          *)
CountOk(me) ==
  /\ me.pc = "head" => me.part = Blank
  /\ me.pc = "cursor" =>
       me.part = Blank /\ log_record_seq_num[me.cpu] <= me.last
  /\ me.pc = "set" =>
       /\ me.part = Blank
       /\ log_record_seq_num[me.cpu] <= me.last
       /\ me.count = (me.last - log_record_seq_num[me.cpu]) % UINT32

LoneInv ==
  /\ ValidBehindHead
  /\ \A r \in Readers : CopiesOk(rd[r]) /\ CountOk(rd[r])

(* DueAfter and EventsInOrder of one CPU's history: what is due after the  *)
(* first k of the records d, of which those at the places F filled a page. *)
DueIn(d, F, k) ==
  IF k = 0 THEN 0 ELSE d[k].seq_num + (IF k \in F THEN 0 ELSE 1)

Due(d, F) == DueIn(d, F, Len(d))

InOrder(d, F) == \A k \in 1 .. Len(d) : d[k] = CopyOf(DueIn(d, F, k - 1))

(* Where the ring was not lapped, the cursor is at the event that is due,  *)
(* unless a reader carries the events from it up to the cursor.            *)
DeliveredOk(c) ==
  ~lapped[c] =>
    /\ InOrder(delivered[c], filled[c])
    /\ Due(delivered[c], filled[c]) \in Nat
    /\ Oldest(c) <= Due(delivered[c], filled[c])
    /\ \A r \in Readers : rd[r].cpu = c /\ Reading(rd[r]) =>
         /\ First(rd[r]) = Due(delivered[c], filled[c])
         /\ log_record_seq_num[c] = rd[r].last
    /\ (\A r \in Readers : ~(rd[r].cpu = c /\ Reading(rd[r]))) =>
         log_record_seq_num[c] = Due(delivered[c], filled[c])

HistoryT ==
  /\ lapped \in [Cpu -> BOOLEAN]
  /\ delivered \in [Cpu -> Seq(CopyT)]
  /\ filled \in [Cpu -> SUBSET Nat]
  /\ \A c \in Cpu : filled[c] \subseteq 1 .. Len(delivered[c])

DeliveredInv == HistoryT /\ \A c \in Cpu : DeliveredOk(c)

(* The oldest event that is not being overwritten only moves forward.      *)
LEMMA OldestGrows ==
  ASSUME WriterType, NEW b \in Cpu, log_buffer_add_record(b), NEW c \in Cpu
  PROVE Oldest(c)' \in Nat /\ Oldest(c) <= Oldest(c)'
<1>1. \A d \in Cpu : head[d] \in Nat BY DEF WriterType
<1>2. CASE \E f \in Field : StoreField(b, f)
  <2> PICK f \in Field : StoreField(b, f) BY <1>2
  <2>1. head' = head /\ stored' = [stored EXCEPT ![b] = @ \cup {f}]
    BY DEF StoreField
  <2>2. stored'[c] = stored[c] \/ stored'[c] # {}
    BY <2>1 DEF WriterType
  <2> QED BY <1>1, <2>1, <2>2, LogAssumption DEF Oldest
<1>3. CASE AdvanceHead(b)
  <2>1. /\ stored[b] # {} /\ stored' = [stored EXCEPT ![b] = {}]
        /\ head' = [head EXCEPT ![b] = @ + 1]
    BY <1>3 DEF AdvanceHead, Field
  <2>2. Oldest(c)' = Oldest(c)
    <3>1. CASE c = b BY <1>1, <2>1, <3>1 DEF Oldest, WriterType
    <3>2. CASE c # b BY <2>1, <3>2 DEF Oldest, WriterType
    <3> QED BY <3>1, <3>2
  <2> QED BY <2>2, OldestIsNat
<1> QED BY <1>2, <1>3 DEF log_buffer_add_record

LEMMA ValidStep ==
  ASSUME WriterInv, ValidBehindHead, NEW b \in Cpu, log_buffer_add_record(b)
  PROVE ValidBehindHead'
<1> USE DEF WriterInv
<1>1. \A d \in Cpu : head[d] \in Nat BY DEF WriterType
<1>2. CASE \E f \in Field : StoreField(b, f)
  <2> PICK f \in Field : StoreField(b, f) BY <1>2
  <2> DEFINE s == head[b]
             i == LOG_SEQ_NUM_TO_INDEX(s)
             S == [ring[b][i] EXCEPT ![f] = RecordOf(s)[f]]
  <2>1. /\ head' = head
        /\ ring' = [ring EXCEPT ![b] = [ring[b] EXCEPT ![i] = S]]
    BY DEF StoreField
  <2>2. i \in Slot /\ ring[b][i] \in RecordT BY <1>1, IndexInSlot DEF WriterType
  <2>3. ring[b][i].valid = TRUE => S.valid = TRUE
    BY <2>2 DEF Field, Copied, RecordOf, RecordT
  <2> HIDE DEF i, S
  <2> SUFFICES ASSUME NEW d \in Cpu, NEW t \in 0 .. head[d] - 1
               PROVE ring'[d][LOG_SEQ_NUM_TO_INDEX(t)].valid = TRUE
    BY <2>1 DEF ValidBehindHead
  <2>4. ring[d][LOG_SEQ_NUM_TO_INDEX(t)].valid = TRUE BY DEF ValidBehindHead
  <2>5. LOG_SEQ_NUM_TO_INDEX(t) \in Slot BY <1>1, IndexInSlot
  <2>6. CASE d = b /\ LOG_SEQ_NUM_TO_INDEX(t) = i
    BY <2>1, <2>2, <2>3, <2>4, <2>6 DEF WriterType
  <2>7. CASE ~(d = b /\ LOG_SEQ_NUM_TO_INDEX(t) = i)
    BY <2>1, <2>2, <2>4, <2>5, <2>7 DEF WriterType
  <2> QED BY <2>6, <2>7
<1>3. CASE AdvanceHead(b)
  <2>1. /\ stored[b] = Field /\ ring' = ring
        /\ head' = [head EXCEPT ![b] = @ + 1]
    BY <1>3 DEF AdvanceHead
  <2> SUFFICES ASSUME NEW d \in Cpu, NEW t \in 0 .. head'[d] - 1
               PROVE ring[d][LOG_SEQ_NUM_TO_INDEX(t)].valid = TRUE
    BY <2>1 DEF ValidBehindHead
  <2>2. CASE t \in 0 .. head[d] - 1 BY <2>2 DEF ValidBehindHead
  <2>3. CASE t \notin 0 .. head[d] - 1
    <3>1. d = b /\ t = head[b]
      <4>1. head'[b] = head[b] + 1 /\ \A e \in Cpu \ {b} : head'[e] = head[e]
        BY <2>1 DEF WriterType
      <4> QED BY <1>1, <2>3, <4>1
    <3>2. "valid" \in stored[b] BY <2>1 DEF Field
    <3>3. ring[b][LOG_SEQ_NUM_TO_INDEX(head[b])]["valid"]
            = RecordOf(head[b])["valid"]
      BY <3>2 DEF StoredIsThere
    <3> QED BY <3>1, <3>3 DEF RecordOf
  <2> QED BY <2>2, <2>3
<1> QED BY <1>2, <1>3 DEF log_buffer_add_record

(* The handler's steps while a reader copies: what it copied stays what it *)
(* was, and less of it is claimed.                                         *)
LEMMA LoneDuringWrite ==
  ASSUME WriterInv, ReaderInv, TypeInv, LoneInv, NEW b \in Cpu,
         log_buffer_add_record(b)
  PROVE LoneInv'
<1>1. UNCHANGED <<rd, log_record_seq_num>>
  BY DEF log_buffer_add_record, StoreField, AdvanceHead
<1>2. WriterType BY DEF WriterInv
<1>3. ValidBehindHead' BY ValidStep DEF LoneInv
<1>4. ASSUME NEW r \in Readers PROVE CopiesOk(rd[r])'
  <2> DEFINE me == rd[r]
             o == Oldest(me.cpu)
             p == Oldest(me.cpu)'
  <2>1. me \in ReaderT /\ me.cpu \in Cpu /\ me.last \in Nat /\ me.count \in Int
    BY DEF ReaderInv, ReaderOk, ReaderT
  <2>2. o \in Nat /\ p \in Nat /\ o <= p
    BY <1>1, <1>2, <2>1, OldestIsNat, OldestGrows
  <2>3. CopiesOk(me) BY DEF LoneInv
  <2> HIDE DEF o, p
  <2>4. Reading(me) =>
          /\ First(me) \in Nat
          /\ \A k \in 1 .. Len(me.results) :
               First(me) + k - 1 >= p
                 => me.results[k] = CopyOf(First(me) + k - 1)
          /\ me.pc = "copy" =>
               /\ me.index = LOG_SEQ_NUM_TO_INDEX(me.last - me.count)
               /\ me.last - me.count >= p =>
                    \A f \in Copied : me.part[f] \in {None, me.last - me.count}
    <3> SUFFICES ASSUME Reading(me)
                 PROVE /\ First(me) \in Nat
                       /\ \A k \in 1 .. Len(me.results) :
                            First(me) + k - 1 >= p
                              => me.results[k] = CopyOf(First(me) + k - 1)
                       /\ me.pc = "copy" =>
                            /\ me.index
                                 = LOG_SEQ_NUM_TO_INDEX(me.last - me.count)
                            /\ me.last - me.count >= p =>
                                 \A f \in Copied :
                                   me.part[f] \in {None, me.last - me.count}
      OBVIOUS
    <3>1. First(me) \in Nat BY <2>3 DEF CopiesOk
    <3>2. ASSUME NEW k \in 1 .. Len(me.results), First(me) + k - 1 >= p
          PROVE me.results[k] = CopyOf(First(me) + k - 1)
      <4>1. First(me) + k - 1 >= o BY <2>2, <3>1, <3>2
      <4> QED BY <2>3, <4>1 DEF CopiesOk, o
    <3>3. ASSUME me.pc = "copy", me.last - me.count >= p
          PROVE \A f \in Copied : me.part[f] \in {None, me.last - me.count}
      <4>1. me.last - me.count >= o BY <2>1, <2>2, <3>3
      <4> QED BY <2>3, <3>3, <4>1 DEF CopiesOk, o
    <3> QED BY <2>3, <3>1, <3>2, <3>3 DEF CopiesOk
  <2> QED BY <1>1, <2>4 DEF CopiesOk, Reading, First, Left, p
<1>5. \A r \in Readers : CountOk(rd[r])' BY <1>1 DEF LoneInv, CountOk
<1> QED BY <1>3, <1>4, <1>5 DEF LoneInv

(* A step of the only reader.                                              *)
LEMMA OneReaderLone ==
  ASSUME LoneReader, ReaderInv, LoneInv, NEW r \in Readers, NEW m,
         UNCHANGED writerVars, rd' = [rd EXCEPT ![r] = m],
         CopiesOk(m), CountOk(m)'
  PROVE LoneInv'
<1>1. ValidBehindHead' BY DEF LoneInv, ValidBehindHead, writerVars
<1>2. \A q \in Readers : rd'[q] = m BY DEF LoneReader, ReaderInv
<1>3. CopiesOk(m)' BY DEF CopiesOk, Oldest, writerVars
<1>4. \A q \in Readers : CopiesOk(rd[q])'
  BY <1>2, <1>3 DEF CopiesOk, Reading, First, Left
<1>5. \A q \in Readers : CountOk(rd[q])' BY <1>2 DEF CountOk
<1> QED BY <1>1, <1>4, <1>5 DEF LoneInv

(* A reader that copies nothing yet has nothing to answer for.             *)
LEMMA NotReading ==
  ASSUME NEW m, m.pc = "head", m.part = Blank
  PROVE CopiesOk(m) /\ CountOk(m) /\ ~Reading(m)
  BY DEF CopiesOk, Reading, CountOk

LEMMA HeadLone ==
  ASSUME LoneReader, ReaderInv, LoneInv, NEW r \in Readers,
         get_last_seq_num(r)
  PROVE LoneInv'
<1> PICK m :
    /\ rd' = [rd EXCEPT ![r] = m]
    /\ rd[r].pc = "head" /\ m.pc = "cursor"
    /\ m.last = head[rd[r].cpu]
    /\ m.cpu = rd[r].cpu /\ m.count = rd[r].count /\ m.part = rd[r].part
    /\ m.results = rd[r].results /\ m.dumped = rd[r].dumped
  BY HeadStep
<1>1. UNCHANGED writerVars /\ UNCHANGED log_record_seq_num
  BY DEF get_last_seq_num
<1>2. rd[r].cpu \in Cpu BY DEF ReaderInv, ReaderOk, ReaderT
<1>3. log_record_seq_num[m.cpu] <= m.last
  BY <1>2 DEF ReaderInv, CursorBehindHead
<1>4. m.part = Blank BY DEF LoneInv, CountOk
<1>5. CopiesOk(m) /\ CountOk(m)
  BY <1>3, <1>4 DEF CopiesOk, CountOk, Reading
<1>6. CountOk(m)' BY <1>1, <1>5 DEF CountOk
<1> QED BY <1>1, <1>5, <1>6, OneReaderLone

LEMMA CountLone ==
  ASSUME LoneReader, ReaderInv, LoneInv, NEW r \in Readers, CountLogs(r)
  PROVE LoneInv'
<1> PICK m :
    /\ rd' = [rd EXCEPT ![r] = m]
    /\ rd[r].pc = "cursor" /\ m.pc = "set"
    /\ m.count = (rd[r].last - log_record_seq_num[rd[r].cpu]) % UINT32
    /\ m.cpu = rd[r].cpu /\ m.last = rd[r].last /\ m.part = rd[r].part
    /\ m.results = rd[r].results /\ m.dumped = rd[r].dumped
  BY CountStep
<1>1. UNCHANGED writerVars /\ UNCHANGED log_record_seq_num
  BY DEF CountLogs
<1>2. CountOk(rd[r]) BY DEF LoneInv
<1>3. CopiesOk(m) /\ CountOk(m)
  BY <1>2 DEF CopiesOk, CountOk, Reading
<1>4. CountOk(m)' BY <1>1, <1>3 DEF CountOk
<1> QED BY <1>1, <1>3, <1>4, OneReaderLone

(* The count is of events that happened.                                   *)
LEMMA CountAvailable ==
  ASSUME ReaderInv, TypeInv, NEW me \in ReaderT, CountOk(me), me.pc = "set"
  PROVE /\ me.count \in Nat /\ me.count <= me.last
        /\ log_record_seq_num[me.cpu] \in Nat
        /\ me.last - log_record_seq_num[me.cpu] \in Nat
        /\ me.last - log_record_seq_num[me.cpu] < UINT32
             => me.count = me.last - log_record_seq_num[me.cpu]
<1> DEFINE a == me.last - log_record_seq_num[me.cpu]
<1>1. me.last \in Nat /\ log_record_seq_num[me.cpu] \in Nat
  BY DEF ReaderT, TypeInv
<1>2. a \in Nat /\ a <= me.last BY <1>1 DEF CountOk
<1>3. UINT32 \in Nat \ {0} BY LogAssumption
<1>4. me.count = a % UINT32 BY DEF CountOk
<1> HIDE DEF a
<1>5. a % UINT32 \in Nat /\ a % UINT32 <= a /\ (a < UINT32 => a % UINT32 = a)
  <2>1. a % UINT32 \in 0 .. UINT32 - 1 BY <1>2, <1>3, DivMod
  <2>2. a % UINT32 \in Nat BY <1>3, <2>1
  <2> QED BY <1>2, <1>3, <2>2, ModAtMost
<1>6. me.count \in Nat /\ me.count <= me.last
  BY <1>1, <1>2, <1>4, <1>5
<1> QED BY <1>1, <1>2, <1>4, <1>5, <1>6 DEF a

LEMMA SetLone ==
  ASSUME LoneReader, ReaderInv, TypeInv, LoneInv, NEW r \in Readers,
         SetCursor(r)
  PROVE LoneInv'
<1> DEFINE me == rd[r]
<1>1. me \in ReaderT /\ me.last \in Nat BY DEF ReaderInv, ReaderOk, ReaderT
<1>2. me.pc = "set" BY SetStep
<1>3. me.results = << >> /\ me.part = Blank
  BY <1>2 DEF TypeInv, LocalsOk, LoneInv, CountOk
<1>4. me.count \in Nat /\ me.count <= me.last
  <2>1. CountOk(me) BY DEF LoneInv
  <2> QED BY <1>1, <1>2, <2>1, CountAvailable
<1>5. UNCHANGED writerVars BY DEF SetCursor
<1>6. CASE me.count = 0 \/ me.last = 0
  <2> PICK m : m = NextCpu(me) OBVIOUS
  <2>1. rd' = [rd EXCEPT ![r] = m] BY <1>6, SetStep
  <2>2. m.pc = "head" /\ m.part = Blank BY NextCpuFields
  <2>3. CopiesOk(m) BY <2>2, NotReading
  <2>4. CountOk(m)' BY <2>2 DEF CountOk
  <2> QED BY <1>5, <2>1, <2>3, <2>4, OneReaderLone
<1>7. CASE ~(me.count = 0 \/ me.last = 0)
  <2> PICK m :
        /\ rd' = [rd EXCEPT ![r] = m]
        /\ m.pc = "copy" /\ m.count = ClampCount(me.count)
        /\ m.index = StartIndex(me.last, m.count)
        /\ m.cpu = me.cpu /\ m.last = me.last
        /\ m.part = me.part /\ m.results = me.results
        /\ m.dumped = me.dumped
    BY <1>7, SetStep
  <2>1. m.count \in 1 .. LOGS_PER_CPU /\ m.count <= m.last
    BY <1>1, <1>4, <1>7, LogAssumption DEF ClampCount
  <2>2. m.index = LOG_SEQ_NUM_TO_INDEX(m.last - m.count)
    BY <1>1, <2>1, StartIndexIs
  <2>3. First(m) = m.last - m.count /\ First(m) \in Nat
    BY <1>1, <1>3, <2>1, LogAssumption DEF First, Left
  <2>4. \A f \in Copied : m.part[f] = None BY <1>3 DEF Blank
  <2>5. CopiesOk(m) BY <1>3, <2>2, <2>3, <2>4 DEF CopiesOk
  <2>6. CountOk(m)' BY DEF CountOk
  <2> QED BY <1>5, <2>5, <2>6, OneReaderLone
<1> QED BY <1>6, <1>7

(* One more record: where the handler has not overtaken the reader, the    *)
(* copy is of the next event.                                              *)
LEMMA AdvanceLone ==
  ASSUME NEW me \in ReaderT, me.pc = "copy", LocalsOk(me), CopiesOk(me),
         NEW part \in CopyT,
         me.last - me.count >= Oldest(me.cpu)
           => part = CopyOf(me.last - me.count)
  PROVE LET m == AdvanceIndex(me, Append(me.results, part))
        IN /\ CopiesOk(m) /\ CountOk(m) /\ Reading(m)
           /\ First(m) = First(me) /\ m.last = me.last /\ m.cpu = me.cpu
<1> DEFINE results == Append(me.results, part)
           m == AdvanceIndex(me, results)
           s == me.last - me.count
<1>1. /\ me.results \in Seq(CopyT) /\ me.last \in Nat /\ me.cpu \in Cpu
      /\ me.count \in 1 .. LOGS_PER_CPU /\ s \in Int
  BY LogAssumption DEF LocalsOk, ReaderT
<1>2. results \in Seq(CopyT) /\ Len(results) = Len(me.results) + 1
      /\ results[Len(results)] = part
      /\ \A k \in 1 .. Len(me.results) : results[k] = me.results[k]
  BY <1>1
<1>3. Reading(me) /\ First(me) = s - Len(me.results) /\ First(me) \in Nat
  BY <1>1 DEF CopiesOk, Reading, First, Left
<1>4. me.index = LOG_SEQ_NUM_TO_INDEX(s) BY <1>3 DEF CopiesOk
<1>5. /\ m.cpu = me.cpu /\ m.last = me.last
      /\ m.index = NextIndex(me.index)
      /\ m.part = Blank /\ m.results = results
      /\ \/ /\ m.pc = "emit" /\ m.count = me.count
            /\ \/ NextIndex(me.index) = LOG_SEQ_NUM_TO_INDEX(me.last)
               \/ me.count = 1
         \/ m.pc = "copy" /\ m.count = me.count - 1
  BY <1>2, AdvanceFields
<1>6. m.pc = "emit" => me.count = 1
  <2> SUFFICES ASSUME m.pc = "emit",
                      NextIndex(me.index) = LOG_SEQ_NUM_TO_INDEX(me.last)
               PROVE me.count = 1
    BY <1>5
  <2>1. me.count <= me.last BY <1>1, <1>3
  <2> QED BY <1>1, <1>4, <2>1, LastIndexAtEnd
<1> HIDE DEF m, results
<1>7. First(m) = First(me) /\ Reading(m)
  <2>1. Len(me.results) \in Nat BY <1>1
  <2>2. First(m) = me.last - (Len(me.results) + 1) - Left(m)
    BY <1>2, <1>5 DEF First
  <2>3. m.pc = "copy" \/ m.pc = "emit" BY <1>5
  <2>4. Left(m) = me.count - 1 BY <1>1, <1>5, <1>6 DEF Left
  <2> QED BY <1>1, <1>3, <2>1, <2>2, <2>3, <2>4 DEF Reading
<1>8. ASSUME NEW k \in 1 .. Len(results),
             First(me) + k - 1 >= Oldest(me.cpu)
      PROVE results[k] = CopyOf(First(me) + k - 1)
  <2>1. CASE k \in 1 .. Len(me.results)
    BY <1>2, <1>3, <1>8, <2>1 DEF CopiesOk
  <2>2. CASE k \notin 1 .. Len(me.results)
    <3>1. k = Len(me.results) + 1 BY <1>1, <1>2, <2>2
    <3>2. First(me) + k - 1 = s BY <1>1, <1>3, <3>1
    <3> QED BY <1>2, <1>8, <3>1, <3>2
  <2> QED BY <2>1, <2>2
<1>9. m.pc = "copy" => m.index = LOG_SEQ_NUM_TO_INDEX(m.last - m.count)
  <2> SUFFICES ASSUME m.pc = "copy"
               PROVE m.index = LOG_SEQ_NUM_TO_INDEX(m.last - m.count)
    OBVIOUS
  <2>1. m.last - m.count = s + 1 BY <1>1, <1>5
  <2> QED BY <1>1, <1>4, <1>5, <2>1, NextIndexIs
<1>10. \A f \in Copied : m.part[f] = None BY <1>5 DEF Blank
<1>11. CopiesOk(m)
  BY <1>3, <1>5, <1>7, <1>8, <1>9, <1>10 DEF CopiesOk
<1>12. CountOk(m) BY <1>5 DEF CountOk
<1> QED BY <1>5, <1>7, <1>11, <1>12 DEF m, results

(* What a lone reader copies: the record it is at is valid, and is whole   *)
(* where the handler has not overtaken it.                                 *)
LEMMA LoneCopies ==
  ASSUME WriterInv, ReaderInv, TypeInv, LoneInv, NEW r \in Readers,
         NEW f \in Copied, CopyField(r, f)
  PROVE \E m :
    /\ rd' = [rd EXCEPT ![r] = m]
    /\ CopiesOk(m) /\ CountOk(m) /\ Reading(m) /\ Reading(rd[r])
    /\ First(m) = First(rd[r]) /\ m.last = rd[r].last /\ m.cpu = rd[r].cpu
<1> DEFINE me == rd[r]
           entry == ring[me.cpu][me.index]
           part == [me.part EXCEPT ![f] = entry[f]]
           whole == \E g \in Copied \ {f} : me.part[g] # None
           s == me.last - me.count
<1>1. /\ me \in ReaderT /\ me.cpu \in Cpu /\ me.last \in Nat
      /\ me.last <= head[me.cpu] /\ me.index \in Slot
      /\ me.results \in Seq(CopyT)
  BY DEF ReaderInv, ReaderOk, ReaderT, SeenUpTo
<1>2. LocalsOk(me) /\ CopiesOk(me) /\ CountOk(me) BY DEF TypeInv, LoneInv
<1>3. /\ me.pc = "copy"
      /\ ~entry.valid => rd' = [rd EXCEPT ![r] = AdvanceIndex(me, me.results)]
      /\ entry.valid /\ whole =>
           rd' = [rd EXCEPT ![r] = AdvanceIndex(me, Append(me.results, part))]
      /\ entry.valid /\ ~whole =>
           \E m :
             /\ rd' = [rd EXCEPT ![r] = m]
             /\ m.part = part
             /\ m.pc = me.pc /\ m.count = me.count /\ m.index = me.index
             /\ m.cpu = me.cpu /\ m.last = me.last
             /\ m.results = me.results /\ m.dumped = me.dumped
  BY CopyStep
<1>4. Reading(me) BY <1>3 DEF Reading
<1>5. me.index = LOG_SEQ_NUM_TO_INDEX(s) /\ First(me) \in Nat
  BY <1>2, <1>3, <1>4 DEF CopiesOk
<1>6. s \in 0 .. head[me.cpu] - 1
  <2>1. /\ me.count \in Nat /\ me.count >= 1 /\ Len(me.results) \in Nat
        /\ First(me) = me.last - Len(me.results) - me.count
    BY <1>1, <1>2, <1>3, LogAssumption DEF LocalsOk, First, Left
  <2>2. head[me.cpu] \in Nat BY <1>1 DEF WriterInv, WriterType
  <2> QED BY <1>1, <1>5, <2>1, <2>2
<1>7. entry.valid = TRUE BY <1>1, <1>5, <1>6 DEF LoneInv, ValidBehindHead
<1>8. s >= Oldest(me.cpu) => entry = RecordOf(s)
  <2> SUFFICES ASSUME s >= Oldest(me.cpu) PROVE entry = RecordOf(s) OBVIOUS
  <2>1. Oldest(me.cpu) \in Nat /\ head[me.cpu] \in Nat
    BY <1>1, OldestIsNat DEF WriterInv, WriterType
  <2>2. s \in Oldest(me.cpu) .. head[me.cpu] - 1 BY <1>6, <2>1
  <2> QED BY <1>1, <1>5, <2>2 DEF WriterInv, RetainedWindow
<1>9. me.part \in PartT BY <1>2 DEF LocalsOk
<1>10. part \in PartT /\ (whole => part \in WholeT)
  <2>1. entry.seq_num \in Nat /\ entry.data \in Nat \cup {Zeroed}
    BY <1>1 DEF TypeInv, RingTypes
  <2> HIDE DEF entry
  <2> QED BY <1>9, <2>1, CopyPart
<1>11. s >= Oldest(me.cpu) => \A g \in Copied : part[g] \in {None, s}
  <2> SUFFICES ASSUME s >= Oldest(me.cpu), NEW g \in Copied
               PROVE part[g] \in {None, s}
    OBVIOUS
  <2>1. entry[f] = s BY <1>8 DEF RecordOf, Copied
  <2>2. me.part[g] \in {None, s} BY <1>2, <1>3, <1>4 DEF CopiesOk
  <2>3. me.part \in [Copied -> Int] BY <1>9 DEF PartT, CopyT
  <2> HIDE DEF me, entry, s
  <2> QED BY <2>1, <2>2, <2>3
<1>12. UNCHANGED writerVars BY DEF CopyField
<1>13. CASE whole
  <2>1. part \in CopyT /\ \A g \in Copied : part[g] # None
    <3>1. part \in WholeT BY <1>10, <1>13
    <3> HIDE DEF part
    <3> QED BY <3>1 DEF WholeT, None, Zeroed, Copied
  <2>2. s >= Oldest(me.cpu) => part = CopyOf(s)
    <3> HIDE DEF part, s
    <3> QED BY <1>11, <2>1 DEF CopyT, CopyOf
  <2> PICK m : m = AdvanceIndex(me, Append(me.results, part)) OBVIOUS
  <2>3. /\ CopiesOk(m) /\ CountOk(m) /\ Reading(m)
        /\ First(m) = First(me) /\ m.last = me.last /\ m.cpu = me.cpu
    <3> HIDE DEF part, me
    <3> QED BY <1>1, <1>2, <1>3, <2>1, <2>2, AdvanceLone
  <2>4. rd' = [rd EXCEPT ![r] = m] BY <1>3, <1>7, <1>13
  <2> QED BY <1>4, <2>3, <2>4
<1>14. CASE ~whole
  <2> PICK m :
        /\ rd' = [rd EXCEPT ![r] = m]
        /\ m.part = part
        /\ m.pc = me.pc /\ m.count = me.count /\ m.index = me.index
        /\ m.cpu = me.cpu /\ m.last = me.last
        /\ m.results = me.results /\ m.dumped = me.dumped
    BY <1>3, <1>7, <1>14
  <2>1. First(m) = First(me) /\ Reading(m) BY <1>4 DEF First, Left, Reading
  <2> HIDE DEF part
  <2>2. CopiesOk(m)
    BY <1>2, <1>4, <1>5, <1>11, <2>1 DEF CopiesOk
  <2>3. CountOk(m) BY <1>3 DEF CountOk
  <2> QED BY <1>4, <2>1, <2>2, <2>3
<1> QED BY <1>13, <1>14

LEMMA CopyLone ==
  ASSUME LoneReader, WriterInv, ReaderInv, TypeInv, LoneInv,
         NEW r \in Readers, NEW f \in Copied, CopyField(r, f)
  PROVE LoneInv'
<1> PICK m :
      /\ rd' = [rd EXCEPT ![r] = m]
      /\ CopiesOk(m) /\ CountOk(m) /\ Reading(m) /\ Reading(rd[r])
      /\ First(m) = First(rd[r]) /\ m.last = rd[r].last /\ m.cpu = rd[r].cpu
  BY LoneCopies
<1>1. UNCHANGED writerVars BY DEF CopyField
<1>2. CountOk(m)' BY DEF CountOk, Reading
<1> QED BY <1>1, <1>2, OneReaderLone

LEMMA EmitLone ==
  ASSUME LoneReader, ReaderInv, LoneInv, NEW r \in Readers,
         \/ EmitAll(r)
         \/ \E k \in Nat, exact \in BOOLEAN : EmitUntilFull(r, k, exact)
  PROVE LoneInv'
<1>1. UNCHANGED writerVars BY DEF EmitAll, EmitUntilFull
<1>2. \E m : /\ rd' = [rd EXCEPT ![r] = m]
             /\ m.pc = "head" /\ m.part = Blank
  <2>1. CASE EmitAll(r)
    <3> PICK n : n = [rd[r] EXCEPT !.dumped = @ + Len(rd[r].results)] OBVIOUS
    <3> PICK m : m = NextCpu(n) OBVIOUS
    <3>1. rd' = [rd EXCEPT ![r] = m] BY <2>1 DEF EmitAll
    <3> QED BY <3>1, NextCpuFields
  <2>2. CASE \E k \in Nat, exact \in BOOLEAN : EmitUntilFull(r, k, exact)
    <3>1. rd' = [rd EXCEPT ![r] = AtRest] BY <2>2 DEF EmitUntilFull
    <3>2. AtRest.pc = "head" /\ AtRest.part = Blank BY DEF AtRest
    <3> QED BY <3>1, <3>2
  <2> QED BY <2>1, <2>2
<1> PICK m : /\ rd' = [rd EXCEPT ![r] = m]
             /\ m.pc = "head" /\ m.part = Blank
  BY <1>2
<1>3. CopiesOk(m) BY NotReading
<1>4. CountOk(m)' BY DEF CountOk
<1> QED BY <1>1, <1>3, <1>4, OneReaderLone

LEMMA LoneInit == Init => LoneInv
<1> SUFFICES ASSUME Init PROVE LoneInv OBVIOUS
<1>1. ValidBehindHead BY DEF Init, ValidBehindHead
<1>2. ASSUME NEW r \in Readers PROVE CopiesOk(rd[r]) /\ CountOk(rd[r])
  <2>1. rd[r].pc = "head" /\ rd[r].part = Blank BY DEF Init, AtRest
  <2> QED BY <2>1, NotReading
<1> QED BY <1>1, <1>2 DEF LoneInv

LEMMA LoneStep ==
  ASSUME LoneReader
  PROVE WriterInv /\ ReaderInv /\ TypeInv /\ LoneInv /\ [Next]_vars => LoneInv'
<1> SUFFICES ASSUME WriterInv, ReaderInv, TypeInv, LoneInv, [Next]_vars
             PROVE LoneInv'
  OBVIOUS
<1>1. CASE \E c \in Cpu : log_buffer_add_record(c)
  BY <1>1, LoneDuringWrite
<1>2. CASE \E r \in Readers : dump_log(r)
  <2> PICK r \in Readers : dump_log(r) BY <1>2
  <2>1. 0 .. LOGS_PER_CPU - 1 \subseteq Nat BY LogAssumption
  <2> QED BY <2>1, HeadLone, CountLone, SetLone, CopyLone, EmitLone
          DEF dump_log
<1>3. CASE UNCHANGED vars
  <2>1. UNCHANGED <<head, ring, stored, rd, log_record_seq_num>>
    BY <1>3 DEF vars
  <2>2. ValidBehindHead' BY <2>1 DEF LoneInv, ValidBehindHead
  <2>3. ASSUME NEW r \in Readers PROVE CopiesOk(rd[r])' /\ CountOk(rd[r])'
    <3>1. CopiesOk(rd[r]) /\ CountOk(rd[r]) BY DEF LoneInv
    <3>2. CopiesOk(rd[r])'
      BY <2>1, <3>1 DEF CopiesOk, Oldest, Reading, First, Left
    <3> QED BY <2>1, <3>1, <3>2 DEF CountOk
  <2> QED BY <2>2, <2>3 DEF LoneInv
<1> QED BY <1>1, <1>2, <1>3 DEF Next

(* The count that read_logs is given never reaches back further than the   *)
(* log does, as its comment demands (driver/log.c:114), when one reader at *)
(* most opens log.txt: nobody moves the cursor between the two reads of    *)
(* which the count is the difference.                                      *)
THEOREM CountReachesNoFurther ==
  ASSUME LoneReader
  PROVE Spec => []CountIsAvailable
<1>1. ReaderInv /\ TypeInv /\ LoneInv => CountIsAvailable
  <2> SUFFICES ASSUME ReaderInv, TypeInv, LoneInv,
                      NEW r \in Readers, rd[r].pc = "set"
               PROVE rd[r].count <= rd[r].last
    BY DEF CountIsAvailable
  <2>1. rd[r] \in ReaderT /\ CountOk(rd[r])
    BY DEF ReaderInv, ReaderOk, LoneInv
  <2> QED BY <2>1, CountAvailable
<1> QED BY <1>1, WriterInit, WriterStep, ReaderInit, ReaderStep, TypesInit,
           TypesStep, LoneInit, LoneStep, PTL DEF Spec

(* A lone reader gets the newest records before last, whole and in order,  *)
(* unless the handler overtakes the oldest of them: the start index, the   *)
(* wrap, the end of the loop and the field copies of read_logs together,   *)
(* for rings of any size.                                                  *)
THEOREM NewestAreRead ==
  ASSUME LoneReader
  PROVE Spec => []ReadsNewest
<1>1. WriterInv /\ ReaderInv /\ LoneInv => ReadsNewest
  <2> SUFFICES ASSUME WriterInv, ReaderInv, LoneInv, NEW r \in Readers,
                      rd[r].pc = "emit",
                      rd[r].last - Len(rd[r].results) >= Oldest(rd[r].cpu)
               PROVE rd[r].results =
                       [k \in 1 .. Len(rd[r].results) |->
                          CopyOf((rd[r].last - Len(rd[r].results)) + k - 1)]
    BY DEF ReadsNewest
  <2> DEFINE me == rd[r]
             results == me.results
             first == me.last - Len(results)
  <2>1. results \in Seq(CopyT) /\ me.last \in Int
    BY DEF ReaderInv, ReaderOk, ReaderT
  <2>2. CopiesOk(me) BY DEF LoneInv
  <2>3. First(me) = first /\ Reading(me)
    BY <2>1 DEF First, Left, Reading
  <2>4. first \in Nat BY <2>2, <2>3 DEF CopiesOk
  <2>5. Len(results) \in Nat /\ results = [k \in 1 .. Len(results) |-> results[k]]
    BY <2>1
  <2>6. ASSUME NEW k \in 1 .. Len(results)
        PROVE results[k] = CopyOf(first + k - 1)
    <3>1. first >= Oldest(me.cpu) OBVIOUS
    <3>2. me.cpu \in Cpu BY DEF ReaderInv, ReaderOk, ReaderT
    <3>3. Oldest(me.cpu) \in Nat BY <3>2, OldestIsNat DEF WriterInv
    <3>4. first + k - 1 >= Oldest(me.cpu) BY <2>4, <2>5, <3>1, <3>3
    <3> QED BY <2>2, <2>3, <3>4 DEF CopiesOk
  <2> HIDE DEF results, first
  <2>7. results = [k \in 1 .. Len(results) |-> CopyOf(first + k - 1)]
    BY <2>5, <2>6
  <2> QED BY <2>7 DEF results, first
<1> QED BY <1>1, WriterInit, WriterStep, ReaderInit, ReaderStep, TypesInit,
           TypesStep, LoneInit, LoneStep, PTL DEF Spec

-----------------------------------------------------------------------------
(* What log.txt has shown                                                  *)

(* A step of the only reader is about its own CPU.                         *)
LEMMA OneReaderDelivers ==
  ASSUME LoneReader, ReaderInv, DeliveredInv, NEW r \in Readers, NEW m,
         NEW c \in Cpu, c = rd[r].cpu,
         UNCHANGED <<head, ring, stored, lapped>>, rd' = [rd EXCEPT ![r] = m],
         Reading(m) => m.cpu = c,
         \A d \in Cpu \ {c} : /\ log_record_seq_num'[d] = log_record_seq_num[d]
                              /\ delivered'[d] = delivered[d]
                              /\ filled'[d] = filled[d],
         HistoryT',
         ~lapped[c] =>
           /\ InOrder(delivered'[c], filled'[c])
           /\ Due(delivered'[c], filled'[c]) \in Nat
           /\ Oldest(c) <= Due(delivered'[c], filled'[c])
           /\ Reading(m) => /\ First(m) = Due(delivered'[c], filled'[c])
                            /\ log_record_seq_num'[c] = m.last
           /\ ~Reading(m) =>
                log_record_seq_num'[c] = Due(delivered'[c], filled'[c])
  PROVE DeliveredInv'
<1>1. \A q \in Readers : q = r /\ rd'[q] = m BY DEF LoneReader, ReaderInv
<1>2. \A d \in Cpu : Oldest(d)' = Oldest(d) BY DEF Oldest
<1>3. ASSUME NEW d \in Cpu, ~lapped[d]
      PROVE /\ InOrder(delivered'[d], filled'[d])
            /\ Due(delivered'[d], filled'[d]) \in Nat
            /\ Oldest(d) <= Due(delivered'[d], filled'[d])
            /\ m.cpu = d /\ Reading(m) =>
                 /\ First(m) = Due(delivered'[d], filled'[d])
                 /\ log_record_seq_num'[d] = m.last
            /\ ~(m.cpu = d /\ Reading(m)) =>
                 log_record_seq_num'[d] = Due(delivered'[d], filled'[d])
  <2>1. CASE d = c BY <1>3, <2>1
  <2>2. CASE d # c
    <3>1. DeliveredOk(d) BY DEF DeliveredInv
    <3>2. \A q \in Readers : ~(rd[q].cpu = d /\ Reading(rd[q]))
      BY <1>1, <2>2
    <3>3. /\ InOrder(delivered[d], filled[d])
          /\ Due(delivered[d], filled[d]) \in Nat
          /\ Oldest(d) <= Due(delivered[d], filled[d])
          /\ log_record_seq_num[d] = Due(delivered[d], filled[d])
      BY <1>3, <3>1, <3>2 DEF DeliveredOk
    <3>4. /\ log_record_seq_num'[d] = log_record_seq_num[d]
          /\ delivered'[d] = delivered[d] /\ filled'[d] = filled[d]
      BY <2>2
    <3> QED BY <2>2, <3>3, <3>4
  <2> QED BY <2>1, <2>2
<1>4. ASSUME NEW d \in Cpu PROVE DeliveredOk(d)'
  <2> SUFFICES ASSUME ~lapped[d] PROVE DeliveredOk(d)' BY DEF DeliveredOk
  <2>1. /\ InOrder(delivered'[d], filled'[d])
        /\ Due(delivered'[d], filled'[d]) \in Nat
        /\ Oldest(d)' <= Due(delivered'[d], filled'[d])
    BY <1>2, <1>3
  <2>2. \A q \in Readers : rd'[q].cpu = d /\ Reading(rd'[q]) =>
          /\ First(rd'[q]) = Due(delivered'[d], filled'[d])
          /\ log_record_seq_num'[d] = rd'[q].last
    BY <1>1, <1>3
  <2>3. (\A q \in Readers : ~(rd'[q].cpu = d /\ Reading(rd'[q]))) =>
          log_record_seq_num'[d] = Due(delivered'[d], filled'[d])
    BY <1>1, <1>3
  <2> QED BY <2>1, <2>2, <2>3
          DEF DeliveredOk, Reading, First, Left, InOrder, Due, DueIn
<1> QED BY <1>4 DEF DeliveredInv

(* What is known of the reader's own CPU before its step.                  *)
LEMMA OwnCpu ==
  ASSUME LoneReader, DeliveredInv, NEW r \in Readers, rd[r].cpu \in Cpu,
         ~lapped[rd[r].cpu]
  PROVE LET me == rd[r]
            c == me.cpu
            due == Due(delivered[c], filled[c])
        IN /\ InOrder(delivered[c], filled[c])
           /\ due \in Nat
           /\ Oldest(c) <= due
           /\ Reading(me) => /\ First(me) = due
                             /\ log_record_seq_num[c] = me.last
           /\ ~Reading(me) => log_record_seq_num[c] = due
<1>1. DeliveredOk(rd[r].cpu) BY DEF DeliveredInv
<1>2. \A q \in Readers : q = r BY DEF LoneReader
<1> QED BY <1>1, <1>2 DEF DeliveredOk

(* Where the history of a CPU and its reader stand still, so does what is  *)
(* due.                                                                    *)
LEMMA SameHistory ==
  ASSUME NEW d \in Cpu, DeliveredOk(d), lapped[d] => lapped'[d],
         UNCHANGED <<rd, log_record_seq_num, delivered, filled>>,
         ~lapped'[d] => Oldest(d)' <= Due(delivered[d], filled[d])
  PROVE DeliveredOk(d)'
<1> SUFFICES ASSUME ~lapped'[d] PROVE DeliveredOk(d)' BY DEF DeliveredOk
<1>1. ~lapped[d] OBVIOUS
<1> QED BY <1>1 DEF DeliveredOk, Reading, First, Left, InOrder, Due, DueIn

(* A store: it laps what is due, or leaves it be.                          *)
LEMMA StoreDelivers ==
  ASSUME WriterType, DeliveredInv, NEW b \in Cpu, NEW f \in Field,
         StoreField(b, f)
  PROVE DeliveredInv'
<1> DEFINE due(d) == Due(delivered[d], filled[d])
<1>1. /\ UNCHANGED <<head, rd, log_record_seq_num, delivered, filled>>
      /\ stored' = [stored EXCEPT ![b] = @ \cup {f}]
      /\ lapped' = [lapped EXCEPT ![b] =
                     @ \/ head[b] - LOGS_PER_CPU >= due(b)]
  BY DEF StoreField, DueAfter, Due, DueIn
<1> HIDE DEF due
<1>2. HistoryT' BY <1>1 DEF DeliveredInv, HistoryT
<1>3. ASSUME NEW d \in Cpu, ~lapped'[d]
      PROVE ~lapped[d] /\ Oldest(d)' <= due(d)
  <2>1. head[d] \in Nat BY DEF WriterType
  <2>2. ~lapped[d] => due(d) \in Nat /\ Oldest(d) <= due(d)
    BY DEF DeliveredInv, DeliveredOk, due
  <2>3. CASE d = b
    <3>1. ~lapped[b] /\ ~(head[b] - LOGS_PER_CPU >= due(b))
      <4> DEFINE late == head[b] - LOGS_PER_CPU >= due(b)
      <4>1. lapped' = [lapped EXCEPT ![b] = @ \/ late] BY <1>1
      <4>2. ~lapped'[b] BY <1>3, <2>3
      <4> HIDE DEF late
      <4>3. lapped'[b] = (lapped[b] \/ late)
        BY <4>1 DEF DeliveredInv, HistoryT
      <4>4. ~lapped[b] /\ ~late BY <4>2, <4>3
      <4> QED BY <4>4 DEF late
    <3>2. stored'[b] # {} BY <1>1 DEF WriterType
    <3>3. head[b] - LOGS_PER_CPU < due(b)
      BY <2>1, <2>2, <2>3, <3>1, LogAssumption
    <3> QED BY <1>1, <2>1, <2>2, <2>3, <3>1, <3>2, <3>3, LogAssumption
            DEF Oldest
  <2>4. CASE d # b
    <3>1. ~lapped[d] /\ stored'[d] = stored[d]
      BY <1>1, <1>3, <2>4 DEF DeliveredInv, HistoryT, WriterType
    <3>2. Oldest(d)' = Oldest(d) BY <1>1, <3>1 DEF Oldest
    <3> QED BY <2>2, <3>1, <3>2
  <2> QED BY <2>3, <2>4
<1>4. ASSUME NEW d \in Cpu PROVE DeliveredOk(d)'
  <2>1. DeliveredOk(d) BY DEF DeliveredInv
  <2>2. lapped[d] => lapped'[d] BY <1>3
  <2>3. ~lapped'[d] => Oldest(d)' <= Due(delivered[d], filled[d])
    BY <1>3 DEF due
  <2> QED BY <1>1, <2>1, <2>2, <2>3, SameHistory
<1> QED BY <1>2, <1>4 DEF DeliveredInv

LEMMA AdvanceDelivers ==
  ASSUME WriterType, DeliveredInv, NEW b \in Cpu, AdvanceHead(b)
  PROVE DeliveredInv'
<1>1. /\ UNCHANGED <<rd, log_record_seq_num, delivered, filled, lapped>>
      /\ stored' = [stored EXCEPT ![b] = {}] /\ stored[b] # {}
      /\ head' = [head EXCEPT ![b] = @ + 1]
  BY DEF AdvanceHead, Field, history
<1>2. ASSUME NEW d \in Cpu PROVE Oldest(d)' = Oldest(d)
  <2>1. CASE d = b BY <1>1, <2>1 DEF Oldest, WriterType
  <2>2. CASE d # b BY <1>1, <2>2 DEF Oldest, WriterType
  <2> QED BY <2>1, <2>2
<1>3. ASSUME NEW d \in Cpu PROVE DeliveredOk(d)'
  <2>1. DeliveredOk(d) BY DEF DeliveredInv
  <2>2. ~lapped'[d] => Oldest(d)' <= Due(delivered[d], filled[d])
    BY <1>1, <1>2, <2>1 DEF DeliveredOk
  <2> QED BY <1>1, <2>1, <2>2, SameHistory
<1>4. HistoryT' BY <1>1 DEF DeliveredInv, HistoryT
<1> QED BY <1>3, <1>4 DEF DeliveredInv

(* Steps that neither move the cursor nor deliver.                         *)
LEMMA SilentDelivers ==
  ASSUME LoneReader, ReaderInv, DeliveredInv, NEW r \in Readers, NEW m,
         UNCHANGED <<head, ring, stored, log_record_seq_num, history>>,
         rd' = [rd EXCEPT ![r] = m], m.cpu = rd[r].cpu,
         Reading(m) <=> Reading(rd[r]),
         Reading(m) => First(m) = First(rd[r]) /\ m.last = rd[r].last
  PROVE DeliveredInv'
<1> DEFINE c == rd[r].cpu
<1>1. c \in Cpu BY DEF ReaderInv, ReaderOk, ReaderT
<1>2. UNCHANGED <<delivered, filled, lapped>> BY DEF history
<1>3. HistoryT' BY <1>2 DEF DeliveredInv, HistoryT
<1>4. ~lapped[c] =>
        /\ InOrder(delivered'[c], filled'[c])
        /\ Due(delivered'[c], filled'[c]) \in Nat
        /\ Oldest(c) <= Due(delivered'[c], filled'[c])
        /\ Reading(m) => /\ First(m) = Due(delivered'[c], filled'[c])
                         /\ log_record_seq_num'[c] = m.last
        /\ ~Reading(m) =>
             log_record_seq_num'[c] = Due(delivered'[c], filled'[c])
  BY <1>1, <1>2, OwnCpu
<1> HIDE DEF c
<1> QED BY <1>1, <1>2, <1>3, <1>4, OneReaderDelivers DEF c

(* The cursor moves to the head, and the reader carries the events that    *)
(* were between them: the clamp takes none away as long as the ring was    *)
(* not lapped.                                                             *)
LEMMA SetDelivers ==
  ASSUME LoneReader, WriterInv, ReaderInv, TypeInv, LoneInv, DeliveredInv,
         NEW r \in Readers, SetCursor(r)
  PROVE DeliveredInv'
<1> DEFINE me == rd[r]
           c == me.cpu
           D == Due(delivered[c], filled[c])
<1>1. /\ me \in ReaderT /\ c \in Cpu /\ me.last \in Nat /\ me.last <= head[c]
  BY DEF ReaderInv, ReaderOk, ReaderT, SeenUpTo
<1>2. /\ me.pc = "set" /\ ~Reading(me)
      /\ log_record_seq_num' = [log_record_seq_num EXCEPT ![c] = me.last]
  BY SetStep DEF Reading
<1>3. me.results = << >> BY <1>2 DEF TypeInv, LocalsOk
<1>4. UNCHANGED <<head, ring, stored, lapped, delivered, filled>>
  BY DEF SetCursor, writerVars, history
<1>5. /\ log_record_seq_num'[c] = me.last
      /\ delivered'[c] = delivered[c] /\ filled'[c] = filled[c]
      /\ \A d \in Cpu \ {c} : /\ log_record_seq_num'[d] = log_record_seq_num[d]
                              /\ delivered'[d] = delivered[d]
                              /\ filled'[d] = filled[d]
  BY <1>1, <1>2, <1>4 DEF TypeInv
<1>6. HistoryT' BY <1>4 DEF DeliveredInv, HistoryT
<1>7. ~lapped[c] =>
        /\ InOrder(delivered[c], filled[c])
        /\ D \in Nat
        /\ Oldest(c) <= D
        /\ log_record_seq_num[c] = D
  BY <1>1, <1>2, OwnCpu
<1> HIDE DEF D
<1>8. ~lapped[c] => me.count = me.last - D /\ me.count <= LOGS_PER_CPU
                    /\ me.count \in Nat
  <2> SUFFICES ASSUME ~lapped[c]
               PROVE me.count = me.last - D /\ me.count <= LOGS_PER_CPU
                     /\ me.count \in Nat
    OBVIOUS
  <2>1. CountOk(me) BY DEF LoneInv
  <2>2. /\ me.count \in Nat
        /\ me.last - D \in Nat
        /\ me.last - D < UINT32 => me.count = me.last - D
    BY <1>1, <1>2, <1>7, <2>1, CountAvailable
  <2>3. head[c] \in Nat /\ D \in Nat
    BY <1>1, <1>7 DEF WriterInv, WriterType
  <2>4. head[c] - LOGS_PER_CPU <= Oldest(c) /\ Oldest(c) \in Nat
    BY <1>1, <2>3, OldestIsNat, LogAssumption DEF Oldest, WriterInv
  <2>5. me.last - D <= LOGS_PER_CPU
    BY <1>1, <1>7, <2>3, <2>4, LogAssumption
  <2> HIDE DEF me
  <2> QED BY <2>2, <2>5, LogAssumption
<1>9. CASE me.count = 0 \/ me.last = 0
  <2> PICK m : m = NextCpu(me) OBVIOUS
  <2>1. rd' = [rd EXCEPT ![r] = m] BY <1>9, SetStep
  <2>2. m.pc = "head" /\ m.part = Blank BY NextCpuFields
  <2>3. ~Reading(m) BY <2>2 DEF Reading
  <2>4. ~lapped[c] => me.last = D
    <3> SUFFICES ASSUME ~lapped[c] PROVE me.last = D OBVIOUS
    <3>1. D \in Nat /\ Oldest(c) <= D BY <1>7
    <3> HIDE DEF me
    <3> QED BY <1>1, <1>8, <1>9, <3>1
  <2>5. ~lapped[c] =>
          /\ InOrder(delivered'[c], filled'[c])
          /\ Due(delivered'[c], filled'[c]) \in Nat
          /\ Oldest(c) <= Due(delivered'[c], filled'[c])
          /\ log_record_seq_num'[c] = Due(delivered'[c], filled'[c])
    BY <1>5, <1>7, <2>4 DEF D
  <2> HIDE DEF c
  <2> QED BY <1>1, <1>4, <1>5, <1>6, <2>1, <2>3, <2>5, OneReaderDelivers DEF c
<1>10. CASE ~(me.count = 0 \/ me.last = 0)
  <2> PICK m :
        /\ rd' = [rd EXCEPT ![r] = m]
        /\ m.pc = "copy" /\ m.count = ClampCount(me.count)
        /\ m.index = StartIndex(me.last, m.count)
        /\ m.cpu = me.cpu /\ m.last = me.last
        /\ m.part = me.part /\ m.results = me.results
        /\ m.dumped = me.dumped
    BY <1>10, SetStep
  <2>1. Reading(m) BY DEF Reading
  <2>2. ~lapped[c] => First(m) = D
    <3> SUFFICES ASSUME ~lapped[c] PROVE First(m) = D OBVIOUS
    <3>1. D \in Nat BY <1>7
    <3>2. m.count = me.count BY <1>8, LogAssumption DEF ClampCount
    <3>3. First(m) = m.last - Len(m.results) - m.count /\ Len(m.results) = 0
      BY <1>3 DEF First, Left
    <3>4. me.count = me.last - D BY <1>8
    <3> HIDE DEF me
    <3> QED BY <1>1, <3>1, <3>2, <3>3, <3>4
  <2>3. ~lapped[c] =>
          /\ InOrder(delivered'[c], filled'[c])
          /\ Due(delivered'[c], filled'[c]) \in Nat
          /\ Oldest(c) <= Due(delivered'[c], filled'[c])
          /\ First(m) = Due(delivered'[c], filled'[c])
          /\ log_record_seq_num'[c] = m.last
    BY <1>5, <1>7, <2>2 DEF D
  <2> HIDE DEF c
  <2> QED BY <1>1, <1>4, <1>5, <1>6, <2>1, <2>3, OneReaderDelivers DEF c
<1> QED BY <1>9, <1>10

(* Two sequences one after the other.                                      *)
LEMMA Concatenated ==
  ASSUME NEW X, NEW D \in Seq(X), NEW S \in Seq(X)
  PROVE /\ D \o S \in Seq(X)
        /\ Len(D \o S) = Len(D) + Len(S)
        /\ \A j \in 1 .. Len(D) : (D \o S)[j] = D[j]
        /\ \A j \in 1 .. Len(D) + Len(S) :
             j > Len(D) => (D \o S)[j] = S[j - Len(D)]
  OBVIOUS

LEMMA CopyOfFields == \A s : CopyOf(s).seq_num = s BY DEF CopyOf, Copied

(* Records of the events from the due one on keep the history in order,    *)
(* and the next one is due after them, or the last of them again when it   *)
(* filled the page.                                                        *)
LEMMA InOrderMore ==
  ASSUME NEW D \in Seq(CopyT), NEW F \in SUBSET (1 .. Len(D)),
         NEW S \in Seq(CopyT), NEW first \in Nat, NEW G, NEW again \in {0, 1},
         InOrder(D, F), Due(D, F) = first,
         \A i \in 1 .. Len(S) : S[i] = CopyOf(first + i - 1),
         \A j \in 1 .. Len(D) + Len(S) - 1 : j \in G <=> j \in F,
         again = 0 => G = F,
         again = 1 => Len(S) > 0 /\ Len(D) + Len(S) \in G
  PROVE /\ InOrder(D \o S, G)
        /\ Due(D \o S, G) = first + Len(S) - again
<1> DEFINE E == D \o S
           n == Len(D)
           l == Len(S)
<1>1. n \in Nat /\ l \in Nat OBVIOUS
<1>2. /\ Len(E) = n + l
      /\ \A j \in 1 .. n : E[j] = D[j]
      /\ \A j \in 1 .. n + l : j > n => E[j] = S[j - n]
  BY Concatenated
<1> HIDE DEF E
<1>3. ASSUME NEW i \in 1 .. l
      PROVE E[n + i] = CopyOf(first + i - 1)
            /\ E[n + i].seq_num = first + i - 1
  <2>1. E[n + i] = S[i]
    <3>1. n + i \in 1 .. n + l /\ n + i > n /\ (n + i) - n = i BY <1>1
    <3>2. E[n + i] = S[(n + i) - n] BY <1>2, <3>1
    <3> QED BY <3>1, <3>2
  <2>2. E[n + i] = CopyOf(first + i - 1) BY <2>1
  <2> QED BY <2>2, CopyOfFields
<1>4. ASSUME NEW j \in 0 .. n, j < n + l \/ again = 0
      PROVE DueIn(E, G, j) = DueIn(D, F, j)
  <2>1. CASE j = 0 BY <2>1 DEF DueIn
  <2>2. CASE j # 0
    <3>1. j \in 1 .. n BY <1>1, <2>2
    <3>2. j \in G <=> j \in F
      <4>1. CASE again = 0 BY <4>1
      <4>2. CASE j < n + l
        <5>1. j \in 1 .. n + l - 1 BY <1>1, <3>1, <4>2
        <5> QED BY <5>1
      <4> QED BY <1>4, <4>1, <4>2
    <3> QED BY <1>2, <2>2, <3>1, <3>2 DEF DueIn
  <2> QED BY <2>1, <2>2
<1>5. ASSUME NEW i \in 1 .. l
      PROVE /\ n + i \in G => DueIn(E, G, n + i) = first + i - 1
            /\ n + i \notin G => DueIn(E, G, n + i) = first + i
  BY <1>1, <1>3 DEF DueIn
<1>6. ASSUME NEW i \in 1 .. l, i < l \/ again = 0 PROVE n + i \notin G
  <2>1. n + i \notin F BY <1>1
  <2>2. CASE again = 0 BY <2>1, <2>2
  <2>3. CASE i < l
    <3>1. n + i \in 1 .. n + l - 1 BY <1>1, <2>3
    <3> QED BY <2>1, <3>1
  <2> QED BY <1>6, <2>2, <2>3
<1>7. again = 1 => n + l \in G /\ l > 0 OBVIOUS
<1>8. DueIn(D, F, n) = first BY DEF Due
<1>9. ASSUME NEW j \in 1 .. n + l PROVE E[j] = CopyOf(DueIn(E, G, j - 1))
  <2>1. CASE j <= n
    <3>1. j \in 1 .. n /\ j - 1 \in 0 .. n /\ j - 1 < n + l
      BY <1>1, <2>1
    <3>2. D[j] = CopyOf(DueIn(D, F, j - 1)) BY <3>1 DEF InOrder
    <3> QED BY <1>2, <1>4, <3>1, <3>2
  <2>2. CASE j = n + 1
    <3>1. 1 \in 1 .. l /\ n \in 0 .. n /\ n < n + l BY <1>1, <2>2
    <3>2. E[j] = CopyOf(first + 1 - 1) BY <1>3, <2>2, <3>1
    <3>3. DueIn(E, G, j - 1) = first BY <1>1, <1>4, <1>8, <2>2, <3>1
    <3> QED BY <3>2, <3>3
  <2>3. CASE j > n + 1
    <3> DEFINE i == j - n
    <3>1. /\ i \in 1 .. l /\ j = n + i
          /\ i - 1 \in 1 .. l /\ i - 1 < l /\ j - 1 = n + (i - 1)
      BY <1>1, <2>3
    <3> HIDE DEF i
    <3>2. E[j] = CopyOf(first + i - 1) BY <1>3, <3>1
    <3>3. DueIn(E, G, j - 1) = first + (i - 1) BY <1>5, <1>6, <3>1
    <3>4. first + i - 1 = first + (i - 1) BY <3>1
    <3> QED BY <3>2, <3>3, <3>4
  <2> QED BY <1>1, <2>1, <2>2, <2>3
<1>10. InOrder(E, G) BY <1>2, <1>9 DEF InOrder
<1>11. ASSUME again = 0 PROVE DueIn(E, G, n + l) = first + l
  <2>1. CASE l = 0
    <3>1. n + l = n /\ n \in 0 .. n BY <1>1, <2>1
    <3> QED BY <1>4, <1>8, <1>11, <2>1, <3>1
  <2>2. CASE l # 0
    <3>1. l \in 1 .. l BY <1>1, <2>2
    <3> QED BY <1>5, <1>6, <1>11, <3>1
  <2> QED BY <2>1, <2>2
<1>12. ASSUME again = 1 PROVE DueIn(E, G, n + l) = first + l - 1
  <2>1. l \in 1 .. l BY <1>1, <1>7, <1>12
  <2> QED BY <1>5, <1>7, <1>12, <2>1
<1>13. DueIn(E, G, n + l) = first + l - again
  <2>1. CASE again = 0 BY <1>1, <1>11, <2>1
  <2>2. CASE again = 1 BY <1>12, <2>2
  <2> QED BY <2>1, <2>2
<1> QED BY <1>2, <1>10, <1>13 DEF Due, E

(* What a lone reader has read of a ring that was not lapped is what comes *)
(* next: after any k of its results, of which the last may have filled the *)
(* page, log.txt has shown the events in order.                            *)
LEMMA DeliverNext ==
  ASSUME LoneReader, WriterType, ReaderInv, LoneInv, DeliveredInv,
         NEW r \in Readers, rd[r].pc = "emit", UNCHANGED lapped,
         NEW k \in 0 .. Len(rd[r].results), Deliver(rd[r], k),
         NEW again \in BOOLEAN, again => k > 0,
         filled' = [filled EXCEPT ![rd[r].cpu] =
           IF lapped[rd[r].cpu] \/ ~again THEN @
           ELSE @ \cup {Len(delivered[rd[r].cpu]) + k}]
  PROVE LET me == rd[r]
            c == me.cpu
        IN /\ HistoryT'
           /\ \A d \in Cpu \ {c} : /\ delivered'[d] = delivered[d]
                                   /\ filled'[d] = filled[d]
           /\ ~lapped[c] =>
                /\ InOrder(delivered'[c], filled'[c])
                /\ First(me) \in Nat
                /\ Due(delivered'[c], filled'[c]) =
                     First(me) + k - (IF again THEN 1 ELSE 0)
                /\ Oldest(c) <= First(me)
                /\ \A j \in 1 .. Len(me.results) :
                     me.results[j] = CopyOf(First(me) + j - 1)
<1> DEFINE me == rd[r]
           c == me.cpu
           D == delivered[c]
           F == filled[c]
           R == me.results
           S == SubSeq(R, 1, k)
           G == IF again THEN F \cup {Len(D) + k} ELSE F
<1>1. me \in ReaderT /\ c \in Cpu /\ R \in Seq(CopyT)
  BY DEF ReaderInv, ReaderOk, ReaderT
<1>2. Reading(me) /\ CopiesOk(me) BY DEF Reading, LoneInv
<1>3. /\ D \in Seq(CopyT) /\ delivered \in [Cpu -> Seq(CopyT)]
      /\ F \in SUBSET (1 .. Len(D)) /\ filled \in [Cpu -> SUBSET Nat]
      /\ \A d \in Cpu : filled[d] \subseteq 1 .. Len(delivered[d])
      /\ lapped \in [Cpu -> BOOLEAN]
  BY <1>1 DEF DeliveredInv, HistoryT
<1>4. k \in Nat /\ k <= Len(R) /\ Len(R) \in Nat BY <1>1
<1>5. S \in Seq(CopyT) /\ Len(S) = k /\ \A j \in 1 .. k : S[j] = R[j]
  <2> HIDE DEF R
  <2> QED BY <1>1, <1>4
<1>6. /\ delivered' = [delivered EXCEPT ![c] = IF lapped[c] THEN @ ELSE @ \o S]
      /\ filled' = [filled EXCEPT ![c] = IF lapped[c] THEN @ ELSE G]
  BY <1>3 DEF Deliver
<1> HIDE DEF S
<1>7. D \o S \in Seq(CopyT) /\ Len(D \o S) = Len(D) + k
  <2>1. D \in Seq(CopyT) BY <1>3
  <2> HIDE DEF D
  <2> QED BY <1>5, <2>1, Concatenated
<1>8. Len(D) \in Nat /\ G \subseteq 1 .. Len(D \o S) /\ G \subseteq Nat
  <2>1. Len(D) \in Nat BY <1>3
  <2>2. F \subseteq 1 .. Len(D) BY <1>3
  <2> HIDE DEF D, F
  <2>3. F \subseteq 1 .. Len(D \o S) BY <1>4, <1>7, <2>1, <2>2
  <2>4. CASE again = TRUE
    <3>1. k > 0 BY <2>4
    <3>2. Len(D) + k \in 1 .. Len(D \o S) BY <1>4, <1>7, <2>1, <3>1
    <3>3. G = F \cup {Len(D) + k} BY <2>4
    <3> QED BY <2>1, <2>3, <3>2, <3>3
  <2>5. CASE again = FALSE BY <2>1, <2>3, <2>5
  <2> QED BY <2>4, <2>5
<1> HIDE DEF G, me
<1>9. \A d \in Cpu \ {c} : delivered'[d] = delivered[d] /\ filled'[d] = filled[d]
  BY <1>1, <1>3, <1>6
<1>10. lapped[c] => delivered'[c] = D /\ filled'[c] = F BY <1>1, <1>3, <1>6
<1>11. ~lapped[c] => delivered'[c] = D \o S /\ filled'[c] = G
  BY <1>1, <1>3, <1>6
<1>12. HistoryT'
  <2>1. delivered' \in [Cpu -> Seq(CopyT)] BY <1>1, <1>3, <1>6, <1>7
  <2>2. filled' \in [Cpu -> SUBSET Nat] BY <1>1, <1>3, <1>6, <1>8
  <2>3. ASSUME NEW d \in Cpu PROVE filled'[d] \subseteq 1 .. Len(delivered'[d])
    <3>1. CASE d = c BY <1>3, <1>8, <1>10, <1>11, <3>1
    <3>2. CASE d # c BY <1>3, <1>9, <3>2
    <3> QED BY <3>1, <3>2
  <2> QED BY <1>3, <2>1, <2>2, <2>3 DEF HistoryT
<1>13. ASSUME ~lapped[c]
       PROVE /\ InOrder(delivered'[c], filled'[c])
             /\ First(me) \in Nat
             /\ Due(delivered'[c], filled'[c]) =
                  First(me) + k - (IF again THEN 1 ELSE 0)
             /\ Oldest(c) <= First(me)
             /\ \A j \in 1 .. Len(R) : R[j] = CopyOf(First(me) + j - 1)
  <2>1. InOrder(D, F) /\ Due(D, F) = First(me) /\ First(me) \in Nat
        /\ Oldest(c) <= First(me)
    BY <1>1, <1>2, <1>13, OwnCpu DEF me
  <2>2. Oldest(c) \in Nat BY <1>1, OldestIsNat
  <2>3. ASSUME NEW j \in 1 .. Len(R) PROVE R[j] = CopyOf(First(me) + j - 1)
    <3>1. First(me) + j - 1 >= Oldest(c)
      <4> HIDE DEF c, D, F, R
      <4> QED BY <1>4, <2>1, <2>2
    <3> QED BY <1>2, <3>1 DEF CopiesOk
  <2> PICK first \in Nat : first = First(me) BY <2>1
  <2> HIDE DEF c, D, F, R
  <2>4. \A j \in 1 .. Len(S) : S[j] = CopyOf(first + j - 1)
    BY <1>4, <1>5, <2>3
  <2> DEFINE last == IF again THEN 1 ELSE 0
  <2>5. last \in {0, 1} OBVIOUS
  <2>6. \A j \in 1 .. Len(D) + Len(S) - 1 : j \in G <=> j \in F
    <3>1. \A j \in 1 .. Len(D) + Len(S) - 1 : j # Len(D) + k
      BY <1>4, <1>5, <1>8
    <3>2. G = F \/ G = F \cup {Len(D) + k} BY DEF G
    <3> QED BY <3>1, <3>2
  <2>7. last = 0 => G = F BY DEF G
  <2>8. last = 1 => Len(S) > 0 /\ Len(D) + Len(S) \in G BY <1>5 DEF G
  <2> HIDE DEF last
  <2>9. InOrder(D \o S, G) /\ Due(D \o S, G) = first + Len(S) - last
    <3>1. Due(D, F) = first /\ InOrder(D, F) BY <2>1
    <3>2. D \in Seq(CopyT) /\ F \in SUBSET (1 .. Len(D)) BY <1>3
    <3>3. S \in Seq(CopyT) BY <1>5
    <3> QED BY <2>4, <2>5, <2>6, <2>7, <2>8, <3>1, <3>2, <3>3, InOrderMore
  <2> QED BY <1>5, <1>11, <1>13, <2>1, <2>3, <2>9 DEF last
<1> QED BY <1>9, <1>12, <1>13 DEF me

LEMMA EmitAllDelivers ==
  ASSUME LoneReader, WriterType, ReaderInv, LoneInv, DeliveredInv,
         NEW r \in Readers, EmitAll(r)
  PROVE DeliveredInv'
<1> DEFINE me == rd[r]
           c == me.cpu
           n == Len(me.results)
<1>1. /\ me \in ReaderT /\ c \in Cpu /\ n \in Nat /\ me.last \in Nat
      /\ n \in 0 .. n
  BY DEF ReaderInv, ReaderOk, ReaderT
<1>2. /\ me.pc = "emit" /\ Deliver(me, n)
      /\ UNCHANGED <<head, ring, stored, lapped, filled, log_record_seq_num>>
  BY DEF EmitAll, writerVars
<1>3. filled' = [filled EXCEPT ![c] =
                  IF lapped[c] \/ ~FALSE THEN @
                  ELSE @ \cup {Len(delivered[c]) + n}]
  BY <1>1, <1>2 DEF DeliveredInv, HistoryT
<1>4. /\ HistoryT'
      /\ \A d \in Cpu \ {c} : /\ delivered'[d] = delivered[d]
                              /\ filled'[d] = filled[d]
      /\ ~lapped[c] =>
           /\ InOrder(delivered'[c], filled'[c])
           /\ First(me) \in Nat
           /\ Due(delivered'[c], filled'[c]) = First(me) + n - 0
           /\ Oldest(c) <= First(me)
  BY <1>1, <1>2, <1>3, DeliverNext
<1>5. Reading(me) /\ First(me) = me.last - n
  BY <1>1, <1>2 DEF Reading, First, Left
<1> PICK k : k = [me EXCEPT !.dumped = @ + n] OBVIOUS
<1> PICK m : m = NextCpu(k) OBVIOUS
<1>6. rd' = [rd EXCEPT ![r] = m] BY DEF EmitAll
<1>7. ~Reading(m) BY NextCpuFields DEF Reading
<1>8. \A d \in Cpu \ {c} : /\ log_record_seq_num'[d] = log_record_seq_num[d]
                           /\ delivered'[d] = delivered[d]
                           /\ filled'[d] = filled[d]
  BY <1>2, <1>4
<1>9. ~lapped[c] =>
        /\ InOrder(delivered'[c], filled'[c])
        /\ Due(delivered'[c], filled'[c]) \in Nat
        /\ Oldest(c) <= Due(delivered'[c], filled'[c])
        /\ log_record_seq_num'[c] = Due(delivered'[c], filled'[c])
  <2> SUFFICES ASSUME ~lapped[c]
               PROVE /\ InOrder(delivered'[c], filled'[c])
                     /\ Due(delivered'[c], filled'[c]) \in Nat
                     /\ Oldest(c) <= Due(delivered'[c], filled'[c])
                     /\ log_record_seq_num'[c] =
                          Due(delivered'[c], filled'[c])
    OBVIOUS
  <2>1. log_record_seq_num'[c] = me.last BY <1>1, <1>2, <1>5, OwnCpu
  <2>2. Oldest(c) \in Nat BY <1>1, OldestIsNat
  <2>3. /\ InOrder(delivered'[c], filled'[c])
        /\ First(me) \in Nat /\ Oldest(c) <= First(me)
        /\ Due(delivered'[c], filled'[c]) = First(me) + n - 0
    BY <1>4
  <2> HIDE DEF me, n, c
  <2> QED BY <1>1, <1>5, <2>1, <2>2, <2>3
<1> HIDE DEF c
<1> QED BY <1>1, <1>2, <1>4, <1>6, <1>7, <1>8, <1>9, OneReaderDelivers DEF c

LEMMA EmitUntilFullDelivers ==
  ASSUME LoneReader, WriterType, ReaderInv, LoneInv, DeliveredInv,
         NEW r \in Readers, NEW k \in Nat, NEW exact \in BOOLEAN,
         EmitUntilFull(r, k, exact)
  PROVE DeliveredInv'
<1> DEFINE me == rd[r]
           c == me.cpu
           n == Len(me.results)
           s == me.results[k + 1].seq_num
           shown == IF exact THEN k + 1 ELSE k
<1>1. /\ me \in ReaderT /\ c \in Cpu /\ n \in Nat /\ me.last \in Nat
      /\ log_record_seq_num \in [Cpu -> Int]
      /\ filled \in [Cpu -> SUBSET Nat]
  BY DEF ReaderInv, ReaderOk, ReaderT, DeliveredInv, HistoryT
<1>2. /\ me.pc = "emit" /\ Deliver(me, shown) /\ k < n
      /\ UNCHANGED <<head, ring, stored, lapped>>
      /\ log_record_seq_num' = [log_record_seq_num EXCEPT ![c] = s]
      /\ filled' = [filled EXCEPT ![c] =
           IF lapped[c] \/ ~exact THEN @
           ELSE @ \cup {Len(delivered[c]) + k + 1}]
      /\ rd' = [rd EXCEPT ![r] = AtRest]
  BY DEF EmitUntilFull, Rewind, writerVars
<1>3. shown \in 0 .. n /\ k + 1 \in 1 .. n /\ (exact => shown > 0)
  BY <1>1, <1>2
<1>4. filled' = [filled EXCEPT ![c] =
                  IF lapped[c] \/ ~exact THEN @
                  ELSE @ \cup {Len(delivered[c]) + shown}]
  <2>1. Len(delivered[c]) \in Nat BY <1>1 DEF DeliveredInv, HistoryT
  <2>2. Len(delivered[c]) + k + 1 = Len(delivered[c]) + (k + 1)
    <3> DEFINE l == Len(delivered[c])
    <3>1. l \in Nat BY <2>1
    <3> HIDE DEF l
    <3>2. l + k + 1 = l + (k + 1) BY <3>1
    <3> QED BY <3>2 DEF l
  <2>3. exact => shown = k + 1 OBVIOUS
  <2> HIDE DEF c, shown
  <2>4. CASE exact = TRUE BY <1>2, <2>2, <2>3, <2>4
  <2>5. CASE exact = FALSE BY <1>2, <2>5
  <2> QED BY <2>4, <2>5
<1> HIDE DEF shown
<1>5. /\ HistoryT'
      /\ \A d \in Cpu \ {c} : /\ delivered'[d] = delivered[d]
                              /\ filled'[d] = filled[d]
      /\ ~lapped[c] =>
           /\ InOrder(delivered'[c], filled'[c])
           /\ First(me) \in Nat
           /\ Due(delivered'[c], filled'[c]) =
                First(me) + shown - (IF exact THEN 1 ELSE 0)
           /\ Oldest(c) <= First(me)
           /\ \A j \in 1 .. n : me.results[j] = CopyOf(First(me) + j - 1)
  BY <1>1, <1>2, <1>3, <1>4, DeliverNext
<1>6. log_record_seq_num'[c] = s BY <1>1, <1>2
<1>7. ~lapped[c] =>
        /\ InOrder(delivered'[c], filled'[c])
        /\ Due(delivered'[c], filled'[c]) \in Nat
        /\ Oldest(c) <= Due(delivered'[c], filled'[c])
        /\ log_record_seq_num'[c] = Due(delivered'[c], filled'[c])
  <2> SUFFICES ASSUME ~lapped[c]
               PROVE /\ InOrder(delivered'[c], filled'[c])
                     /\ Due(delivered'[c], filled'[c]) \in Nat
                     /\ Oldest(c) <= Due(delivered'[c], filled'[c])
                     /\ log_record_seq_num'[c] =
                          Due(delivered'[c], filled'[c])
    OBVIOUS
  <2>1. me.results[k + 1] = CopyOf(First(me) + (k + 1) - 1) BY <1>3, <1>5
  <2>2. s = First(me) + (k + 1) - 1 BY <2>1 DEF CopyOf, Copied
  <2>3. /\ InOrder(delivered'[c], filled'[c])
        /\ First(me) \in Nat /\ Oldest(c) <= First(me)
        /\ Due(delivered'[c], filled'[c]) =
             First(me) + shown - (IF exact THEN 1 ELSE 0)
    BY <1>5
  <2>4. shown - (IF exact THEN 1 ELSE 0) = k /\ shown \in Nat BY DEF shown
  <2>5. Oldest(c) \in Nat BY <1>1, OldestIsNat
  <2> HIDE DEF me, c, n, s
  <2>6. Due(delivered'[c], filled'[c]) = First(me) + k BY <2>3, <2>4
  <2> QED BY <1>6, <2>2, <2>3, <2>5, <2>6
<1>8. \A d \in Cpu \ {c} : /\ log_record_seq_num'[d] = log_record_seq_num[d]
                           /\ delivered'[d] = delivered[d]
                           /\ filled'[d] = filled[d]
  BY <1>1, <1>2, <1>5
<1> PICK m : m = AtRest OBVIOUS
<1>9. ~Reading(m) BY DEF AtRest, Reading
<1> HIDE DEF c, s
<1> QED BY <1>1, <1>2, <1>5, <1>7, <1>8, <1>9, OneReaderDelivers DEF c

LEMMA DeliveredInit == Init => DeliveredInv
<1> SUFFICES ASSUME Init PROVE DeliveredInv OBVIOUS
<1>1. HistoryT BY DEF Init, HistoryT
<1>2. ASSUME NEW c \in Cpu PROVE DeliveredOk(c)
  <2>1. /\ delivered[c] = << >> /\ log_record_seq_num[c] = 0
        /\ head[c] = 0 /\ stored[c] = {}
    BY DEF Init
  <2>2. Oldest(c) = 0 BY <2>1, LogAssumption DEF Oldest
  <2>3. \A r \in Readers : ~Reading(rd[r]) BY DEF Init, AtRest, Reading
  <2>4. /\ Due(delivered[c], filled[c]) = 0
        /\ InOrder(delivered[c], filled[c])
    BY <2>1 DEF Due, DueIn, InOrder
  <2> QED BY <2>1, <2>2, <2>3, <2>4 DEF DeliveredOk
<1> QED BY <1>1, <1>2 DEF DeliveredInv

LEMMA DeliveredStep ==
  ASSUME LoneReader
  PROVE WriterInv /\ ReaderInv /\ TypeInv /\ LoneInv /\ DeliveredInv
          /\ [Next]_vars => DeliveredInv'
<1> SUFFICES ASSUME WriterInv, ReaderInv, TypeInv, LoneInv, DeliveredInv,
                    [Next]_vars
             PROVE DeliveredInv'
  OBVIOUS
<1>1. WriterType BY DEF WriterInv
<1>2. CASE \E c \in Cpu : log_buffer_add_record(c)
  BY <1>1, <1>2, StoreDelivers, AdvanceDelivers DEF log_buffer_add_record
<1>3. ASSUME NEW r \in Readers, get_last_seq_num(r) PROVE DeliveredInv'
  <2> PICK m :
      /\ rd' = [rd EXCEPT ![r] = m]
      /\ rd[r].pc = "head" /\ m.pc = "cursor"
      /\ m.last = head[rd[r].cpu]
      /\ m.cpu = rd[r].cpu /\ m.count = rd[r].count /\ m.part = rd[r].part
      /\ m.results = rd[r].results /\ m.dumped = rd[r].dumped
    BY <1>3, HeadStep
  <2>1. ~Reading(m) /\ ~Reading(rd[r]) BY DEF Reading
  <2>2. UNCHANGED <<head, ring, stored, log_record_seq_num, history>>
    BY <1>3 DEF get_last_seq_num, writerVars
  <2> QED BY <2>1, <2>2, SilentDelivers
<1>4. ASSUME NEW r \in Readers, CountLogs(r) PROVE DeliveredInv'
  <2> PICK m :
      /\ rd' = [rd EXCEPT ![r] = m]
      /\ rd[r].pc = "cursor" /\ m.pc = "set"
      /\ m.count = (rd[r].last - log_record_seq_num[rd[r].cpu]) % UINT32
      /\ m.cpu = rd[r].cpu /\ m.last = rd[r].last /\ m.part = rd[r].part
      /\ m.results = rd[r].results /\ m.dumped = rd[r].dumped
    BY <1>4, CountStep
  <2>1. ~Reading(m) /\ ~Reading(rd[r]) BY DEF Reading
  <2>2. UNCHANGED <<head, ring, stored, log_record_seq_num, history>>
    BY <1>4 DEF CountLogs, writerVars
  <2> QED BY <2>1, <2>2, SilentDelivers
<1>5. ASSUME NEW r \in Readers, NEW f \in Copied, CopyField(r, f)
      PROVE DeliveredInv'
  <2> PICK m :
      /\ rd' = [rd EXCEPT ![r] = m]
      /\ CopiesOk(m) /\ CountOk(m) /\ Reading(m) /\ Reading(rd[r])
      /\ First(m) = First(rd[r]) /\ m.last = rd[r].last /\ m.cpu = rd[r].cpu
    BY <1>5, LoneCopies
  <2>1. UNCHANGED <<head, ring, stored, log_record_seq_num, history>>
    BY <1>5 DEF CopyField, writerVars
  <2> QED BY <2>1, SilentDelivers
<1>6. CASE \E r \in Readers : dump_log(r)
  <2> PICK r \in Readers : dump_log(r) BY <1>6
  <2>1. 0 .. LOGS_PER_CPU - 1 \subseteq Nat BY LogAssumption
  <2> QED BY <1>1, <1>3, <1>4, <1>5, <2>1, SetDelivers, EmitAllDelivers,
             EmitUntilFullDelivers DEF dump_log
<1>7. CASE UNCHANGED vars
  <2>1. UNCHANGED <<head, stored, rd, log_record_seq_num, delivered, filled,
                    lapped>>
    BY <1>7 DEF vars, history
  <2>2. HistoryT' BY <2>1 DEF DeliveredInv, HistoryT
  <2>3. ASSUME NEW c \in Cpu PROVE DeliveredOk(c)'
    <3>1. DeliveredOk(c) BY DEF DeliveredInv
    <3>2. Oldest(c)' = Oldest(c) BY <2>1 DEF Oldest
    <3>3. ~lapped'[c] => Oldest(c)' <= Due(delivered[c], filled[c])
      BY <2>1, <3>1, <3>2 DEF DeliveredOk
    <3> QED BY <2>1, <3>1, <3>3, SameHistory
  <2> QED BY <2>2, <2>3 DEF DeliveredInv
<1> QED BY <1>2, <1>6, <1>7 DEF Next

(* As long as the handler did not overwrite what log.txt still has to      *)
(* show, a lone reader shows the events of a CPU whole, in order and       *)
(* without a gap, over any number of dumps, CPUs and full pages: the       *)
(* cursor is set back to exactly the record that filled the page.  Only    *)
(* where that record ended exactly at the page's end does log.txt show an  *)
(* event twice.                                                            *)
THEOREM EventsShownInOrder ==
  ASSUME LoneReader
  PROVE Spec => []EventsInOrder
<1>1. DeliveredInv => EventsInOrder
  <2> SUFFICES ASSUME DeliveredInv, NEW c \in Cpu, ~lapped[c],
                      NEW k \in 1 .. Len(delivered[c])
               PROVE delivered[c][k] = CopyOf(DueAfter(c, k - 1))
    BY DEF EventsInOrder
  <2>1. InOrder(delivered[c], filled[c]) BY DEF DeliveredInv, DeliveredOk
  <2>2. DueAfter(c, k - 1) = DueIn(delivered[c], filled[c], k - 1)
    BY DEF DueAfter, DueIn
  <2> QED BY <2>1, <2>2 DEF InOrder
<1> QED BY <1>1, WriterInit, WriterStep, ReaderInit, ReaderStep, TypesInit,
           TypesStep, LoneInit, LoneStep, DeliveredInit, DeliveredStep, PTL
        DEF Spec
=============================================================================
