----------------------- MODULE DiagnosticJournal_proofs -----------------------
(***************************************************************************)
(* The flush of the diagnostic journal says the truth, and the writer      *)
(* thread leaves no accepted record behind: proofs for every number of     *)
(* threads, every size of the queue and of the batches, and every number   *)
(* of records.                                                             *)
(*                                                                         *)
(* Where a record is, between the put that accepts it and the insert or    *)
(* the error that settles it, is what the invariant says; the pages of a   *)
(* reader do not matter to it: they have an invariant of their own, and    *)
(* every walk over the pages is in order and complete.                     *)
(***************************************************************************)
EXTENDS DiagnosticJournal, SequenceTheorems, FiniteSetTheorems, TLAPS

-----------------------------------------------------------------------------
(* The invariant.                                                           *)

Records(q) == {q[i].rec : i \in DOMAIN q}

PipeTyped ==
    /\ clock \in 1 .. MaxClock /\ made \in 0 .. MaxRecords
    /\ hand \in [Threads -> Entry \cup {Nothing}]
    /\ queue \in Seq(Entry) /\ batch \in Seq(Entry)
    /\ unfinished = Len(queue) + Len(batch)

\* The writer holds records only between taking and acknowledging them, and those
\* it has persisted, or failed to, are settled.
BatchIsInHand ==
    /\ writer \in {"test", "get", "ended"} => batch = <<>>
    /\ writer \in {"prune", "done"} => Records(batch) \subseteq Settled

\* What was accepted is settled, or the queue or the batch still has it.
NothingGoesAstray == accepted \subseteq Settled \cup Records(queue) \cup Records(batch)

\* What a flush has promised is settled, and a clean close saw the writer end.
PromisesAreKept ==
    /\ promised \subseteq Settled
    /\ closer = "clean" => writer = "ended"

Honest == PipeTyped /\ BatchIsInHand /\ NothingGoesAstray /\ PromisesAreKept

-----------------------------------------------------------------------------
(* Records of a queue.                                                      *)

LEMMA RecordsOfNone == Records(<<>>) = {}
  BY DEF Records

LEMMA RecordsOfAppend ==
    ASSUME NEW q \in Seq(Entry), NEW e \in Entry
    PROVE  /\ Append(q, e) \in Seq(Entry) /\ Len(Append(q, e)) = Len(q) + 1
           /\ Records(q) \cup {e.rec} \subseteq Records(Append(q, e))
<1>1. /\ Append(q, e) \in Seq(Entry) /\ Len(Append(q, e)) = Len(q) + 1
      /\ DOMAIN Append(q, e) = DOMAIN q \cup {Len(q) + 1}
      /\ \A i \in DOMAIN q : Append(q, e)[i] = q[i]
      /\ Append(q, e)[Len(q) + 1] = e
  OBVIOUS
<1> HIDE DEF Entry
<1> QED
  BY <1>1 DEF Records

LEMMA RecordsOfSplit ==
    ASSUME NEW q \in Seq(Entry), NEW n \in 0 .. Len(q)
    PROVE  LET l == SubSeq(q, 1, n)
               r == SubSeq(q, n + 1, Len(q))
           IN /\ l \in Seq(Entry) /\ r \in Seq(Entry)
              /\ Len(l) + Len(r) = Len(q)
              /\ Records(q) \subseteq Records(l) \cup Records(r)
<1> DEFINE l == SubSeq(q, 1, n)
           r == SubSeq(q, n + 1, Len(q))
<1>1. Len(q) \in Nat /\ n \in Nat /\ DOMAIN q = 1 .. Len(q)
      /\ \A i \in 1 .. Len(q) : q[i] \in Entry
  BY ElementOfSeq
<1>2. l \in Seq(Entry) /\ Len(l) = n /\ \A i \in 1 .. n : l[i] = q[i]
  <2>1. \A i \in 1 .. n : q[i] \in Entry
    BY <1>1
  <2>2. /\ SubSeq(q, 1, n) \in Seq(Entry)
        /\ Len(SubSeq(q, 1, n)) = IF 1 <= n THEN n - 1 + 1 ELSE 0
        /\ \A i \in 1 .. n - 1 + 1 : SubSeq(q, 1, n)[i] = q[1 + i - 1]
    BY <2>1, <1>1, SubSeqProperties
  <2> QED
    BY <2>2, <1>1
<1>3. r \in Seq(Entry) /\ Len(r) = Len(q) - n
      /\ \A i \in 1 .. Len(q) - n : r[i] = q[n + i]
  <2>1. \A i \in n + 1 .. Len(q) : q[i] \in Entry
    BY <1>1
  <2>2. /\ SubSeq(q, n + 1, Len(q)) \in Seq(Entry)
        /\ Len(SubSeq(q, n + 1, Len(q)))
             = IF n + 1 <= Len(q) THEN Len(q) - (n + 1) + 1 ELSE 0
        /\ \A i \in 1 .. Len(q) - (n + 1) + 1 :
              SubSeq(q, n + 1, Len(q))[i] = q[(n + 1) + i - 1]
    BY <2>1, <1>1, SubSeqProperties
  <2>3. (IF n + 1 <= Len(q) THEN Len(q) - (n + 1) + 1 ELSE 0) = Len(q) - n
    <3>1. ASSUME NEW k \in Nat, n <= k
          PROVE  (IF n + 1 <= k THEN k - (n + 1) + 1 ELSE 0) = k - n
      BY <3>1
    <3> HIDE DEF r, l
    <3>2. n <= Len(q)
      BY <1>1
    <3> QED
      BY <3>1, <3>2, <1>1, Zenon
  <2>4. Len(q) - (n + 1) + 1 = Len(q) - n
        /\ \A i \in 1 .. Len(q) - n : (n + 1) + i - 1 = n + i
    BY <1>1
  <2> HIDE DEF r
  <2>5. r \in Seq(Entry) /\ Len(r) = Len(q) - n
    BY <2>2, <2>3 DEF r
  <2>6. \A i \in 1 .. Len(q) - n : r[i] = q[n + i]
    BY <2>2, <2>4 DEF r
  <2> QED
    BY <2>5, <2>6
<1> HIDE DEF l, r
<1>4. \A i \in DOMAIN q : q[i].rec \in Records(l) \cup Records(r)
  <2> SUFFICES ASSUME NEW i \in DOMAIN q PROVE q[i].rec \in Records(l) \cup Records(r)
    OBVIOUS
  <2>1. CASE i <= n
    <3>1. i \in DOMAIN l /\ l[i] = q[i]
      BY <1>1, <1>2, <2>1
    <3> QED
      BY <3>1 DEF Records
  <2>2. CASE ~(i <= n)
    <3>1. i - n \in DOMAIN r /\ r[i - n] = q[i]
      BY <1>1, <1>3, <2>2
    <3> QED
      BY <3>1 DEF Records
  <2> QED
    BY <2>1, <2>2
<1>5. Records(q) \subseteq Records(l) \cup Records(r)
  BY <1>4 DEF Records
<1>6. l \in Seq(Entry) /\ r \in Seq(Entry) /\ Len(l) + Len(r) = Len(q)
  BY <1>1, <1>2, <1>3
<1> QED
  BY <1>5, <1>6 DEF l, r

-----------------------------------------------------------------------------
(* It holds at the start, and every action keeps it.                        *)

LEMMA InitHonest == Init => Honest
<1> SUFFICES ASSUME Init PROVE Honest
  OBVIOUS
<1>1. hand \in [Threads -> Entry \cup {Nothing}]
  BY DEF Init
<1>2. <<>> \in Seq(Entry) /\ Len(<<>>) = 0
  OBVIOUS
<1>3. queue = <<>> /\ batch = <<>> /\ unfinished = 0
      /\ writer \in {"test", "ended"} /\ closer = "open"
      /\ accepted = {} /\ promised = {}
  BY DEF Init
<1>4. clock \in 1 .. MaxClock /\ made \in 0 .. MaxRecords
  BY JournalAssumption DEF Init
<1> QED
  BY <1>1, <1>2, <1>3, <1>4 DEF Honest, PipeTyped, BatchIsInHand, NothingGoesAstray, PromisesAreKept

LEMMA RecordKeeps ==
    ASSUME Honest, NEW t \in Threads, Record(t)
    PROVE  Honest'
<1> USE DEF Honest
<1>1. /\ made < MaxRecords /\ made' = made + 1
      /\ hand' = [hand EXCEPT ![t] = IF available /\ ~stop
                                     THEN [rec |-> made + 1, at |-> clock] ELSE Nothing]
      /\ UNCHANGED <<clock, queue, unfinished, writer, batch, closer, promised,
                     accepted, stored, failed>>
  BY DEF Record, pipe, thread, ending, history
<1>2. made' \in 0 .. MaxRecords /\ [rec |-> made + 1, at |-> clock] \in Entry
  BY <1>1, JournalAssumption DEF PipeTyped, Entry
<1>3. hand' \in [Threads -> Entry \cup {Nothing}]
  BY <1>1, <1>2 DEF PipeTyped
<1>4. PipeTyped'
  BY <1>1, <1>2, <1>3 DEF PipeTyped
<1> QED
  BY <1>1, <1>4 DEF BatchIsInHand, NothingGoesAstray, PromisesAreKept, Settled

LEMMA PutKeeps ==
    ASSUME Honest, NEW t \in Threads, Put(t)
    PROVE  Honest'
<1> USE DEF Honest
<1>1. /\ hand[t] \in Entry /\ hand' = [hand EXCEPT ![t] = Nothing]
      /\ UNCHANGED <<clock, made, writer, batch, closer, promised, stored, failed>>
  BY DEF Put, thread, ending, PipeTyped
<1>2. hand' \in [Threads -> Entry \cup {Nothing}]
  BY <1>1 DEF PipeTyped
<1>3. CASE UNCHANGED <<queue, unfinished, accepted>>
  BY <1>1, <1>2, <1>3 DEF PipeTyped, BatchIsInHand, NothingGoesAstray, PromisesAreKept, Settled
<1>4. CASE /\ queue' = Append(queue, hand[t]) /\ unfinished' = unfinished + 1
           /\ accepted' = accepted \cup {hand[t].rec}
  <2>1. /\ queue' \in Seq(Entry) /\ Len(queue') = Len(queue) + 1
        /\ Records(queue) \cup {hand[t].rec} \subseteq Records(queue')
    BY <1>1, <1>4, RecordsOfAppend DEF PipeTyped
  <2>2. PipeTyped'
    BY <1>1, <1>2, <1>4, <2>1 DEF PipeTyped
  <2>3. NothingGoesAstray'
    BY <1>1, <1>4, <2>1 DEF NothingGoesAstray, Settled
  <2> QED
    BY <1>1, <2>2, <2>3 DEF BatchIsInHand, PromisesAreKept, Settled
<1> QED
  BY <1>3, <1>4 DEF Put, pipe

LEMMA WriterTestsKeeps == Honest /\ WriterTests => Honest'
<1> SUFFICES ASSUME Honest, WriterTests PROVE Honest'
  OBVIOUS
<1>1. /\ writer = "test" /\ writer' \in {"ended", "get"}
      /\ UNCHANGED <<clock, made, hand, queue, unfinished, batch, closer, promised,
                     accepted, stored, failed>>
  BY DEF WriterTests, recorders, pipe, ending, history
<1> QED
  BY <1>1 DEF Honest, PipeTyped, BatchIsInHand, NothingGoesAstray, PromisesAreKept, Settled

LEMMA WriterTakesKeeps == Honest /\ WriterTakes => Honest'
<1> SUFFICES ASSUME Honest, WriterTakes PROVE Honest'
  OBVIOUS
<1> USE DEF Honest
<1>1. /\ writer = "get"
      /\ UNCHANGED <<clock, made, hand, unfinished, closer, promised,
                     accepted, stored, failed>>
  BY DEF WriterTakes, recorders, ending, history
<1>2. CASE writer' = "test" /\ UNCHANGED <<queue, batch>>
  BY <1>1, <1>2 DEF PipeTyped, BatchIsInHand, NothingGoesAstray, PromisesAreKept, Settled
<1>3. CASE /\ queue # <<>>
           /\ LET n == IF Len(queue) < WriteBatch THEN Len(queue) ELSE WriteBatch
              IN /\ batch' = SubSeq(queue, 1, n)
                 /\ queue' = SubSeq(queue, n + 1, Len(queue))
           /\ writer' = "persist"
  <2> DEFINE n == IF Len(queue) < WriteBatch THEN Len(queue) ELSE WriteBatch
  <2>1. queue \in Seq(Entry) /\ Len(queue) \in Nat /\ batch = <<>>
    BY <1>1 DEF PipeTyped, BatchIsInHand
  <2>2. n \in 0 .. Len(queue)
    BY <2>1, JournalAssumption
  <2>3. batch' = SubSeq(queue, 1, n) /\ queue' = SubSeq(queue, n + 1, Len(queue))
    BY <1>3
  <2> HIDE DEF n
  <2>4. /\ batch' \in Seq(Entry) /\ queue' \in Seq(Entry)
        /\ Len(batch') + Len(queue') = Len(queue)
        /\ Records(queue) \subseteq Records(batch') \cup Records(queue')
    BY <2>1, <2>2, <2>3, RecordsOfSplit
  <2>5. Records(batch) = {}
    BY <2>1, RecordsOfNone
  <2>6. PipeTyped'
    <3>1. unfinished = Len(queue) /\ Len(batch') \in Nat /\ Len(queue') \in Nat
      BY <2>1, <2>4 DEF PipeTyped
    <3> QED
      BY <1>1, <2>4, <3>1 DEF PipeTyped
  <2>7. NothingGoesAstray'
    BY <1>1, <2>4, <2>5 DEF NothingGoesAstray, Settled
  <2> QED
    BY <1>1, <1>3, <2>6, <2>7 DEF BatchIsInHand, PromisesAreKept, Settled
<1> QED
  BY <1>2, <1>3 DEF WriterTakes

LEMMA WriterPersistsKeeps == Honest /\ WriterPersists => Honest'
<1> SUFFICES ASSUME Honest, WriterPersists PROVE Honest'
  OBVIOUS
<1>1. /\ writer = "persist" /\ writer' \in {"prune", "done"}
      /\ UNCHANGED <<clock, made, hand, queue, unfinished, batch, closer, promised, accepted>>
      /\ \/ stored' = stored \cup Records(batch) /\ UNCHANGED failed
         \/ failed' = failed \cup Records(batch) /\ UNCHANGED stored
  BY DEF WriterPersists, recorders, pipe, ending, rows, Records
<1>2. Settled' = Settled \cup Records(batch)
  BY <1>1 DEF Settled
<1>3. PipeTyped'
  BY <1>1 DEF Honest, PipeTyped
<1>4. Records(batch)' = Records(batch) /\ Records(queue)' = Records(queue)
  BY <1>1
<1> QED
  BY <1>1, <1>2, <1>3, <1>4 DEF Honest, BatchIsInHand, NothingGoesAstray, PromisesAreKept

LEMMA WriterPrunesKeeps == Honest /\ WriterPrunes => Honest'
<1> SUFFICES ASSUME Honest, WriterPrunes PROVE Honest'
  OBVIOUS
<1>1. /\ writer = "prune" /\ writer' = "done"
      /\ UNCHANGED <<clock, made, hand, queue, unfinished, batch, closer, promised,
                     accepted, stored, failed>>
  BY DEF WriterPrunes, recorders, pipe, ending, history
<1> QED
  BY <1>1 DEF Honest, PipeTyped, BatchIsInHand, NothingGoesAstray, PromisesAreKept, Settled

LEMMA WriterAcknowledgesKeeps == Honest /\ WriterAcknowledges => Honest'
<1> SUFFICES ASSUME Honest, WriterAcknowledges PROVE Honest'
  OBVIOUS
<1> USE DEF Honest
<1>1. /\ writer = "done" /\ writer' = "test" /\ batch' = <<>>
      /\ unfinished' = unfinished - Len(batch)
      /\ UNCHANGED <<clock, made, hand, queue, closer, promised, accepted, stored, failed>>
  BY DEF WriterAcknowledges, recorders, ending, history
<1>2. PipeTyped'
  <2>1. Len(queue) \in Nat /\ Len(batch) \in Nat /\ batch' \in Seq(Entry) /\ Len(batch') = 0
    BY <1>1 DEF PipeTyped
  <2> QED
    BY <1>1, <2>1 DEF PipeTyped
<1>3. Records(batch) \subseteq Settled
  BY <1>1 DEF BatchIsInHand
<1> QED
  BY <1>1, <1>2, <1>3 DEF BatchIsInHand, NothingGoesAstray, PromisesAreKept, Settled

LEMMA FlushEndsKeeps == Honest /\ FlushEnds => Honest'
<1> SUFFICES ASSUME Honest, FlushEnds PROVE Honest'
  OBVIOUS
<1> USE DEF Honest
<1>1. /\ closer' \in {"joining", "joining_late"}
      /\ (Flushed /\ promised' = accepted) \/ UNCHANGED promised
      /\ UNCHANGED <<clock, made, hand, queue, unfinished, writer, batch,
                     accepted, stored, failed>>
  BY DEF FlushEnds, recorders, pipe, thread, history
<1>2. Flushed => accepted \subseteq Settled
  <2> SUFFICES ASSUME Flushed PROVE accepted \subseteq Settled
    OBVIOUS
  <2>1. queue = <<>> /\ batch = <<>>
    BY EmptySeq DEF Flushed, PipeTyped
  <2> QED
    BY <2>1, RecordsOfNone DEF NothingGoesAstray
<1>3. PipeTyped' /\ BatchIsInHand' /\ NothingGoesAstray'
  BY <1>1 DEF PipeTyped, BatchIsInHand, NothingGoesAstray, Settled
<1>4. PromisesAreKept'
  BY <1>1, <1>2 DEF PromisesAreKept, Settled
<1> QED
  BY <1>3, <1>4

\* The clock, the rest of close and the reader do not touch the records.
LEMMA OtherStepsKeep ==
    Honest /\ (Tick \/ Close \/ JoinEnds \/ BeginWalk \/ NextPage \/ UNCHANGED vars)
      => Honest'
<1> SUFFICES ASSUME Honest PROVE Tick \/ Close \/ JoinEnds \/ BeginWalk \/ NextPage
                                   \/ UNCHANGED vars => Honest'
  OBVIOUS
<1> DEFINE untouched == <<made, hand, queue, unfinished, writer, batch, promised,
                          accepted, stored, failed>>
<1>1. ASSUME UNCHANGED untouched, clock' \in 1 .. MaxClock,
             closer' = "clean" => closer = "clean" \/ writer = "ended"
      PROVE  Honest'
  BY <1>1 DEF Honest, PipeTyped, BatchIsInHand, NothingGoesAstray, PromisesAreKept, Settled
<1> USE DEF recorders, pipe, thread, ending, history
<1>2. clock \in 1 .. MaxClock
  BY DEF Honest, PipeTyped
<1>3. ASSUME Tick PROVE Honest'
  BY <1>1, <1>2, <1>3, JournalAssumption DEF Tick
<1>4. ASSUME Close PROVE Honest'
  BY <1>1, <1>2, <1>4 DEF Close
<1>5. ASSUME JoinEnds PROVE Honest'
  BY <1>1, <1>2, <1>5 DEF JoinEnds
<1>6. ASSUME BeginWalk \/ NextPage PROVE Honest'
  <2>1. UNCHANGED <<recorders, pipe, thread, ending, history>>
    BY <1>6 DEF BeginWalk, NextPage
  <2> QED
    BY <1>1, <1>2, <2>1
<1>7. ASSUME UNCHANGED vars PROVE Honest'
  BY <1>1, <1>2, <1>7 DEF vars
<1> QED
  BY <1>3, <1>4, <1>5, <1>6, <1>7

-----------------------------------------------------------------------------
LEMMA SpecHonest == Spec => []Honest
<1>1. ASSUME Honest, [Next]_vars PROVE Honest'
  BY <1>1, RecordKeeps, PutKeeps, WriterTestsKeeps, WriterTakesKeeps, WriterPersistsKeeps,
     WriterPrunesKeeps, WriterAcknowledgesKeeps, FlushEndsKeeps, OtherStepsKeep
     DEF Next, Writer
<1> QED
  BY <1>1, InitHonest, PTL DEF Spec

LEMMA HonestIsSettled ==
    ASSUME Honest, queue = <<>>, batch = <<>>
    PROVE  accepted \subseteq Settled
  BY RecordsOfNone DEF Honest, NothingGoesAstray

\* Whenever no task is unfinished, every record whose id was returned is in the
\* database or counted as an error; and a close that answers TRUE has seen the
\* writer end and all that its flush promised settled.
THEOREM FlushTellsTruth == Spec => []FlushIsHonest
<1>1. Honest => FlushIsHonest
  <2> SUFFICES ASSUME Honest PROVE FlushIsHonest
    OBVIOUS
  <2>1. ASSUME Flushed PROVE accepted \subseteq Settled
    <3>1. queue = <<>> /\ batch = <<>>
      BY <2>1, EmptySeq DEF Flushed, Honest, PipeTyped
    <3> QED
      BY <3>1, HonestIsSettled
  <2> QED
    BY <2>1 DEF FlushIsHonest, Honest, PromisesAreKept
<1> QED
  BY <1>1, SpecHonest, PTL

\* A writer thread that ends, and it ends only at its test of the stop flag, has
\* left no accepted record unsettled, those put after the flag was set included.
THEOREM WriterLeavesNoRecord == Spec => WriterLeavesNothing
<1>1. ASSUME Honest, [Next]_vars
      PROVE  [writer # "ended" /\ writer' = "ended" => accepted \subseteq Settled]_vars
  <2> SUFFICES ASSUME writer # "ended", writer' = "ended"
               PROVE  accepted \subseteq Settled
    OBVIOUS
  <2>1. WriterTests
    BY <1>1 DEF Next, Writer, Record, Put, Tick, WriterTakes, WriterPersists, WriterPrunes,
            WriterAcknowledges, Close, FlushEnds, JoinEnds, BeginWalk, NextPage, thread, vars
  <2>2. queue = <<>> /\ batch = <<>>
    BY <1>1, <2>1 DEF WriterTests, WriterIsDone, Honest, BatchIsInHand
  <2> QED
    BY <1>1, <2>2, HonestIsSettled
<1> QED
  BY <1>1, SpecHonest, PTL DEF Spec, WriterLeavesNothing

-----------------------------------------------------------------------------
(* The pages.  A reader's walk may outlast inserts and prunes: the invariant *)
(* says of the rows that were there all along that they have been read or    *)
(* come after the cursor.                                                    *)

LEMMA BeforeIsOrder ==
    ASSUME NEW order \in Orders, NEW r \in Row, NEW q \in Row
    PROVE  /\ ~Before(r, r, order)
           /\ Before(r, q, order) => ~Before(q, r, order)
           /\ r # q => Before(r, q, order) \/ Before(q, r, order)
           /\ \A p \in Row : Before(p, r, order) /\ Before(r, q, order) => Before(p, q, order)
<1>1. /\ r = [id |-> r.id, at |-> r.at] /\ q = [id |-> q.id, at |-> q.at]
      /\ \A p \in Row : p.id \in Int /\ p.at \in Int
  BY DEF Row
<1>2. r # q => r.id # q.id \/ r.at # q.at
  BY <1>1
<1>3. CASE order = "oldest"
  BY <1>1, <1>2, <1>3 DEF Before
<1>4. CASE order # "oldest"
  BY <1>1, <1>2, <1>4 DEF Before
<1> QED
  BY <1>3, <1>4

\* The rows of a finite set have one place each, counted from zero.
Earlier(S, r, order) == {q \in S : Before(q, r, order)}

LEMMA Places ==
    ASSUME NEW S, S \subseteq Row, IsFiniteSet(S), NEW order \in Orders
    PROVE  LET place(r) == Cardinality(Earlier(S, r, order))
               size     == Cardinality(S)
           IN /\ size \in Nat
              /\ \A r \in S : place(r) \in 0 .. (size - 1)
              /\ \A r, q \in S : Before(q, r, order) => place(q) < place(r)
              /\ \A k \in 0 .. (size - 1) : \E r \in S : place(r) = k
<1> DEFINE place(r) == Cardinality(Earlier(S, r, order))
           size     == Cardinality(S)
<1>1. size \in Nat
  BY FS_CardinalityType
<1>2. \A r \in S : IsFiniteSet(Earlier(S, r, order)) /\ place(r) \in Nat
  <2> TAKE r \in S
  <2>1. Earlier(S, r, order) \in SUBSET S
    BY DEF Earlier
  <2> QED
    BY <2>1, FS_Subset, FS_CardinalityType
<1>3. ASSUME NEW r \in S PROVE place(r) \in 0 .. (size - 1)
  <2>1. IsFiniteSet(S \ {r}) /\ Cardinality(S \ {r}) = size - 1
    BY FS_RemoveElement
  <2>2. Earlier(S, r, order) \in SUBSET (S \ {r})
    BY BeforeIsOrder DEF Earlier
  <2>3. Cardinality(Earlier(S, r, order)) <= Cardinality(S \ {r})
    BY <2>1, <2>2, FS_Subset
  <2> QED
    BY <1>1, <1>2, <2>1, <2>3
<1>4. ASSUME NEW r \in S, NEW q \in S, Before(q, r, order) PROVE place(q) < place(r)
  <2> DEFINE E == Earlier(S, r, order)
  <2>1. IsFiniteSet(E) /\ q \in E
    BY <1>2, <1>4 DEF Earlier
  <2>2. IsFiniteSet(E \ {q}) /\ Cardinality(E \ {q}) = place(r) - 1
    BY <2>1, FS_RemoveElement
  <2>3. Earlier(S, q, order) \in SUBSET (E \ {q})
    BY <1>4, BeforeIsOrder DEF Earlier
  <2>4. Cardinality(Earlier(S, q, order)) <= Cardinality(E \ {q})
    BY <2>2, <2>3, FS_Subset
  <2>5. place(q) \in Nat /\ place(r) \in Nat
    BY <1>2
  <2> QED
    BY <2>2, <2>4, <2>5
<1>5. \A k \in 0 .. (size - 1) : \E r \in S : place(r) = k
  <2> DEFINE f == [r \in S |-> place(r)]
             T == 0 .. (size - 1)
  <2>1. f \in Injection(S, T)
    <3>1. f \in [S -> T]
      BY <1>3
    <3>2. ASSUME NEW a \in S, NEW b \in S, f[a] = f[b] PROVE a = b
      <4>1. place(a) = place(b) /\ place(a) \in Nat /\ place(b) \in Nat
        BY <1>2, <3>2
      <4>2. ~Before(a, b, order) /\ ~Before(b, a, order)
        BY <1>4, <4>1
      <4> QED
        BY <4>2, BeforeIsOrder
    <3> HIDE DEF f, T
    <3>3. DOMAIN f = S
      BY <3>1
    <3> QED
      BY <3>1, <3>2, <3>3 DEF Injection, IsInjective
  <2>2. IsFiniteSet(T) /\ Cardinality(T) = Cardinality(S)
    <3>1. 0 \in Int /\ size - 1 \in Int
      BY <1>1
    <3>2. IsFiniteSet(0 .. (size - 1))
          /\ Cardinality(0 .. (size - 1)) = IF 0 > size - 1 THEN 0 ELSE (size - 1) - 0 + 1
      BY <3>1, FS_Interval
    <3> QED
      BY <1>1, <3>2
  <2> HIDE DEF f
  <2>3. f \in Surjection(S, T)
    <3> HIDE DEF T
    <3> QED
      BY <2>1, <2>2, FS_Injection
  <2>4. \A k \in T : \E r \in S : f[r] = k
    BY <2>3 DEF Surjection
  <2> QED
    BY <2>4 DEF f
<1> QED
  BY <1>1, <1>3, <1>4, <1>5

-----------------------------------------------------------------------------
\* What a walk has read is in order, and where it goes on.
Walks    == [at : {"idle", "reading", "complete"}, order : Orders, last : Row \cup {NoRow},
             read : Seq(Row), there : SUBSET Row]
Read(w)  == {w.read[i] : i \in DOMAIN w.read}
InOrder(w) ==
    \A i, j \in DOMAIN w.read : i < j => Before(w.read[i], w.read[j], w.order)
GoesOn(w) ==
    /\ w.last \in Row /\ w.read # <<>> /\ w.last = w.read[Len(w.read)]
    /\ \A r \in w.there : r \in Read(w) \/ Before(w.last, r, w.order)

TableTyped == table \subseteq Row /\ IsFiniteSet(table) /\ created \in Nat
WalkIsStable ==
    /\ walk \in Walks /\ walk.there \subseteq table /\ InOrder(walk)
    /\ walk.at = "reading" => GoesOn(walk)
    /\ walk.at = "complete" => walk.there \subseteq Read(walk)
Paged == TableTyped /\ WalkIsStable

\* A page: the rows of the rest at its first places.
LEMMA PageIsRead ==
    ASSUME TableTyped, NEW w \in Walks, w.there \subseteq table, InOrder(w),
           (w.last = NoRow /\ w.read = <<>>) \/ GoesOn(w)
    PROVE  LET v == ReadPage(w)
           IN /\ v \in Walks /\ v.there = w.there /\ InOrder(v)
              /\ v.at = "reading" => GoesOn(v)
              /\ v.at = "complete" => v.there \subseteq Read(v)
<1> DEFINE S     == Rest(w)
           place(r) == Cardinality(Earlier(S, r, w.order))
           more  == Cardinality(S) > PageLimit
           size  == IF more THEN PageLimit ELSE Cardinality(S)
           page  == [k \in 1 .. size |-> CHOOSE r \in S : place(r) = k - 1]
           v     == ReadPage(w)
           m     == Len(w.read)
<1>1. /\ w.order \in Orders /\ w.read \in Seq(Row) /\ m \in Nat
      /\ w.there \subseteq Row /\ PageLimit \in Nat \ {0}
  BY JournalAssumption DEF Walks
<1>2. S \subseteq table /\ S \subseteq Row /\ IsFiniteSet(S)
  <2>1. S \in SUBSET table
    BY DEF Rest
  <2> HIDE DEF S
  <2> QED
    BY <2>1, FS_Subset DEF TableTyped
<1>3. v = [w EXCEPT !.at   = IF more THEN "reading" ELSE "complete",
                    !.last = IF more THEN page[size] ELSE NoRow,
                    !.read = w.read \o page]
  BY DEF ReadPage, Place, Earlier
<1> HIDE DEF S
<1>4. /\ Cardinality(S) \in Nat
      /\ \A r \in S : place(r) \in 0 .. (Cardinality(S) - 1)
      /\ \A r, q \in S : Before(q, r, w.order) => place(q) < place(r)
      /\ \A k \in 0 .. (Cardinality(S) - 1) : \E r \in S : place(r) = k
  BY <1>1, <1>2, Places
<1> HIDE DEF place, v
<1>5. size \in Nat /\ size <= Cardinality(S) /\ (more => size = PageLimit /\ size # 0)
      /\ (~more => size = Cardinality(S))
  BY <1>1, <1>4
<1> HIDE DEF size
<1>6. ASSUME NEW k \in 1 .. size PROVE page[k] \in S /\ place(page[k]) = k - 1
  <2>1. k - 1 \in 0 .. (Cardinality(S) - 1)
    BY <1>4, <1>5
  <2>2. \E r \in S : place(r) = k - 1
    BY <1>4, <2>1
  <2> QED
    BY <2>2
<1>7. page \in Seq(Row) /\ Len(page) = size /\ DOMAIN page = 1 .. size
  <2>1. page \in [1 .. size -> Row]
    BY <1>2, <1>6
  <2> HIDE DEF page
  <2> QED
    BY <1>5, <2>1, IsASeq, LenProperties
<1> HIDE DEF page, more
\* Whoever has the smaller place is before.
<1>8. ASSUME NEW r \in S, NEW q \in S, place(q) < place(r) PROVE Before(q, r, w.order)
  <2>1. place(r) \in Int /\ place(q) \in Int
    BY <1>4
  <2>2. ~(place(r) < place(q)) /\ q # r
    BY <1>8, <2>1
  <2>3. ~Before(r, q, w.order)
    BY <1>4, <2>2
  <2> QED
    BY <1>1, <1>2, <2>2, <2>3, BeforeIsOrder
<1>9. ASSUME NEW r \in S, NEW q \in S, place(q) = place(r) PROVE q = r
  <2>1. place(r) \in Int /\ place(q) \in Int
    BY <1>4
  <2>2. ~Before(r, q, w.order) /\ ~Before(q, r, w.order)
    BY <1>4, <1>9, <2>1
  <2> QED
    BY <1>1, <1>2, <2>2, BeforeIsOrder
<1> DEFINE u == w.read \o page
<1>10. /\ u \in Seq(Row) /\ Len(u) = m + size /\ DOMAIN u = 1 .. (m + size)
       /\ \A i \in 1 .. m : u[i] = w.read[i]
       /\ \A i \in (m + 1) .. (m + size) : i - m \in 1 .. size /\ u[i] = page[i - m]
  <2>1. /\ u \in Seq(Row) /\ Len(u) = m + size
        /\ \A i \in 1 .. (m + size) : u[i] = IF i <= m THEN w.read[i] ELSE page[i - m]
    BY <1>1, <1>7, ConcatProperties
  <2> HIDE DEF u, m
  <2>2. DOMAIN u = 1 .. (m + size)
    BY <2>1, LenProperties
  <2>3. /\ \A i \in 1 .. m : i \in 1 .. (m + size) /\ i <= m
        /\ \A i \in (m + 1) .. (m + size) :
              i \in 1 .. (m + size) /\ ~(i <= m) /\ i - m \in 1 .. size
    BY <1>1, <1>5
  <2> QED
    BY <2>1, <2>2, <2>3
<1> HIDE DEF u
<1>11. /\ v \in Walks /\ v.there = w.there /\ v.order = w.order /\ v.read = u
       /\ v.at = IF more THEN "reading" ELSE "complete"
       /\ v.last = IF more THEN page[size] ELSE NoRow
  <2>1. more => page[size] \in Row
    BY <1>2, <1>5, <1>6
  <2> QED
    BY <1>3, <1>10, <2>1 DEF Walks, u
\* The page goes on where the walk was.
<1>12. ASSUME NEW i \in 1 .. m, NEW r \in S PROVE Before(w.read[i], r, w.order)
  <2>1. w.read # <<>> /\ DOMAIN w.read = 1 .. m
    BY <1>1, <1>12, LenProperties
  <2>2. GoesOn(w)
    BY <2>1
  <2>3. w.last \in Row /\ w.last # NoRow /\ w.last = w.read[m]
    BY <2>2 DEF GoesOn, Row, NoRow
  <2>4. Before(w.last, r, w.order)
    BY <2>3 DEF S, Rest
  <2>5. i = m \/ i < m
    BY <1>1
  <2>6. w.read[i] \in Row
    BY <1>1, <2>1, ElementOfSeq
  <2>7. i < m => Before(w.read[i], w.last, w.order)
    <3>1. m \in 1 .. m
      BY <1>1, <1>12
    <3> QED
      BY <2>1, <2>3, <3>1 DEF InOrder
  <2>8. CASE i = m
    BY <2>3, <2>4, <2>8
  <2>9. CASE i < m
    BY <1>1, <1>2, <2>3, <2>4, <2>6, <2>7, <2>9, BeforeIsOrder
  <2> QED
    BY <2>5, <2>8, <2>9
<1>13. InOrder(v)
  <2> SUFFICES ASSUME NEW i \in DOMAIN u, NEW j \in DOMAIN u, i < j
               PROVE  Before(u[i], u[j], w.order)
    BY <1>11 DEF InOrder
  <2>1. i \in 1 .. m \/ i \in (m + 1) .. (m + size)
    BY <1>1, <1>5, <1>10
  <2>2. j \in 1 .. m \/ j \in (m + 1) .. (m + size)
    BY <1>1, <1>5, <1>10
  <2>3. CASE j \in 1 .. m
    <3>1. i \in 1 .. m /\ i \in DOMAIN w.read /\ j \in DOMAIN w.read
      BY <1>1, <1>5, <1>10, <2>3, LenProperties
    <3> QED
      BY <1>10, <2>3, <3>1 DEF InOrder
  <2>4. CASE i \in 1 .. m /\ j \in (m + 1) .. (m + size)
    <3>1. u[j] \in S
      BY <1>6, <1>10, <2>4
    <3> QED
      BY <1>10, <1>12, <2>4, <3>1
  <2>5. CASE i \in (m + 1) .. (m + size) /\ j \in (m + 1) .. (m + size)
    <3>1. /\ u[i] \in S /\ place(u[i]) = (i - m) - 1
          /\ u[j] \in S /\ place(u[j]) = (j - m) - 1
      BY <1>6, <1>10, <2>5
    <3>2. (i - m) - 1 < (j - m) - 1
      BY <1>1, <1>5, <2>5
    <3> QED
      BY <1>8, <3>1, <3>2
  <2> QED
    BY <2>1, <2>2, <2>3, <2>4, <2>5
<1>14. Read(w) \subseteq Read(v) /\ \A k \in 1 .. size : page[k] \in Read(v)
  <2>1. DOMAIN w.read = 1 .. m
    BY <1>1, LenProperties
  <2>2. /\ \A i \in 1 .. m : i \in 1 .. (m + size)
        /\ \A k \in 1 .. size : /\ k + m \in (m + 1) .. (m + size) /\ (k + m) - m = k
                                /\ k + m \in 1 .. (m + size)
    BY <1>1, <1>5
  <2>3. \A k \in 1 .. size : u[k + m] = page[k]
    BY <1>10, <2>2
  <2> QED
    BY <1>10, <1>11, <2>1, <2>2, <2>3 DEF Read
\* What was there is read, or in the rest.
<1>15. ASSUME NEW r \in w.there PROVE r \in Read(v) \/ r \in S
  <2>1. r \in table
    OBVIOUS
  <2>2. CASE w.last = NoRow
    BY <2>1, <2>2 DEF S, Rest
  <2>3. CASE GoesOn(w)
    BY <1>14, <2>1, <2>3 DEF S, Rest, GoesOn
  <2> QED
    BY <2>2, <2>3
\* A row of the rest is on the page, or its place is beyond it.
<1>16. ASSUME NEW r \in S PROVE r \in Read(v) \/ size <= place(r)
  <2>1. place(r) \in Nat
    BY <1>4
  <2>2. CASE place(r) < size
    <3>1. place(r) + 1 \in 1 .. size /\ (place(r) + 1) - 1 = place(r)
      BY <1>5, <2>1, <2>2
    <3>2. page[place(r) + 1] \in S /\ place(page[place(r) + 1]) = place(r)
      BY <1>6, <3>1
    <3>3. page[place(r) + 1] = r
      BY <1>9, <3>2
    <3> QED
      BY <1>14, <3>1, <3>3
  <2>3. CASE ~(place(r) < size)
    BY <1>5, <2>1, <2>3
  <2> QED
    BY <2>2, <2>3
<1>17. ASSUME v.at = "reading" PROVE GoesOn(v)
  <2>1. more /\ size \in 1 .. size /\ m + size \in (m + 1) .. (m + size) /\ (m + size) - m = size
    BY <1>1, <1>5, <1>11, <1>17
  <2>2. page[size] \in S /\ place(page[size]) = size - 1 /\ size - 1 < size
    BY <1>5, <1>6, <2>1
  <2>3. v.last = page[size] /\ page[size] \in Row
    BY <1>2, <1>11, <2>1, <2>2
  <2>4. v.last = v.read[Len(v.read)] /\ v.read # <<>>
    <3>1. u[m + size] = page[size] /\ m + size # 0
      BY <1>1, <1>5, <1>10, <2>1
    <3>2. u # <<>>
      BY <1>10, <3>1, EmptySeq
    <3> QED
      BY <1>10, <1>11, <2>3, <3>1, <3>2
  <2>5. ASSUME NEW r \in S, size <= place(r) PROVE Before(page[size], r, w.order)
    <3>1. place(page[size]) < place(r)
      <4>1. place(r) \in Int
        BY <1>4
      <4> QED
        BY <1>5, <2>2, <2>5, <4>1
    <3> QED
      BY <1>8, <2>2, <3>1
  <2>6. \A r \in v.there : r \in Read(v) \/ Before(v.last, r, v.order)
    BY <1>11, <1>15, <1>16, <2>3, <2>5
  <2> QED
    BY <2>3, <2>4, <2>6 DEF GoesOn
<1>18. ASSUME v.at = "complete" PROVE v.there \subseteq Read(v)
  <2>1. size = Cardinality(S)
    BY <1>5, <1>11, <1>18
  <2>2. ASSUME NEW r \in S PROVE ~(size <= place(r))
    BY <1>4, <2>1
  <2> QED
    BY <1>11, <1>15, <1>16, <2>2
<1> QED
  BY <1>11, <1>13, <1>17, <1>18 DEF v

LEMMA InitPaged == Init => Paged
<1> SUFFICES ASSUME Init PROVE Paged
  OBVIOUS
<1>1. created \in 0 .. MaxOld /\ created \in Nat /\ walk = NoWalk
      /\ table = {[id |-> i, at |-> 1] : i \in 1 .. created}
  BY JournalAssumption DEF Init
<1>2. table \subseteq Row
  BY <1>1, JournalAssumption DEF Row
<1>3. IsFiniteSet(table)
  <2> DEFINE f == [i \in 1 .. created |-> [id |-> i, at |-> 1]]
  <2>1. f \in Surjection(1 .. created, table)
    BY <1>1 DEF Surjection
  <2>2. IsFiniteSet(1 .. created)
    BY <1>1, FS_Interval
  <2> HIDE DEF f
  <2> QED
    BY <2>1, <2>2, FS_Surjection
<1>4. /\ walk \in Walks /\ walk.there = {} /\ walk.read = <<>> /\ walk.at = "idle"
      /\ DOMAIN walk.read = {}
  BY <1>1 DEF NoWalk, Walks, Orders
<1> QED
  BY <1>1, <1>2, <1>3, <1>4 DEF Paged, TableTyped, WalkIsStable, InOrder

LEMMA WriterPersistsPages == Honest /\ Paged /\ WriterPersists => Paged'
<1> SUFFICES ASSUME Honest, Paged, WriterPersists PROVE Paged'
  OBVIOUS
<1>1. /\ UNCHANGED walk
      /\ \/ table' = table \cup RowsOf(batch, created) /\ created' = created + Len(batch)
         \/ UNCHANGED <<table, created>>
  BY DEF WriterPersists, rows
<1>2. /\ batch \in Seq(Entry) /\ Len(batch) \in Nat /\ DOMAIN batch = 1 .. Len(batch)
      /\ created \in Nat
      /\ \A i \in 1 .. Len(batch) : batch[i].at \in 1 .. MaxClock
  <2>1. batch \in Seq(Entry) /\ created \in Nat
    BY DEF Honest, PipeTyped, Paged, TableTyped
  <2>2. \A i \in 1 .. Len(batch) : batch[i] \in Entry
    BY <2>1, ElementOfSeq
  <2> QED
    BY <2>1, <2>2, LenProperties DEF Entry
<1>3. RowsOf(batch, created) \subseteq Row /\ IsFiniteSet(RowsOf(batch, created))
  <2>1. RowsOf(batch, created) \subseteq Row
    BY <1>2 DEF RowsOf, Row
  <2> DEFINE f == [i \in 1 .. Len(batch) |-> [id |-> created + i, at |-> batch[i].at]]
  <2>2. f \in Surjection(1 .. Len(batch), RowsOf(batch, created))
    BY <1>2 DEF Surjection, RowsOf
  <2>3. IsFiniteSet(1 .. Len(batch))
    BY <1>2, FS_Interval
  <2> HIDE DEF f
  <2> QED
    BY <2>1, <2>2, <2>3, FS_Surjection
<1>4. TableTyped' /\ table \subseteq table'
  <2>1. TableTyped
    BY DEF Paged
  <2>2. CASE UNCHANGED <<table, created>>
    BY <2>1, <2>2 DEF TableTyped
  <2>3. CASE table' = table \cup RowsOf(batch, created) /\ created' = created + Len(batch)
    <3>1. IsFiniteSet(table \cup RowsOf(batch, created))
      BY <1>3, <2>1, FS_Union DEF TableTyped
    <3>2. created' \in Nat
      BY <1>2, <2>3
    <3> QED
      BY <1>3, <2>1, <2>3, <3>1, <3>2 DEF TableTyped
  <2> QED
    BY <1>1, <2>2, <2>3
<1> QED
  BY <1>1, <1>4 DEF Paged, WalkIsStable, InOrder, GoesOn, Read

LEMMA WriterPrunesPages == Paged /\ WriterPrunes => Paged'
<1> SUFFICES ASSUME Paged, WriterPrunes PROVE Paged'
  OBVIOUS
<1>1. /\ table' \subseteq table /\ UNCHANGED created
      /\ walk' = [walk EXCEPT !.there = @ \cap table']
  BY DEF WriterPrunes, Pruned
<1>2. TableTyped'
  <2>1. table' \in SUBSET table
    BY <1>1
  <2> QED
    BY <1>1, <2>1, FS_Subset DEF Paged, TableTyped
<1>3. /\ walk' \in Walks /\ walk'.at = walk.at /\ walk'.order = walk.order
      /\ walk'.last = walk.last /\ walk'.read = walk.read
      /\ walk'.there = walk.there \cap table'
  BY <1>1 DEF Paged, WalkIsStable, Walks
<1>4. Read(walk)' = Read(walk)
  BY <1>3 DEF Read
<1>5. InOrder(walk)'
  BY <1>3 DEF Paged, WalkIsStable, InOrder
<1>6. walk'.at = "reading" => GoesOn(walk)'
  BY <1>3, <1>4 DEF Paged, WalkIsStable, GoesOn
<1>7. walk'.at = "complete" => walk'.there \subseteq Read(walk)'
  BY <1>3, <1>4 DEF Paged, WalkIsStable
<1> QED
  BY <1>2, <1>3, <1>5, <1>6, <1>7 DEF Paged, WalkIsStable

LEMMA ReaderPages == Paged /\ (BeginWalk \/ NextPage) => Paged'
<1> SUFFICES ASSUME Paged, BeginWalk \/ NextPage PROVE Paged'
  OBVIOUS
<1>1. UNCHANGED <<table, created>>
  BY DEF BeginWalk, NextPage, rows
<1>2. TableTyped /\ TableTyped'
  BY <1>1 DEF Paged, TableTyped
<1>3. ASSUME NEW w \in Walks, w.there \subseteq table, InOrder(w),
             (w.last = NoRow /\ w.read = <<>>) \/ GoesOn(w),
             walk' = ReadPage(w)
      PROVE  WalkIsStable'
  <2> DEFINE v == ReadPage(w)
  <2>1. /\ v \in Walks /\ v.there = w.there /\ InOrder(v)
        /\ v.at = "reading" => GoesOn(v)
        /\ v.at = "complete" => v.there \subseteq Read(v)
    BY <1>2, <1>3, PageIsRead
  <2>2. walk' = v
    BY <1>3
  <2> HIDE DEF v
  <2>3. InOrder(walk)'
    BY <2>1, <2>2 DEF InOrder
  <2>4. walk'.at = "reading" => GoesOn(walk)'
    BY <2>1, <2>2 DEF GoesOn, Read
  <2>5. walk'.at = "complete" => walk'.there \subseteq Read(walk)'
    BY <2>1, <2>2 DEF Read
  <2>6. walk' \in Walks /\ walk'.there \subseteq table'
    BY <1>1, <1>3, <2>1, <2>2
  <2> QED
    BY <2>3, <2>4, <2>5, <2>6 DEF WalkIsStable
<1>4. CASE BeginWalk
  <2>1. PICK order \in Orders : walk' = ReadPage([NoWalk EXCEPT !.order = order, !.there = table])
    BY <1>4 DEF BeginWalk
  <2> DEFINE w == [NoWalk EXCEPT !.order = order, !.there = table]
  <2>2. /\ w \in Walks /\ w.there = table /\ w.last = NoRow /\ w.read = <<>>
        /\ DOMAIN w.read = {}
    <3>1. /\ NoWalk \in Walks /\ NoWalk.last = NoRow /\ NoWalk.read = <<>>
          /\ DOMAIN NoWalk.read = {}
      BY DEF NoWalk, Walks, Orders
    <3>2. table \in SUBSET Row
      BY <1>2 DEF TableTyped
    <3> QED
      BY <3>1, <3>2 DEF Walks
  <2>3. walk' = ReadPage(w)
    BY <2>1
  <2> HIDE DEF w
  <2>4. InOrder(w)
    BY <2>2 DEF InOrder
  <2> QED
    BY <1>2, <1>3, <2>2, <2>3, <2>4 DEF Paged
<1>5. CASE walk.at = "reading" /\ walk' = ReadPage(walk)
  BY <1>2, <1>3, <1>5 DEF Paged, WalkIsStable
<1>6. CASE walk' = NoWalk
  <2>1. /\ walk' \in Walks /\ walk'.there = {} /\ walk'.read = <<>> /\ walk'.at = "idle"
        /\ DOMAIN walk'.read = {}
    BY <1>6 DEF NoWalk, Walks, Orders
  <2> QED
    BY <1>2, <2>1 DEF Paged, WalkIsStable, InOrder
<1> QED
  BY <1>4, <1>5, <1>6 DEF NextPage

LEMMA OtherStepsPage == Paged /\ UNCHANGED <<rows, walk>> => Paged'
  BY DEF Paged, TableTyped, WalkIsStable, InOrder, GoesOn, Read, rows

LEMMA SpecPaged == Spec => []Paged
<1>1. ASSUME Honest, Paged, [Next]_vars PROVE Paged'
  <2>1. CASE WriterPersists
    BY <1>1, <2>1, WriterPersistsPages
  <2>2. CASE WriterPrunes
    BY <1>1, <2>2, WriterPrunesPages
  <2>3. CASE BeginWalk \/ NextPage
    BY <1>1, <2>3, ReaderPages
  <2>4. CASE UNCHANGED <<rows, walk>>
    BY <1>1, <2>4, OtherStepsPage
  <2> QED
    BY <1>1, <2>1, <2>2, <2>3, <2>4
       DEF Next, Writer, Record, Put, Tick, WriterTests, WriterTakes, WriterAcknowledges,
           Close, FlushEnds, JoinEnds, vars, rows
<1> QED
  BY <1>1, InitPaged, SpecHonest, PTL DEF Spec

\* Walking the pages by cursor gives every row at most once, in order, and misses none
\* that was there throughout, however the writer inserts and prunes between the pages:
\* for every size of a page, every number of rows, and either order.
THEOREM PagesStayStable == Spec => []PagesAreStable
<1>1. Paged => PagesAreStable
  BY DEF Paged, WalkIsStable, InOrder, Read, PagesAreStable
<1> QED
  BY <1>1, SpecPaged, PTL
===============================================================================
