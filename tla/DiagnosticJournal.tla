--------------------------- MODULE DiagnosticJournal ---------------------------
(***************************************************************************)
(* The diagnostic journal, diagnostics.py: the threads that record, the    *)
(* queue, the writer thread with its batches and its retention, the close  *)
(* that flushes and joins it, and a reader that walks the journal by       *)
(* cursor pages meanwhile.                                                 *)
(*                                                                         *)
(* A record is a number.  Taxonomy, redaction, filters and the contents of *)
(* a row are left out; a time is a tick of the clock, and the records of   *)
(* one tick share it.  SQLite may refuse an insert or a pruning.           *)
(***************************************************************************)
EXTENDS Naturals, FiniteSets, Sequences

CONSTANTS
    Threads,     \* the threads that record
    Capacity,    \* WRITE_QUEUE_MAX
    WriteBatch,  \* WRITE_BATCH_MAX
    MaxRows,     \* max_rows
    MaxAge,      \* max_age_days
    PruneBatch,  \* batch_size of prune
    PageLimit,   \* limit of query_page
    MaxOld,      \* bound of the model: rows an earlier run left; more than MaxRows when the
                 \* constructor's prune failed or stopped at its batch
    MaxRecords,  \* bound of the model: records made
    MaxClock     \* bound of the model: ticks of the clock

ASSUME JournalAssumption ==
    /\ Threads # {}
    /\ Capacity \in Nat \ {0} /\ WriteBatch \in Nat \ {0}
    /\ MaxRows \in Nat \ {0} /\ MaxAge \in Nat \ {0}
    /\ PruneBatch \in Nat \ {0} /\ PageLimit \in Nat \ {0}
    /\ MaxOld \in Nat
    /\ MaxRecords \in Nat \ {0} /\ MaxClock \in Nat \ {0}

VARIABLES
    clock,       \* the time
    made,        \* records begun so far
    hand,        \* per thread: the record it is about to put, or Nothing
    queue,       \* _write_queue
    unfinished,  \* its unfinished_tasks
    available,   \* the database could be opened
    stop,        \* _writer_stop
    writer,      \* where the writer thread is
    batch,       \* the records it took
    table,       \* the committed rows
    created,     \* the last id given out (AUTOINCREMENT)
    closer,      \* where close is, and what it returned
    walk,        \* a reader's walk over the pages
    accepted,    \* history: records whose id was returned to the caller
    stored,      \* history: records ever inserted
    failed,      \* history: records counted in write_errors
    promised     \* history: accepted when the flush of close returned TRUE

recorders == <<clock, made, hand>>
pipe      == <<queue, unfinished>>
thread    == <<writer, batch>>
rows      == <<table, created>>
ending    == <<stop, closer, promised>>
history   == <<accepted, stored, failed>>
vars      == <<recorders, pipe, available, thread, rows, ending, walk, history>>

-----------------------------------------------------------------------------
Nothing == [rec |-> 0, at |-> 0]
Settled == stored \cup failed

\* record up to its test of the stop flag: the time is taken first.  A record
\* after the stop, or without a database, is refused and leaves nothing.
Record(t) ==
    /\ hand[t] = Nothing /\ made < MaxRecords
    /\ made' = made + 1
    /\ hand' = [hand EXCEPT ![t] = IF available /\ ~stop
                                   THEN [rec |-> made + 1, at |-> clock] ELSE Nothing]
    /\ UNCHANGED <<clock, pipe, available, thread, rows, ending, walk, history>>

\* Its put_nowait; other threads, close and the writer may have run between.
Put(t) ==
    /\ hand[t] # Nothing
    /\ hand' = [hand EXCEPT ![t] = Nothing]
    /\ \/ /\ Len(queue) < Capacity
          /\ queue' = Append(queue, hand[t]) /\ unfinished' = unfinished + 1
          /\ accepted' = accepted \cup {hand[t].rec}
       \/ Len(queue) = Capacity /\ UNCHANGED <<pipe, accepted>>   \* dropped_events
    /\ UNCHANGED <<clock, made, available, thread, rows, ending, walk, stored, failed>>

Tick == /\ clock < MaxClock /\ clock' = clock + 1
        /\ UNCHANGED <<made, hand, pipe, available, thread, rows, ending, walk, history>>

-----------------------------------------------------------------------------
(* The writer thread.                                                      *)

WriterIsDoneAtStop == stop
WriterIsDone == stop /\ queue = <<>>

WriterTests ==
    /\ writer = "test"
    /\ writer' = IF WriterIsDone THEN "ended" ELSE "get"
    /\ UNCHANGED <<recorders, pipe, available, batch, rows, ending, walk, history>>

WriterTakesForever ==
    /\ writer = "get" /\ queue # <<>> /\ writer' = "persist"
    /\ batch' = <<Head(queue)>> /\ queue' = Tail(queue)
    /\ UNCHANGED <<recorders, unfinished, available, rows, ending, walk, history>>

\* get with its timeout, then what get_nowait still finds.
WriterTakes ==
    /\ writer = "get"
    /\ \/ queue = <<>> /\ writer' = "test" /\ UNCHANGED <<queue, batch>>
       \/ /\ queue # <<>>
          /\ LET n == IF Len(queue) < WriteBatch THEN Len(queue) ELSE WriteBatch
             IN /\ batch' = SubSeq(queue, 1, n)
                /\ queue' = SubSeq(queue, n + 1, Len(queue))
          /\ writer' = "persist"
    /\ UNCHANGED <<recorders, unfinished, available, rows, ending, walk, history>>

RowsOf(b, last) == {[id |-> last + i, at |-> b[i].at] : i \in DOMAIN b}

\* The insert of _persist_batch, one transaction; a failure is counted.
WriterPersists ==
    /\ writer = "persist"
    /\ \/ /\ table' = table \cup RowsOf(batch, created)
          /\ created' = created + Len(batch)
          /\ stored' = stored \cup {batch[i].rec : i \in DOMAIN batch}
          /\ writer' = "prune" /\ UNCHANGED failed
       \/ /\ failed' = failed \cup {batch[i].rec : i \in DOMAIN batch}
          /\ writer' = "done" /\ UNCHANGED <<rows, stored>>
    /\ UNCHANGED <<recorders, pipe, available, batch, ending, walk, accepted>>

\* The n rows of s that were inserted first.
Oldest(s, n) == {r \in s : Cardinality({q \in s : q.id < r.id}) < n}

\* prune: what is too old, then what is too much, PruneBatch rows in all.
Expired(s)  == Oldest({r \in s : r.at + MaxAge < clock}, PruneBatch)
Excess(s)   == IF Cardinality(s) > MaxRows THEN Cardinality(s) - MaxRows ELSE 0
Pruned(s)   == LET kept   == s \ Expired(s)
                   budget == PruneBatch - Cardinality(Expired(s))
               IN kept \ Oldest(kept, IF Excess(kept) < budget THEN Excess(kept)
                                                               ELSE budget)

\* A walk keeps account of the rows that have been in the table all along.
WriterPrunes ==
    /\ writer = "prune" /\ writer' = "done"
    /\ \/ table' = Pruned(table)
       \/ UNCHANGED table                                \* SQLite's error is logged
    /\ walk' = [walk EXCEPT !.there = @ \cap table']
    /\ UNCHANGED <<recorders, pipe, available, batch, created, ending, history>>

WriterAcknowledges ==
    /\ writer = "done" /\ writer' = "test"
    /\ unfinished' = unfinished - Len(batch) /\ batch' = <<>>
    /\ UNCHANGED <<recorders, queue, available, rows, ending, walk, history>>

Writer == WriterTests \/ WriterTakes \/ WriterPersists \/ WriterPrunes \/ WriterAcknowledges

-----------------------------------------------------------------------------
(* close: the stop flag, a flush with a deadline, a join with another.     *)

FlushesWhenQueueIsEmpty == queue = <<>>
Flushed == unfinished = 0

Close ==
    /\ closer = "open"
    /\ stop' = TRUE /\ closer' = IF available THEN "flushing" ELSE "late"
    /\ UNCHANGED <<recorders, pipe, available, thread, rows, promised, walk, history>>

FlushEnds ==
    /\ closer = "flushing"
    /\ \/ Flushed /\ closer' = "joining" /\ promised' = accepted
       \/ ~Flushed /\ closer' = "joining_late" /\ UNCHANGED promised
    /\ UNCHANGED <<recorders, pipe, available, thread, rows, stop, walk, history>>

\* The join returns when the thread has ended or at its deadline; close
\* answers TRUE only if it was flushed and the thread is not alive.
JoinEnds ==
    /\ closer \in {"joining", "joining_late"}
    /\ closer' = IF closer = "joining" /\ writer = "ended" THEN "clean" ELSE "late"
    /\ UNCHANGED <<recorders, pipe, available, thread, rows, stop, promised, walk, history>>

-----------------------------------------------------------------------------
(* query_page, called with the cursor of the page before until there is    *)
(* none.                                                                   *)

Orders == {"newest", "oldest"}
NoRow  == [id |-> 0, at |-> 0]
NoWalk == [at |-> "idle", order |-> "newest", last |-> NoRow, read |-> <<>>, there |-> {}]

\* ORDER BY occurred_at, id in the direction of the walk.
Before(r, q, order) ==
    LET Less(x, y) == x.at < y.at \/ (x.at = y.at /\ x.id < y.id)
    IN IF order = "oldest" THEN Less(r, q) ELSE Less(q, r)

\* The cursor's clause.
RestByTime(w) == {r \in table : w.last # NoRow =>
                     IF w.order = "oldest" THEN w.last.at < r.at ELSE r.at < w.last.at}
Rest(w) == {r \in table : w.last # NoRow => Before(w.last, r, w.order)}

\* LIMIT PageLimit + 1: one row more than a page has says whether there is a next one.
\* The row at place k of a page has k - 1 rows of the rest before it.
Place(r, w) == Cardinality({q \in Rest(w) : Before(q, r, w.order)})
ReadPage(w) ==
    LET more == Cardinality(Rest(w)) > PageLimit
        size == IF more THEN PageLimit ELSE Cardinality(Rest(w))
        page == [k \in 1 .. size |-> CHOOSE r \in Rest(w) : Place(r, w) = k - 1]
    IN [w EXCEPT !.at   = IF more THEN "reading" ELSE "complete",
                 !.last = IF more THEN page[size] ELSE NoRow,
                 !.read = w.read \o page]

BeginWalk == \E order \in Orders :
    /\ available /\ walk.at = "idle"
    /\ walk' = ReadPage([NoWalk EXCEPT !.order = order, !.there = table])
    /\ UNCHANGED <<recorders, pipe, available, thread, rows, ending, history>>

NextPage ==
    /\ walk.at = "reading"
    /\ \/ walk' = ReadPage(walk)
       \/ walk' = NoWalk        \* an error answers an empty page without a cursor
    /\ UNCHANGED <<recorders, pipe, available, thread, rows, ending, history>>

-----------------------------------------------------------------------------
\* An earlier run may have left rows.  The constructor prunes one batch of them, and may
\* fail to, so that any number may still be there.
Init ==
    /\ clock = 1 /\ made = 0 /\ hand = [t \in Threads |-> Nothing]
    /\ queue = <<>> /\ unfinished = 0 /\ available \in BOOLEAN
    /\ stop = FALSE /\ batch = <<>> /\ writer = IF available THEN "test" ELSE "ended"
    /\ created \in 0 .. MaxOld
    /\ table = {[id |-> i, at |-> 1] : i \in 1 .. created}
    /\ closer = "open" /\ walk = NoWalk /\ promised = {}
    /\ accepted = {} /\ stored = {} /\ failed = {}

Next == \/ \E t \in Threads : Record(t) \/ Put(t)
        \/ Tick \/ Writer
        \/ Close \/ FlushEnds \/ JoinEnds
        \/ BeginWalk \/ NextPage

\* The writer is a thread of its own whose waits are bounded.
Spec == Init /\ [][Next]_vars /\ WF_vars(Writer)

-----------------------------------------------------------------------------
Entry == [rec : 1 .. MaxRecords, at : 1 .. MaxClock]
Row   == [id : Nat, at : 1 .. MaxClock]

TypeOK ==
    /\ clock \in 1 .. MaxClock /\ made \in 0 .. MaxRecords
    /\ hand \in [Threads -> Entry \cup {Nothing}]
    /\ queue \in Seq(Entry) /\ Len(queue) <= Capacity
    /\ unfinished \in Nat /\ available \in BOOLEAN /\ stop \in BOOLEAN
    /\ writer \in {"test", "get", "persist", "prune", "done", "ended"}
    /\ batch \in Seq(Entry) /\ Len(batch) <= WriteBatch
    /\ table \subseteq Row /\ created \in Nat
    /\ closer \in {"open", "flushing", "joining", "joining_late", "clean", "late"}
    /\ walk.at \in {"idle", "reading", "complete"}
    /\ walk.order \in Orders /\ walk.there \subseteq Row /\ walk.read \in Seq(Row)
    /\ accepted \subseteq 1 .. MaxRecords /\ stored \subseteq 1 .. MaxRecords
    /\ failed \subseteq 1 .. MaxRecords /\ promised \subseteq 1 .. MaxRecords

\* A flush that returns says the truth (flush's "wait for already-queued
\* diagnostic writes to reach SQLite"): when nothing is unfinished every
\* record whose caller got an id was inserted or counted as an error, those
\* the writer holds in its batch included; and a close that answers TRUE
\* leaves no writer behind and nothing unsettled of what it had flushed.
FlushIsHonest ==
    /\ Flushed => accepted \subseteq Settled
    /\ closer = "clean" => writer = "ended" /\ promised \subseteq Settled

\* Walking the pages by cursor while the writer inserts rows that may be
\* older than the cursor and prunes rows on either side of it gives every
\* row at most once, in order, and misses none that was there throughout
\* (test_cursor_pages_are_stable_and_do_not_duplicate_rows).
PagesAreStable ==
    /\ \A i, j \in DOMAIN walk.read :
          i < j => Before(walk.read[i], walk.read[j], walk.order)
    /\ walk.at = "complete" =>
          walk.there \subseteq {walk.read[i] : i \in DOMAIN walk.read}

\* A writer that ends leaves nothing behind: what was accepted until then
\* reached the database or was counted, also what was put after the stop flag
\* was set by a thread that had passed its test of it.
WriterLeavesNothing ==
    [][writer # "ended" /\ writer' = "ended" => accepted \subseteq Settled]_vars

\* After close the writer ends, however many records were still in a hand.
WriterEnds == stop ~> (writer = "ended")
===============================================================================
