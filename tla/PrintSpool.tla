------------------------------ MODULE PrintSpool ------------------------------
(***************************************************************************)
(* The receipts of panel events and their way to the printer: printer.py   *)
(* and the SQLite spool of printer_store.py.  A job is submitted by an     *)
(* HTTP POST whose outcome may stay unknown; the process may be shut down, *)
(* die or be started again at any await.                                   *)
(*                                                                         *)
(* Every statement that changes the spool is committed before the next     *)
(* await (create is, by set_payload), so the spool is what a restart finds.*)
(***************************************************************************)
EXTENDS Naturals, FiniteSets

CONSTANTS
    QueueMax,   \* printer.queue_max, which also bounds the finished rows
    MaxJobs,    \* bound of the model: receipts ever queued
    MaxStarts   \* bound of the model: times the process is started

ASSUME BoundsAssumption == /\ QueueMax \in Nat \ {0}
                           /\ MaxJobs \in Nat \ {0} /\ MaxStarts \in Nat \ {0}

VARIABLES
    running,      \* the process runs
    spool,        \* status of each job's row; "absent" if there is none
    created,      \* the last id given out (AUTOINCREMENT)
    worker,       \* where the printer's task awaits
    job,          \* the job it delivers
    starts,       \* history: times the process was started
    outcome,      \* history: what was recorded of each job
    submitted,    \* history: how often each job was written to the printer
    interrupted   \* history: how often a submission ended without a record

process == <<running, starts>>
task    == <<worker, job>>
rows    == <<spool, created>>
history == <<outcome, submitted, interrupted>>
vars    == <<process, task, rows, history>>

-----------------------------------------------------------------------------
Jobs     == 1 .. MaxJobs
Outcomes == {"complete", "failed", "uncertain"}

Pending     == {j \in Jobs : spool[j] = "pending"}
Finished(s) == {j \in Jobs : s[j] \in Outcomes}

\* prune_terminal: of the finished rows the newest QueueMax are kept.
PruneNothing(s) == s
Prune(s) == [j \in Jobs |->
               IF j \in Finished(s) /\ Cardinality({i \in Finished(s) : i >= j}) > QueueMax
               THEN "absent" ELSE s[j]]

\* mark_complete, mark_failed and mark_uncertain, each followed by the pruning.
Record(j, result) ==
    /\ spool' = Prune([spool EXCEPT ![j] = result])
    /\ outcome' = [outcome EXCEPT ![j] = result]
    /\ UNCHANGED <<created, submitted, interrupted>>

-----------------------------------------------------------------------------
\* enqueue_event.  The job under way counts; a full spool refuses the receipt,
\* and so does a printer whose task has ended and closed the spool.
Enqueue ==
    /\ running /\ worker # "ended" /\ created < MaxJobs
    /\ Cardinality(Pending) < QueueMax
    /\ created' = created + 1
    /\ spool' = [spool EXCEPT ![created + 1] = "pending"]
    /\ UNCHANGED <<process, task, history>>

\* next_pending: the oldest.
Newest == CHOOSE j \in Pending : \A i \in Pending : i <= j
Oldest == CHOOSE j \in Pending : \A i \in Pending : j <= i

TakeRemoves ==
    /\ running /\ worker = "idle" /\ Pending # {}
    /\ worker' = "connecting" /\ job' = Oldest
    /\ spool' = [spool EXCEPT ![Oldest] = "absent"]
    /\ UNCHANGED <<process, created, history>>
Take ==
    /\ running /\ worker = "idle" /\ Pending # {}
    /\ worker' = "connecting" /\ job' = Oldest
    /\ UNCHANGED <<process, rows, history>>

\* _safe_retry: nothing was sent, the job stays pending.
ConnectFails ==
    /\ worker = "connecting"
    /\ worker' = "retry"
    /\ UNCHANGED <<process, job, rows, history>>

RetryOnNextReceipt ==
    /\ worker = "retry" /\ Pending # {job}
    /\ worker' = "idle"
    /\ UNCHANGED <<process, job, rows, history>>
Retry ==
    /\ worker = "retry"
    /\ worker' = "idle"
    /\ UNCHANGED <<process, job, rows, history>>

\* The connection stands and the request is written at once.
Submit ==
    /\ worker = "connecting"
    /\ worker' = "submitted"
    /\ submitted' = [submitted EXCEPT ![job] = @ + 1]
    /\ UNCHANGED <<process, job, rows, outcome, interrupted>>

\* 204 completes the job, 4xx fails it, any other status, a timeout, a lost
\* connection or an unreadable answer leaves its outcome uncertain.
RespondedOrRetried ==
    /\ worker = "submitted"
    /\ worker' = "idle"
    /\ \/ \E result \in {"complete", "failed"} : Record(job, result)
       \/ UNCHANGED <<rows, history>>
    /\ UNCHANGED <<process, job>>
Responded ==
    /\ worker = "submitted"
    /\ worker' = "idle"
    /\ \E result \in Outcomes : Record(job, result)
    /\ UNCHANGED <<process, job>>

Interrupted == [interrupted EXCEPT ![job] = @ + 1]

\* An error that _deliver does not expect (an endless header line is one) ends
\* the task, which closes the spool and is not started again.
TaskFails ==
    /\ worker = "submitted"
    /\ worker' = "ended"
    /\ interrupted' = Interrupted
    /\ UNCHANGED <<process, job, rows, outcome, submitted>>

-----------------------------------------------------------------------------
\* A shutdown cancels the task: what was submitted is recorded as uncertain.
ShutdownForgets ==
    /\ running
    /\ running' = FALSE /\ worker' = "ended"
    /\ UNCHANGED <<starts, job, rows, history>>
Shutdown ==
    /\ running
    /\ running' = FALSE /\ worker' = "ended"
    /\ IF worker = "submitted" THEN Record(job, "uncertain") ELSE UNCHANGED <<rows, history>>
    /\ UNCHANGED <<starts, job>>

\* The process is killed, or the power fails.
Crash ==
    /\ running
    /\ running' = FALSE /\ worker' = "ended"
    /\ interrupted' = IF worker = "submitted" THEN Interrupted ELSE interrupted
    /\ UNCHANGED <<starts, job, rows, outcome, submitted>>

\* The spool is opened and pruned; what is pending will be delivered.
Start ==
    /\ ~running /\ starts < MaxStarts
    /\ running' = TRUE /\ starts' = starts + 1
    /\ worker' = "idle"
    /\ spool' = Prune(spool)
    /\ UNCHANGED <<job, created, history>>

-----------------------------------------------------------------------------
Init ==
    /\ running = FALSE /\ starts = 0
    /\ worker = "ended" /\ job = 1
    /\ spool = [j \in Jobs |-> "absent"] /\ created = 0
    /\ outcome = [j \in Jobs |-> "none"]
    /\ submitted = [j \in Jobs |-> 0] /\ interrupted = [j \in Jobs |-> 0]

Deliver == Take \/ ConnectFails \/ Retry \/ Submit \/ Responded \/ TaskFails

Next == Enqueue \/ Deliver \/ Shutdown \/ Crash \/ Start

Spec == Init /\ [][Next]_vars

\* The task goes on while it runs, every await of it having a timeout; of the
\* printer it is assumed that not every connection fails for ever.
FairSpec == Spec /\ WF_vars(Take \/ Retry)
                 /\ WF_vars(ConnectFails \/ Submit)
                 /\ WF_vars(Responded \/ TaskFails)
                 /\ SF_vars(Submit)

-----------------------------------------------------------------------------
\* The values the variables range over.
TypeOK ==
    /\ running \in BOOLEAN
    /\ spool \in [Jobs -> Outcomes \cup {"absent", "pending"}]
    /\ created \in 0 .. MaxJobs /\ starts \in 0 .. MaxStarts
    /\ worker \in {"idle", "connecting", "retry", "submitted", "ended"}
    /\ job \in Jobs
    /\ outcome \in [Jobs -> Outcomes \cup {"none"}]
    /\ submitted \in [Jobs -> Nat] /\ interrupted \in [Jobs -> Nat]

\* No receipt is lost: what was queued stays pending in the spool until its
\* outcome is recorded, across shutdowns, crashes and prunings.
NothingLost == \A j \in 1 .. created : outcome[j] = "none" <=> spool[j] = "pending"

\* A receipt is sent again only if the record of an earlier submission was made
\* impossible: not after a timeout, a lost answer or an orderly shutdown.
ResentOnlyIfInterrupted == \A j \in Jobs : submitted[j] <= 1 + interrupted[j]

\* The spool is bounded: pending work by refusing, finished rows by pruning.
SpoolIsBounded == /\ Cardinality(Pending) <= QueueMax
                  /\ Cardinality(Finished(spool)) <= QueueMax

\* Receipts come out in the order of their events: none is sent while an earlier
\* one has no outcome, however often connections fail or the process restarts.
InOrder ==
    [][\A j \in Jobs : submitted'[j] > submitted[j]
          => \A i \in 1 .. j - 1 : outcome[i] # "none"]_vars

\* A pending receipt gets its outcome, unless the printer's task ends first.
EveryReceiptEnds == \A j \in Jobs : spool[j] = "pending" ~> spool[j] # "pending" \/ worker = "ended"
=============================================================================
