---------------------------- MODULE PanelSession ----------------------------
(***************************************************************************)
(* One TCP session after another with the alarm panel, and the tasks that  *)
(* share it: bridge.py (_connection_loop, _start_session, _stop_session,   *)
(* the read and write loops), synchronizer.py (the transaction lock, the   *)
(* pending transaction, timeouts and tainting, the startup, resync,        *)
(* periodic and keypad loops) and the worker of control.py as one more     *)
(* user of the lock.                                                       *)
(*                                                                         *)
(* A step is what an asyncio task does between two awaits.  The panel only *)
(* answers: each answer carries the task whose transaction caused it,      *)
(* which no real packet does, so that a property can tell an answer from   *)
(* the answer to something else.  What a query does to the freshness of    *)
(* the snapshot is the business of module SnapshotFreshness.               *)
(***************************************************************************)
EXTENDS Naturals, Sequences

CONSTANTS
    SessionTasks,    \* the loops the settings enable; resync always runs
    StartupQueries,  \* the queries of a full snapshot, in order
    Requests,        \* the shapes of control request that may be enqueued
    Unsolicited,     \* the packets the panel may send of its own accord
    TxCapacity,      \* bound of the transmit queue
    RxCapacity,      \* bound of the model: answers under way to the bridge
    ReconnectAfter   \* sync.reconnect_after_failures

Loops    == {"startup", "resync", "periodic", "keypad"}
Tasks    == SessionTasks \cup {"control"}
NoTask   == "none"
SyncKinds == {"arming_status", "zone_status", "zone_partition", "zone_descriptor"}
Kinds    == SyncKinds \cup {"keypad_display", "control"}
Packets  == Kinds \cup {"ready"}
Ops      == {"sync", "keypad", "external"}

ASSUME TasksAssumption    == /\ SessionTasks \subseteq Loops
                             /\ "resync" \in SessionTasks
ASSUME QueriesAssumption  == StartupQueries \in Seq(SyncKinds) \ {<<>>}
ASSUME RequestsAssumption ==
    Requests \subseteq [frames : Nat \ {0}, verify : BOOLEAN, recheck : BOOLEAN]
ASSUME PacketsAssumption  ==
    Unsolicited \subseteq {"XF", "XN", "AD", "BD", "power_up", "invalid"}
ASSUME BoundsAssumption   == /\ TxCapacity \in Nat \ {0}
                             /\ RxCapacity \in Nat \ {0, 1}
                             /\ ReconnectAfter \in Nat \ {0}

VARIABLES
    phase,        \* where _connection_loop is
    socket,       \* the writer: "open" or "closed" (by the peer or by us)
    owner,        \* the task holding synchronizer.lock
    waiters,      \* the tasks queued on it, first come first served
    pending,      \* the task whose transaction is _pending_transaction
    active,       \* _active, which the raw transmit path consults
    tainted,      \* _session_tainted
    txn,          \* each task's latest PendingTransaction object
    pc,           \* where each task awaits
    job,          \* what it does under the lock, and the queries left
    txq,          \* _tx_queue: frames not yet written
    rx,           \* packets from the panel not yet handled
    startupDone,  \* _startup_complete
    resyncReq,    \* _resync_requested
    recovery,     \* _recovery_resync_pending
    program,      \* _program_mode
    failures,     \* failures_consecutive, saturating at ReconnectAfter
    automation,   \* automation availability and its source
    cmd           \* the control request waiting or being processed

link    == <<phase, socket>>
lock    == <<owner, waiters>>
sync    == <<pending, active, tainted, txn>>
tasks   == <<pc, job>>
wire    == <<txq, rx>>
modes   == <<startupDone, resyncReq, recovery, program, failures>>
control == <<automation, cmd>>
vars    == <<link, lock, sync, tasks, wire, modes, control>>

-----------------------------------------------------------------------------
Connected   == phase = "running"
Available   == automation \in {"inferred", "explicit"}
NoCommand   == [held |-> FALSE, current |-> FALSE,
                frames |-> 1, verify |-> FALSE, recheck |-> FALSE]
NoJob       == [op |-> "sync", left |-> <<>>]
NoTxn       == [kind |-> "control", current |-> FALSE, seen |-> FALSE, ready |-> FALSE]

\* The packets the panel returns for a query, in order.  A descriptor dump
\* ends with its own terminator, a control frame gets the acknowledgement only.
Answer(kind) == CASE kind = "zone_descriptor" -> <<kind>>
                  [] kind = "control"         -> <<"ready">>
                  [] OTHER                    -> <<kind, "ready">>

\* 08OK counts only after the response the transaction expects.
Expects(kind) == kind \in Kinds \ {"zone_descriptor", "control"}

\* What the task awaits: the terminator for descriptors, else 08OK.
EventSet(t) == IF txn[t].kind = "zone_descriptor" THEN txn[t].seen ELSE txn[t].ready

\* Packets of an earlier transaction of t belong to nobody any more.
Orphan(s, t) == [i \in DOMAIN s |-> IF s[i].for = t THEN [s[i] EXCEPT !.for = NoTask]
                                                    ELSE s[i]]

\* A transaction object is dropped with the call that began it; what is kept is
\* whether the frame it may have left in the queue is of this session.
Dropped(t) == [txn EXCEPT ![t] = [NoTxn EXCEPT !.current = txn[t].current]]

\* asyncio.Lock drops a cancelled waiter from its queue (t is in s once).
WithoutNothing(s, t) == s
Without(s, t) == [i \in 1 .. Len(s) - 1 |->
                    IF \A j \in 1 .. i : s[j] # t THEN s[i] ELSE s[i + 1]]

-----------------------------------------------------------------------------
(***************************************************************************)
(* What a task does once it holds the lock, up to its next await.          *)
(***************************************************************************)
Entering(t)    == pc[t] \notin {"wait", "pause"}
WaitersLeft(t) == IF pc[t] = "queued" THEN Tail(waiters) ELSE waiters

\* resync_loop clears _resync_requested just before it calls run_sync.
RequestLeftSet(t) == resyncReq
RequestLeft(t) == resyncReq /\ ~(t = "resync" /\ pc[t] = "idle")

\* run_sync, run_keypad_refresh and _send_external_transaction test the
\* session, each in its order, before they begin a transaction and send.
Verdict(t, op) ==
    IF ~Connected THEN "offline"
    ELSE IF op = "external" /\ Entering(t) /\ ~(cmd.current /\ (cmd.recheck => Available))
         THEN "refused"
    ELSE IF tainted \/ pending \notin {NoTask, t}
         THEN (IF op = "sync" THEN "raised" ELSE "refused")
    ELSE IF Len(txq) >= TxCapacity THEN "unsent"
    ELSE "go"

Succeeded(outcome) == outcome \in {"ok", "optional"}
TimedOutNever(outcome) == FALSE
TimedOut(outcome)  == outcome \in {"timeout", "optional"}

\* failures_consecutive after run_sync; keypad and control frames do not count.
FailuresAfter(op, outcome) ==
    IF op # "sync" \/ outcome \in {"offline", "raised"} THEN failures
    ELSE IF Succeeded(outcome) THEN 0
    ELSE IF failures < ReconnectAfter THEN failures + 1 ELSE failures

\* startup, resync_loop and periodic_loop close the writer when their sync failed.
GivesUp(t, op, outcome) ==
    /\ op = "sync" /\ ~Succeeded(outcome) /\ outcome # "raised"
    /\ \/ t \in {"startup", "resync"}
       \/ t = "periodic" /\ FailuresAfter(op, outcome) >= ReconnectAfter

\* _force_reconnect closes the writer, if there is one.
ForcesReconnectNotOnTaint(t, op, outcome) == GivesUp(t, op, outcome)
ForcesReconnect(t, op, outcome) ==
    \/ TimedOut(outcome) /\ ~tainted /\ phase # "connecting"
    \/ GivesUp(t, op, outcome)

\* Where the task awaits next, once it has released the lock.
Resumes(t, op, outcome) ==
    CASE t = "startup"  -> "off"
      [] t = "resync"   -> IF Succeeded(outcome) THEN "idle" ELSE "off"
      [] t = "periodic" ->
            IF outcome = "raised" \/ GivesUp(t, op, outcome) THEN "off"
            ELSE IF /\ op = "sync" /\ Succeeded(outcome)
                    /\ "keypad" \in SessionTasks /\ ~program
                 THEN "refresh" ELSE "idle"
      [] t = "keypad"   -> "idle"
      [] t = "control"  ->
            IF outcome = "raised" THEN "dead"
            ELSE IF op = "external" /\ outcome = "ok" /\ cmd.verify /\ cmd.current
                 THEN "verify" ELSE "idle"

\* The finally clauses, the release of the lock, and the caller's reaction.
Leave(t, op, outcome) ==
    LET next  == Resumes(t, op, outcome)
        serve == t = "startup" /\ Succeeded(outcome) /\ recovery /\ ~program
    IN /\ owner' = NoTask
       /\ waiters' = WaitersLeft(t)
       /\ pending' = IF op = "keypad" /\ pending # t THEN pending ELSE NoTask
       /\ active' = FALSE
       /\ tainted' = (tainted \/ TimedOut(outcome))
       /\ socket' = IF ForcesReconnect(t, op, outcome) THEN "closed" ELSE socket
       /\ failures' = FailuresAfter(op, outcome)
       /\ startupDone' = IF t = "startup" /\ outcome # "raised"
                         THEN Succeeded(outcome) ELSE startupDone
       /\ resyncReq' = (RequestLeft(t) \/ serve)
       /\ recovery' = (recovery /\ ~serve)
       /\ pc' = [pc EXCEPT ![t] = next]
       /\ job' = [job EXCEPT ![t] = NoJob]
       /\ cmd' = IF t = "control" /\ next # "verify" THEN NoCommand ELSE cmd
       /\ txn' = Dropped(t)
       /\ UNCHANGED <<phase, wire, program, automation>>

\* _begin_transaction followed by send_query: the task then awaits the panel.
Begin(t, op, left) ==
    LET kind == Head(left)
    IN /\ owner' = t
       /\ waiters' = WaitersLeft(t)
       /\ pending' = t
       /\ active' = TRUE
       /\ txn' = [txn EXCEPT ![t] = [kind |-> kind, current |-> TRUE,
                                     seen |-> FALSE, ready |-> FALSE]]
       /\ txq' = Append(Orphan(txq, t), [kind |-> kind, for |-> t])
       /\ rx' = Orphan(rx, t)
       /\ pc' = [pc EXCEPT ![t] = "wait"]
       /\ job' = [job EXCEPT ![t] = [op |-> op, left |-> left]]
       /\ resyncReq' = RequestLeft(t)
       /\ UNCHANGED <<link, tainted, startupDone, recovery, program, failures, control>>

Proceed(t, op, left) ==
    IF Verdict(t, op) = "go" THEN Begin(t, op, left)
                             ELSE Leave(t, op, Verdict(t, op))

\* async with self.lock: at once if it is free and nobody queues for it.
Enter(t, op, left) ==
    IF owner = NoTask /\ waiters = <<>>
    THEN Proceed(t, op, left)
    ELSE /\ waiters' = Append(waiters, t)
         /\ pc' = [pc EXCEPT ![t] = "queued"]
         /\ job' = [job EXCEPT ![t] = [op |-> op, left |-> left]]
         /\ resyncReq' = RequestLeft(t)
         /\ UNCHANGED <<link, owner, sync, wire, startupDone, recovery, program,
                        failures, control>>

-----------------------------------------------------------------------------
(***************************************************************************)
(* The tasks.                                                              *)
(***************************************************************************)
Startup ==
    /\ "startup" \in Tasks /\ pc["startup"] = "idle" /\ Connected
    /\ Enter("startup", "sync", StartupQueries)

Resync ==
    /\ pc["resync"] = "idle" /\ Connected /\ resyncReq
    /\ Enter("resync", "sync", StartupQueries)

\* Program mode makes the periodic and the keypad loop skip their turn.
Periodic ==
    /\ "periodic" \in Tasks /\ pc["periodic"] = "idle" /\ Connected /\ ~program
    /\ Enter("periodic", "sync", <<"arming_status">>)

\* The keypads are refreshed once the periodic arming query has succeeded.  The
\* code goes on without an await: a step of its own only adds interleavings.
PeriodicRefresh ==
    /\ "periodic" \in Tasks /\ pc["periodic"] = "refresh" /\ Connected
    /\ Enter("periodic", "keypad", <<"keypad_display">>)

Keypad ==
    /\ "keypad" \in Tasks /\ pc["keypad"] = "idle" /\ Connected /\ ~program
    /\ Enter("keypad", "keypad", <<"keypad_display">>)

\* A request of module ControlQueue, the only one in the queue.
EnqueueControl ==
    /\ Connected /\ Available /\ ~cmd.held
    /\ \E r \in Requests :
          cmd' = [held |-> TRUE, current |-> TRUE, frames |-> r.frames,
                  verify |-> r.verify, recheck |-> r.recheck]
    /\ UNCHANGED <<link, lock, sync, tasks, wire, modes, automation>>

\* _process: one transaction per frame, all under one hold of the lock.
Control ==
    /\ pc["control"] = "idle" /\ cmd.held
    /\ Enter("control", "external", [i \in 1 .. cmd.frames |-> "control"])

\* The request waited more than 4.5 seconds in the queue.
ControlExpired ==
    /\ pc["control"] = "idle" /\ cmd.held
    /\ cmd' = NoCommand
    /\ UNCHANGED <<link, lock, sync, tasks, wire, modes, automation>>

\* _verify_arming after its delay, in the session of the request only.
Verify ==
    /\ pc["control"] = "verify" /\ cmd.current
    /\ Enter("control", "sync", <<"arming_status">>)

VerifyTooLate ==
    /\ pc["control"] = "verify" /\ ~cmd.current
    /\ pc' = [pc EXCEPT !["control"] = "idle"]
    /\ cmd' = NoCommand
    /\ UNCHANGED <<link, lock, sync, job, wire, modes, automation>>

\* _stop_session cancels the session's tasks in the step that resets the state:
\* from then on only their finally clauses run.
Alive(t) == t = "control" \/ Connected

\* The lock is handed to the task that has waited longest.
Granted(t) ==
    /\ Alive(t) /\ pc[t] = "queued" /\ owner = NoTask
    /\ waiters # <<>> /\ Head(waiters) = t
    /\ Proceed(t, job[t].op, job[t].left)

\* The awaited event is set.  A sync query ends its transaction and a keypad
\* query keeps it through the pacing delay; control goes to its next frame.
Answered(t) ==
    /\ Alive(t) /\ pc[t] = "wait" /\ EventSet(t)
    /\ IF job[t].op = "external"
       THEN IF Len(job[t].left) > 1 THEN Proceed(t, "external", Tail(job[t].left))
                                    ELSE Leave(t, "external", "ok")
       ELSE /\ pc' = [pc EXCEPT ![t] = "pause"]
            /\ pending' = IF job[t].op = "sync" /\ pending = t THEN NoTask ELSE pending
            /\ UNCHANGED <<link, lock, active, tainted, txn, job, wire, modes, control>>

\* A timeout may fire in the very iteration that sets the event, and wins.
TimesOutNever(t) == FALSE
TimesOut(t) ==
    /\ Alive(t) /\ pc[t] = "wait"
    /\ Leave(t, job[t].op,
             IF txn[t].kind = "zone_descriptor" THEN "optional" ELSE "timeout")

\* After command_delay: the next query of the sync, or the end.
Paced(t) ==
    /\ Alive(t) /\ pc[t] = "pause"
    /\ IF Len(job[t].left) > 1 THEN Proceed(t, job[t].op, Tail(job[t].left))
                               ELSE Leave(t, job[t].op, "ok")

-----------------------------------------------------------------------------
(***************************************************************************)
(* The wire.                                                               *)
(***************************************************************************)

\* _write_loop sends a frame; the panel answers in full, in part or not at all.
Transmit ==
    /\ Connected /\ socket = "open" /\ txq # <<>>
    /\ \E n \in 0 .. Len(Answer(Head(txq).kind)) :
          LET reply == SubSeq(Answer(Head(txq).kind), 1, n)
          IN /\ Len(rx) + n <= RxCapacity
             /\ rx' = rx \o [i \in 1 .. n |-> [msg |-> reply[i], for |-> Head(txq).for]]
    /\ txq' = Tail(txq)
    /\ UNCHANGED <<link, lock, sync, tasks, modes, control>>

\* mark_ready accepts 08OK for the pending transaction, its response seen.
Acknowledges == /\ pending # NoTask
                /\ Expects(txn[pending].kind) => txn[pending].seen

ReceiveReady ==
    /\ rx # <<>> /\ Connected /\ Head(rx).msg = "ready"
    /\ rx' = Tail(rx)
    /\ txn' = IF Acknowledges THEN [txn EXCEPT ![pending].ready = TRUE] ELSE txn
    /\ automation' = IF Acknowledges /\ automation = "unknown" THEN "inferred"
                                                              ELSE automation
    /\ UNCHANGED <<link, lock, pending, active, tainted, tasks, txq, modes, cmd>>

\* mark_protocol_message, mark_descriptor_complete and accept_keypad_response.
ReceiveResponse ==
    /\ rx # <<>> /\ Connected /\ Head(rx).msg \in Kinds
    /\ rx' = Tail(rx)
    /\ txn' = IF pending # NoTask /\ txn[pending].kind = Head(rx).msg
              THEN [txn EXCEPT ![pending].seen = TRUE] ELSE txn
    /\ UNCHANGED <<link, lock, pending, active, tainted, tasks, txq, modes, control>>

\* set_program_mode(False) serves a recovery request parked by program mode.
LeavesProgramModeOnly(alsoResync) ==
    program' = FALSE /\ resyncReq' = (resyncReq \/ alsoResync) /\ UNCHANGED recovery
LeavesProgramModeNoResync(alsoResync) ==
    LET serve == recovery /\ startupDone
    IN /\ program' = FALSE
       /\ recovery' = (recovery /\ ~serve)
       /\ resyncReq' = (resyncReq \/ serve)
LeavesProgramMode(alsoResync) ==
    LET serve == recovery /\ startupDone
    IN /\ program' = FALSE
       /\ recovery' = (recovery /\ ~serve)
       /\ resyncReq' = (resyncReq \/ serve \/ alsoResync)

\* A packet the panel sends of its own accord.  It may overtake nothing and be
\* overtaken by nothing that matters here, so it is handled when it is sent.
Hears(m) == Connected /\ socket = "open" /\ m \in Unsolicited

\* 08XF: communication off.  It also completes a pending control transaction.
ReceiveXF ==
    /\ Hears("XF")
    /\ program' = TRUE
    /\ txn' = IF pending = "control" /\ txn["control"].kind = "control"
              THEN [txn EXCEPT !["control"].ready = TRUE] ELSE txn
    /\ automation' = "communication_off"
    /\ cmd' = IF pc["control"] = "idle" THEN NoCommand ELSE cmd
    /\ UNCHANGED <<link, lock, pending, active, tainted, tasks, wire,
                   startupDone, resyncReq, recovery, failures>>

\* 08XN: communication on.  The full resync waits for no startup: it is ignored.
ReceiveXN ==
    /\ Hears("XN")
    /\ LeavesProgramMode(startupDone)
    /\ automation' = "explicit"
    /\ UNCHANGED <<link, lock, sync, tasks, wire, startupDone, failures, cmd>>

\* System events: AD and BD bracket programming, 0E and 3E are a power-up.
ReceiveEvent ==
    /\ \/ Hears("AD") /\ program' = TRUE /\ UNCHANGED <<recovery, resyncReq>>
       \/ Hears("BD") /\ LeavesProgramMode(TRUE)
       \/ Hears("power_up") /\ resyncReq' = TRUE /\ UNCHANGED <<program, recovery>>
    /\ UNCHANGED <<link, lock, sync, tasks, wire, startupDone, failures, control>>

\* An invalid frame asks for a recovery resync, parked while the panel is busy.
ReceiveInvalid ==
    /\ Hears("invalid")
    /\ LET park == ~startupDone \/ program
       IN /\ recovery' = (recovery \/ (~tainted /\ park))
          /\ resyncReq' = (resyncReq \/ (~tainted /\ ~park))
    /\ UNCHANGED <<link, lock, sync, tasks, wire, startupDone, program, failures, control>>

-----------------------------------------------------------------------------
(***************************************************************************)
(* The session.                                                            *)
(***************************************************************************)

\* synchronizer.reset_connection_state and control.reset_session: the lock and
\* the transaction objects held by waiting tasks stay as they are.
ResetSessionKeepsPending ==
    /\ UNCHANGED pending
    /\ active' = FALSE
    /\ tainted' = FALSE
    /\ startupDone' = FALSE /\ resyncReq' = FALSE /\ recovery' = FALSE
    /\ program' = FALSE
    /\ txn' = [t \in Tasks |-> [txn[t] EXCEPT !.current = FALSE]]
    /\ automation' = "unknown"
    /\ cmd' = IF pc["control"] = "idle" THEN NoCommand ELSE [cmd EXCEPT !.current = FALSE]
ResetSession ==
    /\ pending' = NoTask
    /\ active' = FALSE
    /\ tainted' = FALSE
    /\ startupDone' = FALSE /\ resyncReq' = FALSE /\ recovery' = FALSE
    /\ program' = FALSE
    /\ txn' = [t \in Tasks |-> [txn[t] EXCEPT !.current = FALSE]]
    /\ automation' = "unknown"
    /\ cmd' = IF pc["control"] = "idle" THEN NoCommand ELSE [cmd EXCEPT !.current = FALSE]

\* Tasks that asyncio runs at once, long before the reconnect delay is over.
Runnable(t) == \/ pc[t] = "wait" /\ EventSet(t)
               \/ pc[t] = "queued" /\ owner = NoTask /\ Head(waiters) = t

Connect ==
    /\ phase = "connecting"
    /\ \A t \in Tasks : ~Runnable(t)
    /\ phase' = "running" /\ socket' = "open"
    /\ pc' = [t \in Tasks |-> IF t = "control" THEN pc[t] ELSE "idle"]
    /\ ResetSession
    /\ UNCHANGED <<lock, job, wire, failures>>

PeerCloses ==
    /\ Connected /\ socket = "open"
    /\ socket' = "closed"
    /\ UNCHANGED <<phase, lock, sync, tasks, wire, modes, control>>

\* The read loop meets the end of the stream; _stop_session up to its await.
SessionLost ==
    /\ Connected /\ socket = "closed"
    /\ phase' = "stopping"
    /\ rx' = <<>>
    /\ ResetSession
    /\ UNCHANGED <<socket, lock, tasks, txq, failures>>

\* A cancelled task runs its finally clauses and releases the lock.
Cancelled(t) ==
    /\ phase = "stopping" /\ t # "control" /\ pc[t] # "off"
    /\ IF owner = t
       THEN /\ owner' = NoTask /\ UNCHANGED waiters
            /\ pending' = NoTask /\ active' = FALSE
       ELSE /\ waiters' = IF pc[t] = "queued" THEN Without(waiters, t) ELSE waiters
            /\ UNCHANGED <<owner, pending, active>>
    /\ pc' = [pc EXCEPT ![t] = "off"]
    /\ job' = [job EXCEPT ![t] = NoJob]
    /\ txn' = Dropped(t)
    /\ UNCHANGED <<link, tainted, wire, modes, control>>

\* The rest of _stop_session: pending frames are discarded.
SessionStoppedKeepsFrames ==
    /\ phase = "stopping"
    /\ \A t \in SessionTasks : pc[t] = "off"
    /\ phase' = "connecting"
    /\ UNCHANGED <<socket, lock, sync, tasks, wire, modes, control>>
SessionStopped ==
    /\ phase = "stopping"
    /\ \A t \in SessionTasks : pc[t] = "off"
    /\ phase' = "connecting"
    /\ txq' = <<>>
    /\ UNCHANGED <<socket, lock, sync, tasks, rx, modes, control>>

-----------------------------------------------------------------------------
Init ==
    /\ phase = "connecting" /\ socket = "closed"
    /\ owner = NoTask /\ waiters = <<>>
    /\ pending = NoTask /\ active = FALSE /\ tainted = FALSE
    /\ txn = [t \in Tasks |-> NoTxn]
    /\ pc = [t \in Tasks |-> IF t = "control" THEN "idle" ELSE "off"]
    /\ job = [t \in Tasks |-> NoJob]
    /\ txq = <<>> /\ rx = <<>>
    /\ startupDone = FALSE /\ resyncReq = FALSE /\ recovery = FALSE
    /\ program = FALSE /\ failures = 0
    /\ automation = "unknown" /\ cmd = NoCommand

TaskStep(t) == Granted(t) \/ Answered(t) \/ TimesOut(t) \/ Paced(t) \/ Cancelled(t)

Loop == Startup \/ Resync \/ Periodic \/ PeriodicRefresh \/ Keypad
Worker == EnqueueControl \/ Control \/ ControlExpired \/ Verify \/ VerifyTooLate
Wire == \/ Transmit \/ ReceiveReady \/ ReceiveResponse
        \/ ReceiveXF \/ ReceiveXN \/ ReceiveEvent \/ ReceiveInvalid
Session == Connect \/ PeerCloses \/ SessionLost \/ SessionStopped

Next == Loop \/ Worker \/ Wire \/ Session \/ \E t \in Tasks : TaskStep(t)

Spec == Init /\ [][Next]_vars

\* asyncio runs what is ready, timers fire, and a closed socket is noticed.
\* Nothing is assumed of the panel, of the network or of the MQTT side.
Fairness ==
    /\ WF_vars(SessionLost) /\ WF_vars(SessionStopped)
    /\ WF_vars(Resync)
    /\ \A t \in Tasks : WF_vars(TaskStep(t))

FairSpec == Spec /\ Fairness

-----------------------------------------------------------------------------
Frame  == [kind : Kinds, for : Tasks \cup {NoTask}]
Packet == [msg : Packets, for : Tasks \cup {NoTask}]

\* The values the variables range over.
TypeOK ==
    /\ phase \in {"connecting", "running", "stopping"}
    /\ socket \in {"open", "closed"}
    /\ owner \in Tasks \cup {NoTask}
    /\ waiters \in Seq(Tasks)
    /\ pending \in Tasks \cup {NoTask}
    /\ active \in BOOLEAN /\ tainted \in BOOLEAN
    /\ txn \in [Tasks -> [kind : Kinds, current : BOOLEAN,
                          seen : BOOLEAN, ready : BOOLEAN]]
    /\ pc \in [Tasks -> {"off", "idle", "queued", "wait", "pause", "refresh",
                         "verify", "dead"}]
    /\ job \in [Tasks -> [op : Ops, left : Seq(Kinds)]]
    /\ txq \in Seq(Frame) /\ rx \in Seq(Packet)
    /\ startupDone \in BOOLEAN /\ resyncReq \in BOOLEAN /\ recovery \in BOOLEAN
    /\ program \in BOOLEAN /\ failures \in 0 .. ReconnectAfter
    /\ automation \in {"unknown", "inferred", "explicit", "communication_off"}
    /\ cmd \in [held : BOOLEAN, current : BOOLEAN, frames : Nat \ {0},
                verify : BOOLEAN, recheck : BOOLEAN]

\* The pending transaction is the lock holder's, it belongs to this session
\* and is not tainted, and the raw transmit path is told that it is there:
\* everything _begin_transaction and mark_ready take for granted, although
\* _stop_session wipes the transaction while its owner keeps the lock.
OneTransaction ==
    pending # NoTask => /\ owner = pending
                        /\ active /\ ~tainted /\ Connected
                        /\ txn[pending].current

\* Between awaits a task is inside an operation exactly when it has the lock.
HolderIsInside == \A t \in Tasks : pc[t] \in {"wait", "pause"} <=> owner = t

\* A task queues for the lock, and queues once, exactly when it waits for it.
Queues(t, s) == \E i \in DOMAIN s : s[i] = t
QueuedOnce ==
    /\ \A t \in Tasks : pc[t] = "queued" <=> Queues(t, waiters)
    /\ \A i, j \in DOMAIN waiters : waiters[i] = waiters[j] => i = j

\* The lock is where the tasks believe it is, also while _stop_session cancels
\* its holder and its waiters in any order and the worker lives on.
LockDiscipline == HolderIsInside /\ QueuedOnce

\* A recovery resync stays parked only while startup or program mode owns the
\* panel: every way out of both hands it to the resync loop.
RecoveryParked == recovery => ~startupDone \/ program

\* A frame in the transmit queue was put there by a transaction of the running
\* session; _stop_session still holds the old ones until it discards them.
QueueIsOfThisSession ==
    /\ phase = "connecting" => txq = <<>>
    /\ Connected => \A i \in DOMAIN txq :
                       txq[i].for # NoTask => txn[txq[i].for].current

\* 08OK completes a transaction only if the panel sent it for that very
\* transaction.  Packets carry no identifier: this is what serialising and
\* tainting are for.  08XF completes a control frame whose own 08OK may still
\* come: from then on, and in a session that has heard 08XN, which ends it,
\* nothing is claimed.
AckIsOwn ==
    [][\A t \in Tasks : ~txn[t].ready /\ txn'[t].ready
          => \/ automation' = "communication_off" \/ automation = "explicit"
             \/ rx # <<>> /\ rx' = Tail(rx) /\ Head(rx).for = t]_vars

\* A tainted session ends: the synchronizer cannot stay refused for ever.
TaintEndsSession == (tainted /\ Connected) ~> ~(tainted /\ Connected)

\* Whoever queues for the lock gets it or is cancelled, whatever the panel does.
LockIsGranted == \A t \in Tasks : pc[t] = "queued" ~> pc[t] # "queued"

\* A requested resync is started, unless the session ends first.
ResyncIsServed == resyncReq ~> ~resyncReq

-----------------------------------------------------------------------------
(* What the documents say and the code does not do: see the README.         *)

\* A failed verification is reported and the worker goes on.
WorkerSurvives == pc["control"] # "dead"
=============================================================================
