----------------------- MODULE SnapshotFreshness_proofs -----------------------
(***************************************************************************)
(* Proofs about the panel's session and what is made of its answers, for   *)
(* every choice of the constants.  First PanelSession: its types, that the *)
(* pending transaction is always the one of the lock's holder, that no     *)
(* session inherits another's queue, and that a recovery resync is never   *)
(* left parked.  Then SnapshotFreshness: freshness is announced only when  *)
(* true, and the session implements the freshness contract.                *)
(***************************************************************************)
EXTENDS SnapshotFreshness, SequenceTheorems, TLAPS

\* No loop is called like the control worker or like the absent task.
LEMMA TaskNames ==
    /\ NoTask \notin Tasks
    /\ "control" \notin SessionTasks
    /\ "control" \in Tasks /\ "resync" \in Tasks
    /\ Tasks \subseteq Loops \cup {"control"}
BY TasksAssumption DEF Tasks, NoTask, Loops

\* Disowning packets leaves a queue of packets.
LEMMA OrphanFrames ==
    ASSUME NEW s \in Seq(Frame), NEW t \in Tasks
    PROVE  Orphan(s, t) \in Seq(Frame)
<1>1. ASSUME NEW f \in Frame
      PROVE  (IF f.for = t THEN [f EXCEPT !.for = NoTask] ELSE f) \in Frame
  BY DEF Frame
<1>2. \A i \in 1 .. Len(s) : s[i] \in Frame
  OBVIOUS
<1>3. Orphan(s, t) \in [1 .. Len(s) -> Frame]
  BY <1>1, <1>2 DEF Orphan
<1> QED BY <1>3

LEMMA OrphanPackets ==
    ASSUME NEW s \in Seq(Packet), NEW t \in Tasks
    PROVE  Orphan(s, t) \in Seq(Packet)
<1>1. ASSUME NEW f \in Packet
      PROVE  (IF f.for = t THEN [f EXCEPT !.for = NoTask] ELSE f) \in Packet
  BY DEF Packet
<1>2. \A i \in 1 .. Len(s) : s[i] \in Packet
  OBVIOUS
<1>3. Orphan(s, t) \in [1 .. Len(s) -> Packet]
  BY <1>1, <1>2 DEF Orphan
<1> QED BY <1>3

\* The ways an operation under the lock can end.
Outcomes == {"ok", "optional", "timeout", "offline", "refused", "raised", "unsent"}

\* What is left of a dropped transaction object is one still.
LEMMA DroppedType ==
    ASSUME TypeOK, NEW t \in Tasks
    PROVE  Dropped(t) \in [Tasks -> [kind : Kinds, current : BOOLEAN,
                                     seen : BOOLEAN, ready : BOOLEAN]]
<1>1. [NoTxn EXCEPT !.current = txn[t].current]
         \in [kind : Kinds, current : BOOLEAN, seen : BOOLEAN, ready : BOOLEAN]
  BY DEF TypeOK, NoTxn, Kinds
<1> QED BY <1>1 DEF TypeOK, Dropped

LEMMA LeaveType ==
    ASSUME TypeOK, NEW t \in Tasks, NEW op \in Ops, NEW outcome \in Outcomes,
           WaitersLeft(t) \in Seq(Tasks), Leave(t, op, outcome)
    PROVE  TypeOK'
<1>1. Resumes(t, op, outcome) \in {"off", "idle", "refresh", "verify", "dead"}
  BY TaskNames DEF Resumes, Loops
<1>2. FailuresAfter(op, outcome) \in 0 .. ReconnectAfter
  BY BoundsAssumption DEF FailuresAfter, TypeOK
<1>3. pc' \in [Tasks -> {"off", "idle", "queued", "wait", "pause", "refresh",
                         "verify", "dead"}]
  BY <1>1 DEF Leave, TypeOK
<1>4. job' \in [Tasks -> [op : Ops, left : Seq(Kinds)]]
  <2>1. NoJob \in [op : Ops, left : Seq(Kinds)]
    BY DEF NoJob, Ops
  <2> QED BY <2>1 DEF Leave, TypeOK
<1>5. cmd' \in [held : BOOLEAN, current : BOOLEAN, frames : Nat \ {0},
                verify : BOOLEAN, recheck : BOOLEAN]
  <2>1. NoCommand \in [held : BOOLEAN, current : BOOLEAN, frames : Nat \ {0},
                       verify : BOOLEAN, recheck : BOOLEAN]
    BY DEF NoCommand
  <2> QED BY <2>1 DEF Leave, TypeOK
<1>6. waiters' \in Seq(Tasks) /\ owner' \in Tasks \cup {NoTask}
  BY DEF Leave
<1>7. pending' \in Tasks \cup {NoTask} /\ socket' \in {"open", "closed"}
  BY DEF Leave, TypeOK
<1>8. /\ tainted' \in BOOLEAN /\ startupDone' \in BOOLEAN /\ active' \in BOOLEAN
      /\ resyncReq' \in BOOLEAN /\ recovery' \in BOOLEAN
  <2>1. active' \in BOOLEAN /\ tainted' \in BOOLEAN
    BY DEF Leave
  <2>2. startupDone' \in BOOLEAN
    <3>1. Succeeded(outcome) \in BOOLEAN /\ startupDone \in BOOLEAN
      BY DEF Succeeded, TypeOK
    <3> QED BY <3>1, Zenon DEF Leave
  <2>3. resyncReq' \in BOOLEAN /\ recovery' \in BOOLEAN
    BY DEF Leave
  <2> QED BY <2>1, <2>2, <2>3
<1>9. /\ failures' \in 0 .. ReconnectAfter
      /\ UNCHANGED <<phase, wire, program, automation>>
  BY <1>2 DEF Leave
<1>10. txn' \in [Tasks -> [kind : Kinds, current : BOOLEAN,
                          seen : BOOLEAN, ready : BOOLEAN]]
  BY DroppedType DEF Leave
<1> QED BY <1>10, <1>3, <1>4, <1>5, <1>6, <1>7, <1>8, <1>9 DEF TypeOK, wire

LEMMA BeginType ==
    ASSUME TypeOK, NEW t \in Tasks, NEW op \in Ops, NEW left \in Seq(Kinds) \ {<<>>},
           WaitersLeft(t) \in Seq(Tasks), Begin(t, op, left)
    PROVE  TypeOK'
<1>1. Head(left) \in Kinds
  OBVIOUS
<1>2. txn' \in [Tasks -> [kind : Kinds, current : BOOLEAN, seen : BOOLEAN, ready : BOOLEAN]]
  BY <1>1 DEF Begin, TypeOK
<1>3. txq' \in Seq(Frame)
  <2>1. [kind |-> Head(left), for |-> t] \in Frame
    BY <1>1 DEF Frame
  <2>2. Orphan(txq, t) \in Seq(Frame)
    BY OrphanFrames DEF TypeOK
  <2> QED BY <2>1, <2>2 DEF Begin
<1>4. rx' \in Seq(Packet)
  BY OrphanPackets DEF Begin, TypeOK
<1>5. pc' \in [Tasks -> {"off", "idle", "queued", "wait", "pause", "refresh",
                         "verify", "dead"}]
  BY DEF Begin, TypeOK
<1>6. job' \in [Tasks -> [op : Ops, left : Seq(Kinds)]]
  BY DEF Begin, TypeOK
<1>7. /\ owner' \in Tasks \cup {NoTask} /\ waiters' \in Seq(Tasks)
      /\ pending' \in Tasks \cup {NoTask}
      /\ active' \in BOOLEAN /\ resyncReq' \in BOOLEAN
  BY DEF Begin, TypeOK, RequestLeft
<1>8. /\ phase' = phase /\ socket' = socket /\ tainted' = tainted
      /\ startupDone' = startupDone /\ recovery' = recovery /\ program' = program
      /\ failures' = failures /\ automation' = automation /\ cmd' = cmd
  BY DEF Begin, link, control
<1>9. /\ phase' \in {"connecting", "running", "stopping"}
      /\ socket' \in {"open", "closed"}
      /\ tainted' \in BOOLEAN /\ startupDone' \in BOOLEAN
      /\ recovery' \in BOOLEAN /\ program' \in BOOLEAN
      /\ failures' \in 0 .. ReconnectAfter
      /\ automation' \in {"unknown", "inferred", "explicit", "communication_off"}
      /\ cmd' \in [held : BOOLEAN, current : BOOLEAN, frames : Nat \ {0},
                   verify : BOOLEAN, recheck : BOOLEAN]
  BY <1>8 DEF TypeOK
<1> QED BY <1>2, <1>3, <1>4, <1>5, <1>6, <1>7, <1>9 DEF TypeOK

LEMMA ProceedType ==
    ASSUME TypeOK, NEW t \in Tasks, NEW op \in Ops, NEW left \in Seq(Kinds) \ {<<>>},
           WaitersLeft(t) \in Seq(Tasks), Proceed(t, op, left)
    PROVE  TypeOK'
<1>1. Verdict(t, op) \in Outcomes \cup {"go"}
  BY DEF Verdict, Outcomes
<1>2. CASE Verdict(t, op) = "go"
  BY <1>2, BeginType DEF Proceed
<1>3. CASE Verdict(t, op) # "go"
  <2>1. Leave(t, op, Verdict(t, op)) /\ Verdict(t, op) \in Outcomes
    BY <1>1, <1>3 DEF Proceed
  <2> QED BY <2>1, LeaveType
<1> QED BY <1>2, <1>3

LEMMA EnterType ==
    ASSUME TypeOK, NEW t \in Tasks, NEW op \in Ops, NEW left \in Seq(Kinds) \ {<<>>},
           pc[t] # "queued", Enter(t, op, left)
    PROVE  TypeOK'
<1>1. WaitersLeft(t) \in Seq(Tasks)
  BY DEF WaitersLeft, TypeOK
<1>2. CASE owner = NoTask /\ waiters = <<>>
  BY <1>1, <1>2, ProceedType DEF Enter
<1>3. CASE ~(owner = NoTask /\ waiters = <<>>)
  <2>0. /\ waiters' = Append(waiters, t)
        /\ pc' = [pc EXCEPT ![t] = "queued"]
        /\ job' = [job EXCEPT ![t] = [op |-> op, left |-> left]]
    BY <1>3 DEF Enter
  <2>1. waiters' \in Seq(Tasks)
    BY <2>0 DEF TypeOK
  <2>2. pc' \in [Tasks -> {"off", "idle", "queued", "wait", "pause", "refresh",
                           "verify", "dead"}]
    BY <2>0 DEF TypeOK
  <2>3. job' \in [Tasks -> [op : Ops, left : Seq(Kinds)]]
    BY <2>0 DEF TypeOK
  <2>4. resyncReq' \in BOOLEAN
    BY <1>3 DEF Enter, RequestLeft
  <2>5. /\ phase' = phase /\ socket' = socket /\ owner' = owner
        /\ pending' = pending /\ active' = active /\ tainted' = tainted /\ txn' = txn
        /\ txq' = txq /\ rx' = rx
        /\ startupDone' = startupDone /\ recovery' = recovery /\ program' = program
        /\ failures' = failures /\ automation' = automation /\ cmd' = cmd
    BY <1>3 DEF Enter, link, sync, wire, control
  <2>6. /\ phase' \in {"connecting", "running", "stopping"}
        /\ socket' \in {"open", "closed"}
        /\ owner' \in Tasks \cup {NoTask} /\ pending' \in Tasks \cup {NoTask}
        /\ active' \in BOOLEAN /\ tainted' \in BOOLEAN
        /\ txn' \in [Tasks -> [kind : Kinds, current : BOOLEAN,
                               seen : BOOLEAN, ready : BOOLEAN]]
        /\ txq' \in Seq(Frame) /\ rx' \in Seq(Packet)
    BY <2>5 DEF TypeOK
  <2>7. /\ startupDone' \in BOOLEAN
        /\ recovery' \in BOOLEAN /\ program' \in BOOLEAN
        /\ failures' \in 0 .. ReconnectAfter
        /\ automation' \in {"unknown", "inferred", "explicit", "communication_off"}
        /\ cmd' \in [held : BOOLEAN, current : BOOLEAN, frames : Nat \ {0},
                     verify : BOOLEAN, recheck : BOOLEAN]
    BY <2>5 DEF TypeOK
  <2> QED BY <2>1, <2>2, <2>3, <2>4, <2>6, <2>7 DEF TypeOK
<1> QED BY <1>2, <1>3

\* A task of the loop enters its operation with queries of the right kinds.
LEMMA LoopType ==
    ASSUME TypeOK, Loop
    PROVE  TypeOK'
<1>0. SyncKinds \subseteq Kinds
  BY DEF Kinds
<1>1. StartupQueries \in Seq(Kinds) \ {<<>>}
  BY <1>0, QueriesAssumption
<1>2. /\ <<"arming_status">> \in Seq(Kinds) \ {<<>>}
      /\ <<"keypad_display">> \in Seq(Kinds) \ {<<>>}
  BY DEF Kinds, SyncKinds
<1>3. "sync" \in Ops /\ "keypad" \in Ops
  BY DEF Ops
<1>4. CASE Startup
  BY <1>1, <1>3, <1>4, EnterType DEF Startup
<1>5. CASE Resync
  BY <1>1, <1>3, <1>5, EnterType, TaskNames DEF Resync
<1>6. CASE Periodic
  BY <1>2, <1>3, <1>6, EnterType DEF Periodic
<1>7. CASE PeriodicRefresh
  BY <1>2, <1>3, <1>7, EnterType DEF PeriodicRefresh
<1>8. CASE Keypad
  BY <1>2, <1>3, <1>8, EnterType DEF Keypad
<1> QED BY <1>4, <1>5, <1>6, <1>7, <1>8 DEF Loop

LEMMA WorkerType ==
    ASSUME TypeOK, Worker
    PROVE  TypeOK'
<1> DEFINE Cmds == [held : BOOLEAN, current : BOOLEAN, frames : Nat \ {0},
                    verify : BOOLEAN, recheck : BOOLEAN]
<1>0. NoCommand \in Cmds
  BY DEF NoCommand
<1>1. CASE EnqueueControl
  <2>1. cmd' \in Cmds
    BY <1>1, RequestsAssumption DEF EnqueueControl
  <2> QED BY <1>1, <2>1 DEF EnqueueControl, TypeOK, link, lock, sync, tasks, wire, modes
<1>2. CASE Control
  <2>1. [i \in 1 .. cmd.frames |-> "control"] \in Seq(Kinds) \ {<<>>}
    <3> DEFINE s == [i \in 1 .. cmd.frames |-> "control"]
    <3>1. cmd.frames \in Nat \ {0} /\ "control" \in Kinds
      BY DEF TypeOK, Kinds
    <3>2. s \in [1 .. cmd.frames -> Kinds]
      BY <3>1
    <3>3. s \in Seq(Kinds)
      BY <3>1, <3>2
    <3>4. Len(s) = cmd.frames
      BY <3>1
    <3>5. Len(s) # Len(<<>>)
      BY <3>1, <3>4
    <3> QED BY <3>3, <3>5
  <2> QED BY <1>2, <2>1, EnterType, TaskNames DEF Control, Ops
<1>3. CASE ControlExpired
  BY <1>0, <1>3 DEF ControlExpired, TypeOK, link, lock, sync, tasks, wire, modes
<1>4. CASE Verify
  <2>1. <<"arming_status">> \in Seq(Kinds) \ {<<>>}
    BY DEF Kinds, SyncKinds
  <2> QED BY <1>4, <2>1, EnterType, TaskNames DEF Verify, Ops
<1>5. CASE VerifyTooLate
  <2>1. pc' \in [Tasks -> {"off", "idle", "queued", "wait", "pause", "refresh",
                           "verify", "dead"}]
    BY <1>5 DEF VerifyTooLate, TypeOK
  <2> QED BY <1>0, <1>5, <2>1
          DEF VerifyTooLate, TypeOK, link, lock, sync, wire, modes
<1> QED BY <1>1, <1>2, <1>3, <1>4, <1>5 DEF Worker

\* A task that queues for the lock knows what it will do with it.
WorkLeft == \A t \in Tasks : pc[t] = "queued" => job[t].left # <<>>

\* The pending operation of a waiting task, without its first query.
LEMMA TailOfJob ==
    ASSUME NEW q \in Seq(Kinds), Len(q) > 1
    PROVE  Tail(q) \in Seq(Kinds) \ {<<>>}
<1>1. q # <<>>
  OBVIOUS
<1>2. Tail(q) \in Seq(Kinds) /\ Len(Tail(q)) = Len(q) - 1
  BY <1>1
<1>3. Len(Tail(q)) # Len(<<>>)
  BY <1>2
<1> QED BY <1>2, <1>3

LEMMA TaskType ==
    ASSUME TypeOK, WorkLeft, NEW t \in Tasks, TaskStep(t)
    PROVE  TypeOK'
<1>0. job[t].op \in Ops /\ job[t].left \in Seq(Kinds)
  BY DEF TypeOK
<1>1. CASE Granted(t)
  <2>1. WaitersLeft(t) \in Seq(Tasks)
    <3>1. waiters \in Seq(Tasks) /\ waiters # <<>>
      BY <1>1 DEF Granted, TypeOK
    <3>2. Tail(waiters) \in Seq(Tasks)
      BY <3>1
    <3> QED BY <3>1, <3>2 DEF WaitersLeft
  <2>2. job[t].left \in Seq(Kinds) \ {<<>>}
    BY <1>0, <1>1 DEF WorkLeft, Granted
  <2> QED BY <1>0, <1>1, <2>1, <2>2, ProceedType DEF Granted
<1>2. CASE Answered(t)
  <2>1. WaitersLeft(t) \in Seq(Tasks)
    BY <1>2 DEF Answered, WaitersLeft, TypeOK
  <2>2. CASE job[t].op = "external" /\ Len(job[t].left) > 1
    <3>1. Proceed(t, "external", Tail(job[t].left))
      BY <1>2, <2>2 DEF Answered
    <3> QED BY <1>0, <2>1, <2>2, <3>1, TailOfJob, ProceedType DEF Ops
  <2>3. CASE job[t].op = "external" /\ ~(Len(job[t].left) > 1)
    <3>1. Leave(t, "external", "ok")
      BY <1>2, <2>3 DEF Answered
    <3> QED BY <2>1, <3>1, LeaveType DEF Ops, Outcomes
  <2>4. CASE job[t].op # "external"
    <3>1. pc' \in [Tasks -> {"off", "idle", "queued", "wait", "pause", "refresh",
                             "verify", "dead"}]
      BY <1>2, <2>4 DEF Answered, TypeOK
    <3>2. pending' \in Tasks \cup {NoTask}
      BY <1>2, <2>4 DEF Answered, TypeOK
    <3>3. UNCHANGED <<link, lock, active, tainted, txn, job, wire, modes, control>>
      BY <1>2, <2>4 DEF Answered
    <3> QED BY <3>1, <3>2, <3>3 DEF TypeOK, link, lock, wire, modes, control
  <2> QED BY <2>2, <2>3, <2>4
<1>3. CASE TimesOut(t)
  <2>1. WaitersLeft(t) \in Seq(Tasks)
    BY <1>3 DEF TimesOut, WaitersLeft, TypeOK
  <2> QED BY <1>0, <1>3, <2>1, LeaveType DEF TimesOut, Outcomes
<1>4. CASE Paced(t)
  <2>1. WaitersLeft(t) \in Seq(Tasks)
    BY <1>4 DEF Paced, WaitersLeft, TypeOK
  <2>2. CASE Len(job[t].left) > 1
    BY <1>0, <1>4, <2>1, <2>2, TailOfJob, ProceedType DEF Paced
  <2>3. CASE ~(Len(job[t].left) > 1)
    BY <1>0, <1>4, <2>1, <2>3, LeaveType DEF Paced, Outcomes
  <2> QED BY <2>2, <2>3
<1>5. CASE Cancelled(t)
  <2>1. pc' \in [Tasks -> {"off", "idle", "queued", "wait", "pause", "refresh",
                           "verify", "dead"}]
    BY <1>5 DEF Cancelled, TypeOK
  <2>2. job' \in [Tasks -> [op : Ops, left : Seq(Kinds)]]
    BY <1>5 DEF Cancelled, TypeOK, NoJob, Ops
  <2>3. waiters' \in Seq(Tasks)
    <3>1. waiters \in Seq(Tasks)
      BY DEF TypeOK
    <3>2. CASE waiters' = Without(waiters, t) /\ Len(waiters) > 0
      <4>1. Len(waiters) \in Nat
        BY <3>1
      <4>2. Without(waiters, t) \in [1 .. Len(waiters) - 1 -> Tasks]
        BY <3>1, <4>1 DEF Without
      <4> QED BY <3>2, <4>1, <4>2
    <3>3. CASE waiters' = Without(waiters, t) /\ ~(Len(waiters) > 0)
      <4>1. Without(waiters, t) = <<>>
        BY <3>1, <3>3 DEF Without
      <4> QED BY <3>3, <4>1
    <3> QED BY <1>5, <3>1, <3>2, <3>3 DEF Cancelled
  <2>4. owner' \in Tasks \cup {NoTask} /\ pending' \in Tasks \cup {NoTask}
    BY <1>5 DEF Cancelled, TypeOK
  <2>5. active' \in BOOLEAN
    BY <1>5 DEF Cancelled, TypeOK
  <2>6. UNCHANGED <<link, tainted, wire, modes, control>>
    BY <1>5 DEF Cancelled
  <2>7. txn' \in [Tasks -> [kind : Kinds, current : BOOLEAN,
                           seen : BOOLEAN, ready : BOOLEAN]]
    BY <1>5, DroppedType DEF Cancelled
  <2> QED BY <2>7, <2>1, <2>2, <2>3, <2>4, <2>5, <2>6 DEF TypeOK, link, wire, modes, control
<1> QED BY <1>1, <1>2, <1>3, <1>4, <1>5 DEF TaskStep

LEMMA WireType ==
    ASSUME TypeOK, Wire
    PROVE  TypeOK'
<1> DEFINE Txns == [Tasks -> [kind : Kinds, current : BOOLEAN,
                              seen : BOOLEAN, ready : BOOLEAN]]
<1>0. rx \in Seq(Packet) /\ txq \in Seq(Frame) /\ txn \in Txns
  BY DEF TypeOK
<1>1. CASE Transmit
  <2>1. txq # <<>> /\ txq' = Tail(txq)
    BY <1>1 DEF Transmit
  <2>2. txq' \in Seq(Frame) /\ Head(txq) \in Frame
    BY <1>0, <2>1
  <2>3. PICK n \in 0 .. Len(Answer(Head(txq).kind)) :
          LET reply == SubSeq(Answer(Head(txq).kind), 1, n)
          IN rx' = rx \o [i \in 1 .. n |-> [msg |-> reply[i], for |-> Head(txq).for]]
    BY <1>1 DEF Transmit
  <2> DEFINE kind  == Head(txq).kind
             reply == SubSeq(Answer(kind), 1, n)
             heard == [i \in 1 .. n |-> [msg |-> reply[i], for |-> Head(txq).for]]
  <2>4. kind \in Kinds /\ Head(txq).for \in Tasks \cup {NoTask}
    BY <2>2 DEF Frame
  <2>5. Answer(kind) \in Seq(Packets)
    <3>1. kind \in Packets /\ "ready" \in Packets
      BY <2>4 DEF Packets
    <3>2. /\ <<kind>> \in Seq(Packets) /\ <<"ready">> \in Seq(Packets)
          /\ <<kind, "ready">> \in Seq(Packets)
      BY <3>1
    <3> QED BY <3>2, Zenon DEF Answer
  <2>6. n \in Nat /\ n <= Len(Answer(kind))
    BY <2>5
  <2>7. \A i \in 1 .. n : reply[i] \in Packets
    BY <2>5, <2>6
  <2>8. heard \in [1 .. n -> Packet]
    BY <2>4, <2>7 DEF Packet
  <2>9. heard \in Seq(Packet)
    BY <2>6, <2>8
  <2>10. rx' \in Seq(Packet)
    BY <1>0, <2>3, <2>9
  <2> QED BY <1>1, <2>2, <2>10
          DEF Transmit, TypeOK, link, lock, sync, tasks, modes, control
<1>2. CASE ReceiveReady
  <2>1. rx' \in Seq(Packet)
    BY <1>0, <1>2 DEF ReceiveReady
  <2>2. txn' \in Txns
    BY <1>0, <1>2 DEF ReceiveReady
  <2>3. automation' \in {"unknown", "inferred", "explicit", "communication_off"}
    BY <1>2 DEF ReceiveReady, TypeOK
  <2> QED BY <1>2, <2>1, <2>2, <2>3 DEF ReceiveReady, TypeOK, link, lock, tasks, modes
<1>3. CASE ReceiveResponse
  <2>1. rx' \in Seq(Packet)
    BY <1>0, <1>3 DEF ReceiveResponse
  <2>2. txn' \in Txns
    BY <1>0, <1>3 DEF ReceiveResponse
  <2> QED BY <1>3, <2>1, <2>2
          DEF ReceiveResponse, TypeOK, link, lock, tasks, modes, control
<1>4. CASE ReceiveXF
  <2>1. txn' \in Txns
    BY <1>0, <1>4 DEF ReceiveXF
  <2>2. cmd' \in [held : BOOLEAN, current : BOOLEAN, frames : Nat \ {0},
                  verify : BOOLEAN, recheck : BOOLEAN]
    BY <1>4 DEF ReceiveXF, TypeOK, NoCommand
  <2>3. /\ program' = TRUE /\ automation' = "communication_off"
        /\ UNCHANGED <<link, lock, pending, active, tainted, tasks, wire,
                       startupDone, resyncReq, recovery, failures>>
    BY <1>4 DEF ReceiveXF
  <2> QED BY <2>1, <2>2, <2>3 DEF TypeOK, link, lock, tasks, wire
<1>5. CASE ReceiveXN
  <2>1. /\ program' \in BOOLEAN /\ recovery' \in BOOLEAN /\ resyncReq' \in BOOLEAN
        /\ automation' = "explicit"
        /\ UNCHANGED <<link, lock, sync, tasks, wire, startupDone, failures, cmd>>
    BY <1>5 DEF ReceiveXN, LeavesProgramMode
  <2> QED BY <2>1 DEF TypeOK, link, lock, sync, tasks, wire
<1>6. CASE ReceiveEvent
  <2>1. /\ program' \in BOOLEAN /\ recovery' \in BOOLEAN /\ resyncReq' \in BOOLEAN
    BY <1>6 DEF ReceiveEvent, LeavesProgramMode, TypeOK
  <2>2. UNCHANGED <<link, lock, sync, tasks, wire, startupDone, failures, control>>
    BY <1>6 DEF ReceiveEvent
  <2> QED BY <2>1, <2>2 DEF TypeOK, link, lock, sync, tasks, wire, control
<1>7. CASE ReceiveInvalid
  <2>1. /\ recovery' \in BOOLEAN /\ resyncReq' \in BOOLEAN
        /\ UNCHANGED <<link, lock, sync, tasks, wire, startupDone, program, failures,
                       control>>
    BY <1>7 DEF ReceiveInvalid
  <2> QED BY <2>1 DEF TypeOK, link, lock, sync, tasks, wire, control
<1> QED BY <1>1, <1>2, <1>3, <1>4, <1>5, <1>6, <1>7 DEF Wire

LEMMA SessionType ==
    ASSUME TypeOK, Session
    PROVE  TypeOK'
<1>0. ASSUME ResetSession
      PROVE  /\ pending' \in Tasks \cup {NoTask}
             /\ active' \in BOOLEAN /\ tainted' \in BOOLEAN
             /\ startupDone' \in BOOLEAN /\ resyncReq' \in BOOLEAN
             /\ recovery' \in BOOLEAN /\ program' \in BOOLEAN
             /\ txn' \in [Tasks -> [kind : Kinds, current : BOOLEAN,
                                    seen : BOOLEAN, ready : BOOLEAN]]
             /\ automation' \in {"unknown", "inferred", "explicit", "communication_off"}
             /\ cmd' \in [held : BOOLEAN, current : BOOLEAN, frames : Nat \ {0},
                          verify : BOOLEAN, recheck : BOOLEAN]
  <2>1. txn' \in [Tasks -> [kind : Kinds, current : BOOLEAN,
                            seen : BOOLEAN, ready : BOOLEAN]]
    <3> DEFINE Txn == [kind : Kinds, current : BOOLEAN, seen : BOOLEAN, ready : BOOLEAN]
    <3>1. ASSUME NEW x \in Txn PROVE [x EXCEPT !.current = FALSE] \in Txn
      OBVIOUS
    <3>2. \A t \in Tasks : txn[t] \in Txn
      BY DEF TypeOK
    <3>3. txn' = [t \in Tasks |-> [txn[t] EXCEPT !.current = FALSE]]
      BY <1>0 DEF ResetSession
    <3> HIDE DEF Txn
    <3>4. \A t \in Tasks : [txn[t] EXCEPT !.current = FALSE] \in Txn
      BY <3>1, <3>2
    <3>5. txn' \in [Tasks -> Txn]
      BY <3>3, <3>4
    <3> QED BY <3>5 DEF Txn
  <2>2. cmd' \in [held : BOOLEAN, current : BOOLEAN, frames : Nat \ {0},
                  verify : BOOLEAN, recheck : BOOLEAN]
    <3> DEFINE Cmds == [held : BOOLEAN, current : BOOLEAN, frames : Nat \ {0},
                        verify : BOOLEAN, recheck : BOOLEAN]
    <3>1. ASSUME NEW c \in Cmds PROVE [c EXCEPT !.current = FALSE] \in Cmds
      OBVIOUS
    <3>2. cmd \in Cmds /\ NoCommand \in Cmds
      BY DEF TypeOK, NoCommand
    <3>3. cmd' \in {NoCommand, [cmd EXCEPT !.current = FALSE]}
      BY <1>0 DEF ResetSession
    <3> HIDE DEF Cmds
    <3>4. cmd' \in Cmds
      BY <3>1, <3>2, <3>3
    <3> QED BY <3>4 DEF Cmds
  <2> QED BY <1>0, <2>1, <2>2 DEF ResetSession
<1>1. CASE Connect
  <2>1. /\ pc' \in [Tasks -> {"off", "idle", "queued", "wait", "pause", "refresh",
                              "verify", "dead"}]
        /\ phase' = "running" /\ socket' = "open" /\ ResetSession
        /\ UNCHANGED <<lock, job, wire, failures>>
    BY <1>1 DEF Connect, TypeOK
  <2> QED BY <1>0, <2>1 DEF TypeOK, lock, wire
<1>2. CASE PeerCloses
  BY <1>2 DEF PeerCloses, TypeOK, lock, sync, tasks, wire, modes, control
<1>3. CASE SessionLost
  <2>1. /\ phase' = "stopping" /\ rx' = <<>> /\ ResetSession
        /\ UNCHANGED <<socket, lock, tasks, txq, failures>>
    BY <1>3 DEF SessionLost
  <2> QED BY <1>0, <2>1 DEF TypeOK, lock, tasks
<1>4. CASE SessionStopped
  BY <1>4 DEF SessionStopped, TypeOK, lock, sync, tasks, modes, control
<1> QED BY <1>1, <1>2, <1>3, <1>4 DEF Session

-----------------------------------------------------------------------------
\* An operation that ends leaves its task out of the queue, one that begins
\* makes it wait for the panel: neither touches what another task queues for.
LEMMA ProceedWork ==
    ASSUME TypeOK, WorkLeft, NEW t \in Tasks, NEW op, NEW left, Proceed(t, op, left)
    PROVE  WorkLeft'
<1>1. ASSUME NEW outcome, Leave(t, op, outcome) PROVE WorkLeft'
  <2>1. Resumes(t, op, outcome) # "queued"
    BY TaskNames DEF Resumes, Loops
  <2>2. /\ pc' = [pc EXCEPT ![t] = Resumes(t, op, outcome)]
        /\ job' = [job EXCEPT ![t] = NoJob]
    BY <1>1 DEF Leave
  <2> QED BY <2>1, <2>2 DEF WorkLeft, TypeOK
<1>2. ASSUME Begin(t, op, left) PROVE WorkLeft'
  <2>1. /\ pc' = [pc EXCEPT ![t] = "wait"]
        /\ job' = [job EXCEPT ![t] = [op |-> op, left |-> left]]
    BY <1>2 DEF Begin
  <2> QED BY <2>1 DEF WorkLeft, TypeOK
<1> QED BY <1>1, <1>2 DEF Proceed

LEMMA LeaveWork ==
    ASSUME TypeOK, WorkLeft, NEW t \in Tasks, NEW op, NEW outcome,
           Leave(t, op, outcome)
    PROVE  WorkLeft'
<1>1. Resumes(t, op, outcome) # "queued"
  BY TaskNames DEF Resumes, Loops
<1>2. /\ pc' = [pc EXCEPT ![t] = Resumes(t, op, outcome)]
      /\ job' = [job EXCEPT ![t] = NoJob]
  BY DEF Leave
<1> QED BY <1>1, <1>2 DEF WorkLeft, TypeOK

LEMMA EnterWork ==
    ASSUME TypeOK, WorkLeft, NEW t \in Tasks, NEW op, NEW left,
           left # <<>>, Enter(t, op, left)
    PROVE  WorkLeft'
<1>1. CASE owner = NoTask /\ waiters = <<>>
  BY <1>1, ProceedWork DEF Enter
<1>2. CASE ~(owner = NoTask /\ waiters = <<>>)
  <2>1. /\ pc' = [pc EXCEPT ![t] = "queued"]
        /\ job' = [job EXCEPT ![t] = [op |-> op, left |-> left]]
    BY <1>2 DEF Enter
  <2> QED BY <2>1 DEF WorkLeft, TypeOK
<1> QED BY <1>1, <1>2

LEMMA WorkStep ==
    ASSUME TypeOK, WorkLeft, [Next]_vars
    PROVE  WorkLeft'
<1>1. CASE Loop
  <2>1. <<"arming_status">> # <<>> /\ <<"keypad_display">> # <<>> /\ StartupQueries # <<>>
    BY QueriesAssumption
  <2>2. CASE Startup
    BY <2>1, <2>2, EnterWork DEF Startup
  <2>3. CASE Resync
    BY <2>1, <2>3, EnterWork, TaskNames DEF Resync
  <2>4. CASE Periodic
    BY <2>1, <2>4, EnterWork DEF Periodic
  <2>5. CASE PeriodicRefresh
    BY <2>1, <2>5, EnterWork DEF PeriodicRefresh
  <2>6. CASE Keypad
    BY <2>1, <2>6, EnterWork DEF Keypad
  <2> QED BY <1>1, <2>2, <2>3, <2>4, <2>5, <2>6 DEF Loop
<1>2. CASE Worker
  <2>1. CASE EnqueueControl \/ ControlExpired
    BY <2>1 DEF EnqueueControl, ControlExpired, tasks, WorkLeft
  <2>2. CASE Control
    <3>1. [i \in 1 .. cmd.frames |-> "control"] # <<>>
      <4>1. cmd.frames \in Nat \ {0}
        BY DEF TypeOK
      <4>2. Len([i \in 1 .. cmd.frames |-> "control"]) = cmd.frames
        BY <4>1
      <4>3. Len([i \in 1 .. cmd.frames |-> "control"]) # Len(<<>>)
        BY <4>1, <4>2
      <4> QED BY <4>3
    <3> QED BY <2>2, <3>1, EnterWork, TaskNames DEF Control
  <2>3. CASE Verify
    <3>1. <<"arming_status">> # <<>>
      OBVIOUS
    <3> QED BY <2>3, <3>1, EnterWork, TaskNames DEF Verify
  <2>4. CASE VerifyTooLate
    BY <2>4 DEF VerifyTooLate, WorkLeft, TypeOK
  <2> QED BY <1>2, <2>1, <2>2, <2>3, <2>4 DEF Worker
<1>3. CASE Wire
  BY <1>3 DEF Wire, Transmit, ReceiveReady, ReceiveResponse, ReceiveXF, ReceiveXN,
              ReceiveEvent, ReceiveInvalid, tasks, WorkLeft
<1>4. CASE Session
  <2>1. CASE Connect
    BY <2>1 DEF Connect, WorkLeft, TypeOK
  <2>2. CASE PeerCloses \/ SessionLost \/ SessionStopped
    BY <2>2 DEF PeerCloses, SessionLost, SessionStopped, tasks, WorkLeft
  <2> QED BY <1>4, <2>1, <2>2 DEF Session
<1>5. ASSUME NEW t \in Tasks, TaskStep(t) PROVE WorkLeft'
  <2>1. CASE Granted(t)
    BY <2>1, ProceedWork DEF Granted
  <2>2. CASE Answered(t)
    <3>1. CASE job[t].op = "external"
      BY <2>2, <3>1, ProceedWork, LeaveWork DEF Answered
    <3>2. CASE job[t].op # "external"
      <4>1. pc' = [pc EXCEPT ![t] = "pause"] /\ job' = job
        BY <2>2, <3>2 DEF Answered
      <4> QED BY <4>1 DEF WorkLeft, TypeOK
    <3> QED BY <3>1, <3>2
  <2>3. CASE TimesOut(t)
    BY <2>3, LeaveWork DEF TimesOut
  <2>4. CASE Paced(t)
    BY <2>4, ProceedWork, LeaveWork DEF Paced
  <2>5. CASE Cancelled(t)
    BY <2>5 DEF Cancelled, WorkLeft, TypeOK
  <2> QED BY <1>5, <2>1, <2>2, <2>3, <2>4, <2>5 DEF TaskStep
<1>6. CASE UNCHANGED vars
  BY <1>6 DEF vars, tasks, WorkLeft
<1> QED BY <1>1, <1>2, <1>3, <1>4, <1>5, <1>6 DEF Next

LEMMA TypeStep ==
    ASSUME TypeOK, WorkLeft, [Next]_vars
    PROVE  TypeOK'
<1>1. CASE UNCHANGED vars
  BY <1>1 DEF TypeOK, vars, link, lock, sync, tasks, wire, modes, control
<1> QED BY <1>1, LoopType, WorkerType, WireType, SessionType, TaskType DEF Next

LEMMA InitType == Init => TypeOK /\ WorkLeft
<1> SUFFICES ASSUME Init PROVE TypeOK /\ WorkLeft
  OBVIOUS
<1>1. txn \in [Tasks -> [kind : Kinds, current : BOOLEAN,
                        seen : BOOLEAN, ready : BOOLEAN]]
  BY DEF Init, NoTxn, Kinds
<1>2. pc \in [Tasks -> {"off", "idle", "queued", "wait", "pause", "refresh",
                       "verify", "dead"}]
  BY DEF Init
<1>3. job \in [Tasks -> [op : Ops, left : Seq(Kinds)]]
  BY DEF Init, NoJob, Ops
<1>4. /\ waiters \in Seq(Tasks) /\ txq \in Seq(Frame) /\ rx \in Seq(Packet)
      /\ failures \in 0 .. ReconnectAfter
  BY BoundsAssumption DEF Init
<1>5. cmd \in [held : BOOLEAN, current : BOOLEAN, frames : Nat \ {0},
              verify : BOOLEAN, recheck : BOOLEAN]
  BY DEF Init, NoCommand
<1>6. TypeOK
  BY <1>1, <1>2, <1>3, <1>4, <1>5 DEF Init, TypeOK
<1>7. WorkLeft
  BY DEF Init, WorkLeft
<1> QED BY <1>6, <1>7

\* The variables keep to their types, and no task is granted the lock without
\* knowing what to do with it: Head(left) in Begin is always defined.
THEOREM TypeCorrect == Spec => [](TypeOK /\ WorkLeft)
<1>1. TypeOK /\ WorkLeft /\ [Next]_vars => (TypeOK /\ WorkLeft)'
  BY TypeStep, WorkStep
<1> QED BY <1>1, InitType, PTL DEF Spec

-----------------------------------------------------------------------------
\* set_program_mode, startup and the recovery request agree on who may serve a
\* parked resync, so RecoveryParked is inductive once the types are known.
LEMMA ParkedLeave ==
    ASSUME RecoveryParked, NEW t, NEW op, NEW outcome, Leave(t, op, outcome)
    PROVE  RecoveryParked'
<1>1. /\ recovery' = (recovery /\ ~(t = "startup" /\ Succeeded(outcome)
                                    /\ recovery /\ ~program))
      /\ startupDone' = IF t = "startup" /\ outcome # "raised"
                        THEN Succeeded(outcome) ELSE startupDone
      /\ program' = program
  BY DEF Leave
<1>2. CASE t = "startup" /\ Succeeded(outcome) /\ ~program
  BY <1>1, <1>2 DEF RecoveryParked
<1>3. CASE ~(t = "startup" /\ Succeeded(outcome) /\ ~program)
  <2>1. CASE program
    BY <1>1, <2>1 DEF RecoveryParked
  <2>2. CASE ~program /\ t = "startup" /\ outcome # "raised"
    <3>1. startupDone' = Succeeded(outcome) /\ ~Succeeded(outcome)
      BY <1>1, <1>3, <2>2
    <3> QED BY <3>1 DEF RecoveryParked
  <2>3. CASE ~program /\ ~(t = "startup" /\ outcome # "raised")
    BY <1>1, <2>3 DEF RecoveryParked
  <2> QED BY <2>1, <2>2, <2>3
<1> QED BY <1>2, <1>3

LEMMA ParkedProceed ==
    ASSUME RecoveryParked, NEW t, NEW op, NEW left, Proceed(t, op, left)
    PROVE  RecoveryParked'
BY ParkedLeave DEF Proceed, Begin, RecoveryParked

LEMMA ParkedEnter ==
    ASSUME RecoveryParked, NEW t, NEW op, NEW left, Enter(t, op, left)
    PROVE  RecoveryParked'
BY ParkedProceed DEF Enter, RecoveryParked

LEMMA ParkedStep ==
    ASSUME RecoveryParked, [Next]_vars
    PROVE  RecoveryParked'
<1>1. CASE Loop
  BY <1>1, ParkedEnter DEF Loop, Startup, Resync, Periodic, PeriodicRefresh, Keypad
<1>2. CASE Worker
  BY <1>2, ParkedEnter DEF Worker, EnqueueControl, Control, ControlExpired, Verify,
                           VerifyTooLate, modes, RecoveryParked
<1>3. CASE Wire
  <2>1. CASE Transmit \/ ReceiveReady \/ ReceiveResponse
    BY <2>1 DEF Transmit, ReceiveReady, ReceiveResponse, modes, RecoveryParked
  <2>2. CASE ReceiveXF
    BY <2>2 DEF ReceiveXF, RecoveryParked
  <2>3. CASE ReceiveXN \/ ReceiveEvent
    BY <2>3 DEF ReceiveXN, ReceiveEvent, LeavesProgramMode, RecoveryParked
  <2>4. CASE ReceiveInvalid
    BY <2>4 DEF ReceiveInvalid, RecoveryParked
  <2> QED BY <1>3, <2>1, <2>2, <2>3, <2>4 DEF Wire
<1>4. CASE Session
  BY <1>4 DEF Session, Connect, PeerCloses, SessionLost, SessionStopped,
              ResetSession, modes, RecoveryParked
<1>5. ASSUME NEW t \in Tasks, TaskStep(t) PROVE RecoveryParked'
  BY <1>5, ParkedProceed, ParkedLeave
     DEF TaskStep, Granted, Answered, TimesOut, Paced, Cancelled, modes, RecoveryParked
<1>6. CASE UNCHANGED vars
  BY <1>6 DEF vars, modes, RecoveryParked
<1> QED BY <1>1, <1>2, <1>3, <1>4, <1>5, <1>6 DEF Next

\* A recovery resync asked for after a corrupted frame stays parked only while
\* startup or program mode owns the panel, for every set of loops and queries.
THEOREM RecoveryIsNotForgotten == Spec => []RecoveryParked
<1>1. Init => RecoveryParked
  BY DEF Init, RecoveryParked
<1>2. RecoveryParked /\ [Next]_vars => RecoveryParked'
  BY ParkedStep
<1> QED BY <1>1, <1>2, PTL DEF Spec

-----------------------------------------------------------------------------
\* The lock's queue: no task twice, through an arrival, a grant and a cancel.
Distinct(s) == \A i, j \in DOMAIN s : s[i] = s[j] => i = j

LEMMA QueueArrival ==
    ASSUME NEW s \in Seq(Tasks), NEW t \in Tasks, Distinct(s), ~Queues(t, s)
    PROVE  /\ Distinct(Append(s, t))
           /\ \A u \in Tasks : Queues(u, Append(s, t)) <=> Queues(u, s) \/ u = t
<1> DEFINE a == Append(s, t)
<1>1. /\ Len(s) \in Nat /\ DOMAIN s = 1 .. Len(s) /\ DOMAIN a = 1 .. Len(s) + 1
      /\ a[Len(s) + 1] = t /\ \A i \in 1 .. Len(s) : a[i] = s[i]
  OBVIOUS
<1>2. \A i \in 1 .. Len(s) + 1 : i \in 1 .. Len(s) \/ i = Len(s) + 1
  BY <1>1
<1>3. Len(s) + 1 \in 1 .. Len(s) + 1 /\ 1 .. Len(s) \subseteq 1 .. Len(s) + 1
  BY <1>1
<1> HIDE DEF a
<1>4. Distinct(a)
  BY <1>1, <1>2 DEF Distinct, Queues
<1>5. ASSUME NEW u \in Tasks PROVE Queues(u, a) <=> Queues(u, s) \/ u = t
  BY <1>1, <1>2, <1>3 DEF Queues
<1> QED BY <1>4, <1>5 DEF a

LEMMA QueueGrant ==
    ASSUME NEW s \in Seq(Tasks), s # <<>>, Distinct(s)
    PROVE  /\ Distinct(Tail(s))
           /\ \A u \in Tasks : Queues(u, Tail(s)) <=> Queues(u, s) /\ u # Head(s)
<1>1. /\ Len(s) \in Nat \ {0} /\ DOMAIN s = 1 .. Len(s)
      /\ DOMAIN Tail(s) = 1 .. Len(s) - 1
      /\ \A i \in 1 .. Len(s) - 1 : Tail(s)[i] = s[i + 1]
      /\ Head(s) = s[1]
  OBVIOUS
<1>2. Distinct(Tail(s))
  BY <1>1 DEF Distinct
<1>3. ASSUME NEW u \in Tasks, Queues(u, Tail(s)) PROVE Queues(u, s) /\ u # Head(s)
  <2>1. PICK i \in 1 .. Len(s) - 1 : s[i + 1] = u
    BY <1>1, <1>3 DEF Queues
  <2>2. i + 1 \in DOMAIN s /\ 1 \in DOMAIN s /\ i + 1 # 1
    BY <1>1
  <2> QED BY <1>1, <2>1, <2>2 DEF Queues, Distinct
<1>4. ASSUME NEW u \in Tasks, Queues(u, s), u # Head(s) PROVE Queues(u, Tail(s))
  <2>1. PICK i \in 1 .. Len(s) : s[i] = u
    BY <1>1, <1>4 DEF Queues
  <2>2. i - 1 \in 1 .. Len(s) - 1 /\ (i - 1) + 1 = i
    BY <1>1, <1>4, <2>1
  <2> QED BY <1>1, <2>1, <2>2 DEF Queues
<1> QED BY <1>2, <1>3, <1>4

LEMMA QueueCancel ==
    ASSUME NEW s \in Seq(Tasks), NEW t \in Tasks, Distinct(s), Queues(t, s)
    PROVE  /\ Distinct(Without(s, t))
           /\ \A u \in Tasks : Queues(u, Without(s, t)) <=> Queues(u, s) /\ u # t
<1>1. Len(s) \in Nat /\ DOMAIN s = 1 .. Len(s)
  OBVIOUS
<1>2. PICK k \in 1 .. Len(s) : s[k] = t
  BY <1>1 DEF Queues
<1>3. \A j \in 1 .. Len(s) : s[j] = t => j = k
  BY <1>1, <1>2 DEF Distinct
<1> DEFINE w == Without(s, t)
<1>4. DOMAIN w = 1 .. Len(s) - 1
  BY DEF Without
<1>5. \A i \in 1 .. Len(s) - 1 : w[i] = IF i < k THEN s[i] ELSE s[i + 1]
  <2> SUFFICES ASSUME NEW i \in 1 .. Len(s) - 1
               PROVE  w[i] = IF i < k THEN s[i] ELSE s[i + 1]
    OBVIOUS
  <2>1. w[i] = IF \A j \in 1 .. i : s[j] # t THEN s[i] ELSE s[i + 1]
    BY DEF Without
  <2>2. (\A j \in 1 .. i : s[j] # t) <=> i < k
    <3>1. CASE i < k
      <4>1. \A j \in 1 .. i : j \in 1 .. Len(s) /\ j # k
        BY <1>1, <3>1
      <4> QED BY <1>3, <3>1, <4>1
    <3>2. CASE ~(i < k)
      <4>1. k \in 1 .. i
        BY <1>1, <3>2
      <4> QED BY <1>2, <3>2, <4>1
    <3> QED BY <3>1, <3>2
  <2> QED BY <2>1, <2>2
<1> HIDE DEF w
<1>6. Distinct(w)
  <2> SUFFICES ASSUME NEW i \in 1 .. Len(s) - 1, NEW j \in 1 .. Len(s) - 1, w[i] = w[j]
               PROVE  i = j
    BY <1>4 DEF Distinct
  <2> DEFINE at(n) == IF n < k THEN n ELSE n + 1
  <2>1. at(i) \in 1 .. Len(s) /\ at(j) \in 1 .. Len(s) /\ s[at(i)] = s[at(j)]
    BY <1>1, <1>5
  <2>2. at(i) = at(j)
    <3> HIDE DEF at
    <3> QED BY <1>1, <2>1 DEF Distinct
  <2> QED BY <1>1, <2>2
<1>7. ASSUME NEW u \in Tasks, Queues(u, w) PROVE Queues(u, s) /\ u # t
  <2>1. PICK i \in 1 .. Len(s) - 1 : w[i] = u
    BY <1>4, <1>7 DEF Queues
  <2>2. PICK n \in 1 .. Len(s) : n # k /\ s[n] = u
    <3>1. CASE i < k
      <4>1. i \in 1 .. Len(s) /\ i # k /\ s[i] = u
        BY <1>1, <1>5, <2>1, <3>1
      <4> QED BY <4>1
    <3>2. CASE ~(i < k)
      <4>1. i + 1 \in 1 .. Len(s) /\ i + 1 # k /\ s[i + 1] = u
        BY <1>1, <1>5, <2>1, <3>2
      <4> QED BY <4>1
    <3> QED BY <3>1, <3>2
  <2> QED BY <1>1, <1>3, <2>2 DEF Queues
<1>8. ASSUME NEW u \in Tasks, Queues(u, s), u # t PROVE Queues(u, w)
  <2>1. PICK n \in 1 .. Len(s) : s[n] = u
    BY <1>1, <1>8 DEF Queues
  <2>2. n # k
    BY <1>2, <1>8, <2>1
  <2>3. CASE n < k
    <3>1. n \in 1 .. Len(s) - 1 /\ w[n] = u
      BY <1>1, <1>5, <2>1, <2>3
    <3> QED BY <1>4, <3>1 DEF Queues
  <2>4. CASE ~(n < k)
    <3>1. n - 1 \in 1 .. Len(s) - 1 /\ ~(n - 1 < k) /\ (n - 1) + 1 = n
      BY <1>1, <2>2, <2>4
    <3>2. w[n - 1] = u
      BY <1>5, <2>1, <3>1
    <3> QED BY <1>4, <3>1, <3>2 DEF Queues
  <2> QED BY <2>3, <2>4
<1> QED BY <1>6, <1>7, <1>8 DEF w

-----------------------------------------------------------------------------
\* While _connect_panel runs, the tasks of the last session are gone.
OffBetweenSessions ==
    phase = "connecting" => \A t \in SessionTasks : pc[t] = "off"

\* What keeps the transactions apart: none of the parts is inductive alone.
Exclusion == /\ TypeOK
             /\ HolderIsInside /\ QueuedOnce
             /\ OffBetweenSessions
             /\ OneTransaction

\* The task that runs holds the lock, or nobody does and it is first in line.
Entitled(t) == /\ Alive(t) /\ owner \in {t, NoTask}
               /\ pc[t] = "queued" => waiters # <<>> /\ Head(waiters) = t
               /\ pc[t] # "queued" \/ owner = NoTask

\* Leaving or beginning takes an entitled task out of the queue.
LEMMA QueueLeft ==
    ASSUME Exclusion, NEW t \in Tasks, Entitled(t), NEW l,
           waiters' = WaitersLeft(t), pc' = [pc EXCEPT ![t] = l], l # "queued"
    PROVE  QueuedOnce'
<1>0. /\ waiters \in Seq(Tasks) /\ QueuedOnce /\ Distinct(waiters)
      /\ \A u \in Tasks : pc'[u] = IF u = t THEN l ELSE pc[u]
  BY DEF Exclusion, TypeOK, QueuedOnce, Distinct
<1>1. CASE pc[t] = "queued"
  <2>1. waiters' = Tail(waiters) /\ waiters # <<>> /\ Head(waiters) = t
    BY <1>1 DEF WaitersLeft, Entitled
  <2>2. /\ Distinct(Tail(waiters))
        /\ \A u \in Tasks : Queues(u, Tail(waiters)) <=> Queues(u, waiters) /\ u # t
    BY <1>0, <2>1, QueueGrant
  <2>3. /\ Distinct(waiters')
        /\ \A u \in Tasks : Queues(u, waiters') <=> Queues(u, waiters) /\ u # t
    BY <2>1, <2>2
  <2>4. \A u \in Tasks : pc'[u] = "queued" <=> Queues(u, waiters')
    BY <1>0, <2>3 DEF QueuedOnce
  <2> QED BY <2>3, <2>4 DEF QueuedOnce, Distinct
<1>2. CASE pc[t] # "queued"
  <2>1. waiters' = waiters /\ \A u \in Tasks : pc'[u] = "queued" <=> pc[u] = "queued"
    BY <1>0, <1>2 DEF WaitersLeft
  <2>2. \A u \in Tasks : pc'[u] = "queued" <=> Queues(u, waiters')
    BY <1>0, <2>1 DEF QueuedOnce
  <2> QED BY <1>0, <2>1, <2>2 DEF QueuedOnce
<1> QED BY <1>1, <1>2

LEMMA LeaveExclusion ==
    ASSUME Exclusion, NEW t \in Tasks, Entitled(t), NEW op, NEW outcome,
           Leave(t, op, outcome)
    PROVE  HolderIsInside' /\ QueuedOnce' /\ OffBetweenSessions' /\ OneTransaction'
<1> DEFINE l == Resumes(t, op, outcome)
<1>1. l \notin {"queued", "wait", "pause"}
  BY TaskNames DEF Resumes, Loops
<1>2. /\ pc' = [pc EXCEPT ![t] = l] /\ waiters' = WaitersLeft(t)
      /\ owner' = NoTask /\ phase' = phase
      /\ pending' = IF op = "keypad" /\ pending # t THEN pending ELSE NoTask
  BY DEF Leave
<1> HIDE DEF l
<1>3. pc \in [Tasks -> {"off", "idle", "queued", "wait", "pause", "refresh",
                       "verify", "dead"}]
  BY DEF Exclusion, TypeOK
<1>4. QueuedOnce'
  BY <1>1, <1>2, QueueLeft
<1>5. HolderIsInside'
  BY <1>1, <1>2, <1>3, TaskNames DEF HolderIsInside, Exclusion, Entitled
<1>6. OffBetweenSessions'
  <2>1. phase = "connecting" => t = "control"
    BY DEF Entitled, Alive, Connected
  <2> QED BY <1>2, <1>3, <2>1, TaskNames DEF OffBetweenSessions, Exclusion
<1>7. pending \in {t, NoTask}
  BY DEF Exclusion, OneTransaction, Entitled
<1>8. OneTransaction'
  BY <1>2, <1>7 DEF OneTransaction
<1> QED BY <1>4, <1>5, <1>6, <1>8

LEMMA BeginExclusion ==
    ASSUME Exclusion, NEW t \in Tasks, Entitled(t), NEW op, NEW left,
           Connected, ~tainted, Begin(t, op, left)
    PROVE  HolderIsInside' /\ QueuedOnce' /\ OffBetweenSessions' /\ OneTransaction'
<1>1. /\ pc' = [pc EXCEPT ![t] = "wait"] /\ waiters' = WaitersLeft(t)
      /\ owner' = t /\ pending' = t /\ active' = TRUE
      /\ phase' = phase /\ tainted' = tainted
      /\ txn' = [txn EXCEPT ![t] = [kind |-> Head(left), current |-> TRUE,
                                   seen |-> FALSE, ready |-> FALSE]]
  BY DEF Begin, link
<1>2. pc \in [Tasks -> {"off", "idle", "queued", "wait", "pause", "refresh",
                       "verify", "dead"}]
  BY DEF Exclusion, TypeOK
<1>3. QueuedOnce'
  BY <1>1, QueueLeft
<1>4. HolderIsInside'
  BY <1>1, <1>2, TaskNames DEF HolderIsInside, Exclusion, Entitled
<1>5. OffBetweenSessions'
  BY <1>1 DEF OffBetweenSessions, Connected
<1>6. txn'[t].current
  BY <1>1 DEF Exclusion, TypeOK
<1>7. OneTransaction'
  BY <1>1, <1>6 DEF OneTransaction, Connected
<1> QED BY <1>3, <1>4, <1>5, <1>7

LEMMA ProceedExclusion ==
    ASSUME Exclusion, NEW t \in Tasks, Entitled(t), NEW op, NEW left,
           Proceed(t, op, left)
    PROVE  HolderIsInside' /\ QueuedOnce' /\ OffBetweenSessions' /\ OneTransaction'
<1>1. CASE Verdict(t, op) = "go"
  <2>1. Connected /\ ~tainted
    BY <1>1 DEF Verdict
  <2> QED BY <1>1, <2>1, BeginExclusion DEF Proceed
<1>2. CASE Verdict(t, op) # "go"
  BY <1>2, LeaveExclusion DEF Proceed
<1> QED BY <1>1, <1>2

LEMMA EnterExclusion ==
    ASSUME Exclusion, NEW t \in Tasks, Alive(t), NEW op, NEW left,
           pc[t] \in {"idle", "refresh", "verify"}, Enter(t, op, left)
    PROVE  HolderIsInside' /\ QueuedOnce' /\ OffBetweenSessions' /\ OneTransaction'
<1>1. CASE owner = NoTask /\ waiters = <<>>
  <2>1. Entitled(t)
    BY <1>1 DEF Entitled
  <2> QED BY <1>1, <2>1, ProceedExclusion DEF Enter
<1>2. CASE ~(owner = NoTask /\ waiters = <<>>)
  <2>1. /\ waiters' = Append(waiters, t) /\ pc' = [pc EXCEPT ![t] = "queued"]
        /\ phase' = phase /\ owner' = owner /\ pending' = pending
        /\ active' = active /\ tainted' = tainted /\ txn' = txn
    BY <1>2 DEF Enter, link, sync
  <2>2. /\ waiters \in Seq(Tasks) /\ Distinct(waiters)
        /\ \A u \in Tasks : pc[u] = "queued" <=> Queues(u, waiters)
        /\ \A u \in Tasks : pc'[u] = IF u = t THEN "queued" ELSE pc[u]
    BY <2>1 DEF Exclusion, TypeOK, QueuedOnce, Distinct
  <2>3. /\ Distinct(Append(waiters, t))
        /\ \A u \in Tasks : Queues(u, Append(waiters, t)) <=> Queues(u, waiters) \/ u = t
    BY <2>2, QueueArrival
  <2>4. QueuedOnce'
    <3>1. \A u \in Tasks : pc'[u] = "queued" <=> Queues(u, waiters')
      BY <2>1, <2>2, <2>3
    <3>2. Distinct(waiters')
      BY <2>1, <2>3
    <3> QED BY <3>1, <3>2 DEF QueuedOnce, Distinct
  <2>5. HolderIsInside'
    BY <2>1, <2>2 DEF HolderIsInside, Exclusion
  <2>6. OffBetweenSessions'
    <3>1. phase = "connecting" => t = "control"
      BY DEF Alive, Connected
    <3> QED BY <2>1, <2>2, <3>1, TaskNames DEF OffBetweenSessions, Exclusion, Tasks
  <2>7. OneTransaction'
    BY <2>1 DEF OneTransaction, Exclusion, Connected
  <2> QED BY <2>4, <2>5, <2>6, <2>7
<1> QED BY <1>1, <1>2

\* A step that moves no task, sends no transaction and opens no session.
LEMMA QuietExclusion ==
    ASSUME Exclusion, UNCHANGED <<owner, waiters, pc, pending, active, tainted>>,
           phase' = phase \/ (phase' # "connecting" /\ pending = NoTask)
                          \/ (pending = NoTask /\ \A t \in SessionTasks : pc[t] = "off"),
           \A t \in Tasks : txn[t].current => txn'[t].current
    PROVE  HolderIsInside' /\ QueuedOnce' /\ OffBetweenSessions' /\ OneTransaction'
<1>1. HolderIsInside' /\ QueuedOnce'
  BY DEF HolderIsInside, QueuedOnce, Queues, Exclusion
<1>2. OffBetweenSessions'
  BY DEF OffBetweenSessions, Exclusion
<1>3. OneTransaction'
  BY DEF OneTransaction, Exclusion, Connected, TypeOK
<1> QED BY <1>1, <1>2, <1>3

LEMMA ExclusionLoop ==
    ASSUME Exclusion, Loop
    PROVE  HolderIsInside' /\ QueuedOnce' /\ OffBetweenSessions' /\ OneTransaction'
BY EnterExclusion, TaskNames
   DEF Loop, Startup, Resync, Periodic, PeriodicRefresh, Keypad, Alive

LEMMA ExclusionWorker ==
    ASSUME Exclusion, Worker
    PROVE  HolderIsInside' /\ QueuedOnce' /\ OffBetweenSessions' /\ OneTransaction'
<1>1. CASE EnqueueControl \/ ControlExpired
  BY <1>1, QuietExclusion DEF EnqueueControl, ControlExpired, link, lock, sync, tasks
<1>2. CASE Control \/ Verify
  BY <1>2, EnterExclusion, TaskNames DEF Control, Verify, Alive
<1>3. CASE VerifyTooLate
  <2>1. /\ pc["control"] = "verify" /\ pc' = [pc EXCEPT !["control"] = "idle"]
        /\ phase' = phase /\ owner' = owner /\ waiters' = waiters /\ pending' = pending
        /\ active' = active /\ tainted' = tainted /\ txn' = txn
    BY <1>3 DEF VerifyTooLate, link, lock, sync
  <2>2. \A u \in Tasks : pc'[u] = IF u = "control" THEN "idle" ELSE pc[u]
    BY <2>1 DEF Exclusion, TypeOK
  <2>3. HolderIsInside'
    BY <2>1, <2>2 DEF HolderIsInside, Exclusion
  <2>4. QueuedOnce'
    BY <2>1, <2>2 DEF QueuedOnce, Queues, Exclusion
  <2>5. OffBetweenSessions' /\ OneTransaction'
    BY <2>1, <2>2, TaskNames DEF OffBetweenSessions, OneTransaction, Exclusion, Connected, Tasks
  <2> QED BY <2>3, <2>4, <2>5
<1> QED BY <1>1, <1>2, <1>3 DEF Worker

LEMMA ExclusionWire ==
    ASSUME Exclusion, Wire
    PROVE  HolderIsInside' /\ QueuedOnce' /\ OffBetweenSessions' /\ OneTransaction'
<1>1. \A t \in Tasks : txn[t].current => txn'[t].current
  <2>0. txn \in [Tasks -> [kind : Kinds, current : BOOLEAN,
                          seen : BOOLEAN, ready : BOOLEAN]]
    BY DEF Exclusion, TypeOK
  <2>1. CASE ReceiveReady
    BY <2>0, <2>1 DEF ReceiveReady
  <2>2. CASE ReceiveResponse
    BY <2>0, <2>2 DEF ReceiveResponse
  <2>3. CASE ReceiveXF
    BY <2>0, <2>3 DEF ReceiveXF
  <2>4. CASE txn' = txn
    BY <2>4
  <2> QED BY <2>1, <2>2, <2>3, <2>4
          DEF Wire, Transmit, ReceiveXN, ReceiveEvent, ReceiveInvalid, sync
<1>2. UNCHANGED <<phase, owner, waiters, pc, pending, active, tainted>>
  BY DEF Wire, Transmit, ReceiveReady, ReceiveResponse, ReceiveXF, ReceiveXN,
         ReceiveEvent, ReceiveInvalid, link, lock, sync, tasks
<1> QED BY <1>1, <1>2, QuietExclusion

LEMMA ExclusionSession ==
    ASSUME Exclusion, Session
    PROVE  HolderIsInside' /\ QueuedOnce' /\ OffBetweenSessions' /\ OneTransaction'
<1>1. CASE Connect
  <2>1. /\ phase = "connecting" /\ phase' = "running" /\ pending' = NoTask
        /\ owner' = owner /\ waiters' = waiters
        /\ pc' = [t \in Tasks |-> IF t = "control" THEN pc[t] ELSE "idle"]
    BY <1>1 DEF Connect, ResetSession, lock
  <2>2. \A t \in Tasks : t # "control" => pc[t] = "off" /\ pc'[t] = "idle"
    BY <2>1 DEF Exclusion, OffBetweenSessions, Tasks
  <2>3. pc'["control"] = pc["control"]
    BY <2>1, TaskNames
  <2>4. HolderIsInside'
    BY <2>1, <2>2, <2>3 DEF HolderIsInside, Exclusion
  <2>5. QueuedOnce'
    BY <2>1, <2>2, <2>3 DEF QueuedOnce, Queues, Exclusion
  <2>6. OffBetweenSessions' /\ OneTransaction'
    BY <2>1 DEF OffBetweenSessions, OneTransaction
  <2> QED BY <2>4, <2>5, <2>6
<1>2. CASE PeerCloses
  BY <1>2, QuietExclusion DEF PeerCloses, lock, sync, tasks
<1>3. CASE SessionLost
  <2>1. /\ phase' = "stopping" /\ pending' = NoTask /\ owner' = owner
        /\ waiters' = waiters /\ pc' = pc
    BY <1>3 DEF SessionLost, ResetSession, lock, tasks
  <2>2. HolderIsInside' /\ QueuedOnce'
    BY <2>1 DEF HolderIsInside, QueuedOnce, Queues, Exclusion
  <2>3. OffBetweenSessions' /\ OneTransaction'
    BY <2>1 DEF OffBetweenSessions, OneTransaction
  <2> QED BY <2>2, <2>3
<1>4. CASE SessionStopped
  <2>1. pending = NoTask
    BY <1>4 DEF SessionStopped, Exclusion, OneTransaction, Connected
  <2> QED BY <1>4, <2>1, QuietExclusion DEF SessionStopped, lock, sync, tasks
<1> QED BY <1>1, <1>2, <1>3, <1>4 DEF Session

LEMMA ExclusionTask ==
    ASSUME Exclusion, NEW t \in Tasks, TaskStep(t)
    PROVE  HolderIsInside' /\ QueuedOnce' /\ OffBetweenSessions' /\ OneTransaction'
<1>0. /\ pc[t] \in {"wait", "pause"} <=> owner = t
      /\ pc \in [Tasks -> {"off", "idle", "queued", "wait", "pause", "refresh",
                           "verify", "dead"}]
  BY DEF Exclusion, HolderIsInside, TypeOK
<1>1. CASE Granted(t)
  <2>1. Entitled(t)
    BY <1>1 DEF Granted, Entitled
  <2> QED BY <1>1, <2>1, ProceedExclusion DEF Granted
<1>2. CASE Answered(t)
  <2>1. Entitled(t) /\ owner = t
    BY <1>0, <1>2 DEF Answered, Entitled
  <2>2. CASE job[t].op = "external"
    BY <1>2, <2>1, <2>2, ProceedExclusion, LeaveExclusion DEF Answered
  <2>3. CASE job[t].op # "external"
    <3>1. /\ pc' = [pc EXCEPT ![t] = "pause"]
          /\ pending' \in {pending, NoTask}
          /\ phase' = phase /\ owner' = owner /\ waiters' = waiters
          /\ active' = active /\ tainted' = tainted /\ txn' = txn
      BY <1>2, <2>3 DEF Answered, link, lock
    <3>2. \A u \in Tasks : pc'[u] = IF u = t THEN "pause" ELSE pc[u]
      BY <1>0, <3>1
    <3>3. pc[t] = "wait" /\ Alive(t)
      BY <1>2 DEF Answered
    <3>4. HolderIsInside'
      BY <2>1, <3>1, <3>2 DEF HolderIsInside, Exclusion
    <3>5. QueuedOnce'
      BY <3>1, <3>2, <3>3 DEF QueuedOnce, Queues, Exclusion
    <3>6. OffBetweenSessions'
      BY <3>1, <3>2, <3>3, TaskNames
         DEF OffBetweenSessions, Exclusion, Alive, Connected, Tasks
    <3>7. OneTransaction'
      BY <3>1 DEF OneTransaction, Exclusion, Connected
    <3> QED BY <3>4, <3>5, <3>6, <3>7
  <2> QED BY <2>2, <2>3
<1>3. CASE TimesOut(t)
  <2>1. Entitled(t)
    BY <1>0, <1>3 DEF TimesOut, Entitled
  <2> QED BY <1>3, <2>1, LeaveExclusion DEF TimesOut
<1>4. CASE Paced(t)
  <2>1. Entitled(t)
    BY <1>0, <1>4 DEF Paced, Entitled
  <2> QED BY <1>4, <2>1, ProceedExclusion, LeaveExclusion DEF Paced
<1>5. CASE Cancelled(t)
  <2>1. /\ pc' = [pc EXCEPT ![t] = "off"] /\ phase = "stopping" /\ phase' = phase
    BY <1>5 DEF Cancelled, link
  <2>2. \A u \in Tasks : pc'[u] = IF u = t THEN "off" ELSE pc[u]
    BY <1>0, <2>1
  <2>3. pending = NoTask /\ pending' = NoTask
    BY <1>5, <2>1 DEF Cancelled, Exclusion, OneTransaction, Connected
  <2>4. OffBetweenSessions' /\ OneTransaction'
    BY <2>1, <2>3 DEF OffBetweenSessions, OneTransaction
  <2>5. HolderIsInside'
    <3>1. CASE owner = t
      BY <1>5, <2>2, <3>1, TaskNames DEF Cancelled, HolderIsInside, Exclusion
    <3>2. CASE owner # t
      BY <1>5, <2>2, <3>2 DEF Cancelled, HolderIsInside, Exclusion
    <3> QED BY <3>1, <3>2
  <2>6. QueuedOnce'
    <3>0. /\ waiters \in Seq(Tasks) /\ Distinct(waiters)
          /\ \A u \in Tasks : pc[u] = "queued" <=> Queues(u, waiters)
      BY DEF Exclusion, TypeOK, QueuedOnce, Distinct
    <3>1. CASE pc[t] = "queued"
      <4>1. waiters' = Without(waiters, t)
        BY <1>0, <1>5, <3>1 DEF Cancelled
      <4>2. /\ Distinct(waiters')
            /\ \A u \in Tasks : Queues(u, waiters') <=> Queues(u, waiters) /\ u # t
        BY <3>0, <3>1, <4>1, QueueCancel
      <4>3. \A u \in Tasks : pc'[u] = "queued" <=> Queues(u, waiters')
        BY <2>2, <3>0, <4>2
      <4> QED BY <4>2, <4>3 DEF QueuedOnce, Distinct
    <3>2. CASE pc[t] # "queued"
      <4>1. waiters' = waiters
        BY <1>5, <3>2 DEF Cancelled
      <4> QED BY <2>2, <3>2, <4>1 DEF QueuedOnce, Queues, Exclusion
    <3> QED BY <3>1, <3>2
  <2> QED BY <2>4, <2>5, <2>6
<1> QED BY <1>1, <1>2, <1>3, <1>4, <1>5 DEF TaskStep

LEMMA ExclusionInvariant == Spec => []Exclusion
<1>1. Init => Exclusion
  <2> SUFFICES ASSUME Init PROVE Exclusion
    OBVIOUS
  <2>1. HolderIsInside /\ QueuedOnce
    BY TaskNames DEF Init, HolderIsInside, QueuedOnce, Queues
  <2>2. OffBetweenSessions /\ OneTransaction
    BY TaskNames DEF Init, OffBetweenSessions, OneTransaction, Tasks
  <2> QED BY <2>1, <2>2, InitType DEF Exclusion
<1>2. TypeOK /\ WorkLeft /\ TypeOK' /\ Exclusion /\ [Next]_vars => Exclusion'
  <2> SUFFICES ASSUME TypeOK', Exclusion, [Next]_vars PROVE Exclusion'
    OBVIOUS
  <2>1. CASE UNCHANGED vars
    BY <2>1, QuietExclusion DEF Exclusion, vars, link, lock, sync, tasks
  <2>2. CASE Next
    <3>1. HolderIsInside' /\ QueuedOnce' /\ OffBetweenSessions' /\ OneTransaction'
      BY <2>2, ExclusionLoop, ExclusionWorker, ExclusionWire, ExclusionSession,
         ExclusionTask DEF Next
    <3> QED BY <3>1 DEF Exclusion
  <2> QED BY <2>1, <2>2
<1> QED BY <1>1, <1>2, TypeCorrect, PTL DEF Spec

\* At most one transaction is pending, and it is the lock holder's, of this
\* session and untainted, whichever loops run and whatever the panel sends.
THEOREM TransactionsAreSerialised == Spec => []OneTransaction
<1>1. Exclusion => OneTransaction
  BY DEF Exclusion
<1> QED BY <1>1, ExclusionInvariant, PTL

\* The lock and the tasks agree, also when _stop_session cancels them.
THEOREM LockIsDisciplined == Spec => []LockDiscipline
<1>1. Exclusion => LockDiscipline
  BY DEF Exclusion, LockDiscipline
<1> QED BY <1>1, ExclusionInvariant, PTL

-----------------------------------------------------------------------------
(***************************************************************************)
(* What is under way.  A packet names no transaction: whose answer it is   *)
(* follows only from what may be under way when.                           *)
(***************************************************************************)

\* The pending transaction still awaits its answer.
Awaiting == pending # NoTask /\ pc[pending] = "wait" /\ ~EventSet(pending)

\* A step that leaves the wire and the awaited transaction alone.
Undisturbed ==
    /\ UNCHANGED <<phase, txq, rx, tainted>>
    /\ Awaiting => pending' = pending /\ pc'[pending] = "wait" /\ txn'[pending] = txn[pending]
    /\ \A t \in Tasks : \/ txn'[t] = txn[t]
                        \/ txn'[t] = [NoTxn EXCEPT !.current = txn[t].current]
    /\ automation' = automation \/ automation' = "explicit"

\* A transaction that is given up unanswered.
Taints ==
    /\ UNCHANGED <<phase, txq, rx>> /\ tainted'
    /\ \A t \in Tasks : \/ txn'[t] = txn[t]
                        \/ txn'[t] = [NoTxn EXCEPT !.current = txn[t].current]

\* A transaction that begins while no other awaits its answer.
Starts(t, kind) ==
    /\ ~Awaiting /\ Connected /\ ~tainted
    /\ pending' = t
    /\ txn' = [txn EXCEPT ![t] = [kind |-> kind, current |-> TRUE,
                                  seen |-> FALSE, ready |-> FALSE]]
    /\ txq' = Append(Orphan(txq, t), [kind |-> kind, for |-> t])
    /\ rx' = Orphan(rx, t)
    /\ pc' = [pc EXCEPT ![t] = "wait"]
    /\ UNCHANGED <<phase, tainted, automation>>

\* The task that runs awaits no answer.
Rested(t) == Entitled(t) /\ ~(pending = t /\ Awaiting)

LEMMA RestedMeansQuiet ==
    ASSUME Exclusion, NEW t \in Tasks, Rested(t)
    PROVE  ~Awaiting
  BY TaskNames DEF Exclusion, OneTransaction, Rested, Entitled, Awaiting

LEMMA DroppedTransactions ==
    ASSUME TypeOK, NEW t \in Tasks, txn' = Dropped(t)
    PROVE  \A u \in Tasks : \/ txn'[u] = txn[u]
                            \/ txn'[u] = [NoTxn EXCEPT !.current = txn[u].current]
  BY DEF TypeOK, Dropped

LEMMA LeaveOnTheWire ==
    ASSUME Exclusion, NEW t \in Tasks, NEW op, NEW outcome,
           Rested(t) \/ TimedOut(outcome), Leave(t, op, outcome)
    PROVE  Undisturbed \/ Taints
<1>1. /\ UNCHANGED <<phase, txq, rx, automation>>
      /\ tainted' = (tainted \/ TimedOut(outcome)) /\ txn' = Dropped(t)
  BY DEF Leave, wire
<1>2. \A u \in Tasks : \/ txn'[u] = txn[u]
                       \/ txn'[u] = [NoTxn EXCEPT !.current = txn[u].current]
  BY <1>1, DroppedTransactions DEF Exclusion
<1>3. CASE TimedOut(outcome)
  BY <1>1, <1>2, <1>3 DEF Taints
<1>4. CASE ~TimedOut(outcome)
  <2>1. tainted' = tainted
    BY <1>1, <1>4 DEF Exclusion, TypeOK
  <2> QED BY <1>1, <1>2, <1>4, <2>1, RestedMeansQuiet DEF Undisturbed
<1> QED BY <1>3, <1>4

LEMMA ProceedOnTheWire ==
    ASSUME Exclusion, NEW t \in Tasks, NEW op, NEW left, Rested(t), Proceed(t, op, left)
    PROVE  Undisturbed \/ Taints \/ \E u \in Tasks : \E kind : Starts(u, kind)
<1>1. CASE Verdict(t, op) = "go"
  <2>1. Connected /\ ~tainted
    BY <1>1 DEF Verdict
  <2>2. Begin(t, op, left)
    BY <1>1 DEF Proceed
  <2>3. Starts(t, Head(left))
    BY <2>1, <2>2, RestedMeansQuiet DEF Begin, Starts, link, control
  <2> QED BY <2>3
<1>2. CASE Verdict(t, op) # "go"
  BY <1>2, LeaveOnTheWire DEF Proceed
<1> QED BY <1>1, <1>2

\* A task that queues for the lock did not wait for the panel.
LEMMA EnterOnTheWire ==
    ASSUME Exclusion, NEW t \in Tasks, Alive(t), NEW op, NEW left,
           pc[t] \in {"idle", "refresh", "verify"}, Enter(t, op, left)
    PROVE  Undisturbed \/ Taints \/ \E u \in Tasks : \E kind : Starts(u, kind)
<1>1. CASE owner = NoTask /\ waiters = <<>>
  <2>1. Rested(t)
    BY <1>1 DEF Rested, Entitled, Awaiting
  <2> QED BY <1>1, <2>1, ProceedOnTheWire DEF Enter
<1>2. CASE ~(owner = NoTask /\ waiters = <<>>)
  <2>1. /\ pc' = [pc EXCEPT ![t] = "queued"]
        /\ UNCHANGED <<phase, txq, rx, tainted, txn, pending, automation>>
    BY <1>2 DEF Enter, link, sync, wire, control
  <2>2. Awaiting => pending # t /\ pc'[pending] = "wait"
    BY <2>1 DEF Awaiting, Exclusion, TypeOK
  <2>3. Undisturbed
    BY <2>1, <2>2 DEF Undisturbed
  <2> QED BY <2>3
<1> QED BY <1>1, <1>2

LEMMA TaskOnTheWire ==
    ASSUME Exclusion, NEW t \in Tasks, TaskStep(t)
    PROVE  Undisturbed \/ Taints \/ \E u \in Tasks : \E kind : Starts(u, kind)
<1>0. /\ pc[t] \in {"wait", "pause"} <=> owner = t
      /\ pc \in [Tasks -> {"off", "idle", "queued", "wait", "pause", "refresh",
                           "verify", "dead"}]
  BY DEF Exclusion, HolderIsInside, TypeOK
<1>1. CASE Granted(t)
  <2>1. Rested(t)
    BY <1>1 DEF Granted, Rested, Entitled, Awaiting
  <2> QED BY <1>1, <2>1, ProceedOnTheWire DEF Granted
<1>2. CASE Answered(t)
  <2>1. Rested(t)
    BY <1>0, <1>2 DEF Answered, Rested, Entitled, Awaiting
  <2>2. CASE job[t].op = "external"
    BY <1>2, <2>1, <2>2, ProceedOnTheWire, LeaveOnTheWire DEF Answered
  <2>3. CASE job[t].op # "external"
    <3>1. UNCHANGED <<phase, txq, rx, tainted, txn, automation>>
      BY <1>2, <2>3 DEF Answered, link, wire, control
    <3> QED BY <2>1, <3>1, RestedMeansQuiet DEF Undisturbed
  <2> QED BY <2>2, <2>3
<1>3. CASE TimesOut(t)
  <2>1. TimedOut("optional") /\ TimedOut("timeout")
    BY DEF TimedOut
  <2> QED BY <1>3, <2>1, LeaveOnTheWire DEF TimesOut
<1>4. CASE Paced(t)
  <2>1. Rested(t)
    BY <1>0, <1>4 DEF Paced, Rested, Entitled, Awaiting
  <2> QED BY <1>4, <2>1, ProceedOnTheWire, LeaveOnTheWire DEF Paced
<1>5. CASE Cancelled(t)
  <2>1. /\ UNCHANGED <<phase, txq, rx, tainted, automation>> /\ txn' = Dropped(t)
        /\ phase = "stopping"
    BY <1>5 DEF Cancelled, link, wire, control
  <2>2. ~Awaiting
    BY <2>1 DEF Awaiting, Exclusion, OneTransaction, Connected
  <2> QED BY <2>1, <2>2, DroppedTransactions DEF Undisturbed, Exclusion
<1> QED BY <1>1, <1>2, <1>3, <1>4, <1>5 DEF TaskStep

\* The kinds of step, as far as the wire is concerned.
LEMMA WireKinds ==
    ASSUME Exclusion, [Next]_vars
    PROVE  \/ Undisturbed \/ Taints
           \/ \E u \in Tasks : \E kind : Starts(u, kind)
           \/ Transmit \/ ReceiveReady \/ ReceiveResponse \/ ReceiveXF
           \/ Connect \/ SessionLost \/ SessionStopped
<1>1. CASE Loop
  BY <1>1, EnterOnTheWire, TaskNames
     DEF Loop, Startup, Resync, Periodic, PeriodicRefresh, Keypad, Alive
<1>2. CASE Control \/ Verify
  BY <1>2, EnterOnTheWire, TaskNames DEF Control, Verify, Alive
<1>3. CASE EnqueueControl \/ ControlExpired
  BY <1>3 DEF EnqueueControl, ControlExpired, link, sync, tasks, wire, Undisturbed, Awaiting
<1>4. CASE VerifyTooLate
  <2>1. /\ UNCHANGED <<phase, txq, rx, tainted, txn, pending, automation>>
        /\ pc["control"] = "verify" /\ pc' = [pc EXCEPT !["control"] = "idle"]
    BY <1>4 DEF VerifyTooLate, link, sync, wire
  <2>2. Awaiting => pc'[pending] = "wait"
    BY <2>1 DEF Awaiting, Exclusion, TypeOK
  <2> QED BY <2>1, <2>2 DEF Undisturbed
<1>5. CASE ReceiveXN \/ ReceiveEvent \/ ReceiveInvalid \/ PeerCloses
  <2>1. /\ UNCHANGED <<phase, txq, rx, tainted, txn, pending, pc>>
        /\ automation' = automation \/ automation' = "explicit"
    BY <1>5 DEF ReceiveXN, ReceiveEvent, ReceiveInvalid, PeerCloses, link, sync, tasks,
                wire, control
  <2> QED BY <2>1 DEF Undisturbed, Awaiting
<1>6. CASE UNCHANGED vars
  BY <1>6 DEF vars, link, sync, tasks, wire, control, Undisturbed, Awaiting
<1>7. ASSUME NEW t \in Tasks, TaskStep(t)
      PROVE  Undisturbed \/ Taints \/ \E u \in Tasks : \E kind : Starts(u, kind)
  BY <1>7, TaskOnTheWire
<1> QED BY <1>1, <1>2, <1>3, <1>4, <1>5, <1>6, <1>7 DEF Next, Worker, Wire, Session

-----------------------------------------------------------------------------
\* Between sessions nothing is under way to the bridge, and before the next one
\* the frames of the last are gone.
QuietOffline ==
    /\ ~Connected => rx = <<>>
    /\ phase = "connecting" => txq = <<>>

\* What the panel may still send for the pending transaction of t.
Remaining(t) == IF txn[t].seen THEN Tail(Answer(txn[t].kind)) ELSE Answer(txn[t].kind)

FrameUnsent(t) ==
    /\ txq = <<[kind |-> txn[t].kind, for |-> t]>> /\ rx = <<>>
    /\ ~txn[t].seen

AnswerComing(t) ==
    /\ txq = <<>>
    /\ Len(rx) <= Len(Remaining(t))
    /\ \A i \in DOMAIN rx : rx[i] = [msg |-> Remaining(t)[i], for |-> t]

\* As long as no transaction has been given up and no 08XF has been heard, all
\* that is under way is the frame, or the answer, of the transaction that awaits it.
OnlyTheAwaited ==
    Connected /\ ~tainted /\ automation \in {"unknown", "inferred"}
    => \/ txq = <<>> /\ rx = <<>>
       \/ Awaiting /\ (FrameUnsent(pending) \/ AnswerComing(pending))

FramesAreCurrent ==
    Connected => \A i \in DOMAIN txq : txq[i].for # NoTask => txn[txq[i].for].current

UnderWay == Exclusion /\ QuietOffline /\ FramesAreCurrent /\ OnlyTheAwaited

\* Disowning keeps what is not disowned, and the kinds and the messages of all.
LEMMA OrphanKeeps ==
    ASSUME NEW s \in Seq(Frame) \cup Seq(Packet), NEW t \in Tasks
    PROVE  /\ Len(Orphan(s, t)) = Len(s) /\ DOMAIN Orphan(s, t) = DOMAIN s
           /\ \A i \in DOMAIN s :
                 Orphan(s, t)[i].for # NoTask => /\ Orphan(s, t)[i].for = s[i].for
                                                 /\ s[i].for # t
           /\ s = <<>> => Orphan(s, t) = <<>>
<1>1. DOMAIN Orphan(s, t) = DOMAIN s
  BY DEF Orphan
<1>2. Orphan(s, t) \in Seq(Frame) \cup Seq(Packet)
  BY OrphanFrames, OrphanPackets
<1>3. Len(Orphan(s, t)) = Len(s)
  BY <1>1, <1>2
<1>4. \A i \in DOMAIN s : Orphan(s, t)[i].for # NoTask => /\ Orphan(s, t)[i].for = s[i].for
                                                         /\ s[i].for # t
  <2> SUFFICES ASSUME NEW i \in DOMAIN s, Orphan(s, t)[i].for # NoTask
               PROVE  Orphan(s, t)[i].for = s[i].for /\ s[i].for # t
    OBVIOUS
  <2>1. s[i] \in Frame \cup Packet
    OBVIOUS
  <2>2. CASE s[i].for = t
    <3>1. Orphan(s, t)[i] = [s[i] EXCEPT !.for = NoTask]
      BY <2>2 DEF Orphan
    <3>2. Orphan(s, t)[i].for = NoTask
      BY <2>1, <3>1 DEF Frame, Packet
    <3> QED BY <3>2
  <2>3. CASE s[i].for # t
    BY <2>3 DEF Orphan
  <2> QED BY <2>2, <2>3
<1>5. s = <<>> => Orphan(s, t) = <<>>
  BY <1>2, <1>3
<1> QED BY <1>1, <1>3, <1>4, <1>5

\* What a frame and a packet are made of.
LEMMA FrameParts ==
    ASSUME TypeOK, NEW i \in DOMAIN txq
    PROVE  txq[i] \in Frame /\ txq[i].kind \in Kinds /\ txq[i].for \in Tasks \cup {NoTask}
<1>1. txq[i] \in Frame
  BY DEF TypeOK
<1> QED BY <1>1 DEF Frame

LEMMA PacketParts ==
    ASSUME TypeOK, NEW i \in DOMAIN rx
    PROVE  rx[i] \in Packet /\ rx[i].msg \in Packets /\ rx[i].for \in Tasks \cup {NoTask}
<1>1. rx[i] \in Packet
  BY DEF TypeOK
<1> QED BY <1>1 DEF Packet

LEMMA StartsUnderWay ==
    ASSUME UnderWay, NEW t \in Tasks, NEW kind, Starts(t, kind)
    PROVE  QuietOffline' /\ FramesAreCurrent' /\ OnlyTheAwaited'
<1>0. /\ txq \in Seq(Frame) /\ rx \in Seq(Packet)
      /\ txn \in [Tasks -> [kind : Kinds, current : BOOLEAN, seen : BOOLEAN, ready : BOOLEAN]]
      /\ pc' = [pc EXCEPT ![t] = "wait"] /\ t # NoTask
      /\ Orphan(txq, t) \in Seq(Frame)
      /\ pc'[t] = "wait"
  BY OrphanFrames, TaskNames DEF UnderWay, Exclusion, TypeOK, Starts
<1>1. /\ txn'[t].kind = kind /\ txn'[t].current /\ ~txn'[t].seen /\ ~txn'[t].ready
      /\ \A u \in Tasks : u # t => txn'[u] = txn[u]
  BY <1>0 DEF Starts
<1>2. QuietOffline'
  BY DEF Starts, QuietOffline, Connected
<1>3. FramesAreCurrent'
  <2> SUFFICES ASSUME NEW i \in DOMAIN txq', txq'[i].for # NoTask
               PROVE  txn'[txq'[i].for].current
    BY DEF FramesAreCurrent
  <2>1. CASE i \in DOMAIN txq
    <3>1. txq'[i] = Orphan(txq, t)[i]
      BY <1>0, <2>1, OrphanKeeps DEF Starts
    <3>2. txq'[i].for = txq[i].for /\ txq[i].for # t /\ txq[i].for # NoTask
      BY <1>0, <2>1, <3>1, OrphanKeeps
    <3>3. txn[txq[i].for].current
      BY <2>1, <3>2 DEF UnderWay, FramesAreCurrent, Starts
    <3>4. txq[i].for \in Tasks
      BY <2>1, <3>2, FrameParts DEF UnderWay, Exclusion
    <3> QED BY <1>1, <3>2, <3>3, <3>4
  <2>2. CASE i \notin DOMAIN txq
    <3>1. i = Len(Orphan(txq, t)) + 1
      BY <1>0, <2>2, OrphanKeeps DEF Starts
    <3>2. txq'[i].for = t
      BY <1>0, <3>1 DEF Starts
    <3> QED BY <1>1, <3>2
  <2> QED BY <2>1, <2>2
<1>4. OnlyTheAwaited'
  <2> SUFFICES ASSUME automation \in {"unknown", "inferred"} PROVE OnlyTheAwaited'
    BY DEF OnlyTheAwaited, Starts
  <2>1. txq = <<>> /\ rx = <<>>
    BY DEF UnderWay, OnlyTheAwaited, Starts
  <2>2. txq' = <<[kind |-> kind, for |-> t]>> /\ rx' = <<>>
    <3>1. Orphan(txq, t) = <<>> /\ Orphan(rx, t) = <<>>
      BY <1>0, <2>1, OrphanKeeps
    <3> QED BY <3>1 DEF Starts
  <2>3. FrameUnsent(pending)'
    BY <1>1, <2>2 DEF FrameUnsent, Starts
  <2>4. Awaiting'
    BY <1>0, <1>1 DEF EventSet, Awaiting, Starts
  <2> QED BY <2>3, <2>4 DEF OnlyTheAwaited
<1> QED BY <1>2, <1>3, <1>4

\* Steps that leave the wire alone.
LEMMA UndisturbedUnderWay ==
    ASSUME UnderWay, Undisturbed \/ Taints
    PROVE  QuietOffline' /\ FramesAreCurrent' /\ OnlyTheAwaited'
<1>0. /\ UNCHANGED <<phase, txq, rx>>
      /\ \A t \in Tasks : \/ txn'[t] = txn[t]
                          \/ txn'[t] = [NoTxn EXCEPT !.current = txn[t].current]
  BY DEF Undisturbed, Taints
<1>1. QuietOffline'
  BY <1>0 DEF UnderWay, QuietOffline, Connected
<1>2. FramesAreCurrent'
  <2>1. \A t \in Tasks : txn[t].current => txn'[t].current
    BY <1>0 DEF NoTxn
  <2>2. \A i \in DOMAIN txq : txq[i].for \in Tasks \cup {NoTask}
    BY FrameParts DEF UnderWay, Exclusion
  <2> QED BY <1>0, <2>1, <2>2 DEF UnderWay, FramesAreCurrent, Connected
<1>3. CASE Taints
  BY <1>1, <1>2, <1>3 DEF Taints, OnlyTheAwaited
<1>4. CASE Undisturbed
  <2>1. OnlyTheAwaited'
    <3> SUFFICES ASSUME Connected, ~tainted, automation \in {"unknown", "inferred"}
                 PROVE  \/ txq' = <<>> /\ rx' = <<>>
                        \/ (Awaiting /\ (FrameUnsent(pending) \/ AnswerComing(pending)))'
      BY <1>4 DEF Undisturbed, OnlyTheAwaited, Connected
    <3>1. CASE txq = <<>> /\ rx = <<>>
      BY <1>0, <3>1
    <3>2. CASE Awaiting /\ (FrameUnsent(pending) \/ AnswerComing(pending))
      <4>1. pending' = pending /\ pc'[pending] = "wait" /\ txn'[pending] = txn[pending]
        BY <1>4, <3>2 DEF Undisturbed
      <4>2. Awaiting'
        BY <3>2, <4>1 DEF Awaiting, EventSet
      <4>3. ASSUME FrameUnsent(pending) PROVE FrameUnsent(pending)'
        BY <1>0, <4>1, <4>3 DEF FrameUnsent
      <4>4. ASSUME AnswerComing(pending) PROVE AnswerComing(pending)'
        BY <1>0, <4>1, <4>4 DEF AnswerComing, Remaining
      <4> QED BY <3>2, <4>2, <4>3, <4>4
    <3> QED BY <3>1, <3>2 DEF UnderWay, OnlyTheAwaited
  <2> QED BY <1>1, <1>2, <2>1
<1> QED BY <1>3, <1>4

\* What an answer is made of.
LEMMA AnswerParts ==
    ASSUME NEW k \in Kinds
    PROVE  /\ Answer(k) \in Seq(Packets) /\ Len(Answer(k)) \in {1, 2}
           /\ k = "control" => Answer(k) = <<"ready">>
           /\ k = "zone_descriptor" => Answer(k) = <<k>>
           /\ k \notin {"control", "zone_descriptor"} => Answer(k) = <<k, "ready">>
<1>1. /\ <<k>> \in Seq(Packets) /\ <<"ready">> \in Seq(Packets)
      /\ <<k, "ready">> \in Seq(Packets)
  BY DEF Packets
<1>2. Len(<<k>>) = 1 /\ Len(<<"ready">>) = 1 /\ Len(<<k, "ready">>) = 2
  OBVIOUS
<1>3. /\ k = "control" => Answer(k) = <<"ready">>
      /\ k = "zone_descriptor" => Answer(k) = <<k>>
      /\ k \notin {"control", "zone_descriptor"} => Answer(k) = <<k, "ready">>
  BY DEF Answer
<1> QED BY <1>1, <1>2, <1>3

\* What is left of an answer.
LEMMA RemainingParts ==
    ASSUME TypeOK, NEW t \in Tasks
    PROVE  /\ Len(Remaining(t)) \in Nat
           /\ Len(Remaining(t)) >= 1 /\ Remaining(t)[1] = "ready" => Len(Remaining(t)) = 1
           /\ Len(Remaining(t)) >= 1 /\ Remaining(t)[1] # "ready" =>
                 ~txn[t].seen /\ Remaining(t)[1] = txn[t].kind
           /\ Len(Remaining(t)) >= 2 =>
                 /\ txn[t].kind \notin {"control", "zone_descriptor"}
                 /\ ~txn[t].seen /\ Remaining(t) = <<txn[t].kind, "ready">>
           /\ txn[t].kind \notin {"control", "zone_descriptor"} /\ txn[t].seen =>
                 Remaining(t) = <<"ready">>
<1> DEFINE k == txn[t].kind
<1>1. k \in Kinds
  BY DEF TypeOK
<1>2. "ready" \notin Kinds
  BY DEF Kinds, SyncKinds
<1>3. /\ Len(<<k>>) = 1 /\ Len(<<"ready">>) = 1 /\ Len(<<k, "ready">>) = 2
      /\ Tail(<<k>>) = <<>> /\ Tail(<<"ready">>) = <<>> /\ Tail(<<k, "ready">>) = <<"ready">>
      /\ <<k>>[1] = k /\ <<"ready">>[1] = "ready" /\ <<k, "ready">>[1] = k /\ Len(<<>>) = 0
  OBVIOUS
<1>4. CASE k = "control"
  <2>1. Remaining(t) = IF txn[t].seen THEN <<>> ELSE <<"ready">>
    BY <1>1, <1>3, <1>4, AnswerParts DEF Remaining
  <2>2. CASE txn[t].seen
    BY <1>3, <1>4, <2>1, <2>2
  <2>3. CASE ~txn[t].seen
    <3>1. Len(Remaining(t)) = 1 /\ Remaining(t)[1] = "ready"
      BY <1>3, <2>1, <2>3
    <3> QED BY <1>4, <3>1
  <2> QED BY <2>2, <2>3
<1>5. CASE k = "zone_descriptor"
  <2>1. Remaining(t) = IF txn[t].seen THEN <<>> ELSE <<k>>
    BY <1>1, <1>3, <1>5, AnswerParts DEF Remaining
  <2> QED BY <1>1, <1>2, <1>3, <1>5, <2>1
<1>6. CASE k \notin {"control", "zone_descriptor"}
  <2>1. Remaining(t) = IF txn[t].seen THEN <<"ready">> ELSE <<k, "ready">>
    BY <1>1, <1>3, <1>6, AnswerParts DEF Remaining
  <2> QED BY <1>1, <1>2, <1>3, <1>6, <2>1
<1> QED BY <1>4, <1>5, <1>6

\* The panel answers the first frame with as much as it likes of its answer.
LEMMA TransmitParts ==
    ASSUME TypeOK, Transmit
    PROVE  /\ txq # <<>> /\ txq' = Tail(txq)
           /\ \E n \in 0 .. Len(Answer(txq[1].kind)) :
                 /\ Len(rx') = Len(rx) + n
                 /\ \A i \in DOMAIN rx : rx'[i] = rx[i]
                 /\ \A i \in 1 .. n : rx'[Len(rx) + i] = [msg |-> Answer(txq[1].kind)[i],
                                                         for |-> txq[1].for]
<1>1. txq # <<>> /\ txq' = Tail(txq) /\ Head(txq) = txq[1] /\ 1 \in DOMAIN txq
  BY DEF Transmit, TypeOK
<1> DEFINE k == txq[1].kind
<1>2. k \in Kinds
  BY <1>1, FrameParts
<1>3. Answer(k) \in Seq(Packets) /\ Len(Answer(k)) \in Nat
  BY <1>2, AnswerParts
<1>4. PICK n \in 0 .. Len(Answer(k)) :
         rx' = rx \o [i \in 1 .. n |-> [msg |-> SubSeq(Answer(k), 1, n)[i], for |-> txq[1].for]]
  BY <1>1 DEF Transmit
<1> DEFINE heard == [i \in 1 .. n |-> [msg |-> SubSeq(Answer(k), 1, n)[i], for |-> txq[1].for]]
<1>5. n \in Nat
  BY <1>3
<1>6. \A i \in 1 .. n : SubSeq(Answer(k), 1, n)[i] = Answer(k)[i]
  BY <1>3, <1>5
<1>7. \A i \in 1 .. n : heard[i] = [msg |-> Answer(k)[i], for |-> txq[1].for]
  BY <1>6
<1>8. heard \in Seq({heard[i] : i \in 1 .. n}) /\ Len(heard) = n
  <2> DEFINE S == {heard[i] : i \in 1 .. n}
  <2>1. heard \in [1 .. n -> S] /\ DOMAIN heard = 1 .. n
    OBVIOUS
  <2> HIDE DEF S, heard
  <2>2. heard \in Seq(S) /\ Len(heard) = n
    BY <1>5, <2>1
  <2> QED BY <2>2 DEF S
<1> HIDE DEF heard
<1>9. rx \in Seq(Packet)
  BY DEF TypeOK
<1>10. /\ Len(rx \o heard) = Len(rx) + n
       /\ \A i \in DOMAIN rx : (rx \o heard)[i] = rx[i]
       /\ \A i \in 1 .. n : (rx \o heard)[Len(rx) + i] = heard[i]
  BY <1>5, <1>8, <1>9
<1>11. rx' = rx \o heard
  BY <1>4 DEF heard
<1> QED BY <1>1, <1>7, <1>10, <1>11

LEMMA TailOfPackets ==
    ASSUME NEW s \in Seq(Packet)
    PROVE  /\ Len(s) = 1 => Tail(s) = <<>>
           /\ Len(s) = 2 => Tail(s) \in Seq(Packet) /\ Len(Tail(s)) = 1 /\ Tail(s)[1] = s[2]
<1>1. s # <<>> => /\ Tail(s) \in Seq(Packet) /\ Len(Tail(s)) = Len(s) - 1
                  /\ \A i \in 1 .. Len(Tail(s)) : Tail(s)[i] = s[i + 1]
  BY HeadTailProperties
<1>2. Len(<<>>) = 0 /\ 1 - 1 = 0 /\ 2 - 1 = 1 /\ 1 + 1 = 2 /\ 1 \in 1 .. 1 /\ 1 # 0 /\ 2 # 0
  OBVIOUS
<1>3. \A z \in Seq(Packet) : z # <<>> => Len(z) # 0
  <2>1. \A z \in Seq(Packet) : z # <<>> => Len(z) \in Nat \ {0}
    BY EmptySeq
  <2> QED BY <2>1
<1> QED BY <1>1, <1>2, <1>3, Zenon

\* When something is under way within a session that has nothing to hide, it is the
\* awaited frame or the awaited answer.
LEMMA SomethingIsAwaited ==
    ASSUME UnderWay, Connected, ~tainted, automation \in {"unknown", "inferred"},
           txq # <<>> \/ rx # <<>>
    PROVE  Awaiting /\ (FrameUnsent(pending) \/ AnswerComing(pending))
  BY DEF UnderWay, OnlyTheAwaited

LEMMA TransmitUnderWay ==
    ASSUME UnderWay, Transmit
    PROVE  QuietOffline' /\ FramesAreCurrent' /\ OnlyTheAwaited'
<1>0. /\ UNCHANGED <<phase, pending, tainted, txn, pc, automation>> /\ Connected
      /\ txq # <<>> /\ txq' = Tail(txq) /\ txq \in Seq(Frame) /\ TypeOK
  BY TransmitParts DEF Transmit, link, sync, tasks, control, UnderWay, Exclusion, TypeOK
<1>1. QuietOffline'
  BY <1>0 DEF QuietOffline, Connected
<1>2. FramesAreCurrent'
  <2>1. \A i \in DOMAIN txq' : i + 1 \in DOMAIN txq /\ txq'[i] = txq[i + 1]
    BY <1>0
  <2> QED BY <1>0, <2>1 DEF UnderWay, FramesAreCurrent
<1>3. OnlyTheAwaited'
  <2> SUFFICES ASSUME ~tainted, automation \in {"unknown", "inferred"}
               PROVE  (Awaiting /\ AnswerComing(pending))'
    BY <1>0 DEF OnlyTheAwaited
  <2>1. Awaiting /\ FrameUnsent(pending)
    BY <1>0, SomethingIsAwaited DEF AnswerComing
  <2> DEFINE k == txn[pending].kind
  <2>2. /\ txq = <<[kind |-> k, for |-> pending]>> /\ rx = <<>>
        /\ Remaining(pending) = Answer(k)
    BY <2>1 DEF FrameUnsent, Remaining
  <2>3. txq[1].kind = k /\ txq[1].for = pending /\ txq' = <<>>
    BY <1>0, <2>2
  <2>4. k \in Kinds
    BY <1>0, <2>1 DEF TypeOK, Awaiting
  <2>5. /\ Len(rx') <= Len(Answer(k))
        /\ \A i \in DOMAIN rx' : rx'[i] = [msg |-> Answer(k)[i], for |-> pending]
    <3>1. PICK n \in 0 .. Len(Answer(k)) :
             /\ Len(rx') = Len(rx) + n
             /\ \A i \in 1 .. n : rx'[Len(rx) + i] = [msg |-> Answer(k)[i], for |-> pending]
      BY <1>0, <2>3, TransmitParts
    <3>2. Len(rx) = 0 /\ Len(Answer(k)) \in Nat
      BY <2>2, <2>4, AnswerParts
    <3>3. Len(rx') = n /\ n <= Len(Answer(k))
      BY <3>1, <3>2
    <3>4. rx' \in Seq(Packet)
      BY <1>0, WireType DEF Wire, TypeOK
    <3>5. DOMAIN rx' = 1 .. n /\ \A i \in 1 .. n : 0 + i = i
      BY <3>3, <3>4
    <3> QED BY <3>1, <3>2, <3>3, <3>5
  <2>6. (Remaining(pending) = Answer(txn[pending].kind))'
    BY <1>0, <2>1 DEF FrameUnsent, Remaining
  <2>7. Awaiting'
    BY <1>0, <2>1 DEF Awaiting, EventSet
  <2> QED BY <1>0, <2>3, <2>5, <2>6, <2>7 DEF AnswerComing
<1> QED BY <1>1, <1>2, <1>3

\* 08OK heard within such a session is the last of the awaited answer.
LEMMA ReadyIsAwaited ==
    ASSUME UnderWay, ReceiveReady, ~tainted, automation \in {"unknown", "inferred"}
    PROVE  /\ Awaiting /\ Head(rx).for = pending /\ txq = <<>> /\ Tail(rx) = <<>>
<1>1. /\ rx # <<>> /\ Head(rx).msg = "ready" /\ rx \in Seq(Packet) /\ Connected
      /\ Head(rx) = rx[1] /\ 1 \in DOMAIN rx
  BY DEF ReceiveReady, UnderWay, Exclusion, TypeOK
<1>2. Awaiting /\ AnswerComing(pending)
  BY <1>1, SomethingIsAwaited DEF FrameUnsent
<1> DEFINE k == txn[pending].kind
<1>3. k \in Kinds
  BY <1>2 DEF Awaiting, UnderWay, Exclusion, TypeOK
<1>4. /\ rx[1].for = pending /\ Remaining(pending)[1] = "ready"
      /\ Len(rx) <= Len(Remaining(pending)) /\ txq = <<>>
  BY <1>1, <1>2 DEF AnswerComing
<1>5. Len(rx) \in Nat /\ Len(rx) >= 1 /\ Len(Remaining(pending)) \in Nat
  BY <1>1, <1>2, RemainingParts DEF Awaiting, UnderWay, Exclusion, TypeOK
<1>6. Len(Remaining(pending)) = 1
  BY <1>2, <1>4, <1>5, RemainingParts DEF Awaiting, UnderWay, Exclusion, TypeOK
<1>7. Len(rx) = 1
  BY <1>4, <1>5, <1>6
<1>9. Tail(rx) = <<>>
  BY <1>1, <1>7, TailOfPackets
<1> QED BY <1>1, <1>2, <1>4, <1>9

LEMMA ReceiveReadyUnderWay ==
    ASSUME UnderWay, ReceiveReady
    PROVE  QuietOffline' /\ FramesAreCurrent' /\ OnlyTheAwaited'
<1>0. /\ UNCHANGED <<phase, pending, tainted, txq>> /\ rx' = Tail(rx) /\ Connected
      /\ automation \in {"unknown", "inferred", "explicit", "communication_off"}
      /\ automation' \in {"unknown", "inferred"} => automation \in {"unknown", "inferred"}
  BY DEF ReceiveReady, link, UnderWay, Exclusion, TypeOK
<1>1. \A t \in Tasks : txn'[t].current = txn[t].current
  BY DEF ReceiveReady, UnderWay, Exclusion, TypeOK
<1>2. QuietOffline'
  BY <1>0 DEF QuietOffline, Connected
<1>3. FramesAreCurrent'
  BY <1>0, <1>1, FrameParts DEF UnderWay, Exclusion, FramesAreCurrent
<1>4. OnlyTheAwaited'
  BY <1>0, ReadyIsAwaited DEF OnlyTheAwaited
<1> QED BY <1>2, <1>3, <1>4

LEMMA ReceiveResponseUnderWay ==
    ASSUME UnderWay, ReceiveResponse
    PROVE  QuietOffline' /\ FramesAreCurrent' /\ OnlyTheAwaited'
<1>0. /\ UNCHANGED <<phase, pending, tainted, txq, automation, pc>> /\ Connected
      /\ rx' = Tail(rx) /\ rx # <<>> /\ rx \in Seq(Packet) /\ Head(rx).msg \in Kinds
      /\ Head(rx) = rx[1] /\ 1 \in DOMAIN rx
      /\ txn \in [Tasks -> [kind : Kinds, current : BOOLEAN,
                            seen : BOOLEAN, ready : BOOLEAN]]
  BY DEF ReceiveResponse, link, tasks, control, UnderWay, Exclusion, TypeOK
<1>1. \A t \in Tasks : txn'[t].current = txn[t].current
  BY <1>0 DEF ReceiveResponse
<1>2. QuietOffline'
  BY <1>0 DEF QuietOffline, Connected
<1>3. FramesAreCurrent'
  BY <1>0, <1>1, FrameParts DEF UnderWay, Exclusion, FramesAreCurrent
<1>4. OnlyTheAwaited'
  <2> SUFFICES ASSUME ~tainted, automation \in {"unknown", "inferred"},
                      ~(txq' = <<>> /\ rx' = <<>>)
               PROVE  (Awaiting /\ AnswerComing(pending))'
    BY <1>0 DEF OnlyTheAwaited
  <2>1. Awaiting /\ AnswerComing(pending)
    BY <1>0, SomethingIsAwaited DEF FrameUnsent
  <2> DEFINE k == txn[pending].kind
  <2>2. k \in Kinds /\ pending \in Tasks
    BY <1>0, <2>1 DEF Awaiting, UnderWay, Exclusion, TypeOK
  <2>3. /\ txq = <<>> /\ Len(rx) <= Len(Remaining(pending))
        /\ \A i \in DOMAIN rx : rx[i] = [msg |-> Remaining(pending)[i], for |-> pending]
    BY <2>1 DEF AnswerComing
  <2>4. Remaining(pending)[1] = rx[1].msg /\ Len(rx) >= 2 /\ Len(Remaining(pending)) >= 2
    <3>1. Remaining(pending)[1] = rx[1].msg
      BY <1>0, <2>3
    <3>2. rx' # <<>>
      BY <1>0, <2>3
    <3>3. Len(rx) >= 2
      BY <1>0, <3>2
    <3>4. Len(Remaining(pending)) \in Nat
      BY <2>2, RemainingParts DEF UnderWay, Exclusion
    <3> QED BY <1>0, <2>3, <3>1, <3>3, <3>4
  <2>5. /\ Remaining(pending) = <<k, "ready">> /\ k \notin {"control", "zone_descriptor"}
        /\ ~txn[pending].seen /\ rx[1].msg = k
    BY <2>2, <2>4, RemainingParts DEF UnderWay, Exclusion
  <2>6. /\ txn'[pending].kind = k /\ txn'[pending].seen
        /\ txn'[pending].ready = txn[pending].ready
    BY <1>0, <2>1, <2>2, <2>5 DEF ReceiveResponse, Awaiting
  <2>7. Remaining(pending)' = <<"ready">>
    <3>1. Answer(k) = <<k, "ready">> /\ Tail(<<k, "ready">>) = <<"ready">>
      BY <2>2, <2>5, AnswerParts
    <3> QED BY <1>0, <2>6, <3>1 DEF Remaining
  <2>8. Awaiting'
    BY <1>0, <2>1, <2>5, <2>6 DEF Awaiting, EventSet
  <2>9. AnswerComing(pending)'
    <3>1. Len(rx) = 2
      <4>1. Len(Remaining(pending)) = 2
        BY <2>5
      <4>2. \A n \in Nat : n <= 2 /\ n >= 2 => n = 2
        OBVIOUS
      <4>3. Len(rx) \in Nat /\ Len(rx) <= 2
        BY <1>0, <2>3, <4>1
      <4> QED BY <2>4, <4>2, <4>3, Zenon
    <3>2. Len(rx') = 1 /\ rx'[1] = rx[2] /\ rx' \in Seq(Packet)
      BY <1>0, <3>1, TailOfPackets
    <3>4. DOMAIN rx' = 1 .. 1
      BY <3>2
    <3>3. rx[2] = [msg |-> "ready", for |-> pending]
      BY <1>0, <2>3, <2>5, <3>1
    <3>5. \A i \in DOMAIN rx' : i = 1 /\ rx'[i] = [msg |-> "ready", for |-> pending]
      BY <3>2, <3>3, <3>4
    <3> QED BY <1>0, <2>3, <2>7, <3>2, <3>5 DEF AnswerComing
  <2> QED BY <2>8, <2>9
<1> QED BY <1>2, <1>3, <1>4

LEMMA ResetUnderWay ==
    ASSUME UnderWay, ReceiveXF \/ Connect \/ SessionLost \/ SessionStopped
    PROVE  QuietOffline' /\ FramesAreCurrent' /\ OnlyTheAwaited'
<1>1. CASE ReceiveXF
  <2>1. /\ UNCHANGED <<phase, txq, rx>> /\ automation' = "communication_off"
        /\ \A t \in Tasks : txn'[t].current = txn[t].current
    BY <1>1 DEF ReceiveXF, link, wire, UnderWay, Exclusion, TypeOK
  <2>2. FramesAreCurrent'
    BY <2>1, FrameParts DEF UnderWay, Exclusion, FramesAreCurrent, Connected
  <2> QED BY <2>1, <2>2 DEF UnderWay, QuietOffline, OnlyTheAwaited, Connected
<1>2. CASE Connect
  <2>1. txq' = <<>> /\ rx' = <<>> /\ phase' = "running"
    BY <1>2 DEF Connect, wire, UnderWay, QuietOffline, Connected
  <2> QED BY <2>1 DEF QuietOffline, FramesAreCurrent, OnlyTheAwaited, Connected
<1>3. CASE SessionLost
  BY <1>3 DEF SessionLost, QuietOffline, FramesAreCurrent, OnlyTheAwaited, Connected
<1>4. CASE SessionStopped
  <2>1. txq' = <<>> /\ rx' = <<>> /\ phase' = "connecting"
    BY <1>4 DEF SessionStopped, UnderWay, QuietOffline, Connected
  <2> QED BY <2>1 DEF QuietOffline, FramesAreCurrent, OnlyTheAwaited, Connected
<1> QED BY <1>1, <1>2, <1>3, <1>4

LEMMA UnderWayInvariant == Spec => []UnderWay
<1>1. Init => QuietOffline /\ FramesAreCurrent /\ OnlyTheAwaited
  BY DEF Init, QuietOffline, FramesAreCurrent, OnlyTheAwaited, Connected
<1>2. UnderWay /\ [Next]_vars => QuietOffline' /\ FramesAreCurrent' /\ OnlyTheAwaited'
  <2> SUFFICES ASSUME UnderWay, [Next]_vars
               PROVE  QuietOffline' /\ FramesAreCurrent' /\ OnlyTheAwaited'
    OBVIOUS
  <2>1. Exclusion
    BY DEF UnderWay
  <2> QED BY <2>1, WireKinds, StartsUnderWay, UndisturbedUnderWay, TransmitUnderWay,
             ReceiveReadyUnderWay, ReceiveResponseUnderWay, ResetUnderWay
<1>3. UnderWay <=> Exclusion /\ QuietOffline /\ FramesAreCurrent /\ OnlyTheAwaited
  BY DEF UnderWay
<1> QED BY <1>1, <1>2, <1>3, ExclusionInvariant, PTL DEF Spec

\* Every frame in the transmit queue of a running session was put there by a
\* transaction of that session, and none is left when the next one begins.
THEOREM QueueOutlivesNoSession == Spec => []QueueIsOfThisSession
<1>1. UnderWay => QueueIsOfThisSession
  BY DEF UnderWay, QuietOffline, FramesAreCurrent, QueueIsOfThisSession
<1> QED BY <1>1, UnderWayInvariant, PTL

\* 08OK completes a transaction only if the panel sent it for that transaction,
\* although packets name none, in every session up to its first 08XF.
THEOREM AcknowledgementsAreOwn == Spec => AckIsOwn
<1> DEFINE A == \A t \in Tasks : ~txn[t].ready /\ txn'[t].ready
                  => \/ automation' = "communication_off" \/ automation = "explicit"
                     \/ rx # <<>> /\ rx' = Tail(rx) /\ Head(rx).for = t
<1>1. UnderWay /\ UnderWay' /\ [Next]_vars => [A]_vars
  <2> SUFFICES ASSUME UnderWay, [Next]_vars, NEW t \in Tasks,
                      ~txn[t].ready, txn'[t].ready, automation' # "communication_off",
                      automation # "explicit"
               PROVE  rx # <<>> /\ rx' = Tail(rx) /\ Head(rx).for = t
    OBVIOUS
  <2>0. /\ Exclusion /\ txn \in [Tasks -> [kind : Kinds, current : BOOLEAN,
                                          seen : BOOLEAN, ready : BOOLEAN]]
        /\ automation \in {"unknown", "inferred", "explicit", "communication_off"}
    BY DEF UnderWay, Exclusion, TypeOK
  <2>1. CASE Undisturbed \/ Taints
    BY <2>1 DEF Undisturbed, Taints, NoTxn
  <2>2. ASSUME NEW u \in Tasks, NEW kind, Starts(u, kind) PROVE FALSE
    BY <2>0, <2>2 DEF Starts
  <2>3. CASE ReceiveReady
    <3>1. Acknowledges /\ txn' = [txn EXCEPT ![pending].ready = TRUE]
      BY <2>3 DEF ReceiveReady
    <3>2. pending = t
      BY <2>0, <3>1
    <3>3. ~tainted
      BY <2>0, <3>1 DEF Acknowledges, Exclusion, OneTransaction
    <3>4. automation # "communication_off"
      BY <2>0, <2>3 DEF ReceiveReady
    <3> QED BY <2>0, <2>3, <3>2, <3>3, <3>4, ReadyIsAwaited DEF ReceiveReady
  <2>4. CASE ReceiveResponse
    BY <2>0, <2>4 DEF ReceiveResponse
  <2>5. CASE ReceiveXF
    BY <2>5 DEF ReceiveXF
  <2>6. CASE Transmit \/ SessionStopped
    BY <2>6 DEF Transmit, SessionStopped, sync
  <2>7. CASE Connect \/ SessionLost
    BY <2>0, <2>7 DEF Connect, SessionLost, ResetSession
  <2> QED BY <2>0, <2>1, <2>2, <2>3, <2>4, <2>5, <2>6, <2>7, WireKinds
<1> QED BY <1>1, UnderWayInvariant, PTL DEF Spec, AckIsOwn

-----------------------------------------------------------------------------
(***************************************************************************)
(* One response.  The acknowledgements cannot be told apart once 08XF has  *)
(* been heard; the responses can, in every session.                        *)
(***************************************************************************)

\* The frames that ask for a response, and the responses on their way.
ResponseFrames  == {i \in DOMAIN txq : txq[i].kind # "control"}
ResponsePackets == {i \in DOMAIN rx : rx[i].msg \notin {"ready", "control"}}

\* The pending transaction waits for a response of this kind.
Expecting(kind) == /\ pending # NoTask /\ pc[pending] = "wait"
                   /\ txn[pending].kind = kind /\ ~txn[pending].seen

ReadyAfterSeen ==
    \A t \in Tasks : txn[t].ready /\ Expects(txn[t].kind) => txn[t].seen

OneAtMost ==
    /\ \A i, j \in ResponseFrames : i = j
    /\ \A i, j \in ResponsePackets : i = j
    /\ ResponseFrames = {} \/ ResponsePackets = {}

\* Until a transaction is given up, it is the one the pending transaction waits for.
ResponseIsExpected ==
    ~tainted => /\ \A i \in ResponseFrames : Expecting(txq[i].kind)
                /\ \A i \in ResponsePackets : Expecting(rx[i].msg)

OneResponse == /\ UnderWay
               /\ ReadyAfterSeen
               /\ Connected => OneAtMost /\ ResponseIsExpected

\* What waits for a response waits.
LEMMA ExpectingAwaits ==
    ASSUME Exclusion, ReadyAfterSeen, NEW kind \in Kinds \ {"control"}, Expecting(kind)
    PROVE  Awaiting
<1>1. pending \in Tasks
  BY DEF Exclusion, TypeOK, Expecting
<1>2. kind = "zone_descriptor" \/ Expects(kind)
  BY DEF Expects
<1> QED BY <1>1, <1>2 DEF Expecting, ReadyAfterSeen, Awaiting, EventSet, Expects

LEMMA OrphanKeepsKinds ==
    ASSUME NEW t \in Tasks
    PROVE  /\ \A s \in Seq(Frame) : \A i \in DOMAIN s : Orphan(s, t)[i].kind = s[i].kind
           /\ \A s \in Seq(Packet) : \A i \in DOMAIN s : Orphan(s, t)[i].msg = s[i].msg
<1>1. ASSUME NEW s \in Seq(Frame), NEW i \in DOMAIN s PROVE Orphan(s, t)[i].kind = s[i].kind
  <2>1. s[i] \in Frame
    OBVIOUS
  <2> QED BY <2>1 DEF Orphan, Frame
<1>2. ASSUME NEW s \in Seq(Packet), NEW i \in DOMAIN s PROVE Orphan(s, t)[i].msg = s[i].msg
  <2>1. s[i] \in Packet
    OBVIOUS
  <2> QED BY <2>1 DEF Orphan, Packet
<1> QED BY <1>1, <1>2

\* No response is under way when a transaction begins.
LEMMA NoResponseLeft ==
    ASSUME OneResponse, ~Awaiting, Connected, ~tainted
    PROVE  ResponseFrames = {} /\ ResponsePackets = {}
<1>1. /\ \A i \in ResponseFrames : txq[i].kind \in Kinds \ {"control"}
      /\ \A i \in ResponsePackets : rx[i].msg \in Kinds \ {"control"}
  BY FrameParts, PacketParts DEF OneResponse, UnderWay, Exclusion, ResponseFrames,
                                 ResponsePackets, Packets
<1>2. ASSUME NEW i \in ResponseFrames PROVE FALSE
  BY <1>1, <1>2, ExpectingAwaits DEF OneResponse, UnderWay, ResponseIsExpected
<1>3. ASSUME NEW i \in ResponsePackets PROVE FALSE
  BY <1>1, <1>3, ExpectingAwaits DEF OneResponse, UnderWay, ResponseIsExpected
<1> QED BY <1>2, <1>3

LEMMA StartsOneResponse ==
    ASSUME OneResponse, NEW t \in Tasks, NEW kind, Starts(t, kind)
    PROVE  ReadyAfterSeen' /\ OneAtMost' /\ ResponseIsExpected'
<1>0. /\ txq \in Seq(Frame) /\ rx \in Seq(Packet)
      /\ txn \in [Tasks -> [kind : Kinds, current : BOOLEAN, seen : BOOLEAN, ready : BOOLEAN]]
      /\ pc'[t] = "wait" /\ pending' = t /\ t # NoTask
      /\ Orphan(txq, t) \in Seq(Frame) /\ Len(Orphan(txq, t)) = Len(txq)
      /\ DOMAIN Orphan(rx, t) = DOMAIN rx
  BY OrphanFrames, OrphanKeeps, TaskNames DEF OneResponse, UnderWay, Exclusion, TypeOK, Starts
<1>1. /\ txn'[t].kind = kind /\ ~txn'[t].seen /\ ~txn'[t].ready
      /\ \A u \in Tasks : u # t => txn'[u] = txn[u]
  BY <1>0 DEF Starts
<1>2. ResponseFrames = {} /\ ResponsePackets = {}
  BY NoResponseLeft DEF Starts
<1>3. ReadyAfterSeen'
  BY <1>1 DEF OneResponse, ReadyAfterSeen
<1>4. ResponsePackets' = {}
  BY <1>0, <1>2, OrphanKeepsKinds DEF Starts, ResponsePackets
<1>5. \A i \in ResponseFrames' : i = Len(txq) + 1 /\ txq'[i].kind = kind
  <2> SUFFICES ASSUME NEW i \in DOMAIN txq', txq'[i].kind # "control"
               PROVE  i = Len(txq) + 1 /\ txq'[i].kind = kind
    BY DEF ResponseFrames
  <2>1. /\ DOMAIN txq' = 1 .. Len(txq) + 1 /\ DOMAIN txq = 1 .. Len(txq)
        /\ \A j \in DOMAIN txq : txq'[j] = Orphan(txq, t)[j]
        /\ txq'[Len(txq) + 1] = [kind |-> kind, for |-> t]
    <3> DEFINE q == Orphan(txq, t)  f == [kind |-> kind, for |-> t]
    <3>1. q \in Seq(Frame) /\ Len(q) = Len(txq) /\ txq' = Append(q, f)
      BY <1>0 DEF Starts
    <3> HIDE DEF q, f
    <3>2. /\ Len(q) \in Nat /\ Len(txq') = Len(q) + 1 /\ DOMAIN q = 1 .. Len(q)
          /\ DOMAIN txq' = 1 .. Len(q) + 1 /\ txq'[Len(q) + 1] = f
      BY <3>1
    <3>3. \A j \in 1 .. Len(q) : txq'[j] = q[j]
      BY <3>1
    <3>4. DOMAIN txq = 1 .. Len(txq)
      BY <1>0
    <3> QED BY <3>1, <3>2, <3>3, <3>4 DEF q, f
  <2>2. ASSUME i \in DOMAIN txq PROVE FALSE
    <3>1. txq'[i].kind = txq[i].kind
      BY <1>0, <2>1, <2>2, OrphanKeepsKinds
    <3> QED BY <1>2, <2>2, <3>1 DEF ResponseFrames
  <2> QED BY <2>1, <2>2
<1>6. Expecting(kind)'
  BY <1>0, <1>1 DEF Expecting
<1>7. OneAtMost'
  BY <1>4, <1>5 DEF OneAtMost
<1>8. ResponseIsExpected'
  BY <1>4, <1>5, <1>6 DEF ResponseIsExpected
<1> QED BY <1>3, <1>7, <1>8

LEMMA UndisturbedOneResponse ==
    ASSUME OneResponse, Undisturbed \/ Taints
    PROVE  ReadyAfterSeen' /\ (Connected' => OneAtMost' /\ ResponseIsExpected')
<1>0. /\ UNCHANGED <<phase, txq, rx>>
      /\ \A t \in Tasks : \/ txn'[t] = txn[t]
                          \/ txn'[t] = [NoTxn EXCEPT !.current = txn[t].current]
  BY DEF Undisturbed, Taints
<1>1. ReadyAfterSeen'
  BY <1>0 DEF OneResponse, ReadyAfterSeen, Expects, NoTxn
<1>2. ResponseFrames' = ResponseFrames /\ ResponsePackets' = ResponsePackets
  BY <1>0 DEF ResponseFrames, ResponsePackets
<1>3. Connected' => OneAtMost'
  BY <1>0, <1>2 DEF OneResponse, OneAtMost, Connected
<1>4. ASSUME Connected' PROVE ResponseIsExpected'
  <2>1. CASE Taints
    BY <2>1 DEF Taints, ResponseIsExpected
  <2>2. CASE Undisturbed
    <3> SUFFICES ASSUME ~tainted PROVE ResponseIsExpected'
      BY <2>2 DEF Undisturbed, ResponseIsExpected
    <3>1. \A kind \in Kinds \ {"control"} : Expecting(kind) => Expecting(kind)'
      BY <2>2, ExpectingAwaits DEF OneResponse, UnderWay, Undisturbed, Expecting
    <3>2. /\ \A i \in ResponseFrames : txq[i].kind \in Kinds \ {"control"}
          /\ \A i \in ResponsePackets : rx[i].msg \in Kinds \ {"control"}
      BY FrameParts, PacketParts DEF OneResponse, UnderWay, Exclusion, ResponseFrames,
                                     ResponsePackets, Packets
    <3>3. /\ \A i \in ResponseFrames : Expecting(txq[i].kind)
          /\ \A i \in ResponsePackets : Expecting(rx[i].msg)
      BY <1>0, <1>4 DEF OneResponse, ResponseIsExpected, Connected
    <3> QED BY <1>0, <1>2, <3>1, <3>2, <3>3 DEF ResponseIsExpected
  <2> QED BY <2>1, <2>2
<1> QED BY <1>1, <1>3, <1>4

\* The only response in an answer is its first packet, and a control frame gets none.
LEMMA FirstOfAnswer ==
    ASSUME NEW k \in Kinds, NEW m \in 1 .. Len(Answer(k)),
           Answer(k)[m] \notin {"ready", "control"}
    PROVE  m = 1 /\ k # "control" /\ Answer(k)[m] = k
<1>1. CASE k = "control"
  BY <1>1, AnswerParts
<1>2. CASE k = "zone_descriptor"
  BY <1>2, AnswerParts
<1>3. CASE k \notin {"control", "zone_descriptor"}
  <2>1. Answer(k) = <<k, "ready">>
    BY <1>3, AnswerParts
  <2> QED BY <1>3, <2>1
<1> QED BY <1>1, <1>2, <1>3

\* A packet heard is one of the answer's, behind those that were under way already.
LEMMA HeardParts ==
    ASSUME TypeOK, Transmit
    PROVE  \A i \in DOMAIN rx' :
              \/ i \in DOMAIN rx /\ rx'[i] = rx[i]
              \/ \E m \in 1 .. Len(Answer(txq[1].kind)) :
                    i = Len(rx) + m /\ rx'[i].msg = Answer(txq[1].kind)[m]
<1> DEFINE k == txq[1].kind
<1>0. /\ k \in Kinds /\ Len(Answer(k)) \in Nat
      /\ Len(rx) \in Nat /\ DOMAIN rx = 1 .. Len(rx)
  <2>1. txq # <<>> /\ 1 \in DOMAIN txq
    BY TransmitParts DEF TypeOK
  <2>2. k \in Kinds
    BY <2>1, FrameParts
  <2> QED BY <2>2, AnswerParts DEF TypeOK
<1>1. PICK n \in 0 .. Len(Answer(k)) :
         /\ Len(rx') = Len(rx) + n
         /\ \A i \in DOMAIN rx : rx'[i] = rx[i]
         /\ \A i \in 1 .. n : rx'[Len(rx) + i] = [msg |-> Answer(k)[i], for |-> txq[1].for]
  BY TransmitParts
<1>2. rx' \in Seq(Packet)
  BY WireType DEF Wire, TypeOK
<1>3. \A i \in DOMAIN rx' : i \in DOMAIN rx \/ \E m \in 1 .. n : i = Len(rx) + m
  <2> SUFFICES ASSUME NEW i \in 1 .. Len(rx) + n, i \notin 1 .. Len(rx)
               PROVE  \E m \in 1 .. n : i = Len(rx) + m
    <3>1. Len(rx') = Len(rx) + n /\ DOMAIN rx' = 1 .. Len(rx')
      BY <1>1, <1>2
    <3> QED BY <1>0, <3>1
  <2>1. i - Len(rx) \in 1 .. n /\ i = Len(rx) + (i - Len(rx))
    BY <1>0
  <2> QED BY <2>1
<1>4. \A m \in 1 .. n : m \in 1 .. Len(Answer(k))
  BY <1>0
<1>5. ASSUME NEW m \in 1 .. n PROVE rx'[Len(rx) + m].msg = Answer(k)[m]
  <2>1. rx'[Len(rx) + m] = [msg |-> Answer(k)[m], for |-> txq[1].for]
    BY <1>1
  <2> HIDE DEF k
  <2> QED BY <2>1
<1> SUFFICES ASSUME NEW i \in DOMAIN rx', i \notin DOMAIN rx
             PROVE  \E m \in 1 .. Len(Answer(k)) :
                       i = Len(rx) + m /\ rx'[i].msg = Answer(k)[m]
  BY <1>1
<1> HIDE DEF k
<1>6. PICK m \in 1 .. n : i = Len(rx) + m
  BY <1>3
<1>7. m \in 1 .. Len(Answer(k)) /\ i = Len(rx) + m /\ rx'[i].msg = Answer(k)[m]
  BY <1>4, <1>5, <1>6
<1> QED BY <1>7, Zenon DEF k

LEMMA TransmitOneResponse ==
    ASSUME OneResponse, Transmit
    PROVE  ReadyAfterSeen' /\ OneAtMost' /\ ResponseIsExpected'
<1> DEFINE k == txq[1].kind
<1>0. /\ UNCHANGED <<pending, tainted, txn, pc>> /\ Connected /\ TypeOK
      /\ txq \in Seq(Frame) /\ txq # <<>> /\ txq' = Tail(txq) /\ 1 \in DOMAIN txq
      /\ rx \in Seq(Packet) /\ Len(rx) \in Nat /\ DOMAIN rx = 1 .. Len(rx)
      /\ OneAtMost /\ ResponseIsExpected
  BY TransmitParts DEF Transmit, sync, tasks, OneResponse, UnderWay, Exclusion, TypeOK
<1>1. k \in Kinds
  BY <1>0, FrameParts
<1>2. \A kind : Expecting(kind)' <=> Expecting(kind)
  BY <1>0 DEF Expecting
<1>3. ReadyAfterSeen'
  BY <1>0 DEF OneResponse, ReadyAfterSeen
<1>4. \A i \in DOMAIN txq' : i \in Nat \ {0} /\ i + 1 \in DOMAIN txq /\ txq'[i] = txq[i + 1]
  BY <1>0
<1>5. \A i \in DOMAIN rx' : \/ i \in DOMAIN rx /\ rx'[i] = rx[i]
                            \/ \E m \in 1 .. Len(Answer(k)) :
                                  i = Len(rx) + m /\ rx'[i].msg = Answer(k)[m]
  BY <1>0, HeardParts
<1>6. CASE k = "control"
  <2>1. \A i \in ResponsePackets' : i \in ResponsePackets /\ rx'[i] = rx[i]
    BY <1>1, <1>5, <1>6, FirstOfAnswer DEF ResponsePackets
  <2>2. \A i \in ResponseFrames' : /\ i \in Nat /\ i + 1 \in ResponseFrames
                                   /\ txq'[i] = txq[i + 1]
    BY <1>4 DEF ResponseFrames
  <2>3. \A i, j \in ResponseFrames' : i = j
    BY <1>0, <2>2 DEF OneAtMost
  <2>4. OneAtMost'
    BY <1>0, <2>1, <2>2, <2>3 DEF OneAtMost
  <2>5. ResponseIsExpected'
    BY <1>0, <1>2, <2>1, <2>2 DEF ResponseIsExpected
  <2> QED BY <1>3, <2>4, <2>5
<1>7. CASE k # "control"
  <2>1. 1 \in ResponseFrames /\ ResponsePackets = {}
    BY <1>0, <1>7 DEF OneAtMost, ResponseFrames
  <2>2. ResponseFrames' = {}
    <3> SUFFICES ASSUME NEW i \in ResponseFrames' PROVE FALSE
      OBVIOUS
    <3>1. i \in Nat \ {0} /\ i + 1 \in ResponseFrames
      BY <1>4 DEF ResponseFrames
    <3>2. i + 1 = 1
      BY <1>0, <2>1, <3>1 DEF OneAtMost
    <3> QED BY <3>1, <3>2
  <2>3. \A i \in ResponsePackets' : i = Len(rx) + 1 /\ rx'[i].msg = k
    BY <1>1, <1>5, <2>1, FirstOfAnswer DEF ResponsePackets
  <2>4. ~tainted => Expecting(k)
    BY <1>0, <2>1 DEF ResponseIsExpected
  <2>5. OneAtMost'
    BY <2>2, <2>3 DEF OneAtMost
  <2>6. ResponseIsExpected'
    BY <1>0, <1>2, <2>2, <2>3, <2>4 DEF ResponseIsExpected
  <2> QED BY <1>3, <2>5, <2>6
<1> QED BY <1>6, <1>7

\* The packets that are left when the first is handled.
LEMMA PacketsLeft ==
    ASSUME TypeOK, rx # <<>>, rx' = Tail(rx)
    PROVE  /\ \A i \in DOMAIN rx' : i \in Nat \ {0} /\ i + 1 \in DOMAIN rx /\ rx'[i] = rx[i + 1]
           /\ \A i \in ResponsePackets' : /\ i \in Nat \ {0} /\ i + 1 \in ResponsePackets
                                          /\ rx'[i] = rx[i + 1]
<1>1. \A i \in DOMAIN rx' : i \in Nat \ {0} /\ i + 1 \in DOMAIN rx /\ rx'[i] = rx[i + 1]
  BY DEF TypeOK
<1> QED BY <1>1 DEF ResponsePackets

LEMMA ReceiveOneResponse ==
    ASSUME OneResponse, ReceiveReady \/ ReceiveResponse
    PROVE  /\ ReadyAfterSeen' /\ OneAtMost' /\ ResponseIsExpected'
           /\ ReceiveResponse /\ Head(rx).msg # "control"
              => ResponseFrames' = {} /\ ResponsePackets' = {}
<1>0. /\ UNCHANGED <<pending, tainted, pc, txq>> /\ Connected /\ TypeOK
      /\ rx # <<>> /\ rx' = Tail(rx) /\ Head(rx) = rx[1] /\ 1 \in DOMAIN rx
      /\ OneAtMost /\ ResponseIsExpected
      /\ txn \in [Tasks -> [kind : Kinds, current : BOOLEAN, seen : BOOLEAN, ready : BOOLEAN]]
      /\ pending \in Tasks \cup {NoTask}
  BY DEF ReceiveReady, ReceiveResponse, tasks, OneResponse, UnderWay, Exclusion, TypeOK
<1>1. ResponseFrames' = ResponseFrames
  BY <1>0 DEF ResponseFrames
<1>2. \A i, j \in ResponsePackets' : i = j
  BY <1>0, PacketsLeft DEF OneAtMost
<1>3. OneAtMost'
  BY <1>0, <1>1, <1>2, PacketsLeft DEF OneAtMost
<1>4. CASE ReceiveReady
  <2>1. ReadyAfterSeen'
    BY <1>0, <1>4 DEF ReceiveReady, Acknowledges, OneResponse, ReadyAfterSeen
  <2>2. \A kind : Expecting(kind) => Expecting(kind)'
    BY <1>0, <1>4 DEF ReceiveReady, Expecting
  <2>3. ResponseIsExpected'
    BY <1>0, <1>1, <2>2, PacketsLeft DEF ResponseIsExpected
  <2>4. ~ReceiveResponse
    BY <1>4 DEF ReceiveReady, ReceiveResponse, Kinds, SyncKinds
  <2> QED BY <1>3, <2>1, <2>3, <2>4
<1>5. CASE ReceiveResponse
  <2>1. ReadyAfterSeen'
    BY <1>0, <1>5 DEF ReceiveResponse, OneResponse, ReadyAfterSeen
  <2>2. CASE Head(rx).msg # "control"
    <3>1. 1 \in ResponsePackets
      BY <1>0, <1>5, <2>2 DEF ReceiveResponse, ResponsePackets, Kinds, SyncKinds
    <3>2. ResponseFrames' = {}
      BY <1>0, <1>1, <3>1 DEF OneAtMost
    <3>3. ResponsePackets' = {}
      <4> SUFFICES ASSUME NEW i \in ResponsePackets' PROVE FALSE
        OBVIOUS
      <4>1. i \in Nat \ {0} /\ i + 1 \in ResponsePackets
        BY <1>0, PacketsLeft
      <4>2. i + 1 = 1
        BY <1>0, <3>1, <4>1 DEF OneAtMost
      <4> QED BY <4>1, <4>2
    <3>4. ResponseIsExpected'
      BY <3>2, <3>3 DEF ResponseIsExpected
    <3> QED BY <1>3, <2>1, <3>2, <3>3, <3>4
  <2>3. CASE Head(rx).msg = "control"
    <3>1. \A kind : kind # "control" /\ Expecting(kind) => Expecting(kind)'
      BY <1>0, <1>5, <2>3 DEF ReceiveResponse, Expecting
    <3>2. ResponseIsExpected'
      BY <1>0, <1>1, <3>1, PacketsLeft DEF ResponseIsExpected, ResponseFrames, ResponsePackets
    <3> QED BY <1>3, <2>1, <2>3, <3>2
  <2> QED BY <2>2, <2>3
<1> QED BY <1>4, <1>5

LEMMA ResetOneResponse ==
    ASSUME OneResponse, ReceiveXF \/ Connect \/ SessionLost \/ SessionStopped
    PROVE  ReadyAfterSeen' /\ (Connected' => OneAtMost' /\ ResponseIsExpected')
<1>0. txn \in [Tasks -> [kind : Kinds, current : BOOLEAN, seen : BOOLEAN, ready : BOOLEAN]]
  BY DEF OneResponse, UnderWay, Exclusion, TypeOK
<1>1. CASE ReceiveXF
  <2>1. /\ UNCHANGED <<txq, rx, pending, tainted, pc>> /\ Connected
        /\ txn' = txn \/ /\ txn["control"].kind = "control"
                         /\ txn' = [txn EXCEPT !["control"].ready = TRUE]
    BY <1>1 DEF ReceiveXF, Hears, tasks, wire
  <2>2. ReadyAfterSeen'
    BY <1>0, <2>1 DEF OneResponse, ReadyAfterSeen, Expects
  <2>3. \A kind : Expecting(kind) => Expecting(kind)'
    <3>1. \A t \in Tasks : txn'[t].kind = txn[t].kind /\ txn'[t].seen = txn[t].seen
      BY <1>0, <2>1
    <3>2. pending \in Tasks \cup {NoTask}
      BY DEF OneResponse, UnderWay, Exclusion, TypeOK
    <3> QED BY <2>1, <3>1, <3>2 DEF Expecting
  <2>4. ResponseFrames' = ResponseFrames /\ ResponsePackets' = ResponsePackets
    BY <2>1 DEF ResponseFrames, ResponsePackets
  <2>5. OneAtMost' /\ ResponseIsExpected'
    BY <2>1, <2>3, <2>4 DEF OneResponse, OneAtMost, ResponseIsExpected
  <2> QED BY <2>2, <2>5
<1>2. CASE Connect \/ SessionLost
  <2>1. \A t \in Tasks : /\ txn'[t].ready = txn[t].ready /\ txn'[t].seen = txn[t].seen
                         /\ txn'[t].kind = txn[t].kind
    BY <1>0, <1>2 DEF Connect, SessionLost, ResetSession
  <2>2. ReadyAfterSeen'
    BY <2>1 DEF OneResponse, ReadyAfterSeen
  <2>3. Connected' => txq' = <<>> /\ rx' = <<>>
    BY <1>2 DEF Connect, SessionLost, wire, OneResponse, UnderWay, QuietOffline, Connected
  <2>4. Connected' => ResponseFrames' = {} /\ ResponsePackets' = {}
    BY <2>3 DEF ResponseFrames, ResponsePackets
  <2> QED BY <2>2, <2>4 DEF OneAtMost, ResponseIsExpected
<1>3. CASE SessionStopped
  <2>1. txn' = txn /\ ~Connected'
    BY <1>3 DEF SessionStopped, sync, Connected
  <2> QED BY <2>1 DEF OneResponse, ReadyAfterSeen
<1> QED BY <1>1, <1>2, <1>3

LEMMA OneResponseInvariant == Spec => []OneResponse
<1> DEFINE R == ReadyAfterSeen /\ (Connected => OneAtMost /\ ResponseIsExpected)
<1>1. Init => R
  BY DEF Init, NoTxn, ReadyAfterSeen, Connected
<1>2. UnderWay /\ R /\ [Next]_vars => R'
  <2> SUFFICES ASSUME OneResponse, [Next]_vars PROVE R'
    BY DEF OneResponse
  <2>1. Exclusion
    BY DEF OneResponse, UnderWay
  <2> QED BY <2>1, WireKinds, StartsOneResponse, UndisturbedOneResponse,
             TransmitOneResponse, ReceiveOneResponse, ResetOneResponse
<1>3. OneResponse <=> UnderWay /\ R
  BY DEF OneResponse
<1> QED BY <1>1, <1>2, <1>3, UnderWayInvariant, PTL DEF Spec

-----------------------------------------------------------------------------
(* The phase changes only where a session begins, is lost or is over.       *)

LEMMA ProceedPhase ==
    ASSUME NEW t, NEW op, NEW left, Proceed(t, op, left)
    PROVE  phase' = phase
  BY DEF Proceed, Begin, Leave, link

LEMMA EnterPhase ==
    ASSUME NEW t, NEW op, NEW left, Enter(t, op, left)
    PROVE  phase' = phase
  BY ProceedPhase DEF Enter, link

LEMMA TurnPhase ==
    ASSUME Turn
    PROVE  phase' = phase
  BY EnterPhase DEF Turn, Startup, Resync, Periodic, PeriodicRefresh, Keypad, Verify

LEMMA ContinuePhase ==
    ASSUME NEW t, Continue(t)
    PROVE  phase' = phase
<1>1. ASSUME Granted(t) PROVE phase' = phase
  BY <1>1, ProceedPhase DEF Granted
<1>2. ASSUME Answered(t) PROVE phase' = phase
  BY <1>2, ProceedPhase DEF Answered, Leave, link
<1>3. ASSUME Paced(t) PROVE phase' = phase
  BY <1>3, ProceedPhase DEF Paced, Leave
<1>4. ASSUME TimesOut(t) PROVE phase' = phase
  BY <1>4 DEF TimesOut, Leave
<1> QED
  BY <1>1, <1>2, <1>3, <1>4 DEF Continue

LEMMA OtherPhase ==
    ASSUME Other
    PROVE  phase' = phase
<1>1. CASE EnqueueControl \/ ControlExpired \/ VerifyTooLate
  BY <1>1 DEF EnqueueControl, ControlExpired, VerifyTooLate, link
<1>2. CASE Control
  BY <1>2, EnterPhase DEF Control
<1>3. CASE Transmit \/ ReceiveReady \/ ReceiveEvent \/ PeerCloses
  BY <1>3 DEF Transmit, ReceiveReady, ReceiveEvent, PeerCloses, link
<1>4. CASE \E t \in Tasks : Cancelled(t)
  BY <1>4 DEF Cancelled, link
<1> QED
  BY <1>1, <1>2, <1>3, <1>4 DEF Other

-----------------------------------------------------------------------------
(* Every step does one of five things to the snapshot.                      *)

LEMMA EndsIsDoubtOrCheck ==
    ASSUME NEW t, NEW op, NEW outcome, Ends(t, op, outcome)
    PROVE  \/ UNCHANGED snapshot
           \/ Doubt({"arming_status"})
           \/ Check
  BY DEF Ends

LEMMA ProceedsIsDoubtOrCheck ==
    ASSUME NEW t, NEW op, NEW left, Proceeds(t, op, left)
    PROVE  \/ UNCHANGED snapshot
           \/ \E dims : Doubt(dims)
           \/ Check
  BY EndsIsDoubtOrCheck DEF Proceeds, Asks

LEMMA TurnIsDoubtOrCheck ==
    ASSUME Turn
    PROVE  \/ UNCHANGED snapshot
           \/ \E dims : Doubt(dims)
           \/ Check
  BY ProceedsIsDoubtOrCheck DEF Turn, Enters

LEMMA ContinueIsDoubtOrCheck ==
    ASSUME NEW t, Continue(t)
    PROVE  \/ UNCHANGED snapshot
           \/ \E dims : Doubt(dims)
           \/ Check
  BY ProceedsIsDoubtOrCheck, EndsIsDoubtOrCheck DEF Continue

\* Within a session the snapshot is learned, doubted, checked or left alone.
Within ==
    /\ phase' = phase
    /\ \/ UNCHANGED snapshot
       \/ \E dims : Doubt(dims)
       \/ Check
       \/ Connected /\ seen \subseteq seen' /\ UNCHANGED <<secure, published>>

LEMMA StepKinds ==
    ASSUME [FNext]_fvars
    PROVE  Within \/ Begun \/ Lost \/ Stopped
<1>1. CASE Turn
  BY <1>1, TurnPhase, TurnIsDoubtOrCheck DEF Within
<1>2. CASE KeypadSkips
  BY <1>2 DEF KeypadSkips, Within, vars, link
<1>3. ASSUME NEW t \in Tasks, Continue(t) PROVE Within
  BY <1>3, ContinuePhase, ContinueIsDoubtOrCheck DEF Within
<1>4. CASE LearnDimension
  <2>1. phase' = phase /\ Connected
    BY <1>4 DEF LearnDimension, ReceiveResponse, link
  <2> QED
    BY <1>4, <2>1 DEF LearnDimension, Within
<1>5. CASE LearnKeypad
  <2>1. phase' = phase /\ Connected
    BY <1>5 DEF LearnKeypad, ReceiveResponse, link
  <2> QED
    BY <1>5, <2>1 DEF LearnKeypad, Within
<1>6. CASE Suspend
  <2>1. phase' = phase
    BY <1>6 DEF Suspend, ReceiveXF, ReceiveXN, link
  <2> QED
    BY <1>6, <2>1 DEF Suspend, Within
<1>7. CASE Corrupt
  <2>1. phase' = phase
    BY <1>7 DEF Corrupt, ReceiveInvalid, link
  <2> QED
    BY <1>7, <2>1 DEF Corrupt, Within
<1>8. CASE Other
  BY <1>8, OtherPhase DEF Other, Within
<1>9. CASE UNCHANGED fvars
  BY <1>9 DEF fvars, vars, link, Within
<1> QED
  BY <1>1, <1>2, <1>3, <1>4, <1>5, <1>6, <1>7, <1>8, <1>9 DEF FNext

-----------------------------------------------------------------------------
(* Freshness.                                                               *)

\* What is known is forgotten with the session, so a task that outlives it can
\* only withdraw.
NothingKnownOffline == ~Connected => ~Live

Freshness == FreshIsTrue /\ NothingKnownOffline

LEMMA FreshnessInit ==
    ASSUME FInit
    PROVE  Freshness
  BY DEF FInit, Init, Freshness, FreshIsTrue, NothingKnownOffline, Live, Dimensions, Connected

LEMMA FreshnessStep ==
    ASSUME Freshness, [FNext]_fvars
    PROVE  Freshness'
<1>1. CASE Within
  <2>1. CASE UNCHANGED snapshot
    BY <1>1, <2>1 DEF Within, snapshot, Freshness, FreshIsTrue, NothingKnownOffline, Live, Connected
  <2>2. ASSUME NEW dims, Doubt(dims) PROVE Freshness'
    BY <1>1, <2>2 DEF Within, Doubt, Freshness, FreshIsTrue, NothingKnownOffline, Live, Connected
  <2>3. CASE Check
    BY <1>1, <2>3 DEF Within, Check, Freshness, FreshIsTrue, NothingKnownOffline, Live, Connected
  <2>4. CASE Connected /\ seen \subseteq seen' /\ UNCHANGED <<secure, published>>
    BY <1>1, <2>4 DEF Within, Freshness, FreshIsTrue, NothingKnownOffline, Live, Connected
  <2> QED
    BY <1>1, <2>1, <2>2, <2>3, <2>4 DEF Within
<1>2. CASE Begun
  BY <1>2 DEF Begun, Connect, Freshness, FreshIsTrue, NothingKnownOffline, Connected
<1>3. CASE Lost
  BY <1>3 DEF Lost, SessionLost, Forget, Freshness, FreshIsTrue, NothingKnownOffline, Live,
              Dimensions, Connected
<1>4. CASE Stopped
  BY <1>4 DEF Stopped, SessionStopped, Freshness, FreshIsTrue, NothingKnownOffline, Live, Connected
<1> QED
  BY <1>1, <1>2, <1>3, <1>4, StepKinds

\* Home Assistant is told that the state is fresh only while every dimension was
\* answered in this session since it was last doubted: whatever loops, queries
\* and commands there are, and however the packets interleave with them.
THEOREM FreshnessIsTrue == FSpec => []FreshIsTrue
<1>1. FInit => Freshness
  BY FreshnessInit
<1>2. Freshness /\ [FNext]_fvars => Freshness'
  BY FreshnessStep
<1>3. Freshness => FreshIsTrue
  BY DEF Freshness
<1> QED
  BY <1>1, <1>2, <1>3, PTL DEF FSpec

-----------------------------------------------------------------------------
(* The snapshot's variables.                                                *)

LEMMA DoubtTyped ==
    ASSUME SnapshotTypeOK, NEW dims, Doubt(dims)
    PROVE  SnapshotTypeOK'
<1>1. seen' \subseteq Dimensions /\ keypad' \subseteq KeypadFacts
  BY DEF Doubt, SnapshotTypeOK
<1>2. secure' \in BOOLEAN /\ published' \in BOOLEAN
  BY DEF Doubt
<1> QED
  BY <1>1, <1>2 DEF SnapshotTypeOK

LEMMA CheckTyped ==
    ASSUME SnapshotTypeOK, Check
    PROVE  SnapshotTypeOK'
<1>1. secure' \in BOOLEAN /\ published' \in BOOLEAN
  BY DEF Check, Live
<1> QED
  BY <1>1 DEF Check, SnapshotTypeOK

LEMMA SnapshotTyped ==
    ASSUME SnapshotTypeOK, [FNext]_fvars
    PROVE  SnapshotTypeOK'
<1>1. CASE Turn \/ \E t \in Tasks : Continue(t)
  <2>1. UNCHANGED snapshot \/ (\E dims : Doubt(dims)) \/ Check
    BY <1>1, TurnIsDoubtOrCheck, ContinueIsDoubtOrCheck
  <2>2. CASE UNCHANGED snapshot
    BY <2>2 DEF snapshot, SnapshotTypeOK
  <2> QED
    BY <2>1, <2>2, DoubtTyped, CheckTyped
<1>2. CASE KeypadSkips
  BY <1>2, CheckTyped DEF KeypadSkips
<1>3. CASE LearnDimension
  <2>1. seen' \subseteq Dimensions /\ UNCHANGED <<secure, published>>
    BY <1>3 DEF LearnDimension, SnapshotTypeOK
  <2>2. keypad' \subseteq KeypadFacts
    BY <1>3 DEF LearnDimension, SnapshotTypeOK
  <2> QED
    BY <2>1, <2>2 DEF SnapshotTypeOK
<1>4. CASE LearnKeypad
  <2>1. UNCHANGED <<seen, secure, published>>
    BY <1>4 DEF LearnKeypad
  <2>2. keypad' \subseteq KeypadFacts
    BY <1>4 DEF LearnKeypad, SnapshotTypeOK, KeypadFacts
  <2> QED
    BY <2>1, <2>2 DEF SnapshotTypeOK
<1>5. CASE Suspend \/ Corrupt
  BY <1>5, DoubtTyped DEF Suspend, Corrupt
<1>6. CASE Begun \/ Lost \/ Stopped
  BY <1>6 DEF Begun, Lost, Stopped, Forget, SnapshotTypeOK
<1>7. CASE Other \/ UNCHANGED fvars
  BY <1>7 DEF Other, fvars, snapshot, SnapshotTypeOK
<1> QED
  BY <1>1, <1>2, <1>3, <1>4, <1>5, <1>6, <1>7 DEF FNext

\* Only the dimensions that a snapshot asks for, and what the keypads tell, are ever
\* counted as known.
THEOREM SnapshotTypeCorrect == FSpec => []SnapshotTypeOK
<1>1. FInit => SnapshotTypeOK
  BY DEF FInit, SnapshotTypeOK
<1>2. SnapshotTypeOK /\ [FNext]_fvars => SnapshotTypeOK'
  BY SnapshotTyped
<1> QED
  BY <1>1, <1>2, PTL DEF FSpec

-----------------------------------------------------------------------------
(* The session implements the contract.                                     *)

LEMMA ContractInit ==
    ASSUME FInit
    PROVE  Contract!Init
  BY DEF FInit, Init, Contract!Init, Live, Dimensions, Connected

LEMMA ContractStep ==
    ASSUME Freshness, [FNext]_fvars
    PROVE  [Contract!Next]_<<Connected, Live, published>>
<1> USE DEF Contract!Next
<1>1. CASE Within
  <2>0. Connected' = Connected
    BY <1>1 DEF Within, Connected
  <2>1. CASE UNCHANGED snapshot
    BY <2>0, <2>1 DEF snapshot, Live
  <2>2. ASSUME NEW dims, Doubt(dims)
        PROVE  Contract!Withdraw \/ Contract!Doubt
    BY <2>0, <2>2 DEF Doubt, Live, Freshness, NothingKnownOffline, Contract!Withdraw, Contract!Doubt
  <2>3. CASE Check
    BY <2>0, <2>3 DEF Check, Live, Freshness, NothingKnownOffline, Contract!Withdraw,
                      Contract!Announce
  <2>4. CASE Connected /\ seen \subseteq seen' /\ UNCHANGED <<secure, published>>
    BY <2>0, <2>4 DEF Live, Contract!Learn
  <2> QED
    BY <1>1, <2>1, <2>2, <2>3, <2>4 DEF Within
<1>2. CASE Begun
  BY <1>2 DEF Begun, Connect, Forget, Live, Dimensions, Connected, Contract!Connect
<1>3. CASE Lost
  BY <1>3 DEF Lost, SessionLost, Forget, Live, Dimensions, Connected, Contract!Lose
<1>4. CASE Stopped
  BY <1>4 DEF Stopped, SessionStopped, Live, Connected, Contract!Withdraw
<1> QED
  BY <1>1, <1>2, <1>3, <1>4, StepKinds

\* Whoever reads panel/state_fresh may rely on FreshnessContract: freshness is
\* announced only when the state is known, withdrawn in the step that makes it
\* doubtful, and never outlives its session.
THEOREM ContractIsKept == FSpec => KeepsContract
<1>1. FInit => Freshness /\ Contract!Init
  BY FreshnessInit, ContractInit
<1>2. Freshness /\ [FNext]_fvars => Freshness'
  BY FreshnessStep
<1>3. Freshness /\ [FNext]_fvars => [Contract!Next]_<<Connected, Live, published>>
  BY ContractStep
<1> QED
  BY <1>1, <1>2, <1>3, PTL DEF FSpec, KeepsContract, Contract!Spec

-----------------------------------------------------------------------------
(* Every step is a step of the session, so what holds there holds here.     *)

LEMMA SessionStep ==
    ASSUME [FNext]_fvars
    PROVE  [Next]_vars
<1>1. CASE Turn
  BY <1>1 DEF Turn, Next, Loop, Worker
<1>2. CASE \E t \in Tasks : Continue(t)
  BY <1>2 DEF Continue, Next, TaskStep
<1>3. CASE LearnDimension \/ LearnKeypad \/ Suspend \/ Corrupt
  BY <1>3 DEF LearnDimension, LearnKeypad, Suspend, Corrupt, Next, Wire
<1>4. CASE Begun \/ Lost \/ Stopped
  BY <1>4 DEF Begun, Lost, Stopped, Next, Session
<1>5. CASE Other
  BY <1>5 DEF Other, Next, Worker, Wire, Session, TaskStep
<1>6. CASE KeypadSkips \/ UNCHANGED fvars
  BY <1>6 DEF KeypadSkips, fvars
<1> QED
  BY <1>1, <1>2, <1>3, <1>4, <1>5, <1>6 DEF FNext

LEMMA SessionOfSnapshot == FSpec => Spec
<1>1. FInit => Init
  BY DEF FInit
<1> QED
  BY <1>1, SessionStep, PTL DEF FSpec, Spec

-----------------------------------------------------------------------------
(***************************************************************************)
(* The partition report.  It may take keypads away from the snapshot or    *)
(* add some, so it must never be heard while the alarm sensors claim to    *)
(* know.  Only a full snapshot asks for it, and doubts it first.           *)
(***************************************************************************)

AsksPartition(queries) == \E i \in DOMAIN queries : queries[i] = "zone_partition"

MayAsk(t, op, queries) ==
    AsksPartition(queries) => t \in {"startup", "resync"} /\ op = "sync"

JobsMayAsk == \A t \in Tasks : MayAsk(t, job[t].op, job[t].left)

PartitionUnderWay == \/ \E i \in DOMAIN txq : txq[i].kind = "zone_partition"
                     \/ \E i \in DOMAIN rx : rx[i].msg = "zone_partition"

PartitionIsDoubted == Connected /\ PartitionUnderWay => "zone_partition" \notin seen

Security == /\ SnapshotTypeOK
            /\ JobsMayAsk
            /\ PartitionIsDoubted
            /\ SecureIsTrue

\* What the session is known to keep.
SessionOK == OneResponse /\ WorkLeft

LEMMA SessionParts ==
    ASSUME SessionOK
    PROVE  TypeOK /\ Exclusion /\ OneResponse /\ WorkLeft
  BY DEF SessionOK, OneResponse, UnderWay, Exclusion

\* Nothing is asked and nothing is learned.
LEMMA QuietPartition ==
    ASSUME PartitionIsDoubted, UNCHANGED <<phase, txq, rx>>, seen' \subseteq seen
    PROVE  PartitionIsDoubted'
  BY DEF PartitionIsDoubted, PartitionUnderWay, Connected

LEMMA EndsOnly ==
    ASSUME NEW t, NEW op, NEW outcome, Ends(t, op, outcome)
    PROVE  seen' \subseteq seen
  BY EndsIsDoubtOrCheck DEF Doubt, Check, snapshot

LEMMA JobsKept ==
    ASSUME JobsMayAsk, TypeOK, NEW t \in Tasks, NEW j,
           job' = [job EXCEPT ![t] = j], MayAsk(t, j.op, j.left)
    PROVE  JobsMayAsk'
<1> SUFFICES ASSUME NEW u \in Tasks PROVE MayAsk(u, job'[u].op, job'[u].left)
  BY DEF JobsMayAsk
<1>1. CASE u = t
  BY <1>1 DEF TypeOK
<1>2. CASE u # t
  BY <1>2 DEF TypeOK, JobsMayAsk
<1> QED BY <1>1, <1>2

LEMMA NoJobAsks ==
    ASSUME NEW t
    PROVE  MayAsk(t, NoJob.op, NoJob.left)
<1>1. NoJob.left = <<>> /\ DOMAIN <<>> = {}
  BY DEF NoJob
<1> QED BY <1>1 DEF MayAsk, AsksPartition

LEMMA ProceedsPartition ==
    ASSUME SessionOK, Security, NEW t \in Tasks, NEW op, NEW left \in Seq(Kinds) \ {<<>>},
           MayAsk(t, op, left), Proceed(t, op, left),
           Proceeds(t, op, left) \/ (UNCHANGED snapshot /\ Head(left) # "zone_partition")
    PROVE  JobsMayAsk' /\ PartitionIsDoubted'
<1>0. TypeOK /\ PartitionIsDoubted /\ JobsMayAsk
  BY SessionParts DEF Security
<1>1. CASE Verdict(t, op) # "go"
  <2>1. Leave(t, op, Verdict(t, op))
    BY <1>1 DEF Proceed
  <2>2. seen' \subseteq seen
    BY <1>1, EndsOnly DEF Proceeds, snapshot
  <2>3. UNCHANGED <<phase, txq, rx>> /\ job' = [job EXCEPT ![t] = NoJob]
    BY <2>1 DEF Leave, wire
  <2> QED BY <1>0, <2>2, <2>3, QuietPartition, JobsKept, NoJobAsks
<1>2. CASE Verdict(t, op) = "go"
  <2>1. Begin(t, op, left)
    BY <1>2 DEF Proceed
  <2>2. JobsMayAsk'
    <3> DEFINE j == [op |-> op, left |-> left]
    <3>1. job' = [job EXCEPT ![t] = j] /\ j.op = op /\ j.left = left
      BY <2>1 DEF Begin
    <3> HIDE DEF j
    <3> QED BY <1>0, <3>1, JobsKept
  <2>3. /\ UNCHANGED phase /\ txq \in Seq(Frame) /\ rx \in Seq(Packet)
        /\ txq' = Append(Orphan(txq, t), [kind |-> Head(left), for |-> t])
        /\ rx' = Orphan(rx, t) /\ Orphan(txq, t) \in Seq(Frame)
        /\ DOMAIN Orphan(txq, t) = DOMAIN txq /\ DOMAIN Orphan(rx, t) = DOMAIN rx
    BY <1>0, <2>1, OrphanFrames, OrphanKeeps DEF Begin, link, TypeOK
  <2>4. CASE Head(left) = "zone_partition"
    <3>1. Head(left) = left[1] /\ 1 \in DOMAIN left
      OBVIOUS
    <3>2. t \in {"startup", "resync"} /\ op = "sync"
      BY <2>4, <3>1 DEF MayAsk, AsksPartition
    <3>3. Doubt({"zone_partition"})
      BY <1>2, <2>4, <3>2 DEF Proceeds, Asks
    <3>4. "zone_partition" \notin seen'
      BY <3>3 DEF Doubt
    <3> QED BY <2>2, <3>4 DEF PartitionIsDoubted
  <2>5. CASE Head(left) # "zone_partition"
    <3>1. seen' \subseteq seen
      BY <1>2 DEF Proceeds, Asks, Doubt, snapshot
    <3>2. (\E i \in DOMAIN txq' : txq'[i].kind = "zone_partition")
             => \E i \in DOMAIN txq : txq[i].kind = "zone_partition"
      <4> SUFFICES ASSUME NEW i \in DOMAIN txq', txq'[i].kind = "zone_partition"
                   PROVE  i \in DOMAIN txq /\ txq[i].kind = "zone_partition"
        OBVIOUS
      <4> DEFINE q == Orphan(txq, t)  f == [kind |-> Head(left), for |-> t]
      <4>1. q \in Seq(Frame) /\ txq' = Append(q, f) /\ f.kind # "zone_partition"
        BY <2>3, <2>5
      <4> HIDE DEF q, f
      <4>2. (i \in DOMAIN q /\ txq'[i] = q[i]) \/ txq'[i] = f
        BY <4>1
      <4>3. i \in DOMAIN q /\ q[i].kind = "zone_partition"
        BY <4>1, <4>2
      <4> QED BY <2>3, <4>3, OrphanKeepsKinds DEF q
    <3>3. (\E i \in DOMAIN rx' : rx'[i].msg = "zone_partition")
             => \E i \in DOMAIN rx : rx[i].msg = "zone_partition"
      BY <2>3, OrphanKeepsKinds
    <3> QED BY <1>0, <2>2, <2>3, <3>1, <3>2, <3>3
            DEF PartitionIsDoubted, PartitionUnderWay, Connected
  <2> QED BY <2>4, <2>5
<1> QED BY <1>1, <1>2

LEMMA EntersPartition ==
    ASSUME SessionOK, Security, NEW t \in Tasks, NEW op, NEW left \in Seq(Kinds) \ {<<>>},
           MayAsk(t, op, left), Enter(t, op, left),
           Enters(t, op, left) \/ (UNCHANGED snapshot /\ Head(left) # "zone_partition")
    PROVE  JobsMayAsk' /\ PartitionIsDoubted'
<1>1. CASE owner = NoTask /\ waiters = <<>>
  BY <1>1, ProceedsPartition DEF Enter, Enters
<1>2. CASE ~(owner = NoTask /\ waiters = <<>>)
  <2> DEFINE j == [op |-> op, left |-> left]
  <2>1. job' = [job EXCEPT ![t] = j] /\ j.op = op /\ j.left = left
    BY <1>2 DEF Enter
  <2>2. UNCHANGED <<phase, txq, rx>> /\ UNCHANGED snapshot
    BY <1>2 DEF Enter, Enters, link, wire
  <2> HIDE DEF j
  <2>3. JobsMayAsk'
    BY <2>1, JobsKept, SessionParts DEF Security
  <2>4. PartitionIsDoubted'
    BY <2>2, QuietPartition DEF snapshot, Security
  <2> QED BY <2>3, <2>4
<1> QED BY <1>1, <1>2

\* What the tasks go to the lock for.
LEMMA QueriesOfTasks ==
    ASSUME TypeOK
    PROVE  /\ StartupQueries \in Seq(Kinds) \ {<<>>}
           /\ \A k \in Kinds : /\ <<k>> \in Seq(Kinds) \ {<<>>} /\ Head(<<k>>) = k
                               /\ k # "zone_partition" => ~AsksPartition(<<k>>)
           /\ \A n \in Nat \ {0} :
                 LET frames == [i \in 1 .. n |-> "control"]
                 IN frames \in Seq(Kinds) \ {<<>>} /\ Head(frames) = "control"
                    /\ ~AsksPartition(frames)
<1>1. StartupQueries \in Seq(Kinds) \ {<<>>}
  BY QueriesAssumption DEF Kinds
<1>2. ASSUME NEW k \in Kinds
      PROVE  /\ <<k>> \in Seq(Kinds) \ {<<>>} /\ Head(<<k>>) = k
             /\ k # "zone_partition" => ~AsksPartition(<<k>>)
  BY DEF AsksPartition
<1>3. ASSUME NEW n \in Nat \ {0}
      PROVE  LET frames == [i \in 1 .. n |-> "control"]
             IN frames \in Seq(Kinds) \ {<<>>} /\ Head(frames) = "control"
                /\ ~AsksPartition(frames)
  <2> DEFINE frames == [i \in 1 .. n |-> "control"]
  <2>1. frames \in [1 .. n -> Kinds] /\ DOMAIN frames = 1 .. n
        /\ \A i \in 1 .. n : frames[i] = "control"
    BY DEF Kinds
  <2> HIDE DEF frames
  <2>2. frames \in Seq(Kinds) /\ Len(frames) = n
    BY <2>1
  <2>3. frames # <<>> /\ Head(frames) = frames[1] /\ 1 \in 1 .. n
    BY <2>2
  <2>4. frames \in Seq(Kinds) \ {<<>>} /\ Head(frames) = "control" /\ ~AsksPartition(frames)
    BY <2>1, <2>2, <2>3 DEF AsksPartition
  <2> QED BY <2>4 DEF frames
<1> QED BY <1>1, <1>2, <1>3

LEMMA TurnPartition ==
    ASSUME SessionOK, Security, Turn
    PROVE  JobsMayAsk' /\ PartitionIsDoubted'
<1>0. /\ TypeOK /\ "control" \in Tasks /\ "resync" \in Tasks
      /\ "arming_status" \in Kinds /\ "keypad_display" \in Kinds
      /\ StartupQueries \in Seq(Kinds) \ {<<>>}
      /\ \A t : MayAsk(t, "sync", <<"arming_status">>)
      /\ \A t : MayAsk(t, "keypad", <<"keypad_display">>)
      /\ MayAsk("startup", "sync", StartupQueries) /\ MayAsk("resync", "sync", StartupQueries)
      /\ <<"arming_status">> \in Seq(Kinds) \ {<<>>}
      /\ <<"keypad_display">> \in Seq(Kinds) \ {<<>>}
  BY SessionParts, QueriesOfTasks, TaskNames DEF MayAsk, Kinds, SyncKinds
<1>1. CASE Startup /\ Enters("startup", "sync", StartupQueries)
  BY <1>0, <1>1, EntersPartition DEF Startup
<1>2. CASE Resync /\ Enters("resync", "sync", StartupQueries)
  BY <1>0, <1>2, EntersPartition DEF Resync
<1>3. CASE Periodic /\ Enters("periodic", "sync", <<"arming_status">>)
  BY <1>0, <1>3, EntersPartition DEF Periodic
<1>4. CASE PeriodicRefresh /\ Enters("periodic", "keypad", <<"keypad_display">>)
  BY <1>0, <1>4, EntersPartition DEF PeriodicRefresh
<1>5. CASE Keypad /\ Enters("keypad", "keypad", <<"keypad_display">>)
  BY <1>0, <1>5, EntersPartition DEF Keypad
<1>6. CASE Verify /\ Enters("control", "sync", <<"arming_status">>)
  BY <1>0, <1>6, EntersPartition DEF Verify
<1> QED BY <1>1, <1>2, <1>3, <1>4, <1>5, <1>6 DEF Turn

LEMMA ContinuePartition ==
    ASSUME SessionOK, Security, NEW t \in Tasks, Continue(t)
    PROVE  JobsMayAsk' /\ PartitionIsDoubted'
<1> DEFINE left == job[t].left  op == job[t].op
<1>0. /\ TypeOK /\ left \in Seq(Kinds) /\ MayAsk(t, op, left)
      /\ JobsMayAsk /\ PartitionIsDoubted
      /\ pc[t] = "queued" => left # <<>>
  BY SessionParts DEF Security, JobsMayAsk, TypeOK, WorkLeft
<1>1. Len(left) > 1 => Tail(left) \in Seq(Kinds) \ {<<>>} /\ MayAsk(t, op, Tail(left))
  <2> SUFFICES ASSUME Len(left) > 1
               PROVE  Tail(left) \in Seq(Kinds) \ {<<>>} /\ MayAsk(t, op, Tail(left))
    OBVIOUS
  <2>1. Tail(left) \in Seq(Kinds) \ {<<>>}
    BY <1>0, TailOfJob
  <2> HIDE DEF left, op
  <2>2. \A i \in DOMAIN Tail(left) : i + 1 \in DOMAIN left /\ Tail(left)[i] = left[i + 1]
    BY <1>0
  <2> QED BY <1>0, <2>1, <2>2 DEF MayAsk, AsksPartition
<1> HIDE DEF left, op
<1>2. ASSUME NEW outcome, Leave(t, op, outcome), seen' \subseteq seen
      PROVE  JobsMayAsk' /\ PartitionIsDoubted'
  <2>1. UNCHANGED <<phase, txq, rx>> /\ job' = [job EXCEPT ![t] = NoJob]
    BY <1>2 DEF Leave, wire
  <2> QED BY <1>0, <1>2, <2>1, QuietPartition, JobsKept, NoJobAsks
<1>3. CASE Granted(t) /\ Proceeds(t, op, left)
  <2>1. pc[t] = "queued" /\ Proceed(t, op, left)
    BY <1>3 DEF Granted, op, left
  <2> QED BY <1>0, <1>3, <2>1, ProceedsPartition
<1>4. CASE /\ Answered(t)
           /\ IF op = "external" /\ Len(left) > 1
              THEN Proceeds(t, "external", Tail(left)) ELSE UNCHANGED snapshot
  <2>1. CASE op = "external" /\ Len(left) > 1
    <3>1. Proceed(t, op, Tail(left)) /\ Proceeds(t, op, Tail(left))
      BY <1>4, <2>1 DEF Answered, op, left
    <3> QED BY <1>1, <2>1, <3>1, ProceedsPartition
  <2>2. CASE op = "external" /\ ~(Len(left) > 1)
    <3>1. Leave(t, op, "ok") /\ UNCHANGED snapshot
      BY <1>4, <2>2 DEF Answered, op, left
    <3> QED BY <1>2, <3>1 DEF snapshot
  <2>3. CASE op # "external"
    <3>1. UNCHANGED <<phase, txq, rx, job>> /\ UNCHANGED snapshot
      BY <1>4, <2>3 DEF Answered, op, left, link, wire
    <3> QED BY <1>0, <3>1, QuietPartition DEF JobsMayAsk, snapshot
  <2> QED BY <2>1, <2>2, <2>3
<1>5. CASE /\ Paced(t)
           /\ IF Len(left) > 1 THEN Proceeds(t, op, Tail(left)) ELSE Ends(t, op, "ok")
  <2>1. CASE Len(left) > 1
    <3>1. Proceed(t, op, Tail(left)) /\ Proceeds(t, op, Tail(left))
      BY <1>5, <2>1 DEF Paced, op, left
    <3> QED BY <1>1, <2>1, <3>1, ProceedsPartition
  <2>2. CASE ~(Len(left) > 1)
    <3>1. Leave(t, op, "ok") /\ Ends(t, op, "ok")
      BY <1>5, <2>2 DEF Paced, op, left
    <3> QED BY <1>2, <3>1, EndsOnly
  <2> QED BY <2>1, <2>2
<1>6. CASE /\ TimesOut(t)
           /\ Ends(t, op, IF txn[t].kind = "zone_descriptor" THEN "optional" ELSE "timeout")
  BY <1>2, <1>6, EndsOnly DEF TimesOut, op
<1> QED BY <1>3, <1>4, <1>5, <1>6 DEF Continue, op, left

\* What the panel sends, and what happens to the session.
LEMMA OtherPartition ==
    ASSUME SessionOK, Security, Other
    PROVE  JobsMayAsk' /\ PartitionIsDoubted'
<1>0. TypeOK /\ PartitionIsDoubted /\ JobsMayAsk /\ UNCHANGED snapshot
  BY SessionParts DEF Security, Other
<1>1. CASE EnqueueControl \/ ControlExpired \/ VerifyTooLate \/ ReceiveEvent \/ PeerCloses
  <2>1. UNCHANGED <<phase, txq, rx, job>>
    BY <1>1 DEF EnqueueControl, ControlExpired, VerifyTooLate, ReceiveEvent, PeerCloses,
                link, tasks, wire
  <2> QED BY <1>0, <2>1, QuietPartition DEF JobsMayAsk, snapshot
<1>2. CASE Control
  <2> DEFINE frames == [i \in 1 .. cmd.frames |-> "control"]
  <2>1. Enter("control", "external", frames)
    BY <1>2 DEF Control
  <2>2. cmd.frames \in Nat \ {0}
    BY <1>0 DEF TypeOK
  <2>3. frames \in Seq(Kinds) \ {<<>>} /\ Head(frames) = "control" /\ ~AsksPartition(frames)
    BY <1>0, <2>2, QueriesOfTasks
  <2>4. MayAsk("control", "external", frames) /\ "control" \in Tasks
    BY <2>3, TaskNames DEF MayAsk
  <2> HIDE DEF frames
  <2> QED BY <1>0, <2>1, <2>3, <2>4, EntersPartition
<1>3. CASE Transmit
  <2>1. UNCHANGED <<phase, job>> /\ txq' = Tail(txq) /\ txq # <<>> /\ txq \in Seq(Frame)
        /\ rx' \in Seq(Packet) /\ rx \in Seq(Packet) /\ 1 \in DOMAIN txq
    <3>1. rx' \in Seq(Packet)
      BY <1>0, <1>3, WireType DEF Wire, TypeOK
    <3>2. txq # <<>> /\ txq \in Seq(Frame) => 1 \in DOMAIN txq
      OBVIOUS
    <3> QED BY <1>0, <1>3, <3>1, <3>2 DEF Transmit, link, tasks, TypeOK
  <2> DEFINE k == txq[1].kind
  <2>2. k \in Kinds
    BY <1>0, <2>1, FrameParts
  <2>3. \A i \in DOMAIN txq' : i + 1 \in DOMAIN txq /\ txq'[i] = txq[i + 1]
    BY <2>1
  <2>4. \A i \in DOMAIN rx' : rx'[i].msg = "zone_partition" /\ k # "zone_partition" =>
           i \in DOMAIN rx /\ rx[i].msg = "zone_partition"
    <3> SUFFICES ASSUME NEW i \in DOMAIN rx', rx'[i].msg = "zone_partition",
                        k # "zone_partition", i \notin DOMAIN rx
                 PROVE  FALSE
      BY <1>0, <1>3, TransmitParts
    <3>1. PICK m \in 1 .. Len(Answer(k)) : rx'[i].msg = Answer(k)[m]
      BY <1>0, <1>3, HeardParts
    <3> QED BY <2>2, <3>1, FirstOfAnswer
  <2>5. PartitionUnderWay' => PartitionUnderWay
    BY <2>1, <2>3, <2>4 DEF PartitionUnderWay
  <2> QED BY <1>0, <2>1, <2>5 DEF JobsMayAsk, PartitionIsDoubted, Connected, snapshot
<1>4. CASE ReceiveReady
  <2>1. UNCHANGED <<phase, job, txq>> /\ rx' = Tail(rx) /\ rx # <<>>
    BY <1>4 DEF ReceiveReady, link, tasks
  <2>2. PartitionUnderWay' => PartitionUnderWay
    BY <1>0, <2>1, PacketsLeft DEF PartitionUnderWay
  <2> QED BY <1>0, <2>1, <2>2 DEF JobsMayAsk, PartitionIsDoubted, Connected, snapshot
<1>5. CASE \E t \in Tasks : Cancelled(t)
  <2>1. PICK t \in Tasks : Cancelled(t)
    BY <1>5
  <2>2. job' = [job EXCEPT ![t] = NoJob] /\ ~Connected'
    BY <2>1 DEF Cancelled, link, Connected
  <2> QED BY <1>0, <2>2, JobsKept, NoJobAsks DEF PartitionIsDoubted
<1> QED BY <1>1, <1>2, <1>3, <1>4, <1>5 DEF Other

LEMMA ReceivePartition ==
    ASSUME SessionOK, Security,
           LearnDimension \/ LearnKeypad \/ Suspend \/ Corrupt \/ Begun \/ Lost \/ Stopped
    PROVE  JobsMayAsk' /\ PartitionIsDoubted'
<1>0. TypeOK /\ PartitionIsDoubted /\ JobsMayAsk
  BY SessionParts DEF Security
<1>1. job' = job
  BY DEF LearnDimension, LearnKeypad, Suspend, Corrupt, Begun, Lost, Stopped, ReceiveResponse,
         ReceiveXF, ReceiveXN, ReceiveInvalid, Connect, SessionLost, SessionStopped, tasks
<1>2. JobsMayAsk'
  BY <1>0, <1>1 DEF JobsMayAsk
<1>3. CASE LearnDimension
  <2>1. Head(rx).msg # "control" /\ ReceiveResponse
    BY <1>3 DEF LearnDimension, SyncKinds
  <2>2. ResponseFrames' = {} /\ ResponsePackets' = {}
    BY <2>1, SessionParts, ReceiveOneResponse
  <2>3. ~PartitionUnderWay'
    BY <2>2 DEF PartitionUnderWay, ResponseFrames, ResponsePackets
  <2> QED BY <1>2, <2>3 DEF PartitionIsDoubted
<1>4. CASE LearnKeypad
  <2>1. UNCHANGED <<phase, txq, seen>> /\ rx' = Tail(rx) /\ rx # <<>>
    BY <1>4 DEF LearnKeypad, ReceiveResponse, link
  <2>2. PartitionUnderWay' => PartitionUnderWay
    BY <1>0, <2>1, PacketsLeft DEF PartitionUnderWay
  <2> QED BY <1>0, <1>2, <2>1, <2>2 DEF PartitionIsDoubted, Connected
<1>5. CASE Suspend \/ Corrupt
  <2>1. UNCHANGED <<phase, txq, rx>> /\ seen' \subseteq seen
    BY <1>5 DEF Suspend, Corrupt, ReceiveXF, ReceiveXN, ReceiveInvalid, link, wire, Doubt
  <2> QED BY <1>0, <1>2, <2>1, QuietPartition
<1>6. CASE Begun
  BY <1>2, <1>6 DEF Begun, Forget, PartitionIsDoubted
<1>7. CASE Lost \/ Stopped
  BY <1>2, <1>7 DEF Lost, Stopped, SessionLost, SessionStopped, PartitionIsDoubted, Connected
<1> QED BY <1>3, <1>4, <1>5, <1>6, <1>7

\* Only a partition report takes a fact about the keypads away, and it is never
\* heard while the sensors claim to know.
LEMMA SecureStep ==
    ASSUME SessionOK, Security, [FNext]_fvars
    PROVE  SecureIsTrue'
<1>0. TypeOK /\ PartitionIsDoubted /\ SecureIsTrue
  BY SessionParts DEF Security
<1> USE DEF SecureIsTrue, Live, Known
<1>1. CASE Turn \/ (\E t \in Tasks : Continue(t)) \/ KeypadSkips \/ Suspend \/ Corrupt
  <2>1. UNCHANGED snapshot \/ (\E dims : Doubt(dims)) \/ Check
    BY <1>1, TurnIsDoubtOrCheck, ContinueIsDoubtOrCheck DEF KeypadSkips, Suspend, Corrupt
  <2>2. CASE UNCHANGED snapshot
    BY <1>0, <2>2 DEF snapshot
  <2>3. ASSUME NEW dims, Doubt(dims) PROVE SecureIsTrue'
    BY <1>0, <2>3 DEF Doubt
  <2>4. CASE Check
    BY <2>4 DEF Check
  <2> QED BY <2>1, <2>2, <2>3, <2>4
<1>2. CASE LearnDimension
  <2>1. seen \subseteq seen' /\ secure' = secure
    BY <1>2 DEF LearnDimension
  <2>2. CASE Head(rx).msg = "zone_partition"
    <3>1. rx # <<>> /\ Connected /\ rx[1].msg = "zone_partition" /\ 1 \in DOMAIN rx
      BY <1>0, <1>2, <2>2 DEF LearnDimension, ReceiveResponse, TypeOK
    <3>2. "zone_partition" \notin seen
      BY <1>0, <3>1 DEF PartitionIsDoubted, PartitionUnderWay
    <3> QED BY <1>0, <2>1, <3>2 DEF Dimensions
  <2>3. CASE Head(rx).msg # "zone_partition"
    BY <1>0, <1>2, <2>1, <2>3 DEF LearnDimension
  <2> QED BY <2>2, <2>3
<1>3. CASE LearnKeypad
  BY <1>0, <1>3 DEF LearnKeypad
<1>4. CASE Begun \/ Lost
  BY <1>4 DEF Begun, Lost, Forget
<1>5. CASE Stopped \/ Other \/ UNCHANGED fvars
  BY <1>0, <1>5 DEF Stopped, Other, fvars, snapshot
<1> QED BY <1>1, <1>2, <1>3, <1>4, <1>5 DEF FNext

LEMMA SecurityInvariant == FSpec => []Security
<1>1. FInit => Security
  <2> SUFFICES ASSUME FInit PROVE Security
    OBVIOUS
  <2>1. JobsMayAsk
    BY NoJobAsks DEF FInit, Init, JobsMayAsk
  <2> QED BY <2>1 DEF FInit, Init, Security, SnapshotTypeOK, PartitionIsDoubted, Connected,
                      SecureIsTrue
<1>2. SessionOK /\ Security /\ [FNext]_fvars => Security'
  <2> SUFFICES ASSUME SessionOK, Security, [FNext]_fvars PROVE Security'
    OBVIOUS
  <2>1. SnapshotTypeOK' /\ SecureIsTrue'
    BY SnapshotTyped, SecureStep DEF Security
  <2>2. CASE KeypadSkips \/ UNCHANGED fvars
    <3>1. UNCHANGED <<phase, txq, rx, job>> /\ seen' = seen
      BY <2>2 DEF KeypadSkips, fvars, vars, link, wire, tasks, snapshot, Check
    <3> QED BY <2>1, <3>1, QuietPartition DEF Security, JobsMayAsk
  <2>3. JobsMayAsk' /\ PartitionIsDoubted'
    BY <2>2, TurnPartition, ContinuePartition, OtherPartition, ReceivePartition
       DEF FNext, Security
  <2> QED BY <2>1, <2>3 DEF Security
<1>3. OneResponse /\ TypeOK /\ WorkLeft => SessionOK
  BY DEF SessionOK
<1> QED
  BY <1>1, <1>2, <1>3, SessionOfSnapshot, OneResponseInvariant, TypeCorrect, PTL DEF FSpec

\* The alarm sensors claim to know only while the whole snapshot is live and every
\* keypad has told its LEDs, in every session and after any 08XF, 08XN or power-up.
THEOREM SecurityIsTrue == FSpec => []SecureIsTrue
<1>1. Security => SecureIsTrue
  BY DEF Security
<1> QED BY <1>1, SecurityInvariant, PTL

-----------------------------------------------------------------------------
(***************************************************************************)
(* The zones.  Nobody polls them: a zone report that is missing is on the  *)
(* list of a full snapshot, or a full snapshot has been asked for, or the  *)
(* session has an excuse.                                                  *)
(***************************************************************************)

Full  == {"startup", "resync"}
Zones == {"zone_status", "zone_partition"}
Among(d, queries) == \E i \in DOMAIN queries : queries[i] = d

\* The report d is still to come for what t does under the lock.
ToCome(t, d) ==
    /\ pc[t] \in {"wait", "pause"}
    /\ \/ Among(d, Tail(job[t].left))
       \/ pc[t] = "wait" /\ ~txn[t].seen /\ Head(job[t].left) = d

PlannedBy(t, d) == \/ pc[t] = "queued"
                   \/ pc[t] = "idle" /\ t = "startup"
                   \/ ToCome(t, d)

Excused == \/ ~Connected \/ socket = "closed" \/ tainted \/ program
           \/ resyncReq \/ recovery \/ automation = "explicit"

Held(d) == d \in seen \/ Excused \/ \E t \in Full \cap Tasks : PlannedBy(t, d)

\* What the full snapshots do under the lock, and what they go to it for.
FullJob(t) ==
    /\ pc[t] = "queued" => job[t] = [op |-> "sync", left |-> StartupQueries]
    /\ pc[t] \in {"wait", "pause"} => /\ job[t].op = "sync"
                                      /\ job[t].left \in Seq(SyncKinds) \ {<<>>}
    /\ pc[t] = "wait" => txn[t].kind = Head(job[t].left)

ZonesAreHeld == /\ \A t \in Full \cap Tasks : FullJob(t)
                /\ "startup" \in Tasks => \A d \in Zones : Held(d)

Repair == Security /\ ZonesAreHeld

\* The first query and the others are all there are.
LEMMA AmongParts ==
    ASSUME NEW q \in Seq(SyncKinds) \ {<<>>}, NEW d
    PROVE  /\ Head(q) \in SyncKinds /\ Tail(q) \in Seq(SyncKinds)
           /\ Among(d, q) <=> Head(q) = d \/ Among(d, Tail(q))
           /\ Len(q) > 1 => Tail(q) # <<>>
           /\ ~(Len(q) > 1) => ~Among(d, Tail(q))
<1>1. /\ Head(q) = q[1] /\ Tail(q) \in Seq(SyncKinds) /\ Len(Tail(q)) = Len(q) - 1
      /\ \A i \in 1 .. Len(Tail(q)) : Tail(q)[i] = q[i + 1]
      /\ Len(q) \in Nat /\ Len(q) >= 1 /\ Head(q) \in SyncKinds
      /\ DOMAIN q = 1 .. Len(q) /\ DOMAIN Tail(q) = 1 .. Len(Tail(q))
  <2>1. /\ Head(q) \in SyncKinds /\ Tail(q) \in Seq(SyncKinds) /\ Len(Tail(q)) = Len(q) - 1
        /\ \A i \in 1 .. Len(Tail(q)) : Tail(q)[i] = q[i + 1]
    BY HeadTailProperties
  <2>2. Len(q) \in Nat \ {0} /\ Head(q) = q[1]
    OBVIOUS
  <2> QED BY <2>1, <2>2
<1>2. ASSUME Among(d, Tail(q)) PROVE Among(d, q)
  <2>1. PICK i \in 1 .. Len(Tail(q)) : Tail(q)[i] = d
    BY <1>1, <1>2 DEF Among
  <2>2. i + 1 \in DOMAIN q /\ q[i + 1] = d
    BY <1>1, <2>1
  <2> QED BY <2>2 DEF Among
<1>3. ASSUME Among(d, q) PROVE Head(q) = d \/ Among(d, Tail(q))
  <2>1. PICK i \in 1 .. Len(q) : q[i] = d
    BY <1>1, <1>3 DEF Among
  <2>2. CASE i = 1
    BY <1>1, <2>1, <2>2
  <2>3. CASE i # 1
    <3>1. i - 1 \in 1 .. Len(Tail(q)) /\ (i - 1) + 1 = i
      BY <1>1, <2>3
    <3>2. Tail(q)[i - 1] = d
      BY <1>1, <2>1, <3>1
    <3> QED BY <1>1, <3>1, <3>2 DEF Among
  <2> QED BY <2>2, <2>3
<1>4. Head(q) = d => Among(d, q)
  <2>1. 1 \in DOMAIN q
    BY <1>1
  <2> QED BY <1>1, <2>1 DEF Among
<1>5. Len(q) > 1 => Tail(q) # <<>>
  <2>1. Len(q) > 1 => Len(Tail(q)) # 0
    BY <1>1
  <2>2. Len(<<>>) = 0
    OBVIOUS
  <2> QED BY <2>1, <2>2
<1>6. ~(Len(q) > 1) => ~Among(d, Tail(q))
  <2>1. ~(Len(q) > 1) => DOMAIN Tail(q) = {}
    BY <1>1
  <2> QED BY <2>1 DEF Among
<1> QED BY <1>1, <1>2, <1>3, <1>4, <1>5, <1>6

\* A full snapshot asks for the zones.
LEMMA FullAsksZones ==
    /\ StartupQueries \in Seq(SyncKinds) \ {<<>>}
    /\ \A d \in Zones : Among(d, StartupQueries)
  BY QueriesAssumption, SnapshotAssumption DEF Among, Zones, Dimensions

\* A task that is left alone keeps its plan.
LEMMA PlanKept ==
    ASSUME NEW t, pc'[t] = pc[t], job'[t] = job[t],
           txn'[t].kind = txn[t].kind, txn'[t].seen = txn[t].seen
    PROVE  /\ FullJob(t) => FullJob(t)'
           /\ \A d : PlannedBy(t, d) => PlannedBy(t, d)'
  BY DEF FullJob, PlannedBy, ToCome

\* What t goes for under the lock: a full snapshot still asks for what it had planned.
Pursues(t, op, left) ==
    t \in Full => /\ op = "sync" /\ left \in Seq(SyncKinds) \ {<<>>}
                  /\ \A d \in Zones : PlannedBy(t, d) \/ pc[t] = "idle" => Among(d, left)

LEMMA BeginHeld ==
    ASSUME TypeOK, ZonesAreHeld, NEW t \in Tasks, NEW op, NEW left, Pursues(t, op, left),
           Begin(t, op, left),
           \A d \in seen \ seen' : t \in Full /\ d = Head(left)
    PROVE  ZonesAreHeld'
<1>0. /\ pc' = [pc EXCEPT ![t] = "wait"] /\ job' = [job EXCEPT ![t] = [op |-> op, left |-> left]]
      /\ txn' = [txn EXCEPT ![t] = [kind |-> Head(left), current |-> TRUE,
                                    seen |-> FALSE, ready |-> FALSE]]
      /\ UNCHANGED <<phase, socket, tainted, program, recovery, automation>>
      /\ resyncReq' = RequestLeft(t)
  BY DEF Begin, link, control
<1>1. /\ pc'[t] = "wait" /\ job'[t].op = op /\ job'[t].left = left
      /\ txn'[t].kind = Head(left) /\ ~txn'[t].seen
      /\ \A u \in Tasks : u # t => pc'[u] = pc[u] /\ job'[u] = job[u] /\ txn'[u] = txn[u]
  BY <1>0 DEF TypeOK
<1>2. ASSUME NEW u \in Full \cap Tasks PROVE FullJob(u)'
  <2>1. CASE u = t
    BY <1>1, <2>1 DEF Pursues, FullJob
  <2>2. CASE u # t
    BY <1>1, <2>2, PlanKept DEF ZonesAreHeld
  <2> QED BY <2>1, <2>2
<1>3. ASSUME NEW d \in Zones, Held(d) PROVE Held(d)'
  <2>1. ASSUME t \in Full, Among(d, left) PROVE Held(d)'
    <3>1. Head(left) = d \/ Among(d, Tail(left))
      BY <2>1, AmongParts DEF Pursues
    <3>2. PlannedBy(t, d)'
      BY <1>1, <3>1 DEF PlannedBy, ToCome
    <3> QED BY <2>1, <3>2 DEF Held
  <2>2. CASE d \in seen
    <3>1. CASE d \in seen'
      BY <3>1 DEF Held
    <3>2. CASE d \notin seen'
      BY <2>1, <2>2, <3>2, AmongParts DEF Pursues
    <3> QED BY <3>1, <3>2
  <2>3. CASE Excused
    <3>1. CASE t = "resync" /\ pc[t] = "idle"
      BY <2>1, <3>1 DEF Pursues, Full
    <3>2. CASE ~(t = "resync" /\ pc[t] = "idle")
      BY <1>0, <2>3, <3>2 DEF Excused, Held, RequestLeft, Connected
    <3> QED BY <3>1, <3>2
  <2>4. ASSUME NEW u \in Full \cap Tasks, PlannedBy(u, d) PROVE Held(d)'
    <3>1. CASE u = t
      BY <2>1, <2>4, <3>1 DEF Pursues
    <3>2. CASE u # t
      BY <1>1, <2>4, <3>2, PlanKept DEF Held
    <3> QED BY <3>1, <3>2
  <2> QED BY <1>3, <2>2, <2>3, <2>4 DEF Held
<1> QED BY <1>2, <1>3 DEF ZonesAreHeld

\* A full snapshot leaves the lock with all its reports heard, or the session ends.
LEMMA LeaveHeld ==
    ASSUME TypeOK, ZonesAreHeld, NEW t \in Tasks, NEW op, NEW outcome, Leave(t, op, outcome),
           seen \cap Zones \subseteq seen',
           t \in Full => /\ Resumes(t, op, outcome) \in {"off", "idle"}
                         /\ \/ ~Connected \/ tainted' \/ socket' = "closed"
                            \/ pc[t] = "pause" /\ \A d \in Zones : ~PlannedBy(t, d)
    PROVE  ZonesAreHeld'
<1> DEFINE next == Resumes(t, op, outcome)
<1>0. /\ pc' = [pc EXCEPT ![t] = next] /\ job' = [job EXCEPT ![t] = NoJob]
      /\ txn' = Dropped(t) /\ UNCHANGED <<phase, program, automation>>
      /\ (tainted => tainted') /\ (socket = "closed" => socket' = "closed")
      /\ resyncReq /\ ~(t = "resync" /\ pc[t] = "idle") => resyncReq'
      /\ recovery => recovery' \/ resyncReq'
  BY DEF Leave, RequestLeft
<1>1. /\ pc'[t] = next
      /\ \A u \in Tasks : u # t => pc'[u] = pc[u] /\ job'[u] = job[u] /\ txn'[u] = txn[u]
  BY <1>0 DEF TypeOK, Dropped
<1>2. ASSUME NEW u \in Full \cap Tasks PROVE FullJob(u)'
  <2>1. CASE u = t
    BY <1>1, <2>1 DEF FullJob
  <2>2. CASE u # t
    BY <1>1, <2>2, PlanKept DEF ZonesAreHeld
  <2> QED BY <2>1, <2>2
<1>3. ASSUME NEW d \in Zones, Held(d) PROVE Held(d)'
  <2>1. CASE ~Connected \/ tainted' \/ socket' = "closed"
    BY <1>0, <2>1 DEF Held, Excused, Connected
  <2>2. CASE ~(~Connected \/ tainted' \/ socket' = "closed")
    <3>1. t \in Full => pc[t] = "pause" /\ ~PlannedBy(t, d)
      BY <2>2
    <3>2. CASE d \in seen
      BY <3>2 DEF Held
    <3>3. CASE Excused
      <4>1. ~(t = "resync" /\ pc[t] = "idle")
        BY <3>1 DEF Full
      <4> QED BY <1>0, <2>2, <3>3, <4>1 DEF Excused, Held, Connected
    <3>4. ASSUME NEW u \in Full \cap Tasks, PlannedBy(u, d) PROVE Held(d)'
      <4>1. u # t
        BY <3>1, <3>4
      <4> QED BY <1>1, <3>4, <4>1, PlanKept DEF Held
    <3> QED BY <1>3, <3>2, <3>3, <3>4 DEF Held
  <2> QED BY <2>1, <2>2
<1> QED BY <1>2, <1>3 DEF ZonesAreHeld

LEMMA ProceedHeld ==
    ASSUME SessionOK, ZonesAreHeld, SnapshotTypeOK, NEW t \in Tasks, Entitled(t), NEW op, NEW left,
           Pursues(t, op, left), Proceed(t, op, left),
           Proceeds(t, op, left) \/ UNCHANGED snapshot
    PROVE  ZonesAreHeld'
<1>0. TypeOK /\ OneTransaction
  BY SessionParts DEF Exclusion
<1>1. CASE Verdict(t, op) = "go"
  <2>1. Begin(t, op, left)
    BY <1>1 DEF Proceed
  <2>2. \A d \in seen \ seen' : t \in Full /\ d = Head(left)
    BY <1>1 DEF Proceeds, Asks, Doubt, snapshot, Full
  <2> QED BY <1>0, <2>1, <2>2, BeginHeld
<1>2. CASE Verdict(t, op) # "go"
  <2> DEFINE outcome == Verdict(t, op)
  <2>1. Leave(t, op, outcome)
    BY <1>2 DEF Proceed
  <2>2. outcome \in {"offline", "refused", "raised", "unsent"}
    BY <1>2 DEF Verdict
  <2>3. seen \cap Zones \subseteq seen'
    <3>1. \/ UNCHANGED snapshot \/ Doubt({"arming_status"}) \/ Check
      BY <1>2, EndsIsDoubtOrCheck DEF Proceeds
    <3> QED BY <3>1 DEF snapshot, Doubt, Check, Zones
  <2>4. ASSUME t \in Full
        PROVE  /\ Resumes(t, op, outcome) \in {"off", "idle"}
               /\ ~Connected \/ tainted' \/ socket' = "closed"
    <3>1. op = "sync" /\ pending \in {NoTask, t}
      BY <1>0, <2>4 DEF Pursues, Entitled, OneTransaction
    <3>2. Resumes(t, op, outcome) \in {"off", "idle"}
      BY <2>4 DEF Resumes, Full
    <3>3. outcome \in {"offline", "raised", "unsent"}
      BY <2>2, <3>1 DEF Verdict
    <3>4. CASE outcome = "offline"
      BY <3>2, <3>4 DEF Verdict
    <3>5. CASE outcome = "raised"
      <4>1. tainted
        BY <3>1, <3>5 DEF Verdict
      <4>2. tainted'
        BY <2>1, <4>1 DEF Leave
      <4> QED BY <3>2, <4>2
    <3>6. CASE outcome = "unsent"
      <4>1. GivesUp(t, op, outcome)
        BY <2>4, <3>1, <3>6 DEF GivesUp, Succeeded, Full
      <4>2. ForcesReconnect(t, op, outcome)
        BY <4>1 DEF ForcesReconnect
      <4>3. socket' = "closed"
        BY <2>1, <4>2 DEF Leave
      <4> QED BY <3>2, <4>3
    <3> QED BY <3>3, <3>4, <3>5, <3>6
  <2> HIDE DEF outcome
  <2> QED BY <1>0, <2>1, <2>3, <2>4, LeaveHeld
<1> QED BY <1>1, <1>2

LEMMA EnterHeld ==
    ASSUME SessionOK, ZonesAreHeld, SnapshotTypeOK, NEW t \in Tasks, NEW op, NEW left,
           Alive(t), pc[t] \in {"idle", "refresh", "verify"}, Enter(t, op, left),
           t \in Full => op = "sync" /\ left = StartupQueries,
           Enters(t, op, left) \/ UNCHANGED snapshot
    PROVE  ZonesAreHeld'
<1>0. TypeOK
  BY SessionParts
<1>1. CASE owner = NoTask /\ waiters = <<>>
  <2>1. Entitled(t)
    BY <1>1 DEF Entitled
  <2>2. Pursues(t, op, left)
    BY FullAsksZones DEF Pursues
  <2>3. Proceed(t, op, left) /\ (Proceeds(t, op, left) \/ UNCHANGED snapshot)
    BY <1>1 DEF Enter, Enters
  <2> QED BY <2>1, <2>2, <2>3, ProceedHeld
<1>2. CASE ~(owner = NoTask /\ waiters = <<>>)
  <2>1. /\ pc' = [pc EXCEPT ![t] = "queued"]
        /\ job' = [job EXCEPT ![t] = [op |-> op, left |-> left]]
        /\ txn' = txn /\ seen' = seen
        /\ UNCHANGED <<phase, socket, tainted, program, recovery, automation>>
        /\ resyncReq' = RequestLeft(t)
    BY <1>2 DEF Enter, Enters, snapshot, link, sync, control
  <2>2. /\ pc'[t] = "queued" /\ job'[t] = [op |-> op, left |-> left]
        /\ \A u \in Tasks : u # t => pc'[u] = pc[u] /\ job'[u] = job[u] /\ txn'[u] = txn[u]
    BY <1>0, <2>1 DEF TypeOK
  <2>3. ASSUME NEW u \in Full \cap Tasks PROVE FullJob(u)'
    <3>1. CASE u = t
      BY <2>2, <3>1 DEF FullJob
    <3>2. CASE u # t
      BY <2>2, <3>2, PlanKept DEF ZonesAreHeld
    <3> QED BY <3>1, <3>2
  <2>4. t \in Full => \A d : Held(d)'
    BY <2>2 DEF PlannedBy, Held
  <2>5. ASSUME NEW d \in Zones, Held(d), t \notin Full PROVE Held(d)'
    <3>1. CASE d \in seen
      BY <2>1, <3>1 DEF Held
    <3>2. CASE Excused
      BY <2>1, <2>5, <3>2 DEF Excused, Held, Connected, RequestLeft, Full
    <3>3. ASSUME NEW u \in Full \cap Tasks, PlannedBy(u, d) PROVE Held(d)'
      BY <2>2, <2>5, <3>3, PlanKept DEF Held
    <3> QED BY <2>5, <3>1, <3>2, <3>3 DEF Held
  <2> QED BY <2>3, <2>4, <2>5 DEF ZonesAreHeld
<1> QED BY <1>1, <1>2

LEMMA TurnHeld ==
    ASSUME SessionOK, Repair, Turn
    PROVE  ZonesAreHeld'
<1>0. /\ TypeOK /\ "control" \in Tasks /\ "resync" \in Tasks
      /\ SnapshotTypeOK /\ ZonesAreHeld
      /\ "control" \notin Full /\ "periodic" \notin Full /\ "keypad" \notin Full
  BY SessionParts, TaskNames DEF Repair, Security, Full
<1>1. CASE Startup /\ Enters("startup", "sync", StartupQueries)
  BY <1>0, <1>1, EnterHeld DEF Startup, Alive
<1>2. CASE Resync /\ Enters("resync", "sync", StartupQueries)
  BY <1>0, <1>2, EnterHeld DEF Resync, Alive
<1>3. CASE Periodic /\ Enters("periodic", "sync", <<"arming_status">>)
  BY <1>0, <1>3, EnterHeld DEF Periodic, Alive
<1>4. CASE PeriodicRefresh /\ Enters("periodic", "keypad", <<"keypad_display">>)
  BY <1>0, <1>4, EnterHeld DEF PeriodicRefresh, Alive
<1>5. CASE Keypad /\ Enters("keypad", "keypad", <<"keypad_display">>)
  BY <1>0, <1>5, EnterHeld DEF Keypad, Alive
<1>6. CASE Verify /\ Enters("control", "sync", <<"arming_status">>)
  BY <1>0, <1>6, EnterHeld DEF Verify, Alive
<1> QED BY <1>1, <1>2, <1>3, <1>4, <1>5, <1>6 DEF Turn

\* The answer of a query that a full snapshot waits for has been heard.
LEMMA AnswerIsHeard ==
    ASSUME SessionOK, NEW t \in Full \cap Tasks, FullJob(t), pc[t] = "wait", EventSet(t)
    PROVE  txn[t].seen
<1>1. txn[t].kind \in SyncKinds
  BY DEF FullJob
<1>2. CASE txn[t].kind = "zone_descriptor"
  BY <1>2 DEF EventSet
<1>3. CASE txn[t].kind # "zone_descriptor"
  <2>1. Expects(txn[t].kind)
    BY <1>1, <1>3 DEF Expects, Kinds, SyncKinds
  <2> QED BY <1>3, <2>1, SessionParts DEF EventSet, OneResponse, ReadyAfterSeen
<1> QED BY <1>2, <1>3

\* The wait is over: the query that was answered is off the list.
LEMMA PauseHeld ==
    ASSUME SessionOK, ZonesAreHeld, NEW t \in Tasks, pc[t] = "wait", EventSet(t),
           pc' = [pc EXCEPT ![t] = "pause"], UNCHANGED <<txn, job, seen, modes, link>>,
           tainted' = tainted, automation' = automation
    PROVE  ZonesAreHeld'
<1>0. TypeOK
  BY SessionParts
<1>1. pc'[t] = "pause" /\ \A u \in Tasks : u # t => pc'[u] = pc[u]
  BY <1>0 DEF TypeOK
<1>2. ASSUME NEW u \in Full \cap Tasks
      PROVE  FullJob(u)' /\ \A d : PlannedBy(u, d) => PlannedBy(u, d)'
  <2>1. FullJob(u)
    BY DEF ZonesAreHeld
  <2>2. CASE u = t
    <3>1. txn[t].seen
      BY <2>1, <2>2, AnswerIsHeard
    <3> QED BY <1>1, <2>1, <2>2, <3>1 DEF FullJob, PlannedBy, ToCome
  <2>3. CASE u # t
    BY <1>1, <2>1, <2>3, PlanKept
  <2> QED BY <2>2, <2>3
<1>3. Excused => Excused'
  BY DEF Excused, modes, link, Connected
<1> QED BY <1>2, <1>3 DEF ZonesAreHeld, Held

LEMMA ContinueHeld ==
    ASSUME SessionOK, Repair, NEW t \in Tasks, Continue(t)
    PROVE  ZonesAreHeld'
<1> DEFINE left == job[t].left  op == job[t].op
<1>0. /\ TypeOK /\ ZonesAreHeld /\ SnapshotTypeOK
      /\ pc[t] \in {"wait", "pause"} <=> owner = t
      /\ t \in Full => FullJob(t)
  BY SessionParts DEF Repair, Security, Exclusion, HolderIsInside, ZonesAreHeld
<1>1. CASE Granted(t) /\ Proceeds(t, op, left)
  <2>1. Entitled(t) /\ pc[t] = "queued" /\ Proceed(t, op, left)
    BY <1>1 DEF Granted, Entitled
  <2>2. Pursues(t, op, left)
    BY <1>0, <2>1, FullAsksZones DEF Pursues, FullJob
  <2> QED BY <1>0, <1>1, <2>1, <2>2, ProceedHeld
<1>2. CASE /\ Answered(t)
           /\ IF op = "external" /\ Len(left) > 1
              THEN Proceeds(t, "external", Tail(left)) ELSE UNCHANGED snapshot
  <2>0. Alive(t) /\ pc[t] = "wait" /\ EventSet(t) /\ Entitled(t)
    BY <1>0, <1>2 DEF Answered, Entitled
  <2>1. CASE op = "external"
    <3>1. t \notin Full
      BY <1>0, <2>0, <2>1 DEF FullJob
    <3>2. CASE Len(left) > 1
      <4>1. Proceed(t, op, Tail(left)) /\ Proceeds(t, op, Tail(left))
        BY <1>2, <2>1, <3>2 DEF Answered
      <4>2. Pursues(t, op, Tail(left))
        BY <3>1 DEF Pursues
      <4> QED BY <1>0, <2>0, <4>1, <4>2, ProceedHeld
    <3>3. CASE ~(Len(left) > 1)
      <4>1. Leave(t, op, "ok") /\ seen' = seen
        BY <1>2, <2>1, <3>3 DEF Answered, snapshot
      <4> QED BY <1>0, <3>1, <4>1, LeaveHeld
    <3> QED BY <3>2, <3>3
  <2>2. CASE op # "external"
    <3>1. /\ pc' = [pc EXCEPT ![t] = "pause"] /\ UNCHANGED <<txn, job, seen, modes, link>>
          /\ tainted' = tainted /\ automation' = automation
      BY <1>2, <2>2 DEF Answered, snapshot, control
    <3> QED BY <1>0, <2>0, <3>1, PauseHeld
  <2> QED BY <2>1, <2>2
<1>3. CASE /\ Paced(t)
           /\ IF Len(left) > 1 THEN Proceeds(t, op, Tail(left)) ELSE Ends(t, op, "ok")
  <2>0. Alive(t) /\ pc[t] = "pause" /\ Entitled(t)
    BY <1>0, <1>3 DEF Paced, Entitled
  <2>1. CASE Len(left) > 1
    <3>1. Proceed(t, op, Tail(left)) /\ Proceeds(t, op, Tail(left))
      BY <1>3, <2>1 DEF Paced
    <3>2. Pursues(t, op, Tail(left))
      BY <1>0, <2>0, <2>1, AmongParts DEF Pursues, FullJob, PlannedBy, ToCome
    <3> QED BY <1>0, <2>0, <3>1, <3>2, ProceedHeld
  <2>2. CASE ~(Len(left) > 1)
    <3>1. Leave(t, op, "ok") /\ Ends(t, op, "ok")
      BY <1>3, <2>2 DEF Paced
    <3>2. seen \cap Zones \subseteq seen'
      BY <3>1, EndsIsDoubtOrCheck DEF snapshot, Doubt, Check, Zones
    <3>3. t \in Full => /\ Resumes(t, op, "ok") \in {"off", "idle"}
                        /\ \A d \in Zones : ~PlannedBy(t, d)
      BY <1>0, <2>0, <2>2, AmongParts DEF Resumes, Full, FullJob, PlannedBy, ToCome
    <3> QED BY <1>0, <2>0, <3>1, <3>2, <3>3, LeaveHeld
  <2> QED BY <2>1, <2>2
<1>4. CASE /\ TimesOut(t)
           /\ Ends(t, op, IF txn[t].kind = "zone_descriptor" THEN "optional" ELSE "timeout")
  <2> DEFINE outcome == IF txn[t].kind = "zone_descriptor" THEN "optional" ELSE "timeout"
  <2>1. Leave(t, op, outcome) /\ TimedOut(outcome) /\ Ends(t, op, outcome)
    BY <1>4 DEF TimesOut, TimedOut
  <2>2. seen \cap Zones \subseteq seen'
    BY <2>1, EndsIsDoubtOrCheck DEF snapshot, Doubt, Check, Zones
  <2>3. t \in Full => Resumes(t, op, outcome) \in {"off", "idle"}
    BY DEF Resumes, Full
  <2>4. tainted'
    BY <2>1 DEF Leave
  <2> HIDE DEF outcome
  <2> QED BY <1>0, <2>1, <2>2, <2>3, <2>4, LeaveHeld
<1> QED BY <1>1, <1>2, <1>3, <1>4 DEF Continue

\* Steps that touch no task's plan and leave no excuse without another.
LEMMA QuietHeld ==
    ASSUME TypeOK, ZonesAreHeld,
           \A t \in Full \cap Tasks : pc'[t] = pc[t] /\ job'[t] = job[t],
           \A t \in Tasks : txn'[t].kind = txn[t].kind /\ txn'[t].seen = txn[t].seen,
           Excused => Excused', seen \cap Zones \subseteq seen' \/ Excused'
    PROVE  ZonesAreHeld'
<1>1. ASSUME NEW t \in Full \cap Tasks
      PROVE  FullJob(t)' /\ \A d : PlannedBy(t, d) => PlannedBy(t, d)'
  BY PlanKept DEF ZonesAreHeld
<1>2. ASSUME NEW d \in Zones, Held(d) PROVE Held(d)'
  BY <1>1, <1>2 DEF Held
<1> QED BY <1>1, <1>2 DEF ZonesAreHeld

\* A zone report takes a query off a full snapshot's list and the doubt from its zones.
LEMMA LearnHeld ==
    ASSUME SessionOK, ZonesAreHeld, LearnDimension \/ LearnKeypad
    PROVE  ZonesAreHeld'
<1>0. /\ TypeOK /\ UNCHANGED <<phase, socket, tainted, pc, job>> /\ UNCHANGED modes
      /\ automation' = automation /\ seen \subseteq seen'
      /\ Head(rx).msg \in Zones => Head(rx).msg \in seen'
      /\ ReceiveResponse
  BY SessionParts DEF LearnDimension, LearnKeypad, ReceiveResponse, link, tasks, control,
                      Zones, Dimensions
<1>1. \A t \in Tasks : /\ txn'[t].kind = txn[t].kind
                       /\ txn'[t].seen = txn[t].seen \/ txn[t].kind = Head(rx).msg
  BY <1>0 DEF ReceiveResponse, TypeOK
<1>2. ASSUME NEW t \in Full \cap Tasks
      PROVE  /\ FullJob(t)'
             /\ \A d : PlannedBy(t, d) => PlannedBy(t, d)' \/ d = Head(rx).msg
  <2>1. FullJob(t)
    BY DEF ZonesAreHeld
  <2> QED BY <1>0, <1>1, <2>1 DEF FullJob, PlannedBy, ToCome
<1>3. Excused => Excused'
  BY <1>0 DEF Excused, Connected, modes
<1>4. ASSUME NEW d \in Zones, Held(d) PROVE Held(d)'
  BY <1>0, <1>2, <1>3, <1>4 DEF Held
<1> QED BY <1>2, <1>4 DEF ZonesAreHeld

LEMMA ReceiveHeld ==
    ASSUME SessionOK, Repair, Suspend \/ Corrupt \/ Begun \/ Lost \/ Stopped
    PROVE  ZonesAreHeld'
<1>0. TypeOK /\ ZonesAreHeld
  BY SessionParts DEF Repair
<1>1. CASE Suspend \/ Corrupt \/ Lost \/ Stopped
  <2>1. UNCHANGED <<pc, job>>
    BY <1>1 DEF Suspend, Corrupt, Lost, Stopped, ReceiveXF, ReceiveXN, ReceiveInvalid,
                SessionLost, SessionStopped, tasks
  <2>2. \A t \in Tasks : txn'[t].kind = txn[t].kind /\ txn'[t].seen = txn[t].seen
    <3>0. txn \in [Tasks -> [kind : Kinds, current : BOOLEAN, seen : BOOLEAN, ready : BOOLEAN]]
      BY <1>0 DEF TypeOK
    <3>1. CASE ReceiveXF
      BY <3>0, <3>1 DEF ReceiveXF
    <3>2. CASE ReceiveXN \/ ReceiveInvalid \/ SessionStopped
      BY <3>2 DEF ReceiveXN, ReceiveInvalid, SessionStopped, sync
    <3>3. CASE SessionLost
      BY <3>0, <3>3 DEF SessionLost, ResetSession
    <3> QED BY <1>1, <3>1, <3>2, <3>3 DEF Suspend, Corrupt, Lost, Stopped
  <2>3. Excused'
    <3>1. CASE ReceiveXF
      BY <3>1 DEF ReceiveXF, Excused
    <3>2. CASE ReceiveXN
      BY <3>2 DEF ReceiveXN, Excused
    <3>3. CASE ReceiveInvalid
      BY <3>3 DEF ReceiveInvalid, sync, Excused
    <3>4. CASE SessionLost \/ SessionStopped
      BY <3>4 DEF SessionLost, SessionStopped, Excused, Connected
    <3> QED BY <1>1, <3>1, <3>2, <3>3, <3>4 DEF Suspend, Corrupt, Lost, Stopped
  <2> QED BY <1>0, <2>1, <2>2, <2>3, QuietHeld
<1>2. CASE Begun
  <2>1. pc' = [t \in Tasks |-> IF t = "control" THEN pc[t] ELSE "idle"]
    BY <1>2 DEF Begun, Connect
  <2>2. \A t \in Full \cap Tasks : pc'[t] = "idle"
    BY <2>1 DEF Full
  <2>3. \A t \in Full \cap Tasks : FullJob(t)'
    BY <2>2 DEF FullJob
  <2>4. "startup" \in Tasks => \A d : Held(d)'
    BY <2>2 DEF Held, PlannedBy, Full
  <2> QED BY <2>3, <2>4 DEF ZonesAreHeld
<1> QED BY <1>1, <1>2

LEMMA OtherHeld ==
    ASSUME SessionOK, Repair, Other
    PROVE  ZonesAreHeld'
<1>0. TypeOK /\ ZonesAreHeld /\ SnapshotTypeOK /\ UNCHANGED snapshot /\ seen' = seen
  BY SessionParts DEF Repair, Security, Other, snapshot
<1>1. CASE EnqueueControl \/ ControlExpired \/ VerifyTooLate
  <2>1. /\ \A t \in Full : pc'[t] = pc[t]
        /\ UNCHANGED <<phase, socket, tainted, txn, job, automation>> /\ UNCHANGED modes
    <3>1. CASE EnqueueControl \/ ControlExpired
      BY <3>1 DEF EnqueueControl, ControlExpired, link, sync, tasks
    <3>2. CASE VerifyTooLate
      BY <1>0, <3>2 DEF VerifyTooLate, link, sync, Full, TypeOK
    <3> QED BY <1>1, <3>1, <3>2
  <2> QED BY <1>0, <2>1, QuietHeld DEF Excused, modes, Connected
<1>2. CASE Control
  <2>1. "control" \in Tasks /\ "control" \notin Full /\ Alive("control")
    BY TaskNames DEF Full, Alive
  <2>2. pc["control"] = "idle"
        /\ Enter("control", "external", [i \in 1 .. cmd.frames |-> "control"])
    BY <1>2 DEF Control
  <2> QED BY <1>0, <2>1, <2>2, EnterHeld
<1>3. CASE Transmit \/ PeerCloses
  <2>1. /\ UNCHANGED <<phase, tainted, txn, pc, job, automation>> /\ UNCHANGED modes
        /\ socket' = socket \/ socket' = "closed"
    BY <1>3 DEF Transmit, PeerCloses, link, sync, tasks, control
  <2> QED BY <1>0, <2>1, QuietHeld DEF Excused, modes, Connected
<1>4. CASE ReceiveReady
  <2>1. /\ UNCHANGED <<phase, socket, tainted, pc, job>> /\ UNCHANGED modes
        /\ automation = "explicit" => automation' = "explicit"
        /\ \A t \in Tasks : txn'[t].kind = txn[t].kind /\ txn'[t].seen = txn[t].seen
    BY <1>0, <1>4 DEF ReceiveReady, link, tasks, TypeOK
  <2> QED BY <1>0, <2>1, QuietHeld DEF Excused, modes, Connected
<1>5. CASE ReceiveEvent
  <2>1. UNCHANGED <<pc, job, txn>>
    BY <1>5 DEF ReceiveEvent, tasks, sync
  <2>2. Excused'
    BY <1>5 DEF ReceiveEvent, LeavesProgramMode, Excused
  <2> QED BY <1>0, <2>1, <2>2, QuietHeld
<1>6. CASE \E t \in Tasks : Cancelled(t)
  <2>1. PICK t \in Tasks : Cancelled(t)
    BY <1>6
  <2>2. /\ pc' = [pc EXCEPT ![t] = "off"] /\ job' = [job EXCEPT ![t] = NoJob]
        /\ txn' = Dropped(t) /\ ~Connected'
    BY <2>1 DEF Cancelled, link, Connected
  <2>3. /\ pc'[t] = "off"
        /\ \A u \in Tasks : u # t => pc'[u] = pc[u] /\ job'[u] = job[u] /\ txn'[u] = txn[u]
    BY <1>0, <2>2 DEF TypeOK, Dropped
  <2>4. ASSUME NEW u \in Full \cap Tasks PROVE FullJob(u)'
    <3>1. CASE u = t
      BY <2>3, <3>1 DEF FullJob
    <3>2. CASE u # t
      BY <1>0, <2>3, <3>2, PlanKept DEF ZonesAreHeld
    <3> QED BY <3>1, <3>2
  <2> QED BY <2>2, <2>4 DEF ZonesAreHeld, Held, Excused
<1> QED BY <1>1, <1>2, <1>3, <1>4, <1>5, <1>6 DEF Other

\* Once the zones are in doubt, a full snapshot that will ask for them is under way
\* or on order, unless the session is about to end, the panel is in program mode or
\* 08XN has been heard: whatever corrupt frames, timeouts and other users there are.
THEOREM RepairIsOnOrder == FSpec => []DoubtIsRepaired
<1>1. FInit => ZonesAreHeld
  <2> SUFFICES ASSUME FInit PROVE ZonesAreHeld
    OBVIOUS
  <2>1. ~Connected /\ \A t \in Full \cap Tasks : pc[t] = "off"
    BY DEF FInit, Init, Connected, Full
  <2> QED BY <2>1 DEF ZonesAreHeld, FullJob, Held, Excused
<1>2. SessionOK /\ Security /\ ZonesAreHeld /\ [FNext]_fvars => ZonesAreHeld'
  <2> SUFFICES ASSUME SessionOK, Repair, [FNext]_fvars PROVE ZonesAreHeld'
    BY DEF Repair
  <2>1. CASE KeypadSkips \/ UNCHANGED fvars
    <3>1. UNCHANGED <<phase, socket, tainted, pc, job, txn, automation, seen>>
          /\ UNCHANGED modes
      BY <2>1 DEF KeypadSkips, fvars, vars, link, sync, tasks, control, snapshot, Check
    <3> QED BY <3>1, QuietHeld, SessionParts DEF Repair, Excused, modes, Connected
  <2>2. CASE LearnDimension \/ LearnKeypad
    BY <2>2, LearnHeld DEF Repair
  <2> QED BY <2>1, <2>2, TurnHeld, ContinueHeld, ReceiveHeld, OtherHeld DEF FNext
<1>3. ZonesAreHeld => DoubtIsRepaired
  <2> SUFFICES ASSUME ZonesAreHeld, "startup" \in Tasks, NEW d \in Zones, d \notin seen,
                      ~(resyncReq \/ recovery), ~Excused
               PROVE  Repairing
    BY DEF DoubtIsRepaired, Excused, Repairing, Zones
  <2>1. PICK t \in Full \cap Tasks : PlannedBy(t, d)
    BY DEF ZonesAreHeld, Held
  <2> QED BY <2>1 DEF PlannedBy, ToCome, Repairing, Full
<1>4. OneResponse /\ TypeOK /\ WorkLeft => SessionOK
  BY DEF SessionOK
<1> QED
  BY <1>1, <1>2, <1>3, <1>4, SessionOfSnapshot, OneResponseInvariant, TypeCorrect,
     SecurityInvariant, PTL DEF FSpec
=============================================================================
