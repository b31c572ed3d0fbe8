------------------------------- MODULE TxGuard -------------------------------
(***************************************************************************)
(* The way of a frame to the panel: _enqueue_tx with its two bounded       *)
(* queues, the guard of programming_guard.py that inspects keypad frames   *)
(* on the way in, the write loop that sends them, and the session at whose *)
(* end the queues are emptied.                                             *)
(*                                                                         *)
(* Ordinary frames are enqueued on the event loop.  Raw ones ("debug") are *)
(* enqueued on Paho's thread, which tests the connection first and takes   *)
(* _tx_safety_lock later; the lock keeps ordinary frames out meanwhile,    *)
(* but neither the write loop nor the session takes it.                    *)
(***************************************************************************)
EXTENDS Naturals, FiniteSets, SequencesExt

CONSTANTS
    Partitions,   \* the keypads' partitions (1 to 8)
    NoPartition,  \* stands for it in a frame that is no keypad frame
    Frames,       \* the frames there are: [part, strokes]
    Lead,         \* how many digits make a code (4)
    TxCapacity,   \* bound of _tx_queue
    RawCapacity,  \* bound of _raw_tx_queue
    MaxFrames,    \* bound of the model: frames ever enqueued
    MaxSessions   \* bound of the model: sessions ever started

Digits  == {"0", "1", "8"}
Strokes == Digits \cup {"*"}      \* "*": any stroke that is not a digit
Trigger == <<"8", "0", "0">>

ASSUME FramesAssumption ==
    /\ NoPartition \notin Partitions
    /\ Frames \subseteq [part : Partitions \cup {NoPartition}, strokes : Seq(Strokes)]
ASSUME BoundAssumption ==
    /\ Lead \in Nat \ {0} /\ TxCapacity \in Nat \ {0} /\ RawCapacity \in Nat \ {0}
    /\ MaxFrames \in Nat /\ MaxSessions \in Nat

VARIABLES
    phase,       \* the session: "down", "up" (_panel_connected), "stopping"
    session,     \* history: sessions started
    active,      \* synchronizer.is_active()
    guard,       \* _history of the guard: the last digits of every partition
    tx,          \* _tx_queue
    raw,         \* _raw_tx_queue
    thread,      \* Paho's thread in _enqueue_tx: where, its frame, the guard's update
    made,        \* history: frames enqueued
    typed,       \* history: the last strokes the panel got in this session
    programmed,  \* history: partitions on which a code and the trigger arrived
    disturbed    \* history: partitions whose frames go out otherwise than inspected

queues  == <<tx, raw>>
panel   == <<typed, programmed, disturbed>>
vars    == <<phase, session, active, guard, queues, thread, made, panel>>

-----------------------------------------------------------------------------
(***************************************************************************)
(* InstallerProgrammingGuard.                                              *)
(***************************************************************************)
Blocked == <<"blocked">>

LastOf(s, n) == SubSeq(s, IF Len(s) > n THEN Len(s) - n + 1 ELSE 1, Len(s))

\* inspect_frame, one stroke: the history after it, or that it is blocked.
NextHistoryForgets(h, stroke) ==
    IF h = Blocked THEN h
    ELSE IF stroke \notin Digits THEN <<>>
    ELSE IF Len(h) >= Lead + 2 /\ LastOf(Append(h, stroke), 3) = Trigger THEN Blocked
    ELSE LastOf(Append(h, stroke), Lead + 1)
NextHistory(h, stroke) ==
    IF h = Blocked THEN h
    ELSE IF stroke \notin Digits THEN <<>>
    ELSE IF Len(h) >= Lead + 2 /\ LastOf(Append(h, stroke), 3) = Trigger THEN Blocked
    ELSE LastOf(Append(h, stroke), Lead + 2)

Keypad(f) == f.part \in Partitions

\* The history after each stroke of a frame.
Histories(h, strokes) ==
    LET after[i \in 0 .. Len(strokes)] ==
            IF i = 0 THEN h ELSE NextHistory(after[i - 1], strokes[i])
    IN after

\* inspect_frame: what commit is to store.
InspectFrame(f) ==
    IF Keypad(f) THEN Histories(guard[f.part], f.strokes)[Len(f.strokes)] ELSE <<>>

\* commit
Commit(f, update) ==
    guard' = IF Keypad(f) THEN [guard EXCEPT ![f.part] = update] ELSE guard

-----------------------------------------------------------------------------
(***************************************************************************)
(* _enqueue_tx.                                                            *)
(***************************************************************************)
\* A frame on its way: n is its place in the order of inspection.
Item(f) == [part |-> f.part, strokes |-> f.strokes, n |-> made + 1, born |-> session]
Idle    == [at |-> "idle"]

\* The thread holds _tx_safety_lock; ordinary frames wait.
Locked == thread.at \in {"locked", "put"}

\* On the event loop: an ordinary frame.
Enqueue(f) ==
    LET update == InspectFrame(f)
    IN /\ phase = "up" /\ ~Locked /\ made < MaxFrames
       /\ update # Blocked /\ Len(tx) < TxCapacity
       /\ tx' = Append(tx, Item(f)) /\ made' = made + 1
       /\ Commit(f, update)
       /\ UNCHANGED <<phase, session, active, raw, thread, panel>>

\* On Paho's thread: the tests made before the lock is taken ...
RawTest(f) ==
    /\ thread = Idle /\ made < MaxFrames
    /\ phase = "up" /\ ~active
    /\ thread' = [at |-> "tested", item |-> Item(f)]
    /\ UNCHANGED <<phase, session, active, guard, queues, made, panel>>

\* ... what the guard says under it ...
RawInspect ==
    /\ thread.at = "tested"
    /\ LET item   == [thread.item EXCEPT !.n = made + 1]
           update == InspectFrame(item)
       IN thread' = IF update = Blocked THEN Idle
                    ELSE [at |-> "locked", item |-> item, update |-> update]
    /\ made' = made + 1
    /\ UNCHANGED <<phase, session, active, guard, queues, panel>>

\* ... the frame in the queue, from where the write loop may send it at once ...
RawPut ==
    /\ thread.at = "locked"
    /\ \/ /\ Len(raw) < RawCapacity /\ raw' = Append(raw, thread.item)
          /\ thread' = [at |-> "put", item |-> thread.item, update |-> thread.update]
       \/ Len(raw) >= RawCapacity /\ raw' = raw /\ thread' = Idle      \* queue.Full
    /\ UNCHANGED <<phase, session, active, guard, tx, made, panel>>

\* ... and the history it leaves.
RawCommit ==
    /\ thread.at = "put"
    /\ Commit(thread.item, thread.update)
    /\ thread' = Idle
    /\ UNCHANGED <<phase, session, active, queues, made, panel>>

-----------------------------------------------------------------------------
(***************************************************************************)
(* _write_loop, and what the panel makes of the strokes.                   *)
(***************************************************************************)

\* A code of Lead digits and the trigger, in one go.
Completes(s) ==
    \E i \in Lead + 3 .. Len(s) :
        /\ \A k \in i - Lead - 2 .. i : s[k] \in Digits
        /\ SubSeq(s, i - 2, i) = Trigger

\* Frames of its partition that were inspected before this one and are sent later.
Overtakes(item) == \E i \in DOMAIN raw : raw[i].part = item.part /\ raw[i].n < item.n

Type(item, late) ==
    IF ~Keypad(item) THEN UNCHANGED panel
    ELSE LET p == item.part
             s == typed[p] \o item.strokes
         IN /\ typed' = [typed EXCEPT ![p] = LastOf(s, Lead + 2)]
            /\ programmed' = IF Completes(s) THEN programmed \cup {p} ELSE programmed
            /\ disturbed' = IF late THEN disturbed \cup {p} ELSE disturbed

\* A raw frame waits until no ordinary frame does.
WriteOrdinary ==
    /\ phase = "up" /\ tx # <<>>
    /\ Type(Head(tx), Overtakes(Head(tx)))
    /\ tx' = Tail(tx)
    /\ UNCHANGED <<phase, session, active, guard, raw, thread, made>>
WriteRaw ==
    /\ phase = "up" /\ tx = <<>> /\ raw # <<>>
    /\ Type(Head(raw), FALSE)
    /\ raw' = Tail(raw)
    /\ UNCHANGED <<phase, session, active, guard, tx, thread, made>>

-----------------------------------------------------------------------------
(***************************************************************************)
(* The session.                                                            *)
(***************************************************************************)

\* _start_session; the lock is not taken for the reset of the guard.  A raw frame that
\* waits goes out although the guard has forgotten it.
StartSession ==
    /\ phase = "down" /\ session < MaxSessions
    /\ phase' = "up" /\ session' = session + 1 /\ active' = FALSE
    /\ guard' = [p \in Partitions |-> <<>>]
    /\ typed' = [p \in Partitions |-> <<>>] /\ programmed' = {}
    /\ disturbed' = {p \in Partitions : \E i \in DOMAIN raw : raw[i].part = p}
    /\ UNCHANGED <<queues, thread, made>>

\* A transaction of the synchronizer begins or ends.
Synchronize ==
    /\ phase = "up" /\ active' = ~active
    /\ UNCHANGED <<phase, session, guard, queues, thread, made, panel>>

\* _stop_session, until it awaits the tasks it has cancelled ...
StopSession ==
    /\ phase = "up"
    /\ phase' = "stopping" /\ active' = FALSE
    /\ UNCHANGED <<session, guard, queues, thread, made, panel>>

\* ... and _discard_pending_tx, when they have ended.
DiscardOrdinaryTx ==
    /\ phase = "stopping"
    /\ phase' = "down" /\ tx' = <<>>
    /\ UNCHANGED <<session, active, guard, raw, thread, made, panel>>
DiscardPendingTx ==
    /\ phase = "stopping"
    /\ phase' = "down" /\ tx' = <<>> /\ raw' = <<>>
    /\ UNCHANGED <<session, active, guard, thread, made, panel>>

-----------------------------------------------------------------------------
Init ==
    /\ phase = "down" /\ session = 0 /\ active = FALSE
    /\ guard = [p \in Partitions |-> <<>>]
    /\ tx = <<>> /\ raw = <<>> /\ thread = Idle /\ made = 0
    /\ typed = [p \in Partitions |-> <<>>] /\ programmed = {} /\ disturbed = {}

Next ==
    \/ \E f \in Frames : Enqueue(f) \/ RawTest(f)
    \/ RawInspect \/ RawPut \/ RawCommit
    \/ WriteOrdinary \/ WriteRaw
    \/ StartSession \/ Synchronize \/ StopSession \/ DiscardPendingTx

Spec == Init /\ [][Next]_vars

-----------------------------------------------------------------------------
Items == [part : Partitions \cup {NoPartition}, strokes : Seq(Strokes), n : Nat, born : Nat]

\* The values the variables range over; a blocked history is never stored.
TypeOK ==
    /\ phase \in {"down", "up", "stopping"} /\ session \in Nat /\ active \in BOOLEAN
    /\ DOMAIN guard = Partitions /\ \A p \in Partitions : guard[p] # Blocked
    /\ tx \in Seq(Items) /\ Len(tx) <= TxCapacity
    /\ raw \in Seq(Items) /\ Len(raw) <= RawCapacity
    /\ thread = Idle \/ (thread.at \in {"tested", "locked", "put"} /\ thread.item \in Items)
    /\ Locked => thread.update # Blocked
    /\ made \in Nat /\ typed \in [Partitions -> Seq(Strokes)]
    /\ programmed \subseteq Partitions /\ disturbed \subseteq Partitions

\* The panel never gets a code and the trigger in one session, over however many
\* frames they are spread, as long as the write loop has sent the frames of that
\* partition in the order in which the guard saw them (README.md:80).  A frame that the
\* thread has put may be sent before the guard knows of it, and a session may begin
\* between the inspection of a frame and its commit.
InterlockHolds == programmed \subseteq disturbed

\* While a session is up, no ordinary frame of an earlier one waits to be sent, and
\* of the raw frames at most the one that was past the tests of _enqueue_tx when its
\* session ended.
Older(q) == {i \in DOMAIN q : q[i].born # session}
SessionsAreKeptApart ==
    phase = "up" =>
        /\ Older(tx) = {}
        /\ \A i, j \in Older(raw) : i = j
        /\ thread.at \in {"tested", "locked"} /\ thread.item.born # session => Older(raw) = {}
=============================================================================
