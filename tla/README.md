# Verification of the VISTA bridge

This directory holds TLA+ specifications of the VISTA Turbo bridge (`vista128_bridge/app/vista_bridge`),
the TLC configurations that check them on small instances, and TLAPS proofs of the theorems that hold
for every instance. Paths below are relative to the repository; `S/` stands for
`vista128_bridge/app/vista_bridge/`.

The bridge keeps one TCP session with an alarm panel through a serial server, polls the panel's state,
publishes it to Home Assistant over MQTT and sends commands the other way. Nearly everything runs on
one asyncio event loop; Paho's network thread delivers MQTT messages and enqueues commands; the event
store, the diagnostic journal and the printer write to SQLite, the journal from a thread of its own.

## Inventory

| Component | State | Operations | Interacts with | What makes it correct | Model |
|---|---|---|---|---|---|
| session (`S/bridge.py`) | writer, `_panel_connected`, transmit queues, session tasks | connect, start, read, write, stop, force reconnect | runs the synchronizer's loops; resets synchronizer, control and state at both ends of a session | nothing of one session acts in another; a broken session ends | PanelSession, TxGuard, TelnetWire |
| synchronizer (`S/synchronizer.py`) | lock, `_pending_transaction`, `_session_tainted`, `_startup_complete`, `_resync_requested`, `_recovery_resync_pending`, `_program_mode`, failure counter | startup, resync, periodic and keypad loops; acknowledgement and response matching; taint | called by session tasks, by the control worker and by packet handlers | one transaction at a time, answered by its own answer; requests for a resync are not forgotten | PanelSession |
| control coordinator (`S/control.py`) | request queue, generation, keypad owner, availability | admit, reserve, queue, rotate, process, verify, discard, reset | MQTT thread puts, event loop takes and resets; frames go through the synchronizer's lock | no request lost, doubled, or sent in another session; one owner of the keypad at a time | ControlQueue, PanelSession |
| message handler (`S/message_handler.py`) | programming flag, history counters | one handler per packet type | state, synchronizer, control, MQTT | a handler invalidates what it makes doubtful and orders the repair | PanelSession, SnapshotFreshness, Annunciators |
| panel state (`S/state.py`, `S/event_codes.py`) | per-dimension freshness, LEDs, alarm and trouble tokens | apply event, display and report, begin query, mark authoritative, reset | handlers write, the session announces | nothing is announced as known that is not; a lamp is lit while there is a cause for it | SnapshotFreshness, FreshnessContract, Annunciators |
| protocol (`S/protocol.py`) | none | build, validate, parse | all | conversions | only the table of queries |
| MQTT client (`S/mqtt_client.py`) | transport generation, watchdog, pending publishes, recovery flag | connect, publish, heartbeat, restart, replay | all publish; its thread calls control | state lost in an outage is republished; a stalled transport is replaced; availability means the state is there | MqttTransport, Annunciators |
| discovery (`S/mqtt_discovery.py`) | none | build payloads | MQTT client | conversions | no |
| printer (`S/printer.py`, `S/printer_store.py`) | persistent jobs | enqueue, deliver, retry, resume | events; HTTP printer | no receipt lost, overtaken, or submitted again after an unknown outcome; bounded | PrintSpool |
| diagnostics (`S/diagnostics.py`) | bounded queue, writer thread, SQLite rows | record, flush, prune, page, close | all threads record | flush and close tell the truth; pages are stable; bounded | DiagnosticJournal |
| telnet and framing (`S/telnet_transport.py`, `S/framing.py`) | parser state, options, buffer | feed, reply, flush | read loop; serial server | chunk boundaries do not matter; the negotiation ends in agreement | TelnetWire |
| programming guard (`S/programming_guard.py`) | keystroke history | inspect, commit, reset | `_enqueue_tx` | installer programming cannot be spelled out across frames | TxGuard |
| event store (`S/event_store.py`) | SQLite rows | record, prune, update | handlers, control audit | each event once; bounded | no |
| command model, configuration, card, scripts | none or build time | pure functions | | | no |

`PROJECT.json` lists the components, the hazards with the line where each bites and the properties that
cover it, the correspondence of every definition to source lines, and the finding.

**The hard behaviours.** (1) Packets have no identifiers: an answer is attributed to whatever transaction is
pending, so serialisation and the taint after a timeout carry the whole burden. (2) `_stop_session` wipes
the synchronizer's state *before* the cancelled tasks have run their `finally` clauses, and the control worker is
not cancelled at all. (3) Two threads share the control queue and the worker empties and refills it; two threads
put frames past the installer guard. (4) Freshness is withdrawn by packet handlers in the middle of the snapshots that are to establish it.
(5) Requests for a resync can be coalesced, parked by startup, parked by program mode, or ignored. (6) What is known of an
alarm comes from events, displays and reports that disagree in time. (7) The serial stream is cut anywhere,
inside telnet commands and lines alike. (8) A flush looks at a queue whose writer holds a batch that may yet fail.

## Modules

`PanelSession` is the core. Its tasks are the loops of `synchronizer.py` and the control worker; `pc[t]` says
where a task awaits (`queued` for the lock, `wait` for the panel, `pause` in the pacing delay, `refresh` between
the two halves of a periodic turn, `verify` in the verification delay, `off` ended, `dead` ended by an exception).
A step is everything a task does between two awaits: `Begin` is `_begin_transaction` with `send_query`,
`Leave` the `finally` clauses, the release of the lock and the caller's reaction (counter, forced reconnect,
what it does next). The lock is an `asyncio.Lock` with its FIFO of waiters, including the removal of a cancelled
waiter. `Connect`, `SessionLost`, `Cancelled` and `SessionStopped` are `_start_session` and the pieces of
`_stop_session` around its `await`, in which the cancelled tasks finish in any order while the worker goes on. `Transmit`
is the write loop; the panel then answers in full, in part or not at all. Packets the panel sends of its own
accord are the `Receive...` actions: 08XF, 08XN, programming and power-up events, and invalid frames.
Packets and queued frames carry the task that caused them; only properties read it.

`SnapshotFreshness` extends it: each of its actions is an action of the session conjoined with what it does to the
freshness of the snapshot (`Doubt` is `begin_query_snapshot` and its announcement, `Check` is
`_on_snapshot_check`, `Forget` the reset at both ends of a session). `FreshnessContract` is the abstract
specification: what a consumer of `panel/state_fresh` may rely on. `KeepsContract` states that the one implements
the other under the mapping up = connected, known = `live_snapshot_complete`, announced = the last value published.

`ControlQueue` models the two threads of `control.py` at the grain of single operations on the queue and under the
reservation lock: the MQTT thread admits, refuses what is too long, stamps, puts; the worker takes, rotates, restores, decides, sends,
finishes; the event loop resets the session in the order the other thread can observe. Kinds of request:
`key` (keypad segment, final or not), `plan` (command by keystrokes), `native`, `alarm`. History
variables record what was accepted, answered, and which interaction is open.

`TxGuard` models the last stretch to the panel: `_enqueue_tx` with the ordinary and the raw queue (`Enqueue` on the event loop;
`RawTest`, `RawInspect`, `RawPut` and `RawCommit` on Paho's thread, which tests the connection before it takes `_tx_safety_lock`), the guard
of `programming_guard.py` (`InspectFrame`, `Commit`), the write loop's two branches, and the end of a session that empties the
queues. The lock keeps ordinary frames out from `RawInspect` to `RawCommit`, but neither the write loop, which may send a frame between
its put and its commit, nor `_start_session`, which may reset the guard there. Frames are numbered in the order of inspection. `typed` is the panel's own view of what was entered, `programmed` the partitions that got a code and
the trigger, `disturbed` those whose frames are sent otherwise than inspected: one that was inspected earlier goes out later, or the session began with a raw
frame that the guard has forgotten.

`TelnetWire` composes `TelnetSerialFilter` and `VistaStreamFramer` with the read loop and a serial server that negotiates, withdraws
options, notifies and sends. `Read(n)` feeds the next n bytes of the stream, wherever that cuts it; the filter's parser and the options
it believes in are one record, and `Feeds` says what has come of it after each byte of the chunk (`Lines` the same of the framer). The four options the
code knows are among `Options`, and a subnegotiation is well formed (`Payload`). What the panel's bytes were (`meant`) and what the server said
of options (`spoken`) is kept as history; the filter's output and its beliefs are compared with it.

`Annunciators` models the alarm, trouble and AC picture of `state.py`: the tokens that system events open and close, the lamps that displays
settle, the zone flags that reports overwrite, the reconciled trouble of every keypad, and `publish_alarm_states` as part of
every handler that calls it. An event is what the tables of `event_codes.py` make of its code.

`DiagnosticJournal` models `diagnostics.py`: threads that record (stamp and stop test, then the put), the writer thread that takes a batch, inserts it or fails,
prunes and acknowledges, `flush` and `close` with their timeouts, and a reader that walks the journal page by page while rows are inserted with
older times and pruned on both sides of its cursor.

`PrintSpool` models `printer.py` and the SQLite spool of `printer_store.py`: the receipts and the status of their rows, the
delivery task between its awaits, shutdown (which cancels the task), kill, and start, with histories of what was recorded, how
often a receipt was written to the printer and how often that was cut off without a record. Every change of the spool is
committed before the next await (`create` by `set_payload`), so the spool of a step is what a restart finds. A job
number is the row's AUTOINCREMENT id.

`MqttTransport` models `mqtt_client.py` with the tick of `_metrics_loop` that drives it. The event loop's side: `Say` (a handler
publishes a change), `Waits`, `Beats`, `Restart`, `RestartFails` (the outcomes of `watchdog_tick`), `Consume`, then one `PublishNext` for each
publish of the replay or of the periodic state, and `Finish`. Between any two of them Paho's thread may act: `Connected`, `Lost`, `Acknowledge` (its
callbacks), `Stall` and `Unstall` (the network). `cache` is `_retained_payloads`, `due` that the recovery generation is ahead of the consumed
one, `outbox` Paho's messages without PUBACK. `Topics`, `Cleared` and `Periodic` are what a replay says, empties first, and
what ticks publish. Paho and the broker are external, modelled as the code
uses them: messages arrive in order; what was not acknowledged may be sent again after a reconnection, before anything new; a client that
vanishes leaves its will.

The modules `MC...` give the constants their small values and `..._proofs` hold the theorems.
Operators whose name adds to that of the next definition (`WithoutNothing` before `Without`,
`RestoreDrops` before `Restore`, ...) are faulty variants of it, used to confirm that each property notices a
plausible bug; nothing else refers to them.

How the modules meet: `ControlQueue` ends where a frame is handed over under the synchronizer's lock, which is the worker task of
`PanelSession`; `PanelSession` ends at the transmit queue and starts at the received packet, which are `TxGuard` and `TelnetWire`;
`SnapshotFreshness` and `Annunciators` are two halves of the state that packets change; `MqttTransport` carries what they publish.

### Abstractions

* A packet is its type; a report of two blocks is one packet. In `PanelSession` one keypad stands for all and one control request is under way
  (their queue is `ControlQueue`).
* Unsolicited packets are handled in the step that sends them. They commute with what is in flight, except
  where the model says otherwise.
* Timers may fire at any time after they are set, with two exceptions that the code's delays justify: a new session starts
  only after every task that is ready has run (the reconnect delay is at least a second), and in `ControlQueue` a new
  session does not start between the check and the stamp of one callback.
* In `PrintSpool`, `queue_max` is the same at every start and an error of SQLite itself is left out. The receipt over 8 KiB
  that `enqueue_event` rejects cannot be produced by the formatting. The counters of `PrinterMetrics` are left out.
* `MqttTransport`: `_publish_topic` and each callback of Paho are atomic. (`_publish_topic` may meet the cache of the previous connection
  in the middle of `_on_connect`; the replay that this callback orders makes up for it.) All messages have QoS 1. A connection that is not stalled delivers within the
  five seconds between two ticks. Message ids, the orderly stop and the payloads are left out.
* `TxGuard`: a frame is one packet with the strokes of one partition; strokes typed in an earlier session count neither for the guard nor for the property (a frame of an earlier session that
  is still to be sent counts as a disturbance). Blocked and rejected frames are not kept.
* `TelnetWire`: a byte is named for its meaning to telnet or the framer. The server answers a request that changes one of its
  options and stays silent otherwise. It may refuse an option one time and grant or offer it another, withdraw it and offer it again; an offer
  of its own it does not take back before it is answered.
* `Annunciators`: arming modes, raw mode and the fault, bypass and battery flags of zones are copied by the code and left out.
* `DiagnosticJournal`: one walk is under way at a time; `get` and the `get_nowait`s of a batch are one step; taxonomy, redaction, filters and contents are left out.
* `run_event_log_dump` is not called by anything and is not modelled.
* A `_pending_transaction` left by another task makes `_begin_transaction` raise; the model keeps that guard, and
  `OneTransaction` shows that it is never met.

## Runs

| Run | Instance | Shows |
|---|---|---|
| `control` | startup and resync, two queries (one optional), keystroke / native with verification / two segments; AD, BD, XF, XN, power-up, invalid | `OneTransaction`, `LockDiscipline`, `RecoveryParked`, `QueueIsOfThisSession`, `AckIsOwn` |
| `live` | resync, periodic, keypad and the worker, power-up; fairness | `TaintEndsSession`, `LockIsGranted`, `ResyncIsServed` |
| `snapshot` | startup, resync, keypad, all four queries; XF, XN, BD, invalid | `FreshIsTrue`, `DoubtIsRepaired`, `KeepsContract` |
| `reconcile` | resync, periodic, keypad and a verified command, three queries; BD, XN | `SecureIsTrue` |
| `queue` | two interactions, a queue of 2, four requests, two sessions | `Accounted`, `OwnerIsAlive`, `NeverCarriedOver`, `Exclusive`, `PressOrder` |
| `tx` | one partition, codes of one digit, five frames that can be joined to the trigger, queues of 2, two sessions | `InterlockHolds`, `SessionsAreKeptApart` |
| `wire` | five options of which the server may perform four and accept two, granting or refusing each, four kinds of byte, a buffer of 2, two payloads | `SerialIsWhatWasSent`, `FramesAreLines`, `BeliefIsTrue`, `NegotiationEnds` |
| `alarms` | two zones, two keypads, burglary, panic, fire, AC, disarming, four pages of which one names a supervisory condition | `LampsShowEvidence`, `SilenceIsOfAFire`, `TroubleIsCurrent`, `AlarmsAreShown` |
| `mqtt` | a queue of 5 (one replay and a heartbeat), one topic that is emptied and periodic and one that is neither, two losses or stalls, one change; fairness | `CacheIsTrue`, `PartialIsRepaired`, `StallEnds`, `Recovers` |
| `spool` | a spool of 2, four receipts, three starts; fairness | `NothingLost`, `ResentOnlyIfInterrupted`, `SpoolIsBounded`, `InOrder`, `EveryReceiptEnds` |
| `journal` | two threads, a queue and batches of 2, pages of 1, three records, three ticks; fairness | `FlushIsHonest`, `PagesAreStable`, `WriterLeavesNothing`, `WriterEnds` |
| `worker` | resync, keypad, the worker; 08XN | refutes a documented claim, see below |

The type invariants are proved (see below) and therefore in no run.

**Bounds.** `TxCapacity` = 2: the queue can be empty, full, and hold a frame of a task that has given up next to a
new one. `RxCapacity` = 2: a response and its 08OK, or one of them behind a late 08OK. Any number of sessions, timeouts and losses
may occur: nothing counts them. `ReconnectAfter` is 1 or 2; the counter saturates there, since only the
comparison is used. Three or four tasks contend for the lock; one more adds no new relation between holder,
head of the queue and tail. In `ControlQueue`, capacity 2 lets the queue be full while the worker holds a request; four requests are a pair of
segments and two strangers; two sessions let a request meet each of the resets. In `TxGuard`, four frames spell code and trigger in up to four pieces, or leave one over to overtake,
and two sessions let a raw frame outlive its own. In `TelnetWire` a buffer of 2 overflows on the third byte
and three bytes of data or notices meet every option's negotiation. In `Annunciators` no number is bounded; the events of the kinds left out (auxiliary, silent panic, duress, supervisory) run through
the same operators and are covered by the proofs. In `PrintSpool`, four receipts fill a spool of two beside finished rows to prune, and three starts let one
receipt be interrupted twice. In `MqttTransport`, a queue of 5 is filled by one replay behind a
heartbeat, so a change or a stall makes publishes fail; two losses are a stall and the loss, or the failed restart, that follows it.
In `DiagnosticJournal`, three records and two threads fill the queue while one is in a hand; with one row of an earlier run and
at most two kept, a walk meets insertion, pruning and equal times. That an earlier run left more rows than are kept, because the
constructor's prune failed or stopped at its batch of 500, is covered by the theorems, which hold for every `MaxOld`; the run's instance is too small for it.

**Fairness** (`live`). Weak fairness of each task's own steps: asyncio runs what is ready, and a timer that is armed
fires. Weak fairness of `SessionLost` and `SessionStopped`: a closed transport ends the read loop and cancelled tasks
end. Weak fairness of `Resync`: the event it waits for is set. Nothing is assumed of the panel (it need not answer), of
the network, of `Connect`, or of the MQTT side.

**Fairness** (`spool`). Weak fairness of the delivery task: each of its awaits has a timeout. Strong fairness of `Submit` is an
assumption about the printer: a connection that is tried again and again succeeds at some time. Without it `EveryReceiptEnds` cannot
hold, and is not promised. `TaskFails` ends the promise as it ends the task, which nothing starts again but a restart.

**Fairness** (`mqtt`). Weak fairness of the loop and of `Acknowledge` and `Connected`: Paho retries, and the broker is reachable in the
end. Strong fairness of `Beats` and `Restart`: a timer that has run out is seen by the next tick, and ticks come and go. A stall need not pass by itself. The number of losses
is bounded, so "in the end" means after the last of them.

**Fairness** (`wire`, `journal`). Weak fairness of reading, on both ends of the wire: the read loop does nothing else, and a server that stops reading is a
connection that stands still. Weak fairness of the writer thread: its waits are bounded by timeouts.

**Coverage.** Between them the passing runs take every disjunct of every next-state relation.

## What the checks found

One run expects a violation; it quotes its document in `PROJECT.json`.

* `worker`: a verification that meets a tainted session raises `RuntimeError` out of `_process`; the only control worker
  ends and is not restarted (`S/control.py:690`, `S/synchronizer.py:671`, `S/bridge.py:237`).

Divergences met while modelling that have no run of their own. Where a property had to be weaker than a document for one of them, it says so.

Session and synchronizer:

* A control transaction that times out after a reconnect taints the next session (`S/synchronizer.py:178`), while the docstring at `S/control.py:71-78` says that
  a request "belongs to a single panel TCP generation". `TaintEndsSession` holds of the session it hits as well.
* 08XN during startup makes what was answered so far doubtful, and the resync it requests is ignored because startup is not complete (`S/synchronizer.py:285`; CHANGELOG.md:56).
  The doubt itself is announced (`FreshIsTrue`); `DoubtIsRepaired` claims nothing of a session that has heard 08XN.
* `reconnect_after_failures` never decides: `_wait_for_query` taints the session on the first timeout, and the taint closes the
  socket (`S/synchronizer.py:656`, 690-701), while DOCS.md:159 and :259 promise a reconnect after repeated failures.
* `resync_loop` (`S/synchronizer.py:397`) and a startup in progress do not look at program mode, so queries go out while communication is off
  (README.md:84 promises quiescence). They time out and the bridge reconnects.
* An optional descriptor query that times out taints the session, although `run_sync` treats it as success and
  CHANGELOG.md:275 calls it optional.
* 08XF completes a pending control frame (`S/message_handler.py:92-96`) while `mark_ready` says 08OK is accepted only
  for the transaction awaiting it (`S/synchronizer.py:140`). The frame's own 08OK may then acknowledge the next segment. `AckIsOwn` therefore
  claims nothing of a step taken while communication is off, or once 08XN has been heard in the session, which ends that.
* Availability is inferred from the 08OK of any transaction (`S/bridge.py:651-661`, CHANGELOG.md:76), while DOCS.md:226 says control transactions.

Control queue and installer guard:

* Putting requests back after a rotation can let a segment of an interaction that was queued meanwhile get before an earlier one
  (`S/control.py:513`; release/0.2.6-rc.12.md:7). `PressOrder` claims the order among single presses only.
* Single presses can lose their order in one way (`S/control.py:405-408`; `S/control.py:193-196` promises FIFO): a request reserves the keypad, the worker
  takes the queue out for that owner, the request is refused for its length and its reservation given back, and a press made before the
  earlier ones are back in the queue overtakes them. With keys of at most five strokes that takes some fifty requests of one interaction queued at once.
  `undone` remembers such refusals, and `PressOrder` excepts the pairs of presses that have one between them. Whether a sequence is too long is any
  outcome in the model: lengths are data (`RefuseLength`). Without the exception TLC finds the overtaking in the `queue` run's instance.
* A failed or discarded segment releases the keypad although later segments of its interaction are already queued; they go
  out unowned (`S/control.py:850-855`), while PR_DESCRIPTION.md:39 speaks of one owner across all segments. `Exclusive` is what remains: nobody
  else's keys go between those of an open interaction.
* An owner whose client never sends the next segment keeps the keypad until the session ends (`S/control.py:494`); so does a final segment
  refused by the preflight or for its length. `OwnerIsAlive` counts an open interaction as alive.
* The docstring at `S/control.py:193-196` says a completed request only needs FIFO ordering; rotation lets a keypad plan
  overtake single presses.
* `_interaction_sequences` is updated after the put (`S/control.py:464`), so a request that the worker finishes first leaves its entry behind.
* The guard inspects frames as they are enqueued, but the write loop sends the ordinary queue first: a raw frame enqueued before an ordinary one is
  sent after it, and the panel sees other keystrokes than the guard did (`S/bridge.py:586`; README.md:80). `InterlockHolds` is stated for partitions where this
  did not happen. `disturbed` says so exactly: a frame leaves while one of its partition that was inspected before it still waits.
* A raw frame that is past the tests of `_enqueue_tx` when its session ends is sent in the next one (`S/bridge.py:477`). `SessionsAreKeptApart` allows one.

Alarms:

* A zone that a report moves to another partition leaves its `zone-status` token in the old one until disarming or a reset (`S/state.py:859-868`), and a
  restore event leaves that token until the next report.
* A display naming a supervisory condition lights the LED, but `panel_alarm_states` tells no supervisory alarm, and not that there is any alarm, once the snapshot is complete: it
  counts supervisory events alone (`S/state.py:895-905`; 869-870 speaks of fail-safe availability). `AlarmsAreShown` names this exception.
* `_stop_session` publishes no alarm states: what was told stays until the next session. `AlarmsAreShown` speaks of sessions only.

MQTT:

* A replay during which the connection is lost and made again passes for complete: publishes in between are dropped without counting
  as errors (`S/mqtt_client.py:439`) and the check at the end sees a connected client (`S/bridge.py:858-861`), while CHANGELOG.md:10 says "retry instead of publishing
  online after a partial or rejected replay". `PartialIsRepaired` is what remains: another replay is on order, at most a tick later.
* A publish of `panel/state_fresh` that a full queue rejects outside a replay is not repeated by the ticks (`S/mqtt_client.py:453`).
* `_acked_mids` may evict the early acknowledgement of a heartbeat (`S/mqtt_client.py:971-974`), which costs a needless restart, or keep an id that a later heartbeat reuses.

Printer:

* A receipt written to the printer stays `pending` until the answer is recorded (`S/printer.py:213-216`), so a kill in between submits it again, while
  CHANGELOG.md:294 says that ambiguous submissions are never blindly replayed. `ResentOnlyIfInterrupted` is what remains.
* The printer's task ends on an error `_deliver` does not expect, `ValueError` of an endless line for one (`S/printer.py:221`); it is not restarted, and
  receipts are refused from then on.

Telnet:

* An offer of binary mode (WILL or DO BINARY) is taken for the answer to the preamble and never replied to (`S/telnet_transport.py:244-250`, 262-268). A server
  that refused binary mode or withdrew it and offers it later is believed, but never told so, and goes on waiting. `BeliefIsTrue` names this
  exception and says that there is no other.
* A server that refuses the port option and still answers its subnegotiations leaves both `rfc2217_active` and `refused` set. A raw TCP server
  whose data has a byte 0xFF would be misread. Neither occurs with a server as modelled.
* Which bytes an overflow of the framer cuts off depends on where reads end: the property takes the cuts as given.

Diagnostics:

* A record that passed the stop test before `close` and is put after the writer has ended is accepted and never stored. `WriterLeavesNothing` speaks of what was
  accepted by then.
* An SQLite error makes a page look like the last one (no records, no cursor), so that a walk seems finished.

Event store, seen while reading (not modelled):

* `record_keypad_interaction` reads and writes in two transactions while the MQTT thread and the event loop both call it, so that a segment may be
  counted twice or not at all (`S/event_store.py:398-425`); a late "queued" overwrites a terminal status; a second segment
  queued before the result of the first doubles the sequence.
* An interrupted log dump would leave stale occurrence counts; nothing calls `run_event_log_dump`.
* An exception in `audit_result` (`S/control.py:848`) skips the release of the keypad that follows it.

## Proofs

All theorems are proved for every value of the constants that satisfies the named assumptions of the modules, and rest on nothing else.
Each module states an inductive invariant, shows it action by action in lemmas (`...Keeps`), and derives its theorems from it.

`SnapshotFreshness_proofs`, first of the session (`PanelSession`):

* `TypeCorrect`: `Spec => [](TypeOK /\ WorkLeft)`. `WorkLeft` (a task that waits has a query left) is needed because
  `Proceed` takes the head of the list.
* `LockIsDisciplined` and `TransactionsAreSerialised`: `OneTransaction` is not inductive: that a transaction may begin
  depends on the lock being where the tasks think it is. The inductive invariant is `Exclusion`, which joins
  `HolderIsInside`, `QueuedOnce` and `OneTransaction` with what a waiting task may assume when it is granted the lock
  and with the state of the tasks between sessions. The lemmas go one
  by one through `Leave`, `Begin`, `Proceed`, `Enter` and then each action of `Next`.
* `RecoveryIsNotForgotten`: `RecoveryParked` with the type invariant is inductive.
* `QueueOutlivesNoSession` and `AcknowledgementsAreOwn`: packets carry no identifier, so that what is on the wire has to be described. `UnderWay` adds
  to `Exclusion` that nothing is on the wire offline (`QuietOffline`), that queued frames are of current transactions (`FramesAreCurrent`), and
  `OnlyTheAwaited`: until a transaction is given up or 08XF or 08XN is heard, what is under way is the one frame of the pending transaction,
  or what is left of its answer. The lemmas sort the steps of a task into those that disturb nothing (`Undisturbed`), taint (`Taints`) or begin
  the next transaction (`Starts`). `AckIsOwn` is an action property of that invariant.
* `OneResponse`, which `SecurityIsTrue` builds on: at most one response to a query, or the frame that asks for it, is under
  way in a session, and until the taint the pending transaction expects it. Unlike `OnlyTheAwaited` this survives 08XF and 08XN.

Then of the session with its snapshot:

* `FreshnessIsTrue`: `FreshIsTrue` is inductive together with `NothingKnownOffline` (nothing counts as answered while no session is
  up), which the next session starts from. The lemma `StepKinds` classifies every step of the session as one of a few kinds (learn,
  doubt, check, leave alone, begin, lose, stop), so the invariant is shown once for each kind and not for each action.
* `ContractIsKept`: the refinement of `FreshnessContract`, initial states and steps, from the same classification (`ContractStep`).
* `SnapshotTypeCorrect`: the type invariant.
* `SecurityIsTrue`: `SecureIsTrue` is not inductive, since a partition report that was asked for before the last doubt would answer it. The invariant `Security`
  adds that the partition report is asked for by full snapshots only (`JobsMayAsk`) and that while one is under way the dimension is in doubt
  (`PartitionIsDoubted`), which rests on `OneResponse`.
* `RepairIsOnOrder`: for each of the two zone reports, it is known, or excused (no session or one about to end, program mode, a resync requested or
  parked, 08XN heard), or a full snapshot is going to ask for it (`ZonesAreHeld`, with what such a snapshot has left, `FullJob`). That
  both reports are held separately is the strengthening: the resync that repairs one must not have passed the other. It uses `SnapshotAssumption`, that the startup queries ask for every dimension.

`ControlQueue_proofs`: `QueueTypeCorrect`, `SentInItsSession` (`NeverCarriedOver`), `NobodyInterrupts` (`Exclusive`), `KeypadIsGivenBack` (`OwnerIsAlive`), `NoneLostNoneDoubled` (`Accounted`), `PressesInOrder` (`PressOrder`). The invariant
`Orderly` adds to the types `Stamped` (the stamp of a request that was not taken in the session the request was made in belongs to no session, so no request can be
sent in a later one) and `Kept` (somebody gives the keypad back, where what the MQTT thread carries counts only if it made the reservation itself:
otherwise a full queue could strand the owner). `RemoveAtProperties`, `HeldInAppend` and `HeldInTail` say that the rotation loses nobody.
`Counted` states the accounting with sets of numbers, which rotation and restoration only move about, and `Accounted` follows by cardinalities. `InLine` says that the single presses are
in line: the one in hand, those in the queue, the deferred. A press that arrived while requests are put back would break the line; none does, for
the keypad is owned, so that presses are not admitted, until the queue is full; or a refusal for length gave it back (`Passed`), and then its number
lies between those held back and those still to come (`Refusals`), which is the exception of `PressOrder`.

`TxGuard_proofs`: `TxTypeCorrect`, `SessionsStayApart` and `NobodyProgramsThePanel` (`InterlockHolds`). The invariant `Apart` adds that nothing in a queue is of a later session than the
present one (`NothingIsAhead`) and that between sessions at most one raw frame is left, in the queue or in the other thread's hand (`AtMostOneSurvives`).
`InterlockHolds` compares what the panel has typed with what the guard knows, two queues apart. The invariant `Guarded` bridges them with the words of
a partition: the word `W[n]` is what its keypad will have got once the first n frames inspected are sent. `W[0]` ends in what the panel has now; the guard's
history, or what the other thread is to commit, covers the last word (`Covers`: the same digits from the end, as far as the guard looks); and no word completes a code and the trigger.
A frame that goes out in turn moves `W[0]` along; inspection appends a word or, on Paho's thread, announces one (`RawInspect`) and then gives it (`RawPut`). `StrokeIsCovered` and `FrameIsCovered`
say what the guard computes stroke by stroke; induction being out of reach, what the recursive function `Histories` computes is proved by refuting a least counterexample (`HasMinimum`).

`Annunciators_proofs`: `PictureTypeCorrect`, `LampsAlwaysShowEvidence`, `SilenceIsAlwaysOfAFire`, `TroubleStaysCurrent`, `AlarmsAreAlwaysShown`. The invariants are
`Evident` (an open burglary has its token in the partition too, lamps follow what remains, silence is of a fire), shown partition by partition, and `Current`
(which adds that a keypad seen in this session has been initialised).

`MqttTransport_proofs`: `TransportTypeCorrect`, `CacheStaysTrue`, `PartialReplayIsRepaired`. The invariant `Faithful` adds `ReplayIsComplete`: as long as a replay is clean, connected and
not ordered again, every topic was said on this connection or is still to be said. `TakenByAppend`, `TakenByHeadTail` and `LastOfIsLast` are what the
broker makes of a queue of messages.

`DiagnosticJournal_proofs`: `FlushTellsTruth`, `WriterLeavesNoRecord` and `PagesStayStable` (`PagesAreStable`). The invariant `Honest` accounts for every accepted record (settled, queued, or in the
batch), ties the number of unfinished tasks to the queue and the batch, and says what a close has promised. For the pages, `Paged` says of a walk under way that it is sorted, stands at the last row it has read, and has read or
has still before it every row that was there when it began and is there yet. A page is given by the place of its rows, the number of rows before each; `Places` shows that a finite set has one row at each place.

`PrintSpool_proofs`: `SpoolTypeCorrect`, `ReceiptsAreKept`, `RepeatsHaveCause`, `OrderIsKept` and
`SpoolStaysBounded`. The invariant `Delivery` adds to `NothingLost` that ids not yet given out have no history (`Unborn`), that the job
under way is the oldest without an outcome (`InHand`; without it a receipt could be overtaken after a restart) and that every submission was cut off, recorded, or is under way
(`Accounted`). `PruneKeeps` and `PruneBounds` are what the pruning does, and `HasMinimum` makes `Oldest` meaningful.

`TelnetWire_proofs`: `WireInvariant`, `SerialIsSent` (`SerialIsWhatWasSent`), `BeliefHolds` (`BeliefIsTrue`) and `FramesAreCut` (`FramesAreLines`).

* None of the three properties is inductive, for they say little while something is under way. The invariant speaks of `Seen`, the filter as it will be when it has read all
  the bytes under way. Reading a chunk first changes nothing of that (`FeedConcat`, `ReadKeeps`), so that where reads cut the stream is
  settled once; and what the server says next only continues it. `Delivered`: by then the filter is between commands and has handed over exactly what was sent.
* `Negotiated` (`Talk`) describes the negotiation as it will be then, with the replies `Seen` will have given before those under way are answered. For each direction of binary
  mode (`Agreed`) the request of the preamble is under way at most once; until it is answered, the option is off or offered by the server and already believed.
  Afterwards both ends have it, or the server has said no to it in this session, and neither has it or the server offers it again and is believed.
  The serial parameters (`Port`) were received or are under way, not both, if the filter has sent them, and then the server has said that the port option may be used.
* `Framed` says of the frames and the rest what the property says, for any stream and any set of breaks; a byte more that is no break (`FramedGrows`) and a break (`FramedBreaks`) keep
  it, hence a chunk (`ChunkFramed`) and then a read, a flush, or an overflow.
* A chunk may be of any length. The statement about a chunk is proved with `Induction`: a set that has 0 and with i - 1 also i has every position, by a least
  counterexample of the well-founded order on the naturals; the set takes the place of the predicate that the provers cannot instantiate.

**Model-checked only.** The liveness properties, which are beyond the prover (`TaintEndsSession`, `LockIsGranted`, `ResyncIsServed`, `StallEnds`, `Recovers`, `EveryReceiptEnds`, `NegotiationEnds`, `WriterEnds`).
Every invariant and every other action property of the passing runs is a theorem.

## Not modelled

* `S/event_store.py`: a table written row by row by its callers; its behaviour is that of its SQL statements, and a model would
  restate them. What reading it showed is listed above.
* `S/mqtt_discovery.py`, `S/command_model.py`, the parsing half of `S/protocol.py`, redaction and taxonomy of `S/diagnostics.py`: conversions without
  state, which the unit tests of `tests/` reach and which have no interleaving to explore.
* `S/config.py`, `app/main.py`, `run.sh`: read once at start; the settings that matter are constants of the models.
* The keypad card, a browser client whose requests are the shapes of `ControlQueue`, and the release scripts.
* In the components that are modelled in part: metrics, chimes, event history, the health snapshots, and `run_event_log_dump`.

## What could come next

The segment bookkeeping of the event store's interactions, whose races are listed above; the verification of commands against the
snapshot (`SecureIsTrue` says when it may be trusted, not what the control worker concludes from it).
