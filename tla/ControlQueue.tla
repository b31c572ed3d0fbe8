----------------------------- MODULE ControlQueue -----------------------------
(***************************************************************************)
(* The queue of control requests: control.py between an MQTT command and   *)
(* the frame it becomes.  Two threads share it.  Paho's network thread     *)
(* admits a request, stamps it with the panel session's generation and     *)
(* puts it into a queue.Queue; the event loop runs the worker that takes   *)
(* requests out, and also resets the session and discards what is queued.  *)
(* A step is what one thread does between two operations on shared state.  *)
(*                                                                         *)
(* Requests come in four kinds: "key" is a keypad request, the last of its *)
(* interaction or not; "plan" a command executed by keystrokes; "native" a *)
(* command executed by a native frame; "alarm" a request of the older      *)
(* alarm topic.  How a frame is sent and acknowledged under the            *)
(* synchronizer's lock is the business of module PanelSession.             *)
(***************************************************************************)
EXTENDS Naturals, FiniteSets, SequencesExt

CONSTANTS
    Interactions,  \* the interaction ids in use
    NoId,          \* the empty interaction id
    Shapes,        \* the requests clients make: [who, kind, last]
    Capacity,      \* bound of the queue (64)
    MaxRequests,   \* bound of the model: requests ever made
    MaxSessions    \* bound of the model: panel sessions ever started

Ids   == Interactions \cup {NoId}
Kinds == {"key", "plan", "native", "alarm"}

ASSUME IdsAssumption    == NoId \notin Interactions
ASSUME ShapesAssumption == Shapes \subseteq [who : Ids, kind : Kinds, last : BOOLEAN]
ASSUME BoundAssumption  == Capacity \in Nat \ {0} /\ MaxRequests \in Nat /\ MaxSessions \in Nat

VARIABLES
    generation,  \* _generation
    connected,   \* is_connected()
    available,   \* automation_available()
    loop,        \* what the event loop is in the middle of besides the worker
    queue,       \* _queue
    owner,       \* _keypad_owner (with its partition)
    producer,    \* the MQTT thread: where it is, its request, reservation_created
    worker,      \* where process_next is
    hand,        \* the request it processes
    deferred,    \* requests it took out and has yet to put back
    made,        \* history: requests made so far
    accepted,    \* history: requests that were queued
    answered,    \* history: requests that got their result
    opened,      \* history: the owner whose interaction has been begun and not ended
    undone       \* history: requests too long whose reservation was given back
                 \* while the worker was putting others back

session == <<generation, connected, available, loop>>
shared  == <<queue, owner>>
work    == <<worker, hand, deferred>>
history == <<made, accepted, answered, opened, undone>>
vars    == <<session, shared, producer, work, history>>

-----------------------------------------------------------------------------
Request == [n : 1 .. MaxRequests, who : Ids, kind : Kinds, last : BOOLEAN,
            born : Nat, gen : Nat]
None    == [n |-> 0, who |-> NoId, kind |-> "key", last |-> TRUE, born |-> 0, gen |-> 0]
Idle    == [at |-> "idle", req |-> None, created |-> FALSE]

\* _result: the end of a keypad interaction, and every end of a command that has
\* a plan, gives the keypad back if the interaction owns it.
ReleasesKeepOnFailure(r, ok) == (r.kind = "key" /\ r.last) \/ r.kind \in {"plan", "native"}
Releases(r, ok) == \/ r.kind = "key" /\ (r.last \/ ~ok)
                   \/ r.kind \in {"plan", "native"}
Released(r)     == IF r.who # NoId /\ owner = r.who THEN NoId ELSE owner
AfterResult(r, ok) == IF Releases(r, ok) THEN Released(r) ELSE owner

\* The interaction is begun, and stays begun for as long as it owns the keypad.
Begun(o) == IF opened = o THEN opened ELSE NoId

Answer(r, ok) ==
    /\ answered' = answered \cup {r.n}
    /\ owner' = AfterResult(r, ok)
    /\ opened' = IF ok /\ r.kind = "key" /\ ~r.last /\ owner' = r.who THEN r.who
                 ELSE Begun(owner')

-----------------------------------------------------------------------------
(***************************************************************************)
(* The MQTT thread: enqueue_keypad, enqueue_command and enqueue_alarm.     *)
(***************************************************************************)

\* _preflight has passed.
Offer ==
    /\ producer.at = "idle" /\ made < MaxRequests
    /\ connected /\ available
    /\ \E s \in Shapes :
          producer' = [at |-> "admit", created |-> FALSE,
                       req |-> [n |-> made + 1, who |-> s.who, kind |-> s.kind,
                                last |-> s.last, born |-> generation, gen |-> 0]]
    /\ made' = made + 1
    /\ UNCHANGED <<session, shared, work, accepted, answered, opened, undone>>

\* _admit_keypad_request and _reserve_keypad_interaction: what may be queued, and
\* what takes the keypad for its interaction.
Admissible(r) ==
    CASE r.kind = "key"  -> IF owner # NoId THEN owner = r.who
                                            ELSE r.last \/ r.who # NoId
      [] r.kind = "plan" -> owner \in {NoId, r.who}
      [] OTHER           -> TRUE
Reserves(r) == /\ owner = NoId /\ r.who # NoId
               /\ r.kind = "plan" \/ (r.kind = "key" /\ ~r.last)

Admit ==
    /\ producer.at = "admit"
    /\ producer' = IF Admissible(producer.req)
                   THEN [producer EXCEPT !.at = "stamp", !.created = Reserves(producer.req)]
                   ELSE Idle
    /\ owner' = IF Reserves(producer.req) THEN producer.req.who ELSE owner
    /\ UNCHANGED <<session, queue, work, history>>

\* The keys of an interaction, or of a plan, have become too many: the request is
\* refused, and a reservation made for it is undone.
RefuseLength ==
    /\ producer.at = "stamp" /\ producer.req.kind \in {"key", "plan"}
    /\ producer.req.who # NoId
    /\ producer' = Idle
    /\ owner' = IF producer.created THEN Released(producer.req) ELSE owner
    /\ opened' = Begun(owner')
    /\ undone' = IF producer.created /\ worker = "restore"
                 THEN undone \cup {producer.req.n} ELSE undone
    /\ UNCHANGED <<session, queue, work, made, accepted, answered>>

Stamp ==
    /\ producer.at = "stamp"
    /\ producer' = [producer EXCEPT !.at = "put", !.req.gen = generation]
    /\ UNCHANGED <<session, shared, work, history>>

\* A full queue refuses the request, and a reservation made for it is undone.
PutKeepsReservation ==
    /\ producer.at = "put"
    /\ IF Len(queue) < Capacity
       THEN /\ queue' = Append(queue, producer.req)
            /\ accepted' = accepted \cup {producer.req.n}
       ELSE UNCHANGED <<queue, accepted>>
    /\ producer' = Idle
    /\ UNCHANGED <<session, owner, work, made, answered, opened, undone>>
Put ==
    /\ producer.at = "put"
    /\ IF Len(queue) < Capacity
       THEN /\ queue' = Append(queue, producer.req)
            /\ accepted' = accepted \cup {producer.req.n}
            /\ UNCHANGED <<owner, opened>>
       ELSE /\ owner' = IF producer.created THEN Released(producer.req) ELSE owner
            /\ opened' = Begun(owner')
            /\ UNCHANGED <<queue, accepted>>
    /\ producer' = Idle
    /\ UNCHANGED <<session, work, made, answered, undone>>

-----------------------------------------------------------------------------
(***************************************************************************)
(* The worker, on the event loop: process_next.                            *)
(***************************************************************************)

\* _dequeue_request: the oldest request is taken out ...
Take ==
    /\ loop = "free" /\ worker = "idle" /\ queue # <<>>
    /\ worker' = "choose" /\ hand' = Head(queue) /\ queue' = Tail(queue)
    /\ UNCHANGED <<session, owner, producer, deferred, history>>

\* ... and while an interaction owns the keypad, all of them, for its own.
OfOwner(r) == r.who = owner /\ r.kind # "alarm"
ChoosesAny(r) == TRUE
Chosen(r) == owner # NoId => OfOwner(r)

Choose ==
    /\ worker = "choose"
    /\ LET all  == <<hand>> \o queue
           mine == {i \in DOMAIN all : Chosen(all[i])}
           i    == CHOOSE k \in mine : \A m \in mine : k <= m
       IN IF owner = NoId
          THEN worker' = "decide" /\ UNCHANGED <<hand, deferred, queue>>
          ELSE /\ worker' = "restore" /\ queue' = <<>>
               /\ hand' = IF mine = {} THEN None ELSE all[i]
               /\ deferred' = IF mine = {} THEN all ELSE RemoveAt(all, i)
    /\ UNCHANGED <<session, owner, producer, history>>

\* The others are put back one by one; there may be no room any more.
RestoreDrops ==
    /\ worker = "restore" /\ deferred # <<>>
    /\ deferred' = Tail(deferred)
    /\ queue' = IF Len(queue) < Capacity THEN Append(queue, Head(deferred)) ELSE queue
    /\ UNCHANGED <<session, owner, producer, worker, hand, history>>
RestoreReversed ==
    /\ worker = "restore" /\ deferred # <<>>
    /\ deferred' = Front(deferred)
    /\ IF Len(queue) < Capacity
       THEN /\ queue' = Append(queue, Last(deferred))
            /\ UNCHANGED <<owner, answered, opened>>
       ELSE /\ Answer(Last(deferred), FALSE)
            /\ UNCHANGED queue
    /\ UNCHANGED <<session, producer, worker, hand, made, accepted, undone>>
Restore ==
    /\ worker = "restore" /\ deferred # <<>>
    /\ deferred' = Tail(deferred)
    /\ IF Len(queue) < Capacity
       THEN /\ queue' = Append(queue, Head(deferred))
            /\ UNCHANGED <<owner, answered, opened>>
       ELSE /\ Answer(Head(deferred), FALSE)
            /\ UNCHANGED queue
    /\ UNCHANGED <<session, producer, worker, hand, made, accepted, undone>>

Restored ==
    /\ worker = "restore" /\ deferred = <<>>
    /\ worker' = IF hand = None THEN "idle" ELSE "decide"
    /\ UNCHANGED <<session, shared, producer, hand, deferred, history>>

\* The worker is done with its request.
Finish(ok) ==
    /\ Answer(hand, ok)
    /\ worker' = "idle" /\ hand' = None
    /\ UNCHANGED <<session, queue, producer, deferred, made, accepted, undone>>

CurrentAnyGeneration == connected
Current == hand.gen = generation /\ connected

\* _process: a stale or late request, or one the panel cannot take, ends here.
Decide ==
    /\ worker = "decide" /\ Current /\ available
    /\ worker' = "lock"
    /\ UNCHANGED <<session, shared, producer, hand, deferred, history>>

\* It is stale, the panel cannot take it, or it waited for more than 4.5 seconds.
Reject == worker = "decide" /\ Finish(FALSE)

\* Under the synchronizer's lock the session is tested again; availability only
\* by _process_legacy.
Sendable == Current /\ (hand.kind \in {"key", "alarm"} => available)

Send ==
    /\ loop = "free" /\ worker = "lock" /\ Sendable
    /\ worker' = "ack"
    /\ UNCHANGED <<session, shared, producer, hand, deferred, history>>

\* Not sendable, the synchronizer is tainted, or the transmit queue is full.
NotSent == loop = "free" /\ worker = "lock" /\ Finish(FALSE)

\* The panel acknowledged in time, the session still stands, and for all but a
\* key the verification came out so.
Acknowledged == loop = "free" /\ worker = "ack" /\ Current /\ Finish(TRUE)

Failed == loop = "free" /\ worker = "ack" /\ Finish(FALSE)

-----------------------------------------------------------------------------
(***************************************************************************)
(* The session, on the event loop.  It runs only while the worker awaits.  *)
(***************************************************************************)
Awaits == loop = "free" /\ worker \in {"idle", "lock", "ack"}

\* reset_session, in the order in which the other thread can see it: the
\* generation and the availability, the queue, the owner.  _stop_session calls
\* it once the session is gone, _start_session before the next is announced.
BumpNot == UNCHANGED generation
Bump == generation' = generation + 1

Stop ==
    /\ Awaits /\ connected
    /\ connected' = FALSE /\ available' = FALSE /\ loop' = "stop"
    /\ Bump
    /\ UNCHANGED <<shared, producer, work, history>>

\* The reconnect delay outlasts what a callback does between its preflight and
\* its stamp.
Start ==
    /\ Awaits /\ ~connected /\ generation < 2 * MaxSessions
    /\ producer.at \notin {"admit", "stamp"}
    /\ available' = FALSE /\ loop' = "start"
    /\ Bump
    /\ UNCHANGED <<connected, shared, producer, work, history>>

\* discard_pending
DiscardTo(next) ==
    /\ queue' = <<>> /\ loop' = next
    /\ answered' = answered \cup {queue[i].n : i \in DOMAIN queue}
    /\ owner' = IF \E i \in DOMAIN queue : /\ queue[i].who = owner
                                           /\ Releases(queue[i], FALSE)
                THEN NoId ELSE owner
    /\ opened' = Begun(owner')
    /\ UNCHANGED <<generation, connected, available, producer, work, made, accepted, undone>>

Discard == \/ loop = "stop"  /\ DiscardTo("stopped")
           \/ loop = "start" /\ DiscardTo("started")
           \/ loop = "off"   /\ DiscardTo("free")

Clear ==
    /\ loop \in {"stopped", "started"}
    /\ connected' = (loop = "started") /\ loop' = "free"
    /\ owner' = NoId /\ opened' = NoId
    /\ UNCHANGED <<generation, available, queue, producer, work, made, accepted, answered,
                   undone>>

\* set_automation_available(False) on 08XF
CommunicationOff ==
    /\ Awaits /\ connected /\ available
    /\ available' = FALSE /\ loop' = "off"
    /\ UNCHANGED <<generation, connected, shared, producer, work, history>>

\* set_automation_available(True) on 08XN, infer_automation_available on 08OK
CommunicationOn ==
    /\ Awaits /\ connected /\ ~available
    /\ available' = TRUE
    /\ UNCHANGED <<generation, connected, loop, shared, producer, work, history>>

-----------------------------------------------------------------------------
Init ==
    /\ generation = 0 /\ connected = FALSE /\ available = FALSE /\ loop = "free"
    /\ queue = <<>> /\ owner = NoId /\ producer = Idle
    /\ worker = "idle" /\ hand = None /\ deferred = <<>>
    /\ made = 0 /\ accepted = {} /\ answered = {} /\ opened = NoId
    /\ undone = {}

Enqueue == Offer \/ Admit \/ RefuseLength \/ Stamp \/ Put
Dequeue == Take \/ Choose \/ Restore \/ Restored
Process == Decide \/ Reject \/ Send \/ NotSent \/ Acknowledged \/ Failed
Session == Stop \/ Start \/ Discard \/ Clear \/ CommunicationOff \/ CommunicationOn

Next == Enqueue \/ Dequeue \/ Process \/ Session

Spec == Init /\ [][Next]_vars

-----------------------------------------------------------------------------
\* The values the variables range over.
TypeOK ==
    /\ generation \in Nat /\ connected \in BOOLEAN /\ available \in BOOLEAN
    /\ loop \in {"free", "stop", "stopped", "start", "started", "off"}
    /\ queue \in Seq(Request) /\ Len(queue) <= Capacity
    /\ owner \in Ids /\ opened \in Ids
    /\ producer \in [at : {"idle", "admit", "stamp", "put"},
                     req : Request \cup {None}, created : BOOLEAN]
    /\ worker \in {"idle", "choose", "restore", "decide", "lock", "ack"}
    /\ hand \in Request \cup {None} /\ deferred \in Seq(Request)
    /\ made \in 0 .. MaxRequests
    /\ accepted \subseteq 1 .. MaxRequests /\ answered \subseteq 1 .. MaxRequests
    /\ undone \subseteq 1 .. MaxRequests

\* Where a request is.
Places(n) == Cardinality({i \in DOMAIN queue : queue[i].n = n})
             + Cardinality({i \in DOMAIN deferred : deferred[i].n = n})
             + (IF hand.n = n THEN 1 ELSE 0) + (IF n \in answered THEN 1 ELSE 0)

\* A request that was accepted is in one place until it is answered, and it is
\* answered once: none is lost or doubled while the worker turns the queue over
\* and the session is reset beneath it.
Accounted == \A n \in 1 .. MaxRequests : Places(n) = IF n \in accepted THEN 1 ELSE 0

\* Somebody is going to give the keypad back: a request of the owner's is under
\* way, or its interaction was begun and awaits the client's next segment.
Held(r) == r.who = owner /\ r.kind \in {"key", "plan"}
OwnerIsAlive ==
    owner # NoId =>
        \/ opened = owner
        \/ producer.at \in {"stamp", "put"} /\ Held(producer.req)
        \/ \E i \in DOMAIN queue : Held(queue[i])
        \/ \E i \in DOMAIN deferred : Held(deferred[i])
        \/ hand # None /\ Held(hand)

\* The step that hands a frame to the transmit queue.
Sends == worker = "lock" /\ worker' = "ack"

\* A frame is sent only in the panel session in which its request was made.
NeverCarriedOver == [][Sends => hand.born = generation /\ connected]_vars

\* Between two segments of an interaction that owns the keypad nothing is sent
\* for anybody else.
Exclusive == [][Sends /\ opened # NoId => hand.who = opened]_vars

\* Single presses go out in the order in which they arrived, although they are
\* taken out and put back while somebody else's interaction is open.  The exception
\* is a press made after a refusal for length while the worker puts requests back: it
\* finds the keypad free again before those made earlier are back in the queue.
Press(r) == r.kind = "key" /\ r.who = NoId
Precedes(r, s, u) == r.n < s.n \/ \E m \in u : s.n < m /\ m < r.n
PressOrder ==
    [][Sends /\ Press(hand) => \A i \in DOMAIN queue :
                                  Press(queue[i]) => Precedes(hand, queue[i], undone)]_vars
=============================================================================
