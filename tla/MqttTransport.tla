---------------------------- MODULE MqttTransport ----------------------------
(***************************************************************************)
(* The way of retained state to the MQTT broker: the publisher with its    *)
(* cache and watchdog (mqtt_client.py), the tick that runs the watchdog    *)
(* and replays the state after a connection (bridge.py), and Paho's thread *)
(* with the connection it keeps.                                           *)
(*                                                                         *)
(* The event loop is one thread: handlers publish between ticks.  Paho's   *)
(* callbacks come from its own thread, between any two publishes.          *)
(***************************************************************************)
EXTENDS Naturals, Sequences

CONSTANTS
    Topics,      \* the retained topics that carry state, in the order of a replay
    Cleared,     \* those that a replay empties first, in that order
    Periodic,    \* those that the ticks publish, in that order
    Values,      \* what the bridge may have to say of a topic
    Initial,     \* what it says of every topic when it starts
    QueueMax,    \* mqtt.outbound_queue_max
    MaxLosses,   \* bound of the model: times the connection breaks or stalls
    MaxChanges   \* bound of the model: times what there is to say changes

Avail == "availability"
Beat  == "heartbeat"
Empty == "empty"            \* the payload that removes a retained message
None  == "none"             \* no entry in the cache

Of(topics) == {topics[i] : i \in DOMAIN topics}
State == Of(Topics)

ASSUME TopicsAssumption ==
    /\ Topics \in Seq(State) /\ Cleared \in Seq(State) /\ Periodic \in Seq(State)
    /\ Avail \notin State /\ Beat \notin State
ASSUME ValuesAssumption == Initial \in Values /\ Empty \notin Values /\ None \notin Values
ASSUME BoundsAssumption == QueueMax \in Nat \ {0} /\ MaxLosses \in Nat /\ MaxChanges \in Nat

VARIABLES
    said,       \* what the bridge holds true of each topic
    connected,  \* _connected
    cache,      \* _retained_payloads
    beat,       \* _heartbeat_mid is set: a heartbeat has not been acknowledged
    due,        \* the recovery generation is ahead of the consumed one
    at,         \* where the tick of the metrics loop is
    rest,       \* what it has still to publish
    clean,      \* no publish was rejected since the replay began
    link,       \* the current client's connection
    outbox,     \* Paho's messages without PUBACK, in the order of publishing
    retained,   \* what the broker retains
    restored,   \* history: the state published by replays on this connection
    losses, changes

publisher == <<connected, cache, beat, due>>
tick      == <<at, rest, clean>>
network   == <<link, outbox, retained>>
bounds    == <<losses, changes>>
vars      == <<said, publisher, tick, network, restored, bounds>>

-----------------------------------------------------------------------------
All       == State \cup {Avail}
Payloads  == Values \cup {Empty, "online", "offline"}
Msg(t, v) == [topic |-> t, value |-> v]

\* What the broker retains after taking some messages: the last of each topic.
LastOf(ms, t) == CHOOSE i \in DOMAIN ms :
                    /\ ms[i].topic = t
                    /\ \A k \in DOMAIN ms : ms[k].topic = t => k <= i
TakenBy(ret, ms) ==
    [t \in All |-> IF \E i \in DOMAIN ms : ms[i].topic = t
                     THEN ms[LastOf(ms, t)].value ELSE ret[t]]

-----------------------------------------------------------------------------
\* _publish_topic, of retained messages of QoS 1.  The three ways it goes:
Silent(t, v)   == ~connected \/ cache[t] = v
Rejected(t, v) == ~Silent(t, v) /\ Len(outbox) >= QueueMax

Publish(t, v) ==
    /\ IF Silent(t, v) \/ Rejected(t, v)
         THEN UNCHANGED <<outbox, cache>>
         ELSE outbox' = Append(outbox, Msg(t, v)) /\ cache' = [cache EXCEPT ![t] = v]
    /\ clean' = (clean /\ ~Rejected(t, v))

\* A handler of the panel's packets changes what there is to say and says it.
Say ==
    /\ at = "idle" /\ changes < MaxChanges
    /\ \E t \in State : \E v \in Values \ {said[t]} :
          /\ said' = [said EXCEPT ![t] = v]
          /\ Publish(t, v)
    /\ changes' = changes + 1
    /\ UNCHANGED <<connected, beat, due, at, rest, link, retained, restored, losses>>

-----------------------------------------------------------------------------
(* The tick of _metrics_loop: the watchdog, then a replay or the periodic   *)
(* state.  A connection that is not stalled drains between two ticks.       *)

Drained == link = "up" => outbox = <<>>

Watches == at = "idle" /\ Drained /\ at' = "ticked"

\* watchdog_tick finds nothing to do.
Waits ==
    /\ Watches
    /\ UNCHANGED <<said, publisher, rest, clean, network, restored, bounds>>

\* _publish_heartbeat.
Beats ==
    /\ Watches
    /\ connected /\ ~beat /\ Len(outbox) < QueueMax
    /\ beat' = TRUE /\ outbox' = Append(outbox, Msg(Beat, Empty))
    /\ UNCHANGED <<said, connected, cache, due, rest, clean, link, retained, restored, bounds>>

\* _restart_transport.  The old client's messages are lost, except those that
\* the broker has taken; the broker publishes the will unless the old client
\* still manages to say goodbye.  The cache stays until the next connection.
Replaced ==
    /\ \E n \in 0 .. Len(outbox) : LET r == TakenBy(retained, SubSeq(outbox, 1, n))
                                   IN  retained' \in {r, [r EXCEPT ![Avail] = "offline"]}
    /\ link' = "down" /\ outbox' = <<>>

\* The watchdog's timeout passed, or the heartbeat was rejected.  A client that
\* cannot be started leaves the old one in place, taken for disconnected.
RestartIfDisconnected ==
    /\ Watches
    /\ ~connected
    /\ Replaced
    /\ connected' = FALSE /\ beat' = FALSE
    /\ UNCHANGED <<said, cache, due, rest, clean, restored, bounds>>
Restart ==
    /\ Watches
    /\ ~connected \/ beat \/ Len(outbox) >= QueueMax
    /\ Replaced
    /\ connected' = FALSE /\ beat' = FALSE
    /\ UNCHANGED <<said, cache, due, rest, clean, restored, bounds>>

RestartFails ==
    /\ Watches
    /\ connected /\ (beat \/ Len(outbox) >= QueueMax)
    /\ losses < MaxLosses /\ losses' = losses + 1
    /\ connected' = FALSE /\ beat' = FALSE
    /\ UNCHANGED <<said, cache, due, rest, clean, network, restored, changes>>

Watchdog == Waits \/ Beats \/ Restart \/ RestartFails

\* A replay empties what must not pass for current, then says everything; an
\* ordinary tick says the periodic state.  Nothing changes in the meantime.
Saying(topics) == [i \in DOMAIN topics |-> Msg(topics[i], said[topics[i]])]
Clearing       == [i \in DOMAIN Cleared |-> Msg(Cleared[i], Empty)]

\* consume_recovery_request.
Consume ==
    /\ at = "ticked"
    /\ IF due
         THEN at' = "replaying" /\ rest' = Clearing \o Saying(Topics) /\ clean' = TRUE
         ELSE at' = "publishing" /\ rest' = Saying(Periodic) /\ UNCHANGED clean
    /\ due' = FALSE
    /\ UNCHANGED <<said, connected, cache, beat, network, restored, bounds>>

PublishNext ==
    /\ rest # <<>>
    /\ LET m == Head(rest) IN
         /\ Publish(m.topic, m.value)
         /\ restored' = IF at = "replaying" /\ m.value # Empty /\ connected
                           /\ ~Rejected(m.topic, m.value)
                          THEN restored \cup {m.topic} ELSE restored
    /\ rest' = Tail(rest)
    /\ UNCHANGED <<said, connected, beat, due, at, link, retained, bounds>>

\* The end of _publish_mqtt_recovery_snapshot: availability goes online if every
\* publish was accepted and the broker is connected; if not, it is tried again.
FinishForgets ==
    /\ at = "replaying" /\ rest = <<>>
    /\ at' = "idle"
    /\ IF clean /\ connected
         THEN Publish(Avail, "online")
         ELSE UNCHANGED <<outbox, cache, clean>>
    /\ UNCHANGED <<said, connected, beat, due, rest, link, retained, restored, bounds>>
FinishConsumes ==
    /\ at = "replaying" /\ rest = <<>>
    /\ at' = "idle"
    /\ LET succeeds == clean /\ connected /\ ~Rejected(Avail, "online") IN
         /\ IF succeeds
              THEN Publish(Avail, "online")
              ELSE UNCHANGED <<outbox, cache, clean>>
         /\ due' = (~succeeds /\ connected)
    /\ UNCHANGED <<said, connected, beat, rest, link, retained, restored, bounds>>
Finish ==
    /\ at = "replaying" /\ rest = <<>>
    /\ at' = "idle"
    /\ LET succeeds == clean /\ connected /\ ~Rejected(Avail, "online") IN
         /\ IF succeeds
              THEN Publish(Avail, "online")
              ELSE UNCHANGED <<outbox, cache, clean>>
         /\ due' = (due \/ (~succeeds /\ connected))
    /\ UNCHANGED <<said, connected, beat, rest, link, retained, restored, bounds>>

Sleep ==
    /\ at = "publishing" /\ rest = <<>>
    /\ at' = "idle"
    /\ UNCHANGED <<said, publisher, rest, clean, network, restored, bounds>>

-----------------------------------------------------------------------------
(* Paho's thread, the network and the broker.                               *)

\* The broker takes a message and its PUBACK arrives (_on_publish).
Acknowledge ==
    /\ link = "up" /\ outbox # <<>>
    /\ retained' = TakenBy(retained, <<Head(outbox)>>)
    /\ outbox' = Tail(outbox)
    /\ beat' = (beat /\ Head(outbox).topic # Beat)
    /\ UNCHANGED <<said, connected, cache, due, tick, link, restored, bounds>>

\* _on_disconnect.  Of the messages without PUBACK the broker has taken some;
\* then it publishes the will.
Lost ==
    /\ link # "down" /\ losses < MaxLosses /\ losses' = losses + 1
    /\ link' = "down" /\ connected' = FALSE /\ beat' = FALSE
    /\ \E n \in 0 .. Len(outbox) :
          retained' = [TakenBy(retained, SubSeq(outbox, 1, n)) EXCEPT ![Avail] = "offline"]
    /\ UNCHANGED <<said, cache, due, tick, outbox, restored, changes>>

\* Nothing comes through any more, and nobody is told; it may pass.
Stall ==
    /\ link = "up" /\ losses < MaxLosses /\ losses' = losses + 1
    /\ link' = "wedged"
    /\ UNCHANGED <<said, publisher, tick, outbox, retained, restored, changes>>

Unstall ==
    /\ link = "wedged"
    /\ link' = "up"
    /\ UNCHANGED <<said, publisher, tick, outbox, retained, restored, bounds>>

\* _on_connect.  Paho may send again what was not acknowledged, before anything new.
ConnectedKeepsCache ==
    /\ link = "down"
    /\ link' = "up" /\ connected' = TRUE
    /\ outbox' \in {outbox, <<>>}
    /\ due' = TRUE /\ beat' = FALSE
    /\ restored' = {}
    /\ UNCHANGED <<said, cache, tick, retained, bounds>>
Connected ==
    /\ link = "down"
    /\ link' = "up" /\ connected' = TRUE
    /\ outbox' \in {outbox, <<>>}
    /\ cache' = [t \in All |-> None]
    /\ due' = TRUE /\ beat' = FALSE
    /\ restored' = {}
    /\ UNCHANGED <<said, tick, retained, bounds>>

-----------------------------------------------------------------------------
\* The broker still has what an earlier run of the bridge left behind.
Init ==
    /\ said = [t \in State |-> Initial]
    /\ connected = FALSE /\ beat = FALSE /\ due = FALSE
    /\ cache = [t \in All |-> None]
    /\ at = "idle" /\ rest = <<>> /\ clean = TRUE
    /\ link = "down" /\ outbox = <<>>
    /\ \E v \in Values : retained = [t \in All |-> IF t = Avail THEN "offline" ELSE v]
    /\ restored = {}
    /\ losses = 0 /\ changes = 0

Loop  == Say \/ Watchdog \/ Consume \/ PublishNext \/ Finish \/ Sleep
Paho  == Acknowledge \/ Lost \/ Stall \/ Unstall \/ Connected
Next  == Loop \/ Paho

Spec == Init /\ [][Next]_vars

\* The loop goes on and its timers fire; Paho connects again, and a connection
\* that is not stalled delivers.  A stall need not pass.
FairSpec == Spec /\ WF_vars(Watchdog) /\ SF_vars(Beats) /\ SF_vars(Restart)
                 /\ WF_vars(Consume \/ PublishNext \/ Finish \/ Sleep)
                 /\ WF_vars(Acknowledge) /\ WF_vars(Connected)

-----------------------------------------------------------------------------
\* The values the variables range over; Paho's queue keeps its limit.
TypeOK ==
    /\ said \in [State -> Values]
    /\ connected \in BOOLEAN /\ beat \in BOOLEAN /\ due \in BOOLEAN
    /\ cache \in [All -> Payloads \cup {None}]
    /\ at \in {"idle", "ticked", "replaying", "publishing"}
    /\ rest \in Seq([topic : State, value : Values \cup {Empty}])
    /\ clean \in BOOLEAN
    /\ link \in {"down", "up", "wedged"}
    /\ outbox \in Seq([topic : All \cup {Beat}, value : Payloads]) /\ Len(outbox) <= QueueMax
    /\ retained \in [All -> Payloads]
    /\ restored \subseteq State
    /\ losses \in 0 .. MaxLosses /\ changes \in 0 .. MaxChanges

\* What the cache suppresses is at the broker or on its way there: a publish is
\* never left out for a value that a rejection, a lost connection or the
\* replacement of the client has kept from the broker.
CacheIsTrue ==
    connected => \A t \in All : cache[t] # None => TakenBy(retained, outbox)[t] = cache[t]

\* If the bridge has said that it is online before everything was published on
\* this connection, another replay is on order.
PartialIsRepaired ==
    connected /\ at # "replaying" /\ cache[Avail] = "online" /\ restored # State => due

\* A stalled connection ends: by itself, or because the heartbeat is missed.
StallEnds == link = "wedged" ~> link # "wedged"

\* Whatever was lost, rejected or stalled: in the end the broker has the current
\* state of what ticks publish, and Home Assistant is told that it is online.
Recovers == <>[](retained[Avail] = "online" /\ \A t \in Of(Periodic) : retained[t] = said[t])
=============================================================================
