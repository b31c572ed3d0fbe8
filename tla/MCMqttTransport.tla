--------------------------- MODULE MCMqttTransport ---------------------------
(* Small instances of MqttTransport: one topic that a replay empties and    *)
(* every tick publishes, and one that only its handler publishes.           *)
EXTENDS MqttTransport

CONSTANTS zones, automation

MCTopics == <<automation, zones>>
MCZones  == <<zones>>
MCValues == {"a", "b"}
==============================================================================
