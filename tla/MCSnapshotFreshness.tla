------------------------- MODULE MCSnapshotFreshness -------------------------
(* Small instances of SnapshotFreshness.                                    *)
EXTENDS SnapshotFreshness

\* STARTUP_QUERIES, and the same without the optional one.
AllQueries      == <<"arming_status", "zone_status", "zone_partition", "zone_descriptor">>
RequiredQueries == <<"arming_status", "zone_status", "zone_partition">>

OneShape   == {[frames |-> 1, verify |-> TRUE, recheck |-> FALSE]}
NoRequests == {}
=============================================================================
