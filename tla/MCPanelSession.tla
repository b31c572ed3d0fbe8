--------------------------- MODULE MCPanelSession ---------------------------
(* Small instances of PanelSession: which queries a snapshot makes, and the *)
(* shapes of control request that are enqueued.                             *)
EXTENDS PanelSession

Queries2 == <<"arming_status", "zone_descriptor">>
Queries1 == <<"arming_status">>

\* One keypress (_process_legacy), a native command (_process_command) with its
\* verification, and a keypad plan of two segments.
Keystroke == [frames |-> 1, verify |-> FALSE, recheck |-> TRUE]
Native    == [frames |-> 1, verify |-> TRUE,  recheck |-> FALSE]
Segmented == [frames |-> 2, verify |-> FALSE, recheck |-> FALSE]

Shapes     == {Keystroke, Native, Segmented}
OneShape   == {Native}
NoRequests == {}
=============================================================================
