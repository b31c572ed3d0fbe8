---------------------------- MODULE MCControlQueue ----------------------------
(* Small instances of ControlQueue: who asks for what.                      *)
EXTENDS ControlQueue

Segment(i)  == [who |-> i, kind |-> "key", last |-> FALSE]
Final(i)    == [who |-> i, kind |-> "key", last |-> TRUE]
Keypress    == [who |-> NoId, kind |-> "key", last |-> TRUE]
Plan(i)     == [who |-> i, kind |-> "plan", last |-> TRUE]
Native(i)   == [who |-> i, kind |-> "native", last |-> TRUE]
Alarm       == [who |-> NoId, kind |-> "alarm", last |-> TRUE]

\* One client types in segments and uses a native command, another asks for commands, a third presses keys.
Clients == {Segment("i"), Final("i"), Native("i"), Plan("j"), Keypress, Alarm}
=============================================================================
