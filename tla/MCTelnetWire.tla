---------------------------- MODULE MCTelnetWire ----------------------------
(* A small instance of TelnetWire: a server that performs and accepts some of *)
(* the options, and says things that look like other things: an escaped IAC   *)
(* and a NOP inside a subnegotiation.                                         *)
EXTENDS TelnetWire

MCPayloads == {<<"COM", "x">>, <<"x", "IAC", "IAC", "IAC", "NOP", "a">>}
==============================================================================
