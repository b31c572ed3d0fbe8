------------------------------ MODULE MCTxGuard ------------------------------
(* A small instance of TxGuard: a code is one digit, the strokes come in     *)
(* frames that can be joined to the trigger in several ways.                 *)
EXTENDS TxGuard

Key(s)   == [part |-> 1, strokes |-> s]
MCFrames == {Key(<<"1", "8">>), Key(<<"0">>), Key(<<"8", "0">>), Key(<<"1", "*">>),
             [part |-> 0, strokes |-> <<>>]}
==============================================================================
