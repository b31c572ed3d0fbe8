---------------------------- MODULE MCAnnunciators ----------------------------
(* A small instance of Annunciators: two zones of one partition that alarm in  *)
(* turn, a second keypad that only learns of trouble, the pages a keypad shows *)
(* in the course of a fire, and one that alone tells of a supervisory alarm.   *)
EXTENDS Annunciators, TLC

StartAndRestore(k, z, p) ==
    [kind : {k}, does : {"start", "restore"}, zone : {z}, partition : {p}]

MCEvents ==
    UNION {StartAndRestore("burglary", 1, 1), StartAndRestore("burglary", 2, 1),
           StartAndRestore("panic", 2, 1), StartAndRestore("fire", 2, 1),
           StartAndRestore("ac", 1, 0),
           [kind : {"disarm"}, does : {"start"}, zone : {1}, partition : {1}]}

Page(ready, says) == [ready |-> ready, trouble |-> FALSE, says |-> says]
MCDisplays ==
    1 :> {Page(TRUE, {}), Page(FALSE, {"fire", "silenced"}), Page(FALSE, {"ac loss", "supervisory"})}
    @@ 2 :> {Page(TRUE, {})}
================================================================================
