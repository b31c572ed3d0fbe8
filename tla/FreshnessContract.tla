-------------------------- MODULE FreshnessContract --------------------------
(***************************************************************************)
(* What Home Assistant may rely on when it reads panel/state_fresh, with   *)
(* no word on how the bridge keeps it: freshness is announced only while   *)
(* the state is known, in the very step that makes the state doubtful the  *)
(* announcement is withdrawn, and no announcement outlives its session.    *)
(***************************************************************************)
VARIABLES
    up,         \* there is a session with the panel
    known,      \* the state shown is the panel's
    announced   \* and Home Assistant has been told so

Init == ~up /\ ~known /\ ~announced

Connect  == ~up /\ up' = TRUE /\ known' = FALSE /\ announced' = FALSE

Learn    == up /\ known' = TRUE /\ UNCHANGED <<up, announced>>

Announce == up /\ known /\ announced' = TRUE /\ UNCHANGED <<up, known>>

Withdraw == announced' = FALSE /\ UNCHANGED <<up, known>>

Doubt    == up /\ known' = FALSE /\ announced' = FALSE /\ UNCHANGED up

\* The session is lost at once, the withdrawal follows.
Lose     == up /\ up' = FALSE /\ known' = FALSE /\ UNCHANGED announced

Next == Connect \/ Learn \/ Announce \/ Withdraw \/ Doubt \/ Lose

Spec == Init /\ [][Next]_<<up, known, announced>>
=============================================================================
