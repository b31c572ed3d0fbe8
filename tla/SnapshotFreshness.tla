-------------------------- MODULE SnapshotFreshness --------------------------
(***************************************************************************)
(* When the bridge may tell Home Assistant that what it shows is true: the *)
(* freshness bookkeeping of state.py, driven by the callbacks of           *)
(* synchronizer.py (on_query_start, on_snapshot_check) and by the handlers *)
(* of message_handler.py and bridge.py, composed with PanelSession: every  *)
(* step is a step of the session and what it does to the snapshot.         *)
(*                                                                         *)
(* The two blocks of a zone report are one response.  The keypads whose    *)
(* partitions have zones are one keypad.                                   *)
(***************************************************************************)
EXTENDS PanelSession

VARIABLES
    seen,       \* the dimensions answered since they were last doubted
    keypad,     \* "shown": session_fresh; "leds": its five alarm LEDs known
    secure,     \* security_snapshot_complete
    published   \* the last value sent to panel/state_fresh

snapshot == <<seen, keypad, secure, published>>
fvars    == <<vars, snapshot>>

Dimensions == {"arming_status", "zone_status", "zone_partition"}
KeypadFacts == {"shown", "leds"}

\* live_snapshot_complete and keypad_alarm_snapshot_complete
Live  == Dimensions \subseteq seen
Known == KeypadFacts \subseteq keypad

\* STARTUP_QUERIES asks for every dimension.
ASSUME SnapshotAssumption ==
    \A d \in Dimensions : \E i \in DOMAIN StartupQueries : StartupQueries[i] = d

-----------------------------------------------------------------------------
(***************************************************************************)
(* begin_query_snapshot, announced by whoever calls it.                    *)
(***************************************************************************)
DoubtUnannounced(dims) ==
    /\ seen' = seen \ dims
    /\ secure' = (secure /\ dims \cap Dimensions = {})
    /\ UNCHANGED <<keypad, published>>
DoubtKeepsSecure(dims) ==
    /\ seen' = seen \ dims
    /\ published' = FALSE
    /\ UNCHANGED <<keypad, secure>>
Doubt(dims) ==
    /\ seen' = seen \ dims
    /\ secure' = (secure /\ dims \cap Dimensions = {})
    /\ published' = FALSE
    /\ UNCHANGED keypad

\* _on_snapshot_check and mark_authoritative_snapshot
CheckArmingOnly ==
    /\ published' = ("arming_status" \in seen)
    /\ secure' = (Live /\ Known)
    /\ UNCHANGED <<seen, keypad>>
Check ==
    /\ published' = Live
    /\ secure' = (Live /\ Known)
    /\ UNCHANGED <<seen, keypad>>

\* reset_connection_derived_annunciators
Forget == seen' = {} /\ keypad' = {} /\ secure' = FALSE

-----------------------------------------------------------------------------
(***************************************************************************)
(* What the operations under the lock do to the snapshot.                  *)
(***************************************************************************)

\* Only the full snapshots doubt what they are about to ask.
Asks(t, op, kind) ==
    IF op = "sync" /\ t \in {"startup", "resync"} THEN Doubt({kind})
                                                  ELSE UNCHANGED snapshot

\* startup and resync_loop check after success, periodic_loop and
\* run_arming_refresh in any case, the keypad users after every refresh.
Ends(t, op, outcome) ==
    IF op = "external" \/ outcome = "raised" THEN UNCHANGED snapshot
    ELSE IF op = "sync" /\ ~Succeeded(outcome)
    THEN IF t \in {"startup", "resync"} THEN UNCHANGED snapshot
                                        ELSE Doubt({"arming_status"})
    ELSE IF Resumes(t, op, outcome) = "refresh" THEN UNCHANGED snapshot
    ELSE Check

Proceeds(t, op, left) ==
    IF Verdict(t, op) = "go" THEN Asks(t, op, Head(left))
                             ELSE Ends(t, op, Verdict(t, op))

Enters(t, op, left) ==
    IF owner = NoTask /\ waiters = <<>> THEN Proceeds(t, op, left)
                                        ELSE UNCHANGED snapshot

\* The tasks, each with what it enters the lock for.
Turn ==
    \/ Startup         /\ Enters("startup", "sync", StartupQueries)
    \/ Resync          /\ Enters("resync", "sync", StartupQueries)
    \/ Periodic        /\ Enters("periodic", "sync", <<"arming_status">>)
    \/ PeriodicRefresh /\ Enters("periodic", "keypad", <<"keypad_display">>)
    \/ Keypad          /\ Enters("keypad", "keypad", <<"keypad_display">>)
    \/ Verify          /\ Enters("control", "sync", <<"arming_status">>)

\* In program mode keypad_loop refreshes nothing and checks all the same.
KeypadSkips ==
    /\ "keypad" \in Tasks /\ pc["keypad"] = "idle" /\ Connected /\ program
    /\ Check
    /\ UNCHANGED vars

Continue(t) ==
    \/ Granted(t) /\ Proceeds(t, job[t].op, job[t].left)
    \/ /\ Answered(t)
       /\ IF job[t].op = "external" /\ Len(job[t].left) > 1
          THEN Proceeds(t, "external", Tail(job[t].left))
          ELSE UNCHANGED snapshot
    \/ /\ Paced(t)
       /\ IF Len(job[t].left) > 1 THEN Proceeds(t, job[t].op, Tail(job[t].left))
                                  ELSE Ends(t, job[t].op, "ok")
    \/ /\ TimesOut(t)
       /\ Ends(t, job[t].op,
               IF txn[t].kind = "zone_descriptor" THEN "optional" ELSE "timeout")

-----------------------------------------------------------------------------
(***************************************************************************)
(* What the panel's packets do to it.                                      *)
(***************************************************************************)

\* A report is applied whoever asked for it.
LearnDimension ==
    /\ ReceiveResponse /\ Head(rx).msg \in SyncKinds
    /\ seen' = seen \cup ({Head(rx).msg} \cap Dimensions)
    /\ IF Head(rx).msg = "zone_partition"   \* other keypads may count now
       THEN keypad' \in SUBSET KeypadFacts ELSE UNCHANGED keypad
    /\ UNCHANGED <<secure, published>>

\* A keypad display is applied only if a keypad transaction awaits it.  A quiet
\* page need not tell every LED.
LearnKeypad ==
    /\ ReceiveResponse /\ Head(rx).msg = "keypad_display"
    /\ IF /\ pending # NoTask /\ txn[pending].kind = "keypad_display"
          /\ ~txn[pending].seen
       THEN keypad' \in {keypad \cup {"shown"}, KeypadFacts}
       ELSE UNCHANGED keypad
    /\ UNCHANGED <<seen, secure, published>>

Suspend == (ReceiveXF \/ ReceiveXN) /\ Doubt(Dimensions)

Corrupt == ReceiveInvalid /\ Doubt({"zone_status"})

-----------------------------------------------------------------------------
Begun   == Connect /\ Forget /\ published' = FALSE
Lost    == SessionLost /\ Forget /\ UNCHANGED published
Stopped == SessionStopped /\ published' = FALSE /\ UNCHANGED <<seen, keypad, secure>>

\* Steps of the session that leave the snapshot alone.
Other ==
    /\ \/ EnqueueControl \/ Control \/ ControlExpired \/ VerifyTooLate
       \/ Transmit \/ ReceiveReady \/ ReceiveEvent \/ PeerCloses
       \/ \E t \in Tasks : Cancelled(t)
    /\ UNCHANGED snapshot

FInit == Init /\ seen = {} /\ keypad = {} /\ secure = FALSE /\ published = FALSE

FNext == \/ Turn \/ KeypadSkips \/ \E t \in Tasks : Continue(t)
         \/ LearnDimension \/ LearnKeypad \/ Suspend \/ Corrupt
         \/ Begun \/ Lost \/ Stopped \/ Other

FSpec == FInit /\ [][FNext]_fvars

-----------------------------------------------------------------------------
\* The values the snapshot's variables range over.
SnapshotTypeOK ==
    /\ seen \subseteq Dimensions
    /\ keypad \subseteq KeypadFacts
    /\ secure \in BOOLEAN /\ published \in BOOLEAN

\* Home Assistant is told that the state is fresh only while every dimension has
\* been answered in this session since it was last doubted.  While a session is
\* being torn down the withdrawal is still on its way.
FreshIsTrue == published => Live \/ phase = "stopping"

\* The alarm sensors claim to know only while the whole snapshot is live and
\* every keypad in use has told its alarm LEDs.
SecureIsTrue == secure => Live /\ Known

\* Nobody polls the zones: once they are in doubt, a snapshot that will ask for
\* them is under way or on order, unless the session is about to end or the
\* panel is in program mode.  Nothing is claimed of a session that has heard
\* 08XN: during startup, the resync that it asks for is lost.
Repairing == \/ pc["startup"] # "off" \/ resyncReq \/ recovery
             \/ pc["resync"] \in {"queued", "wait", "pause"}
DoubtIsRepaired ==
    /\ "startup" \in Tasks /\ Connected /\ socket = "open" /\ ~tainted /\ ~program
    /\ automation # "explicit"
    /\ ~({"zone_status", "zone_partition"} \subseteq seen)
    => Repairing

\* What the session promises to the consumers of panel/state_fresh.
Contract == INSTANCE FreshnessContract
              WITH up <- Connected, known <- Live, announced <- published
KeepsContract == Contract!Spec
=============================================================================
