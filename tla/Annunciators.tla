---------------------------- MODULE Annunciators ----------------------------
(***************************************************************************)
(* The alarm and trouble picture of state.py: what the bridge concludes    *)
(* from system events, keypad displays and zone reports, and what it tells *)
(* Home Assistant about it (publish_alarm_states).                         *)
(*                                                                         *)
(* Evidence comes from three sources that disagree in time: events open    *)
(* and close tokens at once, reports overwrite zone flags later, displays  *)
(* settle lamps the protocol has no bit for.  An event is what the tables  *)
(* of event_codes.py make of its code; arming modes, fault, bypass and     *)
(* battery flags of zones are left out: no property here tells them apart. *)
(***************************************************************************)
EXTENDS Naturals, FiniteSets

CONSTANTS
    Partitions, NoPartition,   \* NoPartition stands for every other number
    Zones,
    Blocks,                    \* the sets of zones a report covers
    Events,                    \* [kind, does, zone, partition]
    Displays                   \* the pages of each keypad: [ready, trouble, says], where
                               \* says is what the text names

Alarms == {"fire", "burglary", "auxiliary", "panic", "silent", "duress", "supervisory"}
Own    == {"fire", "burglary", "auxiliary", "supervisory"}   \* have a token set of their own
Lamps  == Own \cup {"panic", "silenced", "power"}
Sounds == {"fire", "burglary", "auxiliary", "panic"}         \* lamps that count as an alarm
Kinds  == Alarms \cup {"trouble", "check", "ac", "battery"}
All    == Partitions \cup {NoPartition}
Known  == {"unknown", "on", "off"}
ReportedFlags == {"alarm", "trouble"}

ASSUME PartitionAssumption == NoPartition \notin Partitions /\ 1 \in Partitions
ASSUME EventAssumption ==
    Events \subseteq [kind : Kinds, does : {"start", "restore"}, zone : Zones, partition : All]
                \cup [kind : {"disarm"}, does : {"start"}, zone : Zones, partition : All]
ASSUME DisplayAssumption ==
    Displays \in [Partitions -> SUBSET
                    [ready : BOOLEAN, trouble : BOOLEAN,
                     says : SUBSET {"fire", "supervisory", "silenced", "trouble", "ac loss"}]]
ASSUME BlockAssumption == Blocks \subseteq SUBSET Zones

VARIABLES
    connected,  \* a session stands
    tokens,     \* active_alarm_tokens of each partition, and the global ones
    own,        \* the four further token sets of each partition
    silenced,   \* fire_silenced
    lamp,       \* the derived lamps of each keypad
    troubles,   \* active_trouble_tokens, and the global ones
    ac,         \* ac_power
    battery,    \* system_battery_low
    keypad,     \* [initialized, fresh, explicit, trouble] of each keypad
    zone,       \* [partition, alarm, trouble] of each zone
    complete,   \* security_snapshot_complete
    shown       \* the panel alarm topics: "on", "off" or "unknown" (not available)

picture == <<tokens, own, silenced, lamp, troubles, ac, battery, keypad, zone>>
vars    == <<connected, picture, complete, shown>>

Token(z, k) == <<z, k>>
ZoneToken(z) == Token(z, "zone-status")

-----------------------------------------------------------------------------
(***************************************************************************)
(* panel_alarm_states, of the primed state: every handler publishes what   *)
(* it has just concluded.                                                  *)
(***************************************************************************)
ActiveTypes(toks, ows, lmp) ==
    {a \in Alarms : \/ \E p \in All : \E t \in toks[p] : t[2] = a
                    \/ a \in Own /\ \E p \in Partitions : ows[p][a] # {}
                    \/ a \in Sounds /\ \E p \in Partitions : lmp[p][a] = "on"}

\* An alarm is shown as soon as it is known, its absence only when all is known.
Value(active, known) == IF active THEN "on" ELSE IF known THEN "off" ELSE "unknown"

PanelAlarmStates(toks, ows, lmp, zon, known) ==
    LET types == ActiveTypes(toks, ows, lmp)
        some  == \/ types # {}
                 \/ \E p \in All : toks[p] # {}
                 \/ \E z \in Zones : zon[z].alarm
    IN [a \in Alarms \cup {"any"} |->
            Value(IF a = "any" THEN some ELSE a \in types, known)]

PublishBeforeApplying == shown' = PanelAlarmStates(tokens, own, lamp, zone, complete)
PublishAlarmStates == shown' = PanelAlarmStates(tokens', own', lamp', zone', complete')

-----------------------------------------------------------------------------
(***************************************************************************)
(* The trouble lamp of a keypad: what the panel lights, or trouble that is *)
(* known from elsewhere and is only not on the page displayed.             *)
(***************************************************************************)
KnownTrouble(p) ==
    \/ ac = "off" \/ battery = "on" \/ troubles[NoPartition] # {} \/ troubles[p] # {}
    \/ \E z \in Zones : zone[z].partition = p /\ zone[z].trouble

Reconciled(k, p) ==
    [k EXCEPT !.trouble = IF k.initialized THEN k.explicit \/ KnownTrouble(p)' ELSE @]

ReconcileAllForgets == UNCHANGED keypad
ReconcileAll == keypad' = [p \in Partitions |-> Reconciled(keypad[p], p)]

\* _reconcile_partition_zone_alarms: toks with the reported alarms of the zones.
WithZoneAlarms(toks, zon) ==
    [p \in All |->
        IF p = NoPartition THEN toks[p]
        ELSE LET here == {z \in Zones : zon[z].partition = p}
             IN (toks[p] \ {ZoneToken(z) : z \in here})
                    \cup {ZoneToken(z) : z \in {y \in here : zon[y].alarm}}]

-----------------------------------------------------------------------------
(***************************************************************************)
(* A system event: _handle_system_event and apply_system_event.            *)
(***************************************************************************)
With(set, e, t) == IF e.does = "start" THEN set \cup {t} ELSE set \ {t}

\* The tokens of the partition, or the global ones.  Disarming ends its alarms.
ApplyAlarmEvent(e) ==
    /\ tokens' = CASE e.kind \in Alarms ->
                        [tokens EXCEPT ![e.partition] = With(@, e, Token(e.zone, e.kind))]
                   [] e.kind = "disarm" /\ e.partition # NoPartition ->
                        [tokens EXCEPT ![e.partition] = {}]
                   [] OTHER -> tokens
    /\ zone' = CASE e.kind \in Alarms -> [zone EXCEPT ![e.zone].alarm = (e.does = "start")]
                 [] e.kind = "check"  -> [zone EXCEPT ![e.zone].trouble = (e.does = "start")]
                 [] OTHER -> zone

ApplyOwnTokens(e) ==
    own' = CASE e.partition # NoPartition /\ e.kind \in Own ->
                    [own EXCEPT ![e.partition][e.kind] = With(@, e, Token(e.zone, e.kind))]
             [] e.partition # NoPartition /\ e.kind = "disarm" ->
                    [own EXCEPT ![e.partition]["burglary"] = {}]
             [] OTHER -> own

\* Is anything left that lights the lamp?
Remains(p, k) ==
    IF k = "panic" THEN \E t \in tokens[p] : t[2] = "panic" ELSE own[p][k] # {}

\* A restored fire stays lit until a display shows it gone.
LampAfterCareless(l, e) ==
    CASE e.does = "start" /\ e.kind \in Own \cup {"panic"} ->
            [l EXCEPT ![e.kind] = "on", !["silenced"] = IF e.kind = "fire" THEN "off" ELSE @]
      [] e.does = "restore" /\ e.kind \in (Own \ {"fire"}) \cup {"panic"} ->
            [l EXCEPT ![e.kind] = "off"]
      [] e.kind = "disarm" -> [l EXCEPT !["burglary"] = "off", !["panic"] = "off"]
      [] OTHER -> l
LampAfter(l, e) ==
    CASE e.does = "start" /\ e.kind \in Own \cup {"panic"} ->
            [l EXCEPT ![e.kind] = "on", !["silenced"] = IF e.kind = "fire" THEN "off" ELSE @]
      [] e.does = "restore" /\ e.kind \in (Own \ {"fire"}) \cup {"panic"} ->
            [l EXCEPT ![e.kind] = IF Remains(e.partition, e.kind)' THEN @ ELSE "off"]
      [] e.kind = "disarm" -> [l EXCEPT !["burglary"] = "off", !["panic"] = "off"]
      [] OTHER -> l

\* _set_ac_power: AC is of the whole panel.
SetAcPower(l, value) == [p \in Partitions |-> [l[p] EXCEPT !["power"] = value]]

ApplyLamps(e) ==
    /\ ac' = IF e.kind # "ac" THEN ac ELSE IF e.does = "start" THEN "off" ELSE "on"
    /\ lamp' = CASE e.kind = "ac" -> SetAcPower(lamp, ac')
                 [] e.kind # "ac" /\ e.partition # NoPartition ->
                        [lamp EXCEPT ![e.partition] = LampAfter(@, e)]
                 [] OTHER -> lamp

ApplySilenceForgets(e) == silenced' = silenced
ApplySilence(e) ==
    silenced' = IF e.kind = "fire" /\ e.does = "start" /\ e.partition # NoPartition
                THEN [silenced EXCEPT ![e.partition] = FALSE] ELSE silenced

ApplyTroubleEvent(e) ==
    /\ battery' = IF e.kind # "battery" THEN battery ELSE IF e.does = "start" THEN "on" ELSE "off"
    /\ troubles' = IF e.kind \in {"trouble", "check"}
                   THEN [troubles EXCEPT ![e.partition] = With(@, e, Token(e.zone, e.kind))]
                   ELSE troubles

SystemEvent(e) ==
    /\ connected
    /\ ApplyAlarmEvent(e) /\ ApplyOwnTokens(e)
    /\ ApplyLamps(e) /\ ApplySilence(e) /\ ApplyTroubleEvent(e)
    /\ UNCHANGED <<connected, complete>>
    /\ ReconcileAll
    /\ PublishAlarmStates

-----------------------------------------------------------------------------
(***************************************************************************)
(* A keypad display: _handle_keypad_display and apply_keypad_display.      *)
(***************************************************************************)
\* A page that shows the partition ready and nothing wrong.
NormalReady(d) == d.ready /\ ~d.trouble /\ {"fire", "supervisory"} \cap d.says = {}

Settle(value, active, d) == IF active THEN "on" ELSE IF NormalReady(d) THEN "off" ELSE value

FireLamp(p, d) ==
    IF own[p]["fire"] # {} \/ "fire" \in d.says THEN "on"
    ELSE IF lamp[p]["fire"] = "on" \/ NormalReady(d) THEN "off"
    ELSE lamp[p]["fire"]

Silence(p, d) ==
    CASE FireLamp(p, d) = "off" -> FALSE
      [] FireLamp(p, d) # "off" /\ "silenced" \in d.says -> TRUE
      [] OTHER -> silenced[p]

\* The lamps of p, the power lamp apart.
Displayed(p, d) ==
    [lamp[p] EXCEPT
        !["fire"]        = FireLamp(p, d),
        !["silenced"]    = IF Silence(p, d) THEN "on"
                           ELSE IF FireLamp(p, d) = "off" THEN "off" ELSE @,
        !["supervisory"] = Settle(@, own[p]["supervisory"] # {} \/ "supervisory" \in d.says, d),
        !["panic"]       = Settle(@, Remains(p, "panic"), d),
        !["burglary"]    = Settle(@, Remains(p, "burglary"), d),
        !["auxiliary"]   = Settle(@, Remains(p, "auxiliary"), d)]

KeypadDisplay(p, d) ==
    LET lost == "ac loss" \in d.says
        k == [keypad[p] EXCEPT !.initialized = TRUE, !.fresh = TRUE,
                               !.explicit = d.trouble \/ "trouble" \in d.says]
        l == [lamp EXCEPT ![p] = Displayed(p, d)]
    IN /\ connected
       /\ ac' = IF lost THEN "off" ELSE ac
       /\ lamp' = IF lost THEN SetAcPower(l, "off") ELSE [l EXCEPT ![p]["power"] = ac]
       /\ silenced' = [silenced EXCEPT ![p] = Silence(p, d)]
       /\ UNCHANGED <<connected, tokens, own, troubles, battery, zone, complete>>
       /\ keypad' = [q \in Partitions |-> IF q = p THEN Reconciled(k, p)
                                          ELSE IF lost THEN Reconciled(keypad[q], q)
                                          ELSE keypad[q]]
       /\ PublishAlarmStates

-----------------------------------------------------------------------------
(***************************************************************************)
(* Reports, snapshots and sessions.                                        *)
(***************************************************************************)
\* Neither report publishes the alarms: the check of the snapshot does.
ZoneReport(updated) ==
    /\ connected
    /\ zone' = updated
    /\ tokens' = WithZoneAlarms(tokens, updated)
    /\ UNCHANGED <<connected, own, silenced, lamp, troubles, ac, battery, complete, shown>>
    /\ ReconcileAll

ZoneStatus(b, flags) ==
    ZoneReport([z \in Zones |-> IF z \notin b THEN zone[z]
                                ELSE [zone[z] EXCEPT !.alarm = "alarm" \in flags[z],
                                                     !.trouble = "trouble" \in flags[z]]])

ZonePartition(b, assigned) ==
    ZoneReport([z \in Zones |-> IF z \notin b THEN zone[z]
                                ELSE [zone[z] EXCEPT !.partition = assigned[z]]])

AlarmKeypadPartitions ==
    LET assigned == {zone[z].partition : z \in Zones} \cap Partitions
    IN IF assigned = {} THEN Partitions ELSE assigned \cup {1}

KeypadAlarmSnapshotComplete ==
    \A p \in AlarmKeypadPartitions :
        keypad[p].fresh /\ \A a \in Own \cup {"panic"} : lamp[p][a] # "unknown"

\* _on_snapshot_check; live: the snapshot without the keypads is complete.
SnapshotCheck(live) ==
    /\ connected
    /\ complete' = (live /\ KeypadAlarmSnapshotComplete)
    /\ UNCHANGED <<connected, picture>>
    /\ IF live THEN PublishAlarmStates ELSE UNCHANGED shown

\* A query begins, and later its absence is told; or automation went off or a frame
\* was corrupt, and it is told at once.
BeginQuerySnapshot ==
    /\ connected /\ complete' = FALSE
    /\ UNCHANGED <<connected, picture, shown>>

Invalidate ==
    /\ connected /\ complete' = FALSE
    /\ UNCHANGED <<connected, picture>>
    /\ PublishAlarmStates

\* MQTT came back.
Republish == UNCHANGED <<connected, picture, complete>> /\ PublishAlarmStates

ResetDerivedAnnunciators ==
    /\ complete' = FALSE /\ ac' = "unknown" /\ battery' = "unknown"
    /\ tokens' = [p \in All |-> {}]
    /\ own' = [p \in Partitions |-> [a \in Own |-> {}]]
    /\ troubles' = [p \in All |-> {}]
    /\ silenced' = [p \in Partitions |-> FALSE]
    /\ zone' = [z \in Zones |-> [zone[z] EXCEPT !.alarm = FALSE]]
    /\ keypad' = [p \in Partitions |-> [keypad[p] EXCEPT !.fresh = FALSE]]
    /\ lamp' = [p \in Partitions |-> [a \in Lamps |-> "unknown"]]

StartSession ==
    /\ ~connected /\ connected' = TRUE
    /\ ResetDerivedAnnunciators /\ PublishAlarmStates

StopSession ==
    /\ connected /\ connected' = FALSE
    /\ ResetDerivedAnnunciators /\ UNCHANGED shown

-----------------------------------------------------------------------------
Init ==
    /\ connected = FALSE /\ complete = FALSE /\ ac = "unknown" /\ battery = "unknown"
    /\ tokens = [p \in All |-> {}]
    /\ own = [p \in Partitions |-> [a \in Own |-> {}]]
    /\ troubles = tokens
    /\ silenced = [p \in Partitions |-> FALSE]
    /\ zone = [z \in Zones |-> [partition |-> NoPartition, alarm |-> FALSE, trouble |-> FALSE]]
    /\ keypad = [p \in Partitions |-> [initialized |-> FALSE, fresh |-> FALSE,
                                       explicit |-> FALSE, trouble |-> FALSE]]
    /\ lamp = [p \in Partitions |-> [a \in Lamps |-> "unknown"]]
    /\ shown = [a \in Alarms \cup {"any"} |-> "unknown"]

Next ==
    \/ \E e \in Events : SystemEvent(e)
    \/ \E p \in Partitions : \E d \in Displays[p] : KeypadDisplay(p, d)
    \/ \E b \in Blocks : \/ \E flags \in [b -> SUBSET ReportedFlags] : ZoneStatus(b, flags)
                         \/ \E assigned \in [b -> All] : ZonePartition(b, assigned)
    \/ \E live \in BOOLEAN : SnapshotCheck(live)
    \/ BeginQuerySnapshot \/ Invalidate \/ Republish
    \/ StartSession \/ StopSession

Spec == Init /\ [][Next]_vars

-----------------------------------------------------------------------------
TypeOK ==
    /\ connected \in BOOLEAN /\ complete \in BOOLEAN
    /\ tokens \in [All -> SUBSET (Zones \X (Alarms \cup {"zone-status"}))]
    /\ own \in [Partitions -> [Own -> SUBSET (Zones \X Own)]]
    /\ silenced \in [Partitions -> BOOLEAN]
    /\ lamp \in [Partitions -> [Lamps -> Known]]
    /\ troubles \in [All -> SUBSET (Zones \X {"trouble", "check"})]
    /\ ac \in Known /\ battery \in Known
    /\ keypad \in [Partitions -> [initialized : BOOLEAN, fresh : BOOLEAN,
                                  explicit : BOOLEAN, trouble : BOOLEAN]]
    /\ zone \in [Zones -> [partition : All, alarm : BOOLEAN, trouble : BOOLEAN]]
    /\ shown \in [Alarms \cup {"any"} -> Known]

\* A lamp is lit while anything that lights it is still open, however starts, restores,
\* disarming and displays follow each other; a burglary, auxiliary or panic lamp is
\* dark again once the last of it has ended; and a partition whose burglary or panic
\* alarm sounds is triggered (_apply_audible_alarm_event, apply_keypad_display).
LampsShowEvidence ==
    \A p \in Partitions :
        /\ \A k \in Own \cup {"panic"} : Remains(p, k) => lamp[p][k] = "on"
        /\ \A k \in {"burglary", "auxiliary", "panic"} : lamp[p][k] = "on" => Remains(p, k)
        /\ \A k \in {"burglary", "panic"} : lamp[p][k] = "on" => tokens[p] # {}

\* A fire is shown as silenced exactly while the partition remembers it, and never
\* beside a fire lamp that is known to be dark.
SilenceIsOfAFire ==
    \A p \in Partitions :
        /\ silenced[p] = (lamp[p]["silenced"] = "on")
        /\ silenced[p] => lamp[p]["fire"] # "off"

\* The trouble lamp of every keypad that was seen in this session takes in what is
\* known of trouble anywhere, whichever handler learned of it, and all show the AC
\* power of the panel (_reconcile_keypad_trouble, _set_ac_power).
TroubleIsCurrent ==
    \A p \in Partitions :
        /\ keypad[p].fresh => keypad[p].trouble = (keypad[p].explicit \/ KnownTrouble(p))
        /\ lamp[p]["power"] = ac

\* What Home Assistant is told of each kind of alarm is what is known of it, at every
\* moment of a session, and "no alarm at all" is told beside none that is open and
\* beside no lit lamp but one: panel_alarm_states reads every lamp but supervisory_led,
\* so that a supervisory condition only a display names is told as no alarm.  (An alarm
\* only a zone report knows is told with the snapshot.)
Open(a) == \/ \E p \in All : \E t \in tokens[p] : t[2] = a
           \/ a \in Own /\ \E p \in Partitions : own[p][a] # {}
Lit(a)  == a \in Own \cup {"panic"} /\ \E p \in Partitions : lamp[p][a] = "on"
AlarmsAreShown ==
    connected =>
        /\ \A a \in Alarms : shown[a] = "on" <=> Open(a) \/ (Lit(a) /\ a # "supervisory")
        /\ shown["any"] = "off" =>
              \A a \in Alarms : ~Open(a) /\ (Lit(a) => a = "supervisory")
=============================================================================
