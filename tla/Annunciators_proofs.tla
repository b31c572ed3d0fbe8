-------------------------- MODULE Annunciators_proofs --------------------------
(***************************************************************************)
(* The lamps show what is open, the trouble lamps what is known anywhere,  *)
(* and Home Assistant is told of every alarm there is: proofs for every    *)
(* set of partitions, zones, events and displays.                          *)
(***************************************************************************)
EXTENDS Annunciators, TLAPS

-----------------------------------------------------------------------------
(* The types.                                                               *)

KeypadRecord == [initialized : BOOLEAN, fresh : BOOLEAN, explicit : BOOLEAN, trouble : BOOLEAN]
ZoneRecord   == [partition : All, alarm : BOOLEAN, trouble : BOOLEAN]
AlarmTokens  == Zones \X (Alarms \cup {"zone-status"})

LEMMA ShownIsTyped == PublishAlarmStates => shown' \in [Alarms \cup {"any"} -> Known]
  BY DEF PublishAlarmStates, PanelAlarmStates, Value, Known

LEMMA EventIsTyped ==
    ASSUME NEW e \in Events
    PROVE  /\ e.kind \in Kinds \cup {"disarm"} /\ e.does \in {"start", "restore"}
           /\ e.zone \in Zones /\ e.partition \in All
           /\ e.kind = "disarm" => e.does = "start"
  BY EventAssumption DEF Kinds, Alarms

LEMMA LampAfterIsTyped ==
    ASSUME NEW l \in [Lamps -> Known], NEW e \in Events
    PROVE  LampAfter(l, e) \in [Lamps -> Known]
<1>1. "on" \in Known /\ "off" \in Known
  BY DEF Known
<1> HIDE DEF Known
<1> QED
  BY <1>1 DEF LampAfter

LEMMA SetAcPowerIsTyped ==
    ASSUME NEW l \in [Partitions -> [Lamps -> Known]], NEW v \in Known
    PROVE  SetAcPower(l, v) \in [Partitions -> [Lamps -> Known]]
  BY DEF SetAcPower

LEMMA ReconciledIsTyped ==
    ASSUME NEW k \in KeypadRecord, NEW p
    PROVE  Reconciled(k, p) \in KeypadRecord
<1> DEFINE b == IF k.initialized THEN k.explicit \/ KnownTrouble(p)' ELSE k.trouble
<1>1. b \in BOOLEAN
  <2>1. k.trouble \in BOOLEAN
    BY DEF KeypadRecord
  <2>2. (k.explicit \/ KnownTrouble(p)') \in BOOLEAN
    OBVIOUS
  <2> QED
    BY <2>1, <2>2
<1>2. Reconciled(k, p) = [k EXCEPT !.trouble = b]
  BY DEF Reconciled
<1> HIDE DEF b
<1> QED
  BY <1>1, <1>2 DEF KeypadRecord

LEMMA ReconcileAllIsTyped ==
    ASSUME keypad \in [Partitions -> KeypadRecord], ReconcileAll
    PROVE  keypad' \in [Partitions -> KeypadRecord]
  BY ReconciledIsTyped DEF ReconcileAll

LEMMA WithIsTyped ==
    ASSUME NEW S, NEW s \in SUBSET S, NEW e, NEW t \in S
    PROVE  With(s, e, t) \in SUBSET S
  BY DEF With

LEMMA DisplayedIsTyped ==
    ASSUME TypeOK, NEW p \in Partitions, NEW d
    PROVE  Displayed(p, d) \in [Lamps -> Known]
<1>1. lamp[p] \in [Lamps -> Known]
  BY DEF TypeOK
<1>2. "on" \in Known /\ "off" \in Known
  BY DEF Known
<1>3. \A k \in Lamps : lamp[p][k] \in Known
  BY <1>1
<1>4. Own \cup {"panic", "silenced"} \subseteq Lamps
  BY DEF Lamps
<1>5. {"fire", "silenced", "supervisory", "panic", "burglary", "auxiliary"} \subseteq Lamps
  BY <1>4 DEF Own
<1>6. FireLamp(p, d) \in Known
  BY <1>2, <1>3, <1>5 DEF FireLamp
<1>7. \A v \in Known : \A a : Settle(v, a, d) \in Known
  BY <1>2 DEF Settle
<1> HIDE DEF Known, Lamps
<1> QED
  BY <1>1, <1>2, <1>3, <1>5, <1>6, <1>7 DEF Displayed

-----------------------------------------------------------------------------
(* Every action keeps the types.                                            *)

LEMMA InitIsTyped == Init => TypeOK
<1> SUFFICES ASSUME Init PROVE TypeOK
  OBVIOUS
<1>1. "unknown" \in Known
  BY DEF Known
<1>2. own \in [Partitions -> [Own -> SUBSET (Zones \X Own)]]
  BY DEF Init
<1>3. keypad \in [Partitions -> KeypadRecord] /\ zone \in [Zones -> ZoneRecord]
  BY DEF Init, KeypadRecord, ZoneRecord, All
<1>4. lamp \in [Partitions -> [Lamps -> Known]] /\ shown \in [Alarms \cup {"any"} -> Known]
  BY <1>1 DEF Init
<1>5. /\ tokens \in [All -> SUBSET AlarmTokens]
      /\ troubles \in [All -> SUBSET (Zones \X {"trouble", "check"})]
      /\ silenced \in [Partitions -> BOOLEAN]
  BY DEF Init
<1> QED
  BY <1>1, <1>2, <1>3, <1>4, <1>5
     DEF Init, TypeOK, KeypadRecord, ZoneRecord, AlarmTokens

LEMMA SystemEventIsTyped ==
    ASSUME TypeOK, NEW e \in Events, SystemEvent(e)
    PROVE  TypeOK'
<1>1. /\ e.kind \in Kinds \cup {"disarm"} /\ e.does \in {"start", "restore"}
      /\ e.zone \in Zones /\ e.partition \in All
  BY EventIsTyped
<1>0. /\ ApplyAlarmEvent(e) /\ ApplyOwnTokens(e) /\ ApplyLamps(e) /\ ApplySilence(e)
      /\ ApplyTroubleEvent(e) /\ ReconcileAll /\ PublishAlarmStates
      /\ UNCHANGED <<connected, complete>>
  BY DEF SystemEvent
<1>2. tokens' \in [All -> SUBSET AlarmTokens]
  <2>1. tokens \in [All -> SUBSET AlarmTokens]
    BY DEF TypeOK, AlarmTokens
  <2>2. CASE e.kind \in Alarms
    <3>1. Token(e.zone, e.kind) \in AlarmTokens
      BY <1>1, <2>2 DEF Token, AlarmTokens
    <3>2. With(tokens[e.partition], e, Token(e.zone, e.kind)) \in SUBSET AlarmTokens
      BY <1>1, <2>1, <3>1, WithIsTyped
    <3>3. tokens' = [tokens EXCEPT ![e.partition] = With(@, e, Token(e.zone, e.kind))]
      BY <1>0, <2>2 DEF ApplyAlarmEvent, Alarms
    <3> QED
      BY <2>1, <3>2, <3>3
  <2>3. CASE e.kind \notin Alarms
    <3>1. tokens' = tokens \/ tokens' = [tokens EXCEPT ![e.partition] = {}]
      BY <1>0, <2>3 DEF ApplyAlarmEvent
    <3> QED
      BY <2>1, <3>1
  <2> QED
    BY <2>2, <2>3
<1>3. zone' \in [Zones -> ZoneRecord]
  <2>1. zone \in [Zones -> ZoneRecord]
    BY DEF TypeOK, ZoneRecord
  <2>2. (e.does = "start") \in BOOLEAN
    OBVIOUS
  <2>3. \/ zone' = zone
        \/ zone' = [zone EXCEPT ![e.zone].alarm = (e.does = "start")]
        \/ zone' = [zone EXCEPT ![e.zone].trouble = (e.does = "start")]
    BY <1>0 DEF ApplyAlarmEvent
  <2> DEFINE b == e.does = "start"
  <2> HIDE DEF b
  <2>4. b \in BOOLEAN
    BY DEF b
  <2>5. \/ zone' = zone
        \/ zone' = [zone EXCEPT ![e.zone].alarm = b]
        \/ zone' = [zone EXCEPT ![e.zone].trouble = b]
    BY <2>3 DEF b
  <2> QED
    BY <1>1, <2>1, <2>4, <2>5 DEF ZoneRecord
<1>4. own' \in [Partitions -> [Own -> SUBSET (Zones \X Own)]]
  <2>1. own \in [Partitions -> [Own -> SUBSET (Zones \X Own)]]
    BY DEF TypeOK
  <2>2. CASE e.partition = NoPartition
    BY <1>0, <2>1, <2>2, Zenon DEF ApplyOwnTokens
  <2>3. CASE e.partition # NoPartition
    <3>1. e.partition \in Partitions
      BY <1>1, <2>3 DEF All
    <3>2. own[e.partition] \in [Own -> SUBSET (Zones \X Own)]
      BY <2>1, <3>1
    <3>3. CASE e.kind \in Own
      <4> DEFINE T == Zones \X Own
      <4>1. own[e.partition][e.kind] \in SUBSET T /\ Token(e.zone, e.kind) \in T
        BY <1>1, <3>2, <3>3 DEF Token
      <4> HIDE DEF T
      <4>2. With(own[e.partition][e.kind], e, Token(e.zone, e.kind)) \in SUBSET T
        BY <4>1, WithIsTyped
      <4>3. own' = [own EXCEPT ![e.partition][e.kind] = With(@, e, Token(e.zone, e.kind))]
        <5>1. e.kind # "disarm"
          BY <3>3 DEF Own
        <5> QED
          BY <1>0, <2>3, <3>3, <5>1 DEF ApplyOwnTokens
      <4>4. own \in [Partitions -> [Own -> SUBSET T]]
        BY <2>1 DEF T
      <4>5. own' \in [Partitions -> [Own -> SUBSET T]]
        BY <3>1, <3>2, <3>3, <4>2, <4>3, <4>4
      <4> QED
        BY <4>5 DEF T
    <3>4. CASE e.kind \notin Own
      <4>1. own' = own \/ own' = [own EXCEPT ![e.partition]["burglary"] = {}]
        BY <1>0, <2>3, <3>4 DEF ApplyOwnTokens
      <4> QED
        BY <2>1, <3>1, <3>2, <4>1
    <3> QED
      BY <3>3, <3>4
  <2> QED
    BY <2>2, <2>3
<1>5. ac' \in Known /\ battery' \in Known
  BY <1>0 DEF ApplyLamps, ApplyTroubleEvent, TypeOK, Known
<1>6. lamp' \in [Partitions -> [Lamps -> Known]]
  <2>1. lamp \in [Partitions -> [Lamps -> Known]]
    BY DEF TypeOK
  <2>2. CASE e.kind = "ac"
    <3>1. lamp' = SetAcPower(lamp, ac')
      BY <1>0, <2>2 DEF ApplyLamps
    <3> QED
      BY <1>5, <2>1, <3>1, SetAcPowerIsTyped
  <2>3. CASE e.kind # "ac"
    <3>1. lamp' = lamp \/ (e.partition # NoPartition
                             /\ lamp' = [lamp EXCEPT ![e.partition] = LampAfter(@, e)])
      BY <1>0, <2>3 DEF ApplyLamps
    <3>2. e.partition # NoPartition => LampAfter(lamp[e.partition], e) \in [Lamps -> Known]
      BY <1>1, <2>1, LampAfterIsTyped DEF All
    <3> QED
      BY <1>1, <2>1, <3>1, <3>2 DEF All
  <2> QED
    BY <2>2, <2>3
<1>7. silenced' \in [Partitions -> BOOLEAN]
  BY <1>0 DEF ApplySilence, TypeOK
<1>8. troubles' \in [All -> SUBSET (Zones \X {"trouble", "check"})]
  <2> DEFINE T == Zones \X {"trouble", "check"}
  <2>1. troubles \in [All -> SUBSET T]
    BY DEF TypeOK
  <2>2. CASE e.kind \in {"trouble", "check"}
    <3>1. Token(e.zone, e.kind) \in T
      BY <1>1, <2>2 DEF Token
    <3> HIDE DEF T
    <3>2. With(troubles[e.partition], e, Token(e.zone, e.kind)) \in SUBSET T
      BY <1>1, <2>1, <3>1, WithIsTyped
    <3>3. troubles' = [troubles EXCEPT ![e.partition] = With(@, e, Token(e.zone, e.kind))]
      BY <1>0, <2>2 DEF ApplyTroubleEvent
    <3>4. troubles' \in [All -> SUBSET T]
      BY <2>1, <3>2, <3>3
    <3> QED
      BY <3>4 DEF T
  <2> QED
    BY <1>0, <2>1, <2>2 DEF ApplyTroubleEvent
<1>9. keypad' \in [Partitions -> KeypadRecord]
  BY <1>0, ReconcileAllIsTyped DEF TypeOK, KeypadRecord
<1>10. connected' \in BOOLEAN /\ complete' \in BOOLEAN
  BY <1>0 DEF TypeOK
<1>11. shown' \in [Alarms \cup {"any"} -> Known]
  BY <1>0, ShownIsTyped
<1> QED
  BY <1>2, <1>3, <1>4, <1>5, <1>6, <1>7, <1>8, <1>9, <1>10, <1>11
     DEF TypeOK, KeypadRecord, ZoneRecord, AlarmTokens

LEMMA KeypadDisplayIsTyped ==
    ASSUME TypeOK, NEW p \in Partitions, NEW d \in Displays[p], KeypadDisplay(p, d)
    PROVE  TypeOK'
<1> DEFINE lost == "ac loss" \in d.says
           k    == [keypad[p] EXCEPT !.initialized = TRUE, !.fresh = TRUE,
                                     !.explicit = d.trouble \/ "trouble" \in d.says]
           l    == [lamp EXCEPT ![p] = Displayed(p, d)]
<1>1. /\ ac' = IF lost THEN "off" ELSE ac
      /\ lamp' = IF lost THEN SetAcPower(l, "off") ELSE [l EXCEPT ![p]["power"] = ac]
      /\ silenced' = [silenced EXCEPT ![p] = Silence(p, d)]
      /\ UNCHANGED <<connected, tokens, own, troubles, battery, zone, complete>>
      /\ keypad' = [q \in Partitions |-> IF q = p THEN Reconciled(k, p)
                                         ELSE IF lost THEN Reconciled(keypad[q], q)
                                         ELSE keypad[q]]
      /\ PublishAlarmStates
  BY DEF KeypadDisplay
<1>2. ac' \in Known
  BY <1>1 DEF TypeOK, Known
<1>3. lamp' \in [Partitions -> [Lamps -> Known]]
  <2>1. l \in [Partitions -> [Lamps -> Known]]
    BY DisplayedIsTyped DEF TypeOK
  <2>2. "off" \in Known /\ ac \in Known /\ "power" \in Lamps
    BY DEF Known, Lamps, TypeOK
  <2> HIDE DEF l, lost
  <2>3. CASE lost
    BY <1>1, <2>1, <2>2, <2>3, SetAcPowerIsTyped
  <2>4. CASE ~lost
    <3>1. l[p] \in [Lamps -> Known]
      BY <2>1
    <3> QED
      BY <1>1, <2>1, <2>2, <2>4, <3>1
  <2> QED
    BY <2>3, <2>4
<1>4. silenced' \in [Partitions -> BOOLEAN]
  <2>1. Silence(p, d) \in BOOLEAN
    BY DEF Silence, TypeOK
  <2> QED
    BY <1>1, <2>1 DEF TypeOK
<1>5. keypad' \in [Partitions -> KeypadRecord]
  <2>1. keypad \in [Partitions -> KeypadRecord]
    BY DEF TypeOK, KeypadRecord
  <2>2. k \in KeypadRecord
    <3>1. (d.trouble \/ "trouble" \in d.says) \in BOOLEAN
      OBVIOUS
    <3> QED
      BY <2>1, <3>1 DEF KeypadRecord
  <2> HIDE DEF k
  <2>3. Reconciled(k, p) \in KeypadRecord
        /\ \A q \in Partitions : Reconciled(keypad[q], q) \in KeypadRecord
    BY <2>1, <2>2, ReconciledIsTyped
  <2> QED
    BY <1>1, <2>1, <2>3
<1>6. shown' \in [Alarms \cup {"any"} -> Known]
  BY <1>1, ShownIsTyped
<1> QED
  BY <1>1, <1>2, <1>3, <1>4, <1>5, <1>6 DEF TypeOK, KeypadRecord

LEMMA ZoneReportIsTyped ==
    ASSUME TypeOK, NEW updated \in [Zones -> ZoneRecord], ZoneReport(updated)
    PROVE  TypeOK'
<1>1. /\ zone' = updated /\ tokens' = WithZoneAlarms(tokens, updated)
      /\ UNCHANGED <<connected, own, silenced, lamp, troubles, ac, battery, complete, shown>>
      /\ ReconcileAll
  BY DEF ZoneReport
<1>2. tokens' \in [All -> SUBSET AlarmTokens]
  BY <1>1 DEF WithZoneAlarms, ZoneToken, Token, TypeOK, AlarmTokens
<1>3. keypad' \in [Partitions -> KeypadRecord]
  BY <1>1, ReconcileAllIsTyped DEF TypeOK, KeypadRecord
<1> QED
  BY <1>1, <1>2, <1>3 DEF TypeOK, AlarmTokens, KeypadRecord, ZoneRecord

LEMMA ZoneStatusIsTyped ==
    ASSUME TypeOK, NEW b \in Blocks, NEW flags \in [b -> SUBSET ReportedFlags],
           ZoneStatus(b, flags)
    PROVE  TypeOK'
<1> DEFINE u == [z \in Zones |-> IF z \notin b THEN zone[z]
                                 ELSE [zone[z] EXCEPT !.alarm = "alarm" \in flags[z],
                                                      !.trouble = "trouble" \in flags[z]]]
<1>1. u \in [Zones -> ZoneRecord]
  <2>1. \A z \in Zones : zone[z] \in ZoneRecord
    BY DEF TypeOK, ZoneRecord
  <2>2. ASSUME NEW r \in ZoneRecord, NEW a \in BOOLEAN, NEW t \in BOOLEAN
        PROVE  [r EXCEPT !.alarm = a, !.trouble = t] \in ZoneRecord
    BY DEF ZoneRecord
  <2>3. ASSUME NEW z \in Zones, z \in b
        PROVE  ("alarm" \in flags[z]) \in BOOLEAN /\ ("trouble" \in flags[z]) \in BOOLEAN
    OBVIOUS
  <2>4. ASSUME NEW z \in Zones PROVE u[z] \in ZoneRecord
    <3>1. CASE z \in b
      <4>1. u[z] = [zone[z] EXCEPT !.alarm = "alarm" \in flags[z],
                                   !.trouble = "trouble" \in flags[z]]
        BY <3>1
      <4> QED
        BY <2>1, <2>2, <2>3, <3>1, <4>1, Zenon
    <3>2. CASE z \notin b
      BY <2>1, <3>2
    <3> QED
      BY <3>1, <3>2
  <2>5. u = [z \in Zones |-> u[z]]
    OBVIOUS
  <2> HIDE DEF u
  <2> QED
    BY <2>4, <2>5
<1>2. ZoneReport(u)
  BY DEF ZoneStatus
<1> QED
  BY <1>1, <1>2, ZoneReportIsTyped

LEMMA ZonePartitionIsTyped ==
    ASSUME TypeOK, NEW b \in Blocks, NEW assigned \in [b -> All], ZonePartition(b, assigned)
    PROVE  TypeOK'
<1> DEFINE u == [z \in Zones |-> IF z \notin b THEN zone[z]
                                 ELSE [zone[z] EXCEPT !.partition = assigned[z]]]
<1>1. u \in [Zones -> ZoneRecord]
  <2>1. \A z \in Zones : zone[z] \in ZoneRecord
    BY DEF TypeOK, ZoneRecord
  <2> QED
    BY <2>1 DEF ZoneRecord
<1>2. ZoneReport(u)
  BY DEF ZonePartition
<1> QED
  BY <1>1, <1>2, ZoneReportIsTyped

LEMMA ResetIsTyped ==
    ASSUME TypeOK, ResetDerivedAnnunciators, connected' \in BOOLEAN,
           shown' \in [Alarms \cup {"any"} -> Known]
    PROVE  TypeOK'
<1>1. complete' \in BOOLEAN /\ ac' \in Known /\ battery' \in Known
  BY DEF ResetDerivedAnnunciators, Known
<1>2. tokens' \in [All -> SUBSET AlarmTokens]
      /\ troubles' \in [All -> SUBSET (Zones \X {"trouble", "check"})]
      /\ silenced' \in [Partitions -> BOOLEAN]
  BY DEF ResetDerivedAnnunciators
<1>3. own' \in [Partitions -> [Own -> SUBSET (Zones \X Own)]]
  BY DEF ResetDerivedAnnunciators
<1>4. "unknown" \in Known
  BY DEF Known
<1>5. lamp' \in [Partitions -> [Lamps -> Known]]
  BY <1>4 DEF ResetDerivedAnnunciators
<1>6. zone' \in [Zones -> ZoneRecord] /\ keypad' \in [Partitions -> KeypadRecord]
  BY DEF ResetDerivedAnnunciators, TypeOK, ZoneRecord, KeypadRecord
<1> QED
  BY <1>1, <1>2, <1>3, <1>5, <1>6 DEF TypeOK, AlarmTokens, ZoneRecord, KeypadRecord

LEMMA OtherStepsAreTyped ==
    TypeOK /\ (\/ \E live \in BOOLEAN : SnapshotCheck(live)
               \/ BeginQuerySnapshot \/ Invalidate \/ Republish
               \/ StartSession \/ StopSession \/ UNCHANGED vars)
      => TypeOK'
<1> SUFFICES ASSUME TypeOK
    PROVE  (\/ \E live \in BOOLEAN : SnapshotCheck(live)
            \/ BeginQuerySnapshot \/ Invalidate \/ Republish
            \/ StartSession \/ StopSession \/ UNCHANGED vars) => TypeOK'
  OBVIOUS
<1>1. ASSUME UNCHANGED <<connected, picture>>, complete' \in BOOLEAN,
             shown' \in [Alarms \cup {"any"} -> Known]
      PROVE  TypeOK'
  BY <1>1 DEF TypeOK, picture
<1>2. shown \in [Alarms \cup {"any"} -> Known] /\ complete \in BOOLEAN
  BY DEF TypeOK
<1>3. ASSUME NEW live \in BOOLEAN, SnapshotCheck(live) PROVE TypeOK'
  <2>1. complete' \in BOOLEAN
    BY <1>3 DEF SnapshotCheck
  <2>2. PublishAlarmStates \/ shown' = shown
    BY <1>3 DEF SnapshotCheck
  <2> QED
    BY <1>1, <1>2, <1>3, <2>1, <2>2, ShownIsTyped DEF SnapshotCheck
<1>4. ASSUME BeginQuerySnapshot PROVE TypeOK'
  <2>1. complete' \in BOOLEAN /\ shown' = shown /\ UNCHANGED <<connected, picture>>
    BY <1>4 DEF BeginQuerySnapshot
  <2> QED
    BY <1>1, <1>2, <2>1
<1>5. ASSUME Invalidate \/ Republish PROVE TypeOK'
  <2>1. complete' \in BOOLEAN /\ PublishAlarmStates /\ UNCHANGED <<connected, picture>>
    BY <1>2, <1>5 DEF Invalidate, Republish
  <2> QED
    BY <1>1, <2>1, ShownIsTyped
<1>6. ASSUME StartSession PROVE TypeOK'
  <2>1. connected' \in BOOLEAN
    BY <1>6 DEF StartSession
  <2> QED
    BY <1>6, <2>1, ResetIsTyped, ShownIsTyped DEF StartSession
<1>7. ASSUME StopSession PROVE TypeOK'
  <2>1. connected' \in BOOLEAN /\ shown' = shown
    BY <1>7 DEF StopSession
  <2> QED
    BY <1>2, <1>7, <2>1, ResetIsTyped DEF StopSession
<1>8. ASSUME UNCHANGED vars PROVE TypeOK'
  BY <1>1, <1>2, <1>8 DEF vars
<1> QED
  BY <1>3, <1>4, <1>5, <1>6, <1>7, <1>8

\* What is concluded from events, displays and reports stays within its values.
THEOREM PictureTypeCorrect == Spec => []TypeOK
<1>1. ASSUME TypeOK, [Next]_vars PROVE TypeOK'
  BY <1>1, SystemEventIsTyped, KeypadDisplayIsTyped, ZoneStatusIsTyped, ZonePartitionIsTyped,
     OtherStepsAreTyped DEF Next
<1> QED
  BY <1>1, InitIsTyped, PTL DEF Spec

-----------------------------------------------------------------------------
(* What a report leaves alone, and what is published.                       *)

LEMMA ReportKeepsAlarmTokens ==
    ASSUME TypeOK, NEW updated, NEW a, a # "zone-status", NEW p \in All
    PROVE  (\E t \in WithZoneAlarms(tokens, updated)[p] : t[2] = a)
             <=> \E t \in tokens[p] : t[2] = a
<1>1. \A z : ZoneToken(z)[2] = "zone-status"
  BY DEF ZoneToken, Token
<1>2. CASE p = NoPartition
  BY <1>2 DEF WithZoneAlarms, All
<1>3. CASE p # NoPartition
  <2> DEFINE here == {z \in Zones : updated[z].partition = p}
  <2>1. WithZoneAlarms(tokens, updated)[p]
          = (tokens[p] \ {ZoneToken(z) : z \in here})
                \cup {ZoneToken(z) : z \in {y \in here : updated[y].alarm}}
    BY <1>3 DEF WithZoneAlarms
  <2> HIDE DEF here
  <2> QED
    BY <1>1, <2>1
<1> QED
  BY <1>2, <1>3

LEMMA PublishedIsKnown ==
    ASSUME PublishAlarmStates
    PROVE  AlarmsAreShown'
<1> DEFINE types == ActiveTypes(tokens', own', lamp')
           some  == \/ types # {}
                    \/ \E p \in All : tokens'[p] # {}
                    \/ \E z \in Zones : zone'[z].alarm
<1>1. shown' = [a \in Alarms \cup {"any"} |->
                    Value(IF a = "any" THEN some ELSE a \in types, complete')]
  BY DEF PublishAlarmStates, PanelAlarmStates
<1>2. "any" \notin Alarms
  BY DEF Alarms
<1> HIDE DEF types, some
<1>3. \A a \in Alarms : shown'[a] = Value(a \in types, complete')
  BY <1>1, <1>2
<1>4. shown'["any"] = Value(some, complete')
  BY <1>1
<1>5. shown'["any"] = "off" => types = {}
  BY <1>4 DEF Value, some
<1>6. \A a \in Alarms : shown'[a] = "on" <=> a \in types
  BY <1>3 DEF Value
<1>7. Sounds = (Own \cup {"panic"}) \ {"supervisory"}
  BY DEF Sounds, Own
<1>8. \A a \in Alarms : a \in types <=> Open(a)' \/ (Lit(a)' /\ a # "supervisory")
  BY <1>7 DEF types, ActiveTypes, Open, Lit
<1> QED
  BY <1>5, <1>6, <1>8 DEF AlarmsAreShown

\* Every kind of alarm that is known during a session is shown, none is shown that is
\* not, and "no alarm" is told beside none but a supervisory lamp that a display alone
\* has lit: whatever event, display, report, snapshot or loss of MQTT comes next, the
\* handlers that publish are enough.
THEOREM AlarmsAreAlwaysShown == Spec => []AlarmsAreShown
<1>1. Init => AlarmsAreShown
  BY DEF Init, AlarmsAreShown
<1>2. ASSUME TypeOK, AlarmsAreShown, [Next]_vars PROVE AlarmsAreShown'
  <2>1. ASSUME PublishAlarmStates PROVE AlarmsAreShown'
    BY <2>1, PublishedIsKnown
  <2>2. ASSUME UNCHANGED <<connected, tokens, own, lamp, shown>> PROVE AlarmsAreShown'
    BY <1>2, <2>2 DEF AlarmsAreShown, Open, Lit
  <2>3. ASSUME NEW e \in Events, SystemEvent(e) PROVE AlarmsAreShown'
    BY <2>1, <2>3 DEF SystemEvent
  <2>4. ASSUME NEW p \in Partitions, NEW d \in Displays[p], KeypadDisplay(p, d)
        PROVE  AlarmsAreShown'
    BY <2>1, <2>4 DEF KeypadDisplay
  <2>5. ASSUME NEW u, ZoneReport(u) PROVE AlarmsAreShown'
    <3>1. tokens' = WithZoneAlarms(tokens, u) /\ UNCHANGED <<connected, own, lamp, shown>>
      BY <2>5 DEF ZoneReport
    <3>2. \A a \in Alarms : a # "zone-status"
      BY DEF Alarms
    <3>3. \A a \in Alarms : (\E p \in All : \E t \in tokens'[p] : t[2] = a)
                              <=> \E p \in All : \E t \in tokens[p] : t[2] = a
      BY <1>2, <3>1, <3>2, ReportKeepsAlarmTokens
    <3>4. \A a \in Alarms : (Open(a)' <=> Open(a)) /\ (Lit(a)' <=> Lit(a))
      BY <3>1, <3>3 DEF Open, Lit
    <3> QED
      BY <1>2, <3>1, <3>4 DEF AlarmsAreShown
  <2>6. ASSUME NEW b, NEW f, ZoneStatus(b, f) \/ ZonePartition(b, f) PROVE AlarmsAreShown'
    BY <2>5, <2>6 DEF ZoneStatus, ZonePartition
  <2>7. ASSUME NEW live \in BOOLEAN, SnapshotCheck(live) PROVE AlarmsAreShown'
    BY <2>1, <2>2, <2>7 DEF SnapshotCheck, picture
  <2>8. ASSUME BeginQuerySnapshot \/ Invalidate \/ Republish PROVE AlarmsAreShown'
    BY <2>1, <2>2, <2>8 DEF BeginQuerySnapshot, Invalidate, Republish, picture
  <2>9. ASSUME StartSession \/ StopSession PROVE AlarmsAreShown'
    BY <2>1, <2>9 DEF StartSession, StopSession, AlarmsAreShown
  <2>10. ASSUME UNCHANGED vars PROVE AlarmsAreShown'
    BY <2>2, <2>10 DEF vars, picture
  <2> QED
    BY <1>2, <2>3, <2>4, <2>6, <2>7, <2>8, <2>9, <2>10 DEF Next
<1> QED
  BY <1>1, <1>2, PictureTypeCorrect, PTL DEF Spec

-----------------------------------------------------------------------------
(* The trouble lamps and the power.                                         *)

\* A display was seen in this session only if one was ever seen.
FreshIsInitialized == \A p \in Partitions : keypad[p].fresh => keypad[p].initialized

Current == TroubleIsCurrent /\ FreshIsInitialized

LEMMA ReconciledIsCurrent ==
    ASSUME NEW k \in KeypadRecord, NEW p
    PROVE  LET r == Reconciled(k, p)
           IN /\ r.fresh = k.fresh /\ r.initialized = k.initialized /\ r.explicit = k.explicit
              /\ k.initialized => r.trouble = (k.explicit \/ KnownTrouble(p)')
<1> DEFINE b == IF k.initialized THEN k.explicit \/ KnownTrouble(p)' ELSE k.trouble
           r == Reconciled(k, p)
<1>1. r = [k EXCEPT !.trouble = b]
  BY DEF Reconciled
<1>2. k.initialized => b = (k.explicit \/ KnownTrouble(p)')
  OBVIOUS
<1> HIDE DEF b, r
<1>3. r.fresh = k.fresh /\ r.initialized = k.initialized /\ r.explicit = k.explicit
      /\ r.trouble = b
  BY <1>1 DEF KeypadRecord
<1> QED
  BY <1>2, <1>3 DEF r

LEMMA ReconcileAllIsCurrent ==
    ASSUME TypeOK, Current, ReconcileAll, \A p \in Partitions : lamp'[p]["power"] = ac'
    PROVE  Current'
<1>1. ASSUME NEW p \in Partitions
      PROVE  /\ keypad'[p].fresh => keypad'[p].trouble = (keypad'[p].explicit \/ KnownTrouble(p)')
             /\ keypad'[p].fresh => keypad'[p].initialized
  <2>1. keypad'[p] = Reconciled(keypad[p], p) /\ keypad[p] \in KeypadRecord
    BY DEF ReconcileAll, TypeOK, KeypadRecord
  <2>2. keypad[p].fresh => keypad[p].initialized
    BY DEF Current, FreshIsInitialized
  <2> QED
    BY <2>1, <2>2, ReconciledIsCurrent
<1> QED
  BY <1>1 DEF Current, TroubleIsCurrent, FreshIsInitialized

LEMMA PowerOfEvent ==
    ASSUME TypeOK, TroubleIsCurrent, NEW e \in Events, SystemEvent(e), NEW p \in Partitions
    PROVE  lamp'[p]["power"] = ac'
<1>1. ApplyLamps(e) /\ lamp \in [Partitions -> [Lamps -> Known]] /\ lamp[p]["power"] = ac
  BY DEF SystemEvent, TypeOK, TroubleIsCurrent
<1>2. "power" \in Lamps /\ "power" \notin Own /\ lamp[p] \in [Lamps -> Known]
  BY <1>1 DEF Lamps, Own
<1>3. CASE e.kind = "ac"
  <2>1. lamp' = SetAcPower(lamp, ac')
    BY <1>1, <1>3 DEF ApplyLamps
  <2>2. lamp'[p] = [lamp[p] EXCEPT !["power"] = ac']
    BY <2>1 DEF SetAcPower
  <2> QED
    BY <1>2, <2>2
<1>4. CASE e.kind # "ac"
  <2>1. ac' = ac
    BY <1>1, <1>4 DEF ApplyLamps
  <2>2. lamp'[p] = lamp[p] \/ lamp'[p] = LampAfter(lamp[p], e)
    BY <1>1, <1>4 DEF ApplyLamps
  <2>3. LampAfter(lamp[p], e)["power"] = lamp[p]["power"]
    BY <1>2 DEF LampAfter
  <2> QED
    BY <1>1, <2>1, <2>2, <2>3
<1> QED
  BY <1>3, <1>4

LEMMA DisplayIsCurrent ==
    ASSUME TypeOK, Current, NEW p \in Partitions, NEW d \in Displays[p], KeypadDisplay(p, d)
    PROVE  Current'
<1> DEFINE lost == "ac loss" \in d.says
           k    == [keypad[p] EXCEPT !.initialized = TRUE, !.fresh = TRUE,
                                     !.explicit = d.trouble \/ "trouble" \in d.says]
           l    == [lamp EXCEPT ![p] = Displayed(p, d)]
<1>1. /\ ac' = IF lost THEN "off" ELSE ac
      /\ lamp' = IF lost THEN SetAcPower(l, "off") ELSE [l EXCEPT ![p]["power"] = ac]
      /\ UNCHANGED <<troubles, battery, zone>>
      /\ keypad' = [q \in Partitions |-> IF q = p THEN Reconciled(k, p)
                                         ELSE IF lost THEN Reconciled(keypad[q], q)
                                         ELSE keypad[q]]
  BY DEF KeypadDisplay
<1>2. keypad \in [Partitions -> KeypadRecord] /\ lamp \in [Partitions -> [Lamps -> Known]]
  BY DEF TypeOK, KeypadRecord
<1>3. k \in KeypadRecord /\ k.initialized
  <2>1. (d.trouble \/ "trouble" \in d.says) \in BOOLEAN
    OBVIOUS
  <2> QED
    BY <1>2, <2>1 DEF KeypadRecord
<1>4. l \in [Partitions -> [Lamps -> Known]] /\ \A q \in Partitions : q # p => l[q] = lamp[q]
  BY <1>2, DisplayedIsTyped
<1> HIDE DEF k, l, lost
<1>5. ASSUME NEW q \in Partitions PROVE lamp'[q]["power"] = ac'
  <2>1. "power" \in Lamps /\ l[q] \in [Lamps -> Known] /\ lamp[q]["power"] = ac
    BY <1>4 DEF Lamps, Current, TroubleIsCurrent
  <2>2. CASE lost
    <3>1. lamp'[q] = [l[q] EXCEPT !["power"] = "off"] /\ ac' = "off"
      BY <1>1, <2>2 DEF SetAcPower
    <3> QED
      BY <2>1, <3>1
  <2>3. CASE ~lost
    <3>1. ac' = ac /\ lamp' = [l EXCEPT ![p]["power"] = ac]
      BY <1>1, <2>3
    <3> QED
      BY <1>4, <2>1, <3>1
  <2> QED
    BY <2>2, <2>3
<1>6. ASSUME NEW q \in Partitions
      PROVE  /\ keypad'[q].fresh => keypad'[q].trouble = (keypad'[q].explicit \/ KnownTrouble(q)')
             /\ keypad'[q].fresh => keypad'[q].initialized
  <2>1. keypad[q] \in KeypadRecord /\ (keypad[q].fresh => keypad[q].initialized)
    BY <1>2 DEF Current, FreshIsInitialized
  <2>2. CASE q = p
    <3>1. keypad'[q] = Reconciled(k, p)
      BY <1>1, <2>2
    <3> QED
      BY <1>3, <2>2, <3>1, ReconciledIsCurrent
  <2>3. CASE q # p /\ lost
    <3>1. keypad'[q] = Reconciled(keypad[q], q)
      BY <1>1, <2>3
    <3> QED
      BY <2>1, <3>1, ReconciledIsCurrent
  <2>4. CASE q # p /\ ~lost
    <3>1. keypad'[q] = keypad[q] /\ ac' = ac
      BY <1>1, <2>4
    <3>2. KnownTrouble(q)' = KnownTrouble(q)
      BY <1>1, <3>1 DEF KnownTrouble
    <3> QED
      BY <2>1, <3>1, <3>2 DEF Current, TroubleIsCurrent
  <2> QED
    BY <2>2, <2>3, <2>4
<1> QED
  BY <1>5, <1>6 DEF Current, TroubleIsCurrent, FreshIsInitialized

\* The trouble lamp of every keypad seen in this session takes in what is known of
\* trouble anywhere, and all keypads show the same AC power: no handler that learns of
\* trouble forgets to reconcile the keypads it concerns.
THEOREM TroubleStaysCurrent == Spec => []TroubleIsCurrent
<1>1. Init => Current
  <2> SUFFICES ASSUME Init PROVE Current
    OBVIOUS
  <2>1. "power" \in Lamps
    BY DEF Lamps
  <2>2. \A p \in Partitions : keypad[p].fresh = FALSE /\ lamp[p]["power"] = ac
    BY <2>1 DEF Init
  <2> QED
    BY <2>2 DEF Current, TroubleIsCurrent, FreshIsInitialized
<1>2. ASSUME TypeOK, Current, [Next]_vars PROVE Current'
  <2>1. ASSUME UNCHANGED <<lamp, troubles, ac, battery, keypad, zone>> PROVE Current'
    BY <1>2, <2>1 DEF Current, TroubleIsCurrent, FreshIsInitialized, KnownTrouble
  <2>2. ASSUME NEW e \in Events, SystemEvent(e) PROVE Current'
    <3>1. ReconcileAll /\ \A p \in Partitions : lamp'[p]["power"] = ac'
      BY <1>2, <2>2, PowerOfEvent DEF SystemEvent, Current
    <3> QED
      BY <1>2, <3>1, ReconcileAllIsCurrent
  <2>3. ASSUME NEW u, ZoneReport(u) PROVE Current'
    <3>1. ReconcileAll /\ lamp' = lamp /\ ac' = ac
      BY <2>3 DEF ZoneReport
    <3>2. \A p \in Partitions : lamp'[p]["power"] = ac'
      BY <1>2, <3>1 DEF Current, TroubleIsCurrent
    <3> QED
      BY <1>2, <3>1, <3>2, ReconcileAllIsCurrent
  <2>4. ASSUME NEW b, NEW f, ZoneStatus(b, f) \/ ZonePartition(b, f) PROVE Current'
    BY <2>3, <2>4 DEF ZoneStatus, ZonePartition
  <2>5. ASSUME ResetDerivedAnnunciators PROVE Current'
    <3>1. "power" \in Lamps
      BY DEF Lamps
    <3>2. \A p \in Partitions : keypad'[p].fresh = FALSE
      BY <1>2, <2>5 DEF ResetDerivedAnnunciators, TypeOK
    <3>3. \A p \in Partitions : lamp'[p]["power"] = ac'
      BY <2>5, <3>1 DEF ResetDerivedAnnunciators
    <3> QED
      BY <3>2, <3>3 DEF Current, TroubleIsCurrent, FreshIsInitialized
  <2>6. ASSUME NEW live \in BOOLEAN, SnapshotCheck(live) PROVE Current'
    BY <2>1, <2>6 DEF SnapshotCheck, picture
  <2>7. ASSUME BeginQuerySnapshot \/ Invalidate \/ Republish PROVE Current'
    BY <2>1, <2>7 DEF BeginQuerySnapshot, Invalidate, Republish, picture
  <2>8. ASSUME StartSession \/ StopSession PROVE Current'
    BY <2>5, <2>8 DEF StartSession, StopSession
  <2>9. ASSUME UNCHANGED vars PROVE Current'
    BY <2>1, <2>9 DEF vars, picture
  <2> QED
    BY <1>2, <2>2, <2>4, <2>6, <2>7, <2>8, <2>9, DisplayIsCurrent DEF Next
<1>3. Current => TroubleIsCurrent
  BY DEF Current
<1> QED
  BY <1>1, <1>2, <1>3, PictureTypeCorrect, PTL DEF Spec

-----------------------------------------------------------------------------
(* The lamps and their evidence, and the silenced fire.                     *)

\* A burglary alarm that is open in the set of its own is open in the partition too.
BurglaryIsAToken ==
    \A p \in Partitions : \A t \in own[p]["burglary"] : t[2] = "burglary" /\ t \in tokens[p]

OwnLamps == Own \cup {"panic"}

LampsFollow ==
    \A p \in Partitions :
        /\ \A k \in OwnLamps : Remains(p, k) => lamp[p][k] = "on"
        /\ \A k \in {"burglary", "auxiliary", "panic"} : lamp[p][k] = "on" => Remains(p, k)

Evident == BurglaryIsAToken /\ LampsFollow /\ SilenceIsOfAFire

LEMMA EvidentShows == TypeOK /\ Evident => LampsShowEvidence
<1> SUFFICES ASSUME TypeOK, Evident, NEW p \in Partitions, NEW k \in {"burglary", "panic"},
                    lamp[p][k] = "on"
             PROVE  tokens[p] # {}
  BY DEF LampsShowEvidence, Evident, LampsFollow, OwnLamps
<1>1. Remains(p, k)
  BY DEF Evident, LampsFollow
<1>2. CASE k = "panic"
  BY <1>1, <1>2 DEF Remains
<1>3. CASE k = "burglary"
  BY <1>1, <1>3 DEF Remains, Evident, BurglaryIsAToken
<1> QED
  BY <1>2, <1>3

\* What an event does to the partition it names, and to the others.
LEMMA EventElsewhere ==
    ASSUME TypeOK, NEW e \in Events, SystemEvent(e), NEW p \in Partitions,
           e.partition # p \/ e.kind \notin OwnLamps \cup {"disarm"}
    PROVE  /\ \A k \in OwnLamps \cup {"silenced"} : lamp'[p][k] = lamp[p][k]
           /\ own'[p] = own[p] /\ silenced'[p] = silenced[p]
           /\ (\E t \in tokens'[p] : t[2] = "panic") <=> \E t \in tokens[p] : t[2] = "panic"
           /\ \A t \in tokens[p] : t[2] = "burglary" => t \in tokens'[p]
<1>1. /\ ApplyAlarmEvent(e) /\ ApplyOwnTokens(e) /\ ApplyLamps(e) /\ ApplySilence(e)
  BY DEF SystemEvent
<1>2. /\ e.kind \in Kinds \cup {"disarm"} /\ e.partition \in All /\ p \in All
      /\ p # NoPartition
  BY EventIsTyped, PartitionAssumption DEF All
<1>3. \A k \in OwnLamps \cup {"silenced"} : lamp'[p][k] = lamp[p][k]
  <2>1. lamp \in [Partitions -> [Lamps -> Known]] /\ lamp[p] \in [Lamps -> Known]
    BY DEF TypeOK
  <2>2. OwnLamps \cup {"silenced"} \subseteq Lamps \ {"power"}
    BY DEF OwnLamps, Lamps, Own
  <2>3. CASE e.kind = "ac"
    <3>1. lamp'[p] = [lamp[p] EXCEPT !["power"] = ac']
      BY <1>1, <2>3 DEF ApplyLamps, SetAcPower
    <3> QED
      BY <2>1, <2>2, <3>1
  <2>4. CASE e.kind # "ac"
    <3>1. e.partition # p => lamp'[p] = lamp[p]
      BY <1>1, <2>1, <2>4 DEF ApplyLamps
    <3>2. e.kind \notin OwnLamps \cup {"disarm"} => LampAfter(lamp[p], e) = lamp[p]
      BY DEF LampAfter, OwnLamps
    <3>3. e.kind \notin OwnLamps \cup {"disarm"} => lamp'[p] = lamp[p]
      BY <1>1, <2>1, <2>4, <3>2 DEF ApplyLamps
    <3> QED
      BY <3>1, <3>3
  <2> QED
    BY <2>3, <2>4
<1>4. own'[p] = own[p]
  BY <1>1 DEF ApplyOwnTokens, TypeOK, OwnLamps
<1>5. silenced'[p] = silenced[p]
  BY <1>1 DEF ApplySilence, TypeOK, OwnLamps, Own
<1>6. tokens \in [All -> SUBSET AlarmTokens]
  BY DEF TypeOK, AlarmTokens
<1>7. tokens'[p] = tokens[p] \/ (e.kind \in Alarms \ OwnLamps
          /\ tokens'[p] = With(tokens[p], e, Token(e.zone, e.kind)))
  <2>1. CASE e.kind \in Alarms
    <3>1. tokens' = [tokens EXCEPT ![e.partition] = With(@, e, Token(e.zone, e.kind))]
      BY <1>1, <2>1 DEF ApplyAlarmEvent, Alarms
    <3>2. e.kind # "disarm"
      BY <2>1 DEF Alarms
    <3> QED
      BY <1>2, <1>6, <2>1, <3>1, <3>2
  <2>2. CASE e.kind \notin Alarms
    <3>1. tokens' = tokens
             \/ (e.kind = "disarm" /\ tokens' = [tokens EXCEPT ![e.partition] = {}])
      BY <1>1, <2>2 DEF ApplyAlarmEvent
    <3> QED
      BY <1>2, <1>6, <3>1
  <2> QED
    BY <2>1, <2>2
<1>8. Token(e.zone, e.kind)[2] = e.kind
  BY DEF Token
<1>9. e.kind \in Alarms \ OwnLamps => e.kind # "panic" /\ e.kind # "burglary"
  BY DEF OwnLamps, Own
<1> QED
  BY <1>3, <1>4, <1>5, <1>7, <1>8, <1>9 DEF With

LEMMA EventHere ==
    ASSUME TypeOK, NEW e \in Events, SystemEvent(e), NEW p \in Partitions,
           e.partition = p, e.kind \in OwnLamps \cup {"disarm"}
    PROVE  /\ lamp'[p] = LampAfter(lamp[p], e)
           /\ own'[p] = IF e.kind \in Own
                        THEN [own[p] EXCEPT ![e.kind] = With(@, e, Token(e.zone, e.kind))]
                        ELSE IF e.kind = "disarm" THEN [own[p] EXCEPT !["burglary"] = {}]
                        ELSE own[p]
           /\ tokens'[p] = IF e.kind = "disarm" THEN {}
                           ELSE With(tokens[p], e, Token(e.zone, e.kind))
           /\ silenced'[p] = IF e.kind = "fire" /\ e.does = "start" THEN FALSE ELSE silenced[p]
<1>1. /\ ApplyAlarmEvent(e) /\ ApplyOwnTokens(e) /\ ApplyLamps(e) /\ ApplySilence(e)
  BY DEF SystemEvent
<1>2. p # NoPartition /\ p \in All /\ e.kind # "ac" /\ "disarm" \notin Alarms
      /\ Own \subseteq Alarms /\ "panic" \in Alarms /\ "disarm" \notin Own
  BY PartitionAssumption DEF All, OwnLamps, Own, Alarms
<1>3. /\ tokens \in [All -> SUBSET AlarmTokens] /\ DOMAIN own = Partitions
      /\ DOMAIN lamp = Partitions /\ DOMAIN silenced = Partitions
  BY DEF TypeOK, AlarmTokens
<1>4. lamp'[p] = LampAfter(lamp[p], e)
  BY <1>1, <1>2, <1>3 DEF ApplyLamps
<1>5. silenced'[p] = IF e.kind = "fire" /\ e.does = "start" THEN FALSE ELSE silenced[p]
  BY <1>1, <1>2, <1>3 DEF ApplySilence
<1>6. CASE e.kind \in Own
  <2>1. /\ own' = [own EXCEPT ![p][e.kind] = With(@, e, Token(e.zone, e.kind))]
        /\ tokens' = [tokens EXCEPT ![p] = With(@, e, Token(e.zone, e.kind))]
    BY <1>1, <1>2, <1>6 DEF ApplyOwnTokens, ApplyAlarmEvent
  <2> QED
    BY <1>2, <1>3, <1>4, <1>5, <1>6, <2>1
<1>7. CASE e.kind = "panic"
  <2>1. "panic" \notin Own
    BY DEF Own
  <2>2. own' = own /\ tokens' = [tokens EXCEPT ![p] = With(@, e, Token(e.zone, e.kind))]
    BY <1>1, <1>2, <1>7, <2>1 DEF ApplyOwnTokens, ApplyAlarmEvent
  <2> QED
    BY <1>2, <1>3, <1>4, <1>5, <1>7, <2>1, <2>2
<1>8. CASE e.kind = "disarm"
  <2>1. own' = [own EXCEPT ![p]["burglary"] = {}] /\ tokens' = [tokens EXCEPT ![p] = {}]
    BY <1>1, <1>2, <1>8 DEF ApplyOwnTokens, ApplyAlarmEvent
  <2> QED
    BY <1>2, <1>3, <1>4, <1>5, <1>8, <2>1
<1> QED
  BY <1>6, <1>7, <1>8 DEF OwnLamps

\* The invariant at one partition.
EvidentAt(p) ==
    /\ \A t \in own[p]["burglary"] : t[2] = "burglary" /\ t \in tokens[p]
    /\ \A k \in OwnLamps : Remains(p, k) => lamp[p][k] = "on"
    /\ \A k \in {"burglary", "auxiliary", "panic"} : lamp[p][k] = "on" => Remains(p, k)
    /\ silenced[p] = (lamp[p]["silenced"] = "on")
    /\ silenced[p] => lamp[p]["fire"] # "off"

LEMMA EvidentIsLocal == Evident <=> \A p \in Partitions : EvidentAt(p)
  BY DEF Evident, BurglaryIsAToken, LampsFollow, SilenceIsOfAFire, EvidentAt

LEMMA EvidentIsLocalPrimed == (\A p \in Partitions : EvidentAt(p)') => Evident'
  BY DEF Evident, BurglaryIsAToken, LampsFollow, SilenceIsOfAFire, EvidentAt

LEMMA EventKeepsEvident ==
    ASSUME TypeOK, Evident, NEW e \in Events, SystemEvent(e), NEW p \in Partitions
    PROVE  EvidentAt(p)'
<1>1. /\ e.kind \in Kinds \cup {"disarm"} /\ e.does \in {"start", "restore"}
      /\ e.kind = "disarm" => e.does = "start"
  BY EventIsTyped
<1>2. EvidentAt(p) /\ lamp[p] \in [Lamps -> Known] /\ DOMAIN own[p] = Own
  BY EvidentIsLocal DEF TypeOK
<1>3. OwnLamps \cup {"silenced"} \subseteq Lamps /\ "panic" \notin Own
      /\ Own = {"fire", "burglary", "auxiliary", "supervisory"}
      /\ OwnLamps = {"fire", "burglary", "auxiliary", "supervisory", "panic"}
  BY DEF OwnLamps, Lamps, Own
<1>4. CASE e.partition # p \/ e.kind \notin OwnLamps \cup {"disarm"}
  <2>1. /\ \A k \in OwnLamps \cup {"silenced"} : lamp'[p][k] = lamp[p][k]
        /\ own'[p] = own[p] /\ silenced'[p] = silenced[p]
        /\ (\E t \in tokens'[p] : t[2] = "panic") <=> \E t \in tokens[p] : t[2] = "panic"
        /\ \A t \in tokens[p] : t[2] = "burglary" => t \in tokens'[p]
    BY <1>4, EventElsewhere
  <2>2. \A k : Remains(p, k)' <=> Remains(p, k)
    BY <2>1 DEF Remains
  <2> QED
    BY <1>2, <1>3, <2>1, <2>2 DEF EvidentAt
<1>5. CASE e.partition = p /\ e.kind \in OwnLamps \cup {"disarm"}
  <2> DEFINE tok == Token(e.zone, e.kind)
  <2>1. /\ lamp'[p] = LampAfter(lamp[p], e)
        /\ own'[p] = IF e.kind \in Own
                     THEN [own[p] EXCEPT ![e.kind] = With(@, e, tok)]
                     ELSE IF e.kind = "disarm" THEN [own[p] EXCEPT !["burglary"] = {}]
                     ELSE own[p]
        /\ tokens'[p] = IF e.kind = "disarm" THEN {} ELSE With(tokens[p], e, tok)
        /\ silenced'[p] = IF e.kind = "fire" /\ e.does = "start" THEN FALSE ELSE silenced[p]
    BY <1>5, EventHere
  <2>2. tok[2] = e.kind
    BY DEF Token
  <2> HIDE DEF tok
  <2>3. CASE e.kind = "disarm"
    <3>1. LampAfter(lamp[p], e) = [lamp[p] EXCEPT !["burglary"] = "off", !["panic"] = "off"]
      BY <1>3, <2>3 DEF LampAfter
    <3>2. /\ \A k \in OwnLamps \cup {"silenced"} :
                lamp'[p][k] = IF k \in {"burglary", "panic"} THEN "off" ELSE lamp[p][k]
      BY <1>2, <1>3, <2>1, <3>1
    <3>3. /\ own'[p]["burglary"] = {} /\ tokens'[p] = {} /\ silenced'[p] = silenced[p]
          /\ \A k \in Own \ {"burglary"} : own'[p][k] = own[p][k]
      BY <1>2, <1>3, <2>1, <2>3
    <3>4. \A k \in OwnLamps : Remains(p, k)' <=> Remains(p, k) /\ k \notin {"burglary", "panic"}
      BY <1>3, <3>3 DEF Remains
    <3> QED
      BY <1>2, <1>3, <3>2, <3>3, <3>4 DEF EvidentAt
  <2>4. CASE e.kind \in OwnLamps
    <3>1. e.kind # "disarm"
      BY <1>3, <2>4
    <3>2. \A k \in Own : own'[p][k] = IF k = e.kind THEN With(own[p][k], e, tok) ELSE own[p][k]
      BY <1>2, <2>1, <3>1
    <3>3. tokens'[p] = With(tokens[p], e, tok)
      BY <2>1, <3>1
    <3>4. \A k \in OwnLamps : k # e.kind => (Remains(p, k)' <=> Remains(p, k))
      BY <1>3, <2>2, <3>2, <3>3 DEF Remains, With
    <3>5. \A t \in own'[p]["burglary"] : t[2] = "burglary" /\ t \in tokens'[p]
      BY <1>2, <1>3, <2>2, <3>2, <3>3 DEF EvidentAt, With
    <3>6. CASE e.does = "start"
      <4>1. LampAfter(lamp[p], e)
              = [lamp[p] EXCEPT ![e.kind] = "on",
                                !["silenced"] = IF e.kind = "fire" THEN "off" ELSE @]
        BY <2>4, <3>1, <3>6 DEF LampAfter, OwnLamps
      <4>2. /\ \A k \in OwnLamps : lamp'[p][k] = IF k = e.kind THEN "on" ELSE lamp[p][k]
            /\ lamp'[p]["silenced"] = IF e.kind = "fire" THEN "off" ELSE lamp[p]["silenced"]
        BY <1>2, <1>3, <2>1, <2>4, <4>1
      <4>3. Remains(p, e.kind)'
        BY <1>3, <2>2, <2>4, <3>2, <3>3, <3>6 DEF Remains, With
      <4>4. silenced'[p] = IF e.kind = "fire" THEN FALSE ELSE silenced[p]
        BY <2>1, <3>6
      <4> QED
        BY <1>2, <1>3, <3>4, <3>5, <4>2, <4>3, <4>4 DEF EvidentAt
    <3>7. CASE e.does = "restore"
      <4>1. silenced'[p] = silenced[p] /\ e.does # "start"
        BY <2>1, <3>7
      <4>2. Remains(p, e.kind)' => Remains(p, e.kind)
        BY <1>3, <2>4, <3>2, <3>3, <4>1 DEF Remains, With
      <4>3. CASE e.kind = "fire"
        <5>1. LampAfter(lamp[p], e) = lamp[p]
          BY <1>3, <3>7, <4>1, <4>3 DEF LampAfter
        <5> QED
          BY <1>2, <1>3, <2>1, <3>4, <3>5, <4>1, <4>2, <4>3, <5>1 DEF EvidentAt
      <4>4. CASE e.kind # "fire"
        <5>1. LampAfter(lamp[p], e)
                = [lamp[p] EXCEPT ![e.kind] = IF Remains(p, e.kind)' THEN @ ELSE "off"]
          BY <1>3, <1>5, <2>4, <3>7, <4>1, <4>4 DEF LampAfter
        <5>2. /\ \A k \in OwnLamps \cup {"silenced"} : k # e.kind => lamp'[p][k] = lamp[p][k]
              /\ lamp'[p][e.kind] = IF Remains(p, e.kind)' THEN lamp[p][e.kind] ELSE "off"
          BY <1>2, <1>3, <2>1, <2>4, <5>1
        <5>3. \A k \in OwnLamps : Remains(p, k)' => lamp'[p][k] = "on"
          BY <1>2, <1>3, <2>4, <3>4, <4>2, <5>2 DEF EvidentAt
        <5>4. \A k \in {"burglary", "auxiliary", "panic"} :
                 lamp'[p][k] = "on" => Remains(p, k)'
          <6>1. \A k \in {"burglary", "auxiliary", "panic"} : k \in OwnLamps
            BY <1>3
          <6>2. ASSUME NEW k \in {"burglary", "auxiliary", "panic"}, k # e.kind,
                       lamp'[p][k] = "on"
                PROVE  Remains(p, k)'
            BY <1>2, <3>4, <5>2, <6>1, <6>2 DEF EvidentAt
          <6>3. lamp'[p][e.kind] = "on" => Remains(p, e.kind)'
            BY <5>2
          <6> QED
            BY <6>2, <6>3
        <5>5. lamp'[p]["silenced"] = lamp[p]["silenced"] /\ lamp'[p]["fire"] = lamp[p]["fire"]
          BY <1>3, <2>4, <4>4, <5>2
        <5> QED
          BY <1>2, <3>5, <4>1, <5>3, <5>4, <5>5 DEF EvidentAt
      <4> QED
        BY <4>3, <4>4
    <3> QED
      BY <1>1, <3>6, <3>7
  <2> QED
    BY <1>5, <2>3, <2>4
<1> QED
  BY <1>4, <1>5

LEMMA DisplayKeepsEvident ==
    ASSUME TypeOK, Evident, NEW q \in Partitions, NEW d \in Displays[q], KeypadDisplay(q, d),
           NEW p \in Partitions
    PROVE  EvidentAt(p)'
<1>1. /\ EvidentAt(p) /\ lamp \in [Partitions -> [Lamps -> Known]]
      /\ DOMAIN silenced = Partitions /\ silenced[p] \in BOOLEAN
  BY EvidentIsLocal DEF TypeOK
<1>2. /\ OwnLamps \cup {"silenced"} \subseteq Lamps \ {"power"}
      /\ OwnLamps = {"fire", "burglary", "auxiliary", "supervisory", "panic"}
  BY DEF OwnLamps, Lamps, Own
<1>3. /\ UNCHANGED <<tokens, own>> /\ silenced' = [silenced EXCEPT ![q] = Silence(q, d)]
  BY DEF KeypadDisplay
<1>4. \A k \in OwnLamps \cup {"silenced"} :
         lamp'[p][k] = IF p = q THEN Displayed(q, d)[k] ELSE lamp[p][k]
  <2> DEFINE l == [lamp EXCEPT ![q] = Displayed(q, d)]
  <2>1. lamp' = SetAcPower(l, "off") \/ lamp' = [l EXCEPT ![q]["power"] = ac]
    BY DEF KeypadDisplay
  <2>2. /\ l \in [Partitions -> [Lamps -> Known]]
        /\ l[p] = IF p = q THEN Displayed(q, d) ELSE lamp[p]
    BY <1>1, DisplayedIsTyped
  <2> HIDE DEF l
  <2>3. lamp'[p] = l[p] \/ \E v : lamp'[p] = [l[p] EXCEPT !["power"] = v]
    BY <2>1, <2>2 DEF SetAcPower
  <2>4. \A k \in OwnLamps \cup {"silenced"} : lamp'[p][k] = l[p][k]
    BY <1>2, <2>2, <2>3
  <2> QED
    BY <2>2, <2>4
<1>5. \A k : Remains(p, k)' <=> Remains(p, k)
  BY <1>3 DEF Remains
<1>6. CASE p # q
  BY <1>1, <1>2, <1>3, <1>4, <1>5, <1>6 DEF EvidentAt
<1>7. CASE p = q
  <2>1. lamp[p] \in [Lamps -> Known]
    BY <1>1
  <2>2. /\ lamp'[p]["fire"] = FireLamp(p, d)
        /\ lamp'[p]["silenced"] = IF Silence(p, d) THEN "on"
                                  ELSE IF FireLamp(p, d) = "off" THEN "off"
                                  ELSE lamp[p]["silenced"]
        /\ lamp'[p]["supervisory"] = Settle(lamp[p]["supervisory"],
               own[p]["supervisory"] # {} \/ "supervisory" \in d.says, d)
        /\ lamp'[p]["panic"] = Settle(lamp[p]["panic"], Remains(p, "panic"), d)
        /\ lamp'[p]["burglary"] = Settle(lamp[p]["burglary"], Remains(p, "burglary"), d)
        /\ lamp'[p]["auxiliary"] = Settle(lamp[p]["auxiliary"], Remains(p, "auxiliary"), d)
    BY <1>2, <1>4, <1>7, <2>1 DEF Displayed
  <2>3. silenced'[p] = Silence(p, d)
    BY <1>1, <1>3, <1>7
  <2>4. /\ Remains(p, "fire") => lamp'[p]["fire"] = "on"
        /\ \A k \in {"supervisory", "panic", "burglary", "auxiliary"} :
              Remains(p, k) => lamp'[p][k] = "on"
    BY <2>2 DEF Remains, FireLamp, Settle
  <2>5. \A k \in {"burglary", "auxiliary", "panic"} : lamp'[p][k] = "on" => Remains(p, k)
    BY <1>1, <2>2 DEF EvidentAt, Settle
  <2>6. Silence(p, d) => FireLamp(p, d) # "off"
    BY DEF Silence
  <2>7. Silence(p, d) = (lamp'[p]["silenced"] = "on")
    <3>1. CASE FireLamp(p, d) = "off"
      BY <2>2, <3>1 DEF Silence
    <3>2. CASE FireLamp(p, d) # "off" /\ "silenced" \in d.says
      BY <2>2, <3>2 DEF Silence
    <3>3. CASE FireLamp(p, d) # "off" /\ "silenced" \notin d.says
      <4>1. Silence(p, d) = silenced[p]
        BY <3>3 DEF Silence
      <4> QED
        BY <1>1, <2>2, <3>3, <4>1 DEF EvidentAt
    <3> QED
      BY <3>1, <3>2, <3>3
  <2>8. \A t \in own'[p]["burglary"] : t[2] = "burglary" /\ t \in tokens'[p]
    BY <1>1, <1>3 DEF EvidentAt
  <2> QED
    BY <1>2, <1>5, <2>2, <2>3, <2>4, <2>5, <2>6, <2>7, <2>8 DEF EvidentAt
<1> QED
  BY <1>6, <1>7

LEMMA ReportKeepsEvident ==
    ASSUME TypeOK, Evident, NEW u, ZoneReport(u), NEW p \in Partitions
    PROVE  EvidentAt(p)'
<1>1. EvidentAt(p) /\ p \in All
  BY EvidentIsLocal DEF All
<1>2. UNCHANGED <<own, lamp, silenced>> /\ tokens' = WithZoneAlarms(tokens, u)
  BY DEF ZoneReport
<1>3. (\E t \in tokens'[p] : t[2] = "panic") <=> \E t \in tokens[p] : t[2] = "panic"
  BY <1>1, <1>2, ReportKeepsAlarmTokens
<1>4. \A k : Remains(p, k)' <=> Remains(p, k)
  BY <1>2, <1>3 DEF Remains
<1>5. \A t \in tokens[p] : t[2] = "burglary" => t \in tokens'[p]
  <2>1. \A z : ZoneToken(z)[2] = "zone-status"
    BY DEF ZoneToken, Token
  <2>2. p # NoPartition
    BY PartitionAssumption
  <2>3. tokens[p] \ {ZoneToken(z) : z \in {y \in Zones : u[y].partition = p}} \subseteq tokens'[p]
    BY <1>1, <1>2, <2>2 DEF WithZoneAlarms
  <2> QED
    BY <2>1, <2>3
<1> QED
  BY <1>1, <1>2, <1>4, <1>5 DEF EvidentAt

LEMMA ResetIsEvident ==
    ASSUME ResetDerivedAnnunciators
    PROVE  Evident'
<1> SUFFICES ASSUME NEW p \in Partitions PROVE EvidentAt(p)'
  BY EvidentIsLocalPrimed
<1>1. OwnLamps \cup {"silenced"} \subseteq Lamps
      /\ {"burglary", "auxiliary", "panic"} \subseteq OwnLamps
      /\ "fire" \in OwnLamps /\ OwnLamps \ {"panic"} \subseteq Own
  BY DEF OwnLamps, Lamps, Own
<1>2. /\ tokens'[p] = {} /\ \A k \in Own : own'[p][k] = {}
      /\ \A k \in Lamps : lamp'[p][k] = "unknown" /\ silenced'[p] = FALSE
  BY DEF ResetDerivedAnnunciators, All
<1>3. \A k \in OwnLamps : ~Remains(p, k)'
  BY <1>1, <1>2 DEF Remains
<1>4. silenced'[p] = FALSE
  BY DEF ResetDerivedAnnunciators
<1>5. "burglary" \in Own
  BY DEF Own
<1> QED
  BY <1>1, <1>2, <1>3, <1>4, <1>5 DEF EvidentAt

LEMMA InitIsEvident == Init => Evident
<1> SUFFICES ASSUME Init, NEW p \in Partitions PROVE EvidentAt(p)
  BY EvidentIsLocal
<1>1. OwnLamps \cup {"silenced"} \subseteq Lamps
      /\ {"burglary", "auxiliary", "panic"} \subseteq OwnLamps
      /\ "fire" \in OwnLamps /\ OwnLamps \ {"panic"} \subseteq Own /\ "burglary" \in Own
  BY DEF OwnLamps, Lamps, Own
<1>2. /\ tokens[p] = {} /\ silenced[p] = FALSE
      /\ \A k \in Own : own[p][k] = {}
      /\ \A k \in Lamps : lamp[p][k] = "unknown"
  BY DEF Init, All
<1>3. \A k \in OwnLamps : ~Remains(p, k)
  BY <1>1, <1>2 DEF Remains
<1> QED
  BY <1>1, <1>2, <1>3 DEF EvidentAt

LEMMA SpecEvident == Spec => [](TypeOK /\ Evident)
<1>1. ASSUME TypeOK, Evident, [Next]_vars PROVE Evident'
  <2>1. ASSUME UNCHANGED <<tokens, own, silenced, lamp>> PROVE Evident'
    <3> SUFFICES ASSUME NEW p \in Partitions PROVE EvidentAt(p)'
      BY EvidentIsLocalPrimed
    <3>1. EvidentAt(p)
      BY <1>1, EvidentIsLocal
    <3> QED
      BY <2>1, <3>1 DEF EvidentAt, Remains
  <2>2. ASSUME NEW e \in Events, SystemEvent(e) PROVE Evident'
    BY <1>1, <2>2, EventKeepsEvident, EvidentIsLocalPrimed
  <2>3. ASSUME NEW q \in Partitions, NEW d \in Displays[q], KeypadDisplay(q, d)
        PROVE  Evident'
    BY <1>1, <2>3, DisplayKeepsEvident, EvidentIsLocalPrimed
  <2>4. ASSUME NEW b, NEW f, ZoneStatus(b, f) \/ ZonePartition(b, f) PROVE Evident'
    BY <1>1, <2>4, ReportKeepsEvident, EvidentIsLocalPrimed DEF ZoneStatus, ZonePartition
  <2>5. ASSUME NEW live \in BOOLEAN, SnapshotCheck(live) PROVE Evident'
    BY <2>1, <2>5 DEF SnapshotCheck, picture
  <2>6. ASSUME BeginQuerySnapshot \/ Invalidate \/ Republish PROVE Evident'
    BY <2>1, <2>6 DEF BeginQuerySnapshot, Invalidate, Republish, picture
  <2>7. ASSUME StartSession \/ StopSession PROVE Evident'
    BY <2>7, ResetIsEvident DEF StartSession, StopSession
  <2>8. ASSUME UNCHANGED vars PROVE Evident'
    BY <2>1, <2>8 DEF vars, picture
  <2> QED
    BY <1>1, <2>2, <2>3, <2>4, <2>5, <2>6, <2>7, <2>8 DEF Next
<1> QED
  BY <1>1, InitIsEvident, PictureTypeCorrect, PTL DEF Spec

\* A lamp is lit while what lit it is open, is dark again once the last of it ended,
\* and a partition whose burglary or panic sounds is triggered, however starts,
\* restores, disarming, displays and reports follow each other.
THEOREM LampsAlwaysShowEvidence == Spec => []LampsShowEvidence
  BY SpecEvident, EvidentShows, PTL

\* A fire is shown as silenced exactly while it is remembered as silenced, and never
\* beside a fire lamp known to be dark.
THEOREM SilenceIsAlwaysOfAFire == Spec => []SilenceIsOfAFire
<1>1. Evident => SilenceIsOfAFire
  BY DEF Evident
<1> QED
  BY <1>1, SpecEvident, PTL
=============================================================================
