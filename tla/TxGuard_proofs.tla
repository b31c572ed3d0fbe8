---------------------------- MODULE TxGuard_proofs ----------------------------
(***************************************************************************)
(* What was enqueued in one session is not sent in the next, but for the   *)
(* one raw frame that was past the tests of _enqueue_tx: proofs for every  *)
(* set of frames, every bound of the queues and every number of sessions.  *)
(* And the panel is never programmed by frames sent in the order in which  *)
(* the guard inspected them, for every length of code.                     *)
(***************************************************************************)
EXTENDS TxGuard, SequenceTheorems, WellFoundedInduction, TLAPS

-----------------------------------------------------------------------------
(* The invariant.                                                           *)

\* Nothing is of a session yet to come.
NothingIsAhead ==
    /\ \A i \in DOMAIN tx : tx[i].born <= session
    /\ \A i \in DOMAIN raw : raw[i].born <= session
    /\ thread # Idle => thread.item.born <= session

\* Between sessions at most one raw frame is left, in the queue or on its way.
AtMostOneSurvives ==
    phase = "down" => /\ tx = <<>>
                      /\ \A i, j \in DOMAIN raw : i = j
                      /\ thread.at \in {"tested", "locked"} => raw = <<>>

Apart == TypeOK /\ NothingIsAhead /\ AtMostOneSurvives /\ SessionsAreKeptApart

-----------------------------------------------------------------------------
(* Queues.                                                                  *)

LEMMA AppendIsTyped ==
    ASSUME NEW S, NEW q \in Seq(S), NEW e \in S
    PROVE  /\ Append(q, e) \in Seq(S) /\ Len(Append(q, e)) = Len(q) + 1
           /\ DOMAIN Append(q, e) = DOMAIN q \cup {Len(q) + 1}
           /\ Len(q) + 1 \notin DOMAIN q
           /\ \A i \in DOMAIN q : Append(q, e)[i] = q[i]
           /\ Append(q, e)[Len(q) + 1] = e
  OBVIOUS

LEMMA TailIsTyped ==
    ASSUME NEW S, NEW q \in Seq(S), q # <<>>
    PROVE  /\ Head(q) \in S /\ Tail(q) \in Seq(S) /\ Len(Tail(q)) = Len(q) - 1
           /\ \A i \in DOMAIN Tail(q) : i + 1 \in DOMAIN q /\ Tail(q)[i] = q[i + 1]
           /\ DOMAIN Tail(q) \subseteq Int
<1>1. Head(q) \in S /\ Tail(q) \in Seq(S) /\ Len(Tail(q)) = Len(q) - 1
      /\ \A i \in 1 .. Len(Tail(q)) : Tail(q)[i] = q[i + 1]
  BY HeadTailProperties
<1> QED
  BY <1>1, LenProperties

LEMMA LastOfIsTyped ==
    ASSUME NEW s \in Seq(Strokes), NEW n \in Nat
    PROVE  LastOf(s, n) \in Seq(Strokes)
<1> DEFINE m == IF Len(s) > n THEN Len(s) - n + 1 ELSE 1
<1>1. Len(s) \in Nat /\ m \in Nat /\ 1 <= m
  OBVIOUS
<1>2. \A i \in m .. Len(s) : s[i] \in Strokes
  BY <1>1, ElementOfSeq
<1> HIDE DEF m
<1>3. SubSeq(s, m, Len(s)) \in Seq(Strokes)
  BY <1>1, <1>2, SubSeqProperties
<1> QED
  BY <1>3 DEF m, LastOf

LEMMA ItemIsTyped ==
    ASSUME TypeOK, NEW f \in Frames
    PROVE  Item(f) \in Items /\ Item(f).born = session
  BY FramesAssumption DEF Item, Items, TypeOK

LEMMA CommitIsTyped ==
    ASSUME TypeOK, NEW f, NEW u, u # Blocked, Commit(f, u)
    PROVE  DOMAIN guard' = Partitions /\ \A p \in Partitions : guard'[p] # Blocked
  BY DEF TypeOK, Commit, Keypad

LEMMA TypeIsTyped ==
    ASSUME TypeOK, NEW item \in Items, NEW late, Type(item, late)
    PROVE  /\ typed' \in [Partitions -> Seq(Strokes)]
           /\ programmed' \subseteq Partitions /\ disturbed' \subseteq Partitions
<1>1. CASE ~Keypad(item)
  BY <1>1 DEF Type, panel, TypeOK
<1>2. CASE Keypad(item)
  <2> DEFINE p == item.part
             s == typed[p] \o item.strokes
  <2>1. p \in Partitions /\ typed[p] \in Seq(Strokes) /\ item.strokes \in Seq(Strokes)
    BY <1>2 DEF Keypad, TypeOK, Items
  <2>2. s \in Seq(Strokes)
    BY <2>1, ConcatProperties
  <2>3. LastOf(s, Lead + 2) \in Seq(Strokes)
    <3>1. Lead + 2 \in Nat
      BY BoundAssumption
    <3> HIDE DEF s
    <3> QED
      BY <2>2, <3>1, LastOfIsTyped
  <2>4. /\ typed' = [typed EXCEPT ![p] = LastOf(s, Lead + 2)]
        /\ programmed' = IF Completes(s) THEN programmed \cup {p} ELSE programmed
        /\ disturbed' = IF late THEN disturbed \cup {p} ELSE disturbed
    BY <1>2, Zenon DEF Type
  <2> QED
    BY <2>1, <2>3, <2>4 DEF TypeOK
<1> QED
  BY <1>1, <1>2

-----------------------------------------------------------------------------
(* It holds at the start, and every action keeps it.                        *)

LEMMA InitApart == Init => Apart
<1> SUFFICES ASSUME Init PROVE Apart
  OBVIOUS
<1>1. /\ phase = "down" /\ session = 0 /\ active = FALSE /\ thread = Idle /\ made = 0
      /\ guard = [p \in Partitions |-> <<>>] /\ tx = <<>> /\ raw = <<>>
      /\ typed = [p \in Partitions |-> <<>>] /\ programmed = {} /\ disturbed = {}
  BY DEF Init
<1>2. <<>> \in Seq(Strokes) /\ <<>> \in Seq(Items) /\ Len(<<>>) = 0 /\ DOMAIN <<>> = {}
  OBVIOUS
<1>3. Blocked # <<>> /\ Idle.at = "idle"
  BY DEF Blocked, Idle
<1>4. typed \in [Partitions -> Seq(Strokes)]
  BY <1>1, <1>2
<1>5. DOMAIN guard = Partitions /\ \A p \in Partitions : guard[p] # Blocked
  BY <1>1, <1>3
<1>6. active \in BOOLEAN /\ programmed \subseteq Partitions /\ disturbed \subseteq Partitions
  BY <1>1
<1>7. TypeOK
  BY <1>1, <1>2, <1>3, <1>4, <1>5, <1>6, BoundAssumption DEF TypeOK, Locked
<1> QED
  BY <1>1, <1>2, <1>7
     DEF Apart, NothingIsAhead, AtMostOneSurvives, SessionsAreKeptApart

LEMMA EnqueueKeeps ==
    ASSUME Apart, NEW f \in Frames, Enqueue(f)
    PROVE  Apart'
<1> USE DEF Apart
<1>1. Item(f) \in Items /\ Item(f).born = session
  BY ItemIsTyped
<1>2. /\ phase = "up" /\ tx' = Append(tx, Item(f)) /\ Len(tx) < TxCapacity
      /\ ~Locked /\ made' = made + 1
      /\ UNCHANGED <<phase, session, active, raw, thread, panel>>
      /\ InspectFrame(f) # Blocked /\ Commit(f, InspectFrame(f))
  BY DEF Enqueue
<1>3. DOMAIN guard' = Partitions /\ \A p \in Partitions : guard'[p] # Blocked
  BY <1>2, CommitIsTyped
<1>4. tx \in Seq(Items)
  BY DEF TypeOK
<1>5. /\ tx' \in Seq(Items) /\ Len(tx') = Len(tx) + 1
      /\ DOMAIN tx' = DOMAIN tx \cup {Len(tx) + 1}
      /\ \A i \in DOMAIN tx : tx'[i] = tx[i]
      /\ tx'[Len(tx) + 1] = Item(f)
  BY <1>1, <1>2, <1>4, AppendIsTyped
<1>6. TypeOK'
  <2>1. Len(tx') <= TxCapacity
    BY <1>2, <1>4, <1>5, BoundAssumption
  <2> QED
    BY <1>2, <1>3, <1>5, <2>1 DEF TypeOK, panel, Idle, Locked
<1>7. NothingIsAhead'
  BY <1>1, <1>2, <1>5 DEF NothingIsAhead, TypeOK, Idle
<1>8. AtMostOneSurvives'
  BY <1>2 DEF AtMostOneSurvives
<1>9. SessionsAreKeptApart'
  BY <1>1, <1>2, <1>5 DEF SessionsAreKeptApart, Older, Idle
<1> QED
  BY <1>6, <1>7, <1>8, <1>9

LEMMA RawTestKeeps ==
    ASSUME Apart, NEW f \in Frames, RawTest(f)
    PROVE  Apart'
<1> USE DEF Apart
<1>1. Item(f) \in Items /\ Item(f).born = session
  BY ItemIsTyped
<1>2. thread' = [at |-> "tested", item |-> Item(f)] /\ phase = "up"
      /\ thread = Idle
      /\ UNCHANGED <<phase, session, active, guard, tx, raw, made, panel>>
  BY DEF RawTest, queues
<1>3. thread'.at = "tested" /\ thread'.item = Item(f)
  BY <1>2
<1>4. TypeOK'
  BY <1>1, <1>2, <1>3 DEF TypeOK, panel, Locked
<1>5. NothingIsAhead' /\ AtMostOneSurvives' /\ SessionsAreKeptApart'
  BY <1>1, <1>2, <1>3
     DEF NothingIsAhead, AtMostOneSurvives, SessionsAreKeptApart, Older, TypeOK
<1> QED
  BY <1>4, <1>5

LEMMA RawInspectKeeps == Apart /\ RawInspect => Apart'
<1> SUFFICES ASSUME Apart, RawInspect PROVE Apart'
  OBVIOUS
<1> USE DEF Apart
<1> DEFINE item == [thread.item EXCEPT !.n = made + 1]
<1>1. /\ thread.at = "tested" /\ thread # Idle /\ thread.item \in Items /\ made' = made + 1
      /\ made' \in Nat
      /\ UNCHANGED <<phase, session, active, guard, tx, raw, panel>>
  BY DEF RawInspect, queues, TypeOK, Idle
<1>2. item \in Items /\ item.born = thread.item.born
  BY <1>1 DEF Items
<1>3. CASE thread' = Idle
  BY <1>1, <1>3
     DEF TypeOK, panel, Idle, Locked, NothingIsAhead, AtMostOneSurvives, SessionsAreKeptApart,
         Older
<1>4. CASE /\ thread' = [at |-> "locked", item |-> item, update |-> InspectFrame(item)]
           /\ InspectFrame(item) # Blocked
  <2> HIDE DEF item
  <2>1. thread'.at = "locked" /\ thread'.item = item
        /\ thread'.update # Blocked /\ thread' # Idle
    BY <1>4 DEF Idle
  <2>2. TypeOK'
    BY <1>1, <1>2, <2>1 DEF TypeOK, panel, Locked
  <2> QED
    BY <1>1, <1>2, <2>1, <2>2 DEF NothingIsAhead, AtMostOneSurvives, SessionsAreKeptApart, Older
<1> QED
  BY <1>3, <1>4 DEF RawInspect

LEMMA RawPutOfRoom ==
    ASSUME TypeOK, RawPut, raw' # raw \/ thread' # Idle
    PROVE  /\ Len(raw) < RawCapacity /\ raw' = Append(raw, thread.item)
           /\ thread' = [at |-> "put", item |-> thread.item, update |-> thread.update]
  BY DEF RawPut

LEMMA RawPutKeeps == Apart /\ RawPut => Apart'
<1> SUFFICES ASSUME Apart, RawPut PROVE Apart'
  OBVIOUS
<1> USE DEF Apart
<1>1. /\ thread.at = "locked" /\ thread # Idle /\ thread.item \in Items
      /\ thread.update # Blocked
      /\ UNCHANGED <<phase, session, active, guard, tx, made, panel>>
  BY DEF RawPut, TypeOK, Idle, Locked
<1>2. CASE raw' = raw /\ thread' = Idle
  BY <1>1, <1>2
     DEF TypeOK, panel, Idle, Locked, NothingIsAhead, AtMostOneSurvives, SessionsAreKeptApart,
         Older
<1>3. CASE raw' # raw \/ thread' # Idle
  <2>1. /\ Len(raw) < RawCapacity /\ raw' = Append(raw, thread.item)
        /\ thread'.at = "put" /\ thread'.item = thread.item
        /\ thread'.update = thread.update /\ thread' # Idle
    BY <1>3, RawPutOfRoom DEF Idle
  <2>2. raw \in Seq(Items)
    BY DEF TypeOK
  <2>3. /\ raw' \in Seq(Items) /\ Len(raw') = Len(raw) + 1
        /\ DOMAIN raw' = DOMAIN raw \cup {Len(raw) + 1}
        /\ \A i \in DOMAIN raw : raw'[i] = raw[i]
        /\ raw'[Len(raw) + 1] = thread.item
    BY <1>1, <2>1, <2>2, AppendIsTyped
  <2>4. TypeOK'
    <3>1. Len(raw') <= RawCapacity
      BY <1>1, <2>1, <2>2, <2>3, BoundAssumption
    <3> QED
      BY <1>1, <2>1, <2>3, <3>1 DEF TypeOK, panel, Locked
  <2>5. NothingIsAhead'
    BY <1>1, <2>1, <2>3 DEF NothingIsAhead
  <2>6. AtMostOneSurvives'
    <3>1. CASE phase = "down"
      <4>1. raw = <<>> /\ tx = <<>>
        BY <1>1, <2>1, <3>1 DEF AtMostOneSurvives
      <4>2. DOMAIN raw = {}
        BY <4>1
      <4> QED
        BY <1>1, <2>1, <2>3, <4>1, <4>2 DEF AtMostOneSurvives
    <3> QED
      BY <1>1, <2>1, <3>1 DEF AtMostOneSurvives
  <2>7. SessionsAreKeptApart'
    <3>1. CASE thread.item.born = session
      BY <1>1, <2>1, <2>3, <3>1 DEF SessionsAreKeptApart, Older
    <3>2. CASE thread.item.born # session
      BY <1>1, <2>1, <2>3, <3>2 DEF SessionsAreKeptApart, Older
    <3> QED
      BY <3>1, <3>2
  <2> QED
    BY <2>4, <2>5, <2>6, <2>7
<1> QED
  BY <1>2, <1>3

LEMMA RawCommitKeeps == Apart /\ RawCommit => Apart'
<1> SUFFICES ASSUME Apart, RawCommit PROVE Apart'
  OBVIOUS
<1> USE DEF Apart
<1>1. /\ thread.update # Blocked /\ thread' = Idle /\ thread'.at = "idle"
      /\ Commit(thread.item, thread.update)
      /\ UNCHANGED <<phase, session, active, tx, raw, made, panel>>
  BY DEF RawCommit, TypeOK, Idle, Locked, queues
<1>2. DOMAIN guard' = Partitions /\ \A p \in Partitions : guard'[p] # Blocked
  BY <1>1, CommitIsTyped
<1>3. TypeOK'
  BY <1>1, <1>2 DEF TypeOK, panel, Locked
<1> QED
  BY <1>1, <1>3 DEF NothingIsAhead, AtMostOneSurvives, SessionsAreKeptApart, Older

LEMMA WriteOrdinaryKeeps == Apart /\ WriteOrdinary => Apart'
<1> SUFFICES ASSUME Apart, WriteOrdinary PROVE Apart'
  OBVIOUS
<1> USE DEF Apart
<1>1. /\ phase = "up" /\ tx # <<>> /\ tx' = Tail(tx) /\ tx \in Seq(Items)
      /\ UNCHANGED <<phase, session, active, guard, raw, thread, made>>
      /\ Type(Head(tx), Overtakes(Head(tx)))
  BY DEF WriteOrdinary, TypeOK
<1>2. /\ Head(tx) \in Items /\ tx' \in Seq(Items) /\ Len(tx') = Len(tx) - 1
      /\ \A i \in DOMAIN tx' : i + 1 \in DOMAIN tx /\ tx'[i] = tx[i + 1]
  BY <1>1, TailIsTyped
<1>3. typed' \in [Partitions -> Seq(Strokes)]
      /\ programmed' \subseteq Partitions /\ disturbed' \subseteq Partitions
  BY <1>1, <1>2, TypeIsTyped
<1>4. TypeOK'
  <2>1. Len(tx') <= TxCapacity
    BY <1>1, <1>2, BoundAssumption DEF TypeOK
  <2> QED
    BY <1>1, <1>2, <1>3, <2>1 DEF TypeOK, Idle, Locked
<1>5. NothingIsAhead' /\ AtMostOneSurvives' /\ SessionsAreKeptApart'
  BY <1>1, <1>2
     DEF NothingIsAhead, AtMostOneSurvives, SessionsAreKeptApart, Older, Idle
<1> QED
  BY <1>4, <1>5

LEMMA WriteRawKeeps == Apart /\ WriteRaw => Apart'
<1> SUFFICES ASSUME Apart, WriteRaw PROVE Apart'
  OBVIOUS
<1> USE DEF Apart
<1>1. /\ phase = "up" /\ raw # <<>> /\ raw' = Tail(raw) /\ raw \in Seq(Items)
      /\ UNCHANGED <<phase, session, active, guard, tx, thread, made>>
      /\ Type(Head(raw), FALSE)
  BY DEF WriteRaw, TypeOK
<1>2. /\ Head(raw) \in Items /\ raw' \in Seq(Items) /\ Len(raw') = Len(raw) - 1
      /\ \A i \in DOMAIN raw' : i + 1 \in DOMAIN raw /\ raw'[i] = raw[i + 1]
      /\ DOMAIN raw' \subseteq Int
  BY <1>1, TailIsTyped
<1>3. typed' \in [Partitions -> Seq(Strokes)]
      /\ programmed' \subseteq Partitions /\ disturbed' \subseteq Partitions
  BY <1>1, <1>2, TypeIsTyped
<1>4. TypeOK'
  <2>1. Len(raw') <= Len(raw) /\ Len(raw) \in Nat /\ Len(raw') \in Nat
    BY <1>1, <1>2
  <2> QED
    BY <1>1, <1>2, <1>3, <2>1, BoundAssumption DEF TypeOK, Idle, Locked
<1>5. NothingIsAhead' /\ AtMostOneSurvives'
  BY <1>1, <1>2 DEF NothingIsAhead, AtMostOneSurvives, Idle
<1>6. SessionsAreKeptApart'
  <2>1. \A i \in Older(raw)' : i \in Int /\ i + 1 \in Older(raw)
    BY <1>1, <1>2 DEF Older
  <2>2. \A i, j \in Older(raw)' : i = j
    BY <1>1, <2>1 DEF SessionsAreKeptApart
  <2> QED
    BY <1>1, <2>1, <2>2 DEF SessionsAreKeptApart, Older, Idle
<1> QED
  BY <1>4, <1>5, <1>6

LEMMA StartSessionKeeps == Apart /\ StartSession => Apart'
<1> SUFFICES ASSUME Apart, StartSession PROVE Apart'
  OBVIOUS
<1> USE DEF Apart
<1>1. /\ phase = "down" /\ phase' = "up" /\ session' = session + 1 /\ active' = FALSE
      /\ guard' = [p \in Partitions |-> <<>>]
      /\ typed' = [p \in Partitions |-> <<>>] /\ programmed' = {}
      /\ disturbed' = {p \in Partitions : \E i \in DOMAIN raw : raw[i].part = p}
      /\ UNCHANGED <<tx, raw, thread, made>>
  BY DEF StartSession, queues
<1>2. tx = <<>> /\ \A i, j \in DOMAIN raw : i = j
  BY <1>1 DEF AtMostOneSurvives
<1>3. TypeOK'
  <2>1. <<>> \in Seq(Strokes) /\ Blocked # <<>>
    BY DEF Blocked
  <2>2. typed' \in [Partitions -> Seq(Strokes)]
    BY <1>1, <2>1
  <2>3. DOMAIN guard' = Partitions /\ \A p \in Partitions : guard'[p] # Blocked
    BY <1>1, <2>1
  <2>4. active' \in BOOLEAN /\ programmed' \subseteq Partitions
        /\ disturbed' \subseteq Partitions
    BY <1>1
  <2> QED
    BY <1>1, <2>2, <2>3, <2>4 DEF TypeOK, Locked
<1>4. NothingIsAhead'
  <2>1. raw \in Seq(Items) /\ \A i \in DOMAIN raw : raw[i] \in Items
    BY DEF TypeOK
  <2> QED
    BY <1>1, <1>2, <2>1 DEF NothingIsAhead, TypeOK, Items, Idle
<1>5. AtMostOneSurvives'
  BY <1>1 DEF AtMostOneSurvives
<1>6. SessionsAreKeptApart'
  <2>1. Older(tx)' = {}
    BY <1>1, <1>2 DEF Older
  <2>2. thread.at \in {"tested", "locked"} => raw = <<>>
    BY <1>1 DEF AtMostOneSurvives
  <2> QED
    BY <1>1, <1>2, <2>1, <2>2 DEF SessionsAreKeptApart, Older, Idle
<1> QED
  BY <1>3, <1>4, <1>5, <1>6

LEMMA OtherStepsKeep ==
    Apart /\ (Synchronize \/ StopSession \/ DiscardPendingTx \/ UNCHANGED vars) => Apart'
<1> SUFFICES ASSUME Apart PROVE Synchronize \/ StopSession \/ DiscardPendingTx
                                  \/ UNCHANGED vars => Apart'
  OBVIOUS
<1> USE DEF Apart, TypeOK, NothingIsAhead, AtMostOneSurvives, SessionsAreKeptApart,
            Older, Idle, Locked, panel, queues
<1>1. ASSUME Synchronize PROVE Apart'
  BY <1>1 DEF Synchronize
<1>2. ASSUME StopSession PROVE Apart'
  BY <1>2 DEF StopSession
<1>3. ASSUME DiscardPendingTx PROVE Apart'
  <2>1. <<>> \in Seq(Items) /\ Len(<<>>) = 0 /\ DOMAIN <<>> = {}
    OBVIOUS
  <2>2. phase' = "down" /\ tx' = <<>> /\ raw' = <<>>
        /\ UNCHANGED <<session, active, guard, thread, made, typed, programmed, disturbed>>
    BY <1>3 DEF DiscardPendingTx
  <2>3. 0 < RawCapacity /\ 0 <= TxCapacity /\ 0 <= RawCapacity
    BY BoundAssumption
  <2> QED
    BY <2>1, <2>2, <2>3
<1>4. ASSUME UNCHANGED vars PROVE Apart'
  BY <1>4 DEF vars
<1> QED
  BY <1>1, <1>2, <1>3, <1>4

-----------------------------------------------------------------------------
LEMMA SpecApart == Spec => []Apart
<1>1. ASSUME Apart, [Next]_vars PROVE Apart'
  BY <1>1, EnqueueKeeps, RawTestKeeps, RawInspectKeeps, RawPutKeeps, RawCommitKeeps,
     WriteOrdinaryKeeps, WriteRawKeeps, StartSessionKeeps, OtherStepsKeep DEF Next
<1> QED
  BY <1>1, InitApart, PTL DEF Spec

\* The queues stay within their bounds, and a blocked history is never stored, in
\* every reachable state.
THEOREM TxTypeCorrect == Spec => []TypeOK
  BY SpecApart, PTL DEF Apart

\* While a session is up, no ordinary frame of an earlier session waits to be sent,
\* and of the raw frames at most one: _discard_pending_tx runs between sessions, and
\* only a thread already past the tests of _enqueue_tx can put after it.
THEOREM SessionsStayApart == Spec => []SessionsAreKeptApart
  BY SpecApart, PTL DEF Apart

-----------------------------------------------------------------------------
(* The fold over the strokes of a frame: least counterexamples stand for     *)
(* induction.                                                                *)

LEMMA HasMinimum ==
    ASSUME NEW S, S \subseteq Nat, S # {}
    PROVE  \E i \in S : \A k \in S : i <= k
<1> DEFINE R == OpToRel(<, Nat)
<1>1. IsWellFoundedOn(R, Nat)
  BY NatLessThanWellFounded
<1> HIDE DEF R
<1>2. PICK i \in S : \A k \in S : ~(<<k, i>> \in R)
  BY <1>1, WFMin
<1>3. \A k \in S : k \in Nat /\ i \in Nat
  OBVIOUS
<1>4. \A k \in S : ~(k < i)
  BY <1>2, <1>3 DEF R, OpToRel
<1> QED
  BY <1>3, <1>4

\* The equation of Histories has a solution, of any length.
IsHistories(f, h, s, n) ==
    f = [i \in 0 .. n |-> IF i = 0 THEN h ELSE NextHistory(f[i - 1], s[i])]

LEMMA HistoriesExist ==
    ASSUME NEW h, NEW s
    PROVE  \A n \in Nat : \E f : IsHistories(f, h, s, n)
<1> USE DEF IsHistories
<1> DEFINE Without == {n \in Nat : ~\E f : IsHistories(f, h, s, n)}
<1>1. CASE Without # {}
  <2>1. PICK m \in Without : \A k \in Without : m <= k
    <3>1. Without \subseteq Nat
      OBVIOUS
    <3> HIDE DEF Without
    <3> QED
      BY <1>1, <3>1, HasMinimum
  <2>2. m \in Nat /\ ~\E f : IsHistories(f, h, s, m)
    OBVIOUS
  <2>3. CASE m = 0
    <3> DEFINE g == [i \in 0 .. 0 |-> h]
    <3>1. g = [i \in 0 .. 0 |-> IF i = 0 THEN h ELSE NextHistory(g[i - 1], s[i])]
      <4>1. \A i \in 0 .. 0 : i = 0
        OBVIOUS
      <4> QED
        BY <4>1
    <3> QED
      BY <2>2, <2>3, <3>1
  <2>4. CASE m # 0
    <3>1. m - 1 \in Nat /\ ~(m <= m - 1)
      BY <2>2, <2>4
    <3>2. PICK f : IsHistories(f, h, s, m - 1)
      BY <2>1, <3>1
    <3> HIDE DEF Without
    <3> DEFINE g == [i \in 0 .. m |-> IF i = m THEN NextHistory(f[m - 1], s[m]) ELSE f[i]]
    <3>3. \A i \in 0 .. (m - 1) : f[i] = IF i = 0 THEN h ELSE NextHistory(f[i - 1], s[i])
      BY <3>2
    <3>4. ASSUME NEW i \in 0 .. m
          PROVE  g[i] = IF i = 0 THEN h ELSE NextHistory(g[i - 1], s[i])
      <4>1. CASE i = m
        <5>1. i # 0 /\ i - 1 \in 0 .. m /\ i - 1 # m
          BY <2>2, <2>4, <4>1
        <5>2. g[i] = NextHistory(f[i - 1], s[i])
          BY <4>1
        <5>3. g[i - 1] = f[i - 1]
          BY <5>1
        <5> HIDE DEF g
        <5> QED
          BY <5>1, <5>2, <5>3
      <4>2. CASE i # m /\ i # 0
        <5>1. i \in 0 .. (m - 1) /\ i - 1 \in 0 .. m /\ i - 1 # m
          BY <2>2, <4>2
        <5>2. g[i] = f[i] /\ g[i - 1] = f[i - 1]
          BY <4>2, <5>1
        <5> HIDE DEF g
        <5> QED
          BY <3>3, <4>2, <5>1, <5>2
      <4>3. CASE i # m /\ i = 0
        <5>1. i \in 0 .. (m - 1)
          BY <2>2, <4>3
        <5>2. g[i] = f[i]
          BY <4>3
        <5> HIDE DEF g
        <5> QED
          BY <3>3, <4>3, <5>1, <5>2
      <4> QED
        BY <4>1, <4>2, <4>3
    <3>5. g = [i \in 0 .. m |-> g[i]]
      OBVIOUS
    <3> HIDE DEF g
    <3>6. IsHistories(g, h, s, m)
      BY <3>4, <3>5
    <3> QED
      BY <2>2, <3>6
  <2> QED
    BY <2>3, <2>4
<1> QED
  BY <1>1

LEMMA HistoriesStep ==
    ASSUME NEW h, NEW s, Len(s) \in Nat
    PROVE  /\ Histories(h, s)[0] = h
           /\ \A i \in 1 .. Len(s) :
                 Histories(h, s)[i] = NextHistory(Histories(h, s)[i - 1], s[i])
<1> DEFINE f == Histories(h, s)
           n == Len(s)
<1> HIDE DEF n
<1>1. \E g : IsHistories(g, h, s, n)
  <2>1. n \in Nat
    BY DEF n
  <2> QED
    BY <2>1, HistoriesExist
<1>2. f = [i \in 0 .. n |-> IF i = 0 THEN h ELSE NextHistory(f[i - 1], s[i])]
  BY <1>1 DEF Histories, IsHistories, n
<1> HIDE DEF f
<1>3. 0 \in 0 .. n /\ \A i \in 1 .. n : i \in 0 .. n /\ i # 0
  BY DEF n
<1>4. f[0] = h /\ \A i \in 1 .. n : f[i] = NextHistory(f[i - 1], s[i])
  BY <1>2, <1>3
<1> QED
  BY <1>4 DEF f, n

-----------------------------------------------------------------------------
(* Words of strokes, read from the end: what the guard keeps of them, and   *)
(* what makes the panel enter programming.                                  *)

At(s, k) == s[Len(s) - k]

\* v is the end of w.
EndsWith(w, v) == Len(v) <= Len(w) /\ \A k \in 0 .. (Len(v) - 1) : At(v, k) = At(w, k)

\* The history h has the digits that w ends with, as far back as the guard looks.
Covers(h, w) ==
    \A k \in 0 .. (Lead + 1) :
        k < Len(w) /\ (\A j \in 0 .. k : At(w, j) \in Digits)
            => k < Len(h) /\ At(h, k) = At(w, k)

LEMMA AppendFromEnd ==
    ASSUME NEW S, NEW s \in Seq(S), NEW c \in S
    PROVE  /\ Append(s, c) \in Seq(S) /\ Len(s) \in Nat /\ Len(Append(s, c)) = Len(s) + 1
           /\ At(Append(s, c), 0) = c
           /\ \A k \in 1 .. Len(s) : At(Append(s, c), k) = At(s, k - 1)
<1> DEFINE n == Len(s)
           a == Append(s, c)
<1>1. /\ a \in Seq(S) /\ n \in Nat /\ Len(a) = n + 1
      /\ a[n + 1] = c /\ \A i \in 1 .. n : a[i] = s[i]
  OBVIOUS
<1> HIDE DEF n, a
<1>2. (n + 1) - 0 = n + 1 /\ \A k \in 1 .. n : (n + 1) - k = n - (k - 1) /\ (n + 1) - k \in 1 .. n
  BY <1>1
<1> QED
  BY <1>1, <1>2 DEF At, n, a

LEMMA ConcatFromEnd ==
    ASSUME NEW S, NEW w \in Seq(S), NEW s \in Seq(S)
    PROVE  /\ w \o s \in Seq(S) /\ Len(w) \in Nat /\ Len(s) \in Nat
           /\ Len(w \o s) = Len(w) + Len(s)
           /\ \A k \in 0 .. (Len(s) - 1) : At(w \o s, k) = At(s, k)
           /\ \A k \in Len(s) .. (Len(w) + Len(s) - 1) : At(w \o s, k) = At(w, k - Len(s))
<1> DEFINE m == Len(w)
           n == Len(s)
           a == w \o s
<1>1. /\ a \in Seq(S) /\ m \in Nat /\ n \in Nat /\ Len(a) = m + n
      /\ \A i \in 1 .. m + n : a[i] = IF i <= m THEN w[i] ELSE s[i - m]
  BY ConcatProperties
<1> HIDE DEF m, n, a
<1>2. ASSUME NEW k \in 0 .. (n - 1) PROVE a[(m + n) - k] = s[n - k]
  <2>1. (m + n) - k \in 1 .. m + n /\ ~((m + n) - k <= m) /\ (m + n) - k - m = n - k
    BY <1>1
  <2> QED
    BY <1>1, <2>1
<1>3. ASSUME NEW k \in n .. (m + n - 1) PROVE a[(m + n) - k] = w[m - (k - n)]
  <2>1. (m + n) - k \in 1 .. m + n /\ (m + n) - k <= m /\ (m + n) - k = m - (k - n)
    BY <1>1
  <2> QED
    BY <1>1, <2>1
<1> QED
  BY <1>1, <1>2, <1>3 DEF At, m, n, a

LEMMA LastFromEnd ==
    ASSUME NEW S, NEW s \in Seq(S), NEW n \in Nat
    PROVE  /\ LastOf(s, n) \in Seq(S) /\ Len(s) \in Nat
           /\ Len(LastOf(s, n)) = IF Len(s) > n THEN n ELSE Len(s)
           /\ EndsWith(s, LastOf(s, n))
<1> DEFINE l == Len(s)
           m == IF l > n THEN l - n + 1 ELSE 1
           a == SubSeq(s, m, l)
<1>1. l \in Nat /\ m \in Nat /\ 1 <= m /\ m <= l + 1 /\ l - m + 1 = (IF l > n THEN n ELSE l)
  OBVIOUS
<1>2. \A i \in 1 .. l : s[i] \in S
  BY ElementOfSeq
<1> HIDE DEF l, m
<1>3. \A i \in m .. l : s[i] \in S
  BY <1>1, <1>2
<1>4. /\ a \in Seq(S) /\ Len(a) = IF m <= l THEN l - m + 1 ELSE 0
      /\ \A i \in 1 .. (l - m + 1) : a[i] = s[m + i - 1]
  BY <1>1, <1>3, SubSeqProperties
<1>5. Len(a) = l - m + 1
  BY <1>1, <1>4
<1> HIDE DEF a
<1>6. ASSUME NEW k \in 0 .. (l - m) PROVE a[(l - m + 1) - k] = s[l - k]
  <2>1. (l - m + 1) - k \in 1 .. (l - m + 1) /\ m + ((l - m + 1) - k) - 1 = l - k
    BY <1>1
  <2> QED
    BY <1>4, <2>1
<1>7. Len(a) <= l /\ Len(a) - 1 = l - m
  BY <1>1, <1>5
<1>8. EndsWith(s, a)
  BY <1>5, <1>6, <1>7 DEF EndsWith, At, l
<1>9. a = LastOf(s, n)
  BY DEF a, l, m, LastOf
<1> QED
  BY <1>1, <1>4, <1>5, <1>8, <1>9 DEF l

LEMMA EndsWithProperties ==
    ASSUME NEW S, NEW w \in Seq(S), NEW v \in Seq(S), EndsWith(w, v)
    PROVE  /\ \A u \in Seq(S) : EndsWith(v, u) => EndsWith(w, u)
           /\ \A s \in Seq(S) : EndsWith(w \o s, v \o s)
<1>1. Len(w) \in Nat /\ Len(v) \in Nat /\ Len(v) <= Len(w)
  BY LenProperties DEF EndsWith
<1>2. ASSUME NEW u \in Seq(S), EndsWith(v, u) PROVE EndsWith(w, u)
  <2>1. Len(u) \in Nat /\ Len(u) <= Len(v)
    BY <1>2, LenProperties DEF EndsWith
  <2>2. \A k \in 0 .. (Len(u) - 1) : k \in 0 .. (Len(v) - 1)
    BY <1>1, <2>1
  <2>3. Len(u) <= Len(w)
    BY <1>1, <2>1
  <2> QED
    BY <1>2, <2>2, <2>3 DEF EndsWith
<1>3. ASSUME NEW s \in Seq(S) PROVE EndsWith(w \o s, v \o s)
  <2> DEFINE n == Len(s)
             a == w \o s
             b == v \o s
  <2>1. /\ n \in Nat /\ Len(a) = Len(w) + n
        /\ \A k \in 0 .. (n - 1) : At(a, k) = At(s, k)
        /\ \A k \in n .. (Len(w) + n - 1) : At(a, k) = At(w, k - n)
    BY ConcatFromEnd
  <2>2. /\ Len(b) = Len(v) + n
        /\ \A k \in 0 .. (n - 1) : At(b, k) = At(s, k)
        /\ \A k \in n .. (Len(v) + n - 1) : At(b, k) = At(v, k - n)
    BY ConcatFromEnd
  <2> HIDE DEF n, a, b
  <2>3. ASSUME NEW k \in 0 .. (Len(b) - 1) PROVE At(b, k) = At(a, k)
    <3>1. CASE k < n
      <4>1. k \in 0 .. (n - 1)
        BY <2>1, <2>2, <3>1, <1>1
      <4> QED
        BY <2>1, <2>2, <4>1
    <3>2. CASE ~(k < n)
      <4>1. k \in n .. (Len(v) + n - 1) /\ k \in n .. (Len(w) + n - 1)
            /\ k - n \in 0 .. (Len(v) - 1)
        BY <1>1, <2>1, <2>2, <3>2
      <4>2. At(v, k - n) = At(w, k - n)
        BY <4>1 DEF EndsWith
      <4> QED
        BY <2>1, <2>2, <4>1, <4>2
    <3> QED
      BY <3>1, <3>2
  <2>4. Len(b) <= Len(a)
    BY <1>1, <2>1, <2>2
  <2>5. EndsWith(a, b)
    BY <2>3, <2>4 DEF EndsWith
  <2> QED
    BY <2>5 DEF a, b
<1> QED
  BY <1>2, <1>3

\* The trigger, and the code and the trigger, seen from the end.
TriggerAt(s, d) == At(s, d + 2) = "8" /\ At(s, d + 1) = "0" /\ At(s, d) = "0"

LEMMA TriggerFromEnd ==
    ASSUME NEW S, NEW s \in Seq(S), NEW i \in 3 .. Len(s)
    PROVE  SubSeq(s, i - 2, i) = Trigger <=> TriggerAt(s, Len(s) - i)
<1> DEFINE l == Len(s)
           a == SubSeq(s, i - 2, i)
<1>1. l \in Nat /\ i \in 3 .. l /\ \A k \in 1 .. l : s[k] \in S
  BY LenProperties, ElementOfSeq
<1>2. /\ a \in Seq(S) /\ Len(a) = 3
      /\ a[1] = s[i - 2] /\ a[2] = s[i - 1] /\ a[3] = s[i]
  <2>1. i - 2 \in Int /\ i \in Int /\ i - 2 <= i
    BY <1>1
  <2>2. \A k \in (i - 2) .. i : s[k] \in S
    BY <1>1
  <2>3. /\ a \in Seq(S) /\ Len(a) = IF i - 2 <= i THEN i - (i - 2) + 1 ELSE 0
        /\ \A k \in 1 .. (i - (i - 2) + 1) : a[k] = s[(i - 2) + k - 1]
    BY <2>1, <2>2, SubSeqProperties
  <2> HIDE DEF a, l
  <2>4. i - (i - 2) + 1 = 3 /\ (i - 2) + 1 - 1 = i - 2 /\ (i - 2) + 2 - 1 = i - 1
        /\ (i - 2) + 3 - 1 = i /\ 1 \in 1 .. 3 /\ 2 \in 1 .. 3 /\ 3 \in 1 .. 3
    BY <1>1
  <2> QED
    BY <2>1, <2>3, <2>4
<1> HIDE DEF a
<1>3. a = Trigger <=> a[1] = "8" /\ a[2] = "0" /\ a[3] = "0"
  BY <1>2 DEF Trigger
<1> HIDE DEF l
<1>4. l - (l - i + 2) = i - 2 /\ l - (l - i + 1) = i - 1 /\ l - (l - i) = i
  BY <1>1
<1> QED
  BY <1>2, <1>3, <1>4 DEF a, l, TriggerAt, At

LEMMA CompletesFromEnd ==
    ASSUME NEW s \in Seq(Strokes)
    PROVE  Completes(s) <=>
             \E d \in 0 .. (Len(s) - Lead - 3) :
                (\A k \in d .. (d + Lead + 2) : At(s, k) \in Digits) /\ TriggerAt(s, d)
<1> DEFINE l == Len(s)
<1>1. l \in Nat /\ Lead \in Nat
  BY LenProperties, BoundAssumption
<1>2. \A i \in (Lead + 3) .. l : i \in 3 .. Len(s)
  BY <1>1
<1>3. \A i \in (Lead + 3) .. l : SubSeq(s, i - 2, i) = Trigger <=> TriggerAt(s, l - i)
  BY <1>2, TriggerFromEnd
<1> HIDE DEF l
<1>4. ASSUME NEW i \in (Lead + 3) .. l
      PROVE  /\ l - i \in 0 .. (l - Lead - 3)
             /\ (\A k \in (i - Lead - 2) .. i : s[k] \in Digits)
                  <=> (\A k \in (l - i) .. ((l - i) + Lead + 2) : s[l - k] \in Digits)
  <2>1. \A k \in (i - Lead - 2) .. i : l - k \in (l - i) .. ((l - i) + Lead + 2) /\ l - (l - k) = k
    BY <1>1
  <2>2. \A k \in (l - i) .. ((l - i) + Lead + 2) : l - k \in (i - Lead - 2) .. i
    BY <1>1
  <2>3. l - i \in 0 .. (l - Lead - 3)
    BY <1>1
  <2> QED
    BY <2>1, <2>2, <2>3
<1>5. ASSUME NEW d \in 0 .. (l - Lead - 3)
      PROVE  l - d \in (Lead + 3) .. l /\ l - (l - d) = d
  BY <1>1
<1> DEFINE Digital(d) == \A k \in d .. (d + Lead + 2) : s[l - k] \in Digits
<1>6. (\E i \in (Lead + 3) .. l : /\ \A k \in (i - Lead - 2) .. i : s[k] \in Digits
                                  /\ SubSeq(s, i - 2, i) = Trigger)
        <=> \E d \in 0 .. (l - Lead - 3) : Digital(d) /\ TriggerAt(s, d)
  <2>1. ASSUME NEW i \in (Lead + 3) .. l, \A k \in (i - Lead - 2) .. i : s[k] \in Digits,
               SubSeq(s, i - 2, i) = Trigger
        PROVE  \E d \in 0 .. (l - Lead - 3) : Digital(d) /\ TriggerAt(s, d)
    <3>1. l - i \in 0 .. (l - Lead - 3) /\ Digital(l - i) /\ TriggerAt(s, l - i)
      BY <1>3, <1>4, <2>1
    <3> QED
      BY <3>1
  <2>2. ASSUME NEW d \in 0 .. (l - Lead - 3), Digital(d), TriggerAt(s, d)
        PROVE  \E i \in (Lead + 3) .. l : /\ \A k \in (i - Lead - 2) .. i : s[k] \in Digits
                                          /\ SubSeq(s, i - 2, i) = Trigger
    <3>1. l - d \in (Lead + 3) .. l /\ l - (l - d) = d
      BY <1>5
    <3>2. Digital(l - (l - d)) /\ TriggerAt(s, l - (l - d))
      BY <2>2, <3>1
    <3>3. (\A k \in ((l - d) - Lead - 2) .. (l - d) : s[k] \in Digits)
      BY <1>4, <3>1, <3>2
    <3>4. SubSeq(s, (l - d) - 2, l - d) = Trigger
      BY <1>3, <3>1, <3>2
    <3> QED
      BY <3>1, <3>3, <3>4
  <2> QED
    BY <2>1, <2>2
<1> QED
  BY <1>6 DEF Completes, At, l

\* A word is complete if its end is.
LEMMA CompleteEnd ==
    ASSUME NEW w \in Seq(Strokes), NEW v \in Seq(Strokes), EndsWith(w, v), Completes(v)
    PROVE  Completes(w)
<1>1. Len(w) \in Nat /\ Len(v) \in Nat /\ Len(v) <= Len(w) /\ Lead \in Nat
  BY LenProperties, BoundAssumption DEF EndsWith
<1>2. PICK d \in 0 .. (Len(v) - Lead - 3) :
          (\A k \in d .. (d + Lead + 2) : At(v, k) \in Digits) /\ TriggerAt(v, d)
  BY CompletesFromEnd
<1>3. d \in 0 .. (Len(w) - Lead - 3) /\ d + 2 \in 0 .. (Len(v) - 1)
      /\ d + 1 \in 0 .. (Len(v) - 1) /\ d \in 0 .. (Len(v) - 1)
  BY <1>1
<1>4. \A k \in d .. (d + Lead + 2) : k \in 0 .. (Len(v) - 1)
  BY <1>1
<1>5. (\A k \in d .. (d + Lead + 2) : At(w, k) \in Digits) /\ TriggerAt(w, d)
  BY <1>2, <1>3, <1>4 DEF EndsWith, TriggerAt
<1> QED
  BY <1>3, <1>5, CompletesFromEnd

\* One stroke: if it is not blocked, the history covers the longer word, and the stroke
\* completes nothing.
LEMMA StrokeIsCovered ==
    ASSUME NEW h \in Seq(Digits), NEW w \in Seq(Strokes), NEW c \in Strokes,
           Covers(h, w), NextHistory(h, c) # Blocked
    PROVE  /\ NextHistory(h, c) \in Seq(Digits)
           /\ Covers(NextHistory(h, c), Append(w, c))
           /\ Completes(Append(w, c)) => Completes(w)
<1> DEFINE x == Append(w, c)
           g == Append(h, c)
           u == NextHistory(h, c)
<1>1. /\ x \in Seq(Strokes) /\ Len(w) \in Nat /\ Len(x) = Len(w) + 1 /\ At(x, 0) = c
      /\ \A k \in 1 .. Len(w) : At(x, k) = At(w, k - 1)
  BY AppendFromEnd
<1>2. Lead \in Nat /\ Lead >= 1
  BY BoundAssumption
<1>3. h # Blocked
  <2>1. \A i \in DOMAIN h : h[i] \in Digits
    OBVIOUS
  <2>2. 1 \in DOMAIN Blocked /\ Blocked[1] \notin Digits
    BY DEF Blocked, Digits
  <2> QED
    BY <2>1, <2>2
<1> HIDE DEF x
\* What completes the longer word completes the word, or ends with this stroke.
<1>4. ASSUME Completes(x), ~Completes(w)
      PROVE  (\A k \in 0 .. (Lead + 2) : k < Len(x) /\ At(x, k) \in Digits) /\ TriggerAt(x, 0)
  <2>1. PICK d \in 0 .. (Len(x) - Lead - 3) :
            (\A k \in d .. (d + Lead + 2) : At(x, k) \in Digits) /\ TriggerAt(x, d)
    BY <1>1, <1>4, CompletesFromEnd
  <2>2. CASE d # 0
    <3>1. d - 1 \in 0 .. (Len(w) - Lead - 3)
      BY <1>1, <1>2, <2>2
    <3>2. \A k \in (d - 1) .. ((d - 1) + Lead + 2) :
              k + 1 \in d .. (d + Lead + 2) /\ k + 1 \in 1 .. Len(w) /\ (k + 1) - 1 = k
      BY <1>1, <1>2, <3>1
    <3>3. \A k \in (d - 1) .. ((d - 1) + Lead + 2) : At(w, k) = At(x, k + 1)
      BY <1>1, <3>2
    <3>4. \A k \in (d - 1) .. ((d - 1) + Lead + 2) : At(w, k) \in Digits
      BY <2>1, <3>2, <3>3
    <3>5. TriggerAt(w, d - 1)
      <4>1. /\ (d - 1) + 2 \in (d - 1) .. ((d - 1) + Lead + 2) /\ ((d - 1) + 2) + 1 = d + 2
            /\ (d - 1) + 1 \in (d - 1) .. ((d - 1) + Lead + 2) /\ ((d - 1) + 1) + 1 = d + 1
            /\ d - 1 \in (d - 1) .. ((d - 1) + Lead + 2) /\ (d - 1) + 1 = d
        BY <1>2, <3>1
      <4> QED
        BY <2>1, <3>3, <4>1 DEF TriggerAt
    <3>6. Completes(w)
      BY <3>1, <3>4, <3>5, CompletesFromEnd
    <3> QED
      BY <1>4, <3>6
  <2>3. CASE d = 0
    <3>1. \A k \in 0 .. (Lead + 2) : k \in d .. (d + Lead + 2) /\ k < Len(x)
      BY <1>1, <1>2, <2>3
    <3> QED
      BY <2>1, <2>3, <3>1
  <2> QED
    BY <2>2, <2>3
<1>5. CASE c \notin Digits
  <2>1. u = <<>>
    BY <1>3, <1>5 DEF NextHistory
  <2>2. Covers(u, x)
    <3>1. ASSUME NEW k \in 0 .. (Lead + 1), \A j \in 0 .. k : At(x, j) \in Digits
          PROVE  FALSE
      <4>1. 0 \in 0 .. k
        BY <1>2
      <4> QED
        BY <1>1, <1>5, <3>1, <4>1
    <3> QED
      BY <3>1 DEF Covers
  <2>3. ~(Completes(x) /\ ~Completes(w))
    <3>1. 0 \in 0 .. (Lead + 2)
      BY <1>2
    <3> QED
      BY <1>1, <1>4, <1>5, <3>1
  <2>4. u \in Seq(Digits)
    BY <2>1
  <2> QED
    BY <2>2, <2>3, <2>4 DEF x
<1>6. CASE c \in Digits
  <2>1. /\ g \in Seq(Digits) /\ Len(h) \in Nat /\ Len(g) = Len(h) + 1 /\ At(g, 0) = c
        /\ \A k \in 1 .. Len(h) : At(g, k) = At(h, k - 1)
    BY <1>6, AppendFromEnd
  <2>2. u = LastOf(g, Lead + 2) /\ ~(Len(h) >= Lead + 2 /\ LastOf(g, 3) = Trigger)
    BY <1>3, <1>6 DEF NextHistory
  <2> HIDE DEF g
  <2>3. /\ u \in Seq(Digits) /\ Len(u) = IF Len(g) > Lead + 2 THEN Lead + 2 ELSE Len(g)
        /\ EndsWith(g, u)
    <3>1. Lead + 2 \in Nat
      BY <1>2
    <3> QED
      BY <2>1, <2>2, <3>1, LastFromEnd
  <2> HIDE DEF u
  \* As far as the longer word ends with digits, so does the longer history.
  <2>4. ASSUME NEW k \in 0 .. (Lead + 2), k < Len(x), \A j \in 0 .. k : At(x, j) \in Digits
        PROVE  k < Len(g) /\ At(g, k) = At(x, k)
    <3>1. CASE k = 0
      BY <1>1, <2>1, <3>1
    <3>2. CASE k # 0
      <4>1. /\ k - 1 \in 0 .. (Lead + 1) /\ k - 1 < Len(w) /\ k \in 1 .. Len(w)
            /\ \A j \in 0 .. (k - 1) : j + 1 \in 0 .. k /\ j + 1 \in 1 .. Len(w) /\ (j + 1) - 1 = j
        BY <1>1, <1>2, <2>4, <3>2
      <4>2. \A j \in 0 .. (k - 1) : At(w, j) \in Digits
        <5>1. \A j \in 0 .. (k - 1) : At(w, j) = At(x, j + 1)
          BY <1>1, <4>1
        <5> QED
          BY <2>4, <4>1, <5>1
      <4>3. k - 1 < Len(h) /\ At(h, k - 1) = At(w, k - 1)
        BY <4>1, <4>2 DEF Covers
      <4>4. k \in 1 .. Len(h) /\ k < Len(g)
        BY <2>1, <3>2, <4>3
      <4> QED
        BY <1>1, <2>1, <4>1, <4>3, <4>4
    <3> QED
      BY <3>1, <3>2
  <2>5. Covers(u, x)
    <3>1. ASSUME NEW k \in 0 .. (Lead + 1), k < Len(x), \A j \in 0 .. k : At(x, j) \in Digits
          PROVE  k < Len(u) /\ At(u, k) = At(x, k)
      <4>1. k \in 0 .. (Lead + 2)
        BY <1>2
      <4>2. k < Len(g) /\ At(g, k) = At(x, k)
        BY <2>4, <3>1, <4>1
      <4>3. k < Len(u) /\ k \in 0 .. (Len(u) - 1)
        BY <1>2, <2>1, <2>3, <4>2
      <4> QED
        BY <2>3, <4>2, <4>3 DEF EndsWith
    <3> QED
      BY <3>1 DEF Covers
  <2>6. ~(Completes(x) /\ ~Completes(w))
    <3> SUFFICES ASSUME Completes(x), ~Completes(w) PROVE FALSE
      OBVIOUS
    <3>1. (\A k \in 0 .. (Lead + 2) : k < Len(x) /\ At(x, k) \in Digits) /\ TriggerAt(x, 0)
      BY <1>4
    <3>2. \A k \in 0 .. (Lead + 2) : k < Len(g) /\ At(g, k) = At(x, k)
      <4>1. \A k \in 0 .. (Lead + 2) : \A j \in 0 .. k : j \in 0 .. (Lead + 2)
        BY <1>2
      <4> QED
        BY <2>4, <3>1, <4>1
    <3>3. 0 + 2 = 2 /\ 0 + 1 = 1 /\ 0 \in 0 .. (Lead + 2) /\ 1 \in 0 .. (Lead + 2)
          /\ 2 \in 0 .. (Lead + 2) /\ Lead + 2 \in 0 .. (Lead + 2)
      BY <1>2
    <3>4. TriggerAt(g, 0)
      BY <3>1, <3>2, <3>3 DEF TriggerAt
    <3>5. Len(h) >= Lead + 2 /\ Len(g) \in Nat /\ Len(g) \in 3 .. Len(g) /\ Len(g) > 3
      BY <1>2, <2>1, <3>2, <3>3
    <3>6. SubSeq(g, Len(g) - 2, Len(g)) = Trigger
      <4>1. Len(g) - Len(g) = 0
        BY <3>5
      <4> QED
        BY <2>1, <3>4, <3>5, <4>1, TriggerFromEnd
    <3>7. LastOf(g, 3) = SubSeq(g, Len(g) - 2, Len(g))
      <4>1. Len(g) - 3 + 1 = Len(g) - 2
        BY <3>5
      <4> QED
        BY <3>5, <4>1 DEF LastOf
    <3> QED
      BY <2>2, <3>5, <3>6, <3>7
  <2> QED
    BY <2>3, <2>5, <2>6 DEF x, u
<1> QED
  BY <1>5, <1>6

\* A whole frame: if the guard lets it pass, its history covers the word with the frame,
\* and the frame completes nothing.
LEMMA FrameIsCovered ==
    ASSUME NEW h \in Seq(Digits), NEW s \in Seq(Strokes), Histories(h, s)[Len(s)] # Blocked
    PROVE  /\ Histories(h, s)[Len(s)] \in Seq(Digits)
           /\ \A w \in Seq(Strokes) :
                 Covers(h, w) /\ ~Completes(w)
                    => Covers(Histories(h, s)[Len(s)], w \o s) /\ ~Completes(w \o s)
<1> DEFINE f == Histories(h, s)
           n == Len(s)
<1>1. n \in Nat /\ \A i \in 1 .. n : s[i] \in Strokes
  BY LenProperties, ElementOfSeq
<1>2. f[0] = h /\ \A i \in 1 .. n : f[i] = NextHistory(f[i - 1], s[i])
  BY <1>1, HistoriesStep
<1> HIDE DEF f
<1>3. ASSUME NEW w \in Seq(Strokes), Covers(h, w), ~Completes(w)
      PROVE  f[n] \in Seq(Digits) /\ Covers(f[n], w \o s) /\ ~Completes(w \o s)
  <2> DEFINE v(i)     == w \o SubSeq(s, 1, i)
             Bad      == {i \in 0 .. n : f[i] # Blocked /\ ~(/\ f[i] \in Seq(Digits)
                                                             /\ Covers(f[i], v(i))
                                                             /\ ~Completes(v(i)))}
  <2>1. v(0) = w /\ v(n) = w \o s
    <3>1. SubSeq(s, 1, 0) = <<>> /\ SubSeq(s, 1, n) = s
      OBVIOUS
    <3> QED
      BY <3>1
  <2>2. ASSUME NEW i \in 1 .. n
        PROVE  v(i - 1) \in Seq(Strokes) /\ v(i) = Append(v(i - 1), s[i])
    <3>1. SubSeq(s, 1, i - 1) \in Seq(Strokes)
          /\ SubSeq(s, 1, i) = Append(SubSeq(s, 1, i - 1), s[i])
      OBVIOUS
    <3> DEFINE p == SubSeq(s, 1, i - 1)
    <3> HIDE DEF p
    <3>2. p \in Seq(Strokes) => w \o Append(p, s[i]) = Append(w \o p, s[i]) /\ w \o p \in Seq(Strokes)
      <4>1. s[i] \in Strokes
        BY <1>1
      <4> QED
        BY <4>1
    <3> QED
      BY <3>1, <3>2 DEF p
  <2> HIDE DEF v
  <2>3. Bad = {}
    <3> SUFFICES ASSUME Bad # {} PROVE FALSE
      OBVIOUS
    <3>1. Bad \subseteq Nat
      BY <1>1
    <3>2. PICK m \in Bad : \A k \in Bad : m <= k
      <4> HIDE DEF Bad
      <4> QED
        BY <3>1, HasMinimum
    <3>3. CASE m = 0
      BY <1>2, <1>3, <2>1, <3>2, <3>3
    <3>4. CASE m # 0
      <4>1. m \in 1 .. n /\ m - 1 \in 0 .. n /\ ~(m <= m - 1)
        BY <1>1, <3>2, <3>4
      <4>2. m - 1 \notin Bad
        <5> HIDE DEF Bad
        <5> QED
          BY <3>2, <4>1
      <4>3. f[m] = NextHistory(f[m - 1], s[m]) /\ f[m] # Blocked /\ s[m] \in Strokes
        BY <1>1, <1>2, <3>2, <4>1
      <4>4. f[m - 1] # Blocked
        BY <4>3 DEF NextHistory
      <4>5. f[m - 1] \in Seq(Digits) /\ Covers(f[m - 1], v(m - 1)) /\ ~Completes(v(m - 1))
        BY <4>1, <4>2, <4>4
      <4>6. v(m - 1) \in Seq(Strokes) /\ v(m) = Append(v(m - 1), s[m])
        BY <2>2, <4>1
      <4>7. /\ NextHistory(f[m - 1], s[m]) \in Seq(Digits)
            /\ Covers(NextHistory(f[m - 1], s[m]), Append(v(m - 1), s[m]))
            /\ Completes(Append(v(m - 1), s[m])) => Completes(v(m - 1))
        BY <4>3, <4>5, <4>6, StrokeIsCovered
      <4>8. f[m] \in Seq(Digits) /\ Covers(f[m], v(m)) /\ ~Completes(v(m))
        BY <4>3, <4>5, <4>6, <4>7
      <4> QED
        BY <3>2, <4>8
    <3> QED
      BY <3>3, <3>4
  <2>4. n \in 0 .. n /\ f[n] # Blocked
    BY <1>1 DEF f
  <2> QED
    BY <2>1, <2>3, <2>4
<1>4. <<>> \in Seq(Strokes) /\ Covers(h, <<>>) /\ ~Completes(<<>>)
  <2>1. <<>> \in Seq(Strokes) /\ Len(<<>>) = 0 /\ Lead \in Nat
    BY BoundAssumption
  <2>2. \A k \in 0 .. (Lead + 1) : ~(k < Len(<<>>))
    BY <2>1
  <2>3. (Lead + 3) .. Len(<<>>) = {}
    BY <2>1
  <2> QED
    BY <2>1, <2>2, <2>3 DEF Covers, Completes
<1> QED
  BY <1>3, <1>4 DEF f
-----------------------------------------------------------------------------
(* What the guard knows of a partition, and what the panel will know.  W[n]  *)
(* is the partition's word of strokes once the first n frames inspected are  *)
(* sent; W[0] what the panel has.  As long as frames go out in the order of  *)
(* inspection the guard's history covers the last word, and no word completes *)
(* a code and the trigger.                                                   *)

Waiting == {tx[i] : i \in DOMAIN tx} \cup {raw[i] : i \in DOMAIN raw}

\* Frames are numbered in the order of inspection.
Numbered ==
    /\ \A i, j \in DOMAIN tx : i < j => tx[i].n < tx[j].n
    /\ \A i, j \in DOMAIN raw : i < j => raw[i].n < raw[j].n
    /\ \A i \in DOMAIN tx, j \in DOMAIN raw : tx[i].n # raw[j].n
    /\ \A x \in Waiting : x.n \in 1 .. made
    /\ thread.at = "locked" => /\ thread.item.n = made /\ made # 0
                               /\ \A x \in Waiting : x.n # made

\* What the locked thread is to commit is a history that covers its frame, if the one
\* it started from, perhaps of the session before, covers what was before the frame.
After(h, item) == Histories(h, item.strokes)[Len(item.strokes)]
GuardTyped ==
    /\ \A p \in Partitions : guard[p] \in Seq(Digits)
    /\ Locked /\ Keypad(thread.item) => thread.update \in Seq(Digits)
    /\ thread.at = "locked" /\ Keypad(thread.item) =>
          \E h \in Seq(Digits) : thread.update = After(h, thread.item)

\* The guard's history when the lock is free again.
Known(p) == IF thread.at = "put" /\ thread.item.part = p THEN thread.update ELSE guard[p]

\* The words of partition p.
Tells(W, p) ==
    \A n \in 1 .. made :
        \/ \E x \in Waiting : x.part = p /\ x.n = n /\ W[n] = W[n - 1] \o x.strokes
        \/ W[n] = W[n - 1] /\ \A x \in Waiting : x.n = n => x.part # p
Told(W, p) ==
    /\ W \in [Nat -> Seq(Strokes)] /\ Tells(W, p)
    /\ EndsWith(W[0], typed[p])
    /\ \A n \in 0 .. made : ~Completes(W[n])
    /\ Covers(Known(p), W[made])
    /\ thread.at = "locked" /\ thread.item.part = p =>
          \E h \in Seq(Digits) : thread.update = After(h, thread.item) /\ Covers(h, W[made])
Followed == phase = "up" => \A p \in Partitions \ disturbed : \E W : Told(W, p)

Guarded == Numbered /\ GuardTyped /\ Followed /\ InterlockHolds

LEMMA WaitingProperties ==
    ASSUME Apart, Numbered
    PROVE  /\ Waiting \subseteq Items /\ made \in Nat
           /\ \A x, y \in Waiting : x.n = y.n => x = y
           /\ \A x \in Waiting : x.strokes \in Seq(Strokes) /\ x.n \in 1 .. made
<1>1. tx \in Seq(Items) /\ raw \in Seq(Items) /\ made \in Nat
  BY DEF Apart, TypeOK
<1>2. /\ \A i \in DOMAIN tx : tx[i] \in Items
      /\ \A i \in DOMAIN raw : raw[i] \in Items
      /\ DOMAIN tx \subseteq Int /\ DOMAIN raw \subseteq Int
  BY <1>1, LenProperties
<1>3. Waiting \subseteq Items
  BY <1>2 DEF Waiting
<1>4. \A i, j \in DOMAIN tx : tx[i].n = tx[j].n => i = j
  BY <1>2 DEF Numbered, Items
<1>5. \A i, j \in DOMAIN raw : raw[i].n = raw[j].n => i = j
  BY <1>2 DEF Numbered, Items
<1>6. \A x, y \in Waiting : x.n = y.n => x = y
  BY <1>4, <1>5 DEF Numbered, Waiting
<1>7. \A x \in Waiting : x.strokes \in Seq(Strokes) /\ x.n \in 1 .. made
  BY <1>3 DEF Numbered, Items
<1> QED
  BY <1>1, <1>3, <1>6, <1>7

LEMMA EmptyWord ==
    /\ <<>> \in Seq(Strokes) /\ <<>> \in Seq(Digits) /\ ~Completes(<<>>)
    /\ \A h : Covers(h, <<>>)
    /\ EndsWith(<<>>, <<>>)
<1>1. <<>> \in Seq(Strokes) /\ <<>> \in Seq(Digits) /\ Len(<<>>) = 0 /\ Lead \in Nat
  BY BoundAssumption
<1>2. \A k \in 0 .. (Lead + 1) : ~(k < Len(<<>>))
  BY <1>1
<1>3. (Lead + 3) .. Len(<<>>) = {} /\ 0 .. (Len(<<>>) - 1) = {}
  BY <1>1
<1> QED
  BY <1>1, <1>2, <1>3 DEF Covers, Completes, EndsWith

\* A step that leaves the words of a partition and what the guard knows of it.
LEMMA ToldStays ==
    ASSUME NEW W, NEW p, Told(W, p), UNCHANGED <<made, typed>>, Waiting' = Waiting,
           Known(p)' = Known(p), thread' = thread \/ thread'.at # "locked"
    PROVE  Told(W, p)'
<1>1. /\ W \in [Nat -> Seq(Strokes)] /\ Tells(W, p) /\ EndsWith(W[0], typed[p])
      /\ \A n \in 0 .. made : ~Completes(W[n])
      /\ Covers(Known(p), W[made])
      /\ thread.at = "locked" /\ thread.item.part = p =>
            \E h \in Seq(Digits) : thread.update = After(h, thread.item) /\ Covers(h, W[made])
  BY DEF Told
<1>2. Tells(W, p)'
  BY <1>1 DEF Tells
<1>3. Covers(Known(p), W[made])'
  BY <1>1 DEF Covers
<1>4. (thread.at = "locked" /\ thread.item.part = p =>
          \E h \in Seq(Digits) : thread.update = After(h, thread.item) /\ Covers(h, W[made]))'
  BY <1>1
<1>5. EndsWith(W[0], typed[p])' /\ (\A n \in 0 .. made : ~Completes(W[n]))'
  BY <1>1
<1> QED
  BY <1>1, <1>2, <1>3, <1>4, <1>5 DEF Told

\* What makes the words of a partition those of the next state.
LEMMA ToldNext ==
    ASSUME NEW X, NEW p, X \in [Nat -> Seq(Strokes)], Tells(X, p)',
           EndsWith(X[0], typed'[p]), \A n \in 0 .. made' : ~Completes(X[n]),
           Covers(Known(p)', X[made']),
           thread'.at = "locked" /\ thread'.item.part = p =>
              \E h \in Seq(Digits) : thread'.update = After(h, thread'.item)
                                     /\ Covers(h, X[made'])
    PROVE  Told(X, p)'
<1>1. EndsWith(X[0], typed[p])' /\ (\A n \in 0 .. made : ~Completes(X[n]))'
  OBVIOUS
<1>2. Covers(Known(p), X[made])'
  BY DEF Covers
<1>3. (thread.at = "locked" /\ thread.item.part = p =>
          \E h \in Seq(Digits) : thread.update = After(h, thread.item) /\ Covers(h, X[made]))'
  OBVIOUS
<1> QED
  BY <1>1, <1>2, <1>3 DEF Told

\* The words W, but that the one after frame m is V.
Words == [Nat -> Seq(Strokes)]
Exchange(X, W, m, V) == X[m] = V /\ \A n \in Nat : n # m => X[n] = W[n]

LEMMA Exchanged ==
    \A W \in Words, m \in Nat, V \in Seq(Strokes) : \E X \in Words : Exchange(X, W, m, V)
<1> TAKE W \in Words, m \in Nat, V \in Seq(Strokes)
<1> DEFINE X == [W EXCEPT ![m] = V]
<1>1. X \in Words /\ Exchange(X, W, m, V)
  BY DEF Words, Exchange
<1> HIDE DEF X
<1> QED
  BY <1>1

LEMMA InitGuarded == Init => Guarded
<1> SUFFICES ASSUME Init PROVE Guarded
  OBVIOUS
<1>1. /\ phase = "down" /\ thread.at = "idle" /\ tx = <<>> /\ raw = <<>> /\ programmed = {}
      /\ guard = [p \in Partitions |-> <<>>]
  BY DEF Init, Idle
<1>2. DOMAIN tx = {} /\ DOMAIN raw = {}
  BY <1>1
<1> QED
  BY <1>1, <1>2, EmptyWord
     DEF Guarded, Numbered, GuardTyped, Followed, InterlockHolds, Waiting, Locked

\* Another frame is inspected, and takes its place among the waiting or has not yet.
LEMMA OneMoreWord ==
    ASSUME Apart, Numbered, NEW W, NEW p, W \in [Nat -> Seq(Strokes)], Tells(W, p),
           made' = made + 1,
           NEW X, \A n \in 0 .. made : X[n] = W[n],
           \/ Waiting' = Waiting /\ X[made + 1] = W[made]
           \/ \E x \in Items : /\ Waiting' = Waiting \cup {x} /\ x.n = made + 1
                               /\ IF x.part = p THEN X[made + 1] = W[made] \o x.strokes
                                                ELSE X[made + 1] = W[made]
    PROVE  Tells(X, p)'
<1>1. made \in Nat /\ \A x \in Waiting : x.n \in 1 .. made
  BY WaitingProperties
<1>2. \A n \in 0 .. made : X[n] = W[n]
  OBVIOUS
<1>3. ASSUME NEW n \in 1 .. made
      PROVE  \/ \E x \in Waiting' : x.part = p /\ x.n = n /\ X[n] = X[n - 1] \o x.strokes
             \/ X[n] = X[n - 1] /\ \A x \in Waiting' : x.n = n => x.part # p
  <2>1. X[n] = W[n] /\ X[n - 1] = W[n - 1] /\ n # made + 1
    <3>1. n \in 0 .. made /\ n - 1 \in 0 .. made
      BY <1>1
    <3> QED
      BY <1>1, <1>2, <3>1
  <2>2. Waiting \subseteq Waiting' /\ \A x \in Waiting' : x.n = n => x \in Waiting
    BY <2>1
  <2>3. CASE \E x \in Waiting : x.part = p /\ x.n = n /\ W[n] = W[n - 1] \o x.strokes
    BY <2>1, <2>2, <2>3
  <2>4. CASE W[n] = W[n - 1] /\ \A x \in Waiting : x.n = n => x.part # p
    BY <2>1, <2>2, <2>4
  <2> QED
    BY <2>3, <2>4 DEF Tells
<1>4. \/ \E x \in Waiting' : x.part = p /\ x.n = made + 1 /\ X[made + 1] = X[made] \o x.strokes
      \/ X[made + 1] = X[made] /\ \A x \in Waiting' : x.n = made + 1 => x.part # p
  <2>1. X[made] = W[made] /\ \A x \in Waiting : x.n # made + 1
    BY <1>1, <1>2
  <2>2. CASE Waiting' = Waiting /\ X[made + 1] = W[made]
    BY <2>1, <2>2
  <2>3. ASSUME NEW y \in Items, Waiting' = Waiting \cup {y}, y.n = made + 1,
               IF y.part = p THEN X[made + 1] = W[made] \o y.strokes
                               ELSE X[made + 1] = W[made]
        PROVE  \/ \E x \in Waiting' : x.part = p /\ x.n = made + 1
                                      /\ X[made + 1] = X[made] \o x.strokes
               \/ X[made + 1] = X[made] /\ \A x \in Waiting' : x.n = made + 1 => x.part # p
    <3>1. CASE y.part = p
      BY <2>1, <2>3, <3>1
    <3>2. CASE y.part # p
      BY <2>1, <2>3, <3>2
    <3> QED
      BY <3>1, <3>2
  <2> QED
    BY <2>2, <2>3
<1>5. \A n \in 1 .. (made + 1) : n \in 1 .. made \/ n = made + 1
  BY <1>1
<1>6. (made + 1) - 1 = made
  BY <1>1
<1>7. \A n \in 1 .. (made + 1) :
        \/ \E x \in Waiting' : x.part = p /\ x.n = n /\ X[n] = X[n - 1] \o x.strokes
        \/ X[n] = X[n - 1] /\ \A x \in Waiting' : x.n = n => x.part # p
  BY <1>3, <1>4, <1>5, <1>6
<1>8. made' = made + 1
  OBVIOUS
<1> QED
  BY <1>7, <1>8 DEF Tells

LEMMA EnqueueGuards ==
    ASSUME Apart, Guarded, NEW f \in Frames, Enqueue(f)
    PROVE  Guarded'
<1> DEFINE x == Item(f)
           u == InspectFrame(f)
<1>1. /\ phase = "up" /\ ~Locked /\ tx' = Append(tx, x) /\ made' = made + 1
      /\ u # Blocked /\ Commit(f, u)
      /\ UNCHANGED <<phase, raw, thread, typed, programmed, disturbed>>
  BY DEF Enqueue, panel
<1>2. /\ x \in Items /\ x.part = f.part /\ x.strokes = f.strokes /\ x.n = made + 1
      /\ f.strokes \in Seq(Strokes) /\ made \in Nat
  <2>1. x \in Items /\ made \in Nat
    BY ItemIsTyped DEF Apart, TypeOK
  <2> QED
    BY <2>1, FramesAssumption DEF Item
<1>3. tx \in Seq(Items)
  BY DEF Apart, TypeOK
<1>4. /\ DOMAIN tx' = DOMAIN tx \cup {Len(tx) + 1} /\ Len(tx) + 1 \notin DOMAIN tx
      /\ \A i \in DOMAIN tx : tx'[i] = tx[i]
      /\ tx'[Len(tx) + 1] = x
      /\ \A i \in DOMAIN tx : i \in Int /\ i < Len(tx) + 1
  BY <1>1, <1>2, <1>3, AppendIsTyped, LenProperties
<1> HIDE DEF x, u
<1>5. Waiting' = Waiting \cup {x}
  BY <1>1, <1>4 DEF Waiting
<1>6. /\ \A y \in Waiting : y.n \in 1 .. made
      /\ \A y \in Waiting : y.n < made + 1 /\ y.n \in 1 .. (made + 1)
  BY <1>2 DEF Guarded, Numbered
<1>7. Numbered'
  <2>1. \A i \in DOMAIN tx : tx[i].n < x.n
    BY <1>2, <1>6 DEF Waiting
  <2>2. \A i, j \in DOMAIN tx' : i < j => i \in DOMAIN tx
    BY <1>4, LenProperties, <1>3
  <2>3. \A i, j \in DOMAIN tx' : i < j => tx'[i].n < tx'[j].n
    BY <1>4, <2>1, <2>2 DEF Guarded, Numbered
  <2>4. \A j \in DOMAIN raw : raw[j].n # x.n
    BY <1>2, <1>6 DEF Waiting
  <2>5. \A i \in DOMAIN tx', j \in DOMAIN raw : tx'[i].n # raw[j].n
    BY <1>4, <2>4 DEF Guarded, Numbered
  <2>6. \A y \in Waiting' : y.n \in 1 .. made'
    BY <1>1, <1>2, <1>5, <1>6
  <2> QED
    BY <1>1, <2>3, <2>5, <2>6 DEF Guarded, Numbered, Locked
<1>8. Keypad(f) => /\ guard[f.part] \in Seq(Digits) /\ u \in Seq(Digits)
                   /\ \A w \in Seq(Strokes) : Covers(guard[f.part], w) /\ ~Completes(w)
                         => Covers(u, w \o f.strokes) /\ ~Completes(w \o f.strokes)
  <2> SUFFICES ASSUME Keypad(f)
               PROVE  /\ guard[f.part] \in Seq(Digits) /\ u \in Seq(Digits)
                      /\ \A w \in Seq(Strokes) : Covers(guard[f.part], w) /\ ~Completes(w)
                            => Covers(u, w \o f.strokes) /\ ~Completes(w \o f.strokes)
    OBVIOUS
  <2>1. guard[f.part] \in Seq(Digits)
    BY DEF Keypad, Guarded, GuardTyped
  <2>2. u = Histories(guard[f.part], f.strokes)[Len(f.strokes)]
    BY DEF u, InspectFrame
  <2> QED
    BY <1>1, <1>2, <2>1, <2>2, FrameIsCovered
<1>9. GuardTyped'
  <2>1. \A p \in Partitions : guard'[p] \in Seq(Digits)
    BY <1>1, <1>8 DEF Commit, Guarded, GuardTyped, Apart, TypeOK, Keypad
  <2> QED
    BY <1>1, <2>1 DEF GuardTyped, Locked
<1>10. ASSUME NEW p \in Partitions \ disturbed
       PROVE  \E W : Told(W, p)'
  <2>1. PICK W : Told(W, p)
    BY <1>1 DEF Guarded, Followed
  <2>2. /\ W \in [Nat -> Seq(Strokes)] /\ Tells(W, p) /\ EndsWith(W[0], typed[p])
        /\ \A n \in 0 .. made : ~Completes(W[n])
        /\ Covers(guard[p], W[made])
    BY <1>1, <2>1 DEF Told, Known, Locked
  <2> DEFINE V == IF f.part = p THEN W[made] \o f.strokes ELSE W[made]
  <2>3. W[made] \in Seq(Strokes) /\ V \in Seq(Strokes)
    <3>1. W[made] \in Seq(Strokes)
      BY <1>2, <2>2
    <3> QED
      BY <1>2, <3>1, ConcatProperties
  <2>4. ~Completes(W[made])
    BY <1>2, <2>2
  <2>5. Covers(guard'[p], V) /\ ~Completes(V)
    <3>1. CASE f.part = p
      <4>1. Keypad(f) /\ guard'[p] = u
        BY <1>1, <3>1 DEF Keypad, Commit, Apart, TypeOK
      <4> QED
        BY <1>8, <2>2, <2>3, <2>4, <3>1, <4>1
    <3>2. CASE f.part # p
      <4>1. guard'[p] = guard[p]
        BY <1>1, <3>2 DEF Commit, Apart, TypeOK
      <4> QED
        BY <2>2, <2>4, <3>2, <4>1
    <3> QED
      BY <3>1, <3>2
  <2>6. IF x.part = p THEN V = W[made] \o x.strokes ELSE V = W[made]
    BY <1>2
  <2> HIDE DEF V
  <2>7. PICK X \in Words : Exchange(X, W, made + 1, V)
    <3>1. made + 1 \in Nat
      BY <1>2
    <3>2. W \in Words
      BY <2>2 DEF Words
    <3> QED
      BY <2>3, <3>1, <3>2, Exchanged, Zenon
  <2>8. /\ X[made + 1] = V /\ \A n \in 0 .. made : X[n] = W[n]
        /\ 0 \in 0 .. made /\ \A n \in 0 .. (made + 1) : n \in 0 .. made \/ n = made + 1
    <3>1. /\ \A n \in 0 .. made : n \in Nat /\ n # made + 1
          /\ 0 \in 0 .. made /\ \A n \in 0 .. (made + 1) : n \in 0 .. made \/ n = made + 1
      BY <1>2
    <3> QED
      BY <2>7, <3>1 DEF Exchange
  <2>9. Tells(X, p)'
    <3>1. \E y \in Items : /\ Waiting' = Waiting \cup {y} /\ y.n = made + 1
                           /\ IF y.part = p THEN X[made + 1] = W[made] \o y.strokes
                                            ELSE X[made + 1] = W[made]
      BY <1>2, <1>5, <2>6, <2>8
    <3>2. Numbered
      BY DEF Guarded
    <3>3. made' = made + 1 /\ W \in [Nat -> Seq(Strokes)] /\ Tells(W, p)
      BY <1>1, <2>2
    <3>4. \A n \in 0 .. made : X[n] = W[n]
      BY <2>8
    <3> QED
      BY <3>1, <3>2, <3>3, <3>4, OneMoreWord
  <2>10. Known(p)' = guard'[p] /\ thread'.at # "locked"
    BY <1>1 DEF Known, Locked
  <2>11. EndsWith(X[0], typed'[p]) /\ \A n \in 0 .. made' : ~Completes(X[n])
    BY <1>1, <2>2, <2>5, <2>8
  <2>12. Covers(Known(p)', X[made'])
    BY <1>1, <2>5, <2>8, <2>10
  <2> QED
    BY <2>10, <2>11, <2>12, <2>7, <2>9, ToldNext DEF Words
<1> QED
  BY <1>1, <1>7, <1>9, <1>10 DEF Guarded, Followed, InterlockHolds

LEMMA RawTestGuards ==
    ASSUME Apart, Guarded, NEW f \in Frames, RawTest(f)
    PROVE  Guarded'
<1>1. /\ thread = Idle /\ thread'.at = "tested"
      /\ UNCHANGED <<phase, guard, tx, raw, made, typed, programmed, disturbed>>
  BY DEF RawTest, queues, panel
<1>2. Waiting' = Waiting /\ \A p : Known(p)' = Known(p)
  BY <1>1 DEF Waiting, Known, Idle
<1>3. Followed'
  <2>1. \A W, p : Told(W, p) => Told(W, p)'
    BY <1>1, <1>2, ToldStays
  <2> QED
    BY <1>1, <2>1 DEF Guarded, Followed
<1>4. Numbered' /\ GuardTyped'
  BY <1>1, <1>2 DEF Guarded, Numbered, GuardTyped, Locked, Idle
<1> QED
  BY <1>1, <1>3, <1>4 DEF Guarded, InterlockHolds

LEMMA RawInspectGuards == Apart /\ Guarded /\ RawInspect => Guarded'
<1> SUFFICES ASSUME Apart, Guarded, RawInspect PROVE Guarded'
  OBVIOUS
<1> DEFINE x == [thread.item EXCEPT !.n = made + 1]
           u == InspectFrame(x)
<1>1. /\ thread.at = "tested" /\ thread.item \in Items /\ made' = made + 1 /\ made \in Nat
      /\ UNCHANGED <<phase, guard, tx, raw, typed, programmed, disturbed>>
      /\ \/ thread' = Idle
         \/ thread' = [at |-> "locked", item |-> x, update |-> u] /\ u # Blocked
  BY DEF RawInspect, queues, panel, Apart, TypeOK, Idle
<1>2. x \in Items /\ x.n = made + 1 /\ x.strokes \in Seq(Strokes)
  BY <1>1 DEF Items
<1> HIDE DEF x, u
<1>3. \/ thread'.at = "idle"
      \/ /\ thread'.at = "locked" /\ thread'.item = x /\ thread'.update = u /\ u # Blocked
  BY <1>1 DEF Idle
<1>4. Waiting' = Waiting /\ \A p : Known(p)' = guard[p] /\ Known(p) = guard[p]
  BY <1>1, <1>3 DEF Waiting, Known
<1>5. Numbered'
  <2>1. \A y \in Waiting : y.n \in 1 .. made
    BY DEF Guarded, Numbered
  <2>2. \A y \in Waiting : y.n \in 1 .. (made + 1) /\ y.n # made + 1
    BY <1>1, <2>1
  <2>3. made + 1 # 0
    BY <1>1
  <2> QED
    BY <1>1, <1>2, <1>3, <1>4, <2>2, <2>3 DEF Guarded, Numbered
<1>6. Keypad(x) => guard[x.part] \in Seq(Digits) /\ u = After(guard[x.part], x)
  BY DEF Keypad, Guarded, GuardTyped, u, InspectFrame, After
<1>7. GuardTyped'
  <2>1. Keypad(x) /\ u # Blocked => u \in Seq(Digits)
    BY <1>2, <1>6, FrameIsCovered DEF After
  <2>2. \A p \in Partitions : guard'[p] \in Seq(Digits)
    BY <1>1 DEF Guarded, GuardTyped
  <2>3. (Locked /\ Keypad(thread.item) => thread.update \in Seq(Digits))'
    BY <1>3, <2>1 DEF Locked, Keypad
  <2>4. (thread.at = "locked" /\ Keypad(thread.item) =>
            \E h \in Seq(Digits) : thread.update = After(h, thread.item))'
    BY <1>3, <1>6 DEF Keypad
  <2> QED
    BY <2>2, <2>3, <2>4 DEF GuardTyped
<1>8. ASSUME NEW p \in Partitions \ disturbed, phase = "up"
      PROVE  \E W : Told(W, p)'
  <2>1. PICK W : Told(W, p)
    BY <1>8 DEF Guarded, Followed
  <2>2. /\ W \in [Nat -> Seq(Strokes)] /\ Tells(W, p) /\ EndsWith(W[0], typed[p])
        /\ \A n \in 0 .. made : ~Completes(W[n])
        /\ Covers(guard[p], W[made])
    BY <1>4, <2>1 DEF Told
  <2>3. W[made] \in Seq(Strokes)
    BY <1>1, <2>2
  <2>4. PICK X \in Words : Exchange(X, W, made + 1, W[made])
    <3>1. made + 1 \in Nat
      BY <1>1
    <3>2. W \in Words
      BY <2>2 DEF Words
    <3> QED
      BY <2>3, <3>1, <3>2, Exchanged, Zenon
  <2>5. /\ X[made + 1] = W[made] /\ \A n \in 0 .. made : X[n] = W[n]
        /\ 0 \in 0 .. made /\ made \in 0 .. made
        /\ \A n \in 0 .. (made + 1) : n \in 0 .. made \/ n = made + 1
    <3>1. /\ \A n \in 0 .. made : n \in Nat /\ n # made + 1
          /\ 0 \in 0 .. made /\ made \in 0 .. made
          /\ \A n \in 0 .. (made + 1) : n \in 0 .. made \/ n = made + 1
      BY <1>1
    <3> QED
      BY <2>4, <3>1 DEF Exchange
  <2>6. Tells(X, p)'
    <3>1. Numbered
      BY DEF Guarded
    <3>2. Waiting' = Waiting /\ made' = made + 1
      BY <1>1, <1>4
    <3> QED
      BY <2>2, <2>5, <3>1, <3>2, OneMoreWord
  <2>7. EndsWith(X[0], typed'[p]) /\ \A n \in 0 .. made' : ~Completes(X[n])
    BY <1>1, <2>2, <2>5
  <2>8. Covers(Known(p)', X[made'])
    BY <1>1, <1>4, <2>2, <2>5
  <2>9. ASSUME thread'.at = "locked", thread'.item.part = p
        PROVE  \E h \in Seq(Digits) : thread'.update = After(h, thread'.item)
                                      /\ Covers(h, X[made'])
    <3>1. thread'.item = x /\ thread'.update = u /\ Keypad(x) /\ x.part = p
      BY <1>3, <2>9 DEF Keypad
    <3> QED
      BY <1>1, <1>6, <2>2, <2>5, <3>1
  <2> QED
    BY <2>6, <2>7, <2>8, <2>9, <2>4, ToldNext DEF Words
<1> QED
  BY <1>1, <1>5, <1>7, <1>8 DEF Guarded, Followed, InterlockHolds

\* The frame takes its place: every word of its partition from then on ends in it.
LEMMA RoomGuards ==
    Apart /\ Guarded /\ RawPut /\ (raw' # raw \/ thread' # Idle) => Guarded'
<1> SUFFICES ASSUME Apart, Guarded, RawPut, raw' # raw \/ thread' # Idle PROVE Guarded'
  OBVIOUS
<1> DEFINE x == thread.item
<1>1. /\ thread.at = "locked" /\ x \in Items /\ raw' = Append(raw, x)
      /\ thread.update # Blocked
      /\ thread'.at = "put" /\ thread'.item = x /\ thread'.update = thread.update
      /\ UNCHANGED <<phase, guard, tx, made, typed, programmed, disturbed>>
  BY RawPutOfRoom DEF RawPut, panel, Apart, TypeOK, Idle, Locked
<1>2. /\ x.n = made /\ made # 0 /\ made \in Nat /\ x.strokes \in Seq(Strokes)
      /\ \A y \in Waiting : y.n \in 1 .. made /\ y.n # made
  BY <1>1 DEF Guarded, Numbered, Apart, TypeOK, Items
<1>3. raw \in Seq(Items)
  BY DEF Apart, TypeOK
<1>4. /\ DOMAIN raw' = DOMAIN raw \cup {Len(raw) + 1} /\ Len(raw) + 1 \notin DOMAIN raw
      /\ \A i \in DOMAIN raw : raw'[i] = raw[i]
      /\ raw'[Len(raw) + 1] = x
      /\ \A i \in DOMAIN raw : i \in Int /\ i < Len(raw) + 1
  BY <1>1, <1>3, AppendIsTyped, LenProperties
<1> HIDE DEF x
<1>5. Waiting' = Waiting \cup {x}
  BY <1>1, <1>4 DEF Waiting
<1>6. Numbered'
  <2>1. \A i \in DOMAIN raw : raw[i].n < x.n
    BY <1>2 DEF Waiting
  <2>2. \A i, j \in DOMAIN raw' : i < j => i \in DOMAIN raw
    BY <1>3, <1>4, LenProperties
  <2>3. \A i, j \in DOMAIN raw' : i < j => raw'[i].n < raw'[j].n
    BY <1>4, <2>1, <2>2 DEF Guarded, Numbered
  <2>4. \A i \in DOMAIN tx : tx[i].n # x.n
    BY <1>2 DEF Waiting
  <2>5. \A i \in DOMAIN tx, j \in DOMAIN raw' : tx[i].n # raw'[j].n
    BY <1>4, <2>4 DEF Guarded, Numbered
  <2>6. \A y \in Waiting' : y.n \in 1 .. made
    BY <1>2, <1>5
  <2> QED
    BY <1>1, <2>3, <2>5, <2>6 DEF Guarded, Numbered
<1>7. GuardTyped'
  <2>1. Locked
    BY <1>1 DEF Locked
  <2> QED
    BY <1>1, <2>1 DEF Guarded, GuardTyped, Keypad, x
<1>8. ASSUME NEW p \in Partitions \ disturbed, phase = "up"
      PROVE  \E W : Told(W, p)'
  <2>1. PICK W : Told(W, p)
    BY <1>8 DEF Guarded, Followed
  <2>2. /\ W \in [Nat -> Seq(Strokes)] /\ Tells(W, p) /\ EndsWith(W[0], typed[p])
        /\ \A n \in 0 .. made : ~Completes(W[n])
        /\ Covers(guard[p], W[made])
    BY <1>1, <2>1 DEF Told, Known
  <2>3. W[made] = W[made - 1] /\ made \in 1 .. made /\ W[made] \in Seq(Strokes)
        /\ ~Completes(W[made])
    <3>1. made \in 1 .. made /\ made \in 0 .. made
      BY <1>2
    <3> QED
      BY <1>2, <2>2, <3>1 DEF Tells
  <2>4. CASE x.part # p
    <3>1. ASSUME NEW n \in 1 .. made
          PROVE  \/ \E y \in Waiting' : y.part = p /\ y.n = n /\ W[n] = W[n - 1] \o y.strokes
                 \/ W[n] = W[n - 1] /\ \A y \in Waiting' : y.n = n => y.part # p
      <4>1. CASE \E y \in Waiting : y.part = p /\ y.n = n /\ W[n] = W[n - 1] \o y.strokes
        BY <1>5, <4>1
      <4>2. CASE W[n] = W[n - 1] /\ \A y \in Waiting : y.n = n => y.part # p
        BY <1>5, <2>4, <4>2
      <4> QED
        BY <2>2, <4>1, <4>2 DEF Tells
    <3>2. Tells(W, p)'
      BY <1>1, <3>1 DEF Tells
    <3>3. Known(p)' = guard[p] /\ thread'.at # "locked"
      BY <1>1, <2>4 DEF Known
    <3>4. EndsWith(W[0], typed'[p]) /\ (\A n \in 0 .. made' : ~Completes(W[n]))
          /\ Covers(Known(p)', W[made'])
      BY <1>1, <2>2, <3>3
    <3> QED
      BY <2>2, <3>2, <3>3, <3>4, ToldNext
  <2>5. CASE x.part = p
    <3> DEFINE V == W[made] \o x.strokes
    <3>1. V \in Seq(Strokes)
      BY <1>2, <2>3, ConcatProperties
    <3>2. Covers(thread.update, V) /\ ~Completes(V)
      <4>1. PICK h \in Seq(Digits) : thread.update = After(h, x) /\ Covers(h, W[made])
        BY <1>1, <2>1, <2>5 DEF Told, x
      <4> QED
        BY <1>1, <1>2, <2>3, <4>1, FrameIsCovered DEF After
    <3> HIDE DEF V
    <3>3. PICK X \in Words : Exchange(X, W, made, V)
      <4>1. W \in Words /\ made \in Nat
        BY <1>2, <2>2 DEF Words
      <4> QED
        BY <3>1, <4>1, Exchanged, Zenon
    <3>4. /\ X[made] = V /\ \A n \in 0 .. (made - 1) : X[n] = W[n]
          /\ 0 \in 0 .. (made - 1) /\ \A n \in 0 .. made : n \in 0 .. (made - 1) \/ n = made
      <4>1. /\ \A n \in 0 .. (made - 1) : n \in Nat /\ n # made
            /\ 0 \in 0 .. (made - 1) /\ \A n \in 0 .. made : n \in 0 .. (made - 1) \/ n = made
        BY <1>2
      <4> QED
        BY <1>2, <3>3, <4>1 DEF Exchange
    <3>5. Tells(X, p)'
      <4>1. ASSUME NEW n \in 1 .. made, n # made
            PROVE  \/ \E y \in Waiting' : y.part = p /\ y.n = n /\ X[n] = X[n - 1] \o y.strokes
                   \/ X[n] = X[n - 1] /\ \A y \in Waiting' : y.n = n => y.part # p
        <5>1. n \in 0 .. (made - 1) /\ n - 1 \in 0 .. (made - 1)
          BY <1>2, <4>1
        <5>2. X[n] = W[n] /\ X[n - 1] = W[n - 1]
          BY <3>4, <5>1
        <5>3. CASE \E y \in Waiting : y.part = p /\ y.n = n /\ W[n] = W[n - 1] \o y.strokes
          BY <1>5, <5>2, <5>3
        <5>4. CASE W[n] = W[n - 1] /\ \A y \in Waiting : y.n = n => y.part # p
          BY <1>2, <1>5, <4>1, <5>2, <5>4
        <5> QED
          BY <2>2, <5>3, <5>4 DEF Tells
      <4>2. x \in Waiting' /\ x.part = p /\ x.n = made /\ X[made] = X[made - 1] \o x.strokes
        <5>1. made - 1 \in 0 .. (made - 1)
          BY <1>2
        <5>2. X[made - 1] = W[made - 1]
          BY <3>4, <5>1
        <5> QED
          BY <1>2, <1>5, <2>3, <2>5, <3>4, <5>2 DEF V
      <4> HIDE DEF V
      <4>3. ASSUME NEW n \in 1 .. made
            PROVE  \/ \E y \in Waiting' : y.part = p /\ y.n = n /\ X[n] = X[n - 1] \o y.strokes
                   \/ X[n] = X[n - 1] /\ \A y \in Waiting' : y.n = n => y.part # p
        BY <4>1, <4>2
      <4>4. made' = made
        BY <1>1
      <4> QED
        BY <4>3, <4>4 DEF Tells
    <3>6. Known(p)' = thread.update /\ thread'.at # "locked"
      BY <1>1, <2>5 DEF Known
    <3>7. EndsWith(X[0], typed'[p]) /\ \A n \in 0 .. made' : ~Completes(X[n])
      BY <1>1, <2>2, <3>2, <3>4
    <3>8. Covers(Known(p)', X[made'])
      BY <1>1, <3>2, <3>4, <3>6
    <3> QED
      BY <3>5, <3>6, <3>7, <3>8, <3>3, ToldNext DEF Words
  <2> QED
    BY <2>4, <2>5
<1> QED
  BY <1>1, <1>6, <1>7, <1>8 DEF Guarded, Followed, InterlockHolds

LEMMA RawPutGuards == Apart /\ Guarded /\ RawPut => Guarded'
<1> SUFFICES ASSUME Apart, Guarded, RawPut PROVE Guarded'
  OBVIOUS
<1>1. CASE raw' = raw /\ thread' = Idle
  <2>1. /\ thread.at = "locked" /\ thread'.at = "idle"
        /\ UNCHANGED <<phase, guard, tx, raw, made, typed, programmed, disturbed>>
    BY <1>1 DEF RawPut, panel, Idle
  <2>2. Waiting' = Waiting /\ \A p \in Partitions : Known(p)' = Known(p)
    BY <2>1 DEF Waiting, Known
  <2>3. Followed'
    <3>1. \A p \in Partitions : \A W : Told(W, p) => Told(W, p)'
      BY <2>1, <2>2, ToldStays
    <3> QED
      BY <2>1, <3>1 DEF Guarded, Followed
  <2>4. Numbered' /\ GuardTyped'
    BY <2>1, <2>2 DEF Guarded, Numbered, GuardTyped, Locked
  <2> QED
    BY <2>1, <2>3, <2>4 DEF Guarded, InterlockHolds
<1>2. CASE raw' # raw \/ thread' # Idle
  BY <1>2, RoomGuards
<1> QED
  BY <1>1, <1>2

LEMMA RawCommitGuards == Apart /\ Guarded /\ RawCommit => Guarded'
<1> SUFFICES ASSUME Apart, Guarded, RawCommit PROVE Guarded'
  OBVIOUS
<1>1. /\ thread.at = "put" /\ thread'.at = "idle" /\ Commit(thread.item, thread.update)
      /\ UNCHANGED <<phase, tx, raw, made, typed, programmed, disturbed>>
  BY DEF RawCommit, queues, panel, Idle
<1>2. Waiting' = Waiting
  BY <1>1 DEF Waiting
<1>3. \A p \in Partitions : Known(p)' = Known(p)
  BY <1>1 DEF Known, Commit, Keypad, Apart, TypeOK
<1>4. Followed'
  <2>1. \A p \in Partitions : \A W : Told(W, p) => Told(W, p)'
    BY <1>1, <1>2, <1>3, ToldStays
  <2> QED
    BY <1>1, <2>1 DEF Guarded, Followed
<1>5. Numbered'
  BY <1>1, <1>2 DEF Guarded, Numbered
<1>6. GuardTyped'
  <2>1. Keypad(thread.item) => thread.update \in Seq(Digits)
    BY <1>1 DEF Guarded, GuardTyped, Locked
  <2>2. \A p \in Partitions : guard'[p] \in Seq(Digits)
    BY <1>1, <2>1 DEF Commit, Guarded, GuardTyped, Apart, TypeOK
  <2> QED
    BY <1>1, <2>2 DEF GuardTyped, Locked
<1> QED
  BY <1>1, <1>4, <1>5, <1>6 DEF Guarded, InterlockHolds

\* A waiting frame is sent.  If it is the first of its partition in the order of
\* inspection the words stay as they are, but that what it brings is now typed.
LEMMA SentInOrder ==
    ASSUME Apart, Guarded, phase = "up", NEW x \in Waiting, NEW late,
           Type(x, late), Waiting' = Waiting \ {x},
           ~late => \A y \in Waiting : y.part = x.part => x.n <= y.n,
           UNCHANGED <<guard, thread, made>>
    PROVE  (\A p \in Partitions \ disturbed : \E W : Told(W, p))' /\ InterlockHolds'
<1>1. x \in Items /\ x.strokes \in Seq(Strokes) /\ x.n \in 1 .. made /\ made \in Nat
      /\ \A y \in Waiting : y.n = x.n => y = x
  BY WaitingProperties DEF Guarded
<1>2. \A p : Known(p)' = Known(p)
  BY DEF Known
<1>3. \A p \in Partitions \ disturbed : \E W : Told(W, p)
  BY DEF Guarded, Followed
<1>4. ASSUME NEW p \in Partitions \ disturbed, x.part # p, typed'[p] = typed[p]
      PROVE  \E W : Told(W, p)'
  <2>1. PICK W : Told(W, p)
    BY <1>3
  <2>2. Tells(W, p)'
    BY <1>4, <2>1 DEF Told, Tells
  <2> QED
    BY <1>2, <1>4, <2>1, <2>2 DEF Told, Covers
<1>5. CASE ~Keypad(x)
  <2>1. UNCHANGED <<typed, programmed, disturbed>>
    BY <1>5 DEF Type, panel
  <2>2. \A p \in Partitions : x.part # p
    BY <1>5 DEF Keypad
  <2> QED
    BY <1>4, <2>1, <2>2 DEF Guarded, InterlockHolds
<1>6. CASE Keypad(x)
  <2> DEFINE q == x.part
             s == typed[q] \o x.strokes
  <2>1. /\ typed' = [typed EXCEPT ![q] = LastOf(s, Lead + 2)]
        /\ programmed' = IF Completes(s) THEN programmed \cup {q} ELSE programmed
        /\ disturbed' = IF late THEN disturbed \cup {q} ELSE disturbed
    BY <1>6, Zenon DEF Type
  <2>2. q \in Partitions /\ typed[q] \in Seq(Strokes) /\ typed \in [Partitions -> Seq(Strokes)]
    BY <1>6 DEF Keypad, Apart, TypeOK
  <2>3. \A p \in Partitions \ disturbed' : p # q => \E W : Told(W, p)'
    BY <1>4, <2>1, <2>2
  <2>4. ASSUME q \notin disturbed'
        PROVE  (\E W : Told(W, q)') /\ ~Completes(s)
    <3>1. ~late /\ q \notin disturbed
      BY <2>1, <2>4
    <3>2. \A y \in Waiting : y.part = q => x.n <= y.n
      BY <3>1
    <3>3. PICK W : Told(W, q)
      BY <1>3, <2>2, <3>1
    <3>4. /\ W \in [Nat -> Seq(Strokes)] /\ Tells(W, q) /\ EndsWith(W[0], typed[q])
          /\ \A n \in 0 .. made : ~Completes(W[n])
          /\ Covers(Known(q), W[made])
      BY <3>3 DEF Told
    <3>5. \A k \in 0 .. (x.n - 1) : W[k] = W[0]
      <4> DEFINE Bad == {k \in 0 .. (x.n - 1) : W[k] # W[0]}
      <4> SUFFICES ASSUME Bad # {} PROVE FALSE
        OBVIOUS
      <4>1. PICK m \in Bad : \A k \in Bad : m <= k
        <5>1. Bad \subseteq Nat
          BY <1>1
        <5> HIDE DEF Bad
        <5> QED
          BY <5>1, HasMinimum
      <4>2. m # 0 /\ m \in 1 .. made /\ m < x.n /\ m - 1 \in 0 .. (x.n - 1) /\ ~(m <= m - 1)
        BY <1>1
      <4>3. W[m] = W[m - 1]
        <5>1. \A y \in Waiting : y.n = m => y.part # q
          <6>1. ASSUME NEW y \in Waiting, y.n = m, y.part = q PROVE FALSE
            <7>1. x.n <= m
              BY <3>2, <6>1
            <7> QED
              BY <1>1, <4>2, <7>1
          <6> QED
            BY <6>1
        <5> QED
          BY <3>4, <4>2, <5>1 DEF Tells
      <4>4. m - 1 \notin Bad
        <5> HIDE DEF Bad
        <5> QED
          BY <4>1, <4>2
      <4> QED
        BY <4>1, <4>2, <4>3, <4>4
    <3>6. W[x.n] = W[0] \o x.strokes
      <4>1. W[x.n - 1] = W[0]
        BY <1>1, <3>5
      <4>2. \/ \E y \in Waiting : y.part = q /\ y.n = x.n /\ W[x.n] = W[x.n - 1] \o y.strokes
            \/ \A y \in Waiting : y.n = x.n => y.part # q
        BY <1>1, <3>4 DEF Tells
      <4> QED
        BY <1>1, <4>1, <4>2
    <3>7. s \in Seq(Strokes) /\ W[x.n] \in Seq(Strokes) /\ W[0] \in Seq(Strokes)
      <4>1. x.strokes \in Seq(Strokes) /\ x.n \in Nat /\ 0 \in Nat
        BY <1>1
      <4>2. W[x.n] \in Seq(Strokes) /\ W[0] \in Seq(Strokes)
        BY <3>4, <4>1
      <4>3. typed[q] \o x.strokes \in Seq(Strokes)
        BY <2>2, <4>1, ConcatProperties
      <4> QED
        BY <4>2, <4>3
    <3>8. EndsWith(W[x.n], s)
      <4> DEFINE t == typed[q]
      <4>1. t \in Seq(Strokes) /\ EndsWith(W[0], t)
        BY <2>2, <3>4
      <4> HIDE DEF t
      <4>2. EndsWith(W[0] \o x.strokes, t \o x.strokes)
        BY <1>1, <3>7, <4>1, EndsWithProperties
      <4> QED
        BY <3>6, <4>2 DEF t
    <3>9. ~Completes(s)
      <4>1. ~Completes(W[x.n])
        <5>1. x.n \in 0 .. made
          BY <1>1
        <5> QED
          BY <3>4, <5>1
      <4> QED
        BY <3>7, <3>8, <4>1, CompleteEnd
    <3>10. typed'[q] = LastOf(s, Lead + 2) /\ EndsWith(W[x.n], typed'[q])
      <4>1. Lead + 2 \in Nat
        BY BoundAssumption
      <4> HIDE DEF s
      <4>2. LastOf(s, Lead + 2) \in Seq(Strokes) /\ EndsWith(s, LastOf(s, Lead + 2))
        BY <3>7, <4>1, LastFromEnd
      <4>3. typed'[q] = LastOf(s, Lead + 2)
        BY <2>1, <2>2
      <4> QED
        BY <3>7, <3>8, <4>2, <4>3, EndsWithProperties
    <3> HIDE DEF q, s
    <3> DEFINE X == [n \in Nat |-> IF n <= x.n THEN W[x.n] ELSE W[n]]
    <3>11. /\ X \in [Nat -> Seq(Strokes)] /\ X[0] = W[x.n]
           /\ \A n \in Nat : n <= x.n => X[n] = W[x.n]
           /\ \A n \in Nat : x.n <= n => X[n] = W[n]
      <4>1. x.n \in Nat /\ 0 <= x.n
        BY <1>1
      <4>2. \A n \in Nat : x.n <= n => n = x.n \/ ~(n <= x.n)
        BY <4>1
      <4> QED
        BY <3>4, <3>7, <4>1, <4>2
    <3> HIDE DEF X
    <3>12. Tells(X, q)'
      <4>1. ASSUME NEW n \in 1 .. made
            PROVE  \/ \E y \in Waiting' : y.part = q /\ y.n = n /\ X[n] = X[n - 1] \o y.strokes
                   \/ X[n] = X[n - 1] /\ \A y \in Waiting' : y.n = n => y.part # q
        <5>1. CASE n <= x.n
          <6>1. n \in Nat /\ n - 1 \in Nat /\ n - 1 <= x.n
            BY <1>1, <5>1
          <6>2. X[n] = X[n - 1]
            BY <3>11, <5>1, <6>1
          <6>3. \A y \in Waiting' : y.n = n => y.part # q
            <7>1. ASSUME NEW y \in Waiting', y.n = n, y.part = q PROVE FALSE
              <8>1. y \in Waiting /\ y # x
                OBVIOUS
              <8>2. x.n <= n
                BY <3>2, <7>1, <8>1
              <8>3. y.n = x.n
                BY <1>1, <5>1, <6>1, <7>1, <8>2
              <8> QED
                BY <1>1, <8>1, <8>3
            <7> QED
              BY <7>1
          <6> QED
            BY <6>2, <6>3
        <5>2. CASE ~(n <= x.n)
          <6>1. n \in Nat /\ n - 1 \in Nat /\ x.n <= n /\ x.n <= n - 1 /\ n # x.n
            BY <1>1, <5>2
          <6>2. X[n] = W[n] /\ X[n - 1] = W[n - 1]
            BY <3>11, <6>1
          <6>3. CASE \E y \in Waiting : y.part = q /\ y.n = n /\ W[n] = W[n - 1] \o y.strokes
            BY <6>1, <6>2, <6>3
          <6>4. CASE W[n] = W[n - 1] /\ \A y \in Waiting : y.n = n => y.part # q
            BY <6>2, <6>4
          <6> QED
            BY <3>4, <6>3, <6>4 DEF Tells
        <5> QED
          BY <5>1, <5>2
      <4> QED
        BY <4>1 DEF Tells
    <3>13. X[made] = W[made] /\ \A n \in 0 .. made : ~Completes(X[n])
      <4>1. made \in Nat /\ x.n <= made /\ x.n \in 0 .. made
        BY <1>1
      <4>2. \A n \in 0 .. made : n \in Nat /\ (n <= x.n \/ x.n <= n)
        BY <1>1
      <4> QED
        BY <3>4, <3>11, <4>1, <4>2
    <3>14. Told(X, q)'
      <4>1. EndsWith(X[0], typed'[q])
        BY <3>10, <3>11
      <4>2. Covers(Known(q)', X[made])
        BY <1>2, <3>4, <3>13
      <4>3. (thread.at = "locked" /\ thread.item.part = q =>
              \E h \in Seq(Digits) : thread.update = After(h, thread.item)
                                     /\ Covers(h, X[made]))'
        BY <3>3, <3>13 DEF Told
      <4> QED
        BY <3>11, <3>12, <3>13, <4>1, <4>2, <4>3 DEF Told, Covers
    <3> QED
      BY <3>9, <3>14 DEF q, s
  <2>5. InterlockHolds'
    <3>1. programmed \subseteq disturbed /\ disturbed \subseteq disturbed'
      BY <2>1 DEF Guarded, InterlockHolds
    <3>2. programmed' \subseteq disturbed'
      <4>1. CASE q \in disturbed'
        BY <2>1, <3>1, <4>1
      <4>2. CASE q \notin disturbed'
        BY <2>1, <2>4, <3>1, <4>2
      <4> QED
        BY <4>1, <4>2
    <3> QED
      BY <3>2 DEF InterlockHolds
  <2>6. \A p \in Partitions \ disturbed' : \E W : Told(W, p)'
    <3>1. ASSUME NEW p \in Partitions \ disturbed' PROVE \E W : Told(W, p)'
      BY <2>3, <2>4, <3>1
    <3> QED
      BY <3>1
  <2> QED
    BY <2>5, <2>6
<1> QED
  BY <1>5, <1>6

LEMMA WriteOrdinaryGuards == Apart /\ Guarded /\ WriteOrdinary => Guarded'
<1> SUFFICES ASSUME Apart, Guarded, WriteOrdinary PROVE Guarded'
  OBVIOUS
<1> DEFINE x == Head(tx)
<1>1. /\ phase = "up" /\ tx # <<>> /\ tx' = Tail(tx) /\ tx \in Seq(Items)
      /\ UNCHANGED <<phase, guard, raw, thread, made>>
      /\ Type(x, Overtakes(x))
  BY DEF WriteOrdinary, Apart, TypeOK
<1>2. /\ Len(tx) \in Nat \ {0} /\ DOMAIN tx = 1 .. Len(tx) /\ x = tx[1]
      /\ DOMAIN tx' = 1 .. (Len(tx) - 1)
      /\ \A i \in 1 .. (Len(tx) - 1) : tx'[i] = tx[i + 1]
  <2>1. Len(tx) \in Nat /\ Len(tx) >= 1 /\ DOMAIN tx = 1 .. Len(tx) /\ Head(tx) = tx[1]
        /\ Tail(tx) \in Seq(Items) /\ Len(Tail(tx)) = Len(tx) - 1
        /\ \A i \in 1 .. Len(tx) - 1 : Tail(tx)[i] = tx[i + 1]
    BY <1>1, HeadTailProperties, LenProperties
  <2>2. DOMAIN Tail(tx) = 1 .. (Len(tx) - 1)
    BY <2>1, LenProperties
  <2> QED
    BY <1>1, <2>1, <2>2
<1> HIDE DEF x
<1>3. 1 \in DOMAIN tx /\ \A i \in DOMAIN tx' : i + 1 \in DOMAIN tx /\ 1 < i + 1 /\ i \in Int
  BY <1>2
<1>4. \A i \in DOMAIN tx : i = 1 \/ (i - 1 \in DOMAIN tx' /\ (i - 1) + 1 = i /\ 1 < i)
  BY <1>2
<1>5. x \in Waiting /\ \A i \in DOMAIN tx' : x.n < tx'[i].n /\ tx'[i] \in Waiting
  BY <1>2, <1>3 DEF Guarded, Numbered, Waiting
<1>6. \A y \in Waiting : y.n \in 1 .. made /\ x.n \in 1 .. made
  BY <1>5 DEF Guarded, Numbered
<1>7. Waiting' = Waiting \ {x}
  <2>1. \A y \in Waiting' : y \in Waiting
    BY <1>1, <1>2, <1>3 DEF Waiting
  <2>2. x \notin Waiting'
    <3>1. \A i \in DOMAIN tx' : tx'[i] # x
      BY <1>5, <1>6
    <3>2. \A i \in DOMAIN raw : raw[i] # x
      BY <1>2, <1>3 DEF Guarded, Numbered
    <3> QED
      BY <1>1, <3>1, <3>2 DEF Waiting
  <2>3. ASSUME NEW y \in Waiting, y # x PROVE y \in Waiting'
    <3>1. CASE \E i \in DOMAIN raw : y = raw[i]
      BY <1>1, <3>1 DEF Waiting
    <3>2. CASE \E i \in DOMAIN tx : y = tx[i]
      <4>1. PICK i \in DOMAIN tx : y = tx[i]
        BY <3>2
      <4>2. i - 1 \in DOMAIN tx' /\ (i - 1) + 1 = i
        BY <1>2, <1>4, <2>3, <4>1
      <4>3. tx'[i - 1] = y
        BY <1>2, <4>1, <4>2
      <4> QED
        BY <4>2, <4>3 DEF Waiting
    <3> QED
      BY <3>1, <3>2 DEF Waiting
  <2> QED
    BY <2>1, <2>2, <2>3
<1>8. ~Overtakes(x) => \A y \in Waiting : y.part = x.part => x.n <= y.n
  <2> SUFFICES ASSUME ~Overtakes(x), NEW y \in Waiting, y.part = x.part PROVE x.n <= y.n
    OBVIOUS
  <2>1. CASE \E i \in DOMAIN raw : y = raw[i]
    <3>1. ~(y.n < x.n)
      BY <2>1 DEF Overtakes
    <3> QED
      BY <1>6, <3>1
  <2>2. CASE \E i \in DOMAIN tx : y = tx[i]
    <3>1. PICK i \in DOMAIN tx : y = tx[i]
      BY <2>2
    <3>2. i = 1 \/ 1 < i
      BY <1>4
    <3>3. y.n = x.n \/ x.n < y.n
      BY <1>2, <1>3, <3>1, <3>2 DEF Guarded, Numbered
    <3> QED
      BY <1>6, <3>3
  <2> QED
    BY <2>1, <2>2 DEF Waiting
<1>9. Numbered'
  <2>1. \A i, j \in DOMAIN tx' : i < j => tx'[i].n < tx'[j].n
    <3>1. \A i, j \in DOMAIN tx' : i < j => i + 1 < j + 1
      BY <1>3
    <3> QED
      BY <1>2, <1>3, <3>1 DEF Guarded, Numbered
  <2>2. \A i \in DOMAIN tx', j \in DOMAIN raw : tx'[i].n # raw[j].n
    BY <1>2, <1>3 DEF Guarded, Numbered
  <2> QED
    BY <1>1, <1>7, <2>1, <2>2 DEF Guarded, Numbered
<1>10. GuardTyped'
  BY <1>1 DEF Guarded, GuardTyped, Locked
<1>11. (\A p \in Partitions \ disturbed : \E W : Told(W, p))' /\ InterlockHolds'
  BY <1>1, <1>5, <1>7, <1>8, SentInOrder
<1> QED
  BY <1>9, <1>10, <1>11 DEF Guarded, Followed

LEMMA WriteRawGuards == Apart /\ Guarded /\ WriteRaw => Guarded'
<1> SUFFICES ASSUME Apart, Guarded, WriteRaw PROVE Guarded'
  OBVIOUS
<1> DEFINE x == Head(raw)
<1>1. /\ phase = "up" /\ tx = <<>> /\ raw # <<>> /\ raw' = Tail(raw) /\ raw \in Seq(Items)
      /\ UNCHANGED <<phase, guard, tx, thread, made>>
      /\ Type(x, FALSE)
  BY DEF WriteRaw, Apart, TypeOK
<1>2. /\ Len(raw) \in Nat \ {0} /\ DOMAIN raw = 1 .. Len(raw) /\ x = raw[1]
      /\ DOMAIN raw' = 1 .. (Len(raw) - 1) /\ DOMAIN tx = {}
      /\ \A i \in 1 .. (Len(raw) - 1) : raw'[i] = raw[i + 1]
  <2>1. Len(raw) \in Nat /\ Len(raw) >= 1 /\ DOMAIN raw = 1 .. Len(raw) /\ Head(raw) = raw[1]
        /\ Tail(raw) \in Seq(Items) /\ Len(Tail(raw)) = Len(raw) - 1
        /\ \A i \in 1 .. Len(raw) - 1 : Tail(raw)[i] = raw[i + 1]
    BY <1>1, HeadTailProperties, LenProperties
  <2>2. DOMAIN Tail(raw) = 1 .. (Len(raw) - 1)
    BY <2>1, LenProperties
  <2> QED
    BY <1>1, <2>1, <2>2
<1> HIDE DEF x
<1>3. 1 \in DOMAIN raw /\ \A i \in DOMAIN raw' : i + 1 \in DOMAIN raw /\ 1 < i + 1 /\ i \in Int
  BY <1>2
<1>4. \A i \in DOMAIN raw : i = 1 \/ (i - 1 \in DOMAIN raw' /\ (i - 1) + 1 = i /\ 1 < i)
  BY <1>2
<1>5. /\ Waiting = {raw[i] : i \in DOMAIN raw} /\ Waiting' = {raw'[i] : i \in DOMAIN raw'}
      /\ x \in Waiting
  BY <1>1, <1>2, <1>3 DEF Waiting
<1>6. \A i \in DOMAIN raw' : x.n < raw'[i].n
  BY <1>2, <1>3 DEF Guarded, Numbered
<1>7. \A y \in Waiting : y.n \in 1 .. made /\ x.n \in 1 .. made
  BY <1>5 DEF Guarded, Numbered
<1>8. Waiting' = Waiting \ {x}
  <2>1. \A i \in DOMAIN raw' : raw'[i] \in Waiting /\ raw'[i] # x
    <3>1. ASSUME NEW i \in DOMAIN raw' PROVE raw'[i] \in Waiting /\ raw'[i] # x
      <4>1. raw'[i] \in Waiting
        BY <1>2, <1>3, <1>5
      <4> QED
        BY <1>6, <1>7, <4>1
    <3> QED
      BY <3>1
  <2>2. ASSUME NEW i \in DOMAIN raw, raw[i] # x PROVE raw[i] \in Waiting'
    <3>1. i - 1 \in DOMAIN raw' /\ (i - 1) + 1 = i
      BY <1>2, <1>4, <2>2
    <3>2. raw'[i - 1] = raw[i]
      BY <1>2, <3>1
    <3> QED
      BY <1>5, <3>1, <3>2
  <2> QED
    BY <1>5, <2>1, <2>2
<1>9. \A y \in Waiting : x.n <= y.n
  <2>1. ASSUME NEW i \in DOMAIN raw PROVE x.n <= raw[i].n
    <3>1. raw[i].n = x.n \/ x.n < raw[i].n
      BY <1>2, <1>3, <1>4 DEF Guarded, Numbered
    <3> QED
      BY <1>5, <1>7, <3>1
  <2> QED
    BY <1>5, <2>1
<1>10. Numbered'
  <2>1. \A i, j \in DOMAIN raw' : i < j => raw'[i].n < raw'[j].n
    <3>1. \A i, j \in DOMAIN raw' : i < j => i + 1 < j + 1
      BY <1>3
    <3> QED
      BY <1>2, <1>3, <3>1 DEF Guarded, Numbered
  <2> QED
    BY <1>1, <1>2, <1>8, <2>1 DEF Guarded, Numbered
<1>11. GuardTyped'
  BY <1>1 DEF Guarded, GuardTyped, Locked
<1>12. (\A p \in Partitions \ disturbed : \E W : Told(W, p))' /\ InterlockHolds'
  BY <1>1, <1>5, <1>8, <1>9, SentInOrder
<1> QED
  BY <1>10, <1>11, <1>12 DEF Guarded, Followed

LEMMA StartSessionGuards == Apart /\ Guarded /\ StartSession => Guarded'
<1> SUFFICES ASSUME Apart, Guarded, StartSession PROVE Guarded'
  OBVIOUS
<1>1. /\ phase = "down" /\ programmed' = {}
      /\ guard' = [p \in Partitions |-> <<>>] /\ typed' = [p \in Partitions |-> <<>>]
      /\ disturbed' = {p \in Partitions : \E i \in DOMAIN raw : raw[i].part = p}
      /\ UNCHANGED <<tx, raw, thread, made>>
  BY DEF StartSession, queues
<1>2. tx = <<>> /\ made \in Nat
  BY <1>1 DEF Apart, AtMostOneSurvives, TypeOK
<1>3. Waiting' = Waiting /\ Waiting = {raw[i] : i \in DOMAIN raw}
  BY <1>1, <1>2 DEF Waiting
<1>4. Numbered'
  BY <1>1, <1>3 DEF Guarded, Numbered
<1>5. GuardTyped'
  <2>1. \A p \in Partitions : guard'[p] \in Seq(Digits)
    BY <1>1, EmptyWord
  <2> QED
    BY <1>1, <2>1 DEF Guarded, GuardTyped, Locked
<1>6. ASSUME NEW p \in Partitions \ disturbed'
      PROVE  \E W : Told(W, p)'
  <2> DEFINE W == [n \in Nat |-> <<>>]
  <2>1. \A x \in Waiting : x.part # p
    BY <1>1, <1>3, <1>6
  <2>2. W \in [Nat -> Seq(Strokes)] /\ \A n \in Nat : W[n] = <<>>
    BY EmptyWord
  <2> HIDE DEF W
  <2>3. 0 \in Nat /\ \A n \in 1 .. made : n \in Nat /\ n - 1 \in Nat
    BY <1>2
  <2>4. Tells(W, p)'
    BY <1>1, <1>3, <2>1, <2>2, <2>3 DEF Tells
  <2>5. EndsWith(W[0], typed'[p]) /\ (\A n \in 0 .. made : ~Completes(W[n]))
        /\ \A h : Covers(h, W[made])
    <3>1. \A n \in 0 .. made : n \in Nat
      BY <1>2
    <3> QED
      BY <1>1, <1>2, <2>2, <2>3, <3>1, EmptyWord
  <2>6. (thread.at = "locked" /\ thread.item.part = p =>
            \E h \in Seq(Digits) : thread.update = After(h, thread.item)
                                   /\ Covers(h, W[made]))'
    BY <1>1, <2>5 DEF Guarded, GuardTyped, Keypad
  <2> QED
    BY <1>1, <2>2, <2>4, <2>5, <2>6 DEF Told, Covers
<1> QED
  BY <1>1, <1>4, <1>5, <1>6 DEF Guarded, Followed, InterlockHolds

LEMMA OtherStepsGuard ==
    ASSUME Apart, Guarded, Synchronize \/ StopSession \/ DiscardPendingTx \/ UNCHANGED vars
    PROVE  Guarded'
<1>1. UNCHANGED <<guard, thread, made, typed, programmed, disturbed>>
  BY DEF Synchronize, StopSession, DiscardPendingTx, vars, queues, panel
<1>2. GuardTyped' /\ InterlockHolds'
  BY <1>1 DEF Guarded, GuardTyped, Locked, InterlockHolds
<1>3. CASE Synchronize \/ StopSession \/ UNCHANGED vars
  <2>1. UNCHANGED <<tx, raw>> /\ (phase' = "up" => phase = "up")
    BY <1>3 DEF Synchronize, StopSession, vars, queues
  <2>2. Waiting' = Waiting /\ \A p : Known(p)' = Known(p)
    BY <1>1, <2>1 DEF Waiting, Known
  <2>3. Numbered'
    BY <1>1, <2>1, <2>2 DEF Guarded, Numbered
  <2>4. \A W, p : Told(W, p) => Told(W, p)'
    BY <1>1, <2>2, ToldStays
  <2> QED
    BY <1>1, <1>2, <2>1, <2>3, <2>4 DEF Guarded, Followed
<1>4. CASE DiscardPendingTx
  <2>1. tx' = <<>> /\ raw' = <<>> /\ phase' = "down"
    BY <1>4 DEF DiscardPendingTx
  <2>2. DOMAIN tx' = {} /\ DOMAIN raw' = {} /\ Waiting' = {}
    BY <2>1 DEF Waiting
  <2> QED
    BY <1>1, <1>2, <2>1, <2>2 DEF Guarded, Numbered, Followed
<1> QED
  BY <1>3, <1>4

LEMMA SpecGuarded == Spec => []Guarded
<1>1. ASSUME Apart, Guarded, [Next]_vars PROVE Guarded'
  BY <1>1, EnqueueGuards, RawTestGuards, RawInspectGuards, RawPutGuards, RawCommitGuards,
     WriteOrdinaryGuards, WriteRawGuards, StartSessionGuards, OtherStepsGuard DEF Next
<1> QED
  BY <1>1, InitGuarded, SpecApart, PTL DEF Spec

\* The panel never gets a code and the trigger in one session, over however many frames
\* they are spread, as long as the frames of that partition are sent in the order in
\* which the guard saw them: for every length of code, every set of frames, and every
\* interleaving of the two threads, the write loop and the sessions.
THEOREM NobodyProgramsThePanel == Spec => []InterlockHolds
<1>1. Guarded => InterlockHolds
  BY DEF Guarded
<1> QED
  BY <1>1, SpecGuarded, PTL
===============================================================================
