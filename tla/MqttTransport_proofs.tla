------------------------- MODULE MqttTransport_proofs -------------------------
(***************************************************************************)
(* The cache of the publisher never suppresses what the broker lacks, and  *)
(* a replay that was not complete is made good: proofs for every set of    *)
(* topics and values, every size of Paho's queue and every number of       *)
(* losses.                                                                 *)
(***************************************************************************)
EXTENDS MqttTransport, SequenceTheorems, WellFoundedInduction, TLAPS

-----------------------------------------------------------------------------
(* What the broker makes of a queue: the last message of each topic.        *)

LEMMA HasMaximum ==
    ASSUME NEW n \in Nat, NEW S, S \subseteq 1 .. n, S # {}
    PROVE  \E i \in S : \A k \in S : k <= i
<1> DEFINE R == OpToRel(<, Nat)
           D == {n - i : i \in S}
<1> HIDE DEF R
<1>1. D \subseteq Nat /\ D # {}
  <2>1. \A i \in S : i \in Int /\ n - i \in Nat
    OBVIOUS
  <2> QED
    BY <2>1
<1>2. IsWellFoundedOn(R, Nat)
  BY NatLessThanWellFounded DEF R
<1>3. PICK d \in D : \A c \in D : ~(<<c, d>> \in R)
  <2> HIDE DEF D
  <2> QED
    BY <1>1, <1>2, WFMin
<1>4. \A c \in D : ~(c < d)
  BY <1>1, <1>3 DEF OpToRel, R
<1>5. PICK i \in S : d = n - i
  BY <1>3
<1>6. \A k \in S : ~(n - k < n - i)
  BY <1>4, <1>5
<1> HIDE DEF D
<1>7. \A k \in S : k \in Int
  OBVIOUS
<1> QED
  BY <1>6, <1>7

Has(ms, t)     == \E i \in DOMAIN ms : ms[i].topic = t
IsLast(ms, t, i) == /\ i \in DOMAIN ms /\ ms[i].topic = t
                    /\ \A k \in DOMAIN ms : ms[k].topic = t => k <= i

LEMMA LastOfIsLast ==
    ASSUME NEW S, NEW ms \in Seq(S), NEW t
    PROVE  /\ Has(ms, t) => IsLast(ms, t, LastOf(ms, t))
           /\ \A i : IsLast(ms, t, i) => i = LastOf(ms, t)
<1> DEFINE here == {i \in DOMAIN ms : ms[i].topic = t}
<1>1. DOMAIN ms = 1 .. Len(ms) /\ Len(ms) \in Nat
  BY LenProperties
<1>2. ASSUME Has(ms, t) PROVE \E i \in here : \A k \in here : k <= i
  <2>1. here # {} /\ here \subseteq 1 .. Len(ms)
    BY <1>1, <1>2 DEF Has
  <2> HIDE DEF here
  <2> QED
    BY <1>1, <2>1, HasMaximum
<1>3. Has(ms, t) => IsLast(ms, t, LastOf(ms, t))
  BY <1>2 DEF LastOf, IsLast
<1>4. \A i, j : IsLast(ms, t, i) /\ IsLast(ms, t, j) => i = j
  BY <1>1 DEF IsLast
<1>5. \A i : IsLast(ms, t, i) => Has(ms, t)
  BY DEF IsLast, Has
<1> QED
  BY <1>3, <1>4, <1>5

LEMMA TakenByLast ==
    ASSUME NEW S, NEW ms \in Seq(S), NEW ret, NEW t \in All
    PROVE  /\ \A i : IsLast(ms, t, i) => TakenBy(ret, ms)[t] = ms[i].value
           /\ ~Has(ms, t) => TakenBy(ret, ms)[t] = ret[t]
<1>1. TakenBy(ret, ms)[t] = IF Has(ms, t) THEN ms[LastOf(ms, t)].value ELSE ret[t]
  BY DEF TakenBy, Has
<1>2. \A i : IsLast(ms, t, i) => Has(ms, t) /\ i = LastOf(ms, t)
  BY LastOfIsLast DEF IsLast, Has
<1> QED
  BY <1>1, <1>2

\* One message more.
LEMMA TakenByAppend ==
    ASSUME NEW S, NEW ms \in Seq(S), NEW m \in S, NEW ret, NEW t \in All
    PROVE  TakenBy(ret, Append(ms, m))[t] =
              IF m.topic = t THEN m.value ELSE TakenBy(ret, ms)[t]
<1> DEFINE q == Append(ms, m)
           n == Len(ms) + 1
<1>1. /\ q \in Seq(S) /\ Len(ms) \in Nat /\ DOMAIN ms = 1 .. Len(ms)
      /\ DOMAIN q = 1 .. n /\ n \in Nat
      /\ q[n] = m /\ \A i \in DOMAIN ms : q[i] = ms[i]
  OBVIOUS
<1>2. \A i \in 1 .. n : i \in DOMAIN ms \/ i = n
  BY <1>1
<1> HIDE DEF q
<1>3. CASE m.topic = t
  <2>1. IsLast(q, t, n)
    BY <1>1, <1>3 DEF IsLast
  <2>2. TakenBy(ret, q)[t] = q[n].value
    BY <1>1, <2>1, TakenByLast
  <2> QED
    BY <1>1, <1>3, <2>2 DEF q
<1>4. CASE m.topic # t
  <2>1. \A i : IsLast(ms, t, i) => IsLast(q, t, i) /\ q[i] = ms[i]
    BY <1>1, <1>2, <1>4 DEF IsLast
  <2>2. ~Has(ms, t) => ~Has(q, t)
    BY <1>1, <1>2, <1>4 DEF Has
  <2>3. CASE Has(ms, t)
    <3>1. PICK i : IsLast(ms, t, i)
      BY <2>3, LastOfIsLast
    <3>2. TakenBy(ret, q)[t] = q[i].value /\ TakenBy(ret, ms)[t] = ms[i].value
      BY <1>1, <2>1, <3>1, TakenByLast
    <3> QED
      BY <1>4, <2>1, <3>1, <3>2 DEF q
  <2>4. CASE ~Has(ms, t)
    <3>1. TakenBy(ret, q)[t] = ret[t] /\ TakenBy(ret, ms)[t] = ret[t]
      BY <1>1, <2>2, <2>4, TakenByLast
    <3> QED
      BY <1>4, <3>1 DEF q
  <2> QED
    BY <2>3, <2>4
<1> QED
  BY <1>3, <1>4

\* The broker takes the first of them now and the others later.
LEMMA TakenByHeadTail ==
    ASSUME NEW S, NEW ms \in Seq(S), ms # <<>>, NEW ret, NEW t \in All
    PROVE  TakenBy(TakenBy(ret, <<Head(ms)>>), Tail(ms))[t] = TakenBy(ret, ms)[t]
<1> DEFINE h  == <<Head(ms)>>
           tl == Tail(ms)
           r1 == TakenBy(ret, h)
<1>1. /\ Len(ms) \in Nat /\ Len(ms) >= 1 /\ DOMAIN ms = 1 .. Len(ms)
      /\ tl \in Seq(S) /\ DOMAIN tl = 1 .. Len(ms) - 1
      /\ \A i \in 1 .. Len(ms) - 1 : tl[i] = ms[i + 1]
  BY EmptySeq, LenProperties, HeadTailProperties
<1>2. h \in Seq(S) /\ DOMAIN h = {1} /\ h[1] = ms[1]
  BY HeadTailProperties
<1> HIDE DEF h, tl
<1>3. CASE Has(tl, t)
  <2>1. PICK i : IsLast(tl, t, i)
    BY <1>1, <1>3, LastOfIsLast
  <2>2. i \in 1 .. Len(ms) - 1 /\ tl[i] = ms[i + 1] /\ i + 1 \in DOMAIN ms
    BY <1>1, <2>1 DEF IsLast
  <2>3. \A k \in DOMAIN ms : ms[k].topic = t => k <= i + 1
    <3> SUFFICES ASSUME NEW k \in DOMAIN ms, ms[k].topic = t, ~(k <= i + 1) PROVE FALSE
      OBVIOUS
    <3>1. k - 1 \in DOMAIN tl /\ tl[k - 1] = ms[k]
      BY <1>1, <2>2
    <3>2. k - 1 <= i
      BY <2>1, <3>1 DEF IsLast
    <3> QED
      BY <1>1, <2>2, <3>2
  <2>4. IsLast(ms, t, i + 1)
    BY <2>1, <2>2, <2>3 DEF IsLast
  <2>5. TakenBy(ret, ms)[t] = ms[i + 1].value
    BY <2>4, TakenByLast
  <2>6. TakenBy(r1, tl)[t] = tl[i].value
    BY <1>1, <2>1, TakenByLast
  <2> QED
    BY <2>2, <2>5, <2>6 DEF tl, h
<1>4. CASE ~Has(tl, t)
  <2>1. TakenBy(r1, tl)[t] = r1[t]
    BY <1>1, <1>4, TakenByLast
  <2>2. \A k \in DOMAIN ms : ms[k].topic = t => k = 1
    <3> SUFFICES ASSUME NEW k \in DOMAIN ms, ms[k].topic = t, k # 1 PROVE FALSE
      OBVIOUS
    <3>1. k - 1 \in DOMAIN tl /\ tl[k - 1] = ms[k]
      BY <1>1
    <3> QED
      BY <1>4, <3>1 DEF Has
  <2>3. CASE ms[1].topic = t
    <3>1. IsLast(ms, t, 1) /\ IsLast(h, t, 1)
      BY <1>1, <1>2, <2>2, <2>3 DEF IsLast
    <3>2. TakenBy(ret, ms)[t] = ms[1].value
      BY <3>1, TakenByLast
    <3>3. r1[t] = h[1].value
      BY <1>2, <3>1, TakenByLast
    <3> QED
      BY <1>2, <2>1, <3>2, <3>3 DEF h, tl
  <2>4. CASE ms[1].topic # t
    <3>1. ~Has(ms, t) /\ ~Has(h, t)
      BY <1>1, <1>2, <2>2, <2>4 DEF Has
    <3>2. TakenBy(ret, ms)[t] = ret[t]
      BY <3>1, TakenByLast
    <3>3. r1[t] = ret[t]
      BY <1>2, <3>1, TakenByLast
    <3> QED
      BY <2>1, <3>2, <3>3 DEF h, tl
  <2> QED
    BY <2>3, <2>4
<1> QED
  BY <1>3, <1>4 DEF h, tl

Messages == [topic : All \cup {Beat}, value : Payloads]

LEMMA TakenByIsTyped ==
    ASSUME NEW ms \in Seq(Messages), NEW ret \in [All -> Payloads]
    PROVE  TakenBy(ret, ms) \in [All -> Payloads]
<1>1. ASSUME NEW t \in All
      PROVE  TakenBy(ret, ms)[t] \in Payloads
  <2>1. CASE Has(ms, t)
    <3>1. PICK i : IsLast(ms, t, i)
      BY <2>1, LastOfIsLast
    <3>2. TakenBy(ret, ms)[t] = ms[i].value
      BY <3>1, TakenByLast
    <3>3. ms[i] \in Messages
      BY <3>1 DEF IsLast
    <3> QED
      BY <3>2, <3>3 DEF Messages
  <2>2. CASE ~Has(ms, t)
    <3>1. TakenBy(ret, ms)[t] = ret[t]
      BY <2>2, TakenByLast
    <3> QED
      BY <3>1
  <2> QED
    BY <2>1, <2>2
<1>2. TakenBy(ret, ms) = [t \in All |-> TakenBy(ret, ms)[t]]
  BY DEF TakenBy
<1> QED
  BY <1>1, <1>2

LEMMA FirstOnes ==
    ASSUME NEW S, NEW q \in Seq(S), NEW n \in 0 .. Len(q)
    PROVE  SubSeq(q, 1, n) \in Seq(S)
<1>1. \A i \in 1 .. n : q[i] \in S
  BY ElementOfSeq
<1> QED
  BY <1>1, SubSeqProperties

-----------------------------------------------------------------------------
(* The invariant.                                                           *)

\* A replay that can still succeed has said every topic or is going to; otherwise
\* another one is on order.
ReplayIsComplete ==
    at = "replaying" /\ connected /\ clean /\ ~due =>
        \A t \in State : \/ t \in restored
                         \/ \E i \in DOMAIN rest : rest[i].topic = t /\ rest[i].value # Empty

Faithful == TypeOK /\ CacheIsTrue /\ PartialIsRepaired /\ ReplayIsComplete

Rests == [topic : State, value : Values \cup {Empty}]

LEMMA ReplayIsTyped ==
    ASSUME TypeOK
    PROVE  /\ Saying(Topics) \in Seq(Rests) /\ Saying(Periodic) \in Seq(Rests)
           /\ Clearing \in Seq(Rests) /\ Clearing \o Saying(Topics) \in Seq(Rests)
<1>1. ASSUME NEW q \in Seq(State) PROVE Saying(q) \in Seq(Rests)
  <2>1. \A i \in 1 .. Len(q) : q[i] \in State /\ said[q[i]] \in Values
    BY DEF TypeOK
  <2>2. \A i \in 1 .. Len(q) : Msg(q[i], said[q[i]]) \in Rests
    BY <2>1 DEF Msg, Rests
  <2>3. DOMAIN q = 1 .. Len(q) /\ Len(q) \in Nat
    BY LenProperties
  <2> QED
    BY <2>2, <2>3 DEF Saying
<1>2. Clearing \in Seq(Rests)
  <2>1. \A i \in 1 .. Len(Cleared) : Cleared[i] \in State
    BY TopicsAssumption
  <2>2. \A i \in 1 .. Len(Cleared) : Msg(Cleared[i], Empty) \in Rests
    BY <2>1 DEF Msg, Rests
  <2>3. DOMAIN Cleared = 1 .. Len(Cleared) /\ Len(Cleared) \in Nat
    BY LenProperties, TopicsAssumption
  <2> QED
    BY <2>2, <2>3 DEF Clearing
<1> QED
  BY <1>1, <1>2, TopicsAssumption, ConcatProperties

LEMMA ReplaySaysAll ==
    ASSUME TypeOK, NEW t \in State
    PROVE  LET q == Clearing \o Saying(Topics)
           IN \E i \in DOMAIN q : q[i].topic = t /\ q[i].value # Empty
<1> DEFINE c == Clearing
           y == Saying(Topics)
           q == c \o y
<1>1. c \in Seq(Rests) /\ y \in Seq(Rests)
  BY ReplayIsTyped
<1>2. PICK j \in DOMAIN Topics : Topics[j] = t
  BY DEF State, Of
<1>3. j \in DOMAIN y /\ y[j] = Msg(t, said[t]) /\ said[t] \in Values
  BY <1>2 DEF Saying, TypeOK
<1> HIDE DEF c, y
<1>4. /\ DOMAIN q = 1 .. Len(c) + Len(y) /\ j \in 1 .. Len(y)
      /\ Len(c) \in Nat /\ Len(y) \in Nat
      /\ q[Len(c) + j] = y[j]
  BY <1>1, <1>3
<1>5. Len(c) + j \in DOMAIN q
  BY <1>4
<1>6. y[j].topic = t /\ y[j].value # Empty
  BY <1>3, ValuesAssumption DEF Msg
<1> HIDE DEF q
<1>7. \E i \in DOMAIN q : q[i].topic = t /\ q[i].value # Empty
  BY <1>4, <1>5, <1>6
<1> QED
  BY <1>7 DEF q, c, y

\* A publish of retained state: the cache and the queue change together.
LEMMA PublishIsFaithful ==
    ASSUME TypeOK, CacheIsTrue, NEW t \in All, NEW v \in Payloads, Publish(t, v),
           UNCHANGED <<connected, retained>>
    PROVE  /\ outbox' \in Seq(Messages) /\ Len(outbox') <= QueueMax
           /\ cache' \in [All -> Payloads \cup {None}] /\ clean' \in BOOLEAN
           /\ CacheIsTrue'
<1>0. outbox \in Seq(Messages) /\ Len(outbox) <= QueueMax
  BY DEF TypeOK, Messages
<1>1. clean' \in BOOLEAN
  BY DEF Publish, TypeOK
<1>2. CASE Silent(t, v) \/ Rejected(t, v)
  <2>1. outbox' = outbox /\ cache' = cache
    BY <1>2 DEF Publish
  <2> QED
    BY <1>0, <1>1, <2>1 DEF TypeOK, CacheIsTrue
<1>3. CASE ~(Silent(t, v) \/ Rejected(t, v))
  <2>1. outbox' = Append(outbox, Msg(t, v)) /\ cache' = [cache EXCEPT ![t] = v]
    BY <1>3 DEF Publish
  <2>2. Len(outbox) < QueueMax
    BY <1>0, <1>3, BoundsAssumption DEF Rejected
  <2>3. Msg(t, v) \in Messages /\ Msg(t, v).topic = t /\ Msg(t, v).value = v
    BY DEF Msg, Messages
  <2>4. outbox' \in Seq(Messages) /\ Len(outbox') <= QueueMax
    BY <1>0, <2>1, <2>2, <2>3, BoundsAssumption
  <2>5. cache' \in [All -> Payloads \cup {None}]
    BY <2>1 DEF TypeOK
  <2>6. \A u \in All : TakenBy(retained, outbox')[u] =
                          IF t = u THEN v ELSE TakenBy(retained, outbox)[u]
    BY <1>0, <2>1, <2>3, TakenByAppend
  <2>7. \A u \in All : cache'[u] = IF t = u THEN v ELSE cache[u]
    BY <2>1 DEF TypeOK
  <2>8. CacheIsTrue'
    BY <2>6, <2>7 DEF CacheIsTrue
  <2> QED
    BY <1>1, <2>4, <2>5, <2>8
<1> QED
  BY <1>2, <1>3

-----------------------------------------------------------------------------
(* It holds at the start, and every action keeps it.                        *)

\* Saying something of one topic leaves the cache of the others alone.
LEMMA PublishesOnly ==
    ASSUME TypeOK, NEW t, NEW v, Publish(t, v), NEW u \in All, u # t
    PROVE  cache'[u] = cache[u]
<1>1. CASE cache' = cache
  BY <1>1
<1>2. CASE cache' = [cache EXCEPT ![t] = v]
  BY <1>2 DEF TypeOK
<1> QED
  BY <1>1, <1>2 DEF Publish

LEMMA InitFaithful == Init => Faithful
<1> SUFFICES ASSUME Init PROVE Faithful
  OBVIOUS
<1>1. said \in [State -> Values]
  BY ValuesAssumption DEF Init
<1>2. cache \in [All -> Payloads \cup {None}] /\ \A t \in All : cache[t] = None
  BY DEF Init
<1>3. retained \in [All -> Payloads]
  BY DEF Init, Payloads
<1>4. <<>> \in Seq(Messages) /\ <<>> \in Seq(Rests) /\ Len(<<>>) = 0
  OBVIOUS
<1>5. /\ outbox \in Seq(Messages) /\ rest \in Seq(Rests)
      /\ Len(outbox) <= QueueMax /\ losses \in 0 .. MaxLosses /\ changes \in 0 .. MaxChanges
  <2>1. Len(outbox) = 0 /\ losses = 0 /\ changes = 0
    BY <1>4 DEF Init
  <2>2. outbox \in Seq(Messages) /\ rest \in Seq(Rests)
    BY <1>4 DEF Init
  <2> QED
    BY <2>1, <2>2, BoundsAssumption
<1>6. /\ connected \in BOOLEAN /\ beat \in BOOLEAN /\ due \in BOOLEAN /\ clean \in BOOLEAN
  BY DEF Init
<1>7. /\ at \in {"idle", "ticked", "replaying", "publishing"}
      /\ link \in {"down", "up", "wedged"} /\ restored \subseteq State
  BY DEF Init
<1>8. TypeOK
  BY <1>1, <1>2, <1>3, <1>5, <1>6, <1>7 DEF TypeOK, Messages, Rests
<1> QED
  BY <1>8 DEF Init, Faithful, CacheIsTrue, PartialIsRepaired, ReplayIsComplete

LEMMA SayKeeps == Faithful /\ Say => Faithful'
<1> SUFFICES ASSUME Faithful, NEW t \in State, NEW v \in Values,
                    at = "idle", changes < MaxChanges, changes' = changes + 1,
                    said' = [said EXCEPT ![t] = v], Publish(t, v),
                    UNCHANGED <<connected, beat, due, at, rest, link, retained, restored, losses>>
             PROVE  Faithful'
  BY DEF Say
<1> USE DEF Faithful
<1>1. t \in All /\ v \in Payloads
  BY DEF All, Payloads
<1>2. /\ outbox' \in Seq(Messages) /\ Len(outbox') <= QueueMax
      /\ cache' \in [All -> Payloads \cup {None}] /\ clean' \in BOOLEAN /\ CacheIsTrue'
  BY <1>1, PublishIsFaithful
<1>3. TypeOK'
  <2>1. said' \in [State -> Values] /\ changes' \in 0 .. MaxChanges
    BY BoundsAssumption DEF TypeOK
  <2> QED
    BY <1>2, <2>1 DEF TypeOK, Messages
<1>4. cache'[Avail] = cache[Avail]
  <2>1. t # Avail
    BY TopicsAssumption
  <2> QED
    BY <2>1, PublishesOnly DEF All
<1>5. PartialIsRepaired' /\ ReplayIsComplete'
  BY <1>4 DEF PartialIsRepaired, ReplayIsComplete
<1> QED
  BY <1>2, <1>3, <1>5

LEMMA BeatsKeeps == Faithful /\ Beats => Faithful'
<1> SUFFICES ASSUME Faithful, Beats PROVE Faithful'
  OBVIOUS
<1> USE DEF Faithful
<1>1. /\ at = "idle" /\ at' = "ticked" /\ beat' = TRUE /\ Len(outbox) < QueueMax
      /\ outbox' = Append(outbox, Msg(Beat, Empty))
      /\ UNCHANGED <<said, connected, cache, due, rest, clean, link, retained, restored,
                     losses, changes>>
  BY DEF Beats, Watches, bounds
<1>2. outbox \in Seq(Messages) /\ Msg(Beat, Empty) \in Messages
      /\ Msg(Beat, Empty).topic = Beat
  BY DEF TypeOK, Messages, Msg, Payloads
<1>3. TypeOK'
  <2>1. outbox' \in Seq(Messages) /\ Len(outbox') <= QueueMax
    BY <1>1, <1>2, BoundsAssumption
  <2>2. beat' \in BOOLEAN /\ at' \in {"idle", "ticked", "replaying", "publishing"}
    BY <1>1
  <2> QED
    BY <1>1, <2>1, <2>2 DEF TypeOK, Messages
<1>4. Beat \notin All
  BY TopicsAssumption DEF All, Beat, Avail
<1>5. \A u \in All : TakenBy(retained, outbox')[u] = TakenBy(retained, outbox)[u]
  BY <1>1, <1>2, <1>4, TakenByAppend
<1>6. CacheIsTrue' /\ PartialIsRepaired' /\ ReplayIsComplete'
  BY <1>1, <1>5 DEF CacheIsTrue, PartialIsRepaired, ReplayIsComplete
<1> QED
  BY <1>3, <1>6

\* Disconnected, nothing is claimed.
LEMMA DisconnectedIsFaithful ==
    ASSUME TypeOK', connected' = FALSE
    PROVE  Faithful'
  BY DEF Faithful, CacheIsTrue, PartialIsRepaired, ReplayIsComplete

LEMMA RestartKeeps == Faithful /\ (Restart \/ RestartFails) => Faithful'
<1> SUFFICES ASSUME Faithful, Restart \/ RestartFails PROVE Faithful'
  OBVIOUS
<1> USE DEF Faithful
<1>1. CASE Restart
  <2>1. /\ at' = "ticked" /\ connected' = FALSE /\ beat' = FALSE
        /\ link' = "down" /\ outbox' = <<>>
        /\ UNCHANGED <<said, cache, due, rest, clean, restored, losses, changes>>
    BY <1>1 DEF Restart, Watches, Replaced, bounds
  <2>2. retained' \in [All -> Payloads]
    <3>1. PICK n \in 0 .. Len(outbox) :
             LET r == TakenBy(retained, SubSeq(outbox, 1, n))
             IN  retained' \in {r, [r EXCEPT ![Avail] = "offline"]}
      BY <1>1 DEF Restart, Replaced
    <3>2. SubSeq(outbox, 1, n) \in Seq(Messages)
      BY FirstOnes DEF TypeOK, Messages
    <3>3. TakenBy(retained, SubSeq(outbox, 1, n)) \in [All -> Payloads]
      BY <3>2, TakenByIsTyped DEF TypeOK
    <3>4. "offline" \in Payloads
      BY DEF Payloads
    <3> QED
      BY <3>1, <3>3, <3>4
  <2>3. <<>> \in Seq(Messages) /\ Len(<<>>) = 0
    OBVIOUS
  <2>4. outbox' \in Seq(Messages) /\ Len(outbox') <= QueueMax
    BY <2>1, <2>3, BoundsAssumption
  <2>5. /\ connected' \in BOOLEAN /\ beat' \in BOOLEAN
        /\ at' \in {"idle", "ticked", "replaying", "publishing"}
        /\ link' \in {"down", "up", "wedged"}
    BY <2>1
  <2>6. TypeOK'
    BY <2>1, <2>2, <2>4, <2>5 DEF TypeOK, Messages
  <2> QED
    BY <2>1, <2>6, DisconnectedIsFaithful
<1>2. CASE RestartFails
  <2>1. /\ losses < MaxLosses /\ losses' = losses + 1
        /\ at' = "ticked" /\ connected' = FALSE /\ beat' = FALSE
        /\ UNCHANGED <<said, cache, due, rest, clean, link, outbox, retained, restored, changes>>
    BY <1>2 DEF RestartFails, Watches, network
  <2>2. losses' \in 0 .. MaxLosses
    BY <2>1, BoundsAssumption DEF TypeOK
  <2>3. /\ connected' \in BOOLEAN /\ beat' \in BOOLEAN
        /\ at' \in {"idle", "ticked", "replaying", "publishing"}
    BY <2>1
  <2>4. TypeOK'
    BY <2>1, <2>2, <2>3 DEF TypeOK
  <2> QED
    BY <2>1, <2>4, DisconnectedIsFaithful
<1> QED
  BY <1>1, <1>2

LEMMA ConsumeKeeps == Faithful /\ Consume => Faithful'
<1> SUFFICES ASSUME Faithful, Consume PROVE Faithful'
  OBVIOUS
<1> USE DEF Faithful
<1>1. /\ at = "ticked" /\ due' = FALSE
      /\ UNCHANGED <<said, connected, cache, beat, link, outbox, retained, restored,
                     losses, changes>>
  BY DEF Consume, network, bounds
<1>2. CacheIsTrue'
  BY <1>1 DEF CacheIsTrue
<1>3. CASE due
  <2>1. at' = "replaying" /\ rest' = Clearing \o Saying(Topics) /\ clean' = TRUE
    BY <1>3 DEF Consume
  <2>2. TypeOK'
    BY <1>1, <2>1, ReplayIsTyped DEF TypeOK, Rests
  <2>3. PartialIsRepaired'
    BY <2>1 DEF PartialIsRepaired
  <2>4. ReplayIsComplete'
    BY <2>1, ReplaySaysAll DEF ReplayIsComplete
  <2> QED
    BY <1>2, <2>2, <2>3, <2>4
<1>4. CASE ~due
  <2>1. at' = "publishing" /\ rest' = Saying(Periodic) /\ clean' = clean
    BY <1>4 DEF Consume
  <2>2. TypeOK'
    BY <1>1, <2>1, ReplayIsTyped DEF TypeOK, Rests
  <2>3. PartialIsRepaired' /\ ReplayIsComplete'
    BY <1>1, <1>4, <2>1 DEF PartialIsRepaired, ReplayIsComplete
  <2> QED
    BY <1>2, <2>2, <2>3
<1> QED
  BY <1>3, <1>4

LEMMA PublishNextKeeps == Faithful /\ PublishNext => Faithful'
<1> SUFFICES ASSUME Faithful, PublishNext PROVE Faithful'
  OBVIOUS
<1> USE DEF Faithful
<1> DEFINE m == Head(rest)
<1>1. /\ rest # <<>> /\ rest' = Tail(rest) /\ Publish(m.topic, m.value)
      /\ restored' = IF at = "replaying" /\ m.value # Empty /\ connected
                           /\ ~Rejected(m.topic, m.value)
                       THEN restored \cup {m.topic} ELSE restored
      /\ UNCHANGED <<said, connected, beat, due, at, link, retained, losses, changes>>
  BY DEF PublishNext, bounds
<1>2. rest \in Seq(Rests) /\ m \in Rests /\ rest' \in Seq(Rests) /\ rest[1] = m
      /\ Len(rest) \in Nat /\ DOMAIN rest = 1 .. Len(rest)
      /\ DOMAIN rest' = 1 .. Len(rest) - 1
      /\ \A i \in 1 .. Len(rest) - 1 : rest'[i] = rest[i + 1]
  <2>1. rest \in Seq(Rests)
    BY DEF TypeOK, Rests
  <2>2. m \in Rests /\ rest' \in Seq(Rests) /\ Len(rest') = Len(rest) - 1
        /\ \A i \in 1 .. Len(rest') : rest'[i] = rest[i + 1]
    BY <1>1, <2>1, HeadTailProperties
  <2> QED
    BY <2>1, <2>2, LenProperties
<1> HIDE DEF m
<1>3. m.topic \in State /\ m.topic \in All /\ m.value \in Payloads
  BY <1>2 DEF Rests, All, Payloads
<1>4. /\ outbox' \in Seq(Messages) /\ Len(outbox') <= QueueMax
      /\ cache' \in [All -> Payloads \cup {None}] /\ clean' \in BOOLEAN /\ CacheIsTrue'
  BY <1>1, <1>3, PublishIsFaithful
<1>5. TypeOK'
  <2>1. restored' \subseteq State
    BY <1>1, <1>3 DEF TypeOK
  <2> QED
    BY <1>1, <1>2, <1>4, <2>1 DEF TypeOK, Messages, Rests
<1>6. cache'[Avail] = cache[Avail]
  <2>1. m.topic # Avail
    BY <1>3, TopicsAssumption
  <2> QED
    BY <1>1, <2>1, PublishesOnly DEF All
<1>7. PartialIsRepaired'
  BY <1>1, <1>6 DEF PartialIsRepaired
<1>8. ReplayIsComplete'
  <2> SUFFICES ASSUME at = "replaying", connected, clean', ~due, NEW t \in State
               PROVE  \/ t \in restored'
                      \/ \E i \in DOMAIN rest' : rest'[i].topic = t /\ rest'[i].value # Empty
    BY <1>1 DEF ReplayIsComplete
  <2>1. clean /\ ~Rejected(m.topic, m.value)
    BY <1>1 DEF Publish
  <2>2. CASE t \in restored
    BY <1>1, <2>2
  <2>3. CASE t \notin restored
    <3>1. PICK i \in DOMAIN rest : rest[i].topic = t /\ rest[i].value # Empty
      BY <2>1, <2>3 DEF ReplayIsComplete
    <3>2. CASE i = 1
      BY <1>1, <1>2, <2>1, <3>1, <3>2
    <3>3. CASE i # 1
      <4>1. i - 1 \in DOMAIN rest' /\ rest'[i - 1] = rest[i]
        BY <1>2, <3>3
      <4> QED
        BY <3>1, <4>1
    <3> QED
      BY <3>2, <3>3
  <2> QED
    BY <2>2, <2>3
<1> QED
  BY <1>4, <1>5, <1>7, <1>8

LEMMA FinishKeeps == Faithful /\ Finish => Faithful'
<1> SUFFICES ASSUME Faithful, Finish PROVE Faithful'
  OBVIOUS
<1> USE DEF Faithful
<1> DEFINE succeeds == clean /\ connected /\ ~Rejected(Avail, "online")
<1>1. /\ at = "replaying" /\ rest = <<>> /\ at' = "idle"
      /\ IF succeeds THEN Publish(Avail, "online") ELSE UNCHANGED <<outbox, cache, clean>>
      /\ due' = (due \/ (~succeeds /\ connected))
      /\ UNCHANGED <<said, connected, beat, rest, link, retained, restored, losses, changes>>
  BY DEF Finish, bounds
<1> HIDE DEF succeeds
<1>2. /\ outbox' \in Seq(Messages) /\ Len(outbox') <= QueueMax
      /\ cache' \in [All -> Payloads \cup {None}] /\ clean' \in BOOLEAN /\ CacheIsTrue'
  <2>1. CASE succeeds
    <3>1. Avail \in All /\ "online" \in Payloads
      BY DEF All, Payloads
    <3> QED
      BY <1>1, <2>1, <3>1, PublishIsFaithful
  <2>2. CASE ~succeeds
    BY <1>1, <2>2 DEF TypeOK, CacheIsTrue, Messages
  <2> QED
    BY <2>1, <2>2
<1>3. due' \in BOOLEAN
  BY <1>1
<1>4. TypeOK'
  BY <1>1, <1>2, <1>3 DEF TypeOK, Messages
<1>5. PartialIsRepaired'
  <2> SUFFICES ASSUME connected, ~due', restored # State PROVE FALSE
    BY <1>1 DEF PartialIsRepaired
  <2>1. succeeds /\ ~due
    BY <1>1
  <2>2. clean /\ connected
    BY <2>1 DEF succeeds
  <2>3. \A t \in State : t \in restored
    BY <1>1, <2>1, <2>2 DEF ReplayIsComplete
  <2> QED
    BY <2>3 DEF TypeOK
<1>6. ReplayIsComplete'
  BY <1>1 DEF ReplayIsComplete
<1> QED
  BY <1>2, <1>4, <1>5, <1>6

LEMMA AcknowledgeKeeps == Faithful /\ Acknowledge => Faithful'
<1> SUFFICES ASSUME Faithful, Acknowledge PROVE Faithful'
  OBVIOUS
<1> USE DEF Faithful
<1>1. /\ outbox # <<>> /\ outbox' = Tail(outbox)
      /\ retained' = TakenBy(retained, <<Head(outbox)>>)
      /\ beat' = (beat /\ Head(outbox).topic # Beat)
      /\ UNCHANGED <<said, connected, cache, due, at, rest, clean, link, restored,
                     losses, changes>>
  BY DEF Acknowledge, tick, bounds
<1>2. outbox \in Seq(Messages)
  BY DEF TypeOK, Messages
<1>3. /\ Head(outbox) \in Messages /\ outbox' \in Seq(Messages)
      /\ Len(outbox') = Len(outbox) - 1
  BY <1>1, <1>2, HeadTailProperties
<1>4. <<Head(outbox)>> \in Seq(Messages)
  BY <1>3
<1>5. retained' \in [All -> Payloads]
  BY <1>1, <1>4, TakenByIsTyped DEF TypeOK
<1>6. TypeOK'
  <2>1. Len(outbox') <= QueueMax
    BY <1>2, <1>3, BoundsAssumption DEF TypeOK
  <2>2. beat' \in BOOLEAN
    BY <1>1
  <2> QED
    BY <1>1, <1>3, <1>5, <2>1, <2>2 DEF TypeOK, Messages
<1>7. \A u \in All : TakenBy(retained', outbox')[u] = TakenBy(retained, outbox)[u]
  BY <1>1, <1>2, TakenByHeadTail
<1>8. CacheIsTrue' /\ PartialIsRepaired' /\ ReplayIsComplete'
  BY <1>1, <1>7 DEF CacheIsTrue, PartialIsRepaired, ReplayIsComplete
<1> QED
  BY <1>6, <1>8

LEMMA LostKeeps == Faithful /\ Lost => Faithful'
<1> SUFFICES ASSUME Faithful, Lost PROVE Faithful'
  OBVIOUS
<1> USE DEF Faithful
<1>1. /\ losses < MaxLosses /\ losses' = losses + 1
      /\ link' = "down" /\ connected' = FALSE /\ beat' = FALSE
      /\ UNCHANGED <<said, cache, due, at, rest, clean, outbox, restored, changes>>
  BY DEF Lost, tick
<1>2. retained' \in [All -> Payloads]
  <2>1. PICK n \in 0 .. Len(outbox) :
          retained' = [TakenBy(retained, SubSeq(outbox, 1, n)) EXCEPT ![Avail] = "offline"]
    BY DEF Lost
  <2>2. SubSeq(outbox, 1, n) \in Seq(Messages)
    BY FirstOnes DEF TypeOK, Messages
  <2>3. TakenBy(retained, SubSeq(outbox, 1, n)) \in [All -> Payloads]
    BY <2>2, TakenByIsTyped DEF TypeOK
  <2>4. "offline" \in Payloads
    BY DEF Payloads
  <2> QED
    BY <2>1, <2>3, <2>4
<1>3. losses' \in 0 .. MaxLosses
  BY <1>1, BoundsAssumption DEF TypeOK
<1>4. /\ connected' \in BOOLEAN /\ beat' \in BOOLEAN /\ link' \in {"down", "up", "wedged"}
  BY <1>1
<1>5. TypeOK'
  BY <1>1, <1>2, <1>3, <1>4 DEF TypeOK
<1> QED
  BY <1>1, <1>5, DisconnectedIsFaithful

LEMMA ConnectedKeeps == Faithful /\ Connected => Faithful'
<1> SUFFICES ASSUME Faithful, Connected PROVE Faithful'
  OBVIOUS
<1> USE DEF Faithful
<1>1. /\ link' = "up" /\ connected' = TRUE /\ outbox' \in {outbox, <<>>}
      /\ cache' = [t \in All |-> None] /\ due' = TRUE /\ beat' = FALSE /\ restored' = {}
      /\ UNCHANGED <<said, at, rest, clean, retained, losses, changes>>
  BY DEF Connected, tick, bounds
<1>2. outbox' \in Seq(Messages) /\ Len(outbox') <= QueueMax
  <2>1. <<>> \in Seq(Messages) /\ Len(<<>>) = 0
    OBVIOUS
  <2>2. outbox \in Seq(Messages) /\ Len(outbox) <= QueueMax /\ 0 <= QueueMax
    BY BoundsAssumption DEF TypeOK, Messages
  <2> QED
    BY <1>1, <2>1, <2>2
<1>3. cache' \in [All -> Payloads \cup {None}] /\ \A t \in All : cache'[t] = None
  BY <1>1
<1>4. /\ connected' \in BOOLEAN /\ beat' \in BOOLEAN /\ due' \in BOOLEAN
      /\ link' \in {"down", "up", "wedged"} /\ restored' \subseteq State
  BY <1>1
<1>5. TypeOK'
  BY <1>1, <1>2, <1>3, <1>4 DEF TypeOK, Messages
<1> QED
  BY <1>1, <1>3, <1>5 DEF CacheIsTrue, PartialIsRepaired, ReplayIsComplete

LEMMA OtherStepsKeep ==
    Faithful /\ (Waits \/ Sleep \/ Stall \/ Unstall \/ UNCHANGED vars) => Faithful'
<1> SUFFICES ASSUME Faithful,
                    Waits \/ Sleep \/ Stall \/ Unstall \/ UNCHANGED vars
             PROVE  Faithful'
  OBVIOUS
<1>1. /\ UNCHANGED <<said, connected, cache, beat, due, rest, clean, outbox, retained,
                     restored, changes>>
      /\ at' = at \/ (at' \in {"ticked", "idle"} /\ at # "replaying")
      /\ link' \in {"down", "up", "wedged"}
      /\ losses' \in 0 .. MaxLosses
  BY BoundsAssumption DEF Faithful, TypeOK, Waits, Watches, Sleep, Stall, Unstall, vars,
                          publisher, tick, network, bounds
<1>2. TypeOK'
  BY <1>1 DEF Faithful, TypeOK
<1> QED
  BY <1>1, <1>2 DEF Faithful, CacheIsTrue, PartialIsRepaired, ReplayIsComplete

-----------------------------------------------------------------------------
LEMMA SpecFaithful == Spec => []Faithful
<1>1. ASSUME Faithful, [Next]_vars PROVE Faithful'
  BY <1>1, SayKeeps, BeatsKeeps, RestartKeeps, ConsumeKeeps, PublishNextKeeps, FinishKeeps,
     AcknowledgeKeeps, LostKeeps, ConnectedKeeps, OtherStepsKeep
     DEF Next, Loop, Paho, Watchdog
<1> QED
  BY <1>1, InitFaithful, PTL DEF Spec

\* Paho's queue keeps its limit, and every variable its values, also across
\* replacements of the client.
THEOREM TransportTypeCorrect == Spec => []TypeOK
<1>1. Faithful => TypeOK
  BY DEF Faithful
<1> QED
  BY <1>1, SpecFaithful, PTL

\* A publish is never left out for a value the broker neither has nor is going to get
\* on this connection, whatever is rejected, lost, stalled, sent again or replaced.
THEOREM CacheStaysTrue == Spec => []CacheIsTrue
<1>1. Faithful => CacheIsTrue
  BY DEF Faithful
<1> QED
  BY <1>1, SpecFaithful, PTL

\* If the bridge has said that it is online without everything having been published on
\* this connection, another replay is on order: none of the ways in which a replay can
\* be incomplete goes unnoticed.
THEOREM PartialReplayIsRepaired == Spec => []PartialIsRepaired
<1>1. Faithful => PartialIsRepaired
  BY DEF Faithful
<1> QED
  BY <1>1, SpecFaithful, PTL
===============================================================================
