-------------------------- MODULE ControlQueue_proofs --------------------------
(***************************************************************************)
(* A frame is sent only in the session of its request, nobody else's frame *)
(* comes between two segments of an interaction, the keypad is always      *)
(* given back by somebody, no request is lost or doubled, and presses keep *)
(* their order: proofs for every set of interactions and requests and all  *)
(* bounds.                                                                 *)
(***************************************************************************)
EXTENDS ControlQueue, SequenceTheorems, FiniteSetTheorems, WellFoundedInduction, TLAPS

-----------------------------------------------------------------------------
(* The invariant: what is known of a request from its stamp, and of the     *)
(* keypad from its owner.                                                   *)

\* No session: the next one begins with another generation.
Between == ~connected /\ loop \notin {"start", "started"}

\* The stamp of a request that was not taken in the session the request was made
\* in belongs to no session, or will when the next one begins.
Sound == {r \in Request : /\ r.gen <= generation
                          /\ (r.gen = r.born \/ r.gen < generation \/ Between)}
Stamped ==
    /\ queue \in Seq(Sound) /\ deferred \in Seq(Sound)
    /\ hand \in Sound \cup {None}
    /\ producer.at \in {"admit", "stamp"} => producer.req.born = generation \/ Between
    /\ producer.at # "idle" => producer.req \in Request
    /\ producer.at = "put" => producer.req \in Sound
    /\ worker \in {"choose", "decide", "lock", "ack"} => hand # None
    /\ worker = "idle" => hand = None
    /\ worker # "restore" => deferred = <<>>

\* What the MQTT thread carries gives the keypad back only if it reserved it.
Holds(o, r)  == r.who = o /\ r.kind \in {"key", "plan"}
HeldIn(o, s) == \E i \in DOMAIN s : Holds(o, s[i])
Carries(o)   == producer.at \in {"stamp", "put"} /\ producer.created /\ Holds(o, producer.req)
Kept ==
    /\ owner # NoId => \/ opened = owner \/ Carries(owner)
                       \/ HeldIn(owner, queue) \/ HeldIn(owner, deferred)
                       \/ (hand # None /\ Holds(owner, hand))
    /\ opened # NoId => opened = owner
    /\ opened # NoId /\ hand # None /\ worker \in {"restore", "decide", "lock"} => hand.who = opened

\* What the theorems rest on.
Orderly == TypeOK /\ Stamped /\ Kept

-----------------------------------------------------------------------------
(* Sequences.                                                               *)

LEMMA HasMinimum ==
    ASSUME NEW S, S \subseteq Nat, S # {}
    PROVE  \E i \in S : \A k \in S : i <= k
<1> DEFINE R == OpToRel(<, Nat)
<1>1. IsWellFoundedOn(R, Nat)
  BY NatLessThanWellFounded
<1> HIDE DEF R
<1>2. PICK i \in S : \A k \in S : ~(<<k, i>> \in R)
  BY <1>1, WFMin
<1>3. \A k \in S : k \in Nat /\ i \in Nat
  OBVIOUS
<1>4. \A k \in S : ~(k < i)
  BY <1>2, <1>3 DEF R, OpToRel
<1> QED
  BY <1>3, <1>4

\* Taking one element out: those behind it move up.
LEMMA RemoveAtElements ==
    ASSUME NEW S, NEW s \in Seq(S), NEW i \in 1 .. Len(s)
    PROVE  /\ RemoveAt(s, i) \in Seq(S) /\ DOMAIN RemoveAt(s, i) = 1 .. (Len(s) - 1)
           /\ \A k \in 1 .. (Len(s) - 1) :
                 RemoveAt(s, i)[k] = IF k < i THEN s[k] ELSE s[k + 1]
<1> DEFINE n == Len(s)
           a == SubSeq(s, 1, i - 1)
           b == SubSeq(s, i + 1, n)
<1>1. n \in Nat /\ DOMAIN s = 1 .. n /\ \A k \in 1 .. n : s[k] \in S
  BY LenProperties, ElementOfSeq
<1>2. a \in Seq(S) /\ Len(a) = i - 1 /\ \A k \in 1 .. (i - 1) : a[k] = s[k]
  <2>1. \A k \in 1 .. (i - 1) : s[k] \in S
    BY <1>1
  <2>2. 1 \in Int /\ i - 1 \in Int
    BY <1>1
  <2>3. /\ a \in Seq(S) /\ Len(a) = IF 1 <= i - 1 THEN (i - 1) - 1 + 1 ELSE 0
        /\ \A k \in 1 .. ((i - 1) - 1 + 1) : a[k] = s[1 + k - 1]
    BY <2>1, <2>2, SubSeqProperties
  <2> HIDE DEF a
  <2>4. (i - 1) - 1 + 1 = i - 1 /\ (IF 1 <= i - 1 THEN i - 1 ELSE 0) = i - 1
    BY <1>1
  <2>5. \A k \in 1 .. (i - 1) : 1 + k - 1 = k
    BY <1>1
  <2> QED
    BY <2>3, <2>4, <2>5
<1>3. b \in Seq(S) /\ Len(b) = n - i /\ \A k \in 1 .. (n - i) : b[k] = s[i + k]
  <2>1. \A k \in (i + 1) .. n : s[k] \in S
    BY <1>1
  <2>2. i + 1 \in Int /\ n \in Int
    BY <1>1
  <2>3. /\ b \in Seq(S) /\ Len(b) = IF i + 1 <= n THEN n - (i + 1) + 1 ELSE 0
        /\ \A k \in 1 .. (n - (i + 1) + 1) : b[k] = s[(i + 1) + k - 1]
    BY <2>1, <2>2, SubSeqProperties
  <2> HIDE DEF b, n
  <2>4. n - (i + 1) + 1 = n - i /\ (IF i + 1 <= n THEN n - i ELSE 0) = n - i
    BY <1>1
  <2>5. \A k \in 1 .. (n - i) : (i + 1) + k - 1 = i + k
    BY <1>1
  <2> QED
    BY <2>3, <2>4, <2>5
<1> HIDE DEF a, b
<1>4. /\ a \o b \in Seq(S) /\ Len(a \o b) = n - 1
      /\ \A k \in 1 .. (n - 1) :
            (a \o b)[k] = IF k <= i - 1 THEN a[k] ELSE b[k - (i - 1)]
  <2>1. /\ a \o b \in Seq(S) /\ Len(a \o b) = Len(a) + Len(b)
        /\ \A k \in 1 .. Len(a) + Len(b) :
              (a \o b)[k] = IF k <= Len(a) THEN a[k] ELSE b[k - Len(a)]
    BY <1>2, <1>3, ConcatProperties
  <2>2. (i - 1) + (n - i) = n - 1
    BY <1>1
  <2> QED
    BY <1>2, <1>3, <2>1, <2>2
<1>5. DOMAIN (a \o b) = 1 .. (n - 1)
  BY <1>4, LenProperties
<1>6. ASSUME NEW k \in 1 .. (n - 1)
      PROVE  (a \o b)[k] = IF k < i THEN s[k] ELSE s[k + 1]
  <2> HIDE DEF n
  <2>1. CASE k < i
    <3>1. k \in 1 .. (i - 1) /\ k <= i - 1
      BY <1>1, <2>1
    <3> QED
      BY <1>2, <1>4, <2>1, <3>1
  <2>2. CASE ~(k < i)
    <3>1. k - (i - 1) \in 1 .. (n - i) /\ ~(k <= i - 1) /\ i + (k - (i - 1)) = k + 1
      BY <1>1, <2>2
    <3> QED
      BY <1>3, <1>4, <2>2, <3>1
  <2> QED
    BY <2>1, <2>2
<1> QED
  BY <1>4, <1>5, <1>6 DEF RemoveAt, a, b

\* It leaves the others, in their order, and brings nothing in.
LEMMA RemoveAtProperties ==
    ASSUME NEW S, NEW s \in Seq(S), NEW i \in 1 .. Len(s)
    PROVE  /\ RemoveAt(s, i) \in Seq(S)
           /\ \A k \in 1 .. Len(s) \ {i} :
                 \E j \in DOMAIN RemoveAt(s, i) : RemoveAt(s, i)[j] = s[k]
<1> DEFINE n == Len(s)
<1>1. n \in Nat /\ i \in 1 .. n
  BY LenProperties
<1>2. /\ RemoveAt(s, i) \in Seq(S) /\ DOMAIN RemoveAt(s, i) = 1 .. (n - 1)
      /\ \A k \in 1 .. (n - 1) : RemoveAt(s, i)[k] = IF k < i THEN s[k] ELSE s[k + 1]
  BY RemoveAtElements
<1>3. ASSUME NEW k \in 1 .. n \ {i}
      PROVE  \E j \in DOMAIN RemoveAt(s, i) : RemoveAt(s, i)[j] = s[k]
  <2> HIDE DEF n
  <2>1. CASE k < i
    <3>1. k \in 1 .. (n - 1)
      BY <1>1, <2>1
    <3> QED
      BY <1>2, <2>1, <3>1
  <2>2. CASE ~(k < i)
    <3>1. k - 1 \in 1 .. (n - 1) /\ ~(k - 1 < i) /\ (k - 1) + 1 = k
      BY <1>1, <2>2
    <3> QED
      BY <1>2, <3>1
  <2> QED
    BY <2>1, <2>2
<1> QED
  BY <1>2, <1>3

\* What is put at the end, in front, and taken from the front.
LEMMA AppendElements ==
    ASSUME NEW S, NEW s \in Seq(S), NEW r \in S
    PROVE  /\ Len(s) \in Nat /\ DOMAIN s = 1 .. Len(s)
           /\ DOMAIN Append(s, r) = 1 .. (Len(s) + 1)
           /\ \A i \in 1 .. (Len(s) + 1) :
                 Append(s, r)[i] = IF i = Len(s) + 1 THEN r ELSE s[i]
  OBVIOUS

LEMMA FrontElements ==
    ASSUME NEW S, NEW s \in Seq(S), NEW r \in S
    PROVE  /\ <<r>> \o s \in Seq(S) /\ Len(<<r>> \o s) = Len(s) + 1
           /\ Len(s) \in Nat /\ DOMAIN s = 1 .. Len(s)
           /\ DOMAIN (<<r>> \o s) = 1 .. (Len(s) + 1)
           /\ \A i \in 1 .. (Len(s) + 1) :
                 (<<r>> \o s)[i] = IF i = 1 THEN r ELSE s[i - 1]
<1>1. <<r>> \in Seq(S) /\ Len(<<r>>) = 1 /\ <<r>>[1] = r
  OBVIOUS
<1>2. /\ <<r>> \o s \in Seq(S) /\ Len(<<r>> \o s) = 1 + Len(s)
      /\ \A i \in 1 .. 1 + Len(s) :
            (<<r>> \o s)[i] = IF i <= 1 THEN <<r>>[i] ELSE s[i - 1]
  BY <1>1, ConcatProperties
<1>3. Len(s) \in Nat /\ DOMAIN s = 1 .. Len(s)
      /\ DOMAIN (<<r>> \o s) = 1 .. Len(<<r>> \o s)
  BY <1>2, LenProperties
<1> DEFINE a == <<r>> \o s
<1> HIDE DEF a
<1>4. 1 + Len(s) = Len(s) + 1
  BY <1>3
<1>5. \A i \in 1 .. (Len(s) + 1) : a[i] = IF i = 1 THEN r ELSE s[i - 1]
  BY <1>1, <1>2, <1>3 DEF a
<1> QED
  BY <1>2, <1>3, <1>4, <1>5 DEF a

LEMMA TailElements ==
    ASSUME NEW S, NEW s \in Seq(S), s # <<>>
    PROVE  /\ Len(s) \in Nat \ {0} /\ DOMAIN s = 1 .. Len(s) /\ Head(s) = s[1]
           /\ Tail(s) \in Seq(S) /\ DOMAIN Tail(s) = 1 .. (Len(s) - 1)
           /\ \A i \in 1 .. (Len(s) - 1) : Tail(s)[i] = s[i + 1]
<1>1. /\ Len(s) \in Nat /\ Len(s) >= 1 /\ DOMAIN s = 1 .. Len(s) /\ Head(s) = s[1]
      /\ Tail(s) \in Seq(S) /\ Len(Tail(s)) = Len(s) - 1
      /\ \A i \in 1 .. Len(s) - 1 : Tail(s)[i] = s[i + 1]
  BY HeadTailProperties, LenProperties
<1>2. DOMAIN Tail(s) = 1 .. (Len(s) - 1)
  BY <1>1, LenProperties
<1> QED
  BY <1>1, <1>2

LEMMA HeldInAppend ==
    ASSUME NEW o, NEW S, NEW s \in Seq(S), NEW r \in S
    PROVE  HeldIn(o, Append(s, r)) <=> HeldIn(o, s) \/ Holds(o, r)
<1>1. /\ Len(s) \in Nat /\ DOMAIN s = 1 .. Len(s)
      /\ DOMAIN Append(s, r) = 1 .. Len(s) + 1
      /\ Append(s, r)[Len(s) + 1] = r /\ \A i \in 1 .. Len(s) : Append(s, r)[i] = s[i]
  OBVIOUS
<1>2. \A i \in 1 .. Len(s) + 1 : i \in 1 .. Len(s) \/ i = Len(s) + 1
  BY <1>1
<1>3. \A i \in 1 .. Len(s) : i \in 1 .. Len(s) + 1
  BY <1>1
<1>4. Len(s) + 1 \in 1 .. Len(s) + 1
  BY <1>1
<1> QED
  BY <1>1, <1>2, <1>3, <1>4 DEF HeldIn

LEMMA HeldInTail ==
    ASSUME NEW o, NEW S, NEW s \in Seq(S), s # <<>>
    PROVE  HeldIn(o, s) <=> Holds(o, Head(s)) \/ HeldIn(o, Tail(s))
<1>1. /\ Len(s) \in Nat /\ Len(s) >= 1 /\ DOMAIN s = 1 .. Len(s) /\ Head(s) = s[1]
      /\ Tail(s) \in Seq(S) /\ Len(Tail(s)) = Len(s) - 1
      /\ \A i \in 1 .. Len(s) - 1 : Tail(s)[i] = s[i + 1]
  BY HeadTailProperties, LenProperties
<1>2. DOMAIN Tail(s) = 1 .. Len(s) - 1
  BY <1>1, LenProperties
<1>3. ASSUME NEW i \in 1 .. Len(s), Holds(o, s[i]), i # 1 PROVE HeldIn(o, Tail(s))
  <2>1. i - 1 \in 1 .. Len(s) - 1 /\ (i - 1) + 1 = i
    BY <1>1, <1>3
  <2>2. Tail(s)[i - 1] = s[i]
    BY <1>1, <2>1
  <2> QED
    BY <1>2, <1>3, <2>1, <2>2 DEF HeldIn
<1>4. ASSUME NEW i \in 1 .. Len(s) - 1, Holds(o, Tail(s)[i]) PROVE HeldIn(o, s)
  <2>1. i + 1 \in 1 .. Len(s)
    BY <1>1
  <2> QED
    BY <1>1, <1>4, <2>1 DEF HeldIn
<1>5. 1 \in 1 .. Len(s)
  BY <1>1
<1> QED
  BY <1>1, <1>2, <1>3, <1>4, <1>5 DEF HeldIn

-----------------------------------------------------------------------------
(* Answers, and the session under the requests.                             *)

\* What is sound stays so when the session is reset, lost or begun.
LEMMA SoundStays ==
    ASSUME generation \in Nat, generation' \in Nat,
           \/ generation < generation'
           \/ generation' = generation /\ (Between => Between')
    PROVE  Sound \subseteq Sound' /\ Seq(Sound) \subseteq Seq(Sound')
<1>1. ASSUME NEW r \in Sound PROVE r \in Sound'
  <2>1. r \in Request /\ r.gen \in Nat /\ r.gen <= generation
        /\ (r.gen = r.born \/ r.gen < generation \/ Between)
    BY DEF Sound, Request
  <2>2. r.gen <= generation'
    BY <2>1
  <2>3. r.gen = r.born \/ r.gen < generation' \/ Between'
    BY <2>1
  <2> QED
    BY <2>1, <2>2, <2>3 DEF Sound
<1>2. Sound \subseteq Sound'
  BY <1>1
<1> QED
  BY <1>2, SeqMonotonic

\* The end of a request: the keypad stays with its owner only if somebody else of
\* its interaction is under way, or the interaction is begun.
LEMMA AnswerProperties ==
    ASSUME TypeOK, Kept, NEW r \in Request, NEW ok \in BOOLEAN, Answer(r, ok)
    PROVE  /\ answered' \subseteq 1 .. MaxRequests
           /\ owner' \in {owner, NoId} /\ opened' \in Ids
           /\ opened' # NoId => opened' = owner'
           /\ ~ok => opened' \in {opened, NoId}
           /\ owner' # NoId => /\ opened = owner => opened' = owner'
                               /\ Holds(owner, r) => opened' = owner'
<1>1. /\ answered' = answered \cup {r.n} /\ owner' = AfterResult(r, ok)
      /\ opened' = IF ok /\ r.kind = "key" /\ ~r.last /\ owner' = r.who THEN r.who
                   ELSE Begun(owner')
  BY DEF Answer
<1>2. r.n \in 1 .. MaxRequests /\ r.who \in Ids /\ r.last \in BOOLEAN
  BY DEF Request
<1>3. owner' \in {owner, NoId}
  BY <1>1 DEF AfterResult, Released
<1>4. opened' \in {owner', NoId}
  BY <1>1 DEF Begun
<1>5. ~ok => opened' \in {opened, NoId}
  BY <1>1 DEF Begun
<1>6. owner' # NoId /\ opened = owner => opened' = owner'
  BY <1>1, <1>3 DEF Begun
<1>7. ASSUME owner' # NoId, Holds(owner, r) PROVE opened' = owner'
  <2>1. owner # NoId /\ owner' = owner /\ r.who = owner
    BY <1>3, <1>7 DEF Holds
  <2>2. ~Releases(r, ok)
    BY <1>1, <2>1, <1>7 DEF AfterResult, Released
  <2>3. r.kind = "key" /\ ~r.last /\ ok
    BY <1>7, <2>2 DEF Releases, Holds
  <2> QED
    BY <1>1, <2>1, <2>3
<1>8. answered' \subseteq 1 .. MaxRequests
  BY <1>1, <1>2 DEF TypeOK
<1>9. opened' \in Ids
  BY <1>3, <1>4 DEF TypeOK, Ids
<1> QED
  BY <1>3, <1>4, <1>5, <1>6, <1>7, <1>8, <1>9

LEMMA SameSession ==
    ASSUME UNCHANGED <<generation, connected, loop>>
    PROVE  Sound' = Sound /\ (Between' <=> Between)
  BY DEF Sound, Between

\* A producer that is typed, and what of it the other invariants speak of.
Producers == [at : {"idle", "admit", "stamp", "put"}, req : Request \cup {None},
              created : BOOLEAN]

LEMMA NoneIsTyped ==
    /\ Idle \in Producers
    /\ None \notin Request
  BY DEF Idle, Producers, None, Request

-----------------------------------------------------------------------------
(* It holds at the start, and every action keeps it.                        *)

LEMMA InitOrderly == Init => Orderly
<1> SUFFICES ASSUME Init PROVE Orderly
  OBVIOUS
<1>1. generation = 0 /\ made = 0 /\ queue = <<>> /\ deferred = <<>> /\ producer = Idle
      /\ owner = NoId /\ opened = NoId /\ worker = "idle" /\ hand = None
      /\ accepted = {} /\ answered = {} /\ undone = {} /\ loop = "free"
      /\ connected = FALSE /\ available = FALSE
  BY DEF Init
<1>2. Len(queue) <= Capacity /\ 0 \in 0 .. MaxRequests
  <2>1. Len(queue) = 0
    BY <1>1
  <2> QED
    BY <2>1, BoundAssumption
<1>3. queue \in Seq(Request) /\ deferred \in Seq(Request)
      /\ queue \in Seq(Sound) /\ deferred \in Seq(Sound)
  BY <1>1
<1>4. connected \in BOOLEAN /\ available \in BOOLEAN /\ generation \in Nat
  BY <1>1
<1>5. NoId \in Ids
  BY DEF Ids
<1>6. TypeOK
  BY <1>1, <1>2, <1>3, <1>4, <1>5, NoneIsTyped DEF TypeOK, Producers
<1>7. producer.at = "idle"
  BY <1>1 DEF Idle
<1> QED
  BY <1>1, <1>3, <1>6, <1>7 DEF Orderly, Stamped, Kept

LEMMA OfferKeeps == Orderly /\ Offer => Orderly'
<1> SUFFICES ASSUME Orderly, Offer PROVE Orderly'
  OBVIOUS
<1> USE DEF Orderly
<1>1. PICK s \in Shapes :
          producer' = [at |-> "admit", created |-> FALSE,
                       req |-> [n |-> made + 1, who |-> s.who, kind |-> s.kind,
                                last |-> s.last, born |-> generation, gen |-> 0]]
  BY DEF Offer
<1>2. /\ producer.at = "idle" /\ made < MaxRequests /\ made' = made + 1
      /\ UNCHANGED <<generation, connected, available, loop, queue, owner, worker, hand,
                     deferred, accepted, answered, opened, undone>>
  BY DEF Offer, session, shared, work
<1>3. made' \in 0 .. MaxRequests /\ made + 1 \in 1 .. MaxRequests
  BY <1>2, BoundAssumption DEF TypeOK
<1>4. s.who \in Ids /\ s.kind \in Kinds /\ s.last \in BOOLEAN
  BY ShapesAssumption
<1>5. producer'.req \in Request /\ producer'.req.born = generation
      /\ producer'.at = "admit" /\ producer' \in Producers
  <2>1. generation \in Nat /\ 0 \in Nat
    BY DEF TypeOK
  <2>2. producer'.req \in Request
    BY <1>1, <1>3, <1>4, <2>1 DEF Request
  <2> QED
    BY <1>1, <2>2 DEF Producers
<1>6. TypeOK'
  BY <1>2, <1>3, <1>5 DEF TypeOK, Producers
<1>7. Stamped'
  BY <1>2, <1>5, SameSession DEF Stamped
<1>8. Kept'
  BY <1>2, <1>5 DEF Kept, Carries
<1> QED
  BY <1>6, <1>7, <1>8

LEMMA AdmitKeeps == Orderly /\ Admit => Orderly'
<1> SUFFICES ASSUME Orderly, Admit PROVE Orderly'
  OBVIOUS
<1> USE DEF Orderly
<1> DEFINE r == producer.req
<1>1. /\ producer.at = "admit"
      /\ producer' = IF Admissible(r)
                     THEN [producer EXCEPT !.at = "stamp", !.created = Reserves(r)]
                     ELSE Idle
      /\ owner' = IF Reserves(r) THEN r.who ELSE owner
      /\ UNCHANGED <<generation, connected, available, loop, queue, worker, hand, deferred,
                     made, accepted, answered, opened, undone>>
  BY DEF Admit, session, work, history
<1>2. producer \in Producers /\ r \in Request /\ r.who \in Ids
  BY <1>1 DEF TypeOK, Producers, Stamped, Request
<1>3. Reserves(r) \in BOOLEAN
  BY DEF Reserves
<1>4. CASE Admissible(r)
  <2>1. producer' \in Producers /\ producer'.at = "stamp" /\ producer'.req = r
        /\ producer'.created = Reserves(r)
    BY <1>1, <1>2, <1>3, <1>4 DEF Producers
  <2>2. TypeOK'
    BY <1>1, <1>2, <2>1 DEF TypeOK, Producers
  <2>3. Stamped'
    BY <1>1, <1>2, <2>1, SameSession DEF Stamped
  <2>4. CASE Reserves(r)
    <3>1. owner = NoId /\ owner' = r.who /\ r.kind \in {"key", "plan"}
      BY <1>1, <2>4 DEF Reserves
    <3>2. Carries(owner)'
      BY <2>1, <2>4, <3>1 DEF Carries, Holds
    <3>3. opened' = NoId
      BY <1>1, <3>1 DEF Kept
    <3> QED
      BY <2>2, <2>3, <3>2, <3>3 DEF Kept
  <2>5. CASE ~Reserves(r)
    <3>1. owner' = owner
      BY <1>1, <2>5
    <3>2. ~Carries(owner)
      BY <1>1 DEF Carries
    <3>3. Kept'
      BY <1>1, <3>1, <3>2 DEF Kept
    <3> QED
      BY <2>2, <2>3, <3>3
  <2> QED
    BY <2>4, <2>5
<1>5. CASE ~Admissible(r)
  <2>1. producer' = Idle /\ producer'.at = "idle"
    BY <1>1, <1>5 DEF Idle
  <2>2. ~Reserves(r)
    BY <1>5 DEF Reserves, Admissible
  <2>3. owner' = owner
    BY <1>1, <2>2
  <2>4. TypeOK'
    BY <1>1, <2>1, <2>3, NoneIsTyped DEF TypeOK, Producers
  <2>5. Stamped'
    BY <1>1, <2>1, SameSession DEF Stamped
  <2>6. ~Carries(owner)
    BY <1>1 DEF Carries
  <2>7. Kept'
    BY <1>1, <2>3, <2>6 DEF Kept
  <2> QED
    BY <2>4, <2>5, <2>7
<1> QED
  BY <1>4, <1>5

\* A refusal for length gives back what this request reserved, and no more.
LEMMA RefuseKeeps == Orderly /\ RefuseLength => Orderly'
<1> SUFFICES ASSUME Orderly, RefuseLength PROVE Orderly'
  OBVIOUS
<1> USE DEF Orderly
<1> DEFINE r == producer.req
<1>1. /\ producer.at = "stamp" /\ producer' = Idle /\ producer'.at = "idle"
      /\ owner' = IF producer.created THEN Released(r) ELSE owner
      /\ opened' = Begun(owner')
      /\ undone' \in {undone, undone \cup {r.n}}
      /\ UNCHANGED <<generation, connected, available, loop, queue, worker, hand, deferred, made,
                     accepted, answered>>
  BY DEF RefuseLength, Idle, session, work
<1>2. r.n \in 1 .. MaxRequests
  BY <1>1 DEF Stamped, Request
<1>3. owner' \in {owner, NoId} /\ opened' \in {opened, NoId}
      /\ (opened' # NoId => opened' = owner')
      /\ (owner' # NoId /\ opened = owner => opened' = owner')
  BY <1>1 DEF Released, Begun
<1>4. owner' # NoId => ~Carries(owner)
  BY <1>1 DEF Released, Carries, Holds
<1>5. owner' \in Ids /\ opened' \in Ids
  BY <1>3 DEF TypeOK, Ids
<1>6. TypeOK'
  BY <1>1, <1>2, <1>5, NoneIsTyped DEF TypeOK, Producers
<1>7. Stamped'
  BY <1>1, SameSession DEF Stamped
<1>8. Kept'
  BY <1>1, <1>3, <1>4 DEF Kept
<1> QED
  BY <1>6, <1>7, <1>8

LEMMA StampKeeps == Orderly /\ Stamp => Orderly'
<1> SUFFICES ASSUME Orderly, Stamp PROVE Orderly'
  OBVIOUS
<1> USE DEF Orderly
<1> DEFINE r == producer.req
<1>1. /\ producer.at = "stamp"
      /\ producer' = [producer EXCEPT !.at = "put", !.req.gen = generation]
      /\ UNCHANGED <<generation, connected, available, loop, queue, owner, worker, hand,
                     deferred, made, accepted, answered, opened, undone>>
  BY DEF Stamp, session, shared, work, history
<1>2. producer \in Producers /\ r \in Request /\ generation \in Nat
      /\ (r.born = generation \/ Between)
  BY <1>1 DEF TypeOK, Producers, Stamped
<1>3. /\ producer' \in Producers /\ producer'.at = "put"
      /\ producer'.created = producer.created
      /\ producer'.req = [r EXCEPT !.gen = generation]
  BY <1>1, <1>2 DEF Producers, Request
<1>4. /\ producer'.req \in Request /\ producer'.req.gen = generation
      /\ producer'.req.born = r.born /\ producer'.req.who = r.who
      /\ producer'.req.kind = r.kind
  BY <1>2, <1>3 DEF Request
<1>5. producer'.req \in Sound
  <2>1. generation <= generation
    BY <1>2
  <2> QED
    BY <1>2, <1>4, <2>1 DEF Sound
<1>6. TypeOK'
  BY <1>1, <1>3 DEF TypeOK, Producers
<1>7. Stamped'
  BY <1>1, <1>3, <1>4, <1>5, SameSession DEF Stamped
<1>8. Carries(owner) => Carries(owner)'
  BY <1>1, <1>3, <1>4 DEF Carries, Holds
<1>9. Kept'
  BY <1>1, <1>8 DEF Kept
<1> QED
  BY <1>6, <1>7, <1>9

LEMMA PutKeeps == Orderly /\ Put => Orderly'
<1> SUFFICES ASSUME Orderly, Put PROVE Orderly'
  OBVIOUS
<1> USE DEF Orderly
<1> DEFINE r == producer.req
<1>1. /\ producer.at = "put" /\ producer' = Idle
      /\ UNCHANGED <<generation, connected, available, loop, worker, hand, deferred, made,
                     answered, undone>>
  BY DEF Put, session, work
<1>2. r \in Request /\ r \in Sound /\ r.n \in 1 .. MaxRequests /\ producer'.at = "idle"
  BY <1>1 DEF Stamped, Request, Idle
<1>3. queue \in Seq(Request) /\ queue \in Seq(Sound) /\ Len(queue) \in Nat /\ Capacity \in Nat
  BY BoundAssumption DEF TypeOK, Stamped
<1>4. CASE Len(queue) < Capacity
  <2>1. /\ queue' = Append(queue, r) /\ accepted' = accepted \cup {r.n}
        /\ owner' = owner /\ opened' = opened
    BY <1>4 DEF Put
  <2>2. queue' \in Seq(Request) /\ Len(queue') <= Capacity
    BY <1>2, <1>3, <1>4, <2>1
  <2>3. queue' \in Seq(Sound)
    BY <1>2, <1>3, <2>1
  <2>4. accepted' \subseteq 1 .. MaxRequests
    BY <1>2, <2>1 DEF TypeOK
  <2>5. TypeOK'
    BY <1>1, <2>1, <2>2, <2>4, NoneIsTyped DEF TypeOK, Producers
  <2>6. Stamped'
    BY <1>1, <1>2, <2>3, SameSession DEF Stamped
  <2>7. HeldIn(owner, queue') <=> HeldIn(owner, queue) \/ Holds(owner, r)
    BY <1>2, <1>3, <2>1, HeldInAppend
  <2>8. Carries(owner) => Holds(owner, r)
    BY DEF Carries
  <2>9. Kept'
    BY <1>1, <2>1, <2>7, <2>8 DEF Kept
  <2> QED
    BY <2>5, <2>6, <2>9
<1>5. CASE ~(Len(queue) < Capacity)
  <2>1. /\ owner' = IF producer.created THEN Released(r) ELSE owner
        /\ opened' = Begun(owner') /\ UNCHANGED <<queue, accepted>>
    BY <1>5 DEF Put
  <2>2. owner' \in {owner, NoId} /\ opened' \in {opened, NoId}
        /\ (opened' # NoId => opened' = owner')
        /\ (owner' # NoId /\ opened = owner => opened' = owner')
    BY <2>1 DEF Released, Begun
  <2>3. owner' # NoId => ~Carries(owner)
    BY <1>1, <2>1 DEF Released, Carries, Holds
  <2>4. owner' \in Ids /\ opened' \in Ids
    BY <2>2 DEF TypeOK, Ids
  <2>5. TypeOK'
    BY <1>1, <2>1, <2>4, NoneIsTyped DEF TypeOK, Producers
  <2>6. Stamped'
    BY <1>1, <1>2, <2>1, SameSession DEF Stamped
  <2>7. Kept'
    BY <1>1, <2>1, <2>2, <2>3 DEF Kept
  <2> QED
    BY <2>5, <2>6, <2>7
<1> QED
  BY <1>4, <1>5

-----------------------------------------------------------------------------
(* The worker.                                                              *)

LEMMA TakeKeeps == Orderly /\ Take => Orderly'
<1> SUFFICES ASSUME Orderly, Take PROVE Orderly'
  OBVIOUS
<1> USE DEF Orderly
<1>1. /\ worker = "idle" /\ queue # <<>> /\ worker' = "choose"
      /\ hand' = Head(queue) /\ queue' = Tail(queue)
      /\ UNCHANGED <<generation, connected, available, loop, owner, producer, deferred, made,
                     accepted, answered, opened, undone>>
  BY DEF Take, session, history
<1>2. queue \in Seq(Request) /\ queue \in Seq(Sound)
  BY DEF TypeOK, Stamped
<1>3. hand' \in Request /\ queue' \in Seq(Request) /\ Len(queue') = Len(queue) - 1
  BY <1>1, <1>2, HeadTailProperties
<1>4. hand' \in Sound /\ queue' \in Seq(Sound)
  BY <1>1, <1>2, HeadTailProperties
<1>5. Len(queue') <= Capacity
  BY <1>2, <1>3, BoundAssumption DEF TypeOK
<1>6. hand' # None
  BY <1>3, NoneIsTyped
<1>7. TypeOK'
  BY <1>1, <1>3, <1>5 DEF TypeOK
<1>8. Stamped'
  BY <1>1, <1>4, <1>6, SameSession DEF Stamped
<1>9. HeldIn(owner, queue) <=> Holds(owner, hand') \/ HeldIn(owner, queue')
  BY <1>1, <1>2, HeldInTail
<1>10. hand = None
  BY <1>1 DEF Stamped
<1>11. Kept'
  BY <1>1, <1>6, <1>9, <1>10 DEF Kept, Carries
<1> QED
  BY <1>7, <1>8, <1>11

LEMMA ChooseKeeps == Orderly /\ Choose => Orderly'
<1> SUFFICES ASSUME Orderly, Choose PROVE Orderly'
  OBVIOUS
<1> USE DEF Orderly
<1> DEFINE all  == <<hand>> \o queue
           mine == {i \in DOMAIN all : Chosen(all[i])}
           i    == CHOOSE k \in mine : \A m \in mine : k <= m
<1>1. /\ worker = "choose"
      /\ UNCHANGED <<generation, connected, available, loop, owner, producer, made, accepted,
                     answered, opened, undone>>
  BY DEF Choose, session, history
<1>2. hand \in Request /\ hand \in Sound /\ hand # None
  BY <1>1 DEF Stamped, Sound
<1>3. CASE owner = NoId
  <2>1. worker' = "decide" /\ UNCHANGED <<hand, deferred, queue>>
    BY <1>3 DEF Choose
  <2>2. TypeOK'
    BY <1>1, <2>1 DEF TypeOK
  <2>3. Stamped'
    BY <1>1, <1>2, <2>1, SameSession DEF Stamped
  <2>4. Kept'
    BY <1>1, <1>3, <2>1 DEF Kept
  <2> QED
    BY <2>2, <2>3, <2>4
<1>4. CASE owner # NoId
  <2>1. /\ worker' = "restore" /\ queue' = <<>>
        /\ hand' = IF mine = {} THEN None ELSE all[i]
        /\ deferred' = IF mine = {} THEN all ELSE RemoveAt(all, i)
    BY <1>4 DEF Choose
  <2>2. queue \in Seq(Request) /\ queue \in Seq(Sound)
        /\ <<hand>> \in Seq(Request) /\ <<hand>> \in Seq(Sound) /\ Len(<<hand>>) = 1
        /\ <<hand>>[1] = hand
    BY <1>2 DEF TypeOK, Stamped
  <2>3. all \in Seq(Request) /\ all \in Seq(Sound) /\ Len(all) = 1 + Len(queue)
        /\ \A k \in 1 .. 1 + Len(queue) :
              all[k] = IF k <= 1 THEN <<hand>>[k] ELSE queue[k - 1]
    BY <2>2, ConcatProperties
  <2>4. DOMAIN all = 1 .. Len(all) /\ Len(all) \in Nat /\ DOMAIN queue = 1 .. Len(queue)
        /\ Len(queue) \in Nat
    BY <2>2, <2>3, LenProperties
  <2>5. Holds(owner, hand) \/ HeldIn(owner, queue) => HeldIn(owner, all)
    <3>1. 1 \in DOMAIN all /\ all[1] = hand
      BY <2>2, <2>3, <2>4
    <3>2. ASSUME NEW k \in DOMAIN queue
          PROVE  k + 1 \in DOMAIN all /\ all[k + 1] = queue[k]
      <4>1. k + 1 \in 1 .. 1 + Len(queue) /\ ~(k + 1 <= 1) /\ (k + 1) - 1 = k
        BY <2>4
      <4> QED
        BY <2>3, <2>4, <4>1
    <3> HIDE DEF all
    <3> QED
      BY <3>1, <3>2 DEF HeldIn
  <2> HIDE DEF all
  <2>6. worker' # "idle" /\ \A k \in DOMAIN all : Holds(owner, all[k]) => k \in mine
    BY <2>1 DEF Holds, Chosen, OfOwner
  <2>7. CASE mine = {}
    <3>1. hand' = None /\ deferred' = all
      BY <2>1, <2>7
    <3>2. TypeOK'
      <4>1. queue' \in Seq(Request) /\ Len(queue') <= Capacity
        BY <2>1, BoundAssumption
      <4> QED
        BY <1>1, <2>1, <2>3, <3>1, <4>1 DEF TypeOK
    <3>3. Stamped'
      BY <1>1, <2>1, <2>3, <3>1, SameSession DEF Stamped
    <3>4. ~HeldIn(owner, all)
      BY <2>6, <2>7 DEF HeldIn
    <3>5. deferred = <<>>
      BY <1>1 DEF Stamped
    <3>6. ~HeldIn(owner, deferred)
      BY <3>5 DEF HeldIn
    <3>7. Kept'
      BY <1>1, <2>1, <2>5, <3>1, <3>4, <3>6 DEF Kept, Carries
    <3> QED
      BY <3>2, <3>3, <3>7
  <2>8. CASE mine # {}
    <3>1. \E k \in mine : \A m \in mine : k <= m
      <4>1. mine \subseteq Nat
        BY <2>4
      <4> HIDE DEF mine
      <4> QED
        BY <2>8, <4>1, HasMinimum
    <3>2. i \in mine
      <4> HIDE DEF mine
      <4> QED
        BY <3>1
    <3>3. i \in 1 .. Len(all) /\ Chosen(all[i])
      BY <2>4, <3>2
    <3>4. hand' = all[i] /\ deferred' = RemoveAt(all, i)
      BY <2>1, <2>8
    <3> HIDE DEF i, mine
    <3>5. hand' \in Request /\ hand' \in Sound /\ hand' # None
      BY <2>3, <3>3, <3>4, ElementOfSeq, NoneIsTyped
    <3>6. deferred' \in Seq(Request) /\ deferred' \in Seq(Sound)
      BY <2>3, <3>3, <3>4, RemoveAtProperties
    <3>7. hand'.who = owner
      BY <1>4, <3>3, <3>4 DEF Chosen, OfOwner
    <3>8. HeldIn(owner, all) => Holds(owner, hand') \/ HeldIn(owner, deferred')
      <4> SUFFICES ASSUME NEW k \in DOMAIN all, Holds(owner, all[k]), k # i
                   PROVE  HeldIn(owner, deferred')
        BY <3>4 DEF HeldIn
      <4>1. k \in 1 .. Len(all) \ {i}
        BY <2>4
      <4>2. PICK j \in DOMAIN RemoveAt(all, i) : RemoveAt(all, i)[j] = all[k]
        BY <2>3, <3>3, <4>1, RemoveAtProperties
      <4> QED
        BY <3>4, <4>2 DEF HeldIn
    <3>9. TypeOK'
      <4>1. queue' \in Seq(Request) /\ Len(queue') <= Capacity
        BY <2>1, BoundAssumption
      <4> QED
        BY <1>1, <2>1, <3>5, <3>6, <4>1 DEF TypeOK
    <3>10. Stamped'
      <4>1. queue' \in Seq(Sound)
        BY <2>1
      <4> QED
        BY <1>1, <2>1, <3>5, <3>6, <4>1, SameSession DEF Stamped
    <3>11. ~HeldIn(owner, deferred)
      <4>1. deferred = <<>>
        BY <1>1 DEF Stamped
      <4> QED
        BY <4>1 DEF HeldIn
    <3>12. Kept'
      BY <1>1, <2>1, <2>5, <3>5, <3>7, <3>8, <3>11 DEF Kept, Carries
    <3> QED
      BY <3>9, <3>10, <3>12
  <2> QED
    BY <2>7, <2>8
<1> QED
  BY <1>3, <1>4

LEMMA RestoreKeeps == Orderly /\ Restore => Orderly'
<1> SUFFICES ASSUME Orderly, Restore PROVE Orderly'
  OBVIOUS
<1> USE DEF Orderly
<1> DEFINE r == Head(deferred)
<1>1. /\ worker = "restore" /\ deferred # <<>> /\ deferred' = Tail(deferred)
      /\ UNCHANGED <<generation, connected, available, loop, producer, worker, hand, made,
                     accepted, undone>>
  BY DEF Restore, session
<1>2. deferred \in Seq(Request) /\ deferred \in Seq(Sound)
      /\ queue \in Seq(Request) /\ queue \in Seq(Sound) /\ Len(queue) \in Nat /\ Capacity \in Nat
  BY BoundAssumption DEF TypeOK, Stamped
<1>3. r \in Request /\ r \in Sound /\ deferred' \in Seq(Request) /\ deferred' \in Seq(Sound)
  BY <1>1, <1>2, HeadTailProperties
<1>4. HeldIn(owner, deferred) <=> Holds(owner, r) \/ HeldIn(owner, deferred')
  BY <1>1, <1>2, HeldInTail
<1> HIDE DEF r
<1>5. CASE Len(queue) < Capacity
  <2>1. queue' = Append(queue, r) /\ UNCHANGED <<owner, answered, opened>>
    BY <1>5 DEF Restore, r
  <2>2. queue' \in Seq(Request) /\ Len(queue') <= Capacity
    BY <1>2, <1>3, <1>5, <2>1
  <2>3. queue' \in Seq(Sound)
    BY <1>2, <1>3, <2>1
  <2>4. TypeOK'
    BY <1>1, <1>3, <2>1, <2>2 DEF TypeOK
  <2>5. Stamped'
    BY <1>1, <1>3, <2>3, SameSession DEF Stamped
  <2>6. HeldIn(owner, queue') <=> HeldIn(owner, queue) \/ Holds(owner, r)
    BY <1>2, <1>3, <2>1, HeldInAppend
  <2>7. Kept'
    BY <1>1, <1>4, <2>1, <2>6 DEF Kept, Carries
  <2> QED
    BY <2>4, <2>5, <2>7
<1>6. CASE ~(Len(queue) < Capacity)
  <2>1. Answer(r, FALSE) /\ queue' = queue
    BY <1>6 DEF Restore, r
  <2>2. /\ answered' \subseteq 1 .. MaxRequests
        /\ owner' \in {owner, NoId} /\ opened' \in Ids
        /\ opened' # NoId => opened' = owner'
        /\ opened' \in {opened, NoId}
        /\ owner' # NoId => /\ opened = owner => opened' = owner'
                            /\ Holds(owner, r) => opened' = owner'
    BY <1>3, <2>1, AnswerProperties
  <2>3. owner' \in Ids
    BY <2>2 DEF TypeOK, Ids
  <2>4. TypeOK'
    BY <1>1, <1>3, <2>1, <2>2, <2>3 DEF TypeOK
  <2>5. Stamped'
    BY <1>1, <1>3, <2>1, SameSession DEF Stamped
  <2>6. ASSUME owner' # NoId, opened' # owner'
        PROVE  \/ Carries(owner)' \/ HeldIn(owner, queue)' \/ HeldIn(owner, deferred)'
               \/ (hand # None /\ Holds(owner, hand))'
    <3>1. owner' = owner /\ owner # NoId /\ opened # owner /\ ~Holds(owner, r)
      BY <2>2, <2>6
    <3>2. \/ Carries(owner) \/ HeldIn(owner, queue) \/ HeldIn(owner, deferred')
          \/ (hand # None /\ Holds(owner, hand))
      BY <1>4, <3>1 DEF Kept
    <3> QED
      BY <1>1, <2>1, <3>1, <3>2 DEF Carries
  <2>7. Kept'
    BY <1>1, <2>2, <2>6 DEF Kept
  <2> QED
    BY <2>4, <2>5, <2>7
<1> QED
  BY <1>5, <1>6

LEMMA RestoredKeeps == Orderly /\ Restored => Orderly'
<1> SUFFICES ASSUME Orderly, Restored PROVE Orderly'
  OBVIOUS
<1> USE DEF Orderly
<1>1. /\ worker = "restore" /\ deferred = <<>>
      /\ worker' = IF hand = None THEN "idle" ELSE "decide"
      /\ UNCHANGED <<generation, connected, available, loop, queue, owner, producer, hand,
                     deferred, made, accepted, answered, opened, undone>>
  BY DEF Restored, session, shared, history
<1>2. TypeOK'
  BY <1>1 DEF TypeOK
<1>3. Stamped'
  BY <1>1, SameSession DEF Stamped
<1>4. Kept'
  BY <1>1 DEF Kept, Carries
<1> QED
  BY <1>2, <1>3, <1>4

LEMMA MovesOn == Orderly /\ (Decide \/ Send) => Orderly'
<1> SUFFICES ASSUME Orderly, Decide \/ Send PROVE Orderly'
  OBVIOUS
<1> USE DEF Orderly
<1>1. /\ \/ worker = "decide" /\ worker' = "lock"
         \/ worker = "lock" /\ worker' = "ack"
      /\ UNCHANGED <<generation, connected, available, loop, queue, owner, producer, hand,
                     deferred, made, accepted, answered, opened, undone>>
  BY DEF Decide, Send, session, shared, history
<1>2. TypeOK'
  BY <1>1 DEF TypeOK
<1>3. Stamped'
  BY <1>1, SameSession DEF Stamped
<1>4. Kept'
  BY <1>1 DEF Kept, Carries
<1> QED
  BY <1>2, <1>3, <1>4

LEMMA FinishKeeps ==
    ASSUME Orderly, NEW ok \in BOOLEAN, worker \in {"decide", "lock", "ack"}, Finish(ok)
    PROVE  Orderly'
<1> USE DEF Orderly
<1>1. /\ Answer(hand, ok) /\ worker' = "idle" /\ hand' = None
      /\ UNCHANGED <<generation, connected, available, loop, queue, producer, deferred, made,
                     accepted, undone>>
  BY DEF Finish, session
<1>2. hand \in Request /\ hand # None /\ deferred = <<>>
  BY DEF Stamped, TypeOK
<1>3. /\ answered' \subseteq 1 .. MaxRequests
      /\ owner' \in {owner, NoId} /\ opened' \in Ids
      /\ opened' # NoId => opened' = owner'
      /\ owner' # NoId => (opened = owner => opened' = owner')
      /\ owner' # NoId => (Holds(owner, hand) => opened' = owner')
  BY <1>1, <1>2, AnswerProperties
<1>4. owner' \in Ids
  BY <1>3 DEF TypeOK, Ids
<1>5. TypeOK'
  BY <1>1, <1>3, <1>4 DEF TypeOK
<1>6. Stamped'
  BY <1>1, <1>2, SameSession DEF Stamped
<1>7. ASSUME owner' # NoId, opened' # owner'
      PROVE  Carries(owner)' \/ HeldIn(owner, queue)' \/ HeldIn(owner, deferred)'
  <2>1. owner' = owner /\ owner # NoId /\ opened # owner /\ ~Holds(owner, hand)
    BY <1>3, <1>7
  <2>2. Carries(owner) \/ HeldIn(owner, queue) \/ HeldIn(owner, deferred)
    BY <2>1 DEF Kept
  <2> QED
    BY <1>1, <2>1, <2>2 DEF Carries
<1>8. Kept'
  BY <1>1, <1>3, <1>7 DEF Kept
<1> QED
  BY <1>5, <1>6, <1>8

LEMMA EndsKeep == Orderly /\ (Reject \/ NotSent \/ Acknowledged \/ Failed) => Orderly'
<1> SUFFICES ASSUME Orderly, Reject \/ NotSent \/ Acknowledged \/ Failed PROVE Orderly'
  OBVIOUS
<1>1. worker \in {"decide", "lock", "ack"} /\ (Finish(TRUE) \/ Finish(FALSE))
  BY DEF Reject, NotSent, Acknowledged, Failed
<1> QED
  BY <1>1, FinishKeeps

-----------------------------------------------------------------------------
(* The session.                                                             *)

LEMMA SessionMoves ==
    ASSUME Orderly, Stop \/ Start \/ CommunicationOff \/ CommunicationOn
    PROVE  Orderly'
<1> USE DEF Orderly
<1>1. /\ UNCHANGED <<queue, owner, producer, worker, hand, deferred, made, accepted, answered,
                     opened, undone>>
      /\ available' \in BOOLEAN /\ connected' \in BOOLEAN
      /\ loop' \in {"free", "stop", "stopped", "start", "started", "off"}
  BY DEF Stop, Start, CommunicationOff, CommunicationOn, shared, work, history, TypeOK
<1>2. generation \in Nat
  BY DEF TypeOK
<1>3. /\ generation' \in Nat
      /\ generation < generation' \/ (generation' = generation /\ (Between => Between'))
      /\ producer.at \in {"admit", "stamp"} =>
            (producer.req.born = generation \/ Between
               => producer.req.born = generation' \/ Between')
  <2>1. CASE Stop
    BY <1>2, <2>1 DEF Stop, Bump, Between
  <2>2. CASE Start
    BY <1>2, <2>2 DEF Start, Bump, Between
  <2>3. CASE CommunicationOff
    BY <1>2, <2>3 DEF CommunicationOff, Between
  <2>4. CASE CommunicationOn
    BY <1>2, <2>4 DEF CommunicationOn, Between
  <2> QED
    BY <2>1, <2>2, <2>3, <2>4
<1>4. Sound \subseteq Sound' /\ Seq(Sound) \subseteq Seq(Sound')
  BY <1>2, <1>3, SoundStays
<1>5. TypeOK'
  BY <1>1, <1>3 DEF TypeOK
<1>6. Stamped'
  BY <1>1, <1>3, <1>4 DEF Stamped
<1>7. Kept'
  BY <1>1 DEF Kept, Carries
<1> QED
  BY <1>5, <1>6, <1>7

LEMMA DiscardKeeps == Orderly /\ Discard => Orderly'
<1> SUFFICES ASSUME Orderly, Discard PROVE Orderly'
  OBVIOUS
<1> USE DEF Orderly
<1>1. /\ queue' = <<>>
      /\ answered' = answered \cup {queue[i].n : i \in DOMAIN queue}
      /\ owner' = IF \E i \in DOMAIN queue : queue[i].who = owner /\ Releases(queue[i], FALSE)
                  THEN NoId ELSE owner
      /\ opened' = Begun(owner')
      /\ UNCHANGED <<generation, connected, available, producer, worker, hand, deferred, made,
                     accepted, undone>>
      /\ \/ loop = "stop" /\ loop' = "stopped"
         \/ loop = "start" /\ loop' = "started"
         \/ loop = "off" /\ loop' = "free"
  BY DEF Discard, DiscardTo, work
<1>2. generation \in Nat /\ (Between => Between')
  BY <1>1 DEF Between, TypeOK
<1>3. Sound \subseteq Sound' /\ Seq(Sound) \subseteq Seq(Sound')
  <2>1. generation' = generation
    BY <1>1
  <2> QED
    BY <1>2, <2>1, SoundStays
<1>4. queue \in Seq(Request)
  BY DEF TypeOK
<1>5. owner' \in {owner, NoId} /\ opened' \in {opened, NoId}
      /\ (opened' # NoId => opened' = owner')
      /\ (owner' # NoId /\ opened = owner => opened' = owner')
  BY <1>1 DEF Begun
<1>6. TypeOK'
  <2>1. \A i \in DOMAIN queue : queue[i].n \in 1 .. MaxRequests
    <3>1. \A i \in DOMAIN queue : queue[i] \in Request
      BY <1>4
    <3> QED
      BY <3>1 DEF Request
  <2>2. answered' \subseteq 1 .. MaxRequests
    BY <1>1, <2>1 DEF TypeOK
  <2>3. owner' \in Ids /\ opened' \in Ids
    BY <1>5 DEF TypeOK, Ids
  <2>4. queue' \in Seq(Request) /\ Len(queue') <= Capacity
    BY <1>1, BoundAssumption
  <2>5. loop' \in {"free", "stop", "stopped", "start", "started", "off"}
    BY <1>1
  <2> QED
    BY <1>1, <2>2, <2>3, <2>4, <2>5 DEF TypeOK
<1>7. Stamped'
  <2>1. queue' \in Seq(Sound')
    BY <1>1
  <2> QED
    BY <1>1, <1>2, <1>3, <2>1 DEF Stamped
<1>8. owner' # NoId => ~HeldIn(owner, queue)
  <2>1. \A i \in DOMAIN queue : Holds(owner, queue[i]) =>
            queue[i].who = owner /\ Releases(queue[i], FALSE)
    BY DEF Holds, Releases
  <2> QED
    BY <1>1, <2>1 DEF HeldIn
<1>9. ASSUME owner' # NoId, opened' # owner'
      PROVE  Carries(owner)' \/ HeldIn(owner, deferred)' \/ (hand # None /\ Holds(owner, hand))'
  <2>1. owner' = owner /\ owner # NoId /\ opened # owner /\ ~HeldIn(owner, queue)
    BY <1>5, <1>8, <1>9
  <2>2. Carries(owner) \/ HeldIn(owner, deferred) \/ (hand # None /\ Holds(owner, hand))
    BY <2>1 DEF Kept
  <2> QED
    BY <1>1, <2>1, <2>2 DEF Carries
<1>10. Kept'
  BY <1>1, <1>5, <1>9 DEF Kept
<1> QED
  BY <1>6, <1>7, <1>10

LEMMA ClearKeeps == Orderly /\ Clear => Orderly'
<1> SUFFICES ASSUME Orderly, Clear PROVE Orderly'
  OBVIOUS
<1> USE DEF Orderly
<1>1. /\ loop \in {"stopped", "started"} /\ connected' = (loop = "started") /\ loop' = "free"
      /\ owner' = NoId /\ opened' = NoId
      /\ UNCHANGED <<generation, available, queue, producer, worker, hand, deferred, made,
                     accepted, answered, undone>>
  BY DEF Clear, work
<1>2. generation \in Nat /\ (Between => Between')
  BY <1>1 DEF Between, TypeOK
<1>3. Sound \subseteq Sound' /\ Seq(Sound) \subseteq Seq(Sound')
  <2>1. generation' = generation
    BY <1>1
  <2> QED
    BY <1>2, <2>1, SoundStays
<1>4. TypeOK'
  <2>1. connected' \in BOOLEAN /\ owner' \in Ids /\ opened' \in Ids
    BY <1>1 DEF Ids
  <2> QED
    BY <1>1, <2>1 DEF TypeOK
<1>5. Stamped'
  BY <1>1, <1>2, <1>3 DEF Stamped
<1>6. Kept'
  BY <1>1 DEF Kept
<1> QED
  BY <1>4, <1>5, <1>6

LEMMA StutterKeeps == Orderly /\ UNCHANGED vars => Orderly'
<1> SUFFICES ASSUME Orderly, UNCHANGED vars PROVE Orderly'
  OBVIOUS
<1>1. UNCHANGED <<generation, connected, available, loop, queue, owner, producer, worker, hand,
                  deferred, made, accepted, answered, opened, undone>>
  BY DEF vars, session, shared, work, history
<1>2. TypeOK'
  BY <1>1 DEF Orderly, TypeOK
<1>3. Stamped'
  BY <1>1, SameSession DEF Orderly, Stamped
<1>4. Kept'
  BY <1>1 DEF Orderly, Kept, Carries
<1> QED
  BY <1>2, <1>3, <1>4 DEF Orderly

LEMMA SpecOrderly == Spec => []Orderly
<1>1. ASSUME Orderly, [Next]_vars PROVE Orderly'
  BY <1>1, OfferKeeps, AdmitKeeps, RefuseKeeps, StampKeeps, PutKeeps, TakeKeeps,
     ChooseKeeps, RestoreKeeps, RestoredKeeps, MovesOn, EndsKeep, SessionMoves, DiscardKeeps,
     ClearKeeps, StutterKeeps
     DEF Next, Enqueue, Dequeue, Process, Session
<1> QED
  BY <1>1, InitOrderly, PTL DEF Spec

-----------------------------------------------------------------------------
(* Where each request is: in one of the queue, the deferred, the worker's   *)
(* hand and the answered, once accepted, and in one position of it.         *)

Numbers(s)  == {s[i].n : i \in DOMAIN s}
Distinct(s) == \A i, j \in DOMAIN s : s[i].n = s[j].n => i = j

Counted ==
    /\ Distinct(queue) /\ Distinct(deferred)
    /\ Numbers(queue) \cap Numbers(deferred) = {}
    /\ hand.n \notin Numbers(queue) \cup Numbers(deferred) \cup answered
    /\ (Numbers(queue) \cup Numbers(deferred)) \cap answered = {}
    /\ accepted = Numbers(queue) \cup Numbers(deferred) \cup answered \cup ({hand.n} \ {0})
    /\ accepted \subseteq 1 .. made
    /\ producer.at # "idle" => producer.req.n = made /\ made \notin accepted

LEMMA RequestNumbers ==
    /\ \A r \in Request : r.n \in 1 .. MaxRequests /\ r.n # 0
    /\ None.n = 0
    /\ \A s \in Seq(Request) : Numbers(s) \subseteq 1 .. MaxRequests
    /\ Numbers(<<>>) = {} /\ Distinct(<<>>)
<1>1. \A r \in Request : r.n \in 1 .. MaxRequests /\ r.n # 0
  BY DEF Request
<1>2. \A s \in Seq(Request) : \A i \in DOMAIN s : s[i] \in Request
  OBVIOUS
<1>3. DOMAIN <<>> = {}
  OBVIOUS
<1>4. Numbers(<<>>) = {} /\ Distinct(<<>>)
  BY <1>3 DEF Numbers, Distinct
<1> QED
  BY <1>1, <1>2, <1>4 DEF Numbers, None

LEMMA NumbersInAppend ==
    ASSUME NEW S, NEW s \in Seq(S), NEW r \in S
    PROVE  /\ Numbers(Append(s, r)) = Numbers(s) \cup {r.n}
           /\ Distinct(s) /\ r.n \notin Numbers(s) => Distinct(Append(s, r))
<1> DEFINE l == Len(s)
           a == Append(s, r)
<1>1. /\ l \in Nat /\ DOMAIN s = 1 .. l /\ DOMAIN a = 1 .. (l + 1)
      /\ \A i \in 1 .. (l + 1) : a[i] = IF i = l + 1 THEN r ELSE s[i]
  BY AppendElements
<1> HIDE DEF l, a
<1>2. 1 .. (l + 1) = 1 .. l \cup {l + 1} /\ l + 1 \notin 1 .. l
  BY <1>1
<1>3. a[l + 1] = r /\ \A i \in 1 .. l : a[i] = s[i]
  BY <1>1, <1>2
<1>4. Numbers(a) = Numbers(s) \cup {r.n}
  BY <1>1, <1>2, <1>3 DEF Numbers
<1>5. Distinct(s) /\ r.n \notin Numbers(s) => Distinct(a)
  BY <1>1, <1>2, <1>3 DEF Numbers, Distinct
<1> QED
  BY <1>4, <1>5 DEF a

LEMMA NumbersInFront ==
    ASSUME NEW S, NEW s \in Seq(S), NEW r \in S
    PROVE  /\ Numbers(<<r>> \o s) = {r.n} \cup Numbers(s)
           /\ Distinct(s) /\ r.n \notin Numbers(s) => Distinct(<<r>> \o s)
<1> DEFINE l == Len(s)
           a == <<r>> \o s
<1>1. /\ l \in Nat /\ DOMAIN s = 1 .. l /\ DOMAIN a = 1 .. (l + 1)
      /\ \A i \in 1 .. (l + 1) : a[i] = IF i = 1 THEN r ELSE s[i - 1]
  BY FrontElements
<1> HIDE DEF l, a
<1>2. 1 \in 1 .. (l + 1) /\ \A i \in 1 .. l : i + 1 \in 1 .. (l + 1) /\ i + 1 # 1 /\ (i + 1) - 1 = i
  BY <1>1
<1>3. \A i \in 1 .. (l + 1) : i = 1 \/ (i # 1 /\ i - 1 \in 1 .. l)
  BY <1>1
<1>4. a[1] = r /\ \A i \in 1 .. l : a[i + 1] = s[i]
  BY <1>1, <1>2
<1>5. Numbers(a) = {r.n} \cup Numbers(s)
  <2>1. \A i \in DOMAIN a : a[i].n \in {r.n} \cup Numbers(s)
    BY <1>1, <1>3 DEF Numbers
  <2>2. r.n \in Numbers(a) /\ \A i \in DOMAIN s : s[i].n \in Numbers(a)
    BY <1>1, <1>2, <1>4 DEF Numbers
  <2> QED
    BY <2>1, <2>2 DEF Numbers
<1>6. ASSUME Distinct(s), r.n \notin Numbers(s),
             NEW i \in DOMAIN a, NEW j \in DOMAIN a, a[i].n = a[j].n
      PROVE  i = j
  <2>0. \A k \in DOMAIN a : k # 1 => a[k].n \in Numbers(s) /\ a[k].n # a[1].n
    <3> SUFFICES ASSUME NEW k \in DOMAIN a, k # 1
                 PROVE  a[k].n \in Numbers(s)
      BY <1>4, <1>6
    <3>1. k - 1 \in DOMAIN s /\ a[k] = s[k - 1]
      BY <1>1, <1>3
    <3> QED
      BY <3>1 DEF Numbers
  <2>1. CASE i = 1 /\ j # 1
    BY <1>6, <2>0, <2>1
  <2>2. CASE i # 1 /\ j = 1
    BY <1>6, <2>0, <2>2
  <2>3. CASE i # 1 /\ j # 1
    <3>1. i - 1 \in DOMAIN s /\ j - 1 \in DOMAIN s /\ s[i - 1].n = s[j - 1].n
      BY <1>1, <1>3, <1>6, <2>3
    <3>2. i - 1 = j - 1
      BY <1>6, <3>1 DEF Distinct
    <3> QED
      BY <1>1, <3>2
  <2> QED
    BY <2>1, <2>2, <2>3
<1> QED
  BY <1>5, <1>6 DEF a, Distinct

LEMMA NumbersInTail ==
    ASSUME NEW S, NEW s \in Seq(S), s # <<>>, Distinct(s)
    PROVE  /\ Numbers(s) = {Head(s).n} \cup Numbers(Tail(s))
           /\ Head(s).n \notin Numbers(Tail(s)) /\ Distinct(Tail(s))
<1> DEFINE l == Len(s)
           b == Tail(s)
<1>1. /\ l \in Nat \ {0} /\ DOMAIN s = 1 .. l /\ Head(s) = s[1] /\ DOMAIN b = 1 .. (l - 1)
      /\ \A i \in 1 .. (l - 1) : b[i] = s[i + 1]
  BY TailElements
<1> HIDE DEF l, b
<1>2. 1 \in 1 .. l /\ \A i \in 1 .. (l - 1) : i + 1 \in 1 .. l /\ i + 1 # 1
  BY <1>1
<1>3. \A i \in 1 .. l : i = 1 \/ (i - 1 \in 1 .. (l - 1) /\ (i - 1) + 1 = i)
  BY <1>1
<1>4. Numbers(s) = {s[1].n} \cup Numbers(b)
  <2>1. \A i \in DOMAIN s : s[i].n \in {s[1].n} \cup Numbers(b)
    <3> SUFFICES ASSUME NEW i \in DOMAIN s, i # 1
                 PROVE  s[i].n \in Numbers(b)
      OBVIOUS
    <3>1. i - 1 \in DOMAIN b /\ b[i - 1] = s[i]
      BY <1>1, <1>3
    <3> QED
      BY <3>1 DEF Numbers
  <2>2. s[1].n \in Numbers(s) /\ \A i \in DOMAIN b : b[i].n \in Numbers(s)
    BY <1>1, <1>2 DEF Numbers
  <2> QED
    BY <2>1, <2>2 DEF Numbers
<1>5. s[1].n \notin Numbers(b)
  BY <1>1, <1>2 DEF Numbers, Distinct
<1>6. ASSUME NEW i \in DOMAIN b, NEW j \in DOMAIN b, b[i].n = b[j].n PROVE i = j
  <2>1. i + 1 \in DOMAIN s /\ j + 1 \in DOMAIN s /\ s[i + 1].n = s[j + 1].n
    BY <1>1, <1>2, <1>6
  <2>2. i + 1 = j + 1
    BY <2>1 DEF Distinct
  <2> QED
    BY <1>1, <2>2
<1> QED
  BY <1>1, <1>4, <1>5, <1>6 DEF b, Distinct

LEMMA NumbersInRemoveAt ==
    ASSUME NEW S, NEW s \in Seq(S), NEW i \in 1 .. Len(s), Distinct(s)
    PROVE  /\ Numbers(s) = {s[i].n} \cup Numbers(RemoveAt(s, i))
           /\ s[i].n \notin Numbers(RemoveAt(s, i)) /\ Distinct(RemoveAt(s, i))
<1> DEFINE l == Len(s)
           b == RemoveAt(s, i)
<1>1. /\ l \in Nat /\ DOMAIN s = 1 .. l /\ i \in 1 .. l /\ DOMAIN b = 1 .. (l - 1)
      /\ \A k \in 1 .. (l - 1) : b[k] = IF k < i THEN s[k] ELSE s[k + 1]
  BY RemoveAtElements, LenProperties
<1>2. \A k \in 1 .. l \ {i} : \E j \in DOMAIN b : b[j] = s[k]
  BY RemoveAtProperties
<1> HIDE DEF l, b
<1> DEFINE from(k) == IF k < i THEN k ELSE k + 1
<1>3. \A k \in 1 .. (l - 1) : from(k) \in 1 .. l /\ from(k) # i /\ b[k] = s[from(k)]
  BY <1>1
<1>4. \A j, k \in 1 .. (l - 1) : from(j) = from(k) => j = k
  BY <1>1
<1> HIDE DEF from
<1>5. Numbers(s) = {s[i].n} \cup Numbers(b)
  <2>1. \A k \in DOMAIN s : s[k].n \in {s[i].n} \cup Numbers(b)
    BY <1>1, <1>2 DEF Numbers
  <2>2. s[i].n \in Numbers(s) /\ \A k \in DOMAIN b : b[k].n \in Numbers(s)
    BY <1>1, <1>3 DEF Numbers
  <2> QED
    BY <2>1, <2>2 DEF Numbers
<1>6. s[i].n \notin Numbers(b)
  BY <1>1, <1>3 DEF Numbers, Distinct
<1>7. Distinct(b)
  BY <1>1, <1>3, <1>4 DEF Distinct
<1> QED
  BY <1>5, <1>6, <1>7 DEF b

\* A request that stays where it is.
LEMMA CountedStays ==
    ASSUME Counted, UNCHANGED <<queue, deferred, hand, accepted, answered>>,
           \/ UNCHANGED <<producer, made>>
           \/ made' = made /\ (producer'.at # "idle" => producer.at # "idle"
                                                        /\ producer'.req.n = producer.req.n)
    PROVE  Counted'
  BY DEF Counted

LEMMA InitCounted == Init => Counted
<1> SUFFICES ASSUME Init PROVE Counted
  OBVIOUS
<1>1. /\ queue = <<>> /\ deferred = <<>> /\ hand.n = 0 /\ accepted = {} /\ answered = {}
      /\ producer.at = "idle"
  BY DEF Init, Idle, None
<1> QED
  BY <1>1, RequestNumbers DEF Counted

LEMMA OfferCounts == Orderly /\ Counted /\ Offer => Counted'
<1> SUFFICES ASSUME Orderly, Counted, Offer PROVE Counted'
  OBVIOUS
<1>1. /\ producer'.req.n = made + 1 /\ made' = made + 1
      /\ UNCHANGED <<queue, deferred, hand, accepted, answered>>
  BY DEF Offer, shared, work
<1>2. made \in Nat
  BY BoundAssumption DEF Orderly, TypeOK
<1>3. made + 1 \notin 1 .. made /\ 1 .. made \subseteq 1 .. (made + 1)
  BY <1>2
<1> QED
  BY <1>1, <1>3 DEF Counted

LEMMA PutCounts == Orderly /\ Counted /\ Put => Counted'
<1> SUFFICES ASSUME Orderly, Counted, Put PROVE Counted'
  OBVIOUS
<1>1. /\ producer.at = "put" /\ producer'.at = "idle"
      /\ UNCHANGED <<hand, deferred, made, answered>>
  BY DEF Put, work, Idle
<1>2. producer.req \in Request /\ queue \in Seq(Request)
  BY <1>1 DEF Orderly, Stamped, TypeOK
<1>3. CASE Len(queue) < Capacity
  <2>1. queue' = Append(queue, producer.req) /\ accepted' = accepted \cup {producer.req.n}
    BY <1>3 DEF Put
  <2>2. producer.req.n = made /\ made \notin accepted /\ made \in 1 .. made
    <3>1. made \in Nat /\ made # 0
      BY <1>1, <1>2, RequestNumbers, BoundAssumption DEF Counted, Orderly, TypeOK
    <3> QED
      BY <1>1, <3>1 DEF Counted
  <2>3. Numbers(queue') = Numbers(queue) \cup {made} /\ Distinct(queue')
    <3>1. made \notin Numbers(queue)
      BY <2>2 DEF Counted
    <3> QED
      BY <1>2, <2>1, <2>2, <3>1, NumbersInAppend DEF Counted
  <2>4. hand.n # made
    BY <1>2, <2>2, RequestNumbers DEF Counted
  <2> QED
    BY <1>1, <2>1, <2>2, <2>3, <2>4 DEF Counted
<1>4. CASE ~(Len(queue) < Capacity)
  BY <1>1, <1>4, CountedStays DEF Put
<1> QED
  BY <1>3, <1>4

LEMMA TakeCounts == Orderly /\ Counted /\ Take => Counted'
<1> SUFFICES ASSUME Orderly, Counted, Take PROVE Counted'
  OBVIOUS
<1>1. /\ worker = "idle" /\ queue # <<>> /\ hand' = Head(queue) /\ queue' = Tail(queue)
      /\ UNCHANGED <<producer, deferred, made, accepted, answered>>
  BY DEF Take, history
<1>2. queue \in Seq(Request) /\ hand.n = 0
  BY <1>1, RequestNumbers DEF Orderly, Stamped, TypeOK
<1>3. hand'.n # 0
  <2>1. hand' \in Request
    BY <1>1, <1>2, HeadTailProperties
  <2> QED
    BY <2>1, RequestNumbers
<1>4. /\ Numbers(queue) = {hand'.n} \cup Numbers(queue')
      /\ hand'.n \notin Numbers(queue') /\ Distinct(queue')
  BY <1>1, <1>2, NumbersInTail DEF Counted
<1> QED
  BY <1>1, <1>2, <1>3, <1>4 DEF Counted

LEMMA ChooseCounts == Orderly /\ Counted /\ Choose => Counted'
<1> SUFFICES ASSUME Orderly, Counted, Choose PROVE Counted'
  OBVIOUS
<1> DEFINE all  == <<hand>> \o queue
           mine == {i \in DOMAIN all : Chosen(all[i])}
           i    == CHOOSE k \in mine : \A m \in mine : k <= m
<1>1. worker = "choose" /\ UNCHANGED <<producer, made, accepted, answered>>
  BY DEF Choose, history
<1>2. CASE owner = NoId
  BY <1>1, <1>2, CountedStays DEF Choose
<1>3. CASE owner # NoId
  <2>1. /\ queue' = <<>>
        /\ hand' = IF mine = {} THEN None ELSE all[i]
        /\ deferred' = IF mine = {} THEN all ELSE RemoveAt(all, i)
    BY <1>3 DEF Choose
  <2>2. hand \in Request /\ queue \in Seq(Request) /\ deferred = <<>>
    BY <1>1 DEF Orderly, Stamped, TypeOK
  <2>3. all \in Seq(Request) /\ DOMAIN all = 1 .. Len(all)
    BY <2>2, FrontElements, LenProperties
  <2>4. Numbers(all) = {hand.n} \cup Numbers(queue) /\ Distinct(all)
    BY <2>2, NumbersInFront DEF Counted
  <2>5. hand.n # 0 /\ None.n = 0 /\ 0 \notin Numbers(all)
    <3> HIDE DEF all
    <3> QED
      BY <2>2, <2>3, RequestNumbers
  <2>6. Numbers(queue') = {} /\ Distinct(queue') /\ Numbers(deferred) = {}
    BY <2>1, <2>2, RequestNumbers
  <2>7. /\ Distinct(deferred') /\ hand'.n \notin Numbers(deferred')
        /\ Numbers(all) = Numbers(deferred') \cup ({hand'.n} \ {0})
    <3>1. CASE mine = {}
      BY <2>1, <2>4, <2>5, <3>1
    <3>2. CASE mine # {}
      <4>1. \E k \in mine : \A m \in mine : k <= m
        <5>1. mine \subseteq Nat
          BY <2>3
        <5> HIDE DEF mine
        <5> QED
          BY <3>2, <5>1, HasMinimum
      <4>2. i \in mine
        <5> HIDE DEF mine
        <5> QED
          BY <4>1
      <4>3. i \in 1 .. Len(all) /\ hand' = all[i] /\ deferred' = RemoveAt(all, i)
        BY <2>1, <2>3, <3>2, <4>2
      <4> HIDE DEF i, mine, all
      <4>4. hand'.n # 0
        BY <2>3, <4>3, RequestNumbers
      <4> QED
        BY <2>3, <2>4, <4>3, <4>4, NumbersInRemoveAt
    <3> QED
      BY <3>1, <3>2
  <2>8. hand'.n \notin answered
    <3>1. Numbers(all) \cap answered = {}
      BY <2>4 DEF Counted
    <3>2. 0 \notin answered
      BY DEF Orderly, TypeOK
    <3> QED
      BY <2>7, <3>1, <3>2
  <2> HIDE DEF all, mine, i
  <2>9. (Numbers(deferred') \cup ({hand'.n} \ {0})) \cap answered = {}
    BY <2>4, <2>7 DEF Counted
  <2>10. accepted = Numbers(all) \cup answered
    BY <2>4, <2>5, <2>6 DEF Counted
  <2> QED
    BY <1>1, <2>6, <2>7, <2>8, <2>9, <2>10 DEF Counted
<1> QED
  BY <1>2, <1>3

LEMMA RestoreCounts == Orderly /\ Counted /\ Restore => Counted'
<1> SUFFICES ASSUME Orderly, Counted, Restore PROVE Counted'
  OBVIOUS
<1> DEFINE r == Head(deferred)
<1>1. /\ worker = "restore" /\ deferred # <<>> /\ deferred' = Tail(deferred)
      /\ UNCHANGED <<producer, hand, made, accepted>>
  BY DEF Restore
<1>2. deferred \in Seq(Request) /\ queue \in Seq(Request)
  BY DEF Orderly, TypeOK
<1>3. r \in Request
  BY <1>1, <1>2, HeadTailProperties
<1>4. /\ Numbers(deferred) = {r.n} \cup Numbers(deferred')
      /\ r.n \notin Numbers(deferred') /\ Distinct(deferred')
  BY <1>1, <1>2, NumbersInTail DEF Counted
<1> HIDE DEF r
<1>5. r.n \notin Numbers(queue) /\ r.n # hand.n /\ r.n \notin answered
  BY <1>4 DEF Counted
<1>6. CASE Len(queue) < Capacity
  <2>1. queue' = Append(queue, r) /\ answered' = answered
    BY <1>6 DEF Restore, r
  <2>2. Numbers(queue') = Numbers(queue) \cup {r.n} /\ Distinct(queue')
    BY <1>2, <1>3, <1>5, <2>1, NumbersInAppend DEF Counted
  <2> QED
    BY <1>1, <1>4, <1>5, <2>1, <2>2 DEF Counted
<1>7. CASE ~(Len(queue) < Capacity)
  <2>1. queue' = queue /\ answered' = answered \cup {r.n}
    BY <1>7 DEF Restore, r, Answer
  <2> QED
    BY <1>1, <1>4, <1>5, <2>1 DEF Counted
<1> QED
  BY <1>6, <1>7

LEMMA FinishCounts ==
    ASSUME Orderly, Counted, NEW ok \in BOOLEAN, worker \in {"decide", "lock", "ack"}, Finish(ok)
    PROVE  Counted'
<1>1. /\ answered' = answered \cup {hand.n} /\ hand' = None
      /\ UNCHANGED <<queue, producer, deferred, made, accepted>>
  BY DEF Finish, Answer
<1>2. hand \in Request /\ hand.n # 0 /\ hand'.n = 0
  BY <1>1, RequestNumbers DEF Orderly, Stamped, TypeOK
<1>3. 0 \notin Numbers(queue) \cup Numbers(deferred) \cup answered'
  <2>1. 0 \notin answered
    BY DEF Orderly, TypeOK
  <2>2. 0 \notin Numbers(queue) \cup Numbers(deferred)
    BY RequestNumbers DEF Orderly, TypeOK
  <2> QED
    BY <1>1, <1>2, <2>1, <2>2
<1> QED
  BY <1>1, <1>2, <1>3 DEF Counted

LEMMA DiscardCounts == Orderly /\ Counted /\ Discard => Counted'
<1> SUFFICES ASSUME Orderly, Counted, Discard PROVE Counted'
  OBVIOUS
<1>1. /\ queue' = <<>> /\ answered' = answered \cup Numbers(queue)
      /\ UNCHANGED <<producer, hand, deferred, made, accepted>>
  BY DEF Discard, DiscardTo, work, Numbers
<1> QED
  BY <1>1, RequestNumbers DEF Counted

LEMMA RestCounts ==
    ASSUME Orderly, Counted,
           \/ Admit \/ RefuseLength \/ Stamp \/ Restored \/ Decide \/ Send
           \/ Stop \/ Start \/ Clear \/ CommunicationOff \/ CommunicationOn \/ UNCHANGED vars
    PROVE  Counted'
<1>1. CASE Admit
  <2>1. /\ UNCHANGED <<queue, deferred, hand, accepted, answered, made>>
        /\ producer.at = "admit"
        /\ producer' = IF Admissible(producer.req)
                       THEN [producer EXCEPT !.at = "stamp", !.created = Reserves(producer.req)]
                       ELSE Idle
    BY <1>1 DEF Admit, work, history
  <2>2. producer \in Producers
    BY DEF Orderly, TypeOK, Producers
  <2>3. producer'.at # "idle" => producer'.req = producer.req
    BY <2>1, <2>2 DEF Producers, Idle
  <2> QED
    BY <2>1, <2>3, CountedStays
<1>2. CASE Stamp
  <2>1. /\ UNCHANGED <<queue, deferred, hand, accepted, answered, made>>
        /\ producer.at = "stamp"
        /\ producer' = [producer EXCEPT !.at = "put", !.req.gen = generation]
    BY <1>2 DEF Stamp, shared, work, history
  <2>2. producer \in Producers /\ producer.req \in Request
    BY <2>1 DEF Orderly, TypeOK, Producers, Stamped
  <2>3. producer'.req.n = producer.req.n
    BY <2>1, <2>2 DEF Producers, Request
  <2> QED
    BY <2>1, <2>3, CountedStays
<1>3. CASE \/ Restored \/ Decide \/ Send
           \/ Stop \/ Start \/ Clear \/ CommunicationOff \/ CommunicationOn \/ UNCHANGED vars
  <2>1. UNCHANGED <<queue, deferred, hand, accepted, answered, made, producer>>
    BY <1>3 DEF Restored, Decide, Send, Stop, Start, Clear, CommunicationOff,
                CommunicationOn, vars, shared, work, history
  <2> QED
    BY <2>1, CountedStays
<1>4. CASE RefuseLength
  <2>1. /\ UNCHANGED <<queue, deferred, hand, accepted, answered, made>>
        /\ producer'.at = "idle"
    BY <1>4 DEF RefuseLength, work, Idle
  <2> QED
    BY <2>1, CountedStays
<1> QED
  BY <1>1, <1>2, <1>3, <1>4

LEMMA EndsCount ==
    ASSUME Orderly, Counted, Reject \/ NotSent \/ Acknowledged \/ Failed
    PROVE  Counted'
<1>1. worker \in {"decide", "lock", "ack"} /\ (Finish(TRUE) \/ Finish(FALSE))
  BY DEF Reject, NotSent, Acknowledged, Failed
<1> QED
  BY <1>1, FinishCounts

LEMMA SpecCounted == Spec => []Counted
<1>1. ASSUME Orderly, Counted, [Next]_vars PROVE Counted'
  BY <1>1, OfferCounts, PutCounts, TakeCounts, ChooseCounts, RestoreCounts, EndsCount,
     DiscardCounts, RestCounts DEF Next, Enqueue, Dequeue, Process, Session
<1> QED
  BY <1>1, InitCounted, SpecOrderly, PTL DEF Spec

\* A number is in one position of a sequence, or in none.
LEMMA OnePosition ==
    ASSUME NEW s, Distinct(s), NEW n
    PROVE  Cardinality({i \in DOMAIN s : s[i].n = n}) = IF n \in Numbers(s) THEN 1 ELSE 0
<1> DEFINE P == {i \in DOMAIN s : s[i].n = n}
<1>1. CASE n \in Numbers(s)
  <2>1. PICK i \in DOMAIN s : s[i].n = n
    BY <1>1 DEF Numbers
  <2>2. P = {i}
    BY <2>1 DEF Distinct
  <2> QED
    BY <1>1, <2>2, FS_Singleton
<1>2. CASE n \notin Numbers(s)
  <2>1. P = {}
    BY <1>2 DEF Numbers
  <2> QED
    BY <1>2, <2>1, FS_EmptySet
<1> QED
  BY <1>1, <1>2

-----------------------------------------------------------------------------
(* The presses are in line: the one in hand before those in the queue, these *)
(* before the deferred.  A press that arrives while requests are put back    *)
(* would break the line; none does, for the keypad is owned until the queue  *)
(* is full, or a refusal for length gave it back, later than every deferred  *)
(* request was made and earlier than whatever arrives from then on.          *)

Refusals ==
    /\ undone \subseteq 1 .. made
    /\ producer.at # "idle" => made \notin undone

LEMMA InitRefusals == Init => Refusals
<1> SUFFICES ASSUME Init PROVE Refusals
  OBVIOUS
<1>1. undone = {} /\ producer.at = "idle"
  BY DEF Init, Idle
<1> QED
  BY <1>1 DEF Refusals

LEMMA SpecRefusals == Spec => []Refusals
<1>1. ASSUME Orderly, Counted, Refusals, [Next]_vars PROVE Refusals'
  <2>1. made \in Nat
    BY <1>1, BoundAssumption DEF Orderly, TypeOK
  <2>2. CASE Offer
    <3>1. made' = made + 1 /\ undone' = undone
      BY <2>2 DEF Offer
    <3>2. 1 .. made \subseteq 1 .. (made + 1) /\ made + 1 \notin 1 .. made
      BY <2>1
    <3> QED
      BY <1>1, <3>1, <3>2 DEF Refusals
  <2>3. CASE RefuseLength
    <3>1. /\ producer.at = "stamp" /\ producer'.at = "idle" /\ made' = made
          /\ undone' \in {undone, undone \cup {producer.req.n}}
      BY <2>3 DEF RefuseLength, Idle
    <3>2. producer.req.n = made /\ made # 0
      BY <1>1, <3>1, RequestNumbers DEF Counted, Orderly, Stamped
    <3>3. made \in 1 .. made
      BY <2>1, <3>2
    <3> QED
      BY <1>1, <3>1, <3>2, <3>3 DEF Refusals
  <2>4. CASE Admit \/ Stamp \/ Put \/ Dequeue \/ Process \/ Session \/ UNCHANGED vars
    <3>1. UNCHANGED <<made, undone>> /\ (producer' = producer \/ producer.at # "idle")
      <4>1. CASE Admit \/ Stamp \/ Put
        BY <4>1 DEF Admit, Stamp, Put, history
      <4>2. CASE Dequeue
        BY <4>2 DEF Dequeue, Take, Choose, Restore, Restored, shared, history
      <4>3. CASE Process
        BY <4>3 DEF Process, Decide, Reject, Send, NotSent, Acknowledged, Failed, Finish, shared,
                    history
      <4>4. CASE Session \/ UNCHANGED vars
        BY <4>4 DEF Session, Stop, Start, Discard, DiscardTo, Clear, CommunicationOff,
                    CommunicationOn, shared, history, vars
      <4> QED
        BY <2>4, <4>1, <4>2, <4>3, <4>4
    <3> QED
      BY <1>1, <3>1 DEF Refusals
  <2> QED
    BY <1>1, <2>2, <2>3, <2>4 DEF Next, Enqueue
<1> QED
  BY <1>1, InitRefusals, SpecOrderly, SpecCounted, PTL DEF Spec

Sorted(s, u)    ==
    \A i, j \in DOMAIN s : i < j /\ Press(s[i]) /\ Press(s[j]) => Precedes(s[i], s[j], u)
Ahead(r, s, u)  == Press(r) => \A i \in DOMAIN s : Press(s[i]) => Precedes(r, s[i], u)
Before(s, t, u) == \A i \in DOMAIN s : Ahead(s[i], t, u)
Passed(t, u)    == \E m \in u : \A i \in DOMAIN t : t[i].n < m

InLine ==
    /\ Sorted(queue, undone) /\ Sorted(deferred, undone) /\ Before(queue, deferred, undone)
    /\ Ahead(hand, queue, undone)
    /\ worker = "restore" => /\ hand = None \/ ~Press(hand)
                             /\ owner # NoId \/ Len(queue) = Capacity \/ Passed(deferred, undone)
    /\ worker \in {"choose", "restore", "decide"} => loop = "free"
    /\ owner # NoId /\ producer.at \in {"stamp", "put"} => ~Press(producer.req)

LEMMA EmptyInLine ==
    ASSUME NEW u
    PROVE  /\ Sorted(<<>>, u)
           /\ \A r : Ahead(r, <<>>, u)
           /\ \A s : Before(<<>>, s, u) /\ Before(s, <<>>, u)
<1>1. DOMAIN <<>> = {}
  OBVIOUS
<1> QED
  BY <1>1 DEF Sorted, Ahead, Before

LEMMA NoneIsAhead ==
    ASSUME NEW u, NEW s \in Seq(Request)
    PROVE  Ahead(None, s, u)
<1>1. \A i \in DOMAIN s : s[i] \in Request
  OBVIOUS
<1>2. \A r \in Request : Precedes(None, r, u)
  BY BoundAssumption DEF Request, None, Precedes
<1> QED
  BY <1>1, <1>2 DEF Ahead

\* Another refusal excuses more.
LEMMA LineWidens ==
    ASSUME NEW u, NEW v, u \subseteq v
    PROVE  /\ \A s : Sorted(s, u) => Sorted(s, v)
           /\ \A r, s : Ahead(r, s, u) => Ahead(r, s, v)
           /\ \A s, t : Before(s, t, u) => Before(s, t, v)
<1>1. \A r, s : Precedes(r, s, u) => Precedes(r, s, v)
  BY DEF Precedes
<1>2. \A r, s : Ahead(r, s, u) => Ahead(r, s, v)
  BY <1>1 DEF Ahead
<1> QED
  BY <1>1, <1>2 DEF Sorted, Before

LEMMA LineAppended ==
    ASSUME NEW u, NEW S, NEW s \in Seq(S), NEW r \in S
    PROVE  /\ Sorted(s, u)
                 /\ (\A i \in DOMAIN s : Press(s[i]) /\ Press(r) => Precedes(s[i], r, u))
                 => Sorted(Append(s, r), u)
           /\ \A h : Ahead(h, s, u) /\ (Press(h) /\ Press(r) => Precedes(h, r, u))
                        => Ahead(h, Append(s, r), u)
           /\ \A t : Before(s, t, u) /\ Ahead(r, t, u) => Before(Append(s, r), t, u)
<1> DEFINE l == Len(s)
           a == Append(s, r)
<1>1. /\ l \in Nat /\ DOMAIN s = 1 .. l /\ DOMAIN a = 1 .. (l + 1)
      /\ \A i \in 1 .. (l + 1) : a[i] = IF i = l + 1 THEN r ELSE s[i]
  BY AppendElements
<1> HIDE DEF l, a
<1>2. \A i \in 1 .. (l + 1) : (i \in 1 .. l /\ a[i] = s[i]) \/ (i = l + 1 /\ a[i] = r)
  BY <1>1
<1>3. ASSUME Sorted(s, u),
             \A i \in DOMAIN s : Press(s[i]) /\ Press(r) => Precedes(s[i], r, u),
             NEW i \in DOMAIN a, NEW j \in DOMAIN a, i < j, Press(a[i]), Press(a[j])
      PROVE  Precedes(a[i], a[j], u)
  <2>1. i \in 1 .. l /\ a[i] = s[i]
    BY <1>1, <1>2, <1>3
  <2>2. CASE j \in 1 .. l /\ a[j] = s[j]
    BY <1>1, <1>3, <2>1, <2>2 DEF Sorted
  <2>3. CASE j = l + 1 /\ a[j] = r
    BY <1>1, <1>3, <2>1, <2>3
  <2> QED
    BY <1>1, <1>2, <2>2, <2>3
<1>4. ASSUME NEW h, Ahead(h, s, u), Press(h) /\ Press(r) => Precedes(h, r, u)
      PROVE  Ahead(h, a, u)
  BY <1>1, <1>2, <1>4 DEF Ahead
<1>5. ASSUME NEW t, Before(s, t, u), Ahead(r, t, u)
      PROVE  Before(a, t, u)
  BY <1>1, <1>2, <1>5 DEF Before
<1>6. Sorted(s, u) /\ (\A i \in DOMAIN s : Press(s[i]) /\ Press(r) => Precedes(s[i], r, u))
         => Sorted(a, u)
  BY <1>3 DEF Sorted
<1> QED
  BY <1>4, <1>5, <1>6 DEF a

LEMMA SortedInFront ==
    ASSUME NEW u, NEW S, NEW s \in Seq(S), NEW r \in S, Sorted(s, u), Ahead(r, s, u)
    PROVE  Sorted(<<r>> \o s, u)
<1> DEFINE l == Len(s)
           a == <<r>> \o s
<1>1. /\ l \in Nat /\ DOMAIN s = 1 .. l /\ DOMAIN a = 1 .. (l + 1)
      /\ \A i \in 1 .. (l + 1) : a[i] = IF i = 1 THEN r ELSE s[i - 1]
  BY FrontElements
<1> HIDE DEF l, a
<1>2. ASSUME NEW i \in DOMAIN a, NEW j \in DOMAIN a, i < j, Press(a[i]), Press(a[j])
      PROVE  Precedes(a[i], a[j], u)
  <2>1. j # 1 /\ j - 1 \in DOMAIN s /\ a[j] = s[j - 1]
    BY <1>1, <1>2
  <2>2. CASE i = 1
    <3>1. a[i] = r
      BY <1>1, <2>2
    <3> QED
      BY <1>2, <2>1, <3>1 DEF Ahead
  <2>3. CASE i # 1
    <3>1. i - 1 \in DOMAIN s /\ a[i] = s[i - 1] /\ i - 1 < j - 1
      BY <1>1, <1>2, <2>3
    <3> QED
      BY <1>2, <2>1, <3>1 DEF Sorted
  <2> QED
    BY <2>2, <2>3
<1> QED
  BY <1>2 DEF a, Sorted

LEMMA LineOfTail ==
    ASSUME NEW u, NEW S, NEW s \in Seq(S), s # <<>>
    PROVE  /\ Sorted(s, u) => Sorted(Tail(s), u) /\ Ahead(Head(s), Tail(s), u)
           /\ \A h : Ahead(h, s, u)
                        => /\ Ahead(h, Tail(s), u)
                           /\ Press(h) /\ Press(Head(s)) => Precedes(h, Head(s), u)
<1> DEFINE l == Len(s)
           b == Tail(s)
<1>1. /\ l \in Nat \ {0} /\ DOMAIN s = 1 .. l /\ Head(s) = s[1] /\ DOMAIN b = 1 .. (l - 1)
      /\ \A i \in 1 .. (l - 1) : b[i] = s[i + 1]
  BY TailElements
<1> HIDE DEF l, b
<1>2. 1 \in DOMAIN s /\ \A i \in DOMAIN b : i + 1 \in DOMAIN s /\ 1 < i + 1 /\ b[i] = s[i + 1]
  BY <1>1
<1>3. \A i, j \in DOMAIN b : i < j => i + 1 < j + 1
  BY <1>1
<1>4. Sorted(s, u) => Sorted(b, u)
  BY <1>2, <1>3 DEF Sorted
<1>5. Sorted(s, u) => Ahead(s[1], b, u)
  BY <1>2 DEF Sorted, Ahead
<1>6. \A h : Ahead(h, s, u)
               => Ahead(h, b, u) /\ (Press(h) /\ Press(s[1]) => Precedes(h, s[1], u))
  BY <1>2 DEF Ahead
<1> QED
  BY <1>1, <1>4, <1>5, <1>6 DEF b

LEMMA SortedInRemoveAt ==
    ASSUME NEW u, NEW S, NEW s \in Seq(S), NEW i \in 1 .. Len(s), Sorted(s, u)
    PROVE  Sorted(RemoveAt(s, i), u)
<1> DEFINE l == Len(s)
           b == RemoveAt(s, i)
<1>1. /\ l \in Nat /\ DOMAIN s = 1 .. l /\ i \in 1 .. l /\ DOMAIN b = 1 .. (l - 1)
      /\ \A k \in 1 .. (l - 1) : b[k] = IF k < i THEN s[k] ELSE s[k + 1]
  BY RemoveAtElements, LenProperties
<1> HIDE DEF l, b
<1> DEFINE from(k) == IF k < i THEN k ELSE k + 1
<1>2. \A k \in DOMAIN b : from(k) \in DOMAIN s /\ b[k] = s[from(k)]
  BY <1>1
<1>3. \A j, k \in DOMAIN b : j < k => from(j) < from(k)
  BY <1>1
<1> HIDE DEF from
<1>4. Sorted(b, u)
  BY <1>2, <1>3 DEF Sorted
<1> QED
  BY <1>4 DEF b

\* A step of the session or the MQTT thread that leaves the requests where they are.
LEMMA InLineStays ==
    ASSUME InLine, UNCHANGED <<queue, deferred, hand, undone>>,
           worker' = worker \/ worker' \notin {"choose", "restore", "decide"},
           loop' = loop \/ worker \notin {"choose", "restore", "decide"},
           worker = "restore" => owner' = owner \/ owner' # NoId \/ Len(queue) = Capacity,
           owner' # NoId /\ producer'.at \in {"stamp", "put"} => ~Press(producer'.req)
    PROVE  InLine'
  BY DEF InLine

LEMMA InitInLine == Init => InLine
<1> SUFFICES ASSUME Init PROVE InLine
  OBVIOUS
<1>1. /\ queue = <<>> /\ deferred = <<>> /\ owner = NoId /\ worker = "idle"
  BY DEF Init
<1> QED
  BY <1>1, EmptyInLine DEF InLine

LEMMA ProducerInLine ==
    ASSUME Orderly, InLine, Offer \/ Admit \/ Stamp
    PROVE  InLine'
<1>1. UNCHANGED <<queue, deferred, hand, worker, loop, undone>>
  BY DEF Offer, Admit, Stamp, shared, session, work, history
<1>2. producer \in Producers
  BY DEF Orderly, TypeOK, Producers
<1>3. CASE Offer
  <2>1. producer'.at = "admit" /\ owner' = owner
    BY <1>3 DEF Offer, shared
  <2> QED
    BY <1>1, <2>1, InLineStays
<1>4. CASE Admit
  <2> DEFINE r == producer.req
  <2>1. /\ producer' = IF Admissible(r)
                       THEN [producer EXCEPT !.at = "stamp", !.created = Reserves(r)]
                       ELSE Idle
        /\ owner' = IF Reserves(r) THEN r.who ELSE owner
    BY <1>4 DEF Admit
  <2>2. owner' = owner \/ owner' # NoId
    BY <2>1 DEF Reserves
  <2>3. ASSUME owner' # NoId, producer'.at \in {"stamp", "put"} PROVE ~Press(producer'.req)
    <3>1. Admissible(r) /\ producer'.req = r
      BY <1>2, <2>1, <2>3 DEF Producers, Idle
    <3>2. CASE owner = NoId
      BY <2>1, <2>3, <3>1, <3>2 DEF Reserves, Press
    <3>3. CASE owner # NoId
      BY <3>1, <3>3 DEF Admissible, Press
    <3> QED
      BY <3>2, <3>3
  <2> QED
    BY <1>1, <2>2, <2>3, InLineStays
<1>5. CASE Stamp
  <2>1. /\ producer.at = "stamp" /\ owner' = owner
        /\ producer' = [producer EXCEPT !.at = "put", !.req.gen = generation]
    BY <1>5 DEF Stamp, shared
  <2>2. producer.req \in Request
    BY <2>1 DEF Orderly, Stamped
  <2>3. producer'.req.kind = producer.req.kind /\ producer'.req.who = producer.req.who
    BY <1>2, <2>1, <2>2 DEF Producers, Request
  <2>4. owner # NoId => ~Press(producer'.req)
    BY <2>1, <2>3 DEF InLine, Press
  <2> QED
    BY <1>1, <2>1, <2>4, InLineStays
<1> QED
  BY <1>3, <1>4, <1>5

\* A press that is offered next follows the refusal, those being put back precede it.
LEMMA RefuseInLine ==
    ASSUME Orderly, Counted, InLine, RefuseLength
    PROVE  InLine'
<1> DEFINE r == producer.req
<1>1. /\ producer.at = "stamp" /\ producer'.at = "idle"
      /\ owner' = IF producer.created THEN Released(r) ELSE owner
      /\ undone' = IF producer.created /\ worker = "restore" THEN undone \cup {r.n} ELSE undone
      /\ UNCHANGED <<loop, queue, worker, hand, deferred, made>>
  BY DEF RefuseLength, work, session, Idle
<1>2. CASE producer.created /\ worker = "restore"
  <2>1. undone' = undone \cup {r.n} /\ undone \subseteq undone'
    BY <1>1, <1>2
  <2>2. r.n = made /\ made \in Nat /\ accepted \subseteq 1 .. made /\ made \notin accepted
    BY <1>1, BoundAssumption DEF Counted, Orderly, TypeOK
  <2>3. \A i \in DOMAIN deferred : deferred[i].n \in accepted
    BY DEF Counted, Numbers
  <2>4. \A n \in accepted : n < r.n
    BY <2>2
  <2>5. Passed(deferred, undone')
    BY <2>1, <2>3, <2>4 DEF Passed
  <2>6. /\ Sorted(queue, undone') /\ Sorted(deferred, undone') /\ Before(queue, deferred, undone')
        /\ Ahead(hand, queue, undone')
    BY <2>1, LineWidens DEF InLine
  <2> QED
    BY <1>1, <2>5, <2>6 DEF InLine
<1>3. CASE ~(producer.created /\ worker = "restore")
  <2>1. undone' = undone /\ (worker = "restore" => owner' = owner)
    BY <1>1, <1>3
  <2> QED
    BY <1>1, <2>1, InLineStays
<1> QED
  BY <1>2, <1>3

LEMMA PutInLine ==
    ASSUME Orderly, Counted, Refusals, InLine, Put
    PROVE  InLine'
<1> DEFINE r == producer.req
<1>1. /\ producer.at = "put" /\ producer'.at = "idle"
      /\ UNCHANGED <<loop, worker, hand, deferred, made, answered, undone>>
  BY DEF Put, work, session, Idle
<1>2. r \in Request /\ queue \in Seq(Request) /\ Len(queue) <= Capacity
      /\ Len(queue) \in Nat /\ Capacity \in Nat
  BY <1>1, BoundAssumption DEF Orderly, Stamped, TypeOK
<1> HIDE DEF r
<1>3. CASE Len(queue) < Capacity
  <2>1. queue' = Append(queue, r) /\ owner' = owner
    BY <1>3 DEF Put, r
  <2>2. \A n \in accepted : n < r.n
    <3>1. made \in Nat /\ accepted \subseteq 1 .. made /\ made \notin accepted /\ r.n = made
      BY <1>1, BoundAssumption DEF Counted, Orderly, TypeOK, r
    <3> QED
      BY <3>1
  <2>3. \A i \in DOMAIN queue : queue[i].n < r.n
    <3>1. \A i \in DOMAIN queue : queue[i].n \in accepted
      BY DEF Counted, Numbers
    <3> QED
      BY <2>2, <3>1
  <2>4. hand.n < r.n
    <3>1. hand.n \in accepted \/ hand.n = 0
      BY DEF Counted
    <3>2. 0 < r.n
      BY <1>2, BoundAssumption DEF Request
    <3> QED
      BY <2>2, <3>1, <3>2
  <2>5. Sorted(queue', undone) /\ Ahead(hand, queue', undone)
    BY <1>2, <2>1, <2>3, <2>4, LineAppended DEF InLine, Precedes
  <2>6. worker = "restore" => \/ owner # NoId /\ ~Press(r)
                              \/ Passed(deferred, undone)
    <3>1. Len(queue) # Capacity
      BY <1>2, <1>3
    <3> QED
      BY <1>1, <3>1 DEF InLine, r
  <2>7. Before(queue', deferred, undone)
    <3>1. CASE worker = "restore"
      <4>1. Ahead(r, deferred, undone)
        <5>1. \A m \in undone : m < r.n
          <6>1. made \in Nat /\ undone \subseteq 1 .. made /\ made \notin undone /\ r.n = made
            BY <1>1, BoundAssumption DEF Counted, Refusals, Orderly, TypeOK, r
          <6> QED
            BY <6>1
        <5> QED
          BY <2>6, <3>1, <5>1 DEF Ahead, Passed, Precedes
      <4> QED
        BY <1>2, <2>1, <4>1, LineAppended DEF InLine
    <3>2. CASE worker # "restore"
      <4>1. deferred = <<>>
        BY <3>2 DEF Orderly, Stamped
      <4> QED
        BY <4>1, EmptyInLine
    <3> QED
      BY <3>1, <3>2
  <2> QED
    BY <1>1, <2>1, <2>5, <2>6, <2>7 DEF InLine
<1>4. CASE ~(Len(queue) < Capacity)
  <2>1. queue' = queue /\ Len(queue) = Capacity
    BY <1>2, <1>4 DEF Put
  <2> QED
    BY <1>1, <2>1, InLineStays
<1> QED
  BY <1>3, <1>4

LEMMA TakeInLine ==
    ASSUME Orderly, InLine, Take
    PROVE  InLine'
<1>1. /\ loop = "free" /\ worker = "idle" /\ queue # <<>> /\ worker' = "choose"
      /\ hand' = Head(queue) /\ queue' = Tail(queue)
      /\ UNCHANGED <<loop, owner, producer, deferred, undone>>
  BY DEF Take, session, history
<1>2. queue \in Seq(Request) /\ deferred = <<>>
  BY <1>1 DEF Orderly, TypeOK, Stamped
<1>3. Sorted(queue', undone) /\ Ahead(hand', queue', undone)
  BY <1>1, <1>2, LineOfTail DEF InLine
<1> QED
  BY <1>1, <1>2, <1>3, EmptyInLine DEF InLine

LEMMA ChooseInLine ==
    ASSUME Orderly, InLine, Choose
    PROVE  InLine'
<1> DEFINE all  == <<hand>> \o queue
           mine == {i \in DOMAIN all : Chosen(all[i])}
           i    == CHOOSE k \in mine : \A m \in mine : k <= m
<1>1. worker = "choose" /\ UNCHANGED <<loop, owner, producer, undone>>
  BY DEF Choose, session, history
<1>2. CASE owner = NoId
  <2>1. worker' = "decide" /\ UNCHANGED <<hand, deferred, queue>>
    BY <1>2 DEF Choose
  <2> QED
    BY <1>1, <2>1 DEF InLine
<1>3. CASE owner # NoId
  <2>1. /\ worker' = "restore" /\ queue' = <<>>
        /\ hand' = IF mine = {} THEN None ELSE all[i]
        /\ deferred' = IF mine = {} THEN all ELSE RemoveAt(all, i)
    BY <1>3 DEF Choose
  <2>2. hand \in Request /\ queue \in Seq(Request)
    BY <1>1 DEF Orderly, Stamped, TypeOK
  <2>3. all \in Seq(Request) /\ DOMAIN all = 1 .. Len(all)
    BY <2>2, FrontElements, LenProperties
  <2>4. Sorted(all, undone)
    BY <2>2, SortedInFront DEF InLine
  <2>5. Sorted(deferred', undone) /\ (hand' = None \/ ~Press(hand'))
    <3>1. CASE mine = {}
      BY <2>1, <2>4, <3>1
    <3>2. CASE mine # {}
      <4>1. \E k \in mine : \A m \in mine : k <= m
        <5>1. mine \subseteq Nat
          BY <2>3
        <5> HIDE DEF mine
        <5> QED
          BY <3>2, <5>1, HasMinimum
      <4>2. i \in mine
        <5> HIDE DEF mine
        <5> QED
          BY <4>1
      <4>3. i \in 1 .. Len(all) /\ Chosen(all[i])
        BY <2>3, <4>2
      <4>4. hand' = all[i] /\ deferred' = RemoveAt(all, i)
        BY <2>1, <3>2
      <4> HIDE DEF i, mine, all
      <4>5. ~Press(hand')
        BY <1>3, <4>3, <4>4 DEF Chosen, OfOwner, Press
      <4> QED
        BY <2>3, <2>4, <4>3, <4>4, <4>5, SortedInRemoveAt
    <3> QED
      BY <3>1, <3>2
  <2> QED
    BY <1>1, <1>3, <2>1, <2>5, EmptyInLine DEF InLine
<1> QED
  BY <1>2, <1>3

LEMMA RestoreInLine ==
    ASSUME Orderly, InLine, Restore
    PROVE  InLine'
<1> DEFINE r == Head(deferred)
<1>1. /\ worker = "restore" /\ deferred # <<>> /\ deferred' = Tail(deferred)
      /\ UNCHANGED <<loop, producer, worker, hand, undone>>
  BY DEF Restore, session
<1>2. /\ deferred \in Seq(Request) /\ queue \in Seq(Request) /\ Len(queue) <= Capacity
      /\ Len(queue) \in Nat /\ Capacity \in Nat
  BY BoundAssumption DEF Orderly, TypeOK
<1>3. r \in Request /\ deferred' \in Seq(Request)
  BY <1>1, <1>2, HeadTailProperties
<1>4. /\ Sorted(deferred', undone) /\ Ahead(r, deferred', undone)
      /\ \A h : Ahead(h, deferred, undone) => Ahead(h, deferred', undone)
                                      /\ (Press(h) /\ Press(r) => Precedes(h, r, undone))
  BY <1>1, <1>2, LineOfTail DEF InLine
<1> HIDE DEF r
<1>5. Before(queue, deferred', undone) /\ \A i \in DOMAIN queue : Press(queue[i]) /\ Press(r)
                                                                    => Precedes(queue[i], r, undone)
  BY <1>4 DEF InLine, Before
<1>8. Passed(deferred, undone) => Passed(deferred', undone)
  <2>1. \A i \in DOMAIN deferred' : i + 1 \in DOMAIN deferred /\ deferred'[i] = deferred[i + 1]
    BY <1>1, <1>2, TailElements
  <2> QED
    BY <2>1 DEF Passed
<1>6. CASE Len(queue) < Capacity
  <2>1. queue' = Append(queue, r) /\ owner' = owner
    BY <1>6 DEF Restore, r
  <2>2. Sorted(queue', undone) /\ Before(queue', deferred', undone)
    BY <1>2, <1>3, <1>4, <1>5, <2>1, LineAppended DEF InLine
  <2>3. Ahead(hand, queue', undone)
    <3>1. queue' \in Seq(Request)
      BY <1>2, <1>3, <2>1
    <3>2. hand = None => Ahead(hand, queue', undone)
      BY <3>1, NoneIsAhead
    <3>3. ~Press(hand) => Ahead(hand, queue', undone)
      BY DEF Ahead
    <3> QED
      BY <1>1, <3>2, <3>3 DEF InLine
  <2>4. owner # NoId \/ Passed(deferred', undone)
    <3>1. Len(queue) # Capacity
      BY <1>2, <1>6
    <3> QED
      BY <1>1, <1>8, <3>1 DEF InLine
  <2> QED
    BY <1>1, <1>4, <2>1, <2>2, <2>3, <2>4 DEF InLine
<1>7. CASE ~(Len(queue) < Capacity)
  <2>1. queue' = queue /\ Len(queue) = Capacity /\ owner' = AfterResult(r, FALSE)
    BY <1>2, <1>7 DEF Restore, r, Answer
  <2>2. owner' \in {owner, NoId}
    BY <2>1 DEF AfterResult, Released
  <2> QED
    BY <1>1, <1>4, <1>5, <2>1, <2>2 DEF InLine
<1> QED
  BY <1>6, <1>7

LEMMA FinishInLine ==
    ASSUME Orderly, InLine, NEW ok \in BOOLEAN, Finish(ok)
    PROVE  InLine'
<1>1. /\ owner' = AfterResult(hand, ok) /\ worker' = "idle" /\ hand' = None
      /\ UNCHANGED <<loop, queue, producer, deferred, undone>>
  BY DEF Finish, Answer, session
<1>2. owner' \in {owner, NoId}
  BY <1>1 DEF AfterResult, Released
<1>3. Ahead(None, queue, undone)
  BY NoneIsAhead DEF Orderly, TypeOK
<1> QED
  BY <1>1, <1>2, <1>3 DEF InLine

LEMMA WorkerInLine ==
    ASSUME Orderly, InLine,
           Restored \/ Decide \/ Reject \/ Send \/ NotSent \/ Acknowledged \/ Failed
    PROVE  InLine'
<1>1. CASE Restored \/ Decide \/ Send
  <2>1. /\ UNCHANGED <<queue, deferred, hand, owner, producer, loop, undone>>
        /\ worker' # "restore" /\ worker' # "choose"
        /\ worker' = "decide" => worker = "restore"
    BY <1>1 DEF Restored, Decide, Send, shared, session, history
  <2> QED
    BY <2>1 DEF InLine
<1>2. CASE Reject \/ NotSent \/ Acknowledged \/ Failed
  <2>1. Finish(TRUE) \/ Finish(FALSE)
    BY <1>2 DEF Reject, NotSent, Acknowledged, Failed
  <2> QED
    BY <2>1, FinishInLine
<1> QED
  BY <1>1, <1>2

LEMMA SessionInLine ==
    ASSUME Orderly, InLine,
           \/ Stop \/ Start \/ Discard \/ Clear \/ CommunicationOff \/ CommunicationOn
           \/ UNCHANGED vars
    PROVE  InLine'
<1>1. CASE Stop \/ Start \/ CommunicationOff \/ CommunicationOn \/ UNCHANGED vars
  <2>1. /\ UNCHANGED <<queue, deferred, hand, owner, producer, worker, undone>>
        /\ loop' = loop \/ worker \notin {"choose", "restore", "decide"}
    BY <1>1 DEF Stop, Start, CommunicationOff, CommunicationOn, Awaits, vars, shared, session,
                work, history
  <2> QED
    BY <2>1 DEF InLine
<1>2. CASE Discard
  <2>1. /\ queue' = <<>> /\ owner' \in {owner, NoId} /\ loop # "free"
        /\ UNCHANGED <<producer, worker, hand, deferred, undone>>
    BY <1>2 DEF Discard, DiscardTo, work
  <2>2. worker \notin {"choose", "restore", "decide"}
    BY <2>1 DEF InLine
  <2> QED
    BY <2>1, <2>2, EmptyInLine DEF InLine
<1>3. CASE Clear
  <2>1. /\ loop # "free" /\ owner' = NoId
        /\ UNCHANGED <<queue, producer, worker, hand, deferred, undone>>
    BY <1>3 DEF Clear, work
  <2>2. worker \notin {"choose", "restore", "decide"}
    BY <2>1 DEF InLine
  <2> QED
    BY <2>1, <2>2 DEF InLine
<1> QED
  BY <1>1, <1>2, <1>3

LEMMA SpecInLine == Spec => []InLine
<1>1. ASSUME Orderly, Counted, Refusals, InLine, [Next]_vars PROVE InLine'
  BY <1>1, ProducerInLine, RefuseInLine, PutInLine, TakeInLine, ChooseInLine, RestoreInLine,
     WorkerInLine, SessionInLine DEF Next, Enqueue, Dequeue, Process, Session
<1> QED
  BY <1>1, InitInLine, SpecOrderly, SpecCounted, SpecRefusals, PTL DEF Spec

-----------------------------------------------------------------------------
(* Only one action hands a frame to the transmit queue.                     *)

LEMMA OnlySendSends ==
    ASSUME [Next]_vars, Sends
    PROVE  Send
<1>1. worker = "lock" /\ worker' = "ack"
  BY DEF Sends
<1>2. ~Enqueue
  BY <1>1 DEF Enqueue, Offer, Admit, RefuseLength, Stamp, Put, work
<1>3. ~Dequeue
  BY <1>1 DEF Dequeue, Take, Choose, Restore, Restored
<1>4. ~Session
  BY <1>1 DEF Session, Stop, Start, Discard, DiscardTo, Clear, CommunicationOff,
              CommunicationOn, work
<1>5. Process => Send
  BY <1>1 DEF Process, Decide, Reject, NotSent, Acknowledged, Failed, Finish
<1>6. ~UNCHANGED vars
  BY <1>1 DEF vars, work
<1> QED
  BY <1>2, <1>3, <1>4, <1>5, <1>6 DEF Next

LEMMA SendsItsOwn ==
    ASSUME Orderly, Send
    PROVE  hand.born = generation /\ connected /\ (opened # NoId => hand.who = opened)
<1>1. hand.gen = generation /\ connected /\ worker = "lock"
  BY DEF Send, Sendable, Current
<1>2. hand # None /\ hand \in Sound /\ generation \in Nat
  BY <1>1 DEF Orderly, Stamped, TypeOK
<1>3. hand.gen = hand.born \/ hand.gen < generation \/ Between
  BY <1>2 DEF Sound
<1>4. ~(hand.gen < generation) /\ ~Between
  BY <1>1, <1>2 DEF Between
<1> QED
  BY <1>1, <1>2, <1>3, <1>4 DEF Orderly, Kept

\* The queue keeps its bound although requests are put back into it, and every
\* variable its values.
THEOREM QueueTypeCorrect == Spec => []TypeOK
<1>1. Orderly => TypeOK
  BY DEF Orderly
<1> QED
  BY <1>1, SpecOrderly, PTL

\* A frame is sent only in the panel session in which its request was made, however
\* the two threads interleave and however often the session changes.
THEOREM SentInItsSession == Spec => NeverCarriedOver
<1>1. ASSUME Orderly, [Next]_vars
      PROVE  [Sends => hand.born = generation /\ connected]_vars
  BY <1>1, OnlySendSends, SendsItsOwn
<1> QED
  BY <1>1, SpecOrderly, PTL DEF Spec, NeverCarriedOver

\* Between two segments of an interaction that owns the keypad no frame of anybody
\* else's is sent.
THEOREM NobodyInterrupts == Spec => Exclusive
<1>1. ASSUME Orderly, [Next]_vars
      PROVE  [Sends /\ opened # NoId => hand.who = opened]_vars
  BY <1>1, OnlySendSends, SendsItsOwn
<1> QED
  BY <1>1, SpecOrderly, PTL DEF Spec, Exclusive

\* As long as the keypad is owned somebody is going to give it back: a request of the
\* owner's is under way or its client is to send the next segment.
THEOREM KeypadIsGivenBack == Spec => []OwnerIsAlive
<1>1. ASSUME Orderly PROVE OwnerIsAlive
  BY <1>1 DEF Orderly, Kept, OwnerIsAlive, Carries, Holds, Held, HeldIn
<1> QED
  BY <1>1, SpecOrderly, PTL
\* A request that was accepted is in one place until it is answered, and is answered
\* once, whatever the worker takes out and puts back while the session is reset.
THEOREM NoneLostNoneDoubled == Spec => []Accounted
<1>1. ASSUME Counted, NEW n \in 1 .. MaxRequests
      PROVE  Places(n) = IF n \in accepted THEN 1 ELSE 0
  <2>1. /\ Cardinality({i \in DOMAIN queue : queue[i].n = n})
             = IF n \in Numbers(queue) THEN 1 ELSE 0
        /\ Cardinality({i \in DOMAIN deferred : deferred[i].n = n})
             = IF n \in Numbers(deferred) THEN 1 ELSE 0
    BY <1>1, OnePosition DEF Counted
  <2>2. n # 0
    OBVIOUS
  <2>3. /\ n \in accepted <=> \/ n \in Numbers(queue) \/ n \in Numbers(deferred)
                              \/ n \in answered \/ hand.n = n
        /\ n \in Numbers(queue) => n \notin Numbers(deferred) /\ n \notin answered /\ hand.n # n
        /\ n \in Numbers(deferred) => n \notin answered /\ hand.n # n
        /\ n \in answered => hand.n # n
    BY <1>1, <2>2 DEF Counted
  <2> QED
    BY <2>1, <2>3 DEF Places
<1>2. Counted => Accounted
  BY <1>1 DEF Accounted
<1> QED
  BY <1>2, SpecCounted, PTL
\* Single presses go out in the order in which they arrived, although they are taken
\* out and put back while somebody else's interaction is open; only one made after a
\* refusal for length in the middle of putting them back may overtake those made before.
THEOREM PressesInOrder == Spec => PressOrder
<1>1. ASSUME InLine, [Next]_vars
      PROVE  [Sends /\ Press(hand) => \A i \in DOMAIN queue :
                                         Press(queue[i]) => Precedes(hand, queue[i], undone)]_vars
  BY <1>1 DEF InLine, Ahead
<1> QED
  BY <1>1, SpecInLine, PTL DEF Spec, PressOrder
===============================================================================
