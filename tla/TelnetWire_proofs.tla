-------------------------- MODULE TelnetWire_proofs --------------------------
(***************************************************************************)
(* Proofs about TelnetWire, for every set of options, data and payloads    *)
(* and every buffer size: the framer gets what the panel sent, the bridge  *)
(* believes what the serial server has said when they have heard each      *)
(* other, and the frames are the lines of the stream, wherever reads cut   *)
(* it.                                                                     *)
(***************************************************************************)
EXTENDS TelnetWire, SequenceTheorems, FiniteSetTheorems, WellFoundedInduction, TLAPS

-----------------------------------------------------------------------------
(* Folds over a chunk.  Induction is over the positions up to which a       *)
(* statement holds, as a set.                                               *)

LEMMA Induction ==
    ASSUME NEW n \in Nat, NEW S, 0 \in S, \A i \in 1 .. n : i - 1 \in S => i \in S
    PROVE  0 .. n \subseteq S
<1> DEFINE Bad == {i \in 0 .. n : i \notin S}
           R == OpToRel(<, Nat)
<1> SUFFICES ASSUME Bad # {} PROVE FALSE
  OBVIOUS
<1>1. IsWellFoundedOn(R, Nat)
  BY NatLessThanWellFounded
<1>2. Bad \subseteq Nat
  OBVIOUS
<1>3. PICK m \in Bad : \A k \in Bad : ~(<<k, m>> \in R)
  <2> HIDE DEF R, Bad
  <2> QED
    BY <1>1, <1>2, WFMin
<1>4. m \in 0 .. n /\ m \notin S /\ m # 0
  OBVIOUS
<1>5. m \in 1 .. n /\ m - 1 \in 0 .. n /\ m - 1 \in Nat /\ m - 1 < m /\ m \in Nat
  BY <1>4
<1>6. m - 1 \notin S
  BY <1>4, <1>5
<1>7. <<m - 1, m>> \in R
  BY <1>5 DEF OpToRel
<1> QED
  BY <1>3, <1>5, <1>6, <1>7

\* The equation of Feeds has a solution, for any number of bytes.
IsFeeds(g, f, c, n) == g = [i \in 0 .. n |-> IF i = 0 THEN Still(f) ELSE Then(g[i - 1], c[i])]

LEMMA FeedsExist ==
    ASSUME NEW f, NEW c, NEW n \in Nat
    PROVE  \E g : IsFeeds(g, f, c, n)
<1> DEFINE S == {m \in Nat : \E g : IsFeeds(g, f, c, m)}
<1>1. 0 \in S
  <2> DEFINE g == [i \in 0 .. 0 |-> Still(f)]
  <2>1. \A i \in 0 .. 0 : i = 0
    OBVIOUS
  <2>2. IsFeeds(g, f, c, 0)
    BY <2>1 DEF IsFeeds
  <2> QED
    BY <2>2
<1>2. ASSUME NEW m \in 1 .. n, m - 1 \in S
      PROVE  m \in S
  <2>1. PICK h : IsFeeds(h, f, c, m - 1)
    BY <1>2
  <2> DEFINE g == [i \in 0 .. m |-> IF i = m THEN Then(h[m - 1], c[m]) ELSE h[i]]
  <2>2. \A i \in 0 .. (m - 1) : h[i] = IF i = 0 THEN Still(f) ELSE Then(h[i - 1], c[i])
    BY <2>1 DEF IsFeeds
  <2>3. ASSUME NEW i \in 0 .. m
        PROVE  g[i] = IF i = 0 THEN Still(f) ELSE Then(g[i - 1], c[i])
    <3>1. CASE i = m
      <4>1. i # 0 /\ i - 1 \in 0 .. m /\ i - 1 # m
        BY <3>1
      <4>2. g[i] = Then(h[i - 1], c[i]) /\ g[i - 1] = h[i - 1]
        BY <3>1, <4>1
      <4> HIDE DEF g
      <4> QED
        BY <4>1, <4>2
    <3>2. CASE i # m /\ i # 0
      <4>1. i \in 0 .. (m - 1) /\ i - 1 \in 0 .. m /\ i - 1 # m
        BY <3>2
      <4>2. g[i] = h[i] /\ g[i - 1] = h[i - 1]
        BY <3>2, <4>1
      <4> HIDE DEF g
      <4> QED
        BY <2>2, <3>2, <4>1, <4>2
    <3>3. CASE i # m /\ i = 0
      <4>1. i \in 0 .. (m - 1)
        BY <3>3
      <4>2. g[i] = h[i]
        BY <3>3
      <4> HIDE DEF g
      <4> QED
        BY <2>2, <3>3, <4>1, <4>2
    <3> QED
      BY <3>1, <3>2, <3>3
  <2>4. g = [i \in 0 .. m |-> g[i]]
    OBVIOUS
  <2> HIDE DEF g
  <2>5. IsFeeds(g, f, c, m)
    BY <2>3, <2>4 DEF IsFeeds
  <2> QED
    BY <2>5
<1> HIDE DEF S
<1>3. n \in S
  BY <1>1, <1>2, Induction
<1> QED
  BY <1>3 DEF S

LEMMA FeedsStep ==
    ASSUME NEW f, NEW c, Len(c) \in Nat
    PROVE  /\ Feeds(f, c)[0] = Still(f)
           /\ \A i \in 1 .. Len(c) : Feeds(f, c)[i] = Then(Feeds(f, c)[i - 1], c[i])
<1> DEFINE g == Feeds(f, c)
           n == Len(c)
<1> HIDE DEF n
<1>1. \E h : IsFeeds(h, f, c, n)
  BY FeedsExist DEF n
<1>2. g = [i \in 0 .. n |-> IF i = 0 THEN Still(f) ELSE Then(g[i - 1], c[i])]
  BY <1>1 DEF Feeds, IsFeeds, n
<1> HIDE DEF g
<1>3. 0 \in 0 .. n /\ \A i \in 1 .. n : i \in 0 .. n /\ i # 0
  BY DEF n
<1> QED
  BY <1>2, <1>3 DEF g, n

-----------------------------------------------------------------------------
(* One byte: what the filter makes of it where it stands.                   *)

\* The filter sends its replies only after the first IAC, and a command under way is
\* one of the four.
Bytes   == {"IAC", "SB", "SE", "NOP"} \cup Commands \cup Options \cup Data
              \cup UNION {{p[i] : i \in 1 .. Len(p)} : p \in Payloads}
Filters == {f \in [at : {"data", "iac", "neg", "sub", "subiac"},
                   command : Commands \cup {"none"},
                   payload : Seq(Bytes), active : BOOLEAN, started : BOOLEAN,
                   tx : {"unknown", "yes", "no"}, rx : {"unknown", "yes", "no"},
                   com : BOOLEAN, configured : BOOLEAN] :
                /\ f.at = "neg" => f.command \in Commands
                /\ f.active = f.started
                /\ f.at # "data" /\ f.at # "iac" => f.started}
Reply  == {Configuration} \cup (Commands \X Bytes)
States == [f : Filters, serial : Seq(Bytes), replies : Seq(Reply)]

Opening(f) == IF f.started THEN <<>> ELSE Preamble
Started(f) == [f EXCEPT !.active = TRUE, !.started = TRUE]

LEMMA DataByte ==
    ASSUME NEW f \in Filters, f.at = "data", NEW b \in Bytes
    PROVE  FeedByte(Still(f), b) =
              IF b = "IAC" THEN Still([f EXCEPT !.at = "iac"])
              ELSE [f |-> f, serial |-> <<b>>, replies |-> <<>>]
<1>1. [f EXCEPT !.at = "data"] = f
  BY DEF Filters
<1>2. Append(<<>>, b) = <<b>>
  OBVIOUS
<1>3. CASE b = "IAC"
  BY <1>3 DEF FeedByte, Still, Goto
<1>4. CASE b # "IAC"
  <2>1. FeedByte(Still(f), b) = Emit(Still(f), b)
    BY <1>4 DEF FeedByte, Still
  <2> QED
    BY <1>1, <1>2, <1>4, <2>1 DEF Still, Emit
<1> QED
  BY <1>3, <1>4

LEMMA ActivateByte ==
    ASSUME NEW f \in Filters, f.at = "iac"
    PROVE  Activate(Still(f)) = [f |-> Started(f), serial |-> <<>>, replies |-> Opening(f)]
<1>1. CASE f.started
  <2>1. f.active /\ Started(f) = f /\ Opening(f) = <<>>
    BY <1>1 DEF Filters, Started, Opening
  <2> QED
    BY <2>1 DEF Activate, Still
<1>2. CASE ~f.started
  <2>1. ~f.active /\ Opening(f) = Preamble /\ <<>> \o Preamble = Preamble
    BY <1>2 DEF Filters, Opening, Preamble
  <2> QED
    BY <1>2, <2>1 DEF Activate, Still, Replies, Started
<1> QED
  BY <1>1, <1>2

LEMMA IacByte ==
    ASSUME NEW f \in Filters, f.at = "iac", NEW b \in Bytes
    PROVE  FeedByte(Still(f), b) =
              [f |-> IF b \in Commands THEN [Started(f) EXCEPT !.at = "neg", !.command = b]
                     ELSE IF b = "SB" THEN [Started(f) EXCEPT !.at = "sub", !.payload = <<>>]
                     ELSE [Started(f) EXCEPT !.at = "data"],
               serial |-> IF b = "IAC" THEN <<b>> ELSE <<>>, replies |-> Opening(f)]
<1>1. FeedByte(Still(f), b) = AfterIac(Activate(Still(f)), b)
  BY DEF FeedByte, Still
<1>2. "IAC" \notin Commands /\ "SB" \notin Commands
  BY DEF Commands
<1>3. Append(<<>>, b) = <<b>>
  OBVIOUS
<1> DEFINE s == [f |-> Started(f), serial |-> <<>>, replies |-> Opening(f)]
<1>4. FeedByte(Still(f), b) = AfterIac(s, b)
  BY <1>1, ActivateByte
<1>5. CASE b = "IAC"
  BY <1>2, <1>3, <1>4, <1>5 DEF AfterIac, Emit
<1>6. CASE b \in Commands
  BY <1>2, <1>4, <1>6 DEF AfterIac
<1>7. CASE b = "SB"
  BY <1>2, <1>4, <1>7 DEF AfterIac
<1>8. CASE b # "IAC" /\ b \notin Commands /\ b # "SB"
  BY <1>4, <1>8 DEF AfterIac, Goto
<1> QED
  BY <1>5, <1>6, <1>7, <1>8

LEMMA SubByte ==
    ASSUME NEW f \in Filters, f.at = "sub", NEW b \in Bytes
    PROVE  FeedByte(Still(f), b) =
              Still(IF b = "IAC" THEN [f EXCEPT !.at = "subiac"]
                    ELSE [f EXCEPT !.payload = Append(@, b)])
  BY DEF FeedByte, Still, Goto

\* The end of a subnegotiation, and an IAC in it.
Finished(f)   == [f EXCEPT !.at = "data", !.payload = <<>>,
                           !.com = @ \/ (f.payload # <<>> /\ f.payload[1] = "COM")]
Escaped(f, b) == [f EXCEPT !.at = "sub", !.payload = Append(@, b)]

LEMMA SubIacByte ==
    ASSUME NEW f \in Filters, f.at = "subiac", NEW b \in Bytes
    PROVE  FeedByte(Still(f), b) =
              Still(IF b = "SE" THEN Finished(f) ELSE IF b = "IAC" THEN Escaped(f, b)
                    ELSE [f EXCEPT !.at = "sub"])
  BY DEF FeedByte, Still, Goto, AfterSubIac, ProcessSubnegotiation, Finished, Escaped

\* What a negotiation makes of the filter, and what it answers.
Granting == {"WILL", "DO"}
With(f, at, command, tx, rx, com, configured) ==
    [at |-> at, command |-> command, payload |-> f.payload, active |-> f.active,
     started |-> f.started, tx |-> tx, rx |-> rx, com |-> com, configured |-> configured]
Settled(f, c, o) ==
    With(f, "data", "none",
         IF o # "BIN" THEN f.tx
         ELSE IF c = "DO" THEN "yes" ELSE IF c = "DONT" THEN "no" ELSE f.tx,
         IF o # "BIN" THEN f.rx
         ELSE IF c = "WILL" THEN "yes" ELSE IF c = "WONT" THEN "no" ELSE f.rx,
         IF o # "COM" THEN f.com ELSE IF c \in Granting THEN TRUE ELSE FALSE,
         IF o = "COM" /\ c \in Granting THEN TRUE ELSE f.configured)
Parameters(f) == IF f.configured THEN <<>> ELSE <<Configuration>>
Answer(f, c, o) ==
    CASE c = "WILL" /\ o = "SGA"                   -> << <<"DO", o>> >>
      [] c = "WILL" /\ o = "COM"                   -> Parameters(f)
      [] c = "DO" /\ o = "COM"                     -> << <<"WILL", o>> >> \o Parameters(f)
      [] c = "WILL" /\ o \notin Known              -> << <<"DONT", o>> >>
      [] c = "DO" /\ o \notin {"SGA", "BIN", "COM"} -> << <<"WONT", o>> >>
      [] OTHER                                     -> <<>>

\* A step without serial bytes.
Step(f, replies) == [f |-> f, serial |-> <<>>, replies |-> replies]

LEMMA RepliesStep ==
    ASSUME NEW f, NEW q, NEW r
    PROVE  Replies(Step(f, q), r) = Step(f, q \o r)
  BY DEF Replies, Step

LEMMA NegotiationByte ==
    ASSUME NEW f \in Filters, f.at = "neg", NEW o \in Bytes
    PROVE  FeedByte(Still(f), o) = Step(Settled(f, f.command, o), Answer(f, f.command, o))
<1> DEFINE c  == f.command
           g  == With(f, "data", "none", f.tx, f.rx, f.com, f.configured)
           s0 == Still(f)
           s1 == [s0 EXCEPT !.f.at = "data"]
           t  == [s1 EXCEPT !.f.command = "none"]
<1>1. c \in Commands
  BY DEF Filters
<1>2. FeedByte(s0, o) = Negotiate(s0, o) /\ s0.f = f
  BY DEF FeedByte, Still
<1>3. f = With(f, "neg", c, f.tx, f.rx, f.com, f.configured)
  BY DEF Filters, With
<1>4. s0 = Step(With(f, "neg", c, f.tx, f.rx, f.com, f.configured), <<>>)
  BY <1>3 DEF Still, Step
<1>5. s1 = Step(With(f, "data", c, f.tx, f.rx, f.com, f.configured), <<>>)
  <2> HIDE DEF s0
  <2> QED
    BY <1>4 DEF Step, With
<1>6. t = Step(g, <<>>)
  <2> HIDE DEF s0, s1
  <2> QED
    BY <1>5 DEF Step, With
<1>7. /\ c = "WILL" => FeedByte(s0, o) = OnWill(t, o)
      /\ c = "DO"   => FeedByte(s0, o) = OnDo(t, o)
      /\ c = "WONT" => FeedByte(s0, o) = OnWont(t, o)
      /\ c = "DONT" => FeedByte(s0, o) = OnDont(t, o)
  <2>1. Negotiate(s0, o) = CASE c = "WILL" -> OnWill(t, o) [] c = "DO" -> OnDo(t, o)
                             [] c = "WONT" -> OnWont(t, o) [] c = "DONT" -> OnDont(t, o)
    <3> HIDE DEF s0
    <3> QED
      BY <1>2 DEF Negotiate
  <2> HIDE DEF s0, s1, t
  <2> QED
    BY <1>2, <2>1
<1> HIDE DEF s0, s1, t
<1>8. \A q : Replies(t, <<q>>) = Step(g, <<q>>)
  BY <1>6 DEF Replies, Step
<1>9. ASSUME NEW s, NEW q, NEW r, s = Step(g, q), q \o Parameters(f) = r
      PROVE  ActivateRfc2217(s) =
                Step(With(f, "data", "none", f.tx, f.rx, TRUE, TRUE), r)
  <2> DEFINE u == Replies(s, Parameters(f))
             x == [u.f EXCEPT !.com = TRUE]
             v == [u EXCEPT !.f = x]
             y == [v.f EXCEPT !.configured = TRUE]
  <2>1. s.f.configured = f.configured
    BY <1>9 DEF Step, With
  <2>2. u = Step(g, q \o Parameters(f))
    <3> HIDE DEF g
    <3> DEFINE e == Parameters(f)
    <3> HIDE DEF e
    <3>1. Replies(Step(g, q), e) = Step(g, q \o e)
      BY RepliesStep
    <3> QED
      BY <1>9, <3>1 DEF e
  <2>3. ActivateRfc2217(s) = [v EXCEPT !.f = y]
    BY <2>1 DEF ActivateRfc2217, Parameters
  <2> HIDE DEF u
  <2>4. u = Step(g, r)
    BY <1>9, <2>2
  <2>5. x = With(f, "data", "none", f.tx, f.rx, TRUE, f.configured)
    <3>1. u.f = g
      BY <2>4 DEF Step
    <3>2. ASSUME NEW w
          PROVE  [u.f EXCEPT !.com = w]
                    = With(f, "data", "none", f.tx, f.rx, w, f.configured)
      BY <3>1 DEF With
    <3> QED
      BY <3>2, Zenon
  <2> HIDE DEF x
  <2>6. v = Step(x, r)
    BY <2>4 DEF Step
  <2> HIDE DEF v
  <2>7. y = With(f, "data", "none", f.tx, f.rx, TRUE, TRUE)
    <3>1. v.f = x
      BY <2>6 DEF Step
    <3>2. ASSUME NEW m, v.f = With(f, "data", "none", f.tx, f.rx, m, f.configured), NEW w
          PROVE  [v.f EXCEPT !.configured = w] = With(f, "data", "none", f.tx, f.rx, m, w)
      BY <3>2 DEF With
    <3> QED
      BY <2>5, <3>1, <3>2, Zenon
  <2> HIDE DEF y
  <2>8. [v EXCEPT !.f = y] = Step(y, r)
    BY <2>6 DEF Step
  <2> QED
    BY <2>3, <2>7, <2>8
<1>10. CASE c = "WILL"
  <2>2. CASE o = "ECHO"
    <3>1. Answer(f, c, o) = <<>> /\ g = Settled(f, c, o)
      BY <1>10, <2>2 DEF Answer, Settled, Known
    <3>2. FeedByte(Still(f), o) = t
      BY <1>7, <1>10, <2>2 DEF OnWill, s0
    <3> QED
      BY <1>6, <3>1, <3>2
  <2>3. CASE o = "SGA"
    <3>1. Answer(f, c, o) = << <<"DO", o>> >> /\ g = Settled(f, c, o)
      BY <1>10, <2>3 DEF Answer, Settled, Known
    <3>2. FeedByte(Still(f), o) = Replies(t, << <<"DO", o>> >>)
      BY <1>7, <1>10, <2>3 DEF OnWill, s0
    <3> QED
      BY <1>8, <3>1, <3>2
  <2>4. CASE o = "BIN"
    <3>1. [t EXCEPT !.f.rx = "yes"] = Step(Settled(f, c, o), <<>>)
      <4>1. Settled(f, c, o) = With(f, "data", "none", f.tx, "yes", f.com, f.configured)
        BY <1>10, <2>4 DEF Settled
      <4> QED
        BY <1>6, <4>1 DEF Step, With
    <3>2. Answer(f, c, o) = <<>>
      BY <1>10, <2>4 DEF Answer, Known
    <3>3. FeedByte(Still(f), o) = [t EXCEPT !.f.rx = "yes"]
      BY <1>7, <1>10, <2>4 DEF OnWill, s0
    <3> QED
      BY <3>1, <3>2, <3>3
  <2>5. CASE o = "COM"
    <3>1. Answer(f, c, o) = Parameters(f)
      BY <1>10, <2>5 DEF Answer, Known
    <3>4. <<>> \o Parameters(f) = Parameters(f)
      BY DEF Parameters
    <3>2. Settled(f, c, o) = With(f, "data", "none", f.tx, f.rx, TRUE, TRUE)
      BY <1>10, <2>5 DEF Settled, Granting
    <3>3. FeedByte(Still(f), o) = ActivateRfc2217(t)
      BY <1>7, <1>10, <2>5 DEF OnWill, s0
    <3> QED
      BY <1>6, <1>9, <3>1, <3>2, <3>3, <3>4
  <2>6. CASE o \notin Known
    <3>1. o # "ECHO" /\ o # "SGA" /\ o # "BIN" /\ o # "COM"
      BY <2>6 DEF Known
    <3>2. FeedByte(s0, o) = Step(g, << <<"DONT", o>> >>)
      BY <1>7, <1>8, <1>10, <3>1 DEF OnWill
    <3>3. g = Settled(f, c, o)
      BY <3>1 DEF Settled
    <3>4. Answer(f, c, o) = << <<"DONT", o>> >>
      BY <1>10, <2>6, <3>1 DEF Answer, Granting
    <3> QED
      BY <3>2, <3>3, <3>4 DEF s0
  <2> QED
    BY <2>2, <2>3, <2>4, <2>5, <2>6 DEF Known
<1>11. CASE c = "DO"
  <2>2. CASE o = "SGA"
    <3>1. Answer(f, c, o) = <<>> /\ g = Settled(f, c, o)
      BY <1>11, <2>2 DEF Answer, Settled
    <3>2. FeedByte(Still(f), o) = t
      BY <1>7, <1>11, <2>2 DEF OnDo, s0
    <3> QED
      BY <1>6, <3>1, <3>2
  <2>3. CASE o = "BIN"
    <3>1. [t EXCEPT !.f.tx = "yes"] = Step(Settled(f, c, o), <<>>)
      <4>1. Settled(f, c, o) = With(f, "data", "none", "yes", f.rx, f.com, f.configured)
        BY <1>11, <2>3 DEF Settled
      <4> QED
        BY <1>6, <4>1 DEF Step, With
    <3>2. Answer(f, c, o) = <<>>
      BY <1>11, <2>3 DEF Answer
    <3>3. FeedByte(Still(f), o) = [t EXCEPT !.f.tx = "yes"]
      BY <1>7, <1>11, <2>3 DEF OnDo, s0
    <3> QED
      BY <3>1, <3>2, <3>3
  <2>4. CASE o = "COM"
    <3>1. << <<"WILL", o>> >> \o Parameters(f) = Answer(f, c, o)
      BY <1>11, <2>4 DEF Answer, Granting
    <3>2. Settled(f, c, o) = With(f, "data", "none", f.tx, f.rx, TRUE, TRUE)
      BY <1>11, <2>4 DEF Settled, Granting
    <3>3. FeedByte(Still(f), o) = ActivateRfc2217(Replies(t, << <<"WILL", o>> >>))
      BY <1>7, <1>11, <2>4 DEF OnDo, s0
    <3> QED
      BY <1>8, <1>9, <3>1, <3>2, <3>3
  <2>5. CASE o \notin {"SGA", "BIN", "COM"}
    <3>2. FeedByte(s0, o) = Step(g, << <<"WONT", o>> >>)
      BY <1>7, <1>8, <1>11, <2>5 DEF OnDo
    <3>3. g = Settled(f, c, o)
      BY <2>5 DEF Settled
    <3>4. Answer(f, c, o) = << <<"WONT", o>> >>
      BY <1>11, <2>5 DEF Answer, Granting
    <3> QED
      BY <3>2, <3>3, <3>4 DEF s0
  <2> QED
    BY <2>2, <2>3, <2>4, <2>5
<1>12. CASE c = "WONT" \/ c = "DONT"
  <2>1. FeedByte(s0, o) = IF c = "WONT" THEN OnWont(t, o) ELSE OnDont(t, o)
    BY <1>7, <1>12
  <2>2. Answer(f, c, o) = <<>>
    BY <1>12 DEF Answer, Granting
  <2>3. CASE o = "COM"
    <3>1. FeedByte(s0, o) = [t EXCEPT !.f.com = FALSE]
      BY <2>1, <2>3 DEF OnWont, OnDont
    <3>2. Settled(f, c, o) = With(f, "data", "none", f.tx, f.rx, FALSE, f.configured)
      BY <1>12, <2>3 DEF Settled, Granting
    <3> DEFINE x == [t.f EXCEPT !.com = FALSE]
    <3>4. x = Settled(f, c, o)
      <4>1. t.f = g
        BY <1>6 DEF Step
      <4>2. ASSUME NEW w
            PROVE  [t.f EXCEPT !.com = w]
                      = With(f, "data", "none", f.tx, f.rx, w, f.configured)
        BY <4>1 DEF With
      <4> QED
        BY <3>2, <4>2, Zenon
    <3> HIDE DEF x
    <3>5. [t EXCEPT !.f = x] = Step(Settled(f, c, o), <<>>)
      <4> HIDE DEF g
      <4> QED
        BY <1>6, <3>4 DEF Step
    <3>3. [t EXCEPT !.f.com = FALSE] = Step(Settled(f, c, o), <<>>)
      BY <3>5 DEF x
    <3> QED
      BY <2>2, <3>1, <3>3 DEF s0
  <2>4. CASE o = "BIN" /\ c = "WONT"
    <3>1. FeedByte(s0, o) = [t EXCEPT !.f.rx = "no"]
      BY <2>1, <2>4 DEF OnWont
    <3>2. Settled(f, c, o) = With(f, "data", "none", f.tx, "no", f.com, f.configured)
      BY <2>4 DEF Settled, Granting
    <3>3. [t EXCEPT !.f.rx = "no"] = Step(Settled(f, c, o), <<>>)
      BY ONLY <1>6, <3>2 DEF Step, With
    <3> QED
      BY <2>2, <3>1, <3>3 DEF s0
  <2>5. CASE o = "BIN" /\ c = "DONT"
    <3>1. FeedByte(s0, o) = [t EXCEPT !.f.tx = "no"]
      BY <2>1, <2>5 DEF OnDont
    <3>2. Settled(f, c, o) = With(f, "data", "none", "no", f.rx, f.com, f.configured)
      BY <2>5 DEF Settled, Granting
    <3>3. [t EXCEPT !.f.tx = "no"] = Step(Settled(f, c, o), <<>>)
      BY <1>6, <3>2 DEF Step, With
    <3> QED
      BY <2>2, <3>1, <3>3 DEF s0
  <2>6. CASE o # "COM" /\ o # "BIN"
    <3>1. FeedByte(s0, o) = t
      BY <2>1, <2>6 DEF OnWont, OnDont
    <3>2. g = Settled(f, c, o)
      BY <2>6 DEF Settled
    <3> QED
      BY <1>6, <2>2, <3>1, <3>2 DEF s0
  <2> QED
    BY <1>12, <2>3, <2>4, <2>5, <2>6
<1> QED
  BY <1>1, <1>10, <1>11, <1>12 DEF Commands

\* From one of its states and by one byte the filter comes to one of its states.
LEMMA ReplyTyped ==
    /\ Preamble \in Seq(Reply)
    /\ \A f, c, o : o \in Bytes => Answer(f, c, o) \in Seq(Reply)
<1> USE DEF Reply
<1>1. Configuration \in Reply /\ \A c \in Commands, o \in Bytes : <<c, o>> \in Reply
  OBVIOUS
<1> HIDE DEF Reply
<1>2. \A x \in Reply : <<x>> \in Seq(Reply)
  OBVIOUS
<1>3. Commands = {"WILL", "WONT", "DO", "DONT"}
  BY DEF Commands
<1>4. Preamble \in Seq(Reply)
  <2>1. "ECHO" \in Bytes /\ "SGA" \in Bytes /\ "BIN" \in Bytes /\ "COM" \in Bytes
    BY OptionsAssumption DEF Known, Bytes
  <2> QED
    BY <1>1, <1>3, <2>1 DEF Preamble
<1>5. ASSUME NEW f, NEW c, NEW o \in Bytes
      PROVE  Answer(f, c, o) \in Seq(Reply)
  <2>1. ASSUME NEW a \in Commands
        PROVE  << <<a, o>> >> \in Seq(Reply)
    <3>1. <<a, o>> \in Reply
      BY <1>1
    <3> QED
      BY <1>2, <3>1
  <2>2. Parameters(f) \in Seq(Reply)
    BY <1>1 DEF Parameters
  <2>3. << <<"WILL", o>> >> \o Parameters(f) \in Seq(Reply)
    BY <1>3, <2>1, <2>2, ConcatProperties
  <2> QED
    BY <1>3, <2>1, <2>2, <2>3 DEF Answer
<1> QED
  BY <1>4, <1>5

LEMMA FilterTyped ==
    ASSUME NEW f \in Filters
    PROVE  /\ \A at \in {"data", "iac"} : [f EXCEPT !.at = at] \in Filters
           /\ f.started => \A at \in {"data", "sub", "subiac"} : [f EXCEPT !.at = at] \in Filters
           /\ \A p \in Seq(Bytes) : [f EXCEPT !.payload = p] \in Filters
           /\ Started(f) \in Filters /\ Started(f).started
           /\ Opening(f) \in Seq(Reply)
           /\ \A v \in BOOLEAN : [f EXCEPT !.com = v] \in Filters
<1>1. \A at \in {"data", "iac"} : [f EXCEPT !.at = at] \in Filters
  BY DEF Filters
<1>2. f.started => \A at \in {"data", "sub", "subiac"} : [f EXCEPT !.at = at] \in Filters
  BY DEF Filters
<1>3. \A p \in Seq(Bytes) : [f EXCEPT !.payload = p] \in Filters
  BY DEF Filters
<1>4. Started(f) \in Filters /\ Started(f).started
  BY DEF Filters, Started
<1>5. Opening(f) \in Seq(Reply)
  BY ReplyTyped DEF Opening
<1>6. \A v \in BOOLEAN : [f EXCEPT !.com = v] \in Filters
  BY DEF Filters
<1> QED
  BY <1>1, <1>2, <1>3, <1>4, <1>5, <1>6

LEMMA SettledTyped ==
    ASSUME NEW f \in Filters, NEW c, NEW o
    PROVE  Settled(f, c, o) \in Filters /\ Settled(f, c, o).at = "data"
<1>1. ASSUME NEW tx \in {"unknown", "yes", "no"}, NEW rx \in {"unknown", "yes", "no"},
             NEW com \in BOOLEAN, NEW configured \in BOOLEAN
      PROVE  With(f, "data", "none", tx, rx, com, configured) \in Filters
  <2> DEFINE g == With(f, "data", "none", tx, rx, com, configured)
  <2>1. /\ f.payload \in Seq(Bytes) /\ f.active \in BOOLEAN /\ f.started \in BOOLEAN
        /\ f.active = f.started
    BY DEF Filters
  <2>2. g \in [at : {"data", "iac", "neg", "sub", "subiac"}, command : Commands \cup {"none"},
               payload : Seq(Bytes), active : BOOLEAN, started : BOOLEAN,
               tx : {"unknown", "yes", "no"}, rx : {"unknown", "yes", "no"},
               com : BOOLEAN, configured : BOOLEAN]
    BY <2>1, Zenon DEF With
  <2>3. g.at = "data" /\ g.active = f.active /\ g.started = f.started
    BY DEF With
  <2> HIDE DEF g
  <2>4. g \in Filters
    BY <2>1, <2>2, <2>3 DEF Filters
  <2> QED
    BY <2>4 DEF g
<1>2. /\ f.tx \in {"unknown", "yes", "no"} /\ f.rx \in {"unknown", "yes", "no"}
      /\ f.com \in BOOLEAN /\ f.configured \in BOOLEAN
  BY DEF Filters
<1> DEFINE tx == IF o # "BIN" THEN f.tx
                 ELSE IF c = "DO" THEN "yes" ELSE IF c = "DONT" THEN "no" ELSE f.tx
           rx == IF o # "BIN" THEN f.rx
                 ELSE IF c = "WILL" THEN "yes" ELSE IF c = "WONT" THEN "no" ELSE f.rx
           com == IF o # "COM" THEN f.com ELSE IF c \in Granting THEN TRUE ELSE FALSE
           configured == IF o = "COM" /\ c \in Granting THEN TRUE ELSE f.configured
<1>4. tx \in {"unknown", "yes", "no"} /\ rx \in {"unknown", "yes", "no"}
  BY <1>2
<1>5. com \in BOOLEAN /\ configured \in BOOLEAN
  BY <1>2, Zenon
<1>6. Settled(f, c, o) = With(f, "data", "none", tx, rx, com, configured)
  BY DEF Settled
<1> HIDE DEF tx, rx, com, configured
<1>3. Settled(f, c, o).at = "data"
  BY DEF Settled, With
<1> QED
  BY <1>1, <1>3, <1>4, <1>5, <1>6

LEMMA ByteTyped ==
    ASSUME NEW f \in Filters, NEW b \in Bytes
    PROVE  FeedByte(Still(f), b) \in States
<1>1. <<b>> \in Seq(Bytes) /\ <<>> \in Seq(Bytes) /\ <<>> \in Seq(Reply)
  OBVIOUS
<1>2. ASSUME NEW g \in Filters, NEW u \in Seq(Bytes), NEW q \in Seq(Reply)
      PROVE  [f |-> g, serial |-> u, replies |-> q] \in States
  BY DEF States
<1>3. \A g \in Filters : Still(g) \in States
  BY <1>1, <1>2 DEF Still
<1>4. CASE f.at = "data"
  <2>1. [f EXCEPT !.at = "iac"] \in Filters
    BY FilterTyped
  <2>2. CASE b = "IAC"
    BY <1>3, <1>4, <2>1, <2>2, DataByte
  <2>3. CASE b # "IAC"
    BY <1>1, <1>2, <1>4, <2>3, DataByte
  <2> QED
    BY <2>2, <2>3
<1>5. CASE f.at = "iac"
  <2> DEFINE h == Started(f)
  <2>1. h \in Filters /\ h.started /\ Opening(f) \in Seq(Reply)
    BY FilterTyped
  <2> DEFINE neg == [h EXCEPT !.at = "neg", !.command = b]
             k   == [h EXCEPT !.at = "sub"]
             sub == [k EXCEPT !.payload = <<>>]
             dat == [h EXCEPT !.at = "data"]
             g == IF b \in Commands THEN neg ELSE IF b = "SB" THEN sub ELSE dat
             u == IF b = "IAC" THEN <<b>> ELSE <<>>
  <2>2. FeedByte(Still(f), b) = [f |-> g, serial |-> u, replies |-> Opening(f)]
    BY <1>5, IacByte
  <2> HIDE DEF h
  <2>3. b \in Commands => neg \in Filters
    BY <2>1 DEF Filters
  <2>4. k \in Filters /\ dat \in Filters
    BY <2>1, FilterTyped
  <2>5. sub \in Filters
    <3> HIDE DEF k
    <3> QED
      BY <1>1, <2>4, FilterTyped
  <2> HIDE DEF neg, sub, dat, k
  <2>6. g \in Filters
    BY <2>3, <2>4, <2>5
  <2>7. u \in Seq(Bytes)
    BY <1>1
  <2> HIDE DEF g, u
  <2> QED
    BY <1>2, <2>1, <2>2, <2>6, <2>7
<1>6. CASE f.at = "neg"
  <2>1. Settled(f, f.command, b) \in Filters /\ Answer(f, f.command, b) \in Seq(Reply)
    BY SettledTyped, ReplyTyped
  <2> QED
    BY <1>1, <1>2, <1>6, <2>1, NegotiationByte DEF Step
<1>7. CASE f.at = "sub"
  <2>1. f.started /\ Append(f.payload, b) \in Seq(Bytes)
    BY <1>7 DEF Filters
  <2>2. /\ [f EXCEPT !.at = "subiac"] \in Filters
        /\ [f EXCEPT !.payload = Append(@, b)] \in Filters
    BY <2>1, FilterTyped
  <2> QED
    BY <1>3, <1>7, <2>2, SubByte
<1>8. CASE f.at = "subiac"
  <2>1. f.started /\ Append(f.payload, b) \in Seq(Bytes)
    BY <1>8 DEF Filters
  <2> DEFINE d == [f EXCEPT !.at = "data"]
             e == [d EXCEPT !.payload = <<>>]
             on == f.payload # <<>> /\ f.payload[1] = "COM"
             k == [f EXCEPT !.at = "sub"]
  <2>2. d \in Filters /\ k \in Filters
    BY <2>1, FilterTyped
  <2>3. e \in Filters
    <3> HIDE DEF d
    <3> QED
      BY <1>1, <2>2, FilterTyped
  <2> DEFINE x == [e EXCEPT !.com = @ \/ on]
             y == [k EXCEPT !.payload = Append(@, b)]
  <2>4. y \in Filters
    <3>1. k.payload = f.payload
      BY DEF Filters
    <3> HIDE DEF k
    <3> QED
      BY <2>1, <2>2, <3>1, FilterTyped
  <2>5. x \in Filters
    <3> HIDE DEF e, on
    <3> DEFINE v == e.com \/ on
    <3>2. v \in BOOLEAN
      OBVIOUS
    <3> HIDE DEF v
    <3>3. [e EXCEPT !.com = v] \in Filters
      BY <2>3, <3>2, FilterTyped
    <3> QED
      BY <3>3 DEF v
  <2>6. x = Finished(f) /\ y = Escaped(f, b)
    BY DEF Finished, Escaped
  <2> HIDE DEF x, y, k
  <2> QED
    BY <1>3, <1>8, <2>2, <2>4, <2>5, <2>6, SubIacByte DEF k
<1> QED
  BY <1>4, <1>5, <1>6, <1>7, <1>8 DEF Filters

-----------------------------------------------------------------------------
(* Chunks: a feed of two chunks is a feed of the one, then of the other.    *)

LEMMA ExtendSteps ==
    ASSUME NEW s \in States, NEW t \in States, NEW u \in States
    PROVE  /\ Extend(s, t) \in States /\ Extend(s, t).f = t.f
           /\ Extend(s, Still(s.f)) = s
           /\ Extend(Still(s.f), t) = t
           /\ Extend(Extend(s, t), u) = Extend(s, Extend(t, u))
<1>1. /\ s.serial \in Seq(Bytes) /\ t.serial \in Seq(Bytes) /\ u.serial \in Seq(Bytes)
      /\ s.replies \in Seq(Reply) /\ t.replies \in Seq(Reply) /\ u.replies \in Seq(Reply)
      /\ t.f \in Filters
  BY DEF States
<1>2. Extend(s, t) \in States /\ Extend(s, t).f = t.f
  BY <1>1, ConcatProperties DEF States, Extend
<1>3. /\ s = [f |-> s.f, serial |-> s.serial, replies |-> s.replies]
      /\ t = [f |-> t.f, serial |-> t.serial, replies |-> t.replies]
  BY DEF States
<1>4. s.serial \o <<>> = s.serial /\ s.replies \o <<>> = s.replies
  BY <1>1, ConcatEmptySeq
<1>5. <<>> \o t.serial = t.serial /\ <<>> \o t.replies = t.replies
  BY <1>1, ConcatEmptySeq
<1>6. Extend(s, Still(s.f)) = s
  BY <1>3, <1>4 DEF Extend, Still
<1>7. Extend(Still(s.f), t) = t
  BY <1>3, <1>5 DEF Extend, Still
<1>8. (s.serial \o t.serial) \o u.serial = s.serial \o (t.serial \o u.serial)
  <2> DEFINE a == s.serial  b == t.serial  c == u.serial
  <2>1. a \in Seq(Bytes) /\ b \in Seq(Bytes) /\ c \in Seq(Bytes)
    BY <1>1
  <2> HIDE DEF a, b, c
  <2>2. (a \o b) \o c = a \o (b \o c)
    BY <2>1, ConcatAssociative
  <2> QED
    BY <2>2 DEF a, b, c
<1>10. (s.replies \o t.replies) \o u.replies = s.replies \o (t.replies \o u.replies)
  <2> DEFINE a == s.replies  b == t.replies  c == u.replies
  <2>1. a \in Seq(Reply) /\ b \in Seq(Reply) /\ c \in Seq(Reply)
    BY <1>1
  <2> HIDE DEF a, b, c
  <2>2. (a \o b) \o c = a \o (b \o c)
    BY <2>1, ConcatAssociative
  <2> QED
    BY <2>2 DEF a, b, c
<1>9. Extend(Extend(s, t), u) = Extend(s, Extend(t, u))
  BY <1>8, <1>10 DEF Extend
<1> QED
  BY <1>2, <1>6, <1>7, <1>9

LEMMA StillTyped == \A f \in Filters : Still(f) \in States /\ Still(f).f = f
  BY DEF Still, States

LEMMA FeedTyped ==
    ASSUME NEW f \in Filters, NEW c \in Seq(Bytes)
    PROVE  /\ \A i \in 0 .. Len(c) : Feeds(f, c)[i] \in States
           /\ Feed(f, c) \in States
<1> DEFINE S == {i \in 0 .. Len(c) : Feeds(f, c)[i] \in States}
<1>1. Len(c) \in Nat /\ \A i \in 1 .. Len(c) : c[i] \in Bytes
  BY ElementOfSeq, LenProperties
<1>2. 0 \in S
  BY <1>1, FeedsStep, StillTyped
<1>3. ASSUME NEW i \in 1 .. Len(c), i - 1 \in S
      PROVE  i \in S
  <2> DEFINE s == Feeds(f, c)[i - 1]
  <2>1. s \in States /\ s.f \in Filters /\ c[i] \in Bytes
    BY <1>1, <1>3 DEF States
  <2>2. Feeds(f, c)[i] = Extend(s, FeedByte(Still(s.f), c[i]))
    BY <1>1, FeedsStep DEF Then
  <2> HIDE DEF s
  <2>3. Feeds(f, c)[i] \in States
    BY <2>1, <2>2, ByteTyped, ExtendSteps
  <2> QED
    BY <1>1, <2>3
<1>4. 0 .. Len(c) \subseteq S
  <2> HIDE DEF S
  <2> QED
    BY <1>1, <1>2, <1>3, Induction
<1>5. Len(c) \in 0 .. Len(c)
  BY <1>1
<1> QED
  BY <1>4, <1>5 DEF Feed

\* A filter that has sent the serial parameters remembers it.
LEMMA ByteConfigured ==
    ASSUME NEW f \in Filters, f.configured, NEW b \in Bytes
    PROVE  FeedByte(Still(f), b).f.configured
<1> DEFINE g == FeedByte(Still(f), b).f
<1>1. CASE f.at = "data"
  <2> DEFINE k == [f EXCEPT !.at = "iac"]
  <2>0. k.configured
    BY DEF Filters
  <2> HIDE DEF k
  <2>1. \/ FeedByte(Still(f), b) = Still(k)
        \/ FeedByte(Still(f), b) = [f |-> f, serial |-> <<b>>, replies |-> <<>>]
    BY <1>1, DataByte DEF k
  <2> QED
    BY <2>0, <2>1 DEF Still
<1>2. CASE f.at = "iac"
  <2> DEFINE h == Started(f)
  <2>1. h \in Filters /\ h.configured
    <3>1. h.configured = f.configured
      BY DEF Started, Filters
    <3> QED
      BY <3>1, FilterTyped
  <2> DEFINE x == [h EXCEPT !.at = "neg", !.command = b]
             y == [h EXCEPT !.at = "sub", !.payload = <<>>]
             z == [h EXCEPT !.at = "data"]
  <2>0. FeedByte(Still(f), b) =
           [f |-> IF b \in Commands THEN x ELSE IF b = "SB" THEN y ELSE z,
            serial |-> IF b = "IAC" THEN <<b>> ELSE <<>>, replies |-> Opening(f)]
    BY <1>2, IacByte
  <2>2. g \in {x, y, z}
    <3> HIDE DEF x, y, z
    <3> QED
      BY <2>0
  <2> HIDE DEF g, h
  <2>3. g.configured = h.configured
    BY <2>1, <2>2 DEF Filters
  <2> QED
    BY <2>1, <2>3 DEF g
<1>3. CASE f.at = "neg"
  <2>1. g = Settled(f, f.command, b)
    BY <1>3, NegotiationByte DEF Step
  <2>2. Settled(f, f.command, b).configured
    BY DEF Settled, With
  <2> QED
    BY <2>1, <2>2
<1>4. CASE f.at = "sub"
  <2> DEFINE x == [f EXCEPT !.at = "subiac"]
             y == [f EXCEPT !.payload = Append(@, b)]
  <2>0. FeedByte(Still(f), b) = Still(x) \/ FeedByte(Still(f), b) = Still(y)
    BY <1>4, SubByte
  <2>1. g \in {x, y}
    <3> HIDE DEF x, y
    <3> QED
      BY <2>0 DEF Still
  <2> HIDE DEF g
  <2>2. g.configured = f.configured
    BY <2>1 DEF Filters
  <2> QED
    BY <2>2 DEF g
<1>5. CASE f.at = "subiac"
  <2> DEFINE x == [f EXCEPT !.at = "sub"]
  <2>0. \/ FeedByte(Still(f), b) = Still(Finished(f)) \/ FeedByte(Still(f), b) = Still(x)
        \/ FeedByte(Still(f), b) = Still(Escaped(f, b))
    BY <1>5, SubIacByte
  <2>1. g \in {Finished(f), Escaped(f, b), x}
    <3> HIDE DEF x
    <3> QED
      BY <2>0 DEF Still
  <2> HIDE DEF g
  <2>2. g.configured = f.configured
    BY <2>1 DEF Finished, Escaped, Filters
  <2> QED
    BY <2>2 DEF g
<1> QED
  BY <1>1, <1>2, <1>3, <1>4, <1>5 DEF Filters

LEMMA FeedConfigured ==
    ASSUME NEW f \in Filters, f.configured, NEW c \in Seq(Bytes)
    PROVE  Feed(f, c).f.configured
<1> DEFINE S == {i \in 0 .. Len(c) : Feeds(f, c)[i].f.configured}
<1>1. Len(c) \in Nat /\ \A i \in 1 .. Len(c) : c[i] \in Bytes
  BY ElementOfSeq, LenProperties
<1>2. 0 \in S
  BY <1>1, FeedsStep, StillTyped
<1>3. ASSUME NEW i \in 1 .. Len(c), i - 1 \in S
      PROVE  i \in S
  <2> DEFINE s == Feeds(f, c)[i - 1]
  <2>1. s \in States /\ s.f \in Filters /\ s.f.configured /\ c[i] \in Bytes
    BY <1>1, <1>3, FeedTyped DEF States
  <2>2. Feeds(f, c)[i] = Extend(s, FeedByte(Still(s.f), c[i]))
    BY <1>1, FeedsStep DEF Then
  <2> HIDE DEF s
  <2>3. Feeds(f, c)[i].f = FeedByte(Still(s.f), c[i]).f
    BY <2>2 DEF Extend
  <2> QED
    BY <1>1, <2>1, <2>3, ByteConfigured
<1>4. 0 .. Len(c) \subseteq S
  <2> HIDE DEF S
  <2> QED
    BY <1>1, <1>2, <1>3, Induction
<1> QED
  BY <1>1, <1>4 DEF Feed

LEMMA FeedEmpty ==
    ASSUME NEW f \in Filters
    PROVE  Feed(f, <<>>) = Still(f)
<1>1. Len(<<>>) = 0
  OBVIOUS
<1> QED
  BY <1>1, FeedsStep DEF Feed

LEMMA FeedOne ==
    ASSUME NEW f \in Filters, NEW b \in Bytes
    PROVE  Feed(f, <<b>>) = FeedByte(Still(f), b)
<1>1. Len(<<b>>) = 1 /\ <<b>>[1] = b /\ 1 \in 1 .. 1 /\ 1 - 1 = 0
  OBVIOUS
<1> HIDE DEF Feeds
<1>2. Feeds(f, <<b>>)[1] = Then(Still(f), b)
  BY <1>1, FeedsStep
<1>3. Still(f) \in States /\ Still(f).f = f /\ FeedByte(Still(f), b) \in States
  BY ByteTyped, StillTyped
<1> DEFINE s == Still(f)
<1>4. Then(s, b) = Extend(s, FeedByte(s, b))
  BY <1>3 DEF Then
<1>5. Then(s, b) = FeedByte(s, b)
  <2> DEFINE t == FeedByte(s, b)
  <2>1. Extend(Still(s.f), t) = t /\ Still(s.f) = s
    <3> HIDE DEF s, t
    <3> QED
      BY <1>3, ExtendSteps DEF s, t
  <2> QED
    BY <1>4, <2>1
<1> QED
  BY <1>1, <1>2, <1>5 DEF Feed

LEMMA FeedConcat ==
    ASSUME NEW f \in Filters, NEW c \in Seq(Bytes), NEW d \in Seq(Bytes)
    PROVE  Feed(f, c \o d) = Extend(Feed(f, c), Feed(Feed(f, c).f, d))
<1> DEFINE e == c \o d
           m == Len(c)
           n == Len(d)
           s == Feed(f, c)
           S == {i \in 0 .. m : Feeds(f, e)[i] = Feeds(f, c)[i]}
           T == {i \in 0 .. n : Feeds(f, e)[m + i] = Extend(s, Feeds(s.f, d)[i])}
<1>1. e \in Seq(Bytes) /\ Len(e) = m + n /\ m \in Nat /\ n \in Nat
  BY ConcatProperties, LenProperties
<1>2. /\ \A i \in 1 .. m : i \in 1 .. m + n /\ e[i] = c[i]
      /\ \A i \in 1 .. n : m + i \in 1 .. m + n /\ e[m + i] = d[i]
  BY <1>1, ConcatProperties
<1>3. s \in States /\ s.f \in Filters /\ \A i \in 0 .. n : Feeds(s.f, d)[i] \in States
  BY FeedTyped DEF States
<1>5. /\ Feeds(f, c)[0] = Still(f)
      /\ \A i \in 1 .. m : Feeds(f, c)[i] = Then(Feeds(f, c)[i - 1], c[i])
  BY <1>1, FeedsStep
<1>6. /\ Feeds(s.f, d)[0] = Still(s.f)
      /\ \A i \in 1 .. n : Feeds(s.f, d)[i] = Then(Feeds(s.f, d)[i - 1], d[i])
  BY <1>1, FeedsStep
<1> HIDE DEF e, m, n, s
<1>4. /\ Feeds(f, e)[0] = Still(f)
      /\ \A i \in 1 .. m + n : Feeds(f, e)[i] = Then(Feeds(f, e)[i - 1], e[i])
  BY <1>1, FeedsStep
<1>7. 0 .. m \subseteq S
  <2>1. 0 \in S
    BY <1>1, <1>4, <1>5
  <2>2. ASSUME NEW i \in 1 .. m, i - 1 \in S
        PROVE  i \in S
    BY <1>1, <1>2, <1>4, <1>5, <2>2
  <2> HIDE DEF S
  <2> QED
    BY <1>1, <2>1, <2>2, Induction
<1>8. Feeds(f, e)[m] = s
  BY <1>1, <1>7 DEF s, m, Feed
<1>9. 0 .. n \subseteq T
  <2>1. 0 \in T
    BY <1>1, <1>3, <1>6, <1>8, ExtendSteps
  <2>2. ASSUME NEW i \in 1 .. n, i - 1 \in T
        PROVE  i \in T
    <3> DEFINE t == Feeds(s.f, d)[i - 1]
               z == FeedByte(Still(t.f), d[i])
    <3>1. i - 1 \in 0 .. n /\ m + i - 1 = m + (i - 1)
      BY <1>1
    <3>2. t \in States /\ t.f \in Filters /\ d[i] \in Bytes
      BY <1>1, <1>3, <3>1, ElementOfSeq DEF States, n
    <3>3. z \in States
      BY <3>2, ByteTyped
    <3>4. Feeds(f, e)[m + i - 1] = Extend(s, t) /\ Extend(s, t).f = t.f
      BY <1>3, <2>2, <3>1, <3>2, ExtendSteps
    <3>5. Feeds(f, e)[m + i] = Extend(Extend(s, t), z)
      <4>1. m + i \in 1 .. m + n /\ e[m + i] = d[i]
        BY <1>2
      <4> DEFINE k == m + i
      <4>3. k \in 1 .. m + n
        BY <4>1
      <4> HIDE DEF k
      <4>4. Feeds(f, e)[k] = Then(Feeds(f, e)[k - 1], e[k])
        BY <1>4, <4>3
      <4>2. Feeds(f, e)[m + i] = Then(Feeds(f, e)[m + i - 1], d[i])
        BY <1>1, <4>1, <4>4 DEF k
      <4> HIDE DEF t
      <4> QED
        BY <3>4, <4>2 DEF Then
    <3>6. Feeds(s.f, d)[i] = Extend(t, z)
      BY <1>6 DEF Then
    <3> HIDE DEF t, z
    <3>7. Feeds(f, e)[m + i] = Extend(s, Feeds(s.f, d)[i])
      BY <1>3, <3>2, <3>3, <3>5, <3>6, ExtendSteps
    <3> QED
      BY <1>1, <3>7
  <2> HIDE DEF T
  <2> QED
    BY <1>1, <2>1, <2>2, Induction
<1>10. Feeds(f, e)[m + n] = Extend(s, Feeds(s.f, d)[n])
  BY <1>1, <1>9
<1> QED
  BY <1>1, <1>10 DEF Feed, e, n, s

\* When the first chunk has no effect but on the filter.
LEMMA FeedAfterStill ==
    ASSUME NEW f \in Filters, NEW c \in Seq(Bytes), NEW d \in Seq(Bytes),
           NEW g \in Filters, Feed(f, c) = Still(g)
    PROVE  Feed(f, c \o d) = Feed(g, d)
<1> DEFINE s == Still(g)
           t == Feed(g, d)
<1>1. s \in States /\ s.f = g
  BY StillTyped
<1>2. t \in States
  BY FeedTyped
<1>3. Feed(f, c \o d) = Extend(Feed(f, c), Feed(Feed(f, c).f, d))
  BY FeedConcat
<1> HIDE DEF s
<1>4. Feed(f, c \o d) = Extend(s, t)
  BY <1>1, <1>3 DEF s
<1> HIDE DEF t
<1>5. Extend(Still(s.f), t) = t
  BY <1>1, <1>2, ExtendSteps
<1>6. Still(s.f) = s
  BY <1>1 DEF s
<1> QED
  BY <1>4, <1>5, <1>6 DEF t

-----------------------------------------------------------------------------
(* What the server says, heard from a filter that stands at data: it comes  *)
(* to stand at data again.                                                  *)

\* The two filters agree on what was negotiated, and the second has begun to negotiate.
Keeps(f, g) == /\ g \in Filters /\ g.started
               /\ g.tx = f.tx /\ g.rx = f.rx /\ g.configured = f.configured

LEMMA BytesKnown ==
    /\ {"IAC", "SB", "SE", "NOP"} \subseteq Bytes /\ Commands \subseteq Bytes
    /\ Options \subseteq Bytes /\ Data \subseteq Bytes
    /\ Payloads \subseteq Seq(Bytes)
<1>1. /\ {"IAC", "SB", "SE", "NOP"} \subseteq Bytes /\ Commands \subseteq Bytes
      /\ Options \subseteq Bytes /\ Data \subseteq Bytes
  BY DEF Bytes
<1>2. ASSUME NEW p \in Payloads
      PROVE  p \in Seq(Bytes)
  <2>1. p \in Seq(STRING)
    BY BytesAssumption
  <2>2. Len(p) \in Nat /\ p \in [1 .. Len(p) -> STRING]
    BY <2>1, LenProperties
  <2>3. \A i \in 1 .. Len(p) : p[i] \in Bytes
    BY DEF Bytes
  <2>4. p \in [1 .. Len(p) -> Bytes]
    BY <2>2, <2>3
  <2> QED
    BY <2>2, <2>4
<1> QED
  BY <1>1, <1>2

\* A byte more
LEMMA Grown ==
    ASSUME NEW s \in Seq(Bytes), NEW b \in Bytes
    PROVE  /\ s \o <<b>> \in Seq(Bytes) /\ Len(s) \in Nat /\ Len(s \o <<b>>) = Len(s) + 1
           /\ \A i \in 1 .. Len(s) : (s \o <<b>>)[i] = s[i]
           /\ (s \o <<b>>)[Len(s) + 1] = b
<1>1. Append(s, b) = s \o <<b>>
  BY AppendIsConcat
<1>2. Len(s) \in Nat
  BY LenProperties
<1> QED
  BY <1>1, <1>2, AppendProperties

LEMMA Pairs ==
    ASSUME NEW S, NEW x \in S, NEW y \in S
    PROVE  <<x>> \o <<y>> = <<x, y>>
<1> DEFINE u == <<x>>
           v == <<y>>
           w == <<x, y>>
<1>1. u \in Seq(S) /\ v \in Seq(S) /\ w \in Seq(S) /\ Len(u) = 1 /\ Len(v) = 1 /\ Len(w) = 2
  OBVIOUS
<1>2. u[1] = x /\ v[1] = y /\ w[1] = x /\ w[2] = y
  OBVIOUS
<1> HIDE DEF u, v, w
<1>3. u \o v \in Seq(S) /\ Len(u \o v) = 2 /\ (u \o v)[1] = x /\ (u \o v)[2] = y
  BY <1>1, <1>2, ConcatProperties
<1>4. u \o v = w
  BY <1>1, <1>2, <1>3, SeqEqual
<1> QED
  BY <1>4 DEF u, v, w

LEMMA DataHeard ==
    ASSUME NEW f \in Filters, f.at = "data", NEW b \in Bytes, b # "IAC"
    PROVE  Feed(f, <<b>>) = [f |-> f, serial |-> <<b>>, replies |-> <<>>]
  BY DataByte, FeedOne

\* IAC and the byte after it
LEMMA IacHeard ==
    ASSUME NEW f \in Filters, f.at = "data", NEW b \in Bytes
    PROVE  \E g, h : /\ Keeps(f, h)
                     /\ g = IF b \in Commands THEN [h EXCEPT !.at = "neg", !.command = b]
                            ELSE IF b = "SB" THEN [h EXCEPT !.at = "sub", !.payload = <<>>]
                            ELSE [h EXCEPT !.at = "data"]
                     /\ Feed(f, <<"IAC", b>>) =
                           [f |-> g, serial |-> IF b = "IAC" THEN <<b>> ELSE <<>>,
                            replies |-> Opening(f)]
<1> DEFINE e == [f EXCEPT !.at = "iac"]
           h == Started(e)
           g == IF b \in Commands THEN [h EXCEPT !.at = "neg", !.command = b]
                ELSE IF b = "SB" THEN [h EXCEPT !.at = "sub", !.payload = <<>>]
                ELSE [h EXCEPT !.at = "data"]
<1>1. /\ e \in Filters /\ e.at = "iac" /\ Opening(e) = Opening(f)
      /\ e.tx = f.tx /\ e.rx = f.rx /\ e.configured = f.configured
  BY DEF Filters, Opening
<1>2. Keeps(f, h)
  <2> HIDE DEF e
  <2>1. h.tx = e.tx /\ h.rx = e.rx /\ h.configured = e.configured
    BY <1>1 DEF Started, Filters
  <2> QED
    BY <1>1, <2>1, FilterTyped DEF Keeps
<1>3. Feed(f, <<"IAC">>) = Still(e)
  BY BytesKnown, DataByte, FeedOne
<1>4. Feed(e, <<b>>) = FeedByte(Still(e), b)
  BY <1>1, FeedOne
<1>5. <<"IAC">> \in Seq(Bytes) /\ <<b>> \in Seq(Bytes)
  BY BytesKnown
<1>6. Feed(f, <<"IAC", b>>) = FeedByte(Still(e), b)
  <2>1. <<"IAC">> \o <<b>> = <<"IAC", b>>
    BY BytesKnown, Pairs
  <2> DEFINE u == <<"IAC">>
             v == <<b>>
  <2>2. u \o v = <<"IAC", b>>
    BY <2>1
  <2> HIDE DEF e, u, v
  <2>3. Feed(f, u \o v) = Feed(e, v)
    BY <1>1, <1>3, <1>5, FeedAfterStill DEF u, v
  <2> QED
    BY <1>4, <2>2, <2>3 DEF v
<1>7. FeedByte(Still(e), b) = [f |-> g, serial |-> IF b = "IAC" THEN <<b>> ELSE <<>>,
                               replies |-> Opening(f)]
  <2> HIDE DEF e
  <2> QED
    BY <1>1, IacByte
<1> HIDE DEF e, h
<1> QED
  BY <1>2, <1>6, <1>7

\* IAC IAC, and a command of one byte
LEMMA PlainHeard ==
    ASSUME NEW f \in Filters, f.at = "data", NEW b \in Bytes, b \notin Commands, b # "SB"
    PROVE  \E g : /\ Keeps(f, g) /\ g.at = "data"
                  /\ Feed(f, <<"IAC", b>>) =
                        [f |-> g, serial |-> IF b = "IAC" THEN <<b>> ELSE <<>>,
                         replies |-> Opening(f)]
<1>5. PICK k, h : /\ Keeps(f, h)
                  /\ k = IF b \in Commands THEN [h EXCEPT !.at = "neg", !.command = b]
                         ELSE IF b = "SB" THEN [h EXCEPT !.at = "sub", !.payload = <<>>]
                         ELSE [h EXCEPT !.at = "data"]
                  /\ Feed(f, <<"IAC", b>>) =
                        [f |-> k, serial |-> IF b = "IAC" THEN <<b>> ELSE <<>>,
                         replies |-> Opening(f)]
  BY IacHeard
<1> DEFINE g == [h EXCEPT !.at = "data"]
<1>6. k = g
  BY <1>5
<1>1. /\ Keeps(f, h)
      /\ Feed(f, <<"IAC", b>>) =
            [f |-> g, serial |-> IF b = "IAC" THEN <<b>> ELSE <<>>, replies |-> Opening(f)]
  BY <1>5, <1>6
<1>2. g \in Filters /\ g.at = "data"
  BY <1>1, FilterTyped DEF Keeps, Filters
<1>3. g.started = h.started /\ g.tx = h.tx /\ g.rx = h.rx /\ g.configured = h.configured
  BY <1>1 DEF Keeps, Filters
<1>4. Keeps(f, g)
  BY <1>1, <1>2, <1>3 DEF Keeps
<1> HIDE DEF g
<1> QED
  BY <1>1, <1>2, <1>4 DEF g

\* An option brought up or taken back
Agreement(f, g, c, o) ==
    /\ g \in Filters /\ g.at = "data" /\ g.started
    /\ g.tx = IF o # "BIN" THEN f.tx
              ELSE IF c = "DO" THEN "yes" ELSE IF c = "DONT" THEN "no" ELSE f.tx
    /\ g.rx = IF o # "BIN" THEN f.rx
              ELSE IF c = "WILL" THEN "yes" ELSE IF c = "WONT" THEN "no" ELSE f.rx
    /\ g.configured = IF o = "COM" /\ c \in Granting THEN TRUE ELSE f.configured

LEMMA OptionHeard ==
    ASSUME NEW f \in Filters, f.at = "data", NEW c \in Commands, NEW o \in Bytes
    PROVE  \E g : /\ Agreement(f, g, c, o)
                  /\ Feed(f, Option(c, o)) =
                        [f |-> g, serial |-> <<>>, replies |-> Opening(f) \o Answer(f, c, o)]
<1>1. c \in Bytes /\ c # "IAC"
  BY BytesKnown DEF Commands
<1>2. PICK h : /\ Keeps(f, h)
               /\ Feed(f, <<"IAC", c>>) =
                     [f |-> [h EXCEPT !.at = "neg", !.command = c],
                      serial |-> <<>>, replies |-> Opening(f)]
  BY <1>1, IacHeard
<1> DEFINE k == [h EXCEPT !.at = "neg", !.command = c]
           g == Settled(k, c, o)
           u == <<"IAC", c>>
           v == <<o>>
           s == Feed(f, u)
           t == Feed(k, v)
<1>3. k \in Filters /\ k.at = "neg" /\ k.command = c
  BY <1>2 DEF Keeps, Filters
<1>4. k.started /\ k.tx = f.tx /\ k.rx = f.rx /\ k.configured = f.configured
  BY <1>2 DEF Keeps, Filters
<1> HIDE DEF k
<1>5. u \in Seq(Bytes) /\ v \in Seq(Bytes)
  BY <1>1, BytesKnown
<1>6. u \o v = Option(c, o)
  <2> DEFINE w == <<"IAC", c, o>>
  <2>1. w \in Seq(Bytes) /\ Len(u) = 2 /\ Len(v) = 1 /\ Len(w) = 3
    BY <1>1, BytesKnown
  <2>2. u[1] = "IAC" /\ u[2] = c /\ v[1] = o /\ w[1] = "IAC" /\ w[2] = c /\ w[3] = o
    OBVIOUS
  <2> HIDE DEF u, v, w
  <2>3. /\ u \o v \in Seq(Bytes) /\ Len(u \o v) = 3
        /\ (u \o v)[1] = "IAC" /\ (u \o v)[2] = c /\ (u \o v)[3] = o
    <3>1. /\ u \o <<o>> \in Seq(Bytes) /\ Len(u \o <<o>>) = Len(u) + 1
          /\ \A i \in 1 .. Len(u) : (u \o <<o>>)[i] = u[i]
          /\ (u \o <<o>>)[Len(u) + 1] = o
      BY <1>5, Grown
    <3>2. 1 \in 1 .. Len(u) /\ 2 \in 1 .. Len(u) /\ Len(u) + 1 = 3
      BY <2>1
    <3>3. v = <<o>>
      BY DEF v
    <3> QED
      BY <2>2, <3>1, <3>2, <3>3
  <2>4. \A i \in 1 .. 3 : i = 1 \/ i = 2 \/ i = 3
    OBVIOUS
  <2>5. u \o v = w
    BY <2>1, <2>2, <2>3, <2>4, SeqEqual
  <2> QED
    BY <2>5 DEF w, Option
<1>7. t = Step(g, Answer(k, c, o)) /\ Answer(k, c, o) = Answer(f, c, o)
  BY <1>3, <1>4, FeedOne, NegotiationByte DEF Answer, Parameters
<1>8. s.f = k /\ s.serial = <<>> /\ s.replies = Opening(f)
  BY <1>2 DEF k
<1>9. Agreement(f, g, c, o)
  <2>1. g \in Filters /\ g.at = "data"
    BY <1>3, SettledTyped
  <2>2. /\ g.started = k.started
        /\ g.tx = IF o # "BIN" THEN k.tx
                  ELSE IF c = "DO" THEN "yes" ELSE IF c = "DONT" THEN "no" ELSE k.tx
        /\ g.rx = IF o # "BIN" THEN k.rx
                  ELSE IF c = "WILL" THEN "yes" ELSE IF c = "WONT" THEN "no" ELSE k.rx
        /\ g.configured = IF o = "COM" /\ c \in Granting THEN TRUE ELSE k.configured
    BY DEF Settled, With
  <2> HIDE DEF g
  <2> QED
    BY <1>4, <2>1, <2>2 DEF Agreement
<1> HIDE DEF g, u, v, s
<1>10. Feed(f, u \o v) = Extend(s, t)
  BY <1>5, <1>8, FeedConcat DEF s
<1>11. Extend(s, t) = [f |-> g, serial |-> <<>> \o <<>>, replies |-> Opening(f) \o Answer(f, c, o)]
  <2> HIDE DEF t
  <2> QED
    BY <1>7, <1>8 DEF Extend, Step
<1>12. <<>> \o <<>> = <<>>
  OBVIOUS
<1> QED
  BY <1>6, <1>9, <1>10, <1>11, <1>12

\* A byte of a subnegotiation that does not end it
LEMMA SubnegotiationByte ==
    ASSUME NEW f \in Filters, f.started, f.at = "sub" \/ f.at = "subiac",
           NEW b \in Bytes, ~(f.at = "subiac" /\ b = "SE")
    PROVE  \E h : /\ Keeps(f, h) /\ FeedByte(Still(f), b) = Still(h)
                  /\ h.at = IF f.at = "sub" /\ b = "IAC" THEN "subiac" ELSE "sub"
<1>1. ASSUME NEW h \in Filters, h.started = f.started, h.tx = f.tx, h.rx = f.rx,
             h.configured = f.configured
      PROVE  Keeps(f, h)
  BY <1>1 DEF Keeps
<1>2. Append(f.payload, b) \in Seq(Bytes)
  BY DEF Filters
<1>3. CASE f.at = "sub" /\ b = "IAC"
  <2> DEFINE h == [f EXCEPT !.at = "subiac"]
  <2>1. /\ h \in Filters /\ h.started = f.started /\ h.tx = f.tx /\ h.rx = f.rx
        /\ h.configured = f.configured /\ h.at = "subiac"
    BY DEF Filters
  <2>2. FeedByte(Still(f), b) = Still(h)
    BY <1>3, SubByte
  <2> HIDE DEF h
  <2> QED
    BY <1>1, <1>3, <2>1, <2>2
<1>4. CASE f.at = "sub" /\ b # "IAC"
  <2> DEFINE h == [f EXCEPT !.payload = Append(@, b)]
  <2>1. /\ h.started = f.started /\ h.tx = f.tx /\ h.rx = f.rx
        /\ h.configured = f.configured /\ h.at = "sub"
    BY <1>4 DEF Filters
  <2>2. FeedByte(Still(f), b) = Still(h)
    BY <1>4, SubByte
  <2>3. h \in Filters
    BY <1>2, FilterTyped
  <2> HIDE DEF h
  <2> QED
    BY <1>1, <1>4, <2>1, <2>2, <2>3
<1>5. CASE f.at = "subiac" /\ b = "IAC"
  <2> DEFINE k == [f EXCEPT !.at = "sub"]
             h == [k EXCEPT !.payload = Append(@, b)]
  <2>1. FeedByte(Still(f), b) = Still(Escaped(f, b)) /\ h = Escaped(f, b)
    <3>1. FeedByte(Still(f), b) = Still(Escaped(f, b))
      BY <1>5, SubIacByte
    <3> QED
      BY <3>1 DEF Escaped
  <2>2. /\ k \in Filters /\ k.started = f.started /\ k.tx = f.tx /\ k.rx = f.rx
        /\ k.configured = f.configured /\ k.at = "sub" /\ k.payload = f.payload
    BY DEF Filters
  <2> HIDE DEF k
  <2>3. h \in Filters
    BY <1>2, <2>2, FilterTyped
  <2>4. /\ h.started = k.started /\ h.tx = k.tx /\ h.rx = k.rx
        /\ h.configured = k.configured /\ h.at = k.at
    BY <2>2 DEF Filters
  <2> HIDE DEF h
  <2> QED
    BY <1>1, <1>5, <2>1, <2>2, <2>3, <2>4
<1>6. CASE f.at = "subiac" /\ b # "IAC"
  <2> DEFINE h == [f EXCEPT !.at = "sub"]
  <2>1. /\ h \in Filters /\ h.started = f.started /\ h.tx = f.tx /\ h.rx = f.rx
        /\ h.configured = f.configured /\ h.at = "sub"
    BY DEF Filters
  <2>2. FeedByte(Still(f), b) = Still(h)
    BY <1>6, SubIacByte
  <2> HIDE DEF h
  <2> QED
    BY <1>1, <1>6, <2>1, <2>2
<1> QED
  BY <1>3, <1>4, <1>5, <1>6

LEMMA PayloadHeard ==
    ASSUME NEW f \in Filters, f.started, f.at = "sub", NEW p \in Payloads
    PROVE  \E h : Keeps(f, h) /\ h.at = "sub" /\ Feed(f, p) = Still(h)
<1> DEFINE n == Len(p)
<1>1. p \in Seq(Bytes) /\ n \in Nat /\ \A i \in 1 .. n : p[i] \in Bytes
  BY BytesKnown, LenProperties
<1>2. PICK second \in [0 .. n -> BOOLEAN] :
        /\ ~second[0] /\ ~second[n]
        /\ \A i \in 1 .. n : /\ second[i] <=> p[i] = "IAC" /\ ~second[i - 1]
                             /\ ~(second[i - 1] /\ p[i] = "SE")
  BY BytesAssumption DEF Payload
<1> DEFINE S == {i \in 0 .. n : \E h : /\ Keeps(f, h) /\ Feeds(f, p)[i] = Still(h)
                                       /\ h.at = IF second[i] THEN "subiac" ELSE "sub"}
<1>3. /\ Feeds(f, p)[0] = Still(f)
      /\ \A i \in 1 .. n : Feeds(f, p)[i] = Then(Feeds(f, p)[i - 1], p[i])
  BY <1>1, FeedsStep
<1> HIDE DEF n
<1>4. 0 \in S
  <2>1. Keeps(f, f)
    BY DEF Keeps
  <2> QED
    BY <1>1, <1>2, <1>3, <2>1
<1>5. ASSUME NEW i \in 1 .. n, i - 1 \in S
      PROVE  i \in S
  <2>1. PICK g : /\ Keeps(f, g) /\ Feeds(f, p)[i - 1] = Still(g)
                 /\ g.at = IF second[i - 1] THEN "subiac" ELSE "sub"
    BY <1>5
  <2>2. g \in Filters /\ g.started /\ p[i] \in Bytes
    BY <1>1, <2>1 DEF Keeps
  <2>3. ~(g.at = "subiac" /\ p[i] = "SE") /\ (g.at = "sub" \/ g.at = "subiac")
    BY <1>2, <2>1
  <2>4. PICK h : /\ Keeps(g, h) /\ FeedByte(Still(g), p[i]) = Still(h)
                 /\ h.at = IF g.at = "sub" /\ p[i] = "IAC" THEN "subiac" ELSE "sub"
    BY <2>2, <2>3, SubnegotiationByte
  <2>5. Keeps(f, h)
    BY <2>1, <2>4 DEF Keeps
  <2>6. h.at = IF second[i] THEN "subiac" ELSE "sub"
    BY <1>2, <2>1, <2>4
  <2>7. Feeds(f, p)[i] = Still(h)
    <3>1. Feeds(f, p)[i] = Then(Still(g), p[i])
      BY <1>3, <2>1
    <3> DEFINE s == Still(g)
    <3>2. s \in States /\ s.f = g /\ Still(h) \in States
      BY <2>2, <2>4, StillTyped DEF Keeps
    <3>3. Then(s, p[i]) = Extend(s, Still(h)) /\ Still(s.f) = s
      BY <2>4, <3>2 DEF Then
    <3> HIDE DEF s
    <3>4. Extend(Still(s.f), Still(h)) = Still(h)
      BY <3>2, ExtendSteps
    <3> QED
      BY <3>1, <3>3, <3>4 DEF s
  <2> QED
    BY <1>1, <2>5, <2>6, <2>7
<1>6. 0 .. n \subseteq S
  <2> HIDE DEF S
  <2> QED
    BY <1>1, <1>4, <1>5, Induction
<1> QED
  BY <1>1, <1>2, <1>6 DEF Feed, n

LEMMA SubnegotiationHeard ==
    ASSUME NEW f \in Filters, f.at = "data", NEW p \in Payloads
    PROVE  \E g : /\ Keeps(f, g) /\ g.at = "data"
                  /\ Feed(f, <<"IAC", "SB">> \o p \o <<"IAC", "SE">>) =
                        [f |-> g, serial |-> <<>>, replies |-> Opening(f)]
<1> DEFINE u == <<"IAC", "SB">>
           w == <<"IAC", "SE">>
           x == <<"IAC">>
           y == <<"SE">>
           s == Feed(f, u)
<1>1. /\ "SB" \notin Commands /\ "SB" \in Bytes /\ "SE" \in Bytes /\ "IAC" \in Bytes
      /\ "SB" # "IAC"
  BY BytesKnown DEF Commands
<1>2. u \in Seq(Bytes) /\ w \in Seq(Bytes) /\ x \in Seq(Bytes) /\ y \in Seq(Bytes)
      /\ p \in Seq(Bytes)
  BY <1>1, BytesKnown
<1>3. x \o y = w
  BY <1>1, Pairs
<1>4. PICK k : k \in Filters /\ k.started /\ k.at = "sub" /\ Keeps(f, k)
               /\ s = [f |-> k, serial |-> <<>>, replies |-> Opening(f)]
  <2>1. PICK j, h : /\ Keeps(f, h)
                    /\ j = IF "SB" \in Commands THEN [h EXCEPT !.at = "neg", !.command = "SB"]
                           ELSE IF "SB" = "SB" THEN [h EXCEPT !.at = "sub", !.payload = <<>>]
                           ELSE [h EXCEPT !.at = "data"]
                    /\ s = [f |-> j, serial |-> IF "SB" = "IAC" THEN <<"SB">> ELSE <<>>,
                            replies |-> Opening(f)]
    BY <1>1, IacHeard
  <2> DEFINE d == [h EXCEPT !.at = "sub"]
             k == [d EXCEPT !.payload = <<>>]
  <2>2. j = k
    BY <1>1, <2>1
  <2>3. /\ d \in Filters /\ d.started /\ d.at = "sub" /\ d.tx = h.tx /\ d.rx = h.rx
        /\ d.configured = h.configured
    BY <2>1 DEF Keeps, Filters
  <2> HIDE DEF d
  <2>4. k \in Filters
    <3>1. <<>> \in Seq(Bytes)
      OBVIOUS
    <3> QED
      BY <2>3, <3>1, FilterTyped
  <2>5. k.started /\ k.at = "sub" /\ k.tx = d.tx /\ k.rx = d.rx /\ k.configured = d.configured
    BY <2>3 DEF Filters
  <2>6. Keeps(f, k)
    BY <2>1, <2>3, <2>4, <2>5 DEF Keeps
  <2> HIDE DEF k, s
  <2> QED
    BY <1>1, <2>1, <2>2, <2>4, <2>5, <2>6
<1>5. PICK h : Keeps(k, h) /\ h.at = "sub" /\ Feed(k, p) = Still(h)
  BY <1>4, PayloadHeard
<1> DEFINE e == [h EXCEPT !.at = "subiac"]
           g == Finished(e)
<1>6. /\ e \in Filters /\ e.at = "subiac" /\ e.started /\ e.tx = h.tx /\ e.rx = h.rx
      /\ e.configured = h.configured
  BY <1>5 DEF Keeps, Filters
<1>7. Feed(h, x) = Still(e)
  BY <1>1, <1>5, FeedOne, SubByte DEF Keeps
<1> HIDE DEF e
<1>8. Feed(e, y) = Still(g)
  BY <1>1, <1>6, FeedOne, SubIacByte
<1>9. g.started = e.started /\ g.tx = e.tx /\ g.rx = e.rx /\ g.configured = e.configured
      /\ g.at = "data"
  BY <1>6 DEF Finished, Filters
<1>10. g \in Filters
  <2>1. Still(g) \in States
    BY <1>1, <1>6, <1>8, FeedOne, ByteTyped
  <2> QED
    BY <2>1 DEF Still, States
<1>11. Keeps(f, g)
  BY <1>4, <1>5, <1>6, <1>9, <1>10 DEF Keeps
<1> HIDE DEF g, u, w, x, y, s
<1>12. Feed(h, w) = Still(g)
  <2>1. h \in Filters
    BY <1>5 DEF Keeps
  <2>2. Feed(h, x \o y) = Feed(e, y)
    BY ONLY <1>2, <1>6, <1>7, <2>1, FeedAfterStill
  <2> QED
    BY <1>3, <1>8, <2>2
<1>13. Feed(k, p \o w) = Still(g)
  BY <1>2, <1>4, <1>5, <1>12, FeedAfterStill DEF Keeps
<1>14. Feed(f, u \o (p \o w)) = Extend(s, Still(g))
  <2>1. p \o w \in Seq(Bytes)
    BY <1>2, ConcatProperties
  <2>2. s.f = k
    BY <1>4
  <2> DEFINE z == p \o w
  <2> HIDE DEF z
  <2>3. Feed(f, u \o z) = Extend(Feed(f, u), Feed(Feed(f, u).f, z))
    BY <1>2, <2>1, FeedConcat DEF z
  <2> QED
    BY <1>13, <2>2, <2>3 DEF s, z
<1>15. (u \o p) \o w = u \o (p \o w)
  BY <1>2, ConcatAssociative
<1>16. Opening(f) \o <<>> = Opening(f) /\ <<>> \o <<>> = <<>>
  BY FilterTyped, ConcatEmptySeq
<1>17. Extend(s, Still(g)) = [f |-> g, serial |-> <<>>, replies |-> Opening(f)]
  BY <1>4, <1>16 DEF Extend, Still
<1> QED
  BY <1>9, <1>11, <1>14, <1>15, <1>17 DEF u, w

-----------------------------------------------------------------------------
(* The answers under way: what is among them, and what only once.           *)

In(x, q)       == \E i \in 1 .. Len(q) : q[i] = x
Once(x, q)     == \A i, j \in 1 .. Len(q) : q[i] = x /\ q[j] = x => i = j
Quiet(x, q, r) == (In(x, r) <=> In(x, q)) /\ (Once(x, q) => Once(x, r))

LEMMA InConcat ==
    ASSUME NEW S, NEW q \in Seq(S), NEW r \in Seq(S), NEW x
    PROVE  /\ In(x, q \o r) <=> In(x, q) \/ In(x, r)
           /\ Once(x, q) /\ ~In(x, r) => Once(x, q \o r)
           /\ ~In(x, q) /\ Once(x, r) => Once(x, q \o r)
<1> DEFINE s == q \o r
           m == Len(q)
           n == Len(r)
<1>1. m \in Nat /\ n \in Nat /\ Len(s) = m + n
  BY ConcatProperties, LenProperties
<1>2. \A i \in 1 .. m + n : s[i] = IF i <= m THEN q[i] ELSE r[i - m]
  BY ConcatProperties
<1> HIDE DEF s, m, n
<1>3. \A i \in 1 .. m + n : \/ i \in 1 .. m /\ s[i] = q[i]
                            \/ i - m \in 1 .. n /\ s[i] = r[i - m]
  BY <1>1, <1>2
<1>4. \A i \in 1 .. m : i \in 1 .. m + n /\ s[i] = q[i]
  BY <1>1, <1>2
<1>5. ASSUME NEW i \in 1 .. n
      PROVE  m + i \in 1 .. m + n /\ s[m + i] = r[i]
  <2>1. m + i \in 1 .. m + n /\ ~(m + i <= m) /\ m + i - m = i
    BY <1>1
  <2> QED
    BY <1>1, <1>2, <2>1
<1>6. In(x, s) <=> In(x, q) \/ In(x, r)
  BY <1>1, <1>3, <1>4, <1>5 DEF In, m, n
<1>7. ASSUME Once(x, q), ~In(x, r)
      PROVE  Once(x, s)
  BY <1>1, <1>3, <1>7 DEF In, Once, m, n
<1>8. ASSUME ~In(x, q), Once(x, r)
      PROVE  Once(x, s)
  <2> SUFFICES ASSUME NEW i \in 1 .. m + n, NEW j \in 1 .. m + n, s[i] = x, s[j] = x
               PROVE  i = j
    BY <1>1 DEF Once
  <2>1. i - m \in 1 .. n /\ r[i - m] = x /\ j - m \in 1 .. n /\ r[j - m] = x
    BY <1>3, <1>8 DEF In, m
  <2>2. i - m = j - m
    BY <1>8, <2>1 DEF Once, n
  <2> QED
    BY <1>1, <2>2
<1> QED
  BY <1>6, <1>7, <1>8 DEF s

LEMMA InTail ==
    ASSUME NEW S, NEW q \in Seq(S), q # <<>>, NEW x
    PROVE  /\ In(Head(q), q)
           /\ Head(q) # x => Quiet(x, q, Tail(q))
           /\ Head(q) = x /\ Once(x, q) => ~In(x, Tail(q))
           /\ Once(x, q) => Once(x, Tail(q))
<1> DEFINE t == Tail(q)
           n == Len(q)
<1>1. n \in Nat \ {0} /\ Len(t) = n - 1 /\ Head(q) = q[1]
  BY EmptySeq, HeadTailProperties
<1>2. \A i \in 1 .. n - 1 : t[i] = q[i + 1]
  BY <1>1, HeadTailProperties
<1> HIDE DEF t, n
<1>3. \A i \in 1 .. n : i = 1 \/ (i - 1 \in 1 .. n - 1 /\ t[i - 1] = q[i])
  BY <1>1, <1>2
<1>4. \A i \in 1 .. n - 1 : i + 1 \in 1 .. n /\ i + 1 # 1 /\ t[i] = q[i + 1]
  BY <1>1, <1>2
<1>5. 1 \in 1 .. n
  BY <1>1
<1>6. In(Head(q), q)
  BY <1>1, <1>5 DEF In, n
<1>7. In(x, t) => In(x, q)
  BY <1>1, <1>4 DEF In, n
<1>8. ASSUME Once(x, q)
      PROVE  Once(x, t)
  <2> SUFFICES ASSUME NEW i \in 1 .. n - 1, NEW j \in 1 .. n - 1, t[i] = x, t[j] = x
               PROVE  i = j
    BY <1>1 DEF Once
  <2>1. i + 1 = j + 1
    BY <1>4, <1>8 DEF Once, n
  <2> QED
    BY <1>1, <2>1
<1>9. Head(q) # x /\ In(x, q) => In(x, t)
  BY <1>1, <1>3 DEF In, n
<1>10. ASSUME Head(q) = x, Once(x, q)
       PROVE  ~In(x, t)
  BY <1>1, <1>4, <1>5, <1>10 DEF In, Once, n
<1> QED
  BY <1>6, <1>7, <1>8, <1>9, <1>10 DEF Quiet, t

LEMMA InShort ==
    /\ \A x : ~In(x, <<>>) /\ Once(x, <<>>)
    /\ \A x, y : (In(x, <<y>>) <=> x = y) /\ Once(x, <<y>>)
  BY DEF In, Once

LEMMA QuietConcat ==
    ASSUME NEW S, NEW q \in Seq(S), NEW r \in Seq(S), NEW x, ~In(x, r)
    PROVE  Quiet(x, q, q \o r)
  BY InConcat DEF Quiet

\* What the preamble asks for, and what an answer may contain.
LEMMA PreambleAsks ==
    /\ In(<<"DO", "BIN">>, Preamble) /\ Once(<<"DO", "BIN">>, Preamble)
    /\ In(<<"WILL", "BIN">>, Preamble) /\ Once(<<"WILL", "BIN">>, Preamble)
    /\ ~In(<<"DONT", "BIN">>, Preamble) /\ ~In(<<"WONT", "BIN">>, Preamble)
    /\ ~In(Configuration, Preamble)
<1> DEFINE p == Preamble
<1>1. /\ Len(p) = 6
      /\ p[1] = <<"WONT", "ECHO">> /\ p[2] = <<"DONT", "ECHO">> /\ p[3] = <<"WILL", "SGA">>
      /\ p[4] = <<"WILL", "BIN">> /\ p[5] = <<"DO", "BIN">> /\ p[6] = <<"DO", "COM">>
  BY DEF Preamble
<1>2. \A i \in 1 .. 6 : i = 1 \/ i = 2 \/ i = 3 \/ i = 4 \/ i = 5 \/ i = 6
  OBVIOUS
<1>3. 4 \in 1 .. 6 /\ 5 \in 1 .. 6
  OBVIOUS
<1>4. \A a, b, c, d : <<a, b>> = <<c, d>> => a = c /\ b = d
  OBVIOUS
<1>5. \A a, b : Configuration # <<a, b>>
  BY DEF Configuration
<1> HIDE DEF p
<1>6. /\ \A i \in 1 .. 6 : p[i] = <<"DO", "BIN">> <=> i = 5
      /\ \A i \in 1 .. 6 : p[i] = <<"WILL", "BIN">> <=> i = 4
      /\ \A i \in 1 .. 6 : p[i] # <<"DONT", "BIN">> /\ p[i] # <<"WONT", "BIN">>
  BY <1>1, <1>2, <1>4
<1>7. \A i \in 1 .. 6 : p[i] # Configuration
  BY <1>1, <1>2, <1>5
<1> QED
  BY <1>1, <1>3, <1>6, <1>7 DEF In, Once, p

LEMMA AnswerContains ==
    ASSUME NEW f, NEW c \in Commands, NEW o \in Bytes
    PROVE  /\ \A a : ~In(<<a, "BIN">>, Answer(f, c, o))
           /\ Once(Configuration, Answer(f, c, o))
           /\ In(Configuration, Answer(f, c, o))
                <=> (o = "COM" /\ c \in Granting /\ ~f.configured)
<1>1. \A a, b, x, y : <<a, b>> = <<x, y>> => a = x /\ b = y
  OBVIOUS
<1>2. \A a, b : Configuration # <<a, b>>
  BY DEF Configuration
<1> DEFINE r == Answer(f, c, o)
           w == << <<"WILL", o>> >>
<1>3. w \in Seq(Reply) /\ Parameters(f) \in Seq(Reply)
  BY DEF Reply, Parameters, Commands
<1>4. /\ \A a : ~In(<<a, "BIN">>, Parameters(f))
      /\ Once(Configuration, Parameters(f))
      /\ In(Configuration, Parameters(f)) <=> ~f.configured
  BY <1>2, InShort DEF Parameters
<1>5. CASE o = "COM" /\ c \in Granting
  <2>1. r = IF c = "DO" THEN w \o Parameters(f) ELSE Parameters(f)
    BY <1>5 DEF Answer, Granting, Known
  <2>2. /\ \A a : ~In(<<a, "BIN">>, w)
        /\ ~In(Configuration, w)
    BY <1>1, <1>2, <1>5, InShort
  <2> HIDE DEF w, r
  <2>3. /\ \A a : ~In(<<a, "BIN">>, w \o Parameters(f))
        /\ Once(Configuration, w \o Parameters(f))
        /\ In(Configuration, w \o Parameters(f)) <=> ~f.configured
    BY <1>3, <1>4, <2>2, InConcat
  <2>4. /\ \A a : ~In(<<a, "BIN">>, r)
        /\ Once(Configuration, r)
        /\ In(Configuration, r) <=> ~f.configured
    BY <1>4, <2>1, <2>3
  <2> QED
    BY <1>5, <2>4 DEF r
<1>6. CASE ~(o = "COM" /\ c \in Granting)
  <2>1. r = <<>> \/ \E a : o # "BIN" /\ r = << <<a, o>> >>
    BY <1>6 DEF Answer, Granting, Known
  <2> HIDE DEF r
  <2>2. /\ \A a : ~In(<<a, "BIN">>, r)
        /\ Once(Configuration, r) /\ ~In(Configuration, r)
    BY <1>1, <1>2, <2>1, InShort
  <2> QED
    BY <1>6, <2>2 DEF r
<1> QED
  BY <1>5, <1>6

-----------------------------------------------------------------------------
(* The negotiation.  It is followed through the filter as it will be when   *)
(* it has heard what is under way, and the answers as they will be then.    *)

Sides == [Options -> {"no", "asked", "yes"}]

\* One direction of binary mode.  While the request of the preamble is under way the
\* option is off on both sides, or offered by the server and known to be; when it has
\* been answered both sides have it, or the server has said no to it in this session:
\* then neither side has it, or the server has offered it again and the bridge believes
\* the offer.
Agreed(side, belief, q, request, refusal, sp) ==
    /\ Once(request, q)
    /\ \/ side = "yes" /\ belief = "yes" /\ ~In(request, q)
       \/ side = "no" /\ belief # "yes" /\ (In(request, q) \/ refusal \in sp)
       \/ side = "asked" /\ belief = "yes" /\ (In(request, q) \/ refusal \in sp)
Binary(f, q, h, u, sp) ==
    /\ Agreed(h["BIN"], f.rx, q, <<"DO", "BIN">>, Option("WONT", "BIN"), sp)
    /\ Agreed(u["BIN"], f.tx, q, <<"WILL", "BIN">>, Option("DONT", "BIN"), sp)
    /\ ~In(<<"DONT", "BIN">>, q) /\ ~In(<<"WONT", "BIN">>, q)

\* The serial parameters were received or are under way, once, if the filter has sent
\* them; it has if the server has anything to do with the option, and only if the server
\* has said that it or the bridge may use it.
Granted(sp) == Option("WILL", "COM") \in sp \/ Option("DO", "COM") \in sp
Port(f, q, h, u, sp, n) ==
    /\ n \in 0 .. 1 /\ Once(Configuration, q)
    /\ f.configured <=> n = 1 \/ In(Configuration, q)
    /\ ~(n = 1 /\ In(Configuration, q))
    /\ h["COM"] # "no" \/ u["COM"] # "no" => f.configured
    /\ f.configured => Granted(sp)

Talk(f, q, h, u, sp, n) ==
    /\ q \in Seq(Reply) /\ h \in Sides /\ u \in Sides
    /\ f.started => Binary(f, q, h, u, sp) /\ Port(f, q, h, u, sp, n)
    /\ ~f.started => /\ q = <<>> /\ n = 0
                     /\ f.rx # "yes" /\ f.tx # "yes" /\ ~f.configured
                     /\ \A o \in Options : h[o] = "no" /\ u[o] = "no"

LEMMA AgreedKept ==
    ASSUME NEW side, NEW belief, NEW q, NEW request, NEW refusal, NEW sp,
           Agreed(side, belief, q, request, refusal, sp),
           NEW r, Quiet(request, q, r), NEW s2, sp \subseteq s2
    PROVE  Agreed(side, belief, r, request, refusal, s2)
  BY DEF Agreed, Quiet

LEMMA KnownOptions == "BIN" \in Options /\ "COM" \in Options
  BY OptionsAssumption DEF Known

\* The first IAC
LEMMA TalkBegins ==
    ASSUME NEW f \in Filters, NEW g, Keeps(f, g), NEW q, NEW h, NEW u, NEW sp, NEW n,
           Talk(f, q, h, u, sp, n)
    PROVE  Talk(g, q \o Opening(f), h, u, sp, n)
<1>1. CASE f.started
  <2>1. q \o Opening(f) = q
    BY <1>1, ConcatEmptySeq DEF Talk, Opening
  <2>2. Binary(g, q, h, u, sp) /\ Port(g, q, h, u, sp, n)
    BY <1>1 DEF Talk, Keeps, Binary, Port
  <2> QED
    BY <2>1, <2>2 DEF Talk, Keeps
<1>2. CASE ~f.started
  <2> DEFINE p == Preamble
  <2>1. q = <<>> /\ Opening(f) = p /\ p \in Seq(Reply)
    BY <1>2, ReplyTyped DEF Talk, Opening
  <2>2. q \o Opening(f) = p
    BY <2>1, ConcatEmptySeq
  <2>3. /\ h["BIN"] = "no" /\ u["BIN"] = "no" /\ h["COM"] = "no" /\ u["COM"] = "no"
        /\ g.rx # "yes" /\ g.tx # "yes" /\ ~g.configured /\ n = 0
    BY <1>2, KnownOptions DEF Talk, Keeps
  <2>4. Binary(g, p, h, u, sp)
    BY <2>3, PreambleAsks DEF Binary, Agreed
  <2>5. Port(g, p, h, u, sp, n)
    <3>1. Once(Configuration, p)
      BY PreambleAsks DEF In, Once
    <3> QED
      BY <2>3, <3>1, PreambleAsks DEF Port
  <2> HIDE DEF p
  <2> QED
    BY <2>1, <2>2, <2>4, <2>5 DEF Talk, Keeps
<1> QED
  BY <1>1, <1>2

LEMMA PortAnswered ==
    ASSUME NEW f, NEW g, NEW c \in Commands, NEW o \in Bytes, Agreement(f, g, c, o),
           NEW q \in Seq(Reply), NEW h, NEW u, NEW sp, NEW n, Port(f, q, h, u, sp, n),
           NEW h2, NEW u2, NEW s2, sp \subseteq s2, Option(c, o) \in s2,
           h2["COM"] # "no" \/ u2["COM"] # "no" =>
              h["COM"] # "no" \/ u["COM"] # "no" \/ (o = "COM" /\ c \in Granting)
    PROVE  Port(g, q \o Answer(f, c, o), h2, u2, s2, n)
<1> DEFINE r == Answer(f, c, o)
<1>1. r \in Seq(Reply)
  BY ReplyTyped
<1>2. /\ Once(Configuration, r)
      /\ In(Configuration, r) <=> (o = "COM" /\ c \in Granting /\ ~f.configured)
  BY AnswerContains
<1> HIDE DEF r
<1>3. In(Configuration, q \o r) <=> In(Configuration, q) \/ In(Configuration, r)
  BY <1>1, InConcat
<1>4. Once(Configuration, q \o r)
  BY <1>1, <1>2, InConcat DEF Port
<1>5. g.configured = IF o = "COM" /\ c \in Granting THEN TRUE ELSE f.configured
  BY DEF Agreement
<1>6. g.configured <=> (o = "COM" /\ c \in Granting) \/ f.configured
  BY <1>5
<1>7. g.configured => Granted(s2)
  BY <1>6 DEF Port, Granted, Granting
<1> QED
  BY <1>2, <1>3, <1>4, <1>6, <1>7 DEF Port, r

\* Both directions of binary mode after an answer that is not about it
LEMMA BinaryAnswered ==
    ASSUME NEW f, NEW g, NEW c \in Commands, NEW o \in Bytes, Agreement(f, g, c, o),
           NEW q \in Seq(Reply), NEW h, NEW u, NEW sp, Binary(f, q, h, u, sp),
           NEW h2, NEW u2, NEW s2, sp \subseteq s2, h2["BIN"] = h["BIN"], u2["BIN"] = u["BIN"],
           o # "BIN"
    PROVE  Binary(g, q \o Answer(f, c, o), h2, u2, s2)
<1> DEFINE r == Answer(f, c, o)
<1>1. r \in Seq(Reply) /\ \A a : ~In(<<a, "BIN">>, r)
  BY ReplyTyped, AnswerContains
<1> HIDE DEF r
<1>2. \A a : Quiet(<<a, "BIN">>, q, q \o r)
  BY <1>1, QuietConcat
<1>3. g.rx = f.rx /\ g.tx = f.tx
  BY DEF Agreement
<1>4. Agreed(h2["BIN"], g.rx, q \o r, <<"DO", "BIN">>, Option("WONT", "BIN"), s2)
  BY <1>2, <1>3, AgreedKept DEF Binary
<1>5. Agreed(u2["BIN"], g.tx, q \o r, <<"WILL", "BIN">>, Option("DONT", "BIN"), s2)
  BY <1>2, <1>3, AgreedKept DEF Binary
<1> QED
  BY <1>2, <1>4, <1>5 DEF Binary, Quiet, r

LEMMA TalkOffer ==
    ASSUME NEW f \in Filters, f.started, NEW q, NEW h, NEW u, NEW sp, NEW n,
           Talk(f, q, h, u, sp, n),
           NEW c \in Commands, NEW o \in Options, NEW g, Agreement(f, g, c, o),
           NEW h2, NEW u2,
           \/ /\ c = "WILL" /\ o \in Performs /\ h[o] = "no"
              /\ h2 = [h EXCEPT ![o] = "asked"] /\ u2 = u
           \/ /\ c = "DO" /\ o \in Accepts /\ u[o] = "no"
              /\ u2 = [u EXCEPT ![o] = "asked"] /\ h2 = h
    PROVE  Talk(g, q \o Answer(f, c, o), h2, u2, sp \cup {Option(c, o)}, n)
<1> DEFINE r  == Answer(f, c, o)
           s2 == sp \cup {Option(c, o)}
<1>1. /\ q \in Seq(Reply) /\ h \in Sides /\ u \in Sides /\ Binary(f, q, h, u, sp)
      /\ Port(f, q, h, u, sp, n) /\ o \in Bytes
  BY BytesKnown DEF Talk
<1>2. h2 \in Sides /\ u2 \in Sides
  BY <1>1 DEF Sides
<1>3. \A p \in Options : p # o => h2[p] = h[p] /\ u2[p] = u[p]
  BY <1>1 DEF Sides
<1>4. r \in Seq(Reply) /\ q \o r \in Seq(Reply)
  BY <1>1, ReplyTyped, ConcatProperties
<1>5. Port(g, q \o r, h2, u2, s2, n)
  <2>1. sp \subseteq s2 /\ Option(c, o) \in s2
    OBVIOUS
  <2> HIDE DEF s2
  <2>2. h2["COM"] # "no" \/ u2["COM"] # "no" =>
           h["COM"] # "no" \/ u["COM"] # "no" \/ (o = "COM" /\ c \in Granting)
    BY <1>3, KnownOptions DEF Granting
  <2> QED
    BY <1>1, <2>1, <2>2, PortAnswered
<1>6. Binary(g, q \o r, h2, u2, s2)
  <2>1. CASE o # "BIN"
    <3>1. h2["BIN"] = h["BIN"] /\ u2["BIN"] = u["BIN"] /\ sp \subseteq s2
      BY <1>3, <2>1, KnownOptions
    <3> HIDE DEF r, s2
    <3> QED
      BY <1>1, <2>1, <3>1, BinaryAnswered DEF r
  <2>2. CASE o = "BIN"
    <3>1. \A a : ~In(<<a, "BIN">>, r)
      BY <1>1, AnswerContains
    <3> HIDE DEF r, s2
    <3>2. \A a : Quiet(<<a, "BIN">>, q, q \o r)
      BY <1>1, <1>4, <3>1, QuietConcat
    <3>3. sp \subseteq s2
      BY DEF s2
    <3>4. ~In(<<"DONT", "BIN">>, q \o r) /\ ~In(<<"WONT", "BIN">>, q \o r)
      BY <1>1, <3>2 DEF Binary, Quiet
    <3>5. CASE c = "WILL"
      <4>1. /\ h["BIN"] = "no" /\ h2["BIN"] = "asked" /\ u2["BIN"] = u["BIN"]
            /\ g.rx = "yes" /\ g.tx = f.tx
        BY <1>1, <2>2, <3>5 DEF Agreement, Sides
      <4>2. Agreed(h["BIN"], f.rx, q, <<"DO", "BIN">>, Option("WONT", "BIN"), sp)
        BY <1>1 DEF Binary
      <4>3. Agreed(h2["BIN"], g.rx, q \o r, <<"DO", "BIN">>, Option("WONT", "BIN"), s2)
        BY <3>2, <3>3, <4>1, <4>2 DEF Agreed, Quiet
      <4>4. Agreed(u2["BIN"], g.tx, q \o r, <<"WILL", "BIN">>, Option("DONT", "BIN"), s2)
        BY <1>1, <3>2, <3>3, <4>1, AgreedKept DEF Binary
      <4> QED
        BY <3>4, <4>3, <4>4 DEF Binary
    <3>6. CASE c = "DO"
      <4>1. /\ u["BIN"] = "no" /\ u2["BIN"] = "asked" /\ h2["BIN"] = h["BIN"]
            /\ g.tx = "yes" /\ g.rx = f.rx
        BY <1>1, <2>2, <3>6 DEF Agreement, Sides
      <4>2. Agreed(u["BIN"], f.tx, q, <<"WILL", "BIN">>, Option("DONT", "BIN"), sp)
        BY <1>1 DEF Binary
      <4>3. Agreed(u2["BIN"], g.tx, q \o r, <<"WILL", "BIN">>, Option("DONT", "BIN"), s2)
        BY <3>2, <3>3, <4>1, <4>2 DEF Agreed, Quiet
      <4>4. Agreed(h2["BIN"], g.rx, q \o r, <<"DO", "BIN">>, Option("WONT", "BIN"), s2)
        BY <1>1, <3>2, <3>3, <4>1, AgreedKept DEF Binary
      <4> QED
        BY <3>4, <4>3, <4>4 DEF Binary
    <3> QED
      BY <3>5, <3>6
  <2> QED
    BY <2>1, <2>2
<1> HIDE DEF r
<1> QED
  BY <1>2, <1>4, <1>5, <1>6 DEF Talk, Agreement, r

LEMMA TalkWithdraw ==
    ASSUME NEW f \in Filters, f.started, NEW q, NEW h, NEW u, NEW sp, NEW n,
           Talk(f, q, h, u, sp, n),
           NEW c \in Commands, NEW o \in Options, NEW g, Agreement(f, g, c, o),
           NEW h2, NEW u2, NEW s2, s2 = sp \cup {Option(c, o)},
           \/ /\ c = "WONT" /\ h[o] = "yes" /\ h2 = [h EXCEPT ![o] = "no"] /\ u2 = u
           \/ /\ c = "DONT" /\ u[o] = "yes" /\ u2 = [u EXCEPT ![o] = "no"] /\ h2 = h
    PROVE  Talk(g, q \o Answer(f, c, o), h2, u2, s2, n)
<1> DEFINE r == Answer(f, c, o)
<1>1. /\ q \in Seq(Reply) /\ h \in Sides /\ u \in Sides /\ Binary(f, q, h, u, sp)
      /\ Port(f, q, h, u, sp, n) /\ o \in Bytes /\ sp \subseteq s2
      /\ Option(c, o) \in s2
  BY BytesKnown DEF Talk
<1>2. h2 \in Sides /\ u2 \in Sides
  BY <1>1 DEF Sides
<1>3. \A p \in Options : /\ p # o => h2[p] = h[p] /\ u2[p] = u[p]
                         /\ h2[p] \in {h[p], "no"} /\ u2[p] \in {u[p], "no"}
  BY <1>1 DEF Sides
<1>4. r \in Seq(Reply) /\ q \o r \in Seq(Reply)
  BY <1>1, ReplyTyped, ConcatProperties
<1>5. Port(g, q \o r, h2, u2, s2, n)
  <2>1. h2["COM"] # "no" \/ u2["COM"] # "no" =>
           h["COM"] # "no" \/ u["COM"] # "no" \/ (o = "COM" /\ c \in Granting)
    BY <1>3, KnownOptions
  <2> QED
    BY <1>1, <2>1, PortAnswered
<1>6. Binary(g, q \o r, h2, u2, s2)
  <2>1. CASE o # "BIN"
    <3>1. h2["BIN"] = h["BIN"] /\ u2["BIN"] = u["BIN"]
      BY <1>3, <2>1, KnownOptions
    <3> HIDE DEF r
    <3> QED
      BY <1>1, <2>1, <3>1, BinaryAnswered DEF r
  <2>2. CASE o = "BIN"
    <3>1. \A a : ~In(<<a, "BIN">>, r)
      BY <1>1, AnswerContains
    <3> HIDE DEF r
    <3>2. \A a : Quiet(<<a, "BIN">>, q, q \o r)
      BY <1>1, <1>4, <3>1, QuietConcat
    <3>4. ~In(<<"DONT", "BIN">>, q \o r) /\ ~In(<<"WONT", "BIN">>, q \o r)
      BY <1>1, <3>2 DEF Binary, Quiet
    <3>5. CASE c = "WONT"
      <4>1. /\ h["BIN"] = "yes" /\ h2["BIN"] = "no" /\ u2["BIN"] = u["BIN"]
            /\ g.rx = "no" /\ g.tx = f.tx /\ Option("WONT", "BIN") \in s2
        BY <1>1, <2>2, <3>5 DEF Agreement, Sides
      <4>2. ~In(<<"DO", "BIN">>, q) /\ Once(<<"DO", "BIN">>, q)
        BY <1>1, <4>1 DEF Binary, Agreed
      <4>3. Agreed(h2["BIN"], g.rx, q \o r, <<"DO", "BIN">>, Option("WONT", "BIN"), s2)
        BY <3>2, <4>1, <4>2 DEF Agreed, Quiet
      <4>4. Agreed(u2["BIN"], g.tx, q \o r, <<"WILL", "BIN">>, Option("DONT", "BIN"), s2)
        BY <1>1, <3>2, <4>1, AgreedKept DEF Binary
      <4> QED
        BY <3>4, <4>3, <4>4 DEF Binary
    <3>6. CASE c = "DONT"
      <4>1. /\ u["BIN"] = "yes" /\ u2["BIN"] = "no" /\ h2["BIN"] = h["BIN"]
            /\ g.tx = "no" /\ g.rx = f.rx /\ Option("DONT", "BIN") \in s2
        BY <1>1, <2>2, <3>6 DEF Agreement, Sides
      <4>2. ~In(<<"WILL", "BIN">>, q) /\ Once(<<"WILL", "BIN">>, q)
        BY <1>1, <4>1 DEF Binary, Agreed
      <4>3. Agreed(u2["BIN"], g.tx, q \o r, <<"WILL", "BIN">>, Option("DONT", "BIN"), s2)
        BY <3>2, <4>1, <4>2 DEF Agreed, Quiet
      <4>4. Agreed(h2["BIN"], g.rx, q \o r, <<"DO", "BIN">>, Option("WONT", "BIN"), s2)
        BY <1>1, <3>2, <4>1, AgreedKept DEF Binary
      <4> QED
        BY <3>4, <4>3, <4>4 DEF Binary
    <3> QED
      BY <3>5, <3>6
  <2> QED
    BY <2>1, <2>2
<1> HIDE DEF r
<1> QED
  BY <1>2, <1>4, <1>5, <1>6 DEF Talk, Agreement, r

\* The server reads a request: what it may make of the option, and say.
Responses(state, o, c, req, willing, yes, no) ==
    {Settle(state, o, c = req, granted, yes, no) : granted \in Grants(o, c = req, willing)}

\* What it has said by then
Saying(sp, s) == sp \cup ({s.says} \ {<<>>})

LEMMA ResponseFacts ==
    ASSUME NEW state \in Sides, NEW o, NEW c, NEW req, NEW willing, NEW yes, NEW no,
           NEW s \in Responses(state, o, c, req, willing, yes, no)
    PROVE  /\ s.state \in Sides
           /\ \A p \in Options : p # o => s.state[p] = state[p]
           /\ s.says \in {<<>>, Option(yes, o), Option(no, o)}
           /\ o \in Options /\ c # req => s.state[o] = "no" /\ s.says \in {<<>>, Option(no, o)}
           /\ o \in Options /\ c = req /\ state[o] # "no" => s.state[o] = "yes" /\ s.says = <<>>
           /\ o \in Options /\ c = req /\ state[o] = "no" =>
                 \/ s.state[o] = "yes" /\ s.says = Option(yes, o)
                 \/ s.state[o] = "no" /\ s.says = Option(no, o)
<1>0. PICK granted \in BOOLEAN :
           s = Settle(state, o, c = req, granted, yes, no) /\ (granted => c = req)
  BY DEF Responses, Grants
<1> DEFINE silent == \/ state[o] = "asked"
                     \/ state[o] = (IF c = req THEN "yes" ELSE "no")
           v == IF granted \/ (c = req /\ silent) THEN "yes" ELSE "no"
<1>1. s.state = [state EXCEPT ![o] = v]
  BY <1>0 DEF Settle
<1>2. s.says = IF silent THEN <<>> ELSE Option(IF granted THEN yes ELSE no, o)
  BY <1>0 DEF Settle
<1>3. v \in {"no", "asked", "yes"}
  OBVIOUS
<1> HIDE DEF v
<1>4. s.state \in Sides /\ \A p \in Options : p # o => s.state[p] = state[p]
  BY <1>1, <1>3 DEF Sides
<1>5. o \in Options => s.state[o] = v /\ state[o] \in {"no", "asked", "yes"}
  BY <1>1 DEF Sides
<1>6. s.says \in {<<>>, Option(yes, o), Option(no, o)}
  BY <1>2
<1>7. o \in Options /\ c # req => s.state[o] = "no" /\ s.says \in {<<>>, Option(no, o)}
  BY <1>0, <1>2, <1>5 DEF v
<1>8. o \in Options /\ c = req /\ state[o] # "no" => s.state[o] = "yes" /\ s.says = <<>>
  BY <1>0, <1>2, <1>5 DEF v
<1>9. o \in Options /\ c = req /\ state[o] = "no" =>
         \/ s.state[o] = "yes" /\ s.says = Option(yes, o)
         \/ s.state[o] = "no" /\ s.says = Option(no, o)
  BY <1>0, <1>2, <1>5 DEF v
<1> QED
  BY <1>4, <1>6, <1>7, <1>8, <1>9

\* What the filter believes when it has heard the answer
Told(s, o, yes, no, before, after) ==
    \/ s.says = <<>> /\ after = before
    \/ s.says = Option(yes, o) /\ after = (IF o = "BIN" THEN "yes" ELSE before)
    \/ s.says = Option(no, o) /\ after = (IF o = "BIN" THEN "no" ELSE before)

\* No request about binary mode
Apart(r) == r \in Seq(Reply) /\ \A a : ~In(<<a, "BIN">>, r)

\* The direction of binary mode that the request is about
LEMMA AgreedRead ==
    ASSUME NEW state \in Sides, NEW belief, NEW q \in Seq(Reply), q # <<>>, NEW req, NEW stop,
           NEW sp, NEW willing, NEW yes, NEW no, yes # no, req # stop,
           Agreed(state["BIN"], belief, q, <<req, "BIN">>, Option(no, "BIN"), sp),
           ~In(<<stop, "BIN">>, q),
           NEW c, NEW o, Head(q) = <<c, o>>, c = req \/ c = stop,
           NEW s \in Responses(state, o, c, req, willing, yes, no),
           NEW b2, Told(s, o, yes, no, belief, b2), NEW r, Apart(r)
    PROVE  Agreed(s.state["BIN"], b2, Tail(q) \o r, <<req, "BIN">>, Option(no, "BIN"),
                  Saying(sp, s))
<1> DEFINE x == <<req, "BIN">>
           t == Tail(q)
<1>1. t \in Seq(Reply) /\ r \in Seq(Reply) /\ ~In(x, r)
  BY HeadTailProperties DEF Apart
<1>2. Quiet(x, t, t \o r)
  BY <1>1, QuietConcat
<1>3. \A y, z : <<c, o>> = <<y, z>> <=> c = y /\ o = z
  OBVIOUS
<1>4. Option(yes, o) # Option(no, o) /\ Option(yes, o) # <<>> /\ Option(no, o) # <<>>
  BY DEF Option
<1>5. sp \subseteq Saying(sp, s) /\ (s.says = Option(no, o) => s.says \in Saying(sp, s))
  BY <1>4 DEF Saying
<1>6. /\ \A p \in Options : p # o => s.state[p] = state[p]
      /\ o \in Options /\ c = req /\ state[o] # "no" => s.state[o] = "yes" /\ s.says = <<>>
      /\ o \in Options /\ c = req /\ state[o] = "no" =>
            \/ s.state[o] = "yes" /\ s.says = Option(yes, o)
            \/ s.state[o] = "no" /\ s.says = Option(no, o)
  BY ResponseFacts
<1>7. In(Head(q), q)
  BY InTail
<1>8. CASE o # "BIN"
  <2>1. Quiet(x, q, t)
    BY <1>3, <1>8, InTail
  <2>2. s.state["BIN"] = state["BIN"] /\ b2 = belief
    BY <1>6, <1>8, KnownOptions DEF Told
  <2>3. Quiet(x, q, t \o r)
    BY <1>2, <2>1 DEF Quiet
  <2> HIDE DEF x, t
  <2> QED
    BY <1>5, <2>2, <2>3, AgreedKept DEF x, t
<1>9. CASE o = "BIN"
  <2>1. Head(q) = x /\ c = req
    BY <1>3, <1>7, <1>9
  <2>2. In(x, q) /\ Once(x, q)
    BY <1>7, <2>1 DEF Agreed
  <2>3. ~In(x, t) /\ Once(x, t)
    BY <2>1, <2>2, InTail
  <2>4. ~In(x, t \o r) /\ Once(x, t \o r)
    BY <1>2, <2>3 DEF Quiet
  <2>5. \/ state["BIN"] = "no" /\ belief # "yes"
        \/ state["BIN"] = "asked" /\ belief = "yes"
    BY <2>2 DEF Agreed
  <2>6. \/ s.state["BIN"] = "yes" /\ b2 = "yes"
        \/ s.state["BIN"] = "no" /\ b2 # "yes" /\ Option(no, "BIN") \in Saying(sp, s)
    BY <1>4, <1>5, <1>6, <1>9, <2>1, <2>5, KnownOptions DEF Told
  <2> HIDE DEF x, t
  <2> QED
    BY <2>4, <2>6 DEF Agreed, x, t
<1> QED
  BY <1>8, <1>9

\* The server reads a request about what it performs, or about what it accepts.
LEMMA TalkReadsDo ==
    ASSUME NEW f \in Filters, f.started, NEW q, NEW h, NEW u, NEW sp, NEW n,
           Talk(f, q, h, u, sp, n), q # <<>>,
           NEW c, NEW o \in Bytes, Head(q) = <<c, o>>, c = "DO" \/ c = "DONT",
           NEW s \in Responses(h, o, c, "DO", Performs, "WILL", "WONT"),
           NEW g, NEW r,
           \/ s.says = <<>> /\ g = f /\ r = <<>>
           \/ \E a \in {"WILL", "WONT"} : /\ s.says = Option(a, o) /\ Agreement(f, g, a, o)
                                          /\ r = Answer(f, a, o)
    PROVE  Talk(g, Tail(q) \o r, s.state, u, Saying(sp, s), n)
<1> DEFINE t == Tail(q)
           s2 == Saying(sp, s)
<1>1. /\ q \in Seq(Reply) /\ h \in Sides /\ u \in Sides /\ Binary(f, q, h, u, sp)
      /\ Port(f, q, h, u, sp, n)
  BY DEF Talk
<1>2. t \in Seq(Reply)
  BY <1>1, HeadTailProperties
<1>3. /\ r \in Seq(Reply) /\ \A a : ~In(<<a, "BIN">>, r)
  <2>1. CASE r = <<>>
    BY <2>1, InShort
  <2>2. CASE r # <<>>
    <3>1. PICK a \in {"WILL", "WONT"} : r = Answer(f, a, o)
      BY <2>2
    <3>2. a \in Commands
      BY DEF Commands
    <3> QED
      BY <3>1, <3>2, ReplyTyped, AnswerContains
  <2> QED
    BY <2>1, <2>2
<1>4. \A a, y, z : <<y, z>> = <<c, o>> => y = c /\ z = o
  OBVIOUS
<1>5. /\ s.state \in Sides /\ \A p \in Options : p # o => s.state[p] = h[p]
      /\ s.says \in {<<>>, Option("WILL", o), Option("WONT", o)}
      /\ o \in Options /\ c # "DO" => s.state[o] = "no"
      /\ o \in Options /\ c = "DO" /\ h[o] = "no" /\ s.state[o] # "no" =>
            s.says = Option("WILL", o)
  <2>1. /\ s.state \in Sides /\ \A p \in Options : p # o => s.state[p] = h[p]
        /\ s.says \in {<<>>, Option("WILL", o), Option("WONT", o)}
        /\ o \in Options /\ c # "DO" => s.state[o] = "no"
        /\ o \in Options /\ c = "DO" /\ h[o] = "no" =>
              \/ s.state[o] = "yes" /\ s.says = Option("WILL", o)
              \/ s.state[o] = "no" /\ s.says = Option("WONT", o)
    BY <1>1, ResponseFacts
  <2> QED
    BY <2>1
<1>6. /\ Option("WILL", o) # <<>> /\ Option("WONT", o) # <<>>
      /\ Option("WILL", o) # Option("WONT", o)
  BY DEF Option
<1>7. \/ s.says = <<>> /\ g = f /\ r = <<>>
      \/ /\ s.says = Option("WILL", o) /\ Agreement(f, g, "WILL", o)
         /\ r = Answer(f, "WILL", o)
      \/ /\ s.says = Option("WONT", o) /\ Agreement(f, g, "WONT", o)
         /\ r = Answer(f, "WONT", o)
  OBVIOUS
<1>20. /\ sp \subseteq s2
       /\ s.says # <<>> => s.says \in s2
  BY DEF Saying
<1> HIDE DEF s2
<1>8. g.started /\ g.tx = f.tx
  BY <1>7 DEF Agreement
<1>9. s.state["COM"] # "no" /\ h["COM"] = "no" => o = "COM" /\ s.says = Option("WILL", o)
  BY <1>5, KnownOptions
<1>10. Configuration # Head(q)
  BY DEF Configuration
<1>11. Port(f, t, h, u, sp, n)
  BY <1>1, <1>10, InTail DEF Port, Quiet
<1>12. Port(g, t \o r, s.state, u, s2, n)
  <2>1. CASE s.says = <<>>
    <3>1. g = f /\ r = <<>>
      BY <1>6, <1>7, <2>1
    <3>2. t \o r = t
      BY <1>2, <3>1, ConcatEmptySeq
    <3>3. s.state["COM"] # "no" => h["COM"] # "no"
      BY <1>6, <1>9, <2>1
    <3> HIDE DEF t
    <3> QED
      BY <1>11, <1>20, <3>1, <3>2, <3>3 DEF Port, Granted
  <2>2. ASSUME NEW a \in Commands, s.says = Option(a, o), Agreement(f, g, a, o),
               r = Answer(f, a, o), Option("WILL", o) = Option(a, o) => a \in Granting
        PROVE  Port(g, t \o r, s.state, u, s2, n)
    <3>1. s.state["COM"] # "no" \/ u["COM"] # "no" =>
             h["COM"] # "no" \/ u["COM"] # "no" \/ (o = "COM" /\ a \in Granting)
      BY <1>9, <2>2
    <3>2. Option(a, o) \in s2
      BY <1>20, <2>2 DEF Option
    <3> HIDE DEF t
    <3> QED
      BY <1>2, <1>11, <1>20, <2>2, <3>1, <3>2, PortAnswered
  <2>3. /\ "WILL" \in Commands /\ "WONT" \in Commands /\ "WILL" \in Granting
    BY DEF Commands, Granting
  <2> HIDE DEF t
  <2> QED
    BY <1>6, <1>7, <2>1, <2>2, <2>3
<1>13. Told(s, o, "WILL", "WONT", f.rx, g.rx) /\ Apart(r)
  BY <1>3, <1>7 DEF Agreement, Told, Apart
<1>14. Agreed(s.state["BIN"], g.rx, t \o r, <<"DO", "BIN">>, Option("WONT", "BIN"), s2)
  <2>1. /\ Agreed(h["BIN"], f.rx, q, <<"DO", "BIN">>, Option("WONT", "BIN"), sp)
        /\ ~In(<<"DONT", "BIN">>, q)
    BY <1>1 DEF Binary
  <2>2. "WILL" # "WONT" /\ "DO" # "DONT"
    OBVIOUS
  <2> HIDE DEF t
  <2>3. Agreed(s.state["BIN"], g.rx, Tail(q) \o r, <<"DO", "BIN">>, Option("WONT", "BIN"),
               Saying(sp, s))
    BY <1>1, <1>13, <2>1, <2>2, AgreedRead
  <2> QED
    BY <2>3 DEF t, s2
<1>15. \A a : Quiet(<<a, "BIN">>, t, t \o r)
  BY <1>2, <1>3, QuietConcat
<1>16. Agreed(u["BIN"], g.tx, t \o r, <<"WILL", "BIN">>, Option("DONT", "BIN"), s2)
  <2> DEFINE x == <<"WILL", "BIN">>
  <2>1. Head(q) # x
    BY <1>4
  <2> HIDE DEF x
  <2>2. Quiet(x, q, t)
    BY <1>1, <2>1, InTail
  <2>3. Quiet(x, q, t \o r)
    BY <1>15, <2>2 DEF Quiet, x
  <2>4. Agreed(u["BIN"], f.tx, q, x, Option("DONT", "BIN"), sp)
    BY <1>1 DEF Binary, x
  <2> QED
    BY <1>8, <1>20, <2>3, <2>4, AgreedKept DEF x
<1>17. ~In(<<"DONT", "BIN">>, t \o r) /\ ~In(<<"WONT", "BIN">>, t \o r)
  <2> SUFFICES ASSUME NEW x, ~In(x, q), Quiet(x, t, t \o r)
               PROVE  ~In(x, t \o r)
    BY <1>1, <1>15 DEF Binary
  <2>1. Head(q) # x
    BY <1>1, InTail
  <2> QED
    BY <1>1, <2>1, InTail DEF Quiet
<1>18. Binary(g, t \o r, s.state, u, s2)
  BY <1>14, <1>16, <1>17 DEF Binary
<1>19. t \o r \in Seq(Reply)
  BY <1>2, <1>3, ConcatProperties
<1> HIDE DEF t
<1> QED
  BY <1>1, <1>5, <1>8, <1>12, <1>18, <1>19 DEF Talk, t, s2

LEMMA TalkReadsWill ==
    ASSUME NEW f \in Filters, f.started, NEW q, NEW h, NEW u, NEW sp, NEW n,
           Talk(f, q, h, u, sp, n), q # <<>>,
           NEW c, NEW o \in Bytes, Head(q) = <<c, o>>, c = "WILL" \/ c = "WONT",
           NEW s \in Responses(u, o, c, "WILL", Accepts, "DO", "DONT"),
           NEW g, NEW r,
           \/ s.says = <<>> /\ g = f /\ r = <<>>
           \/ \E a \in {"DO", "DONT"} : /\ s.says = Option(a, o) /\ Agreement(f, g, a, o)
                                          /\ r = Answer(f, a, o)
    PROVE  Talk(g, Tail(q) \o r, h, s.state, Saying(sp, s), n)
<1> DEFINE t == Tail(q)
           s2 == Saying(sp, s)
<1>1. /\ q \in Seq(Reply) /\ h \in Sides /\ u \in Sides /\ Binary(f, q, h, u, sp)
      /\ Port(f, q, h, u, sp, n)
  BY DEF Talk
<1>2. t \in Seq(Reply)
  BY <1>1, HeadTailProperties
<1>3. /\ r \in Seq(Reply) /\ \A a : ~In(<<a, "BIN">>, r)
  <2>1. CASE r = <<>>
    BY <2>1, InShort
  <2>2. CASE r # <<>>
    <3>1. PICK a \in {"DO", "DONT"} : r = Answer(f, a, o)
      BY <2>2
    <3>2. a \in Commands
      BY DEF Commands
    <3> QED
      BY <3>1, <3>2, ReplyTyped, AnswerContains
  <2> QED
    BY <2>1, <2>2
<1>4. \A a, y, z : <<y, z>> = <<c, o>> => y = c /\ z = o
  OBVIOUS
<1>5. /\ s.state \in Sides /\ \A p \in Options : p # o => s.state[p] = u[p]
      /\ s.says \in {<<>>, Option("DO", o), Option("DONT", o)}
      /\ o \in Options /\ c # "WILL" => s.state[o] = "no"
      /\ o \in Options /\ c = "WILL" /\ u[o] = "no" /\ s.state[o] # "no" =>
            s.says = Option("DO", o)
  <2>1. /\ s.state \in Sides /\ \A p \in Options : p # o => s.state[p] = u[p]
        /\ s.says \in {<<>>, Option("DO", o), Option("DONT", o)}
        /\ o \in Options /\ c # "WILL" => s.state[o] = "no"
        /\ o \in Options /\ c = "WILL" /\ u[o] = "no" =>
              \/ s.state[o] = "yes" /\ s.says = Option("DO", o)
              \/ s.state[o] = "no" /\ s.says = Option("DONT", o)
    BY <1>1, ResponseFacts
  <2> QED
    BY <2>1
<1>6. /\ Option("DO", o) # <<>> /\ Option("DONT", o) # <<>>
      /\ Option("DO", o) # Option("DONT", o)
  BY DEF Option
<1>7. \/ s.says = <<>> /\ g = f /\ r = <<>>
      \/ /\ s.says = Option("DO", o) /\ Agreement(f, g, "DO", o)
         /\ r = Answer(f, "DO", o)
      \/ /\ s.says = Option("DONT", o) /\ Agreement(f, g, "DONT", o)
         /\ r = Answer(f, "DONT", o)
  OBVIOUS
<1>20. /\ sp \subseteq s2
       /\ s.says # <<>> => s.says \in s2
  BY DEF Saying
<1> HIDE DEF s2
<1>8. g.started /\ g.rx = f.rx
  BY <1>7 DEF Agreement
<1>9. s.state["COM"] # "no" /\ u["COM"] = "no" => o = "COM" /\ s.says = Option("DO", o)
  BY <1>5, KnownOptions
<1>10. Configuration # Head(q)
  BY DEF Configuration
<1>11. Port(f, t, h, u, sp, n)
  BY <1>1, <1>10, InTail DEF Port, Quiet
<1>12. Port(g, t \o r, h, s.state, s2, n)
  <2>1. CASE s.says = <<>>
    <3>1. g = f /\ r = <<>>
      BY <1>6, <1>7, <2>1
    <3>2. t \o r = t
      BY <1>2, <3>1, ConcatEmptySeq
    <3>3. s.state["COM"] # "no" => u["COM"] # "no"
      BY <1>6, <1>9, <2>1
    <3> HIDE DEF t
    <3> QED
      BY <1>11, <1>20, <3>1, <3>2, <3>3 DEF Port, Granted
  <2>2. ASSUME NEW a \in Commands, s.says = Option(a, o), Agreement(f, g, a, o),
               r = Answer(f, a, o), Option("DO", o) = Option(a, o) => a \in Granting
        PROVE  Port(g, t \o r, h, s.state, s2, n)
    <3>1. h["COM"] # "no" \/ s.state["COM"] # "no" =>
             h["COM"] # "no" \/ u["COM"] # "no" \/ (o = "COM" /\ a \in Granting)
      BY <1>9, <2>2
    <3>2. Option(a, o) \in s2
      BY <1>20, <2>2 DEF Option
    <3> HIDE DEF t
    <3> QED
      BY <1>2, <1>11, <1>20, <2>2, <3>1, <3>2, PortAnswered
  <2>3. /\ "DO" \in Commands /\ "DONT" \in Commands /\ "DO" \in Granting
    BY DEF Commands, Granting
  <2> HIDE DEF t
  <2> QED
    BY <1>6, <1>7, <2>1, <2>2, <2>3
<1>13. Told(s, o, "DO", "DONT", f.tx, g.tx) /\ Apart(r)
  BY <1>3, <1>7 DEF Agreement, Told, Apart
<1>14. Agreed(s.state["BIN"], g.tx, t \o r, <<"WILL", "BIN">>, Option("DONT", "BIN"), s2)
  <2>1. /\ Agreed(u["BIN"], f.tx, q, <<"WILL", "BIN">>, Option("DONT", "BIN"), sp)
        /\ ~In(<<"WONT", "BIN">>, q)
    BY <1>1 DEF Binary
  <2>2. "DO" # "DONT" /\ "WILL" # "WONT"
    OBVIOUS
  <2> HIDE DEF t
  <2>3. Agreed(s.state["BIN"], g.tx, Tail(q) \o r, <<"WILL", "BIN">>, Option("DONT", "BIN"),
               Saying(sp, s))
    BY <1>1, <1>13, <2>1, <2>2, AgreedRead
  <2> QED
    BY <2>3 DEF t, s2
<1>15. \A a : Quiet(<<a, "BIN">>, t, t \o r)
  BY <1>2, <1>3, QuietConcat
<1>16. Agreed(h["BIN"], g.rx, t \o r, <<"DO", "BIN">>, Option("WONT", "BIN"), s2)
  <2> DEFINE x == <<"DO", "BIN">>
  <2>1. Head(q) # x
    BY <1>4
  <2> HIDE DEF x
  <2>2. Quiet(x, q, t)
    BY <1>1, <2>1, InTail
  <2>3. Quiet(x, q, t \o r)
    BY <1>15, <2>2 DEF Quiet, x
  <2>4. Agreed(h["BIN"], f.rx, q, x, Option("WONT", "BIN"), sp)
    BY <1>1 DEF Binary, x
  <2> QED
    BY <1>8, <1>20, <2>3, <2>4, AgreedKept DEF x
<1>17. ~In(<<"DONT", "BIN">>, t \o r) /\ ~In(<<"WONT", "BIN">>, t \o r)
  <2> SUFFICES ASSUME NEW x, ~In(x, q), Quiet(x, t, t \o r)
               PROVE  ~In(x, t \o r)
    BY <1>1, <1>15 DEF Binary
  <2>1. Head(q) # x
    BY <1>1, InTail
  <2> QED
    BY <1>1, <2>1, InTail DEF Quiet
<1>18. Binary(g, t \o r, h, s.state, s2)
  BY <1>14, <1>16, <1>17 DEF Binary
<1>19. t \o r \in Seq(Reply)
  BY <1>2, <1>3, ConcatProperties
<1> HIDE DEF t
<1> QED
  BY <1>1, <1>5, <1>8, <1>12, <1>18, <1>19 DEF Talk, t, s2

\* The server reads the serial parameters.
LEMMA TalkConfigures ==
    ASSUME NEW f \in Filters, f.started, NEW q, NEW h, NEW u, NEW sp, NEW n,
           Talk(f, q, h, u, sp, n), q # <<>>, Head(q) = Configuration
    PROVE  Talk(f, Tail(q), h, u, sp, n + 1)
<1> DEFINE t == Tail(q)
<1>1. /\ q \in Seq(Reply) /\ h \in Sides /\ u \in Sides /\ Binary(f, q, h, u, sp)
      /\ Port(f, q, h, u, sp, n)
  BY DEF Talk
<1>2. t \in Seq(Reply)
  BY <1>1, HeadTailProperties
<1>3. \A a, b : <<a, b>> # Head(q)
  BY DEF Configuration
<1>4. \A a, b : Quiet(<<a, b>>, q, t)
  BY <1>1, <1>3, InTail
<1>5. Agreed(h["BIN"], f.rx, t, <<"DO", "BIN">>, Option("WONT", "BIN"), sp)
  BY <1>1, <1>4, AgreedKept DEF Binary
<1>6. Agreed(u["BIN"], f.tx, t, <<"WILL", "BIN">>, Option("DONT", "BIN"), sp)
  BY <1>1, <1>4, AgreedKept DEF Binary
<1>7. ~In(<<"DONT", "BIN">>, t) /\ ~In(<<"WONT", "BIN">>, t)
  BY <1>1, <1>4 DEF Binary, Quiet
<1>8. In(Configuration, q) /\ Once(Configuration, q)
  BY <1>1, InTail DEF Port
<1>9. ~In(Configuration, t) /\ Once(Configuration, t)
  BY <1>1, <1>8, InTail
<1>10. n = 0 /\ f.configured
  BY <1>1, <1>8 DEF Port
<1> HIDE DEF t
<1>11. Port(f, t, h, u, sp, n + 1)
  BY <1>1, <1>9, <1>10 DEF Port
<1> QED
  BY <1>1, <1>2, <1>5, <1>6, <1>7, <1>11 DEF Talk, Binary, t

-----------------------------------------------------------------------------
(* The invariant.  What the filter will have made of the bytes under way    *)
(* does not depend on where reads cut them; by then it has handed over all  *)
(* the panel sent, and the negotiation stands as Talk has it.               *)

Seen    == Feed(filter, wire)
Answers == out \o Seen.replies

WireTyped ==
    /\ filter \in Filters /\ wire \in Seq(Bytes) /\ serial \in Seq(Bytes)
    /\ meant \in Seq(Bytes) /\ out \in Seq(Reply)
    /\ open \in BOOLEAN /\ set \in 0 .. 1
Delivered  == open => Seen.f.at = "data" /\ serial \o Seen.serial = meant
Negotiated == open => Talk(Seen.f, Answers, him, us, spoken, set)
WireInv    == WireTyped /\ Delivered /\ Negotiated

LEMMA SeenTyped ==
    ASSUME WireTyped
    PROVE  Seen \in States /\ Answers \in Seq(Reply)
<1>1. Seen \in States
  BY FeedTyped DEF WireTyped, Seen
<1>2. Seen.replies \in Seq(Reply)
  BY <1>1 DEF States
<1>3. out \in Seq(Reply)
  BY DEF WireTyped
<1> QED
  BY <1>1, <1>2, <1>3, ConcatProperties DEF Answers

LEMMA Associative ==
    /\ \A a, b, c \in Seq(Bytes) : (a \o b) \o c = a \o (b \o c)
    /\ \A a, b, c \in Seq(Reply) : (a \o b) \o c = a \o (b \o c)
  BY ConcatAssociative

LEMMA TalkSets ==
    ASSUME NEW f, NEW q, NEW h, NEW u, NEW sp, NEW n, Talk(f, q, h, u, sp, n)
    PROVE  n \in 0 .. 1
  BY DEF Talk, Port

LEMMA FreshTyped == Fresh \in Filters /\ Fresh.at = "data" /\ ~Fresh.started
                       /\ Fresh.rx # "yes" /\ Fresh.tx # "yes" /\ ~Fresh.configured
<1>1. <<>> \in Seq(Bytes)
  OBVIOUS
<1> QED
  BY <1>1 DEF Fresh, Filters

\* A new session, with nothing under way
LEMMA Begins ==
    ASSUME filter = Fresh, wire = <<>>, serial = <<>>, meant = <<>>, out = <<>>,
           him = [o \in Options |-> "no"], us = him, open = TRUE, spoken = {}, set = 0
    PROVE  WireInv
<1>1. Seen = Still(Fresh)
  BY FreshTyped, FeedEmpty DEF Seen
<1>2. Seen.f = Fresh /\ Seen.serial = <<>> /\ Seen.replies = <<>>
  BY <1>1 DEF Still
<1>3. <<>> \in Seq(Bytes) /\ <<>> \in Seq(Reply)
  OBVIOUS
<1>4. Answers = <<>> /\ serial \o Seen.serial = <<>>
  BY <1>2, <1>3, ConcatEmptySeq DEF Answers
<1>5. WireTyped
  BY <1>3, FreshTyped DEF WireTyped
<1>6. Delivered
  BY <1>2, <1>4, FreshTyped DEF Delivered
<1>7. him \in Sides /\ us \in Sides /\ \A o \in Options : him[o] = "no" /\ us[o] = "no"
  BY DEF Sides
<1>8. Talk(Fresh, <<>>, him, us, spoken, set)
  BY <1>3, <1>7, FreshTyped DEF Talk
<1> QED
  BY <1>2, <1>4, <1>5, <1>6, <1>8 DEF WireInv, Negotiated

\* The read loop: any part of what has arrived
LEMMA ReadKeeps ==
    ASSUME WireInv, NEW n \in 1 .. Len(wire), Read(n)
    PROVE  WireInv'
<1> DEFINE c == SubSeq(wire, 1, n)
           d == SubSeq(wire, n + 1, Len(wire))
           r == Feed(filter, c)
           t == Feed(r.f, d)
<1>1. /\ filter \in Filters /\ wire \in Seq(Bytes) /\ serial \in Seq(Bytes)
      /\ meant \in Seq(Bytes) /\ out \in Seq(Reply) /\ open /\ set \in 0 .. 1
  BY DEF WireInv, WireTyped, Read
<1>2. c \in Seq(Bytes) /\ d \in Seq(Bytes)
  BY <1>1, SubSeqProperties
<1>3. c \o d = wire
  <2>1. Len(wire) \in Nat /\ n \in 1 .. Len(wire) /\ n \in Nat
    BY <1>1, LenProperties
  <2>2. c \o d = SubSeq(wire, 1, Len(wire))
    BY <1>1, <2>1, ConcatAdjacentSubSeq
  <2> QED
    BY <1>1, <2>2, SubSeqFull
<1>4. /\ filter' = r.f /\ wire' = d /\ serial' = serial \o r.serial /\ meant' = meant
      /\ out' = out \o r.replies /\ open' = open /\ him' = him /\ us' = us
      /\ spoken' = spoken /\ set' = set
  BY DEF Read, server
<1> HIDE DEF c, d
<1>5. r \in States /\ r.f \in Filters
  BY <1>1, <1>2, FeedTyped DEF States
<1>6. t \in States
  BY <1>2, <1>5, FeedTyped
<1>7. Seen = Extend(r, t)
  BY <1>1, <1>2, <1>3, FeedConcat DEF Seen
<1>8. Seen' = t
  BY <1>4 DEF Seen
<1> HIDE DEF r, t
<1>9. /\ r.serial \in Seq(Bytes) /\ t.serial \in Seq(Bytes)
      /\ r.replies \in Seq(Reply) /\ t.replies \in Seq(Reply)
  BY <1>5, <1>6 DEF States
<1>10. /\ Seen.f = t.f /\ Seen.serial = r.serial \o t.serial
       /\ Seen.replies = r.replies \o t.replies
  BY <1>7 DEF Extend
<1>11. serial' \in Seq(Bytes) /\ out' \in Seq(Reply)
  BY <1>1, <1>4, <1>9, ConcatProperties
<1>12. serial' \o t.serial = serial \o Seen.serial
  <2>1. (serial \o r.serial) \o t.serial = serial \o (r.serial \o t.serial)
    BY <1>1, <1>9, Associative, Zenon
  <2> QED
    BY <1>4, <1>10, <2>1, Zenon
<1>13. out' \o t.replies = out \o Seen.replies
  <2>1. (out \o r.replies) \o t.replies = out \o (r.replies \o t.replies)
    BY <1>1, <1>9, Associative, Zenon
  <2> QED
    BY <1>4, <1>10, <2>1, Zenon
<1>14. WireTyped'
  BY <1>1, <1>2, <1>4, <1>5, <1>11 DEF WireTyped
<1>15. Delivered'
  BY <1>1, <1>4, <1>8, <1>10, <1>12 DEF WireInv, Delivered
<1>16. Answers' = Answers
  BY <1>8, <1>13 DEF Answers
<1>17. Negotiated'
  BY <1>1, <1>4, <1>8, <1>10, <1>16 DEF WireInv, Negotiated
<1> QED
  BY <1>14, <1>15, <1>17 DEF WireInv

\* The server speaks: what the filter will make of it comes after what it will have
\* made of what is under way.
LEMMA Spoken ==
    ASSUME WireInv, open, NEW tok \in Seq(Bytes), NEW g \in Filters, NEW ser \in Seq(Bytes),
           NEW rep \in Seq(Reply),
           Feed(Seen.f, tok) = [f |-> g, serial |-> ser, replies |-> rep], g.at = "data",
           wire' = wire \o tok, UNCHANGED bridge, meant' = meant \o ser, out' \in Seq(Reply),
           Talk(g, (out' \o Seen.replies) \o rep, him', us', spoken', set')
    PROVE  WireInv'
<1>1. /\ filter \in Filters /\ wire \in Seq(Bytes) /\ serial \in Seq(Bytes)
      /\ meant \in Seq(Bytes)
  BY DEF WireInv, WireTyped
<1>2. Seen.f \in Filters /\ Seen.serial \in Seq(Bytes) /\ Seen.replies \in Seq(Reply)
  BY SeenTyped DEF WireInv, States
<1>3. filter' = filter /\ serial' = serial /\ open' = open
  BY DEF bridge
<1> DEFINE t == Feed(Seen.f, tok)
<1>4. Seen' = Extend(Seen, t)
  BY <1>1, <1>3, FeedConcat DEF Seen
<1> HIDE DEF t
<1>5. t.f = g /\ t.serial = ser /\ t.replies = rep
  BY DEF t
<1>6. Seen'.f = g /\ Seen'.serial = Seen.serial \o ser /\ Seen'.replies = Seen.replies \o rep
  BY <1>4, <1>5 DEF Extend
<1>7. serial' \o Seen'.serial = meant'
  <2>1. serial \o (Seen.serial \o ser) = (serial \o Seen.serial) \o ser
    BY <1>1, <1>2, Associative, Zenon
  <2>2. serial \o Seen.serial = meant
    BY DEF WireInv, Delivered
  <2> QED
    BY <1>3, <1>6, <2>1, <2>2, Zenon
<1>8. Answers' = (out' \o Seen.replies) \o rep
  <2>1. Answers' = out' \o (Seen.replies \o rep)
    BY <1>6 DEF Answers
  <2> QED
    BY <1>2, <2>1, Associative, Zenon
<1>9. WireTyped'
  BY <1>1, <1>3, TalkSets, ConcatProperties DEF WireTyped, WireInv
<1>10. Delivered' /\ Negotiated'
  BY <1>6, <1>7, <1>8 DEF Delivered, Negotiated
<1> QED
  BY <1>9, <1>10 DEF WireInv

LEMMA Standing ==
    ASSUME WireInv, open
    PROVE  /\ Seen.f \in Filters /\ Seen.f.at = "data" /\ serial \o Seen.serial = meant
           /\ Talk(Seen.f, out \o Seen.replies, him, us, spoken, set)
           /\ out \in Seq(Reply) /\ Seen.replies \in Seq(Reply) /\ meant \in Seq(Bytes)
           /\ wire \in Seq(Bytes)
  BY SeenTyped DEF WireInv, States, Delivered, Negotiated, Answers, WireTyped

\* What it says that is no part of the negotiation
LEMMA Remarked ==
    ASSUME WireInv, open, NEW tok \in Seq(Bytes), NEW ser \in Seq(Bytes),
           NEW g, Keeps(Seen.f, g), g.at = "data",
           Feed(Seen.f, tok) = [f |-> g, serial |-> ser, replies |-> Opening(Seen.f)],
           wire' = wire \o tok, meant' = meant \o ser,
           UNCHANGED <<bridge, out, him, us, spoken, set>>
    PROVE  WireInv'
<1>1. /\ Seen.f \in Filters /\ Talk(Seen.f, out \o Seen.replies, him, us, spoken, set)
      /\ out \in Seq(Reply)
  BY Standing
<1>2. Talk(g, (out \o Seen.replies) \o Opening(Seen.f), him, us, spoken, set)
  BY <1>1, TalkBegins
<1>3. g \in Filters /\ Opening(Seen.f) \in Seq(Reply)
  BY <1>1, FilterTyped DEF Keeps
<1> DEFINE rep == Opening(Seen.f)
<1>4. Talk(g, (out' \o Seen.replies) \o rep, him', us', spoken', set')
  BY <1>2
<1> HIDE DEF rep
<1> QED
  BY <1>1, <1>3, <1>4, Spoken DEF rep

LEMMA SendsKeeps ==
    ASSUME WireInv, NEW d \in Data, PeerSends(d)
    PROVE  WireInv'
<1>1. /\ Seen.f \in Filters /\ Seen.f.at = "data" /\ open /\ meant \in Seq(Bytes)
      /\ out \in Seq(Reply) /\ Seen.replies \in Seq(Reply)
      /\ Talk(Seen.f, out \o Seen.replies, him, us, spoken, set)
  BY Standing DEF PeerSends, Says, MaySend
<1>2. d \in Bytes /\ "IAC" \in Bytes
  BY BytesKnown
<1>3. meant' = meant \o <<d>>
  BY <1>1, <1>2, AppendIsConcat DEF PeerSends
<1>4. UNCHANGED <<bridge, out, him, us, spoken, set>>
  BY DEF PeerSends
<1>5. CASE d = "IAC"
  <2>1. wire' = wire \o <<"IAC", "IAC">>
    BY <1>5 DEF PeerSends, Says
  <2>2. PICK g : /\ Keeps(Seen.f, g) /\ g.at = "data"
                 /\ Feed(Seen.f, <<"IAC", "IAC">>) =
                       [f |-> g, serial |-> <<"IAC">>, replies |-> Opening(Seen.f)]
    BY <1>1, <1>2, PlainHeard DEF Commands
  <2>3. <<"IAC", "IAC">> \in Seq(Bytes) /\ <<"IAC">> \in Seq(Bytes)
    BY <1>2
  <2> QED
    BY <1>1, <1>3, <1>4, <1>5, <2>1, <2>2, <2>3, Remarked
<1>6. CASE d # "IAC"
  <2>1. wire' = wire \o <<d>>
    BY <1>6 DEF PeerSends, Says
  <2>2. Feed(Seen.f, <<d>>) = [f |-> Seen.f, serial |-> <<d>>, replies |-> <<>>]
    BY <1>1, <1>2, <1>6, DataHeard
  <2>3. <<d>> \in Seq(Bytes) /\ <<>> \in Seq(Reply)
    BY <1>2
  <2>4. (out \o Seen.replies) \o <<>> = out \o Seen.replies
    BY <1>1, ConcatProperties, ConcatEmptySeq
  <2>5. Talk(Seen.f, (out' \o Seen.replies) \o <<>>, him', us', spoken', set')
    BY <1>1, <1>4, <2>4
  <2>6. UNCHANGED bridge /\ out' \in Seq(Reply)
    BY <1>1, <1>4
  <2> QED
    BY <1>1, <1>3, <2>1, <2>2, <2>3, <2>5, <2>6, Spoken
<1> QED
  BY <1>5, <1>6

LEMMA NotifiesKeeps ==
    ASSUME WireInv, PeerNotifies
    PROVE  WireInv'
<1>1. Seen.f \in Filters /\ Seen.f.at = "data" /\ open /\ meant \in Seq(Bytes)
  BY Standing DEF PeerNotifies, Says, MaySend
<1>2. {"IAC", "SB", "SE", "NOP"} \subseteq Bytes /\ <<>> \in Seq(Bytes)
  BY BytesKnown
<1>3. UNCHANGED <<bridge, out, him, us, spoken, set>> /\ meant' = meant \o <<>>
  BY <1>1, ConcatEmptySeq DEF PeerNotifies
<1>4. CASE Says(<<"IAC", "NOP">>)
  <2>1. wire' = wire \o <<"IAC", "NOP">> /\ <<"IAC", "NOP">> \in Seq(Bytes)
    BY <1>2, <1>4 DEF Says
  <2>2. "NOP" \in Bytes /\ "NOP" \notin Commands /\ "NOP" # "SB" /\ "NOP" # "IAC"
    BY <1>2 DEF Commands
  <2>3. PICK g : /\ Keeps(Seen.f, g) /\ g.at = "data"
                 /\ Feed(Seen.f, <<"IAC", "NOP">>) =
                       [f |-> g, serial |-> <<>>, replies |-> Opening(Seen.f)]
    BY <1>1, <2>2, PlainHeard
  <2> QED
    BY <1>1, <1>2, <1>3, <2>1, <2>3, Remarked
<1>5. ASSUME NEW p \in Payloads, Says(<<"IAC", "SB">> \o p \o <<"IAC", "SE">>)
      PROVE  WireInv'
  <2> DEFINE tok == <<"IAC", "SB">> \o p \o <<"IAC", "SE">>
  <2>1. wire' = wire \o tok
    BY <1>5 DEF Says
  <2>2. tok \in Seq(Bytes)
    <3>1. <<"IAC", "SB">> \in Seq(Bytes) /\ <<"IAC", "SE">> \in Seq(Bytes) /\ p \in Seq(Bytes)
      BY <1>2, BytesKnown
    <3> QED
      BY <3>1, ConcatProperties
  <2>3. PICK g : /\ Keeps(Seen.f, g) /\ g.at = "data"
                 /\ Feed(Seen.f, tok) = [f |-> g, serial |-> <<>>, replies |-> Opening(Seen.f)]
    BY <1>1, SubnegotiationHeard
  <2> HIDE DEF tok
  <2> QED
    BY <1>1, <1>2, <1>3, <2>1, <2>2, <2>3, Remarked
<1> QED
  BY <1>4, <1>5 DEF PeerNotifies

\* An offer or a refusal: the first IAC, and the answer
LEMMA OptionSpoken ==
    ASSUME WireInv, open, NEW c \in Commands, NEW o \in Options, wire' = wire \o Option(c, o),
           spoken' = spoken \cup {Option(c, o)}, UNCHANGED <<bridge, out, meant, set>>,
           \A f, g, q : /\ f \in Filters /\ f.started
                        /\ Talk(f, q, him, us, spoken, set) /\ Agreement(f, g, c, o)
                        => Talk(g, q \o Answer(f, c, o), him', us', spoken', set)
    PROVE  WireInv'
<1>1. /\ Seen.f \in Filters /\ Seen.f.at = "data" /\ open /\ meant \in Seq(Bytes)
      /\ out \in Seq(Reply) /\ Seen.replies \in Seq(Reply)
      /\ Talk(Seen.f, out \o Seen.replies, him, us, spoken, set)
  BY Standing
<1>2. o \in Bytes /\ c \in Bytes /\ "IAC" \in Bytes
  BY BytesKnown
<1>3. PICK g : /\ Agreement(Seen.f, g, c, o)
               /\ Feed(Seen.f, Option(c, o)) =
                     [f |-> g, serial |-> <<>>,
                      replies |-> Opening(Seen.f) \o Answer(Seen.f, c, o)]
  BY <1>1, <1>2, OptionHeard
<1> DEFINE f1 == Started(Seen.f)
           q  == out \o Seen.replies
           op == Opening(Seen.f)
           a  == Answer(Seen.f, c, o)
<1>4. f1 \in Filters /\ f1.started /\ op \in Seq(Reply) /\ a \in Seq(Reply)
  BY <1>1, <1>2, FilterTyped, ReplyTyped
<1>5. f1.tx = Seen.f.tx /\ f1.rx = Seen.f.rx /\ f1.configured = Seen.f.configured
  BY <1>1 DEF Started, Filters
<1>6. Keeps(Seen.f, f1)
  BY <1>4, <1>5 DEF Keeps
<1>7. Talk(f1, q \o op, him, us, spoken, set)
  BY <1>1, <1>6, TalkBegins
<1>8. Agreement(f1, g, c, o)
  BY <1>3, <1>5 DEF Agreement
<1>9. Answer(f1, c, o) = a
  BY <1>5 DEF Answer, Parameters
<1>10. q \in Seq(Reply)
  BY <1>1, ConcatProperties
<1> HIDE DEF f1, q, op, a
<1>11. Talk(g, (q \o op) \o a, him', us', spoken', set)
  BY <1>4, <1>7, <1>8, <1>9
<1>12. (q \o op) \o a = q \o (op \o a) /\ op \o a \in Seq(Reply)
  BY <1>4, <1>10, Associative, ConcatProperties
<1>13. out' = out /\ set' = set /\ meant' = meant \o <<>> /\ UNCHANGED bridge
  BY <1>1, ConcatEmptySeq
<1>14. Option(c, o) \in Seq(Bytes) /\ <<>> \in Seq(Bytes)
  BY <1>2 DEF Option
<1>15. Talk(g, (out' \o Seen.replies) \o (op \o a), him', us', spoken', set')
  BY <1>11, <1>12, <1>13 DEF q
<1>16. g \in Filters /\ g.at = "data" /\ out' \in Seq(Reply)
  BY <1>1, <1>3, <1>13 DEF Agreement
<1>17. Feed(Seen.f, Option(c, o)) = [f |-> g, serial |-> <<>>, replies |-> op \o a]
  BY <1>3 DEF op, a
<1> QED
  BY <1>1, <1>12, <1>13, <1>14, <1>15, <1>16, <1>17, Spoken

LEMMA OffersKeeps ==
    ASSUME WireInv, NEW c \in {"WILL", "DO"}, NEW o \in Options, PeerOffers(c, o)
    PROVE  WireInv'
<1>1. /\ open /\ wire' = wire \o Option(c, o) /\ UNCHANGED <<bridge, out, meant, set>>
      /\ spoken' = spoken \cup {Option(c, o)}
      /\ \/ /\ c = "WILL" /\ o \in Performs /\ him[o] = "no"
            /\ him' = [him EXCEPT ![o] = "asked"] /\ us' = us
         \/ /\ c = "DO" /\ o \in Accepts /\ us[o] = "no"
            /\ us' = [us EXCEPT ![o] = "asked"] /\ him' = him
  BY DEF PeerOffers, SaysOption, Says, MaySend
<1>2. c \in Commands
  BY DEF Commands
<1>3. ASSUME NEW f, NEW g, NEW q, f \in Filters, f.started,
             Talk(f, q, him, us, spoken, set), Agreement(f, g, c, o)
      PROVE  Talk(g, q \o Answer(f, c, o), him', us', spoken', set)
  BY <1>1, <1>2, <1>3, TalkOffer
<1> QED
  BY <1>1, <1>2, <1>3, OptionSpoken

LEMMA WithdrawsKeeps ==
    ASSUME WireInv, NEW c \in {"WONT", "DONT"}, NEW o \in Options, PeerWithdraws(c, o)
    PROVE  WireInv'
<1>1. /\ open /\ wire' = wire \o Option(c, o) /\ UNCHANGED <<bridge, out, meant, set>>
      /\ spoken' = spoken \cup {Option(c, o)}
      /\ \/ /\ c = "WONT" /\ him[o] = "yes" /\ him' = [him EXCEPT ![o] = "no"] /\ us' = us
         \/ /\ c = "DONT" /\ us[o] = "yes" /\ us' = [us EXCEPT ![o] = "no"] /\ him' = him
  BY DEF PeerWithdraws, SaysOption, Says, MaySend
<1>2. c \in Commands
  BY DEF Commands
<1>3. ASSUME NEW f, NEW g, NEW q, f \in Filters, f.started,
             Talk(f, q, him, us, spoken, set), Agreement(f, g, c, o)
      PROVE  Talk(g, q \o Answer(f, c, o), him', us', spoken', set)
  BY <1>1, <1>2, <1>3, TalkWithdraw
<1> QED
  BY <1>1, <1>2, <1>3, OptionSpoken

\* What it says, if anything, and what the filter will make of that
HeardAs(s, o, yes, no, f, g, r) ==
    \/ s.says = <<>> /\ g = f /\ r = <<>>
    \/ \E a \in {yes, no} : s.says = Option(a, o) /\ Agreement(f, g, a, o) /\ r = Answer(f, a, o)

LEMMA ReadSpoken ==
    ASSUME WireInv, open, NEW c, NEW o \in Bytes, NEW s, NEW a1 \in Commands, NEW a2 \in Commands,
           s.says \in {<<>>, Option(a1, o), Option(a2, o)}, wire' = wire \o s.says,
           UNCHANGED <<bridge, meant>>, out' \in Seq(Reply), Seen.f.started,
           \A g, r : HeardAs(s, o, a1, a2, Seen.f, g, r) =>
                        Talk(g, (out' \o Seen.replies) \o r, him', us', spoken', set')
    PROVE  WireInv'
<1>1. Seen.f \in Filters /\ Seen.f.at = "data" /\ meant \in Seq(Bytes)
  BY Standing
<1>2. meant' = meant \o <<>> /\ <<>> \in Seq(Bytes) /\ <<>> \in Seq(Reply)
  BY <1>1, ConcatEmptySeq
<1>3. CASE s.says = <<>>
  <2>1. Feed(Seen.f, <<>>) = [f |-> Seen.f, serial |-> <<>>, replies |-> <<>>]
    BY <1>1, FeedEmpty DEF Still
  <2>2. Talk(Seen.f, (out' \o Seen.replies) \o <<>>, him', us', spoken', set')
    BY <1>3 DEF HeardAs
  <2>3. wire' = wire \o <<>>
    BY <1>3
  <2> QED
    BY <1>1, <1>2, <2>1, <2>2, <2>3, Spoken
<1>4. ASSUME NEW a \in {a1, a2}, s.says = Option(a, o)
      PROVE  WireInv'
  <2>1. a \in Commands
    OBVIOUS
  <2>2. PICK g : /\ Agreement(Seen.f, g, a, o)
                 /\ Feed(Seen.f, Option(a, o)) =
                       [f |-> g, serial |-> <<>>,
                        replies |-> Opening(Seen.f) \o Answer(Seen.f, a, o)]
    BY <1>1, <2>1, OptionHeard
  <2> DEFINE r == Answer(Seen.f, a, o)
             tok == Option(a, o)
  <2>3. r \in Seq(Reply)
    BY ReplyTyped
  <2>4. Opening(Seen.f) \o r = r
    BY <2>3, ConcatEmptySeq DEF Opening
  <2>5. Talk(g, (out' \o Seen.replies) \o r, him', us', spoken', set')
    BY <1>4, <2>2 DEF HeardAs
  <2>6. tok \in Seq(Bytes)
    BY <2>1, BytesKnown DEF Option
  <2> HIDE DEF r, tok
  <2>7. Feed(Seen.f, tok) = [f |-> g, serial |-> <<>>, replies |-> r]
    BY <2>2, <2>4 DEF r, tok
  <2>8. wire' = wire \o tok
    BY <1>4 DEF tok
  <2>9. g \in Filters /\ g.at = "data"
    BY <2>2 DEF Agreement
  <2> QED
    BY <1>1, <1>2, <2>3, <2>5, <2>6, <2>7, <2>8, <2>9, Spoken
<1> QED
  BY <1>3, <1>4

LEMMA PeerReadsKeeps ==
    ASSUME WireInv, PeerReads
    PROVE  WireInv'
<1> DEFINE c == Head(out)
           q == out \o Seen.replies
<1>1. /\ open /\ Seen.f \in Filters /\ Seen.f.at = "data" /\ meant \in Seq(Bytes)
      /\ wire \in Seq(Bytes) /\ out \in Seq(Reply) /\ Seen.replies \in Seq(Reply)
      /\ Talk(Seen.f, q, him, us, spoken, set)
  BY Standing DEF PeerReads, MaySend
<1>2. out # <<>> /\ out' = Tail(out) /\ UNCHANGED <<bridge, meant, said>>
  BY DEF PeerReads
<1>3. /\ q # <<>> /\ Head(q) = c /\ Tail(q) = Tail(out) \o Seen.replies
      /\ Tail(out) \in Seq(Reply) /\ c \in Reply
  BY <1>1, <1>2, ConcatProperties, HeadTailProperties
<1>4. Seen.f.started
  BY <1>1, <1>3 DEF Talk
<1>5. him \in Sides /\ us \in Sides
  BY <1>1 DEF Talk
<1> HIDE DEF q
<1>6. CASE c = Configuration /\ set' = set + 1 /\ UNCHANGED <<wire, him, us, spoken>>
  <2>1. Talk(Seen.f, Tail(q), him, us, spoken, set + 1)
    BY <1>1, <1>3, <1>4, <1>6, TalkConfigures
  <2>2. Tail(q) \o <<>> = Tail(q) /\ <<>> \in Seq(Reply) /\ <<>> \in Seq(Bytes)
    BY <1>1, <1>3, ConcatProperties, ConcatEmptySeq
  <2>3. Talk(Seen.f, (out' \o Seen.replies) \o <<>>, him', us', spoken', set')
    BY <1>2, <1>3, <1>6, <2>1, <2>2
  <2>4. Feed(Seen.f, <<>>) = [f |-> Seen.f, serial |-> <<>>, replies |-> <<>>]
    BY <1>1, FeedEmpty DEF Still
  <2>5. wire' = wire \o <<>> /\ meant' = meant \o <<>>
    BY <1>1, <1>2, <1>6, ConcatEmptySeq
  <2>6. out' \in Seq(Reply) /\ UNCHANGED bridge
    BY <1>2, <1>3
  <2> QED
    BY <1>1, <2>2, <2>3, <2>4, <2>5, <2>6, Spoken
<1>7. ASSUME c[1] # "CONFIG"
      PROVE  c = <<c[1], c[2]>> /\ c[2] \in Bytes
  BY <1>3, <1>7 DEF Reply, Configuration
<1>8. /\ "WILL" \in Commands /\ "WONT" \in Commands /\ "DO" \in Commands /\ "DONT" \in Commands
  BY DEF Commands
<1>9. ASSUME c[1] \in {"DO", "DONT"}, UNCHANGED <<us, set>>,
             NEW granted \in Grants(c[2], c[1] = "DO", Performs),
             him' = Settle(him, c[2], c[1] = "DO", granted, "WILL", "WONT").state,
             wire' = wire \o Settle(him, c[2], c[1] = "DO", granted, "WILL", "WONT").says,
             spoken' = Saying(spoken, Settle(him, c[2], c[1] = "DO", granted, "WILL", "WONT"))
      PROVE  WireInv'
  <2> DEFINE s == Settle(him, c[2], c[1] = "DO", granted, "WILL", "WONT")
             o == c[2]
             k == c[1]
  <2>1. him' = s.state /\ wire' = wire \o s.says /\ spoken' = Saying(spoken, s)
    BY <1>9 
  <2>2. c = <<k, o>> /\ o \in Bytes /\ (k = "DO" \/ k = "DONT")
    BY <1>7, <1>9
  <2>3. s \in Responses(him, o, k, "DO", Performs, "WILL", "WONT")
    BY DEF Responses
  <2> HIDE DEF s, o, k, c
  <2>4. s.says \in {<<>>, Option("WILL", o), Option("WONT", o)}
    BY <1>5, <2>2, <2>3, ResponseFacts
  <2>5. ASSUME NEW g, NEW r, HeardAs(s, o, "WILL", "WONT", Seen.f, g, r)
        PROVE  Talk(g, (out' \o Seen.replies) \o r, him', us', spoken', set')
    <3>1. Talk(g, Tail(q) \o r, s.state, us, Saying(spoken, s), set)
      BY <1>1, <1>3, <1>4, <2>2, <2>3, <2>5, TalkReadsDo DEF HeardAs
    <3> QED
      BY <1>2, <1>3, <1>9, <2>1, <3>1
  <2>6. out' \in Seq(Reply) /\ UNCHANGED <<bridge, meant>>
    BY <1>2, <1>3
  <2> QED
    BY <1>1, <1>4, <1>8, <2>1, <2>2, <2>4, <2>5, <2>6, ReadSpoken
<1>10. ASSUME c[1] \in {"WILL", "WONT"}, UNCHANGED <<him, set>>,
              NEW granted \in Grants(c[2], c[1] = "WILL", Accepts),
              us' = Settle(us, c[2], c[1] = "WILL", granted, "DO", "DONT").state,
              wire' = wire \o Settle(us, c[2], c[1] = "WILL", granted, "DO", "DONT").says,
              spoken' = Saying(spoken, Settle(us, c[2], c[1] = "WILL", granted, "DO", "DONT"))
       PROVE  WireInv'
  <2> DEFINE s == Settle(us, c[2], c[1] = "WILL", granted, "DO", "DONT")
             o == c[2]
             k == c[1]
  <2>1. us' = s.state /\ wire' = wire \o s.says /\ spoken' = Saying(spoken, s)
    BY <1>10 
  <2>2. c = <<k, o>> /\ o \in Bytes /\ (k = "WILL" \/ k = "WONT")
    BY <1>7, <1>10
  <2>3. s \in Responses(us, o, k, "WILL", Accepts, "DO", "DONT")
    BY DEF Responses
  <2> HIDE DEF s, o, k, c
  <2>4. s.says \in {<<>>, Option("DO", o), Option("DONT", o)}
    BY <1>5, <2>2, <2>3, ResponseFacts
  <2>5. ASSUME NEW g, NEW r, HeardAs(s, o, "DO", "DONT", Seen.f, g, r)
        PROVE  Talk(g, (out' \o Seen.replies) \o r, him', us', spoken', set')
    <3>1. Talk(g, Tail(q) \o r, him, s.state, Saying(spoken, s), set)
      BY <1>1, <1>3, <1>4, <2>2, <2>3, <2>5, TalkReadsWill DEF HeardAs
    <3> QED
      BY <1>2, <1>3, <1>10, <2>1, <3>1
  <2>6. out' \in Seq(Reply) /\ UNCHANGED <<bridge, meant>>
    BY <1>2, <1>3
  <2> QED
    BY <1>1, <1>4, <1>8, <2>1, <2>2, <2>4, <2>5, <2>6, ReadSpoken
<1> QED
  BY <1>6, <1>9, <1>10 DEF PeerReads, Saying

\* The session ends, or begins anew.
LEMMA SessionKeeps ==
    ASSUME WireInv, Idle \/ EndOfStream \/ Reset \/ Reconnect \/ UNCHANGED vars
    PROVE  WireInv'
<1>1. CASE Idle \/ UNCHANGED vars
  <2>1. /\ filter' = filter /\ serial' = serial /\ open' = open /\ wire' = wire /\ out' = out
        /\ meant' = meant /\ him' = him /\ us' = us /\ spoken' = spoken /\ set' = set
    BY <1>1 DEF Idle, server, vars, bridge
  <2>2. Seen' = Seen /\ Answers' = Answers
    BY <2>1 DEF Seen, Answers
  <2> QED
    BY <2>1, <2>2 DEF WireInv, WireTyped, Delivered, Negotiated
<1>2. CASE EndOfStream \/ Reset
  <2>1. /\ filter' = filter /\ serial' = serial /\ ~open' /\ open' \in BOOLEAN
        /\ meant' = meant /\ set' = set /\ wire' \in {wire, <<>>} /\ out' \in {out, <<>>}
    BY <1>2 DEF EndOfStream, Reset, server
  <2>2. <<>> \in Seq(Bytes) /\ <<>> \in Seq(Reply)
    OBVIOUS
  <2> QED
    BY <2>1, <2>2 DEF WireInv, WireTyped, Delivered, Negotiated
<1>3. CASE Reconnect
  <2>1. /\ filter' = Fresh /\ wire' = <<>> /\ serial' = <<>> /\ meant' = <<>> /\ out' = <<>>
        /\ him' = [o \in Options |-> "no"] /\ us' = him' /\ open' = TRUE /\ spoken' = {}
        /\ set' = 0
    BY <1>3 DEF Reconnect
  <2>2. Seen' = Still(Fresh)
    BY <2>1, FreshTyped, FeedEmpty DEF Seen
  <2>3. Seen'.f = Fresh /\ Seen'.serial = <<>> /\ Seen'.replies = <<>>
    BY <2>2 DEF Still
  <2>4. <<>> \in Seq(Bytes) /\ <<>> \in Seq(Reply)
    OBVIOUS
  <2>5. Answers' = <<>> /\ serial' \o Seen'.serial = <<>>
    BY <2>1, <2>3, <2>4, ConcatEmptySeq DEF Answers
  <2>6. WireTyped'
    BY <2>1, <2>4, FreshTyped DEF WireTyped
  <2>7. Delivered'
    BY <2>1, <2>3, <2>5, FreshTyped DEF Delivered
  <2>8. Talk(Fresh, <<>>, him', us', spoken', set')
    BY <2>1, <2>4, FreshTyped DEF Talk, Sides
  <2> QED
    BY <2>3, <2>5, <2>6, <2>7, <2>8 DEF WireInv, Negotiated
<1> QED
  BY <1>1, <1>2, <1>3

LEMMA WireInvKept == WireInv /\ [Next]_vars => WireInv'
  BY ReadKeeps, SessionKeeps, PeerReadsKeeps, OffersKeeps, WithdrawsKeeps, NotifiesKeeps,
     SendsKeeps DEF Next

\* What was sent is what the framer will have got when all that is under way is read, and
\* by then the filter's state and the server's options fit each other as Talk has it
\* (TelnetSerialFilter.feed, _reply_to_negotiation), with the types of the state.
THEOREM WireInvariant == Spec => []WireInv
<1>1. Init => WireInv
  BY Begins DEF Init
<1> QED
  BY <1>1, WireInvKept, PTL DEF Spec

\* The bytes that reach the framer are the bytes of the panel (SerialIsWhatWasSent): what
\* was handed over and what the filter will hand over of the bytes under way are, one
\* after the other, what the panel sent.
THEOREM SerialIsSent == Spec => []SerialIsWhatWasSent
<1>1. WireInv => SerialIsWhatWasSent
  <2> SUFFICES ASSUME WireInv, open
               PROVE  /\ IsPrefix(serial, meant)
                      /\ wire = <<>> => serial = meant /\ filter.at = "data"
    BY DEF SerialIsWhatWasSent
  <2>1. serial \in Seq(Bytes) /\ filter \in Filters
    BY DEF WireInv, WireTyped
  <2>2. Seen.serial \in Seq(Bytes) /\ serial \o Seen.serial = meant /\ Seen.f.at = "data"
    BY SeenTyped DEF WireInv, States, Delivered
  <2>3. IsPrefix(serial, meant)
    <3> DEFINE t == Seen.serial
    <3> HIDE DEF t
    <3>1. t \in Seq(Bytes) /\ meant = serial \o t
      BY <2>2 DEF t
    <3>2. Len(serial) \in Nat /\ Len(t) \in Nat /\ Len(meant) = Len(serial) + Len(t)
      BY <2>1, <3>1, ConcatProperties, LenProperties
    <3>3. \A i \in 1 .. Len(serial) : meant[i] = serial[i]
      BY <2>1, <3>1, ConcatProperties
    <3>4. SubSeq(serial, 1, Len(serial)) = SubSeq(meant, 1, Len(serial))
      BY <3>2, <3>3
    <3> QED
      BY <3>2, <3>4 DEF IsPrefix
  <2>4. ASSUME wire = <<>>
        PROVE  serial = meant /\ filter.at = "data"
    <3>1. Seen = Still(filter)
      BY <2>1, <2>4, FeedEmpty DEF Seen
    <3>2. Seen.serial = <<>> /\ Seen.f = filter
      BY <3>1 DEF Still
    <3> QED
      BY <2>1, <2>2, <3>2, ConcatEmptySeq
  <2> QED
    BY <2>3, <2>4
<1> QED
  BY <1>1, WireInvariant, PTL

\* What the bridge believes of the options is what the server has said of them, and the
\* serial parameters are given once, and only when the server has said that the port
\* option may be used (BeliefIsTrue): what the filter will believe when it has heard
\* everything and what the server will have settled when its requests are answered fit
\* each other, but for an offer of binary mode that the server makes after refusing it.
THEOREM BeliefHolds == Spec => []BeliefIsTrue
<1>1. WireInv => BeliefIsTrue
  <2> SUFFICES ASSUME WireInv PROVE BeliefIsTrue
    OBVIOUS
  <2>1. set <= 1 /\ set \in 0 .. 1 /\ filter \in Filters /\ wire \in Seq(Bytes)
    BY DEF WireInv, WireTyped
  <2>2. ASSUME open, set = 1 \/ filter.configured
        PROVE  PortGranted
    <3>1. filter.configured => Seen.f.configured
      BY <2>1, FeedConfigured DEF Seen
    <3>2. Talk(Seen.f, Answers, him, us, spoken, set)
      BY <2>2 DEF WireInv, Negotiated
    <3>3. Seen.f.started
      BY <2>2, <3>1, <3>2 DEF Talk
    <3>4. Port(Seen.f, Answers, him, us, spoken, set)
      BY <3>2, <3>3 DEF Talk
    <3> QED
      BY <2>2, <3>1, <3>4 DEF Port, Granted, PortGranted
  <2>3. ASSUME open, wire = <<>>, out = <<>>, filter.started
        PROVE  /\ ("yes" \in {him["COM"], us["COM"]}) => set = 1
               /\ filter.rx = "yes" <=> him["BIN"] # "no"
               /\ him["BIN"] = "asked" => Option("WONT", "BIN") \in spoken
               /\ filter.tx = "yes" <=> us["BIN"] # "no"
               /\ us["BIN"] = "asked" => Option("DONT", "BIN") \in spoken
    <3>1. Seen = Still(filter)
      BY <2>1, <2>3, FeedEmpty DEF Seen
    <3>2. Seen.replies = <<>> /\ Seen.f = filter /\ Answers = <<>>
      BY <2>3, <3>1, ConcatEmptySeq DEF Still, Answers
    <3>3. Binary(filter, <<>>, him, us, spoken) /\ Port(filter, <<>>, him, us, spoken, set)
      BY <2>3, <3>2 DEF WireInv, Negotiated, Talk
    <3>4. \A x : ~In(x, <<>>)
      BY InShort
    <3>5. /\ filter.rx = "yes" <=> him["BIN"] # "no"
          /\ him["BIN"] = "asked" => Option("WONT", "BIN") \in spoken
      BY <3>3, <3>4 DEF Binary, Agreed
    <3>6. /\ filter.tx = "yes" <=> us["BIN"] # "no"
          /\ us["BIN"] = "asked" => Option("DONT", "BIN") \in spoken
      BY <3>3, <3>4 DEF Binary, Agreed
    <3>7. /\ filter.configured <=> set = 1
          /\ him["COM"] # "no" \/ us["COM"] # "no" => filter.configured
      BY <3>3, <3>4 DEF Port
    <3> QED
      BY <3>5, <3>6, <3>7
  <2> QED
    BY <2>1, <2>2, <2>3 DEF BeliefIsTrue
<1> QED
  BY <1>1, WireInvariant, PTL

-----------------------------------------------------------------------------
(* The framer.  A stream and the positions where it breaks determine the    *)
(* frames; the framer is followed byte by byte.                             *)

LEMMA MaxExists ==
    ASSUME NEW n \in Nat, NEW S, S \subseteq 0 .. n, S # {}
    PROVE  Max(S) \in S /\ \A x \in S : x <= Max(S)
<1> DEFINE Bounds == {u \in 0 .. n : \A x \in S : x <= u}
           R == OpToRel(<, Nat)
<1>1. n \in Bounds /\ Bounds \subseteq Nat
  OBVIOUS
<1>2. PICK u \in Bounds : \A v \in Bounds : ~(<<v, u>> \in R)
  <2>1. IsWellFoundedOn(R, Nat)
    BY NatLessThanWellFounded
  <2>2. Bounds # {}
    BY <1>1
  <2> HIDE DEF R, Bounds
  <2> QED
    BY <1>1, <2>1, <2>2, WFMin
<1>3. u \in 0 .. n /\ u \in Nat /\ \A x \in S : x <= u
  BY <1>1, <1>2
<1>4. u \in S
  <2> SUFFICES ASSUME u \notin S PROVE FALSE
    OBVIOUS
  <2>1. ASSUME NEW x \in S
        PROVE  x \in Nat /\ x < u
    <3>1. x \in Nat /\ x <= u /\ x # u
      BY <1>3
    <3> QED
      BY <1>3, <3>1
  <2>2. u # 0
    <3>1. PICK y \in S : TRUE
      OBVIOUS
    <3> QED
      BY <2>1, <3>1
  <2>3. u - 1 \in 0 .. n /\ u - 1 \in Nat /\ u - 1 < u
    BY <1>3, <2>2
  <2>4. \A x \in S : x <= u - 1
    BY <1>3, <2>1
  <2>5. u - 1 \in Bounds
    BY <2>3, <2>4
  <2>6. <<u - 1, u>> \in R
    BY <1>3, <2>3 DEF OpToRel
  <2> QED
    BY <1>2, <2>5, <2>6
<1>5. \E x \in S : \A y \in S : x >= y
  BY <1>3, <1>4
<1>6. Max(S) \in S /\ \A y \in S : Max(S) >= y
  <2> DEFINE m == CHOOSE x \in S : \A y \in S : x >= y
  <2>1. m \in S /\ \A y \in S : m >= y
    BY <1>5
  <2>2. Max(S) = m
    BY DEF Max
  <2> QED
    BY <2>1, <2>2
<1> QED
  BY <1>6

LineFeeds(s)      == {i \in 1 .. Len(s) : s[i] = "LF"}
Prior(B, e)       == Max({0} \cup {b \in B : b < e})
RecordOf(s, B, e) == SubSeq(s, Prior(B, e) + 1, IF s[e] = "LF" THEN e - 1 ELSE e)
LineOf(s, B, e)   == IF s[e] = "LF" /\ RecordOf(s, B, e) # <<>> /\ Last(RecordOf(s, B, e)) = "CR"
                     THEN Front(RecordOf(s, B, e)) ELSE RecordOf(s, B, e)
EndsOf(s, B)      == {e \in B : LineOf(s, B, e) # <<>>}
Rank(E, e)        == Cardinality({d \in E : d <= e})

Endings == {"lf", "crlf", "idle", "overflow"}
Framing == [data : Seq(Bytes), termination : Endings]
Cut(s, B, fs) ==
    /\ fs \in Seq(Framing) /\ Len(fs) = Cardinality(EndsOf(s, B))
    /\ \A e \in EndsOf(s, B) : fs[Rank(EndsOf(s, B), e)].data = LineOf(s, B, e)
Framed(s, B, fs, rest) ==
    /\ s \in Seq(Bytes) /\ B \subseteq 1 .. Len(s)
    /\ Cut(s, B, fs)
    /\ rest = SubSeq(s, Prior(B, Len(s) + 1) + 1, Len(s))

LEMMA PriorTyped ==
    ASSUME NEW n \in Nat, NEW B, B \subseteq 1 .. n, NEW e \in 1 .. n + 1
    PROVE  /\ Prior(B, e) \in 0 .. e - 1 /\ (Prior(B, e) # 0 => Prior(B, e) \in B)
           /\ \A b \in B : b < e => b <= Prior(B, e)
<1> DEFINE S == {0} \cup {b \in B : b < e}
<1>1. S \subseteq 0 .. n /\ S # {} /\ S \subseteq 0 .. e - 1
  <2>1. \A b \in B : b \in Nat /\ b <= n
    OBVIOUS
  <2>2. e \in Nat /\ 0 \in 0 .. n /\ 0 \in 0 .. e - 1
    OBVIOUS
  <2>3. \A b \in B : b < e => b \in 0 .. e - 1
    BY <2>1, <2>2
  <2>4. \A b \in B : b \in 0 .. n
    BY <2>1
  <2>5. \A x \in S : x \in 0 .. n /\ x \in 0 .. e - 1
    BY <2>2, <2>3, <2>4
  <2>6. 0 \in S
    OBVIOUS
  <2> HIDE DEF S
  <2> QED
    BY <2>5, <2>6
<1>2. \A x \in S : x = 0 \/ x \in B
  OBVIOUS
<1>3. \A b \in B : b < e => b \in S
  OBVIOUS
<1> HIDE DEF S
<1>4. Max(S) \in S /\ \A x \in S : x <= Max(S)
  BY <1>1, MaxExists
<1>5. Prior(B, e) = Max(S)
  BY DEF Prior, S
<1> QED
  BY <1>1, <1>2, <1>3, <1>4, <1>5

LEMMA PriorLast ==
    ASSUME NEW n \in Nat, NEW B, B \subseteq 1 .. n, n \in B
    PROVE  Prior(B, n + 1) = n
<1>1. n + 1 \in 1 .. n + 1 /\ n < n + 1
  OBVIOUS
<1>2. Prior(B, n + 1) \in 0 .. (n + 1) - 1 /\ n <= Prior(B, n + 1)
  BY <1>1, PriorTyped
<1> QED
  BY <1>2

LEMMA PriorSame ==
    ASSUME NEW B, NEW C, NEW e, {b \in B : b < e} = {b \in C : b < e}
    PROVE  Prior(B, e) = Prior(C, e)
  BY DEF Prior

\* One frame more, for a position after all the others
After(E, n, m)  == n \in Nat /\ E \subseteq 1 .. n /\ m \in 1 .. n /\ \A e \in E : e < m
Longer(E, D, m) ==
    /\ Cardinality(E) \in Nat /\ Cardinality(D) = Cardinality(E) + 1
    /\ Rank(D, m) = Cardinality(E) + 1
    /\ \A e \in E : Rank(D, e) = Rank(E, e) /\ Rank(E, e) \in 1 .. Cardinality(E)

LEMMA FrameAdded ==
    ASSUME NEW E, NEW n, NEW m, After(E, n, m)
    PROVE  Longer(E, E \cup {m}, m)
<1> USE DEF After
<1>1. IsFiniteSet(E)
  <2>1. IsFiniteSet(1 .. n)
    BY FS_Interval
  <2> QED
    BY <2>1, FS_Subset
<1>2. Cardinality(E) \in Nat
  BY <1>1, FS_CardinalityType
<1>3. m \notin E
  <2>1. ~(m < m)
    OBVIOUS
  <2> QED
    BY <2>1
<1>4. Cardinality(E \cup {m}) = Cardinality(E) + 1
  BY <1>1, <1>3, FS_AddElement
<1>5. Rank(E \cup {m}, m) = Cardinality(E \cup {m})
  <2>0. {d \in E \cup {m} : d <= m} = E \cup {m}
    <3>1. \A d \in E \cup {m} : d <= m
      OBVIOUS
    <3> QED
      BY <3>1, Zenon
  <2> QED
    BY <2>0 DEF Rank
<1>6. ASSUME NEW e \in E
      PROVE  Rank(E \cup {m}, e) = Rank(E, e) /\ Rank(E, e) \in 1 .. Cardinality(E)
  <2> DEFINE D == {d \in E : d <= e}
  <2>1. {d \in E \cup {m} : d <= e} = D
    OBVIOUS
  <2>2. D \in SUBSET E /\ e \in D /\ D # {}
    OBVIOUS
  <2> HIDE DEF D
  <2>3. IsFiniteSet(D) /\ Cardinality(D) <= Cardinality(E)
    BY <1>1, <2>2, FS_Subset
  <2>4. Cardinality(D) \in Nat /\ Cardinality(D) # 0
    BY <2>2, <2>3, FS_CardinalityType, FS_EmptySet
  <2>5. Rank(E \cup {m}, e) = Cardinality(D) /\ Rank(E, e) = Cardinality(D)
    BY <2>1 DEF Rank, D
  <2> QED
    BY <1>2, <2>3, <2>4, <2>5
<1> QED
  BY <1>2, <1>4, <1>5, <1>6 DEF Longer

\* A break more, after all the others
LEMMA BreakAdded ==
    ASSUME NEW s \in Seq(Bytes), NEW B, B \subseteq 1 .. Len(s), NEW m \in 1 .. Len(s),
           \A b \in B : b < m, NEW fs, Cut(s, B, fs), NEW line \in Seq(Bytes),
           line = LineOf(s, B \cup {m}, m), NEW ending \in Endings,
           NEW r, r = IF line = <<>> THEN <<>> ELSE << [data |-> line, termination |-> ending] >>
    PROVE  Cut(s, B \cup {m}, fs \o r)
<1> DEFINE C == B \cup {m}
           E == EndsOf(s, B)
           D == EndsOf(s, C)
           n == Len(s)
<1>1. n \in Nat /\ m \in 1 .. n
  BY LenProperties
<1>2. \A e \in B : LineOf(s, C, e) = LineOf(s, B, e)
  <2> SUFFICES ASSUME NEW e \in B PROVE LineOf(s, C, e) = LineOf(s, B, e)
    OBVIOUS
  <2>1. {b \in B : b < e} = {b \in C : b < e}
    OBVIOUS
  <2> HIDE DEF C
  <2>2. Prior(C, e) = Prior(B, e)
    BY <2>1, PriorSame
  <2>3. RecordOf(s, C, e) = RecordOf(s, B, e)
    BY <2>2 DEF RecordOf
  <2> QED
    BY <2>3 DEF LineOf
<1>3. E \subseteq 1 .. n /\ \A e \in E : e < m
  BY DEF EndsOf
<1>4. D = IF line = <<>> THEN E ELSE E \cup {m}
  BY <1>2 DEF EndsOf
<1>5. fs \in Seq(Framing) /\ Len(fs) = Cardinality(E)
      /\ \A e \in E : fs[Rank(E, e)].data = LineOf(s, B, e)
  BY DEF Cut
<1>6. m \notin E /\ E \subseteq B
  BY <1>3 DEF EndsOf
<1> HIDE DEF C, D, E, n
<1>7. CASE line = <<>>
  <2>1. fs \o r = fs /\ D = E
    BY <1>4, <1>5, <1>7, ConcatEmptySeq
  <2>2. \A e \in D : fs[Rank(D, e)].data = LineOf(s, C, e)
    BY <1>2, <1>5, <1>6, <2>1
  <2> QED
    BY <1>5, <2>1, <2>2 DEF Cut, C, D
<1>8. CASE line # <<>>
  <2> DEFINE f  == [data |-> line, termination |-> ending]
             gs == fs \o r
  <2>1. D = E \cup {m} /\ f \in Framing /\ f.data = line /\ r = <<f>>
    BY <1>4, <1>8 DEF Framing
  <2>2. /\ Cardinality(E) \in Nat /\ Cardinality(D) = Cardinality(E) + 1
        /\ Rank(D, m) = Cardinality(E) + 1
        /\ \A e \in E : Rank(D, e) = Rank(E, e) /\ Rank(E, e) \in 1 .. Cardinality(E)
    <3>1. After(E, n, m)
      BY <1>1, <1>3 DEF After
    <3>2. Longer(E, E \cup {m}, m)
      BY <3>1, FrameAdded, Zenon
    <3>3. Longer(E, D, m)
      BY <2>1, <3>2, Zenon
    <3> QED
      BY <3>3 DEF Longer
  <2> HIDE DEF f, gs
  <2>3. r \in Seq(Framing) /\ Len(r) = 1 /\ r[1].data = line
    <3>1. <<f>> \in Seq(Framing) /\ Len(<<f>>) = 1 /\ <<f>>[1] = f
      BY <2>1
    <3> QED
      BY <2>1, <3>1, Zenon
  <2>4. /\ gs \in Seq(Framing) /\ Len(gs) = Len(fs) + 1
        /\ \A i \in 1 .. Len(fs) : gs[i] = fs[i]
        /\ gs[Len(fs) + 1] = r[1]
    <3>1. gs \in Seq(Framing) /\ Len(gs) = Len(fs) + 1
      BY <1>5, <2>3, ConcatProperties DEF gs
    <3>2. \A i \in 1 .. Len(fs) + 1 : gs[i] = IF i <= Len(fs) THEN fs[i] ELSE r[i - Len(fs)]
      BY <1>5, <2>3, ConcatProperties DEF gs
    <3>3. Len(fs) \in Nat /\ Len(fs) + 1 \in 1 .. Len(fs) + 1 /\ (Len(fs) + 1) - Len(fs) = 1
      BY <1>5, <2>2
    <3>4. \A i \in 1 .. Len(fs) : i \in 1 .. Len(fs) + 1 /\ i <= Len(fs)
      BY <3>3
    <3>5. ~(Len(fs) + 1 <= Len(fs))
      BY <3>3
    <3> QED
      BY <3>1, <3>2, <3>3, <3>4, <3>5
  <2>5. ASSUME NEW e \in D
        PROVE  gs[Rank(D, e)].data = LineOf(s, C, e)
    <3>1. CASE e \in E
      BY <1>2, <1>5, <1>6, <2>2, <2>4, <3>1
    <3>2. CASE e = m
      BY <1>5, <2>2, <2>3, <2>4, <3>2 DEF C
    <3> QED
      BY <2>1, <3>1, <3>2
  <2> QED
    BY <1>5, <2>2, <2>4, <2>5 DEF Cut, C, D, gs
<1> QED
  BY <1>7, <1>8

LEMMA SubSeqGrows ==
    ASSUME NEW s \in Seq(Bytes), NEW b \in Bytes, NEW p \in 1 .. Len(s) + 1,
           NEW k \in 0 .. Len(s)
    PROVE  SubSeq(s \o <<b>>, p, k) = SubSeq(s, p, k)
<1>1. Len(s) \in Nat /\ p \in Int /\ k \in Int
  BY LenProperties
<1>2. CASE k < p
  BY <1>1, <1>2, SubSeqEmpty
<1>3. CASE p <= k
  <2>1. p \in 1 .. Len(s) /\ k \in 1 .. Len(s) /\ <<b>> \in Seq(Bytes)
    BY <1>1, <1>3
  <2> QED
    BY <2>1, SubSeqOfConcat1
<1> QED
  BY <1>1, <1>2, <1>3

LEMMA CutGrows ==
    ASSUME NEW s \in Seq(Bytes), NEW b \in Bytes, NEW B, B \subseteq 1 .. Len(s),
           NEW fs, Cut(s, B, fs)
    PROVE  Cut(s \o <<b>>, B, fs)
<1> DEFINE t == s \o <<b>>
<1>1. Len(s) \in Nat
  BY LenProperties
<1>2. ASSUME NEW e \in B
      PROVE  LineOf(t, B, e) = LineOf(s, B, e)
  <2>1. e \in 1 .. Len(s) /\ e \in 1 .. Len(s) + 1 /\ e \in Nat
    BY <1>1
  <2>2. t[e] = s[e]
    BY <2>1, Grown
  <2>3. Prior(B, e) \in 0 .. e - 1
    BY <1>1, <2>1, PriorTyped
  <2> DEFINE p == Prior(B, e) + 1
             k == IF s[e] = "LF" THEN e - 1 ELSE e
  <2>4. p \in 1 .. Len(s) + 1 /\ k \in 0 .. Len(s)
    BY <1>1, <2>1, <2>3
  <2> HIDE DEF p, k, t
  <2>5. SubSeq(t, p, k) = SubSeq(s, p, k)
    BY <2>4, SubSeqGrows DEF t
  <2>6. RecordOf(t, B, e) = RecordOf(s, B, e)
    BY <2>2, <2>5 DEF RecordOf, p, k
  <2> QED
    BY <2>2, <2>6 DEF LineOf
<1> HIDE DEF t
<1>3. EndsOf(t, B) = EndsOf(s, B) /\ EndsOf(s, B) \subseteq B
  BY <1>2 DEF EndsOf
<1> QED
  BY <1>2, <1>3 DEF Cut, t

LEMMA FramedGrows ==
    ASSUME NEW s, NEW b \in Bytes, NEW B, NEW fs, NEW rest, Framed(s, B, fs, rest)
    PROVE  /\ rest \in Seq(Bytes)
           /\ Framed(s \o <<b>>, B, fs, Append(rest, b))
<1> DEFINE t == s \o <<b>>
           n == Len(s)
           p == Prior(B, n + 1)
<1>1. s \in Seq(Bytes) /\ B \subseteq 1 .. n /\ Cut(s, B, fs) /\ n \in Nat
      /\ rest = SubSeq(s, p + 1, n)
  BY LenProperties DEF Framed
<1>2. t \in Seq(Bytes) /\ Len(t) = n + 1 /\ t[n + 1] = b
  BY <1>1, Grown
<1> HIDE DEF n
<1>3. B \subseteq 1 .. n + 1
  BY <1>1
<1>4. Cut(t, B, fs)
  BY <1>1, CutGrows DEF n
<1>5. p \in 0 .. n
  <2>1. n + 1 \in 1 .. n + 1 /\ (n + 1) - 1 = n
    BY <1>1
  <2> QED
    BY <1>1, <2>1, PriorTyped
<1>6. Prior(B, (n + 1) + 1) = p
  <2>1. \A e \in B : e < n + 1 /\ e < (n + 1) + 1
    BY <1>1
  <2>2. {e \in B : e < (n + 1) + 1} = {e \in B : e < n + 1}
    BY <2>1
  <2> QED
    BY <2>2 DEF Prior
<1> HIDE DEF p
<1>7. rest \in Seq(Bytes)
  <2>1. \A i \in p + 1 .. n : s[i] \in Bytes
    <3>1. \A i \in p + 1 .. n : i \in 1 .. Len(s)
      BY <1>1, <1>5 DEF n
    <3> QED
      BY <1>1, <3>1, ElementOfSeq
  <2>2. p + 1 \in Int /\ n \in Int
    BY <1>1, <1>5
  <2> QED
    BY <1>1, <2>1, <2>2, SubSeqProperties
<1>8. Append(rest, b) = SubSeq(t, p + 1, n + 1)
  <2>1. p + 1 \in 1 .. Len(t) /\ n + 1 \in (p + 1) .. Len(t) /\ (n + 1) - 1 = n
    BY <1>1, <1>2, <1>5
  <2> HIDE DEF t
  <2>2. SubSeq(t, p + 1, n + 1) = SubSeq(t, p + 1, n) \o <<b>>
    BY <1>2, <2>1, SubSeqRecursiveSecond
  <2>3. p + 1 \in 1 .. Len(s) + 1 /\ n \in 0 .. Len(s)
    BY <1>1, <1>5 DEF n
  <2>4. SubSeq(t, p + 1, n) = rest
    BY <1>1, <2>3, SubSeqGrows DEF t
  <2>5. Append(rest, b) = rest \o <<b>>
    BY <1>7, AppendIsConcat
  <2> QED
    BY <2>2, <2>4, <2>5
<1> HIDE DEF t
<1>9. Framed(t, B, fs, Append(rest, b))
  BY <1>2, <1>3, <1>4, <1>6, <1>8 DEF Framed
<1> QED
  BY <1>7, <1>9 DEF t

\* A break where the stream ends
LEMMA FramedBreaks ==
    ASSUME NEW s, NEW B, NEW fs, NEW rest \in Seq(Bytes), Framed(s, B, fs, rest), rest # <<>>,
           NEW record, record = (IF s[Len(s)] = "LF" THEN Front(rest) ELSE rest),
           NEW line, line = (IF s[Len(s)] = "LF" /\ record # <<>> /\ Last(record) = "CR"
                             THEN Front(record) ELSE record),
           NEW ending \in Endings,
           NEW r, r = IF line = <<>> THEN <<>> ELSE << [data |-> line, termination |-> ending] >>
    PROVE  /\ Len(s) \in 1 .. Len(s) /\ \A b \in B : b < Len(s)
           /\ Framed(s, B \cup {Len(s)}, fs \o r, <<>>)
<1> DEFINE n == Len(s)
           p == Prior(B, n + 1)
           C == B \cup {n}
<1>1. s \in Seq(Bytes) /\ B \subseteq 1 .. n /\ Cut(s, B, fs) /\ n \in Nat
      /\ rest = SubSeq(s, p + 1, n)
  BY LenProperties DEF Framed
<1> HIDE DEF n
<1>2. p \in 0 .. n /\ \A b \in B : b < n + 1 => b <= p
  <2>1. n + 1 \in 1 .. n + 1 /\ (n + 1) - 1 = n
    BY <1>1
  <2> QED
    BY <1>1, <2>1, PriorTyped
<1>3. p < n
  <2> SUFFICES ASSUME ~(p < n) PROVE FALSE
    OBVIOUS
  <2>1. n < p + 1 /\ p + 1 \in Int /\ n \in Int
    BY <1>1, <1>2
  <2> HIDE DEF p
  <2> QED
    BY <1>1, <2>1, SubSeqEmpty
<1>4. n \in 1 .. n /\ \A b \in B : b < n
  BY <1>1, <1>2, <1>3
<1>5. Prior(C, n) = p
  <2>1. {b \in C : b < n} = {b \in B : b < n + 1}
    <3>1. \A b \in B : b < n /\ b < n + 1
      BY <1>1, <1>4
    <3>2. ~(n < n)
      BY <1>1
    <3> QED
      BY <3>1, <3>2
  <2> QED
    BY <2>1 DEF Prior
<1> HIDE DEF p, C
<1>6. RecordOf(s, C, n) = record
  <2>1. CASE s[n] = "LF"
    <3>1. p + 1 \in 1 .. Len(s) /\ n \in (p + 1) .. Len(s)
      BY <1>1, <1>2, <1>3 DEF n
    <3>2. rest = SubSeq(s, p + 1, n - 1) \o <<s[n]>>
      BY <1>1, <3>1, SubSeqRecursiveSecond
    <3> DEFINE q == SubSeq(s, p + 1, n - 1)
    <3>3. q \in Seq(Bytes) /\ s[n] \in Bytes
      <4>1. \A i \in p + 1 .. n - 1 : i \in 1 .. Len(s)
        BY <1>1, <1>2 DEF n
      <4>2. \A i \in p + 1 .. n - 1 : s[i] \in Bytes
        BY <1>1, <4>1, ElementOfSeq
      <4>3. p + 1 \in Int /\ n - 1 \in Int /\ n \in 1 .. Len(s)
        BY <1>1, <1>2, <1>4 DEF n
      <4> QED
        BY <1>1, <4>2, <4>3, SubSeqProperties, ElementOfSeq
    <3> HIDE DEF q
    <3>4. Front(rest) = q
      <4>1. Len(rest) = Len(q) + 1 /\ Len(q) \in Nat
        BY <3>2, <3>3, Grown DEF q
      <4>2. Len(rest) - 1 = Len(q)
        BY <4>1
      <4>3. SubSeq(rest, 1, Len(q)) = SubSeq(q, 1, Len(q))
        <5>1. 1 \in 1 .. Len(q) + 1 /\ Len(q) \in 0 .. Len(q)
          BY <4>1
        <5> QED
          BY <3>2, <3>3, <5>1, SubSeqGrows DEF q
      <4> QED
        BY <3>3, <4>2, <4>3, SubSeqFull DEF Front
    <3> QED
      BY <1>5, <2>1, <3>4 DEF RecordOf, q, n
  <2>2. CASE s[n] # "LF"
    BY <1>1, <1>5, <2>2 DEF RecordOf, n
  <2> QED
    BY <2>1, <2>2
<1>7. line = LineOf(s, C, n)
  BY <1>6 DEF LineOf, n
<1>8. line \in Seq(Bytes)
  <2>1. \A q \in Seq(Bytes) : q # <<>> => Front(q) \in Seq(Bytes)
    <3> SUFFICES ASSUME NEW q \in Seq(Bytes), q # <<>>
                 PROVE  Front(q) \in Seq(Bytes)
      OBVIOUS
    <3>1. Len(q) \in Nat
      BY LenProperties
    <3>2. \A i \in 1 .. Len(q) - 1 : q[i] \in Bytes
      BY <3>1, ElementOfSeq
    <3>3. 1 \in Int /\ Len(q) - 1 \in Int
      BY <3>1
    <3> QED
      BY <3>2, <3>3, SubSeqProperties DEF Front
  <2>2. record \in Seq(Bytes)
    BY <2>1
  <2> QED
    BY <2>1, <2>2
<1>9. Cut(s, C, fs \o r)
  BY <1>1, <1>4, <1>7, <1>8, BreakAdded DEF C, n
<1>10. C \subseteq 1 .. n /\ n \in C
  BY <1>1, <1>4 DEF C
<1>11. SubSeq(s, Prior(C, n + 1) + 1, n) = <<>>
  <2>1. Prior(C, n + 1) = n
    BY <1>1, <1>10, PriorLast
  <2>2. n < n + 1 /\ n + 1 \in Int /\ n \in Int
    BY <1>1
  <2> QED
    BY <2>1, <2>2, SubSeqEmpty
<1>12. Framed(s, C, fs \o r, <<>>)
  BY <1>1, <1>9, <1>10, <1>11 DEF Framed, n
<1> QED
  BY <1>4, <1>12 DEF C, n

\* What the framer makes of a byte
Framer          == [frames : Seq(Framing), rest : Seq(Bytes)]
BreaksOf(s, cs) == LineFeeds(s) \cup cs

LEMMA FrontOfAppend ==
    ASSUME NEW q \in Seq(Bytes), NEW b \in Bytes
    PROVE  Front(Append(q, b)) = q
<1>1. Append(q, b) = q \o <<b>>
  BY AppendIsConcat
<1>2. Len(q \o <<b>>) = Len(q) + 1 /\ Len(q) \in Nat
  BY Grown
<1>3. 1 \in 1 .. Len(q) + 1 /\ Len(q) \in 0 .. Len(q) /\ (Len(q) + 1) - 1 = Len(q)
  BY <1>2
<1>4. SubSeq(q \o <<b>>, 1, Len(q)) = SubSeq(q, 1, Len(q))
  BY <1>3, SubSeqGrows
<1> QED
  BY <1>1, <1>2, <1>3, <1>4, SubSeqFull DEF Front

LEMMA FrontTyped == \A q \in Seq(Bytes) : q # <<>> => Front(q) \in Seq(Bytes)
<1> SUFFICES ASSUME NEW q \in Seq(Bytes), q # <<>>
             PROVE  Front(q) \in Seq(Bytes)
  OBVIOUS
<1>1. Len(q) \in Nat
  BY LenProperties
<1>2. \A i \in 1 .. Len(q) - 1 : q[i] \in Bytes
  BY <1>1, ElementOfSeq
<1>3. 1 \in Int /\ Len(q) - 1 \in Int
  BY <1>1
<1> QED
  BY <1>2, <1>3, SubSeqProperties DEF Front

LEMMA FrameTyped ==
    ASSUME NEW record \in Seq(Bytes), NEW ending \in Endings
    PROVE  Frame(record, ending) \in Seq(Framing)
<1> DEFINE f == [data |-> record, termination |-> ending]
<1>1. f \in Framing
  BY DEF Framing
<1> HIDE DEF f
<1>2. <<f>> \in Seq(Framing) /\ <<>> \in Seq(Framing)
  BY <1>1
<1> QED
  BY <1>2 DEF Frame, f

LEMMA LineFeedsGrow ==
    ASSUME NEW s \in Seq(Bytes), NEW b \in Bytes
    PROVE  LineFeeds(s \o <<b>>) =
              IF b = "LF" THEN LineFeeds(s) \cup {Len(s) + 1} ELSE LineFeeds(s)
<1> DEFINE t == s \o <<b>>
           n == Len(s)
<1>1. n \in Nat /\ Len(t) = n + 1 /\ t[n + 1] = b /\ \A i \in 1 .. n : t[i] = s[i]
  BY Grown
<1>2. 1 .. n + 1 = (1 .. n) \cup {n + 1}
  BY <1>1
<1> HIDE DEF t, n
<1>3. {i \in 1 .. n + 1 : t[i] = "LF"} =
         IF b = "LF" THEN {i \in 1 .. n : s[i] = "LF"} \cup {n + 1}
         ELSE {i \in 1 .. n : s[i] = "LF"}
  BY <1>1, <1>2
<1> QED
  BY <1>1, <1>3 DEF LineFeeds, t, n

LEMMA LineFramed ==
    ASSUME NEW s, NEW B, NEW fs, NEW rest, Framed(s, B, fs, rest), NEW b \in Bytes, b = "LF"
    PROVE  /\ rest \in Seq(Bytes) /\ Line(rest) \in Seq(Framing)
           /\ Framed(s \o <<b>>, B \cup {Len(s) + 1}, fs \o Line(rest), <<>>)
<1> DEFINE t      == s \o <<b>>
           full   == Append(rest, b)
           crlf   == rest # <<>> /\ Last(rest) = "CR"
           line   == IF crlf THEN Front(rest) ELSE rest
           ending == IF crlf THEN "crlf" ELSE "lf"
<1>1. s \in Seq(Bytes) /\ rest \in Seq(Bytes)
  <2>1. rest \in Seq(Bytes)
    BY FramedGrows
  <2> QED
    BY <2>1 DEF Framed
<1>2. /\ Framed(t, B, fs, full) /\ full \in Seq(Bytes) /\ full # <<>>
      /\ Len(t) = Len(s) + 1 /\ t[Len(t)] = b
  BY <1>1, FramedGrows, AppendProperties, Grown
<1>3. Front(full) = rest
  BY <1>1, FrontOfAppend
<1>4. ending \in Endings /\ line \in Seq(Bytes)
  BY <1>1, FrontTyped DEF Endings
<1>5. Line(rest) = Frame(line, ending)
  BY DEF Line
<1>6. line = (IF t[Len(t)] = "LF" /\ rest # <<>> /\ Last(rest) = "CR" THEN Front(rest) ELSE rest)
  BY <1>2
<1>7. rest = (IF t[Len(t)] = "LF" THEN Front(full) ELSE full)
  BY <1>2, <1>3
<1> HIDE DEF t, full, line, ending
<1>8. Frame(line, ending) =
         IF line = <<>> THEN <<>> ELSE << [data |-> line, termination |-> ending] >>
  BY DEF Frame
<1>9. Framed(t, B \cup {Len(t)}, fs \o Frame(line, ending), <<>>)
  BY <1>2, <1>4, <1>6, <1>7, <1>8, FramedBreaks
<1> QED
  BY <1>1, <1>2, <1>4, <1>5, <1>9, FrameTyped DEF t

LEMMA ByteFramed ==
    ASSUME NEW s, NEW cs, cs \subseteq 1 .. Len(s), NEW fs \in Seq(Framing), NEW t \in Framer,
           Framed(s, BreaksOf(s, cs), fs \o t.frames, t.rest), NEW b \in Bytes,
           NEW u, u = FramerByte(t, b)
    PROVE  u \in Framer /\ Framed(s \o <<b>>, BreaksOf(s \o <<b>>, cs), fs \o u.frames, u.rest)
<1>1. s \in Seq(Bytes) /\ t.frames \in Seq(Framing) /\ t.rest \in Seq(Bytes)
  BY DEF Framed, Framer
<1>2. CASE b = "LF"
  <2>1. u = [frames |-> t.frames \o Line(t.rest), rest |-> <<>>]
    BY <1>2 DEF FramerByte
  <2>2. BreaksOf(s \o <<b>>, cs) = BreaksOf(s, cs) \cup {Len(s) + 1}
    BY <1>1, <1>2, LineFeedsGrow DEF BreaksOf
  <2>3. /\ Line(t.rest) \in Seq(Framing)
        /\ Framed(s \o <<b>>, BreaksOf(s, cs) \cup {Len(s) + 1},
                  (fs \o t.frames) \o Line(t.rest), <<>>)
    BY <1>2, LineFramed
  <2>4. (fs \o t.frames) \o Line(t.rest) = fs \o (t.frames \o Line(t.rest))
    <3>1. \A a, c, d \in Seq(Framing) : (a \o c) \o d = a \o (c \o d)
      BY ConcatAssociative
    <3> QED
      BY <1>1, <2>3, <3>1, Zenon
  <2>5. t.frames \o Line(t.rest) \in Seq(Framing) /\ <<>> \in Seq(Bytes)
    BY <1>1, <2>3, ConcatProperties
  <2>6. u.frames = t.frames \o Line(t.rest) /\ u.rest = <<>> /\ u \in Framer
    BY <2>1, <2>5 DEF Framer
  <2> QED
    BY <2>2, <2>3, <2>4, <2>6
<1>3. CASE b # "LF"
  <2>1. u = [frames |-> t.frames, rest |-> Append(t.rest, b)]
    BY <1>3 DEF FramerByte, Framer
  <2>2. BreaksOf(s \o <<b>>, cs) = BreaksOf(s, cs)
    BY <1>1, <1>3, LineFeedsGrow DEF BreaksOf
  <2>3. Append(t.rest, b) \in Seq(Bytes)
    BY <1>1, AppendProperties
  <2>4. u.frames = t.frames /\ u.rest = Append(t.rest, b) /\ u \in Framer
    BY <1>1, <2>1, <2>3 DEF Framer
  <2>5. Framed(s \o <<b>>, BreaksOf(s, cs), fs \o t.frames, Append(t.rest, b))
    BY FramedGrows
  <2> QED
    BY <2>2, <2>4, <2>5
<1> QED
  BY <1>2, <1>3

\* The buffer given up by force, when it is too long or the line is silent
LEMMA ForcedFramed ==
    ASSUME NEW s, NEW cs, cs \subseteq 1 .. Len(s), NEW fs, NEW rest \in Seq(Bytes), rest # <<>>,
           Framed(s, BreaksOf(s, cs), fs, rest), LineFeeds(s) \subseteq BreaksOf(s, cs),
           NEW ending \in Endings
    PROVE  /\ Len(s) \in 1 .. Len(s)
           /\ Framed(s, BreaksOf(s, cs \cup {Len(s)}), fs \o Frame(rest, ending), <<>>)
<1> DEFINE B == BreaksOf(s, cs)
<1>1. s[Len(s)] # "LF"
  <2>1. Len(s) \in Nat
    BY LenProperties DEF Framed
  <2>2. ASSUME s[Len(s)] = "LF"
        PROVE  FALSE
    <3>1. CASE Len(s) = 0
      <4>1. rest = <<>>
        <5>1. 0 + 1 \in 1 .. 0 + 1 /\ B \subseteq 1 .. 0
          BY <3>1 DEF Framed
        <5>2. Prior(B, 0 + 1) \in 0 .. (0 + 1) - 1
          BY <5>1, PriorTyped
        <5>3. Prior(B, Len(s) + 1) + 1 = 1
          BY <3>1, <5>2
        <5>4. rest = SubSeq(s, 1, 0)
          BY <3>1, <5>3 DEF Framed
        <5> QED
          BY <5>4, SubSeqEmpty
      <4> QED
        BY <4>1
    <3>2. CASE Len(s) # 0
      <4>1. Len(s) \in LineFeeds(s)
        BY <2>1, <2>2, <3>2 DEF LineFeeds
      <4>2. Len(s) \in B /\ B \subseteq 1 .. Len(s)
        BY <4>1 DEF Framed
      <4>3. Prior(B, Len(s) + 1) = Len(s)
        BY <2>1, <4>2, PriorLast
      <4>4. rest = SubSeq(s, Len(s) + 1, Len(s))
        BY <4>3 DEF Framed
      <4>5. Len(s) < Len(s) + 1 /\ Len(s) \in Int /\ Len(s) + 1 \in Int
        BY <2>1
      <4> QED
        BY <4>4, <4>5, SubSeqEmpty
    <3> QED
      BY <3>1, <3>2
  <2> QED
    BY <2>2
<1> DEFINE record == rest
           line   == rest
           r      == Frame(rest, ending)
<1>2. r = IF line = <<>> THEN <<>> ELSE << [data |-> line, termination |-> ending] >>
  BY DEF Frame
<1>3. /\ record = (IF s[Len(s)] = "LF" THEN Front(rest) ELSE rest)
      /\ line = (IF s[Len(s)] = "LF" /\ record # <<>> /\ Last(record) = "CR"
                 THEN Front(record) ELSE record)
  BY <1>1
<1>4. BreaksOf(s, cs \cup {Len(s)}) = B \cup {Len(s)}
  BY DEF BreaksOf
<1>5. Framed(s, B, fs, rest)
  OBVIOUS
<1> HIDE DEF B, record, line, r
<1>6. Len(s) \in 1 .. Len(s) /\ Framed(s, B \cup {Len(s)}, fs \o r, <<>>)
  BY <1>2, <1>3, <1>5, FramedBreaks
<1> QED
  BY <1>4, <1>6 DEF r

\* The equation of Lines has a solution, for any number of bytes.
IsLines(g, rest, c, n) ==
    g = [i \in 0 .. n |-> IF i = 0 THEN [frames |-> <<>>, rest |-> rest]
                          ELSE FramerByte(g[i - 1], c[i])]

LEMMA LinesExist ==
    ASSUME NEW rest, NEW c, NEW n \in Nat
    PROVE  \E g : IsLines(g, rest, c, n)
<1> DEFINE S == {m \in Nat : \E g : IsLines(g, rest, c, m)}
           start == [frames |-> <<>>, rest |-> rest]
<1>1. 0 \in S
  <2> DEFINE g == [i \in 0 .. 0 |-> start]
  <2>1. \A i \in 0 .. 0 : i = 0
    OBVIOUS
  <2>2. IsLines(g, rest, c, 0)
    BY <2>1 DEF IsLines
  <2> QED
    BY <2>2
<1>2. ASSUME NEW m \in 1 .. n, m - 1 \in S
      PROVE  m \in S
  <2>1. PICK h : IsLines(h, rest, c, m - 1)
    BY <1>2
  <2> DEFINE g == [i \in 0 .. m |-> IF i = m THEN FramerByte(h[m - 1], c[m]) ELSE h[i]]
  <2>2. \A i \in 0 .. (m - 1) : h[i] = IF i = 0 THEN start ELSE FramerByte(h[i - 1], c[i])
    BY <2>1 DEF IsLines
  <2> HIDE DEF start
  <2>3. ASSUME NEW i \in 0 .. m
        PROVE  g[i] = IF i = 0 THEN start ELSE FramerByte(g[i - 1], c[i])
    <3>1. CASE i = m
      <4>1. i # 0 /\ i - 1 \in 0 .. m /\ i - 1 # m
        BY <3>1
      <4>2. g[i] = FramerByte(h[i - 1], c[i]) /\ g[i - 1] = h[i - 1]
        BY <3>1, <4>1
      <4> HIDE DEF g
      <4> QED
        BY <4>1, <4>2
    <3>2. CASE i # m /\ i # 0
      <4>1. i \in 0 .. (m - 1) /\ i - 1 \in 0 .. m /\ i - 1 # m
        BY <3>2
      <4>2. g[i] = h[i] /\ g[i - 1] = h[i - 1]
        BY <3>2, <4>1
      <4> HIDE DEF g
      <4> QED
        BY <2>2, <3>2, <4>1, <4>2
    <3>3. CASE i # m /\ i = 0
      <4>1. i \in 0 .. (m - 1)
        BY <3>3
      <4>2. g[i] = h[i]
        BY <3>3
      <4> HIDE DEF g
      <4> QED
        BY <2>2, <3>3, <4>1, <4>2
    <3> QED
      BY <3>1, <3>2, <3>3
  <2>4. g = [i \in 0 .. m |-> g[i]]
    OBVIOUS
  <2> HIDE DEF g
  <2>5. IsLines(g, rest, c, m)
    BY <2>3, <2>4 DEF IsLines, start
  <2> QED
    BY <2>5
<1> HIDE DEF S
<1>3. n \in S
  BY <1>1, <1>2, Induction
<1> QED
  BY <1>3 DEF S

LEMMA LinesStep ==
    ASSUME NEW c, Len(c) \in Nat
    PROVE  /\ Lines(c)[0] = [frames |-> <<>>, rest |-> buffer]
           /\ \A i \in 1 .. Len(c) : Lines(c)[i] = FramerByte(Lines(c)[i - 1], c[i])
<1> DEFINE g == Lines(c)
           n == Len(c)
           start == [frames |-> <<>>, rest |-> buffer]
<1> HIDE DEF n
<1>1. \E h : IsLines(h, buffer, c, n)
  BY LinesExist DEF n
<1>2. g = [i \in 0 .. n |-> IF i = 0 THEN start ELSE FramerByte(g[i - 1], c[i])]
  BY <1>1 DEF Lines, IsLines, n
<1> HIDE DEF g, start
<1>3. 0 \in 0 .. n /\ \A i \in 1 .. n : i \in 0 .. n /\ i # 0
  BY DEF n
<1> QED
  BY <1>2, <1>3 DEF g, n, start

\* The bytes of a read, one after the other
LEMMA ChunkFramed ==
    ASSUME NEW s \in Seq(Bytes), NEW cs, cs \subseteq 1 .. Len(s), NEW fs \in Seq(Framing),
           buffer \in Seq(Bytes), Framed(s, BreaksOf(s, cs), fs, buffer), NEW c \in Seq(Bytes)
    PROVE  /\ Lines(c)[Len(c)] \in Framer
           /\ Framed(s \o c, BreaksOf(s \o c, cs), fs \o Lines(c)[Len(c)].frames,
                     Lines(c)[Len(c)].rest)
<1> DEFINE after == Lines(c)
           part(i) == s \o SubSeq(c, 1, i)
           n == Len(c)
           S == {i \in Nat : /\ after[i] \in Framer
                             /\ Framed(part(i), BreaksOf(part(i), cs), fs \o after[i].frames,
                                       after[i].rest)}
<1>1. n \in Nat
  BY LenProperties
<1>2. /\ after[0] = [frames |-> <<>>, rest |-> buffer]
      /\ \A i \in 1 .. n : after[i] = FramerByte(after[i - 1], c[i])
  BY <1>1, LinesStep
<1> HIDE DEF after
<1>3. 0 \in S
  <2>1. SubSeq(c, 1, 0) = <<>>
    BY SubSeqEmpty
  <2>2. part(0) = s
    BY <2>1, ConcatEmptySeq
  <2>3. <<>> \in Seq(Framing) /\ fs \o <<>> = fs
    BY ConcatEmptySeq
  <2>4. after[0].frames = <<>> /\ after[0].rest = buffer /\ after[0] \in Framer
    BY <1>2, <2>3 DEF Framer
  <2> HIDE DEF part
  <2>5. Framed(part(0), BreaksOf(part(0), cs), fs \o after[0].frames, after[0].rest)
    BY <2>2, <2>3, <2>4
  <2> QED
    BY <2>4, <2>5
<1>4. ASSUME NEW i \in 1 .. n, i - 1 \in S
      PROVE  i \in S
  <2> DEFINE k == i - 1
             p == part(k)
             t == after[k]
             b == c[i]
             u == after[i]
  <2>1. k \in 0 .. n /\ k \in Nat /\ i \in Nat /\ b \in Bytes /\ k <= n
    BY <1>1, ElementOfSeq
  <2>2. t \in Framer /\ Framed(p, BreaksOf(p, cs), fs \o t.frames, t.rest)
    BY <1>4
  <2>3. u = FramerByte(t, b)
    BY <1>2
  <2>4. part(i) = p \o <<b>> /\ Len(s) <= Len(p) /\ Len(s) \in Nat /\ Len(p) \in Nat
    <3> DEFINE d == SubSeq(c, 1, k)
    <3>1. 1 \in 1 .. n /\ i \in 1 .. n
      BY <1>1
    <3>2. SubSeq(c, 1, i) = d \o <<b>>
      BY <1>1, <3>1, SubSeqRecursiveSecond
    <3>3. d \in Seq(Bytes) /\ <<b>> \in Seq(Bytes)
      <4>1. \A j \in 1 .. k : c[j] \in Bytes
        BY <1>1, <2>1, ElementOfSeq
      <4>2. 1 \in Int /\ k \in Int
        BY <2>1
      <4> QED
        BY <2>1, <4>1, <4>2, SubSeqProperties
    <3> HIDE DEF d, k, b
    <3>4. s \o (d \o <<b>>) = (s \o d) \o <<b>>
      BY <3>3, Associative, Zenon
    <3>5. Len(s \o d) = Len(s) + Len(d) /\ Len(s) \in Nat /\ Len(d) \in Nat
      BY <3>3, ConcatProperties, LenProperties
    <3>6. p = s \o d
      BY DEF d
    <3>7. part(i) = s \o (d \o <<b>>)
      BY <3>2
    <3> HIDE DEF part, p
    <3>8. part(i) = p \o <<b>>
      BY <3>4, <3>6, <3>7
    <3>9. Len(s) <= Len(p) /\ Len(s) \in Nat /\ Len(p) \in Nat
      BY <3>5, <3>6
    <3> QED
      BY <3>8, <3>9
  <2>5. cs \subseteq 1 .. Len(p)
    BY <2>4
  <2> HIDE DEF part, p, t, b, u, k
  <2>6. u \in Framer /\ Framed(p \o <<b>>, BreaksOf(p \o <<b>>, cs), fs \o u.frames, u.rest)
    BY <2>1, <2>2, <2>3, <2>5, ByteFramed
  <2>7. Framed(part(i), BreaksOf(part(i), cs), fs \o u.frames, u.rest)
    BY <2>4, <2>6
  <2> QED
    BY <2>1, <2>6, <2>7 DEF u
<1> HIDE DEF S, n
<1>5. n \in S
  <2>1. 0 .. n \subseteq S
    BY <1>1, <1>3, <1>4, Induction
  <2> QED
    BY <1>1, <2>1
<1>6. part(n) = s \o c
  BY SubSeqFull DEF n
<1> HIDE DEF part
<1> QED
  BY <1>5, <1>6 DEF S, n, after

-----------------------------------------------------------------------------
(* The frames, as the read loop takes them from the framer.                 *)

FramesInv ==
    /\ cuts \subseteq 1 .. Len(serial) /\ frames \in Seq(Framing)
    /\ buffer \in Seq(Bytes) /\ Len(buffer) <= MaxBuffer
    /\ Framed(serial, BreaksOf(serial, cuts), frames, buffer)

LEMMA FeedFramed ==
    ASSUME FramesInv, serial \in Seq(Bytes), NEW c \in Seq(Bytes), FramerFeed(c),
           serial' = serial \o c
    PROVE  FramesInv'
<1> DEFINE t  == Lines(c)[Len(c)]
           s  == serial \o c
           fs == frames \o t.frames
<1>1. t \in Framer /\ Framed(s, BreaksOf(s, cuts), fs, t.rest)
  BY ChunkFramed DEF FramesInv
<1>2. /\ s \in Seq(Bytes) /\ Len(s) = Len(serial) + Len(c)
      /\ Len(serial) \in Nat /\ Len(c) \in Nat
  BY ConcatProperties, LenProperties
<1>3. cuts \subseteq 1 .. Len(s)
  BY <1>2 DEF FramesInv
<1>4. t.rest \in Seq(Bytes) /\ Len(t.rest) \in Nat /\ fs \in Seq(Framing)
  BY <1>1, ConcatProperties, LenProperties DEF Framer, FramesInv
<1>5. CASE Len(t.rest) > MaxBuffer
  <2>1. /\ frames' = frames \o t.frames \o Frame(t.rest, "overflow") /\ buffer' = <<>>
        /\ cuts' = cuts \cup {Len(s)}
    BY <1>2, <1>5 DEF FramerFeed
  <2>2. t.rest # <<>> /\ "overflow" \in Endings
    BY <1>5, BoundAssumption DEF Endings
  <2>3. LineFeeds(s) \subseteq BreaksOf(s, cuts)
    BY DEF BreaksOf
  <2>4. Frame(t.rest, "overflow") \in Seq(Framing)
    BY <1>4, <2>2, FrameTyped
  <2> DEFINE rest == t.rest
             more == Frame(rest, "overflow")
  <2> HIDE DEF s, fs, rest
  <2>5. /\ Len(s) \in 1 .. Len(s)
        /\ Framed(s, BreaksOf(s, cuts \cup {Len(s)}), fs \o more, <<>>)
    BY <1>1, <1>3, <1>4, <2>2, <2>3, ForcedFramed DEF rest
  <2>6. fs \o more \in Seq(Framing)
    BY <1>4, <2>4, ConcatProperties DEF rest
  <2> HIDE DEF more
  <2>7. frames' = fs \o more /\ serial' = s
    BY <2>1 DEF fs, s, more, rest
  <2>8. cuts' \subseteq 1 .. Len(serial')
    BY <1>3, <2>1, <2>5, <2>7
  <2>9. Len(buffer') <= MaxBuffer /\ buffer' \in Seq(Bytes)
    BY <2>1, BoundAssumption
  <2> QED
    BY <2>1, <2>5, <2>6, <2>7, <2>8, <2>9 DEF FramesInv
<1>6. CASE ~(Len(t.rest) > MaxBuffer)
  <2>1. frames' = fs \o <<>> /\ buffer' = t.rest /\ cuts' = cuts /\ serial' = s
    BY <1>6 DEF FramerFeed
  <2> HIDE DEF s, fs, t
  <2>2. frames' = fs
    BY <1>4, <2>1, ConcatEmptySeq
  <2>3. Len(t.rest) <= MaxBuffer
    BY <1>4, <1>6, BoundAssumption
  <2> QED
    BY <1>1, <1>3, <1>4, <2>1, <2>2, <2>3 DEF FramesInv
<1> QED
  BY <1>5, <1>6

LEMMA FlushFramed ==
    ASSUME FramesInv, serial \in Seq(Bytes), FlushIdle, serial' = serial
    PROVE  FramesInv'
<1>1. <<>> \in Seq(Bytes) /\ Len(<<>>) = 0 /\ 0 <= MaxBuffer
  BY BoundAssumption
<1>2. CASE buffer = <<>>
  <2>1. frames' = frames \o <<>> /\ buffer' = buffer /\ cuts' = cuts
    BY <1>2 DEF FlushIdle, Frame
  <2>2. frames' = frames
    BY <2>1, ConcatEmptySeq DEF FramesInv
  <2> QED
    BY <2>1, <2>2 DEF FramesInv
<1>3. CASE buffer # <<>>
  <2> DEFINE more == Frame(buffer, "idle")
             s    == serial
  <2>1. frames' = frames \o more /\ buffer' = <<>> /\ cuts' = cuts \cup {Len(s)}
    BY <1>3 DEF FlushIdle
  <2>2. "idle" \in Endings /\ LineFeeds(s) \subseteq BreaksOf(s, cuts)
    BY DEF Endings, BreaksOf
  <2>3. more \in Seq(Framing)
    BY <2>2, FrameTyped DEF FramesInv
  <2>4. /\ Len(s) \in 1 .. Len(s)
        /\ Framed(s, BreaksOf(s, cuts \cup {Len(s)}), frames \o more, <<>>)
    BY <1>3, <2>2, ForcedFramed DEF FramesInv
  <2>5. frames \o more \in Seq(Framing)
    BY <2>3, ConcatProperties DEF FramesInv
  <2> HIDE DEF more
  <2>6. cuts' \subseteq 1 .. Len(serial')
    BY <2>1, <2>4 DEF FramesInv
  <2> QED
    BY <1>1, <2>1, <2>4, <2>5, <2>6 DEF FramesInv
<1> QED
  BY <1>2, <1>3

LEMMA EmptyFramed ==
    /\ Framed(<<>>, BreaksOf(<<>>, {}), <<>>, <<>>)
    /\ <<>> \in Seq(Framing) /\ <<>> \in Seq(Bytes) /\ Len(<<>>) <= MaxBuffer
<1>1. <<>> \in Seq(Framing) /\ <<>> \in Seq(Bytes) /\ Len(<<>>) = 0 /\ 0 <= MaxBuffer
  BY BoundAssumption
<1>2. 1 .. 0 = {} /\ BreaksOf(<<>>, {}) = {}
  BY <1>1 DEF BreaksOf, LineFeeds
<1>3. EndsOf(<<>>, {}) = {} /\ Cardinality({}) = 0
  BY FS_EmptySet DEF EndsOf
<1>4. Cut(<<>>, {}, <<>>)
  BY <1>1, <1>3 DEF Cut
<1>5. Prior({}, 0 + 1) \in 0 .. (0 + 1) - 1
  BY PriorTyped
<1>6. SubSeq(<<>>, Prior({}, 0 + 1) + 1, 0) = <<>>
  BY <1>5, SubSeqEmpty
<1> QED
  BY <1>1, <1>2, <1>4, <1>6 DEF Framed

LEMMA FramesInvKept == WireInv /\ FramesInv /\ [Next]_vars => FramesInv'
<1> SUFFICES ASSUME WireInv, FramesInv, [Next]_vars
             PROVE  FramesInv'
  OBVIOUS
<1>1. serial \in Seq(Bytes) /\ wire \in Seq(Bytes) /\ filter \in Filters
  BY DEF WireInv, WireTyped
<1>2. ASSUME NEW n \in 1 .. Len(wire), Read(n)
      PROVE  FramesInv'
  <2> DEFINE c == SubSeq(wire, 1, n)
             r == Feed(filter, c)
  <2>1. c \in Seq(Bytes)
    <3>1. \A i \in 1 .. n : wire[i] \in Bytes
      BY <1>1, ElementOfSeq
    <3> QED
      BY <3>1, SubSeqProperties
  <2>2. r.serial \in Seq(Bytes)
    <3> HIDE DEF c
    <3>1. r \in States
      BY <1>1, <2>1, FeedTyped
    <3> HIDE DEF r
    <3> QED
      BY <3>1 DEF States
  <2>3. FramerFeed(r.serial) /\ serial' = serial \o r.serial
    BY <1>2 DEF Read
  <2> HIDE DEF r
  <2> QED
    BY <1>1, <2>2, <2>3, FeedFramed
<1>3. CASE Idle \/ EndOfStream
  <2>1. FlushIdle /\ serial' = serial
    BY <1>3 DEF Idle, EndOfStream
  <2> QED
    BY <1>1, <2>1, FlushFramed
<1>4. CASE Reconnect
  <2>1. buffer' = <<>> /\ frames' = <<>> /\ cuts' = {} /\ serial' = <<>>
    BY <1>4 DEF Reconnect
  <2> QED
    BY <2>1, EmptyFramed DEF FramesInv
<1>5. ASSUME UNCHANGED <<buffer, frames, serial, cuts>>
      PROVE  FramesInv'
  BY <1>5 DEF FramesInv
<1>6. CASE Reset
  BY <1>5, <1>6 DEF Reset
<1>7. ASSUME UNCHANGED bridge
      PROVE  FramesInv'
  BY <1>5, <1>7 DEF bridge
<1>8. CASE PeerReads \/ PeerNotifies \/ \E d \in Data : PeerSends(d)
  BY <1>7, <1>8 DEF PeerReads, PeerNotifies, PeerSends
<1>9. CASE \/ \E c \in {"WILL", "DO"}, o \in Options : PeerOffers(c, o)
           \/ \E c \in {"WONT", "DONT"}, o \in Options : PeerWithdraws(c, o)
  BY <1>7, <1>9 DEF PeerOffers, PeerWithdraws, SaysOption
<1>10. CASE UNCHANGED vars
  BY <1>7, <1>10 DEF vars
<1> QED
  BY <1>2, <1>3, <1>4, <1>6, <1>8, <1>9, <1>10 DEF Next

\* The frames are the lines of the bytes handed over, split where they have a line feed
\* or where the buffer was given up by force, and what follows is still buffered
\* (FramesAreLines): the framer, byte by byte, keeps the frames of what it was given and
\* the rest after the last break.
THEOREM FramesAreCut == Spec => []FramesAreLines
<1>1. Init => FramesInv
  BY EmptyFramed DEF Init, FramesInv
<1>2. FramesInv => FramesAreLines
  <2> SUFFICES ASSUME FramesInv PROVE FramesAreLines
    OBVIOUS
  <2>1. Breaks = BreaksOf(serial, cuts)
    BY DEF Breaks, BreaksOf, LineFeeds
  <2>2. \A e : Before(e) = Prior(BreaksOf(serial, cuts), e)
    BY <2>1 DEF Before, Prior
  <2>3. \A e : Record(e) = RecordOf(serial, BreaksOf(serial, cuts), e)
    BY <2>2 DEF Record, RecordOf
  <2>4. \A e : LineAt(e) = LineOf(serial, BreaksOf(serial, cuts), e)
    BY <2>3 DEF LineAt, LineOf
  <2>5. Ends = EndsOf(serial, BreaksOf(serial, cuts))
    BY <2>1, <2>4 DEF Ends, EndsOf
  <2>6. Cut(serial, BreaksOf(serial, cuts), frames)
    BY DEF FramesInv, Framed
  <2>7. Len(frames) = Cardinality(Ends)
    BY <2>5, <2>6 DEF Cut
  <2>8. \A e \in Ends : frames[Cardinality({d \in Ends : d <= e})].data = LineAt(e)
    BY <2>4, <2>5, <2>6 DEF Cut, Rank
  <2>9. buffer = SubSeq(serial, Before(Len(serial) + 1) + 1, Len(serial))
    BY <2>2 DEF FramesInv, Framed
  <2> QED
    BY <2>7, <2>8, <2>9 DEF FramesAreLines, FramesInv
<1> QED
  BY <1>1, <1>2, FramesInvKept, WireInvariant, PTL DEF Spec

==============================================================================
