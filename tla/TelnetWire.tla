----------------------------- MODULE TelnetWire -----------------------------
(***************************************************************************)
(* From the bytes of the serial server to the frames of the panel: the     *)
(* read loop of bridge.py with the filter of telnet_transport.py and the   *)
(* framer of framing.py, facing a serial server that speaks telnet.        *)
(*                                                                         *)
(* The stream arrives in chunks that respect neither telnet sequences nor  *)
(* lines.  A byte is named for its meaning to telnet or to the framer; the *)
(* replies, which are never cut, are sequences of whole commands.  The     *)
(* serial server is external: it answers a request that changes one of its *)
(* options and stays silent otherwise, as RFC 854 has it.                  *)
(***************************************************************************)
EXTENDS Naturals, FiniteSets, SequencesExt, FiniteSetsExt

CONSTANTS
    Options,     \* the options the server may bring up
    Performs,    \* the options it may perform
    Accepts,     \* the options it may let the bridge perform
    Data,        \* the bytes the panel sends
    Payloads,    \* the subnegotiations the server sends
    MaxBuffer,   \* max_buffer of the framer (8192)
    MaxSaid,     \* bound of the model: the bytes of the panel, and what else the
                 \* server says of its own accord, in a session
    MaxWire      \* bound of the model: it does so while no more bytes are under way

Commands == {"WILL", "WONT", "DO", "DONT"}
Known    == {"ECHO", "SGA", "BIN", "COM"}

ASSUME OptionsAssumption ==
    /\ Known \subseteq Options
    /\ Performs \subseteq Options /\ Accepts \subseteq Options
ASSUME BoundAssumption == /\ MaxBuffer \in Nat /\ MaxSaid \in Nat /\ MaxWire \in Nat

\* What may stand between IAC SB and IAC SE (RFC 855): no SE that follows an IAC, unless
\* that one is itself the second of two.
Payload(p) ==
    \E second \in [0..Len(p) -> BOOLEAN] :      \* an IAC came and the byte after it has not
        /\ ~second[0] /\ ~second[Len(p)]
        /\ \A i \in 1..Len(p) : /\ second[i] <=> p[i] = "IAC" /\ ~second[i - 1]
                                /\ ~(second[i - 1] /\ p[i] = "SE")
ASSUME BytesAssumption ==
    /\ Payloads \subseteq Seq(STRING)
    /\ \A p \in Payloads : Payload(p)

VARIABLES
    \* the bridge
    filter,   \* TelnetSerialFilter
    buffer,   \* _buffer of the framer
    frames,   \* history: the frames it delivered
    serial,   \* history: the serial bytes that passed the filter
    cuts,     \* history: after which of them the buffer was emptied by force
    open,     \* the connection stands
    \* the network
    wire,     \* bytes on their way to the bridge
    out,      \* commands on their way to the server
    \* the server
    meant,    \* history: the bytes of the panel it sent
    him,      \* what it performs: "no", "asked", "yes"
    us,       \* what it lets the bridge perform: the same
    spoken,   \* history: the commands about options it said in this session
    said,     \* history: how often it spoke of its own accord
    set       \* how often it was given the serial parameters

bridge  == <<filter, buffer, frames, serial, cuts, open>>
server  == <<meant, him, us, spoken, said, set>>
vars    == <<bridge, wire, out, server>>

-----------------------------------------------------------------------------
(***************************************************************************)
(* TelnetSerialFilter: one byte.                                           *)
(***************************************************************************)
Fresh == [at |-> "data", command |-> "none", payload |-> <<>>,
          active |-> FALSE, started |-> FALSE,
          tx |-> "unknown", rx |-> "unknown",       \* binary: active or refused
          com |-> FALSE, configured |-> FALSE]

Configuration == <<"CONFIG">>   \* the seven requests of _rfc2217_configuration

Preamble == << <<"WONT", "ECHO">>, <<"DONT", "ECHO">>, <<"WILL", "SGA">>,
               <<"WILL", "BIN">>, <<"DO", "BIN">>, <<"DO", "COM">> >>

\* A step of a feed: the filter after it, the serial bytes and the replies.
Still(f)       == [f |-> f, serial |-> <<>>, replies |-> <<>>]
Goto(s, at)    == [s EXCEPT !.f.at = at]
Emit(s, b)     == [s EXCEPT !.f.at = "data", !.serial = Append(@, b)]
Replies(s, cs) == [s EXCEPT !.replies = @ \o cs]

\* The first IAC makes it active and starts the negotiation.
Activate(s) ==
    IF s.f.active THEN s
    ELSE [Replies(s, IF s.f.started THEN <<>> ELSE Preamble)
             EXCEPT !.f.active = TRUE, !.f.started = TRUE]

\* The serial parameters are sent when the option is first agreed on.
ActivateRfc2217(s) ==
    [Replies(s, IF s.f.configured THEN <<>> ELSE <<Configuration>>)
        EXCEPT !.f.com = TRUE, !.f.configured = TRUE]

\* _reply_to_negotiation.  What the preamble asked for gets no further reply when
\* it is granted, and a refusal none at all.
OnWill(s, o) ==
    CASE o = "ECHO" -> s
      [] o = "SGA"  -> Replies(s, << <<"DO", o>> >>)
      [] o = "COM"  -> ActivateRfc2217(s)
      [] o = "BIN"  -> [s EXCEPT !.f.rx = "yes"]
      [] OTHER      -> Replies(s, << <<"DONT", o>> >>)

OnDo(s, o) ==
    CASE o = "SGA" -> s
      [] o = "COM" -> ActivateRfc2217(Replies(s, << <<"WILL", o>> >>))
      [] o = "BIN" -> [s EXCEPT !.f.tx = "yes"]
      [] OTHER     -> Replies(s, << <<"WONT", o>> >>)

OnWontConfigures(s, o) ==
    CASE o = "BIN" -> [s EXCEPT !.f.rx = "no"]
      [] o = "COM" -> [ActivateRfc2217(s) EXCEPT !.f.com = FALSE]
      [] OTHER     -> s
OnWont(s, o) ==
    CASE o = "BIN" -> [s EXCEPT !.f.rx = "no"]
      [] o = "COM" -> [s EXCEPT !.f.com = FALSE]
      [] OTHER     -> s

OnDontInsists(s, o) ==
    CASE o = "BIN" -> Replies([s EXCEPT !.f.tx = "no"], << <<"WILL", o>> >>)
      [] o = "COM" -> [s EXCEPT !.f.com = FALSE]
      [] OTHER     -> s
OnDont(s, o) ==
    CASE o = "BIN" -> [s EXCEPT !.f.tx = "no"]
      [] o = "COM" -> [s EXCEPT !.f.com = FALSE]
      [] OTHER     -> s

\* _process_subnegotiation: a message about the port shows that the option is on.
ProcessSubnegotiation(s) ==
    [s EXCEPT !.f.at = "data", !.f.payload = <<>>,
              !.f.com = @ \/ (s.f.payload # <<>> /\ s.f.payload[1] = "COM")]

AfterIac(s, b) ==
    CASE b = "IAC"      -> Emit(s, b)
      [] b \in Commands -> [s EXCEPT !.f.at = "neg", !.f.command = b]
      [] b = "SB"       -> [s EXCEPT !.f.at = "sub", !.f.payload = <<>>]
      [] OTHER          -> Goto(s, "data")

Negotiate(s, o) ==
    LET t == [s EXCEPT !.f.at = "data", !.f.command = "none"]
    IN CASE s.f.command = "WILL" -> OnWill(t, o)
         [] s.f.command = "DO"   -> OnDo(t, o)
         [] s.f.command = "WONT" -> OnWont(t, o)
         [] s.f.command = "DONT" -> OnDont(t, o)

AfterSubIacLeaves(s, b) ==
    CASE b = "SE"  -> ProcessSubnegotiation(s)
      [] b = "IAC" -> [s EXCEPT !.f.at = "sub", !.f.payload = Append(@, b)]
      [] OTHER     -> Goto(s, "data")
AfterSubIac(s, b) ==
    CASE b = "SE"  -> ProcessSubnegotiation(s)
      [] b = "IAC" -> [s EXCEPT !.f.at = "sub", !.f.payload = Append(@, b)]
      [] OTHER     -> Goto(s, "sub")

FeedByte(s, b) ==
    CASE s.f.at = "data"   -> IF b = "IAC" THEN Goto(s, "iac") ELSE Emit(s, b)
      [] s.f.at = "iac"    -> AfterIac(Activate(s), b)
      [] s.f.at = "neg"    -> Negotiate(s, b)
      [] s.f.at = "sub"    -> IF b = "IAC" THEN Goto(s, "subiac")
                              ELSE [s EXCEPT !.f.payload = Append(@, b)]
      [] s.f.at = "subiac" -> AfterSubIac(s, b)

\* A byte more, and what a feed has come to after each byte of the chunk.
Extend(s, step) == [f |-> step.f, serial |-> s.serial \o step.serial,
                    replies |-> s.replies \o step.replies]
Then(s, b)      == Extend(s, FeedByte(Still(s.f), b))
Feeds(f, chunk) ==
    LET after[i \in 0..Len(chunk)] ==
            IF i = 0 THEN Still(f) ELSE Then(after[i - 1], chunk[i])
    IN after
Feed(f, chunk) == Feeds(f, chunk)[Len(chunk)]

-----------------------------------------------------------------------------
(***************************************************************************)
(* VistaStreamFramer: the buffer with the new bytes, cut at every line     *)
(* feed, and given up as one frame when what is left is too long.          *)
(***************************************************************************)
Frame(record, termination) ==
    IF record = <<>> THEN <<>> ELSE << [data |-> record, termination |-> termination] >>

Line(record) ==
    IF record # <<>> /\ Last(record) = "CR" THEN Frame(Front(record), "crlf")
                                            ELSE Frame(record, "lf")

FramerByteStalls(t, b) ==
    IF b = "LF" /\ t.rest # <<>>
    THEN [frames |-> t.frames \o Line(t.rest), rest |-> <<>>]
    ELSE [t EXCEPT !.rest = Append(@, b)]
FramerByte(t, b) ==
    IF b = "LF" THEN [frames |-> t.frames \o Line(t.rest), rest |-> <<>>]
                ELSE [t EXCEPT !.rest = Append(@, b)]

\* The buffer holds no line feed, so only the new bytes can end a line: what there is
\* after each of them.
Lines(chunk) ==
    LET after[i \in 0..Len(chunk)] ==
            IF i = 0 THEN [frames |-> <<>>, rest |-> buffer]
            ELSE FramerByte(after[i - 1], chunk[i])
    IN after

FramerFeed(chunk) ==
    LET t == Lines(chunk)[Len(chunk)]
        full == Len(t.rest) > MaxBuffer
    IN /\ frames' = frames \o t.frames
                      \o (IF full THEN Frame(t.rest, "overflow") ELSE <<>>)
       /\ buffer' = IF full THEN <<>> ELSE t.rest
       /\ cuts' = IF full THEN cuts \cup {Len(serial) + Len(chunk)} ELSE cuts

\* flush_idle
FlushIdle ==
    /\ frames' = frames \o Frame(buffer, "idle")
    /\ buffer' = <<>>
    /\ cuts' = IF buffer = <<>> THEN cuts ELSE cuts \cup {Len(serial)}

-----------------------------------------------------------------------------
(***************************************************************************)
(* The read loop.  A read returns any part of what has arrived.            *)
(***************************************************************************)
Read(n) ==
    /\ open
    /\ wire' = SubSeq(wire, n + 1, Len(wire))
    /\ \E r \in {Feed(filter, SubSeq(wire, 1, n))} :     \* the one r there is
          /\ filter' = r.f
          /\ serial' = serial \o r.serial
          /\ out' = out \o r.replies
          /\ FramerFeed(r.serial)
    /\ UNCHANGED <<open, server>>

\* No byte came for frame_idle_ms.
Idle ==
    /\ open /\ buffer # <<>>
    /\ FlushIdle
    /\ UNCHANGED <<filter, serial, open, wire, out, server>>

EndOfStream ==
    /\ open /\ wire = <<>> /\ meant # <<>>
    /\ FlushIdle
    /\ open' = FALSE
    /\ UNCHANGED <<filter, serial, wire, out, server>>

\* read() raises: what was buffered goes with the session.
Reset ==
    /\ open /\ wire # <<>>
    /\ open' = FALSE /\ wire' = <<>> /\ out' = <<>>
    /\ UNCHANGED <<filter, buffer, frames, serial, cuts, server>>

\* _start_session: a new framer and a new filter for a server that starts anew.
Reconnect ==
    /\ ~open
    /\ open' = TRUE
    /\ buffer' = <<>> /\ frames' = <<>> /\ cuts' = {} /\ filter' = Fresh
    /\ serial' = <<>> /\ meant' = <<>>
    /\ wire' = <<>> /\ out' = <<>>
    /\ him' = [o \in Options |-> "no"] /\ us' = him'
    /\ spoken' = {} /\ said' = 0 /\ set' = 0

-----------------------------------------------------------------------------
(***************************************************************************)
(* The serial server.                                                      *)
(***************************************************************************)
Option(c, o) == <<"IAC", c, o>>

MaySend == open /\ Len(wire) <= MaxWire

\* What it says of its own accord.
Says(bytes) ==
    /\ MaySend /\ said < MaxSaid
    /\ said' = said + 1
    /\ wire' = wire \o bytes

\* It may refuse what it is asked for, and nothing else.
Grants(o, want, willing) == IF want /\ o \in willing THEN BOOLEAN ELSE {FALSE}

\* It brings the option to the state asked for, and says so unless it is the answer to
\* an offer of its own or changes nothing.
Settle(state, o, want, granted, yes, no) ==
    LET silent == \/ state[o] = "asked"
                  \/ state[o] = (IF want THEN "yes" ELSE "no")
    IN [state |-> [state EXCEPT ![o] = IF granted \/ (want /\ silent) THEN "yes" ELSE "no"],
        says  |-> IF silent THEN <<>> ELSE Option(IF granted THEN yes ELSE no, o)]

PeerReads ==
    /\ MaySend /\ out # <<>>
    /\ out' = Tail(out)
    /\ LET c == Head(out)
       IN \/ /\ c = Configuration
             /\ set' = set + 1
             /\ UNCHANGED <<wire, him, us, spoken>>
          \/ /\ c[1] \in {"DO", "DONT"}
             /\ \E granted \in Grants(c[2], c[1] = "DO", Performs) :
                   LET r == Settle(him, c[2], c[1] = "DO", granted, "WILL", "WONT")
                   IN /\ him' = r.state /\ wire' = wire \o r.says
                      /\ spoken' = spoken \cup ({r.says} \ {<<>>})
             /\ UNCHANGED <<us, set>>
          \/ /\ c[1] \in {"WILL", "WONT"}
             /\ \E granted \in Grants(c[2], c[1] = "WILL", Accepts) :
                   LET r == Settle(us, c[2], c[1] = "WILL", granted, "DO", "DONT")
                   IN /\ us' = r.state /\ wire' = wire \o r.says
                      /\ spoken' = spoken \cup ({r.says} \ {<<>>})
             /\ UNCHANGED <<him, set>>
    /\ UNCHANGED <<bridge, meant, said>>

\* What it says about an option of its own accord.
SaysOption(c, o) ==
    /\ Says(Option(c, o))
    /\ spoken' = spoken \cup {Option(c, o)}
    /\ UNCHANGED <<bridge, out, meant, set>>

\* It offers an option.
PeerOffers(c, o) ==
    /\ \/ /\ c = "WILL" /\ o \in Performs /\ him[o] = "no"
          /\ him' = [him EXCEPT ![o] = "asked"] /\ UNCHANGED us
       \/ /\ c = "DO" /\ o \in Accepts /\ us[o] = "no"
          /\ us' = [us EXCEPT ![o] = "asked"] /\ UNCHANGED him
    /\ SaysOption(c, o)

\* It takes back what was agreed.
PeerWithdraws(c, o) ==
    /\ \/ /\ c = "WONT" /\ him[o] = "yes"
          /\ him' = [him EXCEPT ![o] = "no"] /\ UNCHANGED us
       \/ /\ c = "DONT" /\ us[o] = "yes"
          /\ us' = [us EXCEPT ![o] = "no"] /\ UNCHANGED him
    /\ SaysOption(c, o)

\* A command of one byte, or a subnegotiation.
PeerNotifies ==
    /\ \/ Says(<<"IAC", "NOP">>)
       \/ \E p \in Payloads : Says(<<"IAC", "SB">> \o p \o <<"IAC", "SE">>)
    /\ UNCHANGED <<bridge, out, meant, him, us, spoken, set>>

PeerSends(d) ==
    /\ Says(IF d = "IAC" THEN <<"IAC", "IAC">> ELSE <<d>>)
    /\ meant' = Append(meant, d)
    /\ UNCHANGED <<bridge, out, him, us, spoken, set>>

-----------------------------------------------------------------------------
Init ==
    /\ filter = Fresh /\ buffer = <<>> /\ frames = <<>> /\ serial = <<>> /\ cuts = {}
    /\ open = TRUE /\ wire = <<>> /\ out = <<>> /\ meant = <<>>
    /\ him = [o \in Options |-> "no"] /\ us = him
    /\ spoken = {} /\ said = 0 /\ set = 0

Next ==
    \/ \E n \in 1..Len(wire) : Read(n)
    \/ Idle \/ EndOfStream \/ Reset \/ Reconnect
    \/ PeerReads
    \/ \E c \in {"WILL", "DO"}, o \in Options : PeerOffers(c, o)
    \/ \E c \in {"WONT", "DONT"}, o \in Options : PeerWithdraws(c, o)
    \/ PeerNotifies
    \/ \E d \in Data : PeerSends(d)

\* Both ends keep reading: the read loop has nothing else to do, and a server
\* that stops reading is a connection that stands still.
Fairness == WF_vars(\E n \in 1..Len(wire) : Read(n)) /\ WF_vars(PeerReads)

Spec == Init /\ [][Next]_vars /\ Fairness

-----------------------------------------------------------------------------
\* The bytes that reach the framer are the bytes of the panel, in order, none
\* added, lost or doubled, however reads cut the stream and whatever telnet says in
\* between (TelnetSerialFilter.feed keeps its state across reads).
SerialIsWhatWasSent ==
    open => /\ IsPrefix(serial, meant)
            /\ wire = <<>> => serial = meant /\ filter.at = "data"

\* The frames are the lines of the byte stream, split where it has a line feed or
\* where the buffer was emptied by force, the same however reads cut the stream
\* (VistaStreamFramer.feed): one frame for every break whose line is not empty, in
\* order.  What follows the last break is still buffered, and never more than
\* max_buffer bytes.
Breaks    == {i \in 1..Len(serial) : serial[i] = "LF"} \cup cuts
Before(e) == Max({0} \cup {b \in Breaks : b < e})
Record(e) == SubSeq(serial, Before(e) + 1, IF serial[e] = "LF" THEN e - 1 ELSE e)
LineAt(e) == IF serial[e] = "LF" /\ Record(e) # <<>> /\ Last(Record(e)) = "CR"
             THEN Front(Record(e)) ELSE Record(e)
Ends      == {e \in Breaks : LineAt(e) # <<>>}
FramesAreLines ==
    /\ Len(frames) = Cardinality(Ends)
    /\ \A e \in Ends : frames[Cardinality({d \in Ends : d <= e})].data = LineAt(e)
    /\ buffer = SubSeq(serial, Before(Len(serial) + 1) + 1, Len(serial))
    /\ Len(buffer) <= MaxBuffer

\* The server is given the serial parameters at most once, and only if it has said that
\* it will use the port option or that the bridge may (_activate_rfc2217).  Once nothing
\* is under way, it was given them if the option is on; and the bridge believes of binary
\* mode what the server says of it, in each direction: on if it is agreed on, off if it
\* is not.  There is one case where it is on for the bridge and not yet for the server,
\* which waits for an answer to its offer: the filter takes an offer of binary mode for
\* the answer to the preamble and never replies, so one that the server makes after it
\* has refused binary mode or taken it back, and no other, is believed for good without
\* being acknowledged.
PortGranted == Option("WILL", "COM") \in spoken \/ Option("DO", "COM") \in spoken
BeliefIsTrue ==
    /\ set <= 1
    /\ open /\ (set = 1 \/ filter.configured) => PortGranted
    /\ (open /\ wire = <<>> /\ out = <<>> /\ filter.started) =>
          /\ ("yes" \in {him["COM"], us["COM"]}) => set = 1
          /\ filter.rx = "yes" <=> him["BIN"] # "no"
          /\ him["BIN"] = "asked" => Option("WONT", "BIN") \in spoken
          /\ filter.tx = "yes" <=> us["BIN"] # "no"
          /\ us["BIN"] = "asked" => Option("DONT", "BIN") \in spoken

\* The negotiation comes to an end: while a connection stands, both sides again and
\* again have nothing left to answer (_reply_to_negotiation repeats no request).
NegotiationEnds == []<>(~open \/ (wire = <<>> /\ out = <<>>))
=============================================================================
