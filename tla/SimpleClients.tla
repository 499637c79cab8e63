--------------------------- MODULE SimpleClients ----------------------------
(***************************************************************************)
(* The clients that make one request, or hold one session, over one        *)
(* connection: DICT, Gopher, Telnet and file; MQTT; RTSP; and TFTP over    *)
(* datagrams.                                                              *)
(***************************************************************************)
EXTENDS Dialogue

CONSTANTS MaxItems,   \* bound: lines of a text block, items of a Telnet stream
          MaxFrames,    \* bound: interleaved frames an RTSP server sends
          FileBlocks,   \* TFTP: blocks in the file, the last one short
          Modulus,      \* block numbers are mod 2^16 in the code
          MaxRetries,   \* MAX_RETRIES
          NetFaults,    \* bound: losses, duplications, swaps and server resends
          MaxInFlight   \* bound: datagrams queued each way

-----------------------------------------------------------------------------
(***************************************************************************)
(* DICT, Gopher, Telnet and file: one request and everything up to the     *)
(* end.  DICT's text blocks are dot-stuffed lines, Telnet's stream mixes   *)
(* commands into the data, and file is the local disk.                     *)
(***************************************************************************)
Line == UNION {[1..n -> {"dot", "a"}] : n \in 0..2}
Seqs(S) == UNION {[1..n -> S] : n \in 0..MaxItems}
NoOptions == [implicit |-> FALSE, required |-> FALSE, login |-> FALSE]

\* The items of a Telnet server's stream, and how each looks on the wire.
Items == {"a", "0xFF", "WILL", "DO", "WONT", "SB", "NOP"}
Wire(item) ==
    CASE item = "a"    -> <<"a">>
      [] item = "0xFF" -> <<"IAC", "IAC">>
      [] item = "SB"   -> <<"IAC", "SB", "a", "IAC", "IAC", "SE", "IAC", "SE">>
      [] item = "NOP"  -> <<"IAC", "NOP">>
      [] OTHER         -> <<"IAC", item, "IAC">>     \* option number 255

Verbs == {"DEFINE", "MATCH", "SHOW"}

TextInit ==
    \E proto \in {"dict", "gopher", "telnet", "file"} :
    \E opt \in {NoOptions, [NoOptions EXCEPT !.implicit = TRUE]} :
    \E verb \in Verbs :
        /\ opt.implicit => proto = "gopher"
        /\ proto # "dict" => verb = "SHOW"
        /\ d = Opened(proto, opt, [verb |-> verb, text |-> <<>>, out |-> <<>>, replies |-> <<>>])

-----------------------------------------------------------------------------
(* DICT *)

\* Banner 220, then CLIENT, whose reply is discarded, then the command.
DictHello == At("dict", "greeting") /\ \E c220 \in BOOLEAN : d' = Expect(d, c220, "response")

\* A line ".x" is text that began with a dot; "." ends the block.
read_text_block(lines) ==
    LET stop == CHOOSE k \in 1..Len(lines) :
                    lines[k] = <<"dot">> /\ \A j \in 1..(k - 1) : lines[j] # <<"dot">>
        Unstuffed(l) == IF l # <<>> /\ l[1] = "dot" THEN Tail(l) ELSE l
    IN  [k \in 1..(stop - 1) |-> Unstuffed(lines[k])]

Stuffed(l) == IF l # <<>> /\ l[1] = "dot" THEN <<"dot">> \o l ELSE l

Codes == {"110", "130", "150", "151", "152", "230", "250", "other 2xx", "other", "4xx/5xx"}

\* One status line: an error, a text block of the verb's own (of DEFINE's there may be
\* several), something to read past, or the end.  An unforeseen code is the end too, an
\* informational one included.  The status texts that are copied out with it are left out.
read_response ==
    /\ At("dict", "response")
    /\ \E c \in Codes, text \in Seqs(Line) :
         LET block == <<d.x.verb, c>> \in {<<"SHOW", "110">>, <<"MATCH", "152">>, <<"DEFINE", "151">>}
             past  == c \in {"130", "230"} \/ <<d.x.verb, c>> = <<"DEFINE", "150">>
             wire  == [k \in 1..Len(text) |-> Stuffed(text[k])] \o << <<"dot">> >>
         IN  /\ block => Len(d.x.text) + Len(text) <= MaxItems
             /\ ~block => text = <<>>
             /\ d' = IF c = "4xx/5xx" THEN Fail(d)
                     ELSE IF block THEN [d EXCEPT !.x.text = @ \o text, !.x.out = @ \o read_text_block(wire)]
                     ELSE IF past THEN d
                     ELSE Then(d, "quit")

-----------------------------------------------------------------------------
(* Gopher: the selector line, then everything until the server closes. *)

Gopher ==
    /\ At("gopher", "greeting")
    /\ \E over_cap \in BOOLEAN :
         d' = IF over_cap THEN Fail(d) ELSE Succeed(d)

-----------------------------------------------------------------------------
(* Telnet *)

escape_iac(data) == FlattenSeq([k \in 1..Len(data) |->
                        IF data[k] = "0xFF" THEN <<"IAC", "IAC">> ELSE <<data[k]>>])

\* One byte through the parser, whose state outlives the read it came in.
feed(p, b) ==
    CASE p.state = "Data"  -> IF b = "IAC" THEN [p EXCEPT !.state = "Iac"]
                              ELSE [p EXCEPT !.out = Append(@, b)]
      [] p.state = "Iac"   -> IF b = "IAC" THEN [p EXCEPT !.out = Append(@, "0xFF"), !.state = "Data"]
                              ELSE [p EXCEPT !.state = IF b \in {"WILL", "WONT", "DO", "DONT"} THEN b
                                                       ELSE IF b = "SB" THEN "Sb" ELSE "Data"]
      [] p.state = "Sb"    -> [p EXCEPT !.state = IF b = "IAC" THEN "SbIac" ELSE "Sb"]
      [] p.state = "SbIac" -> [p EXCEPT !.state = IF b = "SE" THEN "Data" ELSE "Sb"]
      [] p.state = "WILL"  -> [p EXCEPT !.replies = Append(@, "DONT"), !.state = "Data"]
      [] p.state = "DO"    -> [p EXCEPT !.replies = Append(@, "WONT"), !.state = "Data"]
      [] OTHER             -> [p EXCEPT !.state = "Data"]

Parsed(wire) == FoldLeft(feed, [state |-> "Data", out |-> <<>>, replies |-> <<>>], wire)

Telnet ==
    /\ At("telnet", "greeting")
    /\ \E text \in Seqs(Items), over_cap \in BOOLEAN :
         LET p == Parsed(FlattenSeq([k \in 1..Len(text) |-> Wire(text[k])]))
             e == [d EXCEPT !.x.text = text, !.x.out = p.out, !.x.replies = p.replies]
         IN  d' = IF over_cap THEN Fail(e) ELSE Succeed(e)

-----------------------------------------------------------------------------
(* file: only a local host and only a regular file, copied to the sink. *)

fetch_to ==
    /\ At("file", "greeting")
    /\ \E host \in {"", "localhost", "remote"}, node \in {"file", "directory", "other", "missing"} :
         d' = IF host = "remote" \/ node # "file" THEN Fail(d) ELSE Succeed(d)

TextNext == DictHello \/ read_response \/ Gopher \/ Telnet \/ fetch_to

DataOf(text) == SelectSeq(text, LAMBDA i : i \in {"a", "0xFF"})
Asked(text) == SelectSeq(text, LAMBDA i : i \in {"WILL", "DO"})

\* A DICT text block comes out line for line; a Telnet stream gives exactly its data bytes,
\* and one refusal for each offer or demand; and what a client sends parses back to itself.
TextIntact ==
    /\ d.proto = "dict" => d.x.out = d.x.text
    /\ d.proto = "telnet" =>
         /\ d.x.out = DataOf(d.x.text)
         /\ d.x.replies = [k \in 1..Len(Asked(d.x.text)) |->
                              IF Asked(d.x.text)[k] = "WILL" THEN "DONT" ELSE "WONT"]
         /\ Parsed(escape_iac(d.x.out)).out = d.x.out

-----------------------------------------------------------------------------
(***************************************************************************)
(* MQTT: CONNECT, then either one PUBLISH (with its PUBACK at QoS 1) or a  *)
(* subscription that waits for the first PUBLISH, pinging the broker       *)
(* whenever the line is idle.                                              *)
(***************************************************************************)
\* Sizes around every boundary of the length encoding.
Lengths == {0, 1, 127, 128, 16383, 16384, 2097151, 2097152, 268435455}

MqttInit ==
    \E opt \in Options, op \in {"subscribe", "publish 0", "publish 1"}, len \in Lengths :
        /\ ~opt.required
        /\ op = "subscribe" => len = 0
        /\ d = Opened("mqtt", opt, [op |-> op, len |-> len, wire |-> <<>>, ping |-> FALSE])

\* Seven bits a byte, low ones first, the high bit set on all but the last.
write_remaining_length(len) ==
    LET bytes == CHOOSE n \in 1..4 : len < 128 ^ n /\ (n = 1 \/ len >= 128 ^ (n - 1))
    IN  [i \in 1..bytes |-> ((len \div 128 ^ (i - 1)) % 128) + (IF i < bytes THEN 128 ELSE 0)]

read_remaining_length(wire) ==
    FoldLeft(LAMBDA v, i : v + (wire[i] % 128) * 128 ^ (i - 1), 0, [i \in 1..Len(wire) |-> i])

connect_handshake ==
    /\ At("mqtt", "greeting")
    /\ \E p \in {"CONNACK 0", "CONNACK refused", "other"} :
         d' = Expect(IF d.opt.login THEN Said(d, "login") ELSE d, p = "CONNACK 0",
                     IF d.x.op = "subscribe" THEN "subscribe" ELSE "publish")

\* QoS 0 is sent and forgotten; QoS 1 waits for the matching PUBACK.
Publish ==
    /\ At("mqtt", "publish")
    /\ LET e == [Said(d, "data") EXCEPT !.x.wire = write_remaining_length(d.x.len)]
       IN  d' = IF d.x.op = "publish 0" THEN Then(e, "quit") ELSE Then(e, "puback")

Puback ==
    /\ At("mqtt", "puback")
    /\ \E p \in {"PUBACK", "PUBACK of another", "PINGRESP", "other"} :
         d' = IF p = "PINGRESP" THEN d
              ELSE Expect(d, p = "PUBACK", "quit")

Subscribe ==
    /\ At("mqtt", "subscribe")
    /\ \E p \in {"SUBACK", "SUBACK 0x80", "other"} : d' = Expect(d, p = "SUBACK", "wait")

Wait ==
    /\ At("mqtt", "wait")
    /\ \E p \in {"PUBLISH", "PINGRESP", "other"} :
         d' = IF p = "PINGRESP" THEN [d EXCEPT !.x.ping = FALSE]
              ELSE Expect(d, p = "PUBLISH", "quit")

\* An idle period sends PINGREQ; a second one with it unanswered gives the broker up.
Idle ==
    /\ At("mqtt", "wait")
    /\ d' = IF d.x.ping THEN Fail(d) ELSE [d EXCEPT !.x.ping = TRUE]

\* The DISCONNECT is not answered.
MqttNext == connect_handshake \/ Publish \/ Puback \/ Subscribe \/ Wait \/ Idle

\* The length a broker decodes is the length that was encoded.
LengthIntact ==
    d.proto = "mqtt" /\ d.x.wire # <<>> => read_remaining_length(d.x.wire) = d.x.len

-----------------------------------------------------------------------------
(***************************************************************************)
(* RTSP: the requests one method stands for, on one connection, each       *)
(* answered under its own CSeq; SETUP's session id goes with every later   *)
(* request; PLAY then takes the interleaved frames off the same stream.    *)
(***************************************************************************)
\* run_method: every method runs the ones it depends on first.
Plan(method) ==
    CASE method = "OPTIONS"  -> <<"OPTIONS">>
      [] method = "DESCRIBE" -> <<"DESCRIBE">>
      [] method = "SETUP"    -> <<"OPTIONS", "DESCRIBE", "SETUP">>
      [] method = "PLAY"     -> <<"OPTIONS", "DESCRIBE", "SETUP", "PLAY">>
      [] method = "TEARDOWN" -> <<"OPTIONS", "DESCRIBE", "SETUP", "PLAY", "TEARDOWN">>

RtspInit ==
    \E method \in {"OPTIONS", "DESCRIBE", "SETUP", "PLAY", "TEARDOWN"} :
        d = Opened("rtsp", [implicit |-> FALSE, required |-> FALSE, login |-> FALSE],
                   [method |-> method, left |-> Plan(method), cseq |-> 1, session |-> 0,
                    answers |-> <<>>, frames |-> 0])

Sent(e) == [e EXCEPT !.x.cseq = @ + 1]
Request == d.x.left[1]

\* What can be next on the stream: the answer to this request (late answers to earlier ones
\* cannot be told from it by position), or, once playing, a frame of media.
Answers == [cseq : {d.x.cseq, d.x.cseq - 1, 0}, ok : BOOLEAN, session : 0..1, media : BOOLEAN]

request(a) == ~a.media /\ a.cseq = d.x.cseq /\ a.ok

setup(a) == Request = "SETUP" => a.session # 0
play(e) == e.x.left[1] \in {"PLAY", "TEARDOWN"} => e.x.session # 0

RtspExchange ==
    /\ At("rtsp", "greeting")
    /\ \E a \in Answers :
         /\ a.media => Request = "TEARDOWN"
         /\ LET last == Len(d.x.left) = 1
                e == [Sent(d) EXCEPT
                        !.x.left = Tail(@),
                        !.x.session = IF Request = "SETUP" THEN a.session
                                      ELSE IF Request = "TEARDOWN" THEN 0 ELSE @,
                        !.x.answers = Append(@, [to |-> a.cseq, sent |-> d.x.cseq])]
            IN  d' = IF ~(play(d) /\ request(a) /\ setup(a)) THEN Fail(Sent(d))
                     ELSE IF ~last THEN e
                     ELSE IF d.x.method = "PLAY" THEN Then(e, "media") ELSE Succeed(e)

\* Frames until the stream closes or idles, a byte that starts no frame, a frame cut short,
\* or the cap.
read_interleaved ==
    /\ At("rtsp", "media")
    /\ \/ d.x.frames < MaxFrames /\ d' = [d EXCEPT !.x.frames = @ + 1]
       \/ d' = Succeed(d)

RtspNext == RtspExchange \/ read_interleaved

\* Every answer taken as a request's own is the answer to that request.
AnswersMatch == d.proto = "rtsp" => \A k \in 1..Len(d.x.answers) :
                    d.x.answers[k].to = d.x.answers[k].sent

-----------------------------------------------------------------------------
(***************************************************************************)
(* TFTP download and upload over a network that loses, duplicates and      *)
(* swaps datagrams.  A duplicated request makes the server open a second   *)
(* session on another port (TID); block numbers wrap.  The server, as RFC  *)
(* 1350 has it, is external.                                               *)
(***************************************************************************)
Sessions == 1..2
Wrap(k) == k % Modulus
Append2(q, p) == IF Len(q) < MaxInFlight THEN Append(q, p) ELSE q   \* a full queue drops

FirstPacket == [op |-> "request", block |-> 0, k |-> 0, tid |-> 0]
DataBlock(k, tid) == [op |-> "data", block |-> Wrap(k), k |-> k, tid |-> tid]
AckOf(b, tid) == [op |-> "ack", block |-> b, k |-> 0, tid |-> tid]

TftpInit ==
    \E mode \in {"get", "put"} :
        d = [Opened("tftp", [implicit |-> FALSE, required |-> FALSE, login |-> FALSE],
               [mode |-> mode, peer |-> 0, block |-> IF mode = "get" THEN 1 ELSE 0, moved |-> 0,
                out |-> <<>>, last |-> FirstPacket, retries |-> 0, faults |-> 0,
                up |-> <<FirstPacket>>, down |-> <<>>,
                server |-> [s \in Sessions |-> [open |-> FALSE, k |-> 0, file |-> <<>>]]])
             EXCEPT !.pc = "recv"]

X == d.x
Running == d.proto = "tftp" /\ d.pc = "recv"
Set(x) == d' = [d EXCEPT !.x = x]
Pop(x) == [x EXCEPT !.down = Tail(@)]
Post(x, p) == [x EXCEPT !.up = Append2(@, p)]
Head1 == X.down[1]

\* Once latched only the peer's exact TID is heard; before, any port of the server's host.
accepted_source == X.peer = 0 \/ Head1.tid = X.peer

Discard == Running /\ X.down # <<>> /\ ~accepted_source /\ Set(Pop(X))

\* The expected block is stored and acknowledged, and the short one ends the transfer.
FetchData ==
    /\ Running /\ X.mode = "get" /\ X.down # <<>> /\ accepted_source
    /\ LET p   == Head1
           ack == AckOf(p.block, p.tid)
           x   == Post(Pop(X), ack)
           got == [x EXCEPT !.peer = p.tid, !.out = Append(@, p.k)]
       IN  IF p.block # X.block
           THEN Set(IF X.peer # 0 /\ Wrap(p.block + 1) = X.block THEN x ELSE Pop(X))
           ELSE IF p.k = FileBlocks
           THEN d' = [Succeed(d) EXCEPT !.x = got]
           ELSE Set([got EXCEPT !.last = ack, !.retries = 0, !.block = Wrap(@ + 1)])

\* Only the ACK of the block last sent advances; a stale or duplicate one is ignored.
StoreAck ==
    /\ Running /\ X.mode = "put" /\ X.down # <<>> /\ accepted_source
    /\ LET p    == Head1
           next == DataBlock(X.moved + 1, p.tid)
       IN  IF p.block # X.block THEN Set(Pop(X))
           ELSE IF X.moved = FileBlocks
           THEN d' = [Succeed(d) EXCEPT !.x = Pop(X)]
           ELSE Set([Post(Pop(X), next) EXCEPT !.peer = p.tid, !.block = next.block,
                        !.moved = @ + 1, !.last = next, !.retries = 0])

\* READ_TIMEOUT, with what `down` holds still on its way: resend the last packet, MAX_RETRIES
\* times.  An ERROR or unexpected packet and the deadlines are Broken.
Timeout ==
    /\ Running
    /\ IF X.retries >= MaxRetries THEN d' = Fail(d)
       ELSE Set([Post(X, X.last) EXCEPT !.retries = @ + 1])

-----------------------------------------------------------------------------
(* TFTP's server, a session per request it sees, and the network. *)

Reply(x, p) == [x EXCEPT !.down = Append2(@, p)]

ServerRecv ==
    /\ Running /\ X.up # <<>>
    /\ LET p == X.up[1]
           x == [X EXCEPT !.up = Tail(@)]
           s == CHOOSE s \in Sessions : ~X.server[s].open /\ \A t \in Sessions : t < s => X.server[t].open
           t == p.tid
           k == X.server[t].k
       IN  IF p.op = "request"
           THEN Set(IF \A u \in Sessions : X.server[u].open THEN x
                    ELSE LET first == IF X.mode = "get" THEN DataBlock(1, s) ELSE AckOf(0, s)
                         IN  Reply([x EXCEPT !.server[s].open = TRUE,
                                             !.server[s].k = IF X.mode = "get" THEN 1 ELSE 0], first))
           ELSE IF p.op = "ack"
           THEN Set(IF p.block = Wrap(k) /\ k < FileBlocks
                    THEN Reply([x EXCEPT !.server[t].k = @ + 1], DataBlock(k + 1, t)) ELSE x)
           ELSE Set(IF p.block = Wrap(k + 1) /\ k < FileBlocks
                    THEN Reply([x EXCEPT !.server[t].k = @ + 1, !.server[t].file = Append(@, p.k)],
                               AckOf(p.block, t))
                    ELSE Reply(x, AckOf(Wrap(k), t)))

Faulty(x) == X.faults < NetFaults /\ Set([x EXCEPT !.faults = @ + 1])

Lose == Running /\ ( \/ X.up # <<>> /\ Faulty([X EXCEPT !.up = Tail(@)])
                     \/ X.down # <<>> /\ Faulty([X EXCEPT !.down = Tail(@)]))

Twice(q) == <<q[1]>> \o q
Duplicate == Running /\ ( \/ X.up # <<>> /\ Faulty([X EXCEPT !.up = Twice(@)])
                          \/ X.down # <<>> /\ Faulty([X EXCEPT !.down = Twice(@)]))

Swapped(q) == <<q[2], q[1]>> \o SubSeq(q, 3, Len(q))
Swap == Running /\ ( \/ Len(X.up) > 1 /\ Faulty([X EXCEPT !.up = Swapped(@)])
                     \/ Len(X.down) > 1 /\ Faulty([X EXCEPT !.down = Swapped(@)]))

ServerResend ==
    /\ Running
    /\ \E s \in Sessions :
         /\ X.server[s].open
         /\ Faulty(Reply(X, IF X.mode = "get" THEN DataBlock(X.server[s].k, s)
                            ELSE AckOf(Wrap(X.server[s].k), s)))

TftpNext == \/ Discard \/ FetchData \/ StoreAck \/ Timeout \/ ServerRecv \/ Lose \/ Duplicate \/ Swap
        \/ ServerResend

\* What is written, here or by the session the client talks to, is at every moment a prefix
\* of the file, each block once and in order, and success means all of it.
FileIntact ==
    d.proto = "tftp" =>
        LET file == [k \in 1..FileBlocks |-> k]
            copy == IF d.x.mode = "get" THEN d.x.out
                    ELSE IF d.x.peer = 0 THEN <<>> ELSE d.x.server[d.x.peer].file
        IN  IsPrefix(copy, file) /\ (d.result = "ok" => copy = file)

=============================================================================
