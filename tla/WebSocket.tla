----------------------------- MODULE WebSocket -----------------------------
(***************************************************************************)
(* The WebSocket client: the upgrade, and one connection shared by a       *)
(* reader thread, a writer thread, a keepalive thread and a shutdown       *)
(* handle.  Outbound frames go through a close gate (all but the reader's  *)
(* pongs) and the `broken` flag; inbound frames are cut into two halves,   *)
(* so that a read can time out in the middle of one.  Four ways to use     *)
(* the connection: "split" (the halves on threads of their own), "solo"    *)
(* (a caller that only reads, by any of the reader's calls), "async" (one  *)
(* owner, whose futures may be dropped: a dropped write is a failed one, a *)
(* dropped read a timed-out one) and "oneshot" (`rsurl ws://...`: one      *)
(* message, then close).                                                   *)
(***************************************************************************)
EXTENDS Naturals, Sequences, SequencesExt

CONSTANTS
    MaxFrames,   \* bound: frames the peer sends to one thread or task
    MaxSplitFrames, \* bound: frames the peer sends to a split connection
    MaxSends,    \* bound: calls of the writer that put frames on the wire
    MaxFaults    \* bound: writes that fail or are dropped

VARIABLES
    conn,   \* the flags shared by the halves, and how the connection is used
    gate,   \* WsTransport.close_gate: its holder
    w,      \* each thread's write in progress
    rd,     \* WsReader: call, rxbuf, partial message, inflater, and what it delivered
    wr,     \* WsWriter: the fragments of a stream still to send, calls made
    wire,   \* what the client has put on the wire
    peer    \* the server: what it sent, and what of that is still under way

vars == <<conn, gate, w, rd, wr, wire, peer>>

Threads == {"reader", "writer", "keepalive"}
Idle == [at |-> "idle", f |-> "none", how |-> "none", ok |-> TRUE]
None == "none"

\* text: the bytes of this message are UTF-8 if it is a text one; ctx, last: what its
\* compression refers to and whether it ends in a BFINAL block.
Frame(op, fin, pay) ==
    [op |-> op, fin |-> fin, rsv1 |-> FALSE, pay |-> pay, ctx |-> <<>>, text |-> TRUE, last |-> FALSE]
Nothing == Frame("none", TRUE, <<>>)

\* How the reader is called: recv; recv_event with and without auto-pong; recv_frame.
Apis == {"recv", "event", "event_nopong", "frame"}
AutoPong == conn.api \in {"recv", "event"}

Init ==
    \E kind \in {"split", "solo", "async", "oneshot"}, api \in Apis :
        /\ kind # "solo" => api = "recv"
        /\ conn = [phase |-> "connecting", kind |-> kind, api |-> api, pmd |-> None,
                   broken |-> FALSE, send_closed |-> FALSE, recv_closed |-> FALSE,
                   shutdown |-> FALSE, stop |-> FALSE, faults |-> MaxFaults]
        /\ gate = None
        /\ w = [t \in Threads |-> Idle]
        /\ rd = [in |-> FALSE, rx |-> <<>>, partial |-> Nothing, window |-> <<>>,
                 delivered |-> <<>>, pings |-> <<>>, faulted |-> FALSE, closed |-> FALSE,
                 called |-> FALSE]
        /\ wr = [frags |-> <<>>, calls |-> 0]
        /\ wire = <<>>
        /\ peer = [net |-> <<>>, left |-> IF kind = "split" THEN MaxSplitFrames ELSE MaxFrames, open |-> Nothing, msgs |-> <<>>,
                   ctx |-> <<>>, pmd |-> None, gone |-> FALSE]

-----------------------------------------------------------------------------
(* The upgrade *)

Params == {"client_nct", "server_nct", "server_bits", "server_bits_bad",
           "client_bits_15", "client_bits", "unknown"}
Extensions ==
    {<<>>, << [name |-> "other", params |-> <<>>] >>,
     << [name |-> "pmd", params |-> <<>>], [name |-> "pmd", params |-> <<>>] >>}
    \cup {<< [name |-> "pmd", params |-> ps] >> : ps \in UNION {[1..n -> Params] : n \in 0..2}}

\* The negotiated compression, or "error": anything that was not offered fails the handshake.
parse_pmd_response(exts) ==
    LET ps == exts[1].params
        dup == \E i, j \in 1..Len(ps) : i < j /\
                  (ps[i] = ps[j] \/ {ps[i], ps[j]} = {"server_bits", "server_bits_bad"}
                                 \/ {ps[i], ps[j]} = {"client_bits", "client_bits_15"})
    IN  IF exts = <<>> THEN None
        ELSE IF \/ Len(exts) > 1 \/ exts[1].name # "pmd" \/ dup
                \/ Contains(ps, "server_bits_bad") \/ Contains(ps, "client_bits")
                \/ Contains(ps, "unknown")
             THEN "error"
        ELSE IF Contains(ps, "server_nct") THEN "reset" ELSE "takeover"

\* Status, Upgrade and Connection, the derived accept value, a subprotocol that was offered.
check_handshake_response(r) == r.switching /\ r.accept /\ r.proto \in {None, "offered"}

\* The async client offers no extension and refuses any.
Accepts(exts) == conn.kind = "async" => exts = <<>>

\* The whole head of the response, or none: it was cut short, too long or too late.
read_handshake_head == {"head", "error"}

Handshake ==
    /\ conn.phase = "connecting"
    /\ \E r \in [switching : BOOLEAN, accept : BOOLEAN, ext : Extensions,
                 proto : {None, "offered", "unoffered", "twice"}], head \in read_handshake_head :
         LET pmd == parse_pmd_response(r.ext)
             ok  == head = "head" /\ check_handshake_response(r) /\ pmd # "error" /\ Accepts(r.ext)
         IN  /\ conn.kind = "split" => r.ext = <<>>   \* bound: compression only with one thread
             /\ conn' = IF ok THEN [conn EXCEPT !.phase = "open", !.pmd = pmd]
                              ELSE [conn EXCEPT !.phase = "refused"]
             /\ peer' = IF ok THEN [peer EXCEPT !.pmd = IF r.ext = <<>> THEN None
                                       ELSE IF Contains(r.ext[1].params, "server_nct") THEN "reset"
                                       ELSE "takeover"]
                              ELSE peer
    /\ UNCHANGED <<gate, w, rd, wr, wire>>

Open == conn.phase = "open"
\* One task owns an async or one-shot connection.
Free == conn.kind # "split" => ~rd.in /\ \A t \in Threads : w[t] = Idle

-----------------------------------------------------------------------------
(* The peer *)

\* A frame arrives as two halves.
Halves(f) == << [f |-> f, half |-> 1], [f |-> f, half |-> 2] >>
\* What the peer sends ahead of the reads cannot be told from what it sends as they ask.
PeerSends == Open /\ ~peer.gone /\ peer.left > 0 /\ peer.net = <<>> /\ rd.in /\ w["reader"] = Idle
Carry(p, f) == [p EXCEPT !.net = @ \o Halves(f), !.left = @ - 1]

\* The end of a message: its bytes, unless they are text that is not UTF-8 ("junk").
Complete(p, pay, text) == [p EXCEPT !.open = Nothing, !.msgs = IF text THEN Append(@, pay) ELSE @]

\* A message opens, whole or fragmented, compressed or not; a compressed one refers to the
\* messages before it unless the server resets its context, and a BFINAL block starts afresh.
PeerData ==
    /\ PeerSends /\ peer.open = Nothing
    /\ \E fin \in BOOLEAN, text \in BOOLEAN, rsv1 \in BOOLEAN, last \in BOOLEAN :
         LET pay == <<peer.left>>
             ctx == IF rsv1 /\ peer.pmd = "takeover" THEN peer.ctx ELSE <<>>
             f   == [Frame("data", fin, pay) EXCEPT !.rsv1 = rsv1, !.ctx = ctx, !.text = text, !.last = last]
             p   == [Carry(peer, f) EXCEPT !.ctx = IF ~rsv1 THEN @ ELSE IF last THEN <<>> ELSE Append(@, pay[1])]
         IN  /\ rsv1 => peer.pmd # None
             /\ (last => rsv1) /\ (~text => ~rsv1)
             /\ peer' = IF fin THEN Complete(p, pay, text) ELSE [p EXCEPT !.open = f]
    /\ UNCHANGED <<conn, gate, w, rd, wr, wire>>

PeerContinues ==
    /\ PeerSends /\ peer.open # Nothing
    /\ \E fin \in BOOLEAN :
         LET pay == Append(peer.open.pay, peer.left)
             p   == Carry(peer, Frame("cont", fin, <<peer.left>>))
         IN  peer' = IF fin THEN Complete(p, pay, peer.open.text) ELSE [p EXCEPT !.open.pay = pay]
    /\ UNCHANGED <<conn, gate, w, rd, wr, wire>>

\* Control frames may come between fragments.  Two kinds of broken frame: one the parser
\* refuses (masked, reserved bits, over-long) and one that is illegal where it stands.
PeerControls ==
    /\ PeerSends
    /\ \E op \in {"ping", "pong", "close", "close_bad", "unparsable", "illegal"} :
         peer' = [Carry(peer, Frame(op, TRUE, <<peer.left>>)) EXCEPT !.gone = op \in {"close", "close_bad"}]
    /\ UNCHANGED <<conn, gate, w, rd, wr, wire>>

PeerDrops ==
    /\ Open /\ ~peer.gone /\ peer.net = <<>> /\ rd.in
    /\ peer' = [peer EXCEPT !.gone = TRUE, !.net = Append(@, [f |-> Frame("eof", TRUE, <<>>), half |-> 1])]
    /\ UNCHANGED <<conn, gate, w, rd, wr, wire>>

-----------------------------------------------------------------------------
(* Writing a frame: the gate and the broken flag; the socket; flush, or the flag raised. *)

Out(op, pay) == [op |-> op, pay |-> pay]
Write(how, f) == [at |-> "begin", f |-> f, how |-> how, ok |-> TRUE]
Writing(t, at) == w[t].at = at
\* The write of t goes on.
Onward(t, at, ok) == [w EXCEPT ![t] = [at |-> at, f |-> w[t].f, how |-> w[t].how, ok |-> ok]]

\* Mutant: write_unless_closed does not look at the flag.
BeginWrite_Unchecked(t) ==
    /\ Writing(t, "begin") /\ (w[t].how # "direct" => gate = None)
    /\ gate' = IF w[t].how = "direct" THEN gate ELSE t
    /\ conn' = IF w[t].how = "close" THEN [conn EXCEPT !.send_closed = TRUE] ELSE conn
    /\ w' = [w EXCEPT ![t].at = IF (w[t].how = "close" /\ conn.send_closed) \/ conn.broken THEN "refused" ELSE "put"]
    /\ UNCHANGED <<rd, wr, wire, peer>>

\* The async connection has one flag for both directions.
SendClosed(c) == [c EXCEPT !.send_closed = TRUE, !.recv_closed = @ \/ c.kind = "async"]
RecvClosed(c) == [c EXCEPT !.recv_closed = TRUE, !.send_closed = @ \/ c.kind = "async"]

\* write_unless_closed and write_close take the gate and test send_closed, which the second
\* sets; then, as for a "direct" write, check_not_broken.
BeginWrite(t) ==
    LET how    == w[t].how
        closed == conn.send_closed /\ how # "direct"
    IN  /\ Writing(t, "begin") /\ (how # "direct" => gate = None)
        /\ gate' = IF how = "direct" THEN gate ELSE t
        /\ conn' = IF how = "close" THEN SendClosed(conn) ELSE conn
        /\ w' = Onward(t, IF closed \/ conn.broken THEN "refused" ELSE "put",
                          IF closed THEN how = "close" ELSE ~conn.broken)
        /\ UNCHANGED <<rd, wr, wire, peer>>

\* kind.write_all, under the write mutex: whole, or failing with part of the frame written
\* or none of it.  A shut-down socket takes nothing.
write_all(t) ==
    /\ Writing(t, "put")
    /\ \/ /\ ~conn.shutdown
          /\ wire' = Append(wire, w[t].f)
          /\ w' = Onward(t, "flush", w[t].ok)
          /\ UNCHANGED conn
       \/ /\ conn.shutdown \/ conn.faults > 0
          /\ conn' = [conn EXCEPT !.faults = IF conn.shutdown THEN @ ELSE @ - 1]
          /\ \/ UNCHANGED wire
             \/ ~conn.shutdown /\ wire' = Append(wire, Out("torn", <<>>))
          /\ w' = Onward(t, "mark", FALSE)
    /\ UNCHANGED <<gate, rd, wr, peer>>

\* The end of the write: flush, which looks at `broken` again, or after a failure (and out of
\* the write mutex) `broken` raised; the gate is let go.
Written(t) == w[t].at \in {"flush", "mark", "refused"}
Ok(t) == w[t].ok /\ (Writing(t, "flush") => ~conn.broken)
EndWrite(t) ==
    /\ Written(t)
    /\ gate' = IF gate = t THEN None ELSE gate
    /\ conn' = [conn EXCEPT !.broken = @ \/ Writing(t, "mark")]

-----------------------------------------------------------------------------
(* WsReader *)

\* A call returns: an error of the protocol is `faulted`.
Returns(r) == [r EXCEPT !.in = FALSE]
Faulted(r) == [Returns(r) EXCEPT !.faulted = TRUE]

\* A call when the receive side is closed returns at once and changes nothing.
recv ==
    /\ Open /\ Free /\ ~rd.in /\ w["reader"] = Idle /\ ~conn.recv_closed
    /\ conn.kind = "oneshot" => ~rd.called
    /\ rd' = [rd EXCEPT !.in = TRUE, !.called = TRUE]
    /\ UNCHANGED <<conn, gate, w, wr, wire, peer>>

Reading == rd.in /\ w["reader"] = Idle
\* try_parse_frame: a whole frame at the head of rxbuf; half of another one is not a frame.
Whole == Len(rd.rx) >= 2
Parsable == rd.rx[1].half = 1 /\ rd.rx[2].half = 2 /\ rd.rx[1].f.op # "unparsable"
Top == rd.rx[1].f

\* Read more: a timeout or a dropped future keeps rxbuf and the partial message.
ReadTimesOut ==
    /\ Reading /\ ~Whole
    /\ rd' = Returns(rd)
    /\ UNCHANGED <<conn, gate, w, wr, wire, peer>>

\* Mutant: the shutdown flag is not polled.
read_polled_Parked ==
    /\ Reading /\ ~Whole /\ peer.net # <<>>
    /\ peer' = [peer EXCEPT !.net = Tail(@)]
    /\ rd' = [rd EXCEPT !.rx = Append(@, Head(peer.net))]
    /\ UNCHANGED <<conn, gate, w, wr, wire>>

read_polled ==
    /\ Reading /\ ~Whole
    /\ \/ /\ conn.shutdown
          /\ rd' = Returns(rd)
          /\ UNCHANGED <<conn, peer>>
       \/ /\ ~conn.shutdown /\ peer.net # <<>>
          /\ peer' = [peer EXCEPT !.net = Tail(@)]
          /\ IF Head(peer.net).f.op = "eof"
             THEN conn' = RecvClosed(conn) /\ rd' = Returns(rd)
             ELSE rd' = [rd EXCEPT !.rx = Append(@, Head(peer.net))] /\ UNCHANGED conn
    /\ UNCHANGED <<gate, w, wr, wire>>

\* Mutant: the finished inflater is kept after a BFINAL block.
inflate_message_Kept(r, m) ==
    LET before == IF conn.pmd = "reset" THEN <<>> ELSE r.window
    IN  [pay |-> IF before = m.ctx THEN m.pay ELSE <<0>>, window |-> Append(before, m.pay[1])]

\* Inflation is right when the inflater has seen what the compressor refers to.
inflate_message(r, m) ==
    LET before == IF conn.pmd = "reset" THEN <<>> ELSE r.window
    IN  [pay |-> IF before = m.ctx THEN m.pay ELSE <<0>>,
         window |-> IF m.last THEN <<>> ELSE Append(before, m.pay[1])]

\* A whole message m: inflated, and as text checked for UTF-8, which fails the connection
\* with 1007 (the one-shot reader just reports it).
finish_event(r, m) ==
    LET inf == IF m.rsv1 THEN inflate_message(r, m) ELSE [pay |-> m.pay, window |-> r.window]
        q   == [r EXCEPT !.window = inf.window, !.partial = Nothing]
    IN  IF m.text
        THEN /\ rd' = Returns([q EXCEPT !.delivered = Append(@, inf.pay)])
             /\ w' = IF conn.kind = "oneshot" THEN [w EXCEPT !["reader"] = Write("close", Out("close", <<>>))]
                                              ELSE w
        ELSE /\ rd' = IF conn.kind = "oneshot" THEN Faulted(q) ELSE Returns(q)
             /\ w' = IF conn.kind = "oneshot" THEN w
                     ELSE [w EXCEPT !["reader"] = Write("close", Out("close", <<1007>>))]

\* A data or continuation frame f; r is the reader with f taken off rxbuf.
DataFrame(r, f) ==
    CASE f.op = "data" /\ (r.partial # Nothing \/ (f.rsv1 /\ conn.pmd = None)) -> rd' = Faulted(r) /\ UNCHANGED w
      [] f.op = "data" /\ r.partial = Nothing /\ ~(f.rsv1 /\ conn.pmd = None) ->
            IF f.fin THEN finish_event(r, f)
                     ELSE rd' = [r EXCEPT !.partial = f] /\ UNCHANGED w
      [] f.op = "cont" /\ (r.partial = Nothing \/ f.rsv1) -> rd' = Faulted(r) /\ UNCHANGED w
      [] f.op = "cont" /\ r.partial # Nothing /\ ~f.rsv1 ->
            LET m == [r.partial EXCEPT !.pay = @ \o f.pay]
            IN  IF f.fin THEN finish_event(r, m)
                         ELSE rd' = [r EXCEPT !.partial = m] /\ UNCHANGED w

\* Control frames.  The pong goes out past the gate; between fragments the frame is not
\* surfaced, otherwise recv_event returns it and recv reads on.
ControlFrame(r, f) ==
    LET surfaced == conn.api # "recv" /\ r.partial = Nothing
        q == IF surfaced THEN Returns(r) ELSE r
    IN  \/ /\ f.op = "ping"
           /\ rd' = [q EXCEPT !.pings = Append(@, f.pay)]
           /\ w' = IF AutoPong THEN [w EXCEPT !["reader"] = Write("direct", Out("pong", f.pay))] ELSE w
        \/ /\ f.op = "pong" /\ rd' = q /\ UNCHANGED w
        \/ /\ f.op = "close"
           /\ rd' = [Returns(r) EXCEPT !.closed = TRUE]
           /\ w' = [w EXCEPT !["reader"] = Write("close", Out("close", f.pay))]
        \/ /\ f.op = "close_bad"
           /\ rd' = Faulted(r)
           /\ w' = [w EXCEPT !["reader"] = Write("close", Out("close", <<1002>>))]

\* One frame off rxbuf, unless it does not parse.
TakeFrame ==
    /\ Reading /\ Whole
    /\ LET r == [rd EXCEPT !.rx = SubSeq(@, 3, Len(@))]
       IN  IF ~Parsable THEN rd' = Faulted(rd) /\ UNCHANGED w
           ELSE IF Top.op = "illegal" THEN rd' = Faulted(r) /\ UNCHANGED w
           ELSE IF Top.op \in {"data", "cont"} THEN DataFrame(r, Top) ELSE ControlFrame(r, Top)
    /\ conn' = [conn EXCEPT !.recv_closed = @ \/ (Parsable /\ Top.op \in {"close", "close_bad"})]
    /\ UNCHANGED <<gate, wr, wire, peer>>

\* The loop bodies of the three readers, which differ only where the kind is named above.
next_event == conn.kind \in {"split", "solo"} /\ conn.api # "frame" /\ TakeFrame
recv_inner == conn.kind = "async" /\ TakeFrame
read_message == conn.kind = "oneshot" /\ TakeFrame

\* recv_frame: the frame as it is, nothing answered, reassembled or inflated.
recv_frame ==
    /\ Reading /\ Whole /\ conn.api = "frame"
    /\ rd' = IF Parsable THEN Returns([rd EXCEPT !.rx = SubSeq(@, 3, Len(@)), !.delivered = Append(@, Top.pay)])
                         ELSE Faulted(rd)
    /\ UNCHANGED <<conn, gate, w, wr, wire, peer>>

\* The reader's write is over: a failed pong is the call's error, a close is best-effort.
ReaderWrote ==
    /\ EndWrite("reader")
    /\ w' = [w EXCEPT !["reader"] = Idle]
    /\ rd' = IF Ok("reader") THEN rd ELSE Returns(rd)
    /\ UNCHANGED <<wr, wire, peer>>

-----------------------------------------------------------------------------
(* WsWriter *)

WriterFree == Open /\ Free /\ w["writer"] = Idle /\ conn.kind \in {"split", "async"} /\ wr.frags = <<>> /\ wr.calls < MaxSends

\* send_text, send_binary, ping, pong, send_frame: one frame.  send_stream: several.
Send ==
    /\ WriterFree
    /\ \E frags \in {<<Out("data", <<"fin">>)>>, <<Out("ping", <<>>)>>,
                     <<Out("data", <<>>), Out("cont", <<"fin">>)>>} :
         /\ Len(frags) > 1 => conn.kind # "async"
         /\ wr' = [frags |-> Tail(frags), calls |-> wr.calls + 1]
         /\ w' = [w EXCEPT !["writer"] = Write("unless", Head(frags))]
    /\ UNCHANGED <<conn, gate, rd, wire, peer>>

close ==
    /\ WriterFree
    /\ wr' = [wr EXCEPT !.calls = @ + 1]
    /\ w' = [w EXCEPT !["writer"] = Write("close", Out("close", <<>>))]
    /\ UNCHANGED <<conn, gate, rd, wire, peer>>

\* send_stream_inner: the next fragment, unless this one was refused.
WriterWrote ==
    /\ EndWrite("writer")
    /\ IF Ok("writer") /\ wr.frags # <<>>
       THEN /\ w' = [w EXCEPT !["writer"] = Write("unless", Head(wr.frags))]
            /\ wr' = [wr EXCEPT !.frags = Tail(@)]
       ELSE w' = [w EXCEPT !["writer"] = Idle] /\ wr' = [wr EXCEPT !.frags = <<>>]
    /\ UNCHANGED <<rd, wire, peer>>

-----------------------------------------------------------------------------
(* The keepalive thread and the shutdown handle *)

\* "off" -> "on" (keepalive) -> "off" again when it sees the end of the connection.
KeepaliveDone == conn.stop \/ conn.send_closed \/ conn.recv_closed \/ conn.shutdown

Keepalive ==
    /\ Open /\ conn.kind = "split" /\ w["keepalive"] = Idle /\ ~conn.stop
    /\ w' = [w EXCEPT !["keepalive"].at = "tick"]
    /\ UNCHANGED <<conn, gate, rd, wr, wire, peer>>

\* Each tick: the end, another tick, or a ping when the connection was idle long enough
\* (a ping of the thread draws on the same bound as the writer's calls).
KeepaliveTick ==
    /\ Writing("keepalive", "tick")
    /\ \/ KeepaliveDone /\ w' = [w EXCEPT !["keepalive"].at = "ended"] /\ UNCHANGED wr
       \/ /\ ~KeepaliveDone /\ wr.calls < MaxSends
          /\ w' = [w EXCEPT !["keepalive"] = Write("unless", Out("ping", <<>>))]
          /\ wr' = [wr EXCEPT !.calls = @ + 1]
    /\ UNCHANGED <<conn, gate, rd, wire, peer>>

KeepaliveWrote ==
    /\ EndWrite("keepalive")
    /\ w' = [w EXCEPT !["keepalive"] = [Idle EXCEPT !.at = IF Ok("keepalive") THEN "tick" ELSE "ended"]]
    /\ UNCHANGED <<rd, wr, wire, peer>>

stop_inner ==
    /\ Writing("keepalive", "tick") /\ ~conn.stop
    /\ conn' = [conn EXCEPT !.stop = TRUE]
    /\ UNCHANGED <<gate, w, rd, wr, wire, peer>>

shutdown ==
    /\ Open /\ conn.kind = "split" /\ ~conn.shutdown
    /\ conn' = [conn EXCEPT !.shutdown = TRUE]
    /\ UNCHANGED <<gate, w, rd, wr, wire, peer>>

-----------------------------------------------------------------------------
ReaderStep == read_polled \/ next_event \/ recv_inner \/ read_message \/ recv_frame \/ ReaderWrote
WriteStep(t) == BeginWrite(t) \/ write_all(t)

Next ==
    \/ Handshake \/ PeerData \/ PeerContinues \/ PeerControls \/ PeerDrops
    \/ recv \/ ReadTimesOut \/ ReaderStep
    \/ Send \/ close \/ WriterWrote
    \/ Keepalive \/ KeepaliveTick \/ KeepaliveWrote \/ stop_inner \/ shutdown
    \/ \E t \in Threads : WriteStep(t)

\* The threads run; nobody has to call, the peer need not send, a read need not time out.
Fairness ==
    /\ WF_vars(ReaderStep) /\ WF_vars(WriterWrote) /\ WF_vars(KeepaliveTick) /\ WF_vars(KeepaliveWrote)
    /\ \A t \in Threads : WF_vars(WriteStep(t))

Spec == Init /\ [][Next]_vars /\ Fairness

-----------------------------------------------------------------------------
(* Properties *)

\* At most one close frame goes out, however many of reader, writer and caller close at once,
\* and no message, fragment or ping follows it: `send_closed` is tested under the gate.
NothingAfterClose ==
    \A i, j \in 1..Len(wire) : i < j /\ wire[i].op = "close" => wire[j].op \in {"pong", "torn"}

\* What recv delivers is what the peer sent: every message, once, in order and whole, across
\* timeouts in the middle of a frame or a message, interleaved control frames and the
\* compression context; after the peer's close nothing is missing.
MessagesExact ==
    conn.api # "frame" /\ ~rd.faulted =>
        /\ IsPrefix(rd.delivered, peer.msgs)
        /\ rd.closed => rd.delivered = peer.msgs \/ conn.kind = "oneshot"

\* Every ping that was read is answered once, in order, unless the connection broke.
PingsAnswered ==
    LET pongs == SelectSeq(wire, LAMBDA f : f.op = "pong")
        sent  == [k \in 1..Len(pongs) |-> pongs[k].pay]
        quiet == w["reader"] = Idle /\ ~conn.broken /\ ~conn.shutdown
    IN  AutoPong => IsPrefix(sent, rd.pings) /\ (quiet => sent = rd.pings)

\* The receiving side: every message delivered, every ping answered.
ReceivesExact == MessagesExact /\ PingsAnswered

\* A shutdown frees a reader parked in recv, and the keepalive thread ends with the connection.
Unwinds ==
    /\ (conn.shutdown /\ rd.in) ~> ~rd.in
    /\ (KeepaliveDone /\ Writing("keepalive", "tick")) ~> Writing("keepalive", "ended")

\* What the comment on `broken` says: after a write that failed part-way no frame follows.
NothingAfterTorn ==
    \A i, j \in 1..Len(wire) : i < j => wire[i].op # "torn"

=============================================================================
