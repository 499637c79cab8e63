------------------------------ MODULE Exchange ------------------------------
(***************************************************************************)
(* One HTTP/1.1 request on the sans-IO stack: the machine of Http1, the TLS *)
(* machine wrapped around it with either back end (src/src/proto/tls.rs),   *)
(* the drivers that pump both over a socket (io/blocking.rs, io/asyncio.rs),*)
(* and the two frontends: the blocking core of http.rs, which streams, and  *)
(* the async client (aio/native.rs), which buffers and follows redirects.   *)
(*                                                                         *)
(* Cipher text is a sequence of units: a record arrives as two of them.  A  *)
(* read returns any non-empty prefix of what has arrived, so every split of *)
(* the wire is explored, under both drivers and both TLS back ends.         *)
(***************************************************************************)
EXTENDS Http1, SequencesExt

CONSTANTS
    MaxRedirects, \* MAX_REDIRECTS of the async client
    MaxLayers,    \* MAX_ENCODING_LAYERS
    MaxAddrs,     \* addresses a name resolves to
    Servers,      \* the servers a request may meet, see ServerShape
    Jobs          \* the requests: [driver, kind, method, limit, follow]

-----------------------------------------------------------------------------
(***************************************************************************)
(* The server: what it means to say (resp) and how it says it.  flaw names  *)
(* the one way its bytes break the grammar.  cut is the number of wire units*)
(* it sends, fin whether it then closes, notify whether the close is        *)
(* announced by TLS, early whether it answers without reading the request,  *)
(* peer what the certificate it shows is to the caller.                     *)
(***************************************************************************)
ServerShape(s) ==
    /\ {"resp", "tls", "cut", "fin", "notify", "early", "peer"} = DOMAIN s
    /\ s.notify => s.fin

\* A head with its lines ended by CRLF or by bare LF; "mixed" ends the lines
\* with LF and the block with CRLF, "bighead" adds a header line of MaxHeader.
HeadBytes(r, tok) ==
    LET eol == IF r.eol = "crlf" THEN <<CR, LF>> ELSE <<LF>>
        blank == IF r.eol = "lf" THEN <<LF>> ELSE <<CR, LF>>
        pad == IF r.flaw = "bighead" THEN [i \in 1..MaxHeader |-> Text] \o eol ELSE <<>>
    IN  <<tok>> \o eol \o pad \o blank

\* One chunk per data token pair, the last chunk, a trailer line, the blank.
ChunkedBytes(r) ==
    LET bad == r.flaw = "badsize"
        chunk(d) == <<SizeTok(IF bad THEN -1 ELSE Len(d)), CR, LF>> \o d
                    \o (IF r.flaw = "nocrlf" THEN <<Text, Text>> ELSE <<CR, LF>>)
        cut == IF Len(r.body) > 2 THEN 2 ELSE Len(r.body)
    IN  (IF r.body = <<>> THEN <<>> ELSE chunk(SubSeq(r.body, 1, cut)))
        \o (IF Len(r.body) > cut THEN chunk(SubSeq(r.body, cut + 1, Len(r.body))) ELSE <<>>)
        \o <<SizeTok(0), CR, LF, Text, CR, LF, CR, LF>>

Plain(r) ==
    LET head == IF r.flaw = "nostatus" THEN Text ELSE HeadTok(r.status, r.frame, Len(r.body))
    IN  FlattenSeq([i \in 1..r.interim |-> HeadBytes([r EXCEPT !.flaw = "none"],
                                                       HeadTok(103, "close", 0))])
        \o HeadBytes(r, head)
        \o (IF r.frame \in {"chunked", "both"} THEN ChunkedBytes(r) ELSE r.body)
        \o r.extra

\* Records of up to three tokens, each two units long, after the handshake flight.
RECURSIVE Seal(_)
Seal(toks) ==
    IF toks = <<>> THEN <<>>
    ELSE LET n == IF Len(toks) > 3 THEN 3 ELSE Len(toks)
         IN  <<<<"part">>, <<"rec", SubSeq(toks, 1, n)>>>>
             \o Seal(SubSeq(toks, n + 1, Len(toks)))

Flight == <<<<"part">>, <<"hs">>>>
Units(s) ==
    IF s.tls = "none" THEN Plain(s.resp)
    ELSE Flight \o Seal(Plain(s.resp)) \o (IF s.notify THEN <<<<"alert">>>> ELSE <<>>)

-----------------------------------------------------------------------------
(***************************************************************************)
(* The TLS engine.  pend: cipher text not yet a whole record; conn: plain   *)
(* text decrypted inside the back end; plain: plain text moved out of it.   *)
(***************************************************************************)
NoEngine == [kind |-> "none", pend |-> <<>>, conn |-> <<>>, plain |-> <<>>,
             hs |-> FALSE, closed |-> FALSE, outq |-> <<>>]
NewEngine(kind) == [NoEngine EXCEPT !.kind = kind, !.hs = TRUE, !.outq = <<"hello">>]

\* What a back end does with whole records: the handshake completes and queues
\* the client's last flight, data is decrypted, close_notify is noted.
Processed(e, whole) ==
    LET has(k) == \E i \in DOMAIN whole : whole[i][1] = k
        recs == SelectSeq(whole, LAMBDA u : u[1] = "rec")
    IN  [e EXCEPT !.conn = @ \o FlattenSeq([i \in DOMAIN recs |-> recs[i][2]]),
                  !.hs = @ /\ ~has("hs"),
                  !.outq = IF e.hs /\ has("hs") THEN Append(@, "finished") ELSE @,
                  !.closed = @ \/ has("alert")]

Whole(units) == IF units # <<>> /\ Last(units) = <<"part">> THEN Front(units) ELSE units
Tail1(units) == IF units # <<>> /\ Last(units) = <<"part">> THEN <<<<"part">>>> ELSE <<>>

\* rustls keeps the torn record itself; its plain text is spilled at once.
RustlsFeed(e, bytes) ==
    LET all == e.pend \o bytes
        p == Processed(e, Whole(all))
    IN  [p EXCEPT !.pend = Tail1(all), !.plain = @ \o p.conn, !.conn = <<>>]

\* purecrypto takes a prefix: the wrapper keeps the tail and offers it again.
PurecryptoFeed(e, bytes) ==
    LET all == e.pend \o bytes IN [Processed(e, Whole(all)) EXCEPT !.pend = Tail1(all)]

feed_incoming(e, bytes) ==
    IF e.kind = "rustls" THEN RustlsFeed(e, bytes) ELSE PurecryptoFeed(e, bytes)

\* Up to two tokens (the scratch buffer) of plain text: [e, got].
RustlsRead(e) ==
    IF e.plain # <<>>
    THEN LET n == IF Len(e.plain) > 2 THEN 2 ELSE Len(e.plain)
         IN  [e |-> [e EXCEPT !.plain = SubSeq(@, n + 1, Len(@))], got |-> SubSeq(e.plain, 1, n)]
    ELSE [e |-> [e EXCEPT !.conn = <<>>], got |-> e.conn]

PurecryptoRead(e) ==
    LET all == IF e.plain = <<>> THEN e.conn ELSE e.plain
        n == IF Len(all) > 2 THEN 2 ELSE Len(all)
    IN  [e |-> [e EXCEPT !.plain = SubSeq(all, n + 1, Len(all)),
                         !.conn = IF e.plain = <<>> THEN <<>> ELSE @],
         got |-> SubSeq(all, 1, n)]

read_plaintext(e) == IF e.kind = "rustls" THEN RustlsRead(e) ELSE PurecryptoRead(e)

\* TlsClient::pump_inner_input: [e, x, err] once the engine has no more.
RECURSIVE pump_inner_input(_, _)
pump_inner_input(e, x) ==
    CHOOSE p \in
        {IF r.got = <<>> THEN [e |-> r.e, x |-> x, err |-> ""]
         ELSE CHOOSE q \in {IF h.err # "" THEN [e |-> r.e, x |-> h.x, err |-> h.err]
                            ELSE pump_inner_input(r.e, h.x) : h \in {HandleInput(x, r.got)}} : TRUE
         : r \in {read_plaintext(e)}} : TRUE

\* The stack's handle_input and handle_eof, with and without TLS.
StackInput(e, x, bytes) ==
    IF e.kind = "none"
    THEN LET h == HandleInput(x, bytes) IN [e |-> e, x |-> h.x, err |-> h.err]
    ELSE CHOOSE r \in {IF f.hs THEN [e |-> f, x |-> x, err |-> ""] ELSE pump_inner_input(f, x) :
                          f \in {feed_incoming(e, bytes)}} : TRUE

StackEof(e, x) ==
    LET p == IF e.kind = "none" \/ e.hs THEN [e |-> e, x |-> x, err |-> ""]
             ELSE pump_inner_input(e, x)
        h == HandleEof(p.x)
    IN  IF p.err # "" THEN p ELSE [e |-> p.e, x |-> h.x, err |-> h.err]

\* poll_transmit: [e, x, out].  The request is handed to TLS only after the handshake.
StackTransmit(e, x) ==
    IF e.kind = "none" THEN [e |-> e, x |-> [x EXCEPT !.out = <<>>], out |-> x.out]
    ELSE IF e.hs THEN [e |-> [e EXCEPT !.outq = <<>>], x |-> x, out |-> e.outq]
    ELSE [e |-> [e EXCEPT !.outq = <<>>], x |-> [x EXCEPT !.out = <<>>], out |-> e.outq \o x.out]

-----------------------------------------------------------------------------
(***************************************************************************)
(* What follows the handshake and the body: the caller's own trust checks   *)
(* (pins first, then the callback, which replaces the name check), and the  *)
(* content codings, peeled from the right until one is unknown.             *)
(***************************************************************************)
verify_peer_chain(peer) ==
    /\ peer.pin # "mismatch"
    /\ \/ peer.callback = "accepts"
       \/ peer.callback = "none" /\ (peer.verify => peer.san)

\* tls::connect_over_tls makes the same checks for a stream of its own.
connect_over_tls(peer) ==
    /\ peer.pin # "mismatch"
    /\ peer.callback = "accepts" \/ (peer.callback = "none" /\ ~(peer.verify /\ ~peer.san))

body_is_close_delimited_Never(method, head) == FALSE

body_is_close_delimited(method, head) == ~Bodyless(method, head.status) /\ head.frame = "close"

\* decode_body: the codings left on the body and its size, or a failure.  Each
\* coding doubles the size, out of one budget for all layers.
RECURSIVE Peel(_, _, _)
Peel(layers, size, budget) ==
    IF layers = <<>> THEN [ok |-> TRUE, left |-> <<>>]
    ELSE CASE Last(layers) = "identity" -> Peel(Front(layers), size, budget)
           [] Last(layers) = "unknown" -> [ok |-> TRUE, left |-> layers]
           [] Last(layers) = "corrupt" -> [ok |-> FALSE, left |-> layers]
           [] OTHER -> IF 2 * size > budget THEN [ok |-> FALSE, left |-> layers]
                       ELSE Peel(Front(layers), 2 * size, budget - 2 * size)

decode_body(layers, size) ==
    IF Len(layers) > MaxLayers THEN [ok |-> FALSE, left |-> layers]
    ELSE Peel(layers, size, 4 * MaxBody)

\* The blocking frontend joins every Content-Encoding line and leaves an empty
\* body alone; the async one reads the first line only, whatever the body.
maybe_decode_body(lines, size) ==
    IF size = 0 THEN [ok |-> TRUE, left |-> FlattenSeq(lines)]
    ELSE decode_body(FlattenSeq(lines), size)
finish_response(lines, size) ==
    IF lines = <<>> THEN [ok |-> TRUE, left |-> <<>>]
    ELSE decode_body(lines[1], size)

-----------------------------------------------------------------------------
VARIABLES
    job,    \* the request: [driver, method, limit, follow]
    srv,    \* the server of this hop
    wire,   \* all it sends on the connection
    hops,   \* redirects followed
    addrs,  \* addresses not yet tried
    phase,  \* connect, shake, pump, read, close, done
    eng,    \* the TLS engine
    x,      \* the ClientExchange
    pos,    \* wire units read
    eof,    \* eof_seen
    sent,   \* what this connection has put on the wire
    got,    \* what the driver relayed: [head, body]
    res     \* the outcome

vars == <<job, srv, wire, hops, addrs, phase, eng, x, pos, eof, sent, got, res>>

NoRes == [kind |-> "none"]
Err(why) == [kind |-> "err", why |-> why]
Nothing == [head |-> NoHead, body |-> <<>>]

\* What has arrived and is unread.  The server waits for the hello, then for
\* the request unless it answers early.
Arrived ==
    LET upto == CASE Contains(sent, "req") \/ srv.early -> Len(wire)
                  [] ~Contains(sent, "req") /\ ~srv.early /\ Contains(sent, "hello") ->
                        IF Len(wire) < Len(Flight) THEN Len(wire) ELSE Len(Flight)
                  [] OTHER -> 0
    IN  SubSeq(wire, pos + 1, upto)
Closed == /\ srv.fin
          /\ srv.cut < Len(Units(srv)) \/ Contains(sent, "req") \/ srv.early
          /\ Arrived = <<>>

EndWith(r) == phase' = "done" /\ res' = r

\* A fresh connection to server s, to be dialled.
Fresh(s, method) ==
    /\ srv' = s /\ wire' = SubSeq(Units(s), 1, s.cut) /\ phase' = "connect" /\ pos' = 0 /\ eof' = FALSE /\ sent' = <<>>
    /\ got' = Nothing /\ eng' = NoEngine
    /\ x' = NewExchange(method, job.driver = "blocking")
    /\ addrs' \in 0..MaxAddrs

Init ==
    /\ job \in Jobs /\ srv \in Servers /\ wire = SubSeq(Units(srv), 1, srv.cut)
    /\ job.limit \/ srv.fin   \* without either a silent server is waited for, by design
    /\ hops = 0 /\ addrs \in 0..MaxAddrs /\ phase = "connect" /\ pos = 0 /\ eof = FALSE
    /\ sent = <<>> /\ got = Nothing /\ eng = NoEngine /\ res = NoRes
    /\ x = NewExchange(job.method, job.driver = "blocking")

\* native::connect: each address in turn, the last error when all fail.
ConnectFails ==
    /\ phase = "connect"
    /\ IF addrs <= 1 THEN EndWith(Err("connect")) /\ addrs' = 0
       ELSE addrs' = addrs - 1 /\ UNCHANGED <<phase, res>>
    /\ UNCHANGED <<job, srv, wire, hops, eng, x, pos, eof, sent, got>>

\* The engine is built; all but the blocking core run the handshake on its own
\* first (TlsStream::run_handshake under the pull reader).
Talk == IF job.driver = "pull" THEN "pull" ELSE "pump"
send_once ==
    /\ phase = "connect" /\ addrs > 0
    /\ eng' = IF srv.tls = "none" THEN NoEngine ELSE NewEngine(srv.tls)
    /\ phase' = IF srv.tls # "none" /\ job.driver # "blocking" THEN "shake" ELSE Talk
    /\ addrs' = 0
    /\ UNCHANGED <<job, srv, wire, hops, x, pos, eof, sent, got, res>>

handshake_Unverified ==
    /\ phase = "shake" /\ job.driver = "async"
    /\ sent' = sent \o eng.outq /\ eng' = [eng EXCEPT !.outq = <<>>]
    /\ phase' = IF eng.hs THEN "shakeread" ELSE Talk
    /\ UNCHANGED <<job, srv, wire, hops, addrs, x, pos, eof, got, res>>

\* asynctls::handshake and TlsStream::run_handshake: flush, and leave once
\* established and the peer is trusted.
Shake(trusted) ==
    /\ phase = "shake"
    /\ sent' = sent \o eng.outq /\ eng' = [eng EXCEPT !.outq = <<>>]
    /\ CASE eng.hs -> phase' = "shakeread" /\ UNCHANGED res
         [] ~eng.hs /\ trusted -> phase' = Talk /\ UNCHANGED res
         [] OTHER -> EndWith(Err("untrusted"))
    /\ UNCHANGED <<job, srv, wire, hops, addrs, x, pos, eof, got>>
handshake == job.driver = "async" /\ Shake(verify_peer_chain(srv.peer))
run_handshake == job.driver = "pull" /\ Shake(connect_over_tls(srv.peer))

HandshakeRead ==
    /\ phase = "shakeread"
    /\ \/ \E n \in 1..Len(Arrived) :
            /\ eng' = feed_incoming(eng, SubSeq(Arrived, 1, n))
            /\ pos' = pos + n /\ phase' = "shake" /\ UNCHANGED res
       \/ Closed /\ EndWith(Err("eof")) /\ UNCHANGED <<eng, pos>>
    /\ UNCHANGED <<job, srv, wire, hops, addrs, x, eof, sent, got>>

\* Steps 1 to 3 of the driver loop: flush, relay the events, stop if finished.
Relayed(events) ==
    LET heads == SelectSeq(events, LAMBDA e : e[1] \in {"Head", "Response"})
        bodies == [i \in DOMAIN events |->
                      CASE events[i][1] = "Body" -> events[i][2]
                        [] events[i][1] = "Response" -> events[i][3]
                        [] OTHER -> <<>>]
    IN  [head |-> IF heads = <<>> THEN got.head ELSE heads[1][2],
         body |-> got.body \o FlattenSeq(bodies)]

Pump ==
    /\ phase = "pump"
    /\ \E t \in {StackTransmit(eng, x)} :
           /\ sent' = sent \o t.out
           /\ eng' = t.e
           /\ got' = Relayed(t.x.events)
           /\ x' = [t.x EXCEPT !.events = <<>>]
           /\ CASE IsFinished(x') -> phase' = "close" /\ UNCHANGED res
                [] ~IsFinished(x') /\ eof -> EndWith(Err("eof"))
                [] OTHER -> phase' = "read" /\ UNCHANGED res
    /\ UNCHANGED <<job, srv, wire, hops, addrs, pos, eof>>

\* The write fails: the server is gone.
PumpFails ==
    /\ phase = "pump" /\ srv.cut = 0 /\ srv.fin /\ StackTransmit(eng, x).out # <<>>
    /\ EndWith(Err("write"))
    /\ UNCHANGED <<job, srv, wire, hops, addrs, eng, x, pos, eof, sent, got>>

\* Step 4, 5: a read of any length, the end of the stream, or the read timeout.
Took(step) ==
    \E s \in {step} :
        /\ eng' = s.e /\ x' = s.x
        /\ IF s.err # "" THEN EndWith(Err(s.err)) ELSE phase' = "pump" /\ UNCHANGED res

ReadSome ==
    /\ phase = "read"
    /\ \E n \in 1..Len(Arrived) : \E bytes \in {SubSeq(Arrived, 1, n)} :
          /\ Took(StackInput(eng, x, bytes))
          /\ pos' = pos + n
    /\ UNCHANGED <<job, srv, wire, hops, addrs, eof, sent, got>>

ReadEof ==
    /\ phase = "read" /\ Closed
    /\ eof' = TRUE /\ Took(StackEof(eng, x))
    /\ UNCHANGED <<job, srv, wire, hops, addrs, pos, sent, got>>

\* with_timeout drops the future wherever it is; a blocking read just times out.
TimedOut ==
    /\ job.limit
    /\ \/ job.driver = "async" /\ phase # "done"
       \/ job.driver = "blocking" /\ phase = "read" /\ Arrived = <<>>
       \/ job.driver = "pull" /\ phase \in {"shakeread", "pull"}
    /\ EndWith(Err("timeout"))
    /\ UNCHANGED <<job, srv, wire, hops, addrs, eng, x, pos, eof, sent, got>>

Untruncated == body_is_close_delimited(job.method, got.head) /\ eng.kind # "none" => eng.closed

Ok(decoded) ==
    IF decoded.ok THEN [kind |-> "ok", head |-> got.head, body |-> got.body, left |-> decoded.left]
    ELSE Err("decode")

\* run_plain_core and run_https_core after the drive.
FinishBlocking ==
    /\ phase = "close" /\ job.driver = "blocking"
    /\ EndWith(CASE ~Untruncated -> Err("eof")
                 [] Untruncated /\ eng.kind # "none" /\ ~verify_peer_chain(srv.peer) -> Err("untrusted")
                 [] OTHER -> Ok(maybe_decode_body(srv.resp.codings, Len(got.body))))
    /\ UNCHANGED <<job, srv, wire, hops, addrs, eng, x, pos, eof, sent, got>>

\* exchange after send_once: follow the redirect on a fresh connection, or return.
Redirects == job.follow /\ got.head.status \in {301, 302, 303, 307, 308}
FinishAsync_Uncounted ==
    /\ phase = "close" /\ job.driver = "async"
    /\ CASE ~Untruncated -> EndWith(Err("eof")) /\ UNCHANGED <<job, srv, wire, hops, addrs, eng, x, pos, eof, sent, got>>
         [] Untruncated /\ Redirects /\ hops >= MaxRedirects ->
              EndWith(Err("redirects")) /\ UNCHANGED <<job, srv, wire, hops, addrs, eng, x, pos, eof, sent, got>>
         [] Untruncated /\ Redirects /\ hops < MaxRedirects ->
              /\ hops' = hops
              /\ job' = IF got.head.status \in 301..303 /\ job.method \notin {"GET", "HEAD"}
                        THEN [job EXCEPT !.method = "GET"] ELSE job
              /\ \E s \in Servers : (job.limit \/ s.fin) /\ Fresh(s, job'.method)
              /\ UNCHANGED res
         [] OTHER ->
              /\ EndWith(Ok(finish_response(srv.resp.codings, Len(got.body))))
              /\ UNCHANGED <<job, srv, wire, hops, addrs, eng, x, pos, eof, sent, got>>

FinishAsync ==
    /\ phase = "close" /\ job.driver = "async"
    /\ CASE ~Untruncated -> EndWith(Err("eof")) /\ UNCHANGED <<job, srv, wire, hops, addrs, eng, x, pos, eof, sent, got>>
         [] Untruncated /\ Redirects /\ hops >= MaxRedirects ->
              EndWith(Err("redirects")) /\ UNCHANGED <<job, srv, wire, hops, addrs, eng, x, pos, eof, sent, got>>
         [] Untruncated /\ Redirects /\ hops < MaxRedirects ->
              /\ hops' = hops + 1
              /\ job' = IF got.head.status \in 301..303 /\ job.method \notin {"GET", "HEAD"}
                        THEN [job EXCEPT !.method = "GET"] ELSE job
              /\ \E s \in Servers : (job.limit \/ s.fin) /\ Fresh(s, job'.method)
              /\ UNCHANGED res
         [] OTHER ->
              /\ EndWith(Ok(finish_response(srv.resp.codings, Len(got.body))))
              /\ UNCHANGED <<job, srv, wire, hops, addrs, eng, x, pos, eof, sent, got>>

\* The request is written, then the stream is read until the response is whole;
\* a TLS stream hands out what its whole records carry.
Pull ==
    /\ phase = "pull"
    /\ \E e \in {IF srv.tls = "none" THEN eng ELSE feed_incoming(eng, SubSeq(wire, pos + 1, Len(wire)))} :
       \E r \in {PullResponse(job.kind, job.method,
                             IF srv.tls = "none" THEN SubSeq(wire, pos + 1, Len(wire)) ELSE e.plain \o e.conn,
                             srv.fin, srv.tls # "none" /\ ~e.closed)} :
          /\ r.st # "block"
          /\ eng' = e /\ got' = [head |-> r.head, body |-> r.body]
          /\ IF r.st = "ok" THEN phase' = "close" /\ UNCHANGED res ELSE EndWith(Err(r.st))
    /\ pos' = Len(wire) /\ sent' = Append(sent, "req")
    /\ UNCHANGED <<job, srv, wire, hops, addrs, x, eof>>

\* Only the collected body is decoded; a sink or a Read gets it raw.
FinishPull ==
    /\ phase = "close" /\ job.driver = "pull"
    /\ EndWith(Ok(IF job.kind = "collect" THEN maybe_decode_body(srv.resp.codings, Len(got.body))
                  ELSE [ok |-> TRUE, left |-> FlattenSeq(srv.resp.codings)]))
    /\ UNCHANGED <<job, srv, wire, hops, addrs, eng, x, pos, eof, sent, got>>

Next ==
    \/ ConnectFails \/ send_once \/ handshake \/ run_handshake \/ HandshakeRead \/ Pump \/ PumpFails
    \/ ReadSome \/ ReadEof \/ TimedOut \/ FinishBlocking \/ FinishAsync \/ Pull \/ FinishPull
    \/ phase = "done" /\ UNCHANGED vars

\* The executor polls the request, the peer's bytes arrive and its close is
\* seen, and a timer that is set goes off.  This is WF_vars(Next) spelled out:
\* a request that is not done always has a step (the absence of deadlock).
Spec == Init /\ [][Next]_vars /\ ([]<>(phase = "done") \/ []<><<Next>>_vars)

-----------------------------------------------------------------------------
Pulled == job.driver = "pull"
ByClose == /\ ~Bodyless(job.method, srv.resp.status)
           /\ srv.resp.frame = "close" \/ (Pulled /\ srv.resp.frame = "oddte")
HeadLen == Len(Plain([srv.resp EXCEPT !.frame = "close", !.body = <<>>, !.extra = <<>>]))

\* What the caller should be told, from what the server meant to say.  A plain
\* connection cannot tell a close from a cut: there it is what was sent.
Meant ==
    CASE Bodyless(job.method, srv.resp.status) -> <<>>
      [] ByClose /\ srv.tls = "none" -> SubSeq(wire, HeadLen + 1, Len(wire))
      [] ByClose /\ srv.tls # "none" -> srv.resp.body \o srv.resp.extra
      [] OTHER -> srv.resp.body

\* The pull reader takes the end of the stream for the LF that ends a head and
\* for the trailer block.
Slack ==
    CASE ~Pulled -> 0
      [] Pulled /\ ~Bodyless(job.method, srv.resp.status) /\ srv.resp.frame \in {"chunked", "both"} -> 7
      [] Pulled /\ ByClose /\ srv.tls # "none" -> 0
      [] OTHER -> IF (Meant = <<>> \/ ByClose) /\ srv.fin THEN 1 ELSE 0

\* The server sent what ends the response: the wire units that carry it to its
\* last token, or the close that delimits it, authenticated under TLS.
AllSent ==
    LET toks == IF Bodyless(job.method, srv.resp.status) \/ (ByClose /\ srv.tls = "none") THEN HeadLen
                ELSE Len(Plain(srv.resp)) - Len(srv.resp.extra)
    IN  /\ srv.cut >= IF srv.tls = "none" THEN toks - Slack ELSE Len(Flight) + 2 * ((toks - Slack + 2) \div 3)
        /\ ByClose => srv.fin /\ (srv.tls # "none" => srv.notify)

\* A flaw of the body's framing does not touch a response that has no body; the
\* pull reader takes mixed line ends, reads an unknown transfer coding to the
\* close and, for a sink, lets the chunks win over a Content-Length.
Flawed ==
    /\ srv.resp.flaw # "none"
    /\ Bodyless(job.method, srv.resp.status) => srv.resp.flaw \notin {"framing", "badsize", "nocrlf"}
    /\ ~(Pulled /\ (\/ srv.resp.flaw = "mixed" \/ srv.resp.frame = "oddte"
                    \/ srv.resp.frame = "both" /\ job.kind = "sink"))

\* read_body stops at its limit without asking whether the stream goes on.
CutAtLimit == Pulled /\ job.kind = "collect" /\ ByClose /\ Len(srv.resp.body \o srv.resp.extra) >= MaxBody

\* A response is reported complete only if the server sent all of it, and then
\* it is the final head and exactly the body the server meant, however the
\* reads split the wire, under every reader and either TLS back end; a body
\* that ends with the connection needs an authenticated close under TLS.  The
\* one exception is a body of MAX_BODY_BYTES or more that ends with the
\* connection: read_body returns its first MAX_BODY_BYTES.
ResponseExact ==
    res.kind = "ok" =>
        /\ ~Flawed
        /\ got.head.status = srv.resp.status
        /\ IF CutAtLimit /\ Len(got.body) = MaxBody THEN IsPrefix(got.body, srv.resp.body \o srv.resp.extra)
           ELSE AllSent /\ got.body = Meant

TooLarge ==
    \/ srv.resp.interim > MaxInterim
    \/ job.driver = "async" /\ Len(Meant) > MaxBody
    \/ Pulled /\ job.kind = "collect" /\ Len(Meant) > MaxBody
Undecodable == ~decode_body(FlattenSeq(srv.resp.codings), Len(Meant)).ok
    \/ (job.driver = "async" /\ Meant = <<>> /\ srv.resp.codings # <<>>)

\* No split of the bytes makes a good response fail: an error names a fault of
\* the server, of the network or of the caller's limits.
FailuresJustified ==
    res.kind = "err" =>
        \/ res.why \in {"timeout", "connect", "write", "redirects"}
        \/ res.why = "untrusted" /\ ~verify_peer_chain(srv.peer)
        \/ res.why = "decode" /\ Undecodable
        \/ ~AllSent \/ Flawed \/ TooLarge

\* Nothing of the request leaves before the handshake is over; the async client
\* and the pull reader also wait for their checks of the peer, and neither hands out a response
\* from a peer that fails them.
TrustFirst ==
    /\ srv.tls # "none" /\ Contains(sent, "req") =>
          /\ Contains(sent, "finished")
          /\ job.driver # "blocking" => verify_peer_chain(srv.peer)
    /\ res.kind = "ok" /\ srv.tls # "none" => verify_peer_chain(srv.peer)
=============================================================================
