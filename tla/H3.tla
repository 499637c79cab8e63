--------------------------------- MODULE H3 ---------------------------------
(***************************************************************************)
(* One request over HTTP/3 (src/src/http3.rs) and what http.rs does when it *)
(* fails: the handshake and the peer checks, the upload under the peer's    *)
(* flow control, the read loop over the server's unidirectional streams and *)
(* the request stream, and the second attempt over TCP.                     *)
(*                                                                         *)
(* A stream is a sequence of units: a frame is a header unit and one unit   *)
(* per payload length.  QUIC keeps the order inside a stream and none       *)
(* between streams: each pass of the loop finds any more of each of them.   *)
(***************************************************************************)
EXTENDS Integers, Sequences, FiniteSets

CONSTANTS
    H3Runs,        \* [job, srv], see H3Shape
    H3Interim,     \* MAX_INTERIM_RESPONSES
    MaxResponse,   \* MAX_RESPONSE_BYTES
    MaxUni,        \* MAX_UNI_BUFFER
    Patience       \* idle passes until a deadline is over

\* job: post, units to upload; sink and observer; only (--http3-only);
\* decompress; method.  srv: the request stream (req, ends), its uni streams,
\* whether it may reset the stream or close the connection, grants credit,
\* completes the handshake and shows a certificate that passes.
H3Shape(r) ==
    /\ {"method", "upload", "sink", "only", "decompress"} = DOMAIN r.job
    /\ {"req", "ends", "uni", "drops", "grants", "shakes", "trusted"} = DOMAIN r.srv

Hdr(ty, n) == <<"hdr", ty, n>>
Fields(kind, length, dyn) == <<"fields", kind, length, dyn>>
NoLen == -1

VARIABLE h3

NoCall == [at |-> "off"]
NewReqStream == [head |-> "none", trailers |-> FALSE, interim |-> 0, len |-> NoLen,
                 body |-> <<>>, streamed |-> 0, data |-> 0, skip |-> 0]
NewUni == [pos |-> 0, buf |-> <<>>, ty |-> "none", skip |-> 0, gone |-> FALSE]
NewHttp3State(n) == [uni |-> [i \in 1..n |-> NewUni], settings |-> FALSE, goaway |-> NoLen, inserts |-> 0]

H3Init ==
    \E r \in H3Runs :
        h3 = [at |-> "shake", job |-> r.job, srv |-> r.srv, idle |-> 0, closed |-> FALSE, reset |-> FALSE,
              left |-> 1 + r.job.upload, credit |-> 1, pos |-> 0, buf |-> <<>>, rs |-> NewReqStream,
              st |-> NewHttp3State(Len(r.srv.uni)), out |-> <<>>, heads |-> 0, res |-> "none", tries |-> 1]

H3Drop(s, n) == SubSeq(s, n + 1, Len(s))
H3Min(a, b) == IF a < b THEN a ELSE b

-----------------------------------------------------------------------------
(* The server's unidirectional streams.  Each operator returns [st, u, err]. *)

Reserved == {"h2"}
Critical == {"control", "encoder", "decoder"}

\* Well-formed, no identifier twice, none of HTTP/2's.
validate_settings(payload) ==
    /\ \A i, j \in DOMAIN payload : i # j => payload[i] # payload[j]
    /\ \A i \in DOMAIN payload : payload[i] \notin Reserved

\* What a whole control frame does to the state; "" for no error.
ControlFrame(st, ty, payload) ==
    CASE ty = "SETTINGS" /\ (st.settings \/ ~validate_settings(payload)) -> [st |-> st, err |-> "bad"]
      [] ty = "SETTINGS" /\ ~(st.settings \/ ~validate_settings(payload)) ->
           [st |-> [st EXCEPT !.settings = TRUE], err |-> ""]
      [] ty = "GOAWAY" /\ (Len(payload) # 1 \/ (st.goaway # NoLen /\ payload[1] > st.goaway)) ->
           [st |-> st, err |-> "bad"]
      [] ty = "GOAWAY" /\ ~(Len(payload) # 1 \/ (st.goaway # NoLen /\ payload[1] > st.goaway)) ->
           [st |-> [st EXCEPT !.goaway = payload[1]], err |-> ""]
      [] ty = "MAX_PUSH_ID" -> [st |-> st, err |-> "bad"]
      [] OTHER -> [st |-> st, err |-> ""]

RECURSIVE process_control_stream(_, _)
process_control_stream(st, u) ==
    LET n == H3Min(u.skip, Len(u.buf))
        b == H3Drop(u.buf, n)
        f == b[1]
        whole == Len(b) >= 1 + f[3]
        c == ControlFrame(st, f[2], SubSeq(b, 2, 1 + f[3]))
    IN  CASE u.skip > n \/ b = <<>> -> [st |-> st, u |-> [u EXCEPT !.buf = b, !.skip = @ - n], err |-> ""]
          [] ~(u.skip > n \/ b = <<>>) /\ ((~st.settings /\ f[2] # "SETTINGS")
                \/ f[2] \in {"DATA", "HEADERS", "PUSH_PROMISE"} \cup Reserved) -> [st |-> st, u |-> u, err |-> "bad"]
          [] OTHER ->
               CASE f[2] \notin {"SETTINGS", "GOAWAY", "MAX_PUSH_ID", "CANCEL_PUSH"} ->
                      process_control_stream(st, [u EXCEPT !.buf = Tail(b), !.skip = f[3]])
                 [] f[2] \in {"SETTINGS", "GOAWAY", "MAX_PUSH_ID", "CANCEL_PUSH"} /\ ~whole ->
                      [st |-> st, u |-> [u EXCEPT !.buf = b, !.skip = 0], err |-> IF f[3] > MaxUni THEN "bad" ELSE ""]
                 [] OTHER -> IF c.err # "" THEN [st |-> st, u |-> u, err |-> c.err]
                             ELSE process_control_stream(c.st, [u EXCEPT !.buf = H3Drop(b, 1 + f[3]), !.skip = 0])

\* Whole instructions only: a part waits for the rest.
complete_encoder_instructions_len(buf) ==
    LET ends == {i \in DOMAIN buf : buf[i] = "insert"}
    IN  IF ends = {} THEN 0 ELSE CHOOSE i \in ends : \A j \in ends : j <= i

process_uni_stream(st, i) ==
    LET raw == st.uni[i]
        typed == IF raw.ty # "none" \/ raw.buf = <<>> THEN raw
                 ELSE [raw EXCEPT !.ty = raw.buf[1][2], !.buf = Tail(@)]
        n == complete_encoder_instructions_len(typed.buf)
        twice == /\ raw.ty = "none" /\ typed.ty \in Critical
                 /\ \E j \in DOMAIN st.uni : j # i /\ st.uni[j].ty = typed.ty
    IN  CASE typed.ty = "push" \/ twice -> [st |-> st, u |-> typed, err |-> "bad"]
          [] typed.ty = "control" /\ ~twice -> process_control_stream(st, typed)
          [] typed.ty = "encoder" /\ ~twice ->
               [st |-> [st EXCEPT !.inserts = @ + Cardinality({k \in 1..n : typed.buf[k] = "insert"})],
                u |-> [typed EXCEPT !.buf = H3Drop(@, n)], err |-> ""]
          [] OTHER -> [st |-> st, u |-> [typed EXCEPT !.buf = <<>>], err |-> ""]

\* Stream i delivers n more units, and its end if e.
DrainOne(st, i, units, n, e) ==
    LET u == st.uni[i]
        fed == [st EXCEPT !.uni[i].buf = @ \o SubSeq(units, u.pos + 1, u.pos + n), !.uni[i].pos = @ + n]
        p == process_uni_stream(fed, i)
    IN  CASE n = 0 /\ ~e -> [st |-> st, err |-> ""]
          [] ~(n = 0 /\ ~e) /\ (p.err # "" \/ Len(p.u.buf) > MaxUni \/ (e /\ p.u.ty \in Critical)) ->
               [st |-> st, err |-> "bad"]
          [] OTHER -> [st |-> [p.st EXCEPT !.uni[i] = [p.u EXCEPT !.gone = e]], err |-> ""]

RECURSIVE drain_uni_streams(_, _, _, _)
drain_uni_streams(st, i, streams, more) ==
    IF i > Len(streams) THEN [st |-> st, err |-> ""]
    ELSE LET d == DrainOne(st, i, streams[i].units, more[i],
                           streams[i].ends /\ ~st.uni[i].gone /\ st.uni[i].pos + more[i] = Len(streams[i].units))
         IN  IF d.err # "" THEN d ELSE drain_uni_streams(d.st, i + 1, streams, more)

-----------------------------------------------------------------------------
(* The request stream.  consume_frame returns [did, n, rs, out, err].        *)

Stay(rs) == [did |-> FALSE, n |-> 0, rs |-> rs, out |-> <<>>, err |-> ""]
RefuseStream(rs) == [did |-> FALSE, n |-> 0, rs |-> rs, out |-> <<>>, err |-> "bad"]
Took3(n, rs) == [did |-> TRUE, n |-> n, rs |-> rs, out |-> <<>>, err |-> ""]
Received(rs) == Len(rs.body) + rs.streamed

\* HEAD, 204 and 304 describe a body they do not carry.
enforced_content_length(rs, method) ==
    IF method = "HEAD" \/ rs.head = "nobody" THEN NoLen ELSE rs.len
check_content_length(rs, method, at_end) ==
    LET n == enforced_content_length(rs, method)
    IN  n = NoLen \/ (Received(rs) <= n /\ (at_end => Received(rs) = n))

deliver(rs, payload, streaming, n, method) ==
    LET s == streaming /\ rs.body = <<>>
        r == IF s THEN [rs EXCEPT !.streamed = @ + Len(payload)] ELSE [rs EXCEPT !.body = @ \o payload]
    IN  IF (~s /\ Len(r.body) > MaxResponse) \/ ~check_content_length(r, method, FALSE) THEN RefuseStream(rs)
        ELSE [Took3(n, r) EXCEPT !.out = IF s THEN payload ELSE <<>>]

\* A block decodes if its octets are legal and the inserts it refers to are in.
decode_header_block(fields, inserts) == fields[2] # "bad" /\ fields[4] <= inserts

ConsumeHeaders(rs, fields, inserts) ==
    CASE ~decode_header_block(fields, inserts) \/ (rs.head = "none" /\ fields[2] \in {"trailers", "switch"})
           \/ (rs.head # "none" /\ fields[2] # "trailers") -> RefuseStream(rs)
      [] rs.head # "none" /\ fields[2] = "trailers" /\ decode_header_block(fields, inserts) -> Took3(2, [rs EXCEPT !.trailers = TRUE])
      [] rs.head = "none" /\ fields[2] = "interim" /\ decode_header_block(fields, inserts) ->
           IF rs.interim >= H3Interim THEN RefuseStream(rs) ELSE Took3(2, [rs EXCEPT !.interim = @ + 1])
      [] OTHER -> Took3(2, [rs EXCEPT !.head = fields[2], !.len = fields[3]])

consume_frame(buf, rs, streaming, method, inserts) ==
    LET f == buf[1]
        rest == H3Min(rs.data + rs.skip, Len(buf))
        avail == H3Min(Len(buf) - 1, f[3])
        cl == enforced_content_length(rs, method)
    IN  CASE rs.data + rs.skip > 0 ->
               IF rest = 0 THEN Stay(rs)
               ELSE IF rs.data > 0 THEN deliver([rs EXCEPT !.data = @ - rest], SubSeq(buf, 1, rest), streaming, rest, method)
               ELSE Took3(rest, [rs EXCEPT !.skip = @ - rest])
          [] rs.data + rs.skip = 0 /\ buf = <<>> -> Stay(rs)
          [] OTHER ->
               CASE f[2] = "DATA" ->
                      IF \/ rs.head = "none" \/ rs.trailers
                         \/ ~(streaming /\ rs.body = <<>>) /\ f[3] > MaxResponse - Len(rs.body)
                         \/ cl # NoLen /\ Received(rs) + f[3] > cl
                      THEN RefuseStream(rs)
                      ELSE deliver([rs EXCEPT !.data = f[3] - avail], SubSeq(buf, 2, 1 + avail), streaming, 1 + avail, method)
                 [] f[2] = "HEADERS" -> IF rs.trailers THEN RefuseStream(rs) ELSE IF Len(buf) < 2 THEN Stay(rs)
                                        ELSE ConsumeHeaders(rs, buf[2], inserts)
                 [] f[2] \in {"SETTINGS", "GOAWAY", "CANCEL_PUSH", "MAX_PUSH_ID", "PUSH_PROMISE"} \cup Reserved -> RefuseStream(rs)
                 [] OTHER -> Took3(1 + avail, [rs EXCEPT !.skip = f[3] - avail])

\* An encoded body is buffered to be decoded; every other goes to the sink.
Encoded(job, rs) == job.decompress /\ rs.head = "encoded"

\* The inner loop: frames off the buffer until one is incomplete; the observer
\* is called when the final head is there.
RECURSIVE Frames(_)
Frames(c) ==
    LET f == consume_frame(c.buf, c.rs, c.job.sink /\ ~Encoded(c.job, c.rs), c.job.method, c.st.inserts)
        d == [c EXCEPT !.buf = H3Drop(@, f.n), !.rs = f.rs, !.out = @ \o f.out,
                       !.heads = IF c.rs.head = "none" /\ f.rs.head # "none" /\ c.job.sink THEN @ + 1 ELSE @]
    IN  IF f.err # "" THEN [c |-> c, err |-> f.err]
        ELSE IF ~f.did THEN [c |-> c, err |-> ""]
        ELSE IF d.buf = <<>> THEN [c |-> d, err |-> ""] ELSE Frames(d)

-----------------------------------------------------------------------------
(* The errors h3_should_fall_back tells apart, and the second attempt.       *)

Unsent == {"peer closed", "open"}
Ambiguous == {"io", "stream", "closed"}
FallsBack(c, why) ==
    /\ ~c.job.only
    /\ why \in Unsent \/ (why \in Ambiguous /\ c.job.method # "POST")
Failed(c, why) == IF FallsBack(c, why) THEN [c EXCEPT !.at = "again", !.res = why] ELSE [c EXCEPT !.at = "done", !.res = why]

\* Time passes, the peer may close, reset the stream or grant credit.
pump_once(c) ==
    {[c EXCEPT !.idle = @ + 1, !.closed = k, !.reset = r, !.credit = @ + g] :
        k \in IF c.srv.drops THEN {c.closed, TRUE} ELSE {c.closed},
        r \in IF c.srv.drops THEN {c.reset, TRUE} ELSE {c.reset},
        g \in IF c.srv.grants /\ c.left > 0 THEN {0, 1} ELSE {0}}

H3Handshake ==
    /\ h3.at = "shake"
    /\ IF h3.idle > Patience THEN h3' = Failed(h3, "io")
       ELSE \/ h3.closed /\ h3' = Failed(h3, "closed")
            \/ ~h3.closed /\ h3.srv.shakes
                 /\ h3' = IF h3.srv.trusted THEN [h3 EXCEPT !.at = "write", !.idle = 0] ELSE Failed(h3, "untrusted")
            \/ ~h3.closed /\ h3' \in pump_once(h3)

\* write_all_pumped: progress restarts the wait for credit.
H3Write ==
    /\ h3.at = "write"
    /\ h3' \in CASE h3.left = 0 -> {[h3 EXCEPT !.at = "read", !.idle = 0]}
                 [] h3.left > 0 /\ h3.reset -> {Failed(h3, "stream")}
                 [] h3.left > 0 /\ ~h3.reset /\ h3.credit > 0 ->
                      {[h3 EXCEPT !.left = @ - 1, !.credit = @ - 1, !.idle = 0]}
                 [] OTHER -> IF h3.closed THEN {Failed(h3, "peer closed")}
                             ELSE IF h3.idle > Patience THEN {Failed(h3, "io")} ELSE pump_once(h3)

Remaining(c, i) == Len(c.srv.uni[i].units) - c.st.uni[i].pos

\* finalize_response: a buffered body is decoded, then goes to the sink.
finalize_response(c) ==
    LET b == IF Encoded(c.job, c.rs) THEN [i \in DOMAIN c.rs.body |-> <<"plain", c.rs.body[i]>>] ELSE c.rs.body
    IN  [c EXCEPT !.at = "done", !.res = "ok", !.out = @ \o b]

H3Read ==
    /\ h3.at = "read"
    /\ CASE h3.idle > Patience -> h3' = Failed(h3, "io")
         [] h3.idle <= Patience /\ h3.closed -> h3' = Failed(h3, "peer closed")
         [] OTHER ->
              \E more \in [DOMAIN h3.srv.uni -> 0..4], n \in 0..Len(h3.srv.req) - h3.pos :
                /\ \A i \in DOMAIN more : more[i] <= Remaining(h3, i)
                /\ \E d \in {drain_uni_streams(h3.st, 1, h3.srv.uni, more)} :
                   \E c \in {[h3 EXCEPT !.st = d.st, !.pos = @ + n, !.buf = @ \o SubSeq(h3.srv.req, h3.pos + 1, h3.pos + n)]} :
                   \E f \in {Frames(c)} :
                      CASE d.err # "" -> h3' = Failed(h3, "bad")
                        [] d.err = "" /\ d.st.goaway = 0 -> h3' = Failed(c, "peer closed")
                        [] d.err = "" /\ d.st.goaway # 0 /\ h3.reset -> h3' = Failed(c, "stream")
                        [] OTHER ->
                             IF Len(c.buf) > MaxResponse \/ f.err # "" THEN h3' = Failed(f.c, "bad")
                             ELSE IF ~(h3.srv.ends /\ f.c.pos = Len(h3.srv.req)) THEN h3' \in pump_once(f.c)
                             ELSE IF f.c.buf # <<>> \/ f.c.rs.data + f.c.rs.skip > 0 \/ f.c.rs.head = "none"
                                     \/ ~check_content_length(f.c.rs, h3.job.method, TRUE)
                             THEN h3' = Failed(f.c, "bad")
                             ELSE h3' = finalize_response(f.c)

\* send_download_dispatch and send_https: the same request over TCP, with the
\* same sink and the same observer.
H3Again ==
    /\ h3.at = "again"
    /\ \E ok \in BOOLEAN :
          h3' = IF ok THEN [h3 EXCEPT !.at = "done", !.res = "ok", !.tries = 2, !.out = @ \o <<"tcp">>,
                                      !.heads = IF h3.job.sink THEN @ + 1 ELSE @]
                ELSE [h3 EXCEPT !.at = "done", !.tries = 2]

H3Next == H3Handshake \/ H3Write \/ H3Read \/ H3Again

-----------------------------------------------------------------------------
\* What the server meant to say on the request stream, and whether it broke
\* the protocol on it or on a stream of its own.
Headers(req) == {i \in DOMAIN req : req[i][1] = "fields"}
Payload(c) ==
    LET ds == SelectSeq(c.srv.req, LAMBDA x : x[1] = "d")
    IN  IF c.job.decompress /\ \E i \in Headers(c.srv.req) : c.srv.req[i][2] = "encoded"
        THEN [i \in DOMAIN ds |-> <<"plain", ds[i]>>] ELSE ds

\* Without a second attempt a success is the server's whole answer, byte for
\* byte, once and of the length announced, whatever order the streams arrived in: the sink holds exactly
\* the body and the observer was called exactly once, before the first byte; an
\* error never leaves more than a prefix behind.  What is buffered from a
\* stream of the server's is bounded, and its critical streams are what they
\* were first taken for.
H3Exact ==
    h3.at # "off" =>
        /\ h3.tries = 1 /\ h3.res = "ok" =>
              /\ h3.srv.ends /\ h3.pos = Len(h3.srv.req) /\ h3.out = Payload(h3)
              /\ h3.heads = IF h3.job.sink THEN 1 ELSE 0
              /\ \A i \in Headers(h3.srv.req) : LET f == h3.srv.req[i] IN
                    f[2] = "final" /\ f[3] # NoLen /\ h3.job.method # "HEAD" => Len(h3.out) = f[3]
              /\ h3.srv.trusted
        /\ h3.tries = 1 => /\ h3.out = SubSeq(Payload(h3), 1, Len(h3.out))
                           /\ h3.out # <<>> /\ h3.job.sink => h3.heads = 1
        /\ \A i, j \in DOMAIN h3.st.uni :
              /\ Len(h3.st.uni[i].buf) <= MaxUni
              /\ i # j /\ h3.st.uni[i].ty \in Critical => h3.st.uni[j].ty # h3.st.uni[i].ty
        /\ h3.res = "untrusted" => h3.left = 1 + h3.job.upload

\* The download's observer is called once, and the sink gets one body
\* (Request::send_download_observed).
HeadOnce == h3.at # "off" => h3.heads <= 1
=============================================================================
