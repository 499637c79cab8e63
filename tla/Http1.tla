------------------------------- MODULE Http1 --------------------------------
(***************************************************************************)
(* The sans-IO HTTP/1.1 machine (src/src/proto/http1.rs): a ClientExchange  *)
(* decodes one response from whatever pieces the reads deliver.  Plain text *)
(* is a sequence of tokens: a status line with its framing headers, a chunk *)
(* size, text, CR, LF and data.  The machine is a record, its operations are*)
(* operators; Exchange drives it.                                           *)
(***************************************************************************)
EXTENDS Integers, Sequences

CONSTANTS
    MaxHeader,    \* MAX_HEADER_BYTES, in tokens
    MaxBody,      \* MAX_BODY_BYTES, in tokens
    MaxInterim    \* MAX_INTERIM_RESPONSES

CR == <<"CR">>
LF == <<"LF">>
Text == <<"text">>
HeadTok(status, frame, n) == <<"head", status, frame, n>>
SizeTok(n) == <<"size", n>>

-----------------------------------------------------------------------------
(***************************************************************************)
(* ClientExchange.  Every operation returns [x, go, err]: the machine, what *)
(* the loop does next and the error, "" for none.                           *)
(***************************************************************************)
NoHead == [status |-> 0, frame |-> "", n |-> 0]
NewChunk == [remaining |-> 0, crlf |-> FALSE, trailers |-> FALSE, tbytes |-> 0]

NewExchange(method, streaming) ==
    [out |-> <<"req">>, method |-> method, rx |-> <<>>, state |-> "Head", n |-> 0,
     cs |-> NewChunk, head |-> NoHead, body |-> <<>>, total |-> 0, events |-> <<>>,
     streaming |-> streaming, emitted |-> FALSE, interim |-> 0]

Again(x) == [x |-> x, go |-> "again", err |-> ""]
More(x) == [x |-> x, go |-> "more", err |-> ""]
Bad(x, why) == [x |-> x, go |-> "fail", err |-> why]

Drain(x, n) == [x EXCEPT !.rx = SubSeq(@, n + 1, Len(@))]
FirstOf(S) == CHOOSE i \in S : \A j \in S : i <= j

\* Where the header block ends: after the first LF LF or CR LF CR LF; 0 if nowhere.
find_header_end(buf) ==
    LET ends == {i \in 2..Len(buf) :
                    \/ buf[i] = LF /\ buf[i - 1] = LF
                    \/ i >= 4 /\ SubSeq(buf, i - 3, i) = <<CR, LF, CR, LF>>}
    IN  IF ends = {} THEN 0 ELSE FirstOf(ends)

\* The status line must parse; the header lines after it are bounded.
parse_head(block) ==
    LET first == FirstOf({i \in 1..Len(block) : block[i] = LF})
        blank == IF block[Len(block) - 1] = CR THEN 2 ELSE 1
        fields == Len(block) - first - blank
    IN  IF block[1][1] # "head" THEN [ok |-> FALSE, head |-> NoHead]
        ELSE [ok |-> fields <= MaxHeader,
              head |-> [status |-> block[1][2], frame |-> block[1][3], n |-> block[1][4]]]

is_interim_status(status) == status \in 100..199 /\ status # 101

Bodyless(method, status) == method = "HEAD" \/ status \in 100..199 \/ status \in {204, 304}

body_mode(x, head) ==
    CASE Bodyless(x.method, head.status) -> "None"
      [] head.frame \in {"both", "oddte", "badlen"} -> "bad"
      [] head.frame = "chunked" -> "Chunked"
      [] head.frame = "length" ->
            IF ~x.streaming /\ head.n > MaxBody THEN "bad" ELSE "Length"
      [] head.frame = "close" -> "Eof"

\* emit_streaming: the head once, then the body decoded since the last time.
emit_streaming(x) ==
    LET h == IF ~x.emitted /\ x.head # NoHead THEN <<<<"Head", x.head>>>> ELSE <<>>
        b == IF x.body # <<>> THEN <<<<"Body", x.body>>>> ELSE <<>>
    IN  [x EXCEPT !.events = @ \o h \o b, !.emitted = @ \/ h # <<>>, !.body = <<>>]

finish(x) ==
    IF x.streaming
    THEN LET e == emit_streaming(x)
         IN  [e EXCEPT !.events = Append(@, <<"End">>), !.state = "Done"]
    ELSE [x EXCEPT !.events = Append(@, <<"Response", x.head, x.body>>),
                   !.body = <<>>, !.state = "Done"]

StepHead(x) ==
    LET end == find_header_end(x.rx)
        parsed == parse_head(SubSeq(x.rx, 1, end))
        rest == Drain(x, end)
        mode == body_mode(x, parsed.head)
        with == [rest EXCEPT !.head = parsed.head, !.n = parsed.head.n]
    IN  CASE end = 0 -> IF Len(x.rx) > MaxHeader THEN Bad(x, "headers") ELSE More(x)
          [] end > 0 /\ ~parsed.ok -> Bad(x, "head")
          [] end > 0 /\ parsed.ok /\ is_interim_status(parsed.head.status) ->
                IF x.interim + 1 > MaxInterim THEN Bad(x, "interim")
                ELSE Again([rest EXCEPT !.interim = @ + 1])
          [] OTHER ->
                CASE mode = "bad" -> Bad(x, "framing")
                  [] mode = "None" \/ (mode = "Length" /\ parsed.head.n = 0) -> Again(finish(with))
                  [] OTHER -> Again([with EXCEPT !.state = mode])

StepLength(x) ==
    LET need == x.n - x.total
    IN  IF Len(x.rx) >= need
        THEN Again(finish([Drain(x, need) EXCEPT !.body = @ \o SubSeq(x.rx, 1, need),
                                                 !.total = @ + need]))
        ELSE More([x EXCEPT !.total = @ + Len(x.rx), !.body = @ \o x.rx, !.rx = <<>>])

StepEof(x) ==
    IF ~x.streaming /\ x.total + Len(x.rx) > MaxBody THEN Bad(x, "too large")
    ELSE More([x EXCEPT !.total = @ + Len(x.rx), !.body = @ \o x.rx, !.rx = <<>>])

\* A line of rx: the index of its LF, 0 when it has not arrived.
LineEnd(rx) ==
    LET lfs == {i \in 1..Len(rx) : rx[i] = LF} IN IF lfs = {} THEN 0 ELSE FirstOf(lfs)

trim_eol(line) == SelectSeq(line, LAMBDA t : t \notin {CR, LF})

parse_chunk_size(line) ==
    IF line[1][1] = "size" /\ Len(trim_eol(line)) = 1 THEN line[1][2] ELSE -1

\* One turn of advance_chunked's loop: the CRLF owed after a chunk, a trailer
\* line, chunk data, or a size line.
advance_chunked(x) ==
    LET cs == x.cs
        nl == LineEnd(x.rx)
        line == SubSeq(x.rx, 1, nl)
        rest == Drain(x, nl)
        take == IF cs.remaining < Len(x.rx) THEN cs.remaining ELSE Len(x.rx)
        size == parse_chunk_size(line)
    IN  CASE cs.crlf ->
               CASE Len(x.rx) < 2 -> More(x)
                 [] Len(x.rx) >= 2 /\ SubSeq(x.rx, 1, 2) # <<CR, LF>> -> Bad(x, "crlf")
                 [] OTHER -> Again([Drain(x, 2) EXCEPT !.cs.crlf = FALSE])
          [] ~cs.crlf /\ cs.trailers ->
               CASE nl = 0 -> IF Len(x.rx) > MaxHeader THEN Bad(x, "trailer") ELSE More(x)
                 [] nl > 0 /\ trim_eol(line) = <<>> -> Again(finish(rest))
                 [] OTHER -> IF cs.tbytes + nl > MaxHeader THEN Bad(x, "trailer")
                             ELSE Again([rest EXCEPT !.cs.tbytes = @ + nl])
          [] ~cs.crlf /\ ~cs.trailers /\ cs.remaining > 0 ->
               IF take = 0 THEN More(x)
               ELSE Again([Drain(x, take) EXCEPT !.body = @ \o SubSeq(x.rx, 1, take),
                                                 !.total = @ + take,
                                                 !.cs.remaining = @ - take,
                                                 !.cs.crlf = cs.remaining = take])
          [] OTHER ->
               CASE nl = 0 -> IF Len(x.rx) > MaxHeader THEN Bad(x, "size line") ELSE More(x)
                 [] nl > 0 /\ size < 0 -> Bad(x, "size")
                 [] OTHER -> IF ~x.streaming /\ x.total + size > MaxBody THEN Bad(x, "too large")
                             ELSE Again([rest EXCEPT !.cs.trailers = size = 0,
                                                     !.cs.remaining = size])

\* advance's loop: make all the progress rx allows.
Step(x) ==
    CASE x.state = "Head" -> StepHead(x)
      [] x.state = "Length" -> StepLength(x)
      [] x.state = "Chunked" -> advance_chunked(x)
      [] x.state = "Eof" -> StepEof(x)
      [] x.state = "Done" -> More(x)

RECURSIVE advance(_)
advance(x) ==
    CHOOSE r \in {IF s.go = "again" THEN advance(s.x) ELSE s : s \in {Step(x)}} : TRUE

\* A finished machine takes nothing; otherwise every byte offered moves into rx.
HandleInput(x, wire) ==
    IF x.state = "Done" THEN More(x)
    ELSE CHOOSE r \in {IF s.err # "" \/ ~x.streaming THEN s ELSE [s EXCEPT !.x = emit_streaming(@)] :
                          s \in {advance([x EXCEPT !.rx = @ \o wire])}} : TRUE

HandleEof(x) ==
    CASE x.state = "Eof" -> More(finish([x EXCEPT !.body = @ \o x.rx, !.rx = <<>>]))
      [] x.state = "Done" -> More(x)
      [] OTHER -> Bad(x, "eof")

IsFinished(x) == x.state = "Done" /\ x.events = <<>>

-----------------------------------------------------------------------------
(***************************************************************************)
(* The reader under the connector, CONNECT and streaming paths of           *)
(* src/src/http.rs, which pulls one response off a buffered blocking stream:*)
(* read_body collects it, stream_body writes it to a sink, build_body_reader*)
(* hands it out as a Read.                                                  *)
(*                                                                         *)
(* s is everything the stream will still deliver and fin whether its end    *)
(* follows; without it a read past s blocks.  Every operator returns        *)
(* [st, v, rest] with st one of ok, eof, bad and block.                     *)
(***************************************************************************)

Ok3(v, rest) == [st |-> "ok", v |-> v, rest |-> rest]
Stop(st) == [st |-> st, v |-> <<>>, rest |-> <<>>]
From(s, i) == SubSeq(s, i + 1, Len(s))
PastEnd(fin) == Stop(IF fin THEN "eof" ELSE "block")

\* read_line_capped: at the end of the stream a line needs no LF.
read_line_capped(s, fin) ==
    LET nl == LineEnd(s)
    IN  CASE nl > MaxHeader + 1 \/ (nl = 0 /\ Len(s) > MaxHeader) -> Stop("bad")
          [] nl \in 1..MaxHeader + 1 -> Ok3(SubSeq(s, 1, nl), From(s, nl))
          [] OTHER -> IF ~fin \/ s = <<>> THEN PastEnd(fin) ELSE Ok3(s, <<>>)

\* The header lines up to the blank one, bounded together.
RECURSIVE ReadFields(_, _, _, _)
ReadFields(s, fin, head, bytes) ==
    LET l == read_line_capped(s, fin)
    IN  CASE l.st # "ok" -> l
          [] l.st = "ok" /\ bytes + Len(l.v) > MaxHeader -> Stop("bad")
          [] l.st = "ok" /\ bytes + Len(l.v) <= MaxHeader /\ trim_eol(l.v) = <<>> -> Ok3(head, l.rest)
          [] OTHER -> ReadFields(l.rest, fin, head, bytes + Len(l.v))

read_one_head(s, fin) ==
    LET l == read_line_capped(s, fin)
        t == l.v[1]
    IN  CASE l.st # "ok" -> l
          [] l.st = "ok" /\ t[1] # "head" -> Stop("bad")
          [] OTHER -> ReadFields(l.rest, fin, [status |-> t[2], frame |-> t[3], n |-> t[4]], 0)

RECURSIVE read_head(_, _, _)
read_head(s, fin, interim) ==
    LET h == read_one_head(s, fin)
    IN  CASE interim > MaxInterim -> Stop("bad")
          [] interim <= MaxInterim /\ h.st = "ok" /\ is_interim_status(h.v.status) ->
               read_head(h.rest, fin, interim + 1)
          [] OTHER -> h

read_chunk_size(s, fin) ==
    LET l == read_line_capped(s, fin)
        n == parse_chunk_size(l.v)
    IN  IF l.st # "ok" THEN l ELSE IF n < 0 THEN Stop("bad") ELSE Ok3(n, l.rest)

\* The trailer block ends with a blank line, or with the stream.
RECURSIVE drain_chunk_trailers(_, _, _, _)
drain_chunk_trailers(s, fin, bytes, body) ==
    LET l == read_line_capped(s, fin)
    IN  CASE l.st = "eof" -> Ok3(body, <<>>)
          [] l.st \in {"bad", "block"} -> l
          [] l.st = "ok" /\ trim_eol(l.v) = <<>> -> Ok3(body, l.rest)
          [] OTHER -> IF bytes + Len(l.v) > MaxHeader THEN Stop("bad")
                      ELSE drain_chunk_trailers(l.rest, fin, bytes + Len(l.v), body)

read_chunk_crlf(s, fin) ==
    IF Len(s) < 2 THEN PastEnd(fin)
    ELSE IF SubSeq(s, 1, 2) = <<CR, LF>> THEN Ok3(<<>>, From(s, 2)) ELSE Stop("bad")

\* Chunk by chunk; only the buffered reader bounds the whole.
RECURSIVE read_chunked(_, _, _, _)
read_chunked(s, fin, body, capped) ==
    LET z == read_chunk_size(s, fin)
        c == read_chunk_crlf(From(z.rest, z.v), fin)
    IN  CASE z.st # "ok" -> z
          [] z.st = "ok" /\ capped /\ Len(body) + z.v > MaxBody -> Stop("bad")
          [] z.st = "ok" /\ ~(capped /\ Len(body) + z.v > MaxBody) /\ z.v = 0 ->
               drain_chunk_trailers(z.rest, fin, 0, body)
          [] OTHER -> IF Len(z.rest) < z.v THEN PastEnd(fin)
                      ELSE IF c.st # "ok" THEN c
                      ELSE read_chunked(c.rest, fin, body \o SubSeq(z.rest, 1, z.v), capped)

read_length(s, fin, n) ==
    IF Len(s) < n THEN PastEnd(fin) ELSE Ok3(SubSeq(s, 1, n), From(s, n))

\* To the end of the stream, which TLS must have announced; at most cap tokens.
read_to_close(s, fin, truncated, cap) ==
    CASE Len(s) >= cap -> Ok3(SubSeq(s, 1, cap), From(s, cap))
      [] Len(s) < cap /\ ~fin -> Stop("block")
      [] OTHER -> IF truncated THEN Stop("eof") ELSE Ok3(s, <<>>)

\* Both framings at once are refused, a transfer coding that is not chunked is
\* read to the close.
read_body(method, head, s, fin, truncated) ==
    CASE Bodyless(method, head.status) -> Ok3(<<>>, s)
      [] ~Bodyless(method, head.status) /\ head.frame \in {"both", "badlen"} -> Stop("bad")
      [] ~Bodyless(method, head.status) /\ head.frame = "chunked" -> read_chunked(s, fin, <<>>, TRUE)
      [] ~Bodyless(method, head.status) /\ head.frame = "length" ->
           IF head.n > MaxBody THEN Stop("bad") ELSE read_length(s, fin, head.n)
      [] OTHER -> read_to_close(s, fin, truncated, MaxBody)

Unbounded == 99
\* The sink takes any length, and both framings at once.
stream_body(method, head, s, fin, truncated) ==
    CASE Bodyless(method, head.status) -> Ok3(<<>>, s)
      [] ~Bodyless(method, head.status) /\ head.frame = "badlen" -> Stop("bad")
      [] ~Bodyless(method, head.status) /\ head.frame \in {"chunked", "both"} ->
           read_chunked(s, fin, <<>>, FALSE)
      [] ~Bodyless(method, head.status) /\ head.frame = "length" -> read_length(s, fin, head.n)
      [] OTHER -> read_to_close(s, fin, truncated, Unbounded)

build_body_reader(method, head, s, fin, truncated) ==
    IF ~Bodyless(method, head.status) /\ head.frame = "both" THEN Stop("bad")
    ELSE stream_body(method, head, s, fin, truncated)

\* read_response and its streaming kin: [st, head, body].
PullResponse(kind, method, s, fin, truncated) ==
    LET h == read_head(s, fin, 0)
        b == CASE kind = "collect" -> read_body(method, h.v, h.rest, fin, truncated)
               [] kind = "sink" -> stream_body(method, h.v, h.rest, fin, truncated)
               [] kind = "reader" -> build_body_reader(method, h.v, h.rest, fin, truncated)
    IN  IF h.st # "ok" THEN [st |-> h.st, head |-> NoHead, body |-> <<>>]
        ELSE [st |-> b.st, head |-> h.v, body |-> b.v]
=============================================================================
