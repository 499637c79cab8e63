------------------------------- MODULE H2Conn -------------------------------
(***************************************************************************)
(* One HTTP/2 connection of src/http2.rs: the Connection and its Streams,  *)
(* and what process_frame does with every frame the peer may send.  The    *)
(* two drivers of a connection, run_multiplexed and run_one_request, are   *)
(* in H2Mux.                                                               *)
(*                                                                         *)
(* The peer is not modelled: a read returns any frame of the scene, or fails.*)
(*                                                                         *)
(* Abstracted: bytes to their number; a decoded header block to a          *)
(* final head with the content-length check_content_length compares        *)
(* (NoLength when there is none, for a HEAD request and for 204/304), an   *)
(* interim head, trailer fields, a malformed or an undecodable block; a    *)
(* header buffer to its number of fragments; every frame that is rejected  *)
(* for its type or its size to one ILLEGAL frame.  The peer's max frame    *)
(* size is fixed; enable_push, header_table_size and max_header_list_size  *)
(* change nothing modelled.                                                *)
(***************************************************************************)
EXTENDS Integers, Sequences, FiniteSets, FiniteSetsExt

CONSTANTS
    MaxStreamId,      \* 2^31 in the code: the first id that is not allocated
    PeerWindow,       \* 65535: the windows the peer grants by default
    WindowMax,        \* 2^31 - 1
    RecvWindow,       \* what we advertise
    FrameLimit,       \* send_frame_limit
    MaxBody,          \* MAX_RESPONSE_BYTES
    MaxFrags,         \* MAX_HEADERS_BUF, in fragments
    MaxInterim,       \* MAX_INTERIM_RESPONSES
    MaxNoProgress,    \* MAX_NO_PROGRESS_FRAMES
    MaxControl,       \* MAX_SETTINGS_FRAMES = MAX_PING_FRAMES = MAX_RST_STREAM_FRAMES
    Scenes,           \* peers and batches; for each of them:
    Limits,           \* MAX_CONCURRENT_STREAMS when the driver starts: the default
                      \* on a new connection, the peer's on one from the pool
    Frames,           \* the frames the peer sends
    SplitTrailers,    \* whether it splits a trailer section over CONTINUATION
    Breaks            \* whether reads and writes may fail

NoLength == -1
NoGoaway == -1
Unlimited == 1000     \* u32::MAX, the default MAX_CONCURRENT_STREAMS

FrameTypes == {"SETTINGS", "PING", "IGNORED", "ILLEGAL", "WINDOW_UPDATE", "GOAWAY",
               "HEADERS", "CONTINUATION", "DATA", "RST_STREAM"}

\* What read_frame leaves of a frame: unsigned fields, a stream id for the types
\* that need one, and an initial window that apply_settings_payload accepts.
IsFrame(f) ==
    /\ f.typ \in FrameTypes
    /\ f.id \in Nat
    /\ f.typ \in {"HEADERS", "CONTINUATION", "DATA", "RST_STREAM"} => f.id # 0
    /\ f.typ \in {"HEADERS", "DATA"} => f.end_stream \in BOOLEAN
    /\ f.typ \in {"HEADERS", "CONTINUATION"} => f.end_headers \in BOOLEAN /\ f.block.length \in Int
    /\ f.typ = "DATA" => f.len \in Nat /\ f.payload \in 0 .. f.len
    /\ f.typ = "WINDOW_UPDATE" => f.increment \in Nat
    /\ f.typ = "GOAWAY" => f.last \in Nat
    /\ f.typ = "SETTINGS" => /\ f.initial_window_size \in 0 .. WindowMax
                             /\ f.max_concurrent_streams \in Nat

ASSUME H2Assumption ==
    /\ {MaxStreamId, PeerWindow, WindowMax, RecvWindow, FrameLimit, MaxBody,
        MaxFrags, MaxInterim, MaxNoProgress, MaxControl} \subseteq Nat
    /\ Limits \in [Scenes -> SUBSET Nat]
    /\ FrameLimit > 0
    /\ PeerWindow <= WindowMax
    /\ DOMAIN Frames = Scenes /\ \A s \in Scenes : \A f \in Frames[s] : IsFrame(f)
    /\ Breaks \subseteq Scenes /\ SplitTrailers \subseteq Scenes

StreamIds == {i \in 1 .. MaxStreamId - 1 : i % 2 = 1}

VARIABLES
    streams,                  \* id -> Stream, for the registered ids
    peer,                     \* PeerSettings: initial window, concurrency
    conn_send_window,
    conn_recv_window,
    next_stream_id,
    goaway_received,
    expecting_continuation,   \* 0 for None
    budget,                   \* FloodBudget
    outcome,                  \* what the last read_and_dispatch returned
    wire,                     \* history: what went over the wire, by stream
    scene                     \* which peer this is

connVars == << streams, peer, conn_send_window, conn_recv_window,
               next_stream_id, goaway_received, expecting_continuation,
               budget, outcome, wire, scene >>

Continue  == [kind |-> "continue", id |-> 0]
Done(id)  == [kind |-> "done", id |-> id]
\* Error::BadResponse; the id, which the code's error does not carry, says of
\* an error that is one stream's which stream it is.
Bad           == [kind |-> "bad", id |-> 0]
BadStream(id) == [kind |-> "bad", id |-> id]
Flood     == [kind |-> "bad", id |-> -1]     \* ... of record_progress
Io        == [kind |-> "io", id |-> 0]       \* Error::Io, Error::UnexpectedEof

\* Stream::new, then the HEADERS of a request with a body of `len` bytes:
\* write_request_headers and stage_request_on.
NewStream(len) ==
    [state |-> IF len = 0 THEN "half_closed_local" ELSE "open",
     send |-> peer.initial_window_size,
     base |-> peer.initial_window_size,
     recv |-> RecvWindow,
     frags |-> 0,            \* fragments in headers_buf
     discard |-> FALSE,
     head |-> FALSE,         \* response_headers.is_some()
     final |-> FALSE,        \* final_status.is_some()
     interim |-> 0,
     expected |-> NoLength,
     body |-> 0,
     ended |-> FALSE,        \* end_stream_recv
     pending |-> len,        \* unsent bytes of pending_body
     refused |-> FALSE,
     rx_any |-> FALSE]

\* History of an id: DATA bytes sent and window granted on it (on the
\* connection, for 0); payload bytes received on it while registered;
\* END_STREAM and RST_STREAM of each side; whether a frame of ours for it could
\* not be written and the connection was used on.
Unheard == [sent |-> 0, granted |-> 0, got |-> 0, fin |-> FALSE, rst |-> FALSE,
            peer_fin |-> FALSE, peer_rst |-> FALSE, lost |-> FALSE]

ConnInit ==
    /\ streams = << >>
    /\ scene \in Scenes
    /\ \E limit \in Limits[scene] :
          peer = [initial_window_size |-> PeerWindow, max_concurrent_streams |-> limit]
    /\ conn_send_window = PeerWindow
    /\ conn_recv_window = RecvWindow
    /\ next_stream_id = 1
    /\ goaway_received = NoGoaway
    /\ expecting_continuation = 0
    /\ budget = [no_progress |-> 0, settings |-> 0, ping |-> 0, rst |-> 0]
    /\ outcome = Continue
    /\ wire = [i \in StreamIds \cup {0} |-> Unheard]

Registered == DOMAIN streams

Without(ids) == [i \in Registered \ ids |-> streams[i]]

ResponseComplete(s) ==
    s.state \in {"closed", "half_closed_remote"} /\ s.ended /\ s.head

\* is_usable: what the pool asks of a connection.
IsUsable ==
    /\ goaway_received = NoGoaway
    /\ Registered = {}
    /\ next_stream_id < MaxStreamId

\* The next stream is registered and the HEADERS of its request, with a body of
\* `len` bytes, are on the wire (send_priority_hint, write_request_headers).
RequestWritten(len) ==
    /\ streams' = [i \in Registered \cup {next_stream_id} |->
                      IF i = next_stream_id THEN NewStream(len) ELSE streams[i]]
    /\ wire' = [wire EXCEPT ![next_stream_id].fin = (len = 0)]
    /\ next_stream_id' = next_stream_id + 2

\* check_not_abandoned, when it fails.
Abandoned(id) == goaway_received # NoGoaway /\ id > goaway_received

AtConcurrencyLimit == Cardinality(Registered) >= peer.max_concurrent_streams

\* Mutant of CanOpen: open_stream without the GOAWAY test.
CanOpenBlind == ~AtConcurrencyLimit /\ next_stream_id < MaxStreamId

\* open_stream returns an id.
CanOpen ==
    /\ ~AtConcurrencyLimit
    /\ next_stream_id < MaxStreamId
    /\ goaway_received # NoGoaway => next_stream_id <= goaway_received

\* next_data_chunk_size, for stream s with `remaining` bytes to send.
NextDataChunk(s, remaining) ==
    IF s.send <= 0 \/ conn_send_window <= 0
    THEN 0
    ELSE Min({s.send, conn_send_window, remaining, FrameLimit})

\* StreamState::send_data of the last DATA frame.
SentEnd(state) == IF state = "half_closed_remote" THEN "closed" ELSE "half_closed_local"

\* One DATA frame of what is pending on a stream.
DataWritten(id) ==
    LET s    == streams[id]
        n    == NextDataChunk(s, s.pending)
        last == n = s.pending IN
    /\ conn_send_window' = conn_send_window - n
    /\ streams' = [streams EXCEPT ![id] =
                      [s EXCEPT !.send = @ - n,
                                !.pending = @ - n,
                                !.state = IF last THEN SentEnd(@) ELSE @]]
    /\ wire' = [wire EXCEPT ![id].sent = @ + n, ![id].fin = last, ![0].sent = @ + n]

\* StreamState::recv_data and recv_headers, where they are not an error.
MayReceive(state) == state \in {"open", "half_closed_local"}

Received(state, end_stream) ==
    IF ~end_stream THEN state
    ELSE IF state = "open" THEN "half_closed_remote" ELSE "closed"

-----------------------------------------------------------------------------
(* How a dispatch ends.  `b` is the budget after record_control_frame. *)

\* Mutant of Finish: frames that make no progress are not counted.
FinishUncounted(b, result, made_progress) ==
    /\ budget' = b
    /\ outcome' = result

\* The handler returned Ok: record_progress may still turn it into an error.
Finish(b, result, made_progress) ==
    LET progress == made_progress \/ result.kind = "done"
        streak   == IF progress THEN 0 ELSE b.no_progress + 1 IN
    /\ budget' = [b EXCEPT !.no_progress = streak]
    /\ outcome' = IF streak > MaxNoProgress THEN Flood ELSE result

\* The handler returned Err.
Reject(b, error) ==
    /\ budget' = b
    /\ outcome' = error

\* A handler that writes before it returns: the write may fail.
FinishWrite(b, result, made_progress) ==
    \/ Finish(b, result, made_progress)
    \/ scene \in Breaks /\ Reject(b, Io)

\* outcome_for, when s is what the handler left of stream id.
OutcomeFor(id, s) == IF ResponseComplete(s) THEN Done(id) ELSE Continue

\* stream_error: the stream is closed without a response and reset.
Failed(s) == [s EXCEPT !.state = "closed", !.head = FALSE]

\* check_content_length.
LengthMismatch(s) ==
    /\ s.expected # NoLength
    /\ s.body > s.expected \/ (s.ended /\ s.body # s.expected)

Replenished(available) == IF available < RecvWindow \div 2 THEN RecvWindow ELSE available

\* What the frame itself adds to the history.
Heard(f) ==
    [wire[f.id] EXCEPT
        !.peer_fin = @ \/ (f.typ \in {"HEADERS", "DATA"} /\ f.end_stream),
        !.peer_rst = @ \/ f.typ = "RST_STREAM",
        !.got = IF f.typ = "DATA" /\ f.id \in Registered THEN @ + f.payload ELSE @]

Hear(f) == wire' = [wire EXCEPT ![f.id] = Heard(f)]

\* Mutant of HearAndReset: stream_error without its RST_STREAM.
HearOnly(f) == wire' = [wire EXCEPT ![f.id] = Heard(f)]

\* A best-effort RST_STREAM, with w the stream's history before it: it goes out,
\* or its write fails and nobody looks.
ResetTried(w) ==
    {[w EXCEPT !.rst = TRUE]}
        \cup {v \in {[w EXCEPT !.lost = TRUE]} : scene \in Breaks}

\* The same, and our RST_STREAM.
HearAndReset(f) == \E w \in ResetTried(Heard(f)) : wire' = [wire EXCEPT ![f.id] = w]

-----------------------------------------------------------------------------
(* Frames on stream 0: process_conn_frame. *)

\* Mutant of Shifted: the new initial window replaces what is left of the old.
ShiftedReset(s, initial) == [s EXCEPT !.send = initial, !.base = initial]

\* The delta of SETTINGS_INITIAL_WINDOW_SIZE on an open stream.
Shifted(s, initial) == [s EXCEPT !.send = @ + initial - s.base, !.base = initial]

Overflows(s, initial) == s.send + initial - s.base > WindowMax

\* What a SETTINGS payload leaves of the peer's settings; one out of range is an
\* ILLEGAL frame.
apply_settings_payload(f) ==
    [initial_window_size |-> f.initial_window_size,
     max_concurrent_streams |-> f.max_concurrent_streams]

\* A SETTINGS frame gives a new initial window and a new concurrency limit
\* (either may be the current one).  An overflow is noticed stream by stream,
\* after the new values were stored: the streams before it are shifted.
ProcessSettings(b, f) ==
    LET initial == f.initial_window_size
        changed == initial # peer.initial_window_size
        over    == {i \in Registered : changed /\ Overflows(streams[i], initial)} IN
    /\ f.typ = "SETTINGS"
    /\ peer' = apply_settings_payload(f)
    /\ \/ /\ over = {}
          /\ streams' = [i \in Registered |->
                            IF changed THEN Shifted(streams[i], initial) ELSE streams[i]]
          /\ FinishWrite(b, Continue, FALSE)
       \/ /\ over # {}
          /\ \E shifted \in SUBSET (Registered \ over) :
                streams' = [i \in Registered |->
                               IF i \in shifted THEN Shifted(streams[i], initial)
                               ELSE streams[i]]
          /\ Reject(b, Bad)
    /\ UNCHANGED << conn_send_window, conn_recv_window, next_stream_id,
                    goaway_received, expecting_continuation, wire >>

\* A PING is answered; an unknown frame type or a SETTINGS ack is absorbed.
ProcessPing(b, f) ==
    /\ \/ f.typ = "PING" /\ FinishWrite(b, Continue, FALSE)
       \/ f.typ = "IGNORED" /\ Finish(b, Continue, FALSE)
       \/ f.typ = "ILLEGAL" /\ Reject(b, Bad)
    /\ UNCHANGED << streams, peer, conn_send_window, conn_recv_window,
                    next_stream_id, goaway_received, expecting_continuation, wire >>

ProcessConnWindowUpdate(b, f) ==
    LET raised == conn_send_window + f.increment IN
    /\ f.typ = "WINDOW_UPDATE" /\ f.id = 0
    /\ \/ /\ f.increment > 0 /\ raised <= WindowMax
          /\ conn_send_window' = raised
          /\ wire' = [wire EXCEPT ![0].granted = @ + f.increment]
          /\ Finish(b, Continue, TRUE)
       \/ /\ f.increment = 0 \/ raised > WindowMax
          /\ Reject(b, Bad)
          /\ UNCHANGED << conn_send_window, wire >>
    /\ UNCHANGED << streams, peer, conn_recv_window, next_stream_id,
                    goaway_received, expecting_continuation >>

\* A later GOAWAY only lowers the boundary; the streams above it are closed.
ProcessGoaway(b, f) ==
    LET last == IF goaway_received = NoGoaway THEN f.last
                ELSE Min({f.last, goaway_received}) IN
    /\ f.typ = "GOAWAY"
    /\ goaway_received' = last
    /\ streams' = [i \in Registered |->
                      IF i > last THEN [streams[i] EXCEPT !.state = "closed"]
                      ELSE streams[i]]
    /\ Finish(b, Continue, FALSE)
    /\ UNCHANGED << peer, conn_send_window, conn_recv_window, next_stream_id,
                    expecting_continuation, wire >>

-----------------------------------------------------------------------------
(* Header blocks: process_headers, process_continuation,                    *)
(* complete_header_block.                                                   *)

\* The stream after a complete block, when it is well-formed there.
AfterBlock(s, block) ==
    IF s.final THEN s
    ELSE IF block.kind = "interim" THEN [s EXCEPT !.interim = @ + 1]
    ELSE [s EXCEPT !.final = TRUE, !.head = TRUE, !.expected = block.length]

\* The fields fit their section: pseudo-headers only in a head, and only :status.
validate_response_fields(block, trailers) ==
    block.kind \in IF trailers THEN {"trailers"} ELSE {"interim", "head"}

\* Trailers end the stream; an interim head does not, and they are counted;
\* the length is compared when the stream has ended.
WellFormed(s, block) ==
    /\ validate_response_fields(block, s.final)
    /\ IF s.final THEN s.ended /\ ~LengthMismatch(s)
       ELSE \/ block.kind = "interim" /\ ~s.ended /\ s.interim < MaxInterim
            \/ block.kind = "head" /\ ~LengthMismatch(AfterBlock(s, block))

\* The block on stream f.id is complete and s is the stream it leaves.
\* `ignored` blocks are decoded only.
BlockDone(b, f, s, ignored) ==
    \/ /\ f.block.kind = "undecodable"
       /\ streams' = [streams EXCEPT ![f.id] = s]
       /\ Hear(f)
       /\ Reject(b, Bad)
    \/ /\ f.block.kind # "undecodable"
       /\ ignored
       /\ streams' = [streams EXCEPT ![f.id] = s]
       /\ Hear(f)
       /\ Finish(b, OutcomeFor(f.id, s), TRUE)
    \/ /\ f.block.kind # "undecodable"
       /\ ~ignored /\ WellFormed(s, f.block)
       /\ LET t == AfterBlock(s, f.block) IN
             /\ streams' = [streams EXCEPT ![f.id] = t]
             /\ Finish(b, OutcomeFor(f.id, t), TRUE)
       /\ Hear(f)
    \/ /\ f.block.kind # "undecodable"
       /\ ~ignored /\ ~WellFormed(s, f.block)
       /\ streams' = [streams EXCEPT ![f.id] = Failed(s)]
       /\ HearAndReset(f)
       /\ Reject(b, BadStream(f.id))

\* HEADERS on a stream that is not registered, or in a state or a buffer that
\* does not take it.
HeadersRejected(b, f) ==
    /\ f.typ = "HEADERS"
    /\ IF f.id \notin Registered THEN UNCHANGED streams
       ELSE LET s == streams[f.id] IN
            \/ /\ s.state = "half_closed_remote"
               /\ UNCHANGED streams
            \/ /\ s.state # "half_closed_remote"
               /\ s.frags >= MaxFrags
               /\ s.state = "closed" => ~f.end_headers
               /\ streams' = [streams EXCEPT ![f.id].rx_any =
                                 s.rx_any \/ s.state # "closed"]
    /\ Hear(f)
    /\ Reject(b, Bad)
    /\ UNCHANGED << peer, conn_send_window, conn_recv_window, next_stream_id,
                    goaway_received, expecting_continuation >>

\* HEADERS on a closed stream: decoded for the sake of HPACK and ignored.
HeadersIgnored(b, f) ==
    /\ f.typ = "HEADERS"
    /\ f.id \in Registered
    /\ LET s == streams[f.id] IN
       /\ s.state = "closed"
       /\ IF f.end_headers
          THEN /\ UNCHANGED << streams, expecting_continuation >>
               /\ IF f.block.kind = "undecodable" THEN Reject(b, Bad)
                  ELSE Finish(b, Continue, FALSE)
          ELSE /\ s.frags < MaxFrags
               /\ streams' = [streams EXCEPT ![f.id] =
                                 [s EXCEPT !.frags = @ + 1, !.discard = TRUE]]
               /\ expecting_continuation' = f.id
               /\ Finish(b, Continue, FALSE)
    /\ Hear(f)
    /\ UNCHANGED << peer, conn_send_window, conn_recv_window, next_stream_id,
                    goaway_received >>

HeadersTaken(b, f) ==
    /\ f.typ = "HEADERS"
    /\ f.id \in Registered
    /\ LET s == streams[f.id]
           t == [s EXCEPT !.rx_any = TRUE,
                          !.ended = @ \/ f.end_stream,
                          !.state = Received(s.state, f.end_stream)] IN
       /\ MayReceive(s.state)
       /\ s.frags < MaxFrags
       /\ IF f.end_headers
          THEN /\ expecting_continuation' = 0
               /\ BlockDone(b, f, [t EXCEPT !.frags = 0], FALSE)
          ELSE /\ expecting_continuation' = f.id
               /\ streams' = [streams EXCEPT ![f.id] = [t EXCEPT !.frags = @ + 1]]
               /\ Hear(f)
               /\ Finish(b, OutcomeFor(f.id, t), FALSE)
    /\ UNCHANGED << peer, conn_send_window, conn_recv_window, next_stream_id,
                    goaway_received >>

ProcessHeaders(b, f) ==
    HeadersRejected(b, f) \/ HeadersIgnored(b, f) \/ HeadersTaken(b, f)

ProcessContinuation(b, f) ==
    /\ f.typ = "CONTINUATION"
    /\ IF \/ expecting_continuation # f.id
          \/ f.id \notin Registered
          \/ streams[f.id].frags >= MaxFrags
       THEN /\ Reject(b, Bad)
            /\ UNCHANGED << streams, expecting_continuation, wire >>
       ELSE LET s == streams[f.id] IN
            IF f.end_headers
            THEN /\ expecting_continuation' = 0
                 /\ BlockDone(b, f, [s EXCEPT !.frags = 0, !.discard = FALSE], s.discard)
            ELSE /\ streams' = [streams EXCEPT ![f.id].frags = @ + 1]
                 /\ Finish(b, OutcomeFor(f.id, s), FALSE)
                 /\ UNCHANGED << expecting_continuation, wire >>
    /\ UNCHANGED << peer, conn_send_window, conn_recv_window, next_stream_id,
                    goaway_received >>

-----------------------------------------------------------------------------
(* DATA: process_data.  The connection window is billed first, whatever the *)
(* frame turns out to be; it is topped up only where the frame is dropped   *)
(* or accepted.                                                             *)

Billed(f) == conn_recv_window - f.len

\* More than the connection window, a stream that is closed (or that the peer
\* has ended): no stream is touched.
DataRejected(b, f) ==
    /\ \/ Billed(f) < 0
       \/ f.id \in Registered /\ ~MayReceive(streams[f.id].state)
    /\ Reject(b, Bad)
    /\ conn_recv_window' = Billed(f)
    /\ Hear(f)
    /\ UNCHANGED streams

DataDropped(b, f) ==
    /\ Billed(f) >= 0
    /\ f.id \notin Registered
    /\ conn_recv_window' = Replenished(Billed(f))
    /\ FinishWrite(b, Continue, FALSE)
    /\ Hear(f)
    /\ UNCHANGED streams

\* More than the stream's window, or a body above the ceiling: an error that
\* leaves the stream open.
DataTooMuch(b, f) ==
    LET s == streams[f.id] IN
    /\ Billed(f) >= 0
    /\ f.id \in Registered /\ MayReceive(s.state)
    /\ s.recv < f.len \/ (s.final /\ s.body + f.payload > MaxBody)
    /\ streams' = [streams EXCEPT ![f.id] =
                      [s EXCEPT !.rx_any = TRUE, !.recv = @ - f.len]]
    /\ conn_recv_window' = Billed(f)
    /\ Reject(b, Bad)
    /\ Hear(f)

\* The stream after an accepted DATA frame.
AfterData(s, f) ==
    [s EXCEPT !.rx_any = TRUE,
              !.recv = @ - f.len,
              !.body = @ + f.payload,
              !.ended = @ \/ f.end_stream,
              !.state = Received(s.state, f.end_stream)]

\* DATA before the response head, or against its content-length: stream_error.
DataMalformed(b, f) ==
    LET s == streams[f.id] IN
    /\ Billed(f) >= 0
    /\ f.id \in Registered /\ MayReceive(s.state) /\ s.recv >= f.len
    /\ \/ /\ ~s.final
          /\ streams' = [streams EXCEPT ![f.id] =
                            Failed([s EXCEPT !.rx_any = TRUE, !.recv = @ - f.len])]
       \/ /\ s.final /\ s.body + f.payload <= MaxBody
          /\ LengthMismatch(AfterData(s, f))
          /\ streams' = [streams EXCEPT ![f.id] = Failed(AfterData(s, f))]
    /\ conn_recv_window' = Billed(f)
    /\ Reject(b, BadStream(f.id))
    /\ HearAndReset(f)

DataTaken(b, f) ==
    LET s == streams[f.id]
        t == AfterData(s, f) IN
    /\ Billed(f) >= 0
    /\ f.id \in Registered /\ MayReceive(s.state) /\ s.recv >= f.len
    /\ s.final /\ s.body + f.payload <= MaxBody
    /\ ~LengthMismatch(t)
    /\ streams' = [streams EXCEPT ![f.id] = [t EXCEPT !.recv = Replenished(t.recv)]]
    /\ conn_recv_window' = Replenished(Billed(f))
    /\ FinishWrite(b, OutcomeFor(f.id, t), f.payload > 0)
    /\ Hear(f)

ProcessData(b, f) ==
    /\ f.typ = "DATA"
    /\ \/ DataRejected(b, f)
       \/ DataDropped(b, f)
       \/ DataTooMuch(b, f)
       \/ DataMalformed(b, f)
       \/ DataTaken(b, f)
    /\ UNCHANGED << peer, conn_send_window, next_stream_id, goaway_received,
                    expecting_continuation >>

-----------------------------------------------------------------------------
(* RST_STREAM and WINDOW_UPDATE on a stream. *)

\* A reset of an open stream is an error for that stream, unless it only asks
\* us to stop sending after a complete response.
ProcessRst(b, f) ==
    /\ f.typ = "RST_STREAM"
    /\ IF f.id \notin Registered \/ streams[f.id].state = "closed"
       THEN /\ Finish(b, Continue, FALSE)
            /\ UNCHANGED streams
       ELSE LET s == streams[f.id]
                stands == f.code = "no_error" /\ s.ended /\ s.head IN
            /\ streams' = [streams EXCEPT ![f.id] =
                              [s EXCEPT !.state = "closed",
                                        !.rx_any = TRUE,
                                        !.refused = ~stands /\ f.code = "refused"]]
            /\ IF stands THEN Finish(b, Done(f.id), FALSE) ELSE Reject(b, BadStream(f.id))
    /\ Hear(f)
    /\ UNCHANGED << peer, conn_send_window, conn_recv_window, next_stream_id,
                    goaway_received, expecting_continuation >>

ProcessStreamWindowUpdate(b, f) ==
    /\ f.typ = "WINDOW_UPDATE" /\ f.id # 0
    /\ IF f.id \notin Registered
       THEN /\ Finish(b, Continue, FALSE)
            /\ UNCHANGED << streams, wire >>
       ELSE LET raised == streams[f.id].send + f.increment IN
            IF f.increment = 0 \/ raised > WindowMax
            THEN /\ Reject(b, Bad)
                 /\ UNCHANGED << streams, wire >>
            ELSE /\ streams' = [streams EXCEPT ![f.id].send = raised]
                 /\ wire' = [wire EXCEPT ![f.id].granted = @ + f.increment]
                 /\ Finish(b, Continue, TRUE)
    /\ UNCHANGED << peer, conn_send_window, conn_recv_window, next_stream_id,
                    goaway_received, expecting_continuation >>

-----------------------------------------------------------------------------
(* process_frame and read_and_dispatch. *)

\* record_control_frame.
Charged(f) ==
    [budget EXCEPT !.settings = IF f.typ = "SETTINGS" THEN @ + 1 ELSE @,
                   !.ping = IF f.typ = "PING" THEN @ + 1 ELSE @,
                   !.rst = IF f.typ = "RST_STREAM" THEN @ + 1 ELSE @]

Flooded(b, f) ==
    \/ f.typ = "SETTINGS" /\ b.settings > MaxControl
    \/ f.typ = "PING" /\ b.ping > MaxControl
    \/ f.typ = "RST_STREAM" /\ b.rst > MaxControl

\* Between HEADERS and its last CONTINUATION nothing else may come.
OutOfPlace(f) ==
    /\ expecting_continuation # 0
    /\ ~(f.typ = "CONTINUATION" /\ f.id = expecting_continuation)

Dispatch(b, f) ==
    \/ ProcessSettings(b, f) \/ ProcessPing(b, f)
    \/ ProcessConnWindowUpdate(b, f) \/ ProcessGoaway(b, f)
    \/ ProcessHeaders(b, f) \/ ProcessContinuation(b, f)
    \/ ProcessData(b, f) \/ ProcessRst(b, f)
    \/ ProcessStreamWindowUpdate(b, f)

ProcessFrame(f) ==
    LET b == Charged(f) IN
    \/ /\ OutOfPlace(f)
       /\ outcome' = Bad
       /\ UNCHANGED << streams, peer, conn_send_window, conn_recv_window,
                       next_stream_id, goaway_received, expecting_continuation,
                       budget, wire >>
    \/ /\ ~OutOfPlace(f) /\ Flooded(b, f)
       /\ Reject(b, Bad)
       /\ UNCHANGED << streams, peer, conn_send_window, conn_recv_window,
                       next_stream_id, goaway_received, expecting_continuation, wire >>
    \/ /\ ~OutOfPlace(f) /\ ~Flooded(b, f)
       /\ Dispatch(b, f)

\* The frames the peer may send now.
Arriving ==
    {f \in Frames[scene] :
        f.typ = "HEADERS" /\ ~f.end_headers /\ f.id \in Registered =>
            scene \in SplitTrailers \/ ~streams[f.id].final}

\* The transport ends or fails before a frame is complete.
ReadFails ==
    /\ scene \in Breaks
    /\ outcome' = Io
    /\ UNCHANGED << streams, peer, conn_send_window, conn_recv_window,
                    next_stream_id, goaway_received, expecting_continuation,
                    budget, wire >>

ReadAndDispatch == (\E f \in Arriving : ProcessFrame(f)) \/ ReadFails

=============================================================================
