------------------------------- MODULE H2Mux --------------------------------
(***************************************************************************)
(* The drivers of an HTTP/2 connection in src/http2.rs: run_multiplexed, a *)
(* batch of requests driven by one frame loop, and run_one_request, which  *)
(* blocks on one request at a time of a connection that goes back to the   *)
(* pool in between; and what send and send_multiplexed put back there.     *)
(*                                                                         *)
(* `pc` is where the loop is: "start" (start_queued, one request per       *)
(* step), "pump" (pump_pending_sends, one DATA frame per step), "read",    *)
(* "dispatched" (the outcome of a read is being handled), "done", then     *)
(* "pooled" or "dropped".  The single request has "one" (between two       *)
(* requests), "one_send", "one_read" and "one_dispatched".                 *)
(***************************************************************************)
EXTENDS H2Conn

CONSTANTS
    Bodies,         \* scene -> the lengths of its requests' bodies
    Singles         \* the scenes whose requests are sent one by one

ASSUME MuxAssumption == Bodies \in [Scenes -> Seq(Nat)] /\ Singles \subseteq Scenes

BodyLen == Bodies[scene]
Requests == DOMAIN BodyLen

VARIABLES
    queue,          \* requests not started, in order
    id_to_idx,      \* live stream -> request
    results,        \* request -> "none", "ok", "err", "moved" (to another connection)
    pc,
    retrying,       \* the start under way is the loop's second chance
    fatal,          \* history: a read failed, or the peer broke the
                    \* connection's protocol (a flood is not counted)
    blame,          \* history: the last read broke the connection's rules or failed
    opened          \* history: stream -> the request it was opened for

muxVars == << queue, id_to_idx, results, pc, retrying, fatal, blame, opened >>

vars == << connVars, muxVars >>

Live == DOMAIN id_to_idx

Init ==
    /\ ConnInit
    /\ queue = [i \in 1 .. Cardinality(Requests) |-> i]
    /\ id_to_idx = << >>
    /\ results = [r \in Requests |-> "none"]
    /\ pc = IF scene \in Singles THEN "one" ELSE "start"
    /\ retrying = FALSE
    /\ fatal = FALSE
    /\ blame = FALSE
    /\ opened = << >>

Unmap(ids) == [i \in Live \ ids |-> id_to_idx[i]]

FailLive(ids) == [r \in Requests |->
                     IF \E i \in ids : id_to_idx[i] = r THEN "err" ELSE results[r]]

\* fail_all_outstanding.
FailAll == [r \in Requests |-> IF results[r] = "none" THEN "err" ELSE results[r]]

-----------------------------------------------------------------------------
(* start_queued. *)

\* A stream is opened, its HEADERS are written and its body is staged.
StartOne ==
    /\ pc = "start"
    /\ queue # << >>
    /\ CanOpen
    /\ queue' = Tail(queue)
    /\ RequestWritten(BodyLen[Head(queue)])
    /\ id_to_idx' = [i \in Live \cup {next_stream_id} |->
                        IF i = next_stream_id THEN Head(queue) ELSE id_to_idx[i]]
    /\ opened' = Append(opened, Head(queue))
    /\ UNCHANGED << peer, conn_send_window, conn_recv_window, goaway_received,
                    expecting_continuation, budget, outcome, results, pc,
                    retrying, fatal, blame >>

\* The stream is opened but its HEADERS cannot be written: it is dropped, and the
\* peer is told nothing.
StartWriteFails ==
    /\ pc = "start"
    /\ queue # << >>
    /\ CanOpen
    /\ scene \in Breaks
    /\ queue' = Tail(queue)
    /\ results' = [results EXCEPT ![Head(queue)] = "err"]
    /\ opened' = Append(opened, Head(queue))
    /\ next_stream_id' = next_stream_id + 2
    /\ wire' = [wire EXCEPT ![next_stream_id].lost = TRUE]
    /\ UNCHANGED << streams, peer, conn_send_window, conn_recv_window,
                    goaway_received, expecting_continuation, budget, outcome,
                    id_to_idx, pc, retrying, fatal, blame >>

\* open_stream refuses for good: the GOAWAY boundary or the end of the ids.
StartRefused ==
    /\ pc = "start"
    /\ queue # << >>
    /\ ~AtConcurrencyLimit
    /\ ~CanOpen
    /\ queue' = Tail(queue)
    /\ results' = [results EXCEPT ![Head(queue)] = "err"]
    /\ UNCHANGED << connVars, id_to_idx, pc, retrying, fatal, blame, opened >>

\* Nothing more to start, or no room.  The loop's second chance gives up on
\* the queue when it has opened nothing.
StartDone ==
    /\ pc = "start"
    /\ queue = << >> \/ AtConcurrencyLimit
    /\ IF retrying /\ Live = {}
       THEN /\ results' = FailAll
            /\ queue' = << >>
            /\ pc' = "done"
       ELSE /\ pc' = "pump"
            /\ UNCHANGED << results, queue >>
    /\ UNCHANGED << connVars, id_to_idx, retrying, fatal, blame, opened >>

-----------------------------------------------------------------------------
(* flush_pending. *)

Sendable == {i \in Registered : /\ streams[i].pending > 0
                                /\ NextDataChunk(streams[i], streams[i].pending) > 0}

\* One DATA frame, on the lowest stream that may send.
PumpOne ==
    /\ pc = "pump"
    /\ Sendable # {}
    /\ DataWritten(Min(Sendable))
    /\ UNCHANGED << peer, conn_recv_window, next_stream_id, goaway_received,
                    expecting_continuation, budget, outcome, muxVars >>

\* The top of the frame loop: stop, give the queue a second chance, or read.
LoopTop ==
    IF \/ \A r \in Requests : results[r] # "none"
       \/ Live = {} /\ queue = << >>
    THEN pc' = "done" /\ UNCHANGED retrying
    ELSE IF Live = {} THEN pc' = "start" /\ retrying' = TRUE
    ELSE pc' = "read" /\ UNCHANGED retrying

PumpDone ==
    /\ pc = "pump"
    /\ Sendable = {}
    /\ IF retrying THEN pc' = "read" /\ retrying' = FALSE ELSE LoopTop
    /\ UNCHANGED << connVars, queue, id_to_idx, results, fatal, blame, opened >>

\* A DATA frame or the flush cannot be written.  After the second chance the
\* loop is left without a result for what is outstanding.
PumpFails ==
    /\ pc = "pump"
    /\ scene \in Breaks
    /\ pc' = "done"
    /\ results' = IF retrying THEN results ELSE FailAll
    /\ UNCHANGED << connVars, queue, id_to_idx, retrying, fatal, blame, opened >>

-----------------------------------------------------------------------------
(* The frame loop's body. *)

\* The frame is one that a server which keeps to RFC 9113 may send now, as far
\* as the connection is concerned: a malformed response or a reset is one
\* stream's affair.  Two things that the code holds against the connection are
\* not counted as conforming although the RFC allows them: a header block on a
\* stream that we have reset, and a body above MAX_RESPONSE_BYTES.
Conforms(f) ==
    LET unended == ~wire[f.id].peer_fin /\ ~wire[f.id].peer_rst IN
    /\ ~OutOfPlace(f)
    /\ ~Flooded(Charged(f), f)
    /\ budget.no_progress < MaxNoProgress
    /\ f.typ # "ILLEGAL"
    /\ f.typ = "HEADERS" => f.id \in Registered /\ unended
    /\ f.typ = "RST_STREAM" => f.id < next_stream_id /\ ~wire[f.id].peer_rst
    /\ f.typ = "CONTINUATION" => expecting_continuation = f.id
    /\ f.typ = "DATA" =>
          /\ f.id < next_stream_id /\ unended
          /\ f.len <= conn_recv_window
          /\ f.id \in Registered => /\ f.len <= streams[f.id].recv
                                    /\ streams[f.id].body + f.payload <= MaxBody
    /\ f.typ \in {"HEADERS", "CONTINUATION"} =>
          /\ f.id \in Registered => streams[f.id].frags < MaxFrags
          /\ f.end_headers => f.block.kind # "undecodable"
    /\ f.typ = "WINDOW_UPDATE" =>
          /\ f.increment > 0
          /\ f.id = 0 => conn_send_window + f.increment <= WindowMax
          /\ f.id \in Registered => streams[f.id].send + f.increment <= WindowMax
    /\ f.typ = "SETTINGS" =>
          \A i \in Registered : ~Overflows(streams[i], f.initial_window_size)

ReadOne ==
    /\ pc \in {"read", "one_read"}
    /\ \/ \E f \in Arriving : /\ ProcessFrame(f)
                             /\ blame' = ~Conforms(f)
       \/ /\ ReadFails
          /\ blame' = TRUE
    /\ fatal' = \/ fatal
                \/ outcome'.kind = "io"
                \/ outcome' = Bad
    /\ pc' = IF pc = "read" THEN "dispatched" ELSE "one_dispatched"
    /\ UNCHANGED << queue, id_to_idx, results, retrying, opened >>

IsErr == outcome.kind \in {"bad", "io"}

\* Mutant of Culprits: any unfinished stream takes the blame.
CulpritsUnfinished == {i \in Registered \cap Live : ~ResponseComplete(streams[i])}

\* take_stream_error: the live streams that were closed without a response.
Culprits == {i \in Registered \cap Live : /\ streams[i].state = "closed"
                                          /\ ~ResponseComplete(streams[i])}

\* The error belongs to one stream: only its request fails.
StreamFails ==
    /\ pc = "dispatched"
    /\ IsErr
    /\ Cardinality(Culprits) = 1
    /\ results' = FailLive(Culprits)
    /\ id_to_idx' = Unmap(Culprits)
    /\ streams' = Without(Culprits)
    /\ pc' = "start"
    /\ retrying' = FALSE
    /\ UNCHANGED << peer, conn_send_window, conn_recv_window, next_stream_id,
                    goaway_received, expecting_continuation, budget, outcome,
                    wire, queue, fatal, blame, opened >>

\* The error is the connection's: everything outstanding fails.
ConnectionFails ==
    /\ pc = "dispatched"
    /\ IsErr
    /\ Cardinality(Culprits) # 1
    /\ results' = FailAll
    /\ pc' = "done"
    /\ UNCHANGED << connVars, queue, id_to_idx, retrying, fatal, blame, opened >>

\* fail_goaway_doomed: the live streams above the boundary with no response.
Doomed ==
    IF goaway_received = NoGoaway THEN {}
    ELSE {i \in Live : /\ i > goaway_received
                       /\ ~(i \in Registered /\ streams[i].ended /\ streams[i].head)}

\* No stream completed: doomed streams are dropped and the loop goes on.
Proceed ==
    /\ pc = "dispatched"
    /\ ~IsErr
    /\ outcome.kind = "done" => outcome.id \notin Live \ Doomed
    /\ results' = FailLive(Doomed)
    /\ id_to_idx' = Unmap(Doomed)
    /\ streams' = Without(Doomed)
    /\ pc' = "pump"
    /\ retrying' = FALSE
    /\ UNCHANGED << peer, conn_send_window, conn_recv_window, next_stream_id,
                    goaway_received, expecting_continuation, budget, outcome,
                    wire, queue, fatal, blame, opened >>

\* build_response_from_stream: a content decoder may fail.
Built == {"ok", "err"}

\* A stream completed: its response is built, the
\* rest of its request body is called off, and its slot is reused.
Complete ==
    /\ pc = "dispatched"
    /\ outcome.kind = "done"
    /\ outcome.id \in Live \ Doomed
    /\ LET id == outcome.id IN
       /\ \E built \in Built :
             results' = [FailLive(Doomed) EXCEPT ![id_to_idx[id]] = built]
       /\ id_to_idx' = Unmap(Doomed \cup {id})
       /\ streams' = Without(Doomed \cup {id})
       /\ IF streams[id].pending > 0
          THEN \E w \in ResetTried(wire[id]) : wire' = [wire EXCEPT ![id] = w]
          ELSE wire' = wire
    /\ pc' = "start"
    /\ retrying' = FALSE
    /\ UNCHANGED << peer, conn_send_window, conn_recv_window, next_stream_id,
                    goaway_received, expecting_continuation, budget, outcome,
                    queue, fatal, blame, opened >>

-----------------------------------------------------------------------------
(* run_one_request: the stream in progress is the only one. *)

OneId == CHOOSE i \in Live : TRUE

\* The request is given up with an error and the connection with it; the
\* requests behind it are sent elsewhere.
OneLeaves(failed) ==
    /\ results' = [r \in Requests |-> IF r \in failed THEN "err"
                                     ELSE IF results[r] = "none" THEN "moved" ELSE results[r]]
    /\ queue' = << >>
    /\ pc' = "done"

\* The connection is dialled or comes from the pool; the request's stream is
\* opened and its HEADERS are written.
OneOpens ==
    /\ pc = "one" /\ queue # << >> /\ CanOpen
    /\ queue' = Tail(queue)
    /\ RequestWritten(BodyLen[Head(queue)])
    /\ id_to_idx' = [i \in {next_stream_id} |-> Head(queue)]
    /\ opened' = Append(opened, Head(queue))
    /\ pc' = "one_send"
    /\ UNCHANGED << peer, conn_send_window, conn_recv_window, goaway_received,
                    expecting_continuation, budget, outcome, results, retrying, fatal, blame >>

\* open_stream refuses: at the concurrency limit too.
OneRefused ==
    /\ pc = "one" /\ queue # << >> /\ ~CanOpen
    /\ OneLeaves({Head(queue)})
    /\ UNCHANGED << connVars, id_to_idx, retrying, fatal, blame, opened >>

OneEnds ==
    /\ pc = "one" /\ queue = << >>
    /\ pc' = "done"
    /\ UNCHANGED << connVars, queue, id_to_idx, results, retrying, fatal, blame, opened >>

\* send_request_on, while both windows have credit.
OneSends ==
    /\ pc = "one_send"
    /\ OneId \in Sendable
    /\ DataWritten(OneId)
    /\ UNCHANGED << peer, conn_recv_window, next_stream_id, goaway_received,
                    expecting_continuation, budget, outcome, muxVars >>

OneWriteFails ==
    /\ pc = "one_send" /\ scene \in Breaks
    /\ OneLeaves({id_to_idx[OneId]})
    /\ UNCHANGED << connVars, id_to_idx, retrying, fatal, blame, opened >>

\* Blocked on the windows, or the body is out: read, unless a GOAWAY has left the
\* stream behind.
OneWaits ==
    /\ pc = "one_send"
    /\ OneId \notin Sendable
    /\ IF Abandoned(OneId) THEN OneLeaves({id_to_idx[OneId]})
       ELSE pc' = "one_read" /\ UNCHANGED << queue, results >>
    /\ UNCHANGED << connVars, id_to_idx, retrying, fatal, blame, opened >>

\* The read failed, or the reset of an upload that is no longer wanted cannot be written.
OneFails ==
    /\ pc = "one_dispatched"
    /\ IsErr \/ (outcome.kind = "done" /\ streams[OneId].pending > 0 /\ scene \in Breaks)
    /\ OneLeaves({id_to_idx[OneId]})
    /\ UNCHANGED << connVars, id_to_idx, retrying, fatal, blame, opened >>

OneContinues ==
    /\ pc = "one_dispatched" /\ outcome.kind = "continue"
    /\ pc' = "one_send"
    /\ UNCHANGED << connVars, queue, id_to_idx, results, retrying, fatal, blame, opened >>

\* The response is complete, perhaps before the whole body was taken: the rest is
\* called off.  The next request uses the connection if it is still usable.
OneCompletes ==
    /\ pc = "one_dispatched" /\ outcome.kind = "done"
    /\ wire' = IF streams[OneId].pending > 0 THEN [wire EXCEPT ![OneId].rst = TRUE] ELSE wire
    /\ streams' = Without({i \in Registered : i = OneId \/ streams[i].state = "closed" \/ ResponseComplete(streams[i])})
    /\ id_to_idx' = Unmap({OneId})
    /\ \E built \in Built :
          LET moves == built = "err" \/ goaway_received # NoGoaway \/ next_stream_id >= MaxStreamId IN
          /\ results' = [r \in Requests |-> IF r = id_to_idx[OneId] THEN built
                                            ELSE IF moves /\ results[r] = "none" THEN "moved" ELSE results[r]]
          /\ queue' = IF moves THEN << >> ELSE queue
          /\ pc' = IF moves THEN "done" ELSE "one"
    /\ UNCHANGED << peer, conn_send_window, conn_recv_window, next_stream_id, goaway_received,
                    expecting_continuation, budget, outcome, retrying, fatal, blame, opened >>

-----------------------------------------------------------------------------
\* send and send_multiplexed: back to the pool if every request went well and the
\* connection is still usable.
Release ==
    /\ pc = "done"
    /\ pc' = IF (\A r \in Requests : results[r] = "ok") /\ IsUsable THEN "pooled" ELSE "dropped"
    /\ UNCHANGED << connVars, queue, id_to_idx, results, retrying, fatal, blame, opened >>

Finished ==
    /\ pc \in {"pooled", "dropped"}
    /\ UNCHANGED vars

Step ==
    /\ \/ StartOne \/ StartWriteFails \/ StartRefused \/ StartDone
       \/ PumpOne \/ PumpDone \/ PumpFails
       \/ ReadOne
       \/ StreamFails \/ ConnectionFails \/ Proceed \/ Complete
       \/ OneOpens \/ OneRefused \/ OneEnds \/ OneSends \/ OneWriteFails \/ OneWaits
       \/ OneFails \/ OneContinues \/ OneCompletes
       \/ Release
    /\ UNCHANGED scene

Next == Step \/ Finished

Spec == Init /\ [][Next]_vars

\* The loop runs in one thread and a read returns, with a frame or with an
\* error (every socket of the client has its timeouts).
FairSpec == Spec /\ WF_vars(Step)

-----------------------------------------------------------------------------
(* Properties. *)

States == {"open", "half_closed_local", "half_closed_remote", "closed"}

\* Every variable stays in its type.  In particular our receive windows never
\* go below zero while the connection is alive, no send window passes its
\* maximum, and no stream is registered in the state "idle".
TypeOK ==
    /\ Registered \subseteq StreamIds /\ Live \subseteq StreamIds
    /\ \A i \in Registered :
          /\ streams[i].state \in States
          /\ streams[i].send <= WindowMax
          /\ ~fatal => streams[i].recv \in 0 .. RecvWindow
          /\ streams[i].body \in 0 .. MaxBody
          /\ streams[i].frags \in 0 .. MaxFrags
    /\ conn_send_window \in 0 .. WindowMax
    /\ ~fatal => conn_recv_window \in 0 .. RecvWindow
    /\ next_stream_id \in 1 .. MaxStreamId + 1
    /\ expecting_continuation \in StreamIds \cup {0}
    /\ results \in [Requests -> {"none", "ok", "err", "moved"}]
    /\ pc \in {"start", "pump", "read", "dispatched", "one", "one_send", "one_read",
               "one_dispatched", "done", "pooled", "dropped"}

Queued == {queue[k] : k \in 1 .. Len(queue)}

Over == {"done", "pooled", "dropped"}

\* A request is in exactly one place: waiting in the queue, in flight on one
\* stream, or answered.  No two streams carry one request, no request is
\* forgotten, and no stream is left registered for nobody.
OneSlotEach ==
    pc \notin Over =>
        /\ \A j, k \in 1 .. Len(queue) : queue[j] = queue[k] => j = k
        /\ \A i, j \in Live : id_to_idx[i] = id_to_idx[j] => i = j
        /\ \A r \in Requests :
              /\ results[r] = "none" <=> r \in Queued \cup {id_to_idx[i] : i \in Live}
              /\ ~(r \in Queued /\ \E i \in Live : id_to_idx[i] = r)
        /\ Live = Registered

\* "Every slot must be filled by the time the driver returns" (collect_results):
\* the one path that leaves the loop without failing what is outstanding is
\* never taken with something outstanding.
SlotsFilled == pc \in Over => \A r \in Requests : results[r] # "none"

\* A stream that was dropped is over on the wire too: both sides ended it, or
\* one side reset it, or the peer's GOAWAY disowned it.  Otherwise it would
\* still count against the peer's concurrency limit.  The exception is a stream
\* whose HEADERS or whose best-effort RST_STREAM could not be written: the peer
\* may have it open for as long as the connection lives.
DroppedIsClosed ==
    pc \in {"read", "one", "one_read", "pooled"} /\ ~fatal =>
        \A i \in {j \in StreamIds : j < next_stream_id} \ Registered :
            \/ wire[i].fin /\ wire[i].peer_fin
            \/ wire[i].rst \/ wire[i].peer_rst
            \/ goaway_received # NoGoaway /\ i > goaway_received
            \/ wire[i].lost

\* A connection that goes back to the pool is one nothing is left over from: no
\* failed read, no stream, no header block still to be continued, unless a response
\* ended in a trailer section that the peer has split.  It is not claimed that every
\* write succeeded: a best-effort RST_STREAM or a flush that fails when the last
\* response is in leaves every result Ok and the connection pooled, although
\* send_multiplexed means to keep only one whose wire was not disturbed.
PooledIsClean ==
    pc = "pooled" => /\ ~fatal /\ Registered = {}
                     /\ expecting_continuation = 0 \/ scene \in SplitTrailers

\* Every request has its one slot from the first step to the last, and every
\* stream that was given up for it is closed at the peer too, or a write for it
\* failed (start_queued, finish_stream, fail_all_outstanding), also when the
\* connection is used again (send_request_on, is_usable).
SlotsSound == OneSlotEach /\ SlotsFilled /\ DroppedIsClosed /\ PooledIsClean

\* The send windows are the peer's: on every stream the initial window in force
\* plus what WINDOW_UPDATE granted minus what was sent, whatever order SETTINGS,
\* WINDOW_UPDATE, opening and sending came in; likewise for the connection.
SendLedger ==
    ~fatal =>
        /\ \A i \in Registered :
              streams[i].send = peer.initial_window_size + wire[i].granted - wire[i].sent
        /\ conn_send_window = PeerWindow + wire[0].granted - wire[0].sent

\* The driver blocks in a read only when no request body can move: every byte
\* that the windows allow is on the wire.
PumpedBeforeRead == pc \in {"read", "one_read"} => Sendable = {}

\* No order of WINDOW_UPDATE and SETTINGS carries a send window past its maximum.
WindowsBounded ==
    conn_send_window \in 0 .. WindowMax /\ \A i \in Registered : streams[i].send <= WindowMax

\* Flow control in both senses: the windows are what the peer granted, within
\* their bounds, and what they allow has been sent before the driver waits
\* (update_window, pump_pending_sends).
WindowsExact == SendLedger /\ WindowsBounded /\ PumpedBeforeRead

\* A DATA frame never overdraws either window, also when SETTINGS has just
\* shrunk the stream's.
WithinCredit ==
    \A i \in StreamIds :
        wire'[i].sent > wire[i].sent => streams'[i].send >= 0 /\ conn_send_window' >= 0

\* No stream is opened above the boundary of a GOAWAY that has been read, and
\* no boundary is ever raised.
WithinGoaway ==
    /\ next_stream_id' # next_stream_id /\ goaway_received # NoGoaway => next_stream_id <= goaway_received
    /\ goaway_received # NoGoaway => goaway_received' # NoGoaway /\ goaway_received' <= goaway_received

\* The client takes only what the peer allows: credit for its DATA, streams up
\* to the last GOAWAY (next_data_chunk_size, can_open).
GrantsRespected == [][WithinCredit /\ WithinGoaway]_vars

\* A request succeeds only with the whole response of the stream that was
\* opened for it: the peer ended that stream, everything it sent there is in
\* the body, and it is as long as its content-length says.
WholeOnly ==
    \A r \in Requests :
        results'[r] = "ok" /\ results[r] # "ok" =>
            \E i \in Live :
                /\ opened[(i + 1) \div 2] = r
                /\ wire[i].peer_fin
                /\ streams[i].final
                /\ streams[i].body = wire[i].got
                /\ streams[i].expected \in {NoLength, wire[i].got}

\* Once the transport has failed or the peer has broken the connection's
\* protocol, no request of the batch succeeds any more, although take_stream_error
\* may first take the error for one stream's.
NoOkAfterFatal == fatal => \A r \in Requests : results'[r] = "ok" => results[r] = "ok"

\* The batch fails as a whole only for a cause that is the connection's: a
\* transport error or a frame that breaks the connection's rules.  A malformed
\* response, a reset, late DATA for a stream that was given up: none of them
\* takes the other requests down.
FatalOnlyForCause == pc = "dispatched" /\ pc' = "done" => blame \/ outcome' = Io

\* Every request gets the outcome that is its own (take_stream_error, finish_stream).
OutcomesRight == [][WholeOnly /\ NoOkAfterFatal /\ FatalOnlyForCause]_vars

\* Whatever the peer sends, the batch ends: the budgets of FloodBudget and the
\* ceilings leave no endless sequence of frames.
Terminates == <>(pc = "done")

=============================================================================
