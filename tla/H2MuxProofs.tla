----------------------------- MODULE H2MuxProofs -----------------------------
(***************************************************************************)
(* Proofs about H2Mux: the send windows are exactly what the peer granted  *)
(* and never overdrawn (WindowsExact, GrantsRespected), and every request  *)
(* has one slot, which is filled in the end, while every stream that was   *)
(* given up is over at the peer too (SlotsSound).                          *)
(*                                                                         *)
(* The inductive invariant IInv says of the connection how every           *)
(* registered stream and the history of its id go together (Link), and of  *)
(* the driver why the second chance of its loop is hopeless (Retry), so    *)
(* that the one exit without results is never taken, and that an error     *)
(* leaves its mark on some request (Failure).                              *)
(***************************************************************************)
EXTENDS H2Mux, FiniteSetTheorems, TLAPS

Stream == [state : States, send : Int, base : Int, recv : Int, frags : Nat,
           discard : BOOLEAN, head : BOOLEAN, final : BOOLEAN, interim : Nat,
           expected : Int, body : Nat, ended : BOOLEAN, pending : Nat,
           refused : BOOLEAN, rx_any : BOOLEAN]

Wire == [sent : Nat, granted : Nat, got : Nat, fin : BOOLEAN, rst : BOOLEAN,
         peer_fin : BOOLEAN, peer_rst : BOOLEAN, lost : BOOLEAN]

Outcome == [kind : {"continue", "done", "bad", "io"}, id : Int]

PeerSettings == [initial_window_size : 0 .. WindowMax, max_concurrent_streams : Nat]

\* The connection's part of the type invariant.
ConnType ==
    /\ scene \in Scenes
    /\ streams \in [Registered -> Stream]
    /\ Registered \subseteq StreamIds
    /\ peer \in PeerSettings
    /\ conn_send_window \in 0 .. WindowMax
    /\ conn_recv_window \in Int
    /\ next_stream_id \in Nat /\ next_stream_id % 2 = 1
    /\ goaway_received \in Nat \cup {NoGoaway}
    /\ expecting_continuation \in Nat
    /\ outcome \in Outcome
    /\ wire \in [StreamIds \cup {0} -> Wire]

PCs == {"start", "pump", "read", "dispatched", "one", "one_send", "one_read",
        "one_dispatched", "done", "pooled", "dropped"}

\* The driver's.
MuxType ==
    /\ queue \in Seq(Requests)
    /\ id_to_idx \in [Live -> Requests]
    /\ results \in [Requests -> {"none", "ok", "err", "moved"}]
    /\ pc \in PCs
    /\ retrying \in BOOLEAN
    /\ fatal \in BOOLEAN

\* Stream and history of one id: what the client holds closed is closed at the
\* peer, or disowned by its GOAWAY (`gone`), or the write that should have closed it
\* failed; what it holds ended has ended; the request body is out exactly when
\* END_STREAM is.
Link(s, w, gone) ==
    /\ s.state = "half_closed_local" => s.pending = 0
    /\ s.state = "half_closed_remote" => w.peer_fin
    /\ s.state = "closed" => (w.fin /\ w.peer_fin) \/ w.rst \/ w.peer_rst \/ gone \/ w.lost
    /\ w.fin <=> s.pending = 0
    /\ s.ended => w.peer_fin
    /\ s.head => s.final
    /\ s.send <= WindowMax

\* A stream that was given up is over on the wire, but for a failed write.
ClosedAtPeer(w, gone) == (w.fin /\ w.peer_fin) \/ w.rst \/ w.peer_rst \/ gone \/ w.lost

Streams ==
    /\ \A i \in Registered : i < next_stream_id /\ Link(streams[i], wire[i], Abandoned(i))
    /\ \A i \in StreamIds :
          /\ i >= next_stream_id => wire[i].sent = 0 /\ wire[i].granted = 0
          /\ i < next_stream_id /\ i \notin Registered => ClosedAtPeer(wire[i], Abandoned(i))

\* The two ledgers of the send windows.
ConnLedger == conn_send_window = PeerWindow + wire[0].granted - wire[0].sent

StreamLedger ==
    \A i \in Registered :
        /\ streams[i].base = peer.initial_window_size
        /\ streams[i].send = peer.initial_window_size + wire[i].granted - wire[i].sent

ConnInv == ConnType /\ Streams /\ ConnLedger

\* An error has left its mark on a request.
Tainted == \E r \in Requests : results[r] \in {"err", "moved"}

Dispatched == pc \in {"dispatched", "one_dispatched"}

\* The response that a dispatch reports as complete is there and ended.
DoneIsEnded ==
    Dispatched /\ outcome.kind = "done" =>
        outcome.id \in Registered /\ streams[outcome.id].ended

\* A header block in progress is one of a registered stream whose response has no
\* head yet, as long as the peer does not split trailers; nothing completes before
\* the block does.
Continuation ==
    \/ scene \in SplitTrailers \/ Tainted \/ expecting_continuation = 0
    \/ /\ expecting_continuation \in Registered
       /\ ~streams[expecting_continuation].head
       /\ Dispatched => outcome.kind # "done"

Failure == fatal => Tainted \/ (Dispatched /\ IsErr)

\* One request at a time: between two of them nothing is live.
Lone ==
    /\ pc = "one" => Live = {}
    /\ pc \in {"one_send", "one_read", "one_dispatched"} => \E i \in Live : Live = {i}

\* The loop reads only while a stream is live; it has its second chance only when
\* nothing can be opened any more.
Retry ==
    /\ pc \in {"read", "dispatched"} => Live # {}
    /\ retrying => pc = "start" \/ pc \in Over
    /\ retrying /\ pc = "start" => Live = {} /\ ~CanOpen
    /\ pc = "pump" /\ Live = {} /\ queue # << >> => ~CanOpen

IInv ==
    /\ ConnInv /\ (~fatal => StreamLedger)
    /\ MuxType
    /\ OneSlotEach /\ SlotsFilled
    /\ DoneIsEnded /\ Continuation /\ Failure
    /\ Lone /\ Retry
    /\ PumpedBeforeRead
    /\ PooledIsClean

-----------------------------------------------------------------------------
(* The model's operators. *)

LEMMA ConstantsTyped ==
    /\ MaxStreamId \in Nat /\ PeerWindow \in Nat /\ WindowMax \in Nat /\ RecvWindow \in Nat
    /\ FrameLimit \in Nat /\ FrameLimit > 0 /\ PeerWindow <= WindowMax
    /\ MaxBody \in Nat /\ MaxFrags \in Nat /\ MaxInterim \in Nat
  BY H2Assumption

\* next_data_chunk_size never exceeds either window, what is left, or a frame.
LEMMA LeastOfFour ==
    ASSUME NEW a \in Int, NEW b \in Int, NEW c \in Int, NEW d \in Int
    PROVE  LET m == Min({a, b, c, d})
           IN  m \in {a, b, c, d} /\ m <= a /\ m <= b /\ m <= c /\ m <= d
<1>1. \E x \in {a, b, c, d} : \A y \in {a, b, c, d} : x <= y
  BY SMT
<1>2. QED
  BY <1>1 DEF Min

LEMMA LeastOfTwo ==
    ASSUME NEW a \in Int, NEW b \in Int
    PROVE  Min({a, b}) \in {a, b} /\ Min({a, b}) <= a /\ Min({a, b}) <= b
<1>1. \E x \in {a, b} : \A y \in {a, b} : x <= y
  BY SMT
<1>2. QED
  BY <1>1 DEF Min

\* A set of stream ids has a least element.
LEMMA LeastOf ==
    ASSUME NEW n \in Int, NEW S, S \subseteq 1 .. n, S # {}
    PROVE  \E x \in S : \A y \in S : x <= y
<1> DEFINE Below(x) == {y \in S : y < x}
           T == {Below(x) : x \in S}
<1>0. S \subseteq Int
  OBVIOUS
<1>1. IsFiniteSet(S)
  <2>1. S \in SUBSET (1 .. n) /\ IsFiniteSet(1 .. n)
    BY FS_Interval
  <2>2. QED
    BY <2>1, FS_Subset
<1>2. T \subseteq FiniteSubsetsOf(S)
  <2> SUFFICES ASSUME NEW x \in S PROVE Below(x) \in FiniteSubsetsOf(S)
    OBVIOUS
  <2>1. Below(x) \in SUBSET S
    OBVIOUS
  <2>2. IsFiniteSet(Below(x))
    BY <1>1, <2>1, FS_Subset
  <2>3. QED
    BY <2>1, <2>2 DEF FiniteSubsetsOf
<1>a. T # {}
  OBVIOUS
<1>3. \E X \in T : \A Y \in T : ~(<<Y, X>> \in StrictSubsetOrdering(S))
  <2> HIDE DEF T
  <2>1. QED
    BY <1>2, <1>a, FS_StrictSubsetOrderingWellFounded, WFMin
<1>4. PICK x \in S : \A y \in S : ~(<<Below(y), Below(x)>> \in StrictSubsetOrdering(S))
  BY <1>3
<1>5. \A y \in S : ~(y < x)
  <2> SUFFICES ASSUME NEW y \in S, y < x PROVE FALSE
    OBVIOUS
  <2>1. y \in Int /\ x \in Int
    BY <1>0
  <2>a. \A z \in S : z < y => z < x
    BY <1>0, <2>1
  <2>b. ~(y < y)
    BY <2>1
  <2>c. Below(y) \subseteq Below(x) /\ y \in Below(x) /\ y \notin Below(y)
    BY <2>a, <2>b, Zenon
  <2>2. <<Below(y), Below(x)>> \in StrictSubsetOrdering(S)
    BY <2>c DEF StrictSubsetOrdering
  <2>3. QED
    BY <1>4, <2>2
<1>6. QED
  BY <1>0, <1>5

\* What a DATA frame takes from the windows.
LEMMA ChunkFits ==
    ASSUME ConnType, NEW s \in Stream, NextDataChunk(s, s.pending) > 0
    PROVE  LET n == NextDataChunk(s, s.pending)
           IN  n \in Nat /\ n <= s.send /\ n <= conn_send_window /\ n <= s.pending
<1>1. s.send \in Int /\ s.pending \in Nat /\ conn_send_window \in Int /\ FrameLimit \in Int
  BY ConstantsTyped DEF Stream, ConnType
<1>2. ~(s.send <= 0 \/ conn_send_window <= 0)
  BY DEF NextDataChunk
<1>3. NextDataChunk(s, s.pending) = Min({s.send, conn_send_window, s.pending, FrameLimit})
  BY <1>2 DEF NextDataChunk
<1>4. LET m == Min({s.send, conn_send_window, s.pending, FrameLimit})
      IN  m \in {s.send, conn_send_window, s.pending, FrameLimit}
          /\ m <= s.send /\ m <= conn_send_window /\ m <= s.pending
  <2>1. s.send \in Int /\ s.pending \in Int /\ conn_send_window \in Int /\ FrameLimit \in Int
    BY <1>1
  <2>2. QED
    BY ONLY <2>1, LeastOfFour, Zenon
<1>5. QED
  BY <1>1, <1>3, <1>4

\* How a dispatch may end.
LEMMA FinishOutcome ==
    ASSUME NEW b, NEW r, NEW p, Finish(b, r, p)
    PROVE  outcome' = Flood \/ outcome' = r
  BY DEF Finish

LEMMA FinishWriteOutcome ==
    ASSUME NEW b, NEW r, NEW p, FinishWrite(b, r, p)
    PROVE  outcome' = Flood \/ outcome' = r \/ outcome' = Io
  BY FinishOutcome DEF FinishWrite, Reject

\* The history of an id only grows when a frame is heard on it.
Grows(w, v) ==
    /\ v \in Wire
    /\ v.sent = w.sent /\ v.granted = w.granted /\ v.fin = w.fin
    /\ w.rst => v.rst
    /\ w.peer_fin => v.peer_fin
    /\ w.peer_rst => v.peer_rst
    /\ w.lost => v.lost

\* A best-effort RST_STREAM went out or was lost.
LEMMA TriedGrows ==
    ASSUME NEW w \in Wire, NEW v \in ResetTried(w)
    PROVE  Grows(w, v) /\ (v.rst \/ v.lost) /\ v.peer_fin = w.peer_fin
<1>1. v = [w EXCEPT !.rst = TRUE] \/ v = [w EXCEPT !.lost = TRUE]
  BY DEF ResetTried
<1>2. QED
  BY <1>1 DEF Grows, Wire

LEMMA GrowsOn ==
    ASSUME NEW w \in Wire, NEW v \in Wire, NEW u, Grows(w, v), Grows(v, u)
    PROVE  Grows(w, u)
  BY DEF Grows

LEMMA HeardGrows ==
    ASSUME ConnType, NEW f, IsFrame(f), f.id \in StreamIds
    PROVE  /\ Grows(wire[f.id], Heard(f))
           /\ \A v \in ResetTried(Heard(f)) : /\ Grows(wire[f.id], v) /\ (v.rst \/ v.lost)
                                             /\ v.peer_fin = Heard(f).peer_fin
                                             /\ v.fin = Heard(f).fin
           /\ f.typ \in {"HEADERS", "DATA"} /\ f.end_stream => Heard(f).peer_fin
           /\ f.typ = "RST_STREAM" => Heard(f).peer_rst
<1> DEFINE w == wire[f.id]
<1>1. w \in Wire
  BY DEF ConnType
<1>2. f.typ \in {"HEADERS", "DATA"} => f.end_stream \in BOOLEAN
  BY DEF IsFrame
<1>3. f.typ = "DATA" => f.payload \in Nat
  BY DEF IsFrame
<1> HIDE DEF w
<1>4. [w EXCEPT !.peer_fin = @ \/ (f.typ \in {"HEADERS", "DATA"} /\ f.end_stream),
                !.peer_rst = @ \/ f.typ = "RST_STREAM",
                !.got = IF f.typ = "DATA" /\ f.id \in Registered THEN @ + f.payload ELSE @] = Heard(f)
  BY DEF Heard, w
<1> DEFINE fin == w.peer_fin \/ (f.typ \in {"HEADERS", "DATA"} /\ f.end_stream)
           rst == w.peer_rst \/ f.typ = "RST_STREAM"
           got == IF f.typ = "DATA" /\ f.id \in Registered THEN w.got + f.payload ELSE w.got
<1>a. got \in Nat
  BY <1>1, <1>3 DEF Wire
<1>b. fin \in BOOLEAN /\ rst \in BOOLEAN
  BY <1>1, <1>2 DEF Wire
<1>c. Heard(f) = [w EXCEPT !.peer_fin = fin, !.peer_rst = rst, !.got = got]
  BY <1>4
<1>d. (w.peer_fin => fin) /\ (w.peer_rst => rst)
  OBVIOUS
<1> HIDE DEF fin, rst, got
<1>5. Heard(f) \in Wire /\ Grows(w, Heard(f))
  BY <1>1, <1>a, <1>b, <1>c, <1>d DEF Wire, Grows
<1>6. ASSUME NEW v \in ResetTried(Heard(f))
      PROVE  /\ Grows(w, v) /\ (v.rst \/ v.lost) /\ v.peer_fin = Heard(f).peer_fin
             /\ v.fin = Heard(f).fin
  <2>1. Grows(Heard(f), v) /\ (v.rst \/ v.lost) /\ v.peer_fin = Heard(f).peer_fin
    BY <1>5, TriedGrows
  <2>2. QED
    BY <1>1, <1>5, <2>1, GrowsOn DEF Grows
<1>8. f.typ \in {"HEADERS", "DATA"} /\ f.end_stream => Heard(f).peer_fin
  BY <1>1, <1>4 DEF Wire
<1>9. f.typ = "RST_STREAM" => Heard(f).peer_rst
  BY <1>1, <1>4 DEF Wire
<1>10. QED
  BY <1>5, <1>6, <1>8, <1>9 DEF w

\* A stream that does not change stays linked to a history that grows.
LEMMA LinkGrows ==
    ASSUME NEW s \in Stream, NEW w \in Wire, NEW v, Grows(w, v), NEW gone, Link(s, w, gone)
    PROVE  Link(s, v, gone)
  BY DEF Link, Grows, Wire, Stream

LEMMA ClosedGrows ==
    ASSUME NEW w \in Wire, NEW v, Grows(w, v), NEW gone, ClosedAtPeer(w, gone)
    PROVE  ClosedAtPeer(v, gone)
  BY DEF ClosedAtPeer, Grows, Wire

-----------------------------------------------------------------------------
(* What a read may do to the connection. *)

\* The header block in progress is one that cannot complete a response.
HeadFree ==
    \/ expecting_continuation = 0
    \/ /\ expecting_continuation \in Registered
       /\ ~streams[expecting_continuation].head

\* A read sends nothing, opens nothing, and never raises the GOAWAY boundary.
Passive ==
    /\ \A i \in StreamIds : wire'[i].sent = wire[i].sent
    /\ next_stream_id' = next_stream_id
    /\ goaway_received # NoGoaway => goaway_received' # NoGoaway /\ goaway_received' <= goaway_received

\* One dispatch: the connection stays sound; a broken stream ledger is an error of
\* the connection; a response reported complete has ended.
Sound ==
    /\ ConnInv'
    /\ Registered' = Registered
    /\ StreamLedger => StreamLedger' \/ outcome' \in {Bad, Io}
    /\ outcome'.kind = "done" => outcome'.id \in Registered /\ streams'[outcome'.id].ended
    /\ scene \notin SplitTrailers /\ HeadFree =>
          HeadFree' /\ (outcome'.kind = "done" => expecting_continuation' = 0)
    /\ Passive

\* Only stream `id` and its history change.
LEMMA StreamTouched ==
    ASSUME ConnInv, NEW id \in Nat \ {0}, NEW s2, NEW w2,
           id \in Registered => s2 \in Stream /\ Link(s2, w2, Abandoned(id)),
           id \in StreamIds => /\ w2 \in Wire
                               /\ w2.sent = wire[id].sent
                               /\ id \notin Registered => Grows(wire[id], w2),
           streams' = [streams EXCEPT ![id] = s2],
           wire' = [wire EXCEPT ![id] = w2],
           UNCHANGED << peer, conn_send_window, next_stream_id, goaway_received, scene >>,
           conn_recv_window' \in Int, expecting_continuation' \in Nat, outcome' \in Outcome
    PROVE  ConnInv' /\ Registered' = Registered
<1>1. Registered' = Registered /\ Registered \subseteq StreamIds
  BY DEF ConnInv, ConnType, Registered
<1>2. streams' \in [Registered' -> Stream]
  BY <1>1 DEF ConnInv, ConnType
<1>3. wire' \in [StreamIds \cup {0} -> Wire]
  BY DEF ConnInv, ConnType
<1>4. ConnType'
  BY <1>1, <1>2, <1>3 DEF ConnInv, ConnType
<1>5. wire'[0] = wire[0] /\ \A i \in StreamIds : i # id => wire'[i] = wire[i]
  BY DEF ConnInv, ConnType
<1>6. \A i \in Registered : i # id => streams'[i] = streams[i]
  BY DEF ConnInv, ConnType
<1>7. id \in Registered => streams'[id] = s2
  BY DEF ConnInv, ConnType
<1>8. id \in StreamIds => wire'[id] = w2
  BY DEF ConnInv, ConnType
<1>9. \A i : Abandoned(i)' <=> Abandoned(i)
  BY DEF Abandoned
<1>10. ASSUME NEW i \in Registered'
       PROVE  i < next_stream_id' /\ Link(streams[i], wire[i], Abandoned(i))'
  <2>1. i \in Registered /\ i \in StreamIds
    BY <1>1
  <2>2. i < next_stream_id'
    BY <2>1 DEF ConnInv, Streams
  <2>3. Link(streams'[i], wire'[i], Abandoned(i))
    <3>1. CASE i = id
      BY <3>1, <2>1, <1>7, <1>8
    <3>2. CASE i # id
      BY <3>2, <2>1, <1>5, <1>6 DEF ConnInv, Streams
    <3>3. QED
      BY <3>1, <3>2
  <2>4. QED
    BY <2>2, <2>3, <1>9 DEF Link
<1>11. ASSUME NEW i \in StreamIds
       PROVE  /\ i >= next_stream_id' => wire'[i].sent = 0 /\ wire'[i].granted = 0
              /\ i < next_stream_id' /\ i \notin Registered' => ClosedAtPeer(wire[i], Abandoned(i))'
  <2>1. CASE i = id
    <3>0. wire'[i] = w2 /\ wire[i] \in Wire
      BY <2>1, <1>8 DEF ConnInv, ConnType
    <3>1. i >= next_stream_id => i \notin Registered
      BY <1>1 DEF ConnInv, ConnType, Streams, StreamIds
    <3>2. i >= next_stream_id' => wire'[i].sent = 0 /\ wire'[i].granted = 0
      BY <2>1, <3>0, <3>1 DEF ConnInv, Streams, Grows
    <3>3. ASSUME i < next_stream_id', i \notin Registered'
          PROVE  ClosedAtPeer(wire'[i], Abandoned(i))
      <4>1. ClosedAtPeer(wire[i], Abandoned(i))
        BY <3>3, <1>1 DEF ConnInv, Streams
      <4>2. Grows(wire[i], wire'[i])
        BY <2>1, <3>0, <3>3, <1>1
      <4>3. QED
        BY <3>0, <4>1, <4>2, ClosedGrows
    <3>4. QED
      BY <3>2, <3>3, <1>9 DEF ClosedAtPeer
  <2>2. CASE i # id
    <3>1. wire'[i] = wire[i]
      BY <2>2, <1>5
    <3>2. i < next_stream_id' /\ i \notin Registered' => ClosedAtPeer(wire[i], Abandoned(i))
      BY <1>1 DEF ConnInv, Streams
    <3>3. QED
      BY <3>1, <3>2, <1>9 DEF ConnInv, Streams, ClosedAtPeer
  <2>3. QED
    BY <2>1, <2>2
<1>12. ConnLedger'
  BY <1>5 DEF ConnInv, ConnLedger
<1>13. Streams'
  BY <1>10, <1>11 DEF Streams
<1>14. QED
  BY <1>1, <1>4, <1>12, <1>13 DEF ConnInv

\* Nothing of the streams changes.
LEMMA StreamsKept ==
    ASSUME ConnInv,
           UNCHANGED << streams, wire, peer, conn_send_window, next_stream_id,
                        goaway_received, scene >>,
           conn_recv_window' \in Int, expecting_continuation' \in Nat, outcome' \in Outcome
    PROVE  ConnInv' /\ Registered' = Registered /\ (StreamLedger => StreamLedger')
<1>1. Registered' = Registered /\ (StreamLedger => StreamLedger')
  BY DEF StreamLedger, Registered
<1>2. ConnType' /\ ConnLedger'
  BY DEF ConnInv, ConnType, ConnLedger, Registered
<1>3. Streams'
  BY DEF ConnInv, Streams, Registered, Abandoned, Link, ClosedAtPeer
<1>4. QED
  BY <1>1, <1>2, <1>3 DEF ConnInv

LEMMA ArrivingIsFrame ==
    ASSUME scene \in Scenes, NEW f \in Arriving
    PROVE  /\ IsFrame(f)
           /\ f.typ = "HEADERS" /\ ~f.end_headers /\ f.id \in Registered =>
                 scene \in SplitTrailers \/ ~streams[f.id].final
  BY H2Assumption DEF Arriving

\* The ledger of a stream whose window did not move is right as before.
LEMMA LedgerTouched ==
    ASSUME ConnInv, NEW id, NEW s2, NEW w2, StreamLedger,
           id \in Registered => /\ s2.send = streams[id].send /\ s2.base = streams[id].base
                                /\ w2.sent = wire[id].sent /\ w2.granted = wire[id].granted,
           streams' = [streams EXCEPT ![id] = s2],
           wire' = [wire EXCEPT ![id] = w2],
           UNCHANGED peer
    PROVE  StreamLedger'
<1> SUFFICES ASSUME NEW i \in Registered'
             PROVE  /\ streams'[i].base = peer'.initial_window_size
                    /\ streams'[i].send = peer'.initial_window_size + wire'[i].granted - wire'[i].sent
  BY DEF StreamLedger
<1>1. i \in Registered /\ i \in StreamIds /\ Registered' = Registered
  BY DEF ConnInv, ConnType, Registered
<1>2. CASE i = id
  <2>1. streams'[i] = s2 /\ wire'[i] = w2
    BY <1>1, <1>2 DEF ConnInv, ConnType
  <2>2. QED
    BY <1>1, <1>2, <2>1 DEF StreamLedger
<1>3. CASE i # id
  <2>1. streams'[i] = streams[i] /\ wire'[i] = wire[i]
    BY <1>1, <1>3 DEF ConnInv, ConnType
  <2>2. QED
    BY <1>1, <2>1 DEF StreamLedger
<1>4. QED
  BY <1>2, <1>3

\* A frame on a stream that moves no send window leaves the connection sound, if what
\* it makes of the stream is linked to what has been heard.
LEMMA HandledSound ==
    ASSUME ConnInv, NEW f \in Arriving, f.id # 0, NEW s2, NEW w2,
           f.id \in Registered => /\ s2 \in Stream /\ Link(s2, w2, Abandoned(f.id))
                                  /\ s2.send = streams[f.id].send
                                  /\ s2.base = streams[f.id].base,
           f.id \in StreamIds => Grows(wire[f.id], w2),
           streams' = [streams EXCEPT ![f.id] = s2],
           wire' = [wire EXCEPT ![f.id] = w2],
           UNCHANGED << peer, conn_send_window, next_stream_id, goaway_received, scene >>,
           conn_recv_window' \in Int, expecting_continuation' \in Nat, outcome' \in Outcome,
           outcome'.kind = "done" => outcome'.id = f.id /\ f.id \in Registered /\ s2.ended,
           scene \notin SplitTrailers /\ HeadFree =>
              \/ expecting_continuation' = 0
              \/ /\ expecting_continuation' = f.id /\ f.id \in Registered
                 /\ ~s2.head /\ outcome'.kind # "done"
    PROVE  Sound
<1>1. IsFrame(f) /\ f.id \in Nat \ {0}
  BY ArrivingIsFrame DEF ConnInv, ConnType, IsFrame
<1>2. f.id \in StreamIds => /\ w2 \in Wire /\ w2.sent = wire[f.id].sent
                            /\ w2.granted = wire[f.id].granted
  BY DEF Grows
<1>3. ConnInv' /\ Registered' = Registered
  BY <1>1, <1>2, StreamTouched
<1>4. Registered \subseteq StreamIds
  BY DEF ConnInv, ConnType
<1>5. StreamLedger => StreamLedger'
  BY <1>2, <1>4, LedgerTouched
<1>6. f.id \in Registered => streams'[f.id] = s2
  BY DEF ConnInv, ConnType
<1>7. outcome'.kind = "done" => outcome'.id \in Registered /\ streams'[outcome'.id].ended
  BY <1>6
<1>8. scene \notin SplitTrailers /\ HeadFree =>
          HeadFree' /\ (outcome'.kind = "done" => expecting_continuation' = 0)
  <2> SUFFICES ASSUME scene \notin SplitTrailers, HeadFree
               PROVE  HeadFree' /\ (outcome'.kind = "done" => expecting_continuation' = 0)
    OBVIOUS
  <2>1. CASE expecting_continuation' = 0
    <3>1. HeadFree'
      BY <2>1, Zenon DEF HeadFree
    <3>2. QED
      BY <2>1, <3>1
  <2>2. CASE /\ expecting_continuation' = f.id /\ f.id \in Registered
             /\ ~s2.head /\ outcome'.kind # "done"
    <3>1. expecting_continuation' \in Registered' /\ ~streams'[expecting_continuation'].head
      BY <2>2, <1>3, <1>6
    <3>2. QED
      BY <2>2, <3>1 DEF HeadFree
  <2>3. QED
    BY <2>1, <2>2
<1>9. Passive
  <2>1. \A i \in StreamIds : wire'[i].sent = wire[i].sent
    BY <1>2 DEF ConnInv, ConnType
  <2>2. goaway_received # NoGoaway => goaway_received \in Nat
    BY DEF ConnInv, ConnType
  <2>3. QED
    BY <2>1, <2>2 DEF Passive
<1>10. QED
  BY <1>3, <1>5, <1>7, <1>8, <1>9 DEF Sound

-----------------------------------------------------------------------------
(* What handlers make of a stream. *)

\* Equal in all that links a stream to its history.
Alike(s, t) ==
    /\ t \in Stream
    /\ t.state = s.state /\ t.pending = s.pending /\ t.ended = s.ended
    /\ t.send = s.send /\ t.base = s.base

LEMMA LinkAlike ==
    ASSUME NEW s \in Stream, NEW t, Alike(s, t), t.head => t.final,
           NEW w \in Wire, NEW gone, Link(s, w, gone)
    PROVE  Link(t, w, gone)
  BY DEF Alike, Link, Stream

\* The stream's own bookkeeping.
LEMMA BookkeepingAlike ==
    ASSUME NEW s \in Stream, NEW n \in Nat, NEW b \in BOOLEAN, NEW k \in Int
    PROVE  /\ Alike(s, [s EXCEPT !.frags = n]) /\ [s EXCEPT !.frags = n].head = s.head
           /\ [s EXCEPT !.frags = n].final = s.final
           /\ Alike(s, [s EXCEPT !.frags = n, !.discard = b])
           /\ [s EXCEPT !.frags = n, !.discard = b].head = s.head
           /\ [s EXCEPT !.frags = n, !.discard = b].final = s.final
           /\ Alike(s, [s EXCEPT !.rx_any = b]) /\ [s EXCEPT !.rx_any = b].head = s.head
           /\ [s EXCEPT !.rx_any = b].final = s.final
           /\ Alike(s, [s EXCEPT !.rx_any = b, !.recv = k])
           /\ [s EXCEPT !.rx_any = b, !.recv = k].head = s.head
           /\ [s EXCEPT !.rx_any = b, !.recv = k].final = s.final
           /\ Alike(s, [s EXCEPT !.recv = k]) /\ [s EXCEPT !.recv = k].head = s.head
           /\ [s EXCEPT !.recv = k].final = s.final
  BY DEF Alike, Stream

\* END_STREAM of the peer moves a stream that may receive.
LEMMA ReceivedLinked ==
    ASSUME NEW s \in Stream, NEW t \in Stream, NEW e \in BOOLEAN, MayReceive(s.state),
           t.state = Received(s.state, e), t.ended = (s.ended \/ e),
           t.pending = s.pending, t.send = s.send, t.head => t.final,
           NEW w \in Wire, NEW v, Grows(w, v), e => v.peer_fin,
           NEW gone, Link(s, w, gone)
    PROVE  Link(t, v, gone)
<1>1. v \in Wire /\ v.fin = w.fin /\ (w.peer_fin => v.peer_fin) /\ (w.rst => v.rst)
      /\ (w.peer_rst => v.peer_rst) /\ (w.lost => v.lost)
  BY DEF Grows
<1>2. CASE e
  <2>1. t.state = IF s.state = "open" THEN "half_closed_remote" ELSE "closed"
    BY <1>2 DEF Received
  <2>2. s.state = "open" \/ s.pending = 0
    BY DEF Link, MayReceive
  <2>3. QED
    BY <1>1, <1>2, <2>1, <2>2 DEF Link, Stream, Wire
<1>3. CASE ~e
  <2>1. t.state = s.state /\ t.ended = s.ended
    BY <1>3 DEF Received, Stream
  <2>2. QED
    BY <1>1, <2>1 DEF Link, Stream, Wire
<1>4. QED
  BY <1>2, <1>3

\* stream_error: closed, and reset on the wire if the write went well.
LEMMA FailedLinked ==
    ASSUME NEW s \in Stream, NEW w \in Wire, w.rst \/ w.lost, w.fin <=> s.pending = 0,
           s.ended => w.peer_fin, s.send <= WindowMax, NEW gone
    PROVE  /\ Failed(s) \in Stream /\ Link(Failed(s), w, gone)
           /\ Failed(s).send = s.send /\ Failed(s).base = s.base
<1>1. /\ Failed(s) \in Stream /\ Failed(s).state = "closed" /\ Failed(s).head = FALSE
      /\ Failed(s).pending = s.pending /\ Failed(s).ended = s.ended
      /\ Failed(s).send = s.send /\ Failed(s).base = s.base
  BY DEF Failed, Stream, States
<1>2. QED
  BY <1>1 DEF Link

\* A response head, an interim head or trailers.
LEMMA AfterBlockAlike ==
    ASSUME NEW s \in Stream, NEW block, block.length \in Int, s.head => s.final
    PROVE  Alike(s, AfterBlock(s, block)) /\ (AfterBlock(s, block).head => AfterBlock(s, block).final)
<1>1. CASE s.final
  BY <1>1 DEF AfterBlock, Alike
<1>2. CASE ~s.final /\ block.kind = "interim"
  BY <1>2 DEF AfterBlock, Alike, Stream
<1>3. CASE ~s.final /\ block.kind # "interim"
  BY <1>3 DEF AfterBlock, Alike, Stream
<1>4. QED
  BY <1>1, <1>2, <1>3

\* The values of an outcome.
LEMMA OutcomesTyped ==
    /\ {Continue, Bad, Flood, Io} \subseteq Outcome
    /\ \A o \in {Continue, Bad, Flood, Io} : o.kind # "done"
    /\ \A id \in Int : /\ Done(id) \in Outcome /\ Done(id).id = id
                       /\ BadStream(id) \in Outcome /\ BadStream(id).kind # "done"
  BY DEF Continue, Bad, Flood, Io, Done, BadStream, Outcome

LEMMA OutcomeForRight ==
    ASSUME NEW id \in Int, NEW s \in Stream, NEW b, NEW p,
           FinishWrite(b, OutcomeFor(id, s), p) \/ Finish(b, OutcomeFor(id, s), p)
    PROVE  /\ outcome' \in Outcome
           /\ outcome'.kind = "done" => outcome'.id = id /\ s.ended /\ s.head
<1>1. outcome' \in {Flood, Io, Continue} \/ (outcome' = Done(id) /\ ResponseComplete(s))
  BY FinishOutcome, FinishWriteOutcome DEF OutcomeFor
<1>2. QED
  BY <1>1, OutcomesTyped DEF ResponseComplete

LEMMA SettledRight ==
    ASSUME NEW b, NEW p, NEW e \in {Bad, Io},
           Finish(b, Continue, p) \/ FinishWrite(b, Continue, p) \/ Reject(b, e)
    PROVE  outcome' \in Outcome /\ outcome'.kind # "done"
<1>1. outcome' \in {Continue, Bad, Flood, Io}
  BY FinishOutcome, FinishWriteOutcome DEF Reject
<1>2. QED
  BY <1>1, OutcomesTyped

-----------------------------------------------------------------------------
(* The handlers. *)

\* Frames that touch no stream and no window.
LEMMA NothingTouched ==
    ASSUME ConnInv,
           UNCHANGED << streams, wire, peer, conn_send_window, next_stream_id,
                        goaway_received, scene, expecting_continuation >>,
           conn_recv_window' \in Int, outcome' \in Outcome, outcome'.kind # "done"
    PROVE  Sound
<1>1. ConnInv' /\ Registered' = Registered /\ (StreamLedger => StreamLedger')
  BY StreamsKept DEF ConnInv, ConnType
<1>2. HeadFree => HeadFree'
  BY DEF HeadFree, Registered
<1>3. Passive
  BY DEF Passive, ConnInv, ConnType
<1>4. QED
  BY <1>1, <1>2, <1>3 DEF Sound

LEMMA BlockDoneSound ==
    ASSUME ConnInv, NEW f \in Arriving, f.typ \in {"HEADERS", "CONTINUATION"},
           f.id \in Registered, NEW b, NEW s \in Stream, NEW ignored,
           BlockDone(b, f, s, ignored), Link(s, Heard(f), Abandoned(f.id)),
           s.send = streams[f.id].send, s.base = streams[f.id].base,
           expecting_continuation' = 0,
           UNCHANGED << peer, conn_send_window, conn_recv_window, next_stream_id,
                        goaway_received, scene >>
    PROVE  Sound
<1>1. /\ IsFrame(f) /\ f.id \in StreamIds /\ f.id # 0 /\ f.id \in Int /\ f.block.length \in Int
      /\ wire[f.id] \in Wire /\ conn_recv_window \in Int
  BY ArrivingIsFrame DEF ConnInv, ConnType, IsFrame, StreamIds
<1>2. /\ Grows(wire[f.id], Heard(f))
      /\ \A v \in ResetTried(Heard(f)) : /\ Grows(wire[f.id], v) /\ (v.rst \/ v.lost)
                                        /\ v.peer_fin = Heard(f).peer_fin
                                        /\ v.fin = Heard(f).fin
  BY <1>1, HeardGrows DEF ConnInv
<1>3. Heard(f) \in Wire
  BY <1>2 DEF Grows
<1>4. s.head => s.final
  BY DEF Link
<1>5. CASE /\ f.block.kind = "undecodable"
           /\ streams' = [streams EXCEPT ![f.id] = s]
           /\ Hear(f)
           /\ Reject(b, Bad)
  <2>1. outcome' \in Outcome /\ outcome'.kind # "done"
    BY <1>5, SettledRight
  <2>2. QED
    BY <1>1, <1>2, <1>5, <2>1, HandledSound DEF Hear
<1>6. CASE /\ streams' = [streams EXCEPT ![f.id] = s]
           /\ Hear(f)
           /\ Finish(b, OutcomeFor(f.id, s), TRUE)
  <2>1. outcome' \in Outcome /\ (outcome'.kind = "done" => outcome'.id = f.id /\ s.ended)
    BY <1>1, <1>6, OutcomeForRight
  <2>2. QED
    BY <1>1, <1>2, <1>6, <2>1, HandledSound DEF Hear
<1>7. CASE /\ LET t == AfterBlock(s, f.block) IN
                 /\ streams' = [streams EXCEPT ![f.id] = t]
                 /\ Finish(b, OutcomeFor(f.id, t), TRUE)
           /\ Hear(f)
  <2> DEFINE t == AfterBlock(s, f.block)
  <2>1. Alike(s, t) /\ (t.head => t.final)
    BY <1>1, <1>4, AfterBlockAlike
  <2> HIDE DEF t
  <2>2. t \in Stream /\ t.send = streams[f.id].send /\ t.base = streams[f.id].base
    BY <2>1 DEF Alike
  <2>3. Link(t, Heard(f), Abandoned(f.id))
    BY <1>3, <2>1, LinkAlike
  <2>4. streams' = [streams EXCEPT ![f.id] = t] /\ Finish(b, OutcomeFor(f.id, t), TRUE)
    BY <1>7 DEF t
  <2>5. outcome' \in Outcome /\ (outcome'.kind = "done" => outcome'.id = f.id /\ t.ended)
    BY <1>1, <2>2, <2>4, OutcomeForRight
  <2>6. QED
    BY <1>1, <1>2, <1>7, <2>2, <2>3, <2>4, <2>5, HandledSound DEF Hear
<1>8. CASE /\ streams' = [streams EXCEPT ![f.id] = Failed(s)]
           /\ HearAndReset(f)
           /\ Reject(b, BadStream(f.id))
  <2>p. PICK v \in ResetTried(Heard(f)) : wire' = [wire EXCEPT ![f.id] = v]
    BY <1>8 DEF HearAndReset
  <2>a. wire' = [wire EXCEPT ![f.id] = v] /\ Grows(wire[f.id], v) /\ (v.rst \/ v.lost)
    BY <1>2, <2>p
  <2>0. v.fin = Heard(f).fin /\ v.peer_fin = Heard(f).peer_fin /\ v \in Wire
    BY <1>2, <2>a DEF Grows
  <2>1. /\ Failed(s) \in Stream /\ Link(Failed(s), v, Abandoned(f.id))
        /\ Failed(s).send = s.send /\ Failed(s).base = s.base
    <3>1. (v.fin <=> s.pending = 0) /\ (s.ended => v.peer_fin) /\ s.send <= WindowMax
      BY <2>0 DEF Link
    <3>2. QED
      BY <2>0, <2>a, <3>1, FailedLinked
  <2>2. outcome' \in Outcome /\ outcome'.kind # "done"
    BY <1>1, <1>8, OutcomesTyped DEF Reject
  <2>3. QED
    BY <1>1, <1>8, <2>a, <2>1, <2>2, HandledSound
<1>9. QED
  BY <1>5, <1>6, <1>7, <1>8 DEF BlockDone

\* HEADERS that are rejected or ignored leave the stream alike.
LEMMA KeptSound ==
    ASSUME ConnInv, NEW f \in Arriving, f.id \in Registered, f.typ \in {"HEADERS", "DATA"},
           NEW t, Alike(streams[f.id], t), t.head = streams[f.id].head, t.final = streams[f.id].final,
           streams' = [streams EXCEPT ![f.id] = t], Hear(f),
           UNCHANGED << peer, conn_send_window, next_stream_id, goaway_received, scene >>,
           conn_recv_window' \in Int, expecting_continuation = 0,
           \/ expecting_continuation' = 0
           \/ /\ expecting_continuation' = f.id
              /\ scene \notin SplitTrailers => ~t.final,
           outcome' \in Outcome, outcome'.kind # "done"
    PROVE  Sound
<1>1. /\ IsFrame(f) /\ f.id \in StreamIds /\ f.id # 0 /\ f.id \in Nat
      /\ wire[f.id] \in Wire /\ streams[f.id] \in Stream
  BY ArrivingIsFrame DEF ConnInv, ConnType, IsFrame, StreamIds
<1>2. Grows(wire[f.id], Heard(f)) /\ Heard(f) \in Wire
  BY <1>1, HeardGrows DEF ConnInv, Grows
<1>3. Link(streams[f.id], Heard(f), Abandoned(f.id))
  BY <1>1, <1>2, LinkGrows DEF ConnInv, Streams
<1>4. t.head => t.final
  BY <1>3 DEF Link
<1>5. /\ Link(t, Heard(f), Abandoned(f.id)) /\ t \in Stream
      /\ t.send = streams[f.id].send /\ t.base = streams[f.id].base
  BY <1>1, <1>2, <1>3, <1>4, LinkAlike DEF Alike
<1>6. expecting_continuation' \in Nat
  BY <1>1
<1>7. QED
  BY <1>1, <1>2, <1>4, <1>5, <1>6, HandledSound DEF Hear

\* A frame heard on an id that is not registered.
LEMMA UnregisteredSound ==
    ASSUME ConnInv, NEW f \in Arriving, f.id \notin Registered, f.id # 0, streams' = streams, Hear(f),
           UNCHANGED << peer, conn_send_window, next_stream_id, goaway_received, scene >>,
           conn_recv_window' \in Int, expecting_continuation = 0, expecting_continuation' = 0,
           outcome' \in Outcome, outcome'.kind # "done"
    PROVE  Sound
<1>1. IsFrame(f)
  BY ArrivingIsFrame DEF ConnInv, ConnType
<1>2. f.id \in StreamIds => Grows(wire[f.id], Heard(f))
  BY <1>1, HeardGrows DEF ConnInv
<1>3. streams' = [streams EXCEPT ![f.id] = streams]
  <2>1. streams \in [Registered -> Stream]
    BY DEF ConnInv, ConnType
  <2>2. QED
    BY <2>1
<1>4. QED
  BY <1>2, <1>3, HandledSound DEF Hear

LEMMA HeadersRejectedSound ==
    ASSUME ConnInv, NEW f \in Arriving, NEW b, HeadersRejected(b, f), ~OutOfPlace(f), UNCHANGED scene
    PROVE  Sound
<1>1. /\ expecting_continuation = 0 /\ expecting_continuation' = 0 /\ f.id # 0
      /\ conn_recv_window' \in Int
  BY ArrivingIsFrame DEF HeadersRejected, OutOfPlace, ConnInv, ConnType, IsFrame
<1>2. outcome' \in Outcome /\ outcome'.kind # "done"
  BY SettledRight DEF HeadersRejected
<1>3. CASE f.id \notin Registered
  BY <1>1, <1>2, <1>3, UnregisteredSound DEF HeadersRejected
<1>4. CASE f.id \in Registered
  <2> DEFINE s == streams[f.id]
  <2>1. s \in Stream /\ streams \in [Registered -> Stream]
    BY <1>4 DEF ConnInv, ConnType
  <2>2. \E t : /\ Alike(s, t) /\ t.head = s.head /\ t.final = s.final
               /\ streams' = [streams EXCEPT ![f.id] = t]
    <3>1. CASE streams' = streams
      <4>1. streams' = [streams EXCEPT ![f.id] = s] /\ Alike(s, s)
        BY <3>1, <2>1 DEF Alike
      <4>2. QED
        BY <4>1
    <3>2. CASE streams' = [streams EXCEPT ![f.id].rx_any = s.rx_any \/ s.state # "closed"]
      <4> DEFINE t == [s EXCEPT !.rx_any = s.rx_any \/ s.state # "closed"]
      <4>1. (s.rx_any \/ s.state # "closed") \in BOOLEAN
        BY <2>1 DEF Stream
      <4>2. Alike(s, t) /\ t.head = s.head /\ t.final = s.final
        BY <2>1, <4>1 DEF Alike, Stream
      <4>3. streams' = [streams EXCEPT ![f.id] = t]
        BY <3>2
      <4>4. QED
        BY <4>2, <4>3
    <3>3. QED
      BY <1>4, <3>1, <3>2 DEF HeadersRejected
  <2>3. QED
    BY <1>1, <1>2, <1>4, <2>2, KeptSound DEF HeadersRejected
<1>5. QED
  BY <1>3, <1>4

LEMMA HeadersIgnoredSound ==
    ASSUME ConnInv, NEW f \in Arriving, NEW b, HeadersIgnored(b, f), ~OutOfPlace(f), UNCHANGED scene
    PROVE  Sound
<1> DEFINE s == streams[f.id]
<1>1. /\ expecting_continuation = 0 /\ f.id \in Registered
      /\ conn_recv_window' \in Int /\ f.end_headers \in BOOLEAN
      /\ s \in Stream /\ streams \in [Registered -> Stream]
  BY ArrivingIsFrame DEF HeadersIgnored, OutOfPlace, ConnInv, ConnType, IsFrame
<1>2. outcome' \in Outcome /\ outcome'.kind # "done"
  BY SettledRight DEF HeadersIgnored
<1>3. CASE f.end_headers
  <2>1. streams' = [streams EXCEPT ![f.id] = s] /\ Alike(s, s)
    BY <1>1, <1>3 DEF HeadersIgnored, Alike
  <2>2. QED
    BY <1>1, <1>2, <1>3, <2>1, KeptSound DEF HeadersIgnored
<1>4. CASE ~f.end_headers
  <2> DEFINE t == [s EXCEPT !.frags = @ + 1, !.discard = TRUE]
  <2>1. Alike(s, t) /\ t.head = s.head /\ t.final = s.final
    <3>1. s.frags + 1 \in Nat
      BY <1>1 DEF Stream
    <3>2. QED
      BY <1>1, <3>1 DEF Alike, Stream
  <2>2. streams' = [streams EXCEPT ![f.id] = t]
    BY <1>4 DEF HeadersIgnored
  <2>3. expecting_continuation' = f.id
    BY <1>4 DEF HeadersIgnored
  <2>4. scene \notin SplitTrailers => ~t.final
    BY <1>1, <1>4, <2>1, ArrivingIsFrame DEF ConnInv, ConnType, HeadersIgnored
  <2> HIDE DEF t
  <2>5. QED
    BY <1>1, <1>2, <2>1, <2>2, <2>3, <2>4, KeptSound DEF HeadersIgnored
<1>5. QED
  BY <1>1, <1>3, <1>4

LEMMA HeadersTakenSound ==
    ASSUME ConnInv, NEW f \in Arriving, NEW b, HeadersTaken(b, f), ~OutOfPlace(f), UNCHANGED scene
    PROVE  Sound
<1> DEFINE s == streams[f.id]
           t == [s EXCEPT !.rx_any = TRUE,
                          !.ended = @ \/ f.end_stream,
                          !.state = Received(s.state, f.end_stream)]
<1>1. /\ expecting_continuation = 0 /\ f.id \in Registered /\ f.id \in StreamIds
      /\ f.id # 0 /\ f.id \in Nat
      /\ conn_recv_window' \in Int /\ f.end_headers \in BOOLEAN /\ f.end_stream \in BOOLEAN
      /\ s \in Stream /\ streams \in [Registered -> Stream] /\ wire[f.id] \in Wire
      /\ IsFrame(f)
  BY ArrivingIsFrame DEF HeadersTaken, OutOfPlace, ConnInv, ConnType, IsFrame, StreamIds
<1>2. MayReceive(s.state)
  BY DEF HeadersTaken
<1>3. Grows(wire[f.id], Heard(f)) /\ Heard(f) \in Wire /\ (f.end_stream => Heard(f).peer_fin)
  BY <1>1, HeardGrows DEF ConnInv, Grows, HeadersTaken
<1>4. Link(s, wire[f.id], Abandoned(f.id))
  BY <1>1 DEF ConnInv, Streams
<1>5. /\ t \in Stream /\ t.state = Received(s.state, f.end_stream)
      /\ t.ended = (s.ended \/ f.end_stream) /\ t.pending = s.pending
      /\ t.send = s.send /\ t.base = s.base /\ t.head = s.head /\ t.final = s.final
      /\ t.frags = s.frags
  <2>1. Received(s.state, f.end_stream) \in States
    BY <1>1, <1>2 DEF Received, MayReceive, States, Stream
  <2>2. QED
    BY <1>1, <2>1 DEF Stream
<1> HIDE DEF t
<1>6. Link(t, Heard(f), Abandoned(f.id))
  <2>1. t.head => t.final
    BY <1>4, <1>5 DEF Link
  <2>2. QED
    BY <1>1, <1>2, <1>3, <1>4, <1>5, <2>1, ReceivedLinked
<1>7. \A n \in Nat : LET u == [t EXCEPT !.frags = n] IN
         /\ u \in Stream /\ Link(u, Heard(f), Abandoned(f.id))
         /\ u.send = s.send /\ u.base = s.base /\ u.head = s.head /\ u.ended = t.ended
  <2> SUFFICES ASSUME NEW n \in Nat
               PROVE  LET u == [t EXCEPT !.frags = n] IN
                      /\ u \in Stream /\ Link(u, Heard(f), Abandoned(f.id))
                      /\ u.send = s.send /\ u.base = s.base /\ u.head = s.head /\ u.ended = t.ended
    OBVIOUS
  <2> DEFINE u == [t EXCEPT !.frags = n]
  <2>1. Alike(t, u) /\ u.head = t.head /\ u.final = t.final
    BY <1>5 DEF Alike, Stream
  <2>2. u.head => u.final
    BY <2>1, <1>6 DEF Link
  <2> HIDE DEF u
  <2>3. Link(u, Heard(f), Abandoned(f.id))
    BY <1>3, <1>5, <1>6, <2>1, <2>2, LinkAlike
  <2>4. u \in Stream /\ u.send = s.send /\ u.base = s.base /\ u.head = s.head /\ u.ended = t.ended
    BY <1>5, <2>1 DEF Alike
  <2>5. QED
    BY <2>3, <2>4 DEF u
<1>8. CASE f.end_headers
  <2> DEFINE u == [t EXCEPT !.frags = 0]
  <2>1. expecting_continuation' = 0 /\ BlockDone(b, f, u, FALSE)
    BY <1>8 DEF HeadersTaken, t
  <2>2. u \in Stream /\ Link(u, Heard(f), Abandoned(f.id)) /\ u.send = s.send /\ u.base = s.base
    BY <1>7
  <2> HIDE DEF u
  <2>3. QED
    BY <1>1, <2>1, <2>2, BlockDoneSound DEF HeadersTaken
<1>9. CASE ~f.end_headers
  <2> DEFINE u == [t EXCEPT !.frags = @ + 1]
  <2>1. /\ expecting_continuation' = f.id /\ Hear(f)
        /\ streams' = [streams EXCEPT ![f.id] = u] /\ Finish(b, OutcomeFor(f.id, t), FALSE)
    BY <1>9 DEF HeadersTaken, t
  <2>2. t.frags + 1 \in Nat
    BY <1>5 DEF Stream
  <2>3. /\ u \in Stream /\ Link(u, Heard(f), Abandoned(f.id)) /\ u.send = s.send /\ u.base = s.base
        /\ u.head = s.head /\ u.ended = t.ended
    BY <1>7, <2>2
  <2>4. outcome' \in Outcome /\ (outcome'.kind = "done" => outcome'.id = f.id /\ t.ended /\ t.head)
    <3>1. f.id \in Int
      BY <1>1
    <3>2. Finish(b, OutcomeFor(f.id, t), FALSE)
      BY <2>1, Zenon
    <3>3. QED
      BY <3>1, <3>2, <1>5, OutcomeForRight
  <2>5. scene \notin SplitTrailers => ~s.head
    BY <1>1, <1>4, <1>9, ArrivingIsFrame DEF ConnInv, ConnType, HeadersTaken, Link
  <2> HIDE DEF u
  <2>6. QED
    BY <1>1, <1>3, <1>5, <2>1, <2>3, <2>4, <2>5, HandledSound DEF HeadersTaken, Hear
<1>10. QED
  BY <1>1, <1>8, <1>9

LEMMA ProcessContinuationSound ==
    ASSUME ConnInv, NEW f \in Arriving, NEW b, ProcessContinuation(b, f), ~OutOfPlace(f), UNCHANGED scene
    PROVE  Sound
<1> DEFINE s == streams[f.id]
<1>1. f.typ = "CONTINUATION" /\ IsFrame(f) /\ conn_recv_window' \in Int
  BY ArrivingIsFrame DEF ProcessContinuation, ConnInv, ConnType
<1>2. CASE \/ expecting_continuation # f.id
           \/ f.id \notin Registered
           \/ streams[f.id].frags >= MaxFrags
  <2>1. outcome' \in Outcome /\ outcome'.kind # "done"
    BY <1>2, SettledRight DEF ProcessContinuation
  <2>2. QED
    BY <1>1, <1>2, <2>1, NothingTouched DEF ProcessContinuation
<1>3. CASE ~ \/ expecting_continuation # f.id
             \/ f.id \notin Registered
             \/ streams[f.id].frags >= MaxFrags
  <2>1. /\ f.id \in Registered /\ f.id \in StreamIds /\ f.id # 0 /\ f.id \in Nat
        /\ expecting_continuation = f.id
        /\ s \in Stream /\ wire[f.id] \in Wire /\ streams \in [Registered -> Stream]
        /\ wire \in [StreamIds \cup {0} -> Wire]
        /\ f.end_headers \in BOOLEAN
    BY <1>1, <1>3 DEF ConnInv, ConnType, IsFrame, StreamIds
  <2>2. Grows(wire[f.id], Heard(f)) /\ Heard(f) \in Wire
    BY <1>1, <2>1, HeardGrows DEF ConnInv, Grows
  <2>3. Link(s, wire[f.id], Abandoned(f.id)) /\ Link(s, Heard(f), Abandoned(f.id))
    BY <2>1, <2>2, LinkGrows DEF ConnInv, Streams
  <2>4. s.head => s.final
    BY <2>3 DEF Link
  <2>5. CASE f.end_headers
    <3> DEFINE t == [s EXCEPT !.frags = 0, !.discard = FALSE]
    <3>1. expecting_continuation' = 0 /\ BlockDone(b, f, t, s.discard)
      BY <1>3, <2>5 DEF ProcessContinuation
    <3>2. Alike(s, t) /\ (t.head => t.final)
      BY <2>1, <2>4 DEF Alike, Stream
    <3> HIDE DEF t
    <3>3. Link(t, Heard(f), Abandoned(f.id))
      BY <2>1, <2>2, <2>3, <3>2, LinkAlike
    <3>4. t \in Stream /\ t.send = s.send /\ t.base = s.base
      BY <3>2 DEF Alike
    <3>5. QED
      BY <1>1, <2>1, <3>1, <3>3, <3>4, BlockDoneSound DEF ProcessContinuation
  <2>6. CASE ~f.end_headers
    <3> DEFINE t == [s EXCEPT !.frags = @ + 1]
    <3>1. /\ streams' = [streams EXCEPT ![f.id] = t] /\ wire' = [wire EXCEPT ![f.id] = wire[f.id]]
          /\ expecting_continuation' = f.id
      BY <1>3, <2>1, <2>6 DEF ProcessContinuation
    <3>2. Alike(s, t) /\ t.head = s.head /\ t.ended = s.ended
      BY <2>1 DEF Alike, Stream
    <3>a. t.head => t.final
      BY <2>1, <2>4 DEF Stream
    <3> HIDE DEF t
    <3>3. Link(t, wire[f.id], Abandoned(f.id))
      BY <2>1, <2>3, <3>2, <3>a, LinkAlike
    <3>4. t \in Stream /\ t.send = s.send /\ t.base = s.base
      BY <3>2 DEF Alike
    <3>5. Grows(wire[f.id], wire[f.id])
      BY <2>1 DEF Grows
    <3>6. Finish(b, OutcomeFor(f.id, s), FALSE)
      BY <1>3, <2>6 DEF ProcessContinuation
    <3>7. f.id \in Int
      BY <2>1
    <3>8. outcome' \in Outcome /\ (outcome'.kind = "done" => outcome'.id = f.id /\ s.ended /\ s.head)
      BY <2>1, <3>6, <3>7, OutcomeForRight
    <3>9. HeadFree => ~s.head
      BY <2>1 DEF HeadFree
    <3>10. QED
      BY <1>1, <2>1, <3>1, <3>2, <3>3, <3>4, <3>5, <3>8, <3>9, HandledSound DEF ProcessContinuation
  <2>7. QED
    BY <2>1, <2>5, <2>6
<1>4. QED
  BY <1>2, <1>3

LEMMA DataBilled ==
    ASSUME ConnInv, NEW f \in Arriving, f.typ = "DATA"
    PROVE  /\ f.len \in Nat /\ f.payload \in Nat /\ f.end_stream \in BOOLEAN /\ f.id # 0 /\ IsFrame(f)
           /\ Billed(f) \in Int /\ Replenished(Billed(f)) \in Int
           /\ ~OutOfPlace(f) => expecting_continuation = 0
<1>1. /\ f.len \in Nat /\ f.payload \in Nat /\ f.end_stream \in BOOLEAN /\ f.id # 0 /\ IsFrame(f)
  BY ArrivingIsFrame DEF ConnInv, ConnType, IsFrame
<1>2. Billed(f) \in Int
  BY <1>1 DEF ConnInv, ConnType, Billed
<1>3. Replenished(Billed(f)) \in Int
  BY <1>2, ConstantsTyped DEF Replenished
<1>4. QED
  BY <1>1, <1>2, <1>3 DEF OutOfPlace

\* stream_error on a stream s that the frame leaves of the one it came for.
LEMMA FailedSound ==
    ASSUME ConnInv, NEW f \in Arriving, f.id \in Registered, f.id # 0, NEW s \in Stream,
           s.send = streams[f.id].send, s.base = streams[f.id].base, s.pending = streams[f.id].pending,
           s.ended => Heard(f).peer_fin,
           streams' = [streams EXCEPT ![f.id] = Failed(s)], HearAndReset(f),
           UNCHANGED << peer, conn_send_window, next_stream_id, goaway_received, scene >>,
           conn_recv_window' \in Int, expecting_continuation' = 0, outcome' = BadStream(f.id)
    PROVE  Sound
<1>p. PICK v \in ResetTried(Heard(f)) : wire' = [wire EXCEPT ![f.id] = v]
  BY DEF HearAndReset
<1>1. /\ IsFrame(f) /\ f.id \in StreamIds /\ f.id \in Int /\ wire[f.id] \in Wire
      /\ streams[f.id] \in Stream
  BY ArrivingIsFrame DEF ConnInv, ConnType, IsFrame, StreamIds
<1>2. /\ Grows(wire[f.id], Heard(f)) /\ Grows(wire[f.id], v) /\ (v.rst \/ v.lost)
      /\ v.peer_fin = Heard(f).peer_fin
  BY <1>1, HeardGrows DEF ConnInv
<1>3. v \in Wire /\ v.fin = wire[f.id].fin /\ v.peer_fin = Heard(f).peer_fin
  BY <1>2 DEF Grows
<1>4. wire' = [wire EXCEPT ![f.id] = v]
  BY <1>p
<1>5. Link(streams[f.id], wire[f.id], Abandoned(f.id))
  BY DEF ConnInv, Streams
<1>6. (v.fin <=> s.pending = 0) /\ (s.ended => v.peer_fin) /\ s.send <= WindowMax
  BY <1>3, <1>5 DEF Link
<1>7. /\ Failed(s) \in Stream /\ Link(Failed(s), v, Abandoned(f.id))
      /\ Failed(s).send = s.send /\ Failed(s).base = s.base
  BY <1>2, <1>3, <1>6, FailedLinked
<1>8. outcome' \in Outcome /\ outcome'.kind # "done"
  BY <1>1, OutcomesTyped
<1>9. QED
  BY <1>1, <1>2, <1>4, <1>7, <1>8, HandledSound

\* What an accepted DATA frame makes of its stream.
LEMMA AfterDataLinked ==
    ASSUME ConnInv, NEW f \in Arriving, f.typ = "DATA", f.id \in Registered,
           MayReceive(streams[f.id].state)
    PROVE  LET s == streams[f.id]
               t == AfterData(s, f) IN
           /\ t \in Stream /\ Link(t, Heard(f), Abandoned(f.id))
           /\ t.send = s.send /\ t.base = s.base /\ t.pending = s.pending
           /\ t.ended => Heard(f).peer_fin
<1> DEFINE s == streams[f.id]
           t == AfterData(s, f)
<1>1. /\ f.len \in Nat /\ f.payload \in Nat /\ f.end_stream \in BOOLEAN /\ IsFrame(f)
      /\ s \in Stream /\ f.id \in StreamIds /\ wire[f.id] \in Wire
  BY DataBilled DEF ConnInv, ConnType
<1>2. Received(s.state, f.end_stream) \in States
  BY <1>1 DEF Received, MayReceive, States
<1>3. s.recv - f.len \in Int /\ s.body + f.payload \in Nat /\ (s.ended \/ f.end_stream) \in BOOLEAN
  BY <1>1 DEF Stream
<1>4. /\ t \in Stream /\ t.state = Received(s.state, f.end_stream)
      /\ t.ended = (s.ended \/ f.end_stream)
      /\ t.send = s.send /\ t.base = s.base /\ t.pending = s.pending
      /\ t.head = s.head /\ t.final = s.final
  BY <1>1, <1>2, <1>3 DEF AfterData, Stream
<1>5. Grows(wire[f.id], Heard(f)) /\ Heard(f) \in Wire /\ (f.end_stream => Heard(f).peer_fin)
  BY <1>1, HeardGrows DEF ConnInv, Grows
<1>6. Link(s, wire[f.id], Abandoned(f.id))
  BY DEF ConnInv, Streams
<1>7. t.head => t.final
  BY <1>4, <1>6 DEF Link
<1> HIDE DEF t
<1>8. Link(t, Heard(f), Abandoned(f.id))
  BY <1>1, <1>4, <1>5, <1>6, <1>7, ReceivedLinked
<1>9. t.ended => Heard(f).peer_fin
  BY <1>8 DEF Link
<1>10. QED
  BY <1>4, <1>8, <1>9 DEF t

LEMMA ProcessDataSound ==
    ASSUME ConnInv, NEW f \in Arriving, NEW b, ProcessData(b, f), ~OutOfPlace(f), UNCHANGED scene
    PROVE  Sound
<1> DEFINE s == streams[f.id]
<1>1. /\ f.typ = "DATA" /\ expecting_continuation = 0 /\ expecting_continuation' = 0
      /\ UNCHANGED << peer, conn_send_window, next_stream_id, goaway_received, scene >>
      /\ streams \in [Registered -> Stream]
  BY DataBilled DEF ProcessData, ConnInv, ConnType
<1>2. /\ f.len \in Nat /\ f.payload \in Nat /\ f.end_stream \in BOOLEAN /\ f.id # 0 /\ IsFrame(f)
      /\ Billed(f) \in Int /\ Replenished(Billed(f)) \in Int
  BY <1>1, DataBilled
<1>3. f.id \in Registered => /\ s \in Stream /\ s.recv - f.len \in Int /\ Alike(s, s)
                             /\ f.id \in Int
  <2> SUFFICES ASSUME f.id \in Registered
               PROVE  s \in Stream /\ s.recv - f.len \in Int /\ Alike(s, s) /\ f.id \in Int
    OBVIOUS
  <2>1. s \in Stream
    BY <1>1
  <2>2. s.recv - f.len \in Int
    BY <1>2, <2>1 DEF Stream
  <2>3. f.id \in Int
    BY <1>2 DEF IsFrame
  <2>4. QED
    BY <2>1, <2>2, <2>3 DEF Alike
<1>4. CASE DataRejected(b, f)
  <2>1. outcome' \in Outcome /\ outcome'.kind # "done" /\ conn_recv_window' \in Int
    BY <1>2, <1>4, SettledRight DEF DataRejected
  <2>2. streams' = streams /\ Hear(f) /\ (f.id \in Registered => streams' = [streams EXCEPT ![f.id] = s])
    BY <1>1, <1>4 DEF DataRejected
  <2>3. CASE f.id \in Registered
    BY <1>1, <1>3, <2>1, <2>2, <2>3, KeptSound
  <2>4. CASE f.id \notin Registered
    BY <1>1, <1>2, <2>1, <2>2, <2>4, UnregisteredSound
  <2>5. QED
    BY <2>3, <2>4
<1>5. CASE DataDropped(b, f)
  <2>1. outcome' \in Outcome /\ outcome'.kind # "done" /\ conn_recv_window' \in Int
    BY <1>2, <1>5, SettledRight DEF DataDropped
  <2>2. QED
    BY <1>1, <1>2, <1>5, <2>1, UnregisteredSound DEF DataDropped
<1>6. CASE DataTooMuch(b, f)
  <2> DEFINE t == [s EXCEPT !.rx_any = TRUE, !.recv = @ - f.len]
  <2>1. outcome' \in Outcome /\ outcome'.kind # "done" /\ conn_recv_window' \in Int
    BY <1>2, <1>6, SettledRight DEF DataTooMuch
  <2>2. f.id \in Registered /\ streams' = [streams EXCEPT ![f.id] = t] /\ Hear(f)
    BY <1>6 DEF DataTooMuch
  <2>3. Alike(s, t) /\ t.head = s.head /\ t.final = s.final
    BY <1>3, <2>2 DEF Alike, Stream
  <2> HIDE DEF t
  <2>4. QED
    BY <1>1, <2>1, <2>2, <2>3, KeptSound
<1>7. CASE DataMalformed(b, f)
  <2>1. /\ f.id \in Registered /\ MayReceive(s.state) /\ HearAndReset(f)
        /\ conn_recv_window' \in Int /\ outcome' = BadStream(f.id)
    BY <1>2, <1>7 DEF DataMalformed, Reject
  <2>2. \E t \in Stream : /\ t.send = s.send /\ t.base = s.base /\ t.pending = s.pending
                          /\ t.ended => Heard(f).peer_fin
                          /\ streams' = [streams EXCEPT ![f.id] = Failed(t)]
    <3>1. CASE streams' = [streams EXCEPT ![f.id] =
                              Failed([s EXCEPT !.rx_any = TRUE, !.recv = @ - f.len])]
      <4> DEFINE t == [s EXCEPT !.rx_any = TRUE, !.recv = @ - f.len]
      <4>1. /\ t \in Stream /\ t.send = s.send /\ t.base = s.base /\ t.pending = s.pending
            /\ t.ended = s.ended
        BY <1>3, <2>1 DEF Stream
      <4>2. s.ended => Heard(f).peer_fin
        <5>1. /\ f.id \in StreamIds /\ wire[f.id] \in Wire
              /\ Link(s, wire[f.id], Abandoned(f.id))
          BY <2>1 DEF ConnInv, ConnType, Streams
        <5>2. Grows(wire[f.id], Heard(f))
          BY <1>2, <5>1, HeardGrows DEF ConnInv
        <5>3. QED
          BY <5>1, <5>2 DEF Link, Grows
      <4>3. streams' = [streams EXCEPT ![f.id] = Failed(t)]
        BY <3>1
      <4> HIDE DEF t
      <4>4. QED
        BY <4>1, <4>2, <4>3
    <3>2. CASE streams' = [streams EXCEPT ![f.id] = Failed(AfterData(s, f))]
      BY <1>1, <2>1, <3>2, AfterDataLinked
    <3>3. QED
      BY <1>7, <3>1, <3>2 DEF DataMalformed
  <2>3. QED
    BY <1>1, <1>2, <2>1, <2>2, FailedSound
<1>8. CASE DataTaken(b, f)
  <2> DEFINE t == AfterData(s, f)
             u == [t EXCEPT !.recv = Replenished(t.recv)]
  <2>1. /\ f.id \in Registered /\ MayReceive(s.state) /\ Hear(f) /\ conn_recv_window' \in Int
        /\ streams' = [streams EXCEPT ![f.id] = u]
        /\ FinishWrite(b, OutcomeFor(f.id, t), f.payload > 0)
    BY <1>2, <1>8 DEF DataTaken
  <2>2. /\ t \in Stream /\ Link(t, Heard(f), Abandoned(f.id))
        /\ t.send = s.send /\ t.base = s.base
    BY <1>1, <2>1, AfterDataLinked
  <2>3. f.id \in StreamIds /\ wire[f.id] \in Wire
    BY <2>1 DEF ConnInv, ConnType
  <2>4. Grows(wire[f.id], Heard(f)) /\ Heard(f) \in Wire
    BY <1>2, <2>3, HeardGrows DEF ConnInv, Grows
  <2>5. FinishWrite(b, OutcomeFor(f.id, t), f.payload > 0)
    BY <2>1, Zenon
  <2> HIDE DEF t
  <2>6. outcome' \in Outcome /\ (outcome'.kind = "done" => outcome'.id = f.id /\ t.ended)
    BY <1>3, <2>1, <2>2, <2>5, OutcomeForRight
  <2>7. Replenished(t.recv) \in Int
    BY <2>2, ConstantsTyped DEF Replenished, Stream
  <2>8. Alike(t, u) /\ u.head = t.head /\ u.final = t.final /\ u.ended = t.ended
    BY <2>2, <2>7 DEF Alike, Stream
  <2>a. u.head => u.final
    BY <2>2, <2>8 DEF Link
  <2> HIDE DEF u
  <2>9. Link(u, Heard(f), Abandoned(f.id)) /\ u \in Stream /\ u.send = s.send /\ u.base = s.base
    <3>1. Link(u, Heard(f), Abandoned(f.id))
      BY <2>2, <2>4, <2>8, <2>a, LinkAlike
    <3>2. QED
      BY <2>2, <2>8, <3>1 DEF Alike
  <2>b. streams' = [streams EXCEPT ![f.id] = u] /\ wire' = [wire EXCEPT ![f.id] = Heard(f)]
    BY <2>1 DEF Hear, u
  <2>10. QED
    BY <1>1, <1>2, <2>1, <2>b, <2>4, <2>6, <2>8, <2>9, HandledSound
<1>9. QED
  BY <1>4, <1>5, <1>6, <1>7, <1>8 DEF ProcessData

LEMMA ProcessRstSound ==
    ASSUME ConnInv, NEW f \in Arriving, NEW b, ProcessRst(b, f), ~OutOfPlace(f), UNCHANGED scene
    PROVE  Sound
<1> DEFINE s == streams[f.id]
<1>1. /\ f.typ = "RST_STREAM" /\ IsFrame(f) /\ f.id # 0 /\ f.id \in Int
      /\ expecting_continuation = 0 /\ expecting_continuation' = 0
      /\ conn_recv_window' \in Int /\ Hear(f)
      /\ UNCHANGED << peer, conn_send_window, next_stream_id, goaway_received, scene >>
      /\ streams \in [Registered -> Stream]
  BY ArrivingIsFrame DEF ProcessRst, ConnInv, ConnType, IsFrame, OutOfPlace
<1>2. f.id \in StreamIds => Grows(wire[f.id], Heard(f)) /\ Heard(f).peer_rst
  BY <1>1, HeardGrows DEF ConnInv
<1>3. CASE f.id \notin Registered
  <2>1. outcome' \in Outcome /\ outcome'.kind # "done" /\ streams' = streams
    BY <1>3, SettledRight DEF ProcessRst
  <2>2. QED
    BY <1>1, <1>3, <2>1, UnregisteredSound
<1>4. CASE f.id \in Registered
  <2>1. s \in Stream /\ f.id \in StreamIds /\ wire[f.id] \in Wire /\ Heard(f) \in Wire
        /\ Link(s, wire[f.id], Abandoned(f.id)) /\ Link(s, Heard(f), Abandoned(f.id))
    BY <1>2, <1>4, LinkGrows DEF ConnInv, ConnType, Streams, Grows
  <2>2. CASE s.state = "closed"
    <3>1. outcome' \in Outcome /\ outcome'.kind # "done" /\ streams' = [streams EXCEPT ![f.id] = s]
      BY <1>1, <2>2, SettledRight DEF ProcessRst
    <3>2. QED
      BY <1>1, <1>2, <2>1, <3>1, HandledSound DEF Hear
  <2>3. CASE s.state # "closed"
    <3> DEFINE stands == f.code = "no_error" /\ s.ended /\ s.head
               t == [s EXCEPT !.state = "closed", !.rx_any = TRUE,
                              !.refused = ~stands /\ f.code = "refused"]
    <3>1. /\ streams' = [streams EXCEPT ![f.id] = t]
          /\ IF stands THEN Finish(b, Done(f.id), FALSE) ELSE Reject(b, BadStream(f.id))
      BY <1>4, <2>3 DEF ProcessRst
    <3>2. (~stands /\ f.code = "refused") \in BOOLEAN
      OBVIOUS
    <3>3. /\ t \in Stream /\ t.state = "closed" /\ t.pending = s.pending /\ t.ended = s.ended
          /\ t.send = s.send /\ t.base = s.base /\ t.head = s.head /\ t.final = s.final
      BY <2>1, <3>2 DEF Stream, States
    <3> HIDE DEF t
    <3>4. Link(t, Heard(f), Abandoned(f.id))
      BY <1>2, <2>1, <3>3 DEF Link
    <3>5. outcome' \in Outcome /\ (outcome'.kind = "done" => outcome'.id = f.id /\ s.ended)
      <4>1. \/ outcome' \in {Flood, BadStream(f.id)}
            \/ outcome' = Done(f.id) /\ s.ended
        BY <3>1, FinishOutcome DEF Reject
      <4>2. QED
        BY <1>1, <4>1, OutcomesTyped
    <3>6. QED
      BY <1>1, <1>2, <1>4, <2>1, <3>1, <3>3, <3>4, <3>5, HandledSound DEF Hear
  <2>4. QED
    BY <2>2, <2>3
<1>5. QED
  BY <1>3, <1>4

\* Streams are changed in place by a frame on stream 0, which may disown streams and
\* never takes one back.
LEMMA StreamsRewritten ==
    ASSUME ConnInv, DOMAIN streams' = Registered, streams' \in [Registered -> Stream],
           peer' \in PeerSettings, goaway_received' \in Nat \cup {NoGoaway},
           \A i \in StreamIds : Abandoned(i) => Abandoned(i)',
           goaway_received # NoGoaway => goaway_received' # NoGoaway /\ goaway_received' <= goaway_received,
           \A i \in Registered : Link(streams'[i], wire[i], Abandoned(i)'),
           expecting_continuation = 0,
           UNCHANGED << wire, conn_send_window, conn_recv_window, next_stream_id,
                        expecting_continuation, scene >>,
           outcome' \in Outcome, outcome'.kind # "done",
           StreamLedger => StreamLedger' \/ outcome' \in {Bad, Io}
    PROVE  Sound
<1>1. Registered' = Registered /\ Registered \subseteq StreamIds
  BY DEF ConnInv, ConnType, Registered
<1>2. ConnType' /\ ConnLedger'
  BY <1>1 DEF ConnInv, ConnType, ConnLedger
<1>3. \A i \in Registered' : i < next_stream_id' /\ Link(streams[i], wire[i], Abandoned(i))'
  <2> SUFFICES ASSUME NEW i \in Registered
               PROVE  i < next_stream_id' /\ Link(streams[i], wire[i], Abandoned(i))'
    BY <1>1
  <2>1. i < next_stream_id'
    BY DEF ConnInv, Streams
  <2>2. Link(streams'[i], wire'[i], Abandoned(i)')
    OBVIOUS
  <2>3. QED
    BY <2>1, <2>2 DEF Link
<1>4. \A i \in StreamIds :
        /\ i >= next_stream_id' => wire'[i].sent = 0 /\ wire'[i].granted = 0
        /\ i < next_stream_id' /\ i \notin Registered' => ClosedAtPeer(wire[i], Abandoned(i))'
  BY <1>1 DEF ConnInv, Streams, ClosedAtPeer
<1>5. Streams'
  BY <1>3, <1>4 DEF Streams
<1>6. HeadFree'
  <2>1. expecting_continuation' = 0
    OBVIOUS
  <2>2. QED
    BY <2>1, Zenon DEF HeadFree
<1>7. Passive
  BY DEF Passive
<1>8. QED
  BY <1>1, <1>2, <1>5, <1>6, <1>7 DEF Sound, ConnInv

\* A window moved by the change of the initial window, when it does not overflow.
LEMMA ShiftedLinked ==
    ASSUME NEW s \in Stream, NEW initial \in Int, ~Overflows(s, initial),
           NEW w \in Wire, NEW gone, Link(s, w, gone)
    PROVE  /\ Shifted(s, initial) \in Stream /\ Link(Shifted(s, initial), w, gone)
           /\ Shifted(s, initial).base = initial
           /\ Shifted(s, initial).send = s.send + initial - s.base
<1> DEFINE t == Shifted(s, initial)
<1>1. s.send + initial - s.base \in Int /\ s.send + initial - s.base <= WindowMax
  BY ConstantsTyped DEF Stream, Overflows
<1>2. /\ t \in Stream /\ t.send = s.send + initial - s.base /\ t.base = initial
      /\ t.state = s.state /\ t.pending = s.pending /\ t.ended = s.ended
      /\ t.head = s.head /\ t.final = s.final
  BY <1>1 DEF Shifted, Stream
<1> HIDE DEF t
<1>3. Link(t, w, gone)
  BY <1>1, <1>2 DEF Link
<1>4. QED
  BY <1>2, <1>3 DEF t

LEMMA ProcessSettingsSound ==
    ASSUME ConnInv, NEW f \in Arriving, NEW b, ProcessSettings(b, f), ~OutOfPlace(f), UNCHANGED scene
    PROVE  Sound
<1> DEFINE initial == f.initial_window_size
           changed == initial # peer.initial_window_size
           over == {i \in Registered : changed /\ Overflows(streams[i], initial)}
<1>1. /\ f.typ = "SETTINGS" /\ initial \in 0 .. WindowMax /\ f.max_concurrent_streams \in Nat
      /\ initial \in Int /\ expecting_continuation = 0
      /\ UNCHANGED << wire, conn_send_window, conn_recv_window, next_stream_id,
                      goaway_received, expecting_continuation, scene >>
  BY ArrivingIsFrame, ConstantsTyped DEF ProcessSettings, ConnInv, ConnType, IsFrame, OutOfPlace
<1>2. peer' = [initial_window_size |-> initial, max_concurrent_streams |-> f.max_concurrent_streams]
  BY DEF ProcessSettings, apply_settings_payload
<1>3. peer' \in PeerSettings /\ peer'.initial_window_size = initial
  BY <1>1, <1>2 DEF PeerSettings
<1>4. outcome' \in Outcome /\ outcome'.kind # "done"
  BY SettledRight DEF ProcessSettings
<1>5. \A i : Abandoned(i)' <=> Abandoned(i)
  BY <1>1 DEF Abandoned
<1>6. \A i \in Registered : /\ streams[i] \in Stream /\ wire[i] \in Wire
                            /\ Link(streams[i], wire[i], Abandoned(i)) /\ i \in StreamIds
  BY DEF ConnInv, ConnType, Streams
<1> HIDE DEF initial
<1>7. \A i \in Registered \ over : changed =>
         LET t == Shifted(streams[i], initial) IN
         /\ t \in Stream /\ Link(t, wire[i], Abandoned(i))
         /\ t.base = initial /\ t.send = streams[i].send + initial - streams[i].base
  BY <1>1, <1>6, ShiftedLinked
<1>8. CASE /\ over = {}
           /\ streams' = [i \in Registered |->
                             IF changed THEN Shifted(streams[i], initial) ELSE streams[i]]
  <2>1. DOMAIN streams' = Registered
    BY <1>8
  <2>2. ASSUME NEW i \in Registered
        PROVE  /\ streams'[i] \in Stream /\ Link(streams'[i], wire[i], Abandoned(i))
               /\ StreamLedger => /\ streams'[i].base = initial
                                  /\ streams'[i].send = initial + wire[i].granted - wire[i].sent
    <3>1. CASE changed
      <4>1. streams'[i] = Shifted(streams[i], initial) /\ i \notin over
        BY <1>8, <3>1
      <4>2. /\ streams'[i] \in Stream /\ Link(streams'[i], wire[i], Abandoned(i))
            /\ streams'[i].base = initial /\ streams'[i].send = streams[i].send + initial - streams[i].base
        BY <1>7, <3>1, <4>1
      <4>3. StreamLedger => streams'[i].send = initial + wire[i].granted - wire[i].sent
        BY <1>1, <1>6, <4>2 DEF StreamLedger, Stream, Wire
      <4>4. QED
        BY <4>2, <4>3
    <3>2. CASE ~changed
      BY <1>6, <1>8, <3>2 DEF StreamLedger
    <3>3. QED
      BY <3>1, <3>2
  <2>3. streams' \in [Registered -> Stream]
    BY <1>8, <2>2
  <2>4. StreamLedger => StreamLedger'
    <3> SUFFICES ASSUME StreamLedger, NEW i \in Registered'
                 PROVE  /\ streams'[i].base = peer'.initial_window_size
                        /\ streams'[i].send = peer'.initial_window_size + wire'[i].granted - wire'[i].sent
      BY DEF StreamLedger
    <3>1. i \in Registered
      BY <2>1 DEF Registered
    <3>2. QED
      BY <1>1, <1>3, <2>2, <3>1
  <2>5. \A i \in Registered : Link(streams'[i], wire[i], Abandoned(i)')
    BY <1>5, <2>2 DEF Link
  <2>6. /\ goaway_received' \in Nat \cup {NoGoaway}
        /\ goaway_received # NoGoaway => goaway_received' # NoGoaway /\ goaway_received' <= goaway_received
    BY <1>1 DEF ConnInv, ConnType
  <2>7. QED
    BY <1>1, <1>3, <1>4, <1>5, <2>1, <2>3, <2>4, <2>5, <2>6, StreamsRewritten
<1>9. CASE /\ over # {}
           /\ \E shifted \in SUBSET (Registered \ over) :
                 streams' = [i \in Registered |->
                                IF i \in shifted THEN Shifted(streams[i], initial)
                                ELSE streams[i]]
           /\ outcome' = Bad
  <2>1. PICK shifted \in SUBSET (Registered \ over) :
           streams' = [i \in Registered |-> IF i \in shifted THEN Shifted(streams[i], initial)
                                            ELSE streams[i]]
    BY <1>9
  <2>2. DOMAIN streams' = Registered /\ changed
    BY <1>9, <2>1
  <2>3. ASSUME NEW i \in Registered
        PROVE  streams'[i] \in Stream /\ Link(streams'[i], wire[i], Abandoned(i))
    <3>1. CASE i \in shifted
      <4>1. i \in Registered \ over /\ streams'[i] = Shifted(streams[i], initial)
        BY <2>1, <3>1
      <4>2. QED
        BY <1>7, <2>2, <4>1
    <3>2. CASE i \notin shifted
      BY <1>6, <2>1, <3>2
    <3>3. QED
      BY <3>1, <3>2
  <2>4. streams' \in [Registered -> Stream]
    BY <2>1, <2>3
  <2>5. \A i \in Registered : Link(streams'[i], wire[i], Abandoned(i)')
    BY <1>5, <2>3 DEF Link
  <2>6. /\ goaway_received' \in Nat \cup {NoGoaway}
        /\ goaway_received # NoGoaway => goaway_received' # NoGoaway /\ goaway_received' <= goaway_received
    BY <1>1 DEF ConnInv, ConnType
  <2>7. outcome' \in {Bad, Io}
    BY <1>9
  <2>8. QED
    BY <1>1, <1>3, <1>4, <1>5, <2>2, <2>4, <2>5, <2>6, <2>7, StreamsRewritten
<1>10. QED
  BY <1>8, <1>9 DEF ProcessSettings, Reject, initial

LEMMA ProcessGoawaySound ==
    ASSUME ConnInv, NEW f \in Arriving, NEW b, ProcessGoaway(b, f), ~OutOfPlace(f), UNCHANGED scene
    PROVE  Sound
<1> DEFINE last == IF goaway_received = NoGoaway THEN f.last ELSE Min({f.last, goaway_received})
<1>1. /\ f.typ = "GOAWAY" /\ f.last \in Nat /\ expecting_continuation = 0
      /\ UNCHANGED << wire, conn_send_window, conn_recv_window, next_stream_id, peer,
                      expecting_continuation, scene >>
      /\ goaway_received' = last
      /\ goaway_received \in Nat \cup {NoGoaway}
  BY ArrivingIsFrame DEF ProcessGoaway, ConnInv, ConnType, IsFrame, OutOfPlace
<1>2. last \in Nat /\ (goaway_received # NoGoaway => last <= goaway_received)
  <2>1. CASE goaway_received = NoGoaway
    BY <1>1, <2>1
  <2>2. CASE goaway_received # NoGoaway
    <3>1. goaway_received \in Nat /\ f.last \in Int /\ goaway_received \in Int
      BY <1>1, <2>2
    <3>2. Min({f.last, goaway_received}) \in {f.last, goaway_received}
          /\ Min({f.last, goaway_received}) <= goaway_received
      BY <3>1, LeastOfTwo
    <3>3. QED
      BY <1>1, <2>2, <3>1, <3>2
  <2>3. QED
    BY <2>1, <2>2
<1>3. streams' = [i \in Registered |->
                     IF i > last THEN [streams[i] EXCEPT !.state = "closed"] ELSE streams[i]]
  BY DEF ProcessGoaway
<1> HIDE DEF last
<1>4. \A i \in StreamIds : (Abandoned(i)' <=> i > last) /\ (Abandoned(i) => Abandoned(i)')
  BY <1>1, <1>2 DEF Abandoned, NoGoaway, StreamIds
<1>5. ASSUME NEW i \in Registered
      PROVE  /\ streams'[i] \in Stream /\ Link(streams'[i], wire[i], Abandoned(i)')
             /\ streams'[i].send = streams[i].send /\ streams'[i].base = streams[i].base
  <2>1. /\ streams[i] \in Stream /\ wire[i] \in Wire /\ i \in StreamIds
        /\ Link(streams[i], wire[i], Abandoned(i))
    BY DEF ConnInv, ConnType, Streams
  <2>2. CASE i > last
    <3>1. streams'[i] = [streams[i] EXCEPT !.state = "closed"] /\ Abandoned(i)'
      BY <1>3, <1>4, <2>1, <2>2
    <3>2. /\ streams'[i] \in Stream /\ streams'[i].state = "closed"
          /\ streams'[i].send = streams[i].send /\ streams'[i].base = streams[i].base
          /\ streams'[i].pending = streams[i].pending /\ streams'[i].ended = streams[i].ended
          /\ streams'[i].head = streams[i].head /\ streams'[i].final = streams[i].final
      BY <2>1, <3>1 DEF Stream, States
    <3>3. QED
      BY <2>1, <3>1, <3>2 DEF Link
  <2>3. CASE ~(i > last)
    <3>1. streams'[i] = streams[i]
      BY <1>3, <2>3
    <3>2. QED
      BY <1>4, <2>1, <3>1 DEF Link
  <2>4. QED
    BY <2>2, <2>3
<1>6. DOMAIN streams' = Registered /\ streams' \in [Registered -> Stream]
  BY <1>3, <1>5
<1>7. outcome' \in Outcome /\ outcome'.kind # "done"
  BY SettledRight DEF ProcessGoaway
<1>8. StreamLedger => StreamLedger'
  BY <1>1, <1>5, <1>6 DEF StreamLedger, Registered
<1>9. QED
  <2>1. /\ peer' \in PeerSettings /\ goaway_received' \in Nat \cup {NoGoaway}
        /\ goaway_received # NoGoaway => goaway_received' # NoGoaway /\ goaway_received' <= goaway_received
    BY <1>1, <1>2 DEF ConnInv, ConnType, NoGoaway
  <2>2. QED
    BY <1>1, <1>4, <1>5, <1>6, <1>7, <1>8, <2>1, StreamsRewritten

LEMMA ProcessConnWindowUpdateSound ==
    ASSUME ConnInv, NEW f \in Arriving, NEW b, ProcessConnWindowUpdate(b, f), ~OutOfPlace(f),
           UNCHANGED scene
    PROVE  Sound
<1>1. f.typ = "WINDOW_UPDATE" /\ f.increment \in Nat /\ expecting_continuation = 0
  BY ArrivingIsFrame DEF ProcessConnWindowUpdate, ConnInv, ConnType, IsFrame, OutOfPlace
<1>2. outcome' \in Outcome /\ outcome'.kind # "done"
  BY SettledRight DEF ProcessConnWindowUpdate
<1>3. UNCHANGED << streams, peer, conn_recv_window, next_stream_id, goaway_received,
                   expecting_continuation, scene >>
  BY DEF ProcessConnWindowUpdate
<1>4. CASE UNCHANGED << conn_send_window, wire >>
  <2>1. conn_recv_window' \in Int
    BY <1>3 DEF ConnInv, ConnType
  <2>2. QED
    BY <1>2, <1>3, <1>4, <2>1, NothingTouched
<1>5. CASE /\ conn_send_window + f.increment <= WindowMax
           /\ conn_send_window' = conn_send_window + f.increment
           /\ wire' = [wire EXCEPT ![0].granted = @ + f.increment]
  <2>1. /\ wire \in [StreamIds \cup {0} -> Wire] /\ 0 \notin StreamIds
        /\ conn_send_window \in 0 .. WindowMax /\ Registered \subseteq StreamIds
    BY DEF ConnInv, ConnType, StreamIds
  <2>2. wire[0] \in Wire /\ wire[0].granted + f.increment \in Nat
    BY <1>1, <2>1 DEF Wire
  <2>3. /\ wire' \in [StreamIds \cup {0} -> Wire]
        /\ wire'[0].granted = wire[0].granted + f.increment /\ wire'[0].sent = wire[0].sent
    BY <1>5, <2>1, <2>2 DEF Wire
  <2>4. \A i \in StreamIds : wire'[i] = wire[i]
    BY <1>5, <2>1
  <2>5. conn_send_window' \in 0 .. WindowMax
    BY <1>1, <1>5, <2>1, ConstantsTyped
  <2>6. Registered' = Registered
    BY <1>3 DEF Registered
  <2>7. ConnType'
    BY <1>2, <1>3, <2>3, <2>5, <2>6 DEF ConnInv, ConnType
  <2>8. ConnLedger'
    BY <1>1, <1>5, <2>1, <2>2, <2>3, ConstantsTyped DEF ConnInv, ConnLedger, Wire
  <2>9. \A i : Abandoned(i)' <=> Abandoned(i)
    BY <1>3 DEF Abandoned
  <2>10. Streams'
    BY <1>3, <2>1, <2>4, <2>6, <2>9 DEF ConnInv, Streams, Link, ClosedAtPeer
  <2>11. StreamLedger => StreamLedger'
    BY <1>3, <2>1, <2>4, <2>6 DEF StreamLedger
  <2>12. HeadFree'
    <3>1. expecting_continuation' = 0
      BY <1>1, <1>3
    <3>2. QED
      BY <3>1, Zenon DEF HeadFree
  <2>13. Passive
    BY <1>3, <2>4 DEF Passive, ConnInv, ConnType
  <2>14. QED
    BY <1>2, <2>6, <2>7, <2>8, <2>10, <2>11, <2>12, <2>13 DEF Sound, ConnInv
<1>6. QED
  BY <1>4, <1>5 DEF ProcessConnWindowUpdate

LEMMA ProcessStreamWindowUpdateSound ==
    ASSUME ConnInv, NEW f \in Arriving, NEW b, ProcessStreamWindowUpdate(b, f), ~OutOfPlace(f),
           UNCHANGED scene
    PROVE  Sound
<1>1. /\ f.typ = "WINDOW_UPDATE" /\ f.increment \in Nat /\ expecting_continuation = 0
      /\ f.id \in Nat \ {0} /\ IsFrame(f)
  BY ArrivingIsFrame DEF ProcessStreamWindowUpdate, ConnInv, ConnType, IsFrame, OutOfPlace
<1>2. outcome' \in Outcome /\ outcome'.kind # "done"
  BY SettledRight DEF ProcessStreamWindowUpdate
<1>3. UNCHANGED << peer, conn_send_window, conn_recv_window, next_stream_id, goaway_received,
                   expecting_continuation, scene >>
  BY DEF ProcessStreamWindowUpdate
<1>4. conn_recv_window' \in Int /\ expecting_continuation' \in Nat /\ expecting_continuation' = 0
  BY <1>1, <1>3 DEF ConnInv, ConnType
<1>5. CASE UNCHANGED << streams, wire >>
  BY <1>2, <1>3, <1>4, <1>5, NothingTouched
<1>6. CASE /\ f.id \in Registered
           /\ ~(streams[f.id].send + f.increment > WindowMax)
           /\ streams' = [streams EXCEPT ![f.id].send = streams[f.id].send + f.increment]
           /\ wire' = [wire EXCEPT ![f.id].granted = @ + f.increment]
  <2> DEFINE s == streams[f.id]
             w == wire[f.id]
             s2 == [s EXCEPT !.send = s.send + f.increment]
             w2 == [w EXCEPT !.granted = @ + f.increment]
  <2>1. /\ s \in Stream /\ w \in Wire /\ f.id \in StreamIds /\ Link(s, w, Abandoned(f.id))
        /\ streams \in [Registered -> Stream] /\ wire \in [StreamIds \cup {0} -> Wire]
        /\ Registered \subseteq StreamIds
    BY <1>6 DEF ConnInv, ConnType, Streams
  <2>2. streams' = [streams EXCEPT ![f.id] = s2] /\ wire' = [wire EXCEPT ![f.id] = w2]
    BY <1>6
  <2> HIDE DEF s, w
  <2>3. /\ s2 \in Stream /\ s2.send = s.send + f.increment /\ s2.base = s.base
        /\ s2.state = s.state /\ s2.pending = s.pending /\ s2.ended = s.ended
        /\ s2.head = s.head /\ s2.final = s.final
    <3>1. s.send + f.increment \in Int
      BY <1>1, <2>1 DEF Stream
    <3>2. QED
      BY <2>1, <3>1 DEF Stream
  <2>4. /\ w2 \in Wire /\ w2.granted = w.granted + f.increment /\ w2.sent = w.sent
        /\ w2.fin = w.fin /\ w2.rst = w.rst /\ w2.peer_fin = w.peer_fin /\ w2.peer_rst = w.peer_rst
        /\ w2.lost = w.lost
    <3>1. w.granted + f.increment \in Nat
      BY <1>1, <2>1 DEF Wire
    <3>2. QED
      BY <2>1, <3>1 DEF Wire
  <2> HIDE DEF s2, w2
  <2>5. Link(s2, w2, Abandoned(f.id))
    <3>1. s2.send <= WindowMax
      BY <1>1, <1>6, <2>1, <2>3, ConstantsTyped DEF s, Stream
    <3>2. QED
      BY <2>1, <2>3, <2>4, <3>1 DEF Link
  <2>6. ConnInv' /\ Registered' = Registered
    <3>1. w2.sent = wire[f.id].sent
      BY <2>4 DEF w
    <3>2. f.id \in Registered => s2 \in Stream /\ Link(s2, w2, Abandoned(f.id))
      BY <2>3, <2>5
    <3>3. f.id \in StreamIds => /\ w2 \in Wire /\ w2.sent = wire[f.id].sent
                                /\ f.id \notin Registered => Grows(wire[f.id], w2)
      BY <1>6, <2>4, <3>1
    <3>4. UNCHANGED << peer, conn_send_window, next_stream_id, goaway_received, scene >>
      BY <1>3
    <3>5. QED
      BY <1>1, <1>2, <1>4, <2>2, <3>2, <3>3, <3>4, StreamTouched
  <2>7. StreamLedger => StreamLedger'
    <3> SUFFICES ASSUME StreamLedger, NEW i \in Registered
                 PROVE  /\ streams'[i].base = peer'.initial_window_size
                        /\ streams'[i].send = peer'.initial_window_size + wire'[i].granted - wire'[i].sent
      BY <2>6 DEF StreamLedger
    <3>1. CASE i = f.id
      <4>1. streams'[i] = s2 /\ wire'[i] = w2
        BY <2>1, <2>2, <3>1
      <4>2. /\ s.base = peer.initial_window_size
            /\ s.send = peer.initial_window_size + w.granted - w.sent
        BY <1>6 DEF StreamLedger, s, w
      <4>3. peer.initial_window_size \in Int
        BY ConstantsTyped DEF ConnInv, ConnType, PeerSettings
      <4>4. QED
        BY <1>1, <1>3, <2>1, <2>3, <2>4, <4>1, <4>2, <4>3 DEF Stream, Wire
    <3>2. CASE i # f.id
      <4>1. streams'[i] = streams[i] /\ wire'[i] = wire[i]
        BY <2>1, <2>2, <3>2
      <4>2. QED
        BY <1>3, <4>1 DEF StreamLedger
    <3>3. QED
      BY <3>1, <3>2
  <2>8. HeadFree'
    BY <1>4, Zenon DEF HeadFree
  <2>9. Passive
    <3>1. \A i \in StreamIds : wire'[i].sent = wire[i].sent
      BY <2>1, <2>2, <2>4 DEF w
    <3>2. QED
      BY <1>3, <3>1 DEF Passive, ConnInv, ConnType
  <2>10. QED
    BY <1>2, <2>6, <2>7, <2>8, <2>9 DEF Sound
<1>7. QED
  BY <1>1, <1>5, <1>6 DEF ProcessStreamWindowUpdate

LEMMA ProcessPingSound ==
    ASSUME ConnInv, NEW f \in Arriving, NEW b, ProcessPing(b, f), UNCHANGED scene
    PROVE  Sound
<1>1. outcome' \in Outcome /\ outcome'.kind # "done"
  BY SettledRight DEF ProcessPing
<1>2. conn_recv_window' \in Int
  BY DEF ProcessPing, ConnInv, ConnType
<1>3. QED
  BY <1>1, <1>2, NothingTouched DEF ProcessPing

\* Whatever the peer sends, one dispatch leaves the connection sound.
LEMMA ProcessFrameSound ==
    ASSUME ConnInv, NEW f \in Arriving, ProcessFrame(f), UNCHANGED scene
    PROVE  Sound
<1> DEFINE b == Charged(f)
<1>1. CASE OutOfPlace(f)
  <2>1. outcome' = Bad /\ conn_recv_window' \in Int
    BY <1>1 DEF ProcessFrame, ConnInv, ConnType
  <2>2. QED
    BY <1>1, <2>1, OutcomesTyped, NothingTouched DEF ProcessFrame
<1>2. CASE ~OutOfPlace(f) /\ Flooded(b, f)
  <2>1. outcome' = Bad /\ conn_recv_window' \in Int
    BY <1>2 DEF ProcessFrame, ConnInv, ConnType, Reject
  <2>2. QED
    BY <1>2, <2>1, OutcomesTyped, NothingTouched DEF ProcessFrame
<1>3. CASE ~OutOfPlace(f) /\ Dispatch(b, f)
  <2> HIDE DEF b
  <2>1. QED
    BY <1>3, ProcessSettingsSound, ProcessPingSound, ProcessConnWindowUpdateSound,
       ProcessGoawaySound, HeadersRejectedSound, HeadersIgnoredSound, HeadersTakenSound,
       ProcessContinuationSound, ProcessDataSound, ProcessRstSound,
       ProcessStreamWindowUpdateSound
       DEF Dispatch, ProcessHeaders
<1>4. QED
  BY <1>1, <1>2, <1>3 DEF ProcessFrame

LEMMA ReadSound ==
    ASSUME ConnInv, (\E f \in Arriving : ProcessFrame(f)) \/ ReadFails, UNCHANGED scene
    PROVE  Sound
<1>1. CASE \E f \in Arriving : ProcessFrame(f)
  BY <1>1, ProcessFrameSound
<1>2. CASE ReadFails
  <2>1. outcome' = Io /\ conn_recv_window' \in Int
    BY <1>2 DEF ReadFails, ConnInv, ConnType
  <2>2. QED
    BY <1>2, <2>1, OutcomesTyped, NothingTouched DEF ReadFails
<1>3. QED
  BY <1>1, <1>2

-----------------------------------------------------------------------------
(* What the drivers do to the connection. *)

\* The id that open_stream hands out is a client's id, and nothing was sent on it.
LEMMA NextIdIsNew ==
    ASSUME ConnInv, CanOpen
    PROVE  /\ next_stream_id \in StreamIds /\ next_stream_id \notin Registered
           /\ wire[next_stream_id].sent = 0 /\ wire[next_stream_id].granted = 0
           /\ \A i \in StreamIds : i < next_stream_id + 2 => i < next_stream_id \/ i = next_stream_id
<1>1. next_stream_id \in Nat /\ next_stream_id % 2 = 1 /\ next_stream_id < MaxStreamId
  BY DEF ConnInv, ConnType, CanOpen
<1>2. next_stream_id # 0
  BY <1>1
<1>3. next_stream_id \in StreamIds
  BY <1>1, <1>2, ConstantsTyped DEF StreamIds
<1>4. next_stream_id \notin Registered
  BY <1>1 DEF ConnInv, Streams
<1>5. \A i \in StreamIds : i \in Int /\ i # next_stream_id + 1
  BY <1>1 DEF StreamIds
<1>6. \A i \in StreamIds : i < next_stream_id + 2 => i < next_stream_id \/ i = next_stream_id
  BY <1>1, <1>5
<1>7. QED
  BY <1>1, <1>3, <1>4, <1>6 DEF ConnInv, Streams

LEMMA NewStreamLinked ==
    ASSUME ConnInv, NEW len \in Nat, NEW w \in Wire, w.fin = (len = 0), NEW gone
    PROVE  /\ NewStream(len) \in Stream /\ Link(NewStream(len), w, gone)
           /\ NewStream(len).send = peer.initial_window_size
           /\ NewStream(len).base = peer.initial_window_size
<1>1. /\ peer.initial_window_size \in Int /\ peer.initial_window_size <= WindowMax
      /\ RecvWindow \in Int /\ NoLength \in Int
  BY ConstantsTyped DEF ConnInv, ConnType, PeerSettings, NoLength
<1>2. NewStream(len) \in Stream
  BY <1>1 DEF NewStream, Stream, States
<1>3. QED
  BY <1>1, <1>2 DEF NewStream, Link

LEMMA RequestWrittenSound ==
    ASSUME ConnInv, CanOpen, NEW len \in Nat, RequestWritten(len),
           UNCHANGED << peer, conn_send_window, conn_recv_window, goaway_received,
                        expecting_continuation, outcome, scene >>
    PROVE  /\ ConnInv' /\ (StreamLedger => StreamLedger')
           /\ Registered' = Registered \cup {next_stream_id}
           /\ \A i \in Registered : streams'[i] = streams[i]
           /\ \A i \in StreamIds : wire'[i].sent = wire[i].sent
<1> DEFINE id == next_stream_id
           s == NewStream(len)
           w == [wire[id] EXCEPT !.fin = (len = 0)]
<1>1. /\ id \in StreamIds /\ id \notin Registered /\ id \in Nat /\ id % 2 = 1
      /\ wire[id].sent = 0 /\ wire[id].granted = 0
      /\ \A i \in StreamIds : i < id + 2 => i < id \/ i = id
      /\ Registered \subseteq StreamIds /\ 0 \notin StreamIds
      /\ streams \in [Registered -> Stream] /\ wire \in [StreamIds \cup {0} -> Wire]
  BY NextIdIsNew DEF ConnInv, ConnType, StreamIds
<1>2. w \in Wire /\ w.fin = (len = 0) /\ w.sent = 0 /\ w.granted = 0
  BY <1>1 DEF Wire
<1>3. s \in Stream /\ Link(s, w, Abandoned(id)) /\ s.send = peer.initial_window_size
      /\ s.base = peer.initial_window_size
  BY <1>2, NewStreamLinked
<1>4. /\ streams' = [i \in Registered \cup {id} |-> IF i = id THEN s ELSE streams[i]]
      /\ wire' = [wire EXCEPT ![id] = w] /\ next_stream_id' = id + 2
  BY <1>1 DEF RequestWritten
<1> HIDE DEF s, w
<1>5. /\ Registered' = Registered \cup {id} /\ streams'[id] = s /\ wire'[id] = w
      /\ \A i \in Registered : streams'[i] = streams[i]
      /\ \A i \in StreamIds \cup {0} : i # id => wire'[i] = wire[i]
  BY <1>1, <1>4 DEF Registered
<1>6. streams' \in [Registered' -> Stream] /\ wire' \in [StreamIds \cup {0} -> Wire]
  BY <1>1, <1>2, <1>3, <1>4, <1>5
<1>7. ConnType'
  <2>1. next_stream_id' \in Nat /\ next_stream_id' % 2 = 1
    BY <1>1, <1>4
  <2>2. QED
    BY <1>1, <1>5, <1>6, <2>1 DEF ConnInv, ConnType
<1>8. \A i : Abandoned(i)' <=> Abandoned(i)
  BY DEF Abandoned
<1>9. \A i \in Registered' : i < next_stream_id' /\ Link(streams[i], wire[i], Abandoned(i))'
  <2> SUFFICES ASSUME NEW i \in Registered \cup {id}
               PROVE  i < next_stream_id' /\ Link(streams[i], wire[i], Abandoned(i))'
    BY <1>5
  <2>1. CASE i = id
    BY <1>1, <1>3, <1>4, <1>5, <1>8, <2>1 DEF Link
  <2>2. CASE i # id
    <3>1. i \in Registered /\ i \in StreamIds /\ i \in Int
      BY <1>1, <2>2 DEF StreamIds
    <3>2. i < id /\ Link(streams[i], wire[i], Abandoned(i))
      BY <3>1 DEF ConnInv, Streams
    <3>3. streams'[i] = streams[i] /\ wire'[i] = wire[i]
      BY <1>5, <2>2, <3>1
    <3>4. i < next_stream_id'
      BY <1>1, <1>4, <3>1, <3>2
    <3>5. QED
      BY <1>8, <3>2, <3>3, <3>4 DEF Link
  <2>3. QED
    BY <2>1, <2>2
<1>10. ASSUME NEW i \in StreamIds
       PROVE  /\ i >= next_stream_id' => wire'[i].sent = 0 /\ wire'[i].granted = 0
              /\ i < next_stream_id' /\ i \notin Registered' => ClosedAtPeer(wire[i], Abandoned(i))'
              /\ wire'[i].sent = wire[i].sent
  <2>1. CASE i = id
    BY <1>1, <1>2, <1>5, <2>1
  <2>2. CASE i # id
    <3>1. wire'[i] = wire[i] /\ i \in Int
      BY <1>5, <2>2 DEF StreamIds
    <3>2. i >= next_stream_id' => i >= id
      BY <1>1, <1>4, <3>1
    <3>3. i < next_stream_id' /\ i \notin Registered' => i < id /\ i \notin Registered
      BY <1>1, <1>4, <1>5, <2>2
    <3>4. QED
      BY <1>8, <3>1, <3>2, <3>3 DEF ConnInv, Streams, ClosedAtPeer
  <2>3. QED
    BY <2>1, <2>2
<1>11. Streams'
  BY <1>9, <1>10 DEF Streams
<1>12. ConnLedger'
  BY <1>1, <1>5 DEF ConnInv, ConnLedger
<1>13. StreamLedger => StreamLedger'
  <2> SUFFICES ASSUME StreamLedger, NEW i \in Registered \cup {id}
               PROVE  /\ streams'[i].base = peer'.initial_window_size
                      /\ streams'[i].send = peer'.initial_window_size + wire'[i].granted - wire'[i].sent
    BY <1>5 DEF StreamLedger
  <2>1. CASE i = id
    <3>1. peer.initial_window_size \in Int
      BY ConstantsTyped DEF ConnInv, ConnType, PeerSettings
    <3>2. QED
      BY <1>2, <1>3, <1>5, <2>1, <3>1
  <2>2. CASE i # id
    BY <1>1, <1>5, <2>2 DEF StreamLedger
  <2>3. QED
    BY <2>1, <2>2
<1>14. QED
  BY <1>5, <1>7, <1>10, <1>11, <1>12, <1>13 DEF ConnInv

\* An id that is given up before its HEADERS are out.
LEMMA IdSpent ==
    ASSUME ConnInv, CanOpen,
           next_stream_id' = next_stream_id + 2,
           wire' = [wire EXCEPT ![next_stream_id].lost = TRUE],
           UNCHANGED << streams, peer, conn_send_window, conn_recv_window, goaway_received,
                        expecting_continuation, outcome, scene >>
    PROVE  /\ ConnInv' /\ (StreamLedger => StreamLedger') /\ Registered' = Registered
           /\ \A i \in StreamIds : wire'[i].sent = wire[i].sent
<1> DEFINE id == next_stream_id
           w == [wire[id] EXCEPT !.lost = TRUE]
<1>1. /\ id \in StreamIds /\ id \notin Registered /\ id \in Nat /\ id % 2 = 1
      /\ wire[id].sent = 0 /\ wire[id].granted = 0
      /\ \A i \in StreamIds : i < id + 2 => i < id \/ i = id
      /\ Registered \subseteq StreamIds /\ 0 \notin StreamIds
      /\ streams \in [Registered -> Stream] /\ wire \in [StreamIds \cup {0} -> Wire]
  BY NextIdIsNew DEF ConnInv, ConnType, StreamIds
<1>2. w \in Wire /\ w.lost /\ w.sent = 0 /\ w.granted = 0
  BY <1>1 DEF Wire
<1>3. wire' = [wire EXCEPT ![id] = w]
  BY <1>1
<1> HIDE DEF w
<1>4. /\ Registered' = Registered /\ wire'[id] = w
      /\ \A i \in StreamIds \cup {0} : i # id => wire'[i] = wire[i]
      /\ wire' \in [StreamIds \cup {0} -> Wire]
  <2>1. Registered' = Registered
    BY DEF Registered
  <2>2. /\ wire'[id] = w /\ wire' \in [StreamIds \cup {0} -> Wire]
        /\ \A i \in StreamIds \cup {0} : i # id => wire'[i] = wire[i]
    <3>1. /\ id \in StreamIds \cup {0} /\ wire \in [StreamIds \cup {0} -> Wire] /\ w \in Wire
      BY <1>1, <1>2
    <3> HIDE DEF id
    <3>2. QED
      BY ONLY <1>3, <3>1
  <2>3. QED
    BY <2>1, <2>2
<1>5. ConnType'
  <2>1. next_stream_id' \in Nat /\ next_stream_id' % 2 = 1
    BY <1>1
  <2>2. QED
    BY <1>4, <2>1 DEF ConnInv, ConnType
<1>6. \A i : Abandoned(i)' <=> Abandoned(i)
  BY DEF Abandoned
<1>7. ASSUME NEW i \in Registered'
      PROVE  i < next_stream_id' /\ Link(streams[i], wire[i], Abandoned(i))'
  <2>1. i \in Registered /\ i \in StreamIds /\ i \in Int /\ i # id
    BY <1>1, <1>4 DEF StreamIds
  <2>2. i < id /\ Link(streams[i], wire[i], Abandoned(i))
    BY <2>1 DEF ConnInv, Streams
  <2>3. wire'[i] = wire[i] /\ i < next_stream_id'
    BY <1>1, <1>4, <2>1, <2>2
  <2>4. QED
    BY <1>6, <2>2, <2>3 DEF Link
<1>8. ASSUME NEW i \in StreamIds
      PROVE  /\ i >= next_stream_id' => wire'[i].sent = 0 /\ wire'[i].granted = 0
             /\ i < next_stream_id' /\ i \notin Registered' => ClosedAtPeer(wire[i], Abandoned(i))'
             /\ wire'[i].sent = wire[i].sent
  <2>1. CASE i = id
    BY <1>1, <1>2, <1>4, <2>1 DEF ClosedAtPeer
  <2>2. CASE i # id
    <3>1. wire'[i] = wire[i] /\ i \in Int
      BY <1>4, <2>2 DEF StreamIds
    <3>2. i >= next_stream_id' => i >= id
      BY <1>1, <3>1
    <3>3. i < next_stream_id' /\ i \notin Registered' => i < id /\ i \notin Registered
      BY <1>1, <1>4, <2>2
    <3>4. QED
      BY <1>6, <3>1, <3>2, <3>3 DEF ConnInv, Streams, ClosedAtPeer
  <2>3. QED
    BY <2>1, <2>2
<1>9. Streams' /\ ConnLedger'
  BY <1>1, <1>4, <1>7, <1>8 DEF Streams, ConnInv, ConnLedger
<1>10. StreamLedger => StreamLedger'
  BY <1>1, <1>4 DEF StreamLedger
<1>11. QED
  BY <1>4, <1>5, <1>8, <1>9, <1>10 DEF ConnInv

\* One DATA frame.
LEMMA DataWrittenSound ==
    ASSUME ConnInv, NEW id \in Sendable, DataWritten(id),
           UNCHANGED << peer, conn_recv_window, next_stream_id, goaway_received,
                        expecting_continuation, outcome, scene >>
    PROVE  /\ ConnInv' /\ (StreamLedger => StreamLedger') /\ Registered' = Registered
           /\ \A i \in Registered : streams'[i].head = streams[i].head
           /\ \A i \in StreamIds : wire'[i].sent > wire[i].sent =>
                 streams'[i].send >= 0 /\ conn_send_window' >= 0
<1> DEFINE s == streams[id]
           n == NextDataChunk(s, s.pending)
           last == n = s.pending
           t == [s EXCEPT !.send = @ - n, !.pending = @ - n, !.state = IF last THEN SentEnd(@) ELSE @]
           w == [wire[id] EXCEPT !.sent = @ + n, !.fin = last]
           c == [wire[0] EXCEPT !.sent = @ + n]
<1>1. /\ id \in Registered /\ id \in StreamIds /\ s \in Stream /\ wire[id] \in Wire
      /\ wire[0] \in Wire /\ 0 \notin StreamIds /\ Registered \subseteq StreamIds
      /\ streams \in [Registered -> Stream] /\ wire \in [StreamIds \cup {0} -> Wire]
      /\ n > 0 /\ s.pending > 0 /\ Link(s, wire[id], Abandoned(id))
      /\ conn_send_window \in 0 .. WindowMax
  BY DEF ConnInv, ConnType, Streams, StreamIds, Sendable
<1>2. n \in Nat /\ n <= s.send /\ n <= conn_send_window /\ n <= s.pending
  BY <1>1, ChunkFits DEF ConnInv
<1>3. /\ conn_send_window' = conn_send_window - n
      /\ streams' = [streams EXCEPT ![id] = t]
      /\ wire' = [wire EXCEPT ![id].sent = @ + n, ![id].fin = last, ![0].sent = @ + n]
  BY DEF DataWritten
<1>n. n > 0 /\ (last <=> n = s.pending) /\ last \in BOOLEAN
  BY <1>1
<1> HIDE DEF n, last, s
<1>4. /\ t \in Stream /\ t.send = s.send - n /\ t.pending = s.pending - n /\ t.base = s.base
      /\ t.state = (IF last THEN SentEnd(s.state) ELSE s.state)
      /\ t.ended = s.ended /\ t.head = s.head /\ t.final = s.final
  <2>1. s.send - n \in Int /\ s.pending - n \in Nat
    BY <1>1, <1>2 DEF Stream
  <2>2. (IF last THEN SentEnd(s.state) ELSE s.state) \in States
    BY <1>1 DEF SentEnd, States, Stream
  <2>3. QED
    BY <1>1, <2>1, <2>2 DEF Stream
<1>5. /\ w \in Wire /\ w.sent = wire[id].sent + n /\ w.granted = wire[id].granted
      /\ (w.fin <=> last) /\ w.rst = wire[id].rst /\ w.peer_fin = wire[id].peer_fin
      /\ w.peer_rst = wire[id].peer_rst /\ w.lost = wire[id].lost
      /\ c \in Wire /\ c.sent = wire[0].sent + n /\ c.granted = wire[0].granted
  <2>1. wire[id].sent + n \in Nat /\ wire[0].sent + n \in Nat
    BY <1>1, <1>2 DEF Wire
  <2>2. QED
    BY <1>1, <1>n, <2>1 DEF Wire
<1>6. wire' = [wire EXCEPT ![id] = w, ![0] = c]
  BY <1>1, <1>3
<1> HIDE DEF t, w, c
<1>7. /\ streams'[id] = t /\ wire'[id] = w /\ wire'[0] = c /\ Registered' = Registered
      /\ \A i \in Registered : i # id => streams'[i] = streams[i]
      /\ \A i \in StreamIds : i # id => wire'[i] = wire[i]
      /\ streams' \in [Registered' -> Stream]
      /\ wire' \in [StreamIds \cup {0} -> Wire]
  BY <1>1, <1>3, <1>4, <1>5, <1>6 DEF Registered
<1>8. conn_send_window' \in 0 .. WindowMax
  BY <1>1, <1>2, <1>3, ConstantsTyped
<1>9. ConnType'
  BY <1>7, <1>8 DEF ConnInv, ConnType
<1>10. \A i : Abandoned(i)' <=> Abandoned(i)
  BY DEF Abandoned
<1>11. Link(t, w, Abandoned(id))
  <2>1. /\ ~wire[id].fin /\ s.state # "half_closed_local"
        /\ s.state = "half_closed_remote" => wire[id].peer_fin
        /\ s.state = "closed" => wire[id].rst \/ wire[id].peer_rst \/ Abandoned(id) \/ wire[id].lost
        /\ s.ended => wire[id].peer_fin
        /\ s.head => s.final
        /\ s.send <= WindowMax
    BY <1>1 DEF Link, Stream, Wire
  <2>2. t.pending = 0 <=> last
    BY <1>1, <1>2, <1>4, <1>n DEF Stream
  <2>3. t.send <= WindowMax
    BY <1>1, <1>2, <1>4, <2>1, ConstantsTyped DEF Stream
  <2>4. CASE last
    BY <1>4, <1>5, <2>1, <2>2, <2>3, <2>4 DEF Link, SentEnd
  <2>5. CASE ~last
    BY <1>4, <1>5, <2>1, <2>2, <2>3, <2>5 DEF Link
  <2>6. QED
    BY <2>4, <2>5
<1>12. ASSUME NEW i \in Registered'
       PROVE  i < next_stream_id' /\ Link(streams[i], wire[i], Abandoned(i))'
  <2>1. i \in Registered /\ i \in StreamIds
    BY <1>1, <1>7
  <2>2. i < next_stream_id'
    BY <2>1 DEF ConnInv, Streams
  <2>3. CASE i = id
    BY <1>7, <1>10, <1>11, <2>2, <2>3 DEF Link
  <2>4. CASE i # id
    BY <1>7, <1>10, <2>1, <2>2, <2>4 DEF Link, ConnInv, Streams
  <2>5. QED
    BY <2>3, <2>4
<1>13. ASSUME NEW i \in StreamIds
       PROVE  /\ i >= next_stream_id' => wire'[i].sent = 0 /\ wire'[i].granted = 0
              /\ i < next_stream_id' /\ i \notin Registered' => ClosedAtPeer(wire[i], Abandoned(i))'
              /\ wire'[i].sent > wire[i].sent => streams'[i].send >= 0 /\ conn_send_window' >= 0
  <2>1. CASE i = id
    <3>1. i < next_stream_id /\ i \in Int /\ next_stream_id \in Int
      BY <1>1, <2>1 DEF ConnInv, ConnType, Streams, StreamIds
    <3>2. t.send >= 0 /\ conn_send_window' >= 0
      BY <1>1, <1>2, <1>3, <1>4 DEF Stream
    <3>3. QED
      BY <1>1, <1>7, <2>1, <3>1, <3>2
  <2>2. CASE i # id
    <3>1. wire'[i] = wire[i] /\ wire[i] \in Wire
      BY <1>1, <1>7, <2>2
    <3>2. ~(wire'[i].sent > wire[i].sent)
      BY <3>1 DEF Wire
    <3>3. QED
      BY <1>7, <1>10, <3>1, <3>2 DEF ConnInv, Streams, ClosedAtPeer
  <2>3. QED
    BY <2>1, <2>2
<1>14. Streams'
  BY <1>12, <1>13 DEF Streams
<1>15. ConnLedger'
  BY <1>1, <1>2, <1>3, <1>5, <1>7, ConstantsTyped DEF ConnInv, ConnLedger, Wire
<1>16. StreamLedger => StreamLedger'
  <2> SUFFICES ASSUME StreamLedger, NEW i \in Registered
               PROVE  /\ streams'[i].base = peer'.initial_window_size
                      /\ streams'[i].send = peer'.initial_window_size + wire'[i].granted - wire'[i].sent
    BY <1>7 DEF StreamLedger
  <2>1. CASE i = id
    <3>1. peer.initial_window_size \in Int
      BY ConstantsTyped DEF ConnInv, ConnType, PeerSettings
    <3>2. s.base = peer.initial_window_size
          /\ s.send = peer.initial_window_size + wire[id].granted - wire[id].sent
      BY <1>1 DEF StreamLedger, s
    <3>3. QED
      BY <1>1, <1>2, <1>4, <1>5, <1>7, <2>1, <3>1, <3>2 DEF Wire
  <2>2. CASE i # id
    BY <1>1, <1>7, <2>2 DEF StreamLedger
  <2>3. QED
    BY <2>1, <2>2
<1>17. \A i \in Registered : streams'[i].head = streams[i].head
  BY <1>4, <1>7 DEF s
<1>18. QED
  BY <1>7, <1>9, <1>13, <1>14, <1>15, <1>16, <1>17 DEF ConnInv

\* The rest of a request body is called off with a best-effort RST_STREAM.
CalledOff(id) == \E w \in ResetTried(wire[id]) : wire' = [wire EXCEPT ![id] = w]

\* Streams are given up, of which one may be reset at the same time.
LEMMA StreamsDropped ==
    ASSUME ConnInv, NEW ids, streams' = Without(ids),
           wire' = wire \/ \E id \in ids \cap Registered : CalledOff(id),
           \A i \in ids \cap Registered : ClosedAtPeer(wire'[i], Abandoned(i)),
           UNCHANGED << peer, conn_send_window, conn_recv_window, next_stream_id, goaway_received,
                        expecting_continuation, outcome, scene >>
    PROVE  /\ ConnInv' /\ (StreamLedger => StreamLedger') /\ Registered' = Registered \ ids
           /\ \A i \in Registered' : streams'[i] = streams[i]
           /\ \A i \in StreamIds : wire'[i].sent = wire[i].sent
<1>1. /\ Registered \subseteq StreamIds /\ 0 \notin StreamIds
      /\ streams \in [Registered -> Stream] /\ wire \in [StreamIds \cup {0} -> Wire]
  BY DEF ConnInv, ConnType, StreamIds
<1>2. Registered' = Registered \ ids
  BY DEF Without, Registered
<1>a. \A i \in Registered' : streams'[i] = streams[i]
  BY <1>2 DEF Without
<1>3. /\ wire' \in [StreamIds \cup {0} -> Wire] /\ wire'[0] = wire[0]
      /\ \A i \in StreamIds : /\ i \notin ids \/ i \notin Registered => wire'[i] = wire[i]
                              /\ wire'[i].sent = wire[i].sent /\ wire'[i].granted = wire[i].granted
  <2>1. CASE wire' = wire
    BY <1>1, <2>1
  <2>2. CASE \E id \in ids \cap Registered : CalledOff(id)
    <3>1. PICK id \in ids \cap Registered : CalledOff(id)
      BY <2>2
    <3>3. PICK w \in ResetTried(wire[id]) : wire' = [wire EXCEPT ![id] = w]
      BY <3>1 DEF CalledOff
    <3>a. id \in StreamIds /\ wire[id] \in Wire
      BY <1>1
    <3>2. w \in Wire /\ w.sent = wire[id].sent /\ w.granted = wire[id].granted /\ id \in StreamIds
      BY <3>a, TriedGrows DEF Grows
    <3>4. QED
      BY <1>1, <3>1, <3>2, <3>3
  <2>3. QED
    BY <2>1, <2>2
<1>4. streams' \in [Registered' -> Stream]
  BY <1>1, <1>2 DEF Without
<1>5. ConnType' /\ ConnLedger'
  BY <1>1, <1>2, <1>3, <1>4 DEF ConnInv, ConnType, ConnLedger
<1>6. \A i : Abandoned(i)' <=> Abandoned(i)
  BY DEF Abandoned
<1>7. ASSUME NEW i \in Registered'
      PROVE  i < next_stream_id' /\ Link(streams[i], wire[i], Abandoned(i))'
  <2>1. i \in Registered /\ i \notin ids /\ i \in StreamIds
    BY <1>1, <1>2
  <2>2. streams'[i] = streams[i] /\ wire'[i] = wire[i]
    BY <1>a, <1>3, <2>1
  <2>3. QED
    BY <1>6, <2>1, <2>2 DEF ConnInv, Streams, Link
<1>8. ASSUME NEW i \in StreamIds
      PROVE  /\ i >= next_stream_id' => wire'[i].sent = 0 /\ wire'[i].granted = 0
             /\ i < next_stream_id' /\ i \notin Registered' => ClosedAtPeer(wire[i], Abandoned(i))'
  <2>1. i >= next_stream_id' => wire'[i].sent = 0 /\ wire'[i].granted = 0
    BY <1>3 DEF ConnInv, Streams
  <2>2. ASSUME i < next_stream_id', i \notin Registered'
        PROVE  ClosedAtPeer(wire'[i], Abandoned(i))
    <3>1. CASE i \in Registered
      BY <1>2, <2>2, <3>1
    <3>2. CASE i \notin Registered
      <4>1. wire'[i] = wire[i]
        BY <1>3, <3>2
      <4>2. QED
        BY <2>2, <3>2, <4>1 DEF ConnInv, Streams
    <3>3. QED
      BY <3>1, <3>2
  <2>3. QED
    BY <1>6, <2>1, <2>2 DEF ClosedAtPeer
<1>9. Streams'
  BY <1>7, <1>8 DEF Streams
<1>10. StreamLedger => StreamLedger'
  BY <1>1, <1>2, <1>a, <1>3 DEF StreamLedger
<1>11. QED
  BY <1>2, <1>a, <1>3, <1>5, <1>9, <1>10 DEF ConnInv

-----------------------------------------------------------------------------
(* The slots of the requests. *)

\* OneSlotEach while the driver is running.
Slots ==
    /\ \A j, k \in 1 .. Len(queue) : queue[j] = queue[k] => j = k
    /\ \A i, j \in Live : id_to_idx[i] = id_to_idx[j] => i = j
    /\ \A r \in Requests :
          /\ results[r] = "none" <=> r \in Queued \cup {id_to_idx[i] : i \in Live}
          /\ ~(r \in Queued /\ \E i \in Live : id_to_idx[i] = r)
    /\ Live = Registered

LEMMA SlotsWhileRunning ==
    /\ OneSlotEach <=> (pc \notin Over => Slots)
    /\ OneSlotEach' <=> (pc' \notin Over => Slots')
  BY DEF OneSlotEach, Slots

LEMMA RequestsFixed ==
    ASSUME scene' = scene
    PROVE  Requests' = Requests /\ BodyLen' = BodyLen
  BY DEF Requests, BodyLen

\* The head of the queue and what is behind it.
LEMMA HeadOfQueue ==
    ASSUME MuxType, queue # << >>, queue' = Tail(queue), scene' = scene,
           \A j, k \in 1 .. Len(queue) : queue[j] = queue[k] => j = k
    PROVE  /\ Head(queue) \in Requests /\ queue' \in Seq(Requests)
           /\ Head(queue) \in Queued
           /\ Queued' = Queued \ {Head(queue)}
           /\ \A j, k \in 1 .. Len(queue') : queue'[j] = queue'[k] => j = k
<1>1. queue \in Seq(Requests) /\ Len(queue) \in Nat /\ Len(queue) > 0
  BY DEF MuxType
<1>2. /\ Head(queue) = queue[1] /\ Len(queue') = Len(queue) - 1 /\ queue' \in Seq(Requests)
      /\ \A k \in 1 .. Len(queue') : queue'[k] = queue[k + 1]
  BY <1>1
<1>3. queue[1] \in Requests
  BY <1>1
<1>4. \A j, k \in 1 .. Len(queue') : queue'[j] = queue'[k] => j = k
  BY <1>1, <1>2
<1>5. ASSUME NEW r PROVE r \in Queued' <=> r \in Queued /\ r # queue[1]
  <2>1. ASSUME r \in Queued' PROVE r \in Queued /\ r # queue[1]
    <3>1. PICK k \in 1 .. Len(queue') : queue'[k] = r
      BY <2>1 DEF Queued
    <3>2. k + 1 \in 1 .. Len(queue) /\ r = queue[k + 1] /\ k + 1 # 1 /\ 1 \in 1 .. Len(queue)
      BY <1>1, <1>2, <3>1
    <3>3. QED
      BY <3>2 DEF Queued
  <2>2. ASSUME r \in Queued, r # queue[1] PROVE r \in Queued'
    <3>1. PICK k \in 1 .. Len(queue) : queue[k] = r
      BY <2>2 DEF Queued
    <3>2. k # 1 /\ k - 1 \in 1 .. Len(queue')
      BY <1>1, <1>2, <2>2, <3>1
    <3>3. queue'[k - 1] = r
      BY <1>1, <1>2, <3>1, <3>2
    <3>4. QED
      BY <3>2, <3>3 DEF Queued
  <2>3. QED
    BY <2>1, <2>2
<1>6. queue[1] \in Queued
  BY <1>1 DEF Queued
<1>7. QED
  BY <1>2, <1>3, <1>4, <1>5, <1>6

\* The head of the queue gets a stream.
LEMMA SlotOpened ==
    ASSUME MuxType, Slots, queue # << >>, queue' = Tail(queue), NEW id, id \notin Registered,
           id_to_idx' = [i \in Live \cup {id} |-> IF i = id THEN Head(queue) ELSE id_to_idx[i]],
           results' = results, Registered' = Registered \cup {id}, scene' = scene
    PROVE  /\ Slots' /\ Live' = Live \cup {id}
           /\ queue' \in Seq(Requests)' /\ id_to_idx' \in [Live' -> Requests']
<1>1. /\ Head(queue) \in Requests /\ queue' \in Seq(Requests) /\ Head(queue) \in Queued
      /\ Queued' = Queued \ {Head(queue)}
      /\ \A j, k \in 1 .. Len(queue') : queue'[j] = queue'[k] => j = k
  BY HeadOfQueue DEF Slots
<1>2. Requests' = Requests /\ Seq(Requests)' = Seq(Requests)
  BY RequestsFixed
<1>3. id_to_idx \in [Live -> Requests] /\ Live = Registered /\ id \notin Live
  BY DEF MuxType, Slots
<1>4. /\ Live' = Live \cup {id} /\ id_to_idx'[id] = Head(queue)
      /\ \A i \in Live : id_to_idx'[i] = id_to_idx[i]
  BY <1>3 DEF Live
<1>5. id_to_idx' \in [Live' -> Requests']
  BY <1>1, <1>2, <1>3, <1>4
<1>6. \A i \in Live : id_to_idx[i] # Head(queue)
  BY <1>1 DEF Slots
<1>7. \A i, j \in Live' : id_to_idx'[i] = id_to_idx'[j] => i = j
  BY <1>4, <1>6 DEF Slots
<1>8. ASSUME NEW r \in Requests
      PROVE  /\ results'[r] = "none" <=> r \in Queued' \cup {id_to_idx'[i] : i \in Live'}
             /\ ~(r \in Queued' /\ \E i \in Live' : id_to_idx'[i] = r)
  <2>1. /\ results[r] = "none" <=> r \in Queued \cup {id_to_idx[i] : i \in Live}
        /\ ~(r \in Queued /\ \E i \in Live : id_to_idx[i] = r)
    BY DEF Slots
  <2>2. (\E i \in Live' : id_to_idx'[i] = r) <=> r = Head(queue) \/ \E i \in Live : id_to_idx[i] = r
    BY <1>4
  <2>3. QED
    BY <1>1, <2>1, <2>2
<1>9. Live' = Registered'
  BY <1>3, <1>4
<1>10. Slots'
  BY <1>1, <1>2, <1>7, <1>8, <1>9 DEF Slots
<1>11. QED
  BY <1>1, <1>2, <1>4, <1>5, <1>10

\* The head of the queue fails without one.
LEMMA SlotRefused ==
    ASSUME MuxType, Slots, queue # << >>, queue' = Tail(queue), id_to_idx' = id_to_idx,
           results' = [results EXCEPT ![Head(queue)] = "err"],
           Registered' = Registered, scene' = scene
    PROVE  /\ Slots' /\ Live' = Live
           /\ queue' \in Seq(Requests)' /\ id_to_idx' \in [Live' -> Requests']
           /\ results' \in [Requests' -> {"none", "ok", "err", "moved"}] /\ Tainted'
<1>1. /\ Head(queue) \in Requests /\ queue' \in Seq(Requests) /\ Head(queue) \in Queued
      /\ Queued' = Queued \ {Head(queue)}
      /\ \A j, k \in 1 .. Len(queue') : queue'[j] = queue'[k] => j = k
  BY HeadOfQueue DEF Slots
<1>2. Requests' = Requests /\ Seq(Requests)' = Seq(Requests)
  BY RequestsFixed
<1>3. Live' = Live /\ id_to_idx' \in [Live' -> Requests']
  BY <1>2 DEF MuxType, Live
<1>4. /\ results' \in [Requests' -> {"none", "ok", "err", "moved"}]
      /\ results'[Head(queue)] = "err"
      /\ \A r \in Requests : r # Head(queue) => results'[r] = results[r]
  BY <1>1, <1>2 DEF MuxType
<1>5. Tainted'
  BY <1>1, <1>2, <1>4 DEF Tainted
<1>6. ASSUME NEW r \in Requests
      PROVE  /\ results'[r] = "none" <=> r \in Queued' \cup {id_to_idx'[i] : i \in Live'}
             /\ ~(r \in Queued' /\ \E i \in Live' : id_to_idx'[i] = r)
  <2>1. /\ results[r] = "none" <=> r \in Queued \cup {id_to_idx[i] : i \in Live}
        /\ ~(r \in Queued /\ \E i \in Live : id_to_idx[i] = r)
    BY DEF Slots
  <2>2. Head(queue) \notin {id_to_idx[i] : i \in Live}
    BY <1>1 DEF Slots
  <2>3. QED
    BY <1>1, <1>3, <1>4, <2>1, <2>2
<1>7. Slots'
  BY <1>1, <1>2, <1>3, <1>6 DEF Slots
<1>8. QED
  BY <1>1, <1>2, <1>3, <1>4, <1>5, <1>7

\* The streams `ids` are given up and their requests have an answer.
LEMMA SlotsClosed ==
    ASSUME MuxType, Slots, NEW ids, queue' = queue, id_to_idx' = Unmap(ids),
           \A r \in Requests : IF \E i \in ids \cap Live : id_to_idx[i] = r
                               THEN results'[r] # "none" ELSE results'[r] = results[r],
           Registered' = Registered \ ids, scene' = scene
    PROVE  /\ Slots' /\ Live' = Live \ ids
           /\ queue' \in Seq(Requests)' /\ id_to_idx' \in [Live' -> Requests']
<1>1. Requests' = Requests /\ Seq(Requests)' = Seq(Requests) /\ Queued' = Queued
  BY RequestsFixed DEF Queued
<1>2. id_to_idx \in [Live -> Requests] /\ queue \in Seq(Requests) /\ Live = Registered
  BY DEF MuxType, Slots
<1>3. /\ Live' = Live \ ids /\ id_to_idx' \in [Live' -> Requests']
      /\ \A i \in Live' : id_to_idx'[i] = id_to_idx[i]
  BY <1>1, <1>2 DEF Unmap, Live
<1>4. ASSUME NEW r \in Requests
      PROVE  /\ results'[r] = "none" <=> r \in Queued' \cup {id_to_idx'[i] : i \in Live'}
             /\ ~(r \in Queued' /\ \E i \in Live' : id_to_idx'[i] = r)
  <2>1. /\ results[r] = "none" <=> r \in Queued \cup {id_to_idx[i] : i \in Live}
        /\ ~(r \in Queued /\ \E i \in Live : id_to_idx[i] = r)
    BY DEF Slots
  <2>2. CASE \E i \in ids \cap Live : id_to_idx[i] = r
    <3>1. PICK i \in ids \cap Live : id_to_idx[i] = r
      BY <2>2
    <3>2. r \notin Queued /\ \A j \in Live' : id_to_idx'[j] # r
      BY <1>3, <2>1, <3>1 DEF Slots
    <3>3. QED
      BY <1>1, <2>2, <3>2
  <2>3. CASE ~ \E i \in ids \cap Live : id_to_idx[i] = r
    <3>1. (\E j \in Live' : id_to_idx'[j] = r) <=> (\E j \in Live : id_to_idx[j] = r)
      BY <1>3, <2>3
    <3>2. QED
      BY <1>1, <2>1, <2>3, <3>1
  <2>4. QED
    BY <2>2, <2>3
<1>5. \A i, j \in Live' : id_to_idx'[i] = id_to_idx'[j] => i = j
  BY <1>3 DEF Slots
<1>6. Live' = Registered'
  BY <1>2, <1>3
<1>7. Slots'
  BY <1>1, <1>4, <1>5, <1>6 DEF Slots
<1>8. QED
  BY <1>1, <1>2, <1>3, <1>7

\* The slots when nothing of them changes.
LEMMA SlotsKept ==
    ASSUME MuxType, UNCHANGED << queue, id_to_idx, results, scene >>, Registered' = Registered
    PROVE  /\ Slots => Slots'
           /\ Live' = Live /\ (Tainted' <=> Tainted)
           /\ queue' \in Seq(Requests)' /\ id_to_idx' \in [Live' -> Requests']
           /\ results' \in [Requests' -> {"none", "ok", "err", "moved"}]
<1>1. Requests' = Requests /\ Seq(Requests)' = Seq(Requests) /\ Queued' = Queued /\ Live' = Live
  BY RequestsFixed DEF Queued, Live
<1>2. Slots => Slots'
  BY <1>1 DEF Slots
<1>3. QED
  BY <1>1, <1>2 DEF Tainted, MuxType

-----------------------------------------------------------------------------
(* The actions of the batch. *)

LEMMA ConnUntouched ==
    ASSUME ConnInv, UNCHANGED connVars
    PROVE  /\ ConnInv' /\ Registered' = Registered /\ (StreamLedger => StreamLedger')
           /\ (CanOpen' <=> CanOpen) /\ Sendable' = Sendable
<1>1. ConnInv' /\ Registered' = Registered /\ (StreamLedger => StreamLedger')
  BY StreamsKept DEF ConnInv, ConnType, connVars
<1>2. CanOpen' <=> CanOpen
  BY <1>1 DEF CanOpen, AtConcurrencyLimit, connVars
<1>3. Sendable' = Sendable
  BY <1>1 DEF Sendable, NextDataChunk, connVars
<1>4. QED
  BY <1>1, <1>2, <1>3

\* A body has a length.
LEMMA BodyTyped ==
    ASSUME scene \in Scenes, NEW r \in Requests
    PROVE  BodyLen[r] \in Nat
<1>1. BodyLen \in Seq(Nat)
  BY MuxAssumption DEF BodyLen
<1>2. QED
  BY <1>1 DEF Requests

\* The parts of IInv that speak of the places where no dispatch, no read and no end is.
LEMMA QuietPlace ==
    ASSUME pc' \in {"start", "pump", "one", "one_send"},
           scene' = scene, scene \in SplitTrailers \/ Tainted' \/ HeadFree',
           fatal' => Tainted', Lone', Retry'
    PROVE  /\ SlotsFilled' /\ DoneIsEnded' /\ Continuation' /\ Failure' /\ Lone' /\ Retry'
           /\ PumpedBeforeRead' /\ PooledIsClean'
<1>1. ~Dispatched' /\ pc' \notin Over /\ pc' \notin {"read", "one_read", "pooled"}
  BY DEF Dispatched, Over
<1>2. SlotsFilled' /\ DoneIsEnded' /\ Failure' /\ PumpedBeforeRead' /\ PooledIsClean'
  BY <1>1 DEF SlotsFilled, DoneIsEnded, Failure, PumpedBeforeRead, PooledIsClean
<1>3. Continuation'
  BY <1>1 DEF Continuation, HeadFree
<1>4. QED
  BY <1>2, <1>3

\* ... and of the end of a driver, before the connection is let go.
LEMMA DonePlace ==
    ASSUME pc' = "done", scene' = scene, scene \in SplitTrailers \/ Tainted' \/ HeadFree',
           fatal' => Tainted', \A r \in Requests' : results'[r] # "none"
    PROVE  /\ SlotsFilled' /\ DoneIsEnded' /\ Continuation' /\ Failure' /\ Lone' /\ Retry'
           /\ PumpedBeforeRead' /\ PooledIsClean' /\ OneSlotEach'
<1>1. ~Dispatched' /\ pc' \in Over /\ pc' \notin {"read", "one_read", "pooled"}
  BY DEF Dispatched, Over
<1>2. SlotsFilled' /\ DoneIsEnded' /\ Failure' /\ PumpedBeforeRead' /\ PooledIsClean' /\ OneSlotEach'
  BY <1>1 DEF SlotsFilled, DoneIsEnded, Failure, PumpedBeforeRead, PooledIsClean, OneSlotEach
<1>3. Continuation'
  BY <1>1 DEF Continuation, HeadFree
<1>4. Lone' /\ Retry'
  BY <1>1 DEF Lone, Retry
<1>5. QED
  BY <1>2, <1>3, <1>4

\* What IInv says of the header block in progress and of an error.
LEMMA FromContinuation ==
    ASSUME IInv
    PROVE  /\ scene \in SplitTrailers \/ Tainted \/ HeadFree
           /\ ~Dispatched => (fatal => Tainted)
           /\ Dispatched /\ ~IsErr => (fatal => Tainted)
           /\ Dispatched /\ outcome.kind = "done" =>
                 scene \in SplitTrailers \/ Tainted \/ expecting_continuation = 0
  BY DEF IInv, Continuation, HeadFree, Failure

LEMMA StartOneKeeps ==
    ASSUME IInv, StartOne, UNCHANGED scene
    PROVE  IInv'
<1>1. /\ pc = "start" /\ pc' = "start" /\ CanOpen /\ ~retrying /\ ~retrying' /\ pc \notin Over
      /\ ~Dispatched
  BY DEF StartOne, IInv, Retry, Over, MuxType, Dispatched
<1>2. ConnInv /\ MuxType /\ Slots /\ scene \in Scenes /\ (~fatal => StreamLedger)
  BY <1>1, SlotsWhileRunning DEF IInv, ConnInv, ConnType
<1>3. Head(queue) \in Requests
  BY <1>2, HeadOfQueue DEF StartOne, Slots
<1>4. BodyLen[Head(queue)] \in Nat
  BY <1>2, <1>3, BodyTyped
<1>5. /\ ConnInv' /\ (StreamLedger => StreamLedger')
      /\ Registered' = Registered \cup {next_stream_id}
      /\ \A i \in Registered : streams'[i] = streams[i]
  BY <1>1, <1>2, <1>4, RequestWrittenSound DEF StartOne
<1>6. next_stream_id \notin Registered
  BY <1>1, <1>2, NextIdIsNew
<1>7. /\ Slots' /\ Live' = Live \cup {next_stream_id}
      /\ queue' \in Seq(Requests)' /\ id_to_idx' \in [Live' -> Requests']
  BY <1>2, <1>5, <1>6, SlotOpened DEF StartOne
<1>8. MuxType' /\ (Tainted' <=> Tainted)
  BY <1>2, <1>7, RequestsFixed DEF StartOne, MuxType, Tainted
<1>9. HeadFree => HeadFree'
  BY <1>5 DEF HeadFree, StartOne
<1>10. Lone' /\ Retry'
  BY <1>1 DEF Lone, Retry, Over
<1>11. fatal' => Tainted'
  BY <1>1, <1>8, FromContinuation DEF StartOne
<1>12. QED
  <2>1. scene \in SplitTrailers \/ Tainted' \/ HeadFree'
    BY <1>8, <1>9, FromContinuation
  <2>2. /\ SlotsFilled' /\ DoneIsEnded' /\ Continuation' /\ Failure' /\ Lone' /\ Retry'
        /\ PumpedBeforeRead' /\ PooledIsClean'
    BY <1>1, <1>10, <1>11, <2>1, QuietPlace
  <2>3. OneSlotEach'
    BY <1>7, SlotsWhileRunning
  <2>4. ~fatal' => StreamLedger'
    BY <1>2, <1>5 DEF StartOne
  <2>5. QED
    BY <1>5, <1>8, <2>2, <2>3, <2>4 DEF IInv

LEMMA StartWriteFailsKeeps ==
    ASSUME IInv, StartWriteFails, UNCHANGED scene
    PROVE  IInv'
<1>1. /\ pc = "start" /\ pc' = "start" /\ CanOpen /\ ~retrying /\ ~retrying' /\ pc \notin Over
      /\ ~Dispatched
  BY DEF StartWriteFails, IInv, Retry, Over, MuxType, Dispatched
<1>2. ConnInv /\ MuxType /\ Slots /\ (~fatal => StreamLedger)
  BY <1>1, SlotsWhileRunning DEF IInv
<1>3. ConnInv' /\ (StreamLedger => StreamLedger') /\ Registered' = Registered
  BY <1>1, <1>2, IdSpent DEF StartWriteFails
<1>4. /\ Slots' /\ Live' = Live
      /\ queue' \in Seq(Requests)' /\ id_to_idx' \in [Live' -> Requests']
      /\ results' \in [Requests' -> {"none", "ok", "err", "moved"}] /\ Tainted'
  BY <1>2, <1>3, SlotRefused DEF StartWriteFails
<1>5. MuxType'
  BY <1>2, <1>4 DEF StartWriteFails, MuxType
<1>6. Lone' /\ Retry'
  BY <1>1 DEF Lone, Retry, Over
<1>7. /\ SlotsFilled' /\ DoneIsEnded' /\ Continuation' /\ Failure' /\ Lone' /\ Retry'
      /\ PumpedBeforeRead' /\ PooledIsClean'
  BY <1>1, <1>4, <1>6, QuietPlace
<1>8. OneSlotEach' /\ (~fatal' => StreamLedger')
  BY <1>2, <1>3, <1>4, SlotsWhileRunning DEF StartWriteFails
<1>9. QED
  BY <1>3, <1>5, <1>7, <1>8 DEF IInv

LEMMA StartRefusedKeeps ==
    ASSUME IInv, StartRefused, UNCHANGED scene
    PROVE  IInv'
<1>1. pc = "start" /\ pc' = "start" /\ pc \notin Over /\ ~Dispatched
  BY DEF StartRefused, Over, Dispatched
<1>2. ConnInv /\ MuxType /\ Slots /\ (~fatal => StreamLedger)
  BY <1>1, SlotsWhileRunning DEF IInv
<1>3. /\ ConnInv' /\ Registered' = Registered /\ (StreamLedger => StreamLedger')
      /\ (CanOpen' <=> CanOpen)
  BY <1>2, ConnUntouched DEF StartRefused
<1>4. /\ Slots' /\ Live' = Live
      /\ queue' \in Seq(Requests)' /\ id_to_idx' \in [Live' -> Requests']
      /\ results' \in [Requests' -> {"none", "ok", "err", "moved"}] /\ Tainted'
  BY <1>2, <1>3, SlotRefused DEF StartRefused
<1>5. MuxType'
  BY <1>2, <1>4 DEF StartRefused, MuxType
<1>6. Lone' /\ Retry'
  BY <1>1, <1>3, <1>4 DEF Lone, Retry, Over, StartRefused, IInv
<1>7. /\ SlotsFilled' /\ DoneIsEnded' /\ Continuation' /\ Failure' /\ Lone' /\ Retry'
      /\ PumpedBeforeRead' /\ PooledIsClean'
  BY <1>1, <1>4, <1>6, QuietPlace
<1>8. OneSlotEach' /\ (~fatal' => StreamLedger')
  BY <1>2, <1>3, <1>4, SlotsWhileRunning DEF StartRefused
<1>9. QED
  BY <1>3, <1>5, <1>7, <1>8 DEF IInv

\* fail_all_outstanding.
LEMMA AllFailed ==
    ASSUME MuxType, results' = FailAll, scene' = scene
    PROVE  /\ results' \in [Requests' -> {"none", "ok", "err", "moved"}]
           /\ \A r \in Requests' : results'[r] # "none"
           /\ Tainted => Tainted'
           /\ (\E r \in Requests : results[r] = "none") => Tainted'
<1>1. Requests' = Requests
  BY RequestsFixed
<1>2. \A r \in Requests : results'[r] = IF results[r] = "none" THEN "err" ELSE results[r]
  BY DEF FailAll
<1>3. results' \in [Requests' -> {"none", "ok", "err", "moved"}]
  BY <1>1 DEF FailAll, MuxType
<1>4. QED
  BY <1>1, <1>2, <1>3 DEF Tainted

LEMMA StartDoneKeeps ==
    ASSUME IInv, StartDone, UNCHANGED scene
    PROVE  IInv'
<1>1. pc = "start" /\ pc \notin Over /\ ~Dispatched
  BY DEF StartDone, Over, Dispatched
<1>2. ConnInv /\ MuxType /\ Slots /\ (~fatal => StreamLedger) /\ Retry
  BY <1>1, SlotsWhileRunning DEF IInv
<1>3. /\ ConnInv' /\ Registered' = Registered /\ (StreamLedger => StreamLedger')
      /\ (CanOpen' <=> CanOpen)
  BY <1>2, ConnUntouched DEF StartDone
<1>4. HeadFree => HeadFree'
  BY <1>3 DEF HeadFree, StartDone, connVars
<1>5. ~fatal' => StreamLedger'
  BY <1>2, <1>3 DEF StartDone
<1>6. CASE retrying /\ Live = {}
  <2>1. results' = FailAll /\ queue' = << >> /\ pc' = "done"
    BY <1>6 DEF StartDone
  <2>2. /\ results' \in [Requests' -> {"none", "ok", "err", "moved"}]
        /\ \A r \in Requests' : results'[r] # "none"
        /\ Tainted => Tainted'
    BY <1>2, <2>1, AllFailed
  <2>3. MuxType'
    <3>1. queue' \in Seq(Requests)'
      BY <2>1
    <3>2. Live' = Live /\ id_to_idx' \in [Live' -> Requests']
      BY <1>2, RequestsFixed DEF StartDone, Live, MuxType
    <3>3. QED
      BY <1>2, <2>1, <2>2, <3>1, <3>2 DEF StartDone, MuxType, PCs
  <2>4. /\ SlotsFilled' /\ DoneIsEnded' /\ Continuation' /\ Failure' /\ Lone' /\ Retry'
        /\ PumpedBeforeRead' /\ PooledIsClean' /\ OneSlotEach'
    <3>1. fatal' => Tainted'
      BY <1>1, <2>2, FromContinuation DEF StartDone
    <3>2. scene \in SplitTrailers \/ Tainted' \/ HeadFree'
      BY <1>4, <2>2, FromContinuation
    <3>3. QED
      BY <2>1, <2>2, <3>1, <3>2, DonePlace
  <2>5. QED
    BY <1>3, <1>5, <2>3, <2>4 DEF IInv
<1>7. CASE ~(retrying /\ Live = {})
  <2>1. pc' = "pump" /\ UNCHANGED << results, queue, id_to_idx, scene, retrying, fatal >> /\ ~retrying
    BY <1>1, <1>2, <1>7 DEF StartDone, Retry
  <2>2. /\ Slots' /\ Live' = Live /\ (Tainted' <=> Tainted)
        /\ queue' \in Seq(Requests)' /\ id_to_idx' \in [Live' -> Requests']
        /\ results' \in [Requests' -> {"none", "ok", "err", "moved"}]
    BY <1>2, <1>3, <2>1, SlotsKept
  <2>3. MuxType'
    BY <1>2, <2>1, <2>2 DEF MuxType, PCs
  <2>4. Lone' /\ Retry'
    <3>1. queue # << >> => ~CanOpen
      BY DEF StartDone, CanOpen
    <3>2. QED
      BY <1>3, <2>1, <2>2, <3>1 DEF Lone, Retry, Over
  <2>5. /\ SlotsFilled' /\ DoneIsEnded' /\ Continuation' /\ Failure' /\ Lone' /\ Retry'
        /\ PumpedBeforeRead' /\ PooledIsClean'
    <3>1. fatal' => Tainted'
      BY <1>1, <2>1, <2>2, FromContinuation
    <3>2. scene \in SplitTrailers \/ Tainted' \/ HeadFree'
      BY <1>4, <2>2, FromContinuation
    <3>3. QED
      BY <2>1, <2>4, <3>1, <3>2, QuietPlace
  <2>6. OneSlotEach'
    BY <2>2, SlotsWhileRunning
  <2>7. QED
    BY <1>3, <1>5, <2>3, <2>5, <2>6 DEF IInv
<1>8. QED
  BY <1>6, <1>7

\* pump_pending_sends sends on the lowest stream that may send.
LEMMA LowestSendable ==
    ASSUME ConnInv, Sendable # {}
    PROVE  Min(Sendable) \in Sendable
<1>1. Sendable \subseteq 1 .. MaxStreamId - 1 /\ MaxStreamId - 1 \in Int
  <2>1. Sendable \subseteq Registered
    BY DEF Sendable
  <2>2. Registered \subseteq StreamIds
    BY DEF ConnInv, ConnType
  <2>3. StreamIds \subseteq 1 .. MaxStreamId - 1 /\ MaxStreamId - 1 \in Int
    BY ConstantsTyped DEF StreamIds
  <2>4. QED
    BY <2>1, <2>2, <2>3
<1>2. \E x \in Sendable : \A y \in Sendable : x <= y
  BY <1>1, LeastOf
<1>3. QED
  BY <1>2 DEF Min

LEMMA PumpOneKeeps ==
    ASSUME IInv, PumpOne, UNCHANGED scene
    PROVE  IInv'
<1>1. pc = "pump" /\ pc' = "pump" /\ pc \notin Over /\ ~Dispatched
  BY DEF PumpOne, Over, Dispatched, muxVars
<1>2. ConnInv /\ MuxType /\ Slots /\ (~fatal => StreamLedger) /\ Retry
  BY <1>1, SlotsWhileRunning DEF IInv
<1>3. Min(Sendable) \in Sendable
  BY <1>2, LowestSendable DEF PumpOne
<1>4. /\ ConnInv' /\ (StreamLedger => StreamLedger') /\ Registered' = Registered
      /\ \A i \in Registered : streams'[i].head = streams[i].head
  BY <1>2, <1>3, DataWrittenSound DEF PumpOne
<1>5. /\ Slots' /\ Live' = Live /\ (Tainted' <=> Tainted)
      /\ queue' \in Seq(Requests)' /\ id_to_idx' \in [Live' -> Requests']
      /\ results' \in [Requests' -> {"none", "ok", "err", "moved"}]
  BY <1>2, <1>4, SlotsKept DEF PumpOne, muxVars
<1>6. MuxType' /\ (~fatal' => StreamLedger')
  BY <1>2, <1>4, <1>5 DEF PumpOne, muxVars, MuxType
<1>7. Lone' /\ Retry'
  <2>1. Live # {}
    BY <1>2, <1>3 DEF Slots, Sendable
  <2>2. ~retrying'
    BY <1>1, <1>2 DEF Retry, Over, PumpOne, muxVars, MuxType
  <2>3. QED
    BY <1>1, <1>5, <2>1, <2>2 DEF Lone, Retry, Over
<1>8. HeadFree => HeadFree'
  BY <1>4 DEF HeadFree, PumpOne
<1>9. /\ SlotsFilled' /\ DoneIsEnded' /\ Continuation' /\ Failure' /\ Lone' /\ Retry'
      /\ PumpedBeforeRead' /\ PooledIsClean'
  <2>1. fatal' => Tainted'
    BY <1>1, <1>5, FromContinuation DEF PumpOne, muxVars
  <2>2. scene \in SplitTrailers \/ Tainted' \/ HeadFree'
    BY <1>5, <1>8, FromContinuation
  <2>3. QED
    BY <1>1, <1>7, <2>1, <2>2, QuietPlace
<1>10. QED
  BY <1>4, <1>5, <1>6, <1>9, SlotsWhileRunning DEF IInv

LEMMA PumpDoneKeeps ==
    ASSUME IInv, PumpDone, UNCHANGED scene
    PROVE  IInv'
<1>1. pc = "pump" /\ pc \notin Over /\ ~Dispatched
  BY DEF PumpDone, Over, Dispatched
<1>2. ConnInv /\ MuxType /\ Slots /\ (~fatal => StreamLedger) /\ Retry
  BY <1>1, SlotsWhileRunning DEF IInv
<1>3. ~retrying /\ LoopTop
  BY <1>1, <1>2 DEF Retry, Over, PumpDone
<1>4. /\ ConnInv' /\ Registered' = Registered /\ (StreamLedger => StreamLedger')
      /\ (CanOpen' <=> CanOpen) /\ Sendable' = Sendable /\ UNCHANGED connVars
  BY <1>2, ConnUntouched DEF PumpDone
<1>5. /\ Slots' /\ Live' = Live /\ (Tainted' <=> Tainted)
      /\ queue' \in Seq(Requests)' /\ id_to_idx' \in [Live' -> Requests']
      /\ results' \in [Requests' -> {"none", "ok", "err", "moved"}]
  BY <1>2, <1>4, SlotsKept DEF PumpDone
<1>6. ~fatal' => StreamLedger'
  BY <1>2, <1>4 DEF PumpDone
<1>7. /\ pc' \in {"done", "start", "read"} /\ retrying' \in BOOLEAN
      /\ pc' # "start" => ~retrying'
      /\ pc' = "start" => retrying' /\ Live = {} /\ queue # << >>
      /\ pc' = "done" => (\A r \in Requests : results[r] # "none") \/ (Live = {} /\ queue = << >>)
      /\ pc' = "read" => Live # {}
  <2>1. retrying = FALSE
    BY <1>2, <1>3 DEF MuxType
  <2>2. CASE (\A r \in Requests : results[r] # "none") \/ (Live = {} /\ queue = << >>)
    BY <1>3, <2>1, <2>2 DEF LoopTop
  <2>3. CASE ~((\A r \in Requests : results[r] # "none") \/ (Live = {} /\ queue = << >>))
    BY <1>3, <2>1, <2>3 DEF LoopTop
  <2>4. QED
    BY <2>2, <2>3
<1>8. MuxType'
  BY <1>2, <1>5, <1>7 DEF PumpDone, MuxType, PCs
<1>9. (fatal' => Tainted') /\ (scene \in SplitTrailers \/ Tainted' \/ HeadFree')
  <2>1. HeadFree => HeadFree'
    BY <1>4 DEF HeadFree, connVars
  <2>2. QED
    BY <1>1, <1>5, <2>1, FromContinuation DEF PumpDone
<1>10. CASE pc' = "done"
  <2>1. \A r \in Requests : results[r] # "none"
    BY <1>2, <1>7, <1>10 DEF Slots, Queued
  <2>2. \A r \in Requests' : results'[r] # "none"
    BY <2>1, RequestsFixed DEF PumpDone
  <2>3. /\ SlotsFilled' /\ DoneIsEnded' /\ Continuation' /\ Failure' /\ Lone' /\ Retry'
        /\ PumpedBeforeRead' /\ PooledIsClean' /\ OneSlotEach'
    BY <1>9, <1>10, <2>2, DonePlace
  <2>4. QED
    BY <1>4, <1>6, <1>8, <2>3 DEF IInv
<1>11. CASE pc' = "start"
  <2>1. Lone' /\ Retry'
    BY <1>1, <1>2, <1>4, <1>5, <1>7, <1>11 DEF Lone, Retry, Over
  <2>2. /\ SlotsFilled' /\ DoneIsEnded' /\ Continuation' /\ Failure' /\ Lone' /\ Retry'
        /\ PumpedBeforeRead' /\ PooledIsClean'
    BY <1>9, <1>11, <2>1, QuietPlace
  <2>3. QED
    BY <1>4, <1>5, <1>6, <1>8, <2>2, SlotsWhileRunning DEF IInv
<1>12. CASE pc' = "read"
  <2>1. ~Dispatched' /\ pc' \notin Over
    BY <1>12 DEF Dispatched, Over
  <2>2. Lone' /\ Retry'
    BY <1>5, <1>7, <1>12 DEF Lone, Retry
  <2>3. PumpedBeforeRead'
    BY <1>4 DEF PumpedBeforeRead, PumpDone
  <2>4. SlotsFilled' /\ DoneIsEnded' /\ Failure' /\ PooledIsClean'
    BY <1>9, <1>12, <2>1 DEF SlotsFilled, DoneIsEnded, Failure, PooledIsClean
  <2>5. Continuation'
    BY <1>9, <2>1 DEF Continuation, HeadFree
  <2>6. QED
    BY <1>4, <1>5, <1>6, <1>8, <2>2, <2>3, <2>4, <2>5, SlotsWhileRunning DEF IInv
<1>13. QED
  BY <1>7, <1>10, <1>11, <1>12

LEMMA PumpFailsKeeps ==
    ASSUME IInv, PumpFails, UNCHANGED scene
    PROVE  IInv'
<1>1. pc = "pump" /\ pc' = "done" /\ ~Dispatched
  BY DEF PumpFails, Dispatched
<1>2. ConnInv /\ MuxType /\ (~fatal => StreamLedger) /\ ~retrying
  BY <1>1 DEF IInv, Retry, Over
<1>3. ConnInv' /\ Registered' = Registered /\ (StreamLedger => StreamLedger')
  BY <1>2, ConnUntouched DEF PumpFails
<1>4. /\ results' \in [Requests' -> {"none", "ok", "err", "moved"}]
      /\ \A r \in Requests' : results'[r] # "none"
      /\ Tainted => Tainted'
  BY <1>2, AllFailed DEF PumpFails
<1>5. MuxType'
  <2>1. Live' = Live /\ id_to_idx' \in [Live' -> Requests'] /\ queue' \in Seq(Requests)'
    BY <1>2, RequestsFixed DEF PumpFails, Live, MuxType
  <2>2. QED
    BY <1>1, <1>2, <1>4, <2>1 DEF PumpFails, MuxType, PCs
<1>6. /\ SlotsFilled' /\ DoneIsEnded' /\ Continuation' /\ Failure' /\ Lone' /\ Retry'
      /\ PumpedBeforeRead' /\ PooledIsClean' /\ OneSlotEach'
  <2>1. HeadFree => HeadFree'
    BY <1>3 DEF HeadFree, connVars, PumpFails
  <2>2. (fatal' => Tainted') /\ (scene \in SplitTrailers \/ Tainted' \/ HeadFree')
    BY <1>1, <1>4, <2>1, FromContinuation DEF PumpFails
  <2>3. QED
    BY <1>1, <1>4, <2>2, DonePlace
<1>7. QED
  BY <1>2, <1>3, <1>5, <1>6 DEF IInv, PumpFails

LEMMA ReadOneKeeps ==
    ASSUME IInv, ReadOne, UNCHANGED scene
    PROVE  IInv'
<1>1. /\ pc \in {"read", "one_read"} /\ pc \notin Over /\ ~Dispatched
      /\ pc' = (IF pc = "read" THEN "dispatched" ELSE "one_dispatched")
      /\ pc' \notin Over /\ pc' \notin {"read", "one_read", "pooled"}
  BY DEF ReadOne, Over, Dispatched
<1>2. ConnInv /\ MuxType /\ Slots /\ (~fatal => StreamLedger) /\ Retry /\ Lone
  BY <1>1, SlotsWhileRunning DEF IInv
<1>3. Sound
  BY <1>2, ReadSound DEF ReadOne
<1>4. ConnInv' /\ Registered' = Registered /\ outcome' \in Outcome
  BY <1>3 DEF Sound, ConnInv, ConnType
<1>5. /\ Slots' /\ Live' = Live /\ (Tainted' <=> Tainted)
      /\ queue' \in Seq(Requests)' /\ id_to_idx' \in [Live' -> Requests']
      /\ results' \in [Requests' -> {"none", "ok", "err", "moved"}]
  BY <1>2, <1>4, SlotsKept DEF ReadOne
<1>6. fatal' = (fatal \/ outcome'.kind = "io" \/ outcome' = Bad)
  BY DEF ReadOne
<1>7. MuxType'
  BY <1>1, <1>2, <1>5, <1>6 DEF MuxType, PCs, ReadOne
<1>8. ~fatal' => StreamLedger'
  <2>1. Io.kind = "io"
    BY DEF Io
  <2>2. QED
    BY <1>2, <1>3, <1>6, <2>1 DEF Sound
<1>9. DoneIsEnded'
  BY <1>3, <1>4 DEF Sound, DoneIsEnded
<1>10. Continuation'
  <2>1. scene \in SplitTrailers \/ Tainted \/ HeadFree
    BY FromContinuation
  <2>2. HeadFree /\ scene \notin SplitTrailers =>
           HeadFree' /\ (outcome'.kind = "done" => expecting_continuation' = 0)
    BY <1>3 DEF Sound
  <2>3. QED
    BY <1>5, <2>1, <2>2 DEF Continuation, HeadFree
<1>11. Failure'
  <2>1. fatal => Tainted
    BY <1>1, FromContinuation
  <2>2. outcome' = Bad \/ outcome'.kind = "io" => outcome'.kind \in {"bad", "io"}
    BY DEF Bad
  <2>3. pc' \in {"dispatched", "one_dispatched"}
    BY <1>1
  <2>4. QED
    BY <1>5, <1>6, <2>1, <2>2, <2>3 DEF Failure, Dispatched, IsErr
<1>12. Lone' /\ Retry'
  BY <1>1, <1>2, <1>5 DEF Lone, Retry, Over, ReadOne
<1>13. SlotsFilled' /\ PumpedBeforeRead' /\ PooledIsClean'
  BY <1>1 DEF SlotsFilled, PumpedBeforeRead, PooledIsClean
<1>14. QED
  BY <1>4, <1>5, <1>7, <1>8, <1>9, <1>10, <1>11, <1>12, <1>13, SlotsWhileRunning DEF IInv

\* The requests of some live streams fail.
LEMMA LiveFailed ==
    ASSUME MuxType, NEW ids, ids \subseteq Live
    PROVE  /\ FailLive(ids) \in [Requests -> {"none", "ok", "err", "moved"}]
           /\ \A r \in Requests : IF \E i \in ids \cap Live : id_to_idx[i] = r
                                  THEN FailLive(ids)[r] = "err" ELSE FailLive(ids)[r] = results[r]
           /\ ids # {} => \E r \in Requests : FailLive(ids)[r] = "err"
           /\ Tainted => \E r \in Requests : FailLive(ids)[r] \in {"err", "moved"}
<1>1. FailLive(ids) \in [Requests -> {"none", "ok", "err", "moved"}]
  BY DEF FailLive, MuxType
<1>2. \A r \in Requests : IF \E i \in ids \cap Live : id_to_idx[i] = r
                          THEN FailLive(ids)[r] = "err" ELSE FailLive(ids)[r] = results[r]
  BY DEF FailLive
<1>3. ids # {} => \E r \in Requests : FailLive(ids)[r] = "err"
  BY <1>2 DEF MuxType
<1>4. Tainted => \E r \in Requests : FailLive(ids)[r] \in {"err", "moved"}
  BY <1>2 DEF Tainted
<1>5. QED
  BY <1>1, <1>2, <1>3, <1>4

LEMMA CulpritsClosed ==
    ASSUME ConnInv
    PROVE  /\ Culprits \subseteq Live /\ (Cardinality(Culprits) = 1 => Culprits # {})
           /\ \A i \in Culprits \cap Registered : ClosedAtPeer(wire[i], Abandoned(i))
<1>1. Culprits \subseteq Live /\ \A i \in Culprits : streams[i].state = "closed"
  BY DEF Culprits
<1>2. Cardinality(Culprits) = 1 => Culprits # {}
  BY FS_EmptySet
<1>3. QED
  BY <1>1, <1>2 DEF ConnInv, Streams, Link, ClosedAtPeer

LEMMA StreamFailsKeeps ==
    ASSUME IInv, StreamFails, UNCHANGED scene
    PROVE  IInv'
<1>1. pc = "dispatched" /\ pc' = "start" /\ pc \notin Over /\ ~retrying'
  BY DEF StreamFails, Over
<1>2. ConnInv /\ MuxType /\ Slots /\ (~fatal => StreamLedger)
  BY <1>1, SlotsWhileRunning DEF IInv
<1>3. /\ Culprits \subseteq Live /\ Culprits # {}
      /\ \A i \in Culprits \cap Registered : ClosedAtPeer(wire'[i], Abandoned(i))
  BY <1>2, CulpritsClosed DEF StreamFails
<1>4. ConnInv' /\ (StreamLedger => StreamLedger') /\ Registered' = Registered \ Culprits
  BY <1>2, <1>3, StreamsDropped DEF StreamFails
<1>5. /\ results' \in [Requests -> {"none", "ok", "err", "moved"}]
      /\ \A r \in Requests : IF \E i \in Culprits \cap Live : id_to_idx[i] = r
                             THEN results'[r] = "err" ELSE results'[r] = results[r]
      /\ \E r \in Requests : results'[r] = "err"
  BY <1>2, <1>3, LiveFailed DEF StreamFails
<1>6. /\ Slots' /\ Live' = Live \ Culprits
      /\ queue' \in Seq(Requests)' /\ id_to_idx' \in [Live' -> Requests']
  BY <1>2, <1>4, <1>5, SlotsClosed DEF StreamFails
<1>7. MuxType' /\ Tainted'
  BY <1>1, <1>2, <1>5, <1>6, RequestsFixed DEF StreamFails, MuxType, Tainted, PCs
<1>8. Lone' /\ Retry'
  BY <1>1 DEF Lone, Retry
<1>9. /\ SlotsFilled' /\ DoneIsEnded' /\ Continuation' /\ Failure' /\ Lone' /\ Retry'
      /\ PumpedBeforeRead' /\ PooledIsClean'
  BY <1>1, <1>7, <1>8, QuietPlace
<1>10. QED
  BY <1>2, <1>4, <1>6, <1>7, <1>9, SlotsWhileRunning DEF IInv, StreamFails

LEMMA ConnectionFailsKeeps ==
    ASSUME IInv, ConnectionFails, UNCHANGED scene
    PROVE  IInv'
<1>1. pc = "dispatched" /\ pc' = "done" /\ pc \notin Over
  BY DEF ConnectionFails, Over
<1>2. ConnInv /\ MuxType /\ Slots /\ (~fatal => StreamLedger) /\ Live # {}
  BY <1>1, SlotsWhileRunning DEF IInv, Retry
<1>3. ConnInv' /\ Registered' = Registered /\ (StreamLedger => StreamLedger')
  BY <1>2, ConnUntouched DEF ConnectionFails
<1>4. \E r \in Requests : results[r] = "none"
  <2>1. PICK i \in Live : TRUE
    BY <1>2
  <2>2. id_to_idx[i] \in Requests /\ results[id_to_idx[i]] = "none"
    BY <1>2 DEF MuxType, Slots
  <2>3. QED
    BY <2>2
<1>5. /\ results' \in [Requests' -> {"none", "ok", "err", "moved"}]
      /\ \A r \in Requests' : results'[r] # "none"
      /\ Tainted'
  BY <1>2, <1>4, AllFailed DEF ConnectionFails
<1>6. MuxType'
  <2>1. Live' = Live /\ id_to_idx' \in [Live' -> Requests'] /\ queue' \in Seq(Requests)'
    BY <1>2, RequestsFixed DEF ConnectionFails, Live, MuxType
  <2>2. QED
    BY <1>1, <1>2, <1>5, <2>1 DEF ConnectionFails, MuxType, PCs
<1>7. /\ SlotsFilled' /\ DoneIsEnded' /\ Continuation' /\ Failure' /\ Lone' /\ Retry'
      /\ PumpedBeforeRead' /\ PooledIsClean' /\ OneSlotEach'
  BY <1>1, <1>5, DonePlace
<1>8. QED
  BY <1>2, <1>3, <1>6, <1>7 DEF IInv, ConnectionFails

\* fail_goaway_doomed gives up only what the peer has disowned.
LEMMA DoomedDisowned ==
    ASSUME ConnInv, Slots
    PROVE  /\ Doomed \subseteq Live
           /\ \A i \in Doomed : Abandoned(i) /\ i < next_stream_id
           /\ Doomed # {} => ~CanOpen
<1>1. Doomed \subseteq Live /\ \A i \in Doomed : Abandoned(i)
  BY DEF Doomed, Abandoned
<1>2. \A i \in Doomed : i < next_stream_id /\ i \in Int
  BY <1>1 DEF ConnInv, Streams, Slots, ConnType, StreamIds
<1>3. next_stream_id \in Int /\ (goaway_received # NoGoaway => goaway_received \in Int)
  BY DEF ConnInv, ConnType
<1>4. Doomed # {} => ~CanOpen
  BY <1>1, <1>2, <1>3 DEF Abandoned, CanOpen
<1>5. QED
  BY <1>1, <1>2, <1>4

LEMMA ProceedKeeps ==
    ASSUME IInv, Proceed, UNCHANGED scene
    PROVE  IInv'
<1>1. pc = "dispatched" /\ pc' = "pump" /\ pc \notin Over /\ ~retrying' /\ Dispatched /\ ~IsErr
  BY DEF Proceed, Over, Dispatched
<1>2. ConnInv /\ MuxType /\ Slots /\ (~fatal => StreamLedger) /\ Live # {}
  BY <1>1, SlotsWhileRunning DEF IInv, Retry
<1>3. Doomed \subseteq Live /\ (\A i \in Doomed : Abandoned(i)) /\ (Doomed # {} => ~CanOpen)
  BY <1>2, DoomedDisowned
<1>4. \A i \in Doomed \cap Registered : ClosedAtPeer(wire'[i], Abandoned(i))
  BY <1>3 DEF ClosedAtPeer
<1>5. /\ ConnInv' /\ (StreamLedger => StreamLedger') /\ Registered' = Registered \ Doomed
      /\ \A i \in Registered' : streams'[i] = streams[i]
  BY <1>2, <1>4, StreamsDropped DEF Proceed
<1>6. /\ results' \in [Requests -> {"none", "ok", "err", "moved"}]
      /\ \A r \in Requests : IF \E i \in Doomed \cap Live : id_to_idx[i] = r
                             THEN results'[r] = "err" ELSE results'[r] = results[r]
      /\ Doomed # {} => \E r \in Requests : results'[r] = "err"
      /\ Tainted => \E r \in Requests : results'[r] \in {"err", "moved"}
  BY <1>2, <1>3, LiveFailed DEF Proceed
<1>7. /\ Slots' /\ Live' = Live \ Doomed
      /\ queue' \in Seq(Requests)' /\ id_to_idx' \in [Live' -> Requests']
  BY <1>2, <1>5, <1>6, SlotsClosed DEF Proceed
<1>8. Requests' = Requests
  BY RequestsFixed
<1>9. MuxType' /\ (Tainted => Tainted') /\ (Doomed # {} => Tainted')
  BY <1>1, <1>2, <1>6, <1>7, <1>8 DEF Proceed, MuxType, Tainted, PCs
<1>10. Live' = {} => ~CanOpen'
  <2> SUFFICES ASSUME Live' = {} PROVE ~CanOpen'
    OBVIOUS
  <2>1. PICK i \in Live : i \in Doomed
    BY <1>2, <1>7
  <2>2. Abandoned(i) /\ i < next_stream_id /\ i \in Int
    BY <1>2, <2>1, DoomedDisowned DEF Slots, ConnInv, ConnType, StreamIds
  <2>3. goaway_received' = goaway_received /\ next_stream_id' = next_stream_id
    BY DEF Proceed
  <2>4. next_stream_id \in Int /\ goaway_received \in Nat \cup {NoGoaway}
    BY <1>2 DEF ConnInv, ConnType
  <2>5. goaway_received # NoGoaway /\ goaway_received \in Int /\ ~(next_stream_id <= goaway_received)
    BY <2>2, <2>4 DEF Abandoned
  <2>6. QED
    BY <2>3, <2>5 DEF CanOpen
<1>11. Lone' /\ Retry'
  BY <1>1, <1>10 DEF Lone, Retry
<1>12. scene \in SplitTrailers \/ Tainted' \/ HeadFree'
  <2>1. CASE Doomed # {}
    BY <1>9, <2>1
  <2>2. CASE Doomed = {}
    <3>1. Registered' = Registered /\ \A i \in Registered : streams'[i] = streams[i]
      BY <1>5, <2>2
    <3>2. HeadFree => HeadFree'
      BY <3>1 DEF HeadFree, Proceed
    <3>3. QED
      BY <1>9, <3>2, FromContinuation
  <2>3. QED
    BY <2>1, <2>2
<1>13. fatal' => Tainted'
  BY <1>1, <1>9, FromContinuation DEF Proceed
<1>14. /\ SlotsFilled' /\ DoneIsEnded' /\ Continuation' /\ Failure' /\ Lone' /\ Retry'
       /\ PumpedBeforeRead' /\ PooledIsClean'
  BY <1>1, <1>11, <1>12, <1>13, QuietPlace
<1>15. QED
  BY <1>2, <1>5, <1>7, <1>9, <1>14, SlotsWhileRunning DEF IInv, Proceed

\* The single request's reset is one that went out.
LEMMA OneResets ==
    ASSUME NEW id, wire' = [wire EXCEPT ![id].rst = TRUE]
    PROVE  CalledOff(id)
<1>1. wire' = [wire EXCEPT ![id] = [wire[id] EXCEPT !.rst = TRUE]]
  OBVIOUS
<1>2. QED
  BY <1>1 DEF CalledOff, ResetTried

\* A stream whose response has ended is over once the rest of its body is called off.
LEMMA EndedIsClosed ==
    ASSUME ConnInv, NEW id \in Registered, streams[id].ended,
           IF streams[id].pending > 0 THEN CalledOff(id) ELSE wire' = wire
    PROVE  /\ ClosedAtPeer(wire'[id], Abandoned(id))
           /\ \A i \in StreamIds : i # id => wire'[i] = wire[i]
           /\ wire' = wire \/ CalledOff(id)
<1>1. /\ id \in StreamIds /\ wire \in [StreamIds \cup {0} -> Wire] /\ wire[id] \in Wire
      /\ streams[id] \in Stream /\ Link(streams[id], wire[id], Abandoned(id))
  BY DEF ConnInv, ConnType, Streams
<1>2. CASE streams[id].pending > 0
  <2>1. PICK w \in ResetTried(wire[id]) : wire' = [wire EXCEPT ![id] = w]
    BY <1>2 DEF CalledOff
  <2>2. w.rst \/ w.lost
    BY <1>1, TriedGrows
  <2>3. wire'[id] = w /\ \A i \in StreamIds : i # id => wire'[i] = wire[i]
    BY <1>1, <2>1
  <2>4. QED
    BY <1>2, <2>2, <2>3 DEF ClosedAtPeer
<1>3. CASE ~(streams[id].pending > 0)
  <2>1. wire' = wire /\ streams[id].pending = 0
    BY <1>1, <1>3 DEF Stream
  <2>2. QED
    BY <1>1, <2>1 DEF Link, ClosedAtPeer
<1>4. QED
  BY <1>2, <1>3

LEMMA CompleteKeeps ==
    ASSUME IInv, Complete, UNCHANGED scene
    PROVE  IInv'
<1> DEFINE id == outcome.id
           ids == Doomed \cup {id}
<1>1. /\ pc = "dispatched" /\ pc' = "start" /\ pc \notin Over /\ ~retrying' /\ Dispatched
      /\ outcome.kind = "done" /\ id \in Live \ Doomed /\ ~IsErr
  BY DEF Complete, Over, Dispatched, IsErr
<1>2. ConnInv /\ MuxType /\ Slots /\ (~fatal => StreamLedger) /\ Live # {}
  BY <1>1, SlotsWhileRunning DEF IInv, Retry
<1>3. id \in Registered /\ streams[id].ended
  BY <1>1 DEF IInv, DoneIsEnded
<1>4. Doomed \subseteq Live /\ \A i \in Doomed : Abandoned(i)
  BY <1>2, DoomedDisowned
<1>5. /\ streams' = Without(ids) /\ id_to_idx' = Unmap(ids)
      /\ IF streams[id].pending > 0 THEN CalledOff(id) ELSE wire' = wire
      /\ \E built \in Built : results' = [FailLive(Doomed) EXCEPT ![id_to_idx[id]] = built]
      /\ UNCHANGED << peer, conn_send_window, conn_recv_window, next_stream_id,
                      goaway_received, expecting_continuation, outcome, queue, fatal >>
      /\ retrying' = FALSE
  BY DEF Complete, CalledOff
<1> HIDE DEF id
<1>6. /\ ClosedAtPeer(wire'[id], Abandoned(id))
      /\ wire' = wire \/ CalledOff(id)
  BY <1>2, <1>3, <1>5, EndedIsClosed
<1>7. \A i \in ids \cap Registered : ClosedAtPeer(wire'[i], Abandoned(i))
  BY <1>4, <1>6 DEF ClosedAtPeer
<1>8. ConnInv' /\ (StreamLedger => StreamLedger') /\ Registered' = Registered \ ids
  <2>1. wire' = wire \/ \E j \in ids \cap Registered : CalledOff(j)
    BY <1>3, <1>6
  <2> HIDE DEF ids
  <2>2. QED
    BY <1>2, <1>5, <1>7, <2>1, StreamsDropped
<1>9. /\ FailLive(Doomed) \in [Requests -> {"none", "ok", "err", "moved"}]
      /\ \A r \in Requests : IF \E i \in Doomed \cap Live : id_to_idx[i] = r
                             THEN FailLive(Doomed)[r] = "err" ELSE FailLive(Doomed)[r] = results[r]
      /\ Tainted => \E r \in Requests : FailLive(Doomed)[r] \in {"err", "moved"}
  BY <1>2, <1>4, LiveFailed
<1>10. /\ id_to_idx[id] \in Requests /\ results[id_to_idx[id]] = "none"
       /\ \A i \in Live : id_to_idx[i] = id_to_idx[id] => i = id
  BY <1>1, <1>2 DEF MuxType, Slots
<1>11. PICK built \in {"ok", "err"} : results' = [FailLive(Doomed) EXCEPT ![id_to_idx[id]] = built]
  BY <1>5 DEF Built
<1>12. /\ results' \in [Requests -> {"none", "ok", "err", "moved"}]
       /\ results'[id_to_idx[id]] = built
       /\ \A r \in Requests : r # id_to_idx[id] => results'[r] = FailLive(Doomed)[r]
  BY <1>9, <1>10, <1>11
<1>13. \A r \in Requests : IF \E i \in ids \cap Live : id_to_idx[i] = r
                           THEN results'[r] # "none" ELSE results'[r] = results[r]
  BY <1>1, <1>9, <1>12
<1>14. /\ Slots' /\ Live' = Live \ ids
       /\ queue' \in Seq(Requests)' /\ id_to_idx' \in [Live' -> Requests']
  <2> HIDE DEF ids
  <2>1. QED
    BY <1>2, <1>5, <1>8, <1>13, SlotsClosed
<1>15. MuxType' /\ (Tainted => Tainted')
  <2>1. Requests' = Requests
    BY RequestsFixed
  <2>2. MuxType'
    BY <1>1, <1>2, <1>5, <1>12, <1>14, <2>1 DEF MuxType, PCs
  <2>3. ASSUME Tainted PROVE Tainted'
    <3>1. PICK r \in Requests : results[r] \in {"err", "moved"}
      BY <2>3 DEF Tainted
    <3>2. r # id_to_idx[id]
      BY <1>10, <3>1
    <3>3. results'[r] \in {"err", "moved"}
      BY <1>9, <1>12, <3>1, <3>2
    <3>4. QED
      BY <2>1, <3>3 DEF Tainted
  <2>4. QED
    BY <2>2, <2>3
<1>16. Lone' /\ Retry'
  BY <1>1 DEF Lone, Retry
<1>17. (fatal' => Tainted') /\ (scene \in SplitTrailers \/ Tainted' \/ HeadFree')
  <2>1. expecting_continuation = 0 => HeadFree'
    <3>1. expecting_continuation' = expecting_continuation
      BY <1>5
    <3>2. QED
      BY <3>1, Zenon DEF HeadFree
  <2>2. QED
    BY <1>1, <1>5, <1>15, <2>1, FromContinuation
<1>18. /\ SlotsFilled' /\ DoneIsEnded' /\ Continuation' /\ Failure' /\ Lone' /\ Retry'
       /\ PumpedBeforeRead' /\ PooledIsClean'
  BY <1>1, <1>16, <1>17, QuietPlace
<1>19. QED
  BY <1>2, <1>5, <1>8, <1>14, <1>15, <1>18, SlotsWhileRunning DEF IInv

-----------------------------------------------------------------------------
(* The actions of the single request. *)

LEMMA OneOpensKeeps ==
    ASSUME IInv, OneOpens, UNCHANGED scene
    PROVE  IInv'
<1>1. /\ pc = "one" /\ pc' = "one_send" /\ CanOpen /\ pc \notin Over /\ ~Dispatched
      /\ ~retrying /\ ~retrying' /\ Live = {}
  BY DEF OneOpens, IInv, Retry, Lone, Over, MuxType, Dispatched
<1>2. ConnInv /\ MuxType /\ Slots /\ scene \in Scenes /\ (~fatal => StreamLedger)
  BY <1>1, SlotsWhileRunning DEF IInv, ConnInv, ConnType
<1>3. Head(queue) \in Requests
  BY <1>2, HeadOfQueue DEF OneOpens, Slots
<1>4. BodyLen[Head(queue)] \in Nat
  BY <1>2, <1>3, BodyTyped
<1>5. /\ ConnInv' /\ (StreamLedger => StreamLedger')
      /\ Registered' = Registered \cup {next_stream_id}
      /\ \A i \in Registered : streams'[i] = streams[i]
  BY <1>1, <1>2, <1>4, RequestWrittenSound DEF OneOpens
<1>6. next_stream_id \notin Registered
  BY <1>1, <1>2, NextIdIsNew
<1>7. id_to_idx' = [i \in Live \cup {next_stream_id} |->
                       IF i = next_stream_id THEN Head(queue) ELSE id_to_idx[i]]
  BY <1>1 DEF OneOpens
<1>8. /\ Slots' /\ Live' = Live \cup {next_stream_id}
      /\ queue' \in Seq(Requests)' /\ id_to_idx' \in [Live' -> Requests']
  BY <1>2, <1>5, <1>6, <1>7, SlotOpened DEF OneOpens
<1>9. MuxType' /\ (Tainted' <=> Tainted)
  BY <1>1, <1>2, <1>8, RequestsFixed DEF OneOpens, MuxType, Tainted, PCs
<1>10. Lone' /\ Retry'
  <2>1. Live' = {next_stream_id}
    BY <1>1, <1>8
  <2>2. QED
    BY <1>1, <2>1 DEF Lone, Retry
<1>11. (fatal' => Tainted') /\ (scene \in SplitTrailers \/ Tainted' \/ HeadFree')
  <2>1. HeadFree => HeadFree'
    BY <1>5 DEF HeadFree, OneOpens
  <2>2. QED
    BY <1>1, <1>9, <2>1, FromContinuation DEF OneOpens
<1>12. /\ SlotsFilled' /\ DoneIsEnded' /\ Continuation' /\ Failure' /\ Lone' /\ Retry'
       /\ PumpedBeforeRead' /\ PooledIsClean'
  BY <1>1, <1>10, <1>11, QuietPlace
<1>13. QED
  BY <1>2, <1>5, <1>8, <1>9, <1>12, SlotsWhileRunning DEF IInv, OneOpens

\* The request is given up and the connection with it.
LEMMA OneLeavesKeeps ==
    ASSUME IInv, NEW r \in Requests, OneLeaves({r}),
           UNCHANGED << connVars, id_to_idx, retrying, fatal >>
    PROVE  IInv'
<1>1. ConnInv /\ MuxType /\ (~fatal => StreamLedger) /\ scene' = scene
  BY DEF IInv, connVars
<1>2. ConnInv' /\ Registered' = Registered /\ (StreamLedger => StreamLedger')
  BY <1>1, ConnUntouched
<1>3. Requests' = Requests
  BY <1>1, RequestsFixed
<1>4. /\ results' \in [Requests' -> {"none", "ok", "err", "moved"}]
      /\ results'[r] = "err" /\ \A q \in Requests' : results'[q] # "none"
  BY <1>1, <1>3 DEF OneLeaves, MuxType
<1>5. pc' = "done" /\ queue' = << >> /\ Tainted'
  BY <1>3, <1>4 DEF OneLeaves, Tainted
<1>6. MuxType'
  <2>1. queue' \in Seq(Requests)'
    BY <1>5
  <2>2. Live' = Live /\ id_to_idx' \in [Live' -> Requests']
    BY <1>1, <1>3 DEF Live, MuxType
  <2>3. QED
    BY <1>1, <1>4, <1>5, <2>1, <2>2 DEF MuxType, PCs
<1>7. /\ SlotsFilled' /\ DoneIsEnded' /\ Continuation' /\ Failure' /\ Lone' /\ Retry'
      /\ PumpedBeforeRead' /\ PooledIsClean' /\ OneSlotEach'
  BY <1>1, <1>4, <1>5, DonePlace
<1>8. QED
  BY <1>1, <1>2, <1>6, <1>7 DEF IInv

\* The stream in progress.
LEMMA OneIsLive ==
    ASSUME IInv, pc \in {"one_send", "one_read", "one_dispatched"}
    PROVE  /\ Live = {OneId} /\ Registered = {OneId} /\ Slots
           /\ id_to_idx[OneId] \in Requests /\ results[id_to_idx[OneId]] = "none"
           /\ ~retrying
<1>1. PICK i \in Live : Live = {i}
  BY DEF IInv, Lone
<1>2. OneId = i
  BY <1>1 DEF OneId
<1>3. Slots /\ MuxType /\ ~retrying
  BY SlotsWhileRunning DEF IInv, Over, Retry
<1>4. QED
  BY <1>1, <1>2, <1>3 DEF Slots, MuxType

LEMMA OneRefusedKeeps ==
    ASSUME IInv, OneRefused, UNCHANGED scene
    PROVE  IInv'
<1>1. Head(queue) \in Requests
  BY DEF IInv, MuxType, OneRefused
<1>2. QED
  BY <1>1, OneLeavesKeeps DEF OneRefused

LEMMA OneEndsKeeps ==
    ASSUME IInv, OneEnds, UNCHANGED scene
    PROVE  IInv'
<1>1. pc = "one" /\ pc' = "done" /\ pc \notin Over /\ ~Dispatched /\ Live = {} /\ queue = << >>
  BY DEF OneEnds, Over, Dispatched, IInv, Lone
<1>2. ConnInv /\ MuxType /\ Slots /\ (~fatal => StreamLedger)
  BY <1>1, SlotsWhileRunning DEF IInv
<1>3. ConnInv' /\ Registered' = Registered /\ (StreamLedger => StreamLedger')
  BY <1>2, ConnUntouched DEF OneEnds
<1>4. /\ Slots' /\ Live' = Live /\ (Tainted' <=> Tainted)
      /\ queue' \in Seq(Requests)' /\ id_to_idx' \in [Live' -> Requests']
      /\ results' \in [Requests' -> {"none", "ok", "err", "moved"}]
  BY <1>2, <1>3, SlotsKept DEF OneEnds
<1>5. MuxType'
  BY <1>1, <1>2, <1>4 DEF MuxType, PCs, OneEnds
<1>6. \A r \in Requests : results[r] # "none"
  BY <1>1, <1>2 DEF Slots, Queued
<1>7. \A r \in Requests' : results'[r] # "none"
  BY <1>6, RequestsFixed DEF OneEnds
<1>8. (fatal' => Tainted') /\ (scene \in SplitTrailers \/ Tainted' \/ HeadFree')
  <2>1. HeadFree => HeadFree'
    BY <1>3 DEF HeadFree, connVars, OneEnds
  <2>2. QED
    BY <1>1, <1>4, <2>1, FromContinuation DEF OneEnds
<1>9. /\ SlotsFilled' /\ DoneIsEnded' /\ Continuation' /\ Failure' /\ Lone' /\ Retry'
      /\ PumpedBeforeRead' /\ PooledIsClean' /\ OneSlotEach'
  BY <1>1, <1>7, <1>8, DonePlace
<1>10. QED
  BY <1>2, <1>3, <1>5, <1>9 DEF IInv, OneEnds

LEMMA OneSendsKeeps ==
    ASSUME IInv, OneSends, UNCHANGED scene
    PROVE  IInv'
<1>1. pc = "one_send" /\ pc' = "one_send" /\ pc \notin Over /\ ~Dispatched /\ OneId \in Sendable
  BY DEF OneSends, Over, Dispatched, muxVars
<1>2. ConnInv /\ MuxType /\ Slots /\ (~fatal => StreamLedger) /\ ~retrying /\ Live = {OneId}
  BY <1>1, OneIsLive DEF IInv
<1>3. /\ ConnInv' /\ (StreamLedger => StreamLedger') /\ Registered' = Registered
      /\ \A i \in Registered : streams'[i].head = streams[i].head
  BY <1>1, <1>2, DataWrittenSound DEF OneSends
<1>4. /\ Slots' /\ Live' = Live /\ (Tainted' <=> Tainted)
      /\ queue' \in Seq(Requests)' /\ id_to_idx' \in [Live' -> Requests']
      /\ results' \in [Requests' -> {"none", "ok", "err", "moved"}]
  BY <1>2, <1>3, SlotsKept DEF OneSends, muxVars
<1>5. MuxType' /\ (~fatal' => StreamLedger')
  BY <1>2, <1>3, <1>4 DEF OneSends, muxVars, MuxType
<1>6. Lone' /\ Retry'
  BY <1>1, <1>2, <1>4 DEF Lone, Retry, OneSends, muxVars
<1>7. (fatal' => Tainted') /\ (scene \in SplitTrailers \/ Tainted' \/ HeadFree')
  <2>1. HeadFree => HeadFree'
    BY <1>3 DEF HeadFree, OneSends
  <2>2. QED
    BY <1>1, <1>4, <2>1, FromContinuation DEF OneSends, muxVars
<1>8. /\ SlotsFilled' /\ DoneIsEnded' /\ Continuation' /\ Failure' /\ Lone' /\ Retry'
      /\ PumpedBeforeRead' /\ PooledIsClean'
  BY <1>1, <1>6, <1>7, QuietPlace
<1>9. QED
  BY <1>3, <1>4, <1>5, <1>8, SlotsWhileRunning DEF IInv

LEMMA OneWriteFailsKeeps ==
    ASSUME IInv, OneWriteFails, UNCHANGED scene
    PROVE  IInv'
<1>1. id_to_idx[OneId] \in Requests
  BY OneIsLive DEF OneWriteFails
<1>2. QED
  BY <1>1, OneLeavesKeeps DEF OneWriteFails

LEMMA OneFailsKeeps ==
    ASSUME IInv, OneFails, UNCHANGED scene
    PROVE  IInv'
<1>1. id_to_idx[OneId] \in Requests
  BY OneIsLive DEF OneFails
<1>2. QED
  BY <1>1, OneLeavesKeeps DEF OneFails

\* Only the place changes: the parts that hold wherever the request is.
LEMMA OneMoves ==
    ASSUME IInv, pc \in {"one_send", "one_dispatched"}, pc' \in {"one_send", "one_read"},
           UNCHANGED << connVars, queue, id_to_idx, results, retrying, fatal >>,
           fatal => Tainted, pc' = "one_read" => Sendable = {}
    PROVE  IInv'
<1>1. ConnInv /\ MuxType /\ Slots /\ (~fatal => StreamLedger) /\ ~retrying /\ Live = {OneId}
      /\ scene' = scene
  BY OneIsLive DEF IInv, connVars
<1>2. ConnInv' /\ Registered' = Registered /\ (StreamLedger => StreamLedger') /\ Sendable' = Sendable
  BY <1>1, ConnUntouched
<1>3. /\ Slots' /\ Live' = Live /\ (Tainted' <=> Tainted)
      /\ queue' \in Seq(Requests)' /\ id_to_idx' \in [Live' -> Requests']
      /\ results' \in [Requests' -> {"none", "ok", "err", "moved"}]
  BY <1>1, <1>2, SlotsKept
<1>4. MuxType'
  BY <1>1, <1>3 DEF MuxType, PCs
<1>5. ~Dispatched' /\ pc' \notin Over
  BY DEF Dispatched, Over
<1>6. Lone' /\ Retry'
  BY <1>1, <1>3 DEF Lone, Retry
<1>7. SlotsFilled' /\ DoneIsEnded' /\ Failure' /\ PumpedBeforeRead' /\ PooledIsClean'
  BY <1>2, <1>3, <1>5 DEF SlotsFilled, DoneIsEnded, Failure, PumpedBeforeRead, PooledIsClean
<1>8. Continuation'
  <2>1. HeadFree => HeadFree'
    BY <1>2 DEF HeadFree, connVars
  <2>2. QED
    BY <1>1, <1>3, <1>5, <2>1, FromContinuation DEF Continuation, HeadFree
<1>9. QED
  BY <1>1, <1>2, <1>3, <1>4, <1>6, <1>7, <1>8, SlotsWhileRunning DEF IInv

LEMMA OneWaitsKeeps ==
    ASSUME IInv, OneWaits, UNCHANGED scene
    PROVE  IInv'
<1>1. /\ pc = "one_send" /\ Registered = {OneId} /\ id_to_idx[OneId] \in Requests /\ ~Dispatched
  BY OneIsLive DEF OneWaits, Dispatched
<1>2. CASE Abandoned(OneId)
  BY <1>1, <1>2, OneLeavesKeeps DEF OneWaits
<1>3. CASE ~Abandoned(OneId)
  <2>1. Sendable = {}
    BY <1>1 DEF Sendable, OneWaits
  <2>2. fatal => Tainted
    BY <1>1, FromContinuation
  <2>3. QED
    BY <1>1, <1>3, <2>1, <2>2, OneMoves DEF OneWaits
<1>4. QED
  BY <1>2, <1>3

LEMMA OneContinuesKeeps ==
    ASSUME IInv, OneContinues, UNCHANGED scene
    PROVE  IInv'
<1>1. pc = "one_dispatched" /\ pc' = "one_send" /\ Dispatched /\ ~IsErr
  BY DEF OneContinues, Dispatched, IsErr
<1>2. fatal => Tainted
  BY <1>1, FromContinuation
<1>3. QED
  BY <1>1, <1>2, OneMoves DEF OneContinues

LEMMA OneCompletesKeeps ==
    ASSUME IInv, OneCompletes, UNCHANGED scene
    PROVE  IInv'
<1> DEFINE id == OneId
           ids == {i \in Registered : i = OneId \/ streams[i].state = "closed" \/ ResponseComplete(streams[i])}
           req == id_to_idx[id]
<1>1. /\ pc = "one_dispatched" /\ pc \notin Over /\ Dispatched /\ outcome.kind = "done" /\ ~IsErr
  BY DEF OneCompletes, Over, Dispatched, IsErr
<1>2. /\ ConnInv /\ MuxType /\ Slots /\ (~fatal => StreamLedger) /\ ~retrying
      /\ Live = {id} /\ Registered = {id} /\ req \in Requests /\ results[req] = "none"
  BY <1>1, OneIsLive DEF IInv
<1>3. ids = {id} /\ id \in Registered
  BY <1>2
<1>4. outcome.id = id /\ streams[id].ended
  BY <1>1, <1>2 DEF IInv, DoneIsEnded
<1>5. /\ streams' = Without({id}) /\ id_to_idx' = Unmap({id})
      /\ wire' = IF streams[id].pending > 0 THEN [wire EXCEPT ![id].rst = TRUE] ELSE wire
      /\ UNCHANGED << peer, conn_send_window, conn_recv_window, next_stream_id, goaway_received,
                      expecting_continuation, outcome, retrying, fatal >>
  BY <1>3 DEF OneCompletes
<1>6. \E built \in Built, moves \in BOOLEAN :
         /\ results' = [r \in Requests |-> IF r = req THEN built
                                           ELSE IF moves /\ results[r] = "none" THEN "moved" ELSE results[r]]
         /\ queue' = IF moves THEN << >> ELSE queue
         /\ pc' = IF moves THEN "done" ELSE "one"
  BY DEF OneCompletes
<1> HIDE DEF id, ids, req
<1>7. PICK built \in {"ok", "err"}, moves \in BOOLEAN :
         /\ results' = [r \in Requests |-> IF r = req THEN built
                                           ELSE IF moves /\ results[r] = "none" THEN "moved" ELSE results[r]]
         /\ queue' = IF moves THEN << >> ELSE queue
         /\ pc' = IF moves THEN "done" ELSE "one"
  BY <1>6 DEF Built
<1>a. IF streams[id].pending > 0 THEN CalledOff(id) ELSE wire' = wire
  BY <1>5, OneResets
<1>8. /\ ClosedAtPeer(wire'[id], Abandoned(id))
      /\ wire' = wire \/ CalledOff(id)
  BY <1>2, <1>3, <1>4, <1>a, EndedIsClosed
<1>9. ConnInv' /\ (StreamLedger => StreamLedger') /\ Registered' = Registered \ {id}
  <2>1. wire' = wire \/ \E j \in {id} \cap Registered : CalledOff(j)
    BY <1>3, <1>8
  <2>2. \A i \in {id} \cap Registered : ClosedAtPeer(wire'[i], Abandoned(i))
    BY <1>8
  <2>3. QED
    BY <1>2, <1>5, <2>1, <2>2, StreamsDropped
<1>10. Requests' = Requests
  BY RequestsFixed
<1>11. /\ results' \in [Requests' -> {"none", "ok", "err", "moved"}]
       /\ results'[req] = built
       /\ \A r \in Requests : r # req =>
             results'[r] = IF moves /\ results[r] = "none" THEN "moved" ELSE results[r]
  BY <1>2, <1>7, <1>10 DEF MuxType
<1>12. Tainted => Tainted'
  <2> SUFFICES ASSUME Tainted PROVE Tainted'
    OBVIOUS
  <2>1. PICK r \in Requests : results[r] \in {"err", "moved"}
    BY DEF Tainted
  <2>2. r # req
    BY <1>2, <2>1
  <2>3. results'[r] \in {"err", "moved"}
    BY <1>11, <2>1, <2>2
  <2>4. QED
    BY <1>10, <2>3 DEF Tainted
<1>13. (fatal' => Tainted') /\ (scene \in SplitTrailers \/ Tainted' \/ HeadFree')
  <2>1. expecting_continuation = 0 => HeadFree'
    <3>1. expecting_continuation' = expecting_continuation
      BY <1>5
    <3>2. QED
      BY <3>1, Zenon DEF HeadFree
  <2>2. QED
    BY <1>1, <1>5, <1>12, <2>1, FromContinuation
<1>14. Live' = {} /\ id_to_idx' \in [Live' -> Requests']
  <2>1. Live' = Live \ {id}
    BY <1>5 DEF Unmap, Live
  <2>2. Live' = {}
    BY <1>2, <2>1
  <2>3. id_to_idx' \in [Live' -> Requests']
    BY <1>2, <1>5, <1>10, <2>1 DEF Unmap, MuxType
  <2>4. QED
    BY <2>2, <2>3
<1>15. CASE moves
  <2>1. pc' = "done" /\ queue' = << >>
    BY <1>7, <1>15
  <2>2. \A r \in Requests' : results'[r] # "none"
    BY <1>10, <1>11, <1>15
  <2>3. MuxType'
    <3>1. queue' \in Seq(Requests)'
      BY <2>1
    <3>2. QED
      BY <1>2, <1>5, <1>11, <1>14, <2>1, <3>1 DEF MuxType, PCs
  <2>4. /\ SlotsFilled' /\ DoneIsEnded' /\ Continuation' /\ Failure' /\ Lone' /\ Retry'
        /\ PumpedBeforeRead' /\ PooledIsClean' /\ OneSlotEach'
    BY <1>13, <2>1, <2>2, DonePlace
  <2>5. QED
    BY <1>2, <1>5, <1>9, <2>3, <2>4 DEF IInv
<1>16. CASE ~moves
  <2>1. pc' = "one" /\ queue' = queue
    BY <1>7, <1>16
  <2>2. \A r \in Requests : IF \E i \in {id} \cap Live : id_to_idx[i] = r
                            THEN results'[r] # "none" ELSE results'[r] = results[r]
    BY <1>2, <1>11, <1>16 DEF req
  <2>3. Slots' /\ queue' \in Seq(Requests)'
    BY <1>2, <1>5, <1>9, <2>1, <2>2, SlotsClosed
  <2>4. MuxType'
    BY <1>2, <1>5, <1>11, <1>14, <2>1, <2>3 DEF MuxType, PCs
  <2>5. Lone' /\ Retry'
    BY <1>2, <1>5, <1>14, <2>1 DEF Lone, Retry
  <2>6. /\ SlotsFilled' /\ DoneIsEnded' /\ Continuation' /\ Failure' /\ Lone' /\ Retry'
        /\ PumpedBeforeRead' /\ PooledIsClean'
    BY <1>13, <2>1, <2>5, QuietPlace
  <2>7. QED
    BY <1>2, <1>5, <1>9, <2>3, <2>4, <2>6, SlotsWhileRunning DEF IInv
<1>17. QED
  BY <1>15, <1>16

LEMMA ReleaseKeeps ==
    ASSUME IInv, Release, UNCHANGED scene
    PROVE  IInv'
<1>1. pc = "done" /\ pc' \in {"pooled", "dropped"} /\ ~Dispatched
  BY DEF Release, Dispatched
<1>2. ConnInv /\ MuxType /\ (~fatal => StreamLedger) /\ SlotsFilled
  BY DEF IInv
<1>3. ConnInv' /\ Registered' = Registered /\ (StreamLedger => StreamLedger')
  BY <1>2, ConnUntouched DEF Release
<1>4. /\ Live' = Live /\ (Tainted' <=> Tainted)
      /\ queue' \in Seq(Requests)' /\ id_to_idx' \in [Live' -> Requests']
      /\ results' \in [Requests' -> {"none", "ok", "err", "moved"}]
  BY <1>2, <1>3, SlotsKept DEF Release
<1>5. MuxType'
  BY <1>1, <1>2, <1>4 DEF MuxType, PCs, Release
<1>6. ~Dispatched' /\ pc' \in Over /\ pc' \notin {"read", "one_read"}
  BY <1>1 DEF Dispatched, Over
<1>7. (fatal => Tainted) /\ (scene \in SplitTrailers \/ Tainted \/ HeadFree)
  BY <1>1, FromContinuation
<1>8. HeadFree => HeadFree'
  BY <1>3 DEF HeadFree, connVars, Release
<1>9. SlotsFilled'
  <2>1. \A r \in Requests : results[r] # "none"
    BY <1>1, <1>2 DEF SlotsFilled, Over
  <2>2. QED
    BY <2>1, RequestsFixed DEF SlotsFilled, Release
<1>10. DoneIsEnded' /\ Failure' /\ PumpedBeforeRead' /\ OneSlotEach'
  BY <1>4, <1>6, <1>7 DEF DoneIsEnded, Failure, PumpedBeforeRead, OneSlotEach, Release
<1>11. Continuation'
  BY <1>4, <1>6, <1>7, <1>8 DEF Continuation, HeadFree
<1>12. Lone' /\ Retry'
  BY <1>1, <1>6 DEF Lone, Retry
<1>13. PooledIsClean'
  <2> SUFFICES ASSUME pc' = "pooled"
               PROVE  /\ ~fatal' /\ Registered' = {}
                      /\ expecting_continuation' = 0 \/ scene' \in SplitTrailers
    BY DEF PooledIsClean
  <2>1. (\A r \in Requests : results[r] = "ok") /\ Registered = {}
    BY DEF Release, IsUsable
  <2>2. ~Tainted
    BY <2>1 DEF Tainted
  <2>3. QED
    BY <1>3, <1>7, <2>1, <2>2 DEF Release, HeadFree, connVars
<1>14. QED
  BY <1>2, <1>3, <1>5, <1>9, <1>10, <1>11, <1>12, <1>13 DEF IInv, Release

-----------------------------------------------------------------------------
(* The theorems. *)

LEMMA InitEstablishes ==
    ASSUME Init
    PROVE  IInv
<1>1. Registered = {} /\ Live = {} /\ scene \in Scenes /\ 0 \notin StreamIds
  BY DEF Init, ConnInit, Registered, Live, StreamIds
<1>2. Unheard \in Wire
  BY DEF Unheard, Wire
<1>3. /\ wire \in [StreamIds \cup {0} -> Wire] /\ \A i \in StreamIds \cup {0} : wire[i] = Unheard
  BY <1>2 DEF Init, ConnInit
<1>4. peer \in PeerSettings
  BY <1>1, H2Assumption, ConstantsTyped DEF Init, ConnInit, PeerSettings
<1>5. streams \in [Registered -> Stream]
  BY <1>1 DEF Init, ConnInit, Registered
<1>6. ConnType
  <2>1. /\ conn_send_window \in 0 .. WindowMax /\ conn_recv_window \in Int
        /\ next_stream_id \in Nat /\ next_stream_id % 2 = 1
        /\ goaway_received \in Nat \cup {NoGoaway} /\ expecting_continuation \in Nat
    BY ConstantsTyped DEF Init, ConnInit
  <2>2. outcome \in Outcome
    BY OutcomesTyped DEF Init, ConnInit
  <2>3. QED
    BY <1>1, <1>3, <1>4, <1>5, <2>1, <2>2 DEF ConnType
<1>7. Streams
  <2>1. \A i \in StreamIds : i \in Int /\ i >= 1
    BY DEF StreamIds
  <2>2. next_stream_id = 1
    BY DEF Init, ConnInit
  <2>3. QED
    BY <1>1, <1>3, <2>1, <2>2 DEF Streams, Unheard
<1>8. ConnLedger /\ StreamLedger
  <2>1. wire[0] = Unheard /\ conn_send_window = PeerWindow
    BY <1>3 DEF Init, ConnInit
  <2>2. QED
    BY <1>1, <2>1, ConstantsTyped DEF ConnLedger, StreamLedger, Unheard
<1>9. /\ pc \in {"one", "start"} /\ retrying = FALSE /\ fatal = FALSE
      /\ expecting_continuation = 0 /\ results = [r \in Requests |-> "none"]
  BY DEF Init, ConnInit
<1>10. /\ queue \in Seq(Requests) /\ Queued = Requests
       /\ \A j, k \in 1 .. Len(queue) : queue[j] = queue[k] => j = k
  <2>1. BodyLen \in Seq(Nat)
    BY <1>1, MuxAssumption DEF BodyLen
  <2>2. Requests = 1 .. Len(BodyLen) /\ Len(BodyLen) \in Nat
    BY <2>1 DEF Requests
  <2>3. Cardinality(Requests) = Len(BodyLen)
    <3>1. 1 \in Int /\ Len(BodyLen) \in Int
      BY <2>2
    <3>2. Cardinality(1 .. Len(BodyLen)) = IF 1 > Len(BodyLen) THEN 0 ELSE Len(BodyLen) - 1 + 1
      BY <3>1, FS_Interval
    <3>3. QED
      BY <2>2, <3>2
  <2>4. queue = [i \in 1 .. Len(BodyLen) |-> i]
    BY <2>3 DEF Init
  <2>5. queue \in Seq(Requests) /\ Len(queue) = Len(BodyLen)
    BY <2>2, <2>4
  <2>6. QED
    BY <2>2, <2>4, <2>5 DEF Queued
<1>11. MuxType
  <2>1. id_to_idx \in [Live -> Requests]
    BY <1>1 DEF Init, Live
  <2>2. results \in [Requests -> {"none", "ok", "err", "moved"}]
    BY <1>9
  <2>3. QED
    BY <1>9, <1>10, <2>1, <2>2 DEF MuxType, PCs
<1>12. OneSlotEach
  <2>1. Slots
    BY <1>1, <1>9, <1>10 DEF Slots
  <2>2. QED
    BY <2>1, SlotsWhileRunning
<1>13. ~Dispatched /\ pc \notin Over
  BY <1>9 DEF Dispatched, Over
<1>14. SlotsFilled /\ DoneIsEnded /\ Continuation /\ Failure /\ PumpedBeforeRead /\ PooledIsClean
  BY <1>9, <1>13 DEF SlotsFilled, DoneIsEnded, Continuation, Failure, PumpedBeforeRead,
                     PooledIsClean, Over
<1>15. Lone /\ Retry
  BY <1>1, <1>9 DEF Lone, Retry
<1>16. QED
  BY <1>6, <1>7, <1>8, <1>11, <1>12, <1>14, <1>15 DEF IInv, ConnInv

LEMMA StutterKeeps ==
    ASSUME IInv, UNCHANGED vars
    PROVE  IInv'
<1>1. ConnInv /\ MuxType /\ (~fatal => StreamLedger) /\ UNCHANGED connVars /\ UNCHANGED muxVars
  BY DEF IInv, vars
<1>2. ConnInv' /\ Registered' = Registered /\ (StreamLedger => StreamLedger') /\ Sendable' = Sendable
      /\ (CanOpen' <=> CanOpen)
  BY <1>1, ConnUntouched
<1>3. /\ (Slots => Slots') /\ Live' = Live /\ (Tainted' <=> Tainted)
      /\ queue' \in Seq(Requests)' /\ id_to_idx' \in [Live' -> Requests']
      /\ results' \in [Requests' -> {"none", "ok", "err", "moved"}]
  BY <1>1, <1>2, SlotsKept DEF connVars, muxVars
<1>4. MuxType' /\ (~fatal' => StreamLedger')
  BY <1>1, <1>2, <1>3 DEF MuxType, muxVars
<1>5. Requests' = Requests
  BY <1>1, RequestsFixed DEF connVars
<1>6. OneSlotEach' /\ SlotsFilled'
  BY <1>1, <1>3, <1>5, SlotsWhileRunning DEF IInv, SlotsFilled, muxVars
<1>7. DoneIsEnded' /\ Failure' /\ PumpedBeforeRead' /\ PooledIsClean'
  BY <1>1, <1>2, <1>3 DEF IInv, DoneIsEnded, Failure, PumpedBeforeRead, PooledIsClean, muxVars,
                          connVars, Dispatched, IsErr
<1>8. Continuation'
  BY <1>1, <1>2, <1>3 DEF IInv, Continuation, muxVars, connVars, Dispatched
<1>9. Lone' /\ Retry'
  BY <1>1, <1>2, <1>3 DEF IInv, Lone, Retry, muxVars, Over
<1>10. QED
  BY <1>2, <1>4, <1>6, <1>7, <1>8, <1>9 DEF IInv

LEMMA NextKeeps ==
    ASSUME IInv, [Next]_vars
    PROVE  IInv'
<1>1. CASE Step
  BY <1>1, StartOneKeeps, StartWriteFailsKeeps, StartRefusedKeeps, StartDoneKeeps,
     PumpOneKeeps, PumpDoneKeeps, PumpFailsKeeps, ReadOneKeeps, StreamFailsKeeps,
     ConnectionFailsKeeps, ProceedKeeps, CompleteKeeps, OneOpensKeeps, OneRefusedKeeps,
     OneEndsKeeps, OneSendsKeeps, OneWriteFailsKeeps, OneWaitsKeeps, OneFailsKeeps,
     OneContinuesKeeps, OneCompletesKeeps, ReleaseKeeps
     DEF Step
<1>2. CASE Finished \/ UNCHANGED vars
  BY <1>2, StutterKeeps DEF Finished
<1>3. QED
  BY <1>1, <1>2 DEF Next

\* Whatever frames the peer sends and wherever reads and writes fail, the connection
\* and its driver stay in IInv.
THEOREM Inductive == Spec => []IInv
<1>1. Init => IInv
  BY InitEstablishes
<1>2. IInv /\ [Next]_vars => IInv'
  BY NextKeeps
<1>3. QED
  BY <1>1, <1>2, PTL DEF Spec

\* Every request of every batch keeps its one slot and gets its answer; every stream
\* that was given up for it is over at the peer unless a frame for it could not be
\* written; a pooled connection has no stream and no failed read behind it
\* (start_queued, finish_stream, fail_all_outstanding, send_multiplexed).
THEOREM SlotsAreSound == Spec => []SlotsSound
<1>1. IInv => SlotsSound
  <2> SUFFICES ASSUME IInv PROVE SlotsSound
    OBVIOUS
  <2>1. DroppedIsClosed
    BY DEF IInv, ConnInv, Streams, ClosedAtPeer, Abandoned, DroppedIsClosed
  <2>2. QED
    BY <2>1 DEF IInv, SlotsSound
<1>2. QED
  BY <1>1, Inductive, PTL

\* The send windows are what the peer granted, to the byte, for every order of
\* SETTINGS, WINDOW_UPDATE, opening and sending; they never pass their maximum, and
\* the driver never waits with credit unused (update_window, apply_settings_payload,
\* pump_pending_sends).
THEOREM WindowsAreExact == Spec => []WindowsExact
<1>1. IInv => WindowsExact
  <2> SUFFICES ASSUME IInv PROVE WindowsExact
    OBVIOUS
  <2>1. SendLedger
    BY DEF IInv, ConnInv, ConnLedger, StreamLedger, SendLedger
  <2>2. WindowsBounded
    BY DEF IInv, ConnInv, ConnType, Streams, Link, WindowsBounded
  <2>3. QED
    BY <2>1, <2>2 DEF IInv, WindowsExact
<1>2. QED
  BY <1>1, Inductive, PTL

\* What a step may do with the peer's grants.
LEMMA StepRespectsGrants ==
    ASSUME IInv, [Next]_vars
    PROVE  WithinCredit /\ WithinGoaway
<1>1. ConnInv
  BY DEF IInv
<1>2. /\ \A i \in StreamIds : wire[i].sent \in Int
      /\ goaway_received \in Nat \cup {NoGoaway} /\ next_stream_id \in Nat
  BY <1>1 DEF ConnInv, ConnType, Wire
<1>3. ASSUME \A i \in StreamIds : wire'[i].sent = wire[i].sent,
             goaway_received' = goaway_received,
             next_stream_id' # next_stream_id => CanOpen
      PROVE  WithinCredit /\ WithinGoaway
  <2>1. WithinCredit
    BY <1>2, <1>3 DEF WithinCredit
  <2>2. WithinGoaway
    BY <1>2, <1>3 DEF WithinGoaway, CanOpen
  <2>3. QED
    BY <2>1, <2>2
<1>4. CASE UNCHANGED << wire, goaway_received, next_stream_id >>
  BY <1>3, <1>4
<1>5. CASE UNCHANGED connVars
  BY <1>4, <1>5 DEF connVars
<1>6. CASE (StartOne \/ OneOpens) /\ UNCHANGED scene
  <2>1. pc \notin Over /\ CanOpen /\ MuxType /\ scene \in Scenes /\ queue # << >>
    BY <1>6 DEF StartOne, OneOpens, Over, IInv, ConnInv, ConnType
  <2>2. Head(queue) \in Requests
    BY <2>1 DEF MuxType
  <2>3. BodyLen[Head(queue)] \in Nat
    BY <2>1, <2>2, BodyTyped
  <2>4. \A i \in StreamIds : wire'[i].sent = wire[i].sent
    BY <1>1, <1>6, <2>1, <2>3, RequestWrittenSound DEF StartOne, OneOpens
  <2>5. goaway_received' = goaway_received
    BY <1>6 DEF StartOne, OneOpens
  <2>6. QED
    BY <1>3, <2>1, <2>4, <2>5
<1>7. CASE StartWriteFails /\ UNCHANGED scene
  <2>1. CanOpen /\ goaway_received' = goaway_received
    BY <1>7 DEF StartWriteFails
  <2>2. \A i \in StreamIds : wire'[i].sent = wire[i].sent
    BY <1>1, <1>7, IdSpent DEF StartWriteFails
  <2>3. QED
    BY <1>3, <2>1, <2>2
<1>8. CASE (PumpOne \/ OneSends) /\ UNCHANGED scene
  <2>1. \E id \in Sendable : DataWritten(id)
    BY <1>1, <1>8, LowestSendable DEF PumpOne, OneSends
  <2>2. UNCHANGED << peer, conn_recv_window, next_stream_id, goaway_received,
                     expecting_continuation, outcome, scene >>
    BY <1>8 DEF PumpOne, OneSends
  <2>3. \A i \in StreamIds : wire'[i].sent > wire[i].sent =>
           streams'[i].send >= 0 /\ conn_send_window' >= 0
    BY <1>1, <2>1, <2>2, DataWrittenSound
  <2>4. QED
    BY <1>2, <2>2, <2>3 DEF WithinCredit, WithinGoaway
<1>9. CASE ReadOne /\ UNCHANGED scene
  <2>1. Passive
    BY <1>1, <1>9, ReadSound DEF ReadOne, Sound
  <2>2. QED
    BY <1>2, <2>1 DEF Passive, WithinCredit, WithinGoaway
<1>10. CASE (StreamFails \/ Proceed) /\ UNCHANGED scene
  BY <1>4, <1>10 DEF StreamFails, Proceed
<1>11. CASE (Complete \/ OneCompletes) /\ UNCHANGED scene
  <2>1. goaway_received' = goaway_received /\ next_stream_id' = next_stream_id
    BY <1>11 DEF Complete, OneCompletes
  <2>2. wire' = wire \/ \E id : CalledOff(id)
    <3>1. CASE Complete
      BY <3>1 DEF Complete, CalledOff
    <3>2. CASE OneCompletes
      <4>1. wire' = wire \/ wire' = [wire EXCEPT ![OneId].rst = TRUE]
        BY <3>2 DEF OneCompletes
      <4>2. QED
        BY <4>1, OneResets
    <3>3. QED
      BY <1>11, <3>1, <3>2
  <2>3. wire \in [StreamIds \cup {0} -> Wire]
    BY <1>1 DEF ConnInv, ConnType
  <2>4. \A i \in StreamIds : wire'[i].sent = wire[i].sent
    <3>1. CASE wire' = wire
      BY <3>1
    <3>2. ASSUME NEW id, CalledOff(id)
          PROVE  \A i \in StreamIds : wire'[i].sent = wire[i].sent
      <4>a. PICK w \in ResetTried(wire[id]) : wire' = [wire EXCEPT ![id] = w]
        BY <3>2 DEF CalledOff
      <4> SUFFICES ASSUME NEW i \in StreamIds PROVE wire'[i].sent = wire[i].sent
        OBVIOUS
      <4>1. CASE i = id
        <5>1. wire'[i] = w /\ wire[i] \in Wire /\ w \in ResetTried(wire[i])
          BY <2>3, <4>a, <4>1
        <5>2. QED
          BY <5>1, TriedGrows DEF Grows
      <4>2. CASE i # id
        BY <2>3, <4>a, <4>2
      <4>3. QED
        BY <4>1, <4>2
    <3>3. QED
      BY <2>2, <3>1, <3>2
  <2>5. QED
    BY <1>3, <2>1, <2>4
<1>12. CASE (StartRefused \/ StartDone \/ PumpDone \/ PumpFails \/ ConnectionFails \/ OneRefused
             \/ OneEnds \/ OneWriteFails \/ OneWaits \/ OneFails \/ OneContinues \/ Release)
  BY <1>5, <1>12 DEF StartRefused, StartDone, PumpDone, PumpFails, ConnectionFails, OneRefused,
                     OneEnds, OneWriteFails, OneWaits, OneFails, OneContinues, Release
<1>13. CASE Finished \/ UNCHANGED vars
  BY <1>5, <1>13 DEF Finished, vars
<1>14. QED
  BY <1>6, <1>7, <1>8, <1>9, <1>10, <1>11, <1>12, <1>13 DEF Next, Step

\* No DATA frame overdraws a window, also just after SETTINGS has shrunk it, and no
\* stream is opened above a GOAWAY (next_data_chunk_size, open_stream).
THEOREM GrantsAreRespected == Spec => GrantsRespected
<1>1. IInv /\ [Next]_vars => [WithinCredit /\ WithinGoaway]_vars
  BY StepRespectsGrants
<1>2. QED
  BY <1>1, Inductive, PTL DEF Spec, GrantsRespected

=============================================================================
