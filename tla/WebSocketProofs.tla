-------------------------- MODULE WebSocketProofs ---------------------------
(***************************************************************************)
(* For any number of frames, sends and faults: at most one close frame     *)
(* goes out, and only pongs (and what a failed write left) follow it.      *)
(*                                                                         *)
(* The invariant is a lock argument.  A thread past the test of            *)
(* `send_closed` holds the gate until its frame is on the wire, unless it  *)
(* writes a pong; while it is about to write, no close frame is on the     *)
(* wire; and a close frame on the wire means that `send_closed` is set.    *)
(***************************************************************************)
EXTENDS WebSocket, TLAPS

Hows == {"none", "direct", "unless", "close"}
Calm == {"idle", "begin", "tick", "ended"}           \* not past the gate
Past == {"put", "flush", "mark", "refused"}

\* A write in progress: a record, with an opcode that its way to the wire allows.
WriteOK(x) ==
    /\ x = [at |-> x.at, f |-> x.f, how |-> x.how, ok |-> x.ok]
    /\ x.at \in Calm \cup Past /\ x.how \in Hows
    /\ x.how = "direct" => x.f.op = "pong"
    /\ x.how = "close" => x.f.op = "close"
    /\ x.how = "unless" => x.f.op # "close"
    /\ x.at \in Past \cup {"begin"} => x.how # "none"

ConnFields ==
    conn = [phase |-> conn.phase, kind |-> conn.kind, api |-> conn.api, pmd |-> conn.pmd,
            broken |-> conn.broken, send_closed |-> conn.send_closed,
            recv_closed |-> conn.recv_closed, shutdown |-> conn.shutdown,
            stop |-> conn.stop, faults |-> conn.faults]

NoClose == \A i \in 1 .. Len(wire) : wire[i].op # "close"

\* Past the gate.
Holding(t) == w[t].at \in Past /\ w[t].how # "direct"

GateInv ==
    /\ ConnFields /\ w \in [Threads -> {w[t] : t \in Threads}]
    /\ \A t \in Threads : WriteOK(w[t])
    /\ wire \in Seq({wire[i] : i \in 1 .. Len(wire)}) /\ Len(wire) \in Nat
    /\ \A t \in Threads : Holding(t) => gate = t
    /\ \A t \in Threads : Holding(t) /\ w[t].at = "put" =>
          NoClose /\ (w[t].how = "close" => conn.send_closed)
    /\ ~NoClose => conn.send_closed
    /\ NothingAfterClose

\* Thread t begins a write or is at rest.
Launched(t) == \E x : WriteOK(x) /\ x.at \in Calm /\ w' = [w EXCEPT ![t] = x]

\* Steps that put nothing on the wire and move no thread past the gate.
LEMMA CalmStep ==
    ASSUME GateInv, ConnFields', conn.send_closed => conn'.send_closed, wire' = wire,
           NEW t \in Threads, Launched(t), gate' = gate \/ gate = t
    PROVE GateInv'
<1>1. PICK x : WriteOK(x) /\ x.at \in Calm /\ w' = [w EXCEPT ![t] = x]
    BY DEF Launched
<1>2. w' \in [Threads -> {w'[u] : u \in Threads}] /\ w'[t] = x
      /\ \A u \in Threads \ {t} : w'[u] = w[u]
    BY <1>1 DEF GateInv
<1>3. \A u \in Threads : WriteOK(w'[u])
    BY <1>1, <1>2 DEF GateInv
<1>4. \A u \in Threads : Holding(u)' => Holding(u) /\ u # t /\ w'[u] = w[u]
    BY <1>1, <1>2 DEF Holding, Calm, Past
<1>5. \A u \in Threads : Holding(u)' => gate' = u
    BY <1>4 DEF GateInv
<1>6. NoClose' = NoClose /\ NothingAfterClose' = NothingAfterClose
    BY DEF NoClose, NothingAfterClose
<1>7. \A u \in Threads : Holding(u)' /\ w'[u].at = "put" =>
          NoClose' /\ (w'[u].how = "close" => conn'.send_closed)
    BY <1>4, <1>6 DEF GateInv
<1> QED
    BY <1>2, <1>3, <1>5, <1>6, <1>7 DEF GateInv

\* Steps that touch neither the wire, nor the gate, nor a write in progress.
LEMMA StillStep ==
    ASSUME GateInv, ConnFields', conn.send_closed => conn'.send_closed,
           UNCHANGED << wire, w, gate >>
    PROVE GateInv'
<1>1. NoClose' = NoClose /\ NothingAfterClose' = NothingAfterClose
    BY DEF NoClose, NothingAfterClose
<1>2. \A u \in Threads : Holding(u)' = Holding(u)
    BY DEF Holding
<1> QED
    BY <1>1, <1>2 DEF GateInv

\* A thread takes the gate and looks at the flags.
LEMMA BeginWriteStep == ASSUME GateInv, NEW t \in Threads, BeginWrite(t) PROVE GateInv'
<1> DEFINE how == w[t].how
           closed == conn.send_closed /\ how # "direct"
           at == IF closed \/ conn.broken THEN "refused" ELSE "put"
           ok == IF closed THEN how = "close" ELSE ~conn.broken
           x == [at |-> at, f |-> w[t].f, how |-> how, ok |-> ok]
<1>1. /\ w[t].at = "begin" /\ (how # "direct" => gate = None) /\ wire' = wire
      /\ gate' = IF how = "direct" THEN gate ELSE t
      /\ conn' = IF how = "close" THEN SendClosed(conn) ELSE conn
    BY DEF BeginWrite, Writing
<1>2. WriteOK(w[t]) /\ w \in [Threads -> {w[u] : u \in Threads}]
    BY DEF GateInv
<1>3. w' = [w EXCEPT ![t] = x]
    BY DEF BeginWrite, Onward
<1>4. ConnFields' /\ (conn.send_closed => conn'.send_closed)
      /\ (how = "close" => conn'.send_closed)
    BY <1>1 DEF GateInv, ConnFields, SendClosed
<1>5. /\ x.at = at /\ x.how = how /\ x.f = w[t].f /\ WriteOK(x) /\ at \in {"put", "refused"}
      /\ (at = "put" => ~closed)
    BY <1>1, <1>2 DEF WriteOK, Past, Calm
<1> HIDE DEF x, at, ok
<1>6. w' \in [Threads -> {w'[u] : u \in Threads}] /\ w'[t] = x
      /\ \A u \in Threads \ {t} : w'[u] = w[u]
    BY <1>2, <1>3
<1>7. None \notin Threads
    BY DEF None, Threads
<1>8. \A u \in Threads : Holding(u)' => gate' = u
    BY <1>1, <1>5, <1>6, <1>7 DEF Holding, GateInv
<1>9. NoClose' = NoClose /\ NothingAfterClose' = NothingAfterClose
    BY <1>1 DEF NoClose, NothingAfterClose
<1>10. ASSUME NEW u \in Threads, Holding(u)', w'[u].at = "put"
       PROVE NoClose' /\ (w'[u].how = "close" => conn'.send_closed)
    <2>1. CASE u = t
        BY <1>4, <1>5, <1>6, <1>9, <1>10, <2>1 DEF GateInv, Holding
    <2>2. CASE u # t
        BY <1>4, <1>6, <1>9, <1>10, <2>2 DEF GateInv, Holding
    <2> QED
        BY <2>1, <2>2
<1>11. \A u \in Threads : WriteOK(w'[u])
    BY <1>5, <1>6 DEF GateInv
<1> QED
    BY <1>1, <1>4, <1>6, <1>8, <1>9, <1>10, <1>11 DEF GateInv

\* One more frame on the wire.
LEMMA Appended ==
    ASSUME GateInv, NEW f, wire' = Append(wire, f)
    PROVE /\ wire' \in Seq({wire'[i] : i \in 1 .. Len(wire')}) /\ Len(wire') = Len(wire) + 1
          /\ Len(wire') \in Nat /\ wire'[Len(wire')] = f
          /\ \A i \in 1 .. Len(wire) : wire'[i] = wire[i]
<1> DEFINE S == {wire[i] : i \in 1 .. Len(wire)} \cup {f}
<1>1. wire \in Seq(S) /\ Len(wire) \in Nat
    BY DEF GateInv
<1>2. /\ wire' \in Seq(S) /\ Len(wire') = Len(wire) + 1 /\ wire'[Len(wire) + 1] = f
      /\ \A i \in 1 .. Len(wire) : wire'[i] = wire[i]
    BY <1>1
<1>3. wire' \in Seq({wire'[i] : i \in 1 .. Len(wire')})
    BY <1>2
<1> QED
    BY <1>1, <1>2, <1>3

\* The frame goes out: a pong, or under the gate.
LEMMA WriteAllStep == ASSUME GateInv, NEW t \in Threads, write_all(t) PROVE GateInv'
<1>1. /\ w[t].at = "put" /\ gate' = gate
      /\ WriteOK(w[t]) /\ w \in [Threads -> {w[u] : u \in Threads}]
    BY DEF write_all, Writing, GateInv
<1>2. PICK x :
          /\ w' = [w EXCEPT ![t] = x] /\ WriteOK(x) /\ x.how = w[t].how /\ x.at \in {"flush", "mark"}
          /\ \/ wire' = Append(wire, w[t].f) /\ ~conn.shutdown
             \/ wire' = wire
             \/ wire' = Append(wire, Out("torn", <<>>))
    <2> DEFINE y == [at |-> "flush", f |-> w[t].f, how |-> w[t].how, ok |-> w[t].ok]
               z == [at |-> "mark", f |-> w[t].f, how |-> w[t].how, ok |-> FALSE]
    <2>1. WriteOK(y) /\ y.how = w[t].how /\ y.at = "flush"
        BY <1>1 DEF WriteOK, Past
    <2>2. WriteOK(z) /\ z.how = w[t].how /\ z.at = "mark"
        BY <1>1 DEF WriteOK, Past
    <2>3. \/ wire' = Append(wire, w[t].f) /\ ~conn.shutdown /\ w' = [w EXCEPT ![t] = y]
          \/ /\ wire' = wire \/ wire' = Append(wire, Out("torn", <<>>))
             /\ w' = [w EXCEPT ![t] = z]
        BY DEF write_all, Onward
    <2> HIDE DEF y, z
    <2> QED
        BY <2>1, <2>2, <2>3
<1>3. ConnFields' /\ conn'.send_closed = conn.send_closed
    BY DEF GateInv, ConnFields, write_all
<1>4. w' \in [Threads -> {w'[u] : u \in Threads}] /\ w'[t] = x
      /\ \A u \in Threads \ {t} : w'[u] = w[u]
    BY <1>1, <1>2
<1>5. \A u \in Threads : WriteOK(w'[u])
    BY <1>2, <1>4 DEF GateInv
<1>6. \A u \in Threads : Holding(u)' => Holding(u)
    BY <1>1, <1>2, <1>4 DEF Holding, Past
<1>7. \A u \in Threads : w'[u].at = "put" => u # t /\ w'[u] = w[u]
    BY <1>2, <1>4
<1>8. Len(wire) \in Nat
    BY DEF GateInv
<1>9. CASE wire' = wire
    <2>1. NoClose' = NoClose /\ NothingAfterClose' = NothingAfterClose
        BY <1>9 DEF NoClose, NothingAfterClose
    <2> QED
        BY <1>1, <1>3, <1>4, <1>5, <1>6, <1>7, <1>9, <2>1 DEF GateInv
<1>10. ASSUME NEW f, wire' = Append(wire, f), f.op \in {"pong", "torn"} PROVE GateInv'
    <2>1. /\ Len(wire') = Len(wire) + 1 /\ wire'[Len(wire')] = f
          /\ \A i \in 1 .. Len(wire) : wire'[i] = wire[i]
        BY <1>10, Appended
    <2>2. NoClose => NoClose'
        BY <1>8, <1>10, <2>1 DEF NoClose
    <2>3. NothingAfterClose'
        BY <1>8, <1>10, <2>1 DEF NothingAfterClose, GateInv
    <2>4. ~NoClose' => ~NoClose
        BY <2>2
    <2> QED
        BY <1>1, <1>3, <1>4, <1>5, <1>6, <1>7, <1>10, <2>2, <2>3, <2>4, Appended DEF GateInv
<1>11. CASE wire' = Append(wire, w[t].f) /\ w[t].how # "direct"
    <2>1. /\ Len(wire') = Len(wire) + 1 /\ wire'[Len(wire')] = w[t].f
          /\ \A i \in 1 .. Len(wire) : wire'[i] = wire[i]
        BY <1>11, Appended
    <2>2. Holding(t) /\ NoClose /\ (w[t].how = "close" => conn.send_closed) /\ gate = t
        BY <1>1, <1>11 DEF GateInv, Holding, Past
    <2>3. NothingAfterClose'
        BY <1>8, <2>1, <2>2 DEF NothingAfterClose, NoClose
    <2>4. ~NoClose' => conn'.send_closed
        <3>1. ~NoClose' => w[t].f.op = "close"
            BY <1>8, <2>1, <2>2 DEF NoClose
        <3>2. w[t].f.op = "close" => w[t].how = "close"
            BY <1>1, <1>11 DEF WriteOK, Hows, Past
        <3> QED
            BY <1>3, <2>2, <3>1, <3>2
    <2>5. \A u \in Threads : ~(Holding(u)' /\ w'[u].at = "put")
        BY <1>6, <1>7, <2>2 DEF GateInv
    <2> QED
        BY <1>1, <1>3, <1>4, <1>5, <1>6, <1>11, <2>3, <2>4, <2>5, Appended DEF GateInv
<1>12. CASE wire' = Append(wire, w[t].f) /\ w[t].how = "direct"
    BY <1>1, <1>10, <1>12 DEF WriteOK
<1>13. CASE wire' = Append(wire, Out("torn", <<>>))
    BY <1>10, <1>13 DEF Out
<1> QED
    BY <1>2, <1>9, <1>11, <1>12, <1>13

-----------------------------------------------------------------------------
(* The threads' steps. *)

LEMMA LaunchOne ==
    ASSUME NEW t, NEW x, WriteOK(x), x.at \in Calm, w' = [w EXCEPT ![t] = x]
    PROVE Launched(t)
BY DEF Launched

LEMMA LaunchIdle ==
    /\ WriteOK(Idle) /\ Idle.at \in Calm
    /\ \A t : w' = [w EXCEPT ![t] = Idle] => Launched(t)
<1>1. WriteOK(Idle) /\ Idle.at \in Calm
    BY DEF WriteOK, Idle, Calm, Past, Hows
<1> QED
    BY <1>1, LaunchOne

LEMMA LaunchWrite ==
    ASSUME NEW t, NEW how \in Hows \ {"none"}, NEW f,
           how = "direct" => f.op = "pong", how = "close" => f.op = "close",
           how = "unless" => f.op # "close", w' = [w EXCEPT ![t] = Write(how, f)]
    PROVE Launched(t)
<1> DEFINE x == Write(how, f)
<1>1. WriteOK(x) /\ x.at \in Calm
    BY DEF WriteOK, Write, Calm, Past, Hows
<1> HIDE DEF x
<1>2. w' = [w EXCEPT ![t] = x]
    BY DEF x
<1> QED
    BY <1>1, <1>2, LaunchOne

LEMMA LaunchAt ==
    ASSUME NEW t, NEW x, WriteOK(x), NEW at \in {"tick", "ended"},
           w' = [w EXCEPT ![t] = [x EXCEPT !.at = at]]
    PROVE Launched(t)
<1> DEFINE y == [at |-> at, f |-> x.f, how |-> x.how, ok |-> x.ok]
<1>1. [x EXCEPT !.at = at] = y
    BY DEF WriteOK
<1>2. WriteOK(y) /\ y.at \in Calm
    BY DEF WriteOK, Calm, Past
<1> HIDE DEF y
<1> QED
    BY <1>1, <1>2, LaunchOne

\* The end of a write lets go of no other thread's gate.
LEMMA EndWriteFacts ==
    ASSUME GateInv, NEW t \in Threads, EndWrite(t)
    PROVE ConnFields' /\ (conn.send_closed => conn'.send_closed) /\ (gate' = gate \/ gate = t)
BY DEF GateInv, ConnFields, EndWrite

\* The reader may answer with a pong or a close, or not write.
ReaderAnswers ==
    \/ w' = w
    \/ \E pay : \/ w' = [w EXCEPT !["reader"] = Write("close", Out("close", pay))]
                \/ w' = [w EXCEPT !["reader"] = Write("direct", Out("pong", pay))]

LEMMA TakeFrameAnswers == ASSUME TakeFrame PROVE ReaderAnswers
<1> DEFINE r == [rd EXCEPT !.rx = SubSeq(@, 3, Len(@))]
<1>1. ASSUME NEW q, NEW m, finish_event(q, m) PROVE ReaderAnswers
    BY <1>1 DEF finish_event, ReaderAnswers
<1>2. ASSUME DataFrame(r, Top), Top.op \in {"data", "cont"} PROVE ReaderAnswers
    <2>1. w' = w \/ \E m : finish_event(r, m)
        BY <1>2 DEF DataFrame
    <2> QED
        BY <1>1, <2>1 DEF ReaderAnswers
<1>3. ASSUME NEW q, NEW f, ControlFrame(q, f) PROVE ReaderAnswers
    <2>1. \/ w' = w
          \/ w' = [w EXCEPT !["reader"] = Write("direct", Out("pong", f.pay))]
          \/ w' = [w EXCEPT !["reader"] = Write("close", Out("close", f.pay))]
          \/ w' = [w EXCEPT !["reader"] = Write("close", Out("close", <<1002>>))]
        BY <1>3 DEF ControlFrame
    <2> QED
        BY <2>1 DEF ReaderAnswers
<1>4. w' = w \/ (DataFrame(r, Top) /\ Top.op \in {"data", "cont"}) \/ ControlFrame(r, Top)
    BY DEF TakeFrame
<1> QED
    BY <1>2, <1>3, <1>4 DEF ReaderAnswers

\* What is left of a stream being sent: nothing or its last fragment.
FragsOK ==
    /\ wr = [frags |-> wr.frags, calls |-> wr.calls]
    /\ wr.frags = <<>> \/ wr.frags = <<Out("cont", <<"fin">>)>>

LEMMA SendStep == ASSUME FragsOK, Send PROVE
    /\ FragsOK' /\ \E f : f.op # "close" /\ w' = [w EXCEPT !["writer"] = Write("unless", f)]
<1>1. PICK frags \in {<<Out("data", <<"fin">>)>>, <<Out("ping", <<>>)>>,
                      <<Out("data", <<>>), Out("cont", <<"fin">>)>>} :
          /\ wr' = [frags |-> Tail(frags), calls |-> wr.calls + 1]
          /\ w' = [w EXCEPT !["writer"] = Write("unless", Head(frags))]
    BY DEF Send
<1>2. Head(frags).op # "close" /\ (Tail(frags) = <<>> \/ Tail(frags) = <<Out("cont", <<"fin">>)>>)
    <2>1. \A x : Head(<<x>>) = x /\ Tail(<<x>>) = <<>>
        OBVIOUS
    <2>2. \A x, y : Head(<<x, y>>) = x /\ Tail(<<x, y>>) = <<y>>
        OBVIOUS
    <2>3. \A pay : Out("data", pay).op = "data" /\ Out("ping", pay).op = "ping"
        BY DEF Out
    <2>4. CASE frags = <<Out("data", <<"fin">>)>>
        BY <2>1, <2>3, <2>4
    <2>5. CASE frags = <<Out("ping", <<>>)>>
        BY <2>1, <2>3, <2>5
    <2>6. CASE frags = <<Out("data", <<>>), Out("cont", <<"fin">>)>>
        BY <2>2, <2>3, <2>6
    <2> QED
        BY <1>1, <2>4, <2>5, <2>6
<1>3. FragsOK'
    BY <1>1, <1>2 DEF FragsOK
<1> QED
    BY <1>1, <1>2, <1>3

LEMMA WriterWroteStep == ASSUME FragsOK, WriterWrote PROVE
    /\ FragsOK'
    /\ \/ w' = [w EXCEPT !["writer"] = Idle]
       \/ \E f : f.op # "close" /\ w' = [w EXCEPT !["writer"] = Write("unless", f)]
<1>1. CASE Ok("writer") /\ wr.frags # <<>>
    <2>1. /\ w' = [w EXCEPT !["writer"] = Write("unless", Head(wr.frags))]
          /\ wr' = [wr EXCEPT !.frags = Tail(wr.frags)]
        BY <1>1 DEF WriterWrote
    <2>2. wr.frags = <<Out("cont", <<"fin">>)>>
        BY <1>1 DEF FragsOK
    <2>3. Head(wr.frags).op # "close" /\ Tail(wr.frags) = <<>>
        BY <2>2 DEF Out
    <2>4. wr' = [frags |-> Tail(wr.frags), calls |-> wr.calls]
        BY <2>1 DEF FragsOK
    <2>5. FragsOK'
        BY <2>3, <2>4 DEF FragsOK
    <2> QED
        BY <2>1, <2>3, <2>5
<1>2. CASE ~(Ok("writer") /\ wr.frags # <<>>)
    <2>1. w' = [w EXCEPT !["writer"] = Idle] /\ wr' = [wr EXCEPT !.frags = <<>>]
        BY <1>2 DEF WriterWrote
    <2>2. wr' = [frags |-> <<>>, calls |-> wr.calls]
        BY <2>1 DEF FragsOK
    <2>3. FragsOK'
        BY <2>2 DEF FragsOK
    <2> QED
        BY <2>1, <2>3
<1> QED
    BY <1>1, <1>2

LEMMA FragsNext == FragsOK /\ [Next]_vars => FragsOK'
<1> SUFFICES ASSUME FragsOK, [Next]_vars PROVE FragsOK'
    OBVIOUS
<1>1. ASSUME wr' = wr PROVE FragsOK'
    BY <1>1 DEF FragsOK
<1>2. ASSUME wr' = [wr EXCEPT !.calls = @ + 1] PROVE FragsOK'
    <2>1. wr' = [frags |-> wr.frags, calls |-> wr.calls + 1]
        BY <1>2 DEF FragsOK
    <2> QED
        BY <2>1 DEF FragsOK
<1>3. CASE Send \/ WriterWrote
    BY <1>3, SendStep, WriterWroteStep
<1>4. CASE close \/ KeepaliveTick
    BY <1>1, <1>2, <1>4 DEF close, KeepaliveTick
<1>5. CASE Handshake \/ PeerData \/ PeerContinues \/ PeerControls \/ PeerDrops \/ recv
           \/ ReadTimesOut
    BY <1>1, <1>5 DEF Handshake, PeerData, PeerContinues, PeerControls, PeerDrops, recv,
                      ReadTimesOut
<1>6. CASE ReaderStep
    BY <1>1, <1>6 DEF ReaderStep, read_polled, next_event, recv_inner, read_message,
                      recv_frame, ReaderWrote, TakeFrame
<1>7. CASE Keepalive \/ KeepaliveWrote \/ stop_inner \/ shutdown \/ \E t \in Threads : WriteStep(t)
    BY <1>1, <1>7 DEF Keepalive, KeepaliveWrote, stop_inner, shutdown, WriteStep, BeginWrite,
                      write_all
<1>8. CASE UNCHANGED vars
    BY <1>1, <1>8 DEF vars
<1> QED
    BY <1>3, <1>4, <1>5, <1>6, <1>7, <1>8 DEF Next

LEMMA GateNext == GateInv /\ FragsOK /\ [Next]_vars => GateInv'
<1> SUFFICES ASSUME GateInv, FragsOK, [Next]_vars PROVE GateInv'
    OBVIOUS
<1>1. "reader" \in Threads /\ "writer" \in Threads /\ "keepalive" \in Threads
    BY DEF Threads
<1>2. /\ w \in [Threads -> {w[t] : t \in Threads}] /\ \A t \in Threads : WriteOK(w[t])
      /\ ConnFields
    BY DEF GateInv
<1>3. ASSUME conn' = conn PROVE ConnFields' /\ (conn.send_closed => conn'.send_closed)
    BY <1>2, <1>3 DEF ConnFields
<1>5. CASE Handshake
    <2>1. ConnFields' /\ (conn.send_closed => conn'.send_closed)
        <3>1. PICK pmd : conn' = [conn EXCEPT !.phase = "open", !.pmd = pmd]
                         \/ conn' = [conn EXCEPT !.phase = "refused"]
            BY <1>5 DEF Handshake
        <3> QED
            BY <1>2, <3>1 DEF ConnFields
    <2> QED
        BY <1>5, <2>1, StillStep DEF Handshake
<1>6. CASE PeerData \/ PeerContinues \/ PeerControls \/ PeerDrops \/ recv \/ ReadTimesOut
           \/ recv_frame
    <2>1. UNCHANGED << conn, gate, w, wire >>
        BY <1>6 DEF PeerData, PeerContinues, PeerControls, PeerDrops, recv, ReadTimesOut, recv_frame
    <2> QED
        BY <1>3, <2>1, StillStep
<1>7. CASE read_polled
    <2>1. UNCHANGED << gate, w, wire >> /\ (conn' = conn \/ conn' = RecvClosed(conn))
        BY <1>7 DEF read_polled
    <2>2. ConnFields' /\ (conn.send_closed => conn'.send_closed)
        BY <1>2, <2>1 DEF ConnFields, RecvClosed
    <2> QED
        BY <2>1, <2>2, StillStep
<1>8. CASE TakeFrame
    <2>1. ConnFields' /\ (conn.send_closed => conn'.send_closed) /\ gate' = gate /\ wire' = wire
        BY <1>2, <1>8 DEF ConnFields, TakeFrame
    <2>2. ReaderAnswers
        BY <1>8, TakeFrameAnswers
    <2>3. CASE w' = w
        BY <2>1, <2>3, StillStep
    <2>4. ASSUME NEW pay, w' = [w EXCEPT !["reader"] = Write("close", Out("close", pay))]
          PROVE GateInv'
        <3>1. Launched("reader")
            BY <2>4, LaunchWrite DEF Out, Hows
        <3> QED
            BY <1>1, <2>1, <3>1, CalmStep
    <2>5. ASSUME NEW pay, w' = [w EXCEPT !["reader"] = Write("direct", Out("pong", pay))]
          PROVE GateInv'
        <3>1. Launched("reader")
            BY <2>5, LaunchWrite DEF Out, Hows
        <3> QED
            BY <1>1, <2>1, <3>1, CalmStep
    <2> QED
        BY <2>2, <2>3, <2>4, <2>5 DEF ReaderAnswers
<1>9. CASE ReaderWrote
    <2>1. EndWrite("reader") /\ w' = [w EXCEPT !["reader"] = Idle] /\ wire' = wire
        BY <1>9 DEF ReaderWrote
    <2> QED
        BY <1>1, <2>1, EndWriteFacts, LaunchIdle, CalmStep
<1>10. CASE Send
    <2>1. PICK f : f.op # "close" /\ w' = [w EXCEPT !["writer"] = Write("unless", f)]
        BY <1>10, SendStep
    <2>2. UNCHANGED << conn, gate, wire >>
        BY <1>10 DEF Send
    <2> QED
        <3>1. Launched("writer")
            BY <2>1, LaunchWrite DEF Hows
        <3> QED
            BY <1>1, <1>3, <2>2, <3>1, CalmStep
<1>11. CASE close
    <2>1. /\ w' = [w EXCEPT !["writer"] = Write("close", Out("close", <<>>))]
          /\ UNCHANGED << conn, gate, wire >>
        BY <1>11 DEF close
    <2> QED
        <3>1. Launched("writer")
            BY <2>1, LaunchWrite DEF Out, Hows
        <3> QED
            BY <1>1, <1>3, <2>1, <3>1, CalmStep
<1>12. CASE WriterWrote
    <2>1. /\ EndWrite("writer") /\ wire' = wire
          /\ \/ w' = [w EXCEPT !["writer"] = Idle]
             \/ \E f : f.op # "close" /\ w' = [w EXCEPT !["writer"] = Write("unless", f)]
        BY <1>12, WriterWroteStep DEF WriterWrote
    <2>2. CASE w' = [w EXCEPT !["writer"] = Idle]
        BY <1>1, <2>1, <2>2, EndWriteFacts, LaunchIdle, CalmStep
    <2>3. ASSUME NEW f, f.op # "close", w' = [w EXCEPT !["writer"] = Write("unless", f)]
          PROVE GateInv'
        <3>1. Launched("writer")
            BY <2>3, LaunchWrite DEF Hows
        <3> QED
            BY <1>1, <2>1, <3>1, EndWriteFacts, CalmStep
    <2> QED
        BY <2>1, <2>2, <2>3
<1>13. CASE Keepalive \/ KeepaliveTick
    <2>1. UNCHANGED << conn, gate, wire >>
        BY <1>13 DEF Keepalive, KeepaliveTick
    <2>2. \/ \E at \in {"tick", "ended"} :
                w' = [w EXCEPT !["keepalive"] = [w["keepalive"] EXCEPT !.at = at]]
          \/ w' = [w EXCEPT !["keepalive"] = Write("unless", Out("ping", <<>>))]
        BY <1>1, <1>2, <1>13 DEF Keepalive, KeepaliveTick
    <2>3. CASE w' = [w EXCEPT !["keepalive"] = Write("unless", Out("ping", <<>>))]
        <3>1. Out("ping", <<>>).op # "close"
            BY DEF Out
        <3>2. Launched("keepalive")
            BY <2>3, <3>1, LaunchWrite DEF Hows
        <3> QED
            BY <1>1, <1>3, <2>1, <3>2, CalmStep
    <2>4. ASSUME NEW at \in {"tick", "ended"},
                 w' = [w EXCEPT !["keepalive"] = [w["keepalive"] EXCEPT !.at = at]]
          PROVE GateInv'
        <3>1. Launched("keepalive")
            BY <1>1, <1>2, <2>4, LaunchAt
        <3> QED
            BY <1>1, <1>3, <2>1, <3>1, CalmStep
    <2> QED
        BY <2>2, <2>3, <2>4
<1>14. CASE KeepaliveWrote
    <2> DEFINE at == IF Ok("keepalive") THEN "tick" ELSE "ended"
    <2>1. /\ EndWrite("keepalive") /\ wire' = wire
          /\ w' = [w EXCEPT !["keepalive"] = [Idle EXCEPT !.at = at]]
        BY <1>14 DEF KeepaliveWrote
    <2>2. at \in {"tick", "ended"}
        OBVIOUS
    <2> HIDE DEF at
    <2> QED
        <3>1. Launched("keepalive")
            BY <2>1, <2>2, LaunchIdle, LaunchAt
        <3> QED
            BY <1>1, <2>1, <3>1, EndWriteFacts, CalmStep
<1>15. CASE stop_inner \/ shutdown
    <2>1. UNCHANGED << gate, w, wire >>
          /\ (conn' = [conn EXCEPT !.stop = TRUE] \/ conn' = [conn EXCEPT !.shutdown = TRUE])
        BY <1>15 DEF stop_inner, shutdown
    <2>2. ConnFields' /\ (conn.send_closed => conn'.send_closed)
        BY <1>2, <2>1 DEF ConnFields
    <2> QED
        BY <2>1, <2>2, StillStep
<1>16. ASSUME NEW t \in Threads, WriteStep(t) PROVE GateInv'
    BY <1>16, BeginWriteStep, WriteAllStep DEF WriteStep
<1>17. CASE UNCHANGED vars
    BY <1>3, <1>17, StillStep DEF vars
<1>18. ReaderStep => read_polled \/ TakeFrame \/ recv_frame \/ ReaderWrote
    BY DEF ReaderStep, next_event, recv_inner, read_message
<1> QED
    BY <1>5, <1>6, <1>7, <1>8, <1>9, <1>10, <1>11, <1>12, <1>13, <1>14, <1>15, <1>16, <1>17,
       <1>18 DEF Next

LEMMA GateInit == Init => GateInv /\ FragsOK
<1> SUFFICES ASSUME Init PROVE GateInv /\ FragsOK
    OBVIOUS
<1>1. ConnFields
    BY DEF Init, ConnFields
<1>2. /\ w = [t \in Threads |-> Idle] /\ wire = <<>>
      /\ wr = [frags |-> <<>>, calls |-> 0]
    BY DEF Init
<1>3. w \in [Threads -> {w[t] : t \in Threads}] /\ \A t \in Threads : w[t] = Idle
    BY <1>2
<1>4. \A t \in Threads : WriteOK(w[t]) /\ ~Holding(t)
    BY <1>3, LaunchIdle DEF Holding, Past, Calm
<1>5. Len(wire) = 0 /\ wire \in Seq({wire[i] : i \in 1 .. Len(wire)})
    BY <1>2
<1>6. NoClose /\ NothingAfterClose
    BY <1>5 DEF NoClose, NothingAfterClose
<1> QED
    BY <1>1, <1>2, <1>3, <1>4, <1>5, <1>6 DEF GateInv, FragsOK

\* For any number of frames, calls and failing writes, in every use of the
\* connection: at most one close frame is put on the wire, and no message,
\* fragment or ping after it (write_unless_closed, write_close, close_gate).
THEOREM CloseIsLast == Spec => []NothingAfterClose
<1>1. Init => GateInv /\ FragsOK
    BY GateInit
<1>2. GateInv /\ FragsOK /\ [Next]_vars => GateInv' /\ FragsOK'
    BY GateNext, FragsNext
<1>3. GateInv => NothingAfterClose
    BY DEF GateInv
<1> QED
    BY <1>1, <1>2, <1>3, PTL DEF Spec

=============================================================================
