------------------------------- MODULE Swarm -------------------------------
(***************************************************************************)
(* The BitTorrent download engine: one engine thread that owns the piece   *)
(* store and hands out pieces, one detached worker thread per peer, one    *)
(* mpsc channel of events to the engine and one inbox per worker, and the  *)
(* resume state that lets a run killed at any point be taken up again.     *)
(* Remote peers are the environment: they send wire messages in any order, *)
(* corrupt data, choke, stall and vanish.                                  *)
(***************************************************************************)
EXTENDS Integers, FiniteSets, Sequences, FiniteSetsExt

CONSTANTS NumPeers,     \* addresses the trackers gave
          NumPieces, NumBlocks,
          MaxPeers,     \* MAX_PEERS
          MaxBusy,      \* max_busy: pieces buffered at once
          MaxStrikes,   \* MAX_STRIKES
          Depth,        \* PIPELINE_DEPTH
          MaxInbound,   \* MAX_INBOUND of the seeding side
          Target,       \* target_upload, in blocks
          MaxFaults,    \* bound: chokes, late haves, resets, bad pieces, disk errors, restarts
          MaxBacklog    \* bound: events queued to the engine and faults so far

ASSUME SwarmAssumption ==
    /\ {NumPeers, NumPieces, NumBlocks, MaxPeers, MaxBusy, MaxStrikes, Depth, MaxInbound}
         \subseteq Nat \ {0}
    /\ {Target, MaxFaults, MaxBacklog} \subseteq Nat /\ MaxFaults < MaxBacklog

Peers == 1..NumPeers
Pieces == 0..(NumPieces - 1)
Blocks == 0..(NumBlocks - 1)
None == -1
Stop == -2

VARIABLES
    run,     \* the engine's loop: pc, live, next (next_peer)
    sw,      \* struct Swarm: peers, assigned, avail (the picker), have
    rx,      \* ToEngine events, oldest first
    inbox,   \* per worker: engine commands (wire input is the environment)
    work,    \* per worker: phase, bf, choked, job
    owed,    \* per remote: <<piece, block>> requests it has not answered or dropped
    disk,    \* per piece: "none", "torn" or "good"
    saved,   \* the bitfield in the resume state, or {}
    published,
    seed,    \* the seeding side: active connections, uploaded blocks
    faults   \* how much of MaxFaults has happened

vars == <<run, sw, rx, inbox, work, owed, disk, saved, published, seed, faults>>

NoJob == [index |-> None, requested |-> {}, filled |-> {}, next |-> 0, outstanding |-> 0]
NewWorker == [phase |-> "new", bf |-> {}, choked |-> FALSE, job |-> NoJob]
NoSwarm == [peers |-> [p \in {} |-> {}], assigned |-> {}, avail |-> [i \in Pieces |-> 0], have |-> {}]
NewPeer(bf) == [bf |-> bf, piece |-> None, unchoked |-> TRUE, strikes |-> 0, bad |-> {}]

Init ==
    /\ run = [pc |-> "start", live |-> 0, next |-> 1]
    /\ sw = NoSwarm
    /\ rx = <<>>
    /\ inbox = [p \in Peers |-> <<>>]
    /\ work = [p \in Peers |-> NewWorker]
    /\ owed = [p \in Peers |-> {}]
    /\ disk = [i \in Pieces |-> "none"]
    /\ saved = {}
    /\ published = FALSE
    /\ seed = [active |-> 0, up |-> 0]
    /\ faults = 0

Fault == faults < MaxFaults /\ faults' = faults + 1

-----------------------------------------------------------------------------
(* The engine's bookkeeping, on S = [peers, assigned, avail, have, inbox, gone]. *)

Engine == [peers |-> sw.peers, assigned |-> sw.assigned, avail |-> sw.avail, have |-> sw.have,
           inbox |-> inbox, gone |-> {p \in Peers : work[p].phase = "gone"}]

\* `step` for each of the peers in `order`, one after the other.
InTurn(step(_, _), S, order) ==
    LET upto[n \in 0..Len(order)] == IF n = 0 THEN S ELSE step(upto[n - 1], order[n])
    IN  upto[Len(order)]

busy(S) == Cardinality({p \in DOMAIN S.peers : S.peers[p].piece # None})

Least(set, key(_)) ==
    CHOOSE i \in set : \A j \in set : key(i) < key(j) \/ (key(i) = key(j) /\ i <= j)

\* The picker counts, per piece, the known peers that have it.
add_bitfield(avail, bf) == [i \in Pieces |-> IF i \in bf THEN avail[i] + 1 ELSE avail[i]]
add_have(avail, i) == [avail EXCEPT ![i] = @ + 1]
remove_bitfield(avail, bf) ==
    [i \in Pieces |-> IF i \in bf /\ avail[i] > 0 THEN avail[i] - 1 ELSE avail[i]]

\* Rarest piece that is lacking, offered and not in flight; ties by index.
pick(S, bf) ==
    LET free == bf \ (S.have \cup S.assigned)
        Availability(i) == S.avail[i]
    IN  IF free = {} THEN None ELSE Least(free, Availability)

\* The in-flight piece with the fewest peers on it.
endgame_pick(S, bf) ==
    LET dup == (S.assigned \cap bf) \ S.have
        Holders(i) == Cardinality({p \in DOMAIN S.peers : S.peers[p].piece = i})
    IN  IF dup = {} THEN None ELSE Least(dup, Holders)

\* A send to a worker that has exited fails and assigns nothing.
assign(S, p) ==
    IF \/ S.have = Pieces \/ busy(S) >= MaxBusy
       \/ p \notin DOMAIN S.peers \/ p \in S.gone
    THEN S
    ELSE LET ps    == S.peers[p]
             bf    == ps.bf \ ps.bad
             fresh == pick(S, bf)
             tail  == Cardinality(S.have) + Cardinality(S.assigned) >= NumPieces
             idx   == IF fresh = None /\ tail THEN endgame_pick(S, bf) ELSE fresh
         IN  IF ~ps.unchoked \/ ps.piece # None \/ idx = None THEN S
             ELSE [S EXCEPT !.peers[p].piece = idx,
                            !.inbox[p] = Append(@, idx),
                            !.assigned = @ \cup {idx}]

assign_idle(S) ==
    LET idle == {p \in DOMAIN S.peers : S.peers[p].piece = None /\ S.peers[p].unchoked}
        assignIf(T, p) == IF p \in idle THEN assign(T, p) ELSE T
    IN  InTurn(assignIf, S, [p \in Peers |-> p])

release_Always(S, i) == [S EXCEPT !.assigned = @ \ {i}]

release(S, i) ==
    IF \E p \in DOMAIN S.peers : S.peers[p].piece = i THEN S
    ELSE [S EXCEPT !.assigned = @ \ {i}]

clear_piece(S, p, i) ==
    release(IF p \in DOMAIN S.peers /\ S.peers[p].piece = i
            THEN [S EXCEPT !.peers[p].piece = None] ELSE S, i)

gone(S, p) ==
    IF p \notin DOMAIN S.peers THEN assign_idle(S)
    ELSE LET ps == S.peers[p]
             T  == [S EXCEPT !.peers = [q \in DOMAIN @ \ {p} |-> @[q]],
                             !.avail = remove_bitfield(@, ps.bf)]
         IN  assign_idle(IF ps.piece = None THEN T ELSE release(T, ps.piece))

stop(S, p) == IF p \in S.gone THEN S ELSE [S EXCEPT !.inbox[p] = Append(@, Stop)]

strike(S, p, i) ==
    IF p \notin DOMAIN S.peers THEN S
    ELSE LET T == [S EXCEPT !.peers[p].strikes = @ + 1, !.peers[p].bad = @ \cup {i}]
         IN  IF T.peers[p].strikes >= MaxStrikes THEN gone(stop(T, p), p) ELSE T

(* handle(), one branch per event; PieceDone is split by what write_piece answers. *)

Joined(S, ev) ==
    assign([S EXCEPT !.peers = [q \in DOMAIN @ \cup {ev.peer} |-> IF q = ev.peer THEN NewPeer(ev.bf) ELSE @[q]],
                     !.avail = add_bitfield(@, ev.bf)],
           ev.peer)

Have(S, ev) ==
    IF ev.peer \notin DOMAIN S.peers \/ ev.index \in S.peers[ev.peer].bf THEN S
    ELSE LET T == [S EXCEPT !.peers[ev.peer].bf = @ \cup {ev.index},
                            !.avail = add_have(@, ev.index)]
         IN  IF ev.index \in S.have THEN T ELSE assign(T, ev.peer)

Choked(S, ev) ==
    IF ev.peer \notin DOMAIN S.peers THEN S
    ELSE [S EXCEPT !.peers[ev.peer].unchoked = FALSE]

Unchoked(S, ev) ==
    IF ev.peer \notin DOMAIN S.peers THEN S
    ELSE assign([S EXCEPT !.peers[ev.peer].unchoked = TRUE], ev.peer)

\* Bytes that hash right are written out, then counted (the write itself is in Writes).
write_piece(S, i) == [S EXCEPT !.have = @ \cup {i}, !.assigned = @ \ {i}]

PieceDone_Unverified(S, ev) ==
    LET C == clear_piece(S, ev.peer, ev.index)
        W == IF ev.index \in C.have THEN C ELSE write_piece(C, ev.index)
    IN  assign_idle(assign(W, ev.peer))

PieceDone(S, ev) ==
    LET C == clear_piece(S, ev.peer, ev.index)
        W == IF ev.index \in C.have THEN C
             ELSE IF ev.ok THEN write_piece(C, ev.index) ELSE strike(C, ev.peer, ev.index)
    IN  assign_idle(assign(W, ev.peer))

Released(S, ev) ==
    LET C == clear_piece(S, ev.peer, ev.index)
    IN  assign_idle(IF ev.peer \in DOMAIN C.peers
                    THEN [C EXCEPT !.peers[ev.peer].unchoked = FALSE] ELSE C)

handle(S, ev) ==
    CASE ev.type = "Joined"    -> Joined(S, ev)
      [] ev.type = "Have"      -> Have(S, ev)
      [] ev.type = "Choked"    -> Choked(S, ev)
      [] ev.type = "Unchoked"  -> Unchoked(S, ev)
      [] ev.type = "PieceDone" -> PieceDone(S, ev)
      [] ev.type = "Released"  -> Released(S, ev)
      [] ev.type = "Gone"      -> gone(S, ev.peer)

\* The piece whose verified bytes the event makes handle() write, if any.
Writes(ev) == IF ev.type = "PieceDone" /\ ev.ok /\ ev.index \notin sw.have
              THEN {ev.index} ELSE {}

-----------------------------------------------------------------------------
(* run(): start, one iteration per event or timeout, and the exits. *)

spawn_more(r) ==
    LET k == Min({MaxPeers - r.live, NumPeers + 1 - r.next})
    IN  [r EXCEPT !.next = @ + k, !.live = @ + k]

Spawned(r) == [p \in Peers |-> IF work[p].phase = "new" /\ p < r.next
                               THEN [work[p] EXCEPT !.phase = "join"] ELSE work[p]]

Store(S) == [peers |-> S.peers, assigned |-> S.assigned, avail |-> S.avail, have |-> S.have]

\* The pieces a matching trailer vouches for, and the ones whose bytes hash right.
restore_have == saved
recheck == {i \in Pieces : disk[i] = "good"}

\* download(): restore the bitfield, trusting the trailer or with --recheck.
Start ==
    /\ run.pc = "start"
    /\ \E have \in {restore_have, recheck} : sw' = [sw EXCEPT !.have = have]
    /\ run' = IF sw'.have = Pieces THEN [run EXCEPT !.pc = "loop"]
              ELSE spawn_more([run EXCEPT !.pc = "loop"])
    /\ work' = Spawned(run')
    /\ UNCHANGED <<rx, inbox, owed, disk, saved, published, seed, faults>>

Looping == run.pc = "loop" /\ sw.have # Pieces /\ ~(run.live = 0 /\ run.next > NumPeers)

\* evict_idle stops a stale peer and gives its piece back at once.
evict(S, p) == gone(stop(S, p), p)

\* The orders in which a hash map may hand out T.
Orders(T) == {q \in [1..Cardinality(T) -> T] : \A m, n \in DOMAIN q : q[m] = q[n] => m = n}

\* The loop's tail: periodic save, eviction while untried peers are queued, stall.
\* Which timers have run out is the environment's choice.
LoopTail(S, r) ==
    \E stale \in SUBSET {p \in DOMAIN S.peers : S.peers[p].piece = None},
       save \in BOOLEAN, stalled \in BOOLEAN :
       \E order \in Orders(stale) :
        LET T == InTurn(evict, S, order)
        IN  /\ r.next > NumPeers => stale = {}
            /\ stalled => busy(T) = 0
            /\ save => faults < MaxFaults   \* otherwise nothing is left to read it
            /\ sw' = Store(T)
            /\ inbox' = T.inbox
            /\ saved' = IF save \/ stalled THEN S.have ELSE saved
            /\ run' = IF stalled THEN [r EXCEPT !.pc = "failed"] ELSE r

HandleEvent ==
    /\ Looping /\ rx # <<>>
    /\ LET ev == Head(rx)
           S  == handle(Engine, ev)
           r  == IF ev.type = "Gone" THEN spawn_more([run EXCEPT !.live = @ - 1]) ELSE run
       IN  /\ LoopTail(S, r)
           /\ work' = Spawned(r)
           /\ disk' = [i \in Pieces |-> IF i \in Writes(ev) THEN "good" ELSE disk[i]]
    /\ rx' = Tail(rx)
    /\ UNCHANGED <<owed, published, seed, faults>>

\* A disk error while writing a piece ends the run; download() saves and returns it.
DiskError ==
    /\ Looping /\ rx # <<>> /\ Writes(Head(rx)) # {} /\ Fault
    /\ disk' = [disk EXCEPT ![Head(rx).index] = "torn"]
    /\ sw' = Store(clear_piece(Engine, Head(rx).peer, Head(rx).index))
    /\ saved' = sw.have
    /\ run' = [run EXCEPT !.pc = "failed"]
    /\ UNCHANGED <<rx, inbox, work, owed, published, seed>>

RecvTimeout ==
    /\ Looping /\ rx = <<>>
    /\ LoopTail(Engine, run)
    /\ UNCHANGED <<rx, work, owed, disk, published, seed, faults>>

Exhausted ==
    /\ run.pc = "loop" /\ sw.have # Pieces /\ run.live = 0 /\ run.next > NumPeers
    /\ run' = [run EXCEPT !.pc = "failed"]
    /\ saved' = sw.have
    /\ UNCHANGED <<sw, rx, inbox, work, owed, disk, published, seed, faults>>

\* stop_all, then finalize_files cuts the part file to its size, trailer and all.
Complete ==
    /\ run.pc = "loop" /\ sw.have = Pieces
    /\ run' = [run EXCEPT !.pc = "complete"]
    /\ saved' = {}
    /\ UNCHANGED <<sw, rx, inbox, work, owed, disk, published, seed, faults>>

\* resume::finalize renames the part file; a seeding run goes on from the final one.
Publish ==
    /\ run.pc = "complete"
    /\ published' = TRUE
    /\ \E pc \in {"done", "seeding"} : run' = [run EXCEPT !.pc = pc]
    /\ UNCHANGED <<sw, rx, inbox, work, owed, disk, saved, seed, faults>>

\* The process dies (possibly inside write_piece) or a failed run is started again.
Restart ==
    /\ run.pc \in {"loop", "complete", "failed"} /\ Fault
    /\ \E torn \in SUBSET (IF run.pc = "loop" /\ rx # <<>> THEN Writes(Head(rx)) ELSE {}) :
         disk' = [i \in Pieces |-> IF i \in torn THEN "torn" ELSE disk[i]]
    /\ run' = [pc |-> "start", live |-> 0, next |-> 1]
    /\ sw' = NoSwarm
    /\ rx' = <<>>
    /\ inbox' = [p \in Peers |-> <<>>]
    /\ work' = [p \in Peers |-> NewWorker]
    /\ owed' = [p \in Peers |-> {}]
    /\ UNCHANGED <<saved, published, seed>>

-----------------------------------------------------------------------------
(* One peer's worker. Wire input may come at any moment while it is connected. *)

Running(p, phase) == run.pc = "loop" /\ work[p].phase = phase

Send(ev) == Len(rx) + faults < MaxBacklog /\ rx' = Append(rx, ev)

WorkerUnchanged == UNCHANGED <<run, sw, disk, saved, published, seed>>

\* Every way out of run_peer is followed by Gone; dropping the inbox loses commands.
Exit(p) ==
    /\ work' = [work EXCEPT ![p] = [NewWorker EXCEPT !.phase = "gone"]]
    /\ inbox' = [inbox EXCEPT ![p] = <<>>]
    /\ owed' = [owed EXCEPT ![p] = {}]
    /\ Send([type |-> "Gone", peer |-> p])
    /\ WorkerUnchanged

\* Handshake and phase 1: the pieces announced before the first unchoke.
Join(p) ==
    /\ Running(p, "join")
    /\ \E bf \in SUBSET Pieces :
         /\ work' = [work EXCEPT ![p].phase = "serve", ![p].bf = bf]
         /\ Send([type |-> "Joined", peer |-> p, bf |-> bf])
    /\ WorkerUnchanged /\ UNCHANGED <<inbox, owed, faults>>

\* No connection, wrong infohash, a bad message, or no unchoke before the deadline.
JoinFails(p) == Running(p, "join") /\ Exit(p) /\ UNCHANGED faults

\* Request blocks from the cursor on while the window has room.
pump(j) ==
    LET room == Depth - j.outstanding
        free == (j.next..(NumBlocks - 1)) \ (j.filled \cup j.requested)
        ask  == {b \in free : Cardinality({c \in free : c < b}) < room}
    IN  IF room <= 0 THEN j
        ELSE [j EXCEPT !.requested = @ \cup ask,
                       !.outstanding = @ + Cardinality(ask),
                       !.next = IF Cardinality(free) < room THEN NumBlocks ELSE Max(ask) + 1]

Ask(p, old, j) ==
    owed' = [owed EXCEPT ![p] = @ \cup {<<j.index, b>> : b \in j.requested \ old.requested}]

TakeAssign(p) ==
    /\ Running(p, "serve") /\ inbox[p] # <<>> /\ Head(inbox[p]) # Stop
    /\ LET new == [NoJob EXCEPT !.index = Head(inbox[p])]
           j   == IF work[p].choked THEN new ELSE pump(new)
       IN  work' = [work EXCEPT ![p].job = j] /\ Ask(p, new, j)
    /\ inbox' = [inbox EXCEPT ![p] = Tail(@)]
    /\ WorkerUnchanged /\ UNCHANGED <<rx, faults>>

TakeStop(p) ==
    Running(p, "serve") /\ inbox[p] # <<>> /\ Head(inbox[p]) = Stop /\ Exit(p) /\ UNCHANGED faults

\* A reset, an out-of-range have, a malformed or second bitfield.
WireErr(p) == Running(p, "serve") /\ Exit(p) /\ Fault

on_choke(j) == [j EXCEPT !.requested = @ \cap j.filled, !.outstanding = 0, !.next = 0]

WireChoke(p) ==
    /\ Running(p, "serve") /\ ~work[p].choked /\ Fault
    /\ work' = [work EXCEPT ![p].choked = TRUE, ![p].job = on_choke(@)]
    /\ owed' = [owed EXCEPT ![p] = {}]
    /\ Send([type |-> "Choked", peer |-> p])
    /\ WorkerUnchanged /\ UNCHANGED inbox

WireUnchoke(p) ==
    /\ Running(p, "serve") /\ work[p].choked
    /\ LET old == work[p].job
           j   == IF old.index = None THEN old ELSE pump(old)
       IN  work' = [work EXCEPT ![p].choked = FALSE, ![p].job = j] /\ Ask(p, old, j)
    /\ Send([type |-> "Unchoked", peer |-> p])
    /\ WorkerUnchanged /\ UNCHANGED <<inbox, faults>>

\* A have, or a late bitfield reported as the haves it adds.
WireHave(p) ==
    /\ Running(p, "serve")
    /\ \E i \in Pieces \ work[p].bf :
         /\ work' = [work EXCEPT ![p].bf = @ \cup {i}]
         /\ Send([type |-> "Have", peer |-> p, index |-> i])
    /\ Fault /\ WorkerUnchanged /\ UNCHANGED <<inbox, owed>>

on_block(j, b) ==
    [j EXCEPT !.filled = @ \cup {b},
              !.outstanding = IF b \in j.requested /\ @ > 0 THEN @ - 1 ELSE @]

\* A block of the current piece, asked for or not; others change nothing.
WireBlock(p) ==
    /\ Running(p, "serve") /\ work[p].job.index # None
    /\ \E b \in Blocks \ work[p].job.filled, ok \in BOOLEAN :
         LET old  == work[p].job
             got  == on_block(old, b)
             done == got.filled = Blocks
             j    == IF done THEN NoJob ELSE IF work[p].choked THEN got ELSE pump(got)
         IN  /\ work' = [work EXCEPT ![p].job = j]
             /\ owed' = [owed EXCEPT ![p] = (@ \ {<<old.index, b>>}) \cup
                             {<<old.index, c>> : c \in j.requested \ old.requested}]
             /\ IF done
                THEN Send([type |-> "PieceDone", peer |-> p, index |-> old.index, ok |-> ok])
                ELSE UNCHANGED rx
             /\ IF ok /\ <<old.index, b>> \in owed[p] THEN UNCHANGED faults ELSE Fault
             /\ ok \/ done
    /\ WorkerUnchanged /\ UNCHANGED inbox

Deadline_NotWhenChoked(p) ==
    /\ Running(p, "serve") /\ work[p].job.index # None /\ ~work[p].choked
    /\ Exit(p) /\ UNCHANGED faults

\* peer_timeout with a piece in hand: hand it back if choked, give up if stalled.
Deadline(p) ==
    /\ Running(p, "serve") /\ work[p].job.index # None
    /\ IF work[p].choked
       THEN /\ work' = [work EXCEPT ![p].job = NoJob]
            /\ Send([type |-> "Released", peer |-> p, index |-> work[p].job.index])
            /\ WorkerUnchanged /\ UNCHANGED <<inbox, owed, faults>>
       ELSE Exit(p) /\ UNCHANGED faults

-----------------------------------------------------------------------------
(* Seeding: one thread per inbound connection, a bounded number of them. *)

SeedUnchanged == UNCHANGED <<sw, rx, inbox, work, owed, disk, saved, published, faults>>

claim_slot == seed.active < MaxInbound /\ seed' = [seed EXCEPT !.active = @ + 1]

SeedAccept == run.pc = "seeding" /\ seed.up < Target /\ claim_slot /\ UNCHANGED run /\ SeedUnchanged

\* serve(): a request in range is read from the store, sent, then counted.
SeedServe ==
    /\ run.pc = "seeding" /\ seed.active > 0 /\ seed.up < Target + MaxInbound
    /\ seed' = [seed EXCEPT !.up = @ + 1]
    /\ UNCHANGED run /\ SeedUnchanged

ConnSlotDrop ==
    /\ run.pc = "seeding" /\ seed.active > 0
    /\ seed' = [seed EXCEPT !.active = @ - 1]
    /\ UNCHANGED run /\ SeedUnchanged

SeedDone ==
    /\ run.pc = "seeding" /\ seed.up >= Target
    /\ run' = [run EXCEPT !.pc = "done"]
    /\ UNCHANGED seed /\ SeedUnchanged

Ended == run.pc \in {"done", "failed"} /\ UNCHANGED vars

Engine_Next == Start \/ HandleEvent \/ DiskError \/ RecvTimeout \/ Exhausted \/ Complete \/ Publish

Worker_Next(p) ==
    \/ Join(p) \/ JoinFails(p) \/ TakeAssign(p) \/ TakeStop(p) \/ WireErr(p) \/ WireChoke(p)
    \/ WireUnchoke(p) \/ WireHave(p) \/ WireBlock(p) \/ Deadline(p)

Next ==
    \/ Engine_Next \/ Restart \/ Ended
    \/ \E p \in Peers : Worker_Next(p)
    \/ SeedAccept \/ SeedServe \/ ConnSlotDrop \/ SeedDone

\* Weak fairness of the two loop iterations, with the enabling condition and the visible
\* effect spelled out: TLC evaluates them far faster than ENABLED of handle().
EngineServes == []<>~(Looping /\ rx # <<>>) \/ []<><<Len(rx') < Len(rx)>>_vars
StallTimer == []<>~(Looping /\ rx = <<>> /\ busy(sw) = 0) \/ []<><<run'.pc = "failed">>_vars

\* The engine loops on its own, and its stall timer runs out when nothing resets it; a
\* worker's inbox and its deadlines are served whatever the remote does.
Fairness ==
    /\ WF_vars(Start) /\ WF_vars(Exhausted) /\ WF_vars(Complete)
    /\ EngineServes /\ StallTimer
    /\ \A p \in Peers :
        /\ WF_vars(TakeAssign(p) \/ TakeStop(p))
        /\ WF_vars(JoinFails(p) \/ Deadline(p))

Spec == Init /\ [][Next]_vars /\ Fairness

-----------------------------------------------------------------------------
Events(p, types) == {k \in 1..Len(rx) : rx[k].peer = p /\ rx[k].type \in types}

\* Everything the swarm records about pieces stays in step through joins, bans, evictions,
\* endgame duplicates and late events: `assigned` is exactly the lacking pieces some known
\* peer is on, the picker's counters are the known bitfields' sums, at most max_busy
\* pieces are buffered, and `live` counts the workers whose Gone is still to come.
LedgersExact ==
    run.pc = "loop" =>
        LET known == DOMAIN sw.peers IN
        /\ sw.assigned = {sw.peers[p].piece : p \in known} \ ({None} \cup sw.have)
        /\ \A i \in Pieces : sw.avail[i] = Cardinality({p \in known : i \in sw.peers[p].bf})
        /\ busy(Engine) <= MaxBusy
        /\ run.live = Cardinality({p \in Peers : \/ work[p].phase \in {"join", "serve"}
                                                 \/ Events(p, {"Gone"}) # {}})
        /\ run.live <= MaxPeers

\* The piece the engine charges a peer with is in exactly one place: a command in its
\* inbox, the worker's job, or an event on its way back. No Assign ever overwrites a job,
\* and a choke, release or ban crossing an assignment loses none (engine.rs run_peer,
\* clear_piece). A worker the engine does not know has nothing, or was just told to stop:
\* evict_idle can stop a peer that it gave a piece to while it evicted another one.
OnePlaceEach ==
    run.pc = "loop" =>
        \A p \in Peers :
            LET job     == IF work[p].job.index = None THEN {} ELSE {work[p].job.index}
                ordered == {k \in 1..Len(inbox[p]) : inbox[p][k] # Stop}
                back    == Events(p, {"PieceDone", "Released"})
                places  == Cardinality(job) + Cardinality(ordered) + Cardinality(back)
            IN  work[p].phase = "serve" =>
                IF p \in DOMAIN sw.peers
                THEN LET charged == sw.peers[p].piece IN
                     /\ places = IF charged = None THEN 0 ELSE 1
                     /\ job \cup {inbox[p][k] : k \in ordered} \cup {rx[k].index : k \in back}
                          \subseteq {charged}
                ELSE places = 0 \/ (places = 1 /\ \E k \in 1..Len(inbox[p]) : inbox[p][k] = Stop)

\* An unchoked worker with a piece in hand is never waiting for a block it has not asked
\* for: some missing block is owed by the remote, chokes having dropped what was asked
\* before them, and never more than PIPELINE_DEPTH are (Job::pump, on_choke, on_block).
AlwaysAsking ==
    \A p \in Peers :
        LET j == work[p].job IN
        /\ Cardinality(owed[p]) <= Depth
        /\ j.index # None /\ ~work[p].choked => \E b \in Blocks \ j.filled : <<j.index, b>> \in owed[p]

\* Engine and workers agree about every piece, and every piece in hand is asked for.
SwarmSound == LedgersExact /\ OnePlaceEach /\ AlwaysAsking

\* What a run may count as had, what the saved bitfield vouches for and what gets the final
\* name are pieces whose verified bytes are whole on disk, through torn writes, disk
\* errors, crashes at any step and restarts that trust the trailer (storage.rs
\* restore_have: "pieces were verified before being recorded").
OnlyVerifiedCounts ==
    LET good == {i \in Pieces : disk[i] = "good"} IN
    sw.have \subseteq good /\ saved \subseteq good /\ (published => good = Pieces)

\* The engine's loop ends, with the torrent or with an error, whatever the peers do,
\* provided they stop choking at some point.
SwarmEnds == run.pc = "loop" ~> run.pc # "loop"
=============================================================================
