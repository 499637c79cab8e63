------------------------------- MODULE Multi -------------------------------
(***************************************************************************)
(* The thread-backed multi-transfer driver of src/multi.rs.                *)
(*                                                                         *)
(* One caller thread owns the handle; `perform` starts one worker thread   *)
(* per queued request; a worker posts one completion on an mpsc channel    *)
(* and exits.  The caller drains the channel one message at a time and     *)
(* joins the worker of every message it takes, so a post, the exit of the  *)
(* posting thread and the caller's drain are separate steps here.          *)
(*                                                                         *)
(* Abstracted: requests and responses (a completion is its id and whether  *)
(* it is Ok or Err), the order of the two Vecs (pending, workers), which   *)
(* no operation depends on.                                                *)
(***************************************************************************)
EXTENDS Integers, Sequences, FiniteSets

CONSTANT MaxTransfers       \* bound on the number of `add` calls

ASSUME MaxTransfersAssumption == MaxTransfers \in Nat

Ids == 0 .. MaxTransfers - 1

Outcomes == {"ok", "err", "panic"}     \* how Request::send may end in a worker

Completions == [id : Ids, res : {"ok", "err"}]

VARIABLES
    next_id,    \* the id the next `add` returns
    pending,    \* added, not started
    thread,     \* per id: "none", "sending", "posted" (tx.send done), "exited"
    chan,       \* the mpsc channel
    workers,    \* ids whose JoinHandle the handle still holds
    running,    \* the counter of that name
    ready,      \* drained completions
    pc,         \* where the caller's thread is
    after,      \* where it goes when drain_ready finds the channel empty
    op,         \* the public call being executed
    held,       \* the completion taken from the channel, being joined
    ret,        \* what the last `poll` returned
    delivered,  \* history: completions handed to the caller, in order
    removed     \* history: ids dropped with `remove`

vars == << next_id, pending, thread, chan, workers, running, ready, pc, after,
           op, held, ret, delivered, removed >>

Afters == {"performed", "pop", "poll_check", "poll_true"}
Ops    == {"none", "perform", "poll", "poll_timeout", "next", "wait_all"}
NoCompletion == [id |-> -1, res |-> "err"]

Init ==
    /\ next_id = 0
    /\ pending = {}
    /\ thread = [i \in Ids |-> "none"]
    /\ chan = << >>
    /\ workers = {}
    /\ running = 0
    /\ ready = << >>
    /\ pc = "idle"
    /\ after = "performed"
    /\ op = "none"
    /\ held = NoCompletion
    /\ ret = "none"
    /\ delivered = << >>
    /\ removed = {}

-----------------------------------------------------------------------------
(* The worker threads. *)

\* catch_unwind(..).unwrap_or_else(..): a panic becomes an Err completion.
CatchUnwind(o) == IF o = "panic" THEN "err" ELSE o

\* Mutant: the panic is not caught and the thread dies without posting.
WorkerPostUncaught(i) ==
    /\ thread[i] = "sending"
    /\ \E o \in Outcomes :
          IF o = "panic"
          THEN /\ thread' = [thread EXCEPT ![i] = "exited"]
               /\ UNCHANGED chan
          ELSE /\ thread' = [thread EXCEPT ![i] = "posted"]
               /\ chan' = Append(chan, [id |-> i, res |-> o])
    /\ UNCHANGED << next_id, pending, workers, running, ready, pc, after, op,
                    held, ret, delivered, removed >>

\* The transfer ends, in whatever way, and its completion is posted.
WorkerPost(i) ==
    /\ thread[i] = "sending"
    /\ \E o \in Outcomes :
          chan' = Append(chan, [id |-> i, res |-> CatchUnwind(o)])
    /\ thread' = [thread EXCEPT ![i] = "posted"]
    /\ UNCHANGED << next_id, pending, workers, running, ready, pc, after, op,
                    held, ret, delivered, removed >>

WorkerExit(i) ==
    /\ thread[i] = "posted"
    /\ thread' = [thread EXCEPT ![i] = "exited"]
    /\ UNCHANGED << next_id, pending, chan, workers, running, ready, pc, after,
                    op, held, ret, delivered, removed >>

-----------------------------------------------------------------------------
(* Public calls: what the caller may do when it is not inside one. *)

AddCall ==
    /\ pc = "idle"
    /\ next_id < MaxTransfers
    /\ pending' = pending \cup {next_id}
    /\ next_id' = next_id + 1
    /\ ret' = "none"
    /\ UNCHANGED << thread, chan, workers, running, ready, pc, after, op, held,
                    delivered, removed >>

\* remove(id): only a transfer that is still pending is dropped.
RemoveCall(i) ==
    /\ pc = "idle"
    /\ i \in pending
    /\ pending' = pending \ {i}
    /\ removed' = removed \cup {i}
    /\ ret' = "none"
    /\ UNCHANGED << next_id, thread, chan, workers, running, ready, pc, after,
                    op, held, delivered >>

\* perform, wait_all start with the spawn loop; poll, next_completed with a
\* drain.
Call(o) ==
    /\ pc = "idle"
    /\ op' = o
    /\ ret' = "none"
    /\ \/ /\ o \in {"perform", "wait_all"}
          /\ pc' = "spawn"
          /\ UNCHANGED after
       \/ /\ o \in {"poll", "poll_timeout"}
          /\ pc' = "drain"
          /\ after' = "poll_check"
       \/ /\ o = "next"
          /\ pc' = "drain"
          /\ after' = "pop"
    /\ UNCHANGED << next_id, pending, thread, chan, workers, running, ready,
                    held, delivered, removed >>

-----------------------------------------------------------------------------
(* Inside a call. *)

\* One round of the loop over pending.drain(..).
Spawn ==
    /\ pc = "spawn"
    /\ pending # {}
    /\ \E i \in pending :
          /\ pending' = pending \ {i}
          /\ thread' = [thread EXCEPT ![i] = "sending"]
          /\ workers' = workers \cup {i}
    /\ running' = running + 1
    /\ UNCHANGED << next_id, chan, ready, pc, after, op, held, ret, delivered,
                    removed >>

SpawnDone ==
    /\ pc = "spawn"
    /\ pending = {}
    /\ pc' = "drain"
    /\ after' = "performed"
    /\ UNCHANGED << next_id, pending, thread, chan, workers, running, ready,
                    op, held, ret, delivered, removed >>

\* Mutant: the message is looked at and left in the channel.
TryRecvPeek ==
    /\ pc = "drain"
    /\ chan # << >>
    /\ held' = Head(chan)
    /\ pc' = "join"
    /\ UNCHANGED << next_id, pending, thread, chan, workers, running, ready,
                    after, op, ret, delivered, removed >>

\* drain_ready: try_recv returned a message, or the channel is empty.
TryRecv ==
    /\ pc = "drain"
    /\ chan # << >>
    /\ held' = Head(chan)
    /\ chan' = Tail(chan)
    /\ pc' = "join"
    /\ UNCHANGED << next_id, pending, thread, workers, running, ready, after,
                    op, ret, delivered, removed >>

TryRecvEmpty ==
    /\ pc = "drain"
    /\ chan = << >>
    /\ pc' = after
    /\ UNCHANGED << next_id, pending, thread, chan, workers, running, ready,
                    after, op, held, ret, delivered, removed >>

\* join_worker blocks until the posting thread is gone; then the counter and
\* the ready queue are updated.  Shared by drain_ready and by poll, which
\* both continue with drain_ready.
JoinWorker ==
    /\ pc = "join"
    /\ held.id \in workers => thread[held.id] = "exited"
    /\ workers' = workers \ {held.id}
    /\ running' = running - 1
    /\ ready' = Append(ready, held)
    /\ held' = NoCompletion
    /\ pc' = "drain"
    /\ UNCHANGED << next_id, pending, thread, chan, after, op, ret, delivered,
                    removed >>

\* perform returns; wait_all goes on with next_completed.
Performed ==
    /\ pc = "performed"
    /\ IF op = "wait_all"
       THEN /\ pc' = "drain"
            /\ after' = "pop"
            /\ UNCHANGED op
       ELSE /\ pc' = "idle"
            /\ op' = "none"
            /\ UNCHANGED after
    /\ UNCHANGED << next_id, pending, thread, chan, workers, running, ready,
                    held, ret, delivered, removed >>

\* next_completed after its drain; wait_all keeps popping until it is None.
Pop ==
    /\ pc = "pop"
    /\ ready # << >>
    /\ delivered' = Append(delivered, Head(ready))
    /\ ready' = Tail(ready)
    /\ IF op = "wait_all"
       THEN pc' = "drain" /\ UNCHANGED << after, op >>
       ELSE pc' = "idle" /\ op' = "none" /\ UNCHANGED after
    /\ UNCHANGED << next_id, pending, thread, chan, workers, running, held,
                    ret, removed >>

\* Mutant: wait_all stops at the first empty ready queue.
PopNoneBreaks ==
    /\ pc = "pop"
    /\ ready = << >>
    /\ pc' = "idle"
    /\ op' = "none"
    /\ ret' = IF op = "wait_all" THEN "all" ELSE ret
    /\ UNCHANGED << next_id, pending, thread, chan, workers, running, ready,
                    after, held, delivered, removed >>

\* next_completed is None: next returns; wait_all breaks when nothing runs and
\* otherwise calls poll(None).
PopNone ==
    /\ pc = "pop"
    /\ ready = << >>
    /\ IF op = "wait_all" /\ running > 0
       THEN /\ pc' = "drain"
            /\ after' = "poll_check"
            /\ UNCHANGED << op, ret >>
       ELSE /\ pc' = "idle"
            /\ op' = "none"
            /\ ret' = IF op = "wait_all" THEN "all" ELSE ret
            /\ UNCHANGED after
    /\ UNCHANGED << next_id, pending, thread, chan, workers, running, ready,
                    held, delivered, removed >>

\* Where poll's return value b goes: back to the caller, or to wait_all, which
\* ignores it and loops to next_completed.
PollReturns(b) ==
    IF op = "wait_all"
    THEN /\ pc' = "drain"
         /\ after' = "pop"
         /\ UNCHANGED << op, ret >>
    ELSE /\ pc' = "idle"
         /\ op' = "none"
         /\ ret' = IF b THEN "true" ELSE "false"
         /\ UNCHANGED after

PollCheck ==
    /\ pc = "poll_check"
    /\ IF ready # << >> THEN PollReturns(TRUE)
       ELSE IF running = 0 THEN PollReturns(FALSE)
       ELSE pc' = "recv" /\ UNCHANGED << after, op, ret >>
    /\ UNCHANGED << next_id, pending, thread, chan, workers, running, ready,
                    held, delivered, removed >>

\* The blocking recv got a message; after its join poll drains once more and
\* returns true.
Recv ==
    /\ pc = "recv"
    /\ chan # << >>
    /\ held' = Head(chan)
    /\ chan' = Tail(chan)
    /\ pc' = "join"
    /\ after' = "poll_true"
    /\ UNCHANGED << next_id, pending, thread, workers, running, ready, op, ret,
                    delivered, removed >>

\* recv_timeout gave up (poll(None) has no timeout).
RecvTimeout ==
    /\ pc = "recv"
    /\ op = "poll_timeout"
    /\ chan = << >>
    /\ PollReturns(FALSE)
    /\ UNCHANGED << next_id, pending, thread, chan, workers, running, ready,
                    held, delivered, removed >>

PollTrue ==
    /\ pc = "poll_true"
    /\ PollReturns(TRUE)
    /\ UNCHANGED << next_id, pending, thread, chan, workers, running, ready,
                    held, delivered, removed >>

-----------------------------------------------------------------------------
(* Drop for Multi: join every worker still held. *)

DropCall ==
    /\ pc = "idle"
    /\ pc' = "dropping"
    /\ op' = "none"
    /\ UNCHANGED << next_id, pending, thread, chan, workers, running, ready,
                    after, held, ret, delivered, removed >>

DropJoin ==
    /\ pc = "dropping"
    /\ IF workers = {}
       THEN pc' = "dropped" /\ UNCHANGED workers
       ELSE /\ \E i \in workers :
                  thread[i] = "exited" /\ workers' = workers \ {i}
            /\ UNCHANGED pc
    /\ UNCHANGED << next_id, pending, thread, chan, running, ready, after, op,
                    held, ret, delivered, removed >>

Dropped ==
    /\ pc = "dropped"
    /\ UNCHANGED vars

-----------------------------------------------------------------------------
Worker(i) == WorkerPost(i) \/ WorkerExit(i)

InCall ==
    \/ Spawn \/ SpawnDone
    \/ TryRecv \/ TryRecvEmpty \/ JoinWorker
    \/ Performed \/ Pop \/ PopNone
    \/ PollCheck \/ Recv \/ RecvTimeout \/ PollTrue
    \/ DropJoin

Calls ==
    \/ AddCall
    \/ \E i \in Ids : RemoveCall(i)
    \/ \E o \in Ops \ {"none"} : Call(o)
    \/ DropCall

Next ==
    \/ \E i \in Ids : Worker(i)
    \/ InCall
    \/ Calls
    \/ Dropped

\* A worker's transfer is bounded by its timeouts, and a thread inside a call
\* that is not blocked runs: weak fairness on both, none on the caller's choice
\* to make a call.
Fairness ==
    /\ \A i \in Ids : WF_vars(Worker(i))
    /\ WF_vars(InCall)

Spec == Init /\ [][Next]_vars

FairSpec == Spec /\ Fairness

-----------------------------------------------------------------------------
(* Properties. *)

\* Every variable stays in its type; `running` is a usize, so the subtraction
\* in drain_ready and poll never wraps below zero.
TypeOK ==
    /\ next_id \in 0 .. MaxTransfers
    /\ pending \in SUBSET Ids
    /\ thread \in [Ids -> {"none", "sending", "posted", "exited"}]
    /\ chan \in Seq(Completions)
    /\ workers \in SUBSET Ids
    /\ running \in Nat
    /\ ready \in Seq(Completions)
    /\ pc \in {"idle", "spawn", "drain", "join", "recv", "dropping", "dropped"}
             \cup Afters
    /\ after \in Afters
    /\ op \in Ops
    /\ held \in Completions \cup {NoCompletion}
    /\ ret \in {"none", "true", "false", "all"}
    /\ delivered \in Seq(Completions)
    /\ removed \in SUBSET Ids

IdsOf(s) == {s[k].id : k \in 1 .. Len(s)}

DistinctIds(s) == \A j, k \in 1 .. Len(s) : s[j].id = s[k].id => j = k

HeldIds == IF pc = "join" THEN {held.id} ELSE {}

\* A transfer's completion is in one place only and is never there twice: the
\* channel, the caller's hand, the ready queue, or already delivered; none of
\* them holds a transfer that was removed or never started.
ExactlyOnce ==
    /\ DistinctIds(chan) /\ DistinctIds(ready) /\ DistinctIds(delivered)
    /\ IdsOf(chan) \cap (HeldIds \cup IdsOf(ready) \cup IdsOf(delivered)) = {}
    /\ HeldIds \cap (IdsOf(ready) \cup IdsOf(delivered)) = {}
    /\ IdsOf(ready) \cap IdsOf(delivered) = {}
    /\ \A i \in IdsOf(chan) \cup HeldIds \cup IdsOf(ready) \cup IdsOf(delivered) :
          thread[i] \in {"posted", "exited"} /\ i \notin removed \cup pending

\* A started transfer whose handle is still held and that has posted has its
\* completion on the way to the caller: none is lost between the channel and
\* the ready queue.
NoneLost ==
    \A i \in Ids :
        thread[i] \in {"posted", "exited"} =>
            i \in IdsOf(chan) \cup HeldIds \cup IdsOf(ready) \cup IdsOf(delivered)

\* The `running` counter is the number of started transfers that are not yet
\* drained, at every step of a call: it is what decides that poll need not
\* block and that wait_all is done.
RunningCount ==
    running = Cardinality({i \in Ids : thread[i] # "none"}
                             \ (IdsOf(ready) \cup IdsOf(delivered)))

\* poll returned true: a completion can be popped.  wait_all returned: every
\* transfer added and not removed has been delivered.
ReturnsAreHonest ==
    pc = "idle" =>
        /\ ret = "true" => ready # << >>
        /\ ret = "all" => \A i \in 0 .. next_id - 1 :
                            i \in removed \cup IdsOf(delivered)

\* Drop joins: no worker thread outlives the handle.
NoThreadOutlivesHandle ==
    pc = "dropped" => \A i \in Ids : thread[i] \in {"none", "exited"}

\* The handle's books: every completion is in one place, none is lost, the
\* counter is exact and a dropped handle leaves no thread (submit, worker,
\* drain_ready, drop).
HandleSound == ExactlyOnce /\ NoneLost /\ RunningCount /\ NoThreadOutlivesHandle

\* No call is under way.  It is always so again: no recv or join waits for a
\* message or a thread exit that will not come, whatever order the workers post
\* in and also when a transfer panics.
CallReturned == pc \in {"idle", "dropped"}

=============================================================================
