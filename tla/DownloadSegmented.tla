------------------------- MODULE DownloadSegmented -------------------------
(***************************************************************************)
(* The segmented mode of the resumable downloader (src/download.rs), on    *)
(* top of the single-stream mode it falls back to: the bootstrap request,  *)
(* the worker threads that share the chunk bitmap, the per-chunk retry     *)
(* loop, the byte meter, the resume from a `.rsurlpart`.                   *)
(*                                                                         *)
(* The main thread's control is `pc`, as in DownloadSingle; the workers    *)
(* are threads of their own.  fetch_chunk_streaming is run by the workers  *)
(* and, for the rest of chunk 0, by the main thread (fetcher 0).           *)
(***************************************************************************)
EXTENDS DownloadSingle, ChunkPlan, FiniteSets

CONSTANTS Parallelism,      \* DownloadOptions::parallelism
          Segments          \* values of DownloadOptions::segments runs may use

ASSUME SegmentedAssumption ==
    Parallelism \in Nat \ {0} /\ Segments \subseteq Nat \ {0}

VARIABLES
    nseg,       \* this run's `segments`; 0 in single-stream mode
    plan,       \* the chunk layout
    bits,       \* the bitmap: chunks done
    claim,      \* the shared `next` counter (chunks are numbered from 1)
    failed,     \* the shared error slot
    fallback,   \* the shared fallback flag
    boot,       \* what the bootstrap body is: "full", "small", "chunk0"
    fetch,      \* the fetchers: worker threads 1.., the main thread 0
    meter       \* ByteMeter::done

Workers  == 1 .. Parallelism
Fetchers == Workers \cup {0}

sharedVars == << plan, bits, claim, failed, fallback >>
segVars    == << nseg, sharedVars, boot, fetch, meter >>
vars       == << singleVars, segVars >>

\* st: "off", "top" and "claim" (worker loop), "send" and "pump" (one request),
\* "ok", "fallback", "fatal" (ChunkResult), "exit", "panic".
Fetcher(st, c, from, upto, b) ==
    [st |-> st, chunk |-> c, from |-> from, upto |-> upto, got |-> 0, wrote |-> 0,
     budget |-> b, reply |-> NoReply]

Off == Fetcher("off", 0, 0, 0, 0)

ForgetSeg ==
    /\ nseg' = 0
    /\ plan' = NoPlan
    /\ bits' = {}
    /\ claim' = 1
    /\ failed' = FALSE
    /\ fallback' = FALSE
    /\ boot' = "none"
    /\ fetch' = [f \in Fetchers |-> Off]
    /\ meter' = 0

Init ==
    /\ SingleInit
    /\ nseg = 0
    /\ plan = NoPlan
    /\ bits = {}
    /\ claim = 1
    /\ failed = FALSE
    /\ fallback = FALSE
    /\ boot = "none"
    /\ fetch = [f \in Fetchers |-> Off]
    /\ meter = 0

ChunkLen(p, c) == p[c][2] - p[c][1] + 1

\* plan_done_bytes
PlanDoneBytes(p, b) ==
    LET upto[n \in 0 .. Len(p)] ==
            IF n = 0 THEN 0 ELSE upto[n - 1] + (IF n \in b THEN ChunkLen(p, n) ELSE 0)
    IN  upto[Len(p)]

\* The worker threads run_chunks starts for a plan.
StartWorkers(p) ==
    [f \in Fetchers |->
        IF f \in 1 .. MinOf(Parallelism, Len(p)) THEN Fetcher("top", 0, 0, 0, 0)
        ELSE Off]

-----------------------------------------------------------------------------
(* Starting a run: resume_ranged, or a fresh bootstrap. *)

\* resume_ranged: same kind, same URL, same layout for the current options.
ResumesRanged(u, n) ==
    LET s == ReadState(part)
    IN  s.kind = "ranged" /\ s.url = u /\ s.plan = BySegments(s.real, n)

StartSegmented(u, c, n) ==
    /\ pc = "down"
    /\ runs < MaxRuns
    /\ runs' = runs + 1
    /\ url' = u
    /\ sha' = c
    /\ nseg' = n
    /\ LET s == ReadState(part)
       IN  IF ResumesRanged(u, n)
           THEN /\ pc' = "chunks"
                /\ total' = s.real
                /\ tag' = s.tag
                /\ plan' = BySegments(s.real, n)
                /\ bits' = s.bits
                /\ meter' = PlanDoneBytes(s.plan, s.bits)
                /\ fetch' = StartWorkers(BySegments(s.real, n))
                /\ UNCHANGED budget
           ELSE /\ pc' = "boot"
                /\ budget' = MaxRetries
                /\ UNCHANGED << total, tag, plan, bits, meter, fetch >>
    /\ UNCHANGED << cur, diskVars, have, known, reply, offset, written,
                    resumable, claim, failed, fallback, boot >>

\* SegErr::Fallback: run goes on with run_single.
FallBackToSingle ==
    /\ pc' = "attempt"
    /\ budget' = MaxRetries
    /\ LoadStreamState(url)
    /\ NoStream
    /\ ForgetSeg
    /\ UNCHANGED << url, sha >>

\* SegErr::Fatal.
FailSegmented == Fail /\ ForgetSeg

-----------------------------------------------------------------------------
(* bootstrap: one open-ended ranged GET. *)

\* Mutant: the bytes of the failed attempt stay counted.
BootRetryKeepsCount(n) ==
    \/ /\ budget = 0
       /\ FailSegmented
    \/ /\ budget > 0
       /\ budget' = budget - 1
       /\ pc' = "boot"
       /\ boot' = "none"
       /\ NoStream
       /\ tag' = 0
       /\ UNCHANGED << url, sha, have, known, nseg, sharedVars, fetch, meter >>

\* A failed attempt costs a retry; without one left the run fails.  n bytes
\* of it were metered and are un-counted.
BootRetryOrFail(n) ==
    \/ /\ budget = 0
       /\ FailSegmented
    \/ /\ budget > 0
       /\ budget' = budget - 1
       /\ pc' = "boot"
       /\ meter' = meter - n
       /\ boot' = "none"
       /\ NoStream
       /\ tag' = 0
       /\ UNCHANGED << url, sha, have, known, nseg, sharedVars, fetch >>

BootReplies == RangedReplies(url, 0, Unknown, 0)

BootNoBody ==
    /\ pc = "boot"
    /\ \E m \in BootReplies :
          \/ m.st \in {"net", "5xx"} /\ BootRetryOrFail(0)
          \/ m.st \in {"net_fatal", "4xx"} /\ FailSegmented
    /\ UNCHANGED << cur, diskVars, runs >>

\* An empty resource.
Boot416 ==
    /\ pc = "boot"
    /\ \E m \in BootReplies : m.st = "416"
    /\ part' = SetLen(part, 0)
    /\ written' = 0
    /\ total' = 0
    /\ pc' = "verify"
    /\ UNCHANGED << cur, final, runs, url, sha, have, tag, known, budget, reply,
                    offset, resumable, segVars >>

\* The body of the bootstrap response is pumped to position 0 on.
BootOpen(m, kind, t) ==
    /\ pc' = "boot_body"
    /\ boot' = kind
    /\ reply' = m
    /\ offset' = 0
    /\ written' = 0
    /\ total' = t
    /\ UNCHANGED << url, sha, have, known, budget, resumable, nseg, bits, claim,
                    failed, fallback, fetch, meter >>

\* prepare_part: only a known length sizes the data region.
PreparePart(t) == part' = IF t # Unknown THEN SetLen(part, t) ELSE part

\* 200: no range support, the whole body comes in one stream.
Boot200 ==
    /\ pc = "boot"
    /\ \E m \in BootReplies :
          /\ m.st = "200"
          /\ IF TooLarge(m.total)
             THEN FailSegmented /\ UNCHANGED part
             ELSE /\ PreparePart(m.total)
                  /\ BootOpen(m, "full", m.total)
                  /\ UNCHANGED << tag, plan >>
    /\ UNCHANGED << cur, final, runs >>

\* 206: the total, the validators and the plan are learned from it.
Boot206 ==
    /\ pc = "boot"
    /\ \E m \in BootReplies :
          /\ m.st = "206"
          /\ IF m.start # 0 \/ m.total = Unknown
             THEN FallBackToSingle /\ UNCHANGED part
             ELSE IF TooLarge(m.total)
             THEN FailSegmented /\ UNCHANGED part
             ELSE /\ PreparePart(m.total)
                  /\ plan' = BySegments(m.total, nseg)
                  /\ tag' = m.res
                  /\ BootOpen(m, IF BySegments(m.total, nseg) = NoPlan
                                 THEN "small" ELSE "chunk0", m.total)
    /\ UNCHANGED << cur, final, runs >>

\* pump_to_store's `want` for the bootstrap body (Unknown: no limit).
BootWant == IF boot = "chunk0" THEN plan[1][2] + 1 ELSE total

BootMore == (BootWant = Unknown \/ written < BootWant) /\ written <= reply.end

BootRead ==
    /\ pc = "boot_body"
    /\ BootMore
    /\ part' = WriteAt(part, written, Byte(reply.res, written))
    /\ written' = written + 1
    /\ meter' = meter + 1
    /\ UNCHANGED << cur, final, runs, pc, url, sha, have, tag, known, budget,
                    reply, offset, total, resumable, nseg, sharedVars, boot, fetch >>

\* Clean end of a body that is the whole file.
BootFull ==
    /\ pc = "boot_body"
    /\ boot \in {"full", "small"}
    /\ ~BootMore
    /\ pc' = "verify"
    /\ UNCHANGED << cur, diskVars, runs, url, sha, localVars, segVars >>

\* A break: the whole body is asked for again.
BootBreak ==
    /\ pc = "boot_body"
    /\ boot \in {"full", "small"}
    /\ BootRetryOrFail(written)
    /\ UNCHANGED << cur, diskVars, runs >>

\* Chunk 0 ended short (a break, or a short body): fetch_chunk_streaming takes
\* over from where it stopped.
BootChunk0Short ==
    /\ pc = "boot_body"
    /\ boot = "chunk0"
    /\ written < BootWant
    /\ pc' = "boot_fetch"
    /\ fetch' = [fetch EXCEPT ![0] =
                    Fetcher("send", 1, written, plan[1][2], MaxRetries)]
    /\ UNCHANGED << cur, diskVars, runs, url, sha, localVars, nseg, sharedVars,
                    boot, meter >>

\* Chunk 0 is complete.
BootChunk0Done ==
    /\ \/ pc = "boot_body" /\ boot = "chunk0" /\ written >= BootWant
       \/ pc = "boot_fetch" /\ fetch[0].st = "ok"
    /\ pc' = "boot_save"
    /\ bits' = {1}
    /\ fetch' = [fetch EXCEPT ![0] = Off]
    /\ UNCHANGED << cur, diskVars, runs, url, sha, localVars, nseg, plan, claim,
                    failed, fallback, boot, meter >>

BootChunk0Lost ==
    /\ pc = "boot_fetch"
    /\ \/ fetch[0].st = "fallback" /\ FallBackToSingle
       \/ fetch[0].st = "fatal" /\ FailSegmented
    /\ UNCHANGED << cur, diskVars, runs >>

RangedState(b) == [NoState EXCEPT !.kind = "ranged", !.real = total, !.bits = b,
                                  !.plan = plan, !.url = url, !.tag = tag]

\* persist_ranged, then run_chunks.
BootSave ==
    /\ pc = "boot_save"
    /\ part' = WriteState(part, RangedState(bits))
    /\ pc' = "chunks"
    /\ fetch' = StartWorkers(plan)
    /\ UNCHANGED << cur, final, runs, url, sha, localVars, nseg, sharedVars, boot,
                    meter >>

-----------------------------------------------------------------------------
(* fetch_chunk_streaming and stream_chunk_once, run by fetcher f. *)

unchangedByFetch == << cur, final, runs, pc, url, sha, localVars, nseg,
                       sharedVars, boot >>

Goto(f, st) == fetch' = [fetch EXCEPT ![f].st = st]

Want(f)  == fetch[f].upto - fetch[f].from + 1
At(f)    == fetch[f].from + fetch[f].got + fetch[f].wrote

\* Mutant: any request that brought a byte ends the chunk.
AfterAdvanceEarlyOk(f, slow) ==
    LET x == fetch[f]
        g == x.got + x.wrote
        b == IF x.wrote > 0 /\ ~slow THEN MaxRetries ELSE x.budget
    IN  IF x.wrote > 0 THEN [x EXCEPT !.st = "ok", !.got = g, !.wrote = 0]
        ELSE IF b = 0 THEN [x EXCEPT !.st = "fatal", !.got = g, !.wrote = 0]
        ELSE [x EXCEPT !.st = "send", !.got = g, !.wrote = 0, !.budget = b - 1,
                       !.reply = NoReply]

\* Mutant: a connection that was cut for being slow refreshes the budget, and
\* so does one that brought nothing.
AfterAdvanceAlwaysRefresh(f, slow) ==
    LET x == fetch[f]
        g == x.got + x.wrote
        b == MaxRetries
    IN  IF g >= Want(f) THEN [x EXCEPT !.st = "ok", !.got = g, !.wrote = 0]
        ELSE IF b = 0 THEN [x EXCEPT !.st = "fatal", !.got = g, !.wrote = 0]
        ELSE [x EXCEPT !.st = "send", !.got = g, !.wrote = 0, !.budget = b - 1,
                       !.reply = NoReply]

\* StreamOnce::Advanced: what the retry loop does with the bytes of one request.
AfterAdvance(f, slow) ==
    LET x == fetch[f]
        g == x.got + x.wrote
        b == IF x.wrote > 0 /\ ~slow THEN MaxRetries ELSE x.budget
    IN  IF g >= Want(f) THEN [x EXCEPT !.st = "ok", !.got = g, !.wrote = 0]
        ELSE IF b = 0 THEN [x EXCEPT !.st = "fatal", !.got = g, !.wrote = 0]
        ELSE [x EXCEPT !.st = "send", !.got = g, !.wrote = 0, !.budget = b - 1,
                       !.reply = NoReply]

\* The 206 carries exactly the bytes asked for, of the size planned against.
AnswersChunk(f, m) == m.start = At(f) /\ m.total = total

FetchSend(f) ==
    /\ fetch[f].st = "send"
    /\ \E m \in RangedReplies(url, At(f), fetch[f].upto, tag) :
          \/ /\ m.st \in {"net", "5xx"}
             /\ fetch' = [fetch EXCEPT ![f] = AfterAdvance(f, FALSE)]
          \/ m.st \in {"net_fatal", "4xx", "416"} /\ Goto(f, "fatal")
          \/ m.st = "200" /\ Goto(f, "fallback")
          \/ m.st = "206" /\ ~AnswersChunk(f, m) /\ Goto(f, "fallback")
          \/ /\ m.st = "206" /\ AnswersChunk(f, m)
             /\ fetch' = [fetch EXCEPT ![f].st = "pump", ![f].reply = m]
    /\ UNCHANGED << part, meter, unchangedByFetch >>

\* The response byte for the next position, if the pump may still take one.
PumpByte(f) == fetch[f].reply.start + fetch[f].wrote

PumpMore(f) == /\ fetch[f].got + fetch[f].wrote < Want(f)
               /\ PumpByte(f) <= fetch[f].reply.end

FetchRead(f) ==
    /\ fetch[f].st = "pump"
    /\ PumpMore(f)
    /\ part' = WriteAt(part, At(f), Byte(fetch[f].reply.res, PumpByte(f)))
    /\ meter' = meter + 1
    /\ fetch' = [fetch EXCEPT ![f].wrote = @ + 1]
    /\ UNCHANGED unchangedByFetch

\* The request is over: the range is complete or the body ended; the stream
\* broke; it was cut for being slow.
FetchEnd(f) ==
    /\ fetch[f].st = "pump"
    /\ \/ ~PumpMore(f) /\ fetch' = [fetch EXCEPT ![f] = AfterAdvance(f, FALSE)]
       \/ PumpMore(f) /\ \E slow \in BOOLEAN :
                            fetch' = [fetch EXCEPT ![f] = AfterAdvance(f, slow)]
    /\ UNCHANGED << part, meter, unchangedByFetch >>

\* The store refused the write outright (pump_open_failed).
FetchStoreFails(f) ==
    /\ fetch[f].st = "pump"
    /\ PumpMore(f)
    /\ Goto(f, "fatal")
    /\ UNCHANGED << part, meter, unchangedByFetch >>

Fetch(f) == FetchSend(f) \/ FetchRead(f) \/ FetchEnd(f) \/ FetchStoreFails(f)

-----------------------------------------------------------------------------
(* run_chunks: the loop of worker w. *)

WorkerTop(w) ==
    /\ fetch[w].st = "top"
    /\ Goto(w, IF failed \/ fallback THEN "exit" ELSE "claim")
    /\ UNCHANGED << part, meter, unchangedByFetch >>

\* Mutant: the chunk is claimed without advancing the shared counter past a
\* chunk another worker is fetching (a load and a store, not a fetch_add).
WorkerClaimRacy(w) ==
    /\ fetch[w].st = "claim"
    /\ claim' = IF claim \in bits \/ claim > Len(plan) THEN claim + 1 ELSE claim
    /\ fetch' = [fetch EXCEPT ![w] =
                    IF claim > Len(plan) THEN Fetcher("exit", 0, 0, 0, 0)
                    ELSE IF claim \in bits THEN Fetcher("top", 0, 0, 0, 0)
                    ELSE Fetcher("send", claim, plan[claim][1], plan[claim][2],
                                 MaxRetries)]
    /\ UNCHANGED << cur, diskVars, runs, pc, url, sha, localVars, nseg, plan, bits,
                    failed, fallback, boot, meter >>

\* next.fetch_add, the bound check, the bitmap check.
WorkerClaim(w) ==
    /\ fetch[w].st = "claim"
    /\ claim' = claim + 1
    /\ fetch' = [fetch EXCEPT ![w] =
                    IF claim > Len(plan) THEN Fetcher("exit", 0, 0, 0, 0)
                    ELSE IF claim \in bits THEN Fetcher("top", 0, 0, 0, 0)
                    ELSE Fetcher("send", claim, plan[claim][1], plan[claim][2],
                                 MaxRetries)]
    /\ UNCHANGED << cur, diskVars, runs, pc, url, sha, localVars, nseg, plan, bits,
                    failed, fallback, boot, meter >>

\* ChunkResult::Ok: under the bitmap lock, set the bit and save the state.
WorkerOk(w) ==
    /\ fetch[w].st = "ok"
    /\ bits' = bits \cup {fetch[w].chunk}
    /\ part' = WriteState(part, RangedState(bits \cup {fetch[w].chunk}))
    /\ fetch' = [fetch EXCEPT ![w] = Fetcher("top", 0, 0, 0, 0)]
    /\ UNCHANGED << cur, final, runs, pc, url, sha, localVars, nseg, plan, claim,
                    failed, fallback, boot, meter >>

WorkerStop(w) ==
    /\ fetch[w].st \in {"fallback", "fatal"}
    /\ fallback' = (fallback \/ fetch[w].st = "fallback")
    /\ failed' = (failed \/ fetch[w].st = "fatal")
    /\ Goto(w, "top")
    /\ UNCHANGED << cur, diskVars, runs, pc, url, sha, localVars, nseg, plan, bits,
                    claim, boot, meter >>

\* The progress callback panics inside ByteMeter::add.
WorkerPanic(w) ==
    /\ fetch[w].st = "pump"
    /\ fetch[w].wrote > 0
    /\ Goto(w, "panic")
    /\ UNCHANGED << part, meter, unchangedByFetch >>

Worker(w) == WorkerTop(w) \/ WorkerClaim(w) \/ WorkerOk(w) \/ WorkerStop(w)

AllJoined == \A w \in Workers : fetch[w].st \in {"off", "exit", "panic"}

Panicked == \E w \in Workers : fetch[w].st = "panic"

\* The scope ends when every worker is joined.
JoinWorkers ==
    /\ pc = "chunks"
    /\ AllJoined
    /\ \/ /\ Panicked \/ failed
          /\ FailSegmented
       \/ /\ ~(Panicked \/ failed) /\ fallback
          /\ FallBackToSingle
       \/ /\ ~(Panicked \/ failed) /\ ~fallback
          /\ pc' = "verify"
          /\ written' = total
          /\ UNCHANGED << url, sha, have, tag, known, budget, reply, offset, total,
                          resumable, segVars >>
    /\ UNCHANGED << cur, diskVars, runs >>

-----------------------------------------------------------------------------
(* The process dies inside write_state of a ranged download. *)
CrashInRangedSave ==
    /\ \E b \in {bits} \cup {bits \cup {fetch[w].chunk} : w \in
                                {v \in Workers : fetch[v].st = "ok"}} :
          part' = TornState(part, RangedState(b))
    /\ pc = "boot_save" \/ \E w \in Workers : fetch[w].st = "ok"
    /\ Forget
    /\ ForgetSeg
    /\ UNCHANGED << cur, final, runs >>

\* A step of the single-stream mode, of the steps both modes share, or of the
\* environment.
SharedStep(A) == A /\ IF pc' = "down" THEN ForgetSeg ELSE UNCHANGED segVars

BootSteps ==
    \/ BootNoBody \/ Boot416 \/ Boot200 \/ Boot206
    \/ BootRead \/ BootFull \/ BootBreak \/ BootChunk0Short
    \/ BootChunk0Done \/ BootChunk0Lost \/ BootSave

MainSteps == SharedStep(SingleSteps) \/ BootSteps \/ JoinWorkers

Next ==
    \/ \E u \in Urls, c \in CheckSums :
          \/ SharedStep(StartSingle(u, c))
          \/ \E n \in Segments : StartSegmented(u, c, n)
    \/ MainSteps
    \/ \E f \in Fetchers : Fetch(f)
    \/ \E w \in Workers : Worker(w) \/ WorkerPanic(w)
    \/ SharedStep(Crash) \/ SharedStep(CrashInSave) \/ CrashInRangedSave
    \/ SharedStep(OriginStep)
    \/ SharedStep(Finished)

Spec == Init /\ [][Next]_vars

\* As in DownloadSingle, for every thread of the process.
FairSpec ==
    /\ Spec
    /\ WF_vars(MainSteps)
    /\ \A f \in Fetchers : WF_vars(Fetch(f))
    /\ \A w \in Workers : WF_vars(Worker(w))

-----------------------------------------------------------------------------
(* Properties. *)

FetchStates == {"off", "top", "claim", "send", "pump", "ok", "fallback", "fatal",
                "exit", "panic"}

\* Every variable stays in its type; in particular a fetcher never writes
\* outside its own chunk, and no retry budget wraps below zero.
TypeOK ==
    /\ cur \in [Urls -> Resources]
    /\ part.size \in 0 .. Capacity /\ part.cells \in [Pos -> Cells]
    /\ pc \in {"down", "attempt", "body", "verify", "rename", "boot", "boot_body",
               "boot_fetch", "boot_save", "chunks"}
    /\ have \in 0 .. Capacity /\ written \in 0 .. Capacity
    /\ budget \in 0 .. MaxRetries
    /\ nseg \in Segments \cup {0}
    /\ bits \subseteq 1 .. Len(plan)
    /\ claim \in 1 .. Len(plan) + 1 + Parallelism
    /\ meter \in Nat
    /\ \A f \in Fetchers :
          LET x == fetch[f]
          IN  /\ x.st \in FetchStates
              /\ x.budget \in 0 .. MaxRetries
              /\ x.st \in {"send", "pump", "ok"} =>
                    /\ x.chunk \in 1 .. Len(plan)
                    /\ plan[x.chunk][1] <= x.from /\ x.upto = plan[x.chunk][2]
                    /\ At(f) <= x.upto + 1

\* The bitmap on disk never claims a chunk whose bytes are not all there and
\* of the version its validators name (WorkerOk under the lock, persist_ranged,
\* torn writes, crashes between the data and the bitmap).
RangedStateHonest ==
    LET s == ReadState(part)
    IN  s.kind = "ranged" =>
            /\ s.tag \in Resources /\ UrlOf[s.tag] = s.url /\ SizeOf[s.tag] = s.real
            /\ \A c \in s.bits : \A p \in s.plan[c][1] .. s.plan[c][2] :
                  part.cells[p] = Byte(s.tag, p)

\* No chunk is fetched by two threads, and none that is done is fetched again
\* or loses its bit while the run lasts (next.fetch_add, the bitmap lock).
ChunkOwnership ==
    pc = "chunks" =>
        /\ \A v, w \in Workers :
              /\ fetch[v].st \in {"send", "pump", "ok"}
              /\ fetch[w].st \in {"send", "pump", "ok"}
              /\ fetch[v].chunk = fetch[w].chunk
              => v = w
        /\ \A w \in Workers : fetch[w].st \in {"send", "pump", "ok"} =>
                                fetch[w].chunk \notin bits
        /\ AllJoined /\ ~Panicked /\ ~failed /\ ~fallback => bits = 1 .. Len(plan)

\* The progress a caller sees never exceeds the size of the file, and is the
\* whole file, exactly, when the transfer is done: bytes that are written
\* again after a break are counted once (ByteMeter::add, rewind, seed).
ProgressExact ==
    nseg # 0 =>
        /\ total # Unknown => meter <= total
        /\ pc \in {"verify", "rename"} => meter = written

\* The chunks in force tile the resource and each is fetched by one thread until
\* it is done; when all threads have returned without an error all are done
\* (chunk_plan, run_ranged).
ChunksExact ==
    /\ plan # NoPlan /\ total # Unknown => Tiles(plan, total)
    /\ ChunkOwnership

\* The versions of its URL with the bytes at the output path: none if what is
\* there is not a whole version.
PublishedVersions ==
    IF final = NoFinal THEN {0}
    ELSE {r \in Resources : /\ UrlOf[r] = final.url
                            /\ HoldsAll(final.file, final.file.size, r)}

Promise == INSTANCE Publish WITH output <- PublishedVersions

\* Both modes, with every crash and restart, implement the abstract promise:
\* the output path goes from one whole version to another in a single step.
AtomicPublish == Promise!PublishSpec

\* A run ends, with any number of worker threads: a failed, panicked or
\* fallen-back worker makes all of them stop and be joined, and short or broken
\* ranges use up the budgets.  The exception is the one of RunEnds, after a
\* fall-back to the single stream.
SegmentedRunEnds ==
    \/ pc # "down" ~> pc = "down"
    \/ []<><<ThrowsAway>>_vars

=============================================================================
