--------------------------- MODULE DownloadSingle ---------------------------
(***************************************************************************)
(* The single-stream mode of the resumable downloader (src/download.rs):   *)
(* run_single, attempt_single, stream_to_store, persist_stream,            *)
(* verify_and_finalize.  A run is one process; it may crash at any step    *)
(* and a later run, of the same or of another URL into the same output     *)
(* path, finds whatever the part file then holds.                          *)
(*                                                                         *)
(* A body is read and written one position at a time.  Rate limiting,      *)
(* progress callbacks and backoff sleeps are left out; a low-speed abort,  *)
(* a read error and a failed write end an attempt in the same way and are  *)
(* one action.                                                             *)
(***************************************************************************)
EXTENDS PartFile, Origin

CONSTANTS MaxRetries,   \* DownloadOptions::max_retries
          MaxSize,      \* DownloadOptions::max_size (Unknown: none)
          CheckSums,    \* resources whose hash a run may expect; 0: no hash
          MaxRuns       \* bound on the number of processes

ASSUME SingleAssumption ==
    /\ MaxRetries \in Nat
    /\ MaxSize \in Nat \cup {Unknown}
    /\ CheckSums \subseteq Resources \cup {0}
    /\ MaxRuns \in Nat
    /\ \A r \in Resources : SizeOf[r] + TrailerLen <= Capacity

VARIABLES
    part,       \* <name>.rsurlpart
    final,      \* the output path: the file and, as history, the URL it came from
    runs,       \* processes started so far
    pc,         \* where the process is; "down" when there is none
    url,        \* what it downloads
    sha,        \* the resource whose SHA-256 it expects (0: none)
    have,       \* bytes held so far
    tag,        \* validators: the entity tag (0: none captured)
    known,      \* known_total
    budget,     \* retries left
    reply,      \* the response of the current attempt
    offset,     \* where its body starts in the file
    written,    \* the attempt's write position
    total,      \* the attempt's total
    resumable   \* whether its bytes may be continued by a ranged request

diskVars   == << part, final >>
streamVars == << reply, offset, written, total, resumable >>
localVars  == << have, tag, known, budget, streamVars >>
singleVars == << cur, diskVars, runs, pc, url, sha, localVars >>

NoFinal == [file |-> NoFile, url |-> 0]

SingleInit ==
    /\ OriginInit
    /\ part = NoFile
    /\ final = NoFinal
    /\ runs = 0
    /\ pc = "down"
    /\ url = 0
    /\ sha = 0
    /\ have = 0
    /\ tag = 0
    /\ known = Unknown
    /\ budget = 0
    /\ reply = NoReply
    /\ offset = 0
    /\ written = 0
    /\ total = Unknown
    /\ resumable = FALSE

-----------------------------------------------------------------------------
(* Starting and ending a run. *)

NoStream ==
    /\ reply' = NoReply
    /\ offset' = 0
    /\ written' = 0
    /\ total' = Unknown
    /\ resumable' = FALSE

\* The process is gone: everything it kept in memory is too.
Forget ==
    /\ pc' = "down"
    /\ url' = 0
    /\ sha' = 0
    /\ have' = 0
    /\ tag' = 0
    /\ known' = Unknown
    /\ budget' = 0
    /\ NoStream

\* load_stream_state: the partial is usable for this resource.
LoadsStreamState(u) ==
    LET s == ReadState(part)
    IN  s.kind = "stream" /\ s.url = u /\ s.done <= s.real

\* run_single's prologue: pick up the partial, or start from nothing.
LoadStreamState(u) ==
    LET s == ReadState(part)
    IN  IF LoadsStreamState(u)
        THEN have' = s.done /\ tag' = s.tag /\ known' = s.real
        ELSE have' = 0 /\ tag' = 0 /\ known' = Unknown

StartSingle(u, c) ==
    /\ pc = "down"
    /\ runs < MaxRuns
    /\ runs' = runs + 1
    /\ url' = u
    /\ sha' = c
    /\ pc' = "attempt"
    /\ budget' = MaxRetries
    /\ LoadStreamState(u)
    /\ UNCHANGED << cur, diskVars, streamVars >>

\* The run returns an error; the part file stays.
Fail == Forget

-----------------------------------------------------------------------------
(* attempt_single. *)

\* Mutant: every failed attempt refreshes the budget.
TransientRefreshes(w, res) ==
    /\ have' = IF res \/ w < have THEN w ELSE have
    /\ budget' = MaxRetries
    /\ pc' = "attempt"
    /\ NoStream
    /\ UNCHANGED << url, sha >>

\* Mutant: an attempt that restarted from zero leaves the old offset standing.
TransientKeepsHave(w, res) ==
    /\ have' = IF res THEN w ELSE have
    /\ budget' = IF res /\ w > have THEN MaxRetries ELSE budget - 1
    /\ pc' = "attempt"
    /\ NoStream
    /\ UNCHANGED << url, sha >>

\* Attempt::Transient {written, resumable}: the retry loop of run_single.
Transient(w, res) ==
    /\ have' = IF res \/ w < have THEN w ELSE have
    /\ budget' = IF res /\ w > have THEN MaxRetries ELSE budget - 1
    /\ pc' = "attempt"
    /\ NoStream
    /\ UNCHANGED << url, sha >>

\* ... which gives up when the budget is spent and the attempt did not advance.
GivesUp(w, res) == ~(res /\ w > have) /\ budget = 0

TransientOrFail(w, res) ==
    \/ GivesUp(w, res) /\ Fail
    \/ ~GivesUp(w, res) /\ Transient(w, res) /\ UNCHANGED << tag, known >>

\* The same for the two attempts that discard the partial first.
RestartOrFail ==
    \/ GivesUp(0, FALSE) /\ Fail
    \/ ~GivesUp(0, FALSE) /\ Transient(0, FALSE) /\ known' = Unknown /\ UNCHANGED tag

Replies == IF have > 0 THEN RangedReplies(url, have, Unknown, tag)
                       ELSE PlainReplies(url)

\* A response, or none, that ends the attempt before any body byte.
AttemptNoBody ==
    /\ pc = "attempt"
    /\ \E m \in Replies :
          \/ m.st \in {"net", "5xx"} /\ TransientOrFail(have, FALSE)
          \/ m.st \in {"net_fatal", "4xx"} /\ Fail
    /\ UNCHANGED << cur, diskVars, runs >>

\* 416 is "already complete" only when the size is exactly what we hold.
Complete416(m) ==
    have > 0 /\ (IF m.total # Unknown THEN m.total ELSE known) = have

Attempt416 ==
    /\ pc = "attempt"
    /\ \E m \in Replies :
          /\ m.st = "416"
          /\ \/ /\ Complete416(m)
                /\ written' = have
                /\ pc' = "verify"
                /\ UNCHANGED << part, url, sha, have, tag, known, budget, reply,
                                offset, total, resumable >>
             \/ /\ ~Complete416(m)
                /\ have > 0 /\ m.total # Unknown
                /\ part' = NoFile
                /\ RestartOrFail
             \/ /\ ~Complete416(m)
                /\ ~(have > 0 /\ m.total # Unknown)
                /\ Fail
                /\ UNCHANGED part
    /\ UNCHANGED << cur, final, runs >>

\* A 206 whose Content-Range continues what we hold, of the same size.
RangeLinesUp(m) == m.start = have /\ (known = Unknown \/ m.total = known)

TooLarge(n) == MaxSize # Unknown /\ n > MaxSize

\* stream_to_store's prologue sizes the data region; then the body is read.
OpenBody(m, at, n, res, t) ==
    IF TooLarge(n)
    THEN Fail /\ UNCHANGED part
    ELSE /\ part' = IF n # Unknown THEN SetLen(part, n)
                    ELSE IF at = 0 THEN SetLen(part, 0) ELSE part
         /\ pc' = "body"
         /\ reply' = m
         /\ offset' = at
         /\ written' = at
         /\ total' = n
         /\ resumable' = res
         /\ known' = n
         /\ tag' = t
         /\ UNCHANGED << url, sha, have, budget >>

Attempt206 ==
    /\ pc = "attempt"
    /\ \E m \in Replies :
          /\ m.st = "206"
          /\ \/ /\ RangeLinesUp(m)
                /\ OpenBody(m, have, m.total, TRUE, tag)
             \/ /\ ~RangeLinesUp(m)
                /\ part' = NoFile
                /\ RestartOrFail
    /\ UNCHANGED << cur, final, runs >>

\* 200: restart at 0 with this response's validators.
Attempt200 ==
    /\ pc = "attempt"
    /\ \E m \in Replies :
          /\ m.st = "200"
          /\ OpenBody(m, 0, m.total, have = 0 /\ m.ranges, m.res)
    /\ UNCHANGED << cur, final, runs >>

-----------------------------------------------------------------------------
(* stream_to_store. *)

BodyAt(w) == reply.start + (w - offset)     \* the response byte for position w

\* One read: size check, then the write.
ReadBody ==
    /\ pc = "body"
    /\ BodyAt(written) <= reply.end
    /\ IF TooLarge(written + 1)
       THEN Fail /\ UNCHANGED part
       ELSE /\ part' = WriteAt(part, written, Byte(reply.res, BodyAt(written)))
            /\ written' = written + 1
            /\ UNCHANGED << pc, url, sha, have, tag, known, budget, reply,
                            offset, total, resumable >>
    /\ UNCHANGED << cur, final, runs >>

\* The bytes the trailer claims: the attempt's write position.
StreamState == [NoState EXCEPT !.kind = "stream", !.real = total,
                               !.done = written, !.url = url, !.tag = tag]

\* persist_stream: nothing when the total is unknown.
PersistStream ==
    part' = IF total # Unknown THEN WriteState(part, StreamState) ELSE part

\* The once-a-second save.
PeriodicSave ==
    /\ pc = "body"
    /\ written > offset
    /\ PersistStream
    /\ UNCHANGED << cur, final, runs, pc, url, sha, localVars >>

\* A read error, a failed write or a low-speed abort: save, then retry.
BreakBody ==
    /\ pc = "body"
    /\ PersistStream
    /\ TransientOrFail(written, resumable)
    /\ UNCHANGED << cur, final, runs >>

\* Mutant: a connection that closes early is taken for the end of the body.
EndBodyAnywhere ==
    /\ pc = "body"
    /\ pc' = "verify"
    /\ UNCHANGED << cur, diskVars, runs, url, sha, localVars >>

\* Clean end of the body.
EndBody ==
    /\ pc = "body"
    /\ BodyAt(written) > reply.end
    /\ pc' = "verify"
    /\ UNCHANGED << cur, diskVars, runs, url, sha, localVars >>

-----------------------------------------------------------------------------
(* verify_and_finalize: hash, truncate, rename. *)

HoldsAll(f, n, r) ==
    n = SizeOf[r] /\ \A p \in 0 .. n - 1 : f.cells[p] = Byte(r, p)

\* Mutant: the hash is computed and not compared.
HashOkAlways(n) == TRUE

HashOk(n) == sha # 0 => HoldsAll(part, n, sha)

\* Mutant: an existing output file is removed to make room for the new one.
VerifyRemoves ==
    /\ pc = "verify"
    /\ HashOk(written)
    /\ part' = SetLen(part, written)
    /\ final' = NoFinal
    /\ pc' = "rename"
    /\ UNCHANGED << cur, runs, url, sha, localVars >>

Verify ==
    /\ pc = "verify"
    /\ \/ /\ ~HashOk(written)
          /\ part' = NoFile
          /\ Fail
       \/ /\ HashOk(written)
          /\ part' = SetLen(part, written)
          /\ pc' = "rename"
          /\ UNCHANGED << url, sha, localVars >>
    /\ UNCHANGED << cur, final, runs >>

Rename ==
    /\ pc = "rename"
    /\ final' = [file |-> part, url |-> url]
    /\ part' = NoFile
    /\ Forget
    /\ UNCHANGED << cur, runs >>

-----------------------------------------------------------------------------
(* Crashes. *)

Crash ==
    /\ pc # "down"
    /\ Forget
    /\ UNCHANGED << cur, diskVars, runs >>

\* The process dies inside write_state.
CrashInSave ==
    /\ pc = "body"
    /\ total # Unknown
    /\ part' = TornState(part, StreamState)
    /\ Forget
    /\ UNCHANGED << cur, final, runs >>

OriginStep ==
    /\ \E u \in Urls : OriginChange(u)
    /\ UNCHANGED << diskVars, runs, pc, url, sha, localVars >>

\* No further process is started.
Finished == runs = MaxRuns /\ pc = "down" /\ UNCHANGED singleVars

SingleSteps ==
    \/ AttemptNoBody \/ Attempt416 \/ Attempt206 \/ Attempt200
    \/ ReadBody \/ PeriodicSave \/ BreakBody \/ EndBody
    \/ Verify \/ Rename

SingleNext ==
    \/ \E u \in Urls, c \in CheckSums : StartSingle(u, c)
    \/ SingleSteps
    \/ Crash \/ CrashInSave
    \/ OriginStep
    \/ Finished

SingleSpec == SingleInit /\ [][SingleNext]_singleVars

\* Every response arrives or times out, and a running process runs.
FairSingleSpec == SingleSpec /\ WF_singleVars(SingleSteps)

-----------------------------------------------------------------------------
(* Properties. *)

Cells == {Hole, Junk} \cup {Byte(r, k) : r \in Resources, k \in Pos}

\* What is renamed into place is one version of the URL it was fetched from,
\* whole and unmixed, whatever crashes, retries, upstream changes and earlier
\* downloads to the same path came before (verify_and_finalize, finalize).
PublishedIntact ==
    final # NoFinal =>
        \E r \in Resources :
            UrlOf[r] = final.url /\ HoldsAll(final.file, final.file.size, r)

\* The resume state on disk never claims a byte that is not there: the done
\* prefix is that of the version its validators name, and its size is right
\* (persist_stream, write_state, load_stream_state).
StreamStateHonest ==
    LET s == ReadState(part)
    IN  s.kind = "stream" =>
            /\ s.tag \in Resources /\ UrlOf[s.tag] = s.url /\ SizeOf[s.tag] = s.real
            /\ s.done <= s.real
            /\ \A p \in 0 .. s.done - 1 : part.cells[p] = Byte(s.tag, p)

\* What the retry loop believes it holds is really on disk and of the version
\* whose validators it will send as If-Range, also after an attempt that was
\* answered 200 and broke before or after the old offset (run_single).
HaveHonest ==
    pc = "attempt" /\ have > 0 =>
        /\ tag \in Resources /\ UrlOf[tag] = url
        /\ known \in {Unknown, SizeOf[tag]}
        /\ have <= part.size
        /\ \A p \in 0 .. have - 1 : part.cells[p] = Byte(tag, p)

\* Neither the trailer nor the retry loop claims a byte that is not there.
StateHonest == StreamStateHonest /\ HaveHonest

\* A resume state that can be read while a body of known size is written has its
\* trailer behind the last byte of that body (stream_to_store's set_len).
TrailerApart ==
    LET s == ReadState(part)
    IN  pc = "body" /\ total # Unknown /\ s.kind # "none" => s.real >= total

\* A run that was given a hash publishes nothing else, even when the server's
\* answers are short or misplaced.
ChecksumProtects ==
    [][pc = "rename" /\ pc' = "down" /\ final' # final /\ sha # 0
        => HoldsAll(final'.file, final'.file.size, sha)]_singleVars

ThrowsAway ==
    /\ pc = "attempt" /\ have > 0
    /\ pc' = "attempt" => have' = 0
    /\ pc' = "body" => offset' = 0

\* A run ends, unless the server makes it throw away what it holds again and
\* again (a range that is ignored or misplaced): the retry budget is refreshed
\* only by attempts that leave more of the file on disk, so no other sequence
\* of broken attempts goes on for ever (run_single).
RunEnds ==
    \/ pc # "down" ~> pc = "down"
    \/ []<><<ThrowsAway>>_singleVars

=============================================================================
