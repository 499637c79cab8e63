--------------------------------- MODULE Cli ---------------------------------
(***************************************************************************)
(* The command line program (src/src/cli.rs): main builds the operations,  *)
(* hands out one job per URL (globs expanded lazily, one odometer step at a *)
(* time) to a single loop or, under -Z, to a pool of workers, and folds    *)
(* the jobs' curl exit codes into the process's.  A job (process_url) is   *)
(* routed to one of the program's transfer paths:                          *)
(*                                                                         *)
(*   session    the dialogues of ws, smtp, mqtt, uploads and torrents      *)
(*   whole      the payload is received whole, then written                *)
(*   stream     the payload is written to a file or to stdout as it comes  *)
(*   resume     -C: a Range request whose 206 body is appended             *)
(*   library    the resumable engine (DownloadSingle, DownloadSegmented)   *)
(*   buffered   the whole response in memory, with --retry and --fail      *)
(*                                                                         *)
(* What the workers share is the job queue, the file system, the process's *)
(* stdout and stderr (two locks, each held across a whole transfer by some *)
(* paths) and the exit code.  A payload is a sequence of chunks <<job, i>>; *)
(* an error page is the chunk <<job, 0>>.                                  *)
(***************************************************************************)
EXTENDS Naturals, Sequences, SequencesExt

CONSTANTS
    Commands,   \* command lines: [urls, parallel, jar]; see the MC module
    Workers,    \* the threads --parallel-max allows
    BodyLen,    \* chunks of a resource
    Faults      \* the library errors a transfer may end with

VARIABLES cmd, queue, wk, fs, parts, stdout, outLock, errLock, worst, codes, exit

cliVars == <<cmd, queue, wk, fs, parts, stdout, outLock, errLock, worst, codes, exit>>

Free == "free"
Absent == <<<<<<0, <<>>>>, 0>>>>   \* a chunk of no job
Ok == "ok"
Running == 999

-----------------------------------------------------------------------------
(* URL globbing.  A URL is a sequence of segments; a range is its bounds   *)
(* and step, a list its alternatives, and the odometer idx counts from 0.  *)

\* A range's number of alternatives; 0 stands for a malformed one.
expand_range(r) ==
    IF r.step = 0 \/ r.lo > r.hi THEN 0 ELSE (r.hi - r.lo) \div r.step + 1

\* A segment's alternatives: one for a literal or an IPv6 host in brackets.
SegLen(s) == CASE s.kind = "range" -> expand_range(s)
               [] s.kind = "list"  -> s.n
               [] OTHER            -> 1

\* What the i-th alternative stands for.
Item(s, i) == IF s.kind = "range" THEN s.lo + i * s.step ELSE i

\* The source is taken as it is: -g, a magnet link or a torrent's path.
glob_disabled(u) == u.op.globoff \/ u.op.scheme = "torrent"

\* The URL's segments, or <<>> when a brace, bracket or range is malformed.
parse_glob(u) ==
    IF \E k \in DOMAIN u.segs : u.segs[k].kind = "unmatched" \/ SegLen(u.segs[k]) = 0
    THEN <<>> ELSE u.segs

\* Its number of URLs, or 0 when the glob is refused.
glob_expand(u) ==
    LET segs == parse_glob(u)
        total == FoldSeq(LAMBDA s, n : n * SegLen(s), 1, segs)
    IN  IF segs = <<>> \/ total > u.op.maxGlob THEN 0 ELSE total

\* The last position advances; a position that wraps carries to its left.
Carried(segs, idx) ==
    [k \in DOMAIN idx |->
        LET carry == \A m \in k + 1 .. Len(idx) : idx[m] + 1 = SegLen(segs[m])
        IN  IF ~carry THEN idx[k] ELSE (idx[k] + 1) % SegLen(segs[k])]

\* The odometer after one step, <<>> once every position has wrapped.
GlobNext(segs, idx) ==
    LET next == Carried(segs, idx)
    IN  IF \A k \in DOMAIN next : next[k] = 0 THEN <<>> ELSE next

Start(u) == [k \in DOMAIN u.segs |-> 0]

\* The captures: the chosen value of each set, left to right.
Captures(u, idx) ==
    LET sets == SelectSeq([k \in DOMAIN idx |-> k],
                          LAMBDA k : u.segs[k].kind \in {"range", "list"})
    IN  [k \in DOMAIN sets |-> Item(u.segs[sets[k]], idx[sets[k]])]

\* Each `#N` of an output name becomes the N-th capture, when there is one.
apply_glob_output(op, caps) ==
    <<op.name, [k \in DOMAIN op.template |->
                  IF op.template[k] \in DOMAIN caps THEN caps[op.template[k]] ELSE "#"], 0>>

\* A job: its URL's place on the command line and the odometer.
Job(u, idx) == <<u, idx>>
Op(j) == cmd.urls[j[1]].op
NameOf(j) == LET u == cmd.urls[j[1]]
             IN  apply_glob_output(u.op, IF glob_disabled(u) THEN <<>> ELSE Captures(u, j[2]))

\* Every job of the command line; a URL whose glob is refused is one job.
AllJobs ==
    UNION {LET u == cmd.urls[i]
           IN  IF glob_disabled(u) \/ glob_expand(u) = 0 THEN {Job(i, Start(u))}
               ELSE {Job(i, x) : x \in {y \in [DOMAIN u.segs -> 0 .. 9] :
                                  \A k \in DOMAIN y : y[k] < SegLen(u.segs[k])}}
           : i \in DOMAIN cmd.urls}

\* The queue after the job at its head: the same URL's next combination, or
\* the next URL's first.
jobs(q) ==
    LET u == cmd.urls[q[1]]
        next == IF glob_disabled(u) \/ glob_expand(u) = 0 THEN <<>>
                ELSE GlobNext(u.segs, q[2])
    IN  IF next # <<>> THEN Job(q[1], next)
        ELSE IF q[1] < Len(cmd.urls) THEN Job(q[1] + 1, Start(cmd.urls[q[1] + 1]))
        ELSE <<>>

-----------------------------------------------------------------------------
(* Exit codes.                                                             *)

transfer_exit_code(e) ==
    CASE e = "InvalidUrl" -> 3      [] e = "UnsupportedScheme" -> 1
      [] e = "UnexpectedEof" -> 52  [] e = "HostKey" -> 60
      [] e = "Ssh" -> 79            [] e = "Status" -> 22
      [] e = "Redirect" -> 47       [] e = "BadResponse" -> 8
      [] e = "TimedOut" -> 28       [] e = "Lookup" -> 6
      [] e = "Tls" -> 35            [] e = "Cancelled" -> 42
      [] OTHER -> 7

ssh_exit_code(e) == IF e = "HostKey" THEN 60 ELSE IF e = "TimedOut" THEN 28 ELSE 7

\* The sink's own aborts travel through the library as I/O errors.
download_error_code(e) ==
    CASE e = "MaxFilesize" -> 63 [] e = "LowSpeed" -> 28 [] OTHER -> transfer_exit_code(e)

\* Timeouts and a dropped connection are retried; a refusal only on request.
should_retry_err(e, op) ==
    op.retryAll \/ e \in {"TimedOut", "UnexpectedEof"} \/ (e = "Refused" /\ op.retryRefused)

is_retryable_status(s) == s \in {408, 429, 500, 502, 503, 504}

-----------------------------------------------------------------------------
(* The dialogues: what the command line checks first, then the code for    *)
(* the library's outcome r.  None of them touches a file of the user's.    *)

Upload(op) == IF op.input = "unreadable" THEN 26 ELSE IF op.badProxy THEN 5 ELSE 0

run_ftp_upload(op, r) ==
    CASE Upload(op) # 0       -> Upload(op)
      [] op.at > BodyLen      -> 2          \* -C past the end of the local file
      [] r = Ok               -> 0
      [] OTHER                -> transfer_exit_code(r)

run_tftp_upload(op, r) == IF Upload(op) # 0 THEN Upload(op) ELSE IF r = Ok THEN 0 ELSE 7

run_ssh_upload(op, r) ==
    IF op.input = "unreadable" THEN 26 ELSE IF r = Ok THEN 0 ELSE ssh_exit_code(r)

run_mqtt_publish(op, r) ==
    IF Upload(op) # 0 THEN Upload(op) ELSE IF r = Ok THEN 0 ELSE 7

\* No envelope, no body or an unreadable one is a usage error.
run_smtp(op, r) ==
    CASE ~op.envelope \/ op.input # "file" -> 2
      [] op.badProxy -> 5
      [] r = Ok -> 0
      [] OTHER -> 7

\* The end of the stream and the idle timeout are the normal ends.
run_websocket(op, r) ==
    CASE op.badProxy -> 5 [] r \in {Ok, "TimedOut", "UnexpectedEof"} -> 0 [] OTHER -> transfer_exit_code(r)

\* -T on a scheme that cannot upload is refused.
Session(op, r) ==
    CASE op.scheme = "torrent" -> IF r = Ok THEN 0 ELSE transfer_exit_code(r)
      [] op.scheme = "ws"      -> run_websocket(op, r)
      [] op.scheme = "smtp"    -> run_smtp(op, r)
      [] op.scheme = "mqtt"    -> run_mqtt_publish(op, r)
      [] op.scheme = "ftp"     -> run_ftp_upload(op, r)
      [] op.scheme = "tftp"    -> run_tftp_upload(op, r)
      [] op.scheme = "ssh"     -> run_ssh_upload(op, r)
      [] OTHER                 -> 2

-----------------------------------------------------------------------------
(* Routing.                                                                *)

ToFile(op) == op.out = "file"

\* The body is streamed only where nothing depends on the response's head.
streams_to_file(op) == ToFile(op) /\ ~op.fail /\ ~op.withBody /\ ~op.include
streams_to_stdout(op) ==
    ~ToFile(op) /\ ~op.fail /\ ~op.withBody /\ ~op.include /\ op.retry = 0
parallel_segments_eligible(op) == op.segments > 1 /\ op.at = 0 /\ op.input = "none"

\* -C N, or for -C - the size of the file, unless the engine's own partial
\* file is there to continue.
resume_offset(j) ==
    LET op == Op(j) IN
    CASE op.at > 0     -> op.at
      [] ~op.continue \/ ~ToFile(op) \/ NameOf(j) \in parts -> 0
      [] OTHER         -> IF fs[NameOf(j)] = Absent THEN 0 ELSE Len(fs[NameOf(j)])

Early(op) == CASE op.scheme = "badquery"   -> 26
               [] op.scheme = "unparsable" -> 3
               [] op.scheme = "barred"     -> 1
               [] OTHER                    -> 0

Sessions == {"torrent", "ws", "smtp"}

\* A scheme other than HTTP: its dialogue, or a payload to write.
Dispatch(op) ==
    CASE op.scheme \in {"rtsp", "telnet"} -> "whole"
      [] op.scheme \in Sessions \/ op.input # "none" -> "session"
      [] op.scheme # "ssh" /\ ToFile(op) -> "stream"
      [] OTHER -> "whole"

\* HTTP: -C on a file that is there, the engine, a stream, or the buffer.
HttpPath(j) ==
    LET op == Op(j) IN
    CASE resume_offset(j) > 0 -> "resume"
      [] streams_to_file(op) /\ (op.continue \/ parallel_segments_eligible(op)) -> "library"
      [] streams_to_file(op) \/ streams_to_stdout(op) -> "stream"
      [] OTHER -> "buffered"

process_url(j) == IF Op(j).scheme = "http" THEN HttpPath(j) ELSE Dispatch(Op(j))

-----------------------------------------------------------------------------
(* The process and its workers.                                            *)

Starting == 1000

Idle == [pc |-> "idle", job |-> <<>>, path |-> "none", name |-> <<>>, kept |-> <<>>,
         mark |-> 0, offset |-> 0, resp |-> <<>>, got |-> 0, attempt |-> 0, code |-> 0]

First == CHOOSE w \in Workers : TRUE

\* -Z is ignored once a cookie jar is in use.
Parallel == cmd.parallel /\ ~cmd.jar
Active == IF Parallel THEN Workers ELSE {First}

\* The names a job may write: its own and the --no-clobber variants.
Names == {<<NameOf(j)[1], NameOf(j)[2], n>> : j \in AllJobs, n \in 0 .. 3}

\* What a job's URL names; two URLs may name the same resource.
Source(j) == <<IF Op(j).src = 0 THEN j[1] ELSE Op(j).src, j[2]>>
Resource(j) == [i \in 1 .. BodyLen |-> <<Source(j), i>>]

\* A resumed file starts with the first chunks of the resource it is from.
CliInit ==
    /\ cmd \in Commands
    /\ queue = Job(1, Start(cmd.urls[1]))
    /\ wk = [w \in Workers |-> Idle]
    /\ fs = [n \in Names |->
               IF \E j \in AllJobs : NameOf(j) = n /\ Op(j).old > 0
               THEN LET j == CHOOSE j \in AllJobs : NameOf(j) = n /\ Op(j).old > 0
                    IN  SubSeq(Resource(j), 1, Op(j).old)
               ELSE Absent]
    /\ parts \in {{}, {NameOf(j) : j \in {i \in AllJobs : Op(i).hasPart}}}
    /\ stdout = <<>> /\ outLock = Free /\ errLock = Free
    /\ worst = 0 /\ codes = [j \in AllJobs |-> <<>>] /\ exit = Starting

\* The cookie file is loaded before any transfer, and may not be readable.
build_initial_jar == IF cmd.jar THEN {Running, 2} ELSE {Running}

\* Unusable arguments or an unreadable cookie file end the program at once.
main ==
    /\ exit = Starting
    /\ exit' \in IF cmd.usage THEN {2} ELSE build_initial_jar
    /\ UNCHANGED <<cmd, queue, wk, fs, parts, stdout, outLock, errLock, worst, codes>>

JobAt(w, pc) == exit = Running /\ wk[w].pc = pc
Go(w, pc) == wk' = [wk EXCEPT ![w].pc = pc]
Return(w, code) == wk' = [wk EXCEPT ![w].pc = "report", ![w].code = code]
Stderr(w) == errLock \in {Free, w}

\* The next job is taken from the shared queue; a refused glob is reported
\* by the queue itself, on stderr.
Take(w) ==
    /\ JobAt(w, "idle") /\ w \in Active /\ queue # <<>>
    /\ LET u == cmd.urls[queue[1]]
           refused == ~glob_disabled(u) /\ glob_expand(u) = 0
       IN  /\ refused => Stderr(w)
           /\ wk' = [wk EXCEPT ![w] = [Idle EXCEPT !.pc = IF refused THEN "report" ELSE "route",
                                          !.job = queue, !.code = IF refused THEN 3 ELSE 0]]
    /\ queue' = jobs(queue)
    /\ UNCHANGED <<cmd, fs, parts, stdout, outLock, errLock, worst, codes, exit>>

\* Where each path begins.
Entry == [session |-> "session", whole |-> "send", stream |-> "open", resume |-> "open",
          library |-> "resolve", buffered |-> "send"]

Route(w) ==
    /\ JobAt(w, "route")
    /\ LET j == wk[w].job
       IN  IF Early(Op(j)) # 0 THEN Return(w, Early(Op(j)))
           ELSE IF process_url(j) # "session" /\ Op(j).badProxy THEN Return(w, 5)
           ELSE wk' = [wk EXCEPT ![w].pc = Entry[process_url(j)], ![w].path = process_url(j),
                                 ![w].name = NameOf(j), ![w].offset = resume_offset(j)]
    /\ UNCHANGED <<cmd, queue, fs, parts, stdout, outLock, errLock, worst, codes, exit>>

Dialogue(w) ==
    /\ JobAt(w, "session") /\ (Op(wk[w].job).verbose => Stderr(w))
    /\ \E r \in {Ok} \cup Faults : Return(w, Session(Op(wk[w].job), r))
    /\ UNCHANGED <<cmd, queue, fs, parts, stdout, outLock, errLock, worst, codes, exit>>

\* -C opens the file for appending, and creates one that is not there.
open_append_output(n) == IF fs[n] = Absent THEN <<>> ELSE fs[n]

\* Mutant: stdout is written without holding its lock.
open_download_output_Unlocked(w) ==
    /\ JobAt(w, "open")
    /\ LET op == Op(wk[w].job) n == wk[w].name IN
       \/ ~ToFile(op) /\ wk' = [wk EXCEPT ![w].pc = "send", ![w].mark = Len(stdout)] /\ UNCHANGED fs
       \/ ToFile(op) /\ wk[w].path = "stream" /\ Go(w, "resolve") /\ UNCHANGED fs
       \/ ToFile(op) /\ wk[w].path = "resume"
          /\ fs' = [fs EXCEPT ![n] = open_append_output(n)]
          /\ wk' = [wk EXCEPT ![w].pc = "send", ![w].kept = fs'[n]]
    /\ UNCHANGED <<cmd, queue, parts, stdout, outLock, errLock, worst, codes, exit>>

\* -C appends to the file that is there, whatever --no-clobber says; a name
\* of its own is picked otherwise; stdout is locked until the job returns.
open_download_output(w) ==
    /\ JobAt(w, "open")
    /\ LET op == Op(wk[w].job) n == wk[w].name IN
       \/ ~ToFile(op) /\ outLock = Free /\ outLock' = w
          /\ wk' = [wk EXCEPT ![w].pc = "send", ![w].mark = Len(stdout)]
          /\ UNCHANGED fs
       \/ ToFile(op) /\ wk[w].path = "stream" /\ Go(w, "resolve")
          /\ UNCHANGED <<fs, outLock>>
       \/ ToFile(op) /\ wk[w].path = "resume"
          /\ fs' = [fs EXCEPT ![n] = open_append_output(n)]
          /\ wk' = [wk EXCEPT ![w].pc = "send", ![w].kept = fs'[n]]
          /\ UNCHANGED outLock
       \/ ToFile(op) /\ wk[w].path = "resume" /\ "Disk" \in Faults /\ Return(w, 23)
          /\ UNCHANGED <<fs, outLock>>
    /\ UNCHANGED <<cmd, queue, parts, stdout, errLock, worst, codes, exit>>

\* --no-clobber picks the first name that does not exist; a torrent's or a
\* library download's target goes through it too.
resolve_output_path(w) ==
    /\ JobAt(w, "resolve")
    /\ LET base == wk[w].name
           free == {n \in 0 .. 3 : fs[<<base[1], base[2], n>>] = Absent}
           pick == CHOOSE n \in free : \A m \in free : n <= m
       IN  wk' = [wk EXCEPT ![w].pc = IF wk[w].path = "library" THEN "library" ELSE "create",
                     ![w].name[3] = IF Op(wk[w].job).noClobber THEN pick ELSE 0]
    /\ UNCHANGED <<cmd, queue, fs, parts, stdout, outLock, errLock, worst, codes, exit>>

\* The file is truncated (a streamed body follows), or created and given the
\* whole payload; under --fail-with-body a failure to write changes nothing.
create_output_file(w) ==
    /\ JobAt(w, "create")
    /\ LET n == wk[w].name
           payload == IF wk[w].path = "stream" THEN <<>> ELSE wk[w].resp.body
       IN  \/ /\ fs' = [fs EXCEPT ![n] = payload]
              /\ IF wk[w].path = "stream" THEN Go(w, "send") ELSE Return(w, wk[w].code)
           \/ /\ "Disk" \in Faults
              /\ fs' \in {fs, [fs EXCEPT ![n] = <<>>]}
              /\ Return(w, IF wk[w].code = 0 THEN 23 ELSE wk[w].code)
    /\ UNCHANGED <<cmd, queue, parts, stdout, outLock, errLock, worst, codes, exit>>

\* A buffered payload for stdout is written under its lock.
write_output(w) ==
    /\ JobAt(w, "stdout") /\ outLock = Free
    /\ stdout' = stdout \o wk[w].resp.body
    /\ Return(w, wk[w].code)
    /\ UNCHANGED <<cmd, queue, fs, parts, outLock, errLock, worst, codes, exit>>

\* Under -v the trace keeps stderr for the whole exchange.
Send(w) ==
    /\ JobAt(w, "send")
    /\ IF Op(wk[w].job).verbose THEN errLock = Free /\ errLock' = w ELSE UNCHANGED errLock
    /\ Go(w, "wait")
    /\ UNCHANGED <<cmd, queue, fs, parts, stdout, outLock, worst, codes, exit>>

\* The server's answer: its status, the chunks that arrive and how it ends.
Body(w, s) ==
    CASE s = 206 -> SubSeq(Resource(wk[w].job), wk[w].offset + 1, BodyLen)
      [] s = 200 -> Resource(wk[w].job)
      [] OTHER   -> <<<<Source(wk[w].job), 0>>>>

\* An honest server: 206 only to a range inside the resource, 416 past it.
Statuses(w) ==
    CASE Op(wk[w].job).scheme # "http" -> {200}
      [] wk[w].path # "resume"         -> {200, 404, 503}
      [] wk[w].offset >= BodyLen       -> {200, 416, 404}
      [] OTHER                         -> {200, 206, 404}

Answers(w) ==
    {[status |-> s, body |-> Body(w, s), end |-> Ok] : s \in Statuses(w)}
      \cup {[status |-> s, body |-> SubSeq(Body(w, s), 1, Len(Body(w, s)) - k), end |-> e] :
             s \in Statuses(w) \ {404, 416, 503}, k \in {0, 1}, e \in Faults \ {"Disk"}}

Unlock(w) == errLock' = IF errLock = w THEN Free ELSE errLock

\* A streamed answer is taken chunk by chunk; -C's status decides each.
Answer(w) ==
    /\ JobAt(w, "wait") /\ wk[w].path \in {"stream", "resume"}
    /\ \E a \in Answers(w) : wk' = [wk EXCEPT ![w].pc = "body", ![w].resp = a]
    /\ UNCHANGED <<cmd, queue, fs, parts, stdout, outLock, errLock, worst, codes, exit>>

\* What the sink wraps: the job's file, or stdout.
Inner(w, c) ==
    IF ToFile(Op(wk[w].job))
    THEN fs' = [fs EXCEPT ![wk[w].name] = @ \o <<c>>] /\ UNCHANGED stdout
    ELSE stdout' = stdout \o <<c>> /\ UNCHANGED fs

\* What -C does with a chunk of a response with this status.
Chosen(w) ==
    LET s == wk[w].resp.status IN
    CASE wk[w].path = "stream" \/ s = 206             -> "write"
      [] s = 416                                       -> "skip"
      [] s \in 200 .. 299                              -> "range"
      [] s >= 400 /\ Op(wk[w].job).fail                -> "skip"
      [] OTHER                                         -> "write"

\* The stream ends with e: the verbose trace is over, --remove-on-error
\* drops what run_http_download and run_stream_download created.
EndWith(w, e, code) ==
    /\ Unlock(w) /\ Return(w, code)
    /\ fs' = IF e # Ok /\ wk[w].path = "stream" /\ ToFile(Op(wk[w].job)) /\ Op(wk[w].job).removeOnError
             THEN [fs EXCEPT ![wk[w].name] = Absent] ELSE fs

\* The chunk is written and the average is below -Y: the transfer is given up.
SlowEnd(w, c) ==
    /\ Unlock(w) /\ Return(w, download_error_code("LowSpeed"))
    /\ IF ToFile(Op(wk[w].job)) /\ Op(wk[w].job).removeOnError /\ wk[w].path = "stream"
       THEN fs' = [fs EXCEPT ![wk[w].name] = Absent] /\ UNCHANGED stdout
       ELSE Inner(w, c)

\* The sink: --max-filesize is checked before a chunk is written, -y/-Y after.
Chunk(w) ==
    /\ JobAt(w, "body") /\ wk[w].got < Len(wk[w].resp.body)
    /\ LET c == wk[w].resp.body[wk[w].got + 1]
           over == wk[w].got + 1 > Op(wk[w].job).max
           took == wk' = [wk EXCEPT ![w].got = @ + 1]
       IN  \/ Chosen(w) = "skip" /\ took /\ UNCHANGED <<fs, stdout, errLock>>
           \/ Chosen(w) = "range" /\ EndWith(w, "range", 33) /\ UNCHANGED stdout
           \/ Chosen(w) = "write" /\ over /\ UNCHANGED stdout
              /\ EndWith(w, "MaxFilesize", download_error_code("MaxFilesize"))
           \/ Chosen(w) = "write" /\ ~over /\ Inner(w, c) /\ took /\ UNCHANGED errLock
           \/ Chosen(w) = "write" /\ ~over /\ "Disk" \in Faults /\ UNCHANGED stdout
              /\ EndWith(w, "Disk", download_error_code("Disk"))
           \/ Chosen(w) = "write" /\ ~over /\ Op(wk[w].job).lowSpeed /\ SlowEnd(w, c)
    /\ UNCHANGED <<cmd, queue, parts, outLock, worst, codes, exit>>

\* The body has arrived as far as it will, from an HTTP server...
run_http_download(w) ==
    /\ JobAt(w, "body") /\ wk[w].path = "stream" /\ wk[w].got = Len(wk[w].resp.body)
    /\ Op(wk[w].job).scheme = "http"
    /\ LET e == wk[w].resp.end
       IN  EndWith(w, e, IF e = Ok THEN 0 ELSE download_error_code(e))
    /\ UNCHANGED <<cmd, queue, parts, stdout, outLock, worst, codes, exit>>

\* ...or through another protocol's client, always to a file.
run_stream_download(w) ==
    /\ JobAt(w, "body") /\ wk[w].path = "stream" /\ wk[w].got = Len(wk[w].resp.body)
    /\ Op(wk[w].job).scheme # "http"
    /\ LET e == wk[w].resp.end
       IN  EndWith(w, e, IF e = Ok THEN 0 ELSE download_error_code(e))
    /\ UNCHANGED <<cmd, queue, parts, stdout, outLock, worst, codes, exit>>

run_http_resume(w) ==
    /\ JobAt(w, "body") /\ wk[w].path = "resume" /\ wk[w].got = Len(wk[w].resp.body)
    /\ LET r == wk[w].resp
       IN  EndWith(w, r.end,
             CASE r.end # Ok -> download_error_code(r.end)
               [] r.status \in 200 .. 299 /\ r.status # 206 -> 33
               [] r.status >= 400 /\ Op(wk[w].job).fail -> 22
               [] OTHER -> 0)
    /\ UNCHANGED <<cmd, queue, parts, stdout, outLock, worst, codes, exit>>

\* The engine publishes the whole file or leaves the target alone, with or
\* without a partial file to continue from.
run_library_download(w) ==
    /\ JobAt(w, "library")
    /\ \/ /\ fs' = [fs EXCEPT ![wk[w].name] = Resource(wk[w].job)]
          /\ parts' = parts \ {wk[w].name} /\ Return(w, 0)
       \/ /\ \E e \in Faults \cup {"MaxFilesize"} : Return(w, download_error_code(e))
          /\ parts' \in {parts, parts \cup {wk[w].name}} /\ UNCHANGED fs
    /\ UNCHANGED <<cmd, queue, stdout, outLock, errLock, worst, codes, exit>>

\* A payload in memory goes to the -o file, or to stdout.
Output(w, r, code) ==
    wk' = [wk EXCEPT ![w].pc = IF ToFile(Op(wk[w].job)) THEN "resolve" ELSE "stdout",
                     ![w].resp = r, ![w].code = code, ![w].mark = Len(stdout)]

\* The clients that return the payload whole, and what a failure exits with.
run_ssh(e) == ssh_exit_code(e)
run_telnet(e) == 7
run_rtsp(e) == transfer_exit_code(e)

run_transfer(w) ==
    /\ JobAt(w, "wait") /\ wk[w].path = "whole" /\ Unlock(w)
    /\ \E a \in Answers(w) :
         IF a.end = Ok THEN Output(w, a, 0)
         ELSE Return(w, CASE Op(wk[w].job).scheme = "ssh"    -> run_ssh(a.end)
                          [] Op(wk[w].job).scheme = "telnet" -> run_telnet(a.end)
                          [] Op(wk[w].job).scheme = "rtsp"   -> run_rtsp(a.end)
                          [] OTHER                           -> transfer_exit_code(a.end))
    /\ UNCHANGED <<cmd, queue, fs, parts, stdout, outLock, worst, codes, exit>>

\* The buffered path: transient statuses and errors are retried, up to
\* --retry times and within --retry-max-time; then the size cap, --fail and
\* the output.
Buffered(w) ==
    /\ JobAt(w, "wait") /\ wk[w].path = "buffered" /\ Unlock(w)
    /\ \E a \in Answers(w), inBudget \in (IF Op(wk[w].job).retryMax THEN BOOLEAN ELSE {TRUE}) :
         LET op == Op(wk[w].job)
             again == /\ wk[w].attempt < op.retry /\ inBudget
                      /\ IF a.end = Ok THEN is_retryable_status(a.status)
                         ELSE should_retry_err(a.end, op)
         IN  CASE again -> wk' = [wk EXCEPT ![w].pc = "send", ![w].attempt = @ + 1]
               [] ~again /\ a.end # Ok -> Return(w, transfer_exit_code(a.end))
               [] ~again /\ a.end = Ok /\ Len(a.body) > op.max -> Return(w, 63)
               [] ~again /\ a.end = Ok /\ Len(a.body) <= op.max ->
                    IF (op.fail \/ op.withBody) /\ a.status >= 400
                    THEN IF op.withBody THEN Output(w, a, 22) ELSE Return(w, 22)
                    ELSE Output(w, a, 0)
    /\ UNCHANGED <<cmd, queue, fs, parts, stdout, outLock, worst, codes, exit>>

\* A failure is reported on stderr; returning drops the sink and with it the
\* lock on stdout.
Report(w) ==
    /\ JobAt(w, "report") /\ (wk[w].code # 0 => Stderr(w))
    /\ codes' = [codes EXCEPT ![wk[w].job] = Append(@, wk[w].code)]
    /\ worst' = IF wk[w].code # 0 THEN wk[w].code ELSE worst
    /\ outLock' = IF outLock = w THEN Free ELSE outLock
    /\ wk' = [wk EXCEPT ![w] = Idle]
    /\ UNCHANGED <<cmd, queue, fs, parts, stdout, errLock, exit>>

\* Every job is done: the jar is saved, and its failure shows only when
\* nothing else failed.
Exit ==
    /\ exit = Running /\ queue = <<>> /\ \A w \in Workers : wk[w].pc = "idle"
    /\ exit' \in {worst} \cup IF cmd.jar /\ worst = 0 THEN {23} ELSE {}
    /\ UNCHANGED <<cmd, queue, wk, fs, parts, stdout, outLock, errLock, worst, codes>>

Exited == exit \notin {Starting, Running}

Step(w) ==
    \/ Take(w) \/ Route(w) \/ Dialogue(w) \/ open_download_output(w)
    \/ resolve_output_path(w) \/ create_output_file(w) \/ write_output(w)
    \/ Send(w) \/ Answer(w) \/ Chunk(w) \/ run_http_download(w)
    \/ run_stream_download(w) \/ run_http_resume(w) \/ run_library_download(w) \/ run_transfer(w)
    \/ Buffered(w) \/ Report(w)

CliNext == main \/ Exit \/ (Exited /\ UNCHANGED cliVars) \/ \E w \in Workers : Step(w)

\* Threads are scheduled, a free lock is granted, and every transfer ends in
\* an answer or an error (the libraries' timeouts).
CliFair == WF_cliVars(main \/ Exit) /\ \A w \in Workers : WF_cliVars(Step(w))
CliSpec == CliInit /\ [][CliNext]_cliVars /\ CliFair

-----------------------------------------------------------------------------
(* Properties.                                                             *)

\* Every URL the command line stands for, each combination of its globs
\* included, is transferred exactly once, and the process's exit code is 0
\* only if every one of them succeeded, and otherwise the code of one that
\* failed (or 23 for the cookie jar).
ExitHonest ==
    Exited /\ ~cmd.usage /\ ~(exit = 2 /\ \A j \in AllJobs : codes[j] = <<>>) =>
      /\ \A j \in AllJobs : Len(codes[j]) = 1
      /\ exit = 0 => \A j \in AllJobs : codes[j] = <<0>>
      /\ exit # 0 => \/ \E j \in AllJobs : codes[j] = <<exit>>
                     \/ (exit = 23 /\ cmd.jar /\ \A j \in AllJobs : codes[j] = <<0>>)

\* A job about to return 0 has delivered: its file holds the whole of what
\* the server sent it, a resumed file (-C -) the whole resource with no byte
\* lost or repeated, and stdout exactly its body since it took the lock: concurrent jobs
\* never mix their output, although each chunk is written as it arrives.
Delivered ==
    \A w \in Workers : LET k == wk[w] IN
      k.pc = "report" /\ k.code = 0 =>
        CASE k.path = "stream" /\ ToFile(Op(k.job)) ->
               k.resp.end = Ok /\ fs[k.name] = k.resp.body
          [] k.path \in {"stream", "resume"} /\ ~ToFile(Op(k.job)) ->
               SubSeq(stdout, k.mark + 1, Len(stdout)) = SubSeq(k.resp.body, 1, k.got)
          [] k.path = "resume" /\ ToFile(Op(k.job)) ->
               /\ IsPrefix(k.kept, fs[k.name])
               /\ Op(k.job).continue /\ k.resp.status < 400 => fs[k.name] = Resource(k.job)
          [] k.path = "library" -> fs[k.name] = Resource(k.job)
          [] OTHER -> TRUE

\* A failed -C never harms the file it was to continue: its bytes stay, and
\* a server that ignores the range (exit 33) leaves it as it was; a failed
\* stream under --remove-on-error leaves no file at all.
FailureSafe ==
    \A w \in Workers : LET k == wk[w] IN
      /\ k.path = "resume" /\ ToFile(Op(k.job)) /\ k.pc \in {"send", "wait", "body", "report"} =>
           /\ IsPrefix(k.kept, fs[k.name])
           /\ k.pc = "report" /\ k.code = 33 => fs[k.name] = k.kept
      /\ k.path = "stream" /\ k.pc = "report" /\ k.code \notin {0, 23} /\ ToFile(Op(k.job))
           /\ Op(k.job).removeOnError => fs[k.name] = Absent

\* The exit code, the files and stdout tell the same story.
OutputSound == ExitHonest /\ Delivered /\ FailureSafe

\* --no-clobber: "an existing file is never overwritten".
NoClobber ==
    \A w, v \in Workers :
      w # v /\ wk[w].pc \in {"send", "wait", "body"} /\ Op(wk[w].job).noClobber
            /\ wk[v].pc \in {"send", "wait", "body"} => wk[w].name # wk[v].name
=============================================================================
