------------------------------- MODULE CApi -------------------------------
(***************************************************************************)
(* The two C interfaces: the libcurl-compatible one (curl-compat: easy     *)
(* handles, curl_multi over rsurl::Multi) and the crate's own              *)
(* rsurl_easy_* (ffi.rs).  The caller is one thread making any sequence of *)
(* calls its contract allows: between adding a handle to a multi handle    *)
(* and removing it, finished or not, it is neither performed, changed nor  *)
(* freed.  Workers post on their own.                                      *)
(*                                                                         *)
(* An Option is the empty set or a singleton.  `buf` and `lines` are the   *)
(* caller's own memory: a POSTFIELDS buffer and a curl_slist, read through *)
(* the stored pointer when a request is built.  res, added, due, asked and *)
(* lent are history: `added` holds the handles the caller added and has    *)
(* not removed, due[e] the messages about e it may still expect.           *)
(***************************************************************************)
EXTENDS Integers, Sequences, FiniteSets, SequencesExt

CONSTANTS Easies,        \* curl easy handles
          Varied,        \* those whose options the caller changes
          Settings,      \* the <<option, value>> pairs the caller may set
          NativeSettings,
          Buffers,       \* contents the caller's buffer may have; 0 is NUL
          HeaderLines,   \* the lines the caller may append to its slist
          MaxWrite,      \* MAX_WRITE_SIZE, in units of the model
          MaxCalls       \* bound on the caller's setopt, perform and add calls

VARIABLE api

NoApi == [on |-> FALSE]

-----------------------------------------------------------------------------
(* Easy handles.                                                           *)

NewEasy ==
    [live |-> TRUE, url |-> {}, custom |-> {}, nobody |-> FALSE, upload |-> FALSE, post |-> FALSE,
     ptr |-> FALSE, len |-> {}, copy |-> {}, http_header |-> FALSE, failonerror |-> FALSE,
     header_in_body |-> FALSE, header_fn |-> FALSE, timeout |-> 0, connect_timeout |-> 0,
     useragent |-> {}, accept_encoding |-> {}, range |-> {}, proxy |-> {}, last |-> {}]

\* Options stored as given: strings, pointers, functions and flags.
Stored == {"url", "custom", "nobody", "upload", "post", "http_header", "failonerror", "header_in_body",
           "header_fn", "useragent", "accept_encoding", "proxy"}
Timeouts == {"timeout", "connect_timeout"}
Accepted == {"nosignal"}

\* The bytes behind a pointer: the announced length, or up to the NUL.
BufferBytes(buf, len) ==
    SubSeq(buf, 1, IF len = {} THEN SelectInSeq(buf, LAMBDA b : b = 0) - 1 ELSE CHOOSE n \in len : TRUE)

setopt(h, o, v, buf) ==
    CASE o = "postfields" -> [h EXCEPT !.ptr = v, !.copy = {}, !.post = TRUE]
      [] o = "copypostfields" -> [h EXCEPT !.copy = {IF v THEN BufferBytes(buf, h.len) ELSE <<>>}, !.ptr = FALSE, !.post = TRUE]
      [] o = "httpget" ->
           IF v THEN [h EXCEPT !.post = FALSE, !.upload = FALSE, !.nobody = FALSE, !.ptr = FALSE, !.copy = {}] ELSE h
      [] o = "range" -> [h EXCEPT !.range = v \ {""}]
      [] o = "postfieldsize" -> [h EXCEPT !.len = {n \in {v} : n >= 0}]
      [] o \in Timeouts -> IF v < 0 THEN h ELSE [h EXCEPT ![o] = v]
      [] o \in Stored -> [h EXCEPT ![o] = v]
      [] OTHER -> h
setopt_code(o, v) ==
    CASE o \in Timeouts /\ v < 0 -> "BAD_FUNCTION_ARGUMENT"
      [] o \notin Stored \cup Timeouts \cup Accepted \cup {"postfields", "copypostfields", "httpget", "range", "postfieldsize"}
           -> "UNKNOWN_OPTION"
      [] OTHER -> "OK"

\* A duplicate shares the caller's pointers and starts without a response.
duphandle(h) == [h EXCEPT !.last = {}]

-----------------------------------------------------------------------------
(* The request an option set stands for.  A header is its name and where   *)
(* it comes from.                                                          *)

MethodOf(h) ==
    CASE h.custom # {} -> CHOOSE m \in h.custom : TRUE
      [] h.custom = {} /\ h.nobody -> "HEAD"
      [] h.custom = {} /\ ~h.nobody /\ h.upload -> "PUT"
      [] h.custom = {} /\ ~h.nobody /\ ~h.upload /\ (h.post \/ h.ptr \/ h.copy # {}) -> "POST"
      [] OTHER -> "GET"

slist_lines(h, lines) == IF h.http_header THEN lines ELSE <<>>
custom_has(custom, name) == \E i \in 1..Len(custom) : custom[i].name = name
Generated(set, name) == IF set THEN <<[name |-> name, from |-> "option"]>> ELSE <<>>

\* "Name: v" and "Name;" are sent, "Name:" only suppresses a generated header.
CallerHeaders(custom) ==
    LET sent == SelectSeq(custom, LAMBDA l : l.form # "remove") IN
    [i \in 1..Len(sent) |-> [name |-> sent[i].name, from |-> "caller"]]
RequestHeaders(h, custom) ==
    Generated(h.useragent # {} /\ ~custom_has(custom, "user-agent"), "user-agent")
    \o Generated(h.range # {}, "range")
    \o Generated(h.accept_encoding # {}, "accept-encoding")
    \o CallerHeaders(custom)

RequestBody(h, buf) == IF h.copy # {} THEN h.copy ELSE IF h.ptr THEN {BufferBytes(buf, h.len)} ELSE {}

\* A request, or the code of the reason there is none.
build_request(h, buf, lines) ==
    LET custom == slist_lines(h, lines) IN
    CASE h.url = {} -> [code |-> "URL_MALFORMAT"]
      [] h.url = {"bad"} -> [code |-> "URL_MALFORMAT"]
      [] h.url \notin {{}, {"bad"}} /\ h.proxy = {"bad"} -> [code |-> "UNSUPPORTED_PROTOCOL"]
      [] OTHER -> [code |-> "OK", url |-> h.url, method |-> MethodOf(h), headers |-> RequestHeaders(h, custom),
                   body |-> RequestBody(h, buf), timeout |-> h.timeout,
                   decode |-> ~(h.accept_encoding = {} /\ custom_has(custom, "accept-encoding"))]

map_error(e) ==
    CASE e = "timed out" -> "OPERATION_TIMEDOUT"
      [] e = "refused" -> "COULDNT_CONNECT"
      [] e = "io" -> "RECV_ERROR"
      [] e = "eof" -> "GOT_NOTHING"
      [] e = "bad response" -> "WEIRD_SERVER_REPLY"

\* What Request::send may return for request number n.
HeadLines(n) == <<<<n, "status">>, <<n, "field">>, <<n, "blank">>>>
BodyOf(n) == <<<<n, 1>>, <<n, 2>>, <<n, 3>>>>
Results(n, req) ==
    {[err |-> "none", n |-> n, status |-> s, url |-> req.url,
      body |-> IF req.method = "HEAD" THEN <<>> ELSE BodyOf(n)] : s \in {200, 404}}
    \cup {[err |-> "io", n |-> n, status |-> 0, url |-> {}, body |-> <<>>]}

-----------------------------------------------------------------------------
(* Delivery to the callbacks: every call in order until one takes less     *)
(* than it was given.  `accepts` is the number of calls the caller takes.  *)

Chunks(data) ==
    [i \in 1..((Len(data) + MaxWrite - 1) \div MaxWrite) |->
        SubSeq(data, (i - 1) * MaxWrite + 1, IF i * MaxWrite < Len(data) THEN i * MaxWrite ELSE Len(data))]
write_body(data) == LET cs == Chunks(data) IN [i \in 1..Len(cs) |-> [to |-> "write", data |-> cs[i]]]
HeaderCalls(h, resp) ==
    (IF h.header_fn THEN [i \in 1..3 |-> [to |-> "header", data |-> <<HeadLines(resp.n)[i]>>]] ELSE <<>>)
    \o (IF h.header_in_body THEN write_body(HeadLines(resp.n)) ELSE <<>>)
ApiCalls(h, resp) == HeaderCalls(h, resp) \o (IF h.nobody THEN <<>> ELSE write_body(resp.body))

deliver(h, resp, accepts) ==
    LET cs == ApiCalls(h, resp) IN
    CASE h.failonerror /\ resp.status >= 400 -> [h |-> [h EXCEPT !.last = {resp}], code |-> "HTTP_RETURNED_ERROR", calls |-> <<>>]
      [] ~(h.failonerror /\ resp.status >= 400) /\ Len(cs) > accepts ->
           [h |-> h, code |-> "WRITE_ERROR", calls |-> SubSeq(cs, 1, accepts)]
      [] OTHER -> [h |-> [h EXCEPT !.last = {resp}], code |-> "OK", calls |-> cs]

\* A finished transfer, on the caller's thread.
Settle(h, out, accepts) ==
    IF out.err = "none" THEN deliver(h, out, accepts) ELSE [h |-> h, code |-> map_error(out.err), calls |-> <<>>]

\* What getinfo reads: the stored response, and the URL option as it is now.
getinfo(h) ==
    [code |-> IF h.last = {} THEN 0 ELSE (CHOOSE r \in h.last : TRUE).status,
     size |-> IF h.last = {} THEN 0 ELSE Len((CHOOSE r \in h.last : TRUE).body),
     redirected |-> \E r \in h.last : r.url # h.url]

-----------------------------------------------------------------------------
(* The crate's own handle.                                                 *)

NewHandle == [url |-> {}, method |-> {}, user_agent |-> {}, headers |-> <<>>, body |-> {}, timeout_secs |-> 0,
              follow |-> FALSE, accept_encoding |-> {}, last_response |-> {}, header_buf |-> <<>>]

setopt_str(h, o, v) ==
    CASE o = "header" /\ v = {} -> [h EXCEPT !.headers = <<>>]
      [] o = "header" /\ v # {} /\ v # {"no colon"} -> [h EXCEPT !.headers = Append(@, CHOOSE n \in v : TRUE)]
      [] o \in {"url", "method", "user_agent", "body", "accept_encoding"} -> [h EXCEPT ![o] = v]
      [] OTHER -> h
setopt_long(h, o, v) ==
    CASE o = "timeout_secs" -> [h EXCEPT !.timeout_secs = IF v <= 0 THEN 0 ELSE v]
      [] o = "follow" -> [h EXCEPT !.follow = v # 0]
      [] OTHER -> h

NativeRequest(h) ==
    [url |-> h.url,
     method |-> IF h.method # {} THEN CHOOSE m \in h.method : TRUE ELSE IF h.body # {} THEN "POST" ELSE "GET",
     headers |-> [i \in 1..Len(h.headers) |-> [name |-> h.headers[i], from |-> "caller"]]
                 \o Generated(h.user_agent # {} /\ \A i \in 1..Len(h.headers) : h.headers[i] # "user-agent", "user-agent")
                 \o Generated(h.accept_encoding # {}, "accept-encoding"),
     body |-> h.body]

\* A failed call leaves the response of the one before it.
rsurl_easy_perform(h, out) ==
    IF out.err # "none" THEN h ELSE [h EXCEPT !.last_response = {out}, !.header_buf = HeadLines(out.n)]

-----------------------------------------------------------------------------
NoResult == [code |-> "none", resp |-> {}, calls |-> <<>>, want |-> <<>>]
\* What the caller's last call about a body asked for: nothing, the buffer as it
\* will be, or the bytes it held at the time.
AskedNothing == [how |-> "nothing", bytes |-> <<>>]

ApiInit ==
    \E native \in BOOLEAN : api = [on |-> TRUE, curl |-> ~native, easy |-> [e \in Easies |-> [NewEasy EXCEPT !.url = {"u"}, !.live = ~native]],
           buf |-> CHOOSE b \in Buffers : TRUE, lines |-> <<>>,
           pending |-> <<>>, inner |-> {}, posted |-> <<>>, ids |-> <<>>, done |-> <<>>, running |-> {},
           next |-> 1, used |-> 0, built |-> {}, freed |-> FALSE,
           res |-> [e \in Easies |-> NoResult], added |-> {}, due |-> [e \in Easies |-> 0], asked |-> [e \in Easies |-> AskedNothing],
           native |-> NewHandle, lent |-> {}, nres |-> {}]

\* The caller uses the one interface or the other.
Curl == api.curl
MayCall == api.used < MaxCalls
\* id_to_easy: the function from transfer ids to handles, as a set of pairs.
Mapped == {api.ids[i].easy : i \in 1..Len(api.ids)}
\* The caller's own books: it removes a handle before it uses it otherwise.
Lent(e) == e \in api.added
\* The messages about e that curl_multi_info_read has yet to return.
Queued(a, e) == Cardinality({i \in 1..Len(a.done) : a.done[i].easy = e})

Asked(a, e, o, v) ==
    CASE o = "postfields" -> [how |-> IF v THEN "buffer" ELSE "nothing", bytes |-> <<>>]
      [] o = "copypostfields" -> [how |-> "copy", bytes |-> IF v THEN BufferBytes(a.buf, a.easy[e].len) ELSE <<>>]
      [] o = "httpget" /\ v -> AskedNothing
      [] OTHER -> a.asked[e]

CurlSetopt(e, o, v) ==
    /\ MayCall /\ e \in Varied /\ api.easy[e].live /\ ~Lent(e)
    /\ api' = [api EXCEPT !.easy[e] = setopt(@, o, v, api.buf), !.asked[e] = Asked(api, e, o, v), !.used = @ + 1,
                          !.built = {}, !.res[e] = NoResult]
CurlReset(e) ==
    /\ MayCall /\ e \in Varied /\ api.easy[e].live /\ ~Lent(e) /\ api.easy[e] # NewEasy
    /\ api' = [api EXCEPT !.easy[e] = NewEasy, !.asked[e] = AskedNothing, !.res[e] = NoResult, !.used = @ + 1]
CurlCleanup(e) ==
    /\ MayCall /\ api.easy[e].live /\ ~Lent(e)
    /\ api' = [api EXCEPT !.easy[e].live = FALSE, !.res[e] = NoResult, !.used = @ + 1]
CurlDuphandle(e, f) ==
    /\ MayCall /\ api.easy[e].live /\ ~api.easy[f].live
    /\ api' = [api EXCEPT !.easy[f] = duphandle(api.easy[e]), !.asked[f] = api.asked[e], !.res[f] = NoResult, !.used = @ + 1]

\* The caller's own memory: a new content for its buffer, a line more on its slist.
WriteBuffer(b) == MayCall /\ Curl /\ b # api.buf /\ api' = [api EXCEPT !.buf = b, !.used = @ + 1]
slist_append(l) == MayCall /\ Curl /\ Len(api.lines) < 1 /\ api' = [api EXCEPT !.lines = Append(@, l), !.used = @ + 1]

\* What the options in force ask to be written, and what the caller asked to be sent.
Wanted(h, resp) == (IF h.header_in_body THEN HeadLines(resp.n) ELSE <<>>) \o (IF h.nobody THEN <<>> ELSE resp.body)
AskedBody(a, e) ==
    CASE a.asked[e].how = "nothing" -> {}
      [] a.asked[e].how = "buffer" -> {BufferBytes(a.buf, a.easy[e].len)}
      [] a.asked[e].how = "copy" -> {a.asked[e].bytes}

RequestOf(e) == build_request(api.easy[e], api.buf, api.lines)
Record(a, e, s, out) ==
    [a EXCEPT !.easy[e] = s.h,
              !.res[e] = [code |-> s.code, resp |-> {out}, calls |-> s.calls, want |-> Wanted(a.easy[e], out)]]

CurlPerform(e) ==
    /\ e \in Varied /\ MayCall /\ api.easy[e].live /\ ~Lent(e)
    /\ LET req == RequestOf(e)
           a == [api EXCEPT !.used = @ + 1, !.next = @ + 1, !.built = {[req |-> req, want |-> AskedBody(api, e)]}] IN
       IF req.code # "OK" THEN api' = [a EXCEPT !.res[e] = [NoResult EXCEPT !.code = req.code]]
       ELSE \E out \in Results(api.next, req), n \in {0, 1, 8} :
               LET s == Settle(api.easy[e], out, n) IN
               /\ api' = Record(a, e, s, out)

-----------------------------------------------------------------------------
(* curl_multi over rsurl::Multi, whose workers and channel are `inner` (the *)
(* requests running) and `posted` (completions not yet collected).          *)

MultiAdd(e) ==
    /\ MayCall /\ ~api.freed /\ api.easy[e].live
    /\ api' = [api EXCEPT !.pending = Append(@, e), !.added = @ \cup {e}, !.due[e] = @ + 1, !.running = {}, !.used = @ + 1]

remove_handle_PendingOnly(a, e) == [a EXCEPT !.pending = SelectSeq(@, LAMBDA f : f # e)]
remove_handle(a, e) ==
    [a EXCEPT !.pending = SelectSeq(@, LAMBDA f : f # e), !.ids = SelectSeq(@, LAMBDA m : m.easy # e)]
\* Whatever has become of its transfer; the messages queued by then stay.
MultiRemove(e) ==
    /\ ~api.freed /\ Lent(e)
    /\ api' = [remove_handle(api, e) EXCEPT !.added = @ \ {e}, !.due[e] = Queued(api, e)]

\* One pending handle: a request on the inner Multi, or a message at once.
StartOne(a, e) ==
    LET req == build_request(a.easy[e], a.buf, a.lines) IN
    IF req.code = "OK"
    THEN [a EXCEPT !.inner = @ \cup {[id |-> a.next, req |-> req]}, !.ids = Append(@, [id |-> a.next, easy |-> e]),
                   !.next = @ + 1, !.built = @ \cup {[req |-> req, want |-> AskedBody(a, e)]}]
    ELSE [a EXCEPT !.done = Append(@, [easy |-> e, code |-> req.code]),
                   !.res[e] = [NoResult EXCEPT !.code = req.code]]
start_pending(a) == [FoldLeft(StartOne, [a EXCEPT !.built = {}], a.pending) EXCEPT !.pending = <<>>]

\* One completion: delivered to the handle still mapped to its id, or ignored.
Collect(a, out) ==
    LET at == SelectInSeq(a.ids, LAMBDA m : m.id = out.n) IN
    IF at = 0 THEN a
    ELSE LET e == a.ids[at].easy
             s == Settle(a.easy[e], out, out.accepts)
             b == Record(a, e, s, [f \in DOMAIN out \ {"accepts"} |-> out[f]]) IN
         [b EXCEPT !.ids = RemoveAt(@, at), !.done = Append(@, [easy |-> e, code |-> s.code])]
drain(a) == [FoldLeft(Collect, a, a.posted) EXCEPT !.posted = <<>>]

MultiPerform ==
    /\ Curl /\ ~api.freed /\ (api.pending # <<>> \/ api.posted # <<>> \/ (api.inner = {} /\ api.running = {}))
    /\ LET a == drain(start_pending(api)) IN api' = [a EXCEPT !.running = {Cardinality(a.inner)}]
\* A worker sends its request and posts what came of it; `accepts` is how the
\* caller's callback will behave, chosen here.
WorkerPosts ==
    \E w \in api.inner : \E out \in Results(w.id, w.req), n \in {1, 8} :
        api' = [api EXCEPT !.inner = @ \ {w}, !.built = {},
                           !.posted = Append(@, [f \in DOMAIN out \cup {"accepts"} |-> IF f = "accepts" THEN n ELSE out[f]])]
InfoRead ==
    /\ ~api.freed /\ api.done # <<>>
    /\ LET e == Head(api.done).easy IN api' = [api EXCEPT !.done = Tail(@), !.res[e] = NoResult, !.due[e] = @ - 1]
\* Dropping the inner Multi joins its workers; what they posted goes with it.
MultiCleanup ==
    /\ ~api.freed /\ api.inner = {} /\ api.next > 1
    /\ api' = [api EXCEPT !.freed = TRUE, !.pending = <<>>, !.posted = <<>>, !.ids = <<>>, !.done = <<>>, !.running = {},
                          !.added = {}, !.due = [e \in Easies |-> 0]]

-----------------------------------------------------------------------------
NativeSetopt(o, v) ==
    /\ MayCall /\ ~Curl
    /\ api' = [api EXCEPT !.native = IF o \in {"timeout_secs", "follow"} THEN setopt_long(@, o, v) ELSE setopt_str(@, o, v),
                          !.used = @ + 1]
NativePerform ==
    /\ MayCall /\ ~Curl /\ api.native.url # {}
    /\ \E out \in Results(api.next, NativeRequest(api.native)) :
          api' = [api EXCEPT !.native = rsurl_easy_perform(@, out), !.lent = {}, !.nres = {out},
                             !.next = @ + 1, !.used = @ + 1]
\* The body pointer stays the caller's until the next perform, reset or cleanup.
ResponseBody == api.native.last_response # {} /\ api.lent = {} /\ api' = [api EXCEPT !.lent = api.native.last_response]
NativeReset == MayCall /\ api.native # NewHandle /\ api' = [api EXCEPT !.native = NewHandle, !.lent = {}, !.nres = {}, !.used = @ + 1]

ApiNext ==
    \/ \E e \in Easies, p \in Settings : CurlSetopt(e, p[1], p[2])
    \/ \E e \in Easies : CurlReset(e) \/ CurlCleanup(e) \/ CurlPerform(e) \/ MultiAdd(e) \/ MultiRemove(e)
    \/ \E e, f \in Easies : CurlDuphandle(e, f)
    \/ \E b \in Buffers : WriteBuffer(b)
    \/ \E l \in HeaderLines : slist_append(l)
    \/ MultiPerform \/ WorkerPosts \/ InfoRead \/ MultiCleanup
    \/ \E p \in NativeSettings : NativeSetopt(p[1], p[2])
    \/ NativePerform \/ ResponseBody \/ NativeReset

-----------------------------------------------------------------------------
\* Only handles the caller has not freed are read when a multi handle starts or
\* collects transfers, although one removed while its transfer runs may be freed
\* before its worker posts (multi.rs:143).
DereferencesLive == \A e \in Range(api.pending) \cup Mapped : api.easy[e].live
\* The messages the caller finds: one for each time it added a handle, and for a
\* removed one no more than were queued by then ("its completion is ignored").
\* Those that were queued stay, and are returned after the removal.
MessagesDue == \A e \in Easies : Queued(api, e) <= api.due[e]
\* Once curl_multi_perform reports nothing running, all that are due are queued:
\* a loop that stops at zero misses none.
LoopMayStop == api.running = {0} => \A e \in Easies : Queued(api, e) = api.due[e]

\* A transfer reported as done wrote exactly the response, in order and in calls
\* no larger than the limit; one cut short by its callback wrote a prefix.
DeliveryExact ==
    \A e \in Easies : LET r == api.res[e]
                          cs == SelectSeq(r.calls, LAMBDA k : k.to = "write")
                          wrote == FlattenSeq([i \in 1..Len(cs) |-> cs[i].data]) IN
        /\ \A i \in 1..Len(cs) : Len(cs[i].data) \in 1..MaxWrite
        /\ r.code = "OK" => wrote = r.want
        /\ r.code = "WRITE_ERROR" => IsPrefix(wrote, r.want)
        /\ r.code \in {"OK", "HTTP_RETURNED_ERROR"} =>
              \A resp \in r.resp : getinfo(api.easy[e]).code = resp.status /\ getinfo(api.easy[e]).size = Len(resp.body)
\* A request carries the body the caller's last word about one asked for: the
\* copy taken then, the buffer as it is when the request is built, or none.
RequestAsAsked ==
    \A b \in api.built : b.req.code = "OK" => b.req.body = b.want
\* The crate's own handle: what it lends stays, and its parts are of one response.
NativeSound ==
    /\ \A r \in api.lent : api.native.last_response = {r}
    /\ \A r \in api.native.last_response : api.native.header_buf = HeadLines(r.n)
    /\ \A r \in api.nres : r.err = "none" => api.native.last_response = {r}

\* The C interfaces: handles are read while they live, no message is missed,
\* repeated or about a transfer its caller gave up, and requests and deliveries
\* are exactly what the options ask.
ApiSound ==
    api.on => DereferencesLive /\ MessagesDue /\ LoopMayStop /\ DeliveryExact /\ RequestAsAsked /\ NativeSound
=============================================================================
