------------------------------ MODULE Redirect ------------------------------
(***************************************************************************)
(* A request with its redirect chain: send_to_inner (mode "send"),         *)
(* stream_h1 ("stream") and send_reader_traced ("reader") of src/http.rs,  *)
(* with the cookie jar they consult.  Calls are made one after another     *)
(* with one jar, as the command line does for its URLs.                    *)
(*                                                                         *)
(* Each hop sends a snapshot of the request (with the jar's cookies),      *)
(* takes in the Set-Cookie lines of the answer, answers a Digest challenge *)
(* or follows the Location.  How one hop is sent is HttpSend; here it      *)
(* fails or brings a response.                                             *)
(*                                                                         *)
(* Left out: the Referer, SigV4 signing, proxies, and Locations that       *)
(* differ from the ones here only in how they are written.                 *)
(***************************************************************************)
EXTENDS CookieJar, FiniteSets

CONSTANTS
    Jobs,          \* the requests a caller may make (see JobType)
    Heads,         \* response heads: a status and a Location [kind, url]
    Lines,         \* Set-Cookie lines
    Urls,          \* URLs that -b cookies are for and properties speak of
    MaxRedirs,
    MaxCalls,      \* bound on the number of calls
    MaxLines,      \* bound on the Set-Cookie lines received
    MaxUses        \* bound on the jar operations between calls

\* "none": no Location; "path": a reference without a host; "net": //host/path;
\* "abs": an absolute URL; "bad": one that does not resolve to http or https.
LocationKinds == {"none", "path", "net", "abs", "bad"}

IsSeq(s) == s \in Seq({s[i] : i \in 1 .. Len(s)})

\* A parsed http or https URL.  No host name has an address for its last labels
\* (no top-level domain is a number).
IsUrl(u) ==
    /\ u = [scheme |-> u.scheme, host |-> u.host, port |-> u.port, path |-> u.path,
            info |-> u.info]
    /\ u.scheme \in {"http", "https"} /\ IsSeq(u.host) /\ IsSeq(u.path)
    /\ u.info \in {"none", "userinfo", "server"}
    /\ \A d \in IpHosts : IsPrefix(d, u.host) => u.host \in IpHosts

IsCookie(c) ==
    /\ c = [name |-> c.name, domain |-> c.domain, hostOnly |-> c.hostOnly, path |-> c.path,
            secure |-> c.secure, expires |-> c.expires, by |-> c.by]
    /\ IsSeq(c.domain) /\ IsSeq(c.path)
    /\ c.hostOnly \in BOOLEAN /\ c.secure \in BOOLEAN /\ c.expires \in Nat

ASSUME RedirectAssumption ==
    /\ \A h \in Heads :
          /\ h.loc.kind \in LocationKinds
          /\ h.loc.kind \in {"path", "net", "abs"} => IsUrl(h.loc.url)
          /\ h.loc.url.info # "userinfo"           \* not what the caller gave
    /\ \A j \in Jobs : j.mode \in {"send", "stream", "reader"} /\ IsUrl(j.url)
    /\ \A l \in Lines :
          /\ \A d \in l.domain : IsSeq(d) /\ d # << >>
          /\ \A p \in l.path : IsSeq(p)
          /\ l.secure \in BOOLEAN /\ l.age \subseteq Nat
    /\ \A u \in Urls : IsUrl(u)
    /\ \A f \in Files : \A c \in f : IsCookie(c) /\ c.domain # << >> /\ c.by = FileUrl
    /\ MaxRedirs \in Nat /\ MaxCalls \in Nat /\ MaxLines \in Nat /\ MaxUses \in Nat

VARIABLES
    pc,        \* "idle", "top" of the loop, or "wait" for the response
    job,       \* the call as it was made
    req,       \* req: the request of the current hop
    hops,      \* hops_left
    first,     \* first_hop
    answers,   \* digest_attempts
    wire,      \* the request whose response is awaited
    calls,
    lines,     \* Set-Cookie lines received so far
    uses       \* jar operations so far

loop == << job, req, hops, first, answers >>
vars == << jarVars, pc, loop, wire, calls, lines, uses >>

Origin(url) == << url.scheme, url.host, url.port >>

NoJob == [mode |-> "none"]

NoReq == [url |-> NoUrl, method |-> "GET", body |-> FALSE, auth |-> "none",
          cookie |-> FALSE, basic |-> FALSE]

NoWire == [url |-> NoUrl, auth |-> "none", cookie |-> FALSE, cookies |-> {},
           method |-> "GET", body |-> FALSE, at |-> 0, home |-> << >>, trusted |-> FALSE]

Init ==
    /\ JarInit
    /\ pc = "idle" /\ calls = 0 /\ lines = 0 /\ uses = 0
    /\ job = NoJob /\ req = NoReq /\ hops = 0 /\ first = TRUE /\ answers = 0
    /\ wire = NoWire

-----------------------------------------------------------------------------
(* The rewriting of a request for the next hop. *)

\* url::resolve; userinfo is only ever what the Location itself carries.
Resolve(base, loc) ==
    CASE loc.kind = "path" -> [scheme |-> base.scheme, host |-> base.host, port |-> base.port,
                               path |-> loc.url.path, info |-> "none"]
      [] loc.kind = "net"  -> [loc.url EXCEPT !.scheme = base.scheme]
      [] OTHER             -> loc.url

\* Mutant: a new scheme or port on the same host counts as the same place.
HostChangedName(a, b) == a.host # b.host

HostChanged(a, b) == Origin(a) # Origin(b)

\* Whether a redirect with this status turns the request into a GET.
ToGet(status, method) ==
    LET kept == method = "POST" /\ status \in job.keepPost
    IN  CASE status \in {301, 302} -> method = "POST" /\ ~kept
          [] status = 303          -> method \notin {"GET", "HEAD"} /\ ~kept
          [] OTHER                 -> FALSE

RedirectRequest(status, loc) ==
    LET url  == Resolve(req.url, loc)
        drop == HostChanged(req.url, url) /\ ~job.trusted
        get  == ToGet(status, req.method)
    IN  [url    |-> url,
         method |-> IF get THEN "GET" ELSE req.method,
         body   |-> req.body /\ ~get,
         auth   |-> IF drop THEN "none" ELSE req.auth,
         cookie |-> req.cookie /\ ~drop,
         basic  |-> req.basic /\ ~drop]

IsRedirectStatus(status) == status \in {301, 302, 303, 307, 308}

UseJar == job.jar /\ job.mode # "reader" /\ (job.through \/ first)

\* The Authorization that write_request sends: a header, else
\* effective_basic_auth (the -u pair before the URL's userinfo).
EffectiveAuth ==
    IF req.auth # "none" THEN req.auth
    ELSE IF req.basic THEN "basic" ELSE req.url.info

-----------------------------------------------------------------------------
(* The loop. *)

\* With --digest the credentials are withheld, by send_to_inner only.
Start(j) ==
    /\ pc = "idle" /\ calls < MaxCalls
    /\ pc' = "top" /\ calls' = calls + 1
    /\ job' = j /\ hops' = MaxRedirs /\ first' = TRUE /\ answers' = 0
    /\ req' = [url |-> j.url, method |-> j.method, body |-> j.body,
               auth |-> IF j.auth THEN "caller" ELSE "none", cookie |-> j.cookie,
               basic |-> j.basic /\ ~(j.digest /\ j.mode = "send")]
    /\ UNCHANGED << jarVars, wire, lines, uses >>

\* The call returns, with a response or an error; its locals are gone.
End ==
    /\ pc' = "idle"
    /\ job' = NoJob /\ req' = NoReq /\ hops' = 0 /\ first' = TRUE /\ answers' = 0

\* cancel_check or the deadline; the reader looks before its first hop only.
GiveUp ==
    /\ pc = "top"
    /\ job.mode = "reader" => first
    /\ End
    /\ UNCHANGED << jarVars, wire, calls, lines, uses >>

\* attach_jar_cookies on a snapshot of the request, and its sending.
Send ==
    /\ pc = "top" /\ pc' = "wait"
    /\ jar' = IF UseJar THEN Purged ELSE jar
    /\ wire' = [url |-> req.url, auth |-> EffectiveAuth, at |-> now,
                cookie |-> req.cookie /\ ~UseJar,
                cookies |-> IF UseJar THEN CookieHeader(req.url) ELSE {},
                method |-> req.method, body |-> req.body,
                home |-> Origin(job.url), trusted |-> job.trusted]
    /\ UNCHANGED << explicit, file, now, loop, calls, lines, uses >>

\* The exchange fails: reset, timeout, malformed response.
SendFails ==
    /\ pc = "wait" /\ wire' = NoWire
    /\ End
    /\ UNCHANGED << jarVars, calls, lines, uses >>

\* The Set-Cookie lines of a response, if the jar is in use on this hop.
TakeIn(ls) ==
    /\ lines + Cardinality(ls) <= MaxLines
    /\ lines' = lines + Cardinality(ls)
    /\ IF UseJar THEN Ingest(ls, req.url) ELSE UNCHANGED << jar, explicit >>
    /\ wire' = NoWire
    /\ UNCHANGED << file, now, calls, uses >>

MayAnswer(stale) ==
    /\ job.mode = "send" /\ job.digest /\ job.basic
    /\ answers = 0 \/ (answers = 1 /\ stale)

\* A 401 with a Digest challenge that is answered.
Challenged(ls, stale) ==
    /\ pc = "wait" /\ MayAnswer(stale)
    /\ TakeIn(ls)
    /\ req' = [req EXCEPT !.auth = "digest"]
    /\ answers' = answers + 1
    /\ pc' = "top"
    /\ UNCHANGED << job, hops, first >>

Follows(status, loc) ==
    job.follow /\ IsRedirectStatus(status) /\ loc.kind # "none"

\* Mutant: the hop is not taken from the budget.
SpendNothing == UNCHANGED hops

Spend == hops' = hops - 1

\* follow_redirect: the budget, then redirect_request.  stream_h1 takes in the
\* cookies of the head first and may still fail on the rest of the body.
Redirected(ls, status, loc) ==
    /\ pc = "wait" /\ Follows(status, loc)
    /\ TakeIn(ls)
    /\ \/ /\ hops = 0 \/ loc.kind = "bad" \/ job.mode = "stream"
          /\ End
       \/ /\ hops > 0 /\ loc.kind # "bad"
          /\ Spend
          /\ req' = RedirectRequest(status, loc)
          /\ first' = FALSE
          /\ pc' = "top"
          /\ UNCHANGED << job, answers >>

\* Any other response is the caller's.
Answered(ls, status, loc) ==
    /\ pc = "wait" /\ ~Follows(status, loc)
    /\ TakeIn(ls)
    /\ End

-----------------------------------------------------------------------------
(* The caller between two calls. *)

UseOfJar ==
    /\ pc = "idle"
    /\ uses < MaxUses /\ uses' = uses + 1
    /\ \/ \E u \in Urls : AddExplicit(u)
       \/ \E c \in jar : Delete(c)
       \/ Clear
       \/ Save
       \/ Load
    /\ UNCHANGED << pc, loop, wire, calls, lines >>

Clock == Tick /\ UNCHANGED << pc, loop, wire, calls, lines, uses >>

LineSets == {{}} \cup {{l} : l \in Lines}

Response ==
    \E ls \in LineSets :
        \/ \E stale \in BOOLEAN : Challenged(ls, stale)
        \/ \E h \in Heads :
              Redirected(ls, h.status, h.loc) \/ Answered(ls, h.status, h.loc)

Next ==
    \/ \E j \in Jobs : Start(j)
    \/ GiveUp
    \/ Send
    \/ SendFails
    \/ Response
    \/ UseOfJar
    \/ Clock

\* Every exchange ends: with a response, an error, a timeout.
Spec == Init /\ [][Next]_vars /\ WF_vars(Send) /\ WF_vars(SendFails \/ Response)

-----------------------------------------------------------------------------
(* Properties. *)

\* What the caller gave for one origin (a header, -u, the URL's userinfo, a
\* Cookie header) goes to that origin only, along any chain of redirects, unless
\* --location-trusted says otherwise.  A Digest answer is not covered:
\* digest_creds outlive a redirect, and answer the challenge of the new host.
CredentialsStayHome ==
    (wire.auth \in {"caller", "basic", "userinfo"} \/ wire.cookie) =>
        wire.trusted \/ Origin(wire.url) = wire.home

\* No public suffix, no address, and a part of both names.
Registrable(d, a, b) ==
    d \notin PublicSuffixes /\ {a, b} \cap IpHosts = {} /\ IsPrefix(d, a) /\ IsPrefix(d, b)

\* The host that set a cookie; its own domain if no response did.
SetBy(c) == IF c.by \in {NoUrl, FileUrl} THEN c.domain ELSE c.by.host

\* Whoever set a cookie, through the jar, the file and any chain of redirects:
\* it is sent back only to the same host, if it is host-only, and otherwise within
\* the same registrable domain, only under its path, a Secure cookie only in a
\* secure context, an expired one never, and a __Host- cookie only to the host that
\* set it from a secure context (load_netscape takes the word of a file written by
\* hand).
CookieScope ==
    \A c \in wire.cookies :
        /\ c.expires > wire.at
        /\ c.secure => IsSecureContext(wire.url)
        /\ IsPrefix(c.path, wire.url.path)
        /\ c.hostOnly => SetBy(c) = wire.url.host
        /\ \/ SetBy(c) = wire.url.host
           \/ \E n \in 1 .. Len(SetBy(c)) :
                 Registrable(SubSeq(SetBy(c), 1, n), SetBy(c), wire.url.host)
        /\ c.name = "__Host-" /\ c.by # FileUrl =>
              IsSecureContext(c.by) /\ c.by.host = wire.url.host

\* Neither credentials nor cookies reach anyone they are not for.
SecretsStayHome == CredentialsStayHome /\ CookieScope

\* A response that did not come from a secure context leaves every Secure cookie
\* where it is and adds no cookie of the same name that cookie_header would put
\* before it in a request both are sent with.
SecureLeftAlone ==
    pc = "wait" /\ ~IsSecureContext(req.url) =>
         \A x \in {c \in jar : c.secure} :
            /\ x \in jar'
            /\ \A c \in jar' \ jar, u \in Urls :
                  c.name = x.name /\ MatchesRequest(c, u) /\ MatchesRequest(x, u)
                     => Len(c.path) < Len(x.path)

\* No chain of redirects through an insecure context costs a Secure cookie its
\* place (shadows_secure_cookie, remove_matching).
SecureCookiesKept == [][SecureLeftAlone]_vars

\* A call ends, whatever redirects and challenges it meets.
RedirectsEnd == pc # "idle" ~> pc = "idle"

=============================================================================
