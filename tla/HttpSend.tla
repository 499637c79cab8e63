------------------------------ MODULE HttpSend ------------------------------
(***************************************************************************)
(* One hop of a request: send_once of src/http.rs with everything below    *)
(* it.  Several threads send requests; they share the three idle pools     *)
(* (plain and TLS HTTP/1.1 of src/pool.rs, HTTP/2 of src/http2.rs) and the *)
(* CancelTokens of src/cancel.rs.                                          *)
(*                                                                         *)
(* A call works through the protocols its version preference allows.  Each *)
(* attempt takes a parked connection or dials one, sends the request and   *)
(* reads the answer; what may be sent again after a failure is decided by  *)
(* stale_or_hard and `started` for HTTP/1.1, pooled_failure_retryable for  *)
(* HTTP/2 and h3_should_fall_back for HTTP/3.  The pool locks, the steps   *)
(* of CancelToken::register and of cancel(), the arrival of the response   *)
(* head and of its end are separate steps of the threads.                  *)
(*                                                                         *)
(* Abstracted: an answer is its head and its end; how an HTTP/2 connection *)
(* comes to fail is the subject of H2Conn, here a failure is what the      *)
(* retry decision can tell apart.  `acted` is history: whether the server  *)
(* acted on the request, which the client cannot see.                      *)
(***************************************************************************)
EXTENDS Integers, Sequences, FiniteSets, SequencesExt

CONSTANTS
    Threads,      \* the callers
    Requests,     \* the requests they may send (records of the set RequestType)
    Tokens,       \* CancelTokens
    NoToken,
    PerKeyCap,    \* pool::configure
    GlobalCap,
    MaxConns,     \* bound on the connections open at a time
    MaxCalls      \* bound on the number of calls

Hosts      == {"a", "b"}
Dials      == {"url", "pinned"}     \* --connect-to / --resolve override or none
Partitions == {"none", "site"}
Postures   == {"default", "insecure"}
\* After the no-proxy list; "resolved" is direct because a proxy_resolver says so.
Routes     == {"direct", "resolved", "proxy", "connector"}
Prefs      == {"auto", "h1", "h2", "h3", "h3only"}

RequestType ==
    [scheme : {"http", "https"}, host : Hosts, dial : Dials, part : Partitions,
     posture : Postures, via : Routes, pref : Prefs, idem : BOOLEAN,
     token : Tokens \cup {NoToken}]

ASSUME HttpSendAssumption ==
    /\ Requests \subseteq RequestType
    /\ NoToken \notin Tokens
    /\ PerKeyCap \in Nat \ {0} /\ GlobalCap \in Nat \ {0}   \* configure clamps to 1
    /\ MaxConns \in Nat /\ MaxCalls \in Nat

Conns   == 1 .. MaxConns
NoConn  == 0
Idle    == [scheme |-> "none"]       \* no request
Closed  == [kind |-> "none"]         \* no connection

VARIABLES
    pc,        \* where each thread is
    req,       \* the request it is sending
    plan,      \* the protocols still to try, the current one first
    conn,      \* the connection of the attempt
    reused,    \* it came out of a pool
    seen,      \* of the response: "nothing", "part" or its final "head"
    guard,     \* the connection of the CancelGuard the thread holds
    unsafe,    \* history: protocols whose attempt was repeated without Justified
    calls,     \* calls begun
    made,      \* per connection: its protocol and the peer it was dialled for
    shut,      \* connections shut down by a cancel hook
    pool,      \* parked connections, oldest first: [kind, key, conn]
    cancel     \* per token: "live", "flagged", "fired"

call == << pc, req, plan, conn, reused, seen, unsafe, calls >>
net  == << made, shut >>
vars == << call, guard, net, pool, cancel >>

Init ==
    /\ pc = [t \in Threads |-> "idle"]
    /\ req = [t \in Threads |-> Idle]
    /\ plan = [t \in Threads |-> << >>]
    /\ conn = [t \in Threads |-> NoConn]
    /\ reused = [t \in Threads |-> FALSE]
    /\ seen = [t \in Threads |-> "nothing"]
    /\ guard = [t \in Threads |-> NoConn]
    /\ unsafe = [t \in Threads |-> {}]
    /\ calls = 0
    /\ made = [c \in Conns |-> Closed]
    /\ shut = {}
    /\ pool = << >>
    /\ cancel = [k \in Tokens |-> "live"]

-----------------------------------------------------------------------------
(* Routing. *)

\* send_plain, send_https: the protocols to try in turn; none is an error.
Route(r) ==
    CASE r.scheme = "http" ->
            IF r.pref = "h3only" THEN << >> ELSE << "h1" >>
      [] r.scheme = "https" /\ r.via = "connector" ->
            IF r.pref \in {"h2", "h3only"} THEN << >> ELSE << "h1" >>
      [] OTHER ->
            CASE r.pref = "h3only" -> IF r.via = "proxy" THEN << >> ELSE << "h3" >>
              [] r.pref = "h3" -> IF r.via = "proxy" THEN << "h2", "h1" >>
                                  ELSE << "h3", "h2", "h1" >>
              [] r.pref = "h2" -> << "h2" >>
              [] r.pref = "auto" -> << "h2", "h1" >>
              [] r.pref = "h1" -> << "h1" >>

Proto(t) == Head(plan[t])

KindOf(r, proto) ==
    IF proto = "h2" THEN "h2" ELSE IF r.scheme = "https" THEN "tls" ELSE "plain"

Kind(t) == KindOf(req[t], Proto(t))

\* Mutant: the TLS posture does not keep a request away from the pool.
TlsPoolEligibleAny(r) == r.via \in {"direct", "resolved"}

TlsPoolEligible(r) == r.posture = "default" /\ r.via \in {"direct", "resolved"}

\* `direct` for plain HTTP/1.1, tls_pool_eligible, pool_eligible of http2.rs.
MayPool(r, kind) ==
    CASE kind = "plain" -> r.via \in {"direct", "resolved"}
      [] kind = "tls" -> TlsPoolEligible(r)
      [] kind = "h2" -> TlsPoolEligible(r) /\ r.via # "resolved" /\ r.dial = "url"

\* pool_key_for; PoolKey::from_request has no dial target.
KeyFor(r, kind) ==
    [scheme |-> r.scheme, host |-> r.host, part |-> r.part,
     dial |-> IF kind = "h2" THEN "url" ELSE r.dial]

\* What decides whether two requests may use one connection: the endpoint and
\* how it is dialled, the partition and, over TLS, the trust decision.
Peer(r) ==
    [scheme |-> r.scheme, host |-> r.host, dial |-> r.dial, part |-> r.part,
     via |-> IF r.via = "resolved" THEN "direct" ELSE r.via,
     posture |-> IF r.scheme = "https" THEN r.posture ELSE "default"]

-----------------------------------------------------------------------------
(* The pools. *)

Bucket(kind, key) ==
    {i \in DOMAIN pool : pool[i].kind = kind /\ pool[i].key = key}

OfKind(kind) == {i \in DOMAIN pool : pool[i].kind = kind}

\* CorePool::release, PoolInner::release: past a cap the connection is dropped.
Room(kind, key) ==
    /\ Cardinality(OfKind(kind)) < GlobalCap
    /\ Cardinality(Bucket(kind, key)) < PerKeyCap

Pop(i) == pool' = RemoveAt(pool, i)

-----------------------------------------------------------------------------
(* Steps of a call. *)

Goto(t, where) == pc' = [pc EXCEPT ![t] = where]

Cancelled(r) == r.token \in Tokens /\ cancel[r.token] # "live"

\* The call ends: with an error of this attempt, or with its connection parked
\* or not.
Park(t) ==
    LET key == KeyFor(req[t], Kind(t))
    IN /\ MayPool(req[t], Kind(t)) /\ Room(Kind(t), key)
       /\ pool' = Append(pool, [kind |-> Kind(t), key |-> key, conn |-> conn[t]])
       /\ conn' = [conn EXCEPT ![t] = NoConn]
       /\ Goto(t, "return")
       /\ UNCHANGED << req, plan, reused, seen, unsafe, calls, guard, net, cancel >>

LetClose(t) ==
    /\ Goto(t, "return")
    /\ UNCHANGED << req, plan, conn, reused, seen, unsafe, calls, guard, net, pool,
                    cancel >>

Fail(t) == LetClose(t)

\* The thread's connection is dropped, which closes it.
Close(t) ==
    /\ made' = [c \in Conns |-> IF c = conn[t] THEN Closed ELSE made[c]]
    /\ shut' = shut \ {conn[t]}
    /\ conn' = [conn EXCEPT ![t] = NoConn]

\* An attempt may be repeated if nothing of a response had come and, except over
\* HTTP/1.1, the server did not act on the request or the method is idempotent.
\* (Over HTTP/1.1 the code, like curl, takes a pooled connection that ends without
\* a response for one that was idle too long.)
Justified(t, acted, answered) ==
    /\ ~answered
    /\ Proto(t) # "h1" => ~acted \/ req[t].idem

\* Which kind of attempt was repeated: over HTTP/1.1, after the final head or after
\* less of an answer.
Attempt(t) == IF seen[t] = "part" THEN "h1 part" ELSE Proto(t)

Record(t, acted, answered) ==
    unsafe' = IF Justified(t, acted, answered) THEN unsafe
              ELSE [unsafe EXCEPT ![t] = @ \cup {Attempt(t)}]

\* The attempt is given up and the request sent again: on a fresh connection
\* of the same protocol, or with the next protocol of the plan.
Resend(t, acted, answered) ==
    /\ Record(t, acted, answered)
    /\ Goto(t, "dial")
    /\ Close(t)
    /\ reused' = [reused EXCEPT ![t] = FALSE]
    /\ seen' = [seen EXCEPT ![t] = "nothing"]
    /\ UNCHANGED << req, plan, calls, guard, pool, cancel >>

NextProtocol(t, acted, answered) ==
    /\ Record(t, acted, answered)
    /\ Goto(t, "checkout")
    /\ plan' = [plan EXCEPT ![t] = Tail(@)]
    /\ Close(t)
    /\ guard' = [guard EXCEPT ![t] = NoConn]
    /\ UNCHANGED << req, reused, seen, calls, pool, cancel >>

\* send: cancel_check, then send_once.
Begin(t) ==
    /\ pc[t] = "idle" /\ calls < MaxCalls
    /\ calls' = calls + 1
    /\ \E r \in Requests :
          /\ req' = [req EXCEPT ![t] = r]
          /\ IF Cancelled(r) \/ Route(r) = << >>
             THEN Goto(t, "return") /\ UNCHANGED plan
             ELSE Goto(t, "checkout") /\ plan' = [plan EXCEPT ![t] = Route(r)]
    /\ UNCHANGED << conn, reused, seen, unsafe, guard, net, pool, cancel >>

\* One try of the pool, under its lock.  A parked HTTP/2 connection was usable
\* when it was parked and nobody touched it since, so the code's second look at
\* is_usable never fails.
Checkout(t) ==
    /\ pc[t] = "checkout" /\ Proto(t) # "h3"
    /\ LET bucket == Bucket(Kind(t), KeyFor(req[t], Kind(t)))
       IN IF MayPool(req[t], Kind(t)) /\ bucket # {}
          THEN /\ \E i \in bucket :
                     /\ \A j \in bucket : j <= i        \* the one parked last
                     /\ conn' = [conn EXCEPT ![t] = pool[i].conn]
                     /\ Pop(i)
               /\ reused' = [reused EXCEPT ![t] = TRUE]
               /\ Goto(t, "head")
          ELSE /\ Goto(t, "dial")
               /\ UNCHANGED << conn, reused, pool >>
    /\ UNCHANGED << req, plan, seen, unsafe, calls, guard, net, cancel >>

\* After the dial: the TLS handshake, or the request at once.
Connected(t) == IF req[t].scheme = "https" THEN "hello" ELSE "head"

\* tcp_connect_inner, the proxy tunnel, the connector: a new connection.
Dial(t) ==
    /\ pc[t] = "dial"
    /\ \E c \in Conns :
          /\ made[c] = Closed /\ \A d \in 1 .. c - 1 : made[d] # Closed
          /\ made' = [made EXCEPT ![c] = [kind |-> Kind(t), peer |-> Peer(req[t])]]
          /\ conn' = [conn EXCEPT ![t] = c]
    /\ Goto(t, IF req[t].token # NoToken /\ req[t].via # "connector"
               THEN "check" ELSE Connected(t))
    /\ UNCHANGED << req, plan, reused, seen, unsafe, calls, guard, shut,
                    pool, cancel >>

DialFails(t) == pc[t] = "dial" /\ Fail(t)

\* CancelToken::register: a token already cancelled fires the hook at once.
RegisterCheck(t) ==
    /\ pc[t] = "check"
    /\ IF Cancelled(req[t])
       THEN Goto(t, Connected(t)) /\ shut' = shut \cup {conn[t]}
       ELSE Goto(t, "insert") /\ UNCHANGED shut
    /\ UNCHANGED << req, plan, conn, reused, seen, unsafe, calls, guard,
                    made, pool, cancel >>

RegisterInsert(t) ==
    /\ pc[t] = "insert"
    /\ guard' = [guard EXCEPT ![t] = conn[t]]
    /\ Goto(t, "recheck")
    /\ UNCHANGED << req, plan, conn, reused, seen, unsafe, calls, net, pool,
                    cancel >>

\* Mutant: no second look at the flag after the hook is in place.
RegisterNoRecheck(t) ==
    /\ pc[t] = "recheck"
    /\ Goto(t, Connected(t))
    /\ UNCHANGED << req, plan, conn, reused, seen, unsafe, calls, guard,
                    net, pool, cancel >>

RegisterRecheck(t) ==
    /\ pc[t] = "recheck"
    /\ shut' = IF Cancelled(req[t]) THEN shut \cup {conn[t]} ELSE shut
    /\ Goto(t, Connected(t))
    /\ UNCHANGED << req, plan, conn, reused, seen, unsafe, calls, guard,
                    made, pool, cancel >>

\* The TLS handshake on a connection just dialled.
HelloDone(t) ==
    /\ pc[t] = "hello" /\ conn[t] \notin shut
    /\ Goto(t, "head")
    /\ UNCHANGED << req, plan, conn, reused, seen, unsafe, calls, guard,
                    net, pool, cancel >>

HelloFails(t) == pc[t] = "hello" /\ Fail(t)

\* dial_h2: ALPN did not select h2; nothing was sent.
NotNegotiated(t) ==
    /\ pc[t] = "hello" /\ Proto(t) = "h2" /\ conn[t] \notin shut
    /\ IF Len(plan[t]) > 1 THEN NextProtocol(t, FALSE, FALSE) ELSE Fail(t)

-----------------------------------------------------------------------------
(* The HTTP/1.1 exchange (send_plain_via_core, send_https_via_core, the      *)
(* connector and tunnel paths).                                              *)

OnH1(t) == pc[t] \in {"head", "body"} /\ Proto(t) = "h1"

\* Err(e) if seen, which is set with the final head; the error is one
\* stale_or_hard calls Stale.
RetryStale(t) == reused[t] /\ seen[t] # "head"

\* An interim head, which the parser skips, or a part of a head.  (On a fresh
\* connection nothing that follows depends on it.)
PartArrives(t) ==
    /\ pc[t] = "head" /\ Proto(t) = "h1" /\ seen[t] = "nothing" /\ reused[t]
    /\ seen' = [seen EXCEPT ![t] = "part"]
    /\ UNCHANGED << pc, req, plan, conn, reused, unsafe, calls, guard, net, pool,
                    cancel >>

\* The final response head is there.
HeadArrives(t) ==
    /\ pc[t] = "head" /\ Proto(t) = "h1"
    /\ seen' = [seen EXCEPT ![t] = "head"]
    /\ Goto(t, "body")
    /\ UNCHANGED << req, plan, conn, reused, unsafe, calls, guard, net, pool,
                    cancel >>

\* End of stream or reset: Stale, whether or not the server saw the request.
PeerGone(t) ==
    /\ OnH1(t)
    /\ \E acted \in {seen[t] = "head", TRUE} :
          IF RetryStale(t) THEN Resend(t, acted, seen[t] # "nothing") ELSE Fail(t)

\* Malformed head or framing, read timeout, body not decodable, and on a fresh
\* TLS connection a certificate the post-handshake policy refuses: Hard.
HardError(t) == OnH1(t) /\ Fail(t)

\* The end of the answer: the connection is parked if the code may pool it and
\* response_is_reusable; otherwise it closes on return.
BodyEnds(t) ==
    /\ pc[t] = "body" /\ Proto(t) = "h1"
    /\ Park(t) \/ LetClose(t)

-----------------------------------------------------------------------------
(* The HTTP/2 exchange (http2::send, run_one_request) as the retry decision  *)
(* sees it.                                                                  *)

H2Failures ==
    {"unopened",     \* open_stream refused: next_stream_id did not move
     "goaway",       \* the stream is above a GOAWAY's last id
     "refused",      \* RST_STREAM(REFUSED_STREAM)
     "silent",       \* transport failure, no frame of the stream received
     "cut",          \* transport failure after a frame of the stream
     "error"}        \* any other stream or connection error

\* Mutant: a silent transport failure is retried for any method.
PooledFailureRetryableAny(r, f) == f \in {"unopened", "goaway", "refused", "silent"}

PooledFailureRetryable(r, f) ==
    \/ f \in {"unopened", "goaway", "refused"}
    \/ f = "silent" /\ r.idem

\* What a failure leaves open about the server.
MayHaveActed(f) == IF f \in {"unopened", "goaway", "refused"} THEN {FALSE} ELSE BOOLEAN

H2Fails(t) ==
    /\ pc[t] = "head" /\ Proto(t) = "h2"
    /\ \E f \in (IF conn[t] \in shut THEN {"silent", "cut"} ELSE H2Failures) :
          \E acted \in MayHaveActed(f) :
             IF reused[t] /\ PooledFailureRetryable(req[t], f)
             THEN Resend(t, acted, f = "cut")
             ELSE Fail(t)

\* The stream is done; the connection is parked if it is_usable.
H2Answers(t) ==
    /\ pc[t] = "head" /\ Proto(t) = "h2"
    /\ Park(t) \/ LetClose(t)

-----------------------------------------------------------------------------
(* HTTP/3: a QUIC connection of its own, never parked, no cancel hook.       *)

H3Failures ==
    {"unsent",      \* client build, stream open, URL: before the request
     "goaway",      \* GOAWAY at or below our stream: "peer closed ... (GOAWAY g)"
     "closed",      \* conn.is_closed(), at any time: "http3: peer closed connection"
     "ambiguous",   \* I/O, feed, stream read/write/finish, connection closed
     "error"}       \* anything else

H3ShouldFallBack(r, f) ==
    \/ f \in {"unsent", "goaway", "closed"}
    \/ f = "ambiguous" /\ r.idem

H3Ambiguity(f) ==
    IF f \in {"unsent", "goaway"} THEN {<< FALSE, FALSE >>}
    ELSE {<< FALSE, FALSE >>, << TRUE, FALSE >>, << TRUE, TRUE >>}

H3Fails(t) ==
    /\ pc[t] = "checkout" /\ Proto(t) = "h3"
    /\ \E f \in H3Failures : \E a \in H3Ambiguity(f) :
          IF H3ShouldFallBack(req[t], f) /\ Len(plan[t]) > 1
          THEN NextProtocol(t, a[1], a[2])
          ELSE Fail(t)

H3Answers(t) ==
    /\ pc[t] = "checkout" /\ Proto(t) = "h3"
    /\ LetClose(t)

-----------------------------------------------------------------------------
(* The end of a call. *)

\* The result goes to the caller (map_cancelled renames the error of a cancelled
\* call); the guard and what is left of the connection are dropped.
Return(t) ==
    /\ pc[t] = "return"
    /\ guard' = [guard EXCEPT ![t] = NoConn]
    /\ req' = [req EXCEPT ![t] = Idle]
    /\ plan' = [plan EXCEPT ![t] = << >>]
    /\ Close(t)
    /\ reused' = [reused EXCEPT ![t] = FALSE]
    /\ seen' = [seen EXCEPT ![t] = "nothing"]
    /\ unsafe' = [unsafe EXCEPT ![t] = {}]
    /\ Goto(t, "idle")
    /\ UNCHANGED << calls, pool, cancel >>

\* cancel(): the flag first, then every hook under the table's lock.
CancelFlag(k) ==
    /\ cancel[k] = "live"
    /\ cancel' = [cancel EXCEPT ![k] = "flagged"]
    /\ UNCHANGED << call, guard, net, pool >>

Hooked(k) == {guard[t] : t \in {u \in Threads : req[u] # Idle /\ req[u].token = k}}

CancelFire(k) ==
    /\ cancel[k] = "flagged"
    /\ cancel' = [cancel EXCEPT ![k] = "fired"]
    /\ shut' = shut \cup (Hooked(k) \ {NoConn})
    /\ UNCHANGED << call, guard, made, pool >>

-----------------------------------------------------------------------------

\* What a thread does by itself, and what the peer decides the time of.
Own(t) ==
    \/ Checkout(t) \/ Dial(t) \/ DialFails(t)
    \/ RegisterCheck(t) \/ RegisterInsert(t) \/ RegisterRecheck(t)
    \/ Return(t)
    \/ H3Fails(t) \/ H3Answers(t)     \* bounded by the deadlines of http3.rs

Wire(t) ==
    \/ HelloDone(t) \/ HelloFails(t) \/ NotNegotiated(t)
    \/ PartArrives(t) \/ HeadArrives(t) \/ PeerGone(t) \/ HardError(t) \/ BodyEnds(t)
    \/ H2Fails(t) \/ H2Answers(t)

\* The calls are over.
Finished ==
    /\ \A t \in Threads : pc[t] = "idle" /\ calls = MaxCalls
    /\ UNCHANGED vars

Next ==
    \/ \E t \in Threads : Begin(t) \/ Own(t) \/ Wire(t)
    \/ \E k \in Tokens : CancelFlag(k) \/ CancelFire(k)
    \/ Finished

Spec == Init /\ [][Next]_vars

\* A read returns at once on a socket that was shut down; a peer may be silent
\* for ever on one that was not.
ReadShut(t) == conn[t] \in shut /\ Wire(t)

FairSpec ==
    /\ Spec
    /\ \A t \in Threads : WF_vars(Own(t)) /\ WF_vars(ReadShut(t))
    /\ \A k \in Tokens : WF_vars(CancelFire(k))

-----------------------------------------------------------------------------
(* Correctness. *)

\* The pools: a parked connection is parked once and held by nobody, under the
\* key and in the pool of the request it was dialled for, and the caps hold
\* (CorePool, PoolInner, pool_key_for).
PoolSound ==
    /\ IsInjective([i \in DOMAIN pool |-> pool[i].conn])
    /\ \A i \in DOMAIN pool :
          /\ \A t \in Threads : conn[t] # pool[i].conn
          /\ made[pool[i].conn].kind = pool[i].kind
          /\ KeyFor(made[pool[i].conn].peer, pool[i].kind) = pool[i].key
          /\ Cardinality(OfKind(pool[i].kind)) <= GlobalCap
          /\ Cardinality(Bucket(pool[i].kind, pool[i].key)) <= PerKeyCap

\* Whatever was parked by whom, a request travels only on a connection that it
\* would have dialled itself: same origin, endpoint and partition and, over TLS,
\* the same trust decision (tls_pool_eligible, pool_eligible, the keys).
RightPeer ==
    \A t \in Threads : conn[t] # NoConn =>
        made[conn[t]] = [kind |-> Kind(t), peer |-> Peer(req[t])]

\* No connection is lent twice, and none to a request it was not made for.
PoolsSound == PoolSound /\ RightPeer

\* A request is sent again after a failed HTTP/2 attempt only if no frame of its
\* response had come and the server did not act on it or the method is idempotent
\* (pooled_failure_retryable); over HTTP/1.1 never after the final head, whatever
\* became of the body (`started`).  "Only retry a reused connection when no response
\* arrived at all" (send_plain_via_core) is more than holds: after an interim head or
\* a part of a head the request is repeated, the exception "h1 part".
ReplayJustified ==
    \A t \in Threads : unsafe[t] \subseteq {"h3", "h1 part"}

\* h3_should_fall_back: "Re-sending is only safe when the server can't have acted
\* on the request".
H3ReplayJustified ==
    \A t \in Threads : "h3" \notin unsafe[t]

\* A thread on a connection that it dialled under a cancelled token.  (A pooled
\* connection, a connector's and HTTP/3's are never registered.)
Doomed(t) ==
    /\ conn[t] # NoConn /\ ~reused[t] /\ req[t].via # "connector"
    /\ Cancelled(req[t])

\* cancel() gets a thread off the connection it dialled, also when the flag is
\* raised before or while it registers the hook (CancelToken::register, cancel).
CancelLetsGo == \A t \in Threads : Doomed(t) ~> ~Doomed(t)

=============================================================================
