----------------------------- MODULE MCExchange -----------------------------
EXTENDS Exchange, Tls, Net, H3

D(i) == <<"d", i>>
R == [interim |-> 0, status |-> 200, frame |-> "length", body |-> <<D(1), LF, D(2)>>,
      eol |-> "crlf", flaw |-> "none", codings |-> <<>>, extra |-> <<>>]
Framed == {[R EXCEPT !.frame = f, !.extra = e, !.interim = i] :
              f \in {"length", "chunked", "close"}, e \in {<<>>, <<D(9)>>}, i \in {0, 1}}
Odd == {[R EXCEPT !.eol = "lf"], [R EXCEPT !.body = <<>>],
        [R EXCEPT !.interim = MaxInterim + 1],
        [R EXCEPT !.status = 204, !.frame = "close", !.body = <<>>],
        [R EXCEPT !.body = <<D(1), D(2), D(3), D(4), D(5)>>, !.frame = "close"],
        [R EXCEPT !.body = <<D(1), D(2), D(3), D(4), D(5)>>, !.frame = "chunked"],
        [R EXCEPT !.status = 302, !.body = <<>>], [R EXCEPT !.status = 307, !.body = <<>>],
        [R EXCEPT !.codings = <<<<"gzip">>>>], [R EXCEPT !.codings = <<<<"unknown", "gzip">>>>],
        [R EXCEPT !.codings = <<<<"corrupt">>>>],
        [R EXCEPT !.codings = <<<<"gzip", "gzip", "gzip">>>>]}
Broken == {[R EXCEPT !.flaw = "nostatus"], [R EXCEPT !.flaw = "bighead"],
           [R EXCEPT !.flaw = "mixed", !.eol = "mixed"]}
          \cup {[R EXCEPT !.frame = f, !.flaw = "framing"] : f \in {"both", "oddte", "badlen"}}
          \cup {[R EXCEPT !.frame = "chunked", !.flaw = f] : f \in {"badsize", "nocrlf"}}

Trusted == [pin |-> "none", callback |-> "none", verify |-> TRUE, san |-> TRUE]
Peers == {Trusted, [Trusted EXCEPT !.pin = "mismatch", !.callback = "accepts"],
          [Trusted EXCEPT !.san = FALSE]}
S(r, t) == [resp |-> r, tls |-> t, cut |-> 0, fin |-> TRUE, notify |-> FALSE,
            early |-> FALSE, peer |-> Trusted]
Kinds == {"none", "rustls", "purecrypto"}
Sent(s) == {[s EXCEPT !.cut = c] : c \in 0..Len(Units(s))}
AllOf(s) == [s EXCEPT !.cut = Len(Units(s))]
MCServers ==
    UNION {Sent(S(r, t)) : r \in {[R EXCEPT !.frame = f] : f \in {"length", "chunked", "close"}},
                           t \in Kinds}
    \cup {AllOf(S(r, t)) : r \in Framed \cup Odd \cup Broken, t \in Kinds}
    \cup {AllOf([S(r, t) EXCEPT !.fin = FALSE]) : r \in Framed, t \in Kinds}
    \cup {AllOf([S(r, t) EXCEPT !.notify = TRUE]) : r \in Framed, t \in Kinds \ {"none"}}
    \cup {AllOf([S(R, t) EXCEPT !.peer = p, !.early = e]) :
             t \in Kinds \ {"none"}, p \in Peers, e \in BOOLEAN}
MCJobs == {[driver |-> d, kind |-> "core", method |-> m, limit |-> FALSE, follow |-> TRUE] :
              d \in {"blocking", "async"}, m \in {"GET", "HEAD"}}
          \cup {[driver |-> d, kind |-> "core", method |-> "POST", limit |-> TRUE, follow |-> d = "async"] :
                  d \in {"blocking", "async"}}
          \cup {[driver |-> "pull", kind |-> k, method |-> m, limit |-> TRUE, follow |-> FALSE] :
                  k \in {"collect", "sink", "reader"}, m \in {"GET", "HEAD"}}

-----------------------------------------------------------------------------
(* How a proxy may answer, and what the target says through it.             *)
Said == <<"x", "y">>
Replies(kind) ==
    CASE kind \in {"socks4", "socks4a"} -> {<<"vn", "ok", "r">>, <<"vn", "no", "r">>, <<"bad", "ok", "r">>}
      [] kind \in {"socks5", "socks5h"} ->
           {<<"none", "ok", "v4", "a", "p">>, <<"password", "ok", "ok", "v6", "a", "a", "a", "p">>,
            <<"none", "ok", "domain", "two", "a", "a", "p">>, <<"none", "ok", "domain", "zero", "p">>,
            <<"password", "no">>, <<"none", "no">>, <<"none", "ok", "odd">>, <<"ff">>}
      [] kind \in {"http", "https"} -> {<<"200", "h", "blank">>, <<"407", "h", "blank">>, <<"blank">>}
      [] OTHER -> {<<>>}
Name == [kind |-> "name", at |-> <<"in", "example", "org">>]
C0 == [host |-> Name, scheme |-> "https", noproxy |-> {}, proxy |-> "direct", env |-> <<>>, udp |-> FALSE,
       auth |-> FALSE, addrs |-> <<TRUE>>, script |-> Said, target |-> Said,
       connect |-> 2, idle |-> 1, deadline |-> 3]
Proxies == {"direct", "socks4", "socks4a", "socks5", "socks5h", "http", "https"}
Hosts == {Name, [kind |-> "ip", at |-> <<1, 0, 1>>], [kind |-> "ip6", at |-> <<1, 0, 1, 1>>]}
Lists == {{}, {[kind |-> "any", at |-> <<>>, bits |-> 0]},
          {[kind |-> "name", at |-> <<"example", "org">>, bits |-> 0]},
          {[kind |-> "name", at |-> <<"n", "example", "org">>, bits |-> 0]},
          {[kind |-> "cidr", at |-> <<1, 0, 0>>, bits |-> 2]}, {[kind |-> "cidr", at |-> <<1, 0, 0>>, bits |-> 3]}}
MCDials ==
    UNION {{[C0 EXCEPT !.proxy = k, !.auth = a, !.host = h, !.script = r \o Said, !.addrs = as] :
               a \in BOOLEAN, h \in Hosts, r \in Replies(k), as \in {<<TRUE>>, <<FALSE, TRUE>>, <<>>}} : k \in Proxies}
    \cup UNION {{[C0 EXCEPT !.proxy = k, !.noproxy = n, !.host = h,
                            !.script = IF effective_connector([C0 EXCEPT !.proxy = k, !.noproxy = n, !.host = h]) = "direct"
                                       THEN Said ELSE r \o Said, !.deadline = d, !.idle = i] :
                   n \in Lists, h \in Hosts, r \in Replies(k), d \in {3, NoTime}, i \in {1, NoTime}} :
                 k \in {"socks5h", "http"}}
    \cup {[C0 EXCEPT !.proxy = "env", !.scheme = s, !.env = e,
                     !.script = IF effective_connector([C0 EXCEPT !.proxy = "env", !.scheme = s, !.env = e]) = "direct"
                                THEN Said ELSE <<"none", "ok", "v4", "a", "p">> \o Said] :
             s \in {"http", "https"},
             e \in {[v \in {"HTTP_PROXY"} |-> "socks5h"], [v \in {"https_proxy", "HTTPS_PROXY"} |-> "socks5h"],
                    [v \in {"ALL_PROXY"} |-> "socks5"]}}
    \cup {[C0 EXCEPT !.udp = TRUE, !.proxy = k, !.script = <<"none", "ok", "v4", "a", "p">>] : k \in {"direct", "socks5", "socks5h", "http"}}

-----------------------------------------------------------------------------
(* HTTP/3: the frames of a good answer and each way to spoil it.            *)
HF(kind, n, dyn) == <<Hdr("HEADERS", 1), Fields(kind, n, dyn)>>
DF(n, ds) == <<Hdr("DATA", n)>> \o ds
Grease == <<Hdr("grease", 1), <<"pad">>>>
Two == <<D(1), D(2)>>
Trailers == HF("trailers", NoLen, 0)
Control == [units |-> <<<<"type", "control">>, Hdr("SETTINGS", 1), "s1">>, ends |-> FALSE]
OnControl(us) == [Control EXCEPT !.units = @ \o us]
Encoder == [units |-> <<<<"type", "encoder">>, "part", "insert">>, ends |-> FALSE]
Good == {HF("final", 2, 0) \o DF(2, Two), HF("interim", NoLen, 0) \o HF("final", NoLen, 1) \o DF(1, <<D(1)>>) \o DF(1, <<D(2)>>),
         HF("encoded", NoLen, 0) \o DF(2, Two) \o Trailers, HF("nobody", 2, 0), HF("final", 2, 0) \o Grease \o DF(2, Two)}
Spoiled == {HF("final", 2, 0) \o DF(1, <<D(1)>>), HF("final", 1, 0) \o DF(2, Two), DF(1, <<D(1)>>), <<Hdr("HEADERS", 1)>>,
            HF("final", NoLen, 0) \o Trailers \o DF(1, <<D(1)>>), HF("final", NoLen, 0) \o DF(2, <<D(1)>>),
            HF("final", NoLen, 0) \o DF(2, Two) \o DF(2, Two),
            HF("interim", NoLen, 0) \o HF("interim", NoLen, 0), HF("final", NoLen, 0) \o HF("final", NoLen, 0),
            HF("final", NoLen, 0) \o <<Hdr("GOAWAY", 1)>>, Trailers}
Unis == {<<Control, Encoder>>, <<OnControl(Grease \o <<Hdr("GOAWAY", 1), 0>>)>>, <<OnControl(<<Hdr("GOAWAY", 1), 4, Hdr("GOAWAY", 1), 8>>)>>,
         <<OnControl(<<Hdr("SETTINGS", 0)>>)>>, <<[Control EXCEPT !.units = <<@[1], Hdr("SETTINGS", 2), "s1", "s1">>]>>,
         <<[Control EXCEPT !.units = <<@[1], Hdr("GOAWAY", 1), 0>>]>>, <<Control, [Control EXCEPT !.ends = TRUE]>>,
         <<[Control EXCEPT !.ends = TRUE]>>, <<OnControl(<<Hdr("MAX_PUSH_ID", 1), 1>>)>>, <<OnControl(<<Hdr("SETTINGS", 9)>>)>>,
         <<[Encoder EXCEPT !.units = <<@[1], "part", "part", "part", "part">>]>>, <<[units |-> <<<<"type", "push">>>>, ends |-> TRUE]>>,
         <<[units |-> <<<<"type", "grease">>, "x">>, ends |-> TRUE]>>, <<OnControl(<<Hdr("CANCEL_PUSH", 1), 1, Hdr("DATA", 1)>>)>>}
J3 == [method |-> "GET", upload |-> 0, sink |-> TRUE, only |-> FALSE, decompress |-> TRUE]
S3(q, u) == [req |-> q, ends |-> TRUE, uni |-> u, drops |-> FALSE, grants |-> TRUE, shakes |-> TRUE, trusted |-> TRUE]
Jobs3 == {J3, [J3 EXCEPT !.sink = FALSE, !.only = TRUE], [J3 EXCEPT !.method = "POST", !.upload = 2],
          [J3 EXCEPT !.method = "HEAD", !.decompress = FALSE]}
Answer == HF("final", 2, 0) \o DF(2, Two)
MCH3Runs ==
    {[job |-> j, srv |-> S3(q, <<Encoder>>)] : j \in Jobs3, q \in Good}
    \cup {[job |-> j, srv |-> S3(q, <<>>)] : j \in {J3, [J3 EXCEPT !.sink = FALSE]}, q \in Spoiled}
    \cup {[job |-> J3, srv |-> S3(Answer, u)] : u \in Unis}
    \cup {[job |-> j, srv |-> [S3(Answer, <<>>) EXCEPT !.drops = TRUE, !.grants = g, !.ends = g]] : j \in Jobs3, g \in BOOLEAN}
    \cup {[job |-> j, srv |-> [S3(<<>>, <<>>) EXCEPT !.shakes = h, !.trusted = FALSE, !.drops = TRUE]] : j \in Jobs3, h \in BOOLEAN}

-----------------------------------------------------------------------------
(* TLS: a good certificate and each way to fall short of it, before and     *)
(* after connections that asked for more or for less.                       *)
Leaf == [id |-> "good", ca |-> "public", names |-> {"a"}, san |-> TRUE, key |-> "k1", revoked |-> FALSE]
Leaves == {Leaf, [Leaf EXCEPT !.id = "cn", !.san = FALSE], [Leaf EXCEPT !.id = "own", !.ca = "own", !.key = "k2"],
           [Leaf EXCEPT !.id = "revoked", !.revoked = TRUE]}
Call == [host |-> "a", verify |-> TRUE, asks |-> FALSE, likes |-> {}, pinned |-> FALSE, pins |-> {}, range |-> {12, 13}, cert |-> Leaf]
Calls == {[Call EXCEPT !.verify = v, !.asks = k # "none", !.likes = {k} \ {"none"}, !.cert = l] :
             v \in BOOLEAN, k \in {"none", "k1"}, l \in Leaves}
         \cup {[Call EXCEPT !.pinned = TRUE, !.pins = p, !.verify = v, !.cert = l] : p \in {{}, {"k1"}}, v \in BOOLEAN, l \in Leaves}
         \cup {[Call EXCEPT !.host = "b", !.verify = v, !.range = {13}] : v \in BOOLEAN}
         \cup {[Call EXCEPT !.pinned = TRUE, !.pins = {"k1"}, !.asks = TRUE, !.likes = {"k2"}, !.cert = l] : l \in Leaves}
NoFiles == [cacert |-> "none", capath |-> "none", cert |-> "none", key |-> "good", crl |-> "none", ciphers |-> "none"]
FileSets == {NoFiles, [NoFiles EXCEPT !.crl = "good"], [NoFiles EXCEPT !.capath = "own"], [NoFiles EXCEPT !.cacert = "own"]}
BadFiles == {[NoFiles EXCEPT !.crl = "bad"], [NoFiles EXCEPT !.cert = "bad"], [NoFiles EXCEPT !.cert = "good", !.key = "bad"], [NoFiles EXCEPT !.ciphers = "bad"], [NoFiles EXCEPT !.capath = "bad"]}
MCTrustRuns ==
    {[backend |-> "purecrypto", files |-> NoFiles, conns |-> <<c, d>>] : c \in Calls, d \in Calls}
    \cup {[backend |-> "purecrypto", files |-> f, conns |-> <<c, [c EXCEPT !.cert = l]>>] : f \in FileSets, c \in Calls, l \in Leaves}
    \cup {[backend |-> "rustls", files |-> f, conns |-> <<c, [c EXCEPT !.cert = l]>>] : f \in FileSets, c \in Calls, l \in Leaves}
    \cup {[backend |-> b, files |-> f, conns |-> <<c>>] : b \in {"purecrypto", "rustls", "quic"}, f \in FileSets \cup BadFiles, c \in Calls}

-----------------------------------------------------------------------------
(* Each machine on its own: the initial state chooses one.                  *)
IdleExchange ==
    /\ job = CHOOSE j \in Jobs : TRUE
    /\ srv = CHOOSE s \in Servers : s.tls = "none"
    /\ wire = <<>> /\ hops = 0 /\ addrs = 0 /\ phase = "done" /\ eng = NoEngine /\ x = NewExchange("GET", TRUE)
    /\ pos = 0 /\ eof = FALSE /\ sent = <<>> /\ got = Nothing /\ res = NoRes
mcvars == <<vars, tr, ts, tc, dial, h3>>
SharedInit == IdleExchange /\ tr = NoTrust /\ ts = NoStream /\ ConnInit /\ dial = NoDial /\ h3 = NoCall
MCInit ==
    \/ Init /\ tr = NoTrust /\ ts = NoStream /\ tc = NoConn /\ dial = NoDial /\ h3 = NoCall
    \/ IdleExchange /\ TrustInit /\ ts = NoStream /\ tc = NoConn /\ dial = NoDial /\ h3 = NoCall
    \/ IdleExchange /\ tr = NoTrust /\ ts = NewStream /\ tc = NoConn /\ dial = NoDial /\ h3 = NoCall
    \/ IdleExchange /\ tr = NoTrust /\ ts = NoStream /\ tc = NoConn /\ NetInit /\ h3 = NoCall
    \/ IdleExchange /\ tr = NoTrust /\ ts = NoStream /\ tc = NoConn /\ dial = NoDial /\ H3Init
    \/ SharedInit
MCNext ==
    \/ Next /\ UNCHANGED <<tr, ts, tc, dial, h3>>
    \/ tr.at # "off" /\ TrustNext /\ UNCHANGED <<vars, ts, tc, dial, h3>>
    \/ ts.op # "none" /\ StreamNext /\ UNCHANGED <<vars, tr, tc, dial, h3>>
    \/ tc.b # "off" /\ ConnNext /\ UNCHANGED <<vars, tr, ts, dial, h3>>
    \/ dial.step # "off" /\ NetNext /\ UNCHANGED <<vars, tr, ts, tc, h3>>
    \/ h3.at # "off" /\ H3Next /\ UNCHANGED <<vars, tr, ts, tc, dial>>

\* What the caller gets is what the server sent, over HTTP/1.1 and over HTTP/3, and
\* an error has a cause (Machine::poll, read_response).
AnswersExact == ResponseExact /\ FailuresJustified /\ H3Exact

\* The way there: the right peer, reached in time, trusted before it is told
\* anything, over whole records (connect, handshake, send_queued).
PathSound == TrustFirst /\ RecordsContiguous /\ ReachSound

\* Every request is answered or fails, over HTTP/1.1 and over HTTP/3.
Busy == phase # "done" \/ h3.at \notin {"off", "done"}
ExchangeEnds == <>~Busy
\* The shared connection alone.
SharedSpec == SharedInit /\ [][MCNext]_mcvars
MCSpec == MCInit /\ [][MCNext]_mcvars /\ ([]<>~Busy \/ []<><<MCNext>>_mcvars)
=============================================================================
