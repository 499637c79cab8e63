----------------------------- MODULE MCClients ------------------------------
(***************************************************************************)
(* The front ends and the clients below them, one at a time: the multi     *)
(* handle; the command line, on every path of Cli; a caller of the C       *)
(* interfaces; a transfer of any non-HTTP scheme; HPACK's two ends, a      *)
(* temporary blob, the discovery of a magnet link.  `machine` is the one   *)
(* that runs; the others stay as they are.                                 *)
(***************************************************************************)
EXTENDS Multi, Cli, CApi, Transfer, Hpack, TempBlob, Discovery

VARIABLE machine

-----------------------------------------------------------------------------
(* Command lines: alone, one after another and side by side under -Z.      *)
Plain == [scheme |-> "http", out |-> "file", name |-> "f", template |-> <<>>, globoff |-> FALSE,
          maxGlob |-> 9, fail |-> FALSE, withBody |-> FALSE, include |-> FALSE, retry |-> 0,
          retryAll |-> FALSE, retryRefused |-> FALSE, retryMax |-> FALSE, max |-> 9,
          noClobber |-> FALSE, removeOnError |-> FALSE, continue |-> FALSE, at |-> 0,
          segments |-> 1, input |-> "none", envelope |-> FALSE, badProxy |-> FALSE,
          verbose |-> FALSE, lowSpeed |-> FALSE, src |-> 0, old |-> 0, hasPart |-> FALSE]

Lit == [kind |-> "lit"]
List(n) == [kind |-> "list", n |-> n]
Span(a, b, s) == [kind |-> "range", lo |-> a, hi |-> b, step |-> s]

Url(o) == [op |-> o, segs |-> <<Lit>>]
Line(urls) == [urls |-> urls, parallel |-> FALSE, jar |-> FALSE, usage |-> FALSE]
Side(urls) == [Line(urls) EXCEPT !.parallel = TRUE]
ToStdout == [Plain EXCEPT !.out = "none"]

\* The dialogues and the early ends.
Dialogues == {Line(<<Url([ToStdout EXCEPT !.scheme = s, !.input = i, !.badProxy = p,
                                            !.envelope = TRUE, !.at = a])>>) :
    s \in {"torrent", "ws", "smtp", "mqtt", "ftp", "tftp", "ssh", "gopher", "unparsable",
           "badquery", "barred"},
    i \in {"file", "unreadable"}, p \in BOOLEAN, a \in {0, 3}}

\* One transfer, on every path, with the options that matter to it.
Single == {Line(<<Url(o)>>) : o \in
    {[ToStdout EXCEPT !.scheme = s, !.out = t, !.noClobber = n, !.old = 1] :
        s \in {"rtsp", "telnet", "ssh", "gopher"}, t \in {"none", "file"}, n \in BOOLEAN}
      \cup {[Plain EXCEPT !.removeOnError = r, !.max = m, !.noClobber = n, !.old = 1,
                          !.segments = k, !.lowSpeed = n] :
              r \in BOOLEAN, m \in {1, 9}, n \in BOOLEAN, k \in {1, 2}}
      \cup {[Plain EXCEPT !.out = t, !.fail = f, !.withBody = b, !.include = ~f, !.retry = 2,
                          !.retryMax = x, !.retryRefused = b, !.retryAll = f /\ b] :
              t \in {"none", "file"}, f \in BOOLEAN, b \in BOOLEAN, x \in BOOLEAN}}

\* -C: with a file, a partial file, an offset, and a server that may ignore it.
Resumes == {Line(<<Url(o), Url([o EXCEPT !.src = 1, !.old = 0])>>) : o \in
    {[Plain EXCEPT !.continue = TRUE, !.old = k, !.hasPart = h, !.fail = f] :
        k \in 0 .. 2, h \in BOOLEAN, f \in BOOLEAN}}
  \cup {Line(<<Url([Plain EXCEPT !.at = 1, !.old = 1, !.out = t, !.continue = (t = "file")])>>) :
        t \in {"none", "file"}}

\* Globs: two sets and a literal, a step, a range with no room, a brace left
\* open, more URLs than allowed; output names with captures.
Globs == {[Line(<<[op |-> [ToStdout EXCEPT !.scheme = "ws", !.globoff = g], segs |-> <<s, Lit, r>>]>>)
             EXCEPT !.parallel = z, !.jar = j] :
    g \in BOOLEAN, z \in BOOLEAN, j \in BOOLEAN, s \in {List(2), [kind |-> "unmatched"]},
    r \in {Span(1, 4, 3), Span(3, 1, 1), Span(1, 9, 1)}}
  \cup {Side(<<[op |-> [Plain EXCEPT !.template = <<2, 1>>], segs |-> <<List(2), Lit>>]>>)}

\* Side by side: stdout streams, verbose exchanges, buffered output, files.
Mixed == {ToStdout, [ToStdout EXCEPT !.verbose = TRUE], [ToStdout EXCEPT !.include = TRUE, !.verbose = TRUE],
          [Plain EXCEPT !.verbose = TRUE], [ToStdout EXCEPT !.scheme = "ssh", !.verbose = TRUE]}
SideBySide == {Side(<<Url(a), Url(b)>>) : a \in Mixed, b \in Mixed \ {[Plain EXCEPT !.verbose = TRUE]}}
  \cup {Side(<<Url(ToStdout), Url([ToStdout EXCEPT !.verbose = TRUE]), Url([ToStdout EXCEPT !.scheme = "ssh"])>>)}

Usage == {[Line(<<Url(Plain)>>) EXCEPT !.usage = TRUE]}

McCommands == Dialogues \cup Single \cup Resumes \cup Globs \cup SideBySide \cup Usage

-----------------------------------------------------------------------------
(* The C interfaces.                                                       *)
McSettings == {<<"url", {"bad"}>>, <<"custom", {"DELETE"}>>, <<"nobody", TRUE>>, <<"postfields", TRUE>>,
               <<"copypostfields", TRUE>>, <<"httpget", TRUE>>, <<"postfieldsize", 3>>, <<"http_header", TRUE>>,
               <<"failonerror", TRUE>>, <<"header_in_body", TRUE>>, <<"header_fn", TRUE>>, <<"timeout", -1>>}
McNative == {<<"url", {"u"}>>, <<"body", {<<1>>}>>, <<"header", {"user-agent"}>>, <<"header", {}>>,
             <<"user_agent", {"x"}>>, <<"timeout_secs", 0>>}
McBuffers == {<<1, 0, 2, 0>>, <<3, 3, 0, 0>>}
McLines == {[name |-> "user-agent", form |-> f] : f \in {"value", "remove"}}

-----------------------------------------------------------------------------
(* The services.                                                           *)
\* HPACK: a short and a long name and value, a table of two, and blocks that are
\* truncated, overlong, out of range or out of order.
A == <<1>>
B == <<1, 1>>
L == <<1, 1, 1, 1, 1>>
McStatic == <<F(A, A), F(B, <<>>)>>
McLists == {<<F(A, A), F(A, B)>>, <<F(B, A)>>, <<F(<<2>>, A), F(A, A)>>, <<F(A, L)>>, <<F(<<2, 2, 2>>, L)>>}
Byte(m, n) == [m |-> m, n |-> n]
McOdd ==
    {encode_int(0, "indexed"), encode_int(9, "indexed"), <<Byte("indexed", 3)>>, <<Byte("indexed", 3), Byte("more", 1)>>,
     <<Byte("indexed", 3)>> \o [i \in 1..9 |-> Byte("more", 0)] \o <<Byte("last", 0)>>,
     <<Byte("indexed", 3), Byte("more", 3), Byte("more", 3), Byte("more", 3), Byte("last", 3)>>,
     encode_int(1, "indexed") \o encode_int(3, "update"), encode_int(Cap + 1, "update") \o encode_int(1, "indexed"),
     <<Byte("insert", 1)>>, encode_int(0, "literal") \o encode_int(3, "string") \o <<Byte("octet", 1)>>,
     encode_int(0, "literal") \o encode_literal_string(<<13>>) \o encode_literal_string(A),
     encode_int(9, "insert") \o encode_literal_string(A), [i \in 1..12 |-> Byte("indexed", 1)]}

\* Writes that meet, overlap the threshold and leave a gap.
McWrites == {<<0, <<1, 2>>>>, <<2, <<3>>>>, <<3, <<4>>>>}

\* An unsupported, a UDP and an HTTP tracker; five nodes, one of them far; a peer
\* that serves the dictionary among noise, one that serves another, one that refuses.
McTrackers == <<"other", "udp", "http">>
McTrackerPeers == {"p1", "p2"}
McBootstrap == <<"n1", "n2">>
McReply ==
    [n1 |-> [peers |-> {}, nodes |-> {"n3", "n4", "n2"}], n2 |-> [peers |-> {"p3"}, nodes |-> {"n1", "n5"}],
     n3 |-> [peers |-> {"p1"}, nodes |-> {"n5"}], n4 |-> [peers |-> {}, nodes |-> {"n3"}], n5 |-> [peers |-> {"p2"}, nodes |-> {}]]
McDist == [n1 |-> 5, n2 |-> 4, n3 |-> 1, n4 |-> 3, n5 |-> 2]
Msg(e, t, p, b) == [ext |-> e, type |-> t, piece |-> p, body |-> b]
Peer(msgs) == [hash |-> TRUE, ext |-> TRUE, ut |-> 2, size |-> 3, msgs |-> msgs]
McScripts ==
    [p1 |-> Peer(<<Msg(3, "data", 0, <<9>>), Msg(1, "request", 0, <<>>), Msg(1, "data", 0, <<1, 2>>), Msg(1, "data", 1, <<3>>)>>),
     p2 |-> Peer(<<Msg(1, "data", 0, <<1, 2>>), Msg(1, "data", 1, <<4>>)>>),
     p3 |-> Peer(<<Msg(1, "data", 0, <<1, 2>>), Msg(1, "reject", 1, <<>>)>>)]
McInfo == <<1, 2, 3>>

-----------------------------------------------------------------------------
Machines == {"multi", "cli", "api", "transfer", "hpack", "blob", "discovery"}

NoTransfer == d = Fail(Opened("none", [o \in {"implicit", "required", "login"} |-> FALSE], <<>>))
Only(m, init, off) == IF machine = m THEN init ELSE off
McInit ==
    /\ machine \in Machines
    /\ Init
    /\ Only("cli", CliInit, cmd \in Usage /\ CliInit)
    /\ Only("api", ApiInit, api = NoApi)
    /\ Only("transfer", TransferInit, NoTransfer)
    /\ Only("hpack", HpackInit, hp = NoHpack)
    /\ Only("blob", BlobInit, blob = NoBlob)
    /\ Only("discovery", DiscoveryInit, disc = NoDiscovery)

\* These four have nothing to do in the end, at their bounds or when they are done.
Rests == machine \in {"api", "hpack", "blob", "discovery"} /\ UNCHANGED <<vars, cliVars, api, d, hp, blob, disc>>

McNext ==
    /\ UNCHANGED machine
    /\ \/ machine = "multi" /\ Next /\ UNCHANGED <<cliVars, api, d, hp, blob, disc>>
       \/ machine = "cli" /\ CliNext /\ UNCHANGED <<vars, api, d, hp, blob, disc>>
       \/ machine = "api" /\ ApiNext /\ UNCHANGED <<vars, cliVars, d, hp, blob, disc>>
       \/ machine = "transfer" /\ TransferNext /\ UNCHANGED <<vars, cliVars, api, hp, blob, disc>>
       \/ machine = "hpack" /\ HpackNext /\ UNCHANGED <<vars, cliVars, api, d, blob, disc>>
       \/ machine = "blob" /\ BlobNext /\ UNCHANGED <<vars, cliVars, api, d, hp, disc>>
       \/ machine = "discovery" /\ DiscoveryNext /\ UNCHANGED <<vars, cliVars, api, d, hp, blob>>
       \/ Rests

\* The fairness of the machine that runs.  A discovery goes on as long as it can: every
\* one of its reads has a timeout.
McSpec ==
    /\ McInit /\ [][McNext]_<<machine, vars, cliVars, api, d, hp, blob, disc>>
    /\ \A i \in Ids : WF_vars(machine = "multi" /\ Worker(i))
    /\ WF_vars(machine = "multi" /\ InCall)
    /\ WF_cliVars(machine = "cli" /\ (main \/ Exit))
    /\ \A w \in Workers : WF_cliVars(machine = "cli" /\ Step(w))
    /\ WF_d(machine = "transfer" /\ TransferNext)
    /\ WF_disc(machine = "discovery" /\ DiscoveryNext)

\* What a client or a discovery reports is so: the payload is what was sent, a success of
\* TFTP or SFTP is the whole file, and only answers to our own questions were believed.
ReportsTrue == PayloadIntact /\ DiscoverySound

\* Where a machine may rest, and everything comes to rest: every call of the multi handle
\* returns; the program exits, although a stdout stream keeps stdout and a verbose
\* exchange stderr while it runs; every transfer ends (only an MQTT subscription may wait
\* for ever, and only while its broker answers pings); every discovery is over, with its
\* workers gone.
Settled(ping) ==
    CASE machine = "multi" -> CallReturned
      [] machine = "cli" -> Exited
      [] machine = "transfer" -> TransferRests(ping)
      [] machine = "discovery" -> DiscoveryOver
      [] OTHER -> TRUE
AllEnds == \A ping \in BOOLEAN : []<>Settled(ping)
=============================================================================
