----------------------------- MODULE MCRedirect -----------------------------
(***************************************************************************)
(* Two sites under one public suffix, a subdomain of the first, plain http *)
(* on it and on an address.  One call with up to two redirects and two     *)
(* Set-Cookie lines, after and before the caller touches the jar.          *)
(***************************************************************************)
EXTENDS Redirect

S  == << "com", "s" >>
WS == << "com", "s", "w" >>
T  == << "com", "t" >>
Ip == << "1", "0", "0", "10" >>

U(scheme, host, path) ==
    [scheme |-> scheme, host |-> host, port |-> 1, path |-> path, info |-> "none"]

MCPublicSuffixes == {<< "com" >>}
MCIpHosts  == {Ip}
MCLoopbacks == {<< "localhost" >>}

UrlS  == U("https", S, << "d", "f" >>)
UrlHS == U("http", WS, << "d" >>)
MCUrls == {UrlS, UrlHS, U("https", WS, << "d", "f" >>)}

Line(name, domain, path, secure, age) ==
    [name |-> name, domain |-> domain, path |-> path, secure |-> secure, age |-> age]

MCLines == {
    Line("sid", {S}, {<< >>}, TRUE, {1}),
    Line("sid", {S}, {}, FALSE, {}),
    Line("sid", {<< "com" >>}, {}, FALSE, {}),
    Line("sid", {}, {<< >>}, FALSE, {}),
    Line("sid", {}, {<< >>}, FALSE, {0}),
    Line("__Host-", {}, {<< >>}, TRUE, {})}

FileCookie(domain, hostOnly) ==
    [name |-> "sid", domain |-> domain, hostOnly |-> hostOnly, path |-> << >>,
     secure |-> FALSE, expires |-> Session, by |-> FileUrl]

MCFiles == {{}, {FileCookie(<< "com" >>, FALSE), FileCookie(<< "1", "0", "0" >>, FALSE),
                 FileCookie(Ip, FALSE)}}

Answer(status, kind, url) == [status |-> status, loc |-> [kind |-> kind, url |-> url]]

MCHeads == {
    Answer(200, "none", NoUrl), Answer(302, "bad", NoUrl),
    Answer(302, "path", U("http", S, << "d" >>)),
    Answer(307, "net", U("http", T, << >>)),
    Answer(302, "abs", UrlHS),
    Answer(307, "abs", [U("http", Ip, << >>) EXCEPT !.info = "server"]),
    Answer(303, "abs", UrlS), Answer(303, "abs", [UrlS EXCEPT !.port = 2])}

Job(mode, url) ==
    [mode |-> mode, url |-> url, method |-> "POST", body |-> TRUE, auth |-> FALSE,
     cookie |-> FALSE, basic |-> FALSE, digest |-> FALSE, follow |-> TRUE,
     trusted |-> FALSE, through |-> TRUE, keepPost |-> {}, jar |-> TRUE]

MCJobs == {
    [Job("send", UrlS) EXCEPT !.basic = TRUE, !.digest = TRUE, !.cookie = TRUE, !.through = FALSE],
    [Job("stream", UrlHS) EXCEPT !.auth = TRUE, !.keepPost = {303}],
    [Job("reader", [UrlS EXCEPT !.info = "userinfo"]) EXCEPT !.basic = TRUE, !.trusted = TRUE],
    [Job("reader", [UrlS EXCEPT !.info = "userinfo"]) EXCEPT !.cookie = TRUE]}
=============================================================================
