--------------------------- MODULE RedirectProofs ---------------------------
(***************************************************************************)
(* For any jobs, responses, Set-Cookie lines, jar files and bounds: along  *)
(* any chain of redirects neither credentials nor cookies reach a server   *)
(* they are not for, and a response that is not from a secure context does *)
(* not touch a Secure cookie.                                              *)
(*                                                                         *)
(* Credentials: while the request still carries one, no hop has left the   *)
(* origin of the job (LoopOK), so each hop's comparison with the previous  *)
(* one is a comparison with the first.  Cookies: every cookie of the jar   *)
(* has a domain that the host which set it is allowed to name (Scoped),    *)
(* also after a trip through the file, whose hand-written entries satisfy  *)
(* it only once Load has filtered them (FiledOK); and `explicit` is        *)
(* exactly the keys of the cookies given with -b.                          *)
(***************************************************************************)
EXTENDS Redirect, TLAPS

-----------------------------------------------------------------------------
(* Prefixes. *)

LEMMA PrefixEntries ==
    ASSUME NEW s, NEW t, IsSeq(s), IsSeq(t)
    PROVE IsPrefix(s, t) <=> Len(s) <= Len(t) /\ \A i \in 1 .. Len(s) : s[i] = t[i]
<1> DEFINE S == {s[i] : i \in 1 .. Len(s)} \cup {t[i] : i \in 1 .. Len(t)}
<1>1. s \in Seq(S) /\ t \in Seq(S)
    BY DEF IsSeq
<1>2. Len(s) \in Nat /\ Len(t) \in Nat
    BY <1>1
<1>3. SubSeq(s, 1, Len(s)) \in Seq(S) /\ Len(SubSeq(s, 1, Len(s))) = Len(s)
      /\ \A i \in 1 .. Len(s) : SubSeq(s, 1, Len(s))[i] = s[i]
    BY <1>1
<1>4. ASSUME Len(s) <= Len(t)
      PROVE SubSeq(t, 1, Len(s)) \in Seq(S) /\ Len(SubSeq(t, 1, Len(s))) = Len(s)
            /\ \A i \in 1 .. Len(s) : SubSeq(t, 1, Len(s))[i] = t[i]
    BY <1>1, <1>2, <1>4
<1> DEFINE a == SubSeq(s, 1, Len(s))
           b == SubSeq(t, 1, Len(s))
<1> HIDE DEF a, b, S
<1>5. ASSUME Len(s) <= Len(t), \A i \in 1 .. Len(s) : s[i] = t[i] PROVE a = b
    BY <1>2, <1>3, <1>4, <1>5 DEF a, b
<1>6. ASSUME Len(s) <= Len(t), a = b PROVE \A i \in 1 .. Len(s) : s[i] = t[i]
    BY <1>2, <1>3, <1>4, <1>6 DEF a, b
<1> QED
    BY <1>5, <1>6 DEF IsPrefix, a, b

LEMMA SeqFacts ==
    ASSUME NEW s, IsSeq(s)
    PROVE Len(s) \in Nat /\ SubSeq(s, 1, Len(s)) = s /\ (s # << >> => Len(s) >= 1)
BY DEF IsSeq

LEMMA PrefixSelf == ASSUME NEW s, IsSeq(s) PROVE IsPrefix(s, s)
BY SeqFacts DEF IsPrefix

\* Of two prefixes of one sequence the shorter is a prefix of the longer.
LEMMA PrefixesNest ==
    ASSUME NEW s, NEW t, NEW u, IsSeq(s), IsSeq(t), IsSeq(u),
           IsPrefix(s, u), IsPrefix(t, u), Len(s) <= Len(t)
    PROVE IsPrefix(s, t)
<1>1. /\ Len(s) \in Nat /\ Len(t) \in Nat /\ \A i \in 1 .. Len(s) : s[i] = u[i]
      /\ \A i \in 1 .. Len(t) : t[i] = u[i]
    BY SeqFacts, PrefixEntries
<1>2. \A i \in 1 .. Len(s) : s[i] = t[i]
    BY <1>1
<1> QED
    BY <1>2, PrefixEntries

-----------------------------------------------------------------------------
(* The invariant. *)

\* The domain of a cookie is one that its setter may name.
Scoped(c) ==
    /\ IsCookie(c) /\ IsSeq(SetBy(c))
    /\ c.by = FileUrl => c.domain # << >>
    /\ c.hostOnly => c.domain = SetBy(c)
    /\ ~c.hostOnly =>
          /\ c.domain # << >> /\ c.domain \notin PublicSuffixes /\ c.domain \notin IpHosts
          /\ SetBy(c) \notin IpHosts /\ IsPrefix(c.domain, SetBy(c))
    /\ c.name = "__Host-" /\ c.by # FileUrl =>
          c.hostOnly /\ IsSecureContext(c.by) /\ c.by.host = c.domain

\* A cookie of the file: scoped, or written by hand.
FiledOK(c) ==
    /\ c.by # NoUrl
    /\ IF c.by = FileUrl THEN IsCookie(c) /\ c.domain # << >> ELSE Scoped(c)

JarOK == \A c \in jar : Scoped(c) /\ (Key(c) \in explicit <=> c.by = NoUrl)

\* The request carries something of the caller's.
Carries == req.auth = "caller" \/ req.basic \/ req.cookie \/ req.url.info = "userinfo"

LoopOK ==
    pc # "idle" =>
        /\ job \in Jobs /\ IsUrl(req.url) /\ req.auth \in {"none", "caller", "digest"}
        /\ req = [url |-> req.url, method |-> req.method, body |-> req.body,
                  auth |-> req.auth, cookie |-> req.cookie, basic |-> req.basic]
        /\ Carries => job.trusted \/ Origin(req.url) = Origin(job.url)

RedirInv ==
    /\ now \in Nat
    /\ JarOK
    /\ \A c \in file : FiledOK(c)
    /\ LoopOK
    /\ SecretsStayHome

-----------------------------------------------------------------------------
(* The jar. *)

LEMMA UrlFacts ==
    ASSUME NEW u, IsUrl(u)
    PROVE u # NoUrl /\ u # FileUrl
<1>1. NoUrl.scheme = "none" /\ FileUrl.scheme = "file"
    BY DEF NoUrl, FileUrl
<1> QED
    BY <1>1 DEF IsUrl

\* parse_set_cookie lets a host set cookies only for what it may name.
LEMMA ParsedScoped ==
    ASSUME NEW line \in Lines, NEW url, IsUrl(url), now \in Nat,
           NEW c \in ParseSetCookie(line, url)
    PROVE Scoped(c) /\ c.by = url /\ c.by # NoUrl
<1> DEFINE wide == {d \in Domains(line, url) : d # url.host \/ d \notin PublicSuffixes}
<1>1. /\ c \in [name : {line.name}, secure : {line.secure}, by : {url},
                domain : IF wide = {} THEN {url.host} ELSE wide, hostOnly : {wide = {}},
                path : IF line.path = {} THEN {DefaultPath(url.path)} ELSE line.path,
                expires : IF line.age = {} THEN {Session}
                          ELSE {IF a = 0 THEN 0 ELSE now + a : a \in line.age}]
      /\ DomainAccepted(line, url) /\ (c.secure => IsSecureContext(url))
      /\ PrefixRules(line, c.path)
    BY DEF ParseSetCookie
<1>2. /\ c = [name |-> c.name, domain |-> c.domain, hostOnly |-> c.hostOnly, path |-> c.path,
              secure |-> c.secure, expires |-> c.expires, by |-> c.by]
      /\ c.name = line.name /\ c.secure = line.secure /\ c.by = url
      /\ c.domain \in (IF wide = {} THEN {url.host} ELSE wide) /\ c.hostOnly = (wide = {})
      /\ c.path \in (IF line.path = {} THEN {DefaultPath(url.path)} ELSE line.path)
      /\ c.expires \in (IF line.age = {} THEN {Session}
                        ELSE {IF a = 0 THEN 0 ELSE now + a : a \in line.age})
    BY <1>1
<1>3. /\ \A d \in line.domain : IsSeq(d) /\ d # << >>
      /\ \A p \in line.path : IsSeq(p)
      /\ line.secure \in BOOLEAN /\ line.age \subseteq Nat
    BY RedirectAssumption
<1>4. IsSeq(url.host) /\ IsSeq(url.path) /\ \A d \in IpHosts : IsPrefix(d, url.host) => url.host \in IpHosts
    BY DEF IsUrl
<1>5. c.expires \in Nat
    BY <1>2, <1>3, CookieJarAssumption DEF Session
<1>6. IsSeq(c.path)
    <2>1. IsSeq(DefaultPath(url.path))
        <3>1. CASE url.path = << >>
            BY <1>4, <3>1 DEF DefaultPath
        <3>2. CASE url.path # << >>
            <4> DEFINE S == {url.path[i] : i \in 1 .. Len(url.path)}
                       f == SubSeq(url.path, 1, Len(url.path) - 1)
            <4>1. url.path \in Seq(S) /\ Len(url.path) \in Nat /\ Len(url.path) >= 1
                BY <1>4, <3>2 DEF IsSeq
            <4>2. f \in Seq(S)
                BY <4>1
            <4> HIDE DEF f, S
            <4>3. IsSeq(f)
                BY <4>2 DEF IsSeq
            <4> QED
                BY <3>2, <4>3 DEF DefaultPath, Front, f
        <3> QED
            BY <3>1, <3>2
    <2> QED
        BY <1>2, <1>3, <2>1
<1>7. wide \subseteq Domains(line, url) /\ Domains(line, url) \subseteq line.domain
    BY DEF Domains
<1>8. SetBy(c) = url.host /\ c.by # NoUrl /\ c.by # FileUrl
    BY <1>2, UrlFacts DEF SetBy
<1>9. IsSeq(c.domain) /\ c.hostOnly \in BOOLEAN /\ (c.hostOnly => c.domain = url.host)
    BY <1>2, <1>3, <1>4, <1>7
<1>10. ASSUME ~c.hostOnly
       PROVE /\ c.domain # << >> /\ c.domain \notin PublicSuffixes /\ c.domain \notin IpHosts
             /\ url.host \notin IpHosts /\ IsPrefix(c.domain, url.host)
    <2>1. c.domain \in wide
        BY <1>2, <1>10
    <2>2. c.domain \in Domains(line, url) /\ c.domain \in line.domain
          /\ (c.domain # url.host \/ c.domain \notin PublicSuffixes) /\ url.host \notin IpHosts
        BY <2>1 DEF Domains
    <2>3. c.domain \notin PublicSuffixes /\ DomainMatch(url.host, c.domain, FALSE)
        BY <1>1, <2>2 DEF DomainAccepted
    <2>4. IsPrefix(c.domain, url.host)
        BY <1>4, <2>3, PrefixSelf DEF DomainMatch
    <2> QED
        BY <1>3, <1>4, <2>2, <2>3, <2>4
<1>11. ASSUME c.name = "__Host-" PROVE c.hostOnly /\ IsSecureContext(url) /\ url.host = c.domain
    <2>1. line.name = "__Host-" /\ line.domain = {} /\ line.secure
        BY <1>1, <1>2, <1>11 DEF PrefixRules
    <2>2. wide = {}
        BY <1>7, <2>1
    <2> QED
        BY <1>1, <1>2, <1>9, <2>1, <2>2
<1>12. IsCookie(c)
    BY <1>2, <1>3, <1>5, <1>6, <1>9 DEF IsCookie
<1> QED
    BY <1>2, <1>4, <1>8, <1>9, <1>10, <1>11, <1>12 DEF Scoped

LEMMA IngestJar ==
    ASSUME JarOK, NEW ls, ls \subseteq Lines, NEW url, IsUrl(url), now \in Nat, Ingest(ls, url)
    PROVE JarOK'
<1>1. CASE UNCHANGED << jar, explicit >>
    BY <1>1 DEF JarOK
<1>2. ASSUME NEW line \in ls, NEW c \in ParseSetCookie(line, url),
             jar' = RemoveMatching(c).jar \cup {x \in {c} : ~Expired(x)},
             explicit' = RemoveMatching(c).explicit
      PROVE JarOK'
    <2>1. Scoped(c) /\ c.by # NoUrl
        BY <1>2, ParsedScoped
    <2>2. /\ RemoveMatching(c).jar = {x \in jar : Key(x) # Key(c)}
          /\ RemoveMatching(c).explicit = explicit \ {Key(c)}
        BY DEF RemoveMatching
    <2>3. \A x \in jar' : x = c \/ (x \in jar /\ Key(x) # Key(c))
        BY <1>2, <2>2
    <2>4. explicit' = explicit \ {Key(c)}
        BY <1>2, <2>2
    <2> QED
        BY <2>1, <2>3, <2>4 DEF JarOK
<1> QED
    BY <1>1, <1>2 DEF Ingest

LEMMA AddExplicitJar ==
    ASSUME RedirInv, NEW u \in Urls, AddExplicit(u)
    PROVE JarOK' /\ file' = file
<1> DEFINE c == [name |-> "sid", domain |-> u.host, hostOnly |-> TRUE, path |-> << >>,
                 secure |-> FALSE, expires |-> Session, by |-> NoUrl]
<1>1. /\ RemoveMatching(c).jar = {x \in jar : Key(x) # Key(c)}
      /\ RemoveMatching(c).explicit = explicit \ {Key(c)}
    BY DEF RemoveMatching
<1>2. /\ jar' = {x \in jar : Key(x) # Key(c)} \cup {c}
      /\ explicit' = (explicit \ {Key(c)}) \cup {Key(c)} /\ file' = file
    BY <1>1 DEF AddExplicit
<1>3. IsSeq(u.host)
    BY RedirectAssumption DEF IsUrl
<1>4. IsSeq(<< >>) /\ Session \in Nat
    BY CookieJarAssumption DEF IsSeq, Session
<1>5. SetBy(c) = u.host
    BY DEF SetBy
<1>6. IsCookie(c)
    BY <1>3, <1>4 DEF IsCookie
<1>7. Scoped(c) /\ c.by = NoUrl
    BY <1>3, <1>5, <1>6 DEF Scoped, NoUrl, FileUrl
<1> HIDE DEF c
<1>8. ASSUME NEW x \in jar' PROVE Scoped(x) /\ (Key(x) \in explicit' <=> x.by = NoUrl)
    <2>1. CASE x = c
        BY <1>2, <1>7, <2>1
    <2>2. CASE x \in jar /\ Key(x) # Key(c)
        BY <1>2, <2>2 DEF RedirInv, JarOK
    <2> QED
        BY <1>2, <2>1, <2>2
<1> QED
    BY <1>2, <1>8 DEF JarOK

LEMMA DeleteJar ==
    ASSUME RedirInv, NEW c \in jar, Delete(c)
    PROVE JarOK' /\ file' = file
<1>1. jar' = {x \in jar : Key(x) # Key(c)} /\ explicit' = explicit \ {Key(c)} /\ file' = file
    BY DEF Delete, RemoveMatching
<1> QED
    BY <1>1 DEF RedirInv, JarOK

\* What goes through the file comes back scoped as it was.
LEMMA LoadJar ==
    ASSUME RedirInv, Load
    PROVE JarOK'
<1>1. SUFFICES ASSUME NEW y \in jar' PROVE Scoped(y) /\ y.by # NoUrl
    BY DEF JarOK, Load
<1>2. PICK c \in file :
          /\ c.hostOnly \/ c.domain \in IpHosts \/ c.domain \notin PublicSuffixes
          /\ y = [c EXCEPT !.hostOnly = @ \/ c.domain \in IpHosts]
    BY DEF Load
<1>3. FiledOK(c) /\ IsCookie(c)
    BY DEF RedirInv, FiledOK, Scoped
<1> DEFINE ho == c.hostOnly \/ c.domain \in IpHosts
<1>4. y = [name |-> c.name, domain |-> c.domain, hostOnly |-> ho, path |-> c.path,
           secure |-> c.secure, expires |-> c.expires, by |-> c.by]
    BY <1>2, <1>3 DEF IsCookie
<1>5. /\ y.name = c.name /\ y.domain = c.domain /\ y.hostOnly = ho /\ y.path = c.path
      /\ y.secure = c.secure /\ y.expires = c.expires /\ y.by = c.by
    BY <1>4
<1>6. ho \in BOOLEAN
    OBVIOUS
<1> HIDE DEF ho
<1>7. IsCookie(y)
    BY <1>3, <1>4, <1>5, <1>6 DEF IsCookie
<1>8. SetBy(y) = SetBy(c)
    BY <1>5 DEF SetBy
<1>9. CASE c.by = FileUrl
    <2>1. SetBy(c) = c.domain /\ IsSeq(c.domain) /\ c.domain # << >>
        BY <1>3, <1>9 DEF SetBy, FiledOK, IsCookie
    <2>2. ~ho => c.domain \notin IpHosts /\ c.domain \notin PublicSuffixes
        BY <1>2 DEF ho
    <2> QED
        BY <1>3, <1>5, <1>7, <1>8, <1>9, <2>1, <2>2, PrefixSelf DEF Scoped, FiledOK
<1>10. CASE c.by # FileUrl
    <2>1. Scoped(c)
        BY <1>3, <1>10 DEF FiledOK
    <2>2. ho = c.hostOnly
        BY <1>3, <2>1 DEF Scoped, IsCookie, ho
    <2>3. y = c
        BY <1>3, <1>4, <2>2 DEF IsCookie
    <2> QED
        BY <1>3, <2>1, <2>3 DEF FiledOK
<1> QED
    BY <1>9, <1>10

\* A save writes what was not given with -b.
LEMMA SaveFile ==
    ASSUME RedirInv, Save
    PROVE file' = {c \in jar : c.by # NoUrl} /\ (\A c \in file' : FiledOK(c))
<1>1. file' = {c \in jar : c.by # NoUrl}
    BY DEF Save, RedirInv, JarOK
<1>2. ASSUME NEW c \in file' PROVE FiledOK(c)
    <2>1. Scoped(c) /\ c.by # NoUrl
        BY <1>1, <1>2 DEF RedirInv, JarOK
    <2> QED
        BY <2>1 DEF FiledOK, Scoped
<1> QED
    BY <1>1, <1>2

-----------------------------------------------------------------------------
(* The loop. *)

\* A request that is redirected is for an http or https URL, whose userinfo is
\* never the caller's.
LEMMA ResolveUrl ==
    ASSUME NEW base, IsUrl(base), NEW h \in Heads, h.loc.kind \in {"path", "net", "abs"}
    PROVE IsUrl(Resolve(base, h.loc)) /\ Resolve(base, h.loc).info # "userinfo"
<1>1. IsUrl(h.loc.url) /\ h.loc.url.info # "userinfo"
    BY RedirectAssumption
<1> DEFINE l == h.loc.url
<1>2. CASE h.loc.kind = "path"
    <2> DEFINE r == [scheme |-> base.scheme, host |-> base.host, port |-> base.port,
                     path |-> l.path, info |-> "none"]
    <2>1. Resolve(base, h.loc) = r
        BY <1>2 DEF Resolve
    <2>2. IsUrl(r)
        BY <1>1 DEF IsUrl
    <2>3. r.info = "none"
        OBVIOUS
    <2> HIDE DEF r
    <2> QED
        BY <2>1, <2>2, <2>3
<1>3. CASE h.loc.kind = "net"
    <2> DEFINE r == [scheme |-> base.scheme, host |-> l.host, port |-> l.port,
                     path |-> l.path, info |-> l.info]
    <2>1. Resolve(base, h.loc) = [l EXCEPT !.scheme = base.scheme]
        BY <1>3 DEF Resolve
    <2>2. [l EXCEPT !.scheme = base.scheme] = r
        BY <1>1 DEF IsUrl
    <2>3. IsUrl(r)
        BY <1>1 DEF IsUrl
    <2>4. r.info = l.info
        OBVIOUS
    <2> HIDE DEF r
    <2> QED
        BY <1>1, <2>1, <2>2, <2>3, <2>4
<1>4. CASE h.loc.kind = "abs"
    <2>1. Resolve(base, h.loc) = l
        BY <1>4 DEF Resolve
    <2> QED
        BY <1>1, <2>1
<1> QED
    BY <1>2, <1>3, <1>4

\* While anything of the caller's is left, the next hop goes where this one did.
LEMMA RedirectLoop ==
    ASSUME RedirInv, pc # "idle", NEW h \in Heads, h.loc.kind \in {"path", "net", "abs"},
           req' = RedirectRequest(h.status, h.loc), UNCHANGED job
    PROVE LoopOK'
<1> DEFINE url  == Resolve(req.url, h.loc)
           drop == HostChanged(req.url, url) /\ ~job.trusted
           mt == IF ToGet(h.status, req.method) THEN "GET" ELSE req.method
           bd == req.body /\ ~ToGet(h.status, req.method)
           au == IF drop THEN "none" ELSE req.auth
           ck == req.cookie /\ ~drop
           ba == req.basic /\ ~drop
<1>1. req' = [url |-> url, method |-> mt, body |-> bd, auth |-> au, cookie |-> ck, basic |-> ba]
    BY DEF RedirectRequest
<1>2. LoopOK /\ job \in Jobs /\ IsUrl(req.url) /\ req.auth \in {"none", "caller", "digest"}
    BY DEF RedirInv, LoopOK
<1>3. IsUrl(url) /\ url.info # "userinfo"
    BY <1>2, ResolveUrl
<1>4. au \in {"none", "caller", "digest"}
    BY <1>2
<1>5. ASSUME au = "caller" \/ ck \/ ba
      PROVE job.trusted \/ Origin(url) = Origin(job.url)
    <2>1. ~drop /\ Carries
        BY <1>5 DEF Carries
    <2>2. job.trusted \/ Origin(req.url) = Origin(job.url)
        BY <1>2, <2>1 DEF LoopOK
    <2> QED
        BY <2>1, <2>2 DEF HostChanged
<1> HIDE DEF url, drop, mt, bd, au, ck, ba
<1>6. /\ req'.url = url /\ req'.auth = au /\ req'.cookie = ck /\ req'.basic = ba
      /\ req'.method = mt /\ req'.body = bd
    BY <1>1
<1>7. Carries' => au = "caller" \/ ck \/ ba
    BY <1>3, <1>6 DEF Carries
<1>8. Carries' => job'.trusted \/ Origin(req'.url) = Origin(job'.url)
    BY <1>5, <1>6, <1>7
<1>9. job' \in Jobs /\ IsUrl(req'.url) /\ req'.auth \in {"none", "caller", "digest"}
    BY <1>2, <1>3, <1>4, <1>6
<1>10. req' = [url |-> req'.url, method |-> req'.method, body |-> req'.body,
               auth |-> req'.auth, cookie |-> req'.cookie, basic |-> req'.basic]
    BY <1>1, <1>6
<1> QED
    BY <1>8, <1>9, <1>10 DEF LoopOK

LEMMA ChallengedLoop ==
    ASSUME RedirInv, pc # "idle", req' = [req EXCEPT !.auth = "digest"], UNCHANGED job
    PROVE LoopOK'
<1>1. LoopOK /\ job \in Jobs /\ IsUrl(req.url)
    BY DEF RedirInv, LoopOK
<1>2. req' = [url |-> req.url, method |-> req.method, body |-> req.body,
              auth |-> "digest", cookie |-> req.cookie, basic |-> req.basic]
    BY DEF RedirInv, LoopOK
<1>3. /\ req'.url = req.url /\ req'.auth = "digest" /\ req'.cookie = req.cookie
      /\ req'.basic = req.basic /\ req'.method = req.method /\ req'.body = req.body
    BY <1>2
<1>4. Carries' => Carries
    BY <1>3 DEF Carries
<1>5. Carries' => job'.trusted \/ Origin(req'.url) = Origin(job'.url)
    BY <1>1, <1>3, <1>4 DEF LoopOK
<1>6. req' = [url |-> req'.url, method |-> req'.method, body |-> req'.body,
              auth |-> req'.auth, cookie |-> req'.cookie, basic |-> req'.basic]
    BY <1>2, <1>3
<1> QED
    BY <1>1, <1>3, <1>5, <1>6 DEF LoopOK

LEMMA StartLoop ==
    ASSUME NEW j \in Jobs, Start(j)
    PROVE LoopOK'
<1> DEFINE au == IF j.auth THEN "caller" ELSE "none"
           ba == j.basic /\ ~(j.digest /\ j.mode = "send")
<1>1. req' = [url |-> j.url, method |-> j.method, body |-> j.body, auth |-> au,
              cookie |-> j.cookie, basic |-> ba] /\ job' = j
    BY DEF Start
<1>2. au \in {"none", "caller", "digest"} /\ IsUrl(j.url)
    BY RedirectAssumption
<1> HIDE DEF au, ba
<1>3. /\ req'.url = j.url /\ req'.auth = au /\ req'.cookie = j.cookie /\ req'.basic = ba
      /\ req'.method = j.method /\ req'.body = j.body
    BY <1>1
<1>4. req' = [url |-> req'.url, method |-> req'.method, body |-> req'.body,
              auth |-> req'.auth, cookie |-> req'.cookie, basic |-> req'.basic]
    BY <1>1, <1>3
<1> QED
    BY <1>1, <1>2, <1>3, <1>4 DEF LoopOK

\* What is put on the wire is for whom it goes to.
LEMMA SendHome ==
    ASSUME RedirInv, Send
    PROVE SecretsStayHome'
<1> DEFINE ck == req.cookie /\ ~UseJar
           cs == IF UseJar THEN CookieHeader(req.url) ELSE {}
<1>1. wire' = [url |-> req.url, auth |-> EffectiveAuth, at |-> now, cookie |-> ck,
               cookies |-> cs, method |-> req.method, body |-> req.body,
               home |-> Origin(job.url), trusted |-> job.trusted]
    BY DEF Send
<1>2. /\ job \in Jobs /\ IsUrl(req.url) /\ req.auth \in {"none", "caller", "digest"}
      /\ Carries => job.trusted \/ Origin(req.url) = Origin(job.url)
      /\ now \in Nat /\ JarOK
    BY DEF RedirInv, LoopOK, Send
<1>3. EffectiveAuth \in {"caller", "basic", "userinfo"} => Carries
    <2>1. CASE req.auth # "none"
        BY <1>2, <2>1 DEF EffectiveAuth, Carries
    <2>2. CASE req.auth = "none" /\ req.basic
        BY <2>2 DEF Carries
    <2>3. CASE req.auth = "none" /\ ~req.basic
        <3>1. EffectiveAuth = req.url.info /\ req.url.info \in {"none", "userinfo", "server"}
            BY <1>2, <2>3 DEF EffectiveAuth, IsUrl
        <3> QED
            BY <3>1 DEF Carries
    <2> QED
        BY <2>1, <2>2, <2>3
<1>4. ck => Carries
    BY DEF Carries
<1>5. cs \subseteq CookieHeader(req.url)
    OBVIOUS
<1> HIDE DEF ck, cs
<1>6. /\ wire'.url = req.url /\ wire'.auth = EffectiveAuth /\ wire'.at = now
      /\ wire'.cookie = ck /\ wire'.cookies = cs /\ wire'.home = Origin(job.url)
      /\ wire'.trusted = job.trusted
    BY <1>1
<1>7. CredentialsStayHome'
    BY <1>2, <1>3, <1>4, <1>6 DEF CredentialsStayHome
<1>8. ASSUME NEW c \in cs
      PROVE /\ c.expires > now
            /\ c.secure => IsSecureContext(req.url)
            /\ IsPrefix(c.path, req.url.path)
            /\ c.hostOnly => SetBy(c) = req.url.host
            /\ \/ SetBy(c) = req.url.host
               \/ \E n \in 1 .. Len(SetBy(c)) :
                     Registrable(SubSeq(SetBy(c), 1, n), SetBy(c), req.url.host)
            /\ c.name = "__Host-" /\ c.by # FileUrl =>
                  IsSecureContext(c.by) /\ c.by.host = req.url.host
    <2>1. c \in jar /\ MatchesRequest(c, req.url)
        BY <1>5 DEF CookieHeader, Purged
    <2>2. Scoped(c) /\ IsCookie(c)
        BY <1>2, <2>1 DEF JarOK, Scoped
    <2>3. c.expires \in Nat /\ ~(c.expires <= now)
        BY <2>1, <2>2 DEF IsCookie, MatchesRequest, Expired
    <2>4. c.expires > now
        BY <1>2, <2>3
    <2>5. DomainMatch(req.url.host, c.domain, c.hostOnly)
        BY <2>1 DEF MatchesRequest
    <2>6. CASE c.hostOnly
        <3>1. SetBy(c) = req.url.host /\ c.domain = req.url.host
            BY <2>2, <2>5, <2>6 DEF Scoped, DomainMatch
        <3> QED
            BY <2>1, <2>2, <2>4, <3>1 DEF Scoped, MatchesRequest, PathMatch
    <2>7. CASE ~c.hostOnly
        <3> DEFINE d == c.domain
                   s == SetBy(c)
        <3>1. /\ IsSeq(d) /\ IsSeq(s) /\ d # << >> /\ d \notin PublicSuffixes /\ d \notin IpHosts
              /\ s \notin IpHosts /\ IsPrefix(d, s)
            BY <2>2, <2>7 DEF Scoped, IsCookie
        <3>2. req.url.host \notin IpHosts /\ IsPrefix(d, req.url.host)
            BY <2>5, <3>1, PrefixSelf DEF DomainMatch
        <3>3. Len(d) \in Nat /\ Len(d) >= 1 /\ Len(s) \in Nat /\ SubSeq(d, 1, Len(d)) = d
            BY <3>1, SeqFacts
        <3>4. Len(d) <= Len(s) /\ SubSeq(s, 1, Len(d)) = d
            BY <3>1, <3>3 DEF IsPrefix
        <3>5. Registrable(d, s, req.url.host)
            BY <3>1, <3>2 DEF Registrable
        <3>6. Len(d) \in 1 .. Len(s)
            BY <3>3, <3>4
        <3>7. \E n \in 1 .. Len(s) : Registrable(SubSeq(s, 1, n), s, req.url.host)
            BY <3>4, <3>5, <3>6
        <3>8. ~(c.name = "__Host-" /\ c.by # FileUrl)
            BY <2>2, <2>7 DEF Scoped
        <3> QED
            BY <2>1, <2>4, <2>7, <3>7, <3>8 DEF MatchesRequest, PathMatch
    <2> QED
        BY <2>2, <2>6, <2>7 DEF IsCookie
<1>9. CookieScope'
    BY <1>6, <1>8 DEF CookieScope, IsSecureContext, SetBy, Registrable
<1> QED
    BY <1>7, <1>9 DEF SecretsStayHome

-----------------------------------------------------------------------------
(* The steps. *)

LEMMA InitInv == Init => RedirInv
<1> SUFFICES ASSUME Init PROVE RedirInv
    OBVIOUS
<1>1. now \in Nat /\ JarOK /\ LoopOK
    BY DEF Init, JarInit, JarOK, LoopOK
<1>2. \A c \in file : FiledOK(c)
    BY RedirectAssumption DEF Init, JarInit, FiledOK, NoUrl, FileUrl
<1>3. SecretsStayHome
    BY DEF Init, NoWire, SecretsStayHome, CredentialsStayHome, CookieScope
<1> QED
    BY <1>1, <1>2, <1>3 DEF RedirInv

\* Steps that leave the wire and the file alone, or clear the wire.
LEMMA WireKept ==
    ASSUME RedirInv, UNCHANGED wire \/ wire' = NoWire
    PROVE SecretsStayHome'
<1>1. CASE UNCHANGED wire
    BY <1>1 DEF RedirInv, SecretsStayHome, CredentialsStayHome, CookieScope
<1>2. CASE wire' = NoWire
    BY <1>2 DEF NoWire, SecretsStayHome, CredentialsStayHome, CookieScope
<1> QED
    BY <1>1, <1>2

LEMMA TakeInKeeps ==
    ASSUME RedirInv, pc = "wait", NEW ls \in LineSets, TakeIn(ls)
    PROVE now' \in Nat /\ JarOK' /\ (\A c \in file' : FiledOK(c)) /\ SecretsStayHome'
<1>1. file' = file /\ now' = now /\ wire' = NoWire /\ ls \subseteq Lines /\ IsUrl(req.url)
    BY DEF TakeIn, LineSets, RedirInv, LoopOK
<1>2. ASSUME UseJar PROVE JarOK'
    BY <1>1, <1>2, IngestJar DEF TakeIn, RedirInv
<1>3. ASSUME ~UseJar PROVE JarOK'
    BY <1>1, <1>3 DEF TakeIn, RedirInv, JarOK
<1> QED
    BY <1>1, <1>2, <1>3, WireKept DEF RedirInv

LEMMA EndLoop == ASSUME End PROVE LoopOK'
BY DEF End, LoopOK

LEMMA NextInv == RedirInv /\ [Next]_vars => RedirInv'
<1> SUFFICES ASSUME RedirInv, [Next]_vars PROVE RedirInv'
    OBVIOUS
<1>1. ASSUME NEW j \in Jobs, Start(j) PROVE RedirInv'
    <2>1. UNCHANGED << jarVars, wire >>
        BY <1>1 DEF Start
    <2> QED
        BY <1>1, <2>1, StartLoop, WireKept DEF RedirInv, jarVars, JarOK
<1>2. CASE GiveUp
    BY <1>2, EndLoop, WireKept DEF GiveUp, RedirInv, jarVars, JarOK
<1>3. CASE Send
    <2>1. JarOK'
        BY <1>3 DEF Send, RedirInv, JarOK, Purged
    <2>2. LoopOK'
        BY <1>3 DEF Send, RedirInv, LoopOK, loop, Carries
    <2> QED
        BY <1>3, <2>1, <2>2, SendHome DEF Send, RedirInv
<1>4. CASE SendFails
    BY <1>4, EndLoop, WireKept DEF SendFails, RedirInv, jarVars, JarOK
<1>5. ASSUME NEW ls \in LineSets, NEW stale \in BOOLEAN, Challenged(ls, stale) PROVE RedirInv'
    BY <1>5, TakeInKeeps, ChallengedLoop DEF Challenged, RedirInv
<1>6. ASSUME NEW ls \in LineSets, NEW h \in Heads, Redirected(ls, h.status, h.loc)
      PROVE RedirInv'
    <2>1. pc = "wait" /\ TakeIn(ls) /\ h.loc.kind # "none" /\ h.loc.kind \in LocationKinds
        BY <1>6, RedirectAssumption DEF Redirected, Follows
    <2>2. CASE End
        BY <2>1, <2>2, TakeInKeeps, EndLoop DEF RedirInv
    <2>3. CASE /\ h.loc.kind # "bad" /\ UNCHANGED job
               /\ req' = RedirectRequest(h.status, h.loc)
        <3>1. h.loc.kind \in {"path", "net", "abs"}
            BY <2>1, <2>3 DEF LocationKinds
        <3> QED
            BY <2>1, <2>3, <3>1, TakeInKeeps, RedirectLoop DEF RedirInv
    <2> QED
        BY <1>6, <2>2, <2>3 DEF Redirected
<1>7. ASSUME NEW ls \in LineSets, NEW h \in Heads, Answered(ls, h.status, h.loc)
      PROVE RedirInv'
    BY <1>7, TakeInKeeps, EndLoop DEF Answered, RedirInv
<1>8. CASE UseOfJar
    <2>1. pc' = pc /\ pc = "idle" /\ UNCHANGED wire
        BY <1>8 DEF UseOfJar
    <2>2. LoopOK' /\ SecretsStayHome'
        BY <2>1, WireKept DEF LoopOK
    <2>3. ASSUME NEW u \in Urls, AddExplicit(u) PROVE RedirInv'
        BY <2>2, <2>3, AddExplicitJar DEF RedirInv, AddExplicit
    <2>4. ASSUME NEW c \in jar, Delete(c) PROVE RedirInv'
        BY <2>2, <2>4, DeleteJar DEF RedirInv, Delete
    <2>5. CASE Clear
        BY <2>2, <2>5 DEF RedirInv, Clear, JarOK
    <2>6. CASE Save
        BY <2>2, <2>6, SaveFile DEF RedirInv, Save, JarOK
    <2>7. CASE Load
        BY <2>2, <2>7, LoadJar DEF RedirInv, Load
    <2> QED
        BY <1>8, <2>3, <2>4, <2>5, <2>6, <2>7 DEF UseOfJar
<1>9. CASE Clock
    <2>1. UNCHANGED << jar, explicit, file, pc, loop, wire >> /\ now' = now + 1
        BY <1>9 DEF Clock, Tick
    <2>2. now' \in Nat /\ JarOK' /\ \A c \in file' : FiledOK(c)
        BY <2>1 DEF RedirInv, JarOK
    <2>3. LoopOK'
        BY <2>1 DEF RedirInv, LoopOK, loop, Carries
    <2> QED
        BY <2>1, <2>2, <2>3, WireKept DEF RedirInv
<1>10. CASE UNCHANGED vars
    <2>1. UNCHANGED << jar, explicit, file, now, pc, job, req, wire >>
        BY <1>10 DEF vars, jarVars, loop
    <2>2. now' \in Nat /\ JarOK' /\ \A c \in file' : FiledOK(c)
        BY <2>1 DEF RedirInv, JarOK
    <2>3. LoopOK'
        BY <2>1 DEF RedirInv, LoopOK, Carries
    <2> QED
        BY <2>1, <2>2, <2>3, WireKept DEF RedirInv
<1> QED
    BY <1>1, <1>2, <1>3, <1>4, <1>5, <1>6, <1>7, <1>8, <1>9, <1>10 DEF Next, Response

LEMMA AlwaysRedirInv == Spec => []RedirInv
BY InitInv, NextInv, PTL DEF Spec

\* Along any chain of redirects and challenges, with any jar: the caller's own
\* headers, Basic credentials and those of a URL go to the origin they are for
\* (redirect_request), cookies to the hosts and under the paths their setter may
\* speak for (parse_set_cookie, matches_request).  Digest is not among them.
THEOREM SecretsReachNoStranger == Spec => []SecretsStayHome
<1>1. RedirInv => SecretsStayHome
    BY DEF RedirInv
<1> QED
    BY <1>1, AlwaysRedirInv, PTL

-----------------------------------------------------------------------------
(* What one step may do to the jar and to its file. *)

\* Two cookies that are sent with one request have domains of which one is
\* within the other.
LEMMA DomainsNest ==
    ASSUME NEW c, Scoped(c), NEW x, Scoped(x), NEW u, IsUrl(u),
           MatchesRequest(c, u), MatchesRequest(x, u)
    PROVE DomainMatch(x.domain, c.domain, FALSE) \/ DomainMatch(c.domain, x.domain, FALSE)
<1>1. /\ IsSeq(c.domain) /\ IsSeq(x.domain) /\ IsSeq(u.host)
      /\ DomainMatch(u.host, c.domain, c.hostOnly) /\ DomainMatch(u.host, x.domain, x.hostOnly)
    BY DEF Scoped, IsCookie, IsUrl, MatchesRequest
<1>2. CASE u.host = c.domain \/ u.host = x.domain
    BY <1>1, <1>2 DEF DomainMatch
<1>3. CASE u.host # c.domain /\ u.host # x.domain
    <2>1. /\ ~c.hostOnly /\ ~x.hostOnly
          /\ IsPrefix(c.domain, u.host) /\ IsPrefix(x.domain, u.host)
        BY <1>1, <1>3 DEF DomainMatch
    <2>2. c.domain \notin IpHosts /\ x.domain \notin IpHosts
        BY <2>1 DEF Scoped
    <2>3. Len(c.domain) \in Nat /\ Len(x.domain) \in Nat
        BY <1>1, SeqFacts
    <2>4. CASE Len(c.domain) <= Len(x.domain)
        BY <1>1, <2>1, <2>2, <2>4, PrefixesNest DEF DomainMatch
    <2>5. CASE Len(x.domain) <= Len(c.domain)
        BY <1>1, <2>1, <2>2, <2>5, PrefixesNest DEF DomainMatch
    <2>6. Len(c.domain) <= Len(x.domain) \/ Len(x.domain) <= Len(c.domain)
        BY <2>3
    <2> QED
        BY <2>4, <2>5, <2>6
<1> QED
    BY <1>2, <1>3

LEMMA IngestSecure ==
    ASSUME RedirInv, NEW ls, ls \subseteq Lines, NEW url, IsUrl(url),
           ~IsSecureContext(url), Ingest(ls, url), NEW x \in jar, x.secure
    PROVE /\ x \in jar'
          /\ \A c \in jar' \ jar, u \in Urls :
                c.name = x.name /\ MatchesRequest(c, u) /\ MatchesRequest(x, u)
                   => Len(c.path) < Len(x.path)
<1>1. CASE UNCHANGED << jar, explicit >>
    BY <1>1
<1>2. CASE ~UNCHANGED << jar, explicit >>
    <2>1. PICK line \in ls : \E k \in ParseSetCookie(line, url) :
              /\ ~ShadowsSecureCookie(k)
              /\ jar' = RemoveMatching(k).jar \cup {y \in {k} : ~Expired(y)}
        BY <1>2 DEF Ingest
    <2>2. PICK k \in ParseSetCookie(line, url) :
              /\ ~ShadowsSecureCookie(k)
              /\ jar' = RemoveMatching(k).jar \cup {y \in {k} : ~Expired(y)}
        BY <2>1
    <2>3. jar' = {y \in jar : Key(y) # Key(k)} \cup {y \in {k} : ~Expired(y)}
        BY <2>2 DEF RemoveMatching
    <2>4. Scoped(k) /\ Scoped(x) /\ IsSeq(x.path) /\ IsSeq(k.path)
        BY <2>2, ParsedScoped DEF RedirInv, JarOK, Scoped, IsCookie
    <2>5. ASSUME x.name = k.name,
                 DomainMatch(x.domain, k.domain, FALSE) \/ DomainMatch(k.domain, x.domain, FALSE)
          PROVE ~IsPrefix(x.path, k.path)
        BY <2>2, <2>5 DEF ShadowsSecureCookie, PathMatch
    <2>6. Key(x) # Key(k)
        <3>1. SUFFICES ASSUME Key(x) = Key(k) PROVE FALSE
            OBVIOUS
        <3>2. x.name = k.name /\ x.domain = k.domain /\ x.path = k.path
            BY <3>1 DEF Key
        <3> QED
            BY <2>4, <2>5, <3>2, PrefixSelf DEF DomainMatch
    <2>7. ASSUME NEW u \in Urls, k.name = x.name, MatchesRequest(k, u), MatchesRequest(x, u)
          PROVE Len(k.path) < Len(x.path)
        <3>1. IsUrl(u) /\ IsSeq(u.path)
            BY RedirectAssumption DEF IsUrl
        <3>2. ~IsPrefix(x.path, k.path)
            BY <2>4, <2>5, <2>7, <3>1, DomainsNest
        <3>3. IsPrefix(x.path, u.path) /\ IsPrefix(k.path, u.path)
            BY <2>7 DEF MatchesRequest, PathMatch
        <3>4. Len(x.path) \in Nat /\ Len(k.path) \in Nat
            BY <2>4, SeqFacts
        <3>5. ~(Len(x.path) <= Len(k.path))
            BY <2>4, <3>1, <3>2, <3>3, PrefixesNest
        <3> QED
            BY <3>4, <3>5
    <2> QED
        BY <2>3, <2>6, <2>7
<1> QED
    BY <1>1, <1>2

\* Only a response and the caller change the jar.
LEMMA StepSecure ==
    ASSUME RedirInv, [Next]_vars PROVE SecureLeftAlone
<1>1. SUFFICES ASSUME pc = "wait", ~IsSecureContext(req.url), NEW x \in jar, x.secure
               PROVE /\ x \in jar'
                     /\ \A c \in jar' \ jar, u \in Urls :
                           c.name = x.name /\ MatchesRequest(c, u) /\ MatchesRequest(x, u)
                              => Len(c.path) < Len(x.path)
    BY DEF SecureLeftAlone
<1>2. CASE UNCHANGED jar
    BY <1>2
<1>3. CASE \E ls \in LineSets : TakeIn(ls)
    <2>1. PICK ls \in LineSets : TakeIn(ls)
        BY <1>3
    <2>2. ls \subseteq Lines /\ IsUrl(req.url)
        BY <1>1 DEF LineSets, RedirInv, LoopOK
    <2>3. UNCHANGED jar \/ Ingest(ls, req.url)
        BY <2>1 DEF TakeIn
    <2> QED
        BY <1>1, <1>2, <2>2, <2>3, IngestSecure
<1>4. CASE Response
    BY <1>3, <1>4 DEF Response, Challenged, Redirected, Answered
<1>5. ASSUME ~Response PROVE UNCHANGED jar
    <2>1. ASSUME NEW j \in Jobs, Start(j) PROVE FALSE
        BY <1>1, <2>1 DEF Start
    <2>2. ~GiveUp /\ ~Send /\ ~UseOfJar
        BY <1>1 DEF GiveUp, Send, UseOfJar
    <2>3. CASE SendFails
        BY <2>3 DEF SendFails, jarVars
    <2>4. CASE Clock
        BY <2>4 DEF Clock, Tick
    <2>5. CASE UNCHANGED vars
        BY <2>5 DEF vars, jarVars
    <2> QED
        BY <1>5, <2>1, <2>2, <2>3, <2>4, <2>5 DEF Next
<1> QED
    BY <1>2, <1>4, <1>5

\* No step of any run lets a response from an insecure context remove, replace
\* or shadow a Secure cookie (shadows_secure_cookie).
THEOREM NoSecureCookieShadowed == Spec => SecureCookiesKept
<1>1. RedirInv /\ [Next]_vars => [SecureLeftAlone]_vars
    BY StepSecure
<1> QED
    BY <1>1, AlwaysRedirInv, PTL DEF Spec, SecureCookiesKept

=============================================================================
