----------------------------- MODULE CookieJar -----------------------------
(***************************************************************************)
(* The cookie jar of src/cookie.rs: parse_set_cookie, add_set_cookie,      *)
(* matches_request, the cookies given with -b (add_explicit) and what      *)
(* save_netscape and load_netscape keep.                                   *)
(*                                                                         *)
(* A host is the sequence of its labels from the right, a path the         *)
(* sequence of its segments, so that both matching rules are IsPrefix.     *)
(* A Set-Cookie line is a record; an optional attribute is the set of its  *)
(* values, empty or a singleton.  Dates are small numbers; names differ    *)
(* only by their prefix (__Host-, __Secure- or none).  The value of a      *)
(* cookie is `by`, the URL whose response set it; NoUrl stands for -b and  *)
(* FileUrl for a jar file written by hand.                                 *)
(* Left out: control characters, a trailing slash of a path, SameSite,     *)
(* HttpOnly and the partition key, which no decision here depends on.      *)
(***************************************************************************)
EXTENDS Integers, Sequences, SequencesExt

CONSTANTS
    PublicSuffixes,      \* domains that psl2 calls public suffixes
    IpHosts,       \* hosts that are IP literals
    Loopbacks,     \* hosts that count as a secure context
    Files,         \* what the jar file may hold at first
    MaxNow         \* bound on the clock

Session == MaxNow + 2       \* expires: None; any date the clock reaches is below

NoUrl == [scheme |-> "none", host |-> << >>, port |-> 0, path |-> << >>, info |-> "none"]
FileUrl == [NoUrl EXCEPT !.scheme = "file"]

ASSUME CookieJarAssumption == MaxNow \in Nat

VARIABLES
    jar,        \* the cookies
    explicit,   \* keys of the cookies given with -b
    file,       \* the cookies in the jar file
    now

jarVars == << jar, explicit, file, now >>

JarInit ==
    /\ jar = {} /\ explicit = {}
    /\ file \in Files
    /\ now = 0

-----------------------------------------------------------------------------
(* Matching. *)

IsSecureContext(url) == url.scheme = "https" \/ url.host \in Loopbacks

DomainMatch(host, domain, hostOnly) ==
    host = domain \/ (~hostOnly /\ host \notin IpHosts /\ IsPrefix(domain, host))

PathMatch(path, cookiePath) == IsPrefix(cookiePath, path)

DefaultPath(path) == IF path = << >> THEN << >> ELSE Front(path)

Expired(c) == c.expires <= now

MatchesRequest(c, url) ==
    /\ ~Expired(c)
    /\ c.secure => IsSecureContext(url)
    /\ DomainMatch(url.host, c.domain, c.hostOnly)
    /\ PathMatch(url.path, c.path)

Key(c) == << c.name, c.domain, c.path >>

-----------------------------------------------------------------------------
(* Set-Cookie. *)

\* The Domain attribute that is looked at: on an address none is.
Domains(line, url) == IF url.host \in IpHosts THEN {} ELSE line.domain

DomainAccepted(line, url) ==
    \A d \in Domains(line, url) :
        IF d \in PublicSuffixes THEN d = url.host ELSE DomainMatch(url.host, d, FALSE)

PrefixRules(line, path) ==
    /\ line.name \in {"__Secure-", "__Host-"} => line.secure
    /\ line.name = "__Host-" => line.domain = {} /\ path = << >>

\* parse_set_cookie: the cookie, as a set of at most one.
ParseSetCookie(line, url) ==
    LET wide == {d \in Domains(line, url) : d # url.host \/ d \notin PublicSuffixes}
    IN  {c \in [name : {line.name}, secure : {line.secure}, by : {url},
                domain : IF wide = {} THEN {url.host} ELSE wide, hostOnly : {wide = {}},
                path : IF line.path = {} THEN {DefaultPath(url.path)} ELSE line.path,
                expires : IF line.age = {} THEN {Session}
                          ELSE {IF a = 0 THEN 0 ELSE now + a : a \in line.age}] :
            /\ DomainAccepted(line, url)
            /\ c.secure => IsSecureContext(url)
            /\ PrefixRules(line, c.path)}

\* Mutant: a cookie of a narrower domain is not compared.
ShadowsSecureCookieNarrow(c) ==
    \E x \in jar :
        /\ x.secure /\ x.name = c.name
        /\ DomainMatch(x.domain, c.domain, FALSE)
        /\ PathMatch(c.path, x.path)

\* shadows_secure_cookie
ShadowsSecureCookie(c) ==
    \E x \in jar :
        /\ x.secure /\ x.name = c.name
        /\ \/ DomainMatch(x.domain, c.domain, FALSE)
           \/ DomainMatch(c.domain, x.domain, FALSE)
        /\ PathMatch(c.path, x.path)

RemoveMatching(c) ==
    [jar |-> {x \in jar : Key(x) # Key(c)}, explicit |-> explicit \ {Key(c)}]

\* add_set_cookie for the lines (none or one) of a response from url.
Ingest(lines, url) ==
    LET parsed == UNION {ParseSetCookie(l, url) : l \in lines}
        taken  == {c \in parsed : IsSecureContext(url) \/ ~ShadowsSecureCookie(c)}
    IN  \/ /\ taken = {}
           /\ UNCHANGED << jar, explicit >>
        \/ \E c \in taken :
             /\ jar' = RemoveMatching(c).jar \cup {x \in {c} : ~Expired(x)}
             /\ explicit' = RemoveMatching(c).explicit

-----------------------------------------------------------------------------
(* The other operations on a jar. *)

\* purge_expired, then the cookies of the Cookie header.
Purged == {c \in jar : ~Expired(c)}

CookieHeader(url) == {c \in Purged : MatchesRequest(c, url)}

\* add_explicit: -b name=value, for the host about to be asked.
AddExplicit(url) ==
    LET c == [name |-> "sid", domain |-> url.host, hostOnly |-> TRUE, path |-> << >>,
              secure |-> FALSE, expires |-> Session, by |-> NoUrl]
    IN  /\ jar' = RemoveMatching(c).jar \cup {c}
        /\ explicit' = RemoveMatching(c).explicit \cup {Key(c)}
        /\ UNCHANGED << file, now >>

\* save_netscape: all but the explicit ones, session and expired cookies too.  A
\* save that fails or is cut short before the rename leaves the file as it was.
Save ==
    /\ file' = {c \in jar : Key(c) \notin explicit}
    /\ UNCHANGED << jar, explicit, now >>

\* A new process reads the file: load_netscape, with the guards of
\* parse_netscape_line for what a hand-written file may hold.
Load ==
    /\ jar' = {[c EXCEPT !.hostOnly = @ \/ c.domain \in IpHosts] :
                  c \in {x \in file : \/ x.hostOnly
                                      \/ x.domain \in IpHosts
                                      \/ x.domain \notin PublicSuffixes}}
    /\ explicit' = {}
    /\ UNCHANGED << file, now >>

\* remove, of one cookie, and clear.
Delete(c) ==
    /\ jar' = RemoveMatching(c).jar /\ explicit' = RemoveMatching(c).explicit
    /\ UNCHANGED << file, now >>

Clear ==
    /\ jar' = {} /\ explicit' = {}
    /\ UNCHANGED << file, now >>

Tick ==
    /\ now < MaxNow
    /\ now' = now + 1
    /\ UNCHANGED << jar, explicit, file >>

=============================================================================
