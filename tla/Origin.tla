------------------------------- MODULE Origin -------------------------------
(***************************************************************************)
(* The HTTP server a download talks to, as far as src/download.rs can tell *)
(* its answers apart.  A resource is one version of what a URL names; the  *)
(* URL moves on to later versions at any time.  Every version has a strong *)
(* entity tag of its own, which is what the validators capture.            *)
(*                                                                         *)
(* Faults selects what else the server may do that RFC 9110 allows or      *)
(* proxies are known for.                                                  *)
(***************************************************************************)
EXTENDS Integers

CONSTANTS Resources,    \* versions, numbered from 1 (0 stands for "no tag")
          UrlOf,        \* [Resources -> URLs], URLs numbered from 1
          SizeOf,       \* [Resources -> sizes]
          Faults        \* subset of FaultKinds

\* ignore: 200 to a ranged request; short, long: a 206 that ends before or after
\* what was asked for; misplaced: a 206 that starts elsewhere or has no total;
\* nolength: a 200 without Content-Length.
FaultKinds == {"ignore", "short", "long", "misplaced", "nolength"}

ASSUME OriginAssumption ==
    /\ Resources \subseteq Nat \ {0}
    /\ UrlOf \in [Resources -> Nat \ {0}]
    /\ SizeOf \in [Resources -> Nat]
    /\ Faults \subseteq FaultKinds

Urls == {UrlOf[r] : r \in Resources}

Unknown == -1           \* Option::None for a length

VARIABLE cur            \* the version each URL names now

\* Any version may be the one a URL names when the first process starts.
OriginInit ==
    /\ cur \in [Urls -> Resources]
    /\ \A u \in Urls : UrlOf[cur[u]] = u

\* The resource changes upstream; an old version never comes back.
OriginChange(u) ==
    \E r \in Resources :
        /\ UrlOf[r] = u
        /\ r > cur[u]
        /\ cur' = [cur EXCEPT ![u] = r]

Reply(st, r, start, end, total, ranges) ==
    [st |-> st, res |-> r, start |-> start, end |-> end, total |-> total,
     ranges |-> ranges]

NoReply == Reply("none", 0, 0, -1, Unknown, FALSE)

\* No body worth reading: a transport error is_transient retries ("net") or
\* does not ("net_fatal"), an error status.
Errors == {Reply(s, 0, 0, -1, Unknown, FALSE) : s \in {"net", "net_fatal", "4xx", "5xx"}}

\* 200 with the whole body; "ranges" is Accept-Ranges: bytes.
FullReplies(r) ==
    {Reply("200", r, 0, SizeOf[r] - 1, t, a) :
        t \in {SizeOf[r]} \cup (IF "nolength" \in Faults THEN {Unknown} ELSE {}),
        a \in BOOLEAN}

\* 206 for bytes from..upto (upto Unknown: to the end), or 416.
RangeReplies(r, from, upto) ==
    LET last == IF upto # Unknown /\ upto < SizeOf[r] THEN upto ELSE SizeOf[r] - 1
    IN  IF from >= SizeOf[r]
        THEN {Reply("416", r, 0, -1, t, FALSE) : t \in {SizeOf[r], Unknown}}
        ELSE {Reply("206", r, from, last, SizeOf[r], FALSE)}
             \cup (IF "short" \in Faults
                   THEN {Reply("206", r, from, e, SizeOf[r], FALSE) : e \in from .. last}
                   ELSE {})
             \cup (IF "long" \in Faults
                   THEN {Reply("206", r, from, SizeOf[r] - 1, SizeOf[r], FALSE)}
                   ELSE {})
             \cup (IF "misplaced" \in Faults
                   THEN {Reply("206", r, s, last, t, FALSE) :
                            s \in 0 .. last, t \in {SizeOf[r], Unknown}}
                   ELSE {})

\* The answers to a GET of u without a Range header.
PlainReplies(u) == Errors \cup FullReplies(cur[u])

\* The answers to a ranged GET.  If-Range (tag # 0) that no longer matches
\* makes the server send the whole body.
RangedReplies(u, from, upto, tag) ==
    Errors \cup
    (IF tag # 0 /\ tag # cur[u]
     THEN FullReplies(cur[u])
     ELSE RangeReplies(cur[u], from, upto)
          \cup (IF "ignore" \in Faults THEN FullReplies(cur[u]) ELSE {}))

=============================================================================
