-------------------------------- MODULE Ldap --------------------------------
(***************************************************************************)
(* LDAP: bind, one search, unbind.  With it the search filter's parser,    *)
(* the wildcard split, and the BER lengths and integers both sides encode. *)
(***************************************************************************)
EXTENDS Dialogue

CONSTANTS FilterTokens,     \* bound: tokens of a filter
          PatternBytes,     \* bound: bytes of a filter value
          MaxFilterDepth,   \* MAX_FILTER_DEPTH
          MaxEntries        \* bound: entries of a result

-----------------------------------------------------------------------------
(* Filters: "a" stands for everything parse_simple reads. *)

Tokens == {"(", ")", "&", "!", "a"}
TokenStrings == UNION {[1..n -> Tokens] : n \in 0..FilterTokens}

\* parse returns the position behind the filter at pos, or 0 for an error: f[p, deep] for a
\* filter, and its list (one or more filters) through the same table.
Ends(s) ==
    LET Tok(p) == IF p <= Len(s) THEN s[p] ELSE "end"
        f[p \in 1..(Len(s) + 1), deep \in 0..(MaxFilterDepth + 1), kind \in {"parse", "list"}] ==
            IF kind = "parse"
            THEN IF deep > MaxFilterDepth \/ Tok(p) # "(" THEN 0
                 ELSE LET body == CASE Tok(p + 1) = "&" -> f[p + 2, deep + 1, "list"]
                                    [] Tok(p + 1) = "!" -> f[p + 2, deep + 1, "parse"]
                                    [] Tok(p + 1) = "a" -> p + 2
                                    [] OTHER -> 0
                      IN  IF body # 0 /\ Tok(body) = ")" THEN body + 1 ELSE 0
            ELSE LET first == f[p, deep, "parse"]
                 IN  IF first = 0 \/ Tok(first) # "(" THEN first ELSE f[first, deep, "list"]
    IN  f

parse_filter(s) == s # <<>> /\ Ends(s)[1, 0, "parse"] = Len(s) + 1

\* The grammar itself, by nesting depth.
RECURSIVE Filters(_)
Filters(n) ==
    LET in == IF n = 0 THEN {} ELSE Filters(n - 1)
    IN  {<<"(", "a", ")">>} \cup {<<"(", "!">> \o f \o <<")">> : f \in in}
        \cup {<<"(", "&">> \o f \o <<")">> : f \in in}
        \cup {<<"(", "&">> \o f \o g \o <<")">> : f, g \in in}

-----------------------------------------------------------------------------
(* The value of (attr=value), split at each asterisk. *)

Patterns == UNION {[1..n -> {"a", "b", "*"}] : n \in 0..PatternBytes}
Subjects == UNION {[1..n -> {"a", "b"}] : n \in 0..PatternBytes}

Stars(v) == Cardinality({k \in 1..Len(v) : v[k] = "*"})
Segment(v, i) ==   \* the i-th segment, from 0
    SelectSeq([k \in 1..Len(v) |-> IF v[k] # "*" /\ Stars(SubSeq(v, 1, k)) = i THEN v[k] ELSE "*"],
              LAMBDA b : b # "*")

parse_simple(v) ==
    LET last == Stars(v)
        Some(i) == IF Segment(v, i) = <<>> THEN <<>> ELSE <<Segment(v, i)>>
    IN  CASE v = <<"*">> -> [kind |-> "Present"]
          [] last > 0    -> [kind |-> "Substrings", initial |-> Segment(v, 0), final |-> Segment(v, last),
                             any |-> FlattenSeq([i \in 1..(last - 1) |-> Some(i)])]
          [] OTHER       -> [kind |-> "EqualityMatch", value |-> v]

\* What RFC 4511 makes of each form, and what the asterisks were meant to say.
RECURSIVE InOrder(_, _)
InOrder(any, s) ==
    \/ any = <<>>
    \/ \E k \in 0..(Len(s) - Len(any[1])) :
         /\ SubSeq(s, k + 1, k + Len(any[1])) = any[1]
         /\ InOrder(Tail(any), SubSeq(s, k + Len(any[1]) + 1, Len(s)))
Matches(f, s) ==
    CASE f.kind = "Present" -> TRUE
      [] f.kind = "EqualityMatch" -> s = f.value
      [] OTHER -> /\ Len(s) >= Len(f.initial) + Len(f.final)
                  /\ IsPrefix(f.initial, s) /\ IsSuffix(f.final, s)
                  /\ InOrder(f.any, SubSeq(s, Len(f.initial) + 1, Len(s) - Len(f.final)))
RECURSIVE Glob(_, _)
Glob(v, s) ==
    IF v = <<>> THEN s = <<>>
    ELSE IF v[1] = "*" THEN \E k \in 0..Len(s) : Glob(Tail(v), SubSeq(s, k + 1, Len(s)))
    ELSE s # <<>> /\ s[1] = v[1] /\ Glob(Tail(v), Tail(s))

-----------------------------------------------------------------------------
(* BER *)

Numbers == {0, 1, 127, 128, 255, 256, 32767, 32768, 65535, 65536, 8388607}
Digits(n, k) == [i \in 1..k |-> (n \div 256 ^ (k - i)) % 256]
Value(b) == FoldLeft(LAMBDA v, x : v * 256 + x, 0, b)

encode_length(n) ==
    LET k == CHOOSE k \in 1..4 : n < 256 ^ k /\ (k = 1 \/ n >= 256 ^ (k - 1))
    IN  IF n < 128 THEN <<n>> ELSE <<128 + k>> \o Digits(n, k)
read_length(b) == IF b[1] < 128 THEN b[1] ELSE Value(SubSeq(b, 2, b[1] - 127))

\* Redundant leading bytes go as long as the next one keeps the sign.
write_int_tlv(v) ==
    LET b == IF v >= 0 THEN Digits(v, 4) ELSE [i \in 1..4 |-> 255 - Digits(-v - 1, 4)[i]]
        Skip(k) == \A i \in 1..k : \/ b[i] = 0 /\ b[i + 1] < 128
                                   \/ b[i] = 255 /\ b[i + 1] >= 128
    IN  SubSeq(b, Max({k \in 0..3 : Skip(k)}) + 1, 4)
decode_integer_i64(b) == Value(b) - (IF b[1] >= 128 THEN 256 ^ Len(b) ELSE 0)

Init ==
    \E implicit, login \in BOOLEAN, filter \in TokenStrings \cup Filters(MaxFilterDepth + 1), value \in Patterns :
        /\ value # <<>> => filter = <<"(", "a", ")">> /\ ~login
        /\ filter # <<"(", "a", ")">> => ~login /\ ~implicit
        /\ d = Opened("ldap", [implicit |-> implicit, required |-> FALSE, login |-> login],
                      [filter |-> filter, value |-> value, parsed |-> FALSE, entries |-> 0])

\* An anonymous bind is a bind too.  The response's message id is not looked at.
Bind ==
    /\ At("ldap", "greeting")
    /\ \E op \in {"BindResponse 0", "BindResponse refused", "other"} :
         d' = Expect(IF d.opt.login THEN Said(d, "login") ELSE d, op = "BindResponse 0", "search")

build_search_request ==
    /\ At("ldap", "search")
    /\ d' = IF parse_filter(d.x.filter) THEN Then([d EXCEPT !.x.parsed = TRUE], "results") ELSE Fail(d)

\* Entries are kept, references and other message ids passed over; a result the server's
\* own size limit cut short still counts.
Result ==
    /\ At("ldap", "results")
    /\ \/ d.x.entries < MaxEntries /\ d' = [d EXCEPT !.x.entries = @ + 1]
       \/ \E op \in {"another message id", "SearchResultReference"} : d' = d
       \/ \E op \in {"Done 0", "Done sizeLimitExceeded", "Done refused", "other"} :
            d' = Expect(d, op \in {"Done 0", "Done sizeLimitExceeded"}, "quit")

\* Unbind is best effort and is not answered.
Next == Bind \/ build_search_request \/ Result

\* The parser takes exactly the grammar's filters down to its depth; an asterisk pattern,
\* once split, matches what it matched before; a length or an integer reads back as written.
FilterIntact ==
    d.proto = "ldap" =>
        /\ parse_filter(d.x.filter) = (d.x.filter \in Filters(MaxFilterDepth))
        /\ d.pc = "results" =>
             \A s \in Subjects : Matches(parse_simple(d.x.value), s) = Glob(d.x.value, s)
        /\ d.pc = "greeting" /\ d.x.value = <<>> /\ d.opt.login =>
             \A n \in Numbers : /\ read_length(encode_length(n)) = n
                                /\ decode_integer_i64(write_int_tlv(n)) = n
                                /\ decode_integer_i64(write_int_tlv(-n - 1)) = -n - 1
=============================================================================
