------------------------------- MODULE Hpack -------------------------------
(***************************************************************************)
(* HPACK (http2.rs): the encoder of one end and the decoder of the other,  *)
(* joined by an ordered wire that also carries the acknowledgements of     *)
(* SETTINGS_HEADER_TABLE_SIZE.  Integers keep their structure with smaller *)
(* digits: a first byte of a few prefix bits after its marker, then digits *)
(* of Digit values each, in a word below WordMax.  Strings are sequences   *)
(* of octets; the Huffman form, which a length prefix announces, is left   *)
(* out.                                                                    *)
(***************************************************************************)
EXTENDS Integers, Sequences, FiniteSetsExt, SequencesExt

CONSTANTS StaticTable,   \* STATIC_TABLE
          FieldLists,    \* the header lists sent
          TableSizes,    \* values of SETTINGS_HEADER_TABLE_SIZE
          OddBlocks,     \* blocks no encoder of ours sends
          Cap,           \* DYN_TABLE_CAP
          MaxList,       \* MAX_DECODED_HEADER_LIST
          Digit, WordMax,
          MaxBlocks      \* bound on blocks and settings sent

VARIABLE hp

NoHpack == [on |-> FALSE]
F(name, value) == [name |-> name, value |-> value]
Overhead == 1            \* the 32 of an entry's size
Prefix == [indexed |-> 3, insert |-> 2, update |-> 2, literal |-> 1, string |-> 3]   \* largest prefix values
Failed(e) == [err |-> e]
AndThen(r, go(_)) == IF r.err # "none" THEN r ELSE go(r)   \* Rust's `?`

-----------------------------------------------------------------------------
(* Integers.  A byte is [m, n]: the marker of a first byte, or "more" or   *)
(* "last" for a digit.                                                     *)

RECURSIVE Digits(_)
Digits(rem) == IF rem >= Digit THEN <<[m |-> "more", n |-> rem % Digit]>> \o Digits(rem \div Digit)
               ELSE <<[m |-> "last", n |-> rem]>>
encode_int(v, marker) ==
    LET max == Prefix[marker] IN
    IF v < max THEN <<[m |-> marker, n |-> v]>> ELSE <<[m |-> marker, n |-> max]>> \o Digits(v - max)

RECURSIVE DecodeDigits(_, _, _, _)
DecodeDigits(buf, i, value, unit) ==
    IF i > Len(buf) THEN Failed("truncated")
    ELSE LET v == value + buf[i].n * unit IN
         CASE v >= WordMax -> Failed("overflow")
           [] v < WordMax /\ buf[i].m # "more" -> [err |-> "none", v |-> v, next |-> i + 1]
           [] OTHER -> IF unit * Digit >= WordMax THEN Failed("overflow") ELSE DecodeDigits(buf, i + 1, v, unit * Digit)
\* The integer whose first byte is buf[i], and the place after it.
decode_int(buf, i, max) ==
    IF i > Len(buf) THEN Failed("empty")
    ELSE IF buf[i].n < max THEN [err |-> "none", v |-> buf[i].n, next |-> i + 1] ELSE DecodeDigits(buf, i + 1, max, 1)

encode_literal_string(s) == encode_int(Len(s), "string") \o [i \in 1..Len(s) |-> [m |-> "octet", n |-> s[i]]]
read_string(buf, i) ==
    LET Octets(len) ==
            IF len.next + len.v - 1 > Len(buf) THEN Failed("truncated")
            ELSE [err |-> "none", s |-> [k \in 1..len.v |-> buf[len.next + k - 1].n], next |-> len.next + len.v]
    IN  AndThen(decode_int(buf, i, Prefix.string), Octets)

-----------------------------------------------------------------------------
(* The dynamic table, newest entry first.                                  *)

entry_size(f) == Len(f.name) + Len(f.value) + Overhead
TableSize(t) == FoldLeft(LAMBDA n, f : n + entry_size(f), 0, t)
evict_to_fit(t, cap, incoming) ==
    SubSeq(t, 1, Max({0} \cup {k \in 0..Len(t) : TableSize(SubSeq(t, 1, k)) + incoming <= cap}))
insert(t, cap, f) ==
    IF entry_size(f) > cap THEN <<>> ELSE <<f>> \o evict_to_fit(t, cap, entry_size(f))
lookup(t, i) ==
    CASE i \in 1..Len(StaticTable) -> [err |-> "none", f |-> StaticTable[i]]
      [] i - Len(StaticTable) \in 1..Len(t) -> [err |-> "none", f |-> t[i - Len(StaticTable)]]
      [] OTHER -> Failed("index")

-----------------------------------------------------------------------------
(* The decoder.                                                            *)

NewDecoder == [t |-> <<>>, cap |-> Cap]
header_octets_ok(f) == \A s \in {f.name, f.value} : 13 \notin Range(s)
ListSize(out) == FoldLeft(LAMBDA n, f : n + entry_size(f), 0, out)

\* A literal: its name by index or in full, then its value.
ReadLiteral(d, buf, i, marker) ==
    LET Name(idx) == IF idx.v = 0 THEN read_string(buf, idx.next)
                     ELSE AndThen(lookup(d.t, idx.v), LAMBDA e : [err |-> "none", s |-> e.f.name, next |-> idx.next])
        Value(name) == AndThen(read_string(buf, name.next),
                               LAMBDA v : [err |-> "none", f |-> F(name.s, v.s), next |-> v.next])
    IN  AndThen(AndThen(decode_int(buf, i, Prefix[marker]), Name), Value)
ReadIndexed(d, buf, i) ==
    LET Entry(idx) == AndThen(lookup(d.t, idx.v), LAMBDA e : [err |-> "none", f |-> e.f, next |-> idx.next])
    IN  AndThen(decode_int(buf, i, Prefix.indexed), Entry)

RECURSIVE DecodeFrom(_, _, _, _)
DecodeFrom(d, buf, i, out) ==
    LET Update(n) ==
            IF n.v > Cap THEN Failed("size update above the limit")
            ELSE DecodeFrom([t |-> evict_to_fit(d.t, n.v, 0), cap |-> n.v], buf, n.next, out)
        Field(r) ==
            IF ~header_octets_ok(r.f) THEN Failed("forbidden octet")
            ELSE IF ListSize(Append(out, r.f)) > MaxList THEN Failed("list too large")
            ELSE DecodeFrom(IF buf[i].m = "insert" THEN [d EXCEPT !.t = insert(@, d.cap, r.f)] ELSE d,
                            buf, r.next, Append(out, r.f))
    IN  IF i > Len(buf) THEN [err |-> "none", d |-> d, out |-> out]
        ELSE CASE buf[i].m = "update" /\ out # <<>> -> Failed("late size update")
               [] buf[i].m = "update" /\ out = <<>> -> AndThen(decode_int(buf, i, Prefix.update), Update)
               [] buf[i].m = "indexed" -> AndThen(ReadIndexed(d, buf, i), Field)
               [] buf[i].m = "insert" -> AndThen(ReadLiteral(d, buf, i, "insert"), Field)
               [] OTHER -> AndThen(ReadLiteral(d, buf, i, "literal"), Field)
decode_block(d, buf) == DecodeFrom(d, buf, 1, <<>>)

-----------------------------------------------------------------------------
(* The encoder.  signal and min are the pending size update and the        *)
(* smallest size since the last one.                                       *)

NewEncoder == [t |-> <<>>, max |-> Cap, signal |-> {}, min |-> {}]

set_peer_max_table_size(e, size) ==
    LET n == IF size < Cap THEN size ELSE Cap IN
    IF n = e.max /\ e.signal = {} THEN e
    ELSE [t |-> evict_to_fit(e.t, n, 0), max |-> n, signal |-> {n},
          min |-> {Min((IF e.min = {} THEN {e.max} ELSE e.min) \cup {n})}]

Found(e, test(_)) == {i \in 1..(Len(StaticTable) + Len(e.t)) : test(lookup(e.t, i).f)}
combined_full_index(e, f) == Found(e, LAMBDA g : g = f)
combined_name_index(e, f) == Found(e, LAMBDA g : g.name = f.name)

\* A shrink and a growth since the last block signal the minimum first.
Signal_FinalOnly(e) == IF e.signal = {} THEN <<>> ELSE encode_int(Max(e.signal), "update")
Signal(e) ==
    IF e.signal = {} THEN <<>>
    ELSE (IF Min(e.min) < Max(e.signal) THEN encode_int(Min(e.min), "update") ELSE <<>>)
         \o encode_int(Max(e.signal), "update")
encode_header(st, f) ==
    LET e == [st.e EXCEPT !.signal = {}, !.min = IF st.e.signal = {} THEN @ ELSE {}]
        full == combined_full_index(e, f)
        name == combined_name_index(e, f) IN
    IF full # {} THEN [e |-> e, out |-> st.out \o Signal(st.e) \o encode_int(Min(full), "indexed")]
    ELSE [e |-> [e EXCEPT !.t = insert(@, e.max, f)],
          out |-> st.out \o Signal(st.e)
                  \o (IF name # {} THEN encode_int(Min(name), "insert")
                      ELSE encode_int(0, "insert") \o encode_literal_string(f.name))
                  \o encode_literal_string(f.value)]

-----------------------------------------------------------------------------
NothingGot == [err |-> "none", want |-> <<>>, out |-> <<>>]
HpackInit ==
    hp = [on |-> TRUE, e |-> NewEncoder, d |-> NewDecoder, wire |-> <<>>, sent |-> 0, got |-> NothingGot,
          limits |-> {}, odd |-> FALSE]

SendBlock(fields) ==
    /\ hp.sent < MaxBlocks
    /\ LET st == FoldLeft(encode_header, [e |-> hp.e, out |-> <<>>], fields) IN
       hp' = [hp EXCEPT !.e = st.e, !.sent = @ + 1,
                        !.wire = Append(@, [kind |-> "block", buf |-> st.out, n |-> 0, fields |-> fields])]
\* The peer's SETTINGS: applied, then acknowledged.
RecvSettings(n) ==
    /\ hp.sent < MaxBlocks
    /\ hp' = [hp EXCEPT !.e = set_peer_max_table_size(@, n), !.sent = @ + 1,
                        !.wire = Append(@, [kind |-> "ack", buf |-> <<>>, n |-> n, fields |-> <<>>])]
\* A block from elsewhere, as the only one.
SendOdd(buf) ==
    /\ hp.sent = 0
    /\ hp' = [hp EXCEPT !.sent = MaxBlocks, !.odd = TRUE,
                        !.wire = <<[kind |-> "block", buf |-> buf, n |-> 0, fields |-> <<>>]>>]

\* The peer holds the acknowledged limits against the next block: a table larger
\* than the least of them must be cut to it first.
Acknowledged ==
    /\ hp.wire # <<>> /\ hp.wire[1].kind = "ack"
    /\ hp' = [hp EXCEPT !.wire = Tail(@), !.limits = @ \cup {hp.wire[1].n}]
Respected(buf) ==
    \/ hp.limits = {} \/ hp.d.cap <= Min(hp.limits)
    \/ /\ buf # <<>> /\ buf[1].m = "update"
       /\ decode_int(buf, 1, Prefix.update).err = "none" /\ decode_int(buf, 1, Prefix.update).v <= Min(hp.limits)
Decoded ==
    /\ hp.wire # <<>> /\ hp.wire[1].kind = "block" /\ hp.got.err = "none"
    /\ LET b == hp.wire[1]
           r == decode_block(hp.d, b.buf) IN
       hp' = [hp EXCEPT !.wire = Tail(@), !.limits = {},
                        !.d = IF r.err = "none" THEN r.d ELSE @,
                        !.got = IF ~Respected(b.buf) THEN [NothingGot EXCEPT !.err = "limit ignored"]
                                ELSE [err |-> r.err, want |-> b.fields, out |-> IF r.err = "none" THEN r.out ELSE <<>>]]

HpackNext ==
    \/ \E fields \in FieldLists : SendBlock(fields)
    \/ \E n \in TableSizes : RecvSettings(n)
    \/ \E buf \in OddBlocks : SendOdd(buf)
    \/ Acknowledged \/ Decoded

\* Every block decodes to the header list it encodes, whatever limits the peer
\* sets in between; both ends hold the same table once no update is pending; no
\* odd block is taken for a header list.
HpackInSync ==
    hp.on =>
        /\ IF hp.odd THEN hp.wire = <<>> => hp.got.err # "none" ELSE hp.got.err = "none" /\ hp.got.out = hp.got.want
        /\ hp.wire = <<>> /\ hp.e.signal = {} /\ ~hp.odd => hp.d.t = hp.e.t /\ hp.d.cap = hp.e.max
        /\ TableSize(hp.d.t) <= hp.d.cap /\ hp.d.cap <= Cap
=============================================================================
