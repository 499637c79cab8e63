------------------------------ MODULE Dialogue ------------------------------
(***************************************************************************)
(* What the command-and-reply clients (FTP, SMTP, POP3, IMAP, LDAP, ...)   *)
(* share: one connection, plaintext or TLS from the start, possibly        *)
(* upgraded in mid-dialogue, a peer that may answer anything at any point, *)
(* and one result.  The whole state of a transfer is the record d; `x` is  *)
(* what a single protocol adds.                                            *)
(***************************************************************************)
EXTENDS Integers, Sequences, FiniteSets, SequencesExt

VARIABLE d

Options == [implicit : BOOLEAN,   \* the scheme is TLS from the first byte
            required : BOOLEAN,   \* cfg.require_tls (--ssl-reqd)
            login    : BOOLEAN]   \* credentials were given

\* `tainted`: what came in before TLS and was acted on after it.  `clear`: what went out in
\* plaintext.
Opened(proto, opt, x) ==
    [proto |-> proto, pc |-> "greeting", opt |-> opt, tls |-> opt.implicit,
     tainted |-> {}, clear |-> {}, result |-> "none", x |-> x]

At(proto, pc) == d.proto = proto /\ d.pc = pc

Said(e, what) == [e EXCEPT !.clear = IF e.tls THEN @ ELSE @ \cup {what}]

Then(e, pc) == [e EXCEPT !.pc = pc]
Fail(e) == [e EXCEPT !.pc = "end", !.result = "err"]
Succeed(e) == [e EXCEPT !.pc = "end", !.result = "ok"]

\* One command and its reply: `good` decides, and the dialogue goes on at `pc` or fails.
Expect(e, good, pc) == IF good THEN Then(e, pc) ELSE Fail(e)

reject_pipelined_plaintext(e, pipelined) == pipelined

\* A go-ahead for TLS: bytes already buffered behind it are refused, else the handshake
\* replaces the transport in place.
Upgrade(e, pipelined, pc) ==
    IF reject_pipelined_plaintext(e, pipelined) THEN Fail(e) ELSE Then([e EXCEPT !.tls = TRUE], pc)

\* The connection breaks, the handshake fails, the idle timeout runs out, or a reply is
\* malformed or over its cap: every read and write propagates it, except in the farewell.
Broken ==
    /\ d.pc # "end"
    /\ d' = IF d.pc = "quit" THEN Succeed(d) ELSE Fail(d)

\* QUIT or LOGOUT: whatever comes back is ignored.
Quit == d.pc = "quit" /\ d' = Succeed(d)
-----------------------------------------------------------------------------
\* The transparency layer of mail: a lone dot ends a message, so SMTP doubles a leading dot
\* and POP3 drops it again.  Bytes are abstracted to the four classes the code tells apart.

Bytes == {"dot", "cr", "lf", "a"}
Messages(n) == UNION {[1..k -> Bytes] : k \in 0..n}
CrLf == <<"cr", "lf">>

\* smtp.rs: double a dot at the start of a line, give every bare LF its CR.
dot_stuff(body) ==
    LET Byte(acc, b) ==
            LET out == IF acc.start /\ b = "dot" THEN Append(acc.out, "dot") ELSE acc.out
                cr  == b = "lf" /\ (out = <<>> \/ out[Len(out)] # "cr")
            IN  [out   |-> (IF cr THEN Append(out, "cr") ELSE out) \o <<b>>,
                 start |-> b = "lf"]
    IN  FoldLeft(Byte, [out |-> <<>>, start |-> TRUE], body).out

end_of_data(payload) ==
    (IF payload = <<>> \/ IsSuffix(CrLf, payload) THEN <<>> ELSE CrLf) \o <<"dot">> \o CrLf

\* pop3.rs: drop the dot at the start of each line.
un_dot_stuff(body) ==
    LET Kept(k) == ~(body[k] = "dot" /\ (k = 1 \/ body[k - 1] = "lf"))
        Put(k) == IF Kept(k) THEN <<body[k]>> ELSE <<>>
    IN  FlattenSeq([k \in 1..Len(body) |-> Put(k)])

\* Where a receiver sees the end of the message: a line that is a lone dot, CRLF-ended or,
\* for pop3.rs's reader, LF-ended.
Terminators(wire) ==
    {k \in 1..Len(wire) :
        /\ wire[k] = "dot" /\ (k = 1 \/ wire[k - 1] = "lf")
        /\ \/ k + 2 <= Len(wire) /\ wire[k + 1] = "cr" /\ wire[k + 2] = "lf"
           \/ k + 1 <= Len(wire) /\ wire[k + 1] = "lf"}

\* What a message means: its lines, each ended by CRLF.
Lines(body) ==
    LET Put(k) == IF body[k] = "lf" /\ (k = 1 \/ body[k - 1] # "cr") THEN CrLf ELSE <<body[k]>>
        text  == FlattenSeq([k \in 1..Len(body) |-> Put(k)])
    IN  IF text = <<>> \/ IsSuffix(CrLf, text) THEN text ELSE text \o CrLf
=============================================================================
