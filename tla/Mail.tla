-------------------------------- MODULE Mail --------------------------------
(***************************************************************************)
(* The mail clients: SMTP submission, POP3 and IMAP retrieval.             *)
(***************************************************************************)
EXTENDS Dialogue

CONSTANT MailBytes   \* bound: length of the messages enumerated

-----------------------------------------------------------------------------
(***************************************************************************)
(* SMTP submission: EHLO, opportunistic STARTTLS, AUTH when advertised,    *)
(* the envelope, the dot-stuffed message, and the final 250.               *)
(***************************************************************************)
Mechanisms == {"none", "PLAIN", "LOGIN", "other"}   \* the AUTH capability

SmtpInit ==
    \E opt \in Options, rcpts \in 1..2 :
        d = Opened("smtp", opt, [caps |-> [tls |-> FALSE, auth |-> "none"], secure |-> FALSE,
                                 rcpts |-> rcpts, body |-> <<>>, wire |-> <<>>])

SmtpGreeting == At("smtp", "greeting") /\ \E c220 \in BOOLEAN : d' = Expect(d, c220, "ehlo")

\* HELO is the fallback, and advertises nothing.
ehlo ==
    /\ At("smtp", "ehlo")
    /\ \E c250 \in BOOLEAN, helo \in BOOLEAN, caps \in [tls : BOOLEAN, auth : Mechanisms] :
         /\ ~c250 => caps = [tls |-> FALSE, auth |-> "none"]
         /\ d' = Expect([d EXCEPT !.x.caps = caps, !.x.secure = d.tls], c250 \/ helo,
                        IF ~d.tls /\ caps.tls THEN "starttls" ELSE "policy")

\* After the handshake the capabilities are asked for again.
SmtpStartTls ==
    /\ At("smtp", "starttls")
    /\ \E c220, pipelined \in BOOLEAN :
         d' = IF c220 THEN Upgrade(d, pipelined, "ehlo") ELSE Fail(d)

require_tls_ok == ~(d.opt.required /\ ~d.tls)

SmtpPolicy_Lax ==
    /\ At("smtp", "policy")
    /\ d' = Then(d, IF d.opt.login /\ d.x.caps.auth # "none" THEN "auth" ELSE "mail")

\* Refuse to go on in the clear if TLS is required; smtp_authenticate only if AUTH is offered.
SmtpPolicy ==
    /\ At("smtp", "policy")
    /\ d' = IF ~require_tls_ok THEN Fail(d)
            ELSE Then(d, IF d.opt.login /\ d.x.caps.auth # "none" THEN "auth" ELSE "mail")

\* PLAIN sends one line; LOGIN sends name and password, each after a 334.
smtp_authenticate ==
    /\ At("smtp", "auth")
    /\ LET e == [d EXCEPT !.tainted = IF d.tls /\ ~d.x.secure THEN @ \cup {"capability"} ELSE @]
       IN  IF d.x.caps.auth = "other" THEN d' = Fail(e)
           ELSE \E prompts \in 0..2, c235 \in BOOLEAN :
                  LET sent == d.x.caps.auth = "PLAIN" \/ prompts > 0
                      done == c235 /\ (d.x.caps.auth = "PLAIN" \/ prompts = 2)
                  IN  /\ d.x.caps.auth = "PLAIN" => prompts = 0
                      /\ d' = Expect(IF sent THEN Said(e, "login") ELSE e, done, "mail")

MailFrom == At("smtp", "mail") /\ \E c250 \in BOOLEAN : d' = Expect(Said(d, "data"), c250, "rcpt")

\* Every recipient must be taken (250 or 251).
RcptTo ==
    /\ At("smtp", "rcpt")
    /\ \E c \in {"250", "251", "other"} :
         d' = Expect([d EXCEPT !.x.rcpts = @ - 1], c # "other",
                     IF d.x.rcpts = 1 THEN "data" ELSE "rcpt")

Data ==
    /\ At("smtp", "data")
    /\ \E c354 \in BOOLEAN, body \in Messages(MailBytes) :
         LET payload == dot_stuff(body)
         IN  /\ ~c354 => body = <<>>
             /\ d' = Expect(IF c354 THEN [Said(d, "data") EXCEPT !.x.body = body,
                                                 !.x.wire = payload \o end_of_data(payload)]
                            ELSE d, c354, "sent")

EndOfData ==
    /\ At("smtp", "sent")
    /\ \E c250 \in BOOLEAN : d' = Expect(d, c250, "quit")

SmtpNext == \/ SmtpGreeting \/ ehlo \/ SmtpStartTls \/ SmtpPolicy \/ smtp_authenticate \/ MailFrom \/ RcptTo \/ Data
        \/ EndOfData

\* The server sees the end of the message where the message ends and nowhere before, and
\* undoing the stuffing gives the lines of the body back.
SmtpIntact ==
    d.proto = "smtp" /\ d.x.wire # <<>> =>
        LET w == d.x.wire IN
        /\ Terminators(w) = {Len(w) - 2}
        /\ un_dot_stuff(SubSeq(w, 1, Len(w) - 3)) = Lines(d.x.body)

-----------------------------------------------------------------------------
(***************************************************************************)
(* POP3 retrieval: opportunistic STLS, USER and PASS, then LIST or RETR,   *)
(* whose dot-stuffed answer is read up to a lone dot and a cap.            *)
(***************************************************************************)
Pop3Init ==
    \E opt \in Options, action \in {"LIST", "RETR"} :
        /\ opt.login                          \* userinfo is mandatory
        /\ d = Opened("pop3", opt, [action |-> action, body |-> <<>>, out |-> <<>>])

Status == {"+OK", "-ERR"}   \* anything else is an error too

Pop3Greeting ==
    /\ At("pop3", "greeting")
    /\ \E s \in Status : d' = Expect(d, s = "+OK", IF d.tls THEN "user" ELSE "stls")

\* A refusal leaves the connection as it is, unless TLS is required.
try_stls ==
    /\ At("pop3", "stls")
    /\ \E s \in Status, pipelined \in BOOLEAN :
         d' = IF s = "+OK" THEN Upgrade(d, pipelined, "user")
              ELSE IF d.opt.required THEN Fail(d) ELSE Then(d, "user")

User == At("pop3", "user") /\ \E s \in Status : d' = Expect(Said(d, "login"), s = "+OK", "pass")
Pass == At("pop3", "pass") /\ \E s \in Status : d' = Expect(Said(d, "login"), s = "+OK", "action")
Action == At("pop3", "action") /\ \E s \in Status : d' = Expect(d, s = "+OK", "lines")

\* Everything up to the first terminator line; the cap and a missing one are Broken.
read_multiline(wire) == SubSeq(wire, 1, Min(Terminators(wire)) - 1)

Payload ==
    /\ At("pop3", "lines")
    /\ \E body \in {Lines(b) : b \in Messages(MailBytes)} :
         LET wire == dot_stuff(body) \o end_of_data(dot_stuff(body))
             raw  == read_multiline(wire)
         IN  d' = Then([d EXCEPT !.x.body = body,
                            !.x.out = IF d.x.action = "RETR" THEN un_dot_stuff(raw) ELSE raw],
                       "quit")

Pop3Next == Pop3Greeting \/ try_stls \/ User \/ Pass \/ Action \/ Payload

\* A retrieved message is byte for byte the one the server stuffed.
Pop3Intact == d.proto = "pop3" /\ d.x.action = "RETR" => d.x.out = d.x.body

-----------------------------------------------------------------------------
(***************************************************************************)
(* IMAP retrieval: capabilities, opportunistic STARTTLS, one of four ways  *)
(* to log in, SELECT, and one command whose tagged completion must be OK.  *)
(* A reply is what read_response returns: the tagged completion, or the    *)
(* "+" continuation it also stops at.                                      *)
(***************************************************************************)
ImapReplies == {"OK", "NO", "+"}
require_ok(r) == r = "OK"

Auths == {"PLAIN with IR", "PLAIN", "LOGIN", "command", "none"}   \* choose_auth's answer
CapSets == [tls : BOOLEAN, auth : Auths]
NoCaps == [tls |-> FALSE, auth |-> "command"]

Targets == {"list", "search", "uids", "message"}

ImapInit ==
    \E opt \in Options, target \in Targets, pinned \in BOOLEAN :
        d = Opened("imap", opt, [target |-> target, pinned |-> pinned, caps |-> NoCaps,
                                 secure |-> FALSE, preauth |-> FALSE])

\* The greeting may carry the capabilities; if it does not they are asked for.
ImapGreeting ==
    /\ At("imap", "greeting")
    /\ \E g \in {"OK", "PREAUTH", "BYE"}, told \in BOOLEAN, caps \in CapSets :
         /\ ~told => caps = NoCaps
         /\ d' = Expect([d EXCEPT !.x.preauth = g = "PREAUTH", !.x.caps = caps,
                                  !.x.secure = d.tls], g # "BYE",
                        IF told THEN "starttls" ELSE "capability")

request_capability ==
    /\ At("imap", "capability")
    /\ \E r \in ImapReplies, caps \in CapSets :
         d' = Expect([d EXCEPT !.x.caps = caps, !.x.secure = d.tls], require_ok(r), "starttls")

ImapStartTls ==
    /\ At("imap", "starttls")
    /\ IF d.tls \/ ~d.x.caps.tls THEN d' = Then(d, "policy")
       ELSE \E r \in ImapReplies, pipelined \in BOOLEAN :
              d' = IF require_ok(r) THEN Upgrade(d, pipelined, "capability") ELSE Fail(d)

\* A PREAUTH greeting is remembered across STARTTLS, and spares the login after it too.
ImapPolicy ==
    /\ At("imap", "policy")
    /\ LET spared == d.opt.login /\ d.x.preauth
           e == [d EXCEPT !.tainted = IF spared /\ d.tls /\ ~d.opt.implicit THEN @ \cup {"preauth"} ELSE @]
       IN  d' = IF d.opt.required /\ ~d.tls THEN Fail(d)
                ELSE Then(e, IF d.opt.login /\ ~spared THEN "auth" ELSE "select")

\* Each exchange of a SASL login ends early on a tagged reply; the secret goes out only in
\* answer to a continuation (or at once, with an initial response or LOGIN).
imap_authenticate ==
    /\ At("imap", "auth")
    /\ LET e == [d EXCEPT !.tainted = IF d.tls /\ ~d.x.secure THEN @ \cup {"capability"} ELSE @]
           How == d.x.caps.auth
       IN  IF How = "none" THEN d' = Fail(e)
           ELSE \E first, second, last \in ImapReplies :
                  LET now == How \in {"PLAIN with IR", "command"}
                      final == IF now THEN last
                               ELSE IF first # "+" THEN first
                               ELSE IF How = "PLAIN" THEN last
                               ELSE IF second # "+" THEN second ELSE last
                  IN  d' = Expect(IF now \/ first = "+" THEN Said(e, "login") ELSE e,
                                  require_ok(final), "select")

\* A pinned UIDVALIDITY must be the mailbox's; listing needs no mailbox.
select_mailbox ==
    /\ At("imap", "select")
    /\ \E r \in ImapReplies, same \in BOOLEAN :
         d' = IF d.x.target = "list" THEN Then(d, "command")
              ELSE Expect([d EXCEPT !.x.pinned = @ /\ ~same], require_ok(r) /\ (d.x.pinned => same),
                          "command")

\* LIST, SEARCH or FETCH: literals are read whole before the next line is looked at.
ImapCommand ==
    /\ At("imap", "command")
    /\ \E r \in ImapReplies :
         d' = Expect(d, require_ok(r), "quit")

ImapNext == \/ ImapGreeting \/ request_capability \/ ImapStartTls \/ ImapPolicy \/ imap_authenticate \/ select_mailbox
        \/ ImapCommand

=============================================================================
