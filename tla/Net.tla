-------------------------------- MODULE Net ---------------------------------
(***************************************************************************)
(* How a transfer reaches its target (src/src/net): which proxy applies, the*)
(* dial over every address, the SOCKS4/4a/5/5h and CONNECT conversations,   *)
(* the stream bounded by the caller's deadline, and SOCKS5's UDP relay.     *)
(*                                                                         *)
(* What the proxy sends is a sequence of tokens, read_exact takes them one  *)
(* at a time, and the target's own first bytes may follow at once.  Every   *)
(* blocking operation takes some of the time its timeout allows.            *)
(***************************************************************************)
EXTENDS Integers, Sequences, SequencesExt

CONSTANTS
    Dials,      \* the configurations: see MCExchange
    Horizon     \* largest time the clock reaches

VARIABLE dial

NoDial == [step |-> "off"]
NoTime == 99    \* no timeout, no deadline
MinOf(a, b) == IF a < b THEN a ELSE b

-----------------------------------------------------------------------------
(***************************************************************************)
(* Which proxy.  A host and a no-proxy entry are sequences of labels, the   *)
(* top-level one last; an address and a block are sequences of bits.        *)
(***************************************************************************)
cidr_contains(net, bits, ip) ==
    Len(net) = Len(ip) /\ bits <= Len(ip) /\ SubSeq(net, 1, bits) = SubSeq(ip, 1, bits)

no_proxy_matches(entries, host) ==
    \E e \in entries :
        \/ e.kind = "any"
        \/ e.kind = "cidr" /\ host.kind = "ip" /\ cidr_contains(e.at, e.bits, host.at)
        \/ e.kind = "name" /\ host.kind = "name" /\ e.at # <<>> /\ IsSuffix(e.at, host.at)

\* The first variable that is set; HTTP_PROXY is never among them.
scheme_proxy_vars(scheme) ==
    IF scheme = "http" THEN <<"http_proxy">> ELSE <<"https_proxy", "HTTPS_PROXY">>
env_any(names, env) ==
    LET set == SelectSeq(names, LAMBDA n : n \in DOMAIN env)
    IN  IF set = <<>> THEN "direct" ELSE env[set[1]]
EnvProxy(c) ==
    env_any(scheme_proxy_vars(c.scheme) \o <<"all_proxy", "ALL_PROXY">>, c.env)

\* The client's proxy, or the one the environment names; neither for a host on
\* the no-proxy list that goes with it.
effective_connector(c) ==
    CASE no_proxy_matches(c.noproxy, c.host) -> "direct"
      [] ~no_proxy_matches(c.noproxy, c.host) /\ c.proxy # "env" -> c.proxy
      [] OTHER -> EnvProxy(c)

RemoteDns(kind) == kind \in {"socks4a", "socks5h", "http", "https"}
udp_proxy(kind) ==
    CASE kind = "direct" -> "Direct"
      [] kind \in {"socks5", "socks5h"} -> "Socks5"
      [] OTHER -> "Unsupported"

-----------------------------------------------------------------------------
NetInit ==
    \E c \in Dials :
        dial = [c |-> c, kind |-> effective_connector(c), step |-> "start", now |-> 0,
                addrs |-> c.addrs, tmo |-> NoTime, in |-> c.script, need |-> 0,
                looked |-> {}, creds |-> FALSE, asked |-> FALSE, out |-> <<>>, relayed |-> <<>>,
                opened |-> NoTime, res |-> "none", by |-> "none"]

Fails(why) == dial' = [dial EXCEPT !.step = "done", !.res = why]
Left == dial.c.deadline - dial.now
ByName == dial.c.host.kind = "name"

\* op_timeout: the timeout, or what is left of the deadline if that is less.
op_timeout(idle) == IF dial.c.deadline = NoTime THEN idle ELSE MinOf(idle, Left)

\* NetConfig::connect gives the dial that timeout; a UDP transport takes none,
\* and its peer is already an address.
Start ==
    /\ dial.step = "start"
    /\ CASE dial.c.udp /\ udp_proxy(dial.kind) = "Unsupported" -> Fails("scheme")
         [] dial.c.udp /\ udp_proxy(dial.kind) = "Direct" ->
              dial' = [dial EXCEPT !.step = "udp", !.by = "direct"]
         [] OTHER -> dial' = [dial EXCEPT !.step = "tcp",
                                          !.tmo = IF dial.c.udp THEN NoTime ELSE op_timeout(dial.c.connect),
                                          !.looked = IF dial.kind = "direct" /\ ByName THEN {"target"} ELSE {}]

\* connect_any: each address in turn, each with the whole timeout.
connect_any ==
    /\ dial.step = "tcp"
    /\ \E dt \in 0..MinOf(dial.tmo, Horizon - dial.now) :
         IF dial.addrs = <<>> THEN dt = 0 /\ Fails("connect")
         ELSE IF Head(dial.addrs)   \* it answers
         THEN dial' = [dial EXCEPT !.now = @ + dt, !.by = IF dial.kind = "direct" THEN "direct" ELSE "proxy",
                                   !.step = IF dial.kind = "direct" THEN "wrap" ELSE "hello"]
         ELSE dial' = [dial EXCEPT !.now = @ + dt, !.addrs = Tail(@)]

Expect(d, step, n) == [d EXCEPT !.step = step, !.need = n]
Refuse(d) == [d EXCEPT !.step = "done", !.res = "refused"]

\* socks4_connect up to the reply: IPv6 cannot be carried, 4a leaves a name to the proxy.
Socks4Hello ==
    /\ dial.step = "hello" /\ dial.kind \in {"socks4", "socks4a"}
    /\ IF dial.c.host.kind = "ip6" THEN Fails("ipv6")
       ELSE dial' = Expect([dial EXCEPT !.looked = IF dial.kind = "socks4" /\ ByName
                                                   THEN @ \cup {"target"} ELSE @], "version", 3)

\* socks5_negotiate: the greeting offers the password method if there is one.
Socks5Hello ==
    /\ dial.step = "hello" /\ dial.kind \in {"socks5", "socks5h"}
    /\ dial' = Expect(dial, "select", 1)

\* http_connect: the CONNECT request, with the credentials.
ConnectHello ==
    /\ dial.step = "hello" /\ dial.kind \in {"http", "https"}
    /\ dial' = Expect([dial EXCEPT !.creds = dial.c.auth], "status", 1)

\* socks5_request: CONNECT to the target, or UDP ASSOCIATE for 0.0.0.0.
socks5_request(d) ==
    Expect([d EXCEPT !.looked = IF d.kind = "socks5" /\ d.c.host.kind = "name" /\ ~d.c.udp
                                THEN @ \cup {"target"} ELSE @], "reply", 1)

Socks4Reply(t, d) ==
    CASE d.step = "version" -> IF t = "vn" THEN Expect(d, "granted", 2) ELSE Refuse(d)
      [] d.step = "granted" -> IF t = "ok" THEN Expect(d, "bound", 1) ELSE Refuse(d)

\* Method selection, and the password conversation when the proxy selects it.
Selected(t, d) ==
    CASE d.step = "select" /\ t = "none" -> socks5_request(d)
      [] d.step = "select" /\ t = "password" /\ d.c.auth ->
           Expect([d EXCEPT !.creds = TRUE, !.asked = TRUE], "password", 1)
      [] d.step = "password" /\ t = "ok" -> socks5_request(d)
      [] OTHER -> Refuse(d)

\* The reply's address has the length its type says; BND.PORT follows it.
Socks5Reply(t, d) ==
    CASE d.step = "reply" /\ t = "ok" -> Expect(d, "atyp", 1)
      [] d.step = "atyp" /\ t = "v4" -> Expect(d, "bound", 1 + 1)
      [] d.step = "atyp" /\ t = "v6" -> Expect(d, "bound", 3 + 1)
      [] d.step = "atyp" /\ t = "domain" -> Expect(d, "length", 1)
      [] d.step = "length" -> Expect(d, "bound", (IF t = "two" THEN 2 ELSE 0) + 1)
      [] OTHER -> Refuse(d)

\* http_connect's reader: line by line to the blank one, then the status counts.
ConnectReply(t, d) ==
    CASE d.step = "status" /\ t = "blank" -> Refuse(d)
      [] d.step = "status" /\ t # "blank" -> Expect(d, IF t = "200" THEN "headers" ELSE "refusal", 1)
      [] d.step = "headers" -> IF t = "blank" THEN Expect(d, "wrap", 0) ELSE d
      [] d.step = "refusal" -> IF t = "blank" THEN Refuse(d) ELSE d

\* The rest of a fixed-length reply.
Bound(d) ==
    IF d.need > 1 THEN Expect(d, "bound", d.need - 1)
    ELSE Expect(d, IF d.c.udp THEN "udp" ELSE "wrap", 0)

Reading == {"version", "granted", "select", "password", "reply", "atyp", "length", "bound",
            "status", "headers", "refusal"}
Then(t, d) ==
    CASE d.step \in {"version", "granted"} -> Socks4Reply(t, d)
      [] d.step \in {"select", "password"} -> Selected(t, d)
      [] d.step \in {"reply", "atyp", "length"} -> Socks5Reply(t, d)
      [] d.step \in {"status", "headers", "refusal"} -> ConnectReply(t, d)
      [] OTHER -> Bound(d)

\* One unit of the proxy's answer arrives, each within the whole timeout.
ReadToken ==
    /\ dial.step \in Reading /\ dial.in # <<>>
    /\ \E dt \in 0..MinOf(dial.tmo, MinOf(1, Horizon - dial.now)) :
         dial' = Then(Head(dial.in), [dial EXCEPT !.now = @ + dt, !.in = Tail(@)])

\* The proxy goes, or says nothing for the whole timeout.
ProxyGone ==
    /\ dial.step \in Reading /\ dial.in = <<>>
    /\ Fails("eof")
ProxySilent ==
    /\ dial.step \in Reading /\ dial.tmo # NoTime
    /\ dial' = [dial EXCEPT !.now = MinOf(@ + dial.tmo, Horizon), !.step = "done", !.res = "timeout"]

\* clear_handshake_timeout, then DeadlineStream::wrap.
Wrap ==
    /\ dial.step = "wrap"
    /\ dial' = [dial EXCEPT !.step = "pipe", !.tmo = NoTime, !.opened = dial.now]

\* DeadlineStream::budget: the idle timeout or what is left, whichever is less.
budget(idle) ==
    IF dial.c.deadline # NoTime /\ ~(idle < Left) THEN [t |-> Left, hard |-> TRUE]
    ELSE [t |-> idle, hard |-> FALSE]
Passed == dial.c.deadline # NoTime /\ Left <= 0

StreamRead ==
    /\ dial.step = "pipe"
    /\ IF Passed THEN Fails("deadline")
       ELSE \E dt \in 0..MinOf(budget(dial.c.idle).t, MinOf(1, Horizon - dial.now)) :
              IF dial.in = <<>> THEN Fails("end")
              ELSE dial' = [dial EXCEPT !.now = @ + dt, !.in = Tail(@), !.out = Append(@, Head(dial.in))]

\* The peer is silent for the whole budget; map_err tells the two timeouts apart.
StreamSilent ==
    /\ dial.step = "pipe" /\ ~Passed /\ budget(dial.c.idle).t # NoTime
    /\ LET b == budget(dial.c.idle)
           then == MinOf(dial.now + b.t, Horizon)
       IN  dial' = [dial EXCEPT !.now = then, !.step = "done",
                                !.res = IF b.hard \/ then >= dial.c.deadline THEN "deadline" ELSE "idle"]

\* recv_from: a connected relay socket drops strangers, the header is taken off
\* and its source reported; a fragment or a domain source is an error.
decode_udp_header(g) == g.frag = 0 /\ g.atyp \in {"v4", "v6"} /\ ~g.short
recv_from ==
    /\ dial.step = "udp" /\ Len(dial.relayed) < 2
    /\ \E g \in [from : {"relay", "stranger"}, src : {"peer", "other"}, frag : {0, 1},
                 atyp : {"v4", "domain"}, short : BOOLEAN] :
         /\ dial.by = "direct" \/ g.from = "relay"
         /\ dial.by = "direct" \/ decode_udp_header(g)
         /\ dial' = [dial EXCEPT !.relayed = Append(@,
                        [src |-> IF dial.by = "direct" THEN g.from ELSE g.src, was |-> g])]
UdpDone ==
    /\ dial.step = "udp"
    /\ Fails("end")

NetNext ==
    \/ Start \/ connect_any \/ Socks4Hello \/ Socks5Hello \/ ConnectHello
    \/ ReadToken \/ ProxyGone \/ ProxySilent \/ Wrap
    \/ StreamRead \/ StreamSilent \/ recv_from \/ UdpDone

-----------------------------------------------------------------------------
Running == dial.step # "off"

\* What the caller reads is what the target sent: the conversation with the
\* proxy takes exactly its own bytes, whatever address type the proxy answers
\* with and even when the target's first bytes arrive with that answer.
PipeExact ==
    Running => /\ IsPrefix(dial.out, dial.c.target)
               /\ dial.res = "end" /\ ~dial.c.udp => dial.out = dial.c.target

\* A proxy that applies is never gone around, and with one that resolves names
\* the target's is never looked up here; a SOCKS5 proxy gets credentials only
\* when it asks; a relayed datagram comes from the relay and is told by the
\* source in its header.
ProxyHonoured ==
    Running =>
        /\ dial.by = "direct" <=> dial.kind = "direct" /\ dial.by # "none"
        /\ RemoteDns(dial.kind) => "target" \notin dial.looked
        /\ dial.kind \in {"socks5", "socks5h"} /\ dial.creds => dial.asked
        /\ dial.by = "proxy" => \A e \in dial.c.noproxy :
              e.kind # "any" /\ (e.kind = "name" /\ ByName => e.at # Tail(dial.c.host.at))
        /\ \A i \in DOMAIN dial.relayed :
              dial.by # "direct" => /\ dial.relayed[i].was.from = "relay"
                                    /\ dial.relayed[i].src = dial.relayed[i].was.src

\* Once connected, no read outlasts the deadline, and a timeout is reported as
\* the deadline's exactly when the deadline has passed (callers retry the other).
DeadlineHolds ==
    Running /\ dial.c.deadline # NoTime /\ dial.opened # NoTime =>
        /\ dial.now <= IF dial.opened > dial.c.deadline THEN dial.opened ELSE dial.c.deadline
        /\ dial.res = "deadline" => dial.now >= dial.c.deadline
        /\ dial.res = "idle" => dial.now < dial.c.deadline

\* What the client reaches, and when: the three together.
ReachSound == PipeExact /\ ProxyHonoured /\ DeadlineHolds

\* What Client::max_time promises of the whole operation, connect included.
WithinMaxTime == Running /\ dial.c.deadline # NoTime => dial.now <= dial.c.deadline
=============================================================================
