-------------------------------- MODULE Tls ---------------------------------
(***************************************************************************)
(* TLS on the client's side: whose certificate is accepted (src/src/tls,    *)
(* verify_peer_certificates and build_client of src/src/http3.rs), over the *)
(* connections that share one session cache; and, further down, the two     *)
(* persistent streams under a WebSocket.  AsyncTlsStream                    *)
(* (src/src/io/asynctls.rs): its operations are futures, a caller may drop  *)
(* one at any await, and the socket may fail at any await.  TlsConn         *)
(* (src/src/tls/purecrypto.rs, src/src/tls/rustls.rs): threads share it.  A *)
(* record is two units on the wire; a write moves them one at a time.       *)
(***************************************************************************)
EXTENDS Naturals, Sequences, SequencesExt, TLAPS

CONSTANTS
    TrustRuns,  \* [backend, files, conns]: connections opened in turn with one cache
    Bundle,     \* the certificate authorities of the embedded bundle
    MaxRecords, \* records this side seals (its writes and its replies)
    MaxInbound, \* records the peer sends; even ones ask for a reply (key update)
    Writers     \* the threads that write to a TlsConn; one more thread reads it

VARIABLES tr, ts, tc

-----------------------------------------------------------------------------
(* Who is accepted.  A certificate is [id, ca, names, san, key, revoked]: a *)
(* leaf under an authority, for some names (from its SAN, or only from its  *)
(* common name).  The engines' own verification is external: it is what     *)
(* their documentation says of webpki and of purecrypto's verifier.         *)
Conn(t) == t.run.conns[t.n]
Files(t) == t.run.files

\* A callback is the sole authority: the engine then verifies nothing.
effective_verify(c) == c.verify /\ ~c.asks

\* The runs: some connections, each with its settings and the peer it meets.  rustls
\* keeps the configuration of the cache's first connection for the later ones:
\* connections share a cache only when they are built from the same options.
ASSUME TrustAssumption ==
    \A r \in TrustRuns :
        /\ r.conns # <<>> /\ DOMAIN r.conns = 1..Len(r.conns) /\ Len(r.conns) \in Nat
        /\ r.backend \in {"purecrypto", "rustls", "quic"}
        /\ r.files.crl \in {"none", "good", "bad", "missing"}
        /\ r.backend = "rustls" =>
              \A i, j \in DOMAIN r.conns : effective_verify(r.conns[i]) <=> effective_verify(r.conns[j])

NoSession == [some |-> FALSE]
NoTrust == [at |-> "off"]
NewTrust(r) == [at |-> "opts", run |-> r, n |-> 1, config |-> "none", cache |-> NoSession,
                offered |-> FALSE, chain |-> <<>>, version |-> 0, taken |-> {}]

\* --cacert replaces the bundle, --capath adds to whichever base is in effect; either
\* without a usable certificate is an error.
BaseRoots(f) == IF f.cacert = "none" THEN Bundle ELSE {f.cacert}
Roots(f) == BaseRoots(f) \cup (IF f.capath = "none" THEN {} ELSE {f.capath})
load_roots(f) == f.cacert # "bad" /\ f.capath # "bad"

\* Nothing that was asked for and cannot be honoured is skipped: a file that cannot be
\* read, a pin or a cipher that does not parse.
parse_pinned_pubkey(c) == c.pinned => c.pins # {}
cipher_names_to_ids(f) == f.ciphers # "bad"
OptsOK(f, c) ==
    /\ load_roots(f) /\ f.cert # "missing"
    /\ parse_pinned_pubkey(c)
    /\ f.crl # "missing" /\ cipher_names_to_ids(f)
to_opts ==
    /\ tr.at = "opts"
    /\ tr' = [tr EXCEPT !.at = IF OptsOK(Files(tr), Conn(tr)) THEN "build" ELSE "failed"]

lookup_Unverified(s, name, verify) == s.some /\ s.host = name

lookup(s, name, verify) == s.some /\ s.host = name /\ (s.verified \/ ~verify)

\* A client certificate and its key, from the key's own file or the certificate's.
load_cert_chain(f) == f.cert # "bad"
parse_signing_key(f) == f.cert # "none" => f.key # "bad"
build_identity(f) == load_cert_chain(f) /\ parse_signing_key(f)

\* What each back end refuses when the engine is built.  rustls has neither CRLs nor
\* cipher lists; one bad CRL spoils the file; QUIC takes no client certificate.
RustlsBuilds(f) == f.crl = "none" /\ f.ciphers = "none" /\ build_identity(f)
PurecryptoBuilds(f) == build_identity(f) /\ f.crl # "bad"
QuicBuilds(f) == f.crl # "bad"
BuildOK(b, f) ==
    \/ b = "rustls" /\ RustlsBuilds(f)
    \/ b = "purecrypto" /\ PurecryptoBuilds(f)
    \/ b = "quic" /\ QuicBuilds(f)
ConfigFor(t) ==
    IF t.run.backend = "rustls" /\ t.config # "none" THEN t.config
    ELSE IF effective_verify(Conn(t)) THEN "verifying" ELSE "trusting"
build_client_conn ==
    /\ tr.at = "build"
    /\ LET c == Conn(tr)
       IN  tr' = IF BuildOK(tr.run.backend, Files(tr))
                 THEN [tr EXCEPT !.at = "shake", !.config = ConfigFor(tr),
                                 !.offered = /\ tr.run.backend # "quic"
                                             /\ lookup(tr.cache, c.host, effective_verify(c))
                                             /\ tr.cache.version \in c.range]
                 ELSE [tr EXCEPT !.at = "failed"]

\* The engine on a full handshake.  purecrypto takes the common name of a leaf that
\* has no SAN; webpki does not.
EngineAccepts(b, f, host, cert) ==
    /\ cert.ca \in Roots(f)
    /\ host \in cert.names
    /\ b = "rustls" => cert.san
    /\ f.crl = "good" => ~cert.revoked

\* A session the server issued goes into the cache with the chain of the handshake it
\* descends from, before anything else is asked of that chain.
harvest_session(t) ==
    [some |-> TRUE, host |-> Conn(t).host, version |-> t.version,
     verified |-> t.config = "verifying", chain |-> t.chain]
Harvested(t, ticket) ==
    IF ticket /\ t.run.backend # "quic" THEN [t EXCEPT !.cache = harvest_session(t)] ELSE t

\* Only the party that issued a session can resume it; it may also decline.
FullHandshake(v, ticket) ==
    /\ tr.at = "shake" /\ v \in Conn(tr).range
    /\ tr.offered /\ tr.run.backend = "purecrypto" => v = tr.cache.version
    /\ tr.config = "verifying" => EngineAccepts(tr.run.backend, Files(tr), Conn(tr).host, Conn(tr).cert)
    /\ ticket => v = 12
    /\ tr' = Harvested([tr EXCEPT !.at = "check", !.chain = <<Conn(tr).cert>>, !.version = v], ticket)
ResumedHandshake(ticket) ==
    /\ tr.at = "shake" /\ tr.offered /\ tr.cache.chain = <<Conn(tr).cert>>
    /\ ticket => tr.cache.version = 12
    /\ tr' = Harvested([tr EXCEPT !.at = "check", !.chain = tr.cache.chain, !.version = tr.cache.version], ticket)
HandshakeFails == tr.at = "shake" /\ tr' = [tr EXCEPT !.at = "failed"]

\* Pins first and always; then the callback, whose word is final.
spki_pin_matches(cert, c) == c.pinned => cert.key \in c.pins
enforce_pins_then_callback(cert, c) == spki_pin_matches(cert, c) /\ (c.asks => cert.key \in c.likes)

\* The last check of each path.  webpki has asked for the SAN already; purecrypto has
\* not, over TCP or over QUIC.
leaf_has_san(cert) == cert.san
RustlsChecks(cert, c) == enforce_pins_then_callback(cert, c)
PurecryptoChecks(cert, c) ==
    /\ enforce_pins_then_callback(cert, c)
    /\ effective_verify(c) => leaf_has_san(cert)
verify_peer_certificates(cert, c) ==
    /\ spki_pin_matches(cert, c)
    /\ IF c.asks THEN cert.key \in c.likes ELSE c.verify => leaf_has_san(cert)
Checked(b, cert, c) ==
    \/ b = "rustls" /\ RustlsChecks(cert, c)
    \/ b = "purecrypto" /\ PurecryptoChecks(cert, c)
    \/ b = "quic" /\ verify_peer_certificates(cert, c)
CheckPeer ==
    /\ tr.at = "check"
    /\ tr' = IF Checked(tr.run.backend, Head(tr.chain), Conn(tr))
             THEN [tr EXCEPT !.at = "up", !.taken = @ \cup {tr.n}]
             ELSE [tr EXCEPT !.at = "failed"]

\* TLS 1.3 tickets arrive with the data.
ReadTicket == tr.at = "up" /\ tr.version = 13 /\ tr' = Harvested(tr, TRUE)

\* The next connection that shares the cache.
NextConnection ==
    /\ tr.at \in {"up", "failed"} /\ tr.n < Len(tr.run.conns)
    /\ tr' = [tr EXCEPT !.at = "opts", !.n = @ + 1, !.offered = FALSE, !.chain = <<>>, !.version = 0]

TrustInit == \E r \in TrustRuns : tr = NewTrust(r)
TrustNext ==
    \/ to_opts \/ build_client_conn \/ HandshakeFails \/ CheckPeer \/ ReadTicket \/ NextConnection
    \/ \E ticket \in BOOLEAN : ResumedHandshake(ticket) \/ \E v \in {12, 13} : FullHandshake(v, ticket)
TrustSpec == TrustInit /\ [][TrustNext]_tr

\* Every connection that came up talks to a peer its own settings accept: its key is
\* pinned if there are pins, whatever else is set; the callback, if there is one, took
\* it; otherwise, when verifying, it is certified by a trusted authority for this very
\* name, in a SAN, and not revoked - also when the handshake was resumed from a session
\* of a connection that asked for less.  Roots and CRL are those of the cache's owner:
\* lookup compares name and verification only, so nothing is said of connections with
\* other roots that share one cache.
Acceptable(r, c) ==
    /\ c.pinned => c.cert.key \in c.pins
    /\ c.asks => c.cert.key \in c.likes
    /\ c.verify /\ ~c.asks =>
         /\ c.cert.ca \in Roots(r.files) /\ c.host \in c.cert.names /\ c.cert.san
         /\ r.files.crl # "none" => ~c.cert.revoked
PeersTrusted == tr.at # "off" => \A i \in tr.taken : Acceptable(tr.run, tr.run.conns[i])

\* The strengthening: a session marked verified descends from a chain the engine
\* accepted for the session's name, and a connection past its handshake holds its
\* peer's own chain, accepted by the engine whenever the connection verifies.
Shape(t) == t = [at |-> t.at, run |-> t.run, n |-> t.n, config |-> t.config, cache |-> t.cache,
                 offered |-> t.offered, chain |-> t.chain, version |-> t.version, taken |-> t.taken]
EngineOK(t, host, cert) == EngineAccepts(t.run.backend, t.run.files, host, cert)
ConfigOK(t) ==
    /\ t.at \in {"shake", "check", "up"} => (t.config = "verifying" <=> effective_verify(Conn(t)))
    /\ t.run.backend = "rustls" /\ t.config # "none" =>
          \A i \in DOMAIN t.run.conns : t.config = "verifying" <=> effective_verify(t.run.conns[i])
CacheOK(t) == t.cache.some /\ t.cache.verified => EngineOK(t, t.cache.host, Head(t.cache.chain))
OfferOK(t) == t.at = "shake" /\ t.offered => lookup(t.cache, Conn(t).host, effective_verify(Conn(t)))
ChainOK(t) ==
    t.at \in {"check", "up"} =>
        /\ t.chain = <<Conn(t).cert>>
        /\ effective_verify(Conn(t)) => EngineOK(t, Conn(t).host, Conn(t).cert)
BuiltOK(t) ==
    /\ t.at = "build" => t.run.files.crl # "missing"
    /\ t.at \in {"shake", "check", "up"} => t.run.files.crl \in {"none", "good"}
TakenOK(t) == \A i \in t.taken : Acceptable(t.run, t.run.conns[i])
Sound(t) ==
    /\ Shape(t) /\ t.run \in TrustRuns /\ t.n \in DOMAIN t.run.conns
    /\ t.at \in {"opts", "build", "shake", "check", "up", "failed"}
    /\ ConfigOK(t) /\ CacheOK(t) /\ OfferOK(t) /\ ChainOK(t) /\ BuiltOK(t) /\ TakenOK(t)
TrustInv == Sound(tr)

\* Taking a session into the cache keeps all of it, past the handshake
\* (harvest_session).
LEMMA Harvest ==
    ASSUME NEW t, Sound(t), t.at \in {"check", "up"}, NEW ticket \in BOOLEAN
    PROVE  Sound(Harvested(t, ticket))
<1>1. CASE Harvested(t, ticket) = t
  BY <1>1
<1>2. CASE Harvested(t, ticket) = [t EXCEPT !.cache = harvest_session(t)]
  <2> DEFINE u == [t EXCEPT !.cache = harvest_session(t)]
  <2>1. Shape(u) /\ u.at = t.at /\ u.run = t.run /\ u.n = t.n /\ u.taken = t.taken
        /\ u.config = t.config /\ u.chain = t.chain /\ u.cache = harvest_session(t)
    BY DEF Sound, Shape
  <2>2. /\ harvest_session(t).verified <=> t.config = "verifying"
        /\ harvest_session(t).host = Conn(t).host
        /\ harvest_session(t).chain = <<Conn(t).cert>>
    BY DEF harvest_session, Sound, ChainOK
  <2>3. CacheOK(u)
    BY <2>1, <2>2 DEF CacheOK, EngineOK, Sound, ChainOK, ConfigOK
  <2> HIDE DEF u
  <2>4. Sound(u)
    BY <2>1, <2>3 DEF Sound, ConfigOK, OfferOK, ChainOK, BuiltOK, TakenOK, EngineOK, Conn
  <2> QED
    BY <2>4, <1>2 DEF u
<1> QED
  BY <1>1, <1>2 DEF Harvested

\* For any number of connections through one cache, in any order and with any mix of
\* names, pins, callbacks and verification but one set of roots and one CRL
\* (connect_over_tls, verify_peer_certificates, TlsSessionCache::lookup).
THEOREM NoStrangerAccepted == TrustSpec => []PeersTrusted
<1>1. TrustInit => TrustInv
  <2> SUFFICES ASSUME NEW r \in TrustRuns, tr = NewTrust(r) PROVE TrustInv
    BY DEF TrustInit
  <2>1. 1 \in DOMAIN r.conns
    BY TrustAssumption
  <2> QED
    BY <2>1 DEF TrustInv, Sound, NewTrust, NoSession, Shape, ConfigOK, CacheOK, OfferOK, ChainOK, BuiltOK, TakenOK
<1>2. TrustInv /\ [TrustNext]_tr => TrustInv'
  <2> SUFFICES ASSUME TrustInv, [TrustNext]_tr PROVE TrustInv'
    OBVIOUS
  <2> USE DEF Conn, Files
  <2>1. CASE to_opts
    <3>1. \/ tr' = [tr EXCEPT !.at = "build"] /\ tr.run.files.crl # "missing"
          \/ tr' = [tr EXCEPT !.at = "failed"]
      BY <2>1 DEF to_opts, OptsOK
    <3> QED
      BY <3>1, <2>1 DEF TrustInv, Sound, Shape, ConfigOK, CacheOK, OfferOK, ChainOK, BuiltOK, TakenOK, EngineOK, to_opts
  <2>2. CASE build_client_conn
    <3>1. CASE tr' = [tr EXCEPT !.at = "failed"]
      BY <3>1 DEF TrustInv, Sound, Shape, ConfigOK, CacheOK, OfferOK, ChainOK, BuiltOK, TakenOK, EngineOK
    <3>2. ASSUME NEW o, tr' = [tr EXCEPT !.at = "shake", !.config = ConfigFor(tr), !.offered = o],
                 o => lookup(tr.cache, Conn(tr).host, effective_verify(Conn(tr))), BuildOK(tr.run.backend, tr.run.files)
          PROVE  TrustInv'
      <4>1. Shape(tr') /\ tr'.at = "shake" /\ tr'.run = tr.run /\ tr'.n = tr.n /\ tr'.taken = tr.taken
            /\ tr'.cache = tr.cache /\ tr'.config = ConfigFor(tr) /\ tr'.offered = o
        BY <3>2 DEF Shape, TrustInv, Sound
      <4>2. tr'.config = "verifying" <=> effective_verify(Conn(tr))
        BY <4>1 DEF ConfigFor, TrustInv, Sound, ConfigOK
      <4>3. ConfigOK(tr')
        BY <4>1, <4>2, TrustAssumption DEF ConfigOK, TrustInv, Sound
      <4>4. BuiltOK(tr')
        BY <4>1, <3>2, <2>2, TrustAssumption DEF BuiltOK, BuildOK, RustlsBuilds, PurecryptoBuilds, QuicBuilds, TrustInv, Sound, build_client_conn
      <4> QED
        BY <4>1, <4>3, <4>4, <3>2 DEF TrustInv, Sound, CacheOK, OfferOK, ChainOK, TakenOK, EngineOK
    <3> QED
      BY <2>2, <3>1, <3>2 DEF build_client_conn
  <2>3. CASE HandshakeFails
    BY <2>3 DEF TrustInv, Sound, Shape, ConfigOK, CacheOK, OfferOK, ChainOK, BuiltOK, TakenOK, EngineOK, HandshakeFails
  <2>4. CASE CheckPeer
    <3>1. CASE tr' = [tr EXCEPT !.at = "failed"]
      BY <3>1 DEF TrustInv, Sound, Shape, ConfigOK, CacheOK, OfferOK, ChainOK, BuiltOK, TakenOK, EngineOK
    <3>2. CASE /\ tr' = [tr EXCEPT !.at = "up", !.taken = @ \cup {tr.n}]
               /\ Checked(tr.run.backend, Head(tr.chain), Conn(tr))
      <4>1. Shape(tr') /\ tr'.at = "up" /\ tr'.run = tr.run /\ tr'.n = tr.n /\ tr'.taken = tr.taken \cup {tr.n}
            /\ tr'.cache = tr.cache /\ tr'.config = tr.config /\ tr'.chain = tr.chain
        BY <3>2 DEF Shape, TrustInv, Sound
      <4>2. tr.at = "check" /\ Head(tr.chain) = Conn(tr).cert
        BY <2>4 DEF CheckPeer, TrustInv, Sound, ChainOK
      <4>3. Acceptable(tr.run, Conn(tr))
        BY <3>2, <4>2, TrustAssumption
           DEF Acceptable, TrustInv, Sound, ChainOK, BuiltOK, EngineOK, EngineAccepts, effective_verify,
               Checked, RustlsChecks, PurecryptoChecks, verify_peer_certificates, leaf_has_san,
               enforce_pins_then_callback, spki_pin_matches
      <4>4. TakenOK(tr')
        BY <4>1, <4>3 DEF TakenOK, TrustInv, Sound
      <4> QED
        BY <4>1, <4>2, <4>4 DEF TrustInv, Sound, ConfigOK, CacheOK, OfferOK, ChainOK, BuiltOK, EngineOK
    <3> QED
      BY <2>4, <3>1, <3>2 DEF CheckPeer
  <2>5. CASE ReadTicket
    BY <2>5, Harvest DEF ReadTicket, TrustInv
  <2>6. CASE NextConnection
    <3>1. /\ tr.n < Len(tr.run.conns) /\ DOMAIN tr.run.conns = 1..Len(tr.run.conns) /\ Len(tr.run.conns) \in Nat
          /\ tr' = [tr EXCEPT !.at = "opts", !.n = @ + 1, !.offered = FALSE, !.chain = <<>>, !.version = 0]
      BY <2>6, TrustAssumption DEF NextConnection, TrustInv, Sound
    <3>2. tr.n + 1 \in DOMAIN tr.run.conns
      BY <3>1 DEF TrustInv, Sound
    <3>3. Shape(tr') /\ tr'.at = "opts" /\ tr'.run = tr.run /\ tr'.n = tr.n + 1 /\ tr'.taken = tr.taken
          /\ tr'.cache = tr.cache /\ tr'.config = tr.config
      BY <3>1 DEF Shape, TrustInv, Sound
    <3> QED
      BY <3>2, <3>3 DEF TrustInv, Sound, ConfigOK, CacheOK, OfferOK, ChainOK, BuiltOK, TakenOK, EngineOK
  <2>7. ASSUME NEW ticket \in BOOLEAN, ResumedHandshake(ticket) PROVE TrustInv'
    <3> DEFINE next == [tr EXCEPT !.at = "check", !.chain = tr.cache.chain, !.version = tr.cache.version]
    <3>0. Shape(tr)
      BY DEF TrustInv, Sound
    <3>1. Shape(next) /\ next.at = "check" /\ next.run = tr.run /\ next.n = tr.n /\ next.taken = tr.taken
          /\ next.cache = tr.cache /\ next.config = tr.config /\ next.chain = <<Conn(tr).cert>>
      <4>1. Shape(next) /\ next.at = "check" /\ next.run = tr.run /\ next.n = tr.n /\ next.taken = tr.taken
            /\ next.cache = tr.cache /\ next.config = tr.config
        <5>1. ASSUME NEW u, u = next PROVE /\ Shape(u) /\ u.at = "check" /\ u.run = tr.run /\ u.n = tr.n /\ u.taken = tr.taken
                                           /\ u.cache = tr.cache /\ u.config = tr.config
          BY <3>0, <5>1 DEF Shape
        <5> HIDE DEF next
        <5> QED
          BY <5>1
      <4>3. next.chain = <<Conn(tr).cert>>
        BY <3>0, <2>7 DEF Shape, ResumedHandshake
      <4> QED
        BY <4>1, <4>3
    <3>2. tr.at = "shake" /\ lookup(tr.cache, Conn(tr).host, effective_verify(Conn(tr)))
          /\ Head(tr.cache.chain) = Conn(tr).cert
      BY <2>7 DEF ResumedHandshake, TrustInv, Sound, OfferOK
    <3>3. ChainOK(next)
      BY <3>1, <3>2 DEF ChainOK, TrustInv, Sound, CacheOK, lookup, EngineOK
    <3>4. Sound(next)
      BY <3>1, <3>2, <3>3 DEF TrustInv, Sound, ConfigOK, CacheOK, OfferOK, BuiltOK, TakenOK, EngineOK
    <3> HIDE DEF next
    <3> QED
      BY <2>7, <3>1, <3>4, Harvest DEF ResumedHandshake, next, TrustInv
  <2>8. ASSUME NEW ticket \in BOOLEAN, NEW v \in {12, 13}, FullHandshake(v, ticket) PROVE TrustInv'
    <3> DEFINE next == [tr EXCEPT !.at = "check", !.chain = <<Conn(tr).cert>>, !.version = v]
    <3>0. Shape(tr)
      BY DEF TrustInv, Sound
    <3>1. Shape(next) /\ next.at = "check" /\ next.run = tr.run /\ next.n = tr.n /\ next.taken = tr.taken
          /\ next.cache = tr.cache /\ next.config = tr.config /\ next.chain = <<Conn(tr).cert>>
      <4>1. Shape(next) /\ next.at = "check" /\ next.run = tr.run /\ next.n = tr.n /\ next.taken = tr.taken
            /\ next.cache = tr.cache /\ next.config = tr.config
        <5>1. ASSUME NEW u, u = next PROVE /\ Shape(u) /\ u.at = "check" /\ u.run = tr.run /\ u.n = tr.n /\ u.taken = tr.taken
                                           /\ u.cache = tr.cache /\ u.config = tr.config
          BY <3>0, <5>1 DEF Shape
        <5> HIDE DEF next
        <5> QED
          BY <5>1
      <4>3. next.chain = <<Conn(tr).cert>>
        BY <3>0, <2>8 DEF Shape
      <4> QED
        BY <4>1, <4>3
    <3>2. ChainOK(next)
      BY <3>1, <2>8 DEF ChainOK, TrustInv, Sound, ConfigOK, EngineOK, FullHandshake
    <3>3. Sound(next)
      BY <3>1, <3>2, <2>8 DEF TrustInv, Sound, ConfigOK, CacheOK, OfferOK, BuiltOK, TakenOK, EngineOK, FullHandshake
    <3> HIDE DEF next
    <3> QED
      BY <2>8, <3>1, <3>3, Harvest DEF FullHandshake, next, TrustInv
  <2>9. CASE UNCHANGED tr
    BY <2>9 DEF TrustInv, Sound, Shape, ConfigOK, CacheOK, OfferOK, ChainOK, BuiltOK, TakenOK, EngineOK
  <2> QED
    BY <2>1, <2>2, <2>3, <2>4, <2>5, <2>6, <2>7, <2>8, <2>9 DEF TrustNext
<1>3. TrustInv => PeersTrusted
  BY DEF TrustInv, Sound, TakenOK, PeersTrusted
<1> QED
  BY <1>1, <1>2, <1>3, PTL DEF TrustSpec

-----------------------------------------------------------------------------
(* AsyncTlsStream.                                                          *)
NoStream == [op |-> "none"]
NewStream ==
    [op |-> "idle",      \* idle, write, flush, reading, reply: the pending future
     sealed |-> 0,       \* records sealed by the engine
     queued |-> <<>>,    \* sealed and not yet drained by drain_outgoing
     outbuf |-> <<>>,    \* units still to be written by the pending write_all
     wire |-> <<>>,      \* units on the wire
     poisoned |-> FALSE,
     arrived |-> 0,      \* records read from the socket
     plain |-> <<>>,     \* decrypted, not handed out
     out |-> <<>>,       \* handed to the caller
     written |-> {}]     \* records whose write the caller was told is done

Units2(r) == <<<<r, 1>>, <<r, 2>>>>
check_not_poisoned == ~ts.poisoned

\* The engine seals one record.
Sealed(t) == [t EXCEPT !.sealed = @ + 1, !.queued = @ \o Units2(t.sealed + 1)]

\* send_queued up to its first await: drain the engine, poison for the duration.
send_queued(t, flush, op) ==
    IF t.queued = <<>> /\ ~flush THEN [t EXCEPT !.op = "idle"]
    ELSE [t EXCEPT !.op = op, !.outbuf = t.queued, !.queued = <<>>, !.poisoned = TRUE]

write_all ==
    /\ ts.op = "idle" /\ check_not_poisoned /\ ts.sealed < MaxRecords
    /\ ts' = send_queued(Sealed(ts), FALSE, "write")

FlushStream ==
    /\ ts.op = "idle" /\ check_not_poisoned
    /\ ts' = send_queued(ts, TRUE, "flush")

\* read: decrypted plain text first, else await the socket.
ReadStream ==
    /\ ts.op = "idle" /\ check_not_poisoned
    /\ ts' = IF ts.plain # <<>> THEN [ts EXCEPT !.out = @ \o ts.plain, !.plain = <<>>]
             ELSE [ts EXCEPT !.op = "reading"]

\* The socket delivers a record; a reply it provokes is flushed before the loop turns.
ReadDelivers ==
    /\ ts.op = "reading" /\ ts.arrived < MaxInbound
    /\ LET n == ts.arrived + 1
           fed == [ts EXCEPT !.arrived = n, !.plain = Append(@, n)]
           asks == n % 2 = 0 /\ ts.sealed < MaxRecords
       IN  ts' = send_queued(IF asks THEN Sealed(fed) ELSE fed, TRUE, "reply")

\* write_all makes progress; once everything is out the stream is sound again.
WriteProgress ==
    /\ ts.op \in {"write", "flush", "reply"} /\ ts.outbuf # <<>>
    /\ ts' = [ts EXCEPT !.wire = Append(@, Head(ts.outbuf)), !.outbuf = Tail(@)]

WriteDone ==
    /\ ts.op \in {"write", "flush", "reply"} /\ ts.outbuf = <<>>
    /\ ts' = LET t == [ts EXCEPT !.poisoned = FALSE,
                                 !.written = IF ts.op = "write" THEN @ \cup {ts.sealed} ELSE @]
             IN  IF ts.op = "reply"
                 THEN [t EXCEPT !.op = "idle", !.out = @ \o t.plain, !.plain = <<>>]
                 ELSE [t EXCEPT !.op = "idle"]

\* The future is dropped, or its await fails: what it had not written is gone.
Abandoned ==
    /\ ts.op \notin {"none", "idle"}
    /\ ts' = [ts EXCEPT !.op = "idle", !.outbuf = <<>>]

StreamNext ==
    \/ write_all \/ FlushStream \/ ReadStream \/ ReadDelivers
    \/ WriteProgress \/ WriteDone \/ Abandoned

\* What is on the wire is always a prefix of the records sealed, in order and
\* without a gap, whatever future was dropped and wherever; a write reported
\* done is wholly there; and no plain text is lost or reordered by a dropped
\* read.
RecordsContiguous ==
    ts.op # "none" =>
        /\ ts.wire = SubSeq(FlattenSeq([r \in 1..ts.sealed |-> Units2(r)]), 1, Len(ts.wire))
        /\ \A r \in ts.written : Contains(ts.wire, <<r, 2>>)
        /\ ts.out \o ts.plain = [i \in 1..ts.arrived |-> i]
-----------------------------------------------------------------------------
(* TlsConn: the engine behind a mutex, the blocking socket read outside it; *)
(* and the WsTransport over it, whose writers stop for good after a failed  *)
(* write.  A writer is any thread that sends a frame, under the close gate  *)
(* or not (a pong).  Unit k is the k-th unit the engine seals.              *)
Reader == "reader"
Threads == Writers \cup {Reader}
ASSUME ThreadAssumption == Reader \notin Writers /\ "free" \notin Threads

NoConn == [b |-> "off"]
into_concurrent(b) ==
    [b |-> b, lock |-> "free", broken |-> FALSE,
     at |-> [t \in Threads |-> "idle"],
     sealed |-> 0,                     \* units sealed
     popped |-> 0,                     \* units taken from the engine
     from |-> [t \in Threads |-> 1],   \* the units from..upto a thread still has to write
     upto |-> [t \in Threads |-> 0],
     wire |-> <<>>,
     cut |-> FALSE,                    \* a socket write has failed
     done |-> 0,                       \* units of the writes reported done
     arrived |-> 0, plain |-> 0]       \* records read from the socket, records decrypted
ConnInit == \E b \in {"purecrypto", "rustls"} : tc = into_concurrent(b)

EmptyHanded(t) == tc.from[t] > tc.upto[t]
Draining(t) == tc.at[t] \in {"write", "flush", "reply", "pending"}

\* WsTransport::write_all: refused once broken.
BeginSend(w) ==
    /\ tc.at[w] = "idle" /\ ~tc.broken
    /\ tc' = [tc EXCEPT !.at[w] = "begin"]

ConnWrite_Unlocked(w) ==
    /\ tc.at[w] = "begin" /\ tc.lock = "free"
    /\ \E n \in {2, 4} :
         /\ tc.sealed + n <= 2 * MaxRecords
         /\ tc' = [tc EXCEPT !.at[w] = "write", !.sealed = @ + n]

\* write: one guard over sealing the data (one record or more) and draining the engine.
ConnWrite(w) ==
    /\ tc.at[w] = "begin" /\ tc.lock = "free"
    /\ \E n \in {2, 4} :
         /\ tc.sealed + n <= 2 * MaxRecords
         /\ tc' = [tc EXCEPT !.lock = w, !.at[w] = "write", !.sealed = @ + n]

ConnFlush(w) ==
    /\ tc.at[w] = "written" /\ tc.lock = "free"
    /\ tc' = [tc EXCEPT !.lock = w, !.at[w] = "flush"]

\* drain_outgoing: take a record from the engine, write_all it, until none is left.
Pop(t) ==
    /\ Draining(t) /\ EmptyHanded(t) /\ tc.popped < tc.sealed
    /\ LET upto == IF tc.popped + 2 <= tc.sealed THEN tc.popped + 2 ELSE tc.sealed
       IN  tc' = [tc EXCEPT !.from[t] = tc.popped + 1, !.upto[t] = upto, !.popped = upto]
Put(t) ==
    /\ Draining(t) /\ ~EmptyHanded(t)
    /\ tc' = [tc EXCEPT !.wire = Append(@, tc.from[t]), !.from[t] = @ + 1]

\* The write is flushed under the lock a second time; the reader goes back to the top of
\* its loop (purecrypto) or on to the socket (rustls).
After(at) ==
    CASE at = "write" -> "written" [] at = "pending" -> "park" [] OTHER -> "idle"
DrainDone(t) ==
    /\ Draining(t) /\ EmptyHanded(t) /\ tc.popped = tc.sealed
    /\ tc' = [tc EXCEPT !.lock = "free", !.at[t] = After(@),
                        !.done = IF tc.at[t] = "flush" THEN tc.popped ELSE @]

\* The socket refuses a write, or times out on it: purecrypto has handed the record over
\* and its tail is gone; rustls keeps what the socket did not take.  Only a writer's
\* failure breaks the transport: the reader's is an error of read, or (a time out) a tick
\* of read_polled.
DrainFails(t) ==
    /\ Draining(t) /\ ~EmptyHanded(t)
    /\ tc' = [tc EXCEPT !.lock = "free", !.at[t] = "idle", !.cut = TRUE,
                        !.upto[t] = tc.from[t] - 1,
                        !.popped = IF tc.b = "rustls" THEN tc.from[t] - 1 ELSE @,
                        !.broken = @ \/ t # Reader]

\* read: decrypted text first; rustls also sends what is pending before it waits.
ConnRead ==
    /\ tc.at[Reader] = "idle" /\ tc.lock = "free"
    /\ tc' = IF tc.plain > 0 THEN [tc EXCEPT !.plain = 0]
             ELSE IF tc.b = "rustls" THEN [tc EXCEPT !.lock = Reader, !.at[Reader] = "pending"]
             ELSE [tc EXCEPT !.at[Reader] = "park"]

\* The socket read, without the lock: bytes, or a tick, an error, the end of the stream.
SocketReads ==
    /\ tc.at[Reader] = "park"
    /\ \/ tc.arrived < MaxInbound /\ tc' = [tc EXCEPT !.arrived = @ + 1, !.at[Reader] = "feed"]
       \/ tc' = [tc EXCEPT !.at[Reader] = "idle"]

\* The engine takes the record and may queue a reply; purecrypto sends it at once.
ConnFeed ==
    /\ tc.at[Reader] = "feed" /\ tc.lock = "free"
    /\ LET n == IF tc.arrived % 2 = 0 /\ tc.sealed + 2 <= 2 * MaxRecords THEN 2 ELSE 0
       IN  tc' = IF tc.b = "rustls" THEN [tc EXCEPT !.plain = @ + 1, !.sealed = @ + n, !.at[Reader] = "idle"]
                 ELSE [tc EXCEPT !.plain = @ + 1, !.sealed = @ + n, !.lock = Reader, !.at[Reader] = "reply"]

ConnNext ==
    \/ \E w \in Writers : BeginSend(w) \/ ConnWrite(w) \/ ConnFlush(w)
    \/ \E t \in Threads : Pop(t) \/ Put(t) \/ DrainDone(t) \/ DrainFails(t)
    \/ ConnRead \/ SocketReads \/ ConnFeed
ConnSpec == ConnInit /\ [][ConnNext]_tc

\* Whoever drains the engine, the records reach the wire whole and in the order they were
\* sealed, and what was reported written is there: over rustls whatever fails, over
\* purecrypto until a socket write has failed.  A reader that waits for the socket does not
\* hold the lock (TlsConn::read, write).
UnitsInPlace == \A i \in DOMAIN tc.wire : tc.wire[i] = i
RecordsUnmixed ==
    tc.b # "off" =>
        /\ tc.b = "rustls" \/ ~tc.cut => UnitsInPlace /\ tc.done <= Len(tc.wire)
        /\ tc.at[Reader] \in {"park", "feed"} => tc.lock # Reader

\* "every subsequent write therefore fails fast instead of corrupting the stream"
\* (src/src/websocket.rs, on WsTransport::broken).
BrokenNotCorrupted == tc.b # "off" /\ tc.broken => UnitsInPlace

-----------------------------------------------------------------------------
(* The engine is drained by the thread that holds the lock and by no other, *)
(* so what is on the wire is what was popped, short of what is in its hand. *)
Phases == {"idle", "begin", "write", "written", "flush", "park", "feed", "reply", "pending"}
ConnShape ==
    tc = [b |-> tc.b, lock |-> tc.lock, broken |-> tc.broken, at |-> tc.at,
          sealed |-> tc.sealed, popped |-> tc.popped, from |-> tc.from, upto |-> tc.upto,
          wire |-> tc.wire, cut |-> tc.cut, done |-> tc.done, arrived |-> tc.arrived, plain |-> tc.plain]
ConnType ==
    /\ tc.at \in [Threads -> Phases] /\ tc.from \in [Threads -> Nat] /\ tc.upto \in [Threads -> Nat]
    /\ tc.sealed \in Nat /\ tc.popped \in Nat /\ tc.done \in Nat /\ tc.wire \in Seq(Nat)
LockHeld ==
    \A t \in Threads : /\ Draining(t) <=> tc.lock = t
                       /\ ~Draining(t) => EmptyHanded(t)
Kept == tc.b = "rustls" \/ ~tc.cut
HandsOK ==
    /\ \A t \in Threads : tc.from[t] >= 1 /\ (~EmptyHanded(t) => tc.upto[t] = tc.popped /\ tc.popped <= tc.sealed)
    /\ tc.popped <= tc.sealed
WireOK ==
    /\ UnitsInPlace
    /\ tc.done <= Len(tc.wire)
    /\ \A t \in Threads : ~EmptyHanded(t) => Len(tc.wire) = tc.from[t] - 1
    /\ (\A t \in Threads : EmptyHanded(t)) => Len(tc.wire) = tc.popped
ConnInv == ConnShape /\ ConnType /\ LockHeld /\ HandsOK /\ (Kept => WireOK)

\* For any number of writers, records and failures (TlsConn::read, TlsConn::write).
THEOREM RecordsReachTheWireWhole == ConnSpec => []RecordsUnmixed
<1> USE DEF Threads
<1>1. ConnInit => ConnInv
  <2> SUFFICES ASSUME NEW b \in {"purecrypto", "rustls"}, tc = into_concurrent(b) PROVE ConnInv
    BY DEF ConnInit
  <2>1. ConnType
    BY DEF ConnType, into_concurrent, Phases
  <2> QED
    BY <2>1, ThreadAssumption
       DEF ConnInv, ConnShape, into_concurrent, LockHeld, HandsOK, WireOK, UnitsInPlace, Draining, EmptyHanded
<1>2. ConnInv /\ [ConnNext]_tc => ConnInv'
  <2> SUFFICES ASSUME ConnInv, [ConnNext]_tc PROVE ConnInv'
    OBVIOUS
  <2>0. ConnShape /\ ConnType /\ LockHeld /\ HandsOK /\ (Kept => WireOK)
    BY DEF ConnInv
  <2>h. \A t, u \in Threads : ~EmptyHanded(t) /\ u # t => EmptyHanded(u)
    BY <2>0 DEF LockHeld
  <2>1. ASSUME NEW w \in Writers, BeginSend(w) PROVE ConnInv'
    <3>0. tc.at[w] = "idle"
      BY <2>1 DEF BeginSend
    <3>1. /\ ConnShape' /\ tc'.b = tc.b /\ tc'.lock = tc.lock /\ tc'.broken = tc.broken
          /\ tc'.at = [tc.at EXCEPT ![w] = "begin"] /\ tc'.sealed = tc.sealed /\ tc'.popped = tc.popped
          /\ tc'.from = tc.from /\ tc'.upto = tc.upto /\ tc'.wire = tc.wire /\ tc'.cut = tc.cut
          /\ tc'.done = tc.done /\ tc'.arrived = tc.arrived /\ tc'.plain = tc.plain
      BY <2>0, <2>1 DEF BeginSend, ConnShape
    <3>2. ConnType'
      BY <2>0, <3>1 DEF ConnType, Phases
    <3>4. LockHeld'
      BY <2>0, <3>0, <3>1 DEF ConnType, LockHeld, Draining, EmptyHanded
    <3>5. HandsOK'
      BY <2>0, <3>1 DEF ConnType, HandsOK, EmptyHanded
    <3>6. Kept' => WireOK'
      BY <2>0, <3>1 DEF Kept, WireOK, UnitsInPlace, EmptyHanded
    <3> QED
      BY <3>1, <3>2, <3>4, <3>5, <3>6 DEF ConnInv
  <2>2. ASSUME NEW w \in Writers, ConnWrite(w) PROVE ConnInv'
    <3>0. PICK n \in {2, 4} : tc' = [tc EXCEPT !.lock = w, !.at[w] = "write", !.sealed = @ + n]
      BY <2>2 DEF ConnWrite
    <3>1. /\ ConnShape' /\ tc'.b = tc.b /\ tc'.lock = w /\ tc'.broken = tc.broken
          /\ tc'.at = [tc.at EXCEPT ![w] = "write"] /\ tc'.sealed = tc.sealed + n /\ tc'.popped = tc.popped
          /\ tc'.from = tc.from /\ tc'.upto = tc.upto /\ tc'.wire = tc.wire /\ tc'.cut = tc.cut
          /\ tc'.done = tc.done /\ tc'.arrived = tc.arrived /\ tc'.plain = tc.plain
      BY <2>0, <3>0 DEF ConnShape
    <3>2. ConnType'
      BY <2>0, <3>1 DEF ConnType, Phases
    <3>3. tc.lock = "free" /\ \A t \in Threads : ~Draining(t)
      BY <2>0, <2>2, ThreadAssumption DEF ConnWrite, LockHeld
    <3>4. LockHeld'
      BY <2>0, <3>1, <3>3, ThreadAssumption DEF ConnType, LockHeld, Draining, EmptyHanded
    <3>5. HandsOK'
      BY <2>0, <3>1 DEF ConnType, HandsOK, EmptyHanded
    <3>6. Kept' => WireOK'
      BY <2>0, <3>1 DEF Kept, WireOK, UnitsInPlace, EmptyHanded
    <3> QED
      BY <3>1, <3>2, <3>4, <3>5, <3>6 DEF ConnInv
  <2>3. ASSUME NEW w \in Writers, ConnFlush(w) PROVE ConnInv'
    <3>1. /\ ConnShape' /\ tc'.b = tc.b /\ tc'.lock = w /\ tc'.broken = tc.broken
          /\ tc'.at = [tc.at EXCEPT ![w] = "flush"] /\ tc'.sealed = tc.sealed /\ tc'.popped = tc.popped
          /\ tc'.from = tc.from /\ tc'.upto = tc.upto /\ tc'.wire = tc.wire /\ tc'.cut = tc.cut
          /\ tc'.done = tc.done /\ tc'.arrived = tc.arrived /\ tc'.plain = tc.plain
      BY <2>0, <2>3 DEF ConnFlush, ConnShape
    <3>2. ConnType'
      BY <2>0, <3>1 DEF ConnType, Phases
    <3>3. tc.lock = "free" /\ \A t \in Threads : ~Draining(t)
      BY <2>0, <2>3, ThreadAssumption DEF ConnFlush, LockHeld
    <3>4. LockHeld'
      BY <2>0, <3>1, <3>3, ThreadAssumption DEF ConnType, LockHeld, Draining, EmptyHanded
    <3>5. HandsOK'
      BY <2>0, <3>1 DEF ConnType, HandsOK, EmptyHanded
    <3>6. Kept' => WireOK'
      BY <2>0, <3>1 DEF Kept, WireOK, UnitsInPlace, EmptyHanded
    <3> QED
      BY <3>1, <3>2, <3>4, <3>5, <3>6 DEF ConnInv
  <2>4. ASSUME NEW t \in Threads, Pop(t) PROVE ConnInv'
    <3> DEFINE k == IF tc.popped + 2 <= tc.sealed THEN tc.popped + 2 ELSE tc.sealed
    <3>0. k \in Nat /\ tc.popped < k /\ k <= tc.sealed
      <4>1. tc.popped \in Nat /\ tc.sealed \in Nat /\ tc.popped < tc.sealed
        BY <2>0, <2>4 DEF Pop, ConnType
      <4> QED
        BY <4>1
    <3>a. tc' = [tc EXCEPT !.from[t] = tc.popped + 1, !.upto[t] = k, !.popped = k]
      BY <2>4 DEF Pop
    <3> HIDE DEF k
    <3>1. /\ ConnShape' /\ tc'.b = tc.b /\ tc'.lock = tc.lock 
          /\ tc'.broken = tc.broken /\ tc'.at = tc.at /\ tc'.sealed = tc.sealed /\ tc'.popped = k
          /\ tc'.from = [tc.from EXCEPT ![t] = tc.popped + 1] /\ tc'.upto = [tc.upto EXCEPT ![t] = k]
          /\ tc'.wire = tc.wire /\ tc'.cut = tc.cut /\ tc'.done = tc.done /\ tc'.arrived = tc.arrived
          /\ tc'.plain = tc.plain
      BY <2>0, <3>a DEF ConnShape
    <3>2. ConnType'
      BY <2>0, <3>0, <3>1 DEF ConnType, Phases
    <3>3. Draining(t) /\ EmptyHanded(t) /\ \A u \in Threads : EmptyHanded(u)
      BY <2>0, <2>4 DEF Pop, LockHeld
    <3>4. /\ tc'.from[t] = tc.popped + 1 /\ tc'.upto[t] = k
          /\ \A u \in Threads : u # t => tc'.from[u] = tc.from[u] /\ tc'.upto[u] = tc.upto[u]
      BY <2>0, <3>1 DEF ConnType
    <3>5. ~EmptyHanded(t)' /\ \A u \in Threads : u # t => EmptyHanded(u)'
      BY <2>0, <3>0, <3>3, <3>4 DEF ConnType, EmptyHanded
    <3>6. LockHeld'
      BY <2>0, <3>1, <3>3, <3>5 DEF LockHeld, Draining
    <3>7. HandsOK'
      BY <2>0, <3>0, <3>1, <3>4, <3>5 DEF HandsOK, ConnType
    <3>8. Kept' => WireOK'
      BY <2>0, <3>1, <3>3, <3>4, <3>5 DEF Kept, WireOK, UnitsInPlace, ConnType
    <3> QED
      BY <3>1, <3>2, <3>6, <3>7, <3>8 DEF ConnInv
  <2>5. ASSUME NEW t \in Threads, Put(t) PROVE ConnInv'
    <3>1. /\ ConnShape' /\ tc'.b = tc.b /\ tc'.lock = tc.lock 
          /\ tc'.broken = tc.broken /\ tc'.at = tc.at /\ tc'.sealed = tc.sealed /\ tc'.popped = tc.popped
          /\ tc'.from = [tc.from EXCEPT ![t] = tc.from[t] + 1] /\ tc'.upto = tc.upto
          /\ tc'.wire = Append(tc.wire, tc.from[t]) /\ tc'.cut = tc.cut /\ tc'.done = tc.done
          /\ tc'.arrived = tc.arrived /\ tc'.plain = tc.plain
      BY <2>0, <2>5 DEF ConnShape, Put
    <3>a. tc.from[t] \in Nat /\ tc.upto[t] \in Nat /\ tc.wire \in Seq(Nat)
      BY <2>0 DEF ConnType
    <3>2. ConnType'
      BY <2>0, <3>a, <3>1 DEF ConnType, Phases
    <3>3. Draining(t) /\ ~EmptyHanded(t) /\ \A u \in Threads : u # t => EmptyHanded(u)
      BY <2>0, <2>5, <2>h DEF Put
    <3>4. /\ tc'.from[t] = tc.from[t] + 1
          /\ \A u \in Threads : u # t => EmptyHanded(u)' /\ tc'.from[u] = tc.from[u]
      BY <2>0, <3>1, <3>3 DEF ConnType, EmptyHanded
    <3>5. LockHeld'
      BY <2>0, <3>1, <3>3, <3>4 DEF LockHeld, Draining
    <3>6. HandsOK'
      BY <2>0, <3>a, <3>1, <3>3, <3>4 DEF HandsOK, ConnType, EmptyHanded
    <3>7. ASSUME Kept PROVE WireOK'
      <4>1. UnitsInPlace /\ tc.done <= Len(tc.wire) /\ Len(tc.wire) = tc.from[t] - 1 /\ tc.from[t] >= 1 /\ tc.upto[t] = tc.popped
        BY <2>0, <3>3, <3>7 DEF WireOK, HandsOK
      <4>2. /\ Len(tc.wire) \in Nat /\ Len(tc'.wire) = Len(tc.wire) + 1
            /\ DOMAIN tc'.wire = 1..(Len(tc.wire) + 1) /\ DOMAIN tc.wire = 1..Len(tc.wire)
        BY <3>a, <3>1
      <4>a. /\ \A i \in 1..Len(tc.wire) : tc'.wire[i] = tc.wire[i]
            /\ tc'.wire[Len(tc.wire) + 1] = tc.from[t]
        BY <3>a, <3>1
      <4>3. UnitsInPlace'
        <5> SUFFICES ASSUME NEW i \in 1..(Len(tc.wire) + 1) PROVE tc'.wire[i] = i
          BY <4>2 DEF UnitsInPlace
        <5>1. CASE i \in 1..Len(tc.wire)
          BY <5>1, <4>1, <4>2, <4>a DEF UnitsInPlace
        <5>2. CASE i = Len(tc.wire) + 1
          BY <5>2, <3>a, <4>1, <4>2, <4>a
        <5> QED
          BY <4>2, <5>1, <5>2
      <4>4. tc'.done <= Len(tc'.wire) /\ Len(tc'.wire) = tc'.from[t] - 1
        BY <2>0, <3>a, <3>1, <3>4, <4>1, <4>2 DEF ConnType
      <4>5. EmptyHanded(t)' => Len(tc'.wire) = tc'.popped
        BY <2>0, <3>a, <3>1, <3>3, <3>4, <4>1, <4>4 DEF EmptyHanded, ConnType
      <4> QED
        BY <3>4, <4>3, <4>4, <4>5 DEF WireOK
    <3> QED
      BY <3>1, <3>2, <3>5, <3>6, <3>7 DEF ConnInv, Kept
  <2>6. ASSUME NEW t \in Threads, DrainDone(t) PROVE ConnInv'
    <3>1. /\ ConnShape' /\ tc'.b = tc.b /\ tc'.lock = "free" /\ tc'.broken = tc.broken
          /\ tc'.at = [tc.at EXCEPT ![t] = After(tc.at[t])] /\ tc'.sealed = tc.sealed
          /\ tc'.popped = tc.popped /\ tc'.from = tc.from /\ tc'.upto = tc.upto /\ tc'.wire = tc.wire
          /\ tc'.cut = tc.cut /\ tc'.done = (IF tc.at[t] = "flush" THEN tc.popped ELSE tc.done)
          /\ tc'.arrived = tc.arrived /\ tc'.plain = tc.plain
      BY <2>0, <2>6 DEF ConnShape, DrainDone
    <3>2. ConnType'
      BY <2>0, <3>1 DEF ConnType, Phases, After
    <3>3. Draining(t) /\ EmptyHanded(t) /\ \A u \in Threads : EmptyHanded(u) /\ (u # t => ~Draining(u))
      BY <2>0, <2>6 DEF DrainDone, LockHeld
    <3>4. After(tc.at[t]) \in {"written", "park", "idle"}
      BY <3>3 DEF Draining, After
    <3>5. LockHeld'
      BY <2>0, <3>1, <3>3, <3>4, ThreadAssumption DEF LockHeld, Draining, EmptyHanded, ConnType
    <3>6. HandsOK'
      BY <2>0, <3>1 DEF HandsOK, EmptyHanded
    <3>7. Kept' => WireOK'
      BY <2>0, <3>1, <3>3 DEF Kept, WireOK, UnitsInPlace, EmptyHanded, ConnType
    <3> QED
      BY <3>1, <3>2, <3>5, <3>6, <3>7 DEF ConnInv
  <2>7. ASSUME NEW t \in Threads, DrainFails(t) PROVE ConnInv'
    <3>0. tc.from[t] \in Nat /\ tc.upto[t] \in Nat /\ tc.from[t] >= 1 /\ tc.from[t] - 1 \in Nat /\ tc.popped \in Nat /\ tc.sealed \in Nat
      BY <2>0 DEF ConnType, HandsOK
    <3>1. /\ ConnShape' /\ tc'.b = tc.b /\ tc'.lock = "free" /\ tc'.at = [tc.at EXCEPT ![t] = "idle"]
          /\ tc'.sealed = tc.sealed /\ tc'.popped = (IF tc.b = "rustls" THEN tc.from[t] - 1 ELSE tc.popped)
          /\ tc'.from = tc.from /\ tc'.upto = [tc.upto EXCEPT ![t] = tc.from[t] - 1] /\ tc'.wire = tc.wire
          /\ tc'.cut = TRUE /\ tc'.done = tc.done /\ tc'.arrived = tc.arrived /\ tc'.plain = tc.plain
      BY <2>0, <2>7 DEF ConnShape, DrainFails
    <3>2. ConnType'
      BY <2>0, <3>0, <3>1 DEF ConnType, Phases
    <3>3. Draining(t) /\ ~EmptyHanded(t) /\ \A u \in Threads : u # t => EmptyHanded(u) /\ ~Draining(u)
      BY <2>0, <2>7, <2>h DEF DrainFails, LockHeld
    <3>4. \A u \in Threads : EmptyHanded(u)'
      BY <2>0, <3>0, <3>1, <3>3 DEF ConnType, EmptyHanded
    <3>5. LockHeld'
      BY <2>0, <3>1, <3>3, <3>4, ThreadAssumption DEF LockHeld, Draining, ConnType
    <3>6. tc'.popped <= tc'.sealed
      <4>1. tc.upto[t] = tc.popped /\ tc.popped <= tc.sealed /\ tc.from[t] <= tc.upto[t]
        BY <2>0, <3>0, <3>3 DEF HandsOK, EmptyHanded
      <4> QED
        BY <3>0, <3>1, <4>1
    <3>7. HandsOK'
      BY <2>0, <3>1, <3>4, <3>6 DEF HandsOK
    <3>8. ASSUME tc.b = "rustls" PROVE WireOK'
      <4>1. WireOK
        BY <2>0, <3>8 DEF Kept
      <4> QED
        BY <4>1, <3>8, <3>1, <3>3, <3>4 DEF WireOK, UnitsInPlace
    <3> QED
      BY <3>1, <3>2, <3>5, <3>7, <3>8 DEF ConnInv, Kept
  <2>8. CASE ConnRead
    <3>1. CASE tc' = [tc EXCEPT !.plain = 0]
      <4>1. /\ ConnShape' /\ tc'.b = tc.b /\ tc'.lock = tc.lock 
            /\ tc'.broken = tc.broken /\ tc'.at = tc.at /\ tc'.sealed = tc.sealed /\ tc'.popped = tc.popped
            /\ tc'.from = tc.from /\ tc'.upto = tc.upto /\ tc'.wire = tc.wire /\ tc'.cut = tc.cut
            /\ tc'.done = tc.done /\ tc'.arrived = tc.arrived /\ tc'.plain = 0
        BY <2>0, <3>1 DEF ConnShape
      <4>2. ConnType'
        BY <2>0, <4>1 DEF ConnType, Phases
      <4>4. LockHeld'
        BY <2>0, <4>1 DEF ConnType, LockHeld, Draining, EmptyHanded
      <4>5. HandsOK'
        BY <2>0, <4>1 DEF ConnType, HandsOK, EmptyHanded
      <4>6. Kept' => WireOK'
        BY <2>0, <4>1 DEF Kept, WireOK, UnitsInPlace, EmptyHanded
      <4> QED
        BY <4>1, <4>2, <4>4, <4>5, <4>6 DEF ConnInv
    <3>2. CASE tc' = [tc EXCEPT !.lock = Reader, !.at[Reader] = "pending"]
      <4>1. /\ ConnShape' /\ tc'.b = tc.b /\ tc'.lock = Reader 
            /\ tc'.broken = tc.broken /\ tc'.at = [tc.at EXCEPT ![Reader] = "pending"]
            /\ tc'.sealed = tc.sealed /\ tc'.popped = tc.popped /\ tc'.from = tc.from /\ tc'.upto = tc.upto
            /\ tc'.wire = tc.wire /\ tc'.cut = tc.cut /\ tc'.done = tc.done /\ tc'.arrived = tc.arrived
            /\ tc'.plain = tc.plain
        BY <2>0, <3>2 DEF ConnShape
      <4>2. ConnType'
        BY <2>0, <4>1 DEF ConnType, Phases
      <4>3. tc.lock = "free" /\ \A t \in Threads : ~Draining(t)
        BY <2>0, <2>8, ThreadAssumption DEF ConnRead, LockHeld
      <4>4. LockHeld'
        BY <2>0, <4>1, <4>3, ThreadAssumption DEF ConnType, LockHeld, Draining, EmptyHanded
      <4>5. HandsOK'
        BY <2>0, <4>1 DEF ConnType, HandsOK, EmptyHanded
      <4>6. Kept' => WireOK'
        BY <2>0, <4>1 DEF Kept, WireOK, UnitsInPlace, EmptyHanded
      <4> QED
        BY <4>1, <4>2, <4>4, <4>5, <4>6 DEF ConnInv
    <3>3. CASE tc' = [tc EXCEPT !.at[Reader] = "park"]
      <4>1. /\ ConnShape' /\ tc'.b = tc.b /\ tc'.lock = tc.lock 
            /\ tc'.broken = tc.broken /\ tc'.at = [tc.at EXCEPT ![Reader] = "park"] /\ tc'.sealed = tc.sealed
            /\ tc'.popped = tc.popped /\ tc'.from = tc.from /\ tc'.upto = tc.upto /\ tc'.wire = tc.wire
            /\ tc'.cut = tc.cut /\ tc'.done = tc.done /\ tc'.arrived = tc.arrived /\ tc'.plain = tc.plain
        BY <2>0, <3>3 DEF ConnShape
      <4>2. ConnType'
        BY <2>0, <4>1 DEF ConnType, Phases
      <4>3. tc.lock = "free" /\ \A t \in Threads : ~Draining(t)
        BY <2>0, <2>8, ThreadAssumption DEF ConnRead, LockHeld
      <4>4. LockHeld'
        BY <2>0, <4>1, <4>3, ThreadAssumption DEF ConnType, LockHeld, Draining, EmptyHanded
      <4>5. HandsOK'
        BY <2>0, <4>1 DEF ConnType, HandsOK, EmptyHanded
      <4>6. Kept' => WireOK'
        BY <2>0, <4>1 DEF Kept, WireOK, UnitsInPlace, EmptyHanded
      <4> QED
        BY <4>1, <4>2, <4>4, <4>5, <4>6 DEF ConnInv
    <3> QED
      BY <2>8, <3>1, <3>2, <3>3 DEF ConnRead
  <2>9. CASE SocketReads
    <3>0. tc.at[Reader] = "park"
      BY <2>9 DEF SocketReads
    <3>1. CASE tc' = [tc EXCEPT !.arrived = @ + 1, !.at[Reader] = "feed"]
      <4>1. /\ ConnShape' /\ tc'.b = tc.b /\ tc'.lock = tc.lock 
            /\ tc'.broken = tc.broken /\ tc'.at = [tc.at EXCEPT ![Reader] = "feed"] /\ tc'.sealed = tc.sealed
            /\ tc'.popped = tc.popped /\ tc'.from = tc.from /\ tc'.upto = tc.upto /\ tc'.wire = tc.wire
            /\ tc'.cut = tc.cut /\ tc'.done = tc.done /\ tc'.arrived = tc.arrived + 1 /\ tc'.plain = tc.plain
        BY <2>0, <3>1 DEF ConnShape
      <4>2. ConnType'
        BY <2>0, <4>1 DEF ConnType, Phases
      <4>4. LockHeld'
        BY <2>0, <3>0, <4>1 DEF ConnType, LockHeld, Draining, EmptyHanded
      <4>5. HandsOK'
        BY <2>0, <4>1 DEF ConnType, HandsOK, EmptyHanded
      <4>6. Kept' => WireOK'
        BY <2>0, <4>1 DEF Kept, WireOK, UnitsInPlace, EmptyHanded
      <4> QED
        BY <4>1, <4>2, <4>4, <4>5, <4>6 DEF ConnInv
    <3>2. CASE tc' = [tc EXCEPT !.at[Reader] = "idle"]
      <4>1. /\ ConnShape' /\ tc'.b = tc.b /\ tc'.lock = tc.lock 
            /\ tc'.broken = tc.broken /\ tc'.at = [tc.at EXCEPT ![Reader] = "idle"] /\ tc'.sealed = tc.sealed
            /\ tc'.popped = tc.popped /\ tc'.from = tc.from /\ tc'.upto = tc.upto /\ tc'.wire = tc.wire
            /\ tc'.cut = tc.cut /\ tc'.done = tc.done /\ tc'.arrived = tc.arrived /\ tc'.plain = tc.plain
        BY <2>0, <3>2 DEF ConnShape
      <4>2. ConnType'
        BY <2>0, <4>1 DEF ConnType, Phases
      <4>4. LockHeld'
        BY <2>0, <3>0, <4>1 DEF ConnType, LockHeld, Draining, EmptyHanded
      <4>5. HandsOK'
        BY <2>0, <4>1 DEF ConnType, HandsOK, EmptyHanded
      <4>6. Kept' => WireOK'
        BY <2>0, <4>1 DEF Kept, WireOK, UnitsInPlace, EmptyHanded
      <4> QED
        BY <4>1, <4>2, <4>4, <4>5, <4>6 DEF ConnInv
    <3> QED
      BY <2>9, <3>1, <3>2 DEF SocketReads
  <2>10. CASE ConnFeed
    <3>1. ASSUME NEW n \in {0, 2}, tc' = [tc EXCEPT !.plain = @ + 1, !.sealed = @ + n, !.at[Reader] = "idle"] PROVE ConnInv'
      <4>1. /\ ConnShape' /\ tc'.b = tc.b /\ tc'.lock = tc.lock 
            /\ tc'.broken = tc.broken /\ tc'.at = [tc.at EXCEPT ![Reader] = "idle"]
            /\ tc'.sealed = tc.sealed + n /\ tc'.popped = tc.popped /\ tc'.from = tc.from
            /\ tc'.upto = tc.upto /\ tc'.wire = tc.wire /\ tc'.cut = tc.cut /\ tc'.done = tc.done
            /\ tc'.arrived = tc.arrived
        BY <2>0, <3>1 DEF ConnShape
      <4>2. ConnType'
        BY <2>0, <4>1 DEF ConnType, Phases
      <4>3. tc.lock = "free" /\ \A t \in Threads : ~Draining(t)
        BY <2>0, <2>10, ThreadAssumption DEF ConnFeed, LockHeld
      <4>4. LockHeld'
        BY <2>0, <4>1, <4>3, ThreadAssumption DEF ConnType, LockHeld, Draining, EmptyHanded
      <4>5. HandsOK'
        BY <2>0, <4>1 DEF ConnType, HandsOK, EmptyHanded
      <4>6. Kept' => WireOK'
        BY <2>0, <4>1 DEF Kept, WireOK, UnitsInPlace, EmptyHanded
      <4> QED
        BY <4>1, <4>2, <4>4, <4>5, <4>6 DEF ConnInv
    <3>2. ASSUME NEW n \in {0, 2}, tc' = [tc EXCEPT !.plain = @ + 1, !.sealed = @ + n, !.lock = Reader, !.at[Reader] = "reply"] PROVE ConnInv'
      <4>1. /\ ConnShape' /\ tc'.b = tc.b /\ tc'.lock = Reader 
            /\ tc'.broken = tc.broken /\ tc'.at = [tc.at EXCEPT ![Reader] = "reply"]
            /\ tc'.sealed = tc.sealed + n /\ tc'.popped = tc.popped /\ tc'.from = tc.from
            /\ tc'.upto = tc.upto /\ tc'.wire = tc.wire /\ tc'.cut = tc.cut /\ tc'.done = tc.done
            /\ tc'.arrived = tc.arrived
        BY <2>0, <3>2 DEF ConnShape
      <4>2. ConnType'
        BY <2>0, <4>1 DEF ConnType, Phases
      <4>3. tc.lock = "free" /\ \A t \in Threads : ~Draining(t)
        BY <2>0, <2>10, ThreadAssumption DEF ConnFeed, LockHeld
      <4>4. LockHeld'
        BY <2>0, <4>1, <4>3, ThreadAssumption DEF ConnType, LockHeld, Draining, EmptyHanded
      <4>5. HandsOK'
        BY <2>0, <4>1 DEF ConnType, HandsOK, EmptyHanded
      <4>6. Kept' => WireOK'
        BY <2>0, <4>1 DEF Kept, WireOK, UnitsInPlace, EmptyHanded
      <4> QED
        BY <4>1, <4>2, <4>4, <4>5, <4>6 DEF ConnInv
    <3> QED
      BY <2>10, <3>1, <3>2 DEF ConnFeed
  <2>11. CASE UNCHANGED tc
    BY <2>0, <2>11 DEF ConnInv, ConnShape, ConnType, Kept, LockHeld, HandsOK, WireOK, UnitsInPlace, Draining, EmptyHanded
  <2> QED
    BY <2>1, <2>2, <2>3, <2>4, <2>5, <2>6, <2>7, <2>8, <2>9, <2>10, <2>11 DEF ConnNext
<1>3. ConnInv => RecordsUnmixed
  BY DEF ConnInv, Kept, WireOK, LockHeld, Draining, RecordsUnmixed, ConnType
<1> QED
  BY <1>1, <1>2, <1>3, PTL DEF ConnSpec
=============================================================================
