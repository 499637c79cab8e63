----------------------------- MODULE Discovery -----------------------------
(***************************************************************************)
(* What a magnet link needs before its torrent can start: peers, from the  *)
(* command line, the trackers in turn (tracker.rs) or the DHT (dht.rs),    *)
(* then the info dictionary, from any of them (metadata.rs).  Datagrams    *)
(* may come from elsewhere, late or forged; a reply that did not answer us *)
(* carries the address Forged.  Peers are scripts: what one would say over *)
(* one connection.                                                         *)
(***************************************************************************)
EXTENDS Integers, Sequences, FiniteSetsExt, SequencesExt

CONSTANTS Trackers,      \* kinds of the magnet's trackers, in order
          TrackerPeers,  \* peers a genuine announce names
          Forged, NoNode,
          Bootstrap, NodeReply, Dist,   \* the DHT: nodes to start from, what each answers, its distance
          Alpha, MaxKnown, EnoughPeers, MaxReplies,
          Sends, MaxStray,
          Scripts, Info, PieceSize, MaxMetadata, MaxParallel

VARIABLE disc

NoDiscovery == [on |-> FALSE]
Seekers == 1..MaxParallel
Gone == [pc |-> "gone", i |-> 0, res |-> <<>>]
NoUdp == [stage |-> "none", sends |-> 0, open |-> FALSE, reads |-> 0]

\* --bt-peer and the link's own peers; --no-dht.
DiscoveryInit ==
    \E given \in {{}, TrackerPeers}, no_dht, parses \in BOOLEAN :
       disc = [on |-> TRUE, pc |-> IF given = {} THEN "trackers" ELSE "meta", peers |-> given, no_dht |-> no_dht,
               parses |-> parses, tr |-> 1, u |-> NoUdp,
               frontier |-> Bootstrap, queried |-> {}, known |-> {}, q |-> NoNode, reads |-> 0, late |-> FALSE, asked |-> 0,
               next |-> 0, done |-> FALSE, th |-> [w \in Seekers |-> Gone], chan |-> <<>>, last |-> "none", tried |-> {}]

-----------------------------------------------------------------------------
(* The trackers, until one yields peers.                                   *)

bt_announce_peers(d, got) ==
    IF got # {} THEN [d EXCEPT !.peers = got, !.pc = "meta", !.u = NoUdp]
    ELSE [d EXCEPT !.tr = @ + 1, !.pc = "trackers", !.u = NoUdp]

\* A status other than 200, a failure reason, an unparsable body; or a list, in
\* any of its three forms, that may be empty.
http_announce == {{}, TrackerPeers}

announce ==
    /\ disc.pc = "trackers" /\ disc.tr <= Len(Trackers)
    /\ \/ Trackers[disc.tr] = "http" /\ \E got \in http_announce : disc' = bt_announce_peers(disc, got)
       \/ Trackers[disc.tr] = "udp" /\ disc' = [disc EXCEPT !.pc = "udp", !.u = [NoUdp EXCEPT !.stage = "connect"]]
       \/ Trackers[disc.tr] \notin {"http", "udp"} /\ disc' = bt_announce_peers(disc, {})

\* No tracker helped: the DHT, unless it is off or has nowhere to start.
bt_dht_peers ==
    /\ disc.pc = "trackers" /\ disc.tr > Len(Trackers)
    /\ disc' = [disc EXCEPT !.pc = IF disc.no_dht \/ Bootstrap = <<>> THEN "nopeers" ELSE "dht"]

Datagram == [here : BOOLEAN, ours : BOOLEAN, header : BOOLEAN, full : BOOLEAN, action : {"connect", "announce", "error"}]
Matches_AnySource(g) == g.header /\ g.ours
Matches(g) == g.here /\ g.header /\ g.ours
PeersIn(g) == IF g.here /\ g.ours THEN TrackerPeers ELSE {Forged}

\* Each attempt is a send and a bounded number of reads; strays cost no attempt.
UdpSend ==
    /\ disc.pc = "udp" /\ ~disc.u.open
    /\ \/ disc.u.sends < Sends
          /\ disc' = [disc EXCEPT !.u = [@ EXCEPT !.sends = @ + 1, !.open = TRUE, !.reads = 0]]
       \/ disc' = bt_announce_peers(disc, {})
\* The reply of either round trip.
udp_announce(g) ==
    IF g.action # disc.u.stage \/ ~g.full THEN bt_announce_peers(disc, {})
    ELSE IF disc.u.stage = "connect" THEN [disc EXCEPT !.u = [NoUdp EXCEPT !.stage = "announce"]]
    ELSE bt_announce_peers(disc, PeersIn(g))
udp_round_trip ==
    /\ disc.pc = "udp" /\ disc.u.open
    /\ \/ \E g \in Datagram :
             disc' = IF Matches(g) THEN udp_announce(g)
                     ELSE [disc EXCEPT !.u.reads = @ + 1, !.u.open = disc.u.reads + 1 < MaxStray]
       \/ disc' = [disc EXCEPT !.u.open = FALSE]
       \/ disc' = bt_announce_peers(disc, {})

-----------------------------------------------------------------------------
(* The DHT: rounds over a frontier of the closest nodes not yet asked.     *)

Closest(nodes, n) == {a \in nodes : Cardinality({b \in nodes : Dist[b] < Dist[a]}) < n}
InOrder(nodes) == SetToSortSeq(nodes, LAMBDA a, b : Dist[a] < Dist[b])
LookupDone(d) == [d EXCEPT !.pc = IF d.peers = {} THEN "nopeers" ELSE "meta", !.q = NoNode]

find_peers ==
    /\ disc.pc = "dht" /\ disc.q = NoNode
    /\ \/ disc.late /\ disc' = LookupDone(disc)
       \/ ~disc.late /\ disc.frontier # <<>>
          /\ LET a == Head(disc.frontier)
                 d == [disc EXCEPT !.frontier = Tail(@), !.queried = @ \cup {a}] IN
             IF a \in disc.queried THEN disc' = d
             ELSE \/ disc' = [d EXCEPT !.q = a, !.reads = 0, !.asked = @ + 1]
                  \/ disc' = d                       \* no socket of that family
NextRound ==
    /\ disc.pc = "dht" /\ disc.q = NoNode /\ ~disc.late /\ disc.frontier = <<>>
    /\ LET known == Closest(disc.known, MaxKnown)
           todo == Closest(known \ disc.queried, Alpha) IN
       disc' = IF Cardinality(disc.peers) >= EnoughPeers \/ todo = {}
               THEN LookupDone([disc EXCEPT !.known = known])
               ELSE [disc EXCEPT !.known = known, !.frontier = InOrder(todo)]
DeadlinePasses == disc.pc = "dht" /\ ~disc.late /\ disc' = [disc EXCEPT !.late = TRUE]

parse_response(d, here) ==
    LET r == IF here THEN NodeReply[d.q] ELSE [peers |-> {Forged}, nodes |-> {}] IN
    [d EXCEPT !.peers = @ \cup r.peers, !.known = @ \cup (r.nodes \ d.queried), !.q = NoNode]
query ==
    /\ disc.pc = "dht" /\ disc.q # NoNode
    /\ \/ \E here, response, ours \in BOOLEAN :
             disc' = IF here /\ response /\ ours THEN parse_response(disc, here /\ ours)
                     ELSE [disc EXCEPT !.reads = @ + 1, !.q = IF disc.reads + 1 < MaxReplies THEN @ ELSE NoNode]
       \/ disc' = [disc EXCEPT !.q = NoNode]         \* timeout or error

-----------------------------------------------------------------------------
(* The info dictionary over one connection.                                *)

Ours == 1                                             \* OUR_UT_METADATA_ID
RECURSIVE read_piece_data(_, _)
read_piece_data(msgs, piece) ==
    IF msgs = <<>> THEN [ok |-> FALSE]
    ELSE LET m == Head(msgs) IN
         CASE m.ext = Ours /\ m.type = "data" -> [ok |-> m.piece = piece, body |-> m.body, rest |-> Tail(msgs)]
           [] m.ext = Ours /\ m.type = "reject" -> [ok |-> FALSE]
           [] OTHER -> read_piece_data(Tail(msgs), piece)
read_peer_handshake(s) == s.ut \in 1..255 /\ s.size >= 0

RECURSIVE Pieces(_, _, _, _)
Pieces(size, msgs, piece, info) ==
    IF piece * PieceSize >= size THEN [ok |-> TRUE, info |-> info]
    ELSE LET r == read_piece_data(msgs, piece)
             left == size - piece * PieceSize IN
         IF ~r.ok \/ Len(r.body) # (IF left < PieceSize THEN left ELSE PieceSize) THEN [ok |-> FALSE, info |-> <<>>]
         ELSE Pieces(size, r.rest, piece + 1, info \o r.body)
fetch_info(s) ==
    IF ~(s.hash /\ s.ext /\ read_peer_handshake(s) /\ s.size \in 1..MaxMetadata) THEN [ok |-> FALSE, info |-> <<>>]
    ELSE LET r == Pieces(s.size, s.msgs, 0, <<>>) IN
         IF r.ok /\ r.info = Info THEN r ELSE [ok |-> FALSE, info |-> <<>>]

-----------------------------------------------------------------------------
(* The workers of fetch_metainfo share a counter, a flag and a channel.    *)

PeerSeq == SetToSeq(disc.peers)
fetch_metainfo ==
    /\ disc.pc = "meta"
    /\ disc' = [disc EXCEPT !.pc = "fetching",
                            !.th = [w \in Seekers |-> IF w <= Cardinality(disc.peers) THEN [Gone EXCEPT !.pc = "look"] ELSE Gone]]
Look(w) ==
    /\ disc.th[w].pc = "look"
    /\ disc' = [disc EXCEPT !.th[w].pc = IF disc.done THEN "gone" ELSE "claim"]
Claim(w) ==
    /\ disc.th[w].pc = "claim"
    /\ disc' = [disc EXCEPT !.next = @ + 1,
                            !.th[w] = IF disc.next >= Cardinality(disc.peers) THEN Gone ELSE [@ EXCEPT !.pc = "fetch", !.i = disc.next + 1]]
\* The peer may also be out of reach or silent.
Fetch(w) ==
    /\ disc.th[w].pc = "fetch"
    /\ \E r \in {fetch_info(Scripts[PeerSeq[disc.th[w].i]]), [ok |-> FALSE, info |-> <<>>]} :
          disc' = [disc EXCEPT !.th[w] = [@ EXCEPT !.pc = "send", !.res = r], !.tried = @ \cup {PeerSeq[disc.th[w].i]}]
\* The receiver is gone once the call has returned.
Post(w) ==
    /\ disc.th[w].pc = "send"
    /\ LET r == disc.th[w].res IN
       disc' = [disc EXCEPT !.chan = IF disc.pc = "fetching" THEN Append(@, r) ELSE @,
                            !.th[w] = IF disc.pc # "fetching" \/ r.ok THEN Gone ELSE [Gone EXCEPT !.pc = "look"]]
Receive ==
    /\ disc.pc = "fetching" /\ disc.chan # <<>>
    /\ LET r == Head(disc.chan) IN
       disc' = IF r.ok THEN [disc EXCEPT !.done = TRUE, !.chan = <<>>, !.last = r.info,
                                         !.pc = IF disc.parses THEN "ok" ELSE "unparsable"]
               ELSE [disc EXCEPT !.chan = Tail(@)]
AllGone ==
    /\ disc.pc = "fetching" /\ disc.chan = <<>> /\ \A w \in Seekers : disc.th[w].pc = "gone"
    /\ disc' = [disc EXCEPT !.pc = "err"]

DiscoveryNext ==
    \/ announce \/ bt_dht_peers \/ UdpSend \/ udp_round_trip
    \/ find_peers \/ NextRound \/ DeadlinePasses \/ query
    \/ fetch_metainfo \/ Receive \/ AllGone
    \/ \E w \in Seekers : Look(w) \/ Claim(w) \/ Fetch(w) \/ Post(w)

-----------------------------------------------------------------------------
\* Discovery believes only what answers it: every peer comes from a reply of the
\* tracker or node asked, to the transaction asked; no node is asked twice, and a
\* lookup that runs dry has asked the closest nodes it knows.  The dictionary kept
\* is the one the infohash names, and the search fails only once every peer has.
DiscoverySound ==
    disc.on =>
        /\ Forged \notin disc.peers
        /\ disc.asked <= Cardinality(disc.queried)
        /\ (disc.pc \in {"nopeers", "meta"} /\ disc.queried # {} /\ ~disc.late /\ Cardinality(disc.peers) < EnoughPeers)
              => Closest(disc.known, MaxKnown) \subseteq disc.queried
        /\ disc.pc = "ok" => disc.last = Info
        /\ disc.pc = "nopeers" => disc.peers = {}
        /\ disc.pc = "err" => disc.tried = disc.peers
        /\ \A w, v \in Seekers : w # v /\ disc.th[w].i > 0 => disc.th[w].i # disc.th[v].i

\* A discovery ends, with every worker gone.
DiscoveryOver == disc.on => disc.pc \in {"ok", "unparsable", "err", "nopeers"} /\ \A w \in Seekers : disc.th[w].pc = "gone"
=============================================================================
