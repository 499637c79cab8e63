--------------------------- MODULE HttpSendProofs ---------------------------
(***************************************************************************)
(* For any number of threads, requests, tokens and connections and any     *)
(* caps: the idle pools are sound, a request only travels on a connection  *)
(* it would have dialled itself, and a request is not sent again over TCP  *)
(* unless that is justified.                                               *)
(*                                                                         *)
(* The inductive invariant SendInv says who owns a connection: each open   *)
(* connection that a thread or a pool entry names is named once, and it    *)
(* was made for the request that holds it, or for a request r that was     *)
(* allowed to park it under the key the entry carries.  That r need not be *)
(* the request that takes the connection out; SamePeer shows that the key, *)
(* with the test that both passed, determines the peer.                    *)
(***************************************************************************)
EXTENDS HttpSend, FiniteSetTheorems, TLAPS

Kinds == {"plain", "tls", "h2"}

PCs == {"idle", "checkout", "dial", "check", "insert", "recheck", "hello", "head",
        "body", "return"}

\* The requests a connection of this kind can carry.
Fits(r, kind) == kind = "h2" \/ kind = (IF r.scheme = "https" THEN "tls" ELSE "plain")

Entries == [kind : Kinds, key : {KeyFor(r, k) : r \in Requests, k \in Kinds}, conn : Conns]

SendTypes ==
    /\ pc \in [Threads -> PCs]
    /\ req \in [Threads -> Requests \cup {Idle}]
    /\ conn \in [Threads -> Conns \cup {NoConn}]
    /\ plan = [t \in Threads |-> plan[t]]
    /\ made \in [Conns -> {Closed} \cup [kind : Kinds, peer : {Peer(r) : r \in Requests}]]
    /\ pool \in Seq(Entries)

\* A thread here has a connection.
Busy == {"check", "insert", "recheck", "hello", "head", "body"}

\* A call under way has a request, and a connection from when it took or dialled
\* one.
CallOK(t) ==
    /\ pc[t] # "idle" => req[t] \in Requests
    /\ pc[t] \in {"idle", "checkout", "dial"} => conn[t] = NoConn
    /\ pc[t] \in Busy => conn[t] # NoConn

\* The connection of a thread is its own and made for its request.
HeldOK(t) ==
    conn[t] # NoConn =>
        /\ made[conn[t]] = [kind |-> Kind(t), peer |-> Peer(req[t])]
        /\ \A u \in Threads : conn[u] = conn[t] => u = t
        /\ \A i \in 1 .. Len(pool) : pool[i].conn # conn[t]

\* A parked connection is there once, made for some request that might park it.
ParkedOK(i) ==
    /\ \A j \in 1 .. Len(pool) : pool[j].conn = pool[i].conn => j = i
    /\ \E r \in Requests :
          /\ Fits(r, pool[i].kind) /\ MayPool(r, pool[i].kind)
          /\ pool[i].key = KeyFor(r, pool[i].kind)
          /\ made[pool[i].conn] = [kind |-> pool[i].kind, peer |-> Peer(r)]

CapsOK ==
    \A kind \in Kinds :
        /\ Cardinality(OfKind(kind)) <= GlobalCap
        /\ \A key \in {KeyFor(r, k) : r \in Requests, k \in Kinds} :
              Cardinality(Bucket(kind, key)) <= PerKeyCap

SendInv ==
    /\ SendTypes
    /\ \A t \in Threads : CallOK(t) /\ HeldOK(t)
    /\ \A i \in 1 .. Len(pool) : ParkedOK(i)
    /\ CapsOK

-----------------------------------------------------------------------------
(* Facts about the operators. *)

LEMMA Constants ==
    /\ Requests \subseteq RequestType
    /\ PerKeyCap \in Nat /\ PerKeyCap >= 1 /\ GlobalCap \in Nat /\ GlobalCap >= 1
    /\ MaxConns \in Nat /\ NoConn \notin Conns /\ Idle \notin Requests
<1>1. Idle \notin RequestType
    BY DEF Idle, RequestType
<1> QED
    BY <1>1, HttpSendAssumption DEF Conns, NoConn

\* The kind a connection is dialled as fits the request.
LEMMA KindFits ==
    ASSUME NEW r, NEW p
    PROVE KindOf(r, p) \in Kinds /\ Fits(r, KindOf(r, p))
BY DEF KindOf, Kinds, Fits

\* Two requests that may share a pool and have one key have one peer.
LEMMA SamePeer ==
    ASSUME NEW r \in Requests, NEW s \in Requests, NEW kind \in Kinds,
           Fits(r, kind), Fits(s, kind), MayPool(r, kind), MayPool(s, kind),
           KeyFor(r, kind) = KeyFor(s, kind)
    PROVE Peer(r) = Peer(s)
<1>1. r \in RequestType /\ s \in RequestType
    BY Constants
<1>2. r.scheme = s.scheme /\ r.host = s.host /\ r.part = s.part
    BY DEF KeyFor
<1>3. r.via \in {"direct", "resolved"} /\ s.via \in {"direct", "resolved"}
    BY DEF MayPool, TlsPoolEligible, Kinds
<1>4. r.dial = s.dial
    BY DEF KeyFor, MayPool, Kinds
<1>5. (r.scheme = "https" => r.posture = "default" /\ s.posture = "default")
    BY <1>1, <1>2 DEF MayPool, TlsPoolEligible, Kinds, Fits
<1> QED
    BY <1>2, <1>3, <1>4, <1>5 DEF Peer

\* A peer has the key of its request.
LEMMA PeerKey == ASSUME NEW r, NEW kind PROVE KeyFor(Peer(r), kind) = KeyFor(r, kind)
BY DEF KeyFor, Peer

\* An entry of an idle pool out of the way of the ones behind it.
LEMMA RemoveAtFacts ==
    ASSUME NEW S, NEW s \in Seq(S), NEW i \in 1 .. Len(s)
    PROVE /\ RemoveAt(s, i) \in Seq(S)
          /\ Len(RemoveAt(s, i)) = Len(s) - 1
          /\ \A j \in 1 .. Len(s) - 1 : RemoveAt(s, i)[j] = s[IF j < i THEN j ELSE j + 1]
<1> DEFINE a == SubSeq(s, 1, i - 1)
           b == SubSeq(s, i + 1, Len(s))
<1>1. a \in Seq(S) /\ b \in Seq(S)
    OBVIOUS
<1>2. Len(a) = i - 1 /\ Len(b) = Len(s) - i
    OBVIOUS
<1>3. RemoveAt(s, i) = a \o b
    BY DEF RemoveAt
<1>4. \A j \in 1 .. i - 1 : a[j] = s[j]
    OBVIOUS
<1>5. \A j \in 1 .. Len(s) - i : b[j] = s[i + j]
    OBVIOUS
<1> HIDE DEF a, b
<1>6. Len(s) \in Nat /\ i \in Nat /\ i <= Len(s) /\ 1 <= i
    OBVIOUS
<1>7. a \o b \in Seq(S) /\ Len(a \o b) = Len(s) - 1
    BY <1>1, <1>2, <1>6
<1>8. ASSUME NEW j \in 1 .. Len(s) - 1
      PROVE (a \o b)[j] = s[IF j < i THEN j ELSE j + 1]
    <2>1. CASE j < i
        BY <1>1, <1>2, <1>4, <1>6, <2>1
    <2>2. CASE ~(j < i)
        <3>1. j - (i - 1) \in 1 .. Len(s) - i /\ i + (j - (i - 1)) = j + 1
            BY <1>6, <2>2
        <3>2. (a \o b)[j] = b[j - (i - 1)]
            BY <1>1, <1>2, <1>6, <2>2
        <3> QED
            BY <1>5, <2>2, <3>1, <3>2
    <2> QED
        BY <2>1, <2>2
<1> QED
    BY <1>3, <1>7, <1>8

-----------------------------------------------------------------------------
(* The steps, by what they do to connections. *)

LEMMA CapsKept == ASSUME CapsOK, pool' = pool PROVE CapsOK'
<1>1. ASSUME NEW kind \in Kinds, NEW key
      PROVE OfKind(kind)' = OfKind(kind) /\ Bucket(kind, key)' = Bucket(kind, key)
    BY DEF OfKind, Bucket
<1> QED
    BY <1>1 DEF CapsOK

\* Steps that touch no connection, pool entry, request or plan.
LEMMA QuietStep ==
    ASSUME SendInv, UNCHANGED << req, plan, conn, made, pool >>,
           NEW t \in Threads, NEW where \in PCs, pc' = [pc EXCEPT ![t] = where],
           pc[t] # "idle",
           where \in {"idle", "checkout", "dial"} => conn[t] = NoConn,
           where \in Busy => conn[t] # NoConn
    PROVE SendInv'
<1>1. SendTypes'
    BY DEF SendInv, SendTypes
<1>2. ASSUME NEW u \in Threads PROVE CallOK(u)' /\ HeldOK(u)'
    <2>1. CallOK(u) /\ CallOK(t) /\ HeldOK(u) /\ pc \in [Threads -> PCs]
        BY DEF SendInv, SendTypes
    <2>2. CallOK(u)'
        BY <2>1 DEF CallOK
    <2>3. HeldOK(u)'
        BY <2>1 DEF HeldOK, Kind, Proto
    <2> QED
        BY <2>2, <2>3
<1>3. ASSUME NEW i \in 1 .. Len(pool)' PROVE ParkedOK(i)'
    BY DEF SendInv, ParkedOK
<1>4. CapsOK'
    BY CapsKept DEF SendInv
<1> QED
    BY <1>1, <1>2, <1>3, <1>4 DEF SendInv

\* Nothing of the calls, the connections and the pools changes.
LEMMA StillStep ==
    ASSUME SendInv, UNCHANGED << pc, req, plan, conn, unsafe, made, pool >>
    PROVE SendInv'
<1>1. SendTypes'
    BY DEF SendInv, SendTypes
<1>2. ASSUME NEW u \in Threads PROVE CallOK(u)' /\ HeldOK(u)'
    <2>1. CallOK(u) /\ HeldOK(u)
        BY DEF SendInv
    <2> QED
        BY <2>1 DEF HeldOK, Kind, Proto, CallOK
<1>3. ASSUME NEW i \in 1 .. Len(pool)' PROVE ParkedOK(i)'
    BY DEF SendInv, ParkedOK
<1>4. CapsOK'
    BY CapsKept DEF SendInv
<1> QED
    BY <1>1, <1>2, <1>3, <1>4 DEF SendInv

\* A thread without a connection goes on with another request or plan.
LEMMA EmptyHanded ==
    ASSUME SendInv, UNCHANGED << conn, made, pool >>,
           NEW t \in Threads, conn[t] = NoConn,
           NEW where \in PCs \ Busy, pc' = [pc EXCEPT ![t] = where],
           NEW r \in Requests, req' = [req EXCEPT ![t] = r],
           NEW p, plan' = [plan EXCEPT ![t] = p]
    PROVE SendInv'
<1>1. SendTypes'
    BY DEF SendInv, SendTypes
<1>2. ASSUME NEW u \in Threads PROVE CallOK(u)' /\ HeldOK(u)'
    <2>1. /\ CallOK(u) /\ HeldOK(u) /\ pc \in [Threads -> PCs]
          /\ req \in [Threads -> Requests \cup {Idle}] /\ DOMAIN plan = Threads
        BY DEF SendInv, SendTypes
    <2>2. CallOK(u)'
        BY <2>1 DEF CallOK
    <2>3. HeldOK(u)'
        <3>1. CASE u = t
            BY <3>1 DEF HeldOK
        <3>2. CASE u # t
            <4>1. Kind(u)' = Kind(u) /\ req'[u] = req[u]
                BY <2>1, <3>2 DEF Kind, Proto
            <4> QED
                BY <2>1, <4>1 DEF HeldOK
        <3> QED
            BY <3>1, <3>2
    <2> QED
        BY <2>2, <2>3
<1>3. ASSUME NEW i \in 1 .. Len(pool)' PROVE ParkedOK(i)'
    BY DEF SendInv, ParkedOK
<1>4. CapsOK'
    BY CapsKept DEF SendInv
<1> QED
    BY <1>1, <1>2, <1>3, <1>4 DEF SendInv

\* A thread drops its connection, which closes it for nobody else.
LEMMA DropStep ==
    ASSUME SendInv, NEW t \in Threads, Close(t), pool' = pool,
           NEW where \in PCs \ Busy, pc' = [pc EXCEPT ![t] = where],
           NEW r \in Requests \cup {Idle}, req' = [req EXCEPT ![t] = r],
           where # "idle" => r \in Requests,
           NEW p, plan' = [plan EXCEPT ![t] = p]
    PROVE SendInv'
<1>1. /\ conn' = [conn EXCEPT ![t] = NoConn]
      /\ made' = [c \in Conns |-> IF c = conn[t] THEN Closed ELSE made[c]]
    BY DEF Close
<1>2. SendTypes'
    BY <1>1 DEF SendInv, SendTypes
<1>3. ASSUME NEW u \in Threads PROVE CallOK(u)' /\ HeldOK(u)'
    <2>1. /\ CallOK(u) /\ HeldOK(u) /\ HeldOK(t) /\ pc \in [Threads -> PCs]
          /\ req \in [Threads -> Requests \cup {Idle}] /\ DOMAIN plan = Threads
          /\ conn \in [Threads -> Conns \cup {NoConn}]
        BY DEF SendInv, SendTypes
    <2>2. CallOK(u)'
        BY <1>1, <2>1 DEF CallOK
    <2>3. HeldOK(u)'
        <3>1. CASE u = t
            BY <1>1, <2>1, <3>1 DEF HeldOK
        <3>2. CASE u # t /\ conn[u] # NoConn
            <4>1. Kind(u)' = Kind(u) /\ req'[u] = req[u] /\ conn'[u] = conn[u]
                BY <1>1, <2>1, <3>2 DEF Kind, Proto
            <4>2. conn[u] # conn[t] /\ conn[u] \in Conns
                BY <2>1, <3>2 DEF HeldOK
            <4>3. made'[conn[u]] = made[conn[u]]
                BY <1>1, <4>2
            <4>4. \A v \in Threads : conn'[v] = conn[u] => v = u
                BY <1>1, <2>1, <3>2 DEF HeldOK
            <4> QED
                BY <2>1, <3>2, <4>1, <4>3, <4>4 DEF HeldOK
        <3>3. CASE u # t /\ conn[u] = NoConn
            BY <1>1, <2>1, <3>3 DEF HeldOK
        <3> QED
            BY <3>1, <3>2, <3>3
    <2> QED
        BY <2>2, <2>3
<1>4. ASSUME NEW i \in 1 .. Len(pool)' PROVE ParkedOK(i)'
    <2>1. i \in 1 .. Len(pool) /\ ParkedOK(i) /\ HeldOK(t) /\ pool[i] \in Entries
        BY DEF SendInv, SendTypes
    <2>2. pool[i].conn # conn[t] /\ pool[i].conn \in Conns
        BY <2>1, Constants DEF HeldOK, Entries
    <2>3. made'[pool[i].conn] = made[pool[i].conn]
        BY <1>1, <2>2
    <2> QED
        BY <2>1, <2>3 DEF ParkedOK
<1>5. CapsOK'
    BY CapsKept DEF SendInv
<1> QED
    BY <1>2, <1>3, <1>4, <1>5 DEF SendInv

\* A dial opens a connection nobody names.
LEMMA DialStep ==
    ASSUME SendInv, NEW t \in Threads, Dial(t)
    PROVE SendInv'
<1>1. PICK c \in Conns :
          /\ made[c] = Closed
          /\ made' = [made EXCEPT ![c] = [kind |-> Kind(t), peer |-> Peer(req[t])]]
          /\ conn' = [conn EXCEPT ![t] = c]
    BY DEF Dial
<1>2. /\ pc[t] = "dial" /\ UNCHANGED << req, plan, unsafe, pool >>
      /\ \E where \in PCs \ {"idle", "checkout", "dial"} : pc' = [pc EXCEPT ![t] = where]
    <2> DEFINE w == IF req[t].token # NoToken /\ req[t].via # "connector"
                    THEN "check" ELSE Connected(t)
    <2>1. pc' = [pc EXCEPT ![t] = w]
        BY DEF Dial, Goto
    <2>2. w \in PCs \ {"idle", "checkout", "dial"}
        BY DEF Connected, PCs
    <2>3. pc[t] = "dial" /\ UNCHANGED << req, plan, unsafe, pool >>
        BY DEF Dial
    <2> HIDE DEF w
    <2> QED
        BY <2>1, <2>2, <2>3
<1>3. /\ pc \in [Threads -> PCs] /\ req[t] \in Requests /\ conn[t] = NoConn /\ NoConn \notin Conns
      /\ conn \in [Threads -> Conns \cup {NoConn}] /\ c # NoConn
      /\ made \in [Conns -> {Closed} \cup [kind : Kinds, peer : {Peer(r) : r \in Requests}]]
    BY <1>2, Constants DEF SendInv, SendTypes, CallOK
<1>4. Closed.kind = "none" /\ Kind(t) \in Kinds
    BY KindFits DEF Closed, Kind
<1>5. \A u \in Threads : conn[u] # c
    <2>1. SUFFICES ASSUME NEW u \in Threads, conn[u] = c PROVE FALSE
        OBVIOUS
    <2>2. made[c] = [kind |-> Kind(u), peer |-> Peer(req[u])] /\ Kind(u) \in Kinds
        BY <1>3, <2>1, KindFits DEF SendInv, HeldOK, Kind
    <2> QED
        BY <1>1, <1>4, <2>2 DEF Kinds
<1>6. \A i \in 1 .. Len(pool) : pool[i].conn # c
    <2>1. SUFFICES ASSUME NEW i \in 1 .. Len(pool), pool[i].conn = c PROVE FALSE
        OBVIOUS
    <2>2. pool[i] \in Entries /\ ParkedOK(i)
        BY DEF SendInv, SendTypes
    <2>3. made[c].kind = pool[i].kind /\ pool[i].kind \in Kinds
        BY <2>1, <2>2 DEF ParkedOK, Entries
    <2> QED
        BY <1>1, <1>4, <2>3 DEF Kinds
<1>7. SendTypes'
    <2>1. [kind |-> Kind(t), peer |-> Peer(req[t])]
              \in [kind : Kinds, peer : {Peer(r) : r \in Requests}]
        BY <1>3, <1>4
    <2> QED
        BY <1>1, <1>2, <1>3, <2>1 DEF SendInv, SendTypes
<1>8. ASSUME NEW u \in Threads PROVE CallOK(u)' /\ HeldOK(u)'
    <2>1. CallOK(u) /\ HeldOK(u) /\ Kind(u)' = Kind(u)
        BY <1>2 DEF SendInv, Kind, Proto
    <2>2. CallOK(u)'
        BY <1>1, <1>2, <1>3, <2>1 DEF CallOK, Busy
    <2>3. CASE u = t
        <3>1. conn'[u] = c /\ made'[c] = [kind |-> Kind(t), peer |-> Peer(req[t])]
            BY <1>1, <1>3, <2>3
        <3>2. \A v \in Threads : conn'[v] = c => v = u
            BY <1>1, <1>3, <1>5, <2>3
        <3> QED
            BY <1>2, <1>6, <2>1, <2>2, <2>3, <3>1, <3>2 DEF HeldOK
    <2>4. CASE u # t
        <3>1. conn'[u] = conn[u] /\ conn[u] # c
            BY <1>1, <1>3, <1>5, <2>4
        <3>2. conn[u] # NoConn => made'[conn[u]] = made[conn[u]]
            BY <1>1, <1>3, <3>1
        <3>3. conn[u] # NoConn => \A v \in Threads : conn'[v] = conn[u] => v = u
            BY <1>1, <1>3, <1>5, <2>1 DEF HeldOK
        <3> QED
            BY <1>2, <2>1, <2>2, <3>1, <3>2, <3>3 DEF HeldOK
    <2> QED
        BY <2>3, <2>4
<1>9. ASSUME NEW i \in 1 .. Len(pool)' PROVE ParkedOK(i)'
    <2>1. i \in 1 .. Len(pool) /\ ParkedOK(i) /\ pool[i] \in Entries
        BY <1>2 DEF SendInv, SendTypes
    <2>2. made'[pool[i].conn] = made[pool[i].conn]
        BY <1>1, <1>3, <1>6, <2>1 DEF Entries
    <2> QED
        BY <1>2, <2>1, <2>2 DEF ParkedOK
<1> QED
    BY <1>2, <1>7, <1>8, <1>9, CapsKept DEF SendInv

\* A connection taken from a pool was made for the request that takes it.
LEMMA TakeStep ==
    ASSUME SendInv, NEW t \in Threads, pc[t] = "checkout", MayPool(req[t], Kind(t)),
           NEW i \in Bucket(Kind(t), KeyFor(req[t], Kind(t))), pool' = RemoveAt(pool, i),
           conn' = [conn EXCEPT ![t] = pool[i].conn], pc' = [pc EXCEPT ![t] = "head"],
           UNCHANGED << req, plan, unsafe, made >>
    PROVE SendInv'
<1> DEFINE Old(j) == IF j < i THEN j ELSE j + 1
<1>1. /\ pool \in Seq(Entries) /\ i \in 1 .. Len(pool) /\ pool[i] \in Entries
      /\ pool[i].kind = Kind(t) /\ pool[i].key = KeyFor(req[t], Kind(t))
      /\ pc \in [Threads -> PCs] /\ req[t] \in Requests /\ conn[t] = NoConn
      /\ conn \in [Threads -> Conns \cup {NoConn}] /\ ParkedOK(i) /\ Kind(t) \in Kinds
      /\ NoConn \notin Conns /\ Fits(req[t], Kind(t))
    BY Constants, KindFits DEF SendInv, SendTypes, CallOK, Bucket, Kind
<1>2. pool' \in Seq(Entries) /\ Len(pool') = Len(pool) - 1
      /\ \A j \in 1 .. Len(pool) - 1 : pool'[j] = pool[Old(j)]
    BY <1>1, RemoveAtFacts
<1>3. /\ \A j \in 1 .. Len(pool) - 1 : Old(j) \in 1 .. Len(pool) /\ Old(j) # i
      /\ \A j, k \in 1 .. Len(pool) - 1 : Old(j) = Old(k) => j = k
    BY <1>1
<1> HIDE DEF Old
<1>4. pool[i].conn \in Conns /\ pool[i].conn # NoConn
    BY <1>1 DEF Entries
<1>5. made[pool[i].conn] = [kind |-> Kind(t), peer |-> Peer(req[t])]
    <2>1. PICK r \in Requests :
              /\ Fits(r, Kind(t)) /\ MayPool(r, Kind(t))
              /\ KeyFor(req[t], Kind(t)) = KeyFor(r, Kind(t))
              /\ made[pool[i].conn] = [kind |-> Kind(t), peer |-> Peer(r)]
        BY <1>1 DEF ParkedOK
    <2>2. Peer(r) = Peer(req[t])
        BY <1>1, <2>1, SamePeer
    <2> QED
        BY <2>1, <2>2
<1>6. \A u \in Threads : conn[u] # pool[i].conn
    BY <1>1, <1>4 DEF SendInv, HeldOK
<1>7. SendTypes'
    <2>1. pc' \in [Threads -> PCs] /\ conn' \in [Threads -> Conns \cup {NoConn}]
        BY <1>1, <1>4 DEF PCs
    <2> QED
        BY <1>2, <2>1 DEF SendInv, SendTypes
<1>8. ASSUME NEW u \in Threads PROVE CallOK(u)' /\ HeldOK(u)'
    <2>1. CallOK(u) /\ HeldOK(u) /\ Kind(u)' = Kind(u)
        BY DEF SendInv, Kind, Proto
    <2>2. CallOK(u)'
        BY <1>1, <1>4, <2>1 DEF CallOK, Busy
    <2>3. CASE u = t
        <3>1. conn'[u] = pool[i].conn
            BY <1>1, <2>3
        <3>2. \A v \in Threads : conn'[v] = pool[i].conn => v = u
            BY <1>1, <1>6, <2>3
        <3>3. \A j \in 1 .. Len(pool') : pool'[j].conn # pool[i].conn
            BY <1>1, <1>2, <1>3 DEF ParkedOK
        <3> QED
            BY <1>5, <2>1, <2>2, <2>3, <3>1, <3>2, <3>3 DEF HeldOK
    <2>4. CASE u # t
        <3>1. conn'[u] = conn[u]
            BY <1>1, <2>4
        <3>2. conn[u] # NoConn => \A v \in Threads : conn'[v] = conn[u] => v = u
            BY <1>1, <1>6, <2>1 DEF HeldOK
        <3>3. conn[u] # NoConn => \A j \in 1 .. Len(pool') : pool'[j].conn # conn[u]
            BY <1>2, <1>3, <2>1 DEF HeldOK
        <3> QED
            BY <2>1, <2>2, <3>1, <3>2, <3>3 DEF HeldOK
    <2> QED
        BY <2>3, <2>4
<1>9. ASSUME NEW j \in 1 .. Len(pool)' PROVE ParkedOK(j)'
    <2>1. j \in 1 .. Len(pool) - 1 /\ pool'[j] = pool[Old(j)] /\ Old(j) \in 1 .. Len(pool)
        BY <1>2, <1>3
    <2>2. ParkedOK(Old(j))
        BY <2>1 DEF SendInv
    <2>3. \A k \in 1 .. Len(pool') : pool'[k].conn = pool'[j].conn => k = j
        BY <1>2, <1>3, <2>1, <2>2 DEF ParkedOK
    <2> QED
        BY <2>1, <2>2, <2>3 DEF ParkedOK
<1>10. CapsOK'
    <2>1. IsFiniteSet(1 .. Len(pool))
        BY <1>1, FS_Interval
    <2>2. ASSUME NEW T, T \subseteq 1 .. Len(pool), NEW S, S \subseteq 1 .. Len(pool) - 1,
                 \A j \in S : Old(j) \in T
          PROVE Cardinality(S) <= Cardinality(T)
        <3>1. IsFiniteSet(T)
            BY <2>1, <2>2, FS_Subset
        <3>2. [j \in S |-> Old(j)] \in Injection(S, T)
            <4>1. [j \in S |-> Old(j)] \in [S -> T]
                BY <2>2
            <4>2. IsInjective([j \in S |-> Old(j)])
                BY <1>3, <2>2 DEF IsInjective
            <4> QED
                BY <4>1, <4>2 DEF Injection
        <3> QED
            BY <3>1, <3>2, FS_Injection
    <2>3. \A T : T \subseteq 1 .. Len(pool) => Cardinality(T) \in Nat
        BY <2>1, FS_Subset, FS_CardinalityType
    <2>4. ASSUME NEW T, T \subseteq 1 .. Len(pool) - 1 PROVE Cardinality(T) \in Nat
        <3>1. T \subseteq 1 .. Len(pool)
            BY <1>1, <2>4
        <3> QED
            BY <2>3, <3>1
    <2>5. ASSUME NEW kind \in Kinds
          PROVE /\ Cardinality(OfKind(kind)') <= GlobalCap
                /\ \A key \in {KeyFor(r, k) : r \in Requests, k \in Kinds} :
                      Cardinality(Bucket(kind, key)') <= PerKeyCap
        <3>1. /\ OfKind(kind)' \subseteq 1 .. Len(pool) - 1
              /\ OfKind(kind) \subseteq 1 .. Len(pool)
              /\ \A j \in OfKind(kind)' : Old(j) \in OfKind(kind)
            <4>1. DOMAIN pool' = 1 .. Len(pool) - 1 /\ DOMAIN pool = 1 .. Len(pool)
                BY <1>1, <1>2
            <4> QED
                BY <1>2, <1>3, <4>1 DEF OfKind
        <3>2. ASSUME NEW key
              PROVE /\ Bucket(kind, key)' \subseteq 1 .. Len(pool) - 1
                    /\ Bucket(kind, key) \subseteq 1 .. Len(pool)
                    /\ \A j \in Bucket(kind, key)' : Old(j) \in Bucket(kind, key)
            <4>1. DOMAIN pool' = 1 .. Len(pool) - 1 /\ DOMAIN pool = 1 .. Len(pool)
                BY <1>1, <1>2
            <4> QED
                BY <1>2, <1>3, <4>1 DEF Bucket
        <3>3. Cardinality(OfKind(kind)') <= GlobalCap
            <4>1. Cardinality(OfKind(kind)') <= Cardinality(OfKind(kind))
                BY <2>2, <3>1
            <4>2. Cardinality(OfKind(kind)) <= GlobalCap
                BY DEF SendInv, CapsOK
            <4>3. Cardinality(OfKind(kind)') \in Nat /\ Cardinality(OfKind(kind)) \in Nat
                BY <2>3, <2>4, <3>1
            <4> QED
                BY <4>1, <4>2, <4>3, Constants
        <3>4. ASSUME NEW key \in {KeyFor(r, k) : r \in Requests, k \in Kinds}
              PROVE Cardinality(Bucket(kind, key)') <= PerKeyCap
            <4>1. Cardinality(Bucket(kind, key)') <= Cardinality(Bucket(kind, key))
                BY <2>2, <3>2
            <4>2. Cardinality(Bucket(kind, key)) <= PerKeyCap
                BY DEF SendInv, CapsOK
            <4>3. /\ Cardinality(Bucket(kind, key)') \in Nat
                  /\ Cardinality(Bucket(kind, key)) \in Nat
                BY <2>3, <2>4, <3>2
            <4> QED
                BY <4>1, <4>2, <4>3, Constants
        <3> QED
            BY <3>3, <3>4
    <2> QED
        BY <2>5 DEF CapsOK
<1> QED
    BY <1>7, <1>8, <1>9, <1>10 DEF SendInv

\* A connection parked by the request it was made for, within the caps.
LEMMA ParkStep ==
    ASSUME SendInv, NEW t \in Threads, Park(t), pc[t] \in {"head", "body"}
    PROVE SendInv'
<1> DEFINE key == KeyFor(req[t], Kind(t))
           e == [kind |-> Kind(t), key |-> key, conn |-> conn[t]]
           n == Len(pool) + 1
<1>1. /\ MayPool(req[t], Kind(t)) /\ Room(Kind(t), key) /\ pool' = Append(pool, e)
      /\ conn' = [conn EXCEPT ![t] = NoConn] /\ pc' = [pc EXCEPT ![t] = "return"]
      /\ UNCHANGED << req, plan, unsafe, made >>
    BY DEF Park, Goto, net
<1>2. /\ pc \in [Threads -> PCs] /\ req[t] \in Requests /\ conn[t] \in Conns /\ conn[t] # NoConn
      /\ conn \in [Threads -> Conns \cup {NoConn}] /\ pool \in Seq(Entries)
      /\ Kind(t) \in Kinds /\ Fits(req[t], Kind(t)) /\ NoConn \notin Conns /\ HeldOK(t)
    <2>1. pc \in [Threads -> PCs] /\ conn \in [Threads -> Conns \cup {NoConn}]
          /\ pool \in Seq(Entries) /\ HeldOK(t) /\ CallOK(t)
        BY DEF SendInv, SendTypes
    <2>2. Kind(t) \in Kinds /\ Fits(req[t], Kind(t)) /\ NoConn \notin Conns
        BY Constants, KindFits DEF Kind
    <2> QED
        BY <2>1, <2>2 DEF CallOK, Busy
<1>3. e \in Entries /\ key \in {KeyFor(r, k) : r \in Requests, k \in Kinds}
    BY <1>2 DEF Entries
<1>4. e.kind = Kind(t) /\ e.key = key /\ e.conn = conn[t]
    OBVIOUS
<1> HIDE DEF e, key
<1>5. /\ pool' \in Seq(Entries) /\ Len(pool') = n /\ pool'[n] = e /\ n \in Nat /\ n >= 1
      /\ Len(pool) \in Nat /\ \A i \in 1 .. Len(pool) : pool'[i] = pool[i]
    BY <1>1, <1>2, <1>3
<1>6. 1 .. Len(pool') = (1 .. Len(pool)) \cup {n} /\ n \notin 1 .. Len(pool)
    BY <1>5
<1> HIDE DEF n
<1>7. SendTypes'
    <2>1. pc' \in [Threads -> PCs] /\ conn' \in [Threads -> Conns \cup {NoConn}]
        BY <1>1, <1>2 DEF PCs
    <2> QED
        BY <1>1, <1>5, <2>1 DEF SendInv, SendTypes
<1>8. ASSUME NEW u \in Threads PROVE CallOK(u)' /\ HeldOK(u)'
    <2>1. CallOK(u) /\ HeldOK(u) /\ Kind(u)' = Kind(u)
        BY <1>1 DEF SendInv, Kind, Proto
    <2>2. CallOK(u)'
        BY <1>1, <1>2, <2>1 DEF CallOK, Busy
    <2>3. CASE u = t
        BY <1>1, <1>2, <2>2, <2>3 DEF HeldOK
    <2>4. CASE u # t
        <3>1. conn'[u] = conn[u]
            BY <1>1, <1>2, <2>4
        <3>2. conn[u] # NoConn => \A v \in Threads : conn'[v] = conn[u] => v = u
            BY <1>1, <1>2, <2>1 DEF HeldOK
        <3>3. conn[u] # NoConn => conn[u] # conn[t]
            BY <1>2, <2>4 DEF HeldOK
        <3>4. conn[u] # NoConn => \A j \in 1 .. Len(pool') : pool'[j].conn # conn[u]
            BY <1>4, <1>5, <1>6, <2>1, <3>3 DEF HeldOK
        <3> QED
            BY <1>1, <2>1, <2>2, <3>1, <3>2, <3>4 DEF HeldOK
    <2> QED
        BY <2>3, <2>4
<1>9. ASSUME NEW j \in 1 .. Len(pool)' PROVE ParkedOK(j)'
    <2>1. CASE j = n
        <3>1. \A k \in 1 .. Len(pool') : pool'[k].conn = pool'[j].conn => k = j
            BY <1>2, <1>4, <1>5, <1>6, <2>1, Constants DEF HeldOK
        <3>2. made[conn[t]] = [kind |-> Kind(t), peer |-> Peer(req[t])]
            BY <1>2 DEF HeldOK
        <3> QED
            BY <1>1, <1>2, <1>4, <1>5, <2>1, <3>1, <3>2 DEF ParkedOK, key
    <2>2. CASE j # n
        <3>1. j \in 1 .. Len(pool) /\ pool'[j] = pool[j] /\ ParkedOK(j)
            BY <1>5, <1>6, <2>2 DEF SendInv
        <3>2. pool[j].conn # conn[t]
            BY <1>2, <3>1, Constants DEF HeldOK
        <3>3. \A k \in 1 .. Len(pool') : pool'[k].conn = pool'[j].conn => k = j
            BY <1>4, <1>5, <1>6, <3>1, <3>2 DEF ParkedOK
        <3> QED
            BY <1>1, <3>1, <3>3 DEF ParkedOK
    <2> QED
        BY <2>1, <2>2
<1>10. CapsOK'
    <2>1. IsFiniteSet(1 .. Len(pool))
        BY <1>5, FS_Interval
    <2>2. DOMAIN pool = 1 .. Len(pool) /\ DOMAIN pool' = (1 .. Len(pool)) \cup {n}
        BY <1>2, <1>5, <1>6
    <2>3. ASSUME NEW S, S \subseteq 1 .. Len(pool)
          PROVE /\ Cardinality(S) \in Nat /\ Cardinality(S \cup {n}) = Cardinality(S) + 1
        <3>1. IsFiniteSet(S) /\ n \notin S
            BY <1>6, <2>1, <2>3, FS_Subset
        <3> QED
            BY <3>1, FS_AddElement, FS_CardinalityType
    <2>4. ASSUME NEW kind \in Kinds PROVE Cardinality(OfKind(kind)') <= GlobalCap
        <3>1. OfKind(kind) \subseteq 1 .. Len(pool) /\ Cardinality(OfKind(kind)) <= GlobalCap
            BY <2>2 DEF OfKind, SendInv, CapsOK
        <3>2. OfKind(kind)' = IF kind = Kind(t) THEN OfKind(kind) \cup {n} ELSE OfKind(kind)
            BY <1>4, <1>5, <1>6, <2>2 DEF OfKind
        <3>3. kind = Kind(t) => Cardinality(OfKind(kind)) < GlobalCap
            BY <1>1 DEF Room
        <3>4. /\ Cardinality(OfKind(kind)) \in Nat
              /\ Cardinality(OfKind(kind) \cup {n}) = Cardinality(OfKind(kind)) + 1
            BY <2>3, <3>1
        <3>5. CASE kind = Kind(t)
            <4>1. Cardinality(OfKind(kind)) + 1 <= GlobalCap
                BY <3>3, <3>4, <3>5, Constants
            <4> QED
                BY <3>2, <3>4, <3>5, <4>1
        <3>6. CASE kind # Kind(t)
            BY <3>1, <3>2, <3>6
        <3> QED
            BY <3>5, <3>6
    <2>5. ASSUME NEW kind \in Kinds, NEW k \in {KeyFor(r, kk) : r \in Requests, kk \in Kinds}
          PROVE Cardinality(Bucket(kind, k)') <= PerKeyCap
        <3>1. /\ Bucket(kind, k) \subseteq 1 .. Len(pool)
              /\ Cardinality(Bucket(kind, k)) <= PerKeyCap
            <4>1. Bucket(kind, k) \subseteq 1 .. Len(pool)
                BY <2>2 DEF Bucket
            <4>2. Cardinality(Bucket(kind, k)) <= PerKeyCap
                BY DEF SendInv, CapsOK
            <4> QED
                BY <4>1, <4>2
        <3>2. Bucket(kind, k)' = IF kind = Kind(t) /\ k = key THEN Bucket(kind, k) \cup {n}
                                 ELSE Bucket(kind, k)
            BY <1>4, <1>5, <1>6, <2>2 DEF Bucket
        <3>3. kind = Kind(t) /\ k = key => Cardinality(Bucket(kind, k)) < PerKeyCap
            BY <1>1 DEF Room
        <3>4. /\ Cardinality(Bucket(kind, k)) \in Nat
              /\ Cardinality(Bucket(kind, k) \cup {n}) = Cardinality(Bucket(kind, k)) + 1
            BY <2>3, <3>1
        <3>5. CASE kind = Kind(t) /\ k = key
            <4>1. Cardinality(Bucket(kind, k)) + 1 <= PerKeyCap
                BY <3>3, <3>4, <3>5, Constants
            <4> QED
                BY <3>2, <3>4, <3>5, <4>1
        <3>6. CASE ~(kind = Kind(t) /\ k = key)
            BY <3>1, <3>2, <3>6
        <3> QED
            BY <3>5, <3>6
    <2> QED
        BY <2>4, <2>5 DEF CapsOK
<1> QED
    BY <1>7, <1>8, <1>9, <1>10 DEF SendInv

-----------------------------------------------------------------------------
(* The invariant. *)

\* What the history of unjustified replays may hold: HTTP/3 only.
ReplayInv == unsafe \in [Threads -> SUBSET {"h3", "h1 part"}]

SeenType == seen \in [Threads -> {"nothing", "part", "head"}]

LEMMA InitInv == Init => SendInv /\ ReplayInv
<1> SUFFICES ASSUME Init PROVE SendInv /\ ReplayInv
    OBVIOUS
<1>1. pool = << >> /\ Len(pool) = 0 /\ DOMAIN pool = {}
    BY DEF Init
<1>2. SendTypes
    BY DEF Init, SendTypes, PCs
<1>3. \A t \in Threads : CallOK(t) /\ HeldOK(t)
    BY DEF Init, CallOK, HeldOK, Busy
<1>4. CapsOK
    <2>1. \A kind, key : OfKind(kind) = {} /\ Bucket(kind, key) = {}
        BY <1>1 DEF OfKind, Bucket
    <2> QED
        BY <2>1, Constants, FS_EmptySet DEF CapsOK
<1>5. ReplayInv
    BY DEF Init, ReplayInv
<1> QED
    BY <1>1, <1>2, <1>3, <1>4, <1>5 DEF SendInv

\* Sending the request again, on a fresh connection.
LEMMA ResendStep ==
    ASSUME SendInv, NEW t \in Threads, NEW acted, NEW answered, pc[t] # "idle",
           Resend(t, acted, answered)
    PROVE SendInv'
<1>1. req[t] \in Requests /\ DOMAIN req = Threads /\ DOMAIN plan = Threads
    BY DEF SendInv, SendTypes, CallOK, Resend, Record
<1>2. /\ Close(t) /\ pool' = pool /\ pc' = [pc EXCEPT ![t] = "dial"]
      /\ req' = req /\ plan' = plan
    BY DEF Resend, Goto
<1>3. req' = [req EXCEPT ![t] = req[t]] /\ plan' = [plan EXCEPT ![t] = plan[t]]
    BY <1>1, <1>2 DEF SendInv, SendTypes
<1>4. "dial" \in PCs \ Busy
    BY DEF PCs, Busy
<1> QED
    BY <1>1, <1>2, <1>3, <1>4, DropStep

LEMMA NextProtocolStep ==
    ASSUME SendInv, NEW t \in Threads, NEW acted, NEW answered, pc[t] # "idle",
           NextProtocol(t, acted, answered)
    PROVE SendInv'
<1>1. req[t] \in Requests /\ DOMAIN req = Threads /\ DOMAIN plan = Threads
    BY DEF SendInv, SendTypes, CallOK, NextProtocol, Record
<1>2. /\ Close(t) /\ pool' = pool /\ pc' = [pc EXCEPT ![t] = "checkout"]
      /\ req' = req /\ plan' = [plan EXCEPT ![t] = Tail(plan[t])]
    BY <1>1 DEF NextProtocol, Goto
<1>3. req' = [req EXCEPT ![t] = req[t]]
    BY <1>1, <1>2 DEF SendInv, SendTypes
<1>4. "checkout" \in PCs \ Busy
    BY DEF PCs, Busy
<1> QED
    BY <1>1, <1>2, <1>3, <1>4, DropStep

LEMMA LetCloseStep ==
    ASSUME SendInv, NEW t \in Threads, pc[t] # "idle", LetClose(t)
    PROVE SendInv'
<1>1. "return" \in PCs /\ "return" \notin {"idle", "checkout", "dial"} /\ "return" \notin Busy
    BY DEF PCs, Busy
<1>2. /\ UNCHANGED << req, plan, conn, made, pool >>
      /\ pc' = [pc EXCEPT ![t] = "return"]
    BY DEF SendInv, SendTypes, LetClose, Goto, net
<1> QED
    BY <1>1, <1>2, QuietStep

LEMMA BeginStep == ASSUME SendInv, NEW t \in Threads, Begin(t) PROVE SendInv'
<1>1. PICK r \in Requests :
          /\ req' = [req EXCEPT ![t] = r]
          /\ IF Cancelled(r) \/ Route(r) = << >>
             THEN Goto(t, "return") /\ UNCHANGED plan
             ELSE Goto(t, "checkout") /\ plan' = [plan EXCEPT ![t] = Route(r)]
    BY DEF Begin
<1>2. /\ pc[t] = "idle" /\ conn[t] = NoConn /\ UNCHANGED << conn, made, pool >>
      /\ DOMAIN plan = Threads
    BY DEF SendInv, SendTypes, CallOK, Begin, net
<1>3. "return" \in PCs \ Busy /\ "checkout" \in PCs \ Busy
    BY DEF PCs, Busy
<1>4. CASE Cancelled(r) \/ Route(r) = << >>
    <2>1. pc' = [pc EXCEPT ![t] = "return"] /\ plan' = plan
        BY <1>1, <1>4 DEF Goto
    <2>2. plan' = [plan EXCEPT ![t] = plan[t]]
        BY <1>2, <2>1 DEF SendInv, SendTypes
    <2> QED
        BY <1>1, <1>2, <1>3, <2>1, <2>2, EmptyHanded
<1>5. CASE ~(Cancelled(r) \/ Route(r) = << >>)
    <2>1. pc' = [pc EXCEPT ![t] = "checkout"] /\ plan' = [plan EXCEPT ![t] = Route(r)]
        BY <1>1, <1>5 DEF Goto
    <2> QED
        BY <1>1, <1>2, <1>3, <2>1, EmptyHanded
<1> QED
    BY <1>4, <1>5

LEMMA CheckoutStep == ASSUME SendInv, NEW t \in Threads, Checkout(t) PROVE SendInv'
<1>1. /\ pc[t] = "checkout" /\ UNCHANGED << req, plan, unsafe, made >>
      /\ conn[t] = NoConn
    BY DEF SendInv, SendTypes, CallOK, Checkout, net
<1> DEFINE bucket == Bucket(Kind(t), KeyFor(req[t], Kind(t)))
<1>2. CASE MayPool(req[t], Kind(t)) /\ bucket # {}
    <2>1. PICK i \in bucket : conn' = [conn EXCEPT ![t] = pool[i].conn] /\ Pop(i)
        BY <1>2 DEF Checkout
    <2>2. pc' = [pc EXCEPT ![t] = "head"] /\ pool' = RemoveAt(pool, i)
        BY <1>2, <2>1 DEF Checkout, Goto, Pop
    <2> QED
        BY <1>1, <1>2, <2>1, <2>2, TakeStep
<1>3. CASE ~(MayPool(req[t], Kind(t)) /\ bucket # {})
    <2>1. pc' = [pc EXCEPT ![t] = "dial"] /\ UNCHANGED << conn, pool >>
        BY <1>3 DEF Checkout, Goto
    <2>2. "dial" \in PCs /\ "dial" \notin Busy
        BY DEF PCs, Busy
    <2> QED
        BY <1>1, <2>1, <2>2, QuietStep
<1> QED
    BY <1>2, <1>3

LEMMA ReturnStep == ASSUME SendInv, NEW t \in Threads, Return(t) PROVE SendInv'
<1>1. /\ Close(t) /\ pool' = pool
      /\ pc' = [pc EXCEPT ![t] = "idle"] /\ req' = [req EXCEPT ![t] = Idle]
      /\ plan' = [plan EXCEPT ![t] = << >>]
    BY DEF Return, Goto, SendInv, SendTypes
<1>2. "idle" \in PCs \ Busy /\ Idle \in Requests \cup {Idle}
    BY DEF PCs, Busy
<1> QED
    BY <1>1, <1>2, DropStep

\* The steps that only move a thread on with the connection it has.
LEMMA MoveStep ==
    ASSUME SendInv, NEW t \in Threads,
           \/ RegisterCheck(t) \/ RegisterInsert(t) \/ RegisterRecheck(t)
           \/ HelloDone(t) \/ PartArrives(t) \/ HeadArrives(t)
    PROVE SendInv'
<1>1. /\ UNCHANGED << req, plan, conn, made, pool, unsafe >>
      /\ pc[t] \in Busy
    BY DEF RegisterCheck, RegisterInsert, RegisterRecheck, HelloDone, PartArrives, HeadArrives,
           net, Busy
<1>2. PICK where \in Busy : pc' = [pc EXCEPT ![t] = where]
    <2>1. Connected(t) \in Busy
        BY DEF Connected, Busy
    <2>2. CASE RegisterCheck(t)
        BY <2>1, <2>2 DEF RegisterCheck, Goto, Busy
    <2>3. CASE RegisterInsert(t)
        BY <2>3 DEF RegisterInsert, Goto, Busy
    <2>4. CASE RegisterRecheck(t)
        BY <2>1, <2>4 DEF RegisterRecheck, Goto
    <2>5. CASE HelloDone(t)
        BY <2>5 DEF HelloDone, Goto, Busy
    <2>6. CASE HeadArrives(t)
        BY <2>6 DEF HeadArrives, Goto, Busy
    <2>7. CASE PartArrives(t)
        <3>1. pc' = [pc EXCEPT ![t] = pc[t]]
            BY <2>7 DEF PartArrives, SendInv, SendTypes
        <3> QED
            BY <1>1, <3>1
    <2> QED
        BY <2>2, <2>3, <2>4, <2>5, <2>6, <2>7
<1>3. /\ conn[t] # NoConn /\ pc[t] # "idle"
      /\ where \in PCs /\ where \notin {"idle", "checkout", "dial"}
    BY <1>1, <1>2 DEF SendInv, SendTypes, CallOK, Busy, PCs
<1> QED
    BY <1>1, <1>2, <1>3, QuietStep

LEMMA NextInv == SendInv /\ [Next]_vars => SendInv'
<1> SUFFICES ASSUME SendInv, [Next]_vars PROVE SendInv'
    OBVIOUS
<1>1. ASSUME NEW t \in Threads, Begin(t) \/ Own(t) PROVE SendInv'
    <2>1. CASE Begin(t)
        BY <2>1, BeginStep
    <2>2. CASE Checkout(t)
        BY <2>2, CheckoutStep
    <2>3. CASE Dial(t)
        BY <2>3, DialStep
    <2>4. CASE DialFails(t)
        BY <2>4, LetCloseStep DEF DialFails, Fail
    <2>5. CASE RegisterCheck(t) \/ RegisterInsert(t) \/ RegisterRecheck(t)
        BY <2>5, MoveStep
    <2>6. CASE Return(t)
        BY <2>6, ReturnStep
    <2>7. CASE H3Fails(t)
        BY <2>7, LetCloseStep, NextProtocolStep DEF H3Fails, Fail
    <2>8. CASE H3Answers(t)
        BY <2>8, LetCloseStep DEF H3Answers
    <2> QED
        BY <1>1, <2>1, <2>2, <2>3, <2>4, <2>5, <2>6, <2>7, <2>8 DEF Own
<1>2. ASSUME NEW t \in Threads, Wire(t) PROVE SendInv'
    <2>1. CASE HelloDone(t) \/ PartArrives(t) \/ HeadArrives(t)
        BY <2>1, MoveStep
    <2>2. CASE HelloFails(t)
        BY <2>2, LetCloseStep DEF HelloFails, Fail
    <2>3. CASE NotNegotiated(t)
        BY <2>3, LetCloseStep, NextProtocolStep DEF NotNegotiated, Fail
    <2>4. CASE PeerGone(t)
        <3>1. pc[t] # "idle"
            BY <2>4 DEF PeerGone, OnH1
        <3> QED
            BY <2>4, <3>1, LetCloseStep, ResendStep DEF PeerGone, Fail
    <2>5. CASE HardError(t)
        BY <2>5, LetCloseStep DEF HardError, OnH1, Fail
    <2>6. CASE BodyEnds(t)
        BY <2>6, LetCloseStep, ParkStep DEF BodyEnds
    <2>7. CASE H2Fails(t)
        BY <2>7, LetCloseStep, ResendStep DEF H2Fails, Fail
    <2>8. CASE H2Answers(t)
        BY <2>8, LetCloseStep, ParkStep DEF H2Answers
    <2> QED
        BY <1>2, <2>1, <2>2, <2>3, <2>4, <2>5, <2>6, <2>7, <2>8 DEF Wire
<1>3. ASSUME NEW k \in Tokens, CancelFlag(k) \/ CancelFire(k) PROVE SendInv'
    BY <1>3, StillStep DEF CancelFlag, CancelFire, call, net
<1>4. CASE Finished \/ UNCHANGED vars
    BY <1>4, StillStep DEF Finished, vars, call, net
<1> QED
    BY <1>1, <1>2, <1>3, <1>4 DEF Next

LEMMA SendInvSound == SendInv => PoolsSound
<1> SUFFICES ASSUME SendInv PROVE PoolSound /\ RightPeer
    BY DEF PoolsSound
<1>1. pool \in Seq(Entries) /\ DOMAIN pool = 1 .. Len(pool) /\ NoConn \notin Conns
    BY Constants DEF SendInv, SendTypes
<1>2. IsInjective([i \in DOMAIN pool |-> pool[i].conn])
    BY <1>1 DEF IsInjective, SendInv, ParkedOK
<1>3. ASSUME NEW i \in DOMAIN pool
      PROVE /\ \A t \in Threads : conn[t] # pool[i].conn
            /\ made[pool[i].conn].kind = pool[i].kind
            /\ KeyFor(made[pool[i].conn].peer, pool[i].kind) = pool[i].key
            /\ Cardinality(OfKind(pool[i].kind)) <= GlobalCap
            /\ Cardinality(Bucket(pool[i].kind, pool[i].key)) <= PerKeyCap
    <2>1. /\ i \in 1 .. Len(pool) /\ ParkedOK(i) /\ pool[i] \in Entries
        BY <1>1, <1>3 DEF SendInv
    <2>2. pool[i].conn # NoConn /\ pool[i].kind \in Kinds
          /\ pool[i].key \in {KeyFor(r, k) : r \in Requests, k \in Kinds}
        BY <1>1, <2>1 DEF Entries
    <2>3. \A t \in Threads : conn[t] # pool[i].conn
        <3>1. SUFFICES ASSUME NEW t \in Threads, conn[t] = pool[i].conn PROVE FALSE
            OBVIOUS
        <3>2. HeldOK(t)
            BY DEF SendInv
        <3> QED
            BY <2>1, <2>2, <3>1, <3>2 DEF HeldOK
    <2>4. /\ made[pool[i].conn].kind = pool[i].kind
          /\ KeyFor(made[pool[i].conn].peer, pool[i].kind) = pool[i].key
        BY <2>1, PeerKey DEF ParkedOK
    <2>5. /\ Cardinality(OfKind(pool[i].kind)) <= GlobalCap
          /\ Cardinality(Bucket(pool[i].kind, pool[i].key)) <= PerKeyCap
        BY <2>2 DEF SendInv, CapsOK
    <2> QED
        BY <2>3, <2>4, <2>5
<1>4. PoolSound
    BY <1>2, <1>3 DEF PoolSound
<1>5. RightPeer
    BY DEF SendInv, HeldOK, RightPeer
<1> QED
    BY <1>4, <1>5

\* For any number of callers, requests, connections and any caps: no connection
\* is lent twice, the caps of the pools hold, and a request only travels on a
\* connection that it would have dialled itself (CorePool, PoolInner,
\* pool_key_for, tls_pool_eligible, pool_eligible).
THEOREM NeverTheWrongConnection == Spec => []PoolsSound
<1>1. Init => SendInv
    BY InitInv
<1>2. SendInv /\ [Next]_vars => SendInv'
    BY NextInv
<1>3. SendInv => PoolsSound
    BY SendInvSound
<1> QED
    BY <1>1, <1>2, <1>3, PTL DEF Spec

-----------------------------------------------------------------------------
(* Repeated requests. *)

LEMMA RecordJustified ==
    ASSUME ReplayInv, NEW t \in Threads, NEW acted, NEW answered,
           Record(t, acted, answered),
           Justified(t, acted, answered) \/ Proto(t) = "h3" \/ seen[t] = "part"
    PROVE ReplayInv'
BY DEF ReplayInv, Record, Attempt

LEMMA SeenNext == SeenType /\ [Next]_vars => SeenType'
<1> SUFFICES ASSUME SeenType, [Next]_vars PROVE SeenType'
    OBVIOUS
<1>1. ASSUME NEW t \in Threads, Begin(t) \/ Own(t) PROVE SeenType'
    <2>1. CASE Return(t)
        BY <2>1 DEF Return, SeenType
    <2>2. CASE H3Fails(t) \/ H3Answers(t) \/ DialFails(t)
        BY <2>2 DEF H3Fails, H3Answers, DialFails, Fail, LetClose, NextProtocol, SeenType
    <2>3. CASE Begin(t) \/ Checkout(t) \/ Dial(t)
        BY <2>3 DEF Begin, Checkout, Dial, SeenType
    <2>4. CASE RegisterCheck(t) \/ RegisterInsert(t) \/ RegisterRecheck(t)
        BY <2>4 DEF RegisterCheck, RegisterInsert, RegisterRecheck, SeenType
    <2> QED
        BY <1>1, <2>1, <2>2, <2>3, <2>4 DEF Own
<1>2. ASSUME NEW t \in Threads, Wire(t) PROVE SeenType'
    <2>1. CASE NotNegotiated(t) \/ HelloDone(t) \/ HelloFails(t) \/ HardError(t)
        BY <2>1 DEF NotNegotiated, HelloDone, HelloFails, HardError, Fail, LetClose, NextProtocol,
                    SeenType
    <2>2. CASE PartArrives(t) \/ HeadArrives(t)
        BY <2>2 DEF PartArrives, HeadArrives, SeenType
    <2>3. CASE PeerGone(t) \/ H2Fails(t)
        BY <2>3 DEF PeerGone, H2Fails, Fail, LetClose, Resend, SeenType
    <2>4. CASE BodyEnds(t) \/ H2Answers(t)
        BY <2>4 DEF BodyEnds, H2Answers, Park, LetClose, SeenType
    <2> QED
        BY <1>2, <2>1, <2>2, <2>3, <2>4 DEF Wire
<1>3. ASSUME NEW k \in Tokens, CancelFlag(k) \/ CancelFire(k) PROVE SeenType'
    BY <1>3 DEF CancelFlag, CancelFire, call, SeenType
<1>4. CASE Finished \/ UNCHANGED vars
    BY <1>4 DEF Finished, vars, call, SeenType
<1> QED
    BY <1>1, <1>2, <1>3, <1>4 DEF Next

LEMMA ReplayNext == SeenType /\ ReplayInv /\ [Next]_vars => ReplayInv'
<1> SUFFICES ASSUME SeenType, ReplayInv, [Next]_vars PROVE ReplayInv'
    OBVIOUS
<1>1. ASSUME NEW t \in Threads, Begin(t) \/ Own(t) PROVE ReplayInv'
    <2>1. CASE Return(t)
        BY <2>1 DEF Return, ReplayInv
    <2>2. CASE H3Fails(t)
        <3>1. Proto(t) = "h3"
            BY <2>2 DEF H3Fails
        <3>2. UNCHANGED unsafe \/ \E acted, answered : Record(t, acted, answered)
            BY <2>2 DEF H3Fails, Fail, LetClose, NextProtocol
        <3> QED
            BY <3>1, <3>2, RecordJustified DEF ReplayInv
    <2>3. CASE Begin(t) \/ Checkout(t) \/ Dial(t) \/ DialFails(t)
        BY <2>3 DEF Begin, Checkout, Dial, DialFails, Fail, LetClose, ReplayInv
    <2>4. CASE RegisterCheck(t) \/ RegisterInsert(t) \/ RegisterRecheck(t) \/ H3Answers(t)
        BY <2>4 DEF RegisterCheck, RegisterInsert, RegisterRecheck, H3Answers, LetClose,
                    ReplayInv
    <2> QED
        BY <1>1, <2>1, <2>2, <2>3, <2>4 DEF Own
<1>2. ASSUME NEW t \in Threads, Wire(t) PROVE ReplayInv'
    <2>1. CASE NotNegotiated(t)
        <3>1. UNCHANGED unsafe \/ Record(t, FALSE, FALSE)
            BY <2>1 DEF NotNegotiated, Fail, LetClose, NextProtocol
        <3> QED
            BY <3>1, RecordJustified DEF ReplayInv, Justified
    <2>2. CASE PeerGone(t)
        <3>1. Proto(t) = "h1"
            BY <2>2 DEF PeerGone, OnH1
        <3>2. \/ UNCHANGED unsafe
              \/ seen[t] # "head" /\ \E acted : Record(t, acted, seen[t] # "nothing")
            BY <2>2 DEF PeerGone, RetryStale, Fail, LetClose, Resend
        <3>3. seen[t] \in {"nothing", "part", "head"}
            BY DEF SeenType
        <3> QED
            BY <3>1, <3>2, <3>3, RecordJustified DEF ReplayInv, Justified
    <2>3. CASE H2Fails(t)
        <3> DEFINE fs == IF conn[t] \in shut THEN {"silent", "cut"} ELSE H2Failures
        <3>1. PICK f \in fs : \E acted \in MayHaveActed(f) :
                  IF reused[t] /\ PooledFailureRetryable(req[t], f)
                  THEN Resend(t, acted, f = "cut")
                  ELSE Fail(t)
            BY <2>3, Zenon DEF H2Fails
        <3>2. PICK acted \in MayHaveActed(f) :
                  IF reused[t] /\ PooledFailureRetryable(req[t], f)
                  THEN Resend(t, acted, f = "cut")
                  ELSE Fail(t)
            BY <3>1
        <3>3. \/ UNCHANGED unsafe
              \/ PooledFailureRetryable(req[t], f) /\ Record(t, acted, f = "cut")
            BY <3>2 DEF Fail, LetClose, Resend
        <3>4. CASE UNCHANGED unsafe
            BY <3>4 DEF ReplayInv
        <3>5. CASE PooledFailureRetryable(req[t], f) /\ Record(t, acted, f = "cut")
            <4>1. f # "cut" /\ (~acted \/ req[t].idem)
                BY <3>3, <3>5 DEF PooledFailureRetryable, MayHaveActed
            <4>2. Justified(t, acted, f = "cut")
                BY <4>1 DEF Justified
            <4> QED
                BY <3>5, <4>2, RecordJustified
        <3> QED
            BY <3>3, <3>4, <3>5
    <2>4. CASE HelloDone(t) \/ HelloFails(t) \/ PartArrives(t) \/ HeadArrives(t) \/ HardError(t)
        BY <2>4 DEF HelloDone, HelloFails, PartArrives, HeadArrives, HardError, Fail, LetClose, ReplayInv
    <2>5. CASE BodyEnds(t) \/ H2Answers(t)
        BY <2>5 DEF BodyEnds, H2Answers, Park, LetClose, ReplayInv
    <2> QED
        BY <1>2, <2>1, <2>2, <2>3, <2>4, <2>5 DEF Wire
<1>3. ASSUME NEW k \in Tokens, CancelFlag(k) \/ CancelFire(k) PROVE ReplayInv'
    BY <1>3 DEF CancelFlag, CancelFire, call, ReplayInv
<1>4. CASE Finished \/ UNCHANGED vars
    BY <1>4 DEF Finished, vars, call, ReplayInv
<1> QED
    BY <1>1, <1>2, <1>3, <1>4 DEF Next

\* For any number of callers and requests: no HTTP/2 attempt is repeated after a frame
\* of its response, nor one the server has acted on unless the method is idempotent;
\* no HTTP/1.1 attempt is repeated after its final response head, but one on a
\* pooled connection may be after less of an answer (pooled_failure_retryable,
\* `started`, stale_or_hard).
THEOREM RepeatsJustified == Spec => []ReplayJustified
<1>1. Init => ReplayInv /\ SeenType
    BY InitInv DEF Init, SeenType
<1>2. ReplayInv /\ SeenType /\ [Next]_vars => ReplayInv' /\ SeenType'
    BY ReplayNext, SeenNext
<1>3. ReplayInv => ReplayJustified
    BY DEF ReplayInv, ReplayJustified
<1> QED
    BY <1>1, <1>2, <1>3, PTL DEF Spec

=============================================================================
