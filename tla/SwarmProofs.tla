----------------------------- MODULE SwarmProofs -----------------------------
(***************************************************************************)
(* Proofs about Swarm, for any number of peers, pieces and blocks and any  *)
(* caps: engine and workers agree about every piece and every piece in     *)
(* hand is asked for (SwarmSound), and only verified bytes ever count      *)
(* (OnlyVerifiedCounts).                                                   *)
(***************************************************************************)
EXTENDS Swarm, FiniteSetTheorems, NaturalsInduction, WellFoundedInduction, TLAPS

-----------------------------------------------------------------------------
(* Types. *)

PieceOrNone == Pieces \cup {None}
Commands == Pieces \cup {Stop}
PeerRec == [bf : SUBSET Pieces, piece : PieceOrNone, unchoked : BOOLEAN, strikes : Nat, bad : SUBSET Pieces]
PeerTables == UNION {[D -> PeerRec] : D \in SUBSET Peers}
Counters == [Pieces -> Nat]
Inboxes == [Peers -> Seq(Commands)]
EngineRec == [peers : PeerTables, assigned : SUBSET Pieces, avail : Counters, have : SUBSET Pieces,
              inbox : Inboxes, gone : SUBSET Peers]

EventSet ==
    [type : {"Gone", "Choked", "Unchoked"}, peer : Peers]
    \cup [type : {"Joined"}, peer : Peers, bf : SUBSET Pieces]
    \cup [type : {"Have", "Released"}, peer : Peers, index : Pieces]
    \cup [type : {"PieceDone"}, peer : Peers, index : Pieces, ok : BOOLEAN]

JobRec == [index : PieceOrNone, requested : SUBSET Blocks, filled : SUBSET Blocks, next : Nat, outstanding : Nat]
WorkRec == [phase : {"new", "join", "serve", "gone"}, bf : SUBSET Pieces, choked : BOOLEAN, job : JobRec]
WorkTable == [Peers -> WorkRec]
OwedTable == [Peers -> SUBSET (PieceOrNone \X Blocks)]

-----------------------------------------------------------------------------
(* The engine's books, against the workers w and the events q on their way. *)

InHand(S) == {S.peers[p].piece : p \in DOMAIN S.peers}
Offering(S, i) == {p \in DOMAIN S.peers : i \in S.peers[p].bf}
Busy(S) == {p \in DOMAIN S.peers : S.peers[p].piece # None}

AssignedExact(S) == S.assigned = InHand(S) \ ({None} \cup S.have)
AvailExact(S) == \A i \in Pieces : S.avail[i] = Cardinality(Offering(S, i))
Sums(S) == AssignedExact(S) /\ AvailExact(S) /\ busy(S) <= MaxBusy

NoOrder(box) == \A k \in 1 .. Len(box) : box[k] = Stop
OneOrder(box, i) == \E k \in 1 .. Len(box) : box[k] = i /\ \A l \in 1 .. Len(box) : l # k => box[l] = Stop
Stopped(box) == \E k \in 1 .. Len(box) : box[k] = Stop

IsBack(e, p) == e.peer = p /\ e.type \in {"PieceDone", "Released"}
NoBack(q, p) == \A k \in 1 .. Len(q) : ~IsBack(q[k], p)
OneBack(q, p, i) == \E k \in 1 .. Len(q) : IsBack(q[k], p) /\ q[k].index = i
                                           /\ \A l \in 1 .. Len(q) : l # k => ~IsBack(q[l], p)

\* Nothing is in hand; piece i is in exactly one place.
Nowhere(j, box, q, p) == j = None /\ NoOrder(box) /\ NoBack(q, p)
Somewhere(i, j, box, q, p) ==
    /\ i \in Pieces
    /\ \/ j = i /\ NoOrder(box) /\ NoBack(q, p)
       \/ j = None /\ OneOrder(box, i) /\ NoBack(q, p)
       \/ j = None /\ NoOrder(box) /\ OneBack(q, p, i)

Placed(S, q, w, p) ==
    w[p].phase = "serve" =>
        LET j == w[p].job.index
            box == S.inbox[p]
        IN  IF p \in DOMAIN S.peers
            THEN IF S.peers[p].piece = None THEN Nowhere(j, box, q, p)
                 ELSE Somewhere(S.peers[p].piece, j, box, q, p)
            ELSE Nowhere(j, box, q, p) \/ (Stopped(box) /\ \E i \in Pieces : Somewhere(i, j, box, q, p))

\* A worker that has not joined is unknown and has sent nothing.
Early(S, q, w, p) ==
    w[p].phase \in {"new", "join"} =>
        p \notin DOMAIN S.peers /\ NoOrder(S.inbox[p]) /\ \A k \in 1 .. Len(q) : q[k].peer # p

\* A peer joins once.
Joining(S, q, w, p) ==
    \A k \in 1 .. Len(q) : q[k].peer = p /\ q[k].type = "Joined" =>
        /\ p \notin DOMAIN S.peers
        /\ w[p].phase = "serve" => Nowhere(w[p].job.index, S.inbox[p], q, p)
        /\ \A l \in 1 .. Len(q) : q[l].peer = p /\ q[l].type = "Joined" => l = k

\* A worker is gone once.
Leaving(q, w, p) ==
    \A k \in 1 .. Len(q) : q[k].peer = p /\ q[k].type = "Gone" =>
        /\ w[p].phase = "gone"
        /\ \A l \in 1 .. Len(q) : q[l].peer = p /\ q[l].type = "Gone" => l = k

Books(S, q, w) ==
    /\ S \in EngineRec
    /\ S.gone = {p \in Peers : w[p].phase = "gone"}
    /\ Sums(S)
    /\ \A p \in Peers : Placed(S, q, w, p) /\ Early(S, q, w, p) /\ Joining(S, q, w, p)

\* `live` counts the workers whose Gone is still to come.
Alive(q, w) == {p \in Peers : \/ w[p].phase \in {"join", "serve"}
                              \/ \E k \in 1 .. Len(q) : q[k].peer = p /\ q[k].type = "Gone"}
Counted(r, q, w) ==
    /\ r.live \in Nat /\ r.live = Cardinality(Alive(q, w)) /\ r.live <= MaxPeers
    /\ r.next \in 1 .. NumPeers + 1
    /\ \A p \in Peers : (w[p].phase = "new") <=> (p >= r.next)
    /\ \A p \in Peers : Leaving(q, w, p)

-----------------------------------------------------------------------------
(* The worker's window. *)

Open(j) == j.requested \ j.filled

Window(j) ==
    /\ j.outstanding = Cardinality(Open(j)) /\ j.outstanding <= Depth
    /\ \A b \in Blocks : b < j.next => b \in j.filled \cup j.requested

JobOK(v, o) ==
    LET j == v.job IN
    /\ Window(j)
    /\ o = {<<j.index, b>> : b \in Open(j)}
    /\ v.choked => Open(j) = {}
    /\ j.index = None => j = NoJob
    /\ j.index # None => j.filled # Blocks
    /\ j.index # None /\ ~v.choked => Open(j) # {}
    /\ v.phase # "serve" => j.index = None

-----------------------------------------------------------------------------
(* What counts. *)

Good == {i \in Pieces : disk[i] = "good"}

Verified ==
    /\ disk \in [Pieces -> {"none", "torn", "good"}]
    /\ sw.have \subseteq Good /\ saved \subseteq Good
    /\ run.pc = "loop" => saved \subseteq sw.have
    /\ run.pc = "complete" => sw.have = Pieces
    /\ published \in BOOLEAN
    /\ published => run.pc \in {"done", "seeding"} /\ Good = Pieces

RunRec == [pc : {"start", "loop", "failed", "complete", "done", "seeding"}, live : Int, next : Int]

Reset ==
    /\ run = [pc |-> "start", live |-> 0, next |-> 1]
    /\ sw = NoSwarm
    /\ rx = <<>>
    /\ inbox = [p \in Peers |-> <<>>]
    /\ work = [p \in Peers |-> NewWorker]
    /\ owed = [p \in Peers |-> {}]

WorkersOK(w, o) ==
    /\ w \in WorkTable /\ o \in OwedTable
    /\ \A p \in Peers : JobOK(w[p], o[p])

\* What holds while the engine loops.
Afloat ==
    /\ WorkersOK(work, owed)
    /\ rx \in Seq(EventSet) /\ Books(Engine, rx, work) /\ Counted(run, rx, work)

SwarmInv ==
    /\ run \in RunRec
    /\ WorkersOK(work, owed)
    /\ run.pc = "start" => Reset
    /\ run.pc = "loop" => Afloat
    /\ Verified

-----------------------------------------------------------------------------
(* Folds and least elements. *)

\* What the assumption on the constants says of each.
LEMMA Sizes ==
    /\ NumPeers \in Nat /\ NumPieces \in Nat /\ NumBlocks \in Nat
    /\ MaxPeers \in Nat /\ MaxBusy \in Nat /\ MaxStrikes \in Nat /\ Depth \in Nat
    /\ NumPeers > 0 /\ NumPieces > 0 /\ NumBlocks > 0 /\ MaxPeers > 0 /\ Depth > 0 /\ MaxBusy > 0
BY SwarmAssumption

\* Pieces and peers are finitely many, and neither marker is a piece.
LEMMA PieceFacts ==
    /\ Pieces \in SUBSET Nat /\ None \notin Pieces /\ Stop \notin Pieces /\ None # Stop
    /\ IsFiniteSet(Pieces) /\ IsFiniteSet(Peers)
<1>1. IsFiniteSet(Pieces) /\ IsFiniteSet(Peers)
  BY Sizes, FS_Interval DEF Pieces, Peers
<1>2. Pieces \in SUBSET Nat /\ None \notin Pieces /\ Stop \notin Pieces /\ None # Stop
  BY Sizes DEF Pieces, None, Stop
<1>3. QED
  BY <1>1, <1>2

\* A nonempty set of naturals has a least element.
LEMMA LeastNat ==
    ASSUME NEW T \in SUBSET Nat, T # {}
    PROVE  \E x \in T : \A y \in T : x <= y
<1>1. \E x \in T : \A y \in T : ~(<<y, x>> \in OpToRel(<, Nat))
  BY NatLessThanWellFounded, WFMin
<1>2. PICK x \in T : \A y \in T : ~(<<y, x>> \in OpToRel(<, Nat))
  BY <1>1
<1>3. \A y \in T : ~(y < x)
  BY <1>2 DEF OpToRel
<1>4. QED
  BY <1>3

\* Among naturals with a weight there is one of least weight, and of those a first.
LEMMA LeastWeight ==
    ASSUME NEW T \in SUBSET Nat, T # {}, NEW f, \A i \in T : f[i] \in Nat
    PROVE  \E i \in T : \A j \in T : f[i] < f[j] \/ (f[i] = f[j] /\ i <= j)
<1> DEFINE V == {f[i] : i \in T}
<1>1. PICK v \in V : \A u \in V : v <= u
  <2>1. V \in SUBSET Nat /\ V # {}
    OBVIOUS
  <2> HIDE DEF V
  <2>2. QED
    BY <2>1, LeastNat
<1> DEFINE U == {i \in T : f[i] = v}
<1>2. PICK i \in U : \A j \in U : i <= j
  <2>1. U \in SUBSET Nat /\ U # {}
    OBVIOUS
  <2> HIDE DEF U
  <2>2. QED
    BY <2>1, LeastNat
<1>3. ASSUME NEW j \in T PROVE f[i] < f[j] \/ (f[i] = f[j] /\ i <= j)
  <2>1. f[i] \in Nat /\ f[j] \in Nat /\ f[i] = v /\ v <= f[j]
    BY <1>1, <1>2
  <2>2. CASE f[j] = v
    BY <1>2, <2>1, <2>2
  <2>3. CASE f[j] # v
    BY <2>1, <2>3
  <2>4. QED
    BY <2>2, <2>3
<1>4. QED
  BY <1>2, <1>3

IsFold(f, N, b, st, G) ==
    /\ f = [n \in 0 .. N |-> IF n = 0 THEN b ELSE st[<<n, f[n - 1]>>]]
    /\ \A n \in 0 .. N : f[n] \in G

\* A recursive function over 0..N whose step stays in G exists, and stays in G.
LEMMA FoldExists ==
    ASSUME NEW N \in Nat, NEW G, NEW b \in G, NEW st,
           \A n \in 1 .. N, x \in G : st[<<n, x>>] \in G
    PROVE  \E f : IsFold(f, N, b, st, G)
<1> DEFINE P(m) == \E f : /\ f = [n \in 0 .. m |-> IF n = 0 THEN b ELSE st[<<n, f[n - 1]>>]]
                          /\ \A n \in 0 .. m : f[n] \in G
           Bad == {m \in 0 .. N : ~P(m)}
<1>1. SUFFICES ASSUME Bad # {} PROVE FALSE
  BY DEF IsFold
<1>2. PICK m \in Bad : \A y \in Bad : m <= y
  <2>1. Bad \in SUBSET Nat
    OBVIOUS
  <2> HIDE DEF Bad
  <2>2. QED
    BY <1>1, <2>1, LeastNat
<1>3. CASE m = 0
  <2> DEFINE f == [n \in 0 .. 0 |-> b]
  <2>1. f = [n \in 0 .. 0 |-> IF n = 0 THEN b ELSE st[<<n, f[n - 1]>>]]
    OBVIOUS
  <2>2. \A n \in 0 .. 0 : f[n] \in G
    OBVIOUS
  <2>3. QED
    BY <1>2, <1>3, <2>1, <2>2
<1>4. CASE m # 0
  <2>1. m - 1 \in 0 .. N /\ m - 1 \notin Bad /\ m \in 1 .. N
    BY <1>2, <1>4
  <2>2. PICK f : /\ f = [n \in 0 .. m - 1 |-> IF n = 0 THEN b ELSE st[<<n, f[n - 1]>>]]
                 /\ \A n \in 0 .. m - 1 : f[n] \in G
    BY <2>1
  <2>3. \A n \in 0 .. m - 1 : f[n] = IF n = 0 THEN b ELSE st[<<n, f[n - 1]>>]
    BY <2>2
  <2> DEFINE g == [n \in 0 .. m |-> IF n = m THEN st[<<m, f[m - 1]>>] ELSE f[n]]
  <2>4. \A n \in 0 .. m : g[n] = IF n = m THEN st[<<m, f[m - 1]>>] ELSE f[n]
    OBVIOUS
  <2>5. f[m - 1] \in G /\ st[<<m, f[m - 1]>>] \in G
    BY <2>1, <2>2
  <2>6. ASSUME NEW n \in 0 .. m
        PROVE  g[n] = (IF n = 0 THEN b ELSE st[<<n, g[n - 1]>>]) /\ g[n] \in G
    <3> HIDE DEF g
    <3>1. CASE n = m
      <4>1. n # 0 /\ n - 1 \in 0 .. m /\ n - 1 # m
        BY <1>4, <2>1, <3>1
      <4>2. g[n - 1] = f[m - 1]
        BY <2>4, <3>1, <4>1
      <4>3. QED
        BY <2>4, <2>5, <3>1, <4>1, <4>2
    <3>2. CASE n # m
      <4>1. n \in 0 .. m - 1 /\ g[n] = f[n]
        BY <2>1, <2>4, <3>2
      <4>2. CASE n = 0
        BY <2>2, <2>3, <4>1, <4>2
      <4>3. CASE n # 0
        <5>1. n - 1 \in 0 .. m /\ n - 1 # m
          BY <2>1, <3>2, <4>3
        <5>2. g[n - 1] = f[n - 1]
          BY <2>4, <5>1
        <5>3. QED
          BY <2>2, <2>3, <4>1, <4>3, <5>2
      <4>4. QED
        BY <4>2, <4>3
    <3>3. QED
      BY <3>1, <3>2
  <2>7. g = [n \in 0 .. m |-> g[n]]
    OBVIOUS
  <2> HIDE DEF g
  <2>8. g = [n \in 0 .. m |-> IF n = 0 THEN b ELSE st[<<n, g[n - 1]>>]]
    BY <2>6, <2>7
  <2>9. P(m)
    BY <2>6, <2>8
  <2>10. QED
    BY <1>2, <2>9
<1>5. QED
  BY <1>3, <1>4

\* What InTurn folds stays where its steps stay.
LEMMA FoldStays ==
    ASSUME NEW N \in Nat, NEW G, NEW f, f[0] \in G,
           \A n \in 1 .. N : f[n - 1] \in G => f[n] \in G
    PROVE  f[N] \in G
<1> DEFINE Bad == {m \in 0 .. N : f[m] \notin G}
<1>1. SUFFICES ASSUME Bad # {} PROVE FALSE
  OBVIOUS
<1>2. PICK m \in Bad : \A y \in Bad : m <= y
  <2>1. Bad \in SUBSET Nat
    OBVIOUS
  <2> HIDE DEF Bad
  <2>2. QED
    BY <1>1, <2>1, LeastNat
<1>3. m # 0 /\ m \in 1 .. N
  BY <1>2
<1>4. m - 1 \in 0 .. N /\ m - 1 \notin Bad
  BY <1>2, <1>3
<1>5. QED
  BY <1>2, <1>3, <1>4

-----------------------------------------------------------------------------
(* The engine's state, field by field. *)

\* The table of known peers: its domain is finite, its entries are peer records.
LEMMA TableFacts ==
    ASSUME NEW t \in PeerTables
    PROVE  /\ DOMAIN t \in SUBSET Peers /\ IsFiniteSet(DOMAIN t)
           /\ t \in [DOMAIN t -> PeerRec]
           /\ \A p \in DOMAIN t : t[p] \in PeerRec
<1>1. PICK D \in SUBSET Peers : t \in [D -> PeerRec]
  BY DEF PeerTables
<1>2. DOMAIN t = D
  BY <1>1
<1>3. IsFiniteSet(Peers)
  BY Sizes, FS_Interval DEF Peers
<1>4. IsFiniteSet(D)
  BY <1>3, FS_Subset
<1>5. QED
  BY <1>1, <1>2, <1>4

\* A function from some peers to peer records is such a table.
LEMMA TableMake ==
    ASSUME NEW D \in SUBSET Peers, NEW t \in [D -> PeerRec]
    PROVE  t \in PeerTables /\ DOMAIN t = D
BY DEF PeerTables

\* One entry of the table is written.
LEMMA TableUpdate ==
    ASSUME NEW t \in PeerTables, NEW p \in DOMAIN t, NEW v \in PeerRec, NEW u, u = [t EXCEPT ![p] = v]
    PROVE  /\ u \in PeerTables /\ DOMAIN u = DOMAIN t /\ u[p] = v
           /\ \A r \in DOMAIN t \ {p} : u[r] = t[r]
<1>1. DOMAIN t \in SUBSET Peers /\ t \in [DOMAIN t -> PeerRec]
  BY TableFacts
<1>2. u \in [DOMAIN t -> PeerRec] /\ u[p] = v /\ \A r \in DOMAIN t \ {p} : u[r] = t[r]
  BY <1>1
<1>3. QED
  BY <1>1, <1>2, TableMake

\* One peer is in question, and nothing the books say of the others has changed.
SameFor(S, T, u) ==
    /\ u \in DOMAIN T.peers <=> u \in DOMAIN S.peers
    /\ u \in DOMAIN S.peers => T.peers[u].piece = S.peers[u].piece
    /\ T.inbox[u] = S.inbox[u]

\* What holds of a peer in S holds in T if nothing about it differs.
LEMMA SameBooks ==
    ASSUME NEW S, NEW T, NEW q, NEW w, NEW u, SameFor(S, T, u),
           Placed(S, q, w, u), Early(S, q, w, u), Joining(S, q, w, u)
    PROVE  Placed(T, q, w, u) /\ Early(T, q, w, u) /\ Joining(T, q, w, u)
<1>1. Placed(T, q, w, u)
  BY DEF SameFor, Placed
<1>2. Early(T, q, w, u)
  BY DEF SameFor, Early
<1>3. Joining(T, q, w, u)
  BY DEF SameFor, Joining
<1>4. QED
  BY <1>1, <1>2, <1>3

\* A change to one peer keeps the books if they are right about that peer.
LEMMA OneTouched ==
    ASSUME NEW S, NEW T \in EngineRec, NEW q, NEW w, NEW p, Books(S, q, w),
           T.gone = S.gone, Sums(T), \A u \in Peers \ {p} : SameFor(S, T, u),
           Placed(T, q, w, p), Early(T, q, w, p), Joining(T, q, w, p)
    PROVE  Books(T, q, w)
<1>1. ASSUME NEW u \in Peers PROVE Placed(T, q, w, u) /\ Early(T, q, w, u) /\ Joining(T, q, w, u)
  <2>1. CASE u = p
    BY <2>1
  <2>2. CASE u # p
    <3>1. SameFor(S, T, u) /\ Placed(S, q, w, u) /\ Early(S, q, w, u) /\ Joining(S, q, w, u)
      BY <2>2 DEF Books
    <3>2. QED
      BY <3>1, SameBooks
  <2>3. QED
    BY <2>1, <2>2
<1>2. QED
  BY <1>1 DEF Books

\* The books under another account of the same peers.
LEMMA NoneTouched ==
    ASSUME NEW S, NEW T \in EngineRec, NEW q, NEW w, Books(S, q, w),
           T.gone = S.gone, Sums(T), \A u \in Peers : SameFor(S, T, u)
    PROVE  Books(T, q, w)
<1>1. ASSUME NEW u \in Peers PROVE Placed(T, q, w, u) /\ Early(T, q, w, u) /\ Joining(T, q, w, u)
  <2>1. SameFor(S, T, u) /\ Placed(S, q, w, u) /\ Early(S, q, w, u) /\ Joining(S, q, w, u)
    BY DEF Books
  <2>2. QED
    BY <2>1, SameBooks
<1>2. QED
  BY <1>1 DEF Books

-----------------------------------------------------------------------------
(* Orders in an inbox. *)

\* A Stop behind the orders changes none of them.
LEMMA AppendStop ==
    ASSUME NEW box \in Seq(Commands), NEW new, new = Append(box, Stop)
    PROVE  /\ new \in Seq(Commands) /\ Stopped(new)
           /\ NoOrder(box) => NoOrder(new)
           /\ \A i \in Pieces : OneOrder(box, i) => OneOrder(new, i)
<1>1. /\ new \in Seq(Commands) /\ Len(new) = Len(box) + 1
      /\ \A k \in 1 .. Len(box) : new[k] = box[k]
      /\ new[Len(box) + 1] = Stop
  BY DEF Commands
<1>2. Len(box) \in Nat
  OBVIOUS
<1>3. Stopped(new)
  BY <1>1, <1>2 DEF Stopped
<1>4. NoOrder(box) => NoOrder(new)
  BY <1>1, <1>2 DEF NoOrder
<1>5. ASSUME NEW i \in Pieces, OneOrder(box, i) PROVE OneOrder(new, i)
  <2>1. PICK k \in 1 .. Len(box) : box[k] = i /\ \A l \in 1 .. Len(box) : l # k => box[l] = Stop
    BY <1>5 DEF OneOrder
  <2>2. k \in 1 .. Len(new) /\ new[k] = i
    BY <1>1, <1>2, <2>1
  <2>3. \A l \in 1 .. Len(new) : l # k => new[l] = Stop
    BY <1>1, <1>2, <2>1
  <2>4. QED
    BY <2>2, <2>3 DEF OneOrder
<1>6. QED
  BY <1>1, <1>3, <1>4, <1>5

\* An order sent to a worker that has none is its only one.
LEMMA AppendOrder ==
    ASSUME NEW box \in Seq(Commands), NEW i \in Pieces, NoOrder(box), NEW new, new = Append(box, i)
    PROVE  new \in Seq(Commands) /\ OneOrder(new, i)
<1>1. /\ new \in Seq(Commands) /\ Len(new) = Len(box) + 1
      /\ \A k \in 1 .. Len(box) : new[k] = box[k]
      /\ new[Len(box) + 1] = i
  BY DEF Commands
<1>2. Len(box) \in Nat
  OBVIOUS
<1>3. Len(box) + 1 \in 1 .. Len(new) /\ \A l \in 1 .. Len(new) : l # Len(box) + 1 => new[l] = Stop
  BY <1>1, <1>2 DEF NoOrder
<1>4. QED
  BY <1>1, <1>3 DEF OneOrder

-----------------------------------------------------------------------------
(* assign *)

\* pick answers a piece that is offered, lacking and not in flight.
LEMMA PickFacts ==
    ASSUME NEW S \in EngineRec, NEW bf \in SUBSET Pieces
    PROVE  pick(S, bf) = None \/ pick(S, bf) \in bf \ (S.have \cup S.assigned)
<1> DEFINE free == bf \ (S.have \cup S.assigned)
           best(i) == \A j \in free : S.avail[i] < S.avail[j] \/ (S.avail[i] = S.avail[j] /\ i <= j)
<1>1. pick(S, bf) = IF free = {} THEN None ELSE CHOOSE i \in free : best(i)
  BY DEF pick, Least
<1>2. CASE free # {}
  <2>1. free \in SUBSET Nat /\ \A i \in free : S.avail[i] \in Nat
    <3>1. free \in SUBSET Pieces /\ S.avail \in Counters
      BY DEF EngineRec
    <3> HIDE DEF free
    <3>2. \A i \in free : S.avail[i] \in Nat
      BY <3>1 DEF Counters
    <3>3. QED
      BY <3>1, <3>2, PieceFacts
  <2>2. \E i \in free : best(i)
    <3> HIDE DEF free
    <3>1. QED
      BY <1>2, <2>1, LeastWeight
  <2>3. (CHOOSE i \in free : best(i)) \in free
    <3> HIDE DEF free, best
    <3>1. QED
      BY <2>2
  <2>4. QED
    BY <1>1, <1>2, <2>3
<1>3. QED
  BY <1>1, <1>2

\* endgame_pick answers a piece that is in flight, offered and lacking.
LEMMA EndgameFacts ==
    ASSUME NEW S \in EngineRec, NEW bf \in SUBSET Pieces
    PROVE  endgame_pick(S, bf) = None \/ endgame_pick(S, bf) \in (S.assigned \cap bf) \ S.have
<1> DEFINE dup == (S.assigned \cap bf) \ S.have
           H(i) == Cardinality({p \in DOMAIN S.peers : S.peers[p].piece = i})
           best(i) == \A j \in dup : H(i) < H(j) \/ (H(i) = H(j) /\ i <= j)
<1>1. endgame_pick(S, bf) = IF dup = {} THEN None ELSE CHOOSE i \in dup : best(i)
  BY DEF endgame_pick, Least
<1>2. CASE dup # {}
  <2>1. dup \in SUBSET Nat
    BY PieceFacts
  <2>2. ASSUME NEW i \in dup PROVE H(i) \in Nat
    <3>1. S.peers \in PeerTables
      BY DEF EngineRec
    <3>2. IsFiniteSet(DOMAIN S.peers)
      BY <3>1, TableFacts
    <3>3. {p \in DOMAIN S.peers : S.peers[p].piece = i} \in SUBSET DOMAIN S.peers
      OBVIOUS
    <3>4. QED
      BY <3>2, <3>3, FS_Subset, FS_CardinalityType
  <2> DEFINE f == [i \in dup |-> H(i)]
  <2>3. \A i \in dup : f[i] = H(i)
    OBVIOUS
  <2>4. \E i \in dup : \A j \in dup : f[i] < f[j] \/ (f[i] = f[j] /\ i <= j)
    <3>1. \A i \in dup : f[i] \in Nat
      BY <2>2, <2>3
    <3> HIDE DEF dup, f
    <3>2. QED
      BY <1>2, <2>1, <3>1, LeastWeight
  <2>5. \E i \in dup : best(i)
    <3> HIDE DEF f, H
    <3>1. QED
      BY <2>3, <2>4
  <2>6. (CHOOSE i \in dup : best(i)) \in dup
    <3> HIDE DEF dup, best
    <3>1. QED
      BY <2>5
  <2>7. QED
    BY <1>1, <1>2, <2>6
<1>3. QED
  BY <1>1, <1>2

\* Piece i goes to peer p.
Given(S, p, i) ==
    [S EXCEPT !.peers = [S.peers EXCEPT ![p] = [S.peers[p] EXCEPT !.piece = i]],
              !.inbox = [S.inbox EXCEPT ![p] = Append(S.inbox[p], i)],
              !.assigned = S.assigned \cup {i}]

\* assign does nothing, or gives one lacking piece to an idle known peer that runs.
LEMMA AssignCases ==
    ASSUME NEW S \in EngineRec, NEW p
    PROVE  \/ assign(S, p) = S
           \/ \E i \in Pieces : /\ p \in DOMAIN S.peers /\ p \notin S.gone
                                /\ S.peers[p].piece = None
                                /\ i \notin S.have /\ busy(S) < MaxBusy
                                /\ assign(S, p) = Given(S, p, i)
<1> DEFINE ps    == S.peers[p]
           bf    == ps.bf \ ps.bad
           fresh == pick(S, bf)
           tail  == Cardinality(S.have) + Cardinality(S.assigned) >= NumPieces
           idx   == IF fresh = None /\ tail THEN endgame_pick(S, bf) ELSE fresh
           out   == S.have = Pieces \/ busy(S) >= MaxBusy \/ p \notin DOMAIN S.peers \/ p \in S.gone
           none  == ~ps.unchoked \/ ps.piece # None \/ idx = None
<1>1. assign(S, p) = IF out THEN S ELSE IF none THEN S
                     ELSE [S EXCEPT !.peers[p].piece = idx, !.inbox[p] = Append(@, idx), !.assigned = @ \cup {idx}]
  BY DEF assign
<1>2. SUFFICES ASSUME ~out, ~none PROVE \E i \in Pieces : /\ p \in DOMAIN S.peers /\ p \notin S.gone
                                /\ S.peers[p].piece = None
                                /\ i \notin S.have /\ busy(S) < MaxBusy
                                /\ assign(S, p) = Given(S, p, i)
  BY <1>1
<1>3. S.peers \in PeerTables /\ S.assigned \in SUBSET Pieces
  BY DEF EngineRec
<1>4. p \in DOMAIN S.peers /\ p \in Peers /\ ps \in PeerRec /\ bf \in SUBSET Pieces
  BY <1>2, <1>3, TableFacts DEF PeerRec
<1>5. idx \in Pieces /\ idx \notin S.have
  <2>1. fresh = None \/ fresh \in bf \ (S.have \cup S.assigned)
    BY <1>4, PickFacts
  <2>2. endgame_pick(S, bf) = None \/ endgame_pick(S, bf) \in (S.assigned \cap bf) \ S.have
    BY <1>4, EndgameFacts
  <2> HIDE DEF fresh, tail, bf
  <2>3. QED
    BY <1>2, <1>4, <2>1, <2>2
<1>6. busy(S) < MaxBusy
  <2>1. Busy(S) \in SUBSET DOMAIN S.peers /\ IsFiniteSet(DOMAIN S.peers)
    BY <1>3, TableFacts DEF Busy
  <2>2. busy(S) = Cardinality(Busy(S)) /\ busy(S) \in Nat
    BY <2>1, FS_Subset, FS_CardinalityType DEF busy, Busy
  <2>3. QED
    BY <1>2, <2>2, Sizes
<1>7. assign(S, p) = Given(S, p, idx)
  <2>1. assign(S, p) = [S EXCEPT !.peers[p].piece = idx, !.inbox[p] = Append(@, idx), !.assigned = @ \cup {idx}]
    BY <1>1, <1>2
  <2> HIDE DEF idx
  <2>2. QED
    BY <2>1, <1>3, <1>4 DEF Given, EngineRec
<1>8. QED
  BY <1>2, <1>5, <1>6, <1>7

\* The busy count is a natural, that of the peers with a piece.
LEMMA BusyFacts ==
    ASSUME NEW S \in EngineRec
    PROVE  IsFiniteSet(Busy(S)) /\ busy(S) = Cardinality(Busy(S)) /\ busy(S) \in Nat
<1>1. S.peers \in PeerTables
  BY DEF EngineRec
<1>2. Busy(S) \in SUBSET DOMAIN S.peers /\ IsFiniteSet(DOMAIN S.peers)
  BY <1>1, TableFacts DEF Busy
<1>3. QED
  BY <1>2, FS_Subset, FS_CardinalityType DEF busy, Busy

\* Giving a lacking piece to an idle peer keeps the books while the busy cap has room.
LEMMA GivenKeeps ==
    ASSUME NEW S, NEW q, NEW w, Books(S, q, w), NEW p \in DOMAIN S.peers, p \notin S.gone,
           S.peers[p].piece = None, NEW i \in Pieces, i \notin S.have, busy(S) < MaxBusy,
           w \in WorkTable
    PROVE  Books(Given(S, p, i), q, w) /\ Given(S, p, i).have = S.have
<1>1. /\ S \in EngineRec /\ S.peers \in PeerTables /\ S.inbox \in Inboxes /\ S.assigned \in SUBSET Pieces
      /\ S.gone = {r \in Peers : w[r].phase = "gone"} /\ Sums(S)
  BY DEF Books, EngineRec
<1>2. p \in Peers /\ S.peers[p] \in PeerRec
  BY <1>1, TableFacts
<1>3. w[p].phase = "serve"
  <2>1. w[p].phase \in {"new", "join", "serve", "gone"}
    BY <1>2 DEF WorkTable, WorkRec
  <2>2. Early(S, q, w, p) /\ w[p].phase # "gone"
    BY <1>1, <1>2 DEF Books
  <2>3. QED
    BY <2>1, <2>2 DEF Early
<1>4. Nowhere(w[p].job.index, S.inbox[p], q, p)
  BY <1>2, <1>3 DEF Books, Placed
<1>5. S.inbox[p] \in Seq(Commands)
  BY <1>1, <1>2 DEF Inboxes
<1> DEFINE v == [S.peers[p] EXCEPT !.piece = i]
           t == [S.peers EXCEPT ![p] = v]
           new == Append(S.inbox[p], i)
           b == [S.inbox EXCEPT ![p] = new]
           a == S.assigned \cup {i}
           T == Given(S, p, i)
<1>6. v \in PeerRec /\ v.piece = i /\ v.bf = S.peers[p].bf
  BY <1>2 DEF PeerRec, PieceOrNone
<1> HIDE DEF v
<1>7. /\ t \in PeerTables /\ DOMAIN t = DOMAIN S.peers /\ t[p] = v
      /\ \A r \in DOMAIN S.peers \ {p} : t[r] = S.peers[r]
  BY <1>1, <1>6, TableUpdate
<1>8. new \in Seq(Commands) /\ OneOrder(new, i)
  BY <1>4, <1>5, AppendOrder DEF Nowhere
<1> HIDE DEF new
<1>9. b \in Inboxes /\ b[p] = new /\ \A r \in Peers \ {p} : b[r] = S.inbox[r]
  BY <1>1, <1>2, <1>8 DEF Inboxes
<1>10. a \in SUBSET Pieces
  BY <1>1
<1>11. T = [S EXCEPT !.peers = t, !.inbox = b, !.assigned = a]
  BY DEF Given, v, new
<1> HIDE DEF t, b, a, T
<1>12. /\ T \in EngineRec /\ T.peers = t /\ T.inbox = b /\ T.assigned = a
       /\ T.have = S.have /\ T.gone = S.gone /\ T.avail = S.avail
  BY <1>1, <1>7, <1>9, <1>10, <1>11 DEF EngineRec
<1>13. AssignedExact(T)
  <2>1. S.assigned = InHand(S) \ ({None} \cup S.have)
    BY <1>1 DEF Sums, AssignedExact
  <2>2. ASSUME NEW x PROVE x \in T.assigned <=> x \in InHand(T) \ ({None} \cup T.have)
    <3>1. x \in InHand(T) <=> x = i \/ \E r \in DOMAIN S.peers \ {p} : x = S.peers[r].piece
      BY <1>6, <1>7, <1>12 DEF InHand
    <3>2. x \in InHand(S) <=> x = None \/ \E r \in DOMAIN S.peers \ {p} : x = S.peers[r].piece
      BY DEF InHand
    <3>3. QED
      BY <1>12, <2>1, <3>1, <3>2, PieceFacts DEF a
  <2>3. QED
    BY <2>2 DEF AssignedExact
<1>14. AvailExact(T)
  <2>1. ASSUME NEW k PROVE Offering(T, k) = Offering(S, k)
    BY <1>6, <1>7, <1>12 DEF Offering
  <2>2. QED
    BY <1>1, <1>12, <2>1 DEF Sums, AvailExact
<1>15. busy(T) <= MaxBusy
  <2>1. Busy(T) = Busy(S) \cup {p}
    BY <1>6, <1>7, <1>12, PieceFacts DEF Busy
  <2>2. p \notin Busy(S)
    BY DEF Busy
  <2>3. Cardinality(Busy(T)) = Cardinality(Busy(S)) + 1
    BY <1>1, <2>1, <2>2, BusyFacts, FS_AddElement
  <2>4. QED
    BY <1>1, <1>12, <2>3, BusyFacts, Sizes
<1>16. \A u \in Peers \ {p} : SameFor(S, T, u)
  BY <1>7, <1>9, <1>12 DEF SameFor
<1>17. Placed(T, q, w, p)
  <2>1. T.peers[p].piece = i /\ T.inbox[p] = new /\ p \in DOMAIN T.peers
    BY <1>6, <1>7, <1>9, <1>12
  <2>2. Somewhere(i, w[p].job.index, new, q, p)
    BY <1>4, <1>8 DEF Nowhere, Somewhere
  <2>3. QED
    BY <2>1, <2>2, PieceFacts DEF Placed
<1>18. Early(T, q, w, p) /\ Joining(T, q, w, p)
  <2>1. Joining(S, q, w, p)
    BY <1>2 DEF Books
  <2>2. QED
    BY <1>3, <2>1 DEF Early, Joining
<1>19. QED
  BY <1>12, <1>13, <1>14, <1>15, <1>16, <1>17, <1>18, OneTouched DEF Sums, T

\* assign keeps the books and `have`.
LEMMA AssignKeeps ==
    ASSUME NEW S, NEW q, NEW w, Books(S, q, w), w \in WorkTable, NEW p
    PROVE  Books(assign(S, p), q, w) /\ assign(S, p).have = S.have
<1>1. S \in EngineRec
  BY DEF Books
<1>2. CASE assign(S, p) = S
  BY <1>2
<1>3. CASE \E i \in Pieces : /\ p \in DOMAIN S.peers /\ p \notin S.gone
                             /\ S.peers[p].piece = None
                             /\ i \notin S.have /\ busy(S) < MaxBusy
                             /\ assign(S, p) = Given(S, p, i)
  <2>1. PICK i \in Pieces : /\ p \in DOMAIN S.peers /\ p \notin S.gone
                            /\ S.peers[p].piece = None
                            /\ i \notin S.have /\ busy(S) < MaxBusy
                            /\ assign(S, p) = Given(S, p, i)
    BY <1>3
  <2>2. Books(Given(S, p, i), q, w) /\ Given(S, p, i).have = S.have
    BY <2>1, GivenKeeps
  <2>3. QED
    BY <2>1, <2>2
<1>4. QED
  BY <1>1, <1>2, <1>3, AssignCases

\* Where folds over the engine's state stay.
Kept(q, w, h) == {S \in EngineRec : Books(S, q, w) /\ S.have = h}

\* assign_idle keeps the books and `have`, one idle peer after the other.
LEMMA AssignIdleKeeps ==
    ASSUME NEW S, NEW q, NEW w, Books(S, q, w), w \in WorkTable
    PROVE  Books(assign_idle(S), q, w) /\ assign_idle(S).have = S.have
<1> DEFINE idle == {p \in DOMAIN S.peers : S.peers[p].piece = None /\ S.peers[p].unchoked}
           N == Len([p \in Peers |-> p])
           step(T, p) == IF p \in idle THEN assign(T, p) ELSE T
           body(f) == [n \in 0 .. N |-> IF n = 0 THEN S ELSE step(f[n - 1], [p \in Peers |-> p][n])]
           upto == CHOOSE f : f = body(f)
           G == Kept(q, w, S.have)
<1>1. assign_idle(S) = upto[N]
  BY DEF assign_idle, InTurn
<1>2. N = NumPeers /\ N \in Nat /\ \A n \in 1 .. N : [p \in Peers |-> p][n] = n
  BY Sizes DEF Peers
<1>3. S \in G
  BY DEF Books, Kept
<1>4. ASSUME NEW T \in G, NEW p PROVE step(T, p) \in G
  <2>1. Books(T, q, w) /\ T.have = S.have
    BY DEF Kept
  <2>2. Books(assign(T, p), q, w) /\ assign(T, p).have = S.have
    BY <2>1, AssignKeeps
  <2>3. assign(T, p) \in G
    BY <2>2 DEF Kept, Books
  <2>4. QED
    BY <2>3
<1> HIDE DEF N, G, step
<1>5. \E f : f = body(f)
  <2> DEFINE st == [x \in (1 .. N) \X G |-> step(x[2], x[1])]
  <2>1. \A n \in 1 .. N, T \in G : st[<<n, T>>] = step(T, n) /\ st[<<n, T>>] \in G
    BY <1>4
  <2> HIDE DEF st
  <2>a. PICK f : IsFold(f, N, S, st, G)
    BY <1>2, <1>3, <2>1, FoldExists
  <2>2. /\ f = [n \in 0 .. N |-> IF n = 0 THEN S ELSE st[<<n, f[n - 1]>>]]
        /\ \A n \in 0 .. N : f[n] \in G
    BY <2>a DEF IsFold
  <2>3. \A n \in 0 .. N : (IF n = 0 THEN S ELSE st[<<n, f[n - 1]>>])
                          = IF n = 0 THEN S ELSE step(f[n - 1], [p \in Peers |-> p][n])
    <3> SUFFICES ASSUME NEW n \in 1 .. N
                 PROVE  st[<<n, f[n - 1]>>] = step(f[n - 1], [p \in Peers |-> p][n])
      BY <1>2
    <3>1. n - 1 \in 0 .. N
      BY <1>2
    <3>2. st[<<n, f[n - 1]>>] = step(f[n - 1], n)
      BY <2>1, <2>2, <3>1
    <3>3. QED
      BY <1>2, <3>2
  <2>4. f = body(f)
    BY <2>2, <2>3
  <2>5. QED
    BY <2>4
<1>6. upto = body(upto)
  <2> HIDE DEF body
  <2>1. QED
    BY <1>5
<1> HIDE DEF upto
<1>7. upto[0] = S /\ \A n \in 1 .. N : upto[n] = step(upto[n - 1], n)
  <2>1. \A n \in 0 .. N : upto[n] = IF n = 0 THEN S ELSE step(upto[n - 1], [p \in Peers |-> p][n])
    BY <1>6
  <2>2. upto[0] = S
    <3>1. 0 \in 0 .. N
      BY <1>2
    <3>2. QED
      BY <2>1, <3>1, Zenon
  <2>3. ASSUME NEW n \in 1 .. N PROVE upto[n] = step(upto[n - 1], n)
    <3>1. n \in 0 .. N /\ n # 0 /\ [p \in Peers |-> p][n] = n
      BY <1>2
    <3>2. QED
      BY <2>1, <3>1
  <2>4. QED
    BY <2>2, <2>3
<1>8. upto[N] \in G
  BY <1>2, <1>3, <1>4, <1>7, FoldStays
<1>9. QED
  BY <1>1, <1>8 DEF G, Kept

-----------------------------------------------------------------------------
(* Giving a piece back. *)

\* `assigned` is exact but for i.
Loose(S, i) ==
    /\ InHand(S) \ ({None} \cup S.have) \subseteq S.assigned
    /\ S.assigned \subseteq (InHand(S) \ ({None} \cup S.have)) \cup {i}
    /\ S.assigned \cap S.have = {}

SameButAssigned(S, T) ==
    /\ T \in EngineRec /\ T.peers = S.peers /\ T.avail = S.avail /\ T.have = S.have
    /\ T.inbox = S.inbox /\ T.gone = S.gone

\* release makes `assigned` exact again once a peer has let go of the piece.
LEMMA ReleaseExact ==
    ASSUME NEW S \in EngineRec, NEW i \in Pieces, Loose(S, i)
    PROVE  SameButAssigned(S, release(S, i)) /\ AssignedExact(release(S, i))
<1>1. CASE \E p \in DOMAIN S.peers : S.peers[p].piece = i
  <2>1. release(S, i) = S
    BY <1>1 DEF release
  <2>2. i \in InHand(S)
    BY <1>1 DEF InHand
  <2>3. AssignedExact(S)
    BY <2>2, PieceFacts DEF AssignedExact, Loose
  <2>4. QED
    BY <2>1, <2>3 DEF SameButAssigned
<1>2. CASE ~(\E p \in DOMAIN S.peers : S.peers[p].piece = i)
  <2> DEFINE a == S.assigned \ {i}
             T == [S EXCEPT !.assigned = a]
  <2>1. release(S, i) = T
    BY <1>2 DEF release
  <2>2. a \in SUBSET Pieces
    BY DEF EngineRec
  <2>3. T \in EngineRec /\ T.peers = S.peers /\ T.avail = S.avail /\ T.have = S.have
        /\ T.inbox = S.inbox /\ T.gone = S.gone /\ T.assigned = a
    <3> HIDE DEF a
    <3>1. QED
      BY <2>2 DEF EngineRec
  <2> HIDE DEF T
  <2>4. InHand(T) = InHand(S) /\ i \notin InHand(S)
    BY <1>2, <2>3 DEF InHand
  <2>5. AssignedExact(T)
    BY <2>3, <2>4 DEF AssignedExact, Loose
  <2>6. QED
    BY <2>1, <2>3, <2>5 DEF SameButAssigned
<1>3. QED
  BY <1>1, <1>2

\* The counters look at the table only.
LEMMA SumsOfTable ==
    ASSUME NEW S, NEW T, T.peers = S.peers, T.avail = S.avail, AvailExact(S), busy(S) <= MaxBusy,
           AssignedExact(T)
    PROVE  Sums(T)
BY DEF Sums, AvailExact, Offering, busy

\* What is not about pieces or bitfields may change freely.
LEMMA SetPeerKeeps ==
    ASSUME NEW S, NEW q, NEW w, Books(S, q, w), NEW p \in DOMAIN S.peers, NEW v \in PeerRec,
           v.piece = S.peers[p].piece, v.bf = S.peers[p].bf,
           NEW T, T = [S EXCEPT !.peers = [S.peers EXCEPT ![p] = v]]
    PROVE  Books(T, q, w) /\ T.have = S.have /\ T.gone = S.gone /\ T.inbox = S.inbox
           /\ DOMAIN T.peers = DOMAIN S.peers /\ T.peers[p] = v
<1>1. S \in EngineRec /\ S.peers \in PeerTables /\ Sums(S)
  BY DEF Books, EngineRec
<1> DEFINE t == [S.peers EXCEPT ![p] = v]
<1>2. /\ t \in PeerTables /\ DOMAIN t = DOMAIN S.peers /\ t[p] = v
      /\ \A r \in DOMAIN S.peers \ {p} : t[r] = S.peers[r]
  BY <1>1, TableUpdate
<1> HIDE DEF t
<1>3. T \in EngineRec /\ T.peers = t /\ T.avail = S.avail /\ T.have = S.have
      /\ T.inbox = S.inbox /\ T.gone = S.gone /\ T.assigned = S.assigned
  BY <1>1, <1>2 DEF EngineRec, t
<1>4. \A r \in DOMAIN S.peers : t[r].piece = S.peers[r].piece /\ t[r].bf = S.peers[r].bf
  BY <1>2
<1>5. Sums(T)
  <2>1. InHand(T) = InHand(S)
    BY <1>2, <1>3, <1>4 DEF InHand
  <2>2. \A k : Offering(T, k) = Offering(S, k)
    BY <1>2, <1>3, <1>4 DEF Offering
  <2>3. Busy(T) = Busy(S)
    BY <1>2, <1>3, <1>4 DEF Busy
  <2>4. AssignedExact(T) /\ AvailExact(T)
    BY <1>1, <1>3, <2>1, <2>2 DEF Sums, AssignedExact, AvailExact
  <2>5. busy(T) <= MaxBusy
    BY <1>1, <1>3, <2>3, BusyFacts DEF Sums
  <2>6. QED
    BY <2>4, <2>5 DEF Sums
<1>6. \A u \in Peers : SameFor(S, T, u)
  BY <1>2, <1>3, <1>4 DEF SameFor
<1>7. QED
  BY <1>2, <1>3, <1>5, <1>6, NoneTouched

\* Sending Stop keeps the books; a worker that runs has it in its inbox.
LEMMA StopKeeps ==
    ASSUME NEW S, NEW q, NEW w, Books(S, q, w), NEW p \in Peers
    PROVE  /\ Books(stop(S, p), q, w)
           /\ stop(S, p).have = S.have /\ stop(S, p).peers = S.peers /\ stop(S, p).gone = S.gone
           /\ p \notin S.gone => Stopped(stop(S, p).inbox[p])
<1>1. S \in EngineRec /\ S.inbox \in Inboxes /\ Sums(S)
  BY DEF Books, EngineRec
<1>2. CASE p \in S.gone
  <2>1. stop(S, p) = S
    BY <1>2 DEF stop
  <2>2. QED
    BY <1>2, <2>1
<1>3. CASE p \notin S.gone
  <2> DEFINE new == Append(S.inbox[p], Stop)
             b == [S.inbox EXCEPT ![p] = new]
             T == [S EXCEPT !.inbox = b]
  <2>1. stop(S, p) = T
    BY <1>1, <1>3 DEF stop, EngineRec
  <2>2. S.inbox[p] \in Seq(Commands)
    BY <1>1 DEF Inboxes
  <2>3. /\ new \in Seq(Commands) /\ Stopped(new)
        /\ NoOrder(S.inbox[p]) => NoOrder(new)
        /\ \A i \in Pieces : OneOrder(S.inbox[p], i) => OneOrder(new, i)
    BY <2>2, AppendStop
  <2> HIDE DEF new
  <2>4. b \in Inboxes /\ b[p] = new /\ \A r \in Peers \ {p} : b[r] = S.inbox[r]
    BY <1>1, <2>3 DEF Inboxes
  <2> HIDE DEF b
  <2>5. T \in EngineRec /\ T.peers = S.peers /\ T.avail = S.avail /\ T.have = S.have
        /\ T.inbox = b /\ T.gone = S.gone /\ T.assigned = S.assigned
    BY <1>1, <2>4 DEF EngineRec
  <2> HIDE DEF T
  <2>6. Sums(T)
    <3>1. AssignedExact(T)
      BY <1>1, <2>5 DEF Sums, AssignedExact, InHand
    <3>2. QED
      BY <1>1, <2>5, <3>1, SumsOfTable DEF Sums
  <2>7. \A u \in Peers \ {p} : SameFor(S, T, u)
    BY <2>4, <2>5 DEF SameFor
  <2>8. Placed(S, q, w, p) /\ Early(S, q, w, p) /\ Joining(S, q, w, p)
    BY DEF Books
  <2>9. ASSUME NEW j PROVE Nowhere(j, S.inbox[p], q, p) => Nowhere(j, new, q, p)
    BY <2>3 DEF Nowhere
  <2>10. ASSUME NEW j, NEW i PROVE Somewhere(i, j, S.inbox[p], q, p) => Somewhere(i, j, new, q, p)
    BY <2>3 DEF Somewhere
  <2>11. T.inbox[p] = new
    BY <2>4, <2>5
  <2>12. Placed(T, q, w, p)
    BY <2>3, <2>5, <2>8, <2>9, <2>10, <2>11 DEF Placed
  <2>13. Early(T, q, w, p)
    BY <2>3, <2>5, <2>8, <2>11 DEF Early
  <2>14. Joining(T, q, w, p)
    BY <2>5, <2>8, <2>9, <2>11 DEF Joining
  <2>15. Books(T, q, w)
    BY <2>5, <2>6, <2>7, <2>12, <2>13, <2>14, OneTouched
  <2>16. QED
    BY <2>1, <2>3, <2>5, <2>11, <2>15
<1>4. QED
  BY <1>2, <1>3

\* A peer is forgotten; if it has a piece in hand it has been told to stop.
LEMMA GoneKeeps ==
    ASSUME NEW S, NEW q, NEW w, Books(S, q, w), w \in WorkTable, NEW p,
           p \in DOMAIN S.peers /\ w[p].phase = "serve" => Stopped(S.inbox[p])
    PROVE  Books(gone(S, p), q, w) /\ gone(S, p).have = S.have
<1>1. /\ S \in EngineRec /\ S.peers \in PeerTables /\ S.avail \in Counters /\ Sums(S)
      /\ S.assigned \in SUBSET Pieces
  BY DEF Books, EngineRec
<1>2. CASE p \notin DOMAIN S.peers
  BY <1>2, AssignIdleKeeps DEF gone
<1>3. CASE p \in DOMAIN S.peers
  <2> DEFINE ps == S.peers[p]
             t == [r \in DOMAIN S.peers \ {p} |-> S.peers[r]]
             a == remove_bitfield(S.avail, ps.bf)
             T == [S EXCEPT !.peers = t, !.avail = a]
             R == IF ps.piece = None THEN T ELSE release(T, ps.piece)
  <2>1. gone(S, p) = assign_idle(R)
    BY <1>1, <1>3 DEF gone, EngineRec
  <2>2. p \in Peers /\ ps \in PeerRec /\ DOMAIN S.peers \in SUBSET Peers /\ IsFiniteSet(DOMAIN S.peers)
        /\ S.peers \in [DOMAIN S.peers -> PeerRec]
    BY <1>1, <1>3, TableFacts
  <2>3. t \in [DOMAIN S.peers \ {p} -> PeerRec] /\ \A r \in DOMAIN S.peers \ {p} : t[r] = S.peers[r]
    BY <2>2
  <2>4. t \in PeerTables /\ DOMAIN t = DOMAIN S.peers \ {p}
    <3>1. DOMAIN S.peers \ {p} \in SUBSET Peers
      BY <2>2
    <3> HIDE DEF t
    <3>2. QED
      BY <2>3, <3>1, TableMake
  <2> HIDE DEF t
  <2>5. \A k \in Pieces : S.avail[k] = Cardinality(Offering(S, k)) /\ S.avail[k] \in Nat
    BY <1>1 DEF Sums, AvailExact, Counters
  <2>6. \A k \in Pieces : a[k] = IF k \in ps.bf /\ S.avail[k] > 0 THEN S.avail[k] - 1 ELSE S.avail[k]
    BY DEF remove_bitfield
  <2>7. a \in Counters
    <3>1. a = [k \in Pieces |-> IF k \in ps.bf /\ S.avail[k] > 0 THEN S.avail[k] - 1 ELSE S.avail[k]]
      BY DEF remove_bitfield
    <3>2. \A k \in Pieces : (IF k \in ps.bf /\ S.avail[k] > 0 THEN S.avail[k] - 1 ELSE S.avail[k]) \in Nat
      BY <2>5
    <3> HIDE DEF a
    <3>3. QED
      BY <3>1, <3>2 DEF Counters
  <2> HIDE DEF a
  <2>8. T \in EngineRec /\ T.peers = t /\ T.avail = a /\ T.have = S.have
        /\ T.inbox = S.inbox /\ T.gone = S.gone /\ T.assigned = S.assigned
    BY <1>1, <2>4, <2>7 DEF EngineRec
  <2> HIDE DEF T
  <2>9. AvailExact(T)
    <3> SUFFICES ASSUME NEW k \in Pieces PROVE a[k] = Cardinality(Offering(T, k))
      BY <2>8 DEF AvailExact
    <3>1. Offering(T, k) = Offering(S, k) \ {p}
      BY <2>3, <2>4, <2>8 DEF Offering
    <3>2. IsFiniteSet(Offering(S, k))
      <4>1. Offering(S, k) \in SUBSET DOMAIN S.peers
        BY DEF Offering
      <4>2. QED
        BY <2>2, <4>1, FS_Subset
    <3>3. Cardinality(Offering(T, k)) = IF p \in Offering(S, k) THEN S.avail[k] - 1 ELSE S.avail[k]
      <4> DEFINE O == Offering(S, k)
      <4>1. IsFiniteSet(O) /\ Offering(T, k) = O \ {p} /\ Cardinality(O) = S.avail[k]
        BY <2>5, <3>1, <3>2
      <4> HIDE DEF O
      <4>2. Cardinality(O \ {p}) = IF p \in O THEN Cardinality(O) - 1 ELSE Cardinality(O)
        BY <4>1, FS_RemoveElement
      <4>3. QED
        BY <4>1, <4>2 DEF O
    <3>4. p \in Offering(S, k) <=> k \in ps.bf
      BY <1>3 DEF Offering
    <3>5. p \in Offering(S, k) => S.avail[k] > 0
      BY <2>5, <3>2, FS_EmptySet
    <3>6. QED
      BY <2>5, <2>6, <3>3, <3>4, <3>5
  <2>10. busy(T) <= MaxBusy
    <3>1. Busy(T) \in SUBSET Busy(S)
      BY <2>3, <2>4, <2>8 DEF Busy
    <3>2. Cardinality(Busy(T)) <= Cardinality(Busy(S))
      BY <1>1, <3>1, BusyFacts, FS_Subset
    <3>3. QED
      BY <1>1, <2>8, <3>2, BusyFacts, Sizes DEF Sums
  <2>11. S.assigned = InHand(S) \ ({None} \cup S.have)
    BY <1>1 DEF Sums, AssignedExact
  <2>12. InHand(S) = InHand(T) \cup {ps.piece}
    BY <1>3, <2>3, <2>4, <2>8 DEF InHand
  <2>13. SameButAssigned(T, R) /\ AssignedExact(R)
    <3>1. CASE ps.piece = None
      <4>1. AssignedExact(T)
        BY <2>8, <2>11, <2>12, <3>1 DEF AssignedExact
      <4>2. QED
        BY <2>8, <3>1, <4>1 DEF SameButAssigned
    <3>2. CASE ps.piece # None
      <4>1. ps.piece \in Pieces
        BY <2>2, <3>2 DEF PeerRec, PieceOrNone
      <4>2. Loose(T, ps.piece)
        BY <2>8, <2>11, <2>12 DEF Loose
      <4>3. QED
        BY <2>8, <3>2, <4>1, <4>2, ReleaseExact
    <3>3. QED
      BY <3>1, <3>2
  <2> HIDE DEF R
  <2>14. Sums(R)
    BY <2>9, <2>10, <2>13, SumsOfTable DEF SameButAssigned
  <2>15. /\ R \in EngineRec /\ R.gone = S.gone /\ R.have = S.have /\ R.inbox = S.inbox /\ R.peers = t
    BY <2>8, <2>13 DEF SameButAssigned
  <2>16. \A u \in Peers \ {p} : SameFor(S, R, u)
    BY <2>3, <2>4, <2>15 DEF SameFor
  <2>17. Placed(S, q, w, p) /\ Early(S, q, w, p) /\ Joining(S, q, w, p) /\ p \notin DOMAIN R.peers
    BY <2>2, <2>4, <2>15 DEF Books
  <2>18. Placed(R, q, w, p)
    <3>1. SUFFICES ASSUME w[p].phase = "serve"
                   PROVE  \/ Nowhere(w[p].job.index, S.inbox[p], q, p)
                          \/ Stopped(S.inbox[p]) /\ \E i \in Pieces : Somewhere(i, w[p].job.index, S.inbox[p], q, p)
      BY <2>15, <2>17 DEF Placed
    <3>2. QED
      BY <1>3, <2>17, <3>1 DEF Placed, Somewhere
  <2>19. Early(R, q, w, p) /\ Joining(R, q, w, p)
    BY <1>3, <2>17 DEF Early, Joining
  <2>20. Books(R, q, w)
    BY <2>14, <2>15, <2>16, <2>18, <2>19, OneTouched
  <2>21. QED
    BY <2>1, <2>15, <2>20, AssignIdleKeeps
<1>4. QED
  BY <1>2, <1>3

\* An eviction keeps the books and `have`.
LEMMA EvictKeeps ==
    ASSUME NEW S, NEW q, NEW w, Books(S, q, w), w \in WorkTable, NEW p \in Peers
    PROVE  Books(evict(S, p), q, w) /\ evict(S, p).have = S.have
<1> DEFINE T == stop(S, p)
<1>1. /\ Books(T, q, w) /\ T.have = S.have /\ T.gone = S.gone
      /\ p \notin S.gone => Stopped(T.inbox[p])
  BY StopKeeps
<1>2. w[p].phase = "serve" => p \notin S.gone
  BY DEF Books
<1> HIDE DEF T
<1>3. Books(gone(T, p), q, w) /\ gone(T, p).have = T.have
  BY <1>1, <1>2, GoneKeeps
<1>4. QED
  BY <1>1, <1>3 DEF evict, T

\* A strike, and the ban it may end in, keeps the books and `have`.
LEMMA StrikeKeeps ==
    ASSUME NEW S, NEW q, NEW w, Books(S, q, w), w \in WorkTable, NEW p \in Peers, NEW i \in Pieces
    PROVE  Books(strike(S, p, i), q, w) /\ strike(S, p, i).have = S.have
<1>1. CASE p \notin DOMAIN S.peers
  BY <1>1 DEF strike
<1>2. CASE p \in DOMAIN S.peers
  <2>1. S \in EngineRec /\ S.peers \in PeerTables
    BY DEF Books, EngineRec
  <2>2. S.peers[p] \in PeerRec /\ S.peers \in [DOMAIN S.peers -> PeerRec]
    BY <1>2, <2>1, TableFacts
  <2> DEFINE v == [S.peers[p] EXCEPT !.strikes = S.peers[p].strikes + 1, !.bad = S.peers[p].bad \cup {i}]
             T == [S EXCEPT !.peers = [S.peers EXCEPT ![p] = v]]
  <2>3. v \in PeerRec /\ v.piece = S.peers[p].piece /\ v.bf = S.peers[p].bf
    <3> DEFINE n == S.peers[p].strikes + 1
               bad == S.peers[p].bad \cup {i}
    <3>1. n \in Nat /\ bad \in SUBSET Pieces
      BY <2>2 DEF PeerRec
    <3> HIDE DEF n, bad
    <3>2. v = [S.peers[p] EXCEPT !.strikes = n, !.bad = bad]
      BY DEF n, bad
    <3>3. QED
      BY <2>2, <3>1, <3>2 DEF PeerRec
  <2>4. [S EXCEPT !.peers[p].strikes = @ + 1, !.peers[p].bad = @ \cup {i}] = T
    BY <1>2, <2>1, <2>2 DEF EngineRec, PeerRec
  <2>5. strike(S, p, i) = IF T.peers[p].strikes >= MaxStrikes THEN evict(T, p) ELSE T
    BY <1>2, <2>4 DEF strike, evict
  <2> HIDE DEF v
  <2>6. Books(T, q, w) /\ T.have = S.have
    BY <1>2, <2>3, SetPeerKeeps
  <2> HIDE DEF T
  <2>7. Books(evict(T, p), q, w) /\ evict(T, p).have = S.have
    BY <2>6, EvictKeeps
  <2>8. QED
    BY <2>5, <2>6, <2>7
<1>3. QED
  BY <1>1, <1>2

\* Counting a piece that no peer is charged with by the event keeps the books.
LEMMA WriteKeeps ==
    ASSUME NEW S, NEW q, NEW w, Books(S, q, w), NEW i \in Pieces
    PROVE  Books(write_piece(S, i), q, w) /\ write_piece(S, i).have = S.have \cup {i}
<1>1. S \in EngineRec /\ Sums(S) /\ S.have \in SUBSET Pieces /\ S.assigned \in SUBSET Pieces
  BY DEF Books, EngineRec
<1> DEFINE h == S.have \cup {i}
           a == S.assigned \ {i}
           T == [S EXCEPT !.have = h, !.assigned = a]
<1>2. h \in SUBSET Pieces /\ a \in SUBSET Pieces
  BY <1>1
<1>3. write_piece(S, i) = T
  BY DEF write_piece
<1> HIDE DEF h, a
<1>4. T \in EngineRec /\ T.peers = S.peers /\ T.avail = S.avail /\ T.have = h
      /\ T.inbox = S.inbox /\ T.gone = S.gone /\ T.assigned = a
  BY <1>1, <1>2 DEF EngineRec
<1> HIDE DEF T
<1>5. AssignedExact(T)
  <2>1. InHand(T) = InHand(S)
    BY <1>4 DEF InHand
  <2>2. QED
    BY <1>1, <1>4, <2>1 DEF Sums, AssignedExact, h, a
<1>6. Sums(T)
  BY <1>1, <1>4, <1>5, SumsOfTable DEF Sums
<1>7. \A u \in Peers : SameFor(S, T, u)
  BY <1>4 DEF SameFor
<1>8. QED
  BY <1>3, <1>4, <1>6, <1>7, NoneTouched DEF h

\* The eviction of any peers in any order.
LEMMA EvictionsKeep ==
    ASSUME NEW S, NEW q, NEW w, Books(S, q, w), w \in WorkTable, NEW order \in Seq(Peers)
    PROVE  Books(InTurn(evict, S, order), q, w) /\ InTurn(evict, S, order).have = S.have
<1> DEFINE N == Len(order)
           body(f) == [n \in 0 .. N |-> IF n = 0 THEN S ELSE evict(f[n - 1], order[n])]
           upto == CHOOSE f : f = body(f)
           G == Kept(q, w, S.have)
<1>1. InTurn(evict, S, order) = upto[N]
  BY DEF InTurn
<1>2. N \in Nat /\ \A n \in 1 .. N : order[n] \in Peers
  OBVIOUS
<1>3. S \in G
  BY DEF Books, Kept
<1>4. ASSUME NEW T \in G, NEW p \in Peers PROVE evict(T, p) \in G
  <2>1. Books(T, q, w) /\ T.have = S.have
    BY DEF Kept
  <2>2. Books(evict(T, p), q, w) /\ evict(T, p).have = S.have
    BY <2>1, EvictKeeps
  <2>3. QED
    BY <2>2 DEF Kept, Books
<1> HIDE DEF N, G
<1>5. \E f : f = body(f)
  <2> DEFINE st == [x \in (1 .. N) \X G |-> evict(x[2], order[x[1]])]
  <2>1. \A n \in 1 .. N, T \in G : st[<<n, T>>] = evict(T, order[n]) /\ st[<<n, T>>] \in G
    BY <1>2, <1>4
  <2> HIDE DEF st
  <2>2. PICK f : IsFold(f, N, S, st, G)
    BY <1>2, <1>3, <2>1, FoldExists
  <2>3. /\ f = [n \in 0 .. N |-> IF n = 0 THEN S ELSE st[<<n, f[n - 1]>>]]
        /\ \A n \in 0 .. N : f[n] \in G
    BY <2>2 DEF IsFold
  <2>4. \A n \in 0 .. N : (IF n = 0 THEN S ELSE st[<<n, f[n - 1]>>])
                          = IF n = 0 THEN S ELSE evict(f[n - 1], order[n])
    <3> SUFFICES ASSUME NEW n \in 1 .. N
                 PROVE  st[<<n, f[n - 1]>>] = evict(f[n - 1], order[n])
      BY <1>2
    <3>1. n - 1 \in 0 .. N
      BY <1>2
    <3>2. QED
      BY <2>1, <2>3, <3>1
  <2>5. f = body(f)
    BY <2>3, <2>4
  <2>6. QED
    BY <2>5
<1>6. upto = body(upto)
  <2> HIDE DEF body
  <2>1. QED
    BY <1>5
<1> HIDE DEF upto
<1>7. \A n \in 0 .. N : upto[n] = IF n = 0 THEN S ELSE evict(upto[n - 1], order[n])
  BY <1>6
<1>8. upto[0] = S
  <2>1. 0 \in 0 .. N
    BY <1>2
  <2>2. QED
    BY <1>7, <2>1, Zenon
<1>9. ASSUME NEW n \in 1 .. N, upto[n - 1] \in G PROVE upto[n] \in G
  <2>1. n \in 0 .. N /\ n # 0 /\ order[n] \in Peers
    BY <1>2
  <2>2. upto[n] = evict(upto[n - 1], order[n])
    BY <1>7, <2>1
  <2>3. QED
    BY <1>4, <1>9, <2>1, <2>2
<1>10. upto[N] \in G
  BY <1>2, <1>3, <1>8, <1>9, FoldStays
<1>11. QED
  BY <1>1, <1>10 DEF G, Kept

-----------------------------------------------------------------------------
(* Taking the oldest event. *)

\* The fields of an event.
LEMMA EventFacts ==
    ASSUME NEW ev \in EventSet
    PROVE  /\ ev.peer \in Peers
           /\ ev.type \in {"Gone", "Choked", "Unchoked", "Joined", "Have", "Released", "PieceDone"}
           /\ ev.type = "Joined" => ev.bf \in SUBSET Pieces
           /\ ev.type \in {"Have", "Released", "PieceDone"} => ev.index \in Pieces
           /\ ev.type = "PieceDone" => ev.ok \in BOOLEAN
BY DEF EventSet

\* q is e without its first event.
Rest(e, q) ==
    /\ q \in Seq(EventSet) /\ Len(q) \in Nat /\ Len(e) = Len(q) + 1
    /\ \A k \in 1 .. Len(q) : k + 1 \in 1 .. Len(e) /\ q[k] = e[k + 1]
    /\ \A k \in 1 .. Len(e) : k # 1 => k - 1 \in 1 .. Len(q) /\ e[k] = q[k - 1]
    /\ 1 \in 1 .. Len(e)

\* The queue without its head.
LEMMA RestFacts ==
    ASSUME NEW e \in Seq(EventSet), e # << >>
    PROVE  Rest(e, Tail(e)) /\ Head(e) = e[1] /\ Head(e) \in EventSet
<1> DEFINE q == Tail(e)
<1>1. q \in Seq(EventSet) /\ Len(q) = Len(e) - 1 /\ Len(e) \in Nat /\ Len(e) > 0
  OBVIOUS
<1>2. \A k \in 1 .. Len(q) : q[k] = e[k + 1]
  OBVIOUS
<1>3. Head(e) = e[1] /\ e[1] \in EventSet
  BY <1>1
<1> HIDE DEF q
<1>4. Rest(e, q)
  <2>1. \A k \in 1 .. Len(q) : k + 1 \in 1 .. Len(e)
    BY <1>1
  <2>2. \A k \in 1 .. Len(e) : k # 1 => k - 1 \in 1 .. Len(q) /\ k - 1 + 1 = k
    BY <1>1
  <2>3. \A k \in 1 .. Len(e) : k # 1 => e[k] = q[k - 1]
    BY <1>2, <2>2
  <2>4. Len(q) \in Nat /\ Len(e) = Len(q) + 1 /\ 1 \in 1 .. Len(e)
    BY <1>1
  <2>5. QED
    BY <1>1, <1>2, <2>1, <2>2, <2>3, <2>4 DEF Rest
<1>5. QED
  BY <1>3, <1>4 DEF q

\* What taking the oldest event does to the pieces on their way back.
LEMMA RestBack ==
    ASSUME NEW e, NEW q, Rest(e, q), NEW p
    PROVE  /\ NoBack(e, p) => NoBack(q, p)
           /\ ~IsBack(e[1], p) => \A i : OneBack(e, p, i) => OneBack(q, p, i)
           /\ IsBack(e[1], p) => ~NoBack(e, p)
           /\ IsBack(e[1], p) => \A i : OneBack(e, p, i) => NoBack(q, p) /\ e[1].index = i
<1>1. NoBack(e, p) => NoBack(q, p)
  BY DEF NoBack, Rest
<1>2. IsBack(e[1], p) => ~NoBack(e, p)
  BY DEF NoBack, Rest
<1>3. ASSUME NEW i, ~IsBack(e[1], p), OneBack(e, p, i) PROVE OneBack(q, p, i)
  <2>1. PICK k \in 1 .. Len(e) : IsBack(e[k], p) /\ e[k].index = i
                                 /\ \A l \in 1 .. Len(e) : l # k => ~IsBack(e[l], p)
    BY <1>3 DEF OneBack
  <2>2. k # 1
    BY <1>3, <2>1
  <2>3. k - 1 \in 1 .. Len(q) /\ q[k - 1] = e[k]
    BY <2>2 DEF Rest
  <2>4. ASSUME NEW l \in 1 .. Len(q), l # k - 1 PROVE ~IsBack(q[l], p)
    <3>1. l + 1 \in 1 .. Len(e) /\ q[l] = e[l + 1] /\ l + 1 # k
      BY <2>4 DEF Rest
    <3>2. QED
      BY <2>1, <3>1
  <2>5. QED
    BY <2>1, <2>3, <2>4 DEF OneBack
<1>4. ASSUME NEW i, IsBack(e[1], p), OneBack(e, p, i) PROVE NoBack(q, p) /\ e[1].index = i
  <2>1. PICK k \in 1 .. Len(e) : IsBack(e[k], p) /\ e[k].index = i
                                 /\ \A l \in 1 .. Len(e) : l # k => ~IsBack(e[l], p)
    BY <1>4 DEF OneBack
  <2>2. k = 1
    BY <1>4, <2>1 DEF Rest
  <2>3. ASSUME NEW l \in 1 .. Len(q) PROVE ~IsBack(q[l], p)
    <3>1. l + 1 \in 1 .. Len(e) /\ q[l] = e[l + 1] /\ l + 1 # 1
      BY DEF Rest
    <3>2. QED
      BY <2>1, <2>2, <3>1
  <2>4. QED
    BY <2>1, <2>2, <2>3 DEF NoBack
<1>5. QED
  BY <1>1, <1>2, <1>3, <1>4

\* An event that hands nothing back can be taken without a change to the books.
LEMMA RestBooks ==
    ASSUME NEW e, NEW q, Rest(e, q), NEW S, NEW w, NEW p, ~IsBack(e[1], p),
           Placed(S, e, w, p), Early(S, e, w, p), Joining(S, e, w, p)
    PROVE  Placed(S, q, w, p) /\ Early(S, q, w, p) /\ Joining(S, q, w, p)
<1>1. ASSUME NEW j, NEW box PROVE Nowhere(j, box, e, p) => Nowhere(j, box, q, p)
  BY RestBack DEF Nowhere
<1>2. ASSUME NEW i, NEW j, NEW box PROVE Somewhere(i, j, box, e, p) => Somewhere(i, j, box, q, p)
  BY RestBack DEF Somewhere
<1>3. Placed(S, q, w, p)
  BY <1>1, <1>2 DEF Placed
<1>4. Early(S, q, w, p)
  BY DEF Early, Rest
<1>5. Joining(S, q, w, p)
  <2> SUFFICES ASSUME NEW k \in 1 .. Len(q), q[k].peer = p, q[k].type = "Joined"
               PROVE  /\ p \notin DOMAIN S.peers
                      /\ w[p].phase = "serve" => Nowhere(w[p].job.index, S.inbox[p], q, p)
                      /\ \A l \in 1 .. Len(q) : q[l].peer = p /\ q[l].type = "Joined" => l = k
    BY DEF Joining
  <2>1. k + 1 \in 1 .. Len(e) /\ e[k + 1] = q[k]
    BY DEF Rest
  <2>2. /\ p \notin DOMAIN S.peers
        /\ w[p].phase = "serve" => Nowhere(w[p].job.index, S.inbox[p], e, p)
        /\ \A l \in 1 .. Len(e) : e[l].peer = p /\ e[l].type = "Joined" => l = k + 1
    BY <2>1 DEF Joining
  <2>3. ASSUME NEW l \in 1 .. Len(q), q[l].peer = p, q[l].type = "Joined" PROVE l = k
    <3>1. l + 1 \in 1 .. Len(e) /\ e[l + 1] = q[l]
      BY DEF Rest
    <3>2. l + 1 = k + 1
      BY <2>2, <2>3, <3>1
    <3>3. QED
      BY <3>2
  <2>4. QED
    BY <1>1, <2>2, <2>3
<1>6. QED
  BY <1>3, <1>4, <1>5

\* An event that hands no piece back leaves the books right about the rest.
LEMMA TakeOther ==
    ASSUME NEW e, NEW q, Rest(e, q), NEW S, NEW w, Books(S, e, w), e[1].type \notin {"PieceDone", "Released"}
    PROVE  Books(S, q, w)
<1>1. ASSUME NEW u \in Peers PROVE Placed(S, q, w, u) /\ Early(S, q, w, u) /\ Joining(S, q, w, u)
  <2>1. ~IsBack(e[1], u) /\ Placed(S, e, w, u) /\ Early(S, e, w, u) /\ Joining(S, e, w, u)
    BY DEF IsBack, Books
  <2>2. QED
    BY <2>1, RestBooks
<1>2. QED
  BY <1>1 DEF Books

\* The piece that comes back is the one the peer was charged with, and clear_piece
\* takes it off the books.
LEMMA ClearKeeps ==
    ASSUME NEW e, NEW q, Rest(e, q), NEW S, NEW w, Books(S, e, w), NEW p \in Peers,
           IsBack(e[1], p), e[1].index \in Pieces
    PROVE  Books(clear_piece(S, p, e[1].index), q, w) /\ clear_piece(S, p, e[1].index).have = S.have
<1> DEFINE i == e[1].index
           U == IF p \in DOMAIN S.peers /\ S.peers[p].piece = i THEN [S EXCEPT !.peers[p].piece = None] ELSE S
           C == release(U, i)
<1>1. clear_piece(S, p, i) = C
  BY DEF clear_piece
<1>2. S \in EngineRec /\ S.peers \in PeerTables /\ Sums(S)
  BY DEF Books, EngineRec
<1>3. /\ U \in EngineRec /\ U.avail = S.avail /\ U.have = S.have /\ U.inbox = S.inbox /\ U.gone = S.gone
      /\ U.assigned = S.assigned /\ DOMAIN U.peers = DOMAIN S.peers
      /\ \A r \in DOMAIN S.peers \ {p} : U.peers[r] = S.peers[r]
      /\ p \in DOMAIN S.peers => U.peers[p].bf = S.peers[p].bf
      /\ p \in DOMAIN S.peers /\ S.peers[p].piece = i => U.peers[p].piece = None
      /\ p \in DOMAIN S.peers /\ S.peers[p].piece # i => U.peers[p] = S.peers[p]
  <2>1. CASE p \in DOMAIN S.peers /\ S.peers[p].piece = i
    <3> DEFINE v == [S.peers[p] EXCEPT !.piece = None]
               t == [S.peers EXCEPT ![p] = v]
    <3>1. S.peers[p] \in PeerRec /\ S.peers \in [DOMAIN S.peers -> PeerRec]
      BY <1>2, <2>1, TableFacts
    <3>2. v \in PeerRec /\ v.piece = None /\ v.bf = S.peers[p].bf
      BY <3>1 DEF PeerRec, PieceOrNone
    <3> HIDE DEF v
    <3>3. /\ t \in PeerTables /\ DOMAIN t = DOMAIN S.peers /\ t[p] = v
          /\ \A r \in DOMAIN S.peers \ {p} : t[r] = S.peers[r]
      BY <1>2, <2>1, <3>2, TableUpdate
    <3>4. U = [S EXCEPT !.peers = t]
      BY <1>2, <2>1, <3>1 DEF v, EngineRec
    <3> HIDE DEF t, U
    <3>5. U \in EngineRec /\ U.avail = S.avail /\ U.have = S.have /\ U.inbox = S.inbox /\ U.gone = S.gone
          /\ U.assigned = S.assigned /\ U.peers = t
      BY <1>2, <3>3, <3>4 DEF EngineRec
    <3>6. QED
      BY <2>1, <3>2, <3>3, <3>5
  <2>2. CASE ~(p \in DOMAIN S.peers /\ S.peers[p].piece = i)
    <3>1. U = S
      BY <2>2
    <3> HIDE DEF U
    <3>2. QED
      BY <1>2, <2>2, <3>1
  <2>3. QED
    BY <2>1, <2>2
<1> HIDE DEF U
<1>4. S.assigned = InHand(S) \ ({None} \cup S.have)
  BY <1>2 DEF Sums, AssignedExact
<1>5. InHand(U) \subseteq InHand(S) \cup {None} /\ InHand(S) \subseteq InHand(U) \cup {i}
  BY <1>3 DEF InHand
<1>6. Loose(U, i)
  BY <1>3, <1>4, <1>5 DEF Loose
<1>7. SameButAssigned(U, C) /\ AssignedExact(C)
  BY <1>3, <1>6, ReleaseExact
<1> HIDE DEF C
<1>8. AvailExact(U)
  <2>1. ASSUME NEW k PROVE Offering(U, k) = Offering(S, k)
    BY <1>3 DEF Offering
  <2>2. QED
    BY <1>2, <1>3, <2>1 DEF Sums, AvailExact
<1>9. busy(U) <= MaxBusy
  <2>1. Busy(U) \in SUBSET Busy(S)
    BY <1>3 DEF Busy
  <2>2. Cardinality(Busy(U)) <= Cardinality(Busy(S))
    BY <1>2, <2>1, BusyFacts, FS_Subset
  <2>3. QED
    BY <1>2, <1>3, <2>2, BusyFacts, Sizes DEF Sums
<1>10. Sums(C)
  BY <1>7, <1>8, <1>9, SumsOfTable DEF SameButAssigned
<1>11. /\ C \in EngineRec /\ C.have = S.have /\ C.inbox = S.inbox /\ C.gone = S.gone /\ C.peers = U.peers
  BY <1>3, <1>7 DEF SameButAssigned
<1>12. ASSUME NEW u \in Peers \ {p} PROVE Placed(C, q, w, u) /\ Early(C, q, w, u) /\ Joining(C, q, w, u)
  <2>1. ~IsBack(e[1], u) /\ Placed(S, e, w, u) /\ Early(S, e, w, u) /\ Joining(S, e, w, u)
    BY DEF IsBack, Books
  <2>2. Placed(S, q, w, u) /\ Early(S, q, w, u) /\ Joining(S, q, w, u)
    BY <2>1, RestBooks
  <2>3. SameFor(S, C, u)
    BY <1>3, <1>11 DEF SameFor
  <2>4. QED
    BY <2>2, <2>3, SameBooks
<1>13. Placed(S, e, w, p) /\ Early(S, e, w, p) /\ Joining(S, e, w, p)
  BY DEF Books
<1>14. ASSUME NEW j, NEW box PROVE ~Nowhere(j, box, e, p)
  BY RestBack DEF Nowhere
<1>15. ASSUME NEW k, NEW j, NEW box, Somewhere(k, j, box, e, p)
       PROVE  k = i /\ Nowhere(j, box, q, p)
  <2>1. j = None /\ NoOrder(box) /\ OneBack(e, p, k)
    BY <1>15, RestBack DEF Somewhere
  <2>2. QED
    BY <2>1, RestBack DEF Nowhere
<1>16. Placed(C, q, w, p)
  <2> SUFFICES ASSUME w[p].phase = "serve" PROVE Placed(C, q, w, p)
    BY DEF Placed
  <2>1. CASE p \in DOMAIN S.peers
    <3>1. S.peers[p].piece = i /\ Nowhere(w[p].job.index, S.inbox[p], q, p)
      BY <1>13, <1>14, <1>15, <2>1 DEF Placed
    <3>2. C.peers[p].piece = None /\ p \in DOMAIN C.peers /\ C.inbox[p] = S.inbox[p]
      BY <1>3, <1>11, <2>1, <3>1
    <3>3. QED
      BY <3>1, <3>2 DEF Placed
  <2>2. CASE p \notin DOMAIN S.peers
    <3>1. Nowhere(w[p].job.index, S.inbox[p], q, p)
      BY <1>13, <1>14, <1>15, <2>2 DEF Placed
    <3>2. p \notin DOMAIN C.peers /\ C.inbox[p] = S.inbox[p]
      BY <1>3, <1>11, <2>2
    <3>3. QED
      BY <3>1, <3>2 DEF Placed
  <2>3. QED
    BY <2>1, <2>2
<1>17. w[p].phase \notin {"new", "join"}
  BY <1>13 DEF Early, Rest, IsBack
<1>18. Joining(C, q, w, p)
  <2> SUFFICES ASSUME NEW k \in 1 .. Len(q), q[k].peer = p, q[k].type = "Joined"
               PROVE  /\ p \notin DOMAIN C.peers
                      /\ w[p].phase = "serve" => Nowhere(w[p].job.index, C.inbox[p], q, p)
                      /\ \A l \in 1 .. Len(q) : q[l].peer = p /\ q[l].type = "Joined" => l = k
    BY DEF Joining
  <2>1. k + 1 \in 1 .. Len(e) /\ e[k + 1] = q[k]
    BY DEF Rest
  <2>2. /\ p \notin DOMAIN S.peers
        /\ w[p].phase = "serve" => Nowhere(w[p].job.index, S.inbox[p], e, p)
        /\ \A l \in 1 .. Len(e) : e[l].peer = p /\ e[l].type = "Joined" => l = k + 1
    BY <1>13, <2>1 DEF Joining
  <2>3. ASSUME NEW l \in 1 .. Len(q), q[l].peer = p, q[l].type = "Joined" PROVE l = k
    <3>1. l + 1 \in 1 .. Len(e) /\ e[l + 1] = q[l]
      BY DEF Rest
    <3>2. l + 1 = k + 1
      BY <2>2, <2>3, <3>1
    <3>3. QED
      BY <3>2
  <2>4. QED
    BY <1>3, <1>11, <1>14, <2>2, <2>3
<1>19. ASSUME NEW u \in Peers PROVE Placed(C, q, w, u) /\ Early(C, q, w, u) /\ Joining(C, q, w, u)
  <2>1. CASE u = p
    BY <1>16, <1>17, <1>18, <2>1 DEF Early
  <2>2. CASE u # p
    BY <1>12, <2>2
  <2>3. QED
    BY <2>1, <2>2
<1>20. Books(C, q, w)
  BY <1>10, <1>11, <1>19 DEF Books
<1>21. QED
  BY <1>1, <1>11, <1>20

-----------------------------------------------------------------------------
(* handle(), branch by branch. *)

\* Joined adds an idle peer, counts its bitfield and may assign to it.
LEMMA JoinedKeeps ==
    ASSUME NEW e, NEW q, Rest(e, q), NEW S, NEW w, Books(S, e, w), w \in WorkTable,
           e[1] \in EventSet, e[1].type = "Joined"
    PROVE  Books(Joined(S, e[1]), q, w) /\ Joined(S, e[1]).have = S.have
<1> DEFINE p == e[1].peer
           bf == e[1].bf
           D == DOMAIN S.peers
           t == [r \in D \cup {p} |-> IF r = p THEN NewPeer(bf) ELSE S.peers[r]]
           a == add_bitfield(S.avail, bf)
           T == [S EXCEPT !.peers = t, !.avail = a]
<1>1. Joined(S, e[1]) = assign(T, p)
  BY DEF Joined
<1>2. p \in Peers /\ bf \in SUBSET Pieces
  BY EventFacts
<1>3. Books(S, q, w)
  BY TakeOther
<1>4. /\ S \in EngineRec /\ S.peers \in PeerTables /\ S.avail \in Counters /\ Sums(S)
  BY <1>3 DEF Books, EngineRec
<1>5. D \in SUBSET Peers /\ IsFiniteSet(D) /\ S.peers \in [D -> PeerRec]
  BY <1>4, TableFacts
<1>6. 1 \in 1 .. Len(e) /\ Early(S, e, w, p) /\ Joining(S, e, w, p)
  BY <1>2 DEF Rest, Books
<1>7. /\ p \notin D
      /\ w[p].phase = "serve" => Nowhere(w[p].job.index, S.inbox[p], e, p)
      /\ \A l \in 1 .. Len(e) : e[l].peer = p /\ e[l].type = "Joined" => l = 1
  BY <1>6 DEF Joining
<1>8. NewPeer(bf) \in PeerRec /\ NewPeer(bf).piece = None /\ NewPeer(bf).bf = bf
  BY <1>2 DEF NewPeer, PeerRec, PieceOrNone
<1>9. /\ t \in [D \cup {p} -> PeerRec] /\ t[p] = NewPeer(bf)
      /\ \A r \in D : t[r] = S.peers[r]
  BY <1>5, <1>7, <1>8
<1>10. t \in PeerTables /\ DOMAIN t = D \cup {p}
  <2>1. D \cup {p} \in SUBSET Peers
    BY <1>2, <1>5
  <2> HIDE DEF t, D
  <2>2. QED
    BY <1>9, <2>1, TableMake
<1>11. \A k \in Pieces : S.avail[k] \in Nat /\ S.avail[k] = Cardinality(Offering(S, k))
  BY <1>4 DEF Counters, Sums, AvailExact
<1>12. a \in Counters /\ \A k \in Pieces : a[k] = IF k \in bf THEN S.avail[k] + 1 ELSE S.avail[k]
  <2>1. a = [k \in Pieces |-> IF k \in bf THEN S.avail[k] + 1 ELSE S.avail[k]]
    BY DEF add_bitfield
  <2>2. \A k \in Pieces : (IF k \in bf THEN S.avail[k] + 1 ELSE S.avail[k]) \in Nat
    BY <1>11
  <2> HIDE DEF a
  <2>3. QED
    BY <2>1, <2>2 DEF Counters
<1> HIDE DEF t, a
<1>13. /\ T \in EngineRec /\ T.peers = t /\ T.avail = a /\ T.have = S.have
       /\ T.inbox = S.inbox /\ T.gone = S.gone /\ T.assigned = S.assigned
  BY <1>4, <1>10, <1>12 DEF EngineRec
<1> HIDE DEF T
<1>14. AssignedExact(T)
  <2>1. InHand(T) = InHand(S) \cup {None}
    BY <1>8, <1>9, <1>10, <1>13 DEF InHand
  <2>2. QED
    BY <1>4, <1>13, <2>1 DEF Sums, AssignedExact
<1>15. AvailExact(T)
  <2> SUFFICES ASSUME NEW k \in Pieces PROVE a[k] = Cardinality(Offering(T, k))
    BY <1>13 DEF AvailExact
  <2> DEFINE O == Offering(S, k)
  <2>1. IsFiniteSet(O) /\ p \notin O
    <3>1. O \in SUBSET D
      BY DEF Offering
    <3>2. QED
      BY <1>5, <1>7, <3>1, FS_Subset
  <2>2. Offering(T, k) = IF k \in bf THEN O \cup {p} ELSE O
    BY <1>7, <1>8, <1>9, <1>10, <1>13 DEF Offering
  <2>3. Cardinality(O) = S.avail[k]
    BY <1>11
  <2> HIDE DEF O
  <2>4. Cardinality(O \cup {p}) = Cardinality(O) + 1
    BY <2>1, FS_AddElement
  <2>5. QED
    BY <1>12, <2>2, <2>3, <2>4
<1>16. busy(T) <= MaxBusy
  <2>1. Busy(T) = Busy(S)
    BY <1>8, <1>9, <1>10, <1>13 DEF Busy
  <2>2. QED
    BY <1>4, <1>13, <2>1, BusyFacts DEF Sums
<1>17. \A u \in Peers \ {p} : SameFor(S, T, u)
  BY <1>9, <1>10, <1>13 DEF SameFor
<1>18. Placed(T, q, w, p)
  <2>1. p \in DOMAIN T.peers /\ T.peers[p].piece = None /\ T.inbox[p] = S.inbox[p]
    BY <1>8, <1>9, <1>10, <1>13
  <2>2. w[p].phase = "serve" => Nowhere(w[p].job.index, S.inbox[p], q, p)
    BY <1>7, RestBack DEF Nowhere
  <2>3. QED
    BY <2>1, <2>2 DEF Placed
<1>19. Early(T, q, w, p)
  BY <1>6 DEF Early
<1>20. Joining(T, q, w, p)
  <2>1. ASSUME NEW k \in 1 .. Len(q), q[k].peer = p, q[k].type = "Joined" PROVE FALSE
    <3>1. k + 1 \in 1 .. Len(e) /\ e[k + 1] = q[k]
      BY DEF Rest
    <3>2. k + 1 = 1
      BY <1>7, <2>1, <3>1
    <3>3. QED
      BY <3>2
  <2>2. QED
    BY <2>1 DEF Joining
<1>21. Books(T, q, w)
  BY <1>3, <1>13, <1>14, <1>15, <1>16, <1>17, <1>18, <1>19, <1>20, OneTouched DEF Sums
<1>22. QED
  BY <1>1, <1>13, <1>21, AssignKeeps

\* Have adds to a known bitfield and to the picker, once.
LEMMA HaveKeeps ==
    ASSUME NEW S, NEW q, NEW w, Books(S, q, w), w \in WorkTable,
           NEW ev \in EventSet, ev.type = "Have"
    PROVE  Books(Have(S, ev), q, w) /\ Have(S, ev).have = S.have
<1> DEFINE p == ev.peer
           i == ev.index
<1>1. CASE p \notin DOMAIN S.peers \/ i \in S.peers[p].bf
  BY <1>1 DEF Have
<1>2. CASE p \in DOMAIN S.peers /\ i \notin S.peers[p].bf
  <2>1. S \in EngineRec /\ S.peers \in PeerTables /\ S.avail \in Counters /\ Sums(S)
    BY DEF Books, EngineRec
  <2>2. p \in Peers /\ i \in Pieces
    BY EventFacts
  <2>3. S.peers[p] \in PeerRec /\ S.peers \in [DOMAIN S.peers -> PeerRec] /\ IsFiniteSet(DOMAIN S.peers)
    BY <1>2, <2>1, TableFacts
  <2> DEFINE bf == S.peers[p].bf \cup {i}
             v == [S.peers[p] EXCEPT !.bf = bf]
             t == [S.peers EXCEPT ![p] = v]
             a == add_have(S.avail, i)
             T == [S EXCEPT !.peers = t, !.avail = a]
  <2>4. [S EXCEPT !.peers[p].bf = @ \cup {i}, !.avail = add_have(@, i)] = T
    BY <1>2, <2>1, <2>3 DEF EngineRec, PeerRec
  <2>5. Have(S, ev) = IF i \in S.have THEN T ELSE assign(T, p)
    BY <1>2, <2>4 DEF Have
  <2>6. bf \in SUBSET Pieces
    BY <2>2, <2>3 DEF PeerRec
  <2>7. v \in PeerRec /\ v.piece = S.peers[p].piece /\ v.bf = bf
    <3> HIDE DEF bf
    <3>1. QED
      BY <2>3, <2>6 DEF PeerRec
  <2> HIDE DEF v
  <2>8. /\ t \in PeerTables /\ DOMAIN t = DOMAIN S.peers /\ t[p] = v
        /\ \A r \in DOMAIN S.peers \ {p} : t[r] = S.peers[r]
    BY <1>2, <2>1, <2>7, TableUpdate
  <2>9. \A k \in Pieces : S.avail[k] \in Nat /\ S.avail[k] = Cardinality(Offering(S, k))
    BY <2>1 DEF Counters, Sums, AvailExact
  <2>10. a \in Counters /\ \A k \in Pieces : a[k] = IF k = i THEN S.avail[k] + 1 ELSE S.avail[k]
    BY <2>1, <2>2, <2>9 DEF add_have, Counters
  <2> HIDE DEF t, a
  <2>11. /\ T \in EngineRec /\ T.peers = t /\ T.avail = a /\ T.have = S.have
         /\ T.inbox = S.inbox /\ T.gone = S.gone /\ T.assigned = S.assigned
    BY <2>1, <2>8, <2>10 DEF EngineRec
  <2> HIDE DEF T
  <2>12. \A r \in DOMAIN S.peers : t[r].piece = S.peers[r].piece
    BY <2>7, <2>8
  <2>13. AssignedExact(T)
    <3>1. InHand(T) = InHand(S)
      BY <2>8, <2>11, <2>12 DEF InHand
    <3>2. QED
      BY <2>1, <2>11, <3>1 DEF Sums, AssignedExact
  <2>14. AvailExact(T)
    <3> SUFFICES ASSUME NEW k \in Pieces PROVE a[k] = Cardinality(Offering(T, k))
      BY <2>11 DEF AvailExact
    <3> DEFINE O == Offering(S, k)
    <3>1. IsFiniteSet(O)
      <4>1. O \in SUBSET DOMAIN S.peers
        BY DEF Offering
      <4>2. QED
        BY <2>3, <4>1, FS_Subset
    <3>2. k = i => p \notin O
      BY <1>2 DEF Offering
    <3>3. Offering(T, k) = IF k = i THEN O \cup {p} ELSE O
      BY <1>2, <2>7, <2>8, <2>11 DEF Offering
    <3>4. Cardinality(O) = S.avail[k]
      BY <2>9
    <3> HIDE DEF O
    <3>5. p \notin O => Cardinality(O \cup {p}) = Cardinality(O) + 1
      BY <3>1, FS_AddElement
    <3>6. QED
      BY <2>10, <3>2, <3>3, <3>4, <3>5
  <2>15. busy(T) <= MaxBusy
    <3>1. Busy(T) = Busy(S)
      BY <2>8, <2>11, <2>12 DEF Busy
    <3>2. QED
      BY <2>1, <2>11, <3>1, BusyFacts DEF Sums
  <2>16. \A u \in Peers : SameFor(S, T, u)
    BY <2>8, <2>11, <2>12 DEF SameFor
  <2>17. Books(T, q, w)
    BY <2>11, <2>13, <2>14, <2>15, <2>16, NoneTouched DEF Sums
  <2>18. QED
    BY <2>5, <2>11, <2>17, AssignKeeps
<1>3. QED
  BY <1>1, <1>2

\* `unchoked` is written.
LEMMA ChokeKeeps ==
    ASSUME NEW S, NEW q, NEW w, Books(S, q, w), NEW p \in DOMAIN S.peers, NEW c \in BOOLEAN
    PROVE  LET T == [S EXCEPT !.peers[p].unchoked = c] IN Books(T, q, w) /\ T.have = S.have
<1>1. S \in EngineRec /\ S.peers \in PeerTables
  BY DEF Books, EngineRec
<1>2. S.peers[p] \in PeerRec /\ S.peers \in [DOMAIN S.peers -> PeerRec]
  BY <1>1, TableFacts
<1> DEFINE v == [S.peers[p] EXCEPT !.unchoked = c]
           T == [S EXCEPT !.peers = [S.peers EXCEPT ![p] = v]]
<1>3. v \in PeerRec /\ v.piece = S.peers[p].piece /\ v.bf = S.peers[p].bf
  BY <1>2 DEF PeerRec
<1>4. [S EXCEPT !.peers[p].unchoked = c] = T
  BY <1>1, <1>2 DEF EngineRec
<1> HIDE DEF v
<1>5. Books(T, q, w) /\ T.have = S.have
  BY <1>3, SetPeerKeeps
<1>6. QED
  BY <1>4, <1>5

\* What the event adds to `have`.
Gains(S, ev) == IF ev.type = "PieceDone" /\ ev.ok /\ ev.index \notin S.have THEN {ev.index} ELSE {}

\* PieceDone clears, then writes, strikes or drops, then assigns.
LEMMA DoneKeeps ==
    ASSUME NEW e, NEW q, Rest(e, q), NEW S, NEW w, Books(S, e, w), w \in WorkTable,
           e[1] \in EventSet, e[1].type = "PieceDone"
    PROVE  Books(PieceDone(S, e[1]), q, w) /\ PieceDone(S, e[1]).have = S.have \cup Gains(S, e[1])
<1> DEFINE ev == e[1]
           p == ev.peer
           i == ev.index
           C == clear_piece(S, p, i)
           W == IF i \in C.have THEN C ELSE IF ev.ok THEN write_piece(C, i) ELSE strike(C, p, i)
           A == assign(W, p)
<1>1. PieceDone(S, ev) = assign_idle(A)
  BY DEF PieceDone
<1>2. p \in Peers /\ i \in Pieces /\ IsBack(ev, p)
  BY EventFacts DEF IsBack
<1>3. Books(C, q, w) /\ C.have = S.have
  BY <1>2, ClearKeeps
<1> HIDE DEF C
<1>4. Books(W, q, w) /\ W.have = S.have \cup Gains(S, ev)
  <2>1. Books(write_piece(C, i), q, w) /\ write_piece(C, i).have = C.have \cup {i}
    BY <1>2, <1>3, WriteKeeps
  <2>2. Books(strike(C, p, i), q, w) /\ strike(C, p, i).have = C.have
    BY <1>2, <1>3, StrikeKeeps
  <2>3. QED
    BY <1>3, <2>1, <2>2 DEF Gains
<1> HIDE DEF W
<1>5. Books(A, q, w) /\ A.have = W.have
  BY <1>4, AssignKeeps
<1> HIDE DEF A
<1>6. QED
  BY <1>1, <1>4, <1>5, AssignIdleKeeps

\* Released clears the piece and marks the peer choked.
LEMMA ReleasedKeeps ==
    ASSUME NEW e, NEW q, Rest(e, q), NEW S, NEW w, Books(S, e, w), w \in WorkTable,
           e[1] \in EventSet, e[1].type = "Released"
    PROVE  Books(Released(S, e[1]), q, w) /\ Released(S, e[1]).have = S.have
<1> DEFINE ev == e[1]
           p == ev.peer
           C == clear_piece(S, p, ev.index)
           T == IF p \in DOMAIN C.peers THEN [C EXCEPT !.peers[p].unchoked = FALSE] ELSE C
<1>1. Released(S, ev) = assign_idle(T)
  BY DEF Released
<1>2. p \in Peers /\ ev.index \in Pieces /\ IsBack(ev, p)
  BY EventFacts DEF IsBack
<1>3. Books(C, q, w) /\ C.have = S.have
  BY <1>2, ClearKeeps
<1> HIDE DEF C
<1>4. Books(T, q, w) /\ T.have = S.have
  BY <1>3, ChokeKeeps
<1> HIDE DEF T
<1>5. QED
  BY <1>1, <1>4, AssignIdleKeeps

\* handle() keeps the books for the events that are left, and adds to `have` what it
\* writes.
LEMMA HandleKeeps ==
    ASSUME NEW e \in Seq(EventSet), e # << >>, NEW S, NEW w, Books(S, e, w), w \in WorkTable,
           \A p \in Peers : Leaving(e, w, p)
    PROVE  Books(handle(S, Head(e)), Tail(e), w) /\ handle(S, Head(e)).have = S.have \cup Gains(S, Head(e))
<1> DEFINE ev == Head(e)
           q == Tail(e)
<1>1. Rest(e, q) /\ ev = e[1] /\ ev \in EventSet
  BY RestFacts
<1>2. ev.peer \in Peers /\ ev.type \in {"Gone", "Choked", "Unchoked", "Joined", "Have", "Released", "PieceDone"}
  BY <1>1, EventFacts
<1> HIDE DEF ev, q
<1>3. ev.type # "PieceDone" => Gains(S, ev) = {}
  BY DEF Gains
<1>4. CASE ev.type = "Joined"
  <2>1. handle(S, ev) = Joined(S, ev)
    BY <1>4 DEF handle
  <2>2. QED
    BY <1>1, <1>3, <1>4, <2>1, JoinedKeeps DEF ev, q
<1>5. CASE ev.type = "PieceDone"
  <2>1. handle(S, ev) = PieceDone(S, ev)
    BY <1>5 DEF handle
  <2>2. QED
    BY <1>1, <1>5, <2>1, DoneKeeps DEF ev, q
<1>6. CASE ev.type = "Released"
  <2>1. handle(S, ev) = Released(S, ev)
    BY <1>6 DEF handle
  <2>2. QED
    BY <1>1, <1>3, <1>6, <2>1, ReleasedKeeps DEF ev, q
<1>7. CASE ev.type \notin {"Joined", "PieceDone", "Released"}
  <2>1. Books(S, q, w)
    BY <1>1, <1>7, TakeOther
  <2>2. CASE ev.type = "Have"
    <3>1. handle(S, ev) = Have(S, ev)
      BY <2>2 DEF handle
    <3>2. QED
      BY <1>1, <1>3, <2>1, <2>2, <3>1, HaveKeeps DEF ev, q
  <2>3. CASE ev.type = "Choked"
    <3>1. handle(S, ev) = Choked(S, ev)
      BY <2>3 DEF handle
    <3>2. Books(Choked(S, ev), q, w) /\ Choked(S, ev).have = S.have
      BY <2>1, ChokeKeeps DEF Choked
    <3>3. QED
      BY <1>3, <2>3, <3>1, <3>2 DEF ev, q
  <2>4. CASE ev.type = "Unchoked"
    <3>1. handle(S, ev) = Unchoked(S, ev)
      BY <2>4 DEF handle
    <3>2. CASE ev.peer \notin DOMAIN S.peers
      <4>1. Unchoked(S, ev) = S
        BY <3>2 DEF Unchoked
      <4>2. QED
        BY <1>3, <2>1, <2>4, <3>1, <4>1 DEF ev, q
    <3>3. CASE ev.peer \in DOMAIN S.peers
      <4> DEFINE T == [S EXCEPT !.peers[ev.peer].unchoked = TRUE]
      <4>1. Unchoked(S, ev) = assign(T, ev.peer)
        BY <3>3 DEF Unchoked
      <4>2. Books(T, q, w) /\ T.have = S.have
        BY <2>1, <3>3, ChokeKeeps
      <4> HIDE DEF T
      <4>3. Books(assign(T, ev.peer), q, w) /\ assign(T, ev.peer).have = S.have
        BY <4>2, AssignKeeps
      <4>4. QED
        BY <1>3, <2>4, <3>1, <4>1, <4>3 DEF ev, q
    <3>4. QED
      BY <3>2, <3>3
  <2>5. CASE ev.type = "Gone"
    <3>1. handle(S, ev) = gone(S, ev.peer)
      BY <2>5 DEF handle
    <3>2. w[ev.peer].phase = "gone"
      BY <1>1, <1>2, <2>5 DEF Leaving, Rest
    <3>3. Books(gone(S, ev.peer), q, w) /\ gone(S, ev.peer).have = S.have
      BY <2>1, <3>2, GoneKeeps
    <3>4. QED
      BY <1>3, <2>5, <3>1, <3>3 DEF ev, q
  <2>6. QED
    BY <1>2, <1>7, <2>2, <2>3, <2>4, <2>5
<1>8. QED
  BY <1>4, <1>5, <1>6, <1>7

-----------------------------------------------------------------------------
(* The worker's window. *)

\* The blocks of a piece.
LEMMA BlockFacts == IsFiniteSet(Blocks) /\ Blocks \in SUBSET Nat /\ Blocks # {} /\ \A b \in Blocks : b < NumBlocks
<1>1. IsFiniteSet(Blocks)
  BY Sizes, FS_Interval DEF Blocks
<1>2. Blocks \in SUBSET Nat /\ 0 \in Blocks /\ \A b \in Blocks : b < NumBlocks
  BY Sizes DEF Blocks
<1>3. QED
  BY <1>1, <1>2

\* A nonempty set of blocks has a last one.
LEMMA MaxFacts ==
    ASSUME NEW T \in SUBSET Blocks, T # {}
    PROVE  Max(T) \in T /\ \A b \in T : b <= Max(T)
<1> DEFINE U == {NumBlocks - b : b \in T}
<1>1. \A b \in T : b \in Nat /\ b < NumBlocks
  BY BlockFacts
<1>2. U \in SUBSET Nat /\ U # {}
  BY <1>1, Sizes
<1>3. PICK u \in U : \A v \in U : u <= v
  <2> HIDE DEF U
  <2>1. QED
    BY <1>2, LeastNat
<1>4. PICK m \in T : u = NumBlocks - m
  BY <1>3
<1>5. ASSUME NEW b \in T PROVE m >= b
  <2>1. NumBlocks - m <= NumBlocks - b
    BY <1>3, <1>4
  <2>2. m \in Nat /\ b \in Nat /\ NumBlocks \in Nat
    BY <1>1, Sizes
  <2>3. QED
    BY <2>1, <2>2
<1>6. \E x \in T : \A y \in T : x >= y
  BY <1>5
<1>7. Max(T) \in T /\ \A y \in T : Max(T) >= y
  BY <1>6 DEF Max
<1>8. QED
  BY <1>1, <1>7

\* What Job::pump does to a job j with its window in order.
Pumped(j, P) ==
    /\ P \in JobRec /\ P.index = j.index /\ P.filled = j.filled /\ j.requested \subseteq P.requested
    /\ (P.requested \ j.requested) \cap j.filled = {}
    /\ Window(P)
    /\ j.filled # Blocks => Open(P) # {}

\* What is asked for and not filled is a finite set of blocks.
LEMMA OpenFinite ==
    ASSUME NEW j \in JobRec
    PROVE  IsFiniteSet(Open(j)) /\ Open(j) \in SUBSET Blocks /\ Cardinality(Open(j)) \in Nat
<1>1. Open(j) \in SUBSET Blocks
  BY DEF JobRec, Open
<1>2. QED
  BY <1>1, BlockFacts, FS_Subset, FS_CardinalityType

\* Job::pump keeps the window exact, within its depth and with no gap behind the cursor,
\* and leaves an incomplete piece asked for.
LEMMA PumpFacts ==
    ASSUME NEW j \in JobRec, Window(j)
    PROVE  Pumped(j, pump(j))
<1> DEFINE room == Depth - j.outstanding
           free == (j.next .. (NumBlocks - 1)) \ (j.filled \cup j.requested)
           below(b) == {c \in free : c < b}
           ask  == {b \in free : Cardinality(below(b)) < room}
           last == IF Cardinality(free) < room THEN NumBlocks ELSE Max(ask) + 1
           P == [j EXCEPT !.requested = j.requested \cup ask,
                          !.outstanding = j.outstanding + Cardinality(ask), !.next = last]
<1>1. pump(j) = IF room <= 0 THEN j ELSE P
  BY DEF pump
<1>2. /\ j.next \in Nat /\ j.outstanding \in Nat /\ j.filled \in SUBSET Blocks /\ j.requested \in SUBSET Blocks
      /\ j.outstanding = Cardinality(Open(j)) /\ j.outstanding <= Depth
      /\ \A b \in Blocks : b < j.next => b \in j.filled \cup j.requested
  BY DEF JobRec, Window
<1>3. CASE room <= 0
  <2>1. Cardinality(Open(j)) # 0
    BY <1>2, <1>3, Sizes
  <2>2. Open(j) # {}
    BY <2>1, FS_EmptySet
  <2>3. QED
    BY <1>1, <1>3, <2>2 DEF Pumped
<1>4. CASE ~(room <= 0)
  <2>1. room \in Nat /\ room > 0 /\ j.outstanding + room = Depth
    BY <1>2, <1>4, Sizes
  <2>2. free \in SUBSET Blocks
    BY <1>2 DEF Blocks
  <2>3. \A b \in Blocks : b \in j.filled \cup j.requested \/ b \in free
    BY <1>2, Sizes DEF Blocks
  <2>4. free \cap (j.filled \cup j.requested) = {}
    OBVIOUS
  <2> HIDE DEF free, room
  <2>5. IsFiniteSet(free) /\ Cardinality(free) \in Nat /\ \A b \in free : b \in Nat /\ b < NumBlocks
    BY <2>2, BlockFacts, FS_Subset, FS_CardinalityType
  <2>6. ASSUME NEW b
        PROVE  /\ below(b) \in SUBSET free /\ IsFiniteSet(below(b)) /\ Cardinality(below(b)) \in Nat
               /\ Cardinality(below(b)) <= Cardinality(free)
    <3>1. below(b) \in SUBSET free
      OBVIOUS
    <3> HIDE DEF below
    <3>2. QED
      BY <2>5, <3>1, FS_Subset, FS_CardinalityType
  <2>7. ask \in SUBSET free /\ ask \in SUBSET Blocks
    BY <2>2
  <2>8. IsFiniteSet(ask) /\ Cardinality(ask) \in Nat
    BY <2>5, <2>7, FS_Subset, FS_CardinalityType
  <2>9. \A b \in free : b \in ask <=> Cardinality(below(b)) < room
    OBVIOUS
  <2>10. Cardinality(ask) <= room
    <3>1. CASE ask = {}
      <4>1. Cardinality(ask) = 0
        BY <3>1, FS_EmptySet
      <4>2. QED
        BY <2>1, <4>1
    <3>2. CASE ask # {}
      <4> DEFINE m == Max(ask)
      <4>1. m \in ask /\ \A b \in ask : b <= m
        <5> HIDE DEF ask
        <5>1. QED
          BY <2>7, <3>2, MaxFacts
      <4> HIDE DEF m
      <4>2. ask \in SUBSET (below(m) \cup {m})
        BY <2>5, <2>7, <4>1
      <4>3. m \notin below(m) /\ Cardinality(below(m)) < room
        BY <2>5, <2>7, <2>9, <4>1
      <4>4. IsFiniteSet(below(m)) /\ Cardinality(below(m)) \in Nat
        BY <2>6
      <4> HIDE DEF ask, below
      <4>5. Cardinality(below(m) \cup {m}) = Cardinality(below(m)) + 1 /\ IsFiniteSet(below(m) \cup {m})
        BY <4>3, <4>4, FS_AddElement
      <4>6. Cardinality(ask) <= Cardinality(below(m) \cup {m})
        BY <4>2, <4>5, FS_Subset
      <4>7. QED
        BY <2>1, <2>8, <4>3, <4>4, <4>5, <4>6
    <3>3. QED
      BY <3>1, <3>2
  <2>11. free # {} => ask # {}
    <3> SUFFICES ASSUME free # {} PROVE ask # {}
      OBVIOUS
    <3>1. free \in SUBSET Nat
      BY <2>5
    <3>2. PICK m \in free : \A b \in free : m <= b
      BY <3>1, LeastNat
    <3>3. below(m) = {}
      BY <2>5, <3>2
    <3>4. Cardinality(below(m)) = 0
      BY <3>3, FS_EmptySet
    <3>5. QED
      BY <2>1, <2>9, <3>2, <3>4
  <2>12. last \in Nat /\ \A b \in free : b < last => b \in ask
    <3>1. CASE Cardinality(free) < room
      <4>1. ASSUME NEW b \in free PROVE b \in ask
        <5>1. Cardinality(below(b)) \in Nat /\ Cardinality(below(b)) <= Cardinality(free)
          BY <2>6
        <5>2. Cardinality(below(b)) < room
          <6> HIDE DEF below
          <6>1. QED
            BY <2>1, <2>5, <3>1, <5>1
        <5>3. QED
          BY <2>9, <5>2
      <4>2. QED
        BY <3>1, <4>1, Sizes
    <3>2. CASE ~(Cardinality(free) < room)
      <4>1. free # {}
        BY <2>1, <3>2, FS_EmptySet
      <4> DEFINE m == Max(ask)
      <4>2. m \in ask
        <5> HIDE DEF ask
        <5>1. QED
          BY <2>7, <2>11, <4>1, MaxFacts
      <4>3. last = m + 1 /\ m \in Nat /\ m \in free
        BY <2>5, <2>7, <3>2, <4>2
      <4> HIDE DEF m, last
      <4>4. ASSUME NEW b \in free, b < last PROVE b \in ask
        <5>1. b <= m /\ b \in Nat
          BY <2>5, <4>3, <4>4
        <5>2. below(b) \in SUBSET below(m)
          <6>1. \A c \in free : c < b => c < m
            BY <2>5, <4>3, <5>1
          <6>2. QED
            BY <6>1
        <5>3. Cardinality(below(b)) <= Cardinality(below(m))
          <6>1. IsFiniteSet(below(m))
            BY <2>6
          <6> HIDE DEF below
          <6>2. QED
            BY <5>2, <6>1, FS_Subset
        <5>4. Cardinality(below(m)) < room
          BY <2>9, <4>2, <4>3
        <5>5. QED
          <6>1. Cardinality(below(b)) \in Nat /\ Cardinality(below(m)) \in Nat
            BY <2>6
          <6>2. Cardinality(below(b)) < room
            <7> HIDE DEF below
            <7>1. QED
              BY <2>1, <5>3, <5>4, <6>1
          <6>3. QED
            BY <2>9, <4>4, <6>2
      <4>5. QED
        BY <4>3, <4>4
    <3>3. QED
      BY <3>1, <3>2
  <2> DEFINE req == j.requested \cup ask
             out == j.outstanding + Cardinality(ask)
  <2>13. req \in SUBSET Blocks /\ out \in Nat /\ j.requested \subseteq req
    BY <1>2, <2>7, <2>8
  <2>14. Open(j) \cup ask = req \ j.filled /\ Open(j) \cap ask = {}
    BY <2>4, <2>7 DEF Open
  <2>15. out = Cardinality(Open(j) \cup ask) /\ out <= Depth
    <3>1. IsFiniteSet(Open(j))
      BY OpenFinite
    <3> HIDE DEF ask
    <3>2. Cardinality(Open(j) \cup ask) = Cardinality(Open(j)) + Cardinality(ask)
      <4>1. Cardinality(Open(j) \cup ask) = Cardinality(Open(j)) + Cardinality(ask) - Cardinality(Open(j) \cap ask)
        BY <2>8, <3>1, FS_Union
      <4>2. Cardinality(Open(j) \cap ask) = 0
        BY <2>14, FS_EmptySet
      <4>3. QED
        BY <1>2, <2>8, <4>1, <4>2
    <3>3. QED
      BY <1>2, <2>1, <2>8, <2>10, <3>2
  <2>16. P = [j EXCEPT !.requested = req, !.outstanding = out, !.next = last]
    OBVIOUS
  <2>17. ASSUME NEW b \in Blocks, b < last PROVE b \in j.filled \cup req
    BY <2>3, <2>12, <2>17
  <2>18. j.filled # Blocks => Open(j) \cup ask # {}
    <3>1. CASE free = {}
      BY <1>2, <2>3, <3>1 DEF Open
    <3>2. CASE free # {}
      BY <2>11, <3>2
    <3>3. QED
      BY <3>1, <3>2
  <2> HIDE DEF P, req, out, last, ask
  <2>19. /\ P \in JobRec /\ P.index = j.index /\ P.filled = j.filled /\ P.requested = req
         /\ P.outstanding = out /\ P.next = last
    BY <2>12, <2>13, <2>16 DEF JobRec
  <2>20. (req \ j.requested) \cap j.filled = {}
    BY <2>4, <2>7 DEF req
  <2>21. Open(P) = Open(j) \cup ask
    BY <2>14, <2>19 DEF Open
  <2>22. Window(P)
    BY <2>15, <2>17, <2>19, <2>21 DEF Window
  <2>23. QED
    BY <1>1, <1>4, <2>13, <2>18, <2>19, <2>21, <2>22, <2>20 DEF Pumped
<1>5. QED
  BY <1>3, <1>4

-----------------------------------------------------------------------------
(* A worker's job and what the remote owes for it. *)

Owes(i, bs) == {<<i, b>> : b \in bs}

\* g is f with v at p.
Set(f, g, p, v) == g = [f EXCEPT ![p] = v]

\* One worker's record and its debts are replaced by right ones.
LEMMA OneWorker ==
    ASSUME NEW w, NEW o, WorkersOK(w, o), NEW p \in Peers, NEW v \in WorkRec, NEW x, JobOK(v, x),
           NEW w2, Set(w, w2, p, v), NEW o2, Set(o, o2, p, x)
    PROVE  WorkersOK(w2, o2) /\ w2[p] = v /\ \A u \in Peers \ {p} : w2[u] = w[u]
<1>1. x \in SUBSET (PieceOrNone \X Blocks)
  <2>1. v.job \in JobRec /\ v.job.index \in PieceOrNone /\ Open(v.job) \in SUBSET Blocks
    BY OpenFinite DEF WorkRec, JobRec
  <2>2. x = {<<v.job.index, b>> : b \in Open(v.job)}
    BY DEF JobOK
  <2>3. QED
    BY <2>1, <2>2
<1>2. w2 \in WorkTable /\ w2[p] = v /\ \A u \in Peers \ {p} : w2[u] = w[u]
  BY DEF WorkersOK, WorkTable, Set
<1>3. o2 \in OwedTable /\ o2[p] = x /\ \A u \in Peers \ {p} : o2[u] = o[u]
  BY <1>1 DEF WorkersOK, OwedTable, Set
<1>4. ASSUME NEW u \in Peers PROVE JobOK(w2[u], o2[u])
  <2>1. CASE u = p
    BY <1>2, <1>3, <2>1
  <2>2. CASE u # p
    BY <1>2, <1>3, <2>2 DEF WorkersOK
  <2>3. QED
    BY <2>1, <2>2
<1>5. QED
  BY <1>2, <1>3, <1>4 DEF WorkersOK

\* No job: nothing asked for, nothing filled.
LEMMA NoJobFacts ==
    /\ NoJob \in JobRec /\ NoJob.index = None /\ NoJob.requested = {} /\ NoJob.filled = {}
    /\ NoJob.next = 0 /\ NoJob.outstanding = 0
    /\ Open(NoJob) = {} /\ Window(NoJob)
<1>1. /\ NoJob \in JobRec /\ NoJob.index = None /\ NoJob.requested = {} /\ NoJob.filled = {}
      /\ NoJob.next = 0 /\ NoJob.outstanding = 0
  BY DEF NoJob, JobRec, PieceOrNone
<1>2. Open(NoJob) = {}
  BY <1>1 DEF Open
<1>3. Window(NoJob)
  BY <1>1, <1>2, FS_EmptySet, Sizes, BlockFacts DEF Window
<1>4. QED
  BY <1>1, <1>2, <1>3

\* A worker without a job is right to be owed nothing.
LEMMA IdleOK ==
    ASSUME NEW v, v.job = NoJob
    PROVE  JobOK(v, {})
BY NoJobFacts DEF JobOK

\* An idle worker is owed nothing.
LEMMA IdleFacts ==
    ASSUME NEW v, NEW o, JobOK(v, o), v.job.index = None \/ v.choked
    PROVE  o = {} /\ (v.job.index = None => v.job = NoJob) /\ Open(v.job) = {}
<1>1. Open(v.job) = {} /\ (v.job.index = None => v.job = NoJob)
  BY NoJobFacts DEF JobOK
<1>2. QED
  BY <1>1 DEF JobOK

\* A pumped job is owed what was owed and what is newly asked for.
LEMMA PumpedOwes ==
    ASSUME NEW j \in JobRec, NEW P, Pumped(j, P), NEW o, o = Owes(j.index, Open(j))
    PROVE  o \cup Owes(j.index, P.requested \ j.requested) = Owes(P.index, Open(P))
<1>1. Open(P) = Open(j) \cup (P.requested \ j.requested)
  BY DEF Pumped, Open
<1>2. P.index = j.index
  BY DEF Pumped
<1>3. QED
  BY <1>1, <1>2 DEF Owes

\* An unchoked worker that pumps is owed exactly its window.
LEMMA PumpOK ==
    ASSUME NEW v \in WorkRec, v.phase = "serve", ~v.choked, NEW j \in JobRec, Window(j), j.index # None,
           j.filled # Blocks, v.job = pump(j), NEW o, o = Owes(j.index, Open(j))
    PROVE  JobOK(v, o \cup Owes(j.index, v.job.requested \ j.requested))
<1>1. Pumped(j, v.job)
  BY PumpFacts
<1>2. o \cup Owes(j.index, v.job.requested \ j.requested) = Owes(v.job.index, Open(v.job))
  BY <1>1, PumpedOwes
<1>3. v.job.index = j.index /\ v.job.filled = j.filled /\ Window(v.job) /\ Open(v.job) # {}
  BY <1>1 DEF Pumped
<1>4. QED
  BY <1>2, <1>3 DEF JobOK, Owes

\* The first order of an idle worker.
New(i) == [NoJob EXCEPT !.index = i]
Taken(v, i) == IF v.choked THEN New(i) ELSE pump(New(i))
SetJob(v, v2, j) == v2 = [v EXCEPT !.job = j]

\* The job and debts of a worker that takes an order.
LEMMA TakeOK ==
    ASSUME NEW v \in WorkRec, NEW o, JobOK(v, o), v.phase = "serve", v.job.index = None, NEW i \in Pieces,
           NEW v2, SetJob(v, v2, Taken(v, i))
    PROVE  v2 \in WorkRec /\ v2.job.index = i /\ v2.phase = "serve"
           /\ JobOK(v2, o \cup Owes(Taken(v, i).index, Taken(v, i).requested \ New(i).requested))
<1> DEFINE new == New(i)
           j == Taken(v, i)
<1>1. /\ new \in JobRec /\ new.index = i /\ new.requested = {} /\ new.filled = {} /\ new.next = 0 /\ new.outstanding = 0
  BY NoJobFacts DEF JobRec, PieceOrNone, New
<1> HIDE DEF new
<1>2. Open(new) = {} /\ i # None
  BY <1>1, PieceFacts DEF Open
<1>3. Window(new) /\ new.filled # Blocks
  BY <1>1, <1>2, FS_EmptySet, Sizes, BlockFacts DEF Window
<1>4. o = {}
  BY IdleFacts
<1>0. j = IF v.choked THEN new ELSE pump(new)
  BY DEF Taken, new
<1> HIDE DEF j
<1>5. j \in JobRec /\ j.index = i
  BY <1>0, <1>1, <1>3, PumpFacts DEF Pumped
<1>6. v2 \in WorkRec /\ v2.job = j /\ v2.phase = "serve" /\ v2.bf = v.bf /\ v2.choked = v.choked
  BY <1>5 DEF WorkRec, SetJob, j
<1>9. JobOK(v2, o \cup Owes(j.index, j.requested \ new.requested))
  <2>1. CASE v.choked
    <3>1. j = new
      BY <1>0, <2>1
    <3>2. o \cup Owes(j.index, j.requested \ new.requested) = Owes(j.index, Open(j))
      BY <1>1, <1>2, <1>4, <3>1 DEF Owes
    <3>3. QED
      BY <1>1, <1>2, <1>3, <1>5, <1>6, <2>1, <3>1, <3>2 DEF JobOK, Owes
  <2>2. CASE ~v.choked
    <3>1. v2.job = pump(new) /\ o = Owes(new.index, Open(new))
      BY <1>0, <1>2, <1>4, <1>6, <2>2 DEF Owes
    <3>2. JobOK(v2, o \cup Owes(new.index, v2.job.requested \ new.requested))
      BY <1>1, <1>2, <1>3, <1>6, <2>2, <3>1, PumpOK
    <3>3. QED
      BY <1>1, <1>5, <1>6, <3>2
  <2>3. QED
    BY <2>1, <2>2
<1>10. QED
  BY <1>5, <1>6, <1>9 DEF j, new

\* A choke forgets what was asked for and the remote drops it.
LEMMA ChokeOK ==
    ASSUME NEW v \in WorkRec, NEW o, JobOK(v, o), v.phase = "serve",
           NEW v2, v2 = [v EXCEPT !.choked = TRUE, !.job = on_choke(v.job)]
    PROVE  v2 \in WorkRec /\ v2.job.index = v.job.index /\ v2.phase = "serve" /\ v2.bf = v.bf /\ JobOK(v2, {})
<1> DEFINE j == on_choke(v.job)
<1>1. v.job \in JobRec /\ v.job.requested \in SUBSET Blocks /\ v.job.filled \in SUBSET Blocks
  BY DEF WorkRec, JobRec
<1>2. /\ j \in JobRec /\ j.index = v.job.index /\ j.filled = v.job.filled /\ j.next = 0 /\ j.outstanding = 0
      /\ j.requested = v.job.requested \cap v.job.filled
  <2> DEFINE r == v.job.requested \cap v.job.filled
  <2>1. r \in SUBSET Blocks /\ j = [v.job EXCEPT !.requested = r, !.outstanding = 0, !.next = 0]
    BY <1>1 DEF on_choke
  <2> HIDE DEF r, j
  <2>2. j \in JobRec /\ j.index = v.job.index /\ j.filled = v.job.filled /\ j.next = 0 /\ j.outstanding = 0 /\ j.requested = r
    BY <1>1, <2>1 DEF JobRec
  <2>3. QED
    BY <2>2 DEF r
<1>3. v.job = NoJob => j = NoJob
  <2>1. on_choke(NoJob) = NoJob
    <3>1. NoJob.requested \cap NoJob.filled = {}
      BY NoJobFacts
    <3>2. on_choke(NoJob) = [NoJob EXCEPT !.requested = {}, !.outstanding = 0, !.next = 0]
      BY <3>1 DEF on_choke, NoJob
    <3>3. QED
      BY <3>2 DEF NoJob
  <2>2. QED
    BY <2>1
<1> HIDE DEF j
<1>4. v2 \in WorkRec /\ v2.job = j /\ v2.phase = "serve" /\ v2.bf = v.bf /\ v2.choked = TRUE
  BY <1>2 DEF WorkRec, j
<1>5. Open(j) = {}
  BY <1>2 DEF Open
<1>6. Window(j)
  BY <1>2, <1>5, FS_EmptySet, Sizes, BlockFacts DEF Window
<1>7. QED
  BY <1>2, <1>3, <1>4, <1>5, <1>6 DEF JobOK

\* The job of a worker that is unchoked.
Resumed(v) == IF v.job.index = None THEN v.job ELSE pump(v.job)
Freed(v) == [v EXCEPT !.choked = FALSE, !.job = Resumed(v)]

\* An unchoke asks again for what the piece in hand lacks.
LEMMA UnchokeOK ==
    ASSUME NEW v \in WorkRec, NEW o, JobOK(v, o), v.phase = "serve", v.choked
    PROVE  /\ Freed(v) \in WorkRec /\ Freed(v).job.index = v.job.index /\ Freed(v).phase = "serve"
           /\ JobOK(Freed(v), o \cup Owes(Resumed(v).index, Resumed(v).requested \ v.job.requested))
<1> DEFINE j == Resumed(v)
           v2 == Freed(v)
<1>1. v.job \in JobRec /\ Window(v.job)
  BY DEF WorkRec, JobOK
<1>2. j \in JobRec /\ j.index = v.job.index /\ j = IF v.job.index = None THEN v.job ELSE pump(v.job)
  BY <1>1, PumpFacts DEF Pumped, Resumed
<1> HIDE DEF j
<1>3. v2 \in WorkRec /\ v2.job = j /\ v2.phase = "serve" /\ v2.bf = v.bf /\ v2.choked = FALSE
  BY <1>2 DEF WorkRec, Freed, j
<1> HIDE DEF v2
<1>4. o = Owes(v.job.index, Open(v.job))
  BY DEF JobOK, Owes
<1>5. JobOK(v2, o \cup Owes(j.index, j.requested \ v.job.requested))
  <2>1. CASE v.job.index = None
    <3>1. o = {} /\ v.job = NoJob /\ j = NoJob
      BY <1>2, <2>1, IdleFacts
    <3>2. o \cup Owes(j.index, j.requested \ v.job.requested) = {}
      BY <3>1 DEF Owes
    <3>3. QED
      BY <1>2, <1>3, <3>1, <3>2, IdleOK
  <2>2. CASE v.job.index # None
    <3>1. v2.job = pump(v.job) /\ v.job.filled # Blocks
      BY <1>2, <1>3, <2>2 DEF JobOK
    <3>2. JobOK(v2, o \cup Owes(v.job.index, v2.job.requested \ v.job.requested))
      BY <1>1, <1>3, <1>4, <2>2, <3>1, PumpOK
    <3>3. QED
      BY <1>2, <1>3, <3>2
  <2>3. QED
    BY <2>1, <2>2
<1>6. QED
  BY <1>2, <1>3, <1>5 DEF j, v2

\* The job after a block of its piece.
Filled(v, b) ==
    LET got == on_block(v.job, b)
    IN  IF got.filled = Blocks THEN NoJob ELSE IF v.choked THEN got ELSE pump(got)

\* A block of the piece in hand arrives.
LEMMA BlockOK ==
    ASSUME NEW v \in WorkRec, NEW o, JobOK(v, o), v.phase = "serve", v.job.index # None,
           NEW b \in Blocks \ v.job.filled, NEW v2, SetJob(v, v2, Filled(v, b))
    PROVE  /\ v2 \in WorkRec /\ v2.phase = "serve"
           /\ on_block(v.job, b).filled # Blocks => v2.job.index = v.job.index
           /\ on_block(v.job, b).filled = Blocks => v2.job.index = None
           /\ JobOK(v2, (o \ {<<v.job.index, b>>}) \cup
                        Owes(v.job.index, Filled(v, b).requested \ v.job.requested))
<1> DEFINE old == v.job
           got == on_block(old, b)
           j == Filled(v, b)
           i == old.index
           n == IF b \in old.requested /\ old.outstanding > 0 THEN old.outstanding - 1 ELSE old.outstanding
<1>1. /\ old \in JobRec /\ Window(old) /\ o = Owes(i, Open(old))
      /\ old.outstanding \in Nat /\ old.filled \in SUBSET Blocks /\ old.requested \in SUBSET Blocks
      /\ old.outstanding = Cardinality(Open(old)) /\ old.outstanding <= Depth
      /\ \A c \in Blocks : c < old.next => c \in old.filled \cup old.requested
  BY DEF WorkRec, JobRec, JobOK, Window, Owes
<1>2. IsFiniteSet(Open(old))
  BY <1>1, OpenFinite
<1>3. got = [old EXCEPT !.filled = old.filled \cup {b}, !.outstanding = n]
  BY DEF on_block
<1>4. n \in Nat /\ n <= Depth /\ old.filled \cup {b} \in SUBSET Blocks
  BY <1>1, Sizes
<1>0. j = IF got.filled = Blocks THEN NoJob ELSE IF v.choked THEN got ELSE pump(got)
  BY DEF Filled
<1> HIDE DEF n, got, j
<1>5. /\ got \in JobRec /\ got.index = i /\ got.filled = old.filled \cup {b} /\ got.requested = old.requested
      /\ got.next = old.next /\ got.outstanding = n
  <2> DEFINE f == old.filled \cup {b}
  <2>1. f \in SUBSET Blocks /\ got = [old EXCEPT !.filled = f, !.outstanding = n]
    BY <1>3, <1>4
  <2> HIDE DEF f
  <2>2. /\ got \in JobRec /\ got.index = i /\ got.filled = f /\ got.requested = old.requested
        /\ got.next = old.next /\ got.outstanding = n
    BY <1>1, <1>4, <2>1 DEF JobRec
  <2>3. QED
    BY <2>2 DEF f
<1>6. Open(got) = Open(old) \ {b} /\ (b \in Open(old) <=> b \in old.requested)
  BY <1>5 DEF Open
<1>7. n = Cardinality(Open(got))
  <2>1. CASE b \in old.requested
    <3>1. b \in Open(old)
      BY <1>6, <2>1
    <3>2. Open(old) # {}
      BY <3>1
    <3>3. Cardinality(Open(old) \ {b}) = Cardinality(Open(old)) - 1
      BY <1>2, <3>1, FS_RemoveElement
    <3>4. Cardinality(Open(old)) # 0
      BY <1>2, <3>2, FS_EmptySet
    <3>5. QED
      BY <1>1, <1>6, <2>1, <3>3, <3>4 DEF n
  <2>2. CASE b \notin old.requested
    <3>1. Open(got) = Open(old)
      BY <1>6, <2>2
    <3>2. QED
      BY <1>1, <2>2, <3>1 DEF n
  <2>3. QED
    BY <2>1, <2>2
<1>8. Window(got)
  BY <1>1, <1>4, <1>5, <1>7 DEF Window
<1>9. o \ {<<i, b>>} = Owes(i, Open(got))
  BY <1>1, <1>6 DEF Owes
<1>10. j \in JobRec /\ (got.filled # Blocks => j.index = i) /\ (got.filled = Blocks => j.index = None)
  BY <1>0, <1>5, <1>8, NoJobFacts, PumpFacts DEF Pumped
<1>11. v2 \in WorkRec /\ v2.job = j /\ v2.phase = "serve" /\ v2.bf = v.bf /\ v2.choked = v.choked
  BY <1>10 DEF WorkRec, SetJob, j
<1>12. JobOK(v2, (o \ {<<i, b>>}) \cup Owes(i, j.requested \ old.requested))
  <2>1. CASE got.filled = Blocks
    <3>1. Open(got) = {} /\ j = NoJob
      BY <1>0, <1>1, <1>5, <2>1 DEF Open
    <3>2. (o \ {<<i, b>>}) \cup Owes(i, j.requested \ old.requested) = {}
      BY <1>9, <3>1, NoJobFacts DEF Owes
    <3>3. QED
      BY <1>10, <1>11, <3>1, <3>2, IdleOK
  <2>2. CASE got.filled # Blocks /\ v.choked
    <3>1. j = got /\ Open(old) = {}
      BY <1>0, <2>2 DEF JobOK
    <3>2. Open(got) = {}
      BY <1>6, <3>1
    <3>3. (o \ {<<i, b>>}) \cup Owes(i, j.requested \ old.requested) = Owes(i, Open(got))
      BY <1>5, <1>9, <3>1 DEF Owes
    <3>4. QED
      BY <1>5, <1>8, <1>10, <1>11, <2>2, <3>1, <3>2, <3>3 DEF JobOK, Owes
  <2>3. CASE got.filled # Blocks /\ ~v.choked
    <3>1. v2.job = pump(got)
      BY <1>0, <1>11, <2>3
    <3>2. JobOK(v2, (o \ {<<i, b>>}) \cup Owes(i, v2.job.requested \ got.requested))
      BY <1>5, <1>8, <1>9, <1>11, <2>3, <3>1, PumpOK
    <3>3. QED
      BY <1>5, <1>10, <1>11, <3>2
  <2>4. QED
    BY <2>1, <2>2, <2>3
<1>13. QED
  BY <1>10, <1>11, <1>12 DEF j, got

-----------------------------------------------------------------------------
(* A worker's step in the books. *)

\* q2 is q with ev behind it.
Sent(q, q2, ev) ==
    /\ Len(q) \in Nat /\ Len(q2) = Len(q) + 1
    /\ \A k \in 1 .. Len(q) : k \in 1 .. Len(q2) /\ q2[k] = q[k]
    /\ Len(q2) \in 1 .. Len(q2) /\ q2[Len(q2)] = ev
    /\ \A k \in 1 .. Len(q2) : k = Len(q2) \/ k \in 1 .. Len(q)

\* The queue with an event behind it.
LEMMA SentFacts ==
    ASSUME NEW q \in Seq(EventSet), NEW ev \in EventSet, NEW q2, q2 = Append(q, ev)
    PROVE  Sent(q, q2, ev) /\ q2 \in Seq(EventSet)
<1>1. /\ Len(q) \in Nat /\ q2 \in Seq(EventSet) /\ Len(q2) = Len(q) + 1
      /\ \A k \in 1 .. Len(q) : q2[k] = q[k]
      /\ q2[Len(q) + 1] = ev
  OBVIOUS
<1>2. \A k \in 1 .. Len(q) : k \in 1 .. Len(q2)
  BY <1>1
<1>3. Len(q2) \in 1 .. Len(q2) /\ \A k \in 1 .. Len(q2) : k = Len(q2) \/ k \in 1 .. Len(q)
  BY <1>1
<1>4. QED
  BY <1>1, <1>2, <1>3 DEF Sent

\* What a new event does to the pieces on their way back.
LEMMA SentBack ==
    ASSUME NEW q, NEW q2, NEW ev, Sent(q, q2, ev), NEW p
    PROVE  /\ ~IsBack(ev, p) => /\ NoBack(q, p) => NoBack(q2, p)
                                /\ \A i : OneBack(q, p, i) => OneBack(q2, p, i)
           /\ IsBack(ev, p) /\ NoBack(q, p) => OneBack(q2, p, ev.index)
<1>1. ~IsBack(ev, p) /\ NoBack(q, p) => NoBack(q2, p)
  BY DEF NoBack, Sent
<1>2. ASSUME NEW i, ~IsBack(ev, p), OneBack(q, p, i) PROVE OneBack(q2, p, i)
  <2>1. PICK k \in 1 .. Len(q) : IsBack(q[k], p) /\ q[k].index = i
                                 /\ \A l \in 1 .. Len(q) : l # k => ~IsBack(q[l], p)
    BY <1>2 DEF OneBack
  <2>2. k \in 1 .. Len(q2) /\ q2[k] = q[k]
    BY DEF Sent
  <2>3. ASSUME NEW l \in 1 .. Len(q2), l # k PROVE ~IsBack(q2[l], p)
    BY <1>2, <2>1, <2>3 DEF Sent
  <2>4. QED
    BY <2>1, <2>2, <2>3 DEF OneBack
<1>3. ASSUME IsBack(ev, p), NoBack(q, p) PROVE OneBack(q2, p, ev.index)
  <2>1. ASSUME NEW l \in 1 .. Len(q2), l # Len(q2) PROVE ~IsBack(q2[l], p)
    BY <1>3, <2>1 DEF Sent, NoBack
  <2>2. QED
    BY <1>3, <2>1 DEF OneBack, Sent
<1>4. QED
  BY <1>1, <1>2, <1>3

\* An event of one worker says nothing of the others.
LEMMA SentBooks ==
    ASSUME NEW q, NEW q2, NEW ev, Sent(q, q2, ev), NEW S, NEW w, NEW u, ~IsBack(ev, u),
           w[u].phase \in {"new", "join"} => ev.peer # u, ~(ev.peer = u /\ ev.type = "Joined"),
           Placed(S, q, w, u), Early(S, q, w, u), Joining(S, q, w, u)
    PROVE  Placed(S, q2, w, u) /\ Early(S, q2, w, u) /\ Joining(S, q2, w, u)
<1>1. ASSUME NEW j, NEW box PROVE Nowhere(j, box, q, u) => Nowhere(j, box, q2, u)
  BY SentBack DEF Nowhere
<1>2. ASSUME NEW i, NEW j, NEW box PROVE Somewhere(i, j, box, q, u) => Somewhere(i, j, box, q2, u)
  BY SentBack DEF Somewhere
<1>3. Placed(S, q2, w, u)
  BY <1>1, <1>2 DEF Placed
<1>4. Early(S, q2, w, u)
  BY DEF Early, Sent
<1>5. Joining(S, q2, w, u)
  <2> SUFFICES ASSUME NEW k \in 1 .. Len(q2), q2[k].peer = u, q2[k].type = "Joined"
               PROVE  /\ u \notin DOMAIN S.peers
                      /\ w[u].phase = "serve" => Nowhere(w[u].job.index, S.inbox[u], q2, u)
                      /\ \A l \in 1 .. Len(q2) : q2[l].peer = u /\ q2[l].type = "Joined" => l = k
    BY DEF Joining
  <2>1. k \in 1 .. Len(q) /\ q2[k] = q[k]
    BY DEF Sent
  <2>2. /\ u \notin DOMAIN S.peers
        /\ w[u].phase = "serve" => Nowhere(w[u].job.index, S.inbox[u], q, u)
        /\ \A l \in 1 .. Len(q) : q[l].peer = u /\ q[l].type = "Joined" => l = k
    BY <2>1 DEF Joining
  <2>3. ASSUME NEW l \in 1 .. Len(q2), q2[l].peer = u, q2[l].type = "Joined" PROVE l = k
    <3>1. l \in 1 .. Len(q) /\ q2[l] = q[l]
      BY <2>3 DEF Sent
    <3>2. QED
      BY <2>2, <2>3, <3>1
  <2>4. QED
    BY <1>1, <2>2, <2>3
<1>6. QED
  BY <1>3, <1>4, <1>5

\* Worker p takes a step: its inbox, its record and an event of its own may change.
Quiet(q, q2, p) == q2 = q \/ \E ev : ev.peer = p /\ Sent(q, q2, ev)

\* The books after a step of worker p, if they are right about p.
LEMMA WorkerBooks ==
    ASSUME NEW S, NEW q, NEW w, Books(S, q, w), NEW p \in Peers, NEW T \in EngineRec, NEW q2, NEW w2,
           Quiet(q, q2, p), \A u \in Peers \ {p} : w2[u] = w[u] /\ T.inbox[u] = S.inbox[u],
           T.peers = S.peers, T.assigned = S.assigned, T.avail = S.avail, T.have = S.have,
           T.gone = {u \in Peers : w2[u].phase = "gone"},
           Placed(T, q2, w2, p), Early(T, q2, w2, p), Joining(T, q2, w2, p)
    PROVE  Books(T, q2, w2)
<1>1. Sums(T)
  <2>1. Sums(S)
    BY DEF Books
  <2>2. QED
    BY <2>1 DEF Sums, AssignedExact, AvailExact, InHand, Offering, busy
<1>2. ASSUME NEW u \in Peers PROVE Placed(T, q2, w2, u) /\ Early(T, q2, w2, u) /\ Joining(T, q2, w2, u)
  <2>1. CASE u = p
    BY <2>1
  <2>2. CASE u # p
    <3>1. Placed(S, q, w, u) /\ Early(S, q, w, u) /\ Joining(S, q, w, u)
      BY DEF Books
    <3>2. Placed(S, q2, w, u) /\ Early(S, q2, w, u) /\ Joining(S, q2, w, u)
      <4>1. CASE q2 = q
        BY <3>1, <4>1
      <4>2. CASE \E ev : ev.peer = p /\ Sent(q, q2, ev)
        <5>1. PICK ev : ev.peer = p /\ Sent(q, q2, ev)
          BY <4>2
        <5>2. ~IsBack(ev, u) /\ ev.peer # u
          BY <2>2, <5>1 DEF IsBack
        <5>3. QED
          BY <3>1, <5>1, <5>2, SentBooks
      <4>3. QED
        BY <4>1, <4>2 DEF Quiet
    <3>3. w2[u] = w[u] /\ T.inbox[u] = S.inbox[u]
      BY <2>2
    <3>4. Placed(T, q2, w2, u)
      BY <3>2, <3>3 DEF Placed
    <3>5. Early(T, q2, w2, u)
      BY <3>2, <3>3 DEF Early
    <3>6. Joining(T, q2, w2, u)
      BY <3>2, <3>3 DEF Joining
    <3>7. QED
      BY <3>4, <3>5, <3>6
  <2>3. QED
    BY <2>1, <2>2
<1>3. QED
  BY <1>1, <1>2 DEF Books

\* No worker starts or leaves.
LEMMA SameCount ==
    ASSUME NEW r, NEW q, NEW w, Counted(r, q, w), NEW p \in Peers, NEW q2, NEW w2,
           \A u \in Peers \ {p} : w2[u] = w[u],
           w[p].phase \in {"join", "serve"}, w2[p].phase \in {"join", "serve"},
           q2 = q \/ \E ev : ev.type # "Gone" /\ Sent(q, q2, ev)
    PROVE  Counted(r, q2, w2)
<1>1. ASSUME NEW u
      PROVE  (\E k \in 1 .. Len(q2) : q2[k].peer = u /\ q2[k].type = "Gone")
             <=> (\E k \in 1 .. Len(q) : q[k].peer = u /\ q[k].type = "Gone")
  BY DEF Sent
<1>2. Alive(q2, w2) = Alive(q, w)
  <2>1. ASSUME NEW u \in Peers PROVE w2[u].phase \in {"join", "serve"} <=> w[u].phase \in {"join", "serve"}
    BY DEF Counted
  <2>2. QED
    BY <1>1, <2>1 DEF Alive
<1>3. \A u \in Peers : w2[u].phase = "new" <=> w[u].phase = "new"
  BY DEF Counted
<1>4. ASSUME NEW u \in Peers PROVE Leaving(q2, w2, u)
  <2> SUFFICES ASSUME NEW k \in 1 .. Len(q2), q2[k].peer = u, q2[k].type = "Gone"
               PROVE  /\ w2[u].phase = "gone"
                      /\ \A l \in 1 .. Len(q2) : q2[l].peer = u /\ q2[l].type = "Gone" => l = k
    BY DEF Leaving
  <2>1. ASSUME NEW l \in 1 .. Len(q2), q2[l].type = "Gone" PROVE l \in 1 .. Len(q) /\ q2[l] = q[l]
    BY <2>1 DEF Sent
  <2>2. Leaving(q, w, u)
    BY DEF Counted
  <2>3. /\ w[u].phase = "gone"
        /\ \A l \in 1 .. Len(q) : q[l].peer = u /\ q[l].type = "Gone" => l = k
    BY <2>1, <2>2 DEF Leaving
  <2>4. w2[u] = w[u]
    BY <2>3
  <2>5. QED
    BY <2>1, <2>3, <2>4
<1>5. QED
  BY <1>2, <1>3, <1>4 DEF Counted

\* A worker leaves, with its Gone behind everything it sent.
LEMMA LeaveCount ==
    ASSUME NEW r, NEW q, NEW w, Counted(r, q, w), NEW p \in Peers, NEW q2, NEW w2, NEW ev,
           \A u \in Peers \ {p} : w2[u] = w[u],
           w[p].phase \in {"join", "serve"}, w2[p].phase = "gone",
           Sent(q, q2, ev), ev.type = "Gone", ev.peer = p
    PROVE  Counted(r, q2, w2)
<1>1. \A u \in Peers : Leaving(q, w, u)
  BY DEF Counted
<1>2. \A k \in 1 .. Len(q) : ~(q[k].peer = p /\ q[k].type = "Gone")
  BY <1>1 DEF Leaving
<1>3. Alive(q2, w2) = Alive(q, w)
  <2>1. ASSUME NEW u \in Peers PROVE u \in Alive(q2, w2) <=> u \in Alive(q, w)
    <3>1. CASE u = p
      BY <3>1 DEF Alive, Sent
    <3>2. CASE u # p
      <4>1. (\E k \in 1 .. Len(q2) : q2[k].peer = u /\ q2[k].type = "Gone")
             <=> (\E k \in 1 .. Len(q) : q[k].peer = u /\ q[k].type = "Gone")
        BY <3>2 DEF Sent
      <4>2. QED
        BY <3>2, <4>1 DEF Alive
    <3>3. QED
      BY <3>1, <3>2
  <2>2. QED
    BY <2>1 DEF Alive
<1>4. \A u \in Peers : w2[u].phase = "new" <=> w[u].phase = "new"
  BY DEF Counted
<1>5. ASSUME NEW u \in Peers PROVE Leaving(q2, w2, u)
  <2> SUFFICES ASSUME NEW k \in 1 .. Len(q2), q2[k].peer = u, q2[k].type = "Gone"
               PROVE  /\ w2[u].phase = "gone"
                      /\ \A l \in 1 .. Len(q2) : q2[l].peer = u /\ q2[l].type = "Gone" => l = k
    BY DEF Leaving
  <2>1. CASE u = p
    <3>1. ASSUME NEW l \in 1 .. Len(q2), q2[l].peer = p, q2[l].type = "Gone" PROVE l = Len(q2)
      BY <1>2, <3>1 DEF Sent
    <3>2. QED
      BY <2>1, <3>1
  <2>2. CASE u # p
    <3>1. ASSUME NEW l \in 1 .. Len(q2), q2[l].peer = u PROVE l \in 1 .. Len(q) /\ q2[l] = q[l]
      BY <2>2, <3>1 DEF Sent
    <3>2. /\ w[u].phase = "gone"
          /\ \A l \in 1 .. Len(q) : q[l].peer = u /\ q[l].type = "Gone" => l = k
      BY <1>1, <3>1 DEF Leaving
    <3>3. QED
      BY <2>2, <3>1, <3>2
  <2>3. QED
    BY <2>1, <2>2
<1>6. QED
  BY <1>3, <1>4, <1>5 DEF Counted

Its(S, q, w, p) == Placed(S, q, w, p) /\ Early(S, q, w, p) /\ Joining(S, q, w, p)

\* A choke, an unchoke, a have or a block that does not complete the piece.
LEMMA StaysPut ==
    ASSUME NEW S, NEW T, NEW q, NEW q2, NEW w, NEW w2, NEW p, Its(S, q, w, p),
           T.peers = S.peers, T.inbox[p] = S.inbox[p], w[p].phase = "serve", w2[p].phase = "serve",
           w2[p].job.index = w[p].job.index,
           q2 = q \/ \E ev : ev.type \notin {"Joined", "PieceDone", "Released"} /\ Sent(q, q2, ev)
    PROVE  Its(T, q2, w2, p)
<1>1. Placed(S, q2, w, p) /\ Early(S, q2, w, p) /\ Joining(S, q2, w, p)
  <2>1. CASE q2 = q
    BY <2>1 DEF Its
  <2>2. CASE \E ev : ev.type \notin {"Joined", "PieceDone", "Released"} /\ Sent(q, q2, ev)
    <3>1. PICK ev : ev.type \notin {"Joined", "PieceDone", "Released"} /\ Sent(q, q2, ev)
      BY <2>2
    <3>2. ~IsBack(ev, p) /\ ~(ev.peer = p /\ ev.type = "Joined") /\ w[p].phase \notin {"new", "join"}
      BY <3>1 DEF IsBack
    <3>3. QED
      BY <3>1, <3>2, SentBooks DEF Its
  <2>3. QED
    BY <2>1, <2>2
<1>2. Placed(T, q2, w2, p)
  BY <1>1 DEF Placed
<1>3. Early(T, q2, w2, p)
  BY DEF Early
<1>4. Joining(T, q2, w2, p)
  BY <1>1 DEF Joining
<1>5. QED
  BY <1>2, <1>3, <1>4 DEF Its

\* The piece in hand goes back to the engine, complete or not.
LEMMA HandsBack ==
    ASSUME NEW S, NEW T, NEW q, NEW q2, NEW w, NEW w2, NEW p, NEW ev, Its(S, q, w, p),
           T.peers = S.peers, T.inbox[p] = S.inbox[p], w[p].phase = "serve", w2[p].phase = "serve",
           w[p].job.index # None, w2[p].job.index = None,
           Sent(q, q2, ev), IsBack(ev, p), ev.index = w[p].job.index
    PROVE  Its(T, q2, w2, p)
<1>1. ASSUME NEW box PROVE ~Nowhere(w[p].job.index, box, q, p)
  BY DEF Nowhere
<1>2. ASSUME NEW i, NEW box, Somewhere(i, w[p].job.index, box, q, p)
      PROVE  Somewhere(i, w2[p].job.index, box, q2, p)
  BY <1>2, SentBack DEF Somewhere
<1>3. Placed(T, q2, w2, p)
  BY <1>1, <1>2 DEF Its, Placed
<1>4. Early(T, q2, w2, p)
  BY DEF Early
<1>5. Joining(T, q2, w2, p)
  <2>1. ASSUME NEW k \in 1 .. Len(q2), q2[k].peer = p, q2[k].type = "Joined" PROVE FALSE
    <3>1. ev.type # "Joined"
      BY DEF IsBack
    <3>2. k \in 1 .. Len(q) /\ q2[k] = q[k]
      BY <2>1, <3>1 DEF Sent
    <3>3. Nowhere(w[p].job.index, S.inbox[p], q, p)
      BY <2>1, <3>2 DEF Its, Joining
    <3>4. QED
      BY <1>1, <3>3
  <2>2. QED
    BY <2>1 DEF Joining
<1>6. QED
  BY <1>3, <1>4, <1>5 DEF Its

\* The first order in the inbox becomes the job of a worker that had none.
Took(S, T, p, h) ==
    /\ S.inbox[p] \in Seq(Commands) /\ S.inbox[p] # << >> /\ h = Head(S.inbox[p]) /\ h # Stop
    /\ T.peers = S.peers /\ T.inbox[p] = Tail(S.inbox[p])

\* An order is taken by a worker without a job, and stays the one place of its piece.
LEMMA TakesOrder ==
    ASSUME NEW S, NEW T, NEW q, NEW w, NEW w2, NEW p, Its(S, q, w, p), w[p].phase = "serve",
           NEW h, Took(S, T, p, h), w2[p].phase = "serve"
    PROVE  /\ w[p].job.index = None /\ h \in Pieces
           /\ w2[p].job.index = h => Its(T, q, w2, p)
<1> DEFINE box == S.inbox[p]
           rest == Tail(box)
<1>1. /\ Len(box) \in Nat /\ Len(box) > 0 /\ h = box[1] /\ Len(rest) = Len(box) - 1
      /\ \A k \in 1 .. Len(rest) : rest[k] = box[k + 1]
      /\ h # Stop /\ T.peers = S.peers /\ T.inbox[p] = rest
  BY DEF Took
<1> HIDE DEF rest
<1>2. /\ 1 \in 1 .. Len(box) /\ box[1] # Stop
      /\ \A k \in 1 .. Len(rest) : k + 1 \in 1 .. Len(box) /\ k + 1 # 1 /\ rest[k] = box[k + 1]
      /\ \A k \in 1 .. Len(box) : k # 1 => k - 1 \in 1 .. Len(rest) /\ rest[k - 1] = box[k]
  <2>1. \A k \in 1 .. Len(rest) : k + 1 \in 1 .. Len(box) /\ k + 1 # 1
    BY <1>1
  <2>2. \A k \in 1 .. Len(box) : k # 1 => k - 1 \in 1 .. Len(rest) /\ k - 1 + 1 = k
    BY <1>1
  <2>3. \A k \in 1 .. Len(box) : k # 1 => rest[k - 1] = box[k]
    BY <1>1, <2>2
  <2>4. QED
    BY <1>1, <2>1, <2>2, <2>3
<1>3. ~NoOrder(box)
  BY <1>2 DEF NoOrder
<1>4. ASSUME NEW i, OneOrder(box, i) PROVE i = h /\ NoOrder(rest)
  <2>1. PICK k \in 1 .. Len(box) : box[k] = i /\ \A l \in 1 .. Len(box) : l # k => box[l] = Stop
    BY <1>4 DEF OneOrder
  <2>2. k = 1
    BY <1>2, <2>1
  <2>3. QED
    BY <1>1, <1>2, <2>1, <2>2 DEF NoOrder
<1>5. Stopped(box) => Stopped(rest)
  BY <1>2 DEF Stopped
<1>6. ASSUME NEW j PROVE ~Nowhere(j, box, q, p)
  BY <1>3 DEF Nowhere
<1>7. ASSUME NEW i, NEW j, Somewhere(i, j, box, q, p)
      PROVE  j = None /\ i = h /\ h \in Pieces /\ Somewhere(i, h, rest, q, p)
  BY <1>3, <1>4, <1>7 DEF Somewhere
<1>8. w[p].job.index = None /\ h \in Pieces
  BY <1>6, <1>7 DEF Its, Placed
<1>9. ASSUME w2[p].job.index = h PROVE Its(T, q, w2, p)
  <2>1. Placed(T, q, w2, p)
    BY <1>1, <1>5, <1>6, <1>7, <1>9 DEF Its, Placed
  <2>2. Early(T, q, w2, p)
    BY DEF Early
  <2>3. Joining(T, q, w2, p)
    <3>1. ASSUME NEW k \in 1 .. Len(q), q[k].peer = p, q[k].type = "Joined" PROVE FALSE
      BY <1>6, <3>1 DEF Its, Joining
    <3>2. QED
      BY <3>1 DEF Joining
  <2>4. QED
    BY <2>1, <2>2, <2>3 DEF Its
<1>10. QED
  BY <1>8, <1>9

\* A worker that leaves owes the books nothing.
LEMMA Leaves ==
    ASSUME NEW S, NEW T, NEW q, NEW q2, NEW w, NEW w2, NEW p, NEW ev, Its(S, q, w, p),
           T.peers = S.peers, w2[p].phase = "gone", Sent(q, q2, ev), ev.type = "Gone"
    PROVE  Its(T, q2, w2, p)
<1>1. ASSUME NEW k \in 1 .. Len(q2), q2[k].peer = p, q2[k].type = "Joined"
      PROVE  p \notin DOMAIN T.peers /\ \A l \in 1 .. Len(q2) : q2[l].peer = p /\ q2[l].type = "Joined" => l = k
  <2>1. \A l \in 1 .. Len(q2) : q2[l].type = "Joined" => l \in 1 .. Len(q) /\ q2[l] = q[l]
    BY DEF Sent
  <2>2. p \notin DOMAIN S.peers /\ \A l \in 1 .. Len(q) : q[l].peer = p /\ q[l].type = "Joined" => l = k
    BY <1>1, <2>1 DEF Its, Joining
  <2>3. QED
    BY <2>1, <2>2
<1>2. QED
  BY <1>1 DEF Its, Placed, Early, Joining

\* A worker that joins has nothing yet.
LEMMA Joins ==
    ASSUME NEW S, NEW T, NEW q, NEW q2, NEW w, NEW w2, NEW p, NEW ev, Its(S, q, w, p),
           T.peers = S.peers, T.inbox[p] = S.inbox[p], w[p].phase = "join", w2[p].phase = "serve",
           w2[p].job.index = None, Sent(q, q2, ev), ev.type = "Joined", ev.peer = p
    PROVE  Its(T, q2, w2, p)
<1>1. p \notin DOMAIN S.peers /\ NoOrder(S.inbox[p]) /\ \A k \in 1 .. Len(q) : q[k].peer # p
  BY DEF Its, Early
<1>2. \A k \in 1 .. Len(q2) : q2[k].peer = p => k = Len(q2) /\ q2[k] = ev
  BY <1>1 DEF Sent
<1>3. NoBack(q2, p)
  BY <1>2 DEF NoBack, IsBack
<1>4. Nowhere(w2[p].job.index, T.inbox[p], q2, p)
  BY <1>1, <1>3 DEF Nowhere
<1>5. QED
  BY <1>1, <1>2, <1>4 DEF Its, Placed, Early, Joining

-----------------------------------------------------------------------------
(* The workers' actions. *)

\* The engine's state, field by field.
LEMMA EngineFields ==
    /\ Engine.peers = sw.peers /\ Engine.assigned = sw.assigned /\ Engine.avail = sw.avail
    /\ Engine.have = sw.have /\ Engine.inbox = inbox
    /\ Engine.gone = {p \in Peers : work[p].phase = "gone"}
BY DEF Engine

\* What holds of each worker while the engine loops.
LEMMA AfloatFacts ==
    ASSUME Afloat
    PROVE  /\ work \in WorkTable /\ owed \in OwedTable /\ inbox \in Inboxes
           /\ \A p \in Peers : /\ work[p] \in WorkRec /\ inbox[p] \in Seq(Commands)
                               /\ JobOK(work[p], owed[p]) /\ Its(Engine, rx, work, p)
<1>1. work \in WorkTable /\ owed \in OwedTable /\ Engine \in EngineRec
  BY DEF Afloat, WorkersOK, Books
<1>2. inbox \in Inboxes
  BY <1>1, EngineFields DEF EngineRec
<1>3. ASSUME NEW p \in Peers
      PROVE  /\ work[p] \in WorkRec /\ inbox[p] \in Seq(Commands)
             /\ JobOK(work[p], owed[p]) /\ Its(Engine, rx, work, p)
  BY <1>1, <1>2 DEF WorkTable, Inboxes, Afloat, WorkersOK, Books, Its
<1>4. QED
  BY <1>1, <1>2, <1>3

\* What a worker that goes on, or leaves, may tell the engine.
Reports(q, q2, p, phase) ==
    \/ q2 = q /\ phase \in {"join", "serve"}
    \/ \E ev \in EventSet : /\ ev.peer = p /\ q2 = Append(q, ev)
                            /\ \/ ev.type # "Gone" /\ phase \in {"join", "serve"}
                               \/ ev.type = "Gone" /\ phase = "gone"

\* One worker's step keeps everything if it is right about its own peer.
LEMMA WorkerStep ==
    ASSUME Afloat, NEW p \in Peers, WorkerUnchanged, work[p].phase \in {"join", "serve"},
           NEW v \in WorkRec, Set(work, work', p, v), NEW x, JobOK(v, x), Set(owed, owed', p, x),
           NEW box \in Seq(Commands), Set(inbox, inbox', p, box), Reports(rx, rx', p, v.phase),
           Its(Engine', rx', work', p)
    PROVE  Afloat'
<1>1. WorkersOK(work, owed) /\ rx \in Seq(EventSet) /\ Books(Engine, rx, work) /\ Counted(run, rx, work)
  BY DEF Afloat
<1>2. WorkersOK(work', owed') /\ work'[p] = v /\ \A u \in Peers \ {p} : work'[u] = work[u]
  BY <1>1, OneWorker
<1>3. inbox' \in Inboxes /\ \A u \in Peers \ {p} : inbox'[u] = inbox[u]
  BY AfloatFacts DEF Inboxes, Set
<1>4. /\ Engine'.peers = Engine.peers /\ Engine'.assigned = Engine.assigned /\ Engine'.avail = Engine.avail
      /\ Engine'.have = Engine.have /\ Engine'.inbox = inbox' /\ Engine.inbox = inbox
      /\ Engine'.gone = {u \in Peers : work'[u].phase = "gone"}
  BY DEF Engine, WorkerUnchanged
<1>5. Engine' \in EngineRec
  <2>1. Engine \in EngineRec
    BY <1>1 DEF Books
  <2>2. /\ Engine.peers \in PeerTables /\ Engine.assigned \in SUBSET Pieces /\ Engine.avail \in Counters
        /\ Engine.have \in SUBSET Pieces
    BY <2>1 DEF EngineRec
  <2>3. /\ sw'.peers \in PeerTables /\ sw'.assigned \in SUBSET Pieces /\ sw'.avail \in Counters
        /\ sw'.have \in SUBSET Pieces
    BY <2>2, EngineFields DEF WorkerUnchanged
  <2> DEFINE g == {u \in Peers : work'[u].phase = "gone"}
  <2>4. g \in SUBSET Peers
    OBVIOUS
  <2>5. Engine' = [peers |-> sw'.peers, assigned |-> sw'.assigned, avail |-> sw'.avail, have |-> sw'.have,
                   inbox |-> inbox', gone |-> g]
    BY DEF Engine
  <2> HIDE DEF g
  <2>6. QED
    BY <1>3, <2>3, <2>4, <2>5 DEF EngineRec
<1>6. CASE rx' = rx /\ v.phase \in {"join", "serve"}
  <2>1. Quiet(rx, rx', p)
    BY <1>6 DEF Quiet
  <2>2. Books(Engine', rx', work')
    BY <1>1, <1>2, <1>3, <1>4, <1>5, <2>1, WorkerBooks DEF Its
  <2>3. Counted(run, rx', work')
    BY <1>1, <1>2, <1>6, SameCount
  <2>4. QED
    BY <1>1, <1>2, <1>6, <2>2, <2>3 DEF Afloat, WorkerUnchanged
<1>7. CASE \E ev \in EventSet : /\ ev.peer = p /\ rx' = Append(rx, ev)
                                /\ \/ ev.type # "Gone" /\ v.phase \in {"join", "serve"}
                                   \/ ev.type = "Gone" /\ v.phase = "gone"
  <2>1. PICK ev \in EventSet : /\ ev.peer = p /\ rx' = Append(rx, ev)
                               /\ \/ ev.type # "Gone" /\ v.phase \in {"join", "serve"}
                                  \/ ev.type = "Gone" /\ v.phase = "gone"
    BY <1>7
  <2>2. Sent(rx, rx', ev) /\ rx' \in Seq(EventSet)
    BY <1>1, <2>1, SentFacts
  <2>3. Quiet(rx, rx', p)
    BY <2>1, <2>2 DEF Quiet
  <2>4. Books(Engine', rx', work')
    BY <1>1, <1>2, <1>3, <1>4, <1>5, <2>3, WorkerBooks DEF Its
  <2>5. Counted(run, rx', work')
    <3>1. CASE ev.type # "Gone" /\ v.phase \in {"join", "serve"}
      BY <1>1, <1>2, <2>2, <3>1, SameCount
    <3>2. CASE ev.type = "Gone" /\ v.phase = "gone"
      BY <1>1, <1>2, <2>1, <2>2, <3>2, LeaveCount
    <3>3. QED
      BY <2>1, <3>1, <3>2
  <2>6. QED
    BY <1>2, <2>2, <2>4, <2>5 DEF Afloat, WorkerUnchanged
<1>8. QED
  BY <1>6, <1>7 DEF Reports

\* Every way out of run_peer: JoinFails, TakeStop, WireErr and a stalled Deadline.
LEMMA ExitStep ==
    ASSUME Afloat, NEW p \in Peers, work[p].phase \in {"join", "serve"}, Exit(p)
    PROVE  Afloat'
<1> DEFINE v == [NewWorker EXCEPT !.phase = "gone"]
           ev == [type |-> "Gone", peer |-> p]
<1>1. v \in WorkRec /\ v.phase = "gone" /\ v.job = NoJob
  BY NoJobFacts DEF NewWorker, WorkRec
<1>2. JobOK(v, {})
  BY <1>1, IdleOK
<1>3. ev \in EventSet /\ ev.peer = p /\ ev.type = "Gone"
  BY DEF EventSet
<1> HIDE DEF v, ev
<1>4. /\ work' = [work EXCEPT ![p] = v] /\ inbox' = [inbox EXCEPT ![p] = <<>>]
      /\ owed' = [owed EXCEPT ![p] = {}] /\ rx' = Append(rx, ev) /\ WorkerUnchanged
  BY DEF Exit, Send, v, ev
<1>5. Sent(rx, rx', ev) /\ work \in WorkTable /\ Its(Engine, rx, work, p)
  BY <1>3, <1>4, SentFacts, AfloatFacts DEF Afloat
<1>6. work'[p] = v
  BY <1>4, <1>5 DEF WorkTable
<1>7. Its(Engine', rx', work', p)
  <2>1. Engine'.peers = Engine.peers
    BY <1>4 DEF Engine, WorkerUnchanged
  <2>2. QED
    BY <1>1, <1>3, <1>5, <1>6, <2>1, Leaves
<1>8. << >> \in Seq(Commands)
  OBVIOUS
<1>9. Set(work, work', p, v) /\ Set(inbox, inbox', p, <<>>) /\ Set(owed, owed', p, {}) /\ Reports(rx, rx', p, v.phase)
  BY <1>1, <1>3, <1>4 DEF Set, Reports
<1>10. QED
  BY <1>1, <1>2, <1>4, <1>7, <1>8, <1>9, WorkerStep

\* The tables that a worker leaves alone, written as the update they are.
LEMMA SameTables ==
    ASSUME Afloat, NEW p \in Peers
    PROVE  /\ Set(inbox, inbox, p, inbox[p]) /\ Set(owed, owed, p, owed[p])
           /\ inbox[p] \in Seq(Commands) /\ work \in [Peers -> WorkRec]
BY AfloatFacts DEF Inboxes, OwedTable, WorkTable, Set

\* Join keeps engine and workers in agreement.
LEMMA JoinStep ==
    ASSUME Afloat, NEW p \in Peers, Join(p)
    PROVE  Afloat'
<1>1. PICK bf \in SUBSET Pieces : /\ work' = [work EXCEPT ![p].phase = "serve", ![p].bf = bf]
                                  /\ Send([type |-> "Joined", peer |-> p, bf |-> bf])
  BY DEF Join
<1> DEFINE v == [work[p] EXCEPT !.phase = "serve", !.bf = bf]
           ev == [type |-> "Joined", peer |-> p, bf |-> bf]
<1>2. /\ WorkerUnchanged /\ inbox' = inbox /\ owed' = owed /\ work[p].phase = "join"
  BY DEF Join, Running
<1>3. /\ work[p] \in WorkRec /\ JobOK(work[p], owed[p]) /\ Its(Engine, rx, work, p)
      /\ work \in [Peers -> WorkRec]
  BY AfloatFacts, SameTables
<1>4. work' = [work EXCEPT ![p] = v]
  BY <1>1, <1>3 DEF WorkRec
<1>5. v \in WorkRec /\ v.phase = "serve" /\ v.job = work[p].job /\ v.choked = work[p].choked
  BY <1>3 DEF WorkRec
<1>6. v.job.index = None
  BY <1>2, <1>3, <1>5 DEF JobOK
<1>7. JobOK(v, owed[p])
  BY <1>3, <1>5, <1>6 DEF JobOK
<1>8. ev \in EventSet /\ ev.peer = p /\ ev.type = "Joined"
  BY DEF EventSet
<1>9. rx' = Append(rx, ev)
  BY <1>1 DEF Send
<1> HIDE DEF v, ev
<1>10. Sent(rx, rx', ev) /\ work'[p] = v
  BY <1>3, <1>4, <1>8, <1>9, SentFacts DEF Afloat
<1>11. Engine'.peers = Engine.peers /\ Engine'.inbox = Engine.inbox
  BY <1>2 DEF Engine, WorkerUnchanged
<1>12. Its(Engine', rx', work', p)
  BY <1>2, <1>3, <1>5, <1>6, <1>8, <1>10, <1>11, Joins
<1>13. Set(work, work', p, v) /\ Set(inbox, inbox', p, inbox[p]) /\ Set(owed, owed', p, owed[p])
  BY <1>2, <1>4, SameTables DEF Set
<1>14. Reports(rx, rx', p, v.phase)
  BY <1>5, <1>8, <1>9 DEF Reports
<1>15. QED
  BY <1>2, <1>5, <1>7, <1>12, <1>13, <1>14, SameTables, WorkerStep

\* TakeAssign keeps engine and workers in agreement.
LEMMA TakeAssignStep ==
    ASSUME Afloat, NEW p \in Peers, TakeAssign(p)
    PROVE  Afloat'
<1> DEFINE box == inbox[p]
           i == Head(box)
           j == Taken(work[p], i)
           v == [work[p] EXCEPT !.job = j]
           x == owed[p] \cup Owes(j.index, j.requested \ New(i).requested)
<1>1. /\ WorkerUnchanged /\ rx' = rx /\ work[p].phase = "serve" /\ box # << >> /\ i # Stop
      /\ inbox' = [inbox EXCEPT ![p] = Tail(box)]
      /\ work' = [work EXCEPT ![p].job = j] /\ Ask(p, New(i), j)
  BY DEF TakeAssign, Running, Taken, New
<1>2. /\ work[p] \in WorkRec /\ JobOK(work[p], owed[p]) /\ Its(Engine, rx, work, p)
      /\ work \in [Peers -> WorkRec] /\ inbox \in Inboxes /\ box \in Seq(Commands)
  BY AfloatFacts, SameTables
<1> HIDE DEF j
<1>3. Set(work, work', p, v) /\ SetJob(work[p], v, j)
  BY <1>1, <1>2 DEF WorkRec, Set, SetJob
<1>4. Set(owed, owed', p, x)
  BY <1>1 DEF Ask, Owes, Set
<1>5. Took(Engine, Engine', p, i)
  <2>1. Engine.inbox = inbox /\ Engine'.inbox = inbox' /\ Engine'.peers = Engine.peers
    BY <1>1 DEF Engine, WorkerUnchanged
  <2>2. inbox'[p] = Tail(box)
    BY <1>1, <1>2 DEF Inboxes
  <2>3. QED
    BY <1>1, <1>2, <2>1, <2>2 DEF Took
<1>6. Set(inbox, inbox', p, Tail(box)) /\ Tail(box) \in Seq(Commands)
  BY <1>1, <1>2 DEF Set
<1>7. v.phase = "serve" /\ work'[p] = v
  BY <1>1, <1>2 DEF WorkRec
<1> HIDE DEF i, v, x, box
<1>8. work[p].phase = "serve" /\ work'[p].phase = "serve" /\ Its(Engine, rx, work, p)
  BY <1>1, <1>2, <1>7
<1>9. work[p].job.index = None /\ i \in Pieces
  BY <1>5, <1>8, TakesOrder
<1>10. v \in WorkRec /\ v.job.index = i /\ JobOK(v, x)
  BY <1>1, <1>2, <1>3, <1>9, TakeOK DEF j, x
<1>11. Its(Engine', rx, work', p)
  BY <1>1, <1>2, <1>5, <1>7, <1>10, TakesOrder
<1>12. Its(Engine', rx', work', p) /\ Reports(rx, rx', p, v.phase)
  BY <1>1, <1>7, <1>11 DEF Reports
<1>13. QED
  BY <1>1, <1>3, <1>4, <1>6, <1>10, <1>12, WorkerStep

\* A step of a serving worker that keeps its piece and tells the engine nothing about it.
LEMMA ServeStep ==
    ASSUME Afloat, NEW p \in Peers, WorkerUnchanged, inbox' = inbox, work[p].phase = "serve",
           NEW v \in WorkRec, Set(work, work', p, v), v.phase = "serve", v.job.index = work[p].job.index,
           NEW x, JobOK(v, x), Set(owed, owed', p, x),
           rx' = rx \/ \E ev \in EventSet : /\ ev.peer = p /\ rx' = Append(rx, ev)
                                            /\ ev.type \notin {"Gone", "Joined", "PieceDone", "Released"}
    PROVE  Afloat'
<1>1. Its(Engine, rx, work, p) /\ work'[p] = v /\ rx \in Seq(EventSet)
  BY AfloatFacts DEF WorkTable, Set, Afloat
<1>2. Engine'.peers = Engine.peers /\ Engine'.inbox[p] = Engine.inbox[p]
  BY DEF Engine, WorkerUnchanged
<1>3. Reports(rx, rx', p, v.phase)
  BY DEF Reports
<1>4. rx' = rx \/ \E ev : ev.type \notin {"Joined", "PieceDone", "Released"} /\ Sent(rx, rx', ev)
  BY <1>1, SentFacts
<1>5. Its(Engine', rx', work', p)
  BY <1>1, <1>2, <1>4, StaysPut
<1>6. Set(inbox, inbox', p, inbox[p]) /\ inbox[p] \in Seq(Commands)
  BY SameTables
<1>7. QED
  BY <1>3, <1>5, <1>6, WorkerStep

\* A step of a serving worker that hands its piece back.
LEMMA BackStep ==
    ASSUME Afloat, NEW p \in Peers, WorkerUnchanged, inbox' = inbox, work[p].phase = "serve",
           NEW v \in WorkRec, Set(work, work', p, v), v.phase = "serve", v.job.index = None,
           work[p].job.index # None, NEW x, JobOK(v, x), Set(owed, owed', p, x),
           NEW ev \in EventSet, rx' = Append(rx, ev), IsBack(ev, p), ev.index = work[p].job.index
    PROVE  Afloat'
<1>1. Its(Engine, rx, work, p) /\ work'[p] = v /\ rx \in Seq(EventSet)
  BY AfloatFacts DEF WorkTable, Set, Afloat
<1>2. Engine'.peers = Engine.peers /\ Engine'.inbox[p] = Engine.inbox[p]
  BY DEF Engine, WorkerUnchanged
<1>3. Reports(rx, rx', p, v.phase)
  BY DEF Reports, IsBack
<1>4. Sent(rx, rx', ev)
  BY <1>1, SentFacts
<1>5. Its(Engine', rx', work', p)
  BY <1>1, <1>2, <1>4, HandsBack
<1>6. Set(inbox, inbox', p, inbox[p]) /\ inbox[p] \in Seq(Commands)
  BY SameTables
<1>7. QED
  BY <1>3, <1>5, <1>6, WorkerStep

\* WireChoke keeps engine and workers in agreement.
LEMMA WireChokeStep ==
    ASSUME Afloat, NEW p \in Peers, WireChoke(p)
    PROVE  Afloat'
<1> DEFINE v == [work[p] EXCEPT !.choked = TRUE, !.job = on_choke(work[p].job)]
           ev == [type |-> "Choked", peer |-> p]
<1>1. /\ WorkerUnchanged /\ inbox' = inbox /\ work[p].phase = "serve"
      /\ work' = [work EXCEPT ![p].choked = TRUE, ![p].job = on_choke(@)]
      /\ owed' = [owed EXCEPT ![p] = {}] /\ rx' = Append(rx, ev)
  BY DEF WireChoke, Running, Send
<1>2. work[p] \in WorkRec /\ JobOK(work[p], owed[p]) /\ work \in [Peers -> WorkRec]
  BY AfloatFacts, SameTables
<1>3. Set(work, work', p, v) /\ Set(owed, owed', p, {})
  BY <1>1, <1>2 DEF WorkRec, Set
<1>4. v \in WorkRec /\ v.phase = "serve" /\ v.job.index = work[p].job.index /\ JobOK(v, {})
  BY <1>1, <1>2, ChokeOK
<1>5. ev \in EventSet /\ ev.peer = p /\ ev.type = "Choked"
  BY DEF EventSet
<1>6. WorkerUnchanged /\ inbox' = inbox /\ work[p].phase = "serve" /\ rx' = Append(rx, ev)
  BY <1>1
<1> HIDE DEF v, ev
<1>7. QED
  BY <1>3, <1>4, <1>5, <1>6, ServeStep

\* WireUnchoke keeps engine and workers in agreement.
LEMMA WireUnchokeStep ==
    ASSUME Afloat, NEW p \in Peers, WireUnchoke(p)
    PROVE  Afloat'
<1> DEFINE old == work[p].job
           j == Resumed(work[p])
           v == Freed(work[p])
           x == owed[p] \cup Owes(j.index, j.requested \ old.requested)
           ev == [type |-> "Unchoked", peer |-> p]
<1>1. /\ WorkerUnchanged /\ inbox' = inbox /\ work[p].phase = "serve" /\ work[p].choked
      /\ work' = [work EXCEPT ![p].choked = FALSE, ![p].job = j]
      /\ Ask(p, old, j) /\ rx' = Append(rx, ev)
  BY DEF WireUnchoke, Running, Send, Resumed
<1>2. work[p] \in WorkRec /\ JobOK(work[p], owed[p]) /\ work \in [Peers -> WorkRec]
  BY AfloatFacts, SameTables
<1>3. v \in WorkRec /\ v.phase = "serve" /\ v.job.index = old.index /\ JobOK(v, x)
  BY <1>1, <1>2, UnchokeOK
<1>4. ev \in EventSet /\ ev.peer = p /\ ev.type = "Unchoked"
  BY DEF EventSet
<1> HIDE DEF j
<1>5. Set(work, work', p, v) /\ Set(owed, owed', p, x)
  BY <1>1, <1>2 DEF WorkRec, Set, Ask, Owes, Freed, j
<1>6. WorkerUnchanged /\ inbox' = inbox /\ work[p].phase = "serve" /\ rx' = Append(rx, ev)
  BY <1>1
<1> HIDE DEF v, ev, x
<1>7. QED
  BY <1>3, <1>4, <1>5, <1>6, ServeStep

\* WireHave keeps engine and workers in agreement.
LEMMA WireHaveStep ==
    ASSUME Afloat, NEW p \in Peers, WireHave(p)
    PROVE  Afloat'
<1>1. PICK i \in Pieces \ work[p].bf : /\ work' = [work EXCEPT ![p].bf = @ \cup {i}]
                                       /\ Send([type |-> "Have", peer |-> p, index |-> i])
  BY DEF WireHave
<1> DEFINE bf == work[p].bf \cup {i}
           v == [work[p] EXCEPT !.bf = bf]
           ev == [type |-> "Have", peer |-> p, index |-> i]
<1>2. WorkerUnchanged /\ inbox' = inbox /\ owed' = owed /\ work[p].phase = "serve" /\ rx' = Append(rx, ev)
  BY <1>1 DEF WireHave, Running, Send
<1>3. work[p] \in WorkRec /\ JobOK(work[p], owed[p]) /\ work \in [Peers -> WorkRec]
  BY AfloatFacts, SameTables
<1>4. bf \in SUBSET Pieces
  BY <1>3 DEF WorkRec
<1>5. Set(work, work', p, v)
  BY <1>1, <1>3 DEF WorkRec, Set
<1>6. ev \in EventSet /\ ev.peer = p /\ ev.type = "Have"
  BY DEF EventSet
<1> HIDE DEF bf, ev
<1>7. v \in WorkRec /\ v.phase = work[p].phase /\ v.job = work[p].job /\ v.choked = work[p].choked
  BY <1>3, <1>4 DEF WorkRec
<1> HIDE DEF v
<1>8. JobOK(v, owed[p])
  BY <1>3, <1>7 DEF JobOK
<1>9. Set(owed, owed', p, owed[p])
  BY <1>2, SameTables
<1>10. QED
  BY <1>2, <1>5, <1>6, <1>7, <1>8, <1>9, ServeStep

\* WireBlock keeps engine and workers in agreement, the piece complete or not.
LEMMA WireBlockStep ==
    ASSUME Afloat, NEW p \in Peers, WireBlock(p)
    PROVE  Afloat'
<1> DEFINE old == work[p].job
           got(b) == on_block(old, b)
           j(b) == Filled(work[p], b)
           v(b) == [work[p] EXCEPT !.job = j(b)]
           x(b) == (owed[p] \ {<<old.index, b>>}) \cup Owes(old.index, j(b).requested \ old.requested)
           ev(ok) == [type |-> "PieceDone", peer |-> p, index |-> old.index, ok |-> ok]
<1>1. PICK b \in Blocks \ old.filled, ok \in BOOLEAN :
        /\ work' = [work EXCEPT ![p].job = j(b)]
        /\ owed' = [owed EXCEPT ![p] = (@ \ {<<old.index, b>>}) \cup
                                       {<<old.index, c>> : c \in j(b).requested \ old.requested}]
        /\ IF got(b).filled = Blocks THEN Send(ev(ok)) ELSE UNCHANGED rx
  BY DEF WireBlock, Filled
<1>2. WorkerUnchanged /\ inbox' = inbox /\ work[p].phase = "serve" /\ old.index # None
  BY DEF WireBlock, Running
<1>3. work[p] \in WorkRec /\ JobOK(work[p], owed[p]) /\ work \in [Peers -> WorkRec]
  BY AfloatFacts, SameTables
<1>4. /\ v(b) \in WorkRec /\ v(b).phase = "serve" /\ JobOK(v(b), x(b))
      /\ got(b).filled # Blocks => v(b).job.index = old.index
      /\ got(b).filled = Blocks => v(b).job.index = None
  <2>1. SetJob(work[p], v(b), Filled(work[p], b))
    BY DEF SetJob
  <2>2. work[p].phase = "serve" /\ work[p].job.index # None /\ b \in Blocks \ work[p].job.filled
    BY <1>2
  <2>3. work[p] \in WorkRec /\ JobOK(work[p], owed[p])
    BY <1>3
  <2> HIDE DEF v
  <2>4. /\ v(b) \in WorkRec /\ v(b).phase = "serve"
        /\ on_block(work[p].job, b).filled # Blocks => v(b).job.index = work[p].job.index
        /\ on_block(work[p].job, b).filled = Blocks => v(b).job.index = None
        /\ JobOK(v(b), (owed[p] \ {<<work[p].job.index, b>>}) \cup
                        Owes(work[p].job.index, Filled(work[p], b).requested \ work[p].job.requested))
    BY <2>1, <2>2, <2>3, BlockOK
  <2>5. QED
    BY <2>4
<1>5. old.index \in Pieces
  BY <1>2, <1>3 DEF WorkRec, JobRec, PieceOrNone
<1>6. ev(ok) \in EventSet /\ IsBack(ev(ok), p) /\ ev(ok).index = old.index
  BY <1>5 DEF EventSet, IsBack
<1> HIDE DEF j
<1>7. Set(work, work', p, v(b)) /\ Set(owed, owed', p, x(b))
  BY <1>1, <1>3 DEF WorkRec, Set, Owes
<1>8. IF got(b).filled = Blocks THEN rx' = Append(rx, ev(ok)) ELSE rx' = rx
  BY <1>1 DEF Send
<1> HIDE DEF v, x, ev, got
<1>9. CASE got(b).filled = Blocks
  BY <1>2, <1>4, <1>6, <1>7, <1>8, <1>9, BackStep
<1>10. CASE got(b).filled # Blocks
  BY <1>2, <1>4, <1>7, <1>8, <1>10, ServeStep
<1>11. QED
  BY <1>9, <1>10

\* Deadline keeps engine and workers in agreement, the worker choked or stalled.
LEMMA DeadlineStep ==
    ASSUME Afloat, NEW p \in Peers, Deadline(p)
    PROVE  Afloat'
<1>1. work[p].phase = "serve" /\ work[p].job.index # None
  BY DEF Deadline, Running
<1>2. CASE ~work[p].choked
  BY <1>1, <1>2, ExitStep DEF Deadline
<1>3. CASE work[p].choked
  <2> DEFINE v == [work[p] EXCEPT !.job = NoJob]
             ev == [type |-> "Released", peer |-> p, index |-> work[p].job.index]
  <2>1. /\ WorkerUnchanged /\ inbox' = inbox /\ owed' = owed /\ rx' = Append(rx, ev)
        /\ work' = [work EXCEPT ![p].job = NoJob]
    BY <1>3 DEF Deadline, Send
  <2>2. work[p] \in WorkRec /\ JobOK(work[p], owed[p]) /\ work \in [Peers -> WorkRec]
    BY AfloatFacts, SameTables
  <2>3. owed[p] = {}
    BY <1>3, <2>2, IdleFacts
  <2>4. v \in WorkRec /\ v.phase = "serve" /\ v.job = NoJob
    BY <1>1, <2>2, NoJobFacts DEF WorkRec
  <2>5. JobOK(v, owed[p]) /\ v.job.index = None
    BY <2>3, <2>4, IdleOK, NoJobFacts
  <2>6. work[p].job.index \in Pieces
    BY <1>1, <2>2 DEF WorkRec, JobRec, PieceOrNone
  <2>7. ev \in EventSet /\ IsBack(ev, p) /\ ev.index = work[p].job.index
    BY <2>6 DEF EventSet, IsBack
  <2>8. Set(work, work', p, v)
    BY <2>1, <2>2 DEF WorkRec, Set
  <2>9. Set(owed, owed', p, owed[p]) /\ WorkerUnchanged /\ inbox' = inbox /\ rx' = Append(rx, ev)
    BY <2>1, SameTables
  <2> HIDE DEF v, ev
  <2>10. QED
    BY <1>1, <2>4, <2>5, <2>7, <2>8, <2>9, BackStep
<1>4. QED
  BY <1>2, <1>3

\* No step of a worker breaks the agreement or touches the engine's own state.
LEMMA WorkerNextStep ==
    ASSUME Afloat, NEW p \in Peers, Worker_Next(p)
    PROVE  Afloat' /\ WorkerUnchanged
<1>1. CASE Join(p)
  BY <1>1, JoinStep DEF Join
<1>2. CASE JoinFails(p)
  BY <1>2, ExitStep DEF JoinFails, Running, Exit
<1>3. CASE TakeAssign(p)
  BY <1>3, TakeAssignStep DEF TakeAssign
<1>4. CASE TakeStop(p)
  BY <1>4, ExitStep DEF TakeStop, Running, Exit
<1>5. CASE WireErr(p)
  BY <1>5, ExitStep DEF WireErr, Running, Exit
<1>6. CASE WireChoke(p)
  BY <1>6, WireChokeStep DEF WireChoke
<1>7. CASE WireUnchoke(p)
  BY <1>7, WireUnchokeStep DEF WireUnchoke
<1>8. CASE WireHave(p)
  BY <1>8, WireHaveStep DEF WireHave
<1>9. CASE WireBlock(p)
  BY <1>9, WireBlockStep DEF WireBlock
<1>10. CASE Deadline(p)
  BY <1>10, DeadlineStep DEF Deadline, Exit
<1>11. QED
  BY <1>1, <1>2, <1>3, <1>4, <1>5, <1>6, <1>7, <1>8, <1>9, <1>10 DEF Worker_Next

-----------------------------------------------------------------------------
(* Counting the workers. *)

\* The oldest event is not a Gone, or it is.
LEMMA RestCount ==
    ASSUME NEW r, NEW e, NEW q, NEW w, Counted(r, e, w), Rest(e, q), e[1].type # "Gone"
    PROVE  Counted(r, q, w)
<1>1. ASSUME NEW u
      PROVE  (\E k \in 1 .. Len(q) : q[k].peer = u /\ q[k].type = "Gone")
             <=> (\E k \in 1 .. Len(e) : e[k].peer = u /\ e[k].type = "Gone")
  BY DEF Rest
<1>2. Alive(q, w) = Alive(e, w)
  BY <1>1 DEF Alive
<1>3. ASSUME NEW u \in Peers PROVE Leaving(q, w, u)
  <2> SUFFICES ASSUME NEW k \in 1 .. Len(q), q[k].peer = u, q[k].type = "Gone"
               PROVE  w[u].phase = "gone" /\ \A l \in 1 .. Len(q) : q[l].peer = u /\ q[l].type = "Gone" => l = k
    BY DEF Leaving
  <2>1. Leaving(e, w, u) /\ k + 1 \in 1 .. Len(e) /\ e[k + 1] = q[k]
    BY DEF Counted, Rest
  <2>2. w[u].phase = "gone" /\ \A l \in 1 .. Len(e) : e[l].peer = u /\ e[l].type = "Gone" => l = k + 1
    BY <2>1 DEF Leaving
  <2>3. ASSUME NEW l \in 1 .. Len(q), q[l].peer = u, q[l].type = "Gone" PROVE l = k
    <3>1. l + 1 \in 1 .. Len(e) /\ e[l + 1] = q[l]
      BY DEF Rest
    <3>2. l + 1 = k + 1
      BY <2>2, <2>3, <3>1
    <3>3. QED
      BY <3>2
  <2>4. QED
    BY <2>2, <2>3
<1>4. QED
  BY <1>2, <1>3 DEF Counted

\* Gone takes one off `live`.
LEMMA GoneCount ==
    ASSUME NEW r \in RunRec, NEW e, NEW q, NEW w, Counted(r, e, w), Rest(e, q), e[1].type = "Gone", e[1].peer \in Peers
    PROVE  Counted([r EXCEPT !.live = @ - 1], q, w)
<1> DEFINE p == e[1].peer
           r2 == [r EXCEPT !.live = @ - 1]
<1>1. /\ r.live \in Nat /\ r.live = Cardinality(Alive(e, w)) /\ r.live <= MaxPeers
      /\ r.next \in 1 .. NumPeers + 1
      /\ \A u \in Peers : (w[u].phase = "new") <=> (u >= r.next)
      /\ \A u \in Peers : Leaving(e, w, u)
  BY DEF Counted
<1>2. 1 \in 1 .. Len(e)
  BY DEF Rest
<1>3. w[p].phase = "gone" /\ \A l \in 1 .. Len(e) : e[l].peer = p /\ e[l].type = "Gone" => l = 1
  BY <1>1, <1>2 DEF Leaving
<1>4. \A k \in 1 .. Len(q) : ~(q[k].peer = p /\ q[k].type = "Gone")
  <2>1. ASSUME NEW k \in 1 .. Len(q), q[k].peer = p, q[k].type = "Gone" PROVE FALSE
    <3>1. k + 1 \in 1 .. Len(e) /\ e[k + 1] = q[k]
      BY DEF Rest
    <3>2. k + 1 = 1
      BY <1>3, <2>1, <3>1
    <3>3. QED
      BY <3>2
  <2>2. QED
    BY <2>1
<1>5. ASSUME NEW u, u # p
      PROVE  (\E k \in 1 .. Len(q) : q[k].peer = u /\ q[k].type = "Gone")
             <=> (\E k \in 1 .. Len(e) : e[k].peer = u /\ e[k].type = "Gone")
  BY <1>5 DEF Rest
<1>6. Alive(q, w) = Alive(e, w) \ {p} /\ p \in Alive(e, w)
  BY <1>2, <1>3, <1>4, <1>5 DEF Alive
<1>7. IsFiniteSet(Alive(e, w))
  <2>1. Alive(e, w) \in SUBSET Peers
    BY DEF Alive
  <2>2. QED
    BY <2>1, PieceFacts, FS_Subset
<1>8. Cardinality(Alive(q, w)) = r.live - 1 /\ r.live - 1 \in Nat
  <2> DEFINE A == Alive(e, w)
  <2>0. IsFiniteSet(A) /\ p \in A
    BY <1>6, <1>7
  <2>1. Cardinality(Alive(e, w) \ {p}) = Cardinality(Alive(e, w)) - 1
    <3> HIDE DEF A, p
    <3>1. Cardinality(A \ {p}) = Cardinality(A) - 1
      BY <2>0, FS_RemoveElement
    <3>2. QED
      BY <3>1 DEF A
  <2>2. Cardinality(Alive(e, w)) # 0
    BY <1>6, <1>7, FS_EmptySet
  <2>3. QED
    BY <1>1, <1>6, <2>1, <2>2
<1>9. r2.live = r.live - 1 /\ r2.next = r.next
  BY DEF RunRec
<1>10. ASSUME NEW u \in Peers PROVE Leaving(q, w, u)
  <2> SUFFICES ASSUME NEW k \in 1 .. Len(q), q[k].peer = u, q[k].type = "Gone"
               PROVE  w[u].phase = "gone" /\ \A l \in 1 .. Len(q) : q[l].peer = u /\ q[l].type = "Gone" => l = k
    BY DEF Leaving
  <2>1. Leaving(e, w, u) /\ k + 1 \in 1 .. Len(e) /\ e[k + 1] = q[k]
    BY <1>1 DEF Rest
  <2>2. w[u].phase = "gone" /\ \A l \in 1 .. Len(e) : e[l].peer = u /\ e[l].type = "Gone" => l = k + 1
    BY <2>1 DEF Leaving
  <2>3. ASSUME NEW l \in 1 .. Len(q), q[l].peer = u, q[l].type = "Gone" PROVE l = k
    <3>1. l + 1 \in 1 .. Len(e) /\ e[l + 1] = q[l]
      BY DEF Rest
    <3>2. l + 1 = k + 1
      BY <2>2, <2>3, <3>1
    <3>3. QED
      BY <3>2
  <2>4. QED
    BY <2>2, <2>3
<1> HIDE DEF r2
<1>11. r2.live <= MaxPeers
  BY <1>1, <1>9, Sizes
<1>12. Counted(r2, q, w)
  BY <1>1, <1>8, <1>9, <1>10, <1>11 DEF Counted
<1>13. QED
  BY <1>12 DEF r2

\* The workers spawn_more starts.
Started(w, r) == [p \in Peers |-> IF w[p].phase = "new" /\ p < r.next THEN [w[p] EXCEPT !.phase = "join"] ELSE w[p]]

\* Starting a worker changes its phase only.
LEMMA StartedFacts ==
    ASSUME NEW w \in WorkTable, NEW r
    PROVE  /\ Started(w, r) \in WorkTable
           /\ \A p \in Peers : /\ w[p].phase = "new" /\ p < r.next =>
                                    /\ Started(w, r)[p].phase = "join" /\ Started(w, r)[p].job = w[p].job
                                    /\ Started(w, r)[p].choked = w[p].choked
                               /\ ~(w[p].phase = "new" /\ p < r.next) => Started(w, r)[p] = w[p]
<1> DEFINE v(p) == [w[p] EXCEPT !.phase = "join"]
<1>1. \A p \in Peers : Started(w, r)[p] = IF w[p].phase = "new" /\ p < r.next THEN v(p) ELSE w[p]
  BY DEF Started
<1>2. ASSUME NEW p \in Peers
      PROVE  w[p] \in WorkRec /\ v(p) \in WorkRec /\ v(p).phase = "join" /\ v(p).job = w[p].job /\ v(p).choked = w[p].choked
  BY DEF WorkTable, WorkRec
<1> HIDE DEF v
<1>3. ASSUME NEW p \in Peers PROVE (IF w[p].phase = "new" /\ p < r.next THEN v(p) ELSE w[p]) \in WorkRec
  BY <1>2
<1>4. Started(w, r) = [p \in Peers |-> IF w[p].phase = "new" /\ p < r.next THEN v(p) ELSE w[p]]
  BY DEF Started, v
<1>5. Started(w, r) \in WorkTable
  BY <1>3, <1>4 DEF WorkTable
<1>6. QED
  BY <1>1, <1>2, <1>5

\* A worker that starts has no job and is owed nothing.
LEMMA StartedWorkers ==
    ASSUME NEW w, NEW o, WorkersOK(w, o), NEW r
    PROVE  WorkersOK(Started(w, r), o)
<1>1. w \in WorkTable
  BY DEF WorkersOK
<1>2. ASSUME NEW p \in Peers PROVE JobOK(Started(w, r)[p], o[p])
  <2>1. JobOK(w[p], o[p])
    BY DEF WorkersOK
  <2>2. CASE w[p].phase = "new" /\ p < r.next
    <3>1. Started(w, r)[p].phase = "join" /\ Started(w, r)[p].job = w[p].job /\ Started(w, r)[p].choked = w[p].choked
      BY <1>1, <2>2, StartedFacts
    <3>2. QED
      BY <2>1, <2>2, <3>1 DEF JobOK
  <2>3. CASE ~(w[p].phase = "new" /\ p < r.next)
    BY <1>1, <2>1, <2>3, StartedFacts
  <2>4. QED
    BY <2>2, <2>3
<1>3. QED
  BY <1>1, <1>2, StartedFacts DEF WorkersOK

\* Starting workers does not touch the books.
LEMMA StartedBooks ==
    ASSUME NEW S, NEW q, NEW w \in WorkTable, NEW r, Books(S, q, w)
    PROVE  Books(S, q, Started(w, r))
<1> DEFINE w2 == Started(w, r)
<1>1. ASSUME NEW p \in Peers
      PROVE  \/ w2[p] = w[p]
             \/ w[p].phase = "new" /\ w2[p].phase = "join"
  BY StartedFacts
<1> HIDE DEF w2
<1>2. \A p \in Peers : w2[p].phase = "gone" <=> w[p].phase = "gone"
  BY <1>1
<1>3. ASSUME NEW p \in Peers PROVE Placed(S, q, w2, p) /\ Early(S, q, w2, p) /\ Joining(S, q, w2, p)
  <2>1. Placed(S, q, w, p) /\ Early(S, q, w, p) /\ Joining(S, q, w, p)
    BY DEF Books
  <2>2. CASE w2[p] = w[p]
    BY <2>1, <2>2 DEF Placed, Early, Joining
  <2>3. CASE w[p].phase = "new" /\ w2[p].phase = "join"
    BY <2>1, <2>3 DEF Placed, Early, Joining
  <2>4. QED
    BY <1>1, <2>2, <2>3
<1>4. QED
  BY <1>2, <1>3 DEF Books, w2

\* The lesser of two integers.
LEMMA MinFacts ==
    ASSUME NEW a \in Int, NEW b \in Int
    PROVE  Min({a, b}) \in {a, b} /\ Min({a, b}) <= a /\ Min({a, b}) <= b
<1>1. \E x \in {a, b} : \A y \in {a, b} : x =< y
  BY SMT
<1>2. Min({a, b}) \in {a, b} /\ \A y \in {a, b} : Min({a, b}) =< y
  BY <1>1 DEF Min
<1>3. QED
  BY <1>2

\* spawn_more fills the peer slots, in the order of the addresses, and counts what it
\* starts.
LEMMA SpawnCount ==
    ASSUME NEW r \in RunRec, NEW q, NEW w \in WorkTable, NEW S, Books(S, q, w), Counted(r, q, w)
    PROVE  Counted(spawn_more(r), q, Started(w, spawn_more(r))) /\ spawn_more(r) \in RunRec
           /\ spawn_more(r).pc = r.pc
<1> DEFINE a == MaxPeers - r.live
           b == NumPeers + 1 - r.next
           k == Min({a, b})
           s == spawn_more(r)
           w2 == Started(w, s)
           new == r.next .. (r.next + k - 1)
<1>1. /\ r.live \in Nat /\ r.live = Cardinality(Alive(q, w)) /\ r.live <= MaxPeers
      /\ r.next \in 1 .. NumPeers + 1
      /\ \A u \in Peers : (w[u].phase = "new") <=> (u >= r.next)
      /\ \A u \in Peers : Leaving(q, w, u)
  BY DEF Counted
<1>2. a \in Nat /\ b \in Nat
  BY <1>1, Sizes
<1>3. k \in Nat /\ k <= a /\ k <= b
  <2> HIDE DEF a, b
  <2>1. a \in Int /\ b \in Int
    BY <1>2
  <2>2. QED
    BY <1>2, <2>1, MinFacts
<1>4. s = [r EXCEPT !.next = r.next + k, !.live = r.live + k]
  BY DEF spawn_more
<1> HIDE DEF k
<1>5. s.live = r.live + k /\ s.next = r.next + k /\ s \in RunRec /\ s.pc = r.pc
  <2>1. r.live + k \in Int /\ r.next + k \in Int
    BY <1>1, <1>3
  <2> HIDE DEF s
  <2>2. QED
    BY <1>4, <2>1 DEF RunRec
<1> HIDE DEF s
<1>6. s.live \in Nat /\ s.live <= MaxPeers /\ s.next \in 1 .. NumPeers + 1
  BY <1>1, <1>2, <1>3, <1>5, Sizes
<1>7. new \in SUBSET Peers /\ IsFiniteSet(new) /\ Cardinality(new) = k
  <2>1. new \in SUBSET Peers
    BY <1>1, <1>3, Sizes DEF Peers
  <2>2. r.next \in Int /\ r.next + k - 1 \in Int
    BY <1>1, <1>3
  <2>3. IsFiniteSet(new) /\ Cardinality(new) = k
    <3>1. PICK lo \in Int, hi \in Int : lo = r.next /\ hi = r.next + k - 1
      BY <2>2
    <3>2. IsFiniteSet(lo .. hi) /\ Cardinality(lo .. hi) = IF lo > hi THEN 0 ELSE hi - lo + 1
      BY FS_Interval
    <3>3. (IF lo > hi THEN 0 ELSE hi - lo + 1) = k
      BY <1>1, <1>3, <3>1
    <3>4. new = lo .. hi
      BY <3>1
    <3>5. QED
      BY <3>2, <3>3, <3>4
  <2>4. QED
    BY <2>1, <2>3
<1>8. \A u \in Peers : u \in new <=> (w[u].phase = "new" /\ u < s.next)
  BY <1>1, <1>3, <1>5 DEF Peers
<1>9. ASSUME NEW u \in Peers
      PROVE  (u \in new => w2[u].phase = "join") /\ (u \notin new => w2[u] = w[u])
  <2>1. u \in new <=> (w[u].phase = "new" /\ u < s.next)
    BY <1>8
  <2>2. /\ w[u].phase = "new" /\ u < s.next => w2[u].phase = "join"
        /\ ~(w[u].phase = "new" /\ u < s.next) => w2[u] = w[u]
    BY StartedFacts
  <2> HIDE DEF w2, new
  <2>3. QED
    BY <2>1, <2>2
<1> HIDE DEF new, w2
<1>10. Alive(q, w2) = Alive(q, w) \cup new
  BY <1>7, <1>9 DEF Alive
<1>11. Alive(q, w) \cap new = {}
  <2>1. ASSUME NEW u \in Peers, u \in new PROVE u \notin Alive(q, w)
    <3>1. w[u].phase = "new" /\ \A n \in 1 .. Len(q) : q[n].peer # u
      BY <1>8, <2>1 DEF Books, Early
    <3>2. QED
      BY <3>1 DEF Alive
  <2>2. QED
    BY <1>7, <2>1
<1>12. IsFiniteSet(Alive(q, w))
  <2>1. Alive(q, w) \in SUBSET Peers
    BY DEF Alive
  <2>2. QED
    BY <2>1, PieceFacts, FS_Subset
<1>13. s.live = Cardinality(Alive(q, w2))
  <2>1. Cardinality(Alive(q, w) \cup new) = Cardinality(Alive(q, w)) + Cardinality(new) - Cardinality(Alive(q, w) \cap new)
    BY <1>7, <1>12, FS_Union
  <2>2. Cardinality(Alive(q, w) \cap new) = 0
    BY <1>11, FS_EmptySet
  <2>3. QED
    BY <1>1, <1>3, <1>5, <1>7, <1>10, <2>1, <2>2
<1>14. ASSUME NEW u \in Peers PROVE (w2[u].phase = "new") <=> (u >= s.next)
  <2>1. CASE u \in new
    BY <1>1, <1>3, <1>5, <1>8, <1>9, <2>1 DEF Peers
  <2>2. CASE u \notin new
    BY <1>1, <1>3, <1>5, <1>8, <1>9, <2>2 DEF Peers
  <2>3. QED
    BY <2>1, <2>2
<1>15. ASSUME NEW u \in Peers PROVE Leaving(q, w2, u)
  BY <1>1, <1>8, <1>9 DEF Leaving
<1>16. Counted(s, q, w2)
  BY <1>6, <1>13, <1>14, <1>15 DEF Counted
<1>17. QED
  BY <1>5, <1>16 DEF s, w2

\* Nothing is started without a call of spawn_more.
LEMMA NoneStarted ==
    ASSUME NEW w \in WorkTable, NEW r \in RunRec, NEW q, Counted(r, q, w)
    PROVE  Started(w, r) = w
<1>1. ASSUME NEW p \in Peers PROVE ~(w[p].phase = "new" /\ p < r.next)
  BY DEF Counted, Peers, RunRec
<1>2. \A p \in Peers : Started(w, r)[p] = w[p]
  BY <1>1, StartedFacts
<1>3. Started(w, r) \in WorkTable
  BY StartedFacts
<1>4. QED
  BY <1>2, <1>3 DEF WorkTable

-----------------------------------------------------------------------------
(* The engine's actions. *)

\* An order of a set of peers is a sequence of peers.
LEMMA OrdersFacts ==
    ASSUME NEW T \in SUBSET Peers, NEW order \in Orders(T)
    PROVE  order \in Seq(Peers)
<1>1. IsFiniteSet(T)
  BY PieceFacts, FS_Subset
<1>2. Cardinality(T) \in Nat /\ order \in [1 .. Cardinality(T) -> T]
  BY <1>1, FS_CardinalityType DEF Orders
<1>3. order \in [1 .. Cardinality(T) -> Peers]
  BY <1>2
<1>4. QED
  BY <1>2, <1>3

\* The engine's state is what its two variables store.
LEMMA StoredBooks ==
    ASSUME NEW T, Books(T, rx', work'), sw' = Store(T), inbox' = T.inbox
    PROVE  Books(Engine', rx', work')
<1>1. T \in EngineRec /\ T.gone = {p \in Peers : work'[p].phase = "gone"}
  BY DEF Books
<1>2. T = [peers |-> T.peers, assigned |-> T.assigned, avail |-> T.avail, have |-> T.have,
           inbox |-> T.inbox, gone |-> T.gone]
  BY <1>1 DEF EngineRec
<1>3. /\ sw'.peers = T.peers /\ sw'.assigned = T.assigned /\ sw'.avail = T.avail /\ sw'.have = T.have
  BY DEF Store
<1>4. Engine' = [peers |-> sw'.peers, assigned |-> sw'.assigned, avail |-> sw'.avail, have |-> sw'.have,
                 inbox |-> inbox', gone |-> {p \in Peers : work'[p].phase = "gone"}]
  BY DEF Engine
<1>5. Engine' = T
  BY <1>1, <1>2, <1>3, <1>4
<1>6. QED
  BY <1>5

\* The loop's tail, whichever peers it evicts and in whatever order.
LEMMA TailStep ==
    ASSUME NEW S, NEW r \in RunRec, work' \in WorkTable, Books(S, rx', work'), LoopTail(S, r)
    PROVE  /\ Books(Engine', rx', work') /\ sw'.have = S.have
           /\ saved' = saved \/ saved' = S.have
           /\ run' = r \/ run' = [r EXCEPT !.pc = "failed"]
<1>1. PICK stale \in SUBSET {p \in DOMAIN S.peers : S.peers[p].piece = None},
           save \in BOOLEAN, stalled \in BOOLEAN : \E order \in Orders(stale) :
         /\ sw' = Store(InTurn(evict, S, order))
         /\ inbox' = InTurn(evict, S, order).inbox
         /\ saved' = IF save \/ stalled THEN S.have ELSE saved
         /\ run' = IF stalled THEN [r EXCEPT !.pc = "failed"] ELSE r
  BY DEF LoopTail
<1>2. PICK order \in Orders(stale) :
         /\ sw' = Store(InTurn(evict, S, order))
         /\ inbox' = InTurn(evict, S, order).inbox
         /\ saved' = IF save \/ stalled THEN S.have ELSE saved
         /\ run' = IF stalled THEN [r EXCEPT !.pc = "failed"] ELSE r
  BY <1>1
<1> DEFINE T == InTurn(evict, S, order)
<1>3. stale \in SUBSET Peers
  <2>1. S.peers \in PeerTables
    BY DEF Books, EngineRec
  <2>2. QED
    BY <2>1, TableFacts
<1>4. order \in Seq(Peers)
  BY <1>3, OrdersFacts
<1>5. Books(T, rx', work') /\ T.have = S.have
  BY <1>4, EvictionsKeep
<1>6. sw' = Store(T) /\ inbox' = T.inbox
  BY <1>2
<1> HIDE DEF T
<1>7. Books(Engine', rx', work')
  BY <1>5, <1>6, StoredBooks
<1>8. sw'.have = S.have
  BY <1>5, <1>6 DEF Store
<1>9. (saved' = saved \/ saved' = S.have) /\ (run' = r \/ run' = [r EXCEPT !.pc = "failed"])
  BY <1>2
<1>10. QED
  BY <1>7, <1>8, <1>9

\* The count is about `live` and `next` only.
LEMMA SameCounted ==
    ASSUME NEW r, NEW s, s.live = r.live, s.next = r.next, NEW q, NEW w, Counted(r, q, w)
    PROVE  Counted(s, q, w)
BY DEF Counted

\* A failed run keeps its counters.
LEMMA FailedRun ==
    ASSUME NEW r \in RunRec
    PROVE  [r EXCEPT !.pc = "failed"] \in RunRec /\ [r EXCEPT !.pc = "failed"].pc = "failed"
           /\ [r EXCEPT !.pc = "failed"].live = r.live /\ [r EXCEPT !.pc = "failed"].next = r.next
BY DEF RunRec

\* Spawned starts workers in `work`.
LEMMA SpawnedStarted ==
    ASSUME NEW r
    PROVE  Spawned(r) = Started(work, r)
BY DEF Spawned, Started

\* HandleEvent keeps engine and workers in agreement and counts what it writes.
LEMMA HandleEventStep ==
    ASSUME Afloat, run \in RunRec, HandleEvent
    PROVE  /\ Afloat' /\ run' \in RunRec /\ (run'.pc = "loop" \/ run'.pc = "failed")
           /\ sw'.have = sw.have \cup Writes(Head(rx))
           /\ saved' = saved \/ saved' = sw'.have
<1> DEFINE ev == Head(rx)
           S == handle(Engine, ev)
           g == [run EXCEPT !.live = @ - 1]
           r == IF ev.type = "Gone" THEN spawn_more(g) ELSE run
<1>1. /\ run.pc = "loop" /\ rx # << >> /\ LoopTail(S, r) /\ work' = Spawned(r) /\ rx' = Tail(rx)
      /\ owed' = owed
  BY DEF HandleEvent, Looping
<1>2. /\ WorkersOK(work, owed) /\ work \in WorkTable /\ rx \in Seq(EventSet)
      /\ Books(Engine, rx, work) /\ Counted(run, rx, work)
  BY DEF Afloat, WorkersOK
<1>3. Rest(rx, rx') /\ ev = rx[1] /\ ev \in EventSet /\ rx' \in Seq(EventSet)
  BY <1>1, <1>2, RestFacts
<1>4. Books(S, rx', work) /\ S.have = Engine.have \cup Gains(Engine, ev)
  BY <1>1, <1>2, HandleKeeps DEF Counted
<1> HIDE DEF S, ev
<1>5. r \in RunRec /\ r.pc = "loop" /\ Counted(r, rx', Started(work, r))
  <2>1. CASE ev.type = "Gone"
    <3>1. ev.peer \in Peers
      BY <1>3, EventFacts
    <3>2. Counted(g, rx', work)
      BY <1>2, <1>3, <2>1, <3>1, GoneCount
    <3>3. g \in RunRec /\ g.pc = "loop"
      BY <1>1 DEF RunRec
    <3> HIDE DEF g
    <3>4. QED
      BY <1>2, <1>4, <2>1, <3>2, <3>3, SpawnCount
  <2>2. CASE ev.type # "Gone"
    <3>1. Counted(run, rx', work)
      BY <1>2, <1>3, <2>2, RestCount
    <3>2. Started(work, run) = work
      BY <1>2, <3>1, NoneStarted
    <3>3. QED
      BY <1>1, <2>2, <3>1, <3>2
  <2>3. QED
    BY <2>1, <2>2
<1> HIDE DEF r
<1>6. work' = Started(work, r)
  BY <1>1, SpawnedStarted
<1>7. WorkersOK(work', owed') /\ work' \in WorkTable
  BY <1>1, <1>2, <1>6, StartedWorkers DEF WorkersOK
<1>8. Books(S, rx', work')
  BY <1>2, <1>4, <1>6, StartedBooks
<1>9. /\ Books(Engine', rx', work') /\ sw'.have = S.have
      /\ saved' = saved \/ saved' = S.have
      /\ run' = r \/ run' = [r EXCEPT !.pc = "failed"]
  BY <1>1, <1>5, <1>7, <1>8, TailStep
<1>10. run' \in RunRec /\ (run'.pc = "loop" \/ run'.pc = "failed") /\ run'.live = r.live /\ run'.next = r.next
  BY <1>5, <1>9, FailedRun
<1>11. Counted(run', rx', work')
  BY <1>5, <1>6, <1>10, SameCounted
<1>12. Afloat'
  BY <1>3, <1>7, <1>9, <1>11 DEF Afloat
<1>13. Gains(Engine, ev) = Writes(ev) /\ Engine.have = sw.have
  BY EngineFields DEF Gains, Writes
<1>14. QED
  BY <1>4, <1>9, <1>10, <1>12, <1>13 DEF ev

\* RecvTimeout keeps engine and workers in agreement and counts nothing.
LEMMA RecvTimeoutStep ==
    ASSUME Afloat, run \in RunRec, RecvTimeout
    PROVE  /\ Afloat' /\ run' \in RunRec /\ (run'.pc = "loop" \/ run'.pc = "failed")
           /\ sw'.have = sw.have
           /\ saved' = saved \/ saved' = sw'.have
<1>1. run.pc = "loop" /\ LoopTail(Engine, run) /\ rx' = rx /\ work' = work /\ owed' = owed
  BY DEF RecvTimeout, Looping
<1>2. /\ WorkersOK(work, owed) /\ work \in WorkTable /\ rx \in Seq(EventSet)
      /\ Books(Engine, rx, work) /\ Counted(run, rx, work)
  BY DEF Afloat, WorkersOK
<1>3. Books(Engine, rx', work') /\ work' \in WorkTable
  BY <1>1, <1>2
<1>4. /\ Books(Engine', rx', work') /\ sw'.have = Engine.have
      /\ saved' = saved \/ saved' = Engine.have
      /\ run' = run \/ run' = [run EXCEPT !.pc = "failed"]
  BY <1>1, <1>3, TailStep
<1>5. run' \in RunRec /\ (run'.pc = "loop" \/ run'.pc = "failed") /\ run'.live = run.live /\ run'.next = run.next
  BY <1>1, <1>4, FailedRun
<1>6. Counted(run', rx', work')
  BY <1>1, <1>2, <1>5, SameCounted
<1>7. Afloat'
  BY <1>1, <1>2, <1>4, <1>6 DEF Afloat
<1>8. QED
  BY <1>4, <1>5, <1>7, EngineFields

\* download() starts from nothing but the bytes on disk and the saved bitfield.
LEMMA StartStep ==
    ASSUME Reset, WorkersOK(work, owed), Start, saved \in SUBSET Pieces
    PROVE  Afloat' /\ run' \in RunRec /\ run'.pc = "loop" /\ (sw'.have = saved \/ sw'.have = recheck)
<1>1. PICK h \in {restore_have, recheck} : sw' = [sw EXCEPT !.have = h]
  BY DEF Start
<1>2. h \in SUBSET Pieces /\ (h = saved \/ h = recheck)
  BY <1>1 DEF restore_have, recheck
<1> DEFINE r == [run EXCEPT !.pc = "loop"]
           box == [p \in Peers |-> <<>>]
           none == [p \in {} |-> {}]
           zero == [i \in Pieces |-> 0]
           S == [peers |-> none, assigned |-> {}, avail |-> zero, have |-> h, inbox |-> box, gone |-> {}]
<1>3. /\ sw'.peers = none /\ sw'.assigned = {} /\ sw'.avail = zero /\ sw'.have = h
  BY <1>1 DEF Reset, NoSwarm
<1>4. /\ r = [pc |-> "loop", live |-> 0, next |-> 1] /\ rx = << >> /\ rx' = << >> /\ inbox' = box /\ owed' = owed
      /\ run' = (IF sw'.have = Pieces THEN r ELSE spawn_more(r)) /\ work' = Spawned(run')
  BY DEF Start, Reset
<1>5. work \in WorkTable /\ \A p \in Peers : work[p].phase = "new"
  BY DEF WorkersOK, Reset, NewWorker
<1>6. r \in RunRec /\ r.pc = "loop" /\ r.live = 0 /\ r.next = 1
  BY <1>4 DEF RunRec
<1>7. S \in EngineRec /\ S.peers = none /\ DOMAIN none = {} /\ S.assigned = {} /\ S.have = h /\ S.inbox = box
      /\ S.gone = {} /\ S.avail = zero
  <2>1. none \in PeerTables
    <3>1. none \in [{} -> PeerRec] /\ {} \in SUBSET Peers
      OBVIOUS
    <3>2. QED
      BY <3>1 DEF PeerTables
  <2>2. box \in Inboxes
    BY DEF Inboxes
  <2>3. zero \in Counters
    BY DEF Counters
  <2>4. DOMAIN none = {}
    OBVIOUS
  <2> HIDE DEF none, box, zero
  <2>5. QED
    BY <1>2, <2>1, <2>2, <2>3, <2>4 DEF EngineRec
<1>8. Sums(S)
  <2>1. InHand(S) = {} /\ Busy(S) = {} /\ \A i : Offering(S, i) = {}
    BY <1>7 DEF InHand, Busy, Offering
  <2>2. \A i \in Pieces : S.avail[i] = 0
    BY <1>7
  <2>3. AssignedExact(S)
    BY <1>7, <2>1 DEF AssignedExact
  <2>4. AvailExact(S)
    BY <2>1, <2>2, FS_EmptySet DEF AvailExact
  <2>5. busy(S) = 0
    BY <2>1, FS_EmptySet DEF busy, Busy
  <2>6. QED
    BY <2>3, <2>4, <2>5, Sizes DEF Sums
<1>9. Books(S, << >>, work)
  <2>1. ASSUME NEW p \in Peers PROVE Placed(S, << >>, work, p) /\ Early(S, << >>, work, p) /\ Joining(S, << >>, work, p)
    <3>1. NoOrder(S.inbox[p]) /\ p \notin DOMAIN S.peers
      BY <1>7 DEF NoOrder
    <3>2. \A k \in 1 .. Len(<< >>) : FALSE
      OBVIOUS
    <3>3. QED
      BY <1>5, <3>1, <3>2 DEF Placed, Early, Joining
  <2>2. S.gone = {p \in Peers : work[p].phase = "gone"}
    BY <1>5, <1>7
  <2>3. QED
    BY <1>7, <1>8, <2>1, <2>2 DEF Books
<1>10. Counted(r, << >>, work)
  <2>1. Alive(<< >>, work) = {}
    BY <1>5 DEF Alive
  <2>2. \A p \in Peers : p >= r.next /\ Leaving(<< >>, work, p)
    BY <1>6 DEF Peers, Leaving
  <2>3. Cardinality(Alive(<< >>, work)) = 0
    BY <2>1, FS_EmptySet
  <2>4. QED
    BY <1>5, <1>6, <2>2, <2>3, Sizes DEF Counted
<1> HIDE DEF r, S
<1>11. run' \in RunRec /\ run'.pc = "loop" /\ Counted(run', << >>, Started(work, run'))
  <2>1. CASE sw'.have = Pieces
    <3>1. Started(work, r) = work
      BY <1>5, <1>6, <1>10, NoneStarted
    <3>2. QED
      BY <1>4, <1>6, <1>10, <2>1, <3>1
  <2>2. CASE sw'.have # Pieces
    <3>1. run' = spawn_more(r)
      BY <1>4, <2>2
    <3>2. QED
      BY <1>5, <1>6, <1>9, <1>10, <3>1, SpawnCount
  <2>3. QED
    BY <2>1, <2>2
<1>12. work' = Started(work, run')
  BY <1>4, SpawnedStarted
<1>13. WorkersOK(work', owed')
  BY <1>4, <1>12, StartedWorkers
<1>14. Books(S, rx', work')
  BY <1>4, <1>5, <1>9, <1>12, StartedBooks
<1>15. sw' = Store(S) /\ inbox' = S.inbox
  <2>1. sw' = [peers |-> none, assigned |-> {}, avail |-> zero, have |-> h]
    BY <1>1 DEF Reset, NoSwarm
  <2>2. QED
    BY <1>4, <1>7, <2>1 DEF Store
<1>16. Books(Engine', rx', work')
  BY <1>14, <1>15, StoredBooks
<1>17. rx' \in Seq(EventSet) /\ Counted(run', rx', work')
  BY <1>4, <1>11, <1>12
<1>18. QED
  BY <1>2, <1>3, <1>11, <1>13, <1>16, <1>17 DEF Afloat

-----------------------------------------------------------------------------
(* The inductive invariant. *)

\* Only the pieces an event may write can be torn, and they do not count yet.
LEMMA WritesFacts ==
    ASSUME NEW ev
    PROVE  Writes(ev) \cap sw.have = {}
BY DEF Writes

\* The invariant holds initially.
LEMMA InitInv == Init => SwarmInv
<1> SUFFICES ASSUME Init PROVE SwarmInv
  OBVIOUS
<1>1. run \in RunRec /\ run.pc = "start" /\ Reset
  BY DEF Init, RunRec, Reset
<1>2. WorkersOK(work, owed)
  <2>1. NewWorker \in WorkRec /\ NewWorker.job = NoJob
    BY NoJobFacts DEF NewWorker, WorkRec
  <2>2. work \in WorkTable /\ owed \in OwedTable /\ \A p \in Peers : work[p] = NewWorker /\ owed[p] = {}
    BY <2>1 DEF Init, WorkTable, OwedTable
  <2>3. \A p \in Peers : JobOK(work[p], owed[p])
    BY <2>1, <2>2, IdleOK
  <2>4. QED
    BY <2>2, <2>3 DEF WorkersOK
<1>3. Verified
  BY <1>1 DEF Verified, Init, NoSwarm, Good
<1>4. QED
  BY <1>1, <1>2, <1>3 DEF SwarmInv

\* Start keeps the invariant.
LEMMA StartKeeps ==
    ASSUME SwarmInv, Start
    PROVE  SwarmInv'
<1>1. Reset /\ WorkersOK(work, owed) /\ Verified /\ saved \in SUBSET Pieces
  BY DEF SwarmInv, Start, Verified, Good
<1>2. Afloat' /\ run' \in RunRec /\ run'.pc = "loop" /\ (sw'.have = saved \/ sw'.have = recheck)
  BY <1>1, StartStep
<1>3. disk' = disk /\ saved' = saved /\ published' = published /\ run.pc = "start"
  BY DEF Start
<1>4. recheck = Good
  BY DEF recheck, Good
<1>5. Verified'
  BY <1>1, <1>2, <1>3, <1>4 DEF Verified, Good
<1>6. QED
  BY <1>2, <1>5 DEF SwarmInv, Afloat

\* HandleEvent keeps the invariant: what it counts is on disk.
LEMMA HandleEventKeeps ==
    ASSUME SwarmInv, HandleEvent
    PROVE  SwarmInv'
<1> DEFINE W == Writes(Head(rx))
<1>1. run.pc = "loop" /\ run \in RunRec /\ Afloat /\ Verified
  BY DEF SwarmInv, HandleEvent, Looping
<1>2. /\ Afloat' /\ run' \in RunRec /\ (run'.pc = "loop" \/ run'.pc = "failed")
      /\ sw'.have = sw.have \cup W
      /\ saved' = saved \/ saved' = sw'.have
  BY <1>1, HandleEventStep
<1>3. disk' = [i \in Pieces |-> IF i \in W THEN "good" ELSE disk[i]] /\ published' = published
  BY DEF HandleEvent
<1>4. W \subseteq Pieces
  <2>1. rx # << >> /\ rx \in Seq(EventSet)
    BY <1>1 DEF Afloat, HandleEvent
  <2>2. Head(rx) \in EventSet
    BY <2>1, RestFacts
  <2>3. Head(rx).type = "PieceDone" => Head(rx).index \in Pieces
    BY <2>2, EventFacts
  <2>4. QED
    BY <2>3 DEF Writes
<1> HIDE DEF W
<1>5. disk' \in [Pieces -> {"none", "torn", "good"}] /\ Good' = Good \cup W
  BY <1>1, <1>3, <1>4 DEF Verified, Good
<1>6. Verified'
  BY <1>1, <1>2, <1>3, <1>5 DEF Verified
<1>7. QED
  BY <1>2, <1>6 DEF SwarmInv, Afloat

\* RecvTimeout keeps the invariant.
LEMMA RecvTimeoutKeeps ==
    ASSUME SwarmInv, RecvTimeout
    PROVE  SwarmInv'
<1>1. run.pc = "loop" /\ run \in RunRec /\ Afloat /\ Verified
  BY DEF SwarmInv, RecvTimeout, Looping
<1>2. /\ Afloat' /\ run' \in RunRec /\ (run'.pc = "loop" \/ run'.pc = "failed")
      /\ sw'.have = sw.have
      /\ saved' = saved \/ saved' = sw'.have
  BY <1>1, RecvTimeoutStep
<1>3. disk' = disk /\ published' = published
  BY DEF RecvTimeout
<1>4. Verified'
  BY <1>1, <1>2, <1>3 DEF Verified, Good
<1>5. QED
  BY <1>2, <1>4 DEF SwarmInv, Afloat

\* DiskError keeps the invariant: the torn piece counts nowhere.
LEMMA DiskErrorKeeps ==
    ASSUME SwarmInv, DiskError
    PROVE  SwarmInv'
<1> DEFINE ev == Head(rx)
           i == ev.index
           C == clear_piece(Engine, ev.peer, i)
<1>1. run.pc = "loop" /\ run \in RunRec /\ Afloat /\ Verified /\ WorkersOK(work, owed)
  BY DEF SwarmInv, DiskError, Looping
<1>2. /\ rx # << >> /\ Writes(ev) # {} /\ disk' = [disk EXCEPT ![i] = "torn"] /\ sw' = Store(C)
      /\ saved' = sw.have /\ run' = [run EXCEPT !.pc = "failed"]
      /\ work' = work /\ owed' = owed /\ published' = published
  BY DEF DiskError
<1>3. ev.type = "PieceDone" /\ i \notin sw.have
  BY <1>2 DEF Writes
<1>4. Rest(rx, Tail(rx)) /\ ev = rx[1] /\ ev \in EventSet
  BY <1>1, <1>2, RestFacts DEF Afloat
<1>5. ev.peer \in Peers /\ i \in Pieces /\ IsBack(ev, ev.peer)
  BY <1>3, <1>4, EventFacts DEF IsBack
<1>6. C.have = sw.have
  <2>1. Books(Engine, rx, work) /\ Engine.have = sw.have
    BY <1>1, EngineFields DEF Afloat
  <2>2. QED
    BY <1>4, <1>5, <2>1, ClearKeeps
<1> HIDE DEF C, i, ev
<1>7. sw'.have = sw.have
  BY <1>2, <1>6 DEF Store
<1>8. run' \in RunRec /\ run'.pc = "failed"
  BY <1>1, <1>2, FailedRun
<1>9. disk' \in [Pieces -> {"none", "torn", "good"}] /\ Good \ {i} \subseteq Good'
  BY <1>1, <1>2, <1>5 DEF Verified, Good
<1>10. Verified'
  BY <1>1, <1>2, <1>3, <1>7, <1>8, <1>9 DEF Verified
<1>11. QED
  BY <1>1, <1>2, <1>8, <1>10 DEF SwarmInv

\* The ends of the loop and the publication keep the invariant.
LEMMA EndsKeep ==
    ASSUME SwarmInv, Exhausted \/ Complete \/ Publish
    PROVE  SwarmInv'
<1>1. run \in RunRec /\ WorkersOK(work, owed) /\ Verified
  BY DEF SwarmInv
<1>2. work' = work /\ owed' = owed /\ disk' = disk /\ sw' = sw
  BY DEF Exhausted, Complete, Publish
<1>3. Good' = Good
  BY <1>2 DEF Good
<1>4. CASE Exhausted
  <2>1. run' = [run EXCEPT !.pc = "failed"] /\ saved' = sw.have /\ run.pc = "loop" /\ published' = published
    BY <1>4 DEF Exhausted
  <2>2. run' \in RunRec /\ run'.pc = "failed"
    BY <1>1, <2>1, FailedRun
  <2>3. Verified'
    BY <1>1, <1>2, <1>3, <2>1, <2>2 DEF Verified
  <2>4. QED
    BY <1>1, <1>2, <2>2, <2>3 DEF SwarmInv
<1>5. CASE Complete
  <2>1. run' = [run EXCEPT !.pc = "complete"] /\ saved' = {} /\ run.pc = "loop" /\ sw.have = Pieces /\ published' = published
    BY <1>5 DEF Complete
  <2>2. run' \in RunRec /\ run'.pc = "complete"
    BY <1>1, <2>1 DEF RunRec
  <2>3. Verified'
    BY <1>1, <1>2, <1>3, <2>1, <2>2 DEF Verified
  <2>4. QED
    BY <1>1, <1>2, <2>2, <2>3 DEF SwarmInv
<1>6. CASE Publish
  <2>1. PICK pc \in {"done", "seeding"} : run' = [run EXCEPT !.pc = pc]
    BY <1>6 DEF Publish
  <2>2. published' = TRUE /\ saved' = saved /\ run.pc = "complete"
    BY <1>6 DEF Publish
  <2>3. run' \in RunRec /\ run'.pc \in {"done", "seeding"}
    BY <1>1, <2>1 DEF RunRec
  <2>4. Good = Pieces
    BY <1>1, <2>2 DEF Verified, Good
  <2>5. Verified'
    BY <1>1, <1>2, <1>3, <2>2, <2>3, <2>4 DEF Verified
  <2>6. QED
    BY <1>1, <1>2, <2>3, <2>5 DEF SwarmInv
<1>7. QED
  BY <1>4, <1>5, <1>6

\* A crash keeps the invariant: only what was being written can be torn, and the saved
\* bitfield does not vouch for it.
LEMMA RestartKeeps ==
    ASSUME SwarmInv, Restart
    PROVE  SwarmInv'
<1>1. Verified /\ run.pc \in {"loop", "complete", "failed"} /\ saved' = saved /\ published' = published
  BY DEF SwarmInv, Restart
<1>2. PICK torn \in SUBSET (IF run.pc = "loop" /\ rx # <<>> THEN Writes(Head(rx)) ELSE {}) :
        disk' = [i \in Pieces |-> IF i \in torn THEN "torn" ELSE disk[i]]
  BY DEF Restart
<1>3. Reset' /\ run' \in RunRec /\ run'.pc = "start" /\ sw'.have = {}
  BY DEF Restart, Reset, RunRec, NoSwarm
<1>4. WorkersOK(work', owed')
  <2>1. NewWorker \in WorkRec /\ NewWorker.job = NoJob
    BY NoJobFacts DEF NewWorker, WorkRec
  <2>2. work' = [p \in Peers |-> NewWorker] /\ owed' = [p \in Peers |-> {}]
    BY DEF Restart
  <2>3. work' \in WorkTable /\ owed' \in OwedTable /\ \A p \in Peers : work'[p] = NewWorker /\ owed'[p] = {}
    BY <2>1, <2>2 DEF WorkTable, OwedTable
  <2>4. \A p \in Peers : JobOK(work'[p], owed'[p])
    BY <2>1, <2>3, IdleOK
  <2>5. QED
    BY <2>3, <2>4 DEF WorkersOK
<1>5. torn \cap saved = {}
  <2>1. CASE run.pc = "loop" /\ rx # <<>>
    BY <1>1, <2>1, WritesFacts DEF Verified
  <2>2. CASE ~(run.pc = "loop" /\ rx # <<>>)
    BY <2>2
  <2>3. QED
    BY <2>1, <2>2
<1>6. disk' \in [Pieces -> {"none", "torn", "good"}] /\ Good \ torn \subseteq Good'
  BY <1>1, <1>2 DEF Verified, Good
<1>7. Verified'
  BY <1>1, <1>3, <1>5, <1>6 DEF Verified
<1>8. QED
  BY <1>3, <1>4, <1>7 DEF SwarmInv

\* A worker's step keeps the invariant.
LEMMA WorkerKeeps ==
    ASSUME SwarmInv, NEW p \in Peers, Worker_Next(p)
    PROVE  SwarmInv'
<1>1. run.pc = "loop"
  BY DEF Worker_Next, Join, JoinFails, TakeAssign, TakeStop, WireErr, WireChoke, WireUnchoke, WireHave,
         WireBlock, Deadline, Running
<1>2. run \in RunRec /\ Afloat /\ Verified
  BY <1>1 DEF SwarmInv
<1>3. Afloat' /\ WorkerUnchanged
  BY <1>2, WorkerNextStep
<1>4. run' = run /\ sw' = sw /\ disk' = disk /\ saved' = saved /\ published' = published
  BY <1>3 DEF WorkerUnchanged
<1>5. Verified'
  BY <1>2, <1>4 DEF Verified, Good
<1>6. QED
  BY <1>1, <1>2, <1>3, <1>4, <1>5 DEF SwarmInv, Afloat

\* Seeding keeps the invariant.
LEMMA SeedKeeps ==
    ASSUME SwarmInv, SeedAccept \/ SeedServe \/ ConnSlotDrop \/ SeedDone
    PROVE  SwarmInv'
<1>1. run \in RunRec /\ WorkersOK(work, owed) /\ Verified
  BY DEF SwarmInv
<1>2. /\ work' = work /\ owed' = owed /\ disk' = disk /\ sw' = sw /\ saved' = saved /\ published' = published
      /\ run.pc = "seeding" /\ (run' = run \/ run' = [run EXCEPT !.pc = "done"])
  BY DEF SeedAccept, SeedServe, ConnSlotDrop, SeedDone, SeedUnchanged
<1>3. run' \in RunRec /\ run'.pc \in {"seeding", "done"}
  BY <1>1, <1>2 DEF RunRec
<1>4. Verified'
  BY <1>1, <1>2, <1>3 DEF Verified, Good
<1>5. QED
  BY <1>1, <1>2, <1>3, <1>4 DEF SwarmInv

\* So does a step that changes nothing.
LEMMA StutterKeeps ==
    ASSUME SwarmInv, UNCHANGED vars
    PROVE  SwarmInv'
<1>1. /\ run' = run /\ sw' = sw /\ rx' = rx /\ inbox' = inbox /\ work' = work /\ owed' = owed /\ disk' = disk
      /\ saved' = saved /\ published' = published
  BY DEF vars
<1>2. run \in RunRec /\ WorkersOK(work, owed) /\ Verified /\ (run.pc = "start" => Reset) /\ (run.pc = "loop" => Afloat)
  BY DEF SwarmInv
<1>3. Engine' = Engine
  BY <1>1 DEF Engine
<1>4. Verified'
  BY <1>1, <1>2 DEF Verified, Good
<1>5. run.pc = "start" => Reset'
  BY <1>1, <1>2 DEF Reset
<1>6. run.pc = "loop" => Afloat'
  BY <1>1, <1>2, <1>3 DEF Afloat
<1>7. QED
  BY <1>1, <1>2, <1>4, <1>5, <1>6 DEF SwarmInv

\* Every step keeps the invariant.
LEMMA NextInv == SwarmInv /\ [Next]_vars => SwarmInv'
<1> SUFFICES ASSUME SwarmInv, [Next]_vars PROVE SwarmInv'
  OBVIOUS
<1>1. CASE Engine_Next
  BY <1>1, StartKeeps, HandleEventKeeps, RecvTimeoutKeeps, DiskErrorKeeps, EndsKeep DEF Engine_Next
<1>2. CASE Restart
  BY <1>2, RestartKeeps
<1>3. CASE Ended \/ UNCHANGED vars
  BY <1>3, StutterKeeps DEF Ended
<1>4. CASE \E p \in Peers : Worker_Next(p)
  BY <1>4, WorkerKeeps
<1>5. CASE SeedAccept \/ SeedServe \/ ConnSlotDrop \/ SeedDone
  BY <1>5, SeedKeeps
<1>6. QED
  BY <1>1, <1>2, <1>3, <1>4, <1>5 DEF Next

-----------------------------------------------------------------------------
(* What the invariant says in the terms of the properties. *)

\* The invariant gives LedgersExact.
LEMMA LedgersHold ==
    ASSUME SwarmInv
    PROVE  LedgersExact
<1> SUFFICES ASSUME run.pc = "loop" PROVE LedgersExact
  BY DEF LedgersExact
<1>1. Afloat
  BY DEF SwarmInv
<1>2. Sums(Engine) /\ Counted(run, rx, work)
  BY <1>1 DEF Afloat, Books
<1>3. Engine.peers = sw.peers /\ Engine.assigned = sw.assigned /\ Engine.avail = sw.avail /\ Engine.have = sw.have
  BY EngineFields
<1>4. sw.assigned = {sw.peers[p].piece : p \in DOMAIN sw.peers} \ ({None} \cup sw.have)
  BY <1>2, <1>3 DEF Sums, AssignedExact, InHand
<1>5. \A i \in Pieces : sw.avail[i] = Cardinality({p \in DOMAIN sw.peers : i \in sw.peers[p].bf})
  BY <1>2, <1>3 DEF Sums, AvailExact, Offering
<1>6. {p \in Peers : work[p].phase \in {"join", "serve"} \/ Events(p, {"Gone"}) # {}} = Alive(rx, work)
  BY DEF Events, Alive
<1>7. run.live = Cardinality(Alive(rx, work)) /\ run.live <= MaxPeers
  BY <1>2 DEF Counted
<1>8. busy(Engine) <= MaxBusy
  BY <1>2 DEF Sums
<1>9. QED
  BY <1>4, <1>5, <1>6, <1>7, <1>8 DEF LedgersExact

Job(p) == IF work[p].job.index = None THEN {} ELSE {work[p].job.index}
Ordered(p) == {k \in 1 .. Len(inbox[p]) : inbox[p][k] # Stop}
Back(p) == Events(p, {"PieceDone", "Released"})
Places(p) == Cardinality(Job(p)) + Cardinality(Ordered(p)) + Cardinality(Back(p))
Pieces_of(p) == Job(p) \cup {inbox[p][k] : k \in Ordered(p)} \cup {rx[k].index : k \in Back(p)}

\* How many places each of the three kinds makes.
LEMMA Counts ==
    ASSUME NEW p \in Peers
    PROVE  /\ work[p].job.index = None => Cardinality(Job(p)) = 0 /\ Job(p) = {}
           /\ work[p].job.index # None => Cardinality(Job(p)) = 1 /\ Job(p) = {work[p].job.index}
           /\ NoOrder(inbox[p]) => Cardinality(Ordered(p)) = 0 /\ Ordered(p) = {}
           /\ NoBack(rx, p) => Cardinality(Back(p)) = 0 /\ Back(p) = {}
           /\ \A i \in Pieces : OneOrder(inbox[p], i) =>
                Cardinality(Ordered(p)) = 1 /\ \A k \in Ordered(p) : inbox[p][k] = i
           /\ \A i \in Pieces : OneBack(rx, p, i) =>
                Cardinality(Back(p)) = 1 /\ \A k \in Back(p) : rx[k].index = i
<1>1. work[p].job.index = None => Cardinality(Job(p)) = 0 /\ Job(p) = {}
  BY FS_EmptySet DEF Job
<1>2. work[p].job.index # None => Cardinality(Job(p)) = 1 /\ Job(p) = {work[p].job.index}
  BY FS_Singleton DEF Job
<1>3. NoOrder(inbox[p]) => Cardinality(Ordered(p)) = 0 /\ Ordered(p) = {}
  <2>1. NoOrder(inbox[p]) => Ordered(p) = {}
    BY DEF NoOrder, Ordered
  <2>2. QED
    BY <2>1, FS_EmptySet
<1>4. NoBack(rx, p) => Cardinality(Back(p)) = 0 /\ Back(p) = {}
  <2>1. NoBack(rx, p) => Back(p) = {}
    BY DEF NoBack, IsBack, Back, Events
  <2>2. QED
    BY <2>1, FS_EmptySet
<1>5. ASSUME NEW i \in Pieces, OneOrder(inbox[p], i)
      PROVE  Cardinality(Ordered(p)) = 1 /\ \A k \in Ordered(p) : inbox[p][k] = i
  <2>1. PICK k \in 1 .. Len(inbox[p]) : inbox[p][k] = i /\ \A l \in 1 .. Len(inbox[p]) : l # k => inbox[p][l] = Stop
    BY <1>5 DEF OneOrder
  <2>2. Ordered(p) = {k}
    BY <2>1, PieceFacts DEF Ordered
  <2>3. QED
    BY <2>1, <2>2, FS_Singleton
<1>6. ASSUME NEW i \in Pieces, OneBack(rx, p, i)
      PROVE  Cardinality(Back(p)) = 1 /\ \A k \in Back(p) : rx[k].index = i
  <2>1. PICK k \in 1 .. Len(rx) : IsBack(rx[k], p) /\ rx[k].index = i /\ \A l \in 1 .. Len(rx) : l # k => ~IsBack(rx[l], p)
    BY <1>6 DEF OneBack
  <2>2. Back(p) = {k}
    BY <2>1 DEF Back, Events, IsBack
  <2>3. QED
    BY <2>1, <2>2, FS_Singleton
<1>7. QED
  BY <1>1, <1>2, <1>3, <1>4, <1>5, <1>6

\* Nothing in hand is no place.
LEMMA NowhereCounts ==
    ASSUME NEW p \in Peers, Nowhere(work[p].job.index, inbox[p], rx, p)
    PROVE  Places(p) = 0 /\ Pieces_of(p) = {}
<1>1. /\ Cardinality(Job(p)) = 0 /\ Job(p) = {} /\ Cardinality(Ordered(p)) = 0 /\ Ordered(p) = {}
      /\ Cardinality(Back(p)) = 0 /\ Back(p) = {}
  BY Counts DEF Nowhere
<1>2. Places(p) = 0
  BY <1>1 DEF Places
<1>3. Pieces_of(p) = {}
  BY <1>1 DEF Pieces_of
<1>4. QED
  BY <1>2, <1>3

\* A piece somewhere is one place, and it is that piece.
LEMMA SomewhereCounts ==
    ASSUME NEW p \in Peers, NEW i, Somewhere(i, work[p].job.index, inbox[p], rx, p)
    PROVE  Places(p) = 1 /\ Pieces_of(p) \subseteq {i}
<1>1. i \in Pieces /\ i # None
  BY PieceFacts DEF Somewhere
<1>2. \/ /\ Cardinality(Job(p)) = 1 /\ Cardinality(Ordered(p)) = 0 /\ Cardinality(Back(p)) = 0
         /\ Job(p) = {i} /\ Ordered(p) = {} /\ Back(p) = {}
      \/ /\ Cardinality(Job(p)) = 0 /\ Cardinality(Ordered(p)) = 1 /\ Cardinality(Back(p)) = 0
         /\ Job(p) = {} /\ (\A k \in Ordered(p) : inbox[p][k] = i) /\ Back(p) = {}
      \/ /\ Cardinality(Job(p)) = 0 /\ Cardinality(Ordered(p)) = 0 /\ Cardinality(Back(p)) = 1
         /\ Job(p) = {} /\ Ordered(p) = {} /\ \A k \in Back(p) : rx[k].index = i
  BY <1>1, Counts DEF Somewhere
<1>3. Places(p) = 1
  BY <1>2 DEF Places
<1>4. Pieces_of(p) \subseteq {i}
  BY <1>2 DEF Pieces_of
<1>5. QED
  BY <1>3, <1>4

\* The invariant gives OnePlaceEach.
LEMMA PlacesHold ==
    ASSUME SwarmInv
    PROVE  OnePlaceEach
<1> SUFFICES ASSUME run.pc = "loop", NEW p \in Peers, work[p].phase = "serve"
             PROVE  IF p \in DOMAIN sw.peers
                    THEN /\ Places(p) = IF sw.peers[p].piece = None THEN 0 ELSE 1
                         /\ Pieces_of(p) \subseteq {sw.peers[p].piece}
                    ELSE Places(p) = 0 \/ (Places(p) = 1 /\ \E k \in 1 .. Len(inbox[p]) : inbox[p][k] = Stop)
  BY DEF OnePlaceEach, Job, Ordered, Back, Places, Pieces_of
<1>1. Placed(Engine, rx, work, p)
  BY DEF SwarmInv, Afloat, Books
<1>2. Engine.peers = sw.peers /\ Engine.inbox = inbox
  BY EngineFields
<1> DEFINE j == work[p].job.index
<1>3. IF p \in DOMAIN sw.peers
      THEN IF sw.peers[p].piece = None THEN Nowhere(j, inbox[p], rx, p)
           ELSE Somewhere(sw.peers[p].piece, j, inbox[p], rx, p)
      ELSE Nowhere(j, inbox[p], rx, p) \/ (Stopped(inbox[p]) /\ \E i \in Pieces : Somewhere(i, j, inbox[p], rx, p))
  BY <1>1, <1>2 DEF Placed
<1>4. Nowhere(j, inbox[p], rx, p) => Places(p) = 0 /\ Pieces_of(p) = {}
  BY NowhereCounts
<1>5. \A i : Somewhere(i, j, inbox[p], rx, p) => Places(p) = 1 /\ Pieces_of(p) \subseteq {i}
  BY SomewhereCounts
<1>6. QED
  BY <1>3, <1>4, <1>5 DEF Stopped

\* The invariant gives AlwaysAsking.
LEMMA AskingHolds ==
    ASSUME SwarmInv
    PROVE  AlwaysAsking
<1> SUFFICES ASSUME NEW p \in Peers
             PROVE  /\ Cardinality(owed[p]) <= Depth
                    /\ work[p].job.index # None /\ ~work[p].choked =>
                         \E b \in Blocks \ work[p].job.filled : <<work[p].job.index, b>> \in owed[p]
  BY DEF AlwaysAsking
<1> DEFINE j == work[p].job
           O == Open(j)
           f == [b \in O |-> <<j.index, b>>]
<1>1. JobOK(work[p], owed[p]) /\ j \in JobRec
  BY DEF SwarmInv, WorkersOK, WorkTable, WorkRec
<1>2. owed[p] = {<<j.index, b>> : b \in O} /\ Cardinality(O) <= Depth
  BY <1>1 DEF JobOK, Window
<1>3. IsFiniteSet(O) /\ O \in SUBSET Blocks /\ Cardinality(O) \in Nat
  BY <1>1, OpenFinite
<1>4. f \in Surjection(O, owed[p])
  BY <1>2 DEF Surjection
<1>5. Cardinality(owed[p]) <= Cardinality(O) /\ IsFiniteSet(owed[p])
  <2> HIDE DEF O, f
  <2>1. QED
    BY <1>3, <1>4, FS_Surjection
<1>6. Cardinality(owed[p]) <= Depth
  <2>1. Cardinality(owed[p]) \in Nat
    BY <1>5, FS_CardinalityType
  <2> HIDE DEF O
  <2>2. QED
    BY <1>2, <1>3, <1>5, <2>1, Sizes
<1>7. ASSUME j.index # None, ~work[p].choked
      PROVE  \E b \in Blocks \ j.filled : <<j.index, b>> \in owed[p]
  <2>1. O # {}
    BY <1>1, <1>7 DEF JobOK
  <2>2. PICK b \in O : TRUE
    BY <2>1
  <2>3. b \in Blocks \ j.filled /\ <<j.index, b>> \in owed[p]
    BY <1>2, <1>3, <2>2 DEF Open
  <2>4. QED
    BY <2>3
<1>8. QED
  BY <1>6, <1>7

\* The invariant gives OnlyVerifiedCounts.
LEMMA OnlyVerifiedHolds ==
    ASSUME SwarmInv
    PROVE  OnlyVerifiedCounts
BY DEF SwarmInv, Verified, Good, OnlyVerifiedCounts

-----------------------------------------------------------------------------
(* The theorems. *)

\* In every run, whatever the peers send, choke or withhold, whichever of them are evicted
\* or banned and in whatever order, and across crashes and restarts: `assigned`, the
\* picker's counters, the busy cap and `live` are exact, every charged piece is in exactly
\* one place, and every piece in hand is being asked for (engine.rs Swarm, run, run_peer).
THEOREM EngineAndWorkersAgree == Spec => []SwarmSound
<1>1. SwarmInv => SwarmSound
  BY LedgersHold, PlacesHold, AskingHolds DEF SwarmSound
<1>2. QED
  BY <1>1, InitInv, NextInv, PTL DEF Spec

\* In every run: what counts as had, what the saved bitfield vouches for and what gets the
\* final name is verified and whole on disk, through torn writes, disk errors, crashes at
\* any step and restarts that trust the trailer (engine.rs write_piece, storage.rs
\* restore_have, resume.rs finalize).
THEOREM OnlyVerifiedBytesCount == Spec => []OnlyVerifiedCounts
BY InitInv, NextInv, OnlyVerifiedHolds, PTL DEF Spec

=============================================================================
