---------------------------- MODULE HandleProofs ----------------------------
(***************************************************************************)
(* Proofs about the two handles an application shares with the library's   *)
(* threads.  They have no state in common; each half is about its own      *)
(* module.                                                                 *)
(*                                                                         *)
(* Multi, for any number of transfers: each transfer is reported exactly   *)
(* once.                                                                   *)
(*                                                                         *)
(* TempBlob, for any threads, writes, threshold and faults: the blob is    *)
(* the byte array its completed writes describe (BlobExact).  Its          *)
(* inductive invariant BlobInv adds what each thread relies on between its *)
(* steps (ThreadOK): between the write and grow_to no other thread, no     *)
(* spill and no failed write touches the bytes that were written, since    *)
(* the ranges of the writers are disjoint; and the length that a reader    *)
(* took before it took the lock still stands, since only the owner shrinks *)
(* the blob, and the owner runs alone.                                     *)
(***************************************************************************)
EXTENDS Multi, TempBlob, FiniteSetTheorems, TLAPS

-----------------------------------------------------------------------------
(* Multi. *)

\* What drain_ready does to a non-empty channel.
LEMMA HeadTail ==
    ASSUME NEW S, NEW s \in Seq(S), s # << >>
    PROVE  /\ Head(s) \in S
           /\ Tail(s) \in Seq(S)
           /\ Len(s) > 0
           /\ Head(s) = s[1]
           /\ Len(Tail(s)) = Len(s) - 1
           /\ \A k \in 1 .. Len(s) - 1 : Tail(s)[k] = s[k + 1]
OBVIOUS

\* Everything of Multi's state has its type.  `running` is only an integer
\* here; that it never wraps needs RunningCount.
TypeInv ==
    /\ next_id \in 0 .. MaxTransfers
    /\ pending \in SUBSET Ids
    /\ thread \in [Ids -> {"none", "sending", "posted", "exited"}]
    /\ chan \in Seq(Completions)
    /\ workers \in SUBSET Ids
    /\ running \in Int
    /\ ready \in Seq(Completions)
    /\ pc \in {"idle", "spawn", "drain", "join", "recv", "dropping", "dropped"}
             \cup Afters
    /\ after \in Afters
    /\ op \in Ops
    /\ held \in Completions \cup {NoCompletion}
    /\ pc = "join" => held \in Completions
    /\ ret \in {"none", "true", "false", "all"}
    /\ delivered \in Seq(Completions)
    /\ removed \in SUBSET Ids

LEMMA InitTypeInv == Init => TypeInv
BY MaxTransfersAssumption DEF Init, TypeInv, Ids, Completions, Afters, Ops

LEMMA NextTypeInv == TypeInv /\ [Next]_vars => TypeInv'
<1> USE MaxTransfersAssumption DEF Afters, Ops
<1> SUFFICES ASSUME TypeInv, [Next]_vars PROVE TypeInv'
    OBVIOUS
<1>1. ASSUME NEW i \in Ids, WorkerPost(i) PROVE TypeInv'
    BY <1>1 DEF TypeInv, WorkerPost, Completions, CatchUnwind, Outcomes
<1>2. ASSUME NEW i \in Ids, WorkerExit(i) PROVE TypeInv'
    BY <1>2 DEF TypeInv, WorkerExit
<1>3. CASE AddCall
    BY <1>3 DEF TypeInv, AddCall, Ids
<1>4. ASSUME NEW i \in Ids, RemoveCall(i) PROVE TypeInv'
    BY <1>4 DEF TypeInv, RemoveCall
<1>5. ASSUME NEW o \in Ops, Call(o) PROVE TypeInv'
    BY <1>5 DEF TypeInv, Call
<1>6. CASE Spawn
    BY <1>6 DEF TypeInv, Spawn
<1>7. CASE SpawnDone
    BY <1>7 DEF TypeInv, SpawnDone
<1>8. CASE TryRecv
    BY <1>8, HeadTail DEF TypeInv, TryRecv
<1>9. CASE TryRecvEmpty
    BY <1>9 DEF TypeInv, TryRecvEmpty
<1>10. CASE JoinWorker
    BY <1>10 DEF TypeInv, JoinWorker
<1>11. CASE Performed
    BY <1>11 DEF TypeInv, Performed
<1>12. CASE Pop
    BY <1>12, HeadTail DEF TypeInv, Pop
<1>13. CASE PopNone
    BY <1>13 DEF TypeInv, PopNone
<1>14. CASE PollCheck
    BY <1>14 DEF TypeInv, PollCheck, PollReturns
<1>15. CASE Recv
    BY <1>15, HeadTail DEF TypeInv, Recv
<1>16. CASE RecvTimeout
    BY <1>16 DEF TypeInv, RecvTimeout, PollReturns
<1>17. CASE PollTrue
    BY <1>17 DEF TypeInv, PollTrue, PollReturns
<1>18. CASE DropCall
    BY <1>18 DEF TypeInv, DropCall
<1>19. CASE DropJoin
    BY <1>19 DEF TypeInv, DropJoin
<1>20. CASE UNCHANGED vars
    BY <1>20 DEF TypeInv, vars
<1> QED
    BY <1>1, <1>2, <1>3, <1>4, <1>5, <1>6, <1>7, <1>8, <1>9, <1>10, <1>11,
       <1>12, <1>13, <1>14, <1>15, <1>16, <1>17, <1>18, <1>19, <1>20
       DEF Next, Worker, InCall, Calls, Dropped

-----------------------------------------------------------------------------
(* The inductive invariant. *)

Started == {i \in Ids : thread[i] # "none"}
Posted  == {i \in Ids : thread[i] \in {"posted", "exited"}}

\* Drained, or drained and delivered.
Collected == IdsOf(ready) \cup IdsOf(delivered)

\* Every posted completion is in exactly one place.
Places ==
    /\ DistinctIds(chan) /\ DistinctIds(ready) /\ DistinctIds(delivered)
    /\ IdsOf(chan) \cap HeldIds = {}
    /\ IdsOf(chan) \cap IdsOf(ready) = {}
    /\ IdsOf(chan) \cap IdsOf(delivered) = {}
    /\ HeldIds \cap IdsOf(ready) = {}
    /\ HeldIds \cap IdsOf(delivered) = {}
    /\ IdsOf(ready) \cap IdsOf(delivered) = {}
    /\ IdsOf(chan) \cup HeldIds \cup Collected = Posted

\* Every id handed out is pending, removed or started, and nothing else is.
Ledger ==
    /\ Started \cap pending = {}
    /\ Started \cap removed = {}
    /\ pending \cap removed = {}
    /\ Started \cup pending \cup removed = {i \in Ids : i < next_id}

\* The handle holds the threads whose completion is not collected, until drop
\* joins them one by one.
Handles ==
    /\ pc \notin {"dropping", "dropped"} => workers = Started \ Collected
    /\ pc \in {"dropping", "dropped"} =>
          \A i \in Started \ Collected : i \in workers \/ thread[i] = "exited"
    /\ pc = "dropped" => workers = {}
    /\ \A i \in Collected : thread[i] = "exited"

Count == running = Cardinality(Started \ Collected)

\* What makes the return values of poll and wait_all right.
Returning ==
    /\ pc \in Afters => pc = after
    /\ after = "poll_true" /\ pc \in {"drain", "poll_true"} => ready # << >>
    /\ op = "wait_all" /\ pc \notin {"idle", "spawn"} => pending = {}
    /\ pc \notin {"idle", "dropping", "dropped"} => ret = "none"
    /\ ReturnsAreHonest

IInv == TypeInv /\ Places /\ Ledger /\ Handles /\ Count /\ Returning

LEMMA IdsFinite == IsFiniteSet(Ids)
BY FS_Interval, MaxTransfersAssumption DEF Ids

LEMMA IdsOfAppend ==
    ASSUME NEW s \in Seq(Completions), NEW c \in Completions
    PROVE  /\ IdsOf(Append(s, c)) = IdsOf(s) \cup {c.id}
           /\ DistinctIds(s) /\ c.id \notin IdsOf(s) => DistinctIds(Append(s, c))
<1> DEFINE t == Append(s, c)
<1>1. Len(t) = Len(s) + 1 /\ t[Len(s) + 1] = c /\ \A k \in 1 .. Len(s) : t[k] = s[k]
    OBVIOUS
<1>2. IdsOf(t) = IdsOf(s) \cup {c.id}
  <2>1. ASSUME NEW x \in IdsOf(t) PROVE x \in IdsOf(s) \cup {c.id}
    <3>1. PICK k \in 1 .. Len(t) : x = t[k].id
        BY <2>1 DEF IdsOf
    <3>2. CASE k = Len(s) + 1
        BY <1>1, <3>1, <3>2
    <3>3. CASE k # Len(s) + 1
        BY <1>1, <3>1, <3>3 DEF IdsOf
    <3> QED BY <3>2, <3>3
  <2>2. ASSUME NEW x \in IdsOf(s) PROVE x \in IdsOf(t)
        BY <1>1, <2>2 DEF IdsOf
  <2>3. c.id \in IdsOf(t)
        BY <1>1 DEF IdsOf
  <2> QED BY <2>1, <2>2, <2>3
<1>3. ASSUME DistinctIds(s), c.id \notin IdsOf(s) PROVE DistinctIds(t)
    BY <1>1, <1>3 DEF DistinctIds, IdsOf
<1> QED BY <1>2, <1>3

LEMMA IdsOfTail ==
    ASSUME NEW s \in Seq(Completions), s # << >>, DistinctIds(s)
    PROVE  /\ Head(s).id \in IdsOf(s)
           /\ IdsOf(Tail(s)) = IdsOf(s) \ {Head(s).id}
           /\ DistinctIds(Tail(s))
<1> DEFINE t == Tail(s)
<1>1. /\ Len(s) \in Nat /\ Len(s) > 0 /\ Head(s) = s[1]
      /\ Len(t) = Len(s) - 1
      /\ \A k \in 1 .. Len(s) - 1 : t[k] = s[k + 1]
    BY HeadTail
<1>2. Head(s).id \in IdsOf(s)
    BY <1>1 DEF IdsOf
<1>3. ASSUME NEW x \in IdsOf(t) PROVE x \in IdsOf(s) /\ x # Head(s).id
  <2>1. PICK k \in 1 .. Len(t) : x = t[k].id
      BY <1>3 DEF IdsOf
  <2>2. k + 1 \in 1 .. Len(s) /\ x = s[k + 1].id /\ k + 1 # 1
      BY <1>1, <2>1
  <2> QED BY <1>1, <2>2 DEF IdsOf, DistinctIds
<1>4. ASSUME NEW x \in IdsOf(s), x # Head(s).id PROVE x \in IdsOf(t)
  <2>1. PICK k \in 1 .. Len(s) : x = s[k].id
      BY <1>4 DEF IdsOf
  <2>2. k # 1
      BY <1>1, <1>4, <2>1
  <2>3. k - 1 \in 1 .. Len(t) /\ t[k - 1] = s[k]
      BY <1>1, <2>2
  <2> QED BY <2>1, <2>3 DEF IdsOf
<1>5. DistinctIds(t)
    BY <1>1 DEF DistinctIds
<1> QED BY <1>2, <1>3, <1>4, <1>5

LEMMA IdsOfType ==
    ASSUME NEW s \in Seq(Completions)
    PROVE  IdsOf(s) \subseteq Ids
<1> SUFFICES ASSUME NEW k \in 1 .. Len(s) PROVE s[k].id \in Ids
    BY DEF IdsOf
<1>1. s[k] \in Completions
    OBVIOUS
<1> QED BY <1>1 DEF Completions

LEMMA EmptyIds == IdsOf(<< >>) = {} /\ DistinctIds(<< >>)
BY DEF IdsOf, DistinctIds

LEMMA InitIInv == Init => IInv
<1> SUFFICES ASSUME Init PROVE IInv
    OBVIOUS
<1>1. TypeInv
    BY InitTypeInv
<1>2. Started = {} /\ Posted = {} /\ HeldIds = {} /\ Collected = {}
    BY EmptyIds DEF Init, Started, Posted, HeldIds, Collected
<1>3. Places
    BY <1>2, EmptyIds DEF Init, Places, Collected
<1>4. Ledger
    BY <1>2, MaxTransfersAssumption DEF Init, Ledger, Ids
<1>5. Handles
    BY <1>2 DEF Init, Handles
<1>6. Count
    BY <1>2, FS_EmptySet DEF Init, Count
<1>7. Returning
    BY DEF Init, Returning, ReturnsAreHonest, Afters
<1> QED BY <1>1, <1>3, <1>4, <1>5, <1>6, <1>7 DEF IInv

\* A step that touches neither the transfers nor their completions: the
\* caller's control moves, and nothing else.
LEMMA ControlStep ==
    ASSUME IInv, pc # "join", pc' # "join",
           UNCHANGED << next_id, pending, thread, chan, workers, running,
                        ready, delivered, removed >>
    PROVE  /\ Places' /\ Ledger' /\ Count'
           /\ UNCHANGED << Started, Collected >>
           /\ pc \notin {"dropping", "dropped"} /\ pc' # "dropped" => Handles'
<1>1. UNCHANGED << Started, Posted, Collected, HeldIds >>
    BY DEF Started, Posted, Collected, HeldIds
<1>2. Places'
    BY <1>1 DEF IInv, Places
<1>3. Ledger'
    BY <1>1 DEF IInv, Ledger
<1>4. Count'
    BY <1>1 DEF IInv, Count
<1>5. ASSUME pc \notin {"dropping", "dropped"}, pc' # "dropped" PROVE Handles'
    BY <1>1, <1>5 DEF IInv, Handles
<1> QED BY <1>1, <1>2, <1>3, <1>4, <1>5

\* A message taken from the channel is in the caller's hand and nowhere else.
LEMMA TakeStep ==
    ASSUME IInv, pc \in {"drain", "recv"}, chan # << >>, pc' = "join",
           held' = Head(chan), chan' = Tail(chan),
           UNCHANGED << next_id, pending, thread, workers, running, ready,
                        delivered, removed >>
    PROVE  Places' /\ Ledger' /\ Count' /\ Handles'
<1> DEFINE h == Head(chan).id
<1>1. UNCHANGED << Started, Posted, Collected >>
    BY DEF Started, Posted, Collected
<1>2. /\ h \in IdsOf(chan)
      /\ IdsOf(chan)' = IdsOf(chan) \ {h}
      /\ DistinctIds(chan)'
    BY IdsOfTail DEF IInv, TypeInv, Places
<1>3. HeldIds = {} /\ HeldIds' = {h}
    BY DEF HeldIds
<1>4. Places'
    BY <1>1, <1>2, <1>3 DEF IInv, Places
<1>5. Ledger'
    BY <1>1 DEF IInv, Ledger
<1>6. Count'
    BY <1>1 DEF IInv, Count
<1>7. Handles'
    BY <1>1 DEF IInv, Handles
<1> QED BY <1>4, <1>5, <1>6, <1>7

\* What the counter counts: it grows by one with a new element and shrinks by
\* one with an element removed.
LEMMA CountStep ==
    ASSUME NEW S \in SUBSET Ids, NEW x \in Ids
    PROVE  /\ Cardinality(S) \in Nat
           /\ x \notin S => Cardinality(S \cup {x}) = Cardinality(S) + 1
           /\ x \in S => Cardinality(S \ {x}) = Cardinality(S) - 1
           /\ Cardinality(S) = 0 => S = {}
<1>1. IsFiniteSet(S)
    BY IdsFinite, FS_Subset
<1> QED BY <1>1, FS_CardinalityType, FS_AddElement, FS_RemoveElement, FS_EmptySet

LEMMA NextIInv == IInv /\ [Next]_vars => IInv'
<1> SUFFICES ASSUME IInv, [Next]_vars PROVE IInv'
    OBVIOUS
<1>t. TypeInv'
    BY NextTypeInv DEF IInv
<1>0. Started \subseteq Ids /\ Collected \subseteq Posted /\ Posted \subseteq Started
    BY DEF IInv, Places, Started, Posted
<1>1. ASSUME NEW i \in Ids, WorkerPost(i) PROVE IInv'
  <2>1. PICK c \in Completions : c.id = i /\ chan' = Append(chan, c)
      BY <1>1 DEF WorkerPost, Completions, CatchUnwind, Outcomes
  <2>2. /\ i \in Started /\ i \notin Posted
        /\ Started' = Started /\ Posted' = Posted \cup {i}
        /\ Collected' = Collected /\ HeldIds' = HeldIds
      BY <1>1 DEF WorkerPost, Started, Posted, Collected, HeldIds, IInv, TypeInv
  <2>3. i \notin IdsOf(chan) /\ i \notin HeldIds /\ i \notin Collected
      BY <2>2 DEF IInv, Places
  <2>4. IdsOf(chan)' = IdsOf(chan) \cup {i} /\ DistinctIds(chan)'
      BY <2>1, <2>3, IdsOfAppend DEF IInv, TypeInv, Places
  <2>5. Places'
      BY <1>1, <2>2, <2>3, <2>4 DEF IInv, Places, WorkerPost, Collected
  <2>6. Ledger'
      BY <1>1, <2>2 DEF IInv, Ledger, WorkerPost
  <2>7. Handles'
      BY <1>1, <2>2, <2>3 DEF IInv, TypeInv, Handles, WorkerPost
  <2>8. Count'
      BY <1>1, <2>2 DEF IInv, Count, WorkerPost
  <2>9. Returning'
      BY <1>1 DEF IInv, Returning, ReturnsAreHonest, WorkerPost
  <2> QED BY <1>t, <2>5, <2>6, <2>7, <2>8, <2>9 DEF IInv
<1>2. ASSUME NEW i \in Ids, WorkerExit(i) PROVE IInv'
  <2>1. UNCHANGED << Started, Posted, Collected, HeldIds >>
      BY <1>2 DEF WorkerExit, Started, Posted, Collected, HeldIds, IInv, TypeInv
  <2>2. Places'
      BY <1>2, <2>1 DEF IInv, Places, WorkerExit
  <2>3. Ledger'
      BY <1>2, <2>1 DEF IInv, Ledger, WorkerExit
  <2>4. Handles'
      BY <1>2, <2>1 DEF IInv, TypeInv, Handles, WorkerExit
  <2>5. Count'
      BY <1>2, <2>1 DEF IInv, Count, WorkerExit
  <2>6. Returning'
      BY <1>2 DEF IInv, Returning, ReturnsAreHonest, WorkerExit
  <2> QED BY <1>t, <2>2, <2>3, <2>4, <2>5, <2>6 DEF IInv
<1>3. CASE AddCall
  <2>1. /\ UNCHANGED << Started, Posted, Collected, HeldIds >>
        /\ next_id \in Ids
        /\ {i \in Ids : i < next_id'} = {i \in Ids : i < next_id} \cup {next_id}
      BY <1>3, MaxTransfersAssumption
         DEF AddCall, Started, Posted, Collected, HeldIds, IInv, TypeInv, Ids
  <2>2. Places'
      BY <1>3, <2>1 DEF IInv, Places, AddCall
  <2>3. Ledger'
    <3>1. next_id \notin {i \in Ids : i < next_id}
        BY DEF IInv, TypeInv
    <3> QED BY <1>3, <2>1, <3>1 DEF IInv, Ledger, AddCall
  <2>4. Handles'
      BY <1>3, <2>1 DEF IInv, Handles, AddCall
  <2>5. Count'
      BY <1>3, <2>1 DEF IInv, Count, AddCall
  <2>6. Returning'
      BY <1>3 DEF IInv, Returning, ReturnsAreHonest, AddCall, Afters
  <2> QED BY <1>t, <2>2, <2>3, <2>4, <2>5, <2>6 DEF IInv
<1>4. ASSUME NEW i \in Ids, RemoveCall(i) PROVE IInv'
  <2>1. UNCHANGED << Started, Posted, Collected, HeldIds >>
      BY <1>4 DEF RemoveCall, Started, Posted, Collected, HeldIds
  <2>2. Places'
      BY <1>4, <2>1 DEF IInv, Places, RemoveCall
  <2>3. Ledger'
      BY <1>4, <2>1 DEF IInv, Ledger, RemoveCall
  <2>4. Handles'
      BY <1>4, <2>1 DEF IInv, Handles, RemoveCall
  <2>5. Count'
      BY <1>4, <2>1 DEF IInv, Count, RemoveCall
  <2>6. Returning'
      BY <1>4 DEF IInv, Returning, ReturnsAreHonest, RemoveCall, Afters
  <2> QED BY <1>t, <2>2, <2>3, <2>4, <2>5, <2>6 DEF IInv
<1>5. ASSUME NEW o \in Ops \ {"none"}, Call(o) PROVE IInv'
  <2>1. Places' /\ Ledger' /\ Count' /\ Handles'
      BY <1>5, ControlStep DEF Call
  <2>2. Returning'
      BY <1>5 DEF IInv, Returning, ReturnsAreHonest, Call, Afters
  <2> QED BY <1>t, <2>1, <2>2 DEF IInv
<1>6. CASE Spawn
  <2>1. PICK i \in pending : /\ pending' = pending \ {i}
                             /\ thread' = [thread EXCEPT ![i] = "sending"]
                             /\ workers' = workers \cup {i}
      BY <1>6 DEF Spawn
  <2>2. i \in Ids /\ i \notin Started /\ i \notin Posted /\ i \notin Collected
      BY <1>0 DEF IInv, TypeInv, Ledger
  <2>3. /\ Started' = Started \cup {i} /\ Posted' = Posted
        /\ Collected' = Collected /\ HeldIds' = HeldIds
      BY <1>6, <2>1, <2>2
         DEF Spawn, Started, Posted, Collected, HeldIds, IInv, TypeInv
  <2>4. Places'
      BY <1>6, <2>3 DEF IInv, Places, Spawn
  <2>5. Ledger'
      BY <1>6, <2>1, <2>3 DEF IInv, Ledger, Spawn
  <2>6. Handles'
      BY <1>6, <2>1, <2>2, <2>3 DEF IInv, TypeInv, Handles, Spawn
  <2>7. Count'
    <3>1. (Started \ Collected)' = (Started \ Collected) \cup {i}
        BY <2>2, <2>3
    <3> QED BY <1>0, <1>6, <2>2, <3>1, CountStep DEF IInv, Count, Spawn
  <2>8. Returning'
      BY <1>6 DEF IInv, Returning, ReturnsAreHonest, Spawn, Afters
  <2> QED BY <1>t, <2>4, <2>5, <2>6, <2>7, <2>8 DEF IInv
<1>7. CASE SpawnDone
  <2>1. Places' /\ Ledger' /\ Count' /\ Handles'
      BY <1>7, ControlStep DEF SpawnDone
  <2>2. Returning'
      BY <1>7 DEF IInv, Returning, ReturnsAreHonest, SpawnDone, Afters
  <2> QED BY <1>t, <2>1, <2>2 DEF IInv
<1>8. CASE TryRecv
  <2>1. Places' /\ Ledger' /\ Count' /\ Handles'
      BY <1>8, TakeStep DEF TryRecv
  <2>2. Returning'
      BY <1>8 DEF IInv, Returning, ReturnsAreHonest, TryRecv, Afters
  <2> QED BY <1>t, <2>1, <2>2 DEF IInv
<1>9. CASE TryRecvEmpty
  <2>1. Places' /\ Ledger' /\ Count' /\ Handles'
      BY <1>9, ControlStep DEF TryRecvEmpty, IInv, TypeInv, Afters
  <2>2. Returning'
      BY <1>9 DEF IInv, TypeInv, Returning, ReturnsAreHonest, TryRecvEmpty, Afters
  <2> QED BY <1>t, <2>1, <2>2 DEF IInv
<1>10. CASE JoinWorker
  <2> DEFINE h == held.id
  <2>1. /\ held \in Completions /\ h \in Ids
        /\ HeldIds = {h} /\ HeldIds' = {}
        /\ UNCHANGED << Started, Posted >>
      BY <1>10 DEF JoinWorker, HeldIds, Started, Posted, IInv, TypeInv, Completions
  <2>2. /\ h \in Posted
        /\ h \notin IdsOf(chan) /\ h \notin IdsOf(ready) /\ h \notin IdsOf(delivered)
      BY <2>1 DEF IInv, Places
  <2>3. IdsOf(ready)' = IdsOf(ready) \cup {h} /\ DistinctIds(ready)'
      BY <1>10, <2>1, <2>2, IdsOfAppend DEF JoinWorker, IInv, TypeInv, Places
  <2>4. /\ Collected' = Collected \cup {h}
        /\ h \in Started \ Collected
        /\ h \in workers
        /\ thread[h] = "exited"
      BY <1>0, <1>10, <2>2, <2>3 DEF JoinWorker, Collected, IInv, Handles
  <2>5. Places'
      BY <1>10, <2>1, <2>2, <2>3, <2>4 DEF IInv, Places, JoinWorker, Collected
  <2>6. Ledger'
      BY <1>10, <2>1 DEF IInv, Ledger, JoinWorker
  <2>7. Handles'
      BY <1>10, <2>1, <2>4 DEF IInv, Handles, JoinWorker
  <2>8. Count'
    <3>1. (Started \ Collected)' = (Started \ Collected) \ {h}
        BY <2>1, <2>4
    <3> QED BY <1>0, <1>10, <2>1, <2>4, <3>1, CountStep DEF IInv, Count, JoinWorker
  <2>9. Returning'
    <3>1. ready' # << >>
        BY <1>10, <2>1 DEF JoinWorker, IInv, TypeInv
    <3> QED BY <1>10, <3>1 DEF IInv, Returning, ReturnsAreHonest, JoinWorker, Afters
  <2> QED BY <1>t, <2>5, <2>6, <2>7, <2>8, <2>9 DEF IInv
<1>11. CASE Performed
  <2>1. Places' /\ Ledger' /\ Count' /\ Handles'
      BY <1>11, ControlStep DEF Performed
  <2>2. Returning'
      BY <1>11 DEF IInv, Returning, ReturnsAreHonest, Performed, Afters
  <2> QED BY <1>t, <2>1, <2>2 DEF IInv
<1>12. CASE Pop
  <2> DEFINE h == Head(ready).id
  <2>1. Head(ready) \in Completions /\ HeldIds = {} /\ HeldIds' = {}
      BY <1>12, HeadTail DEF Pop, HeldIds, IInv, TypeInv
  <2>2. /\ h \in IdsOf(ready) /\ h \notin IdsOf(delivered)
        /\ IdsOf(ready)' = IdsOf(ready) \ {h} /\ DistinctIds(ready)'
      BY <1>12, IdsOfTail DEF Pop, IInv, TypeInv, Places
  <2>3. IdsOf(delivered)' = IdsOf(delivered) \cup {h} /\ DistinctIds(delivered)'
      BY <1>12, <2>1, <2>2, IdsOfAppend DEF Pop, IInv, TypeInv, Places
  <2>4. UNCHANGED << Started, Posted, Collected >>
      BY <1>12, <2>2, <2>3 DEF Pop, Started, Posted, Collected
  <2>5. Places'
      BY <1>12, <2>1, <2>2, <2>3, <2>4 DEF IInv, Places, Pop
  <2>6. Ledger'
      BY <1>12, <2>4 DEF IInv, Ledger, Pop
  <2>7. Handles'
      BY <1>12, <2>4 DEF IInv, Handles, Pop
  <2>8. Count'
      BY <1>12, <2>4 DEF IInv, Count, Pop
  <2>9. Returning'
      BY <1>12 DEF IInv, Returning, ReturnsAreHonest, Pop, Afters
  <2> QED BY <1>t, <2>5, <2>6, <2>7, <2>8, <2>9 DEF IInv
<1>13. CASE PopNone
  <2>1. /\ Places' /\ Ledger' /\ Count' /\ Handles'
        /\ UNCHANGED << Started, Collected >>
      BY <1>13, ControlStep DEF PopNone
  <2>2. ASSUME op = "wait_all", running = 0
        PROVE  \A i \in 0 .. next_id - 1 : i \in removed \cup IdsOf(delivered)
    <3>1. Cardinality(Started \ Collected) = 0 /\ Started \ Collected \in SUBSET Ids
        BY <1>0, <2>2 DEF IInv, Count
    <3>2. Started \ Collected = {}
        BY <1>0, <3>1, IdsFinite, FS_Subset, FS_EmptySet
    <3>3. Collected = IdsOf(delivered)
        BY <1>13, EmptyIds DEF PopNone, Collected
    <3>4. pending = {}
        BY <1>13, <2>2 DEF PopNone, IInv, Returning
    <3>5. \A i \in 0 .. next_id - 1 : i \in Ids /\ i < next_id
        BY MaxTransfersAssumption DEF IInv, TypeInv, Ids
    <3> QED BY <3>2, <3>3, <3>4, <3>5 DEF IInv, Ledger
  <2>3. running \in Nat
      BY <1>0, IdsFinite, FS_Subset, FS_CardinalityType DEF IInv, Count
  <2>4. Returning'
    <3>1. CASE op = "wait_all" /\ running = 0
        BY <1>13, <2>2, <3>1 DEF IInv, Returning, ReturnsAreHonest, PopNone, Afters
    <3>2. CASE ~(op = "wait_all" /\ running = 0)
        BY <1>13, <2>3, <3>2 DEF IInv, Returning, ReturnsAreHonest, PopNone, Afters
    <3> QED BY <3>1, <3>2
  <2> QED BY <1>t, <2>1, <2>4 DEF IInv
<1>14. CASE PollCheck
  <2>1. Places' /\ Ledger' /\ Count' /\ Handles'
      BY <1>14, ControlStep DEF PollCheck, PollReturns
  <2>2. Returning'
      BY <1>14 DEF IInv, Returning, ReturnsAreHonest, PollCheck, PollReturns, Afters
  <2> QED BY <1>t, <2>1, <2>2 DEF IInv
<1>15. CASE Recv
  <2>1. Places' /\ Ledger' /\ Count' /\ Handles'
      BY <1>15, TakeStep DEF Recv
  <2>2. Returning'
      BY <1>15 DEF IInv, Returning, ReturnsAreHonest, Recv, Afters
  <2> QED BY <1>t, <2>1, <2>2 DEF IInv
<1>16. CASE RecvTimeout
  <2>1. Places' /\ Ledger' /\ Count' /\ Handles'
      BY <1>16, ControlStep DEF RecvTimeout, PollReturns
  <2>2. Returning'
      BY <1>16 DEF IInv, Returning, ReturnsAreHonest, RecvTimeout, PollReturns, Afters
  <2> QED BY <1>t, <2>1, <2>2 DEF IInv
<1>17. CASE PollTrue
  <2>1. Places' /\ Ledger' /\ Count' /\ Handles'
      BY <1>17, ControlStep DEF PollTrue, PollReturns
  <2>2. ready # << >>
      BY <1>17 DEF PollTrue, IInv, Returning, Afters
  <2>3. Returning'
      BY <1>17, <2>2
         DEF IInv, Returning, ReturnsAreHonest, PollTrue, PollReturns, Afters
  <2> QED BY <1>t, <2>1, <2>3 DEF IInv
<1>18. CASE DropCall
  <2>1. Places' /\ Ledger' /\ Count' /\ Handles'
      BY <1>18, ControlStep DEF DropCall
  <2>2. Returning'
      BY <1>18 DEF IInv, Returning, ReturnsAreHonest, DropCall, Afters
  <2> QED BY <1>t, <2>1, <2>2 DEF IInv
<1>19. CASE DropJoin
  <2>1. /\ Places' /\ Ledger' /\ Count'
        /\ UNCHANGED << Started, Collected >>
    <3>1. UNCHANGED << Started, Posted, Collected, HeldIds >>
        BY <1>19 DEF DropJoin, Started, Posted, Collected, HeldIds
    <3> QED BY <1>19, <3>1 DEF DropJoin, IInv, Places, Ledger, Count
  <2>2. Handles'
      BY <1>19, <2>1 DEF IInv, Handles, DropJoin
  <2>3. Returning'
      BY <1>19 DEF IInv, Returning, ReturnsAreHonest, DropJoin, Afters
  <2> QED BY <1>t, <2>1, <2>2, <2>3 DEF IInv
<1>20. CASE UNCHANGED vars
  <2>1. UNCHANGED << Started, Posted, Collected, HeldIds >>
      BY <1>20 DEF vars, Started, Posted, Collected, HeldIds
  <2> QED BY <1>20, <2>1, <1>t
          DEF vars, IInv, Places, Ledger, Handles, Count, Returning, ReturnsAreHonest
<1> QED
    BY <1>1, <1>2, <1>3, <1>4, <1>5, <1>6, <1>7, <1>8, <1>9, <1>10, <1>11,
       <1>12, <1>13, <1>14, <1>15, <1>16, <1>17, <1>18, <1>19, <1>20
       DEF Next, Worker, InCall, Calls, Dropped

\* The invariant holds in every state of every behaviour.
THEOREM Invariance == Spec => []IInv
BY InitIInv, NextIInv, PTL DEF Spec

-----------------------------------------------------------------------------
(* What it implies: the properties of Multi, for any number of transfers. *)

\* Every variable of the driver keeps its type; in particular the `running`
\* counter, a usize, never wraps below zero.
THEOREM TypeSafety == Spec => []TypeOK
<1>1. IInv => TypeOK
  <2> SUFFICES ASSUME IInv PROVE TypeOK
      OBVIOUS
  <2>1. Started \subseteq Ids
      BY DEF Started
  <2>2. running \in Nat
      BY <2>1, IdsFinite, FS_Subset, FS_CardinalityType DEF IInv, Count
  <2> QED BY <2>2 DEF IInv, TypeInv, TypeOK
<1> QED BY <1>1, Invariance, PTL

\* No completion is duplicated, and none belongs to a transfer that was removed
\* or never started.
THEOREM CompletedOnce == Spec => []ExactlyOnce
<1>1. IInv => ExactlyOnce
  <2> SUFFICES ASSUME IInv PROVE ExactlyOnce
      OBVIOUS
  <2>1. \A i \in Posted : /\ thread[i] \in {"posted", "exited"}
                          /\ i \notin removed \cup pending
      BY DEF IInv, Ledger, Started, Posted
  <2> QED BY <2>1 DEF IInv, Places, Collected, ExactlyOnce
<1> QED BY <1>1, Invariance, PTL

\* No posted completion is lost on its way from the channel to the caller.
THEOREM CompletionsKept == Spec => []NoneLost
<1>1. IInv => NoneLost
    BY DEF IInv, Places, Posted, Collected, NoneLost
<1> QED BY <1>1, Invariance, PTL

\* The `running` counter is exact at every step, so poll blocks only when a
\* completion is still to come.
THEOREM CounterExact == Spec => []RunningCount
<1>1. IInv => RunningCount
    BY DEF IInv, Count, Started, Collected, RunningCount
<1> QED BY <1>1, Invariance, PTL

\* poll's TRUE and the end of wait_all mean what their documentation says.
THEOREM HonestReturns == Spec => []ReturnsAreHonest
<1>1. IInv => ReturnsAreHonest
    BY DEF IInv, Returning
<1> QED BY <1>1, Invariance, PTL

\* Once Drop has returned no worker thread is left running.
THEOREM DropJoinsAll == Spec => []NoThreadOutlivesHandle
<1>1. IInv => NoThreadOutlivesHandle
  <2> SUFFICES ASSUME IInv, pc = "dropped", NEW i \in Ids
               PROVE  thread[i] \in {"none", "exited"}
      BY DEF NoThreadOutlivesHandle
  <2> QED BY DEF IInv, Handles, Started
<1> QED BY <1>1, Invariance, PTL

\* The books of the handle are right in every reachable state, for any number
\* of transfers: what the run `multi` checks for three.
THEOREM BooksBalance == Spec => []HandleSound
BY CompletedOnce, CompletionsKept, CounterExact, DropJoinsAll, PTL DEF HandleSound

-----------------------------------------------------------------------------
(* TempBlob. *)

-----------------------------------------------------------------------------
(* The inductive invariant. *)

Threads == [pc : {"rest", "look", "excl", "grow", "read"}, at : Nat, buf : Seq(Nat), len : Nat]

Data == Seq(Nat)
ThreadTable == [BlobThreads -> Threads]
MayTable == [1 .. MaxLen -> SUBSET Nat]
Wants == Seq(SUBSET Nat)

Blobs == [on : BOOLEAN, file : BOOLEAN, data : Data, len : Nat, pos : Nat, names : Nat,
          th : ThreadTable, may : MayTable, done : Nat, got : Data, want : Wants,
          ops : Int, faults : Nat]

\* Each byte that is there is one it may be, and one that is not may be zero.
Bytes(data, may) ==
    /\ Len(data) <= MaxLen
    /\ \A i \in 1 .. Len(data) : data[i] \in may[i]
    /\ \A i \in Len(data) + 1 .. MaxLen : 0 \in may[i]

\* A thread that writes has announced its bytes; before it makes them count they
\* are in the blob.  A thread that reads has looked at a length that still stands.
ThreadOK(b, w) ==
    /\ w.pc \in {"rest", "read"} => w.buf = << >>
    /\ w.pc \in {"look", "excl", "grow"} => w.at + Len(w.buf) <= MaxLen
    /\ \A i \in Range0(w) : w.buf[i - w.at] \in b.may[i]
    /\ w.pc = "grow" => /\ w.at + Len(w.buf) <= Len(b.data)
                        /\ \A i \in Range0(w) : b.data[i] = w.buf[i - w.at]
    /\ w.pc = "read" => w.at < w.len /\ w.len <= b.len

Answered(b) == Len(b.got) = Len(b.want) /\ \A i \in 1 .. Len(b.got) : b.got[i] \in b.want[i]

BlobInv(b) ==
    /\ b \in Blobs
    /\ b.len = b.done /\ b.len <= Len(b.data)
    /\ Bytes(b.data, b.may)
    /\ \A t \in BlobThreads : ThreadOK(b, b.th[t])
    /\ \A t, u \in BlobThreads : t # u => Range0(b.th[t]) \cap Range0(b.th[u]) = {}
    /\ Answered(b)
    /\ b.names <= b.faults

-----------------------------------------------------------------------------
\* p is data with the bytes of buf at `at`, over zeros where there was nothing.
Patched(p, data, at, buf) ==
    /\ p \in Seq(Nat)
    /\ Len(p) >= Len(data) /\ Len(p) >= at + Len(buf)
    /\ Len(p) = Len(data) \/ Len(p) = at + Len(buf)
    /\ \A i \in at + 1 .. at + Len(buf) : p[i] = buf[i - at]
    /\ \A i \in 1 .. Len(data) : i \notin at + 1 .. at + Len(buf) => p[i] = data[i]
    /\ \A i \in Len(data) + 1 .. Len(p) : i \notin at + 1 .. at + Len(buf) => p[i] = 0

\* What Patch computes, byte by byte.
LEMMA PatchFacts ==
    ASSUME NEW data \in Seq(Nat), NEW at \in Nat, NEW buf \in Seq(Nat)
    PROVE  Patched(Patch(data, at, buf), data, at, buf)
<1> DEFINE n == IF at + Len(buf) > Len(data) THEN at + Len(buf) ELSE Len(data)
           e(i) == IF i \in at + 1 .. at + Len(buf) THEN buf[i - at]
                   ELSE IF i <= Len(data) THEN data[i] ELSE 0
<1>1. n \in Nat /\ n >= Len(data) /\ n >= at + Len(buf) /\ (n = Len(data) \/ n = at + Len(buf))
  OBVIOUS
<1>2. ASSUME NEW i \in 1 .. n
      PROVE  e(i) \in Nat
  <2>1. CASE i \in at + 1 .. at + Len(buf)
    <3>1. i - at \in 1 .. Len(buf)
      BY <2>1
    <3>2. buf[i - at] \in Nat
      BY <3>1
    <3>3. QED
      BY <2>1, <3>2
  <2>2. CASE i \notin at + 1 .. at + Len(buf) /\ i <= Len(data)
    <3>1. i \in 1 .. Len(data)
      BY <2>2
    <3>2. data[i] \in Nat
      BY <3>1
    <3>3. QED
      BY <2>2, <3>2
  <2>3. QED
    BY <2>1, <2>2
<1>3. Patch(data, at, buf) = [i \in 1 .. n |-> e(i)]
  BY DEF Patch
<1> HIDE DEF n, e
<1>4. [i \in 1 .. n |-> e(i)] \in Seq(Nat) /\ Len([i \in 1 .. n |-> e(i)]) = n
  BY <1>1, <1>2
<1>5. \A i \in 1 .. n : [j \in 1 .. n |-> e(j)][i] = e(i)
  OBVIOUS
<1> DEFINE p == [i \in 1 .. n |-> e(i)]
<1> HIDE DEF p
<1>6. p \in Seq(Nat) /\ Len(p) = n /\ \A i \in 1 .. n : p[i] = e(i)
  BY <1>4, <1>5 DEF p
<1>7. Patched(p, data, at, buf)
  BY <1>1, <1>6 DEF e, Patched
<1>8. QED
  BY <1>3, <1>7 DEF p

\* A write puts its bytes there, and nothing else but the zeros before them.
LEMMA PatchKeeps ==
    ASSUME NEW data \in Seq(Nat), NEW at \in Nat, NEW buf \in Seq(Nat), NEW may,
           Bytes(data, may), at + Len(buf) <= MaxLen,
           \A i \in at + 1 .. at + Len(buf) : buf[i - at] \in may[i]
    PROVE  Bytes(Patch(data, at, buf), may)
<1> DEFINE p == Patch(data, at, buf)
<1>1. Patched(p, data, at, buf)
  BY PatchFacts
<1> HIDE DEF p
<1>4. p \in Seq(Nat) /\ Len(p) <= MaxLen
  BY <1>1, BlobAssumption DEF Bytes, Patched
<1>5. ASSUME NEW i \in 1 .. Len(p) PROVE p[i] \in may[i]
  <2>1. CASE i \in at + 1 .. at + Len(buf)
    BY <1>1, <2>1 DEF Patched
  <2>2. CASE i \notin at + 1 .. at + Len(buf) /\ i <= Len(data)
    <3>1. i \in 1 .. Len(data) /\ data[i] \in may[i]
      BY <2>2 DEF Bytes
    <3>2. QED
      BY <1>1, <2>2, <3>1 DEF Patched
  <2>3. CASE i \notin at + 1 .. at + Len(buf) /\ ~(i <= Len(data))
    <3>1. i \in Len(data) + 1 .. MaxLen
      BY <1>4, <2>3, BlobAssumption
    <3>2. p[i] = 0
      BY <1>1, <1>4, <2>3 DEF Patched
    <3>3. QED
      BY <3>1, <3>2 DEF Bytes
  <2>4. QED
    BY <2>1, <2>2, <2>3
<1>6. \A i \in Len(p) + 1 .. MaxLen : 0 \in may[i]
  BY <1>1, BlobAssumption DEF Bytes, Patched
<1>7. QED
  BY <1>4, <1>5, <1>6 DEF Bytes, p

-----------------------------------------------------------------------------
\* What the data part of a call leaves alone: everything but the backing, and of
\* the bytes all those outside R.
Same(b, c) ==
    /\ c.on = b.on /\ c.len = b.len /\ c.pos = b.pos /\ c.th = b.th /\ c.may = b.may
    /\ c.done = b.done /\ c.got = b.got /\ c.want = b.want /\ c.ops = b.ops

Kept(b, c, R) ==
    /\ c \in Blobs /\ Same(b, c)
    /\ Bytes(c.data, c.may)
    /\ Len(c.data) >= Len(b.data)
    /\ \A i \in 1 .. Len(b.data) : i \notin R => c.data[i] = b.data[i]
    /\ c.names <= c.faults

\* Two data parts one after the other, with the bytes of both left open.
LEMMA KeptTwice ==
    ASSUME NEW a \in Blobs, NEW b, NEW c, NEW R, Kept(a, b, R), Kept(b, c, R)
    PROVE  Kept(a, c, R)
<1>1. b \in Blobs /\ c \in Blobs
  BY DEF Kept
<1>2. a.data \in Seq(Nat) /\ b.data \in Seq(Nat) /\ c.data \in Seq(Nat)
  BY <1>1 DEF Blobs, Data
<1>3. Len(c.data) >= Len(a.data)
  BY <1>2 DEF Kept
<1>4. \A i \in 1 .. Len(a.data) : i \notin R => c.data[i] = a.data[i]
  BY <1>2 DEF Kept
<1>5. QED
  BY <1>3, <1>4 DEF Kept, Same

\* A positional write, or a part of it, is a patch of the data.
LEMMA WriteFrame ==
    ASSUME NEW b \in Blobs, NEW at \in Nat, NEW buf \in Seq(Nat), b.names <= b.faults,
           NEW r \in write_all_at(b, at, buf)
    PROVE  /\ r.b \in Blobs /\ Same(b, r.b) /\ r.b.file = b.file /\ r.b.names <= r.b.faults
           /\ r.ok \in BOOLEAN
           /\ r.ok => r.b.data = Patch(b.data, at, buf)
           /\ ~r.ok => \/ r.b.data = b.data
                       \/ \E n \in 1 .. Len(buf) - 1 : r.b.data = Patch(b.data, at, SubSeq(buf, 1, n))
<1>1. b.data \in Seq(Nat) /\ b.faults \in Nat /\ b.names \in Nat
  BY DEF Blobs, Data
<1>2. CASE r = [ok |-> TRUE, b |-> [b EXCEPT !.data = Patch(b.data, at, buf)]]
  <2> DEFINE p == Patch(b.data, at, buf)
  <2>1. p \in Data
    BY <1>1, PatchFacts DEF Patched, Data
  <2> HIDE DEF p
  <2>2. r.ok /\ r.ok \in BOOLEAN /\ r.b = [b EXCEPT !.data = p]
    BY <1>2 DEF p
  <2>3. r.b \in Blobs /\ r.b.data = p /\ r.b.names <= r.b.faults
    BY <2>1, <2>2 DEF Blobs
  <2>4. r.b.file = b.file
    BY <2>2 DEF Blobs
  <2>5. Same(b, r.b)
    BY <2>2 DEF Blobs, Same
  <2>6. QED
    BY <2>2, <2>3, <2>4, <2>5 DEF p
<1>3. ASSUME NEW n \in 0 .. Len(buf) - 1,
             r = [ok |-> FALSE, b |-> [Fault(b) EXCEPT !.data =
                     IF n = 0 THEN Fault(b).data ELSE Patch(Fault(b).data, at, SubSeq(buf, 1, n))]]
      PROVE  /\ r.b \in Blobs /\ Same(b, r.b) /\ r.b.file = b.file /\ r.b.names <= r.b.faults
             /\ ~r.ok /\ r.ok \in BOOLEAN
             /\ r.b.data = b.data \/ (r.b.data = Patch(b.data, at, SubSeq(buf, 1, n)) /\ n # 0)
  <2> DEFINE p == IF n = 0 THEN b.data ELSE Patch(b.data, at, SubSeq(buf, 1, n))
  <2>1. SubSeq(buf, 1, n) \in Seq(Nat)
    OBVIOUS
  <2>2. p \in Data
    BY <1>1, <2>1, PatchFacts DEF Patched, Data
  <2>3. ~r.ok /\ r.ok \in BOOLEAN /\ r.b = [b EXCEPT !.faults = b.faults + 1, !.data = p]
    BY <1>3 DEF Fault, Blobs
  <2>4. p = b.data \/ (p = Patch(b.data, at, SubSeq(buf, 1, n)) /\ n # 0)
    OBVIOUS
  <2> HIDE DEF p
  <2>5. b.faults + 1 \in Nat /\ b.names <= b.faults + 1
    BY <1>1
  <2>6. r.b \in Blobs /\ r.b.data = p /\ r.b.names <= r.b.faults
    BY <2>2, <2>3, <2>5 DEF Blobs
  <2>7. r.b.file = b.file
    BY <2>3 DEF Blobs
  <2>8. Same(b, r.b)
    BY <2>3 DEF Blobs, Same
  <2>9. QED
    BY <2>3, <2>4, <2>6, <2>7, <2>8
<1>4. QED
  BY <1>2, <1>3 DEF write_all_at

\* A positional write changes its range only, and a failed one puts nothing there
\* that was not announced.
LEMMA WriteKeeps ==
    ASSUME NEW b \in Blobs, NEW at \in Nat, NEW buf \in Seq(Nat),
           Bytes(b.data, b.may), b.names <= b.faults,
           at + Len(buf) <= MaxLen,
           \A i \in at + 1 .. at + Len(buf) : buf[i - at] \in b.may[i],
           NEW r \in write_all_at(b, at, buf)
    PROVE  /\ Kept(b, r.b, at + 1 .. at + Len(buf))
           /\ r.ok \in BOOLEAN
           /\ r.ok => /\ at + Len(buf) <= Len(r.b.data)
                      /\ \A i \in at + 1 .. at + Len(buf) : r.b.data[i] = buf[i - at]
<1>1. b.data \in Seq(Nat)
  BY DEF Blobs, Data
<1>2. /\ r.b \in Blobs /\ Same(b, r.b) /\ r.b.names <= r.b.faults
      /\ r.ok \in BOOLEAN
  BY WriteFrame
<1>3. r.b.may = b.may
  BY <1>2 DEF Same
<1>4. CASE r.ok
  <2>1. r.b.data = Patch(b.data, at, buf)
    BY <1>4, WriteFrame
  <2>2. Bytes(r.b.data, b.may) /\ Patched(r.b.data, b.data, at, buf)
    BY <1>1, <2>1, PatchKeeps, PatchFacts
  <2>3. QED
    BY <1>2, <1>3, <2>2 DEF Kept, Patched
<1>5. CASE ~r.ok /\ r.b.data = b.data
  BY <1>1, <1>2, <1>3, <1>5 DEF Kept
<1>6. ASSUME ~r.ok, NEW n \in 1 .. Len(buf) - 1, r.b.data = Patch(b.data, at, SubSeq(buf, 1, n))
      PROVE  Kept(b, r.b, at + 1 .. at + Len(buf))
  <2> DEFINE part == SubSeq(buf, 1, n)
  <2>0. n \in Nat /\ n <= Len(buf)
    OBVIOUS
  <2>1. part \in Seq(Nat) /\ Len(part) = n /\ \A i \in 1 .. n : part[i] = buf[i]
    BY <2>0
  <2>2. r.b.data = Patch(b.data, at, part)
    BY <1>6
  <2> HIDE DEF part
  <2>3. at + Len(part) <= MaxLen
    BY <2>0, <2>1, BlobAssumption
  <2>4. ASSUME NEW i \in at + 1 .. at + Len(part) PROVE part[i - at] \in b.may[i]
    <3>1. i - at \in 1 .. n /\ i \in at + 1 .. at + Len(buf)
      BY <2>0, <2>1
    <3>2. QED
      BY <2>1, <3>1
  <2>5. Bytes(r.b.data, b.may) /\ Patched(r.b.data, b.data, at, part)
    BY <1>1, <2>1, <2>2, <2>3, <2>4, PatchKeeps, PatchFacts
  <2>6. \A i \in 1 .. Len(b.data) : i \notin at + 1 .. at + Len(buf) => r.b.data[i] = b.data[i]
    BY <2>0, <2>1, <2>5 DEF Patched
  <2>7. QED
    BY <1>2, <1>3, <2>5, <2>6 DEF Kept, Patched
<1>7. QED
  BY <1>2, <1>4, <1>5, <1>6, WriteFrame

\* Doing nothing keeps everything.
LEMMA SelfKept ==
    ASSUME NEW b \in Blobs, Bytes(b.data, b.may), b.names <= b.faults, NEW R
    PROVE  Kept(b, b, R)
BY DEF Kept, Blobs, Same

\* A spill moves the bytes and changes none of them, whatever fails.
LEMMA SpillKeeps ==
    ASSUME NEW b \in Blobs, Bytes(b.data, b.may), b.names <= b.faults, NEW s \in spill_locked(b), NEW R
    PROVE  Kept(b, s.b, R) /\ s.ok \in BOOLEAN /\ s.b.data = b.data /\ (s.ok => s.b.file)
<1>1. CASE b.file
  <2>1. s = [ok |-> TRUE, b |-> b]
    BY <1>1 DEF spill_locked
  <2>2. s.b = b /\ s.ok
    BY <2>1
  <2>3. QED
    BY <1>1, <2>2, SelfKept
<1>2. CASE ~b.file
  <2> DEFINE Made(f) == IF ~f.ok THEN {f}
                        ELSE {[ok |-> w.ok, b |-> [w.b EXCEPT !.file = w.ok, !.data = b.data]] :
                                w \in write_all_at([f.b EXCEPT !.data = <<>>], 0, b.data)}
  <2>1. PICK f \in anon_file(b) : s \in Made(f)
    BY <1>2 DEF spill_locked
  <2>2. /\ f.ok \in BOOLEAN /\ f.b \in Blobs /\ f.b.data = b.data /\ f.b.names <= f.b.faults
        /\ Same(b, f.b)
    <3>0. b.faults \in Nat /\ b.names \in Nat /\ b.faults + 1 \in Nat /\ b.names + 1 \in Nat
          /\ b.names <= b.faults + 1 /\ b.names + 1 <= b.faults + 1
      BY DEF Blobs
    <3> DEFINE c1 == [b EXCEPT !.faults = b.faults + 1]
               c2 == [b EXCEPT !.faults = b.faults + 1, !.names = b.names + 1]
    <3>1. f = [ok |-> TRUE, b |-> b] \/ f = [ok |-> FALSE, b |-> c1] \/ f = [ok |-> FALSE, b |-> c2]
      BY DEF anon_file, unnamed_file, Fault, Blobs
    <3>2. c1 \in Blobs /\ c1.data = b.data /\ c1.names <= c1.faults
      BY <3>0 DEF Blobs
    <3>3. Same(b, c1)
      BY DEF Blobs, Same
    <3>4. c2 \in Blobs /\ c2.data = b.data /\ c2.names <= c2.faults
      BY <3>0 DEF Blobs
    <3>5. Same(b, c2)
      BY DEF Blobs, Same
    <3>6. Same(b, b)
      BY DEF Same
    <3> HIDE DEF c1, c2
    <3>7. CASE f = [ok |-> TRUE, b |-> b]
      <4>1. f.ok /\ f.ok \in BOOLEAN /\ f.b = b
        BY <3>7
      <4>2. QED
        BY <4>1, <3>6
    <3>8. CASE f = [ok |-> FALSE, b |-> c1]
      <4>1. f.ok \in BOOLEAN /\ f.b = c1
        BY <3>8
      <4>2. QED
        BY <4>1, <3>2, <3>3
    <3>9. CASE f = [ok |-> FALSE, b |-> c2]
      <4>1. f.ok \in BOOLEAN /\ f.b = c2
        BY <3>9
      <4>2. QED
        BY <4>1, <3>4, <3>5
    <3>10. QED
      BY <3>1, <3>7, <3>8, <3>9
  <2>3. CASE ~f.ok
    <3>1. s = f
      BY <2>1, <2>3
    <3>2. s.b.may = b.may
      BY <2>2, <3>1 DEF Same
    <3>3. Bytes(s.b.data, s.b.may) /\ b.data \in Seq(Nat)
      BY <2>2, <3>1, <3>2 DEF Blobs, Data
    <3>4. Kept(b, s.b, R)
      BY <2>2, <3>1, <3>3 DEF Kept
    <3>5. QED
      BY <2>2, <2>3, <3>1, <3>4
  <2>4. CASE f.ok
    <3> DEFINE e == [f.b EXCEPT !.data = <<>>]
    <3>1. PICK w \in write_all_at(e, 0, b.data) :
             s = [ok |-> w.ok, b |-> [w.b EXCEPT !.file = w.ok, !.data = b.data]]
      BY <2>1, <2>4
    <3>2. e \in Blobs /\ e.names <= e.faults
      <4>1. << >> \in Data
        BY DEF Data
      <4>2. QED
        BY <2>2, <4>1 DEF Blobs
    <3>3. Same(b, e) /\ e.data = << >>
      BY <2>2 DEF Blobs, Same
    <3> HIDE DEF e
    <3>4. e.data \in Seq(Nat) /\ b.data \in Seq(Nat) /\ b.data \in Data
      BY <3>2 DEF Blobs, Data
    <3>5. w.ok \in BOOLEAN /\ w.b \in Blobs /\ Same(e, w.b) /\ w.b.names <= w.b.faults
      BY <3>2, <3>4, WriteFrame
    <3> DEFINE c == [w.b EXCEPT !.file = w.ok, !.data = b.data]
    <3>6. c \in Blobs /\ c.names <= c.faults /\ c.data = b.data
      BY <3>4, <3>5 DEF Blobs
    <3>7. c.file = w.ok
      BY <3>5 DEF Blobs
    <3>8. Same(w.b, c)
      BY <3>5 DEF Same, Blobs
    <3> HIDE DEF c
    <3>9. s.ok = w.ok /\ s.b = c
      BY <3>1 DEF c
    <3>10. Same(b, c) /\ c.may = b.may
      BY <3>3, <3>5, <3>8 DEF Same
    <3>11. Bytes(c.data, c.may)
      BY <3>6, <3>10
    <3>12. Kept(b, c, R)
      BY <3>4, <3>6, <3>10, <3>11 DEF Kept
    <3>13. QED
      BY <3>5, <3>6, <3>7, <3>9, <3>12
  <2>5. QED
    BY <2>2, <2>3, <2>4
<1>3. QED
  BY <1>1, <1>2 DEF Blobs

\* So does the spill that a write or a set_len asks for.
LEMMA SpillForKeeps ==
    ASSUME NEW b \in Blobs, Bytes(b.data, b.may), b.names <= b.faults, NEW end, NEW s \in SpillFor(b, end), NEW R
    PROVE  Kept(b, s.b, R) /\ s.ok \in BOOLEAN /\ s.b.data = b.data
<1>1. CASE s \in spill_locked(b)
  BY <1>1, SpillKeeps
<1>2. CASE s = [ok |-> TRUE, b |-> b]
  <2>1. s.ok /\ s.ok \in BOOLEAN /\ s.b = b
    BY <1>2
  <2>2. QED
    BY <2>1, SelfKept
<1>3. QED
  BY <1>1, <1>2 DEF SpillFor

-----------------------------------------------------------------------------
(* The threads. *)

\* Every part of the invariant but the bytes speaks only of what Kept keeps.
LEMMA ThreadsKept ==
    ASSUME NEW b, NEW c, NEW t \in BlobThreads, BlobInv(b), Kept(b, c, Range0(b.th[t]))
    PROVE  /\ c.len <= Len(c.data) /\ c.len = c.done
           /\ \A u \in BlobThreads \ {t} : ThreadOK(c, b.th[u])
           /\ Answered(c)
<1>1. b \in Blobs /\ c \in Blobs /\ Same(b, c)
  BY DEF BlobInv, Kept
<1>2. b.data \in Seq(Nat) /\ c.data \in Seq(Nat) /\ b.len \in Nat
  BY <1>1 DEF Blobs, Data
<1>3. c.len <= Len(c.data) /\ c.len = c.done
  BY <1>1, <1>2 DEF BlobInv, Kept, Same
<1>4. ASSUME NEW u \in BlobThreads \ {t} PROVE ThreadOK(c, b.th[u])
  <2> DEFINE w == b.th[u]
  <2>1. ThreadOK(b, w) /\ Range0(w) \cap Range0(b.th[t]) = {}
    BY DEF BlobInv
  <2>2. w \in Threads
    BY <1>1 DEF Blobs, ThreadTable
  <2> HIDE DEF w
  <2>3. w.at \in Nat /\ w.buf \in Seq(Nat)
    BY <2>2 DEF Threads
  <2>4. ASSUME w.pc = "grow"
        PROVE  /\ w.at + Len(w.buf) <= Len(c.data)
               /\ \A i \in Range0(w) : c.data[i] = w.buf[i - w.at]
    <3>1. w.at + Len(w.buf) <= Len(b.data) /\ Len(b.data) <= Len(c.data)
      BY <2>1, <2>4 DEF ThreadOK, Kept
    <3>2. ASSUME NEW i \in Range0(w) PROVE c.data[i] = w.buf[i - w.at]
      <4>0. i \notin Range0(b.th[t])
        BY <2>1
      <4>1. i \in 1 .. Len(b.data)
        BY <1>2, <2>3, <3>1 DEF Range0
      <4>2. QED
        BY <2>1, <2>4, <4>0, <4>1 DEF ThreadOK, Kept
    <3>3. QED
      BY <1>2, <2>3, <3>1, <3>2
  <2>5. c.may = b.may /\ c.len = b.len
    BY <1>1 DEF Same
  <2>6. ThreadOK(c, w)
    BY <2>1, <2>4, <2>5 DEF ThreadOK
  <2>7. QED
    BY <2>6 DEF w
<1>5. Answered(c)
  BY <1>1 DEF BlobInv, Answered, Same
<1>6. QED
  BY <1>3, <1>4, <1>5

\* The data part of write_at is over: the thread goes on to grow_to, its bytes
\* being there, or back to rest.
LEMMA AfterKeeps ==
    ASSUME NEW b, NEW t \in BlobThreads, BlobInv(b), b.th[t].pc \in {"look", "excl"},
           NEW r, r.ok \in BOOLEAN, Kept(b, r.b, Range0(b.th[t])),
           r.ok => /\ b.th[t].at + Len(b.th[t].buf) <= Len(r.b.data)
                   /\ \A i \in Range0(b.th[t]) : r.b.data[i] = b.th[t].buf[i - b.th[t].at]
    PROVE  BlobInv(After(t, r))
<1> DEFINE w == b.th[t]
           v == IF r.ok THEN [w EXCEPT !.pc = "grow"] ELSE AtRest
           c == r.b
           d == [c EXCEPT !.th = [c.th EXCEPT ![t] = v]]
<1>1. b \in Blobs /\ c \in Blobs /\ Same(b, c) /\ c.th = b.th /\ c.may = b.may
  BY DEF BlobInv, Kept, Same
<1>2. w \in Threads /\ c.th \in ThreadTable
  BY <1>1 DEF Blobs, ThreadTable
<1>3. v \in Threads
  BY <1>2 DEF Threads, AtRest
<1>4. After(t, r) = d
  BY <1>1 DEF After, Blobs, ThreadTable
<1>5. [c.th EXCEPT ![t] = v] \in ThreadTable
  BY <1>2, <1>3 DEF ThreadTable
<1>6. d \in Blobs
  BY <1>1, <1>5 DEF Blobs
<1>7. /\ d.data = c.data /\ d.may = c.may /\ d.len = c.len /\ d.done = c.done /\ d.got = c.got
      /\ d.want = c.want /\ d.names = c.names /\ d.faults = c.faults
      /\ d.th = [c.th EXCEPT ![t] = v]
  BY <1>1 DEF Blobs
<1>8. d.th[t] = v /\ \A u \in BlobThreads \ {t} : d.th[u] = b.th[u]
  BY <1>1, <1>2, <1>7 DEF ThreadTable
<1>9. /\ c.len <= Len(c.data) /\ c.len = c.done
      /\ \A u \in BlobThreads \ {t} : ThreadOK(c, b.th[u])
      /\ Answered(c)
  BY ThreadsKept
<1>10. ThreadOK(b, w)
  BY DEF BlobInv
<1>11. ThreadOK(d, v)
  <2>1. CASE r.ok
    <3>1. v.pc = "grow" /\ v.at = w.at /\ v.buf = w.buf /\ v.len = w.len
      BY <1>2, <2>1 DEF Threads
    <3>2. Range0(v) = Range0(w)
      BY <3>1 DEF Range0
    <3>3. QED
      BY <1>1, <1>7, <1>10, <2>1, <3>1, <3>2 DEF ThreadOK
  <2>2. CASE ~r.ok
    <3>1. v.pc = "rest" /\ v.buf = << >> /\ v.at = 0
      BY <2>2 DEF AtRest
    <3>2. Range0(v) = {}
      BY <3>1 DEF Range0
    <3>3. QED
      BY <3>1, <3>2 DEF ThreadOK
  <2>3. QED
    BY <2>1, <2>2
<1>12. Range0(v) \subseteq Range0(w)
  <2>1. CASE r.ok
    BY <1>2, <2>1 DEF Threads, Range0
  <2>2. CASE ~r.ok
    <3>1. v.buf = << >> /\ v.at = 0
      BY <2>2 DEF AtRest
    <3>2. QED
      BY <3>1 DEF Range0
  <2>3. QED
    BY <2>1, <2>2
<1> HIDE DEF d, v, w
<1>13. ASSUME NEW u \in BlobThreads PROVE ThreadOK(d, d.th[u])
  <2>1. CASE u = t
    BY <1>8, <1>11, <2>1
  <2>2. CASE u # t
    BY <1>7, <1>8, <1>9, <2>2 DEF ThreadOK
  <2>3. QED
    BY <2>1, <2>2
<1>14. ASSUME NEW u \in BlobThreads, NEW x \in BlobThreads, u # x
       PROVE  Range0(d.th[u]) \cap Range0(d.th[x]) = {}
  <2>1. \A y \in BlobThreads : Range0(d.th[y]) \subseteq Range0(b.th[y])
    BY <1>8, <1>12 DEF w
  <2>2. Range0(b.th[u]) \cap Range0(b.th[x]) = {}
    BY <1>14 DEF BlobInv
  <2>3. QED
    BY <2>1, <2>2
<1>15. Bytes(d.data, d.may) /\ d.names <= d.faults
  BY <1>7 DEF Kept
<1>16. Answered(d)
  BY <1>7, <1>9 DEF Answered
<1>17. BlobInv(d)
  BY <1>6, <1>7, <1>9, <1>13, <1>14, <1>15, <1>16 DEF BlobInv
<1>18. QED
  BY <1>4, <1>17

\* A write is begun: its bytes are announced.
LEMMA BeginKeeps ==
    ASSUME BlobInv(blob), NEW t \in BlobThreads, NEW at \in Nat, NEW buf \in Seq(Nat),
           at + Len(buf) <= MaxLen, Begin(t, at, buf)
    PROVE  BlobInv(blob')
<1> DEFINE v == [AtRest EXCEPT !.pc = "look", !.at = at, !.buf = buf]
           m == [i \in 1 .. MaxLen |-> IF i \in at + 1 .. at + Len(buf)
                                       THEN blob.may[i] \cup {buf[i - at]} ELSE blob.may[i]]
           th == [blob.th EXCEPT ![t] = v]
<1>1. blob \in Blobs /\ blob.may \in MayTable /\ blob.th \in ThreadTable /\ blob.ops \in Int
  BY DEF BlobInv, Blobs
<1>2. blob' = [blob EXCEPT !.th = th, !.ops = blob.ops + 1, !.may = m]
  BY <1>1 DEF Begin, Blobs
<1>3. v \in Threads /\ v.pc = "look" /\ v.at = at /\ v.buf = buf
  BY DEF Threads, AtRest
<1>4. th \in ThreadTable /\ th[t] = v /\ \A u \in BlobThreads \ {t} : th[u] = blob.th[u]
  BY <1>1, <1>3 DEF ThreadTable
<1>5. m \in MayTable
  <2>1. ASSUME NEW i \in 1 .. MaxLen
        PROVE  (IF i \in at + 1 .. at + Len(buf) THEN blob.may[i] \cup {buf[i - at]} ELSE blob.may[i]) \in SUBSET Nat
    <3>1. blob.may[i] \in SUBSET Nat
      BY <1>1 DEF MayTable
    <3>2. i \in at + 1 .. at + Len(buf) => buf[i - at] \in Nat
      <4>1. i \in at + 1 .. at + Len(buf) => i - at \in 1 .. Len(buf)
        BY BlobAssumption
      <4>2. QED
        BY <4>1
    <3>3. QED
      BY <3>1, <3>2
  <2>2. QED
    BY <2>1 DEF MayTable
<1>6. \A i \in 1 .. MaxLen : blob.may[i] \subseteq m[i]
  OBVIOUS
<1>7. \A i \in at + 1 .. at + Len(buf) : i \in 1 .. MaxLen /\ buf[i - at] \in m[i]
  BY BlobAssumption
<1> HIDE DEF v, m, th
<1>8. blob.ops + 1 \in Int
  BY <1>1
<1>9. blob' \in Blobs
  BY <1>1, <1>2, <1>4, <1>5, <1>8 DEF Blobs
<1>10. /\ blob'.data = blob.data /\ blob'.len = blob.len /\ blob'.done = blob.done
       /\ blob'.got = blob.got /\ blob'.want = blob.want
       /\ blob'.names = blob.names /\ blob'.faults = blob.faults
       /\ blob'.th = th /\ blob'.may = m
  BY <1>1, <1>2 DEF Blobs
<1>11. blob.data \in Seq(Nat)
  BY <1>1 DEF Blobs, Data
<1>12. Bytes(blob'.data, blob'.may)
  <2>1. ASSUME NEW i \in 1 .. Len(blob.data) PROVE blob.data[i] \in m[i]
    <3>1. i \in 1 .. MaxLen /\ blob.data[i] \in blob.may[i]
      BY <1>11, BlobAssumption DEF BlobInv, Bytes
    <3>2. QED
      BY <1>6, <3>1
  <2>2. ASSUME NEW i \in Len(blob.data) + 1 .. MaxLen PROVE 0 \in m[i]
    <3>1. i \in 1 .. MaxLen /\ 0 \in blob.may[i]
      BY <1>11, BlobAssumption DEF BlobInv, Bytes
    <3>2. QED
      BY <1>6, <3>1
  <2>3. QED
    BY <1>10, <2>1, <2>2 DEF BlobInv, Bytes
<1>13. Range0(v) = at + 1 .. at + Len(buf)
  BY <1>3 DEF Range0
<1>14. ASSUME NEW u \in BlobThreads PROVE ThreadOK(blob', th[u])
  <2>1. CASE u = t
    <3>1. th[u] = v
      BY <1>4, <2>1
    <3>2. QED
      BY <1>3, <1>7, <1>10, <1>13, <3>1 DEF ThreadOK
  <2>2. CASE u # t
    <3> DEFINE w == blob.th[u]
    <3>1. th[u] = w /\ ThreadOK(blob, w)
      BY <1>4, <2>2 DEF BlobInv
    <3>2. w \in Threads
      BY <1>1 DEF ThreadTable
    <3> HIDE DEF w
    <3>3. ASSUME NEW i \in Range0(w) PROVE w.buf[i - w.at] \in m[i]
      <4>1. w.at \in Nat /\ w.buf \in Seq(Nat) /\ w.at + Len(w.buf) <= MaxLen
        <5>1. w.at \in Nat /\ w.buf \in Seq(Nat) /\ w.pc \in {"rest", "look", "excl", "grow", "read"}
          BY <3>2 DEF Threads
        <5>2. w.buf # << >>
          BY <5>1 DEF Range0
        <5>3. QED
          BY <3>1, <5>1, <5>2 DEF ThreadOK
      <4>2. i \in 1 .. MaxLen
        BY <4>1, BlobAssumption DEF Range0
      <4>3. QED
        BY <1>6, <3>1, <4>2 DEF ThreadOK
    <3>4. QED
      BY <1>10, <3>1, <3>3 DEF ThreadOK
  <2>3. QED
    BY <2>1, <2>2
<1>15. ASSUME NEW u \in BlobThreads, NEW x \in BlobThreads, u # x
       PROVE  Range0(th[u]) \cap Range0(th[x]) = {}
  <2>1. \A y \in BlobThreads : Range0(blob.th[y]) \cap Range0(v) = {}
    BY <1>13 DEF Begin
  <2>2. Range0(blob.th[u]) \cap Range0(blob.th[x]) = {}
    BY <1>15 DEF BlobInv
  <2>3. QED
    BY <1>4, <1>15, <2>1, <2>2
<1>16. Answered(blob')
  BY <1>10 DEF BlobInv, Answered
<1>17. QED
  BY <1>9, <1>10, <1>12, <1>14, <1>15, <1>16 DEF BlobInv

\* write_at, the fast path: the file is there.
LEMMA FastKeeps ==
    ASSUME BlobInv(blob), NEW t \in BlobThreads, write_at_Fast(t)
    PROVE  BlobInv(blob')
<1> DEFINE w == blob.th[t]
<1>1. blob \in Blobs /\ w \in Threads /\ blob.th \in ThreadTable
  BY DEF BlobInv, Blobs, ThreadTable
<1>2. w.at \in Nat /\ w.buf \in Seq(Nat) /\ w.pc = "look" /\ ThreadOK(blob, w)
  BY <1>1 DEF Threads, write_at_Fast, BlobInv
<1>3. /\ Bytes(blob.data, blob.may) /\ blob.names <= blob.faults
      /\ w.at + Len(w.buf) <= MaxLen
      /\ \A i \in w.at + 1 .. w.at + Len(w.buf) : w.buf[i - w.at] \in blob.may[i]
  BY <1>2 DEF BlobInv, ThreadOK, Range0
<1>4. CASE blob.file
  <2>1. PICK r \in write_all_at(blob, w.at, w.buf) : blob' = After(t, r)
    BY <1>4 DEF write_at_Fast
  <2>2. /\ Kept(blob, r.b, Range0(w))
        /\ r.ok \in BOOLEAN
        /\ r.ok => /\ w.at + Len(w.buf) <= Len(r.b.data)
                   /\ \A i \in Range0(w) : r.b.data[i] = w.buf[i - w.at]
    BY <1>1, <1>2, <1>3, WriteKeeps DEF Range0
  <2>3. QED
    BY <1>2, <2>1, <2>2, AfterKeeps
<1>5. CASE ~blob.file
  <2> DEFINE v == [w EXCEPT !.pc = "excl"]
             th == [blob.th EXCEPT ![t] = v]
  <2>1. blob' = [blob EXCEPT !.th = th]
    BY <1>1, <1>5 DEF write_at_Fast, Blobs, ThreadTable
  <2>2. v \in Threads /\ v.pc = "excl" /\ v.at = w.at /\ v.buf = w.buf /\ v.len = w.len
    BY <1>1 DEF Threads
  <2>3. Range0(v) = Range0(w)
    BY <2>2 DEF Range0
  <2>4. th \in ThreadTable /\ th[t] = v /\ \A u \in BlobThreads \ {t} : th[u] = blob.th[u]
    BY <1>1, <2>2 DEF ThreadTable
  <2> HIDE DEF th, v
  <2>5. /\ blob' \in Blobs
        /\ blob'.data = blob.data /\ blob'.len = blob.len /\ blob'.done = blob.done
        /\ blob'.got = blob.got /\ blob'.want = blob.want /\ blob'.may = blob.may
        /\ blob'.names = blob.names /\ blob'.faults = blob.faults
        /\ blob'.th = th
    BY <1>1, <2>1, <2>4 DEF Blobs
  <2>6. ThreadOK(blob', v)
    BY <1>2, <2>2, <2>3, <2>5 DEF ThreadOK
  <2>7. ASSUME NEW u \in BlobThreads PROVE ThreadOK(blob', th[u]) /\ Range0(th[u]) = Range0(blob.th[u])
    <3>1. CASE u = t
      BY <2>3, <2>4, <2>6, <3>1
    <3>2. CASE u # t
      <4>1. th[u] = blob.th[u] /\ ThreadOK(blob, blob.th[u])
        BY <2>4, <3>2 DEF BlobInv
      <4>2. QED
        BY <2>5, <4>1 DEF ThreadOK
    <3>3. QED
      BY <3>1, <3>2
  <2>8. QED
    BY <2>5, <2>7 DEF BlobInv, Bytes, Answered
<1>6. QED
  BY <1>1, <1>4, <1>5 DEF Blobs

\* write_at, the slow path: a spill if the write passes the threshold, then the write.
LEMMA SlowKeeps ==
    ASSUME BlobInv(blob), NEW t \in BlobThreads, write_at(t)
    PROVE  BlobInv(blob')
<1> DEFINE w == blob.th[t]
<1>1. blob \in Blobs /\ w \in Threads /\ blob.th \in ThreadTable
  BY DEF BlobInv, Blobs, ThreadTable
<1>2. w.at \in Nat /\ w.buf \in Seq(Nat) /\ w.pc = "excl" /\ ThreadOK(blob, w)
  BY <1>1 DEF Threads, write_at, BlobInv
<1>3. /\ Bytes(blob.data, blob.may) /\ blob.names <= blob.faults
      /\ w.at + Len(w.buf) <= MaxLen
      /\ \A i \in w.at + 1 .. w.at + Len(w.buf) : w.buf[i - w.at] \in blob.may[i]
  BY <1>2 DEF BlobInv, ThreadOK, Range0
<1>4. PICK s \in SpillFor(blob, w.at + Len(w.buf)) :
          IF ~s.ok THEN blob' = After(t, s)
          ELSE IF s.b.file THEN \E r \in write_all_at(s.b, w.at, w.buf) : blob' = After(t, r)
          ELSE blob' = After(t, [ok |-> TRUE, b |-> [s.b EXCEPT !.data = Patch(@, w.at, w.buf)]])
  BY DEF write_at
<1>5. Kept(blob, s.b, Range0(w)) /\ s.ok \in BOOLEAN
  BY <1>1, <1>3, SpillForKeeps
<1>6. CASE ~s.ok
  BY <1>2, <1>4, <1>5, <1>6, AfterKeeps
<1>7. s.b \in Blobs /\ s.b.may = blob.may /\ Bytes(s.b.data, s.b.may) /\ s.b.names <= s.b.faults
  BY <1>5 DEF Kept, Same
<1>8. CASE s.ok /\ s.b.file
  <2>1. PICK r \in write_all_at(s.b, w.at, w.buf) : blob' = After(t, r)
    BY <1>4, <1>8
  <2>2. /\ Kept(s.b, r.b, Range0(w))
        /\ r.ok \in BOOLEAN
        /\ r.ok => /\ w.at + Len(w.buf) <= Len(r.b.data)
                   /\ \A i \in Range0(w) : r.b.data[i] = w.buf[i - w.at]
    BY <1>2, <1>3, <1>7, WriteKeeps DEF Range0
  <2>3. Kept(blob, r.b, Range0(w))
    BY <1>1, <1>5, <2>2, KeptTwice
  <2>4. QED
    BY <1>2, <2>1, <2>2, <2>3, AfterKeeps
<1>9. CASE s.ok /\ ~s.b.file
  <2> DEFINE r == [ok |-> TRUE, b |-> [s.b EXCEPT !.data = Patch(s.b.data, w.at, w.buf)]]
  <2>1. blob' = After(t, r)
    BY <1>4, <1>9
  <2>2. r \in write_all_at(s.b, w.at, w.buf)
    BY DEF write_all_at
  <2>3. r.ok
    OBVIOUS
  <2> HIDE DEF r
  <2>4. /\ Kept(s.b, r.b, Range0(w))
        /\ r.ok \in BOOLEAN
        /\ r.ok => /\ w.at + Len(w.buf) <= Len(r.b.data)
                   /\ \A i \in Range0(w) : r.b.data[i] = w.buf[i - w.at]
    BY <1>2, <1>3, <1>7, <2>2, WriteKeeps DEF Range0
  <2>5. Kept(blob, r.b, Range0(w))
    BY <1>1, <1>5, <2>4, KeptTwice
  <2>6. QED
    BY <1>2, <2>1, <2>4, <2>5, AfterKeeps
<1>10. QED
  BY <1>5, <1>6, <1>7, <1>8, <1>9 DEF Blobs

\* A piece of the data answers to the same piece of what it may be.
Answers(got, want, n) ==
    /\ got \in Data /\ want \in Wants /\ Len(got) = n /\ Len(want) = n
    /\ \A i \in 1 .. n : got[i] \in want[i]

\* A read within the length returns all the bytes asked for, each one it may be.
LEMMA SliceFacts ==
    ASSUME BlobInv(blob), NEW at \in Nat, NEW n \in Nat, at + n <= blob.len \/ n = 0
    PROVE  Answers(Slice(blob, at, n), SubSeq(blob.may, at + 1, at + n), n)
<1> DEFINE b == blob
           want == SubSeq(blob.may, at + 1, at + n)
<1>1. b.data \in Seq(Nat) /\ b.len \in Nat /\ b.len <= Len(b.data) /\ Len(b.data) <= MaxLen
  BY DEF BlobInv, Blobs, Data, Bytes
<1>2. b.may \in [1 .. MaxLen -> SUBSET Nat]
  BY DEF BlobInv, Blobs, MayTable
<1>3. b.may \in Seq(SUBSET Nat) /\ Len(b.may) = MaxLen
  BY <1>2, BlobAssumption
<1>4. CASE n = 0
  <2>1. want = << >>
    BY <1>3, <1>4
  <2>2. Slice(b, at, n) = << >>
    <3>1. CASE at < Len(b.data)
      BY <1>1, <1>4, <3>1 DEF Slice
    <3>2. CASE ~(at < Len(b.data))
      BY <1>1, <1>4, <3>2 DEF Slice
    <3>3. QED
      BY <3>1, <3>2
  <2>3. << >> \in Data /\ << >> \in Wants /\ Len(<< >>) = n /\ 1 .. n = {}
    BY <1>4 DEF Data, Wants
  <2>4. QED
    BY <2>1, <2>2, <2>3 DEF Answers
<1>5. CASE n # 0
  <2>1. at + n <= Len(b.data) /\ at + n <= MaxLen
    BY <1>1, <1>5, BlobAssumption
  <2>2. Slice(b, at, n) = SubSeq(b.data, at + 1, at + n)
    <3>1. CASE at + n < Len(b.data)
      BY <3>1 DEF Slice
    <3>2. CASE ~(at + n < Len(b.data))
      <4>1. at + n = Len(b.data)
        <5>1. Len(b.data) \in Nat
          BY <1>1
        <5>2. QED
          BY <2>1, <3>2, <5>1
      <4>2. QED
        BY <3>2, <4>1 DEF Slice
    <3>3. QED
      BY <3>1, <3>2
  <2> DEFINE got == SubSeq(b.data, at + 1, at + n)
  <2>3. got \in Seq(Nat) /\ Len(got) = n /\ \A i \in 1 .. n : got[i] = b.data[at + i]
    BY <1>1, <2>1
  <2>4. want \in Seq(SUBSET Nat) /\ Len(want) = n /\ \A i \in 1 .. n : want[i] = b.may[at + i]
    BY <1>3, <2>1, BlobAssumption
  <2>5. ASSUME NEW i \in 1 .. n PROVE b.data[at + i] \in b.may[at + i]
    <3>1. at + i \in 1 .. Len(b.data)
      BY <1>1, <2>1
    <3>2. QED
      BY <3>1 DEF BlobInv, Bytes
  <2> HIDE DEF got, want
  <2>6. Slice(b, at, n) = got
    BY <2>2 DEF got
  <2>7. QED
    BY <2>3, <2>4, <2>5, <2>6 DEF Data, Wants, Answers, want
<1>6. QED
  BY <1>4, <1>5

\* A thread that does not write changes nothing the others rely on.
LEMMA ThreadMoves ==
    ASSUME BlobInv(blob), NEW t \in BlobThreads, NEW v \in Threads, ThreadOK(blob, v), Range0(v) = {},
           NEW got \in Data, NEW want \in Wants, Len(got) = Len(want),
           \A i \in 1 .. Len(got) : got[i] \in want[i], NEW n \in Int,
           blob' = [blob EXCEPT !.th = [blob.th EXCEPT ![t] = v], !.got = got, !.want = want, !.ops = n]
    PROVE  BlobInv(blob')
<1> DEFINE th == [blob.th EXCEPT ![t] = v]
<1>1. blob \in Blobs /\ blob.th \in ThreadTable
  BY DEF BlobInv, Blobs
<1>2. th \in ThreadTable /\ th[t] = v /\ \A u \in BlobThreads \ {t} : th[u] = blob.th[u]
  BY <1>1 DEF ThreadTable
<1> HIDE DEF th
<1>3. blob' = [blob EXCEPT !.th = th, !.got = got, !.want = want, !.ops = n]
  BY DEF th
<1>4. blob' \in Blobs
  BY <1>1, <1>2, <1>3 DEF Blobs
<1>5. /\ blob'.data = blob.data /\ blob'.len = blob.len /\ blob'.done = blob.done
      /\ blob'.got = got /\ blob'.want = want /\ blob'.may = blob.may
      /\ blob'.names = blob.names /\ blob'.faults = blob.faults
      /\ blob'.th = th
  BY <1>1, <1>3 DEF Blobs
<1>6. ASSUME NEW u \in BlobThreads
      PROVE  ThreadOK(blob', th[u]) /\ Range0(th[u]) \subseteq Range0(blob.th[u])
  <2>1. CASE u = t
    BY <1>2, <1>5, <2>1 DEF ThreadOK
  <2>2. CASE u # t
    <3>1. th[u] = blob.th[u] /\ ThreadOK(blob, blob.th[u])
      BY <1>2, <2>2 DEF BlobInv
    <3>2. QED
      BY <1>5, <3>1 DEF ThreadOK
  <2>3. QED
    BY <2>1, <2>2
<1>7. ASSUME NEW u \in BlobThreads, NEW x \in BlobThreads, u # x
      PROVE  Range0(th[u]) \cap Range0(th[x]) = {}
  <2>1. Range0(blob.th[u]) \cap Range0(blob.th[x]) = {}
    BY <1>7 DEF BlobInv
  <2>2. QED
    BY <1>6, <2>1
<1>8. QED
  BY <1>4, <1>5, <1>6, <1>7 DEF BlobInv, Bytes, Answered

\* A thread at rest relies on nothing.
LEMMA RestIsQuiet ==
    AtRest \in Threads /\ Range0(AtRest) = {} /\ \A b : ThreadOK(b, AtRest)
<1>1. AtRest \in Threads /\ AtRest.pc = "rest" /\ AtRest.buf = << >> /\ AtRest.at = 0
  BY DEF AtRest, Threads
<1>2. Range0(AtRest) = {}
  BY <1>1 DEF Range0
<1>3. QED
  BY <1>1, <1>2 DEF ThreadOK

\* What the invariant says of the last answer.
LEMMA AnsweredStill ==
    ASSUME BlobInv(blob)
    PROVE  /\ blob.got \in Data /\ blob.want \in Wants /\ Len(blob.got) = Len(blob.want)
           /\ \A i \in 1 .. Len(blob.got) : blob.got[i] \in blob.want[i]
           /\ blob.ops \in Int /\ blob.th \in ThreadTable /\ blob \in Blobs
BY DEF BlobInv, Blobs, Answered

\* read_at, in its two steps.
LEMMA ReadKeeps ==
    ASSUME BlobInv(blob), NEW t \in BlobThreads, read_at(t) \/ \E at \in {0, 1} : ReadLen(t, at)
    PROVE  BlobInv(blob')
<1>1. ASSUME NEW at \in {0, 1}, ReadLen(t, at)
      PROVE  BlobInv(blob')
  <2> DEFINE v == [AtRest EXCEPT !.pc = "read", !.at = at, !.len = blob.len]
             n == blob.ops + 1
  <2>1. blob.len \in Nat /\ at < blob.len /\ n \in Int
    BY <1>1, AnsweredStill DEF ReadLen, Blobs
  <2>2. v \in Threads /\ v.pc = "read" /\ v.at = at /\ v.buf = << >> /\ v.len = blob.len
    <3>1. at \in Nat /\ << >> \in Seq(Nat)
      OBVIOUS
    <3>2. QED
      BY <2>1, <3>1 DEF AtRest, Threads
  <2>3. blob' = [blob EXCEPT !.th = [blob.th EXCEPT ![t] = v], !.got = blob.got, !.want = blob.want, !.ops = n]
    BY <1>1, AnsweredStill DEF ReadLen, Blobs, ThreadTable
  <2> HIDE DEF v, n
  <2>4. Range0(v) = {}
    BY <2>1, <2>2 DEF Range0
  <2>5. ThreadOK(blob, v)
    BY <2>1, <2>2, <2>4 DEF ThreadOK
  <2>6. QED
    BY <2>1, <2>2, <2>3, <2>4, <2>5, AnsweredStill, ThreadMoves
<1>2. CASE read_at(t)
  <2> DEFINE w == blob.th[t]
             n == w.len - w.at
             got == Slice(blob, w.at, n)
             want == SubSeq(blob.may, w.at + 1, w.len)
  <2>1. w \in Threads /\ w.pc = "read" /\ ThreadOK(blob, w)
    BY <1>2, AnsweredStill DEF read_at, ThreadTable, BlobInv
  <2>2. w.at \in Nat /\ w.len \in Nat /\ w.at < w.len /\ w.len <= blob.len
    BY <2>1 DEF Threads, ThreadOK
  <2>3. n \in Nat /\ w.at + n = w.len
    BY <2>2
  <2>4. /\ got \in Data /\ want \in Wants /\ Len(got) = n /\ Len(want) = n
        /\ \A i \in 1 .. n : got[i] \in want[i]
    <3>1. want = SubSeq(blob.may, w.at + 1, w.at + n)
      BY <2>3
    <3>2. w.at + n <= blob.len
      BY <2>2, <2>3
    <3> DEFINE at == w.at
    <3>3. at \in Nat /\ at + n <= blob.len /\ want = SubSeq(blob.may, at + 1, at + n) /\ got = Slice(blob, at, n)
      BY <2>2, <3>1, <3>2
    <3> HIDE DEF n, want, got, at
    <3>4. Answers(Slice(blob, at, n), SubSeq(blob.may, at + 1, at + n), n)
      BY <2>3, <3>3, SliceFacts
    <3>5. QED
      BY <3>3, <3>4 DEF Answers
  <2>5. blob' = [blob EXCEPT !.th = [blob.th EXCEPT ![t] = AtRest], !.got = got, !.want = want, !.ops = blob.ops]
    BY <1>2, AnsweredStill DEF read_at, Blobs, ThreadTable
  <2> HIDE DEF got, want
  <2>6. QED
    BY <2>4, <2>5, AnsweredStill, RestIsQuiet, ThreadMoves
<1>3. QED
  BY <1>1, <1>2

\* A write is over and counts: what was announced for its bytes is what they are.
LEMMA GrowKeeps ==
    ASSUME BlobInv(blob), NEW t \in BlobThreads, Grow(t)
    PROVE  BlobInv(blob')
<1> DEFINE w == blob.th[t]
           end == w.at + Len(w.buf)
           top == IF end > blob.len THEN end ELSE blob.len
           m == [i \in 1 .. MaxLen |-> IF i \in Range0(w) THEN {w.buf[i - w.at]} ELSE blob.may[i]]
           th == [blob.th EXCEPT ![t] = AtRest]
<1>1. blob \in Blobs /\ blob.th \in ThreadTable /\ blob.may \in MayTable /\ blob.len = blob.done
  BY DEF BlobInv, Blobs
<1>2. w \in Threads /\ w.pc = "grow" /\ ThreadOK(blob, w)
  BY <1>1 DEF Grow, ThreadTable, BlobInv
<1>3. w.at \in Nat /\ w.buf \in Seq(Nat) /\ end <= Len(blob.data) /\ \A i \in Range0(w) : blob.data[i] = w.buf[i - w.at]
  BY <1>2 DEF Threads, ThreadOK
<1>4. blob.data \in Seq(Nat) /\ blob.len \in Nat /\ blob.len <= Len(blob.data) /\ Len(blob.data) <= MaxLen
  BY DEF BlobInv, Blobs, Data, Bytes
<1>5. top \in Nat /\ top <= Len(blob.data)
  BY <1>3, <1>4
<1>6. blob' = [blob EXCEPT !.len = top, !.th = th, !.done = top, !.may = m]
  BY <1>1 DEF Grow, grow_to, Blobs
<1>7. m \in MayTable
  <2>1. ASSUME NEW i \in 1 .. MaxLen
        PROVE  (IF i \in Range0(w) THEN {w.buf[i - w.at]} ELSE blob.may[i]) \in SUBSET Nat
    <3>1. blob.may[i] \in SUBSET Nat
      BY <1>1 DEF MayTable
    <3>2. i \in Range0(w) => w.buf[i - w.at] \in Nat
      <4> DEFINE x == w
      <4>1. x.at \in Nat /\ x.buf \in Seq(Nat)
        BY <1>3
      <4> HIDE DEF x
      <4>2. i \in Range0(x) => i - x.at \in 1 .. Len(x.buf)
        BY <4>1, BlobAssumption DEF Range0
      <4>3. i \in Range0(x) => x.buf[i - x.at] \in Nat
        BY <4>1, <4>2
      <4>4. QED
        BY <4>3 DEF x
    <3>3. QED
      BY <3>1, <3>2
  <2>2. QED
    BY <2>1 DEF MayTable
<1>8. /\ \A i \in 1 .. MaxLen : i \notin Range0(w) => m[i] = blob.may[i]
      /\ \A i \in 1 .. MaxLen : i \in Range0(w) => m[i] = {w.buf[i - w.at]}
  OBVIOUS
<1>9. th \in ThreadTable /\ th[t] = AtRest /\ \A u \in BlobThreads \ {t} : th[u] = blob.th[u]
  BY <1>1, RestIsQuiet DEF ThreadTable
<1>10. \A i \in Range0(w) : i \in 1 .. Len(blob.data)
  <2> DEFINE x == w
             n == Len(blob.data)
  <2>1. x.at \in Nat /\ x.buf \in Seq(Nat) /\ x.at + Len(x.buf) <= n /\ n \in Nat
    BY <1>3, <1>4
  <2> HIDE DEF x, n
  <2>2. \A i \in Range0(x) : i \in 1 .. n
    BY <2>1 DEF Range0
  <2>3. QED
    BY <2>2 DEF x, n
<1> HIDE DEF th, m, top, end
<1>11. blob' \in Blobs
  BY <1>1, <1>5, <1>6, <1>7, <1>9 DEF Blobs
<1>12. /\ blob'.data = blob.data /\ blob'.len = top /\ blob'.done = top
       /\ blob'.got = blob.got /\ blob'.want = blob.want /\ blob'.may = m
       /\ blob'.names = blob.names /\ blob'.faults = blob.faults
       /\ blob'.th = th
  BY <1>1, <1>6 DEF Blobs
<1>13. Bytes(blob.data, m)
  <2>1. ASSUME NEW i \in 1 .. Len(blob.data) PROVE blob.data[i] \in m[i]
    <3>1. i \in 1 .. MaxLen /\ blob.data[i] \in blob.may[i]
      BY <1>4, BlobAssumption DEF BlobInv, Bytes
    <3>2. CASE i \in Range0(w)
      BY <1>3, <1>8, <3>1, <3>2
    <3>3. CASE i \notin Range0(w)
      BY <1>8, <3>1, <3>3
    <3>4. QED
      BY <3>2, <3>3
  <2>2. ASSUME NEW i \in Len(blob.data) + 1 .. MaxLen PROVE 0 \in m[i]
    <3>1. i \in 1 .. MaxLen /\ i \notin 1 .. Len(blob.data) /\ 0 \in blob.may[i]
      BY <1>4, BlobAssumption DEF BlobInv, Bytes
    <3>2. i \notin Range0(w)
      BY <1>10, <3>1
    <3>3. QED
      BY <1>8, <3>1, <3>2
  <2>3. QED
    BY <1>4, <2>1, <2>2 DEF Bytes
<1>14. ASSUME NEW u \in BlobThreads
       PROVE  ThreadOK(blob', th[u]) /\ Range0(th[u]) \subseteq Range0(blob.th[u])
  <2>1. CASE u = t
    BY <1>9, <2>1, RestIsQuiet
  <2>2. CASE u # t
    <3> DEFINE v == blob.th[u]
    <3>1. th[u] = v /\ ThreadOK(blob, v)
      BY <1>9, <2>2 DEF BlobInv
    <3>2. Range0(v) \cap Range0(w) = {}
      BY <2>2 DEF BlobInv
    <3>3. v \in Threads
      BY <1>1 DEF ThreadTable
    <3> HIDE DEF v
    <3>4. ASSUME NEW i \in Range0(v) PROVE v.buf[i - v.at] \in m[i]
      <4>1. v.at \in Nat /\ v.buf \in Seq(Nat) /\ v.pc \in {"rest", "look", "excl", "grow", "read"}
        BY <3>3 DEF Threads
      <4>2. v.buf # << >>
        BY <4>1 DEF Range0
      <4>3. v.at + Len(v.buf) <= MaxLen
        BY <3>1, <4>1, <4>2 DEF ThreadOK
      <4>4. i \in 1 .. MaxLen
        BY <4>1, <4>3, BlobAssumption DEF Range0
      <4>5. i \notin Range0(w)
        BY <3>2
      <4>6. QED
        BY <1>8, <3>1, <4>4, <4>5 DEF ThreadOK
    <3>5. blob.len <= top
      BY <1>3, <1>4 DEF top, end
    <3>6. v.pc = "read" => v.at < v.len /\ v.len <= top
      <4>1. v.len \in Nat
        BY <3>3 DEF Threads
      <4>2. QED
        BY <1>4, <1>5, <3>1, <3>5, <4>1 DEF ThreadOK
    <3>7. ThreadOK(blob', v)
      BY <1>12, <3>1, <3>4, <3>6 DEF ThreadOK
    <3>8. QED
      BY <3>1, <3>7 DEF v
  <2>3. QED
    BY <2>1, <2>2
<1>15. ASSUME NEW u \in BlobThreads, NEW x \in BlobThreads, u # x
       PROVE  Range0(th[u]) \cap Range0(th[x]) = {}
  <2>1. Range0(blob.th[u]) \cap Range0(blob.th[x]) = {}
    BY <1>15 DEF BlobInv
  <2>2. QED
    BY <1>14, <2>1
<1>16. QED
  BY <1>5, <1>11, <1>12, <1>13, <1>14, <1>15 DEF BlobInv, Answered

-----------------------------------------------------------------------------
(* The owner, with every thread at rest. *)

\* With every thread at rest only the bytes and the last answer matter.
LEMMA OwnerKeeps ==
    ASSUME NEW c \in Blobs, \A t \in BlobThreads : c.th[t] = AtRest,
           c.len = c.done, c.len <= Len(c.data), Bytes(c.data, c.may), Answered(c), c.names <= c.faults
    PROVE  BlobInv(c)
<1>1. \A t \in BlobThreads : ThreadOK(c, c.th[t]) /\ Range0(c.th[t]) = {}
  BY RestIsQuiet
<1>2. QED
  BY <1>1 DEF BlobInv

\* What set_len makes of the bytes: cut, or zeros at the end.
LEMMA ResizeFacts ==
    ASSUME NEW data \in Seq(Nat), NEW n \in 0 .. MaxLen, NEW d, d = Resize(data, n)
    PROVE  /\ d \in Seq(Nat) /\ Len(d) = n
           /\ \A i \in 1 .. n : d[i] = IF i <= Len(data) THEN data[i] ELSE 0
<1> DEFINE z == Zeros(MaxLen)
           long == data \o z
<1>1. z \in Seq(Nat) /\ Len(z) = MaxLen /\ \A i \in 1 .. MaxLen : z[i] = 0
  BY BlobAssumption DEF Zeros
<1> HIDE DEF z
<1>2. /\ long \in Seq(Nat) /\ Len(long) = Len(data) + MaxLen
      /\ \A i \in 1 .. Len(long) : long[i] = IF i <= Len(data) THEN data[i] ELSE z[i - Len(data)]
  <2>1. long \in Seq(Nat) /\ Len(long) = Len(data) + Len(z)
    BY <1>1
  <2>2. Len(data) \in Nat /\ Len(z) \in Nat
    BY <1>1
  <2>3. ASSUME NEW i \in 1 .. Len(long)
        PROVE  long[i] = IF i <= Len(data) THEN data[i] ELSE z[i - Len(data)]
    <3>1. i \in 1 .. Len(data) + Len(z)
      BY <2>1
    <3>2. QED
      BY <1>1, <3>1
  <2>4. QED
    BY <1>1, <2>1, <2>3
<1> HIDE DEF long
<1>3. d = SubSeq(long, 1, n)
  BY DEF Resize, long, z
<1>4. n \in Nat /\ n <= MaxLen /\ n <= Len(long)
  BY <1>2, BlobAssumption
<1>5. d \in Seq(Nat) /\ Len(d) = n /\ \A i \in 1 .. n : d[i] = long[i]
  BY <1>2, <1>3, <1>4
<1>6. ASSUME NEW i \in 1 .. n PROVE d[i] = IF i <= Len(data) THEN data[i] ELSE 0
  <2>1. i \in 1 .. Len(long) /\ d[i] = long[i]
    BY <1>2, <1>4, <1>5
  <2>2. CASE i <= Len(data)
    BY <1>2, <2>1, <2>2
  <2>3. CASE ~(i <= Len(data))
    <3>1. i - Len(data) \in 1 .. MaxLen
      BY <1>4, <2>3, BlobAssumption
    <3>2. QED
      BY <1>1, <1>2, <2>1, <2>3, <3>1
  <2>4. QED
    BY <2>2, <2>3
<1>7. QED
  BY <1>5, <1>6

\* spill, by hand.
LEMMA SpillsKeep ==
    ASSUME BlobInv(blob), spill
    PROVE  BlobInv(blob')
<1>1. PICK s \in spill_locked(blob) : blob' = [s.b EXCEPT !.ops = s.b.ops + 1]
  BY DEF spill
<1>2. /\ blob \in Blobs /\ Bytes(blob.data, blob.may) /\ blob.names <= blob.faults
      /\ \A t \in BlobThreads : blob.th[t] = AtRest
  BY DEF BlobInv, spill, Owner
<1> DEFINE c == s.b
<1>3. Kept(blob, c, {}) /\ c.data = blob.data
  BY <1>2, SpillKeeps
<1>4. c \in Blobs /\ Same(blob, c) /\ Bytes(c.data, c.may) /\ c.names <= c.faults
  BY <1>3 DEF Kept
<1> HIDE DEF c
<1>5. c.ops + 1 \in Int
  BY <1>4 DEF Blobs
<1>6. blob' = [c EXCEPT !.ops = c.ops + 1]
  BY <1>1 DEF c
<1>7. /\ blob' \in Blobs
      /\ blob'.data = c.data /\ blob'.len = c.len /\ blob'.done = c.done
      /\ blob'.got = c.got /\ blob'.want = c.want /\ blob'.may = c.may
      /\ blob'.names = c.names /\ blob'.faults = c.faults
      /\ blob'.th = c.th
  BY <1>4, <1>5, <1>6 DEF Blobs
<1>8. blob'.len = blob'.done /\ blob'.len <= Len(blob'.data) /\ Answered(blob')
  BY <1>3, <1>4, <1>7 DEF BlobInv, Answered, Same
<1>9. \A t \in BlobThreads : blob'.th[t] = AtRest
  BY <1>2, <1>4, <1>7 DEF Same
<1>10. QED
  BY <1>4, <1>7, <1>8, <1>9, OwnerKeeps

\* set_len: the bytes behind the new end are zero if they ever come back.
LEMMA SetLenKeeps ==
    ASSUME BlobInv(blob), NEW n \in 0 .. MaxLen, set_len(n)
    PROVE  BlobInv(blob')
<1>1. PICK s \in SpillFor(blob, n) :
          \/ ~s.ok /\ blob' = [s.b EXCEPT !.ops = @ + 1]
          \/ s.ok /\ s.b.file /\ Faulty(s.b) /\ blob' = [Fault(s.b) EXCEPT !.ops = @ + 1]
          \/ /\ s.ok
             /\ blob' = [s.b EXCEPT !.data = Resize(@, n), !.len = n, !.done = n, !.ops = @ + 1,
                                    !.may = [i \in 1..MaxLen |-> IF i <= n THEN @[i] ELSE {0}]]
  BY DEF set_len
<1>2. /\ blob \in Blobs /\ Bytes(blob.data, blob.may) /\ blob.names <= blob.faults
      /\ \A t \in BlobThreads : blob.th[t] = AtRest
  BY DEF BlobInv, set_len, Owner
<1> DEFINE c == s.b
<1>3. Kept(blob, c, {}) /\ c.data = blob.data /\ s.ok \in BOOLEAN
  BY <1>2, SpillForKeeps
<1>4. c \in Blobs /\ Same(blob, c) /\ Bytes(c.data, c.may) /\ c.names <= c.faults
  BY <1>3 DEF Kept
<1>5. c.ops + 1 \in Int /\ c.data \in Seq(Nat) /\ c.may \in MayTable
  BY <1>4 DEF Blobs, Data
<1>6. \A t \in BlobThreads : c.th[t] = AtRest
  BY <1>2, <1>4 DEF Same
<1>7. c.len = c.done /\ c.len <= Len(c.data) /\ Answered(c)
  BY <1>3, <1>4 DEF BlobInv, Answered, Same
<1>8. CASE blob' = [c EXCEPT !.ops = c.ops + 1] \/ blob' = [[c EXCEPT !.faults = c.faults + 1] EXCEPT !.ops = c.ops + 1]
  <2> HIDE DEF c
  <2>1. c.faults + 1 \in Nat /\ c.names <= c.faults + 1
    BY <1>4 DEF Blobs
  <2>2. /\ blob' \in Blobs
        /\ blob'.data = c.data /\ blob'.len = c.len /\ blob'.done = c.done
        /\ blob'.got = c.got /\ blob'.want = c.want /\ blob'.may = c.may
        /\ blob'.names = c.names /\ blob'.names <= blob'.faults
        /\ blob'.th = c.th
    <3>1. CASE blob' = [c EXCEPT !.ops = c.ops + 1]
      BY <1>4, <1>5, <3>1 DEF Blobs
    <3>2. CASE blob' = [[c EXCEPT !.faults = c.faults + 1] EXCEPT !.ops = c.ops + 1]
      BY <1>4, <1>5, <2>1, <3>2 DEF Blobs
    <3>3. QED
      BY <1>8, <3>1, <3>2
  <2>3. Answered(blob') /\ Bytes(blob'.data, blob'.may)
    BY <1>4, <1>7, <2>2 DEF Answered
  <2>4. QED
    BY <1>6, <1>7, <2>2, <2>3, OwnerKeeps
<1>9. CASE blob' = [s.b EXCEPT !.data = Resize(@, n), !.len = n, !.done = n, !.ops = @ + 1,
                             !.may = [i \in 1..MaxLen |-> IF i <= n THEN @[i] ELSE {0}]]
  <2> DEFINE d == Resize(c.data, n)
             m == [i \in 1 .. MaxLen |-> IF i <= n THEN c.may[i] ELSE {0}]
             k == c.ops + 1
  <2>1. blob' = [c EXCEPT !.data = d, !.len = n, !.done = n, !.ops = k, !.may = m]
    BY <1>4, <1>9 DEF Blobs
  <2>2. /\ d \in Seq(Nat) /\ Len(d) = n
        /\ \A i \in 1 .. n : d[i] = IF i <= Len(c.data) THEN c.data[i] ELSE 0
    BY <1>5, ResizeFacts
  <2>3. m \in MayTable
    <3>1. ASSUME NEW i \in 1 .. MaxLen
          PROVE  (IF i <= n THEN c.may[i] ELSE {0}) \in SUBSET Nat
      <4>1. c.may[i] \in SUBSET Nat
        BY <1>5 DEF MayTable
      <4>2. {0} \in SUBSET Nat
        OBVIOUS
      <4>3. QED
        BY <4>1, <4>2
    <3>2. QED
      BY <3>1 DEF MayTable
  <2>4. \A i \in 1 .. MaxLen : (i <= n => m[i] = c.may[i]) /\ (~(i <= n) => m[i] = {0})
    OBVIOUS
  <2>5. n \in Nat /\ n <= MaxLen /\ k \in Int /\ d \in Data
    BY <1>5, <2>2, BlobAssumption DEF Data
  <2> HIDE DEF c, d, m, k
  <2>6. blob' \in Blobs
    BY <1>4, <2>1, <2>3, <2>5 DEF Blobs
  <2>7. /\ blob'.data = d /\ blob'.len = n /\ blob'.done = n
        /\ blob'.got = c.got /\ blob'.want = c.want /\ blob'.may = m
        /\ blob'.names = c.names /\ blob'.faults = c.faults
        /\ blob'.th = c.th
    BY <1>4, <2>1 DEF Blobs
  <2>8. Bytes(d, m)
    <3>1. ASSUME NEW i \in 1 .. Len(d) PROVE d[i] \in m[i]
      <4>1. i \in 1 .. n /\ i \in 1 .. MaxLen /\ m[i] = c.may[i]
        <5>1. i \in 1 .. n
          BY <2>2
        <5>2. i \in 1 .. MaxLen /\ i <= n
          BY <2>5, <5>1, BlobAssumption
        <5>3. QED
          BY <2>4, <5>1, <5>2
      <4>2. CASE i <= Len(c.data)
        BY <1>4, <1>5, <2>2, <4>1, <4>2 DEF Bytes
      <4>3. CASE ~(i <= Len(c.data))
        <5>1. i \in Len(c.data) + 1 .. MaxLen
          BY <1>5, <4>1, <4>3, BlobAssumption
        <5>2. QED
          BY <1>4, <2>2, <4>1, <4>3, <5>1 DEF Bytes
      <4>4. QED
        BY <4>2, <4>3
    <3>2. ASSUME NEW i \in Len(d) + 1 .. MaxLen PROVE 0 \in m[i]
      <4>1. i \in 1 .. MaxLen /\ ~(i <= n)
        BY <2>2, <2>5, BlobAssumption
      <4>2. QED
        BY <2>4, <4>1
    <3>3. QED
      BY <2>2, <2>5, <3>1, <3>2 DEF Bytes
  <2>9. Answered(blob')
    BY <1>7, <2>7 DEF Answered
  <2>10. QED
    BY <1>4, <1>6, <2>2, <2>5, <2>6, <2>7, <2>8, <2>9, OwnerKeeps
<1>10. QED
  <2>1. Fault(c) = [c EXCEPT !.faults = c.faults + 1] /\ Fault(c).ops = c.ops
    BY <1>4 DEF Fault, Blobs
  <2>2. CASE blob' = [Fault(c) EXCEPT !.ops = Fault(c).ops + 1]
    BY <1>8, <2>1, <2>2
  <2>3. QED
    BY <1>1, <1>8, <1>9, <2>2

\* The cursor: Seek, and Read from it.
LEMMA CursorKeeps ==
    ASSUME BlobInv(blob), (\E n \in 0 .. MaxLen : Seek(n)) \/ (\E n \in {1, 2} : Read(n))
    PROVE  BlobInv(blob')
<1>1. /\ blob \in Blobs /\ Bytes(blob.data, blob.may) /\ blob.names <= blob.faults
      /\ blob.len = blob.done /\ blob.len <= Len(blob.data)
      /\ \A t \in BlobThreads : blob.th[t] = AtRest
  BY DEF BlobInv, Seek, Read, Owner
<1>2. blob.ops + 1 \in Int /\ blob.pos \in Nat /\ blob.len \in Nat
  BY <1>1 DEF Blobs
<1>3. ASSUME NEW pos \in Nat, NEW got \in Data, NEW want \in Wants, NEW n, Answers(got, want, n),
             blob' = [blob EXCEPT !.got = got, !.want = want, !.pos = pos, !.ops = blob.ops + 1]
      PROVE  BlobInv(blob')
  <2>1. /\ blob' \in Blobs
        /\ blob'.data = blob.data /\ blob'.len = blob.len /\ blob'.done = blob.done
        /\ blob'.got = got /\ blob'.want = want /\ blob'.may = blob.may
        /\ blob'.names = blob.names /\ blob'.faults = blob.faults
        /\ blob'.th = blob.th
    BY <1>1, <1>2, <1>3 DEF Blobs
  <2>2. Answered(blob')
    BY <1>3, <2>1 DEF Answers, Answered
  <2>3. QED
    BY <1>1, <2>1, <2>2, OwnerKeeps
<1>4. ASSUME NEW p \in 0 .. MaxLen, Seek(p) PROVE BlobInv(blob')
  <2>1. blob' = [blob EXCEPT !.got = blob.got, !.want = blob.want, !.pos = p, !.ops = blob.ops + 1]
    BY <1>1, <1>4 DEF Seek, Blobs
  <2>2. p \in Nat /\ Answers(blob.got, blob.want, Len(blob.got)) /\ blob.got \in Data /\ blob.want \in Wants
    BY AnsweredStill, BlobAssumption DEF Answers
  <2>3. QED
    BY <1>3, <2>1, <2>2
<1>5. ASSUME NEW n \in {1, 2}, Read(n) PROVE BlobInv(blob')
  <2> DEFINE at == blob.pos
             room == IF at >= blob.len THEN 0 ELSE blob.len - at
             cap == IF room < n THEN room ELSE n
             got == Slice(blob, at, cap)
             want == SubSeq(blob.may, at + 1, at + cap)
             pos == at + Len(got)
  <2>1. blob' = [blob EXCEPT !.got = got, !.want = want, !.pos = pos, !.ops = blob.ops + 1]
    BY <1>1, <1>5 DEF Read, Blobs
  <2>2. cap \in Nat /\ (at + cap <= blob.len \/ cap = 0) /\ at \in Nat
    BY <1>2
  <2>3. Answers(got, want, cap)
    <3> HIDE DEF cap, at
    <3>1. QED
      BY <2>2, SliceFacts
  <2> HIDE DEF got, want
  <2>4. got \in Data /\ want \in Wants /\ pos \in Nat
    <3>1. got \in Data /\ want \in Wants /\ Len(got) = cap
      BY <2>3 DEF Answers
    <3>2. QED
      BY <2>2, <3>1
  <2> HIDE DEF pos
  <2>5. QED
    BY <1>3, <2>1, <2>3, <2>4
<1>6. QED
  BY <1>4, <1>5

\* A sequential write appends at the end.
LEMMA AppendKeeps ==
    ASSUME BlobInv(blob), NEW t \in BlobThreads, Write(t)
    PROVE  BlobInv(blob')
<1>1. blob.len \in Nat /\ blob.len < MaxLen /\ Begin(t, blob.len, <<9>>)
  BY DEF BlobInv, Blobs, Write
<1>2. <<9>> \in Seq(Nat) /\ Len(<<9>>) = 1 /\ blob.len + 1 <= MaxLen
  BY <1>1, BlobAssumption
<1>3. QED
  BY <1>1, <1>2, BeginKeeps

-----------------------------------------------------------------------------
\* A new blob.
LEMMA BlobInitKeeps == BlobInit => BlobInv(blob)
<1> SUFFICES ASSUME BlobInit PROVE BlobInv(blob)
  OBVIOUS
<1> DEFINE th == [t \in BlobThreads |-> AtRest]
           m == [i \in 1 .. MaxLen |-> {0}]
<1>1. blob = [on |-> TRUE, file |-> FALSE, data |-> <<>>, len |-> 0, pos |-> 0, names |-> 0,
              th |-> th, may |-> m, done |-> 0, got |-> <<>>, want |-> <<>>, ops |-> 0, faults |-> 0]
  BY DEF BlobInit
<1>2. th \in ThreadTable /\ m \in MayTable /\ << >> \in Data /\ << >> \in Wants
  BY RestIsQuiet DEF ThreadTable, MayTable, Data, Wants
<1>3. (\A t \in BlobThreads : th[t] = AtRest) /\ Bytes(<< >>, m)
  BY BlobAssumption DEF Bytes
<1> HIDE DEF th, m
<1>4. blob \in Blobs
  BY <1>1, <1>2 DEF Blobs
<1>5. blob.data = << >> /\ blob.len = 0 /\ blob.done = 0 /\ blob.got = << >> /\ blob.want = << >>
      /\ blob.may = m /\ blob.th = th /\ blob.names = 0 /\ blob.faults = 0
  BY <1>1
<1>6. Answered(blob) /\ Bytes(blob.data, blob.may) /\ blob.len <= Len(blob.data)
  BY <1>3, <1>5 DEF Answered
<1>7. QED
  BY <1>3, <1>4, <1>5, <1>6, OwnerKeeps

\* Every step of a thread or of the owner keeps the invariant.
LEMMA BlobNextKeeps ==
    ASSUME BlobInv(blob), [BlobNext]_blob
    PROVE  BlobInv(blob')
<1>1. CASE UNCHANGED blob
  BY <1>1
<1>2. ASSUME NEW t \in BlobThreads, NEW w \in Writes, Begin(t, w[1], w[2])
      PROVE  BlobInv(blob')
  <2>1. w[1] \in Nat /\ w[2] \in Seq(Nat) /\ w[1] + Len(w[2]) <= MaxLen
    BY BlobAssumption
  <2>2. QED
    BY <1>2, <2>1, BeginKeeps
<1>3. QED
  BY <1>1, <1>2, AppendKeeps, FastKeeps, SlowKeeps, GrowKeeps, ReadKeeps, SpillsKeep, SetLenKeeps,
     CursorKeeps DEF BlobNext

\* For any writes of any number of threads, any threshold and any faults: a blob is
\* the byte array its completed writes describe, in memory, in a file and on the way
\* from one to the other (tmpfile.rs: write_at, spill_locked, grow_to, read_at, set_len).
THEOREM BlobKeepsItsBytes == BlobSpec => []BlobExact
<1>1. BlobInv(blob) => BlobExact
  <2> SUFFICES ASSUME BlobInv(blob) PROVE BlobExact
    OBVIOUS
  <2>1. blob.len \in Nat /\ blob.done \in Nat /\ blob.data \in Seq(Nat)
    BY DEF BlobInv, Blobs, Data
  <2>2. QED
    BY <2>1 DEF BlobInv, BlobExact, Bytes, Answered
<1>2. BlobInit => BlobInv(blob)
  BY BlobInitKeeps
<1>3. BlobInv(blob) /\ [BlobNext]_blob => BlobInv(blob)'
  BY BlobNextKeeps
<1>4. QED
  BY <1>1, <1>2, <1>3, PTL DEF BlobSpec

=============================================================================
