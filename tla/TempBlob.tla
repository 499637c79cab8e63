------------------------------ MODULE TempBlob ------------------------------
(***************************************************************************)
(* Anonymous temporary storage (tmpfile.rs): memory up to a threshold, an  *)
(* unnamed file above it.  Several threads write disjoint ranges through   *)
(* &self and read; with none of them at work the owner (&mut self) resizes,*)
(* appends, seeks and reads from its cursor.  The system may refuse a file *)
(* or fail in the middle of a write.                                       *)
(*                                                                         *)
(* `may` is history: what each byte may hold.  A write that has begun adds *)
(* its bytes, one that is done leaves only them.                           *)
(***************************************************************************)
EXTENDS Integers, Sequences, FiniteSets, SequencesExt

CONSTANTS BlobThreads,
          Writes,       \* <<offset, bytes>> a thread may write
          MaxLen,       \* bytes of the blob in the model
          Threshold,    \* spill_threshold
          MaxOps, MaxFaults

\* An empty write returns at once.
ASSUME BlobAssumption ==
    /\ MaxLen \in Nat
    /\ \A w \in Writes : w[1] \in Nat /\ w[2] \in Seq(Nat) \ {<<>>} /\ w[1] + Len(w[2]) <= MaxLen

VARIABLE blob

NoBlob == [on |-> FALSE]
AtRest == [pc |-> "rest", at |-> 0, buf |-> <<>>, len |-> 0]
Zeros(n) == [i \in 1..n |-> 0]

BlobInit ==
    blob = [on |-> TRUE, file |-> FALSE, data |-> <<>>, len |-> 0, pos |-> 0, names |-> 0,
            th |-> [t \in BlobThreads |-> AtRest], may |-> [i \in 1..MaxLen |-> {0}], done |-> 0,
            got |-> <<>>, want |-> <<>>, ops |-> 0, faults |-> 0]

-----------------------------------------------------------------------------
\* The bytes at `at`, over what is there and zeros up to it.
Patch(data, at, buf) ==
    LET n == IF at + Len(buf) > Len(data) THEN at + Len(buf) ELSE Len(data) IN
    [i \in 1..n |-> IF i \in at + 1 .. at + Len(buf) THEN buf[i - at] ELSE IF i <= Len(data) THEN data[i] ELSE 0]
Resize(data, n) == SubSeq(data \o Zeros(MaxLen), 1, n)
grow_to(b, end) == [b EXCEPT !.len = IF end > @ THEN end ELSE @]
Faulty(b) == b.faults < MaxFaults
Fault(b) == [b EXCEPT !.faults = @ + 1]

\* A name is created, possibly after taken ones, and removed at once; a name that
\* cannot be removed stays behind and the file is refused.
unnamed_file(b) ==
    {[ok |-> TRUE, b |-> b]}
    \cup IF Faulty(b) THEN {[ok |-> FALSE, b |-> Fault(b)], [ok |-> FALSE, b |-> [Fault(b) EXCEPT !.names = @ + 1]]} ELSE {}
anon_file(b) == {[ok |-> TRUE, b |-> b]} \cup unnamed_file(b)

\* A positional write, or a failure after some of it.
write_all_at(b, at, buf) ==
    {[ok |-> TRUE, b |-> [b EXCEPT !.data = Patch(@, at, buf)]]}
    \cup IF Faulty(b)
         THEN {[ok |-> FALSE, b |-> [Fault(b) EXCEPT !.data = IF n = 0 THEN @ ELSE Patch(@, at, SubSeq(buf, 1, n))]] :
                 n \in 0..(Len(buf) - 1)}
         ELSE {}

\* The memory is let go once the file holds every byte.
spill_locked_SwapFirst(b) ==
    IF b.file THEN {[ok |-> TRUE, b |-> b]}
    ELSE UNION {IF ~f.ok THEN {f} ELSE write_all_at([f.b EXCEPT !.file = TRUE, !.data = <<>>], 0, b.data) : f \in anon_file(b)}
spill_locked(b) ==
    IF b.file THEN {[ok |-> TRUE, b |-> b]}
    ELSE UNION {IF ~f.ok THEN {f}
                ELSE {[ok |-> w.ok, b |-> [w.b EXCEPT !.file = w.ok, !.data = b.data]] :
                        w \in write_all_at([f.b EXCEPT !.data = <<>>], 0, b.data)} : f \in anon_file(b)}
SpillFor(b, end) == IF ~b.file /\ end > Threshold THEN spill_locked(b) ELSE {[ok |-> TRUE, b |-> b]}

-----------------------------------------------------------------------------
(* write_at: the fast path looks under the read lock; the slow path looks  *)
(* again under the write lock.  The length grows after the lock is let go. *)

Range0(w) == w.at + 1 .. w.at + Len(w.buf)
Begin(t, at, buf) ==
    /\ blob.th[t] = AtRest /\ blob.ops < MaxOps
    /\ \A u \in BlobThreads : Range0(blob.th[u]) \cap (at + 1 .. at + Len(buf)) = {}
    /\ blob' = [blob EXCEPT !.th[t] = [AtRest EXCEPT !.pc = "look", !.at = at, !.buf = buf], !.ops = @ + 1,
                            !.may = [i \in 1..MaxLen |-> IF i \in at + 1 .. at + Len(buf) THEN @[i] \cup {buf[i - at]} ELSE @[i]]]
\* The outcome of the data part: on to grow_to, or an error.
After(t, r) == [r.b EXCEPT !.th[t] = IF r.ok THEN [@ EXCEPT !.pc = "grow"] ELSE AtRest]
write_at_Fast(t) ==
    /\ blob.th[t].pc = "look"
    /\ IF blob.file THEN \E r \in write_all_at(blob, blob.th[t].at, blob.th[t].buf) : blob' = After(t, r)
       ELSE blob' = [blob EXCEPT !.th[t].pc = "excl"]
write_at(t) ==
    /\ blob.th[t].pc = "excl"
    /\ LET w == blob.th[t] IN
       \E s \in SpillFor(blob, w.at + Len(w.buf)) :
          IF ~s.ok THEN blob' = After(t, s)
          ELSE IF s.b.file THEN \E r \in write_all_at(s.b, w.at, w.buf) : blob' = After(t, r)
          ELSE blob' = After(t, [ok |-> TRUE, b |-> [s.b EXCEPT !.data = Patch(@, w.at, w.buf)]])
\* Returned Ok: these bytes are what a read must find.
Grow(t) ==
    /\ blob.th[t].pc = "grow"
    /\ LET w == blob.th[t]
           end == w.at + Len(w.buf) IN
       blob' = [grow_to(blob, end) EXCEPT !.th[t] = AtRest, !.done = IF end > @ THEN end ELSE @,
                    !.may = [i \in 1..MaxLen |-> IF i \in Range0(w) THEN {w.buf[i - w.at]} ELSE @[i]]]

\* read_at: the length first, then the bytes under the read lock.
ReadLen(t, at) ==
    /\ blob.th[t] = AtRest /\ blob.ops < MaxOps /\ at < blob.len
    /\ blob' = [blob EXCEPT !.th[t] = [AtRest EXCEPT !.pc = "read", !.at = at, !.len = blob.len], !.ops = @ + 1]
Slice(b, at, n) == SubSeq(b.data, at + 1, IF at + n < Len(b.data) THEN at + n ELSE Len(b.data))
read_at(t) ==
    /\ blob.th[t].pc = "read"
    /\ LET w == blob.th[t] IN
       blob' = [blob EXCEPT !.th[t] = AtRest, !.got = Slice(blob, w.at, w.len - w.at),
                            !.want = SubSeq(blob.may, w.at + 1, w.len)]

-----------------------------------------------------------------------------
(* The owner's operations.                                                 *)
Owner == blob.ops < MaxOps /\ \A t \in BlobThreads : blob.th[t] = AtRest
spill == Owner /\ ~blob.file /\ \E s \in spill_locked(blob) : blob' = [s.b EXCEPT !.ops = @ + 1]
\* A file that cannot be resized is left as it is, spilled or not by this call.
set_len(n) ==
    /\ Owner /\ n # blob.len
    /\ \E s \in SpillFor(blob, n) :
          \/ ~s.ok /\ blob' = [s.b EXCEPT !.ops = @ + 1]
          \/ s.ok /\ s.b.file /\ Faulty(s.b) /\ blob' = [Fault(s.b) EXCEPT !.ops = @ + 1]
          \/ /\ s.ok
             /\ blob' = [s.b EXCEPT !.data = Resize(@, n), !.len = n, !.done = n, !.ops = @ + 1,
                                    !.may = [i \in 1..MaxLen |-> IF i <= n THEN @[i] ELSE {0}]]
Seek(p) == Owner /\ p # blob.pos /\ blob' = [blob EXCEPT !.pos = p, !.ops = @ + 1]
Read(n) ==
    /\ Owner /\ blob.len > 0
    /\ LET room == IF blob.pos >= blob.len THEN 0 ELSE blob.len - blob.pos
           cap == IF room < n THEN room ELSE n
           got == Slice(blob, blob.pos, cap) IN
       blob' = [blob EXCEPT !.got = got, !.want = SubSeq(blob.may, blob.pos + 1, blob.pos + cap), !.pos = @ + Len(got), !.ops = @ + 1]

\* Sequential writes append at the end.
Write(t) == Owner /\ blob.len < MaxLen /\ Begin(t, blob.len, <<9>>)

BlobNext ==
    \/ \E t \in BlobThreads :
          \/ \E w \in Writes : Begin(t, w[1], w[2])
          \/ Write(t) \/ write_at_Fast(t) \/ write_at(t) \/ Grow(t) \/ read_at(t)
          \/ \E at \in {0, 1} : ReadLen(t, at)
    \/ spill
    \/ \E n \in 0..MaxLen : set_len(n) \/ Seek(n)
    \/ \E n \in {1, 2} : Read(n)

BlobSpec == BlobInit /\ [][BlobNext]_blob

\* A blob is the byte array its completed writes describe, whatever its backing:
\* the length covers every write that returned, each byte is one that was written
\* (or zero), and a read returns all the bytes there are.  A spill, a write or a
\* set_len that fails takes nothing away.
BlobExact ==
    blob.on =>
        /\ blob.len >= blob.done /\ Len(blob.data) >= blob.len
        /\ (\A t \in BlobThreads : blob.th[t].pc # "grow") => blob.len = blob.done
        /\ \A i \in 1..blob.len : blob.data[i] \in blob.may[i]
        /\ Len(blob.got) = Len(blob.want) /\ \A i \in 1..Len(blob.got) : blob.got[i] \in blob.want[i]
        /\ blob.names <= blob.faults
=============================================================================
