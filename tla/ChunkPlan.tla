----------------------------- MODULE ChunkPlan -----------------------------
(***************************************************************************)
(* Downloader::chunk_plan of src/download.rs: how a resource of `total`    *)
(* bytes is split into chunks <<first, last>>.  The empty plan stands for  *)
(* Err(SegErr::Fallback).                                                  *)
(***************************************************************************)
EXTENDS Integers, Sequences

CONSTANTS MinSegmentBytes,      \* MIN_SEGMENT_BYTES
          MaxSegmentChunks      \* MAX_SEGMENT_CHUNKS

ASSUME ChunkPlanAssumption ==
    MinSegmentBytes \in Nat \ {0} /\ MaxSegmentChunks \in Nat \ {0}

NoPlan == << >>

MinOf(a, b) == IF a <= b THEN a ELSE b
MaxOf(a, b) == IF a >= b THEN a ELSE b

\* u64::div_ceil
DivCeil(a, b) == (a + b - 1) \div b

\* How many parts `segments = req` really gives.
Parts(t, req) ==
    MaxOf(1, MinOf(req, MinOf(MaxOf(DivCeil(t, MinSegmentBytes), 1), MaxSegmentChunks)))

\* n equal parts, the last one takes the remainder.
EqualParts(t, n) ==
    LET seg == t \div n
    IN  [i \in 1 .. n |-> << (i - 1) * seg,
                             IF i = n THEN t - 1 ELSE i * seg - 1 >>]

BySegments(t, req) ==
    IF Parts(t, req) < 2 THEN NoPlan ELSE EqualParts(t, Parts(t, req))

\* The fixed segment size, grown so that the cap on the chunk count is kept.
GrownSize(t, size) == MaxOf(size, DivCeil(t, MaxSegmentChunks))

BySize(t, size) ==
    LET sz == GrownSize(t, size)
        n  == MinOf(DivCeil(t, sz), MaxSegmentChunks)
    IN  [i \in 1 .. n |-> << (i - 1) * sz, MinOf((i - 1) * sz + sz, t) - 1 >>]

-----------------------------------------------------------------------------
(* Reference definition: what a plan must be for run_chunks to be right. *)

\* The chunks are non-empty, each begins where the one before ends, and
\* together they are exactly the t bytes.
Tiles(p, t) ==
    /\ Len(p) > 0
    /\ p[1][1] = 0
    /\ p[Len(p)][2] = t - 1
    /\ \A i \in 1 .. Len(p) : p[i][1] <= p[i][2]
    /\ \A i \in 1 .. Len(p) - 1 : p[i + 1][1] = p[i][2] + 1

=============================================================================
