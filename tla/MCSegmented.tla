---------------------------- MODULE MCSegmented ----------------------------
(* Two worker threads; a resource of three positions splits into two chunks, *)
(* into three, or not at all.  The first URL has two versions of one size,   *)
(* the second an empty resource.                                             *)
EXTENDS DownloadSegmented

MCUrlOf  == << 1, 1, 2 >>
MCSizeOf == << 3, 3, 0 >>
MCNoMax  == -1

-----------------------------------------------------------------------------
(* chunk_plan on its own, with limits small enough for each clamp to be the  *)
(* active one somewhere.                                                     *)

Grid == INSTANCE ChunkPlan WITH MinSegmentBytes <- 3, MaxSegmentChunks <- 5

SegmentsTile(t, n) ==
    LET p == Grid!BySegments(t, n)
    IN  p # NoPlan => /\ Tiles(p, t) /\ Len(p) <= n /\ Len(p) <= 5
                      /\ t > 3

SizesTile(t, n) ==
    LET p == Grid!BySize(t, n)
    IN  /\ Tiles(p, t) /\ Len(p) <= 5
        /\ \A i \in 1 .. Len(p) - 1 : /\ p[i][2] - p[i][1] >= n - 1
                                      /\ p[i][2] - p[i][1] = p[1][2] - p[1][1]

\* For every total and option: the chunks tile the resource exactly, there are
\* never more than the cap, with `segments` never more than asked for and none
\* cut from a resource of one minimum segment, with `segment_size` all of one
\* length, at least the one asked for, but the last (chunk_plan).
ASSUME ChunkPlanTiles ==
    \A t \in 1 .. 40 : /\ \A n \in 0 .. 8 : SegmentsTile(t, n)
                       /\ \A n \in 1 .. 8 : SizesTile(t, n)

=============================================================================
