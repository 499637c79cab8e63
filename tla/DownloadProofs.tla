--------------------------- MODULE DownloadProofs ---------------------------
(***************************************************************************)
(* Proofs about the downloader, for any set of resources, any file size,   *)
(* any retry budget, any number of processes, worker threads and chunks.   *)
(*                                                                         *)
(* First DownloadSingle.  Its invariant SingleInv is stated so that the    *)
(* steps of the segmented mode, which share the part file, can be shown to *)
(* keep it too: it says nothing about control points that are not the      *)
(* single mode's, and lets the resume state be one of a ranged download.   *)
(*                                                                         *)
(* Then DownloadSegmented: what a ranged resume state claims, who owns     *)
(* which chunk, and that both modes together implement Publish.  SegInv    *)
(* extends SingleInv by what holds while the bootstrap and the workers     *)
(* run.                                                                    *)
(*                                                                         *)
(* Last the byte meter: MeterOK, which rests on SegInv, says which         *)
(* positions of the file the count stands for.                             *)
(***************************************************************************)
EXTENDS DownloadSegmented, TLAPS, FiniteSetTheorems, NaturalsInduction, WellFoundedInduction

\* The server's 206 is not cut short.  A short 206 ends the body cleanly, and
\* attempt_single takes it for the whole of it; only a checksum notices.
RangesWhole == "short" \notin Faults

\* No resource is exactly as long as another one's data region together with
\* metadata and trailer.  stream_to_store relies on set_len to drop an older
\* trailer, and set_len to the length the file has already changes nothing.
TrailersApart == \A r, q \in Resources : SizeOf[r] # SizeOf[q] + TrailerLen

-----------------------------------------------------------------------------
(* The part file. *)

Cell == [res : Int, at : Int]

\* A resume state can be read only where write_state has put one.
FileOK(f) ==
    /\ f.exists \in BOOLEAN
    /\ f.size \in Nat
    /\ f.cells \in [Pos -> Cell]
    /\ f.state.real \in Nat
    /\ f.state.done \in Nat
    /\ f.state.kind # "none" => f.exists /\ f.size = f.state.real + TrailerLen

\* The first n positions hold the first n bytes of r.
Prefix(f, n, r) == \A p \in 0 .. n - 1 : f.cells[p] = Byte(r, p)

LEMMA NoFileOK == FileOK(NoFile) /\ NoFile.state.kind = "none"
BY PartFileAssumption DEF FileOK, NoFile, NoState, Cell, Hole, Byte, Pos

LEMMA WriteAtFacts ==
    ASSUME NEW f, FileOK(f), NEW p \in Pos, NEW b \in Cell,
           NEW g, g = WriteAt(f, p, b)
    PROVE  /\ FileOK(g)
           /\ g.cells[p] = b
           /\ \A q \in Pos : q # p => g.cells[q] = f.cells[q]
           /\ g.size >= f.size /\ g.size > p
           /\ p < f.state.real => g.state = f.state
           /\ p >= f.state.real => g.state = NoState
<1>1. p \in Nat
    BY PartFileAssumption DEF Pos
<1>2. p < f.state.real => p < f.size \/ f.state.kind = "none"
    BY <1>1, PartFileAssumption DEF FileOK
<1> QED
    BY <1>1, <1>2, PartFileAssumption DEF WriteAt, FileOK, NoState, Pos

LEMMA SetLenFacts ==
    ASSUME NEW f, FileOK(f), NEW n \in Nat, NEW g, g = SetLen(f, n)
    PROVE  /\ FileOK(g)
           /\ g.size = n
           /\ \A q \in Pos : q < n => g.cells[q] = f.cells[q]
           /\ g.state = f.state \/ g.state = NoState
           /\ n # f.size => g.state = NoState
<1>1. Hole \in Cell
    BY DEF Hole, Byte, Cell
<1> QED
    BY <1>1, PartFileAssumption DEF SetLen, FileOK, NoState, Pos

LEMMA WriteStateFacts ==
    ASSUME NEW f, FileOK(f), NEW s, s.real \in Nat, s.done \in Nat
    PROVE  /\ FileOK(WriteState(f, s))
           /\ WriteState(f, s).state = s
           /\ WriteState(f, s).size = s.real + TrailerLen
           /\ \A q \in Pos : q < s.real => WriteState(f, s).cells[q] = f.cells[q]
           /\ FileOK(TornState(f, s))
           /\ TornState(f, s).state = NoState
<1> DEFINE w == WriteState(f, s)
           g == TornState(f, s)
<1>1. Hole \in Cell /\ Junk \in Cell
    BY DEF Hole, Junk, Byte, Cell
<1>2. /\ w \in [exists : BOOLEAN, size : Nat, cells : [Pos -> Cell], state : {s}]
      /\ w.exists
      /\ w.size = s.real + TrailerLen
      /\ \A q \in Pos : q < s.real => w.cells[q] = f.cells[q]
    BY <1>1, PartFileAssumption DEF WriteState, FileOK, Pos
<1>3. g = [w EXCEPT !.state = NoState]
    BY DEF TornState
<1> HIDE DEF w, g
<1>4. /\ g.exists = w.exists /\ g.size = w.size /\ g.cells = w.cells
      /\ g.state = NoState
    BY <1>2, <1>3
<1>5. FileOK(w) /\ FileOK(g) /\ w.state = s
    BY <1>2, <1>4 DEF FileOK, NoState
<1> QED
    BY <1>2, <1>4, <1>5 DEF w, g

-----------------------------------------------------------------------------
(* The server's answers. *)

CurOK == cur \in [Urls -> Resources] /\ \A u \in Urls : UrlOf[cur[u]] = u

\* The versions a URL names or has named.
Seen == {r \in Resources : r <= cur[UrlOf[r]]}

\* What a 200 is.
IsFull(m, r) ==
    /\ m.st = "200" /\ m.res = r /\ m.start = 0 /\ m.end = SizeOf[r] - 1
    /\ m.total \in {SizeOf[r], Unknown}
    /\ m.ranges \in BOOLEAN

\* What an answer to an open-ended range from `from` is.
IsOpenRange(m, r, from) ==
    \/ /\ m.st = "206" /\ m.res = r /\ m.end = SizeOf[r] - 1
       /\ from < SizeOf[r]
       /\ m.total \in {SizeOf[r], Unknown}
    \/ /\ m.st = "416"
       /\ from >= SizeOf[r]
       /\ m.total \in {SizeOf[r], Unknown}

IsError(m) == m.st \in {"net", "net_fatal", "4xx", "5xx"}

LEMMA FullRepliesFacts ==
    ASSUME NEW r \in Resources, NEW m \in FullReplies(r)
    PROVE  IsFull(m, r)
BY OriginAssumption DEF FullReplies, IsFull, Reply

LEMMA OpenRangeFacts ==
    ASSUME RangesWhole, NEW r \in Resources, NEW from \in Nat,
           NEW m \in RangeReplies(r, from, Unknown)
    PROVE  IsOpenRange(m, r, from)
BY OriginAssumption DEF RangeReplies, IsOpenRange, Reply, RangesWhole, Unknown

LEMMA ErrorFacts == ASSUME NEW m \in Errors PROVE IsError(m)
BY DEF Errors, IsError, Reply

\* An open-ended ranged request under If-Range is answered with the version
\* whose tag was sent, or with a whole body.
LEMMA RepliesFacts ==
    ASSUME RangesWhole, CurOK, url \in Urls, have \in Nat,
           have > 0 => tag \in Resources,
           NEW m \in Replies
    PROVE  \/ IsError(m)
           \/ IsFull(m, cur[url])
           \/ have > 0 /\ cur[url] = tag /\ IsOpenRange(m, tag, have)
<1>1. cur[url] \in Resources
    BY DEF CurOK
<1>2. tag \in Resources => tag # 0
    BY OriginAssumption
<1>3. CASE m \in Errors
    BY <1>3, ErrorFacts
<1>4. CASE m \in FullReplies(cur[url])
    BY <1>1, <1>4, FullRepliesFacts
<1>5. CASE m \notin Errors /\ m \notin FullReplies(cur[url])
    <2>1. have > 0 /\ cur[url] = tag /\ m \in RangeReplies(cur[url], have, Unknown)
        BY <1>2, <1>5 DEF Replies, PlainReplies, RangedReplies
    <2> QED
        BY <1>1, <2>1, OpenRangeFacts
<1> QED
    BY <1>3, <1>4, <1>5

-----------------------------------------------------------------------------
(* The inductive invariant. *)

\* StreamStateHonest, where the state is readable; and any resume state is for
\* a data region that some resource fills.
StreamOK ==
    LET s == part.state
    IN  /\ s.kind = "stream" =>
              /\ s.tag \in Seen /\ UrlOf[s.tag] = s.url /\ SizeOf[s.tag] = s.real
              /\ s.done <= s.real
              /\ Prefix(part, s.done, s.tag)
        /\ s.kind # "none" => \E r \in Resources : s.real = SizeOf[r]

\* Between attempts: HaveHonest, and a partial of unknown size has no trailer.
AttemptOK ==
    pc = "attempt" =>
        /\ url \in Urls /\ have \in Nat
        /\ have > 0 =>
              /\ tag \in Seen /\ UrlOf[tag] = url
              /\ known \in {Unknown, SizeOf[tag]}
              /\ have <= SizeOf[tag] /\ have <= part.size
              /\ Prefix(part, have, tag)
              /\ known = Unknown => part.state.kind = "none"

\* While a body is read: the response is of the version the validators name and
\* continues what is held, everything up to the write position is that version's,
\* and the trailer is gone or the one this attempt wrote.
BodyOK ==
    pc = "body" =>
        /\ url \in Urls /\ have \in Nat
        /\ tag \in Seen /\ UrlOf[tag] = url
        /\ reply.res = tag /\ reply.start = offset /\ reply.end = SizeOf[tag] - 1
        /\ offset \in Nat /\ written \in Nat
        /\ offset <= written /\ written <= SizeOf[tag]
        /\ total \in {Unknown, SizeOf[tag]} /\ known = total
        /\ written <= part.size
        /\ Prefix(part, written, tag)
        /\ \/ part.state.kind = "none"
           \/ /\ total # Unknown
              /\ part.state.kind = "stream" /\ part.state.real = total
              /\ part.state.done <= written
              /\ part.state.tag = tag /\ part.state.url = url

\* What is about to be verified and renamed is a whole version of the URL.
DoneOK ==
    pc \in {"verify", "rename"} =>
        /\ url \in Urls /\ written \in Nat
        /\ \E r \in Seen : UrlOf[r] = url /\ HoldsAll(part, written, r)
        /\ pc = "rename" => part.size = written

\* PublishedIntact, for a version its URL names or has named.
FinalOK ==
    final # NoFinal =>
        /\ final.url \in Urls
        /\ \E r \in Seen :
              UrlOf[r] = final.url /\ HoldsAll(final.file, final.file.size, r)

SingleInv ==
    /\ CurOK /\ FileOK(part) /\ StreamOK
    /\ AttemptOK /\ BodyOK /\ DoneOK
    /\ FinalOK

LEMMA Fits == \A r \in Resources : \A p \in 0 .. SizeOf[r] - 1 : p \in Pos
BY SingleAssumption, OriginAssumption, PartFileAssumption DEF Pos

LEMMA ResourceFacts == \A r \in Resources : r \in Int
BY OriginAssumption

LEMMA SeenFacts ==
    \A r \in Seen : /\ r \in Resources /\ r \in Int /\ SizeOf[r] \in Nat
                    /\ \A p \in 0 .. SizeOf[r] - 1 : p \in Pos
BY Fits, OriginAssumption DEF Seen

LEMMA CurSeen == ASSUME CurOK, NEW u \in Urls PROVE cur[u] \in Seen
<1>1. cur[u] \in Resources /\ UrlOf[cur[u]] = u
    BY DEF CurOK
<1>2. cur[u] \in Int
    BY <1>1, ResourceFacts
<1> QED
    BY <1>1, <1>2 DEF Seen

LEMMA SameSeen == ASSUME UNCHANGED cur PROVE Seen' = Seen /\ Urls' = Urls
BY DEF Seen, Urls

LEMMA SingleInitInv == SingleInit => SingleInv
BY NoFileOK DEF SingleInit, OriginInit, SingleInv, CurOK, StreamOK, AttemptOK, BodyOK,
   DoneOK, FinalOK

\* When the process is gone only what is on disk is left to show.
LEMMA DownInv ==
    ASSUME CurOK', FileOK(part)', StreamOK', FinalOK', pc' = "down"
    PROVE  SingleInv'
BY DEF SingleInv, AttemptOK, BodyOK, DoneOK

\* A file without a trailer claims nothing.
LEMMA NoStreamState == ASSUME part'.state.kind = "none" PROVE StreamOK'
BY DEF StreamOK

\* An attempt that ends the run leaves the part file as it was or removes it.
LEMMA FailInv ==
    ASSUME SingleInv, Fail, UNCHANGED << cur, final >>, part' = part \/ part' = NoFile
    PROVE  SingleInv'
<1>1. CurOK' /\ FinalOK'
    BY DEF SingleInv, CurOK, FinalOK, Urls, Seen
<1>2. FileOK(part)' /\ StreamOK'
    BY NoFileOK, NoStreamState, SameSeen DEF SingleInv, StreamOK, Prefix
<1> QED
    BY <1>1, <1>2, DownInv DEF Fail, Forget

\* What persist_stream writes is honest.
LEMMA PersistInv ==
    ASSUME SingleInv, pc = "body", PersistStream, UNCHANGED cur
    PROVE  /\ FileOK(part)' /\ StreamOK'
           /\ written <= part'.size
           /\ Prefix(part', written, tag)
           /\ \/ part'.state.kind = "none"
              \/ /\ total # Unknown
                 /\ part'.state.kind = "stream" /\ part'.state.real = total
                 /\ part'.state.done <= written
                 /\ part'.state.tag = tag /\ part'.state.url = url
<1> USE DEF SingleInv, BodyOK
<1>1. SizeOf[tag] \in Nat /\ \A p \in 0 .. SizeOf[tag] - 1 : p \in Pos
    BY SeenFacts
<1>2. CASE total = Unknown
    BY <1>1, <1>2, SameSeen DEF PersistStream, StreamOK, Prefix
<1>3. CASE total # Unknown
    <2> DEFINE s == StreamState
    <2>1. /\ s.kind = "stream" /\ s.real = total /\ s.done = written
          /\ s.url = url /\ s.tag = tag /\ s.real \in Nat /\ s.done \in Nat
        BY <1>1, <1>3 DEF StreamState, NoState
    <2>2. part' = WriteState(part, s)
        BY <1>3 DEF PersistStream
    <2> HIDE DEF s
    <2>3. /\ FileOK(part)' /\ part'.state = s /\ part'.size = s.real + TrailerLen
          /\ \A q \in Pos : q < s.real => part'.cells[q] = part.cells[q]
        BY <2>1, <2>2, WriteStateFacts
    <2>4. Prefix(part', written, tag)
        BY <1>1, <1>3, <2>1, <2>3 DEF Prefix
    <2>5. Seen' = Seen /\ tag \in Seen /\ tag \in Resources /\ UrlOf[tag] = url
        BY SameSeen, SeenFacts
    <2> QED
        BY <1>1, <1>3, <2>1, <2>3, <2>4, <2>5, PartFileAssumption DEF StreamOK
<1> QED
    BY <1>2, <1>3

\* The retry loop of run_single after an attempt that broke inside a body.
LEMMA BreakBodyInv == ASSUME SingleInv, BreakBody PROVE SingleInv'
<1> USE DEF BreakBody
<1>1. /\ FileOK(part)' /\ StreamOK' /\ written <= part'.size
      /\ Prefix(part', written, tag)
      /\ total = Unknown => part'.state.kind = "none"
    BY PersistInv
<1>2. CurOK' /\ FinalOK'
    BY DEF SingleInv, CurOK, FinalOK, Urls, Seen
<1>3. CASE Fail
    BY <1>1, <1>2, <1>3, DownInv DEF Fail, Forget
<1>4. CASE Transient(written, resumable) /\ UNCHANGED << tag, known >>
    <2>1. have' \in Nat /\ have' <= written /\ url' = url /\ pc' = "attempt"
        BY <1>4 DEF Transient, SingleInv, BodyOK
    <2>2. Prefix(part', have', tag)
        BY <1>1, <2>1 DEF Prefix, SingleInv, BodyOK
    <2>3. SizeOf[tag] \in Nat /\ part'.size \in Nat /\ written \in Nat
        BY <1>1, SeenFacts DEF SingleInv, BodyOK, FileOK
    <2>4. AttemptOK'
        <3>1. UNCHANGED << tag, known >> /\ Urls' = Urls /\ Seen' = Seen
            BY <1>4, SameSeen
        <3>2. /\ url \in Urls /\ tag \in Seen /\ UrlOf[tag] = url
              /\ known \in {Unknown, SizeOf[tag]} /\ known = total
              /\ written <= SizeOf[tag]
            BY DEF SingleInv, BodyOK
        <3> QED
            BY <1>1, <2>1, <2>2, <2>3, <3>1, <3>2 DEF AttemptOK
    <2> QED
        BY <1>1, <1>2, <2>1, <2>4 DEF SingleInv, BodyOK, DoneOK
<1> QED
    BY <1>3, <1>4 DEF TransientOrFail

LEMMA PeriodicSaveInv == ASSUME SingleInv, PeriodicSave PROVE SingleInv'
<1> USE DEF PeriodicSave
<1>1. CurOK' /\ FinalOK'
    BY DEF SingleInv, CurOK, FinalOK, Urls, Seen
<1>2. UNCHANGED << url, have, tag, reply, offset, written, total, known, pc >>
    BY DEF localVars, streamVars
<1>3. BodyOK'
    BY <1>2, PersistInv, SameSeen DEF BodyOK, SingleInv, Prefix
<1> QED
    BY <1>1, <1>2, <1>3, PersistInv DEF SingleInv, AttemptOK, DoneOK

LEMMA CrashInSaveInv == ASSUME SingleInv, CrashInSave PROVE SingleInv'
<1> DEFINE s == StreamState
<1>1. s.real \in Nat /\ s.done \in Nat
    BY SeenFacts DEF CrashInSave, SingleInv, BodyOK, StreamState, NoState
<1>2. part' = TornState(part, s)
    BY DEF CrashInSave
<1> HIDE DEF s
<1>3. FileOK(part)' /\ part'.state = NoState
    BY <1>1, <1>2, WriteStateFacts DEF SingleInv
<1>4. CurOK' /\ FinalOK'
    BY DEF CrashInSave, SingleInv, CurOK, FinalOK, Urls, Seen
<1> QED
    BY <1>3, <1>4, DownInv, NoStreamState DEF CrashInSave, Forget, NoState

\* The response byte for position w is byte w, and the last one is the version's last.
LEMMA BodyFacts ==
    ASSUME SingleInv, pc = "body"
    PROVE  /\ tag \in Seen /\ tag \in Resources /\ tag \in Int
           /\ SizeOf[tag] \in Nat /\ written \in Nat /\ written <= SizeOf[tag]
           /\ BodyAt(written) = written /\ reply.end = SizeOf[tag] - 1
<1>1. /\ tag \in Seen /\ written \in Nat /\ written <= SizeOf[tag]
      /\ reply.end = SizeOf[tag] - 1 /\ reply.start = offset /\ offset \in Nat
    BY DEF SingleInv, BodyOK
<1>2. BodyAt(written) = written
    BY <1>1 DEF BodyAt
<1> QED
    BY <1>1, <1>2, SeenFacts

\* One position of the body.
LEMMA ReadBodyInv == ASSUME SingleInv, ReadBody PROVE SingleInv'
<1> USE DEF ReadBody
<1>1. CurOK' /\ FinalOK'
    BY DEF SingleInv, CurOK, FinalOK, Urls, Seen
<1>2. CASE TooLarge(written + 1)
    BY <1>2, FailInv
<1>3. CASE ~TooLarge(written + 1)
    <2>1. /\ written < SizeOf[tag] /\ SizeOf[tag] \in Nat /\ BodyAt(written) = written
          /\ written \in Pos /\ tag \in Int /\ written \in Int /\ written \in Nat
        BY BodyFacts, Fits
    <2>2. part' = WriteAt(part, written, Byte(tag, written))
        BY <1>3, <2>1 DEF SingleInv, BodyOK
    <2>3. /\ FileOK(part)' /\ part'.cells[written] = Byte(tag, written)
          /\ \A q \in Pos : q # written => part'.cells[q] = part.cells[q]
          /\ part'.size >= part.size /\ part'.size > written
          /\ written < part.state.real => part'.state = part.state
          /\ written >= part.state.real => part'.state = NoState
        <3>1. FileOK(part)
            BY DEF SingleInv
        <3>2. Byte(tag, written) \in Cell
            BY <2>1 DEF Byte, Cell
        <3> QED
            BY <2>1, <2>2, <3>1, <3>2, WriteAtFacts
    <2>4. Prefix(part', written + 1, tag)
        <3>1. \A p \in 0 .. written : p \in Pos
            BY <2>1, BodyFacts, Fits
        <3>2. \A p \in 0 .. written - 1 : part.cells[p] = Byte(tag, p)
            BY DEF SingleInv, BodyOK, Prefix
        <3> QED
            BY <2>1, <2>3, <3>1, <3>2 DEF Prefix
    <2>5. /\ UNCHANGED << pc, url, have, tag, known, reply, offset, total >>
          /\ written' = written + 1
        BY <1>3
    <2>6. part'.state.kind # "none" => part'.state = part.state
        BY <2>1, <2>3 DEF NoState, SingleInv, FileOK
    <2>7. StreamOK'
        <3> SUFFICES ASSUME part'.state.kind # "none" PROVE StreamOK'
            BY NoStreamState
        <3>1. part'.state = part.state /\ part.state.done <= written
              /\ part.state.tag = tag /\ part.state.done \in Nat
            BY <2>6 DEF SingleInv, BodyOK, FileOK
        <3>2. Prefix(part', part'.state.done, part'.state.tag)
            BY <2>1, <2>4, <3>1 DEF Prefix
        <3> QED
            BY <3>1, <3>2, SameSeen DEF StreamOK, SingleInv
    <2>8. BodyOK'
        BY <2>1, <2>3, <2>4, <2>5, <2>6, SameSeen DEF BodyOK, SingleInv, FileOK
    <2> QED
        BY <1>1, <2>3, <2>5, <2>7, <2>8 DEF SingleInv, AttemptOK, DoneOK
<1> QED
    BY <1>2, <1>3

LEMMA EndBodyInv == ASSUME SingleInv, EndBody PROVE SingleInv'
<1> USE DEF EndBody
<1>1. UNCHANGED << part, final, cur, url, written >>
    BY DEF localVars, streamVars, diskVars
<1>2. CurOK' /\ FinalOK' /\ FileOK(part)' /\ StreamOK'
    BY <1>1 DEF SingleInv, CurOK, FinalOK, Urls, Seen, FileOK, StreamOK, Prefix
<1>3. written = SizeOf[tag] /\ tag \in Seen /\ UrlOf[tag] = url
    BY BodyFacts DEF SingleInv, BodyOK
<1>4. HoldsAll(part, written, tag)
    BY <1>3 DEF HoldsAll, SingleInv, BodyOK, Prefix
<1>5. DoneOK'
    BY <1>1, <1>3, <1>4, SameSeen DEF DoneOK, SingleInv, BodyOK
<1> QED
    BY <1>2, <1>5 DEF SingleInv, AttemptOK, BodyOK

\* run_single's prologue.
LEMMA LoadInv ==
    ASSUME SingleInv, NEW u \in Urls, LoadStreamState(u), url' = u, pc' = "attempt",
           UNCHANGED << part, cur, final >>
    PROVE  SingleInv'
<1>1. CurOK' /\ FinalOK' /\ FileOK(part)' /\ StreamOK' /\ Urls' = Urls
    BY DEF SingleInv, CurOK, FinalOK, Urls, Seen, FileOK, StreamOK, Prefix
<1>2. CASE ~LoadsStreamState(u)
    BY <1>1, <1>2 DEF LoadStreamState, SingleInv, AttemptOK, BodyOK, DoneOK
<1>3. CASE LoadsStreamState(u)
    <2>1. /\ part.state.kind = "stream" /\ part.state.url = u
          /\ have' = part.state.done /\ tag' = part.state.tag /\ known' = part.state.real
        BY <1>3 DEF LoadStreamState, LoadsStreamState, ReadState, NoState
    <2>2. /\ have' \in Nat /\ tag' \in Seen /\ UrlOf[tag'] = u /\ known' = SizeOf[tag']
          /\ have' <= known' /\ Prefix(part, have', tag')
          /\ part.size = known' + TrailerLen
        BY <2>1 DEF SingleInv, StreamOK, FileOK
    <2>3. SizeOf[tag'] \in Nat /\ have' <= part.size
        BY <2>2, SeenFacts, PartFileAssumption
    <2>4. AttemptOK'
        <3>1. SizeOf[tag'] # Unknown /\ Prefix(part', have', tag') /\ part'.size = part.size
            BY <2>2, <2>3 DEF Unknown, Prefix
        <3> QED
            BY <1>1, <2>2, <2>3, <3>1, SameSeen DEF AttemptOK
    <2> QED
        BY <1>1, <2>4 DEF SingleInv, BodyOK, DoneOK
<1> QED
    BY <1>2, <1>3

LEMMA StartSingleInv ==
    ASSUME SingleInv, NEW u \in Urls, NEW c \in CheckSums, StartSingle(u, c)
    PROVE  SingleInv'
BY LoadInv DEF StartSingle, diskVars

LEMMA AttemptNoBodyInv == ASSUME SingleInv, AttemptNoBody PROVE SingleInv'
<1>1. UNCHANGED << cur, part, final >> /\ pc = "attempt"
    BY DEF AttemptNoBody, diskVars
<1>2. CASE Fail
    BY <1>1, <1>2, FailInv
<1>3. CASE Transient(have, FALSE) /\ UNCHANGED << tag, known >>
    <2>1. CurOK' /\ FinalOK' /\ FileOK(part)' /\ StreamOK' /\ Urls' = Urls
        BY <1>1 DEF SingleInv, CurOK, FinalOK, Urls, Seen, FileOK, StreamOK, Prefix
    <2>2. have \in Nat
        BY <1>1 DEF SingleInv, AttemptOK
    <2>3. UNCHANGED << url, have, tag, known, part >> /\ pc' = "attempt"
        BY <1>1, <1>3, <2>2 DEF Transient
    <2> QED
        BY <1>1, <2>1, <2>3, SameSeen DEF SingleInv, AttemptOK, BodyOK, DoneOK
<1> QED
    BY <1>2, <1>3 DEF AttemptNoBody, TransientOrFail

\* The partial is discarded and the attempt begins again from nothing.
LEMMA RestartInv ==
    ASSUME SingleInv, pc = "attempt", RestartOrFail, part' = NoFile,
           UNCHANGED << cur, final >>
    PROVE  SingleInv'
<1>1. CASE Fail
    BY <1>1, FailInv
<1>2. CASE Transient(0, FALSE)
    <2>1. CurOK' /\ FinalOK' /\ Urls' = Urls
        BY DEF SingleInv, CurOK, FinalOK, Urls, Seen
    <2>2. FileOK(part)' /\ StreamOK'
        BY NoFileOK, NoStreamState
    <2>3. have \in Nat /\ url \in Urls
        BY DEF SingleInv, AttemptOK
    <2>4. have' = 0 /\ url' = url /\ pc' = "attempt"
        BY <1>2, <2>3 DEF Transient
    <2> QED
        BY <2>1, <2>2, <2>3, <2>4 DEF SingleInv, AttemptOK, BodyOK, DoneOK
<1> QED
    BY <1>1, <1>2 DEF RestartOrFail

LEMMA Attempt416Inv ==
    ASSUME RangesWhole, SingleInv, Attempt416
    PROVE  SingleInv'
<1> USE DEF Attempt416
<1>1. /\ pc = "attempt" /\ CurOK /\ url \in Urls /\ have \in Nat
      /\ have > 0 => tag \in Seen /\ tag \in Resources /\ UrlOf[tag] = url
                     /\ Prefix(part, have, tag)
                     /\ known \in {Unknown, SizeOf[tag]}
    BY SeenFacts DEF SingleInv, AttemptOK
<1>2. PICK m \in Replies :
          /\ m.st = "416"
          /\ \/ Complete416(m) /\ written' = have /\ pc' = "verify" /\ UNCHANGED << part, url >>
             \/ part' = NoFile /\ RestartOrFail
             \/ Fail /\ UNCHANGED part
    OBVIOUS
<1>3. have > 0 /\ m.total \in {SizeOf[tag], Unknown}
    BY <1>1, <1>2, RepliesFacts DEF IsError, IsFull, IsOpenRange
<1>4. CASE part' = NoFile /\ RestartOrFail
    BY <1>1, <1>4, RestartInv
<1>5. CASE Fail /\ UNCHANGED part
    BY <1>5, FailInv
<1>6. CASE Complete416(m) /\ written' = have /\ pc' = "verify" /\ UNCHANGED << part, url >>
    <2>1. have = SizeOf[tag]
        BY <1>1, <1>3, <1>6 DEF Complete416, Unknown
    <2>2. HoldsAll(part, have, tag)
        BY <1>1, <1>3, <2>1 DEF HoldsAll, Prefix
    <2>3. CurOK' /\ FinalOK' /\ FileOK(part)' /\ StreamOK' /\ Urls' = Urls
        BY <1>6 DEF SingleInv, CurOK, FinalOK, Urls, Seen, FileOK, StreamOK, Prefix
    <2>4. DoneOK'
        BY <1>1, <1>3, <1>6, <2>2, <2>3, SameSeen DEF DoneOK
    <2> QED
        BY <1>6, <2>3, <2>4 DEF SingleInv, AttemptOK, BodyOK
<1> QED
    BY <1>2, <1>4, <1>5, <1>6

\* Sizing the data region for a resource drops whatever trailer there was.
LEMMA SizeRegion ==
    ASSUME TrailersApart, FileOK(part), StreamOK,
           NEW r \in Resources, part' = SetLen(part, SizeOf[r])
    PROVE  /\ FileOK(part') /\ part'.state.kind = "none"
           /\ part'.size = SizeOf[r]
           /\ \A q \in Pos : q < SizeOf[r] => part'.cells[q] = part.cells[q]
<1> DEFINE n == SizeOf[r]
<1>1. n \in Nat
    BY OriginAssumption
<1> HIDE DEF n
<1>2. /\ FileOK(part') /\ part'.size = n
      /\ \A q \in Pos : q < n => part'.cells[q] = part.cells[q]
    BY <1>1, SetLenFacts DEF n
<1>3. n # part.size => part'.state = NoState
    BY <1>1, SetLenFacts DEF n
<1>4. part'.state = part.state \/ part'.state = NoState
    BY <1>1, SetLenFacts DEF n
<1>5. part'.state.kind = "none"
    BY <1>3, <1>4 DEF StreamOK, FileOK, TrailersApart, NoState, n
<1> QED
    BY <1>2, <1>5 DEF n

\* Emptying the file drops it too.
LEMMA DropAll ==
    ASSUME FileOK(part), part' = SetLen(part, 0)
    PROVE  FileOK(part') /\ part'.state.kind = "none" /\ part'.size = 0
<1>1. FileOK(part') /\ part'.size = 0
    BY SetLenFacts
<1>2. part'.state = part.state \/ part'.state = NoState
    BY SetLenFacts
<1>3. 0 # part.size => part'.state = NoState
    BY SetLenFacts
<1> QED
    BY <1>1, <1>2, <1>3, PartFileAssumption DEF FileOK, NoState

\* stream_to_store's prologue.
LEMMA OpenBodyInv ==
    ASSUME TrailersApart, SingleInv, pc = "attempt", UNCHANGED << cur, final >>,
           NEW m, NEW at \in Nat, NEW n, NEW res, NEW t \in Seen,
           UrlOf[t] = url, m.res = t, m.start = at, m.end = SizeOf[t] - 1,
           n \in {Unknown, SizeOf[t]},
           at <= SizeOf[t], at <= part.size, Prefix(part, at, t),
           n = Unknown /\ at > 0 => part.state.kind = "none",
           OpenBody(m, at, n, res, t)
    PROVE  SingleInv'
<1>1. CurOK' /\ FinalOK' /\ Urls' = Urls
    BY DEF SingleInv, CurOK, FinalOK, Urls, Seen
<1>2. CASE TooLarge(n)
    BY <1>2, FailInv DEF OpenBody
<1>3. CASE ~TooLarge(n)
    <2>1. SizeOf[t] \in Nat /\ url \in Urls /\ have \in Nat /\ FileOK(part) /\ StreamOK
        BY SeenFacts DEF SingleInv, AttemptOK
    <2>2. /\ pc' = "body" /\ reply' = m /\ offset' = at /\ written' = at /\ total' = n
          /\ known' = n /\ tag' = t /\ UNCHANGED << url, have >>
          /\ part' = IF n # Unknown THEN SetLen(part, n)
                     ELSE IF at = 0 THEN SetLen(part, 0) ELSE part
        BY <1>3 DEF OpenBody
    <2>3. /\ FileOK(part') /\ part'.state.kind = "none" /\ at <= part'.size
          /\ Prefix(part', at, t)
        <3>1. CASE n # Unknown
            <4>1. n = SizeOf[t] /\ part' = SetLen(part, SizeOf[t])
                BY <2>2, <3>1
            <4>2. /\ FileOK(part') /\ part'.state.kind = "none" /\ part'.size = SizeOf[t]
                  /\ \A q \in Pos : q < SizeOf[t] => part'.cells[q] = part.cells[q]
                BY <2>1, <4>1, SizeRegion, SeenFacts
            <4> QED
                BY <2>1, <4>2, SeenFacts DEF Prefix
        <3>2. CASE n = Unknown /\ at = 0
            <4>1. FileOK(part') /\ part'.state.kind = "none" /\ part'.size = 0
                BY <2>1, <2>2, <3>2, DropAll
            <4> QED
                BY <3>2, <4>1 DEF Prefix
        <3>3. CASE n = Unknown /\ at # 0
            BY <2>1, <2>2, <3>3
        <3> QED
            BY <3>1, <3>2, <3>3
    <2>4. BodyOK'
        BY <1>1, <2>1, <2>2, <2>3, SameSeen DEF BodyOK
    <2>5. StreamOK' /\ FileOK(part)'
        BY <2>3, NoStreamState
    <2> QED
        BY <1>1, <2>2, <2>4, <2>5 DEF SingleInv, AttemptOK, DoneOK
<1> QED
    BY <1>2, <1>3

LEMMA Attempt206Inv ==
    ASSUME RangesWhole, TrailersApart, SingleInv, Attempt206
    PROVE  SingleInv'
<1>1. /\ pc = "attempt" /\ CurOK /\ url \in Urls /\ have \in Nat
      /\ have > 0 =>
            /\ tag \in Seen /\ tag \in Resources /\ UrlOf[tag] = url
            /\ known \in {Unknown, SizeOf[tag]}
            /\ have <= SizeOf[tag] /\ have <= part.size
            /\ Prefix(part, have, tag)
            /\ known = Unknown => part.state.kind = "none"
    BY SeenFacts DEF SingleInv, AttemptOK, Attempt206
<1>2. PICK m \in Replies :
          /\ m.st = "206"
          /\ \/ RangeLinesUp(m) /\ OpenBody(m, have, m.total, TRUE, tag)
             \/ part' = NoFile /\ RestartOrFail
    BY DEF Attempt206
<1>3. UNCHANGED << cur, final >>
    BY DEF Attempt206
<1>4. /\ have > 0 /\ m.res = tag /\ m.end = SizeOf[tag] - 1
      /\ m.total \in {SizeOf[tag], Unknown}
    BY <1>1, <1>2, RepliesFacts DEF IsError, IsFull, IsOpenRange
<1>5. CASE part' = NoFile /\ RestartOrFail
    BY <1>1, <1>3, <1>5, RestartInv
<1>6. CASE RangeLinesUp(m) /\ OpenBody(m, have, m.total, TRUE, tag)
    <2>1. SizeOf[tag] # Unknown
        BY <1>1, <1>4, OriginAssumption DEF Unknown
    <2>2. m.start = have /\ (m.total = Unknown => part.state.kind = "none")
        BY <1>1, <1>4, <1>6, <2>1 DEF RangeLinesUp
    <2> QED
        BY <1>1, <1>3, <1>4, <1>6, <2>2, OpenBodyInv
<1> QED
    BY <1>2, <1>5, <1>6

LEMMA Attempt200Inv ==
    ASSUME RangesWhole, TrailersApart, SingleInv, Attempt200
    PROVE  SingleInv'
<1>1. /\ pc = "attempt" /\ CurOK /\ url \in Urls /\ have \in Nat /\ FileOK(part)
      /\ have > 0 => tag \in Resources
      /\ UNCHANGED << cur, final >>
    BY SeenFacts DEF SingleInv, AttemptOK, Attempt200
<1>2. PICK m \in Replies :
          m.st = "200" /\ OpenBody(m, 0, m.total, have = 0 /\ m.ranges, m.res)
    BY DEF Attempt200
<1>3. IsFull(m, cur[url])
    BY <1>1, <1>2, RepliesFacts DEF IsError, IsOpenRange
<1>4. /\ m.res \in Seen /\ UrlOf[m.res] = url /\ m.start = 0
      /\ m.end = SizeOf[m.res] - 1 /\ m.total \in {Unknown, SizeOf[m.res]}
    BY <1>1, <1>3, CurSeen DEF IsFull, CurOK
<1>5. 0 <= SizeOf[m.res] /\ 0 <= part.size
    <2>1. SizeOf[m.res] \in Nat
        BY <1>4, SeenFacts
    <2>2. part.size \in Nat
        BY <1>1 DEF FileOK
    <2> QED
        BY <2>1, <2>2
<1>6. Prefix(part, 0, m.res)
    BY DEF Prefix
<1> QED
    <2> DEFINE at == 0
               res == have = 0 /\ m.ranges
    <2>1. /\ at \in Nat /\ at <= SizeOf[m.res] /\ at <= part.size
          /\ Prefix(part, at, m.res) /\ m.start = at /\ ~(at > 0)
          /\ OpenBody(m, at, m.total, res, m.res)
        BY <1>2, <1>4, <1>5, <1>6
    <2> HIDE DEF at, res
    <2> QED
        BY <1>1, <1>4, <2>1, OpenBodyInv

LEMMA VerifyInv == ASSUME SingleInv, Verify PROVE SingleInv'
<1>1. pc = "verify" /\ UNCHANGED << cur, final >>
    BY DEF Verify
<1>2. CASE part' = NoFile /\ Fail
    BY <1>1, <1>2, FailInv
<1>3. CASE part' = SetLen(part, written) /\ pc' = "rename" /\ UNCHANGED << url, localVars >>
    <2>1. /\ FileOK(part) /\ StreamOK /\ url \in Urls /\ written \in Nat /\ Urls' = Urls
          /\ CurOK' /\ FinalOK' /\ UNCHANGED << url, written >>
        BY <1>1, <1>3 DEF SingleInv, DoneOK, CurOK, FinalOK, Urls, Seen, localVars, streamVars
    <2>2. PICK r \in Seen : UrlOf[r] = url /\ HoldsAll(part, written, r)
        BY <1>1 DEF SingleInv, DoneOK
    <2>3. /\ FileOK(part') /\ part'.size = written
          /\ \A q \in Pos : q < written => part'.cells[q] = part.cells[q]
          /\ part'.state = part.state \/ part'.state = NoState
          /\ written # part.size => part'.state = NoState
        BY <1>3, <2>1, SetLenFacts
    <2>4. HoldsAll(part', written, r)
        <3>1. \A p \in 0 .. written - 1 : p \in Pos /\ p < written
            BY <2>1, <2>2, SeenFacts DEF HoldsAll
        <3> QED
            BY <2>2, <2>3, <3>1 DEF HoldsAll
    <2>5. DoneOK'
        BY <1>1, <2>1, <2>2, <2>3, <2>4, SameSeen DEF DoneOK
    <2>6. StreamOK'
        <3> SUFFICES ASSUME part'.state.kind # "none" PROVE StreamOK'
            BY NoStreamState
        <3>1. /\ part'.state = part.state /\ part.size = written
              /\ part.size = part.state.real + TrailerLen
              /\ part.state.real \in Nat /\ part.state.done \in Nat
            BY <2>1, <2>3 DEF NoState, FileOK
        <3>2. \A q \in Pos : q < part.state.real => part'.cells[q] = part.cells[q]
            BY <2>1, <2>3, <3>1, PartFileAssumption DEF Pos
        <3> QED
            BY <1>1, <2>1, <3>1, <3>2, SeenFacts, SameSeen DEF StreamOK, Prefix
    <2>7. FileOK(part)'
        BY <2>3
    <2> QED
        BY <1>3, <2>1, <2>5, <2>6, <2>7 DEF SingleInv, AttemptOK, BodyOK
<1> QED
    BY <1>2, <1>3 DEF Verify

LEMMA RenameInv == ASSUME SingleInv, Rename PROVE SingleInv'
<1>1. CurOK' /\ FileOK(part)' /\ StreamOK'
    BY NoFileOK, NoStreamState DEF Rename, SingleInv, CurOK, Urls
<1>2. FinalOK'
    BY SameSeen DEF Rename, SingleInv, DoneOK, FinalOK
<1> QED
    BY <1>1, <1>2, DownInv DEF Rename, Forget

\* A new version upstream takes none back.
LEMMA OriginSeen == ASSUME SingleInv, OriginStep PROVE Urls' = Urls /\ Seen \subseteq Seen'
<1>1. Urls' = Urls
    BY DEF Urls
<1>2. PICK u \in Urls, q \in Resources : q > cur[u] /\ cur' = [cur EXCEPT ![u] = q]
    BY DEF OriginStep, OriginChange
<1>3. ASSUME NEW r \in Resources, r <= cur[UrlOf[r]] PROVE r <= cur'[UrlOf[r]]
    <2>1. UrlOf[r] \in Urls
        BY DEF Urls
    <2>2. r \in Int /\ q \in Int /\ cur[UrlOf[r]] \in Int
        <3>1. cur[UrlOf[r]] \in Resources
            BY <2>1 DEF SingleInv, CurOK
        <3> QED
            BY <3>1, ResourceFacts
    <2> QED
        BY <1>2, <1>3, <2>1, <2>2 DEF SingleInv, CurOK
<1> QED
    BY <1>1, <1>3 DEF Seen

LEMMA OriginStepInv == ASSUME SingleInv, OriginStep PROVE SingleInv'
<1>1. CurOK'
    BY DEF OriginStep, OriginChange, SingleInv, CurOK, Urls
<1>2. UNCHANGED << part, final, pc, url, have, tag, known, reply, offset, written, total >>
    BY DEF OriginStep, diskVars, localVars, streamVars
<1>3. Urls' = Urls /\ Seen \subseteq Seen'
    BY OriginSeen
<1> QED
    BY <1>1, <1>2, <1>3 DEF SingleInv, StreamOK, AttemptOK, BodyOK, DoneOK, FinalOK

\* Every step of the single mode keeps the invariant.
LEMMA SingleStepsInv ==
    ASSUME RangesWhole, TrailersApart, SingleInv, SingleSteps
    PROVE  SingleInv'
BY AttemptNoBodyInv, Attempt416Inv, Attempt206Inv, Attempt200Inv, ReadBodyInv,
   PeriodicSaveInv, BreakBodyInv, EndBodyInv, VerifyInv, RenameInv DEF SingleSteps

LEMMA CrashInv == ASSUME SingleInv, Crash PROVE SingleInv'
BY FailInv DEF Crash, Fail, diskVars

LEMMA StutterInv == ASSUME SingleInv, UNCHANGED singleVars PROVE SingleInv'
<1>1. UNCHANGED << cur, part, final, pc, url, have, tag, known, reply, offset, written, total >>
    BY DEF singleVars, diskVars, localVars, streamVars
<1>2. Urls' = Urls /\ Seen' = Seen
    BY <1>1, SameSeen
<1> QED
    BY <1>1, <1>2 DEF SingleInv, CurOK, StreamOK, AttemptOK, BodyOK, DoneOK, FinalOK

LEMMA SingleNextInv ==
    ASSUME RangesWhole, TrailersApart
    PROVE  SingleInv /\ [SingleNext]_singleVars => SingleInv'
<1> SUFFICES ASSUME SingleInv, [SingleNext]_singleVars PROVE SingleInv'
    OBVIOUS
<1> QED
    BY StartSingleInv, SingleStepsInv, CrashInv, CrashInSaveInv, OriginStepInv, StutterInv
       DEF SingleNext, Finished

-----------------------------------------------------------------------------
(* The theorems. *)

\* What run_single renames into place is one whole version of the URL it was
\* fetched from, for any resources, sizes, budgets, crashes, restarts, upstream
\* changes and downloads of other URLs to the same path.
THEOREM PublishesWholeVersions ==
    RangesWhole /\ TrailersApart => (SingleSpec => []PublishedIntact)
<1> SUFFICES ASSUME RangesWhole, TrailersApart PROVE SingleSpec => []PublishedIntact
    OBVIOUS
<1>1. SingleInv => PublishedIntact
    BY DEF SingleInv, FinalOK, PublishedIntact, Seen
<1> QED
    BY <1>1, SingleInitInv, SingleNextInv, PTL DEF SingleSpec

LEMMA InvStateHonest == SingleInv => StateHonest
<1> SUFFICES ASSUME SingleInv PROVE StateHonest
    OBVIOUS
<1>1. StreamStateHonest
    BY DEF StreamStateHonest, ReadState, SingleInv, StreamOK, Prefix, FileOK, NoState, Seen
<1>2. HaveHonest
    BY DEF HaveHonest, SingleInv, AttemptOK, Prefix, Seen
<1> QED
    BY <1>1, <1>2 DEF StateHonest

\* The trailer on disk and the retry loop's offset never claim a byte that is
\* not in the file, of the version whose validators stand next to them.
THEOREM ClaimsOnlyWhatIsThere ==
    RangesWhole /\ TrailersApart => (SingleSpec => []StateHonest)
<1> SUFFICES ASSUME RangesWhole, TrailersApart PROVE SingleSpec => []StateHonest
    OBVIOUS
<1> QED
    BY InvStateHonest, SingleInitInv, SingleNextInv, PTL DEF SingleSpec

-----------------------------------------------------------------------------
(* The checksum needs neither hypothesis: the server may do what it likes. *)

HashInv ==
    /\ sha \in Resources \cup {0}
    /\ pc = "rename" /\ sha # 0 => HoldsAll(part, part.size, sha)

LEMMA HashInitInv == SingleInit => HashInv
BY DEF SingleInit, HashInv

LEMMA HashNextInv == HashInv /\ [SingleNext]_singleVars => HashInv'
<1> SUFFICES ASSUME HashInv, [SingleNext]_singleVars PROVE HashInv'
    OBVIOUS
<1> USE DEF HashInv
<1>1. ASSUME NEW u \in Urls, NEW c \in CheckSums, StartSingle(u, c) PROVE HashInv'
    BY <1>1, SingleAssumption DEF StartSingle
<1>2. ASSUME pc' # "rename", sha' = sha \/ sha' = 0 PROVE HashInv'
    BY <1>2
<1>3. CASE AttemptNoBody
    <2>1. pc' # "rename" /\ (sha' = sha \/ sha' = 0)
        BY <1>3 DEF AttemptNoBody, TransientOrFail, Transient, Fail, Forget
    <2> QED
        BY <1>2, <2>1
<1>4. CASE Attempt416
    <2>1. pc' # "rename" /\ (sha' = sha \/ sha' = 0)
        BY <1>4 DEF Attempt416, RestartOrFail, Transient, Fail, Forget
    <2> QED
        BY <1>2, <2>1
<1>5. CASE Attempt206
    <2>1. pc' # "rename" /\ (sha' = sha \/ sha' = 0)
        BY <1>5 DEF Attempt206, OpenBody, RestartOrFail, Transient, Fail, Forget
    <2> QED
        BY <1>2, <2>1
<1>6. CASE Attempt200
    <2>1. pc' # "rename" /\ (sha' = sha \/ sha' = 0)
        BY <1>6 DEF Attempt200, OpenBody, Fail, Forget
    <2> QED
        BY <1>2, <2>1
<1>7. CASE ReadBody \/ PeriodicSave \/ EndBody
    <2>1. pc' # "rename" /\ (sha' = sha \/ sha' = 0)
        BY <1>7 DEF ReadBody, PeriodicSave, EndBody, Fail, Forget
    <2> QED
        BY <1>2, <2>1
<1>8. CASE BreakBody
    <2>1. pc' # "rename" /\ (sha' = sha \/ sha' = 0)
        BY <1>8 DEF BreakBody, TransientOrFail, Transient, Fail, Forget
    <2> QED
        BY <1>2, <2>1
<1>9. CASE Verify
    <2>1. CASE Fail
        BY <1>2, <2>1 DEF Fail, Forget
    <2>2. CASE HashOk(written) /\ part' = SetLen(part, written) /\ sha' = sha
        <3> SUFFICES ASSUME sha # 0 PROVE HoldsAll(part', part'.size, sha)
            BY <2>2
        <3>1. HoldsAll(part, written, sha) /\ sha \in Resources
            BY <2>2 DEF HashOk
        <3>2. \A p \in 0 .. written - 1 : p \in Pos /\ p < written
            BY <3>1, Fits, OriginAssumption DEF HoldsAll
        <3>3. part'.size = written /\ \A p \in Pos : p < written => part'.cells[p] = part.cells[p]
            BY <2>2 DEF SetLen
        <3> QED
            BY <3>1, <3>2, <3>3 DEF HoldsAll
    <2> QED
        BY <1>9, <2>1, <2>2 DEF Verify
<1>10. CASE Rename \/ Crash \/ CrashInSave
    BY <1>2, <1>10 DEF Rename, Crash, CrashInSave, Forget
<1>11. CASE OriginStep \/ UNCHANGED singleVars
    BY <1>11 DEF OriginStep, singleVars, diskVars, HoldsAll
<1> QED
    BY <1>1, <1>3, <1>4, <1>5, <1>6, <1>7, <1>8, <1>9, <1>10, <1>11
       DEF SingleNext, SingleSteps, Finished

\* A run that was given a SHA-256 publishes only what has it, whatever the
\* server sends: short, misplaced, mixed with what another run left behind.
THEOREM ChecksumDecides == SingleSpec => ChecksumProtects
<1>1. HashInv /\ [SingleNext]_singleVars =>
        [pc = "rename" /\ pc' = "down" /\ final' # final /\ sha # 0
            => HoldsAll(final'.file, final'.file.size, sha)]_singleVars
    <2> SUFFICES ASSUME HashInv, SingleNext, pc = "rename", final' # final, sha # 0
                 PROVE  HoldsAll(final'.file, final'.file.size, sha)
        OBVIOUS
    <2>1. Rename
        BY DEF SingleNext, SingleSteps, StartSingle, AttemptNoBody, Attempt416, Attempt206,
           Attempt200, ReadBody, PeriodicSave, BreakBody, EndBody, Verify, Crash,
           CrashInSave, OriginStep, Finished, diskVars, singleVars
    <2> QED
        BY <2>1 DEF Rename, HashInv, HoldsAll
<1> QED
    BY <1>1, HashInitInv, HashNextInv, PTL DEF SingleSpec, ChecksumProtects

-----------------------------------------------------------------------------
(* The segmented mode. *)


\* A 200 tells its length.  Without one prepare_part leaves an older trailer
\* readable under the bytes that are written.
LengthsGiven == "nolength" \notin Faults

Honest == RangesWhole /\ TrailersApart /\ LengthsGiven

-----------------------------------------------------------------------------
(* The inductive invariant. *)

Active == {"send", "pump", "ok"}

Statuses == {"none", "net", "net_fatal", "4xx", "5xx", "200", "206", "416"}

ReplyRec == [st : Statuses, res : Int, start : Int, end : Int, total : Int, ranges : BOOLEAN]

FetchRec == [st : FetchStates, chunk : Nat, from : Nat, upto : Int, got : Nat,
             wrote : Nat, budget : Int, reply : ReplyRec]

\* Positions a to b hold the bytes of r.
Holds(f, a, b, r) == \A p \in a .. b : f.cells[p] = Byte(r, p)

\* What chunk_plan gives: chunks inside the resource that leave no byte out.
GoodPlan(p, t) ==
    /\ Len(p) \in Nat \ {0}
    /\ \A i \in 1 .. Len(p) : /\ p[i][1] \in Nat /\ p[i][2] \in Nat
                              /\ p[i][1] <= p[i][2] /\ p[i][2] < t
    /\ \A k \in 0 .. t - 1 : \E i \in 1 .. Len(p) : p[i][1] <= k /\ k <= p[i][2]
    /\ Tiles(p, t)

\* RangedStateHonest, where the state is readable.
RangedOK ==
    LET s == part.state
    IN  s.kind = "ranged" =>
            /\ s.tag \in Seen /\ UrlOf[s.tag] = s.url /\ SizeOf[s.tag] = s.real
            /\ s.plan # NoPlan
            /\ s.bits \subseteq 1 .. Len(s.plan)
            /\ \A c \in s.bits : Holds(part, s.plan[c][1], s.plan[c][2], s.tag)

BootPhase == {"boot", "boot_body", "boot_fetch", "boot_save"}

\* Which threads there are, and what the shared state is, at each control point.
PhaseOK ==
    /\ fetch \in [Fetchers -> FetchRec]
    /\ pc \in {"down", "attempt", "body", "verify", "rename", "chunks"} \cup BootPhase
    /\ pc # "boot_fetch" => fetch[0].st = "off"
    /\ pc # "chunks" => \A w \in Workers : fetch[w].st \in {"off", "exit"}
    /\ pc \in {"down", "attempt", "body", "boot"} => plan = NoPlan
    /\ pc \notin {"chunks", "verify", "rename"} => claim = 1 /\ ~failed /\ ~fallback
    /\ pc \in BootPhase \cup {"chunks"} => url \in Urls /\ nseg \in Nat
    /\ pc \in {"down", "attempt", "body", "boot", "boot_body", "boot_fetch"} => bits = {}

\* The bootstrap body is a version of the URL from its first byte on.
BootBodyOK ==
    pc = "boot_body" =>
        /\ reply.res \in Seen /\ UrlOf[reply.res] = url
        /\ reply.end = SizeOf[reply.res] - 1
        /\ total = SizeOf[reply.res]
        /\ written \in Nat /\ written <= total
        /\ Prefix(part, written, reply.res)
        /\ part.state.kind = "none"
        /\ boot \in {"full", "small", "chunk0"}
        /\ boot = "chunk0" => tag = reply.res /\ GoodPlan(plan, total)
        /\ boot # "chunk0" => plan = NoPlan

\* From the end of chunk 0 on: the plan is one of the version the validators name,
\* and the chunks whose bit is set are there.
ChunkOK ==
    pc \in {"boot_fetch", "boot_save", "chunks"} =>
        /\ tag \in Seen /\ UrlOf[tag] = url /\ total = SizeOf[tag]
        /\ GoodPlan(plan, total)
        /\ bits \subseteq 1 .. Len(plan)
        /\ \A c \in bits : Holds(part, plan[c][1], plan[c][2], tag)
        /\ pc # "chunks" => part.state.kind = "none"
        /\ pc = "chunks" =>
              /\ part.state.kind = "ranged" /\ part.state.real = total
              /\ part.state.tag = tag /\ part.state.url = url
              /\ part.state.plan = plan /\ part.state.bits = bits

\* A fetcher has written its chunk up to where it is, and what it reads next is
\* the version's byte for that position.
FetchOK(f) ==
    LET x == fetch[f]
    IN  x.st \in Active =>
            /\ x.chunk \in 1 .. Len(plan)
            /\ plan[x.chunk][1] <= x.from /\ x.upto = plan[x.chunk][2]
            /\ x.from + x.got + x.wrote <= x.upto + 1
            /\ Holds(part, plan[x.chunk][1], x.from + x.got + x.wrote - 1, tag)
            /\ x.st = "send" => x.wrote = 0
            /\ x.st = "pump" => x.reply.res = tag /\ x.reply.start = x.from + x.got
            /\ x.st = "ok" => x.from + x.got + x.wrote = x.upto + 1

FetchersOK ==
    /\ \A f \in Fetchers : FetchOK(f)
    /\ pc = "boot_fetch" => fetch[0].chunk = 1 /\ fetch[0].st \in Active \cup {"fallback", "fatal"}

\* Something that makes the run give up or fall back has happened.
Trouble ==
    failed \/ fallback \/ \E w \in Workers : fetch[w].st \in {"fallback", "fatal", "panic"}

Owned(c) == \E w \in Workers : fetch[w].st \in Active /\ fetch[w].chunk = c

\* Every chunk the counter has passed is done, or in the hands of exactly one
\* thread, or the run is in trouble; a thread that left did so for a reason.
OwnOK ==
    pc = "chunks" =>
        /\ claim \in Nat \ {0}
        /\ \A w \in Workers : fetch[w].st \in Active =>
                                fetch[w].chunk < claim /\ fetch[w].chunk \notin bits
        /\ \A v, w \in Workers :
              /\ fetch[v].st \in Active /\ fetch[w].st \in Active
              /\ fetch[v].chunk = fetch[w].chunk
              => v = w
        /\ \A c \in 1 .. Len(plan) : c < claim => c \in bits \/ Owned(c) \/ Trouble
        /\ \A w \in Workers : fetch[w].st = "exit" => Trouble \/ claim > Len(plan)
        /\ fetch[1].st # "off"

\* A plan that is left when the run is over is still one of the file's.
PlanOK == pc \in {"verify", "rename"} /\ plan # NoPlan /\ total # Unknown => Tiles(plan, total)

SegInv ==
    /\ SingleInv /\ RangedOK
    /\ PhaseOK /\ BootBodyOK /\ ChunkOK /\ FetchersOK /\ OwnOK /\ PlanOK

-----------------------------------------------------------------------------
(* chunk_plan. *)

\* There are never more parts than bytes.
LEMMA PartsFit ==
    ASSUME NEW t \in Nat, NEW n \in Nat, Parts(t, n) >= 2
    PROVE  Parts(t, n) \in Nat /\ Parts(t, n) <= t
<1> DEFINE M == MinSegmentBytes
           d == DivCeil(t, M)
<1>1. M \in Nat /\ M >= 1 /\ MaxSegmentChunks \in Nat
    BY ChunkPlanAssumption
<1>2. d \in Int /\ M * d <= t + M - 1
    BY <1>1 DEF DivCeil
<1>3. Parts(t, n) \in Nat /\ Parts(t, n) <= d
    BY <1>1, <1>2 DEF Parts, MaxOf, MinOf
<1>4. d <= t
    <2> SUFFICES ASSUME d >= t + 1 PROVE FALSE
        BY <1>2
    <2>1. d >= 2
        BY <1>2, <1>3
    <2> HIDE DEF d, M
    <2>2. M * d = (M - 1) * (d - 1) + (d - 1) + M
        BY <1>1, <1>2
    <2>3. (M - 1) * (d - 1) >= 0
        BY <1>1, <1>2, <2>1
    <2> QED
        BY <1>1, <1>2, <2>1, <2>2, <2>3
<1> QED
    BY <1>2, <1>3, <1>4

LEMMA EqualPartsTile ==
    ASSUME NEW t \in Nat, NEW n \in Nat, n >= 1, n <= t
    PROVE  GoodPlan(EqualParts(t, n), t)
<1> DEFINE seg == t \div n
           p == EqualParts(t, n)
<1>1. seg \in Nat /\ seg >= 1 /\ n * seg <= t
    OBVIOUS
<1> HIDE DEF seg
<1>2. p = [i \in 1 .. n |-> << (i - 1) * seg, IF i = n THEN t - 1 ELSE i * seg - 1 >>]
    BY DEF EqualParts, seg
<1>3. Len(p) = n /\ DOMAIN p = 1 .. n
    BY <1>2
<1>4. \A i \in 1 .. n : p[i][1] = (i - 1) * seg /\ p[i][2] = IF i = n THEN t - 1 ELSE i * seg - 1
    BY <1>2
<1> HIDE DEF p
<1>5. ASSUME NEW i \in 1 .. n
      PROVE  /\ (i - 1) * seg \in Nat /\ i * seg = (i - 1) * seg + seg
             /\ i * seg <= n * seg
    BY <1>1
<1>6. ASSUME NEW i \in 1 .. n
      PROVE  /\ p[i][1] \in Nat /\ p[i][2] \in Nat
             /\ p[i][1] <= p[i][2] /\ p[i][2] < t
    BY <1>1, <1>4, <1>5
<1>7. ASSUME NEW k \in 0 .. t - 1
      PROVE  \E i \in 1 .. n : p[i][1] <= k /\ k <= p[i][2]
    <2> DEFINE q == k \div seg
    <2>1. q \in Nat /\ q * seg <= k /\ k < (q + 1) * seg
        BY <1>1
    <2> HIDE DEF q
    <2>2. CASE q + 1 < n
        <3>1. q + 1 \in 1 .. n /\ p[q + 1][1] = q * seg /\ p[q + 1][2] = (q + 1) * seg - 1
            BY <1>1, <1>4, <2>1, <2>2
        <3>2. (q + 1) * seg \in Int /\ q * seg \in Int
            BY <1>1, <2>1
        <3> QED
            BY <2>1, <3>1, <3>2
    <2>3. CASE q + 1 >= n
        <3>1. n \in 1 .. n /\ p[n][1] = (n - 1) * seg /\ p[n][2] = t - 1
            BY <1>4
        <3>2. (n - 1) * seg <= q * seg
            BY <1>1, <2>1, <2>3
        <3>3. (n - 1) * seg \in Int /\ q * seg \in Int
            BY <1>1, <2>1
        <3> QED
            BY <2>1, <3>1, <3>2, <3>3
    <2> QED
        BY <2>1, <2>2, <2>3
<1>8. Tiles(p, t)
    <2>1. p[1][1] = 0 /\ p[n][2] = t - 1
        BY <1>1, <1>4
    <2>2. ASSUME NEW i \in 1 .. n - 1 PROVE p[i + 1][1] = p[i][2] + 1
        <3>1. p[i][2] = i * seg - 1 /\ p[i + 1][1] = i * seg /\ i * seg \in Int
            BY <1>1, <1>4
        <3> QED
            BY <3>1
    <2> QED
        BY <1>3, <1>6, <2>1, <2>2 DEF Tiles
<1> QED
    BY <1>3, <1>6, <1>7, <1>8 DEF GoodPlan, p

LEMMA BySegmentsGood ==
    ASSUME NEW t \in Nat, NEW n \in Nat, BySegments(t, n) # NoPlan
    PROVE  GoodPlan(BySegments(t, n), t)
<1>1. Parts(t, n) >= 2 /\ BySegments(t, n) = EqualParts(t, Parts(t, n))
    BY ChunkPlanAssumption DEF BySegments, Parts, MaxOf, MinOf, DivCeil
<1> QED
    BY <1>1, PartsFit, EqualPartsTile

-----------------------------------------------------------------------------
(* Steps that leave the disk alone, and steps that leave the segmented mode. *)

LEMMA ThreadFacts == 0 \in Fetchers /\ Workers \subseteq Fetchers /\ 0 \notin Workers /\ 1 \in Workers
BY SegmentedAssumption DEF Fetchers, Workers

LEMMA FetcherRec ==
    ASSUME NEW st \in FetchStates, NEW c \in Nat, NEW from \in Nat, NEW upto \in Int,
           NEW b \in Int, NEW x, x = Fetcher(st, c, from, upto, b)
    PROVE  /\ x \in FetchRec /\ x.st = st /\ x.chunk = c /\ x.from = from
           /\ x.upto = upto /\ x.got = 0 /\ x.wrote = 0
<1>1. NoReply \in ReplyRec
    BY DEF NoReply, Reply, ReplyRec, Unknown, Statuses
<1> QED
    BY <1>1 DEF Fetcher, FetchRec

LEMMA BareRec ==
    \A st \in FetchStates : LET x == Fetcher(st, 0, 0, 0, 0) IN x \in FetchRec /\ x.st = st
<1>1. NoReply \in ReplyRec
    BY DEF NoReply, Reply, ReplyRec, Unknown, Statuses
<1> QED
    BY <1>1 DEF Fetcher, FetchRec

LEMMA OffRec == Off \in FetchRec /\ Off.st = "off"
BY BareRec DEF Off, FetchStates

LEMMA ForgetFacts ==
    ASSUME ForgetSeg
    PROVE  /\ fetch' \in [Fetchers -> FetchRec]
           /\ \A f \in Fetchers : fetch'[f].st = "off"
           /\ plan' = NoPlan /\ bits' = {} /\ claim' = 1 /\ ~failed' /\ ~fallback'
<1>1. fetch' = [f \in Fetchers |-> Off]
    BY DEF ForgetSeg
<1> HIDE DEF Off
<1> QED
    BY <1>1, OffRec DEF ForgetSeg

LEMMA SameDisk ==
    ASSUME SingleInv, RangedOK, UNCHANGED << cur, part, final >>
    PROVE  CurOK' /\ FinalOK' /\ FileOK(part)' /\ StreamOK' /\ RangedOK' /\ Urls' = Urls
<1>1. CurOK' /\ FinalOK' /\ FileOK(part)' /\ StreamOK' /\ Urls' = Urls
    BY DEF SingleInv, CurOK, FinalOK, Urls, Seen, FileOK, StreamOK, Prefix
<1>2. Seen' = Seen
    BY SameSeen
<1> QED
    BY <1>1, <1>2 DEF RangedOK, Holds

LEMMA NotRanged == ASSUME part'.state.kind # "ranged" PROVE RangedOK'
BY DEF RangedOK

LEMMA SameOutside ==
    ASSUME SingleInv, UNCHANGED << cur, final >>
    PROVE  CurOK' /\ FinalOK' /\ Urls' = Urls /\ Seen' = Seen
BY DEF SingleInv, CurOK, FinalOK, Urls, Seen

\* At a control point of the segmented mode SingleInv is only about the disk.
LEMMA SegSingleInv ==
    ASSUME CurOK', FinalOK', FileOK(part)', StreamOK',
           pc' \in BootPhase \cup {"chunks"}
    PROVE  SingleInv'
BY DEF SingleInv, AttemptOK, BodyOK, DoneOK, BootPhase

\* No segmented download is going on.
LEMMA IdleInv ==
    ASSUME SingleInv', RangedOK', ForgetSeg, pc' \in {"down", "attempt"}
    PROVE  SegInv'
<1>1. PhaseOK'
    BY ForgetFacts, ThreadFacts DEF PhaseOK, BootPhase
<1>2. BootBodyOK' /\ ChunkOK' /\ OwnOK' /\ PlanOK'
    BY DEF BootBodyOK, ChunkOK, OwnOK, PlanOK
<1>3. FetchersOK'
    BY ForgetFacts DEF FetchersOK, FetchOK, Active
<1> QED
    BY <1>1, <1>2, <1>3 DEF SegInv

LEMMA FailSegmentedInv ==
    ASSUME SegInv, FailSegmented, UNCHANGED << cur, final >>, part' = part \/ part' = NoFile
    PROVE  SegInv'
<1>1. SingleInv' /\ pc' = "down" /\ ForgetSeg
    BY FailInv DEF FailSegmented, SegInv, Fail, Forget
<1>2. RangedOK'
    BY SameDisk, NotRanged, NoFileOK DEF SegInv
<1> QED
    BY <1>1, <1>2, IdleInv

LEMMA FallBackInv ==
    ASSUME SegInv, FallBackToSingle, UNCHANGED << cur, final, part >>, url \in Urls
    PROVE  SegInv'
<1>1. SingleInv'
    BY LoadInv DEF FallBackToSingle, SegInv
<1>2. RangedOK'
    BY SameDisk DEF SegInv
<1> QED
    BY <1>1, <1>2, IdleInv DEF FallBackToSingle

LEMMA SegInitInv == Init => SegInv
<1> SUFFICES ASSUME Init PROVE SegInv
    OBVIOUS
<1>1. SingleInv /\ RangedOK
    BY SingleInitInv, NoFileOK DEF Init, SingleInit, RangedOK
<1>2. fetch \in [Fetchers -> FetchRec] /\ \A f \in Fetchers : fetch[f].st = "off"
    <2>1. fetch = [f \in Fetchers |-> Off]
        BY DEF Init
    <2> HIDE DEF Off
    <2> QED
        BY <2>1, OffRec
<1>3. PhaseOK
    BY <1>2, ThreadFacts DEF PhaseOK, BootPhase, Init, SingleInit
<1> QED
    BY <1>1, <1>2, <1>3 DEF SegInv, BootBodyOK, ChunkOK, OwnOK, PlanOK, FetchersOK, FetchOK,
       Active, Init, SingleInit

-----------------------------------------------------------------------------
(* Starting a run. *)

LEMMA StartWorkersFacts ==
    ASSUME NEW p, Len(p) \in Nat \ {0}, NEW g, g = StartWorkers(p)
    PROVE  /\ g \in [Fetchers -> FetchRec]
           /\ \A f \in Fetchers : g[f].st \in {"off", "top"}
           /\ g[0].st = "off" /\ g[1].st = "top"
<1> DEFINE top == Fetcher("top", 0, 0, 0, 0)
           k == MinOf(Parallelism, Len(p))
<1>1. top \in FetchRec /\ top.st = "top"
    BY BareRec DEF FetchStates
<1>2. k \in Nat /\ k >= 1
    BY SegmentedAssumption DEF MinOf
<1>3. g = [f \in Fetchers |-> IF f \in 1 .. k THEN top ELSE Off]
    BY DEF StartWorkers
<1> HIDE DEF top, k
<1>4. g \in [Fetchers -> FetchRec] /\ \A f \in Fetchers : g[f].st \in {"off", "top"}
    BY <1>1, <1>3, OffRec
<1>5. g[0] = Off /\ g[1] = top
    BY <1>2, <1>3, ThreadFacts
<1> QED
    BY <1>1, <1>4, <1>5, OffRec

\* run_chunks begins: every worker at the top of its loop, nothing claimed.
LEMMA ChunksStartInv ==
    ASSUME CurOK', FinalOK', FileOK(part)', StreamOK', RangedOK', ChunkOK',
           pc' = "chunks", url' \in Urls', nseg' \in Nat, claim' = 1,
           ~failed', ~fallback', fetch' = StartWorkers(plan')
    PROVE  SegInv'
<1>1. Len(plan') \in Nat \ {0} /\ bits' \subseteq 1 .. Len(plan')
    BY DEF ChunkOK, GoodPlan
<1>2. /\ fetch' \in [Fetchers -> FetchRec]
      /\ \A f \in Fetchers : fetch'[f].st \in {"off", "top"}
      /\ fetch'[0].st = "off" /\ fetch'[1].st = "top"
    BY <1>1, StartWorkersFacts
<1>3. SingleInv'
    BY SegSingleInv
<1>4. PhaseOK'
    BY <1>2 DEF PhaseOK, BootPhase
<1>5. FetchersOK' /\ BootBodyOK' /\ PlanOK'
    BY <1>2 DEF FetchersOK, FetchOK, Active, BootBodyOK, PlanOK
<1>6. OwnOK'
    BY <1>1, <1>2, ThreadFacts DEF OwnOK, Active
<1> QED
    BY <1>3, <1>4, <1>5, <1>6 DEF SegInv

LEMMA StartSegmentedInv ==
    ASSUME SegInv, NEW u \in Urls, NEW c \in CheckSums, NEW n \in Segments,
           StartSegmented(u, c, n)
    PROVE  SegInv'
<1>1. /\ pc = "down" /\ url' = u /\ nseg' = n /\ n \in Nat
      /\ UNCHANGED << cur, part, final, claim, failed, fallback, boot >>
    BY SegmentedAssumption DEF StartSegmented, diskVars
<1>2. CurOK' /\ FinalOK' /\ FileOK(part)' /\ StreamOK' /\ RangedOK' /\ Urls' = Urls
    BY <1>1, SameDisk DEF SegInv
<1>3. claim = 1 /\ ~failed /\ ~fallback
    BY <1>1 DEF SegInv, PhaseOK
<1>4. CASE ResumesRanged(u, n)
    <2>1. /\ pc' = "chunks" /\ total' = part.state.real /\ tag' = part.state.tag
          /\ part.state.kind = "ranged" /\ part.state.url = u
          /\ plan' = BySegments(total', n) /\ plan' = part.state.plan
          /\ bits' = part.state.bits /\ fetch' = StartWorkers(plan')
        BY <1>1, <1>4 DEF StartSegmented, ResumesRanged, ReadState, NoState
    <2>2. /\ tag' \in Seen /\ UrlOf[tag'] = u /\ SizeOf[tag'] = total'
          /\ plan' # NoPlan /\ bits' \subseteq 1 .. Len(plan')
          /\ \A k \in bits' : Holds(part, plan'[k][1], plan'[k][2], tag')
        BY <2>1 DEF SegInv, RangedOK
    <2>3. total' \in Nat
        BY <2>2, SeenFacts
    <2>4. GoodPlan(plan', total')
        BY <1>1, <2>1, <2>2, <2>3, BySegmentsGood
    <2>5. ChunkOK'
        BY <1>1, <2>1, <2>2, <2>4, SameSeen DEF ChunkOK, Holds
    <2> QED
        BY <1>1, <1>2, <1>3, <2>1, <2>5, ChunksStartInv
<1>5. CASE ~ResumesRanged(u, n)
    <2>1. pc' = "boot" /\ UNCHANGED << plan, bits, fetch >>
        BY <1>5 DEF StartSegmented
    <2>2. SingleInv'
        BY <1>2, <2>1, SegSingleInv DEF BootPhase
    <2>3. PhaseOK'
        BY <1>1, <1>2, <1>3, <2>1 DEF SegInv, PhaseOK, BootPhase
    <2>4. \A f \in Fetchers : fetch[f].st \notin Active
        BY <1>1 DEF SegInv, PhaseOK, Fetchers, Active
    <2> QED
        BY <1>2, <2>1, <2>2, <2>3, <2>4
           DEF SegInv, BootBodyOK, ChunkOK, FetchersOK, FetchOK, OwnOK, PlanOK
<1> QED
    BY <1>4, <1>5

-----------------------------------------------------------------------------
(* The bootstrap. *)

LEMMA BootReplyFacts ==
    ASSUME Honest, CurOK, url \in Urls, NEW m \in BootReplies
    PROVE  /\ cur[url] \in Seen /\ UrlOf[cur[url]] = url
           /\ \/ IsError(m)
              \/ IsFull(m, cur[url]) /\ m.total = SizeOf[cur[url]]
              \/ IsOpenRange(m, cur[url], 0)
<1> DEFINE r == cur[url]
<1>1. r \in Resources /\ r \in Seen /\ UrlOf[r] = url
    BY CurSeen DEF CurOK, Seen
<1>2. \/ m \in Errors \/ m \in FullReplies(r)
      \/ m \in RangeReplies(r, 0, Unknown)
    BY DEF BootReplies, RangedReplies
<1>3. CASE m \in Errors
    BY <1>1, <1>3, ErrorFacts
<1>4. CASE m \in FullReplies(r)
    <2>1. m.total = SizeOf[r]
        BY <1>4 DEF FullReplies, Reply, Honest, LengthsGiven
    <2> QED
        BY <1>1, <1>4, <2>1, FullRepliesFacts
<1>5. CASE m \in RangeReplies(r, 0, Unknown)
    BY <1>1, <1>5, OpenRangeFacts DEF Honest
<1> QED
    BY <1>1, <1>2, <1>3, <1>4, <1>5

\* No thread but the main one runs during the bootstrap.
LEMMA BootQuiet ==
    ASSUME SegInv, pc \in {"boot", "boot_body", "boot_save"}
    PROVE  /\ \A f \in Fetchers : fetch[f].st \notin Active
           /\ url \in Urls /\ nseg \in Nat /\ claim = 1 /\ ~failed /\ ~fallback
           /\ CurOK /\ FileOK(part) /\ StreamOK
BY DEF SegInv, SingleInv, PhaseOK, Fetchers, Active, BootPhase

\* The bootstrap goes on, with the shared state untouched.
LEMMA BootGoesOn ==
    ASSUME SegInv, pc \in {"boot", "boot_body"}, pc' \in {"boot", "boot_body"},
           UNCHANGED << cur, final, url, nseg, bits, claim, failed, fallback, fetch >>,
           FileOK(part)', StreamOK', RangedOK', BootBodyOK',
           pc' = "boot" => plan' = NoPlan
    PROVE  SegInv'
<1>1. CurOK' /\ FinalOK' /\ Urls' = Urls
    BY SameOutside DEF SegInv
<1>2. SingleInv'
    BY <1>1, SegSingleInv DEF BootPhase
<1>3. PhaseOK'
    BY <1>1 DEF SegInv, PhaseOK, BootPhase
<1>4. FetchersOK'
    BY BootQuiet DEF FetchersOK, FetchOK
<1> QED
    BY <1>2, <1>3, <1>4 DEF SegInv, ChunkOK, OwnOK, PlanOK

LEMMA BootRetryInv ==
    ASSUME SegInv, NEW n, BootRetryOrFail(n), UNCHANGED << cur, part, final >>,
           pc \in {"boot", "boot_body"}, plan = NoPlan
    PROVE  SegInv'
<1>1. CASE FailSegmented
    BY <1>1, FailSegmentedInv
<1>2. CASE pc' = "boot" /\ UNCHANGED << url, nseg, sharedVars, fetch >>
    <2>1. FileOK(part)' /\ StreamOK' /\ RangedOK'
        BY SameDisk DEF SegInv
    <2>2. BootBodyOK'
        BY <1>2 DEF BootBodyOK
    <2> QED
        BY <1>2, <2>1, <2>2, BootGoesOn DEF sharedVars
<1> QED
    BY <1>1, <1>2 DEF BootRetryOrFail

LEMMA BootNoBodyInv == ASSUME SegInv, BootNoBody PROVE SegInv'
<1>1. pc = "boot" /\ UNCHANGED << cur, part, final >> /\ plan = NoPlan
    BY DEF BootNoBody, diskVars, SegInv, PhaseOK
<1> QED
    BY <1>1, BootRetryInv, FailSegmentedInv DEF BootNoBody

LEMMA BootBreakInv == ASSUME SegInv, BootBreak PROVE SegInv'
<1>1. pc = "boot_body" /\ UNCHANGED << cur, part, final >> /\ plan = NoPlan
    BY DEF BootBreak, diskVars, SegInv, BootBodyOK
<1> QED
    BY <1>1, BootRetryInv DEF BootBreak

\* The run is over with the whole file on disk.
LEMMA ToVerifyInv ==
    ASSUME SegInv, UNCHANGED << cur, final, url, segVars >>, pc' = "verify",
           FileOK(part)', StreamOK', RangedOK',
           \A f \in Fetchers : fetch[f].st \in {"off", "exit"}, fetch[0].st = "off",
           url \in Urls, written' \in Nat,
           NEW r \in Seen, UrlOf[r] = url, HoldsAll(part', written', r),
           plan # NoPlan => Tiles(plan, total')
    PROVE  SegInv'
<1>1. CurOK' /\ FinalOK' /\ Urls' = Urls /\ Seen' = Seen
    BY SameOutside DEF SegInv
<1>2. DoneOK'
    BY <1>1 DEF DoneOK
<1>3. SingleInv'
    BY <1>1, <1>2 DEF SingleInv, AttemptOK, BodyOK
<1>4. UNCHANGED << fetch, plan, claim, failed, fallback, bits, nseg >>
    BY DEF segVars, sharedVars
<1>5. PhaseOK'
    BY <1>4, ThreadFacts DEF SegInv, PhaseOK, BootPhase
<1>6. FetchersOK'
    BY <1>4 DEF FetchersOK, FetchOK, Active
<1> QED
    BY <1>3, <1>4, <1>5, <1>6 DEF SegInv, BootBodyOK, ChunkOK, OwnOK, PlanOK

LEMMA Boot416Inv == ASSUME Honest, SegInv, Boot416 PROVE SegInv'
<1>1. /\ pc = "boot" /\ part' = SetLen(part, 0) /\ written' = 0 /\ pc' = "verify"
      /\ UNCHANGED << cur, final, url, segVars >>
    BY DEF Boot416
<1>2. PICK m \in BootReplies : m.st = "416"
    BY DEF Boot416
<1>3. /\ url \in Urls /\ CurOK /\ FileOK(part) /\ plan = NoPlan /\ fetch[0].st = "off"
      /\ \A f \in Fetchers : fetch[f].st \in {"off", "exit"}
    BY <1>1, BootQuiet DEF SegInv, PhaseOK, Fetchers, BootPhase
<1>4. cur[url] \in Seen /\ UrlOf[cur[url]] = url /\ 0 >= SizeOf[cur[url]]
    BY <1>2, <1>3, BootReplyFacts DEF IsError, IsFull, IsOpenRange
<1>5. HoldsAll(part', written', cur[url])
    BY <1>1, <1>4, SeenFacts DEF HoldsAll
<1>6. FileOK(part)' /\ StreamOK' /\ RangedOK'
    BY <1>1, <1>3, DropAll, NoStreamState, NotRanged
<1> QED
    BY <1>1, <1>3, <1>4, <1>5, <1>6, ToVerifyInv

\* A body that starts at byte 0 is opened on a data region sized for it.
LEMMA BootOpenInv ==
    ASSUME Honest, SegInv, pc = "boot", UNCHANGED << cur, final >>,
           NEW m, NEW kind \in {"full", "small", "chunk0"}, NEW r \in Seen,
           UrlOf[r] = url, m.res = r, m.end = SizeOf[r] - 1,
           PreparePart(SizeOf[r]), BootOpen(m, kind, SizeOf[r]),
           kind = "chunk0" => tag' = r /\ GoodPlan(plan', SizeOf[r]),
           kind # "chunk0" => plan' = NoPlan
    PROVE  SegInv'
<1>1. /\ pc' = "boot_body" /\ boot' = kind /\ reply' = m /\ written' = 0 /\ total' = SizeOf[r]
      /\ UNCHANGED << url, nseg, bits, claim, failed, fallback, fetch >>
    BY DEF BootOpen
<1>2. r \in Resources /\ SizeOf[r] \in Nat
    BY SeenFacts
<1>3. part' = SetLen(part, SizeOf[r])
    BY <1>2 DEF PreparePart, Unknown
<1>4. FileOK(part)' /\ part'.state.kind = "none"
    BY <1>2, <1>3, SizeRegion DEF Honest, SegInv, SingleInv
<1>5. Prefix(part', 0, r)
    BY DEF Prefix
<1>6. BootBodyOK'
    BY <1>1, <1>2, <1>4, <1>5, SameSeen DEF BootBodyOK
<1> QED
    BY <1>1, <1>4, <1>6, NoStreamState, NotRanged, BootGoesOn

LEMMA Boot200Inv == ASSUME Honest, SegInv, Boot200 PROVE SegInv'
<1>1. pc = "boot" /\ UNCHANGED << cur, final >> /\ url \in Urls /\ CurOK /\ plan = NoPlan
    BY BootQuiet DEF Boot200, SegInv, PhaseOK
<1>2. PICK m \in BootReplies :
          /\ m.st = "200"
          /\ \/ FailSegmented /\ UNCHANGED part
             \/ PreparePart(m.total) /\ BootOpen(m, "full", m.total) /\ UNCHANGED plan
    BY DEF Boot200
<1>3. CASE FailSegmented /\ UNCHANGED part
    BY <1>1, <1>3, FailSegmentedInv
<1>4. CASE PreparePart(m.total) /\ BootOpen(m, "full", m.total) /\ UNCHANGED plan
    <2>1. /\ cur[url] \in Seen /\ UrlOf[cur[url]] = url /\ m.res = cur[url]
          /\ m.end = SizeOf[cur[url]] - 1 /\ m.total = SizeOf[cur[url]]
        BY <1>1, <1>2, BootReplyFacts DEF IsError, IsFull, IsOpenRange
    <2> QED
        BY <1>1, <1>4, <2>1, BootOpenInv
<1> QED
    BY <1>2, <1>3, <1>4

LEMMA Boot206Inv == ASSUME Honest, SegInv, Boot206 PROVE SegInv'
<1>1. /\ pc = "boot" /\ UNCHANGED << cur, final >> /\ url \in Urls /\ CurOK
      /\ nseg \in Nat
    BY BootQuiet DEF Boot206
<1>2. PICK m \in BootReplies :
          /\ m.st = "206"
          /\ \/ FallBackToSingle /\ UNCHANGED part
             \/ FailSegmented /\ UNCHANGED part
             \/ /\ m.total # Unknown
                /\ PreparePart(m.total) /\ plan' = BySegments(m.total, nseg) /\ tag' = m.res
                /\ BootOpen(m, IF BySegments(m.total, nseg) = NoPlan
                               THEN "small" ELSE "chunk0", m.total)
    BY DEF Boot206
<1>3. CASE FallBackToSingle /\ UNCHANGED part
    BY <1>1, <1>3, FallBackInv
<1>4. CASE FailSegmented /\ UNCHANGED part
    BY <1>1, <1>4, FailSegmentedInv
<1>5. CASE /\ m.total # Unknown
           /\ PreparePart(m.total) /\ plan' = BySegments(m.total, nseg) /\ tag' = m.res
           /\ BootOpen(m, IF BySegments(m.total, nseg) = NoPlan
                          THEN "small" ELSE "chunk0", m.total)
    <2> DEFINE kind == IF BySegments(m.total, nseg) = NoPlan THEN "small" ELSE "chunk0"
    <2>1. /\ cur[url] \in Seen /\ UrlOf[cur[url]] = url /\ m.res = cur[url]
          /\ m.end = SizeOf[cur[url]] - 1 /\ m.total = SizeOf[cur[url]]
        BY <1>1, <1>2, <1>5, BootReplyFacts DEF IsError, IsFull, IsOpenRange
    <2>2. m.total \in Nat
        BY <2>1, SeenFacts
    <2>3. /\ kind \in {"full", "small", "chunk0"} /\ BootOpen(m, kind, m.total)
          /\ kind # "chunk0" => plan' = NoPlan
        BY <1>5
    <2>4. kind = "chunk0" => GoodPlan(plan', m.total)
        BY <1>1, <1>5, <2>2, BySegmentsGood
    <2> HIDE DEF kind
    <2> QED
        BY <1>1, <1>5, <2>1, <2>3, <2>4, BootOpenInv
<1> QED
    BY <1>2, <1>3, <1>4, <1>5

LEMMA BootBodyFacts ==
    ASSUME SegInv, pc = "boot_body"
    PROVE  /\ reply.res \in Seen /\ UrlOf[reply.res] = url /\ reply.res \in Int
           /\ reply.end = total - 1 /\ total = SizeOf[reply.res] /\ total \in Nat
           /\ written \in Nat /\ written <= total /\ Prefix(part, written, reply.res)
           /\ part.state.kind = "none" /\ boot \in {"full", "small", "chunk0"}
           /\ boot = "chunk0" => /\ tag = reply.res /\ GoodPlan(plan, total)
                                 /\ plan[1][1] = 0 /\ plan[1][2] \in Nat /\ plan[1][2] < total
           /\ boot # "chunk0" => plan = NoPlan
           /\ \A p \in 0 .. total - 1 : p \in Pos
<1>1. /\ reply.res \in Seen /\ UrlOf[reply.res] = url
      /\ reply.end = SizeOf[reply.res] - 1 /\ total = SizeOf[reply.res]
      /\ written \in Nat /\ written <= total /\ Prefix(part, written, reply.res)
      /\ part.state.kind = "none" /\ boot \in {"full", "small", "chunk0"}
      /\ boot = "chunk0" => tag = reply.res /\ GoodPlan(plan, total)
      /\ boot # "chunk0" => plan = NoPlan
    BY DEF SegInv, BootBodyOK
<1>2. GoodPlan(plan, total) => plan[1][1] = 0 /\ plan[1][2] \in Nat /\ plan[1][2] < total
    BY DEF GoodPlan, Tiles
<1> QED
    BY <1>1, <1>2, SeenFacts

LEMMA BootReadInv == ASSUME SegInv, BootRead PROVE SegInv'
<1>1. /\ pc = "boot_body" /\ pc' = "boot_body" /\ written' = written + 1
      /\ UNCHANGED << cur, final, url, nseg, bits, claim, failed, fallback, fetch, plan, boot,
                      reply, total, tag >>
      /\ part' = WriteAt(part, written, Byte(reply.res, written))
    BY DEF BootRead, sharedVars
<1>2. written < total /\ written \in Pos
    BY <1>1, BootBodyFacts DEF BootRead, BootMore
<1>3. Byte(reply.res, written) \in Cell
    BY <1>1, BootBodyFacts DEF Byte, Cell
<1>4. /\ FileOK(part)' /\ part'.cells[written] = Byte(reply.res, written)
      /\ \A q \in Pos : q # written => part'.cells[q] = part.cells[q]
      /\ part'.state = part.state \/ part'.state = NoState
    <2>1. FileOK(part) /\ written \in Int /\ part.state.real \in Int
        BY <1>1, BootBodyFacts DEF SegInv, SingleInv, FileOK
    <2> QED
        BY <1>1, <1>2, <1>3, <2>1, WriteAtFacts
<1>5. part'.state.kind = "none"
    BY <1>1, <1>4, BootBodyFacts DEF NoState
<1>6. Prefix(part', written + 1, reply.res)
    <2>1. \A p \in 0 .. written : p \in Pos
        BY <1>1, <1>2, BootBodyFacts
    <2> QED
        BY <1>1, <1>4, <2>1, BootBodyFacts DEF Prefix
<1>7. BootBodyOK'
    BY <1>1, <1>2, <1>5, <1>6, BootBodyFacts, SameSeen DEF BootBodyOK
<1> QED
    BY <1>1, <1>4, <1>5, <1>7, NoStreamState, NotRanged, BootGoesOn

LEMMA BootFullInv == ASSUME SegInv, BootFull PROVE SegInv'
<1>1. /\ pc = "boot_body" /\ pc' = "verify" /\ boot # "chunk0" /\ ~BootMore
      /\ UNCHANGED << cur, final, part, url, written, total, segVars >>
    BY DEF BootFull, diskVars, localVars, streamVars
<1>2. written = total /\ plan = NoPlan
    BY <1>1, BootBodyFacts DEF BootMore, BootWant, Unknown
<1>3. HoldsAll(part', written', reply.res)
    BY <1>1, <1>2, BootBodyFacts DEF HoldsAll, Prefix
<1>4. /\ fetch[0].st = "off" /\ url \in Urls
      /\ \A f \in Fetchers : fetch[f].st \in {"off", "exit"}
    BY <1>1 DEF SegInv, PhaseOK, Fetchers, BootPhase
<1>5. FileOK(part)' /\ StreamOK' /\ RangedOK'
    BY <1>1, SameDisk DEF SegInv
<1>6. written' \in Nat /\ reply.res \in Seen /\ UrlOf[reply.res] = url
    BY <1>1, BootBodyFacts
<1> QED
    BY <1>1, <1>2, <1>3, <1>4, <1>5, <1>6, ToVerifyInv

-----------------------------------------------------------------------------
(* Chunk 0. *)

LEMMA ChunkFacts ==
    ASSUME SegInv, pc \in {"boot_fetch", "boot_save", "chunks"}
    PROVE  /\ tag \in Seen /\ tag \in Int /\ UrlOf[tag] = url /\ total = SizeOf[tag]
           /\ total \in Nat /\ \A p \in 0 .. total - 1 : p \in Pos
           /\ Len(plan) \in Nat \ {0}
           /\ \A c \in 1 .. Len(plan) :
                 /\ plan[c][1] \in Nat /\ plan[c][2] \in Nat
                 /\ plan[c][1] <= plan[c][2] /\ plan[c][2] < total
           /\ plan # NoPlan
           /\ bits \subseteq 1 .. Len(plan)
           /\ \A c \in bits : Holds(part, plan[c][1], plan[c][2], tag)
           /\ url \in Urls /\ nseg \in Nat /\ CurOK /\ FileOK(part) /\ StreamOK
           /\ fetch \in [Fetchers -> FetchRec]
<1>1. /\ tag \in Seen /\ UrlOf[tag] = url /\ total = SizeOf[tag] /\ GoodPlan(plan, total)
      /\ bits \subseteq 1 .. Len(plan)
      /\ \A c \in bits : Holds(part, plan[c][1], plan[c][2], tag)
    BY DEF SegInv, ChunkOK
<1>2. url \in Urls /\ nseg \in Nat /\ CurOK /\ FileOK(part) /\ StreamOK
    BY DEF SegInv, PhaseOK, SingleInv, BootPhase
<1>3. /\ Len(plan) \in Nat \ {0}
      /\ \A c \in 1 .. Len(plan) :
            /\ plan[c][1] \in Nat /\ plan[c][2] \in Nat
            /\ plan[c][1] <= plan[c][2] /\ plan[c][2] < total
    BY <1>1 DEF GoodPlan
<1>4. plan # NoPlan
    BY <1>3 DEF NoPlan
<1>5. fetch \in [Fetchers -> FetchRec]
    BY DEF SegInv, PhaseOK
<1> QED
    BY <1>1, <1>2, <1>3, <1>4, <1>5, SeenFacts

LEMMA BootChunk0ShortInv == ASSUME SegInv, BootChunk0Short PROVE SegInv'
<1> DEFINE x == Fetcher("send", 1, written, plan[1][2], MaxRetries)
<1>1. /\ pc = "boot_body" /\ boot = "chunk0" /\ written < plan[1][2] + 1 /\ pc' = "boot_fetch"
      /\ fetch' = [fetch EXCEPT ![0] = x]
      /\ UNCHANGED << cur, part, final, url, tag, total, nseg, plan, bits, claim, failed,
                      fallback >>
    BY DEF BootChunk0Short, BootWant, diskVars, localVars, streamVars, sharedVars
<1>2. /\ tag \in Seen /\ UrlOf[tag] = url /\ total = SizeOf[tag] /\ GoodPlan(plan, total)
      /\ written \in Nat /\ Prefix(part, written, tag) /\ part.state.kind = "none"
      /\ plan[1][1] = 0 /\ plan[1][2] \in Nat /\ Len(plan) \in Nat \ {0}
    BY <1>1, BootBodyFacts DEF GoodPlan
<1>3. /\ x \in FetchRec /\ x.st = "send" /\ x.chunk = 1 /\ x.from = written
      /\ x.upto = plan[1][2] /\ x.got = 0 /\ x.wrote = 0
    <2>1. "send" \in FetchStates /\ 1 \in Nat /\ MaxRetries \in Int /\ plan[1][2] \in Int
        BY <1>2, SingleAssumption DEF FetchStates
    <2> QED
        BY <1>2, <2>1, FetcherRec
<1> HIDE DEF x
<1>4. /\ fetch \in [Fetchers -> FetchRec] /\ bits = {} /\ claim = 1 /\ ~failed /\ ~fallback
      /\ url \in Urls /\ nseg \in Nat
      /\ \A w \in Workers : fetch[w].st \in {"off", "exit"}
    BY <1>1 DEF SegInv, PhaseOK, BootPhase
<1>5. /\ fetch' \in [Fetchers -> FetchRec] /\ fetch'[0] = x
      /\ \A w \in Workers : fetch'[w].st \in {"off", "exit"}
    BY <1>1, <1>3, <1>4, ThreadFacts
<1>6. CurOK' /\ FinalOK' /\ FileOK(part)' /\ StreamOK' /\ RangedOK' /\ Urls' = Urls
    BY <1>1, SameDisk DEF SegInv
<1>7. SingleInv'
    BY <1>1, <1>6, SegSingleInv DEF BootPhase
<1>8. PhaseOK'
    BY <1>1, <1>4, <1>5, <1>6 DEF PhaseOK, BootPhase
<1>9. ChunkOK'
    BY <1>1, <1>2, <1>4, SameSeen DEF ChunkOK
<1>10. FetchersOK'
    <2>1. FetchOK(0)'
        <3>1. Holds(part', 0, written - 1, tag)
            BY <1>1, <1>2 DEF Prefix, Holds
        <3> QED
            BY <1>1, <1>2, <1>3, <1>5, <3>1 DEF FetchOK, Active
    <2>2. \A w \in Workers : FetchOK(w)'
        BY <1>5 DEF FetchOK, Active
    <2> QED
        BY <1>3, <1>5, <2>1, <2>2 DEF FetchersOK, Fetchers, Active
<1> QED
    BY <1>1, <1>7, <1>8, <1>9, <1>10, <1>6 DEF SegInv, BootBodyOK, OwnOK, PlanOK

LEMMA BootChunk0DoneInv == ASSUME SegInv, BootChunk0Done PROVE SegInv'
<1>1. /\ pc \in {"boot_body", "boot_fetch"} /\ pc' = "boot_save" /\ bits' = {1}
      /\ fetch' = [fetch EXCEPT ![0] = Off]
      /\ UNCHANGED << cur, part, final, url, tag, total, nseg, plan, claim, failed, fallback >>
    BY DEF BootChunk0Done, diskVars, localVars, streamVars
<1>2. /\ tag \in Seen /\ UrlOf[tag] = url /\ total = SizeOf[tag] /\ GoodPlan(plan, total)
      /\ part.state.kind = "none" /\ plan[1][1] = 0 /\ Holds(part, 0, plan[1][2], tag)
    <2>1. CASE pc = "boot_body" /\ boot = "chunk0" /\ written >= BootWant
        <3>1. written >= plan[1][2] + 1 /\ written \in Nat /\ plan[1][2] \in Nat
            BY <2>1, BootBodyFacts DEF BootWant
        <3>2. Holds(part, 0, plan[1][2], tag)
            BY <2>1, <3>1, BootBodyFacts DEF Prefix, Holds
        <3> QED
            BY <2>1, <3>2, BootBodyFacts
    <2>2. CASE pc = "boot_fetch" /\ fetch[0].st = "ok"
        <3>1. /\ fetch[0].chunk = 1 /\ fetch[0].upto = plan[1][2]
              /\ Holds(part, plan[1][1], fetch[0].upto, tag)
            <4> DEFINE x == fetch[0]
            <4>1. /\ x.chunk = 1 /\ x.upto = plan[1][2]
                  /\ Holds(part, plan[x.chunk][1], x.from + x.got + x.wrote - 1, tag)
                  /\ x.from + x.got + x.wrote = x.upto + 1
                BY <2>2, ThreadFacts DEF SegInv, FetchersOK, FetchOK, Active
            <4>2. x.upto \in Int /\ x.from \in Nat /\ x.got \in Nat /\ x.wrote \in Nat
                BY <2>2, ChunkFacts, ThreadFacts DEF FetchRec
            <4>3. x.from + x.got + x.wrote - 1 = x.upto
                BY <4>1, <4>2
            <4> QED
                BY <4>1, <4>3
        <3>2. GoodPlan(plan, total) /\ part.state.kind = "none"
            BY <2>2 DEF SegInv, ChunkOK
        <3>3. plan[1][1] = 0
            BY <3>2 DEF GoodPlan, Tiles
        <3> QED
            BY <2>2, <3>1, <3>2, <3>3, ChunkFacts
    <2> QED
        BY <2>1, <2>2 DEF BootChunk0Done
<1>3. /\ fetch \in [Fetchers -> FetchRec] /\ claim = 1 /\ ~failed /\ ~fallback
      /\ url \in Urls /\ nseg \in Nat
      /\ \A w \in Workers : fetch[w].st \in {"off", "exit"}
    BY <1>1 DEF SegInv, PhaseOK, BootPhase
<1>4. /\ fetch' \in [Fetchers -> FetchRec] /\ fetch'[0].st = "off"
      /\ \A w \in Workers : fetch'[w].st \in {"off", "exit"}
    <2> HIDE DEF Off
    <2> QED
        BY <1>1, <1>3, ThreadFacts, OffRec
<1>5. CurOK' /\ FinalOK' /\ FileOK(part)' /\ StreamOK' /\ RangedOK' /\ Urls' = Urls
    BY <1>1, SameDisk DEF SegInv
<1>6. SingleInv'
    BY <1>1, <1>5, SegSingleInv DEF BootPhase
<1>7. PhaseOK'
    BY <1>1, <1>3, <1>4, <1>5 DEF PhaseOK, BootPhase
<1>8. ChunkOK'
    <2>1. bits' \subseteq 1 .. Len(plan)
        BY <1>1, <1>2 DEF GoodPlan
    <2>2. \A c \in bits' : Holds(part', plan[c][1], plan[c][2], tag)
        BY <1>1, <1>2
    <2> QED
        BY <1>1, <1>2, <2>1, <2>2, SameSeen DEF ChunkOK
<1>9. FetchersOK'
    BY <1>1, <1>4 DEF FetchersOK, FetchOK, Active, Fetchers
<1> QED
    BY <1>1, <1>5, <1>6, <1>7, <1>8, <1>9 DEF SegInv, BootBodyOK, OwnOK, PlanOK

LEMMA BootChunk0LostInv == ASSUME SegInv, BootChunk0Lost PROVE SegInv'
<1>1. pc = "boot_fetch" /\ UNCHANGED << cur, part, final >>
    BY DEF BootChunk0Lost, diskVars
<1>2. url \in Urls
    BY <1>1, ChunkFacts
<1> QED
    BY <1>1, <1>2, FallBackInv, FailSegmentedInv DEF BootChunk0Lost

\* What persist_ranged writes.
LEMMA PersistRanged ==
    ASSUME SegInv, pc \in {"boot_save", "chunks"}, NEW b, UNCHANGED << cur >>,
           b \subseteq 1 .. Len(plan),
           \A c \in b : Holds(part, plan[c][1], plan[c][2], tag),
           part' = WriteState(part, RangedState(b))
    PROVE  /\ FileOK(part)' /\ StreamOK' /\ RangedOK'
           /\ part'.state.kind = "ranged" /\ part'.state.real = total
           /\ part'.state.tag = tag /\ part'.state.url = url
           /\ part'.state.plan = plan /\ part'.state.bits = b
           /\ \A q \in Pos : q < total => part'.cells[q] = part.cells[q]
           /\ \A c \in b : Holds(part', plan[c][1], plan[c][2], tag)
<1> DEFINE s == RangedState(b)
<1>1. /\ s.kind = "ranged" /\ s.real = total /\ s.tag = tag /\ s.url = url
      /\ s.plan = plan /\ s.bits = b /\ s.done = 0
    BY DEF RangedState, NoState
<1>2. s.real \in Nat /\ s.done \in Nat
    BY <1>1, ChunkFacts
<1>3. part' = WriteState(part, s)
    OBVIOUS
<1> HIDE DEF s
<1>4. /\ FileOK(part)' /\ part'.state = s
      /\ \A q \in Pos : q < s.real => part'.cells[q] = part.cells[q]
    BY <1>2, <1>3, ChunkFacts, WriteStateFacts
<1>5. ASSUME NEW c \in b PROVE Holds(part', plan[c][1], plan[c][2], tag)
    <2>1. /\ plan[c][1] \in Nat /\ plan[c][2] \in Nat /\ plan[c][2] < total
          /\ total \in Nat /\ \A p \in 0 .. total - 1 : p \in Pos
        BY ChunkFacts
    <2>2. Holds(part, plan[c][1], plan[c][2], tag)
        OBVIOUS
    <2>3. \A p \in plan[c][1] .. plan[c][2] : p \in Pos /\ p < s.real
        BY <1>1, <2>1
    <2> QED
        BY <1>4, <2>2, <2>3 DEF Holds
<1>6. RangedOK'
    BY <1>1, <1>4, <1>5, ChunkFacts, SameSeen DEF RangedOK
<1>7. StreamOK'
    BY <1>1, <1>4, ChunkFacts, SeenFacts DEF StreamOK
<1> QED
    BY <1>1, <1>4, <1>5, <1>6, <1>7

LEMMA BootSaveInv == ASSUME SegInv, BootSave PROVE SegInv'
<1>1. /\ pc = "boot_save" /\ pc' = "chunks" /\ fetch' = StartWorkers(plan)
      /\ part' = WriteState(part, RangedState(bits))
      /\ UNCHANGED << cur, final, url, tag, total, nseg, plan, bits, claim, failed, fallback >>
    BY DEF BootSave, localVars, streamVars, sharedVars
<1>2. /\ FileOK(part)' /\ StreamOK' /\ RangedOK'
      /\ part'.state.kind = "ranged" /\ part'.state.real = total
      /\ part'.state.tag = tag /\ part'.state.url = url
      /\ part'.state.plan = plan /\ part'.state.bits = bits
      /\ \A c \in bits : Holds(part', plan[c][1], plan[c][2], tag)
    BY <1>1, ChunkFacts, PersistRanged
<1>3. CurOK' /\ FinalOK' /\ Urls' = Urls /\ Seen' = Seen
    BY <1>1, SameOutside DEF SegInv
<1>4. GoodPlan(plan, total)
    BY <1>1 DEF SegInv, ChunkOK
<1>5. ChunkOK'
    BY <1>1, <1>2, <1>3, <1>4, ChunkFacts DEF ChunkOK
<1>6. claim = 1 /\ ~failed /\ ~fallback /\ url \in Urls /\ nseg \in Nat
    BY <1>1, BootQuiet
<1> QED
    BY <1>1, <1>2, <1>3, <1>5, <1>6, ChunksStartInv

-----------------------------------------------------------------------------
(* fetch_chunk_streaming. *)

\* A step of a fetcher that is at work on its chunk: it may write bytes of the
\* version at positions of the file, and changes nothing but its own record.
LEMMA FetchStepInv ==
    ASSUME SegInv, NEW f \in Fetchers, fetch[f].st \in Active,
           NEW y \in FetchRec, fetch' = [fetch EXCEPT ![f] = y],
           UNCHANGED unchangedByFetch,
           y.chunk = fetch[f].chunk,
           y.st \in Active \cup {"fallback", "fatal", "panic"},
           y.st = "panic" => f \in Workers,
           FileOK(part)',
           part'.state = part.state \/ (part.state.kind = "none" /\ part'.state.kind = "none"),
           \A p \in Pos : part'.cells[p] = part.cells[p] \/ part'.cells[p] = Byte(tag, p),
           FetchOK(f)'
    PROVE  SegInv'
<1>1. UNCHANGED << cur, final, pc, url, tag, total, nseg, plan, bits, claim, failed, fallback >>
    BY DEF unchangedByFetch, localVars, streamVars, sharedVars
<1>2. pc \in {"boot_fetch", "chunks"} /\ (pc = "boot_fetch" <=> f = 0)
    BY DEF SegInv, PhaseOK, Active, Fetchers, Workers
<1>3. CurOK' /\ FinalOK' /\ Urls' = Urls /\ Seen' = Seen
    BY <1>1, SameOutside DEF SegInv
<1>4. ASSUME NEW a \in Nat, NEW b \in Int, b < total, Holds(part, a, b, tag)
      PROVE  Holds(part', a, b, tag)
    <2>1. \A p \in a .. b : p \in Pos
        BY <1>2, <1>4, ChunkFacts
    <2> QED
        BY <1>4, <2>1 DEF Holds
<1>5. \A c \in bits : Holds(part', plan[c][1], plan[c][2], tag)
    BY <1>2, <1>4, ChunkFacts
<1>6. StreamOK' /\ RangedOK'
    <2>1. CASE part.state.kind = "none"
        BY <2>1, NoStreamState, NotRanged
    <2>2. CASE part.state.kind # "none"
        <3>1. /\ part.state.kind = "ranged" /\ part.state.real = total
              /\ part.state.tag = tag /\ part.state.url = url
              /\ part.state.plan = plan /\ part.state.bits = bits
            BY <1>2, <2>2 DEF SegInv, ChunkOK
        <3>2. StreamOK'
            BY <1>2, <3>1, ChunkFacts, SeenFacts DEF StreamOK
        <3>3. RangedOK'
            BY <1>1, <1>2, <1>3, <1>5, <3>1, ChunkFacts DEF RangedOK
        <3> QED
            BY <3>2, <3>3
    <2> QED
        BY <2>1, <2>2
<1>7. SingleInv'
    BY <1>1, <1>2, <1>3, <1>6, SegSingleInv DEF BootPhase
<1>8. ChunkOK'
    BY <1>1, <1>2, <1>3, <1>5 DEF SegInv, ChunkOK
<1>9. /\ fetch \in [Fetchers -> FetchRec] /\ fetch' \in [Fetchers -> FetchRec]
      /\ fetch'[f] = y /\ \A g \in Fetchers : g # f => fetch'[g] = fetch[g]
    BY DEF SegInv, PhaseOK
<1>10. PhaseOK'
    BY <1>1, <1>2, <1>3, <1>9, ThreadFacts DEF SegInv, PhaseOK, BootPhase
<1>11. FetchersOK'
    <2>1. ASSUME NEW g \in Fetchers, g # f, fetch[g].st \in Active PROVE FetchOK(g)'
        <3> DEFINE x == fetch[g]
                   hi == x.from + x.got + x.wrote - 1
        <3>1. x.chunk \in Nat /\ x.from \in Nat /\ x.got \in Nat /\ x.wrote \in Nat
            BY <1>9 DEF FetchRec
        <3>2. /\ x.chunk \in 1 .. Len(plan) /\ x.upto = plan[x.chunk][2]
              /\ x.from + x.got + x.wrote <= x.upto + 1
              /\ Holds(part, plan[x.chunk][1], hi, tag)
            BY <2>1 DEF SegInv, FetchersOK, FetchOK
        <3>3. plan[x.chunk][1] \in Nat /\ hi \in Int /\ hi < total
            <4>1. /\ plan[x.chunk][1] \in Nat /\ x.upto \in Nat /\ x.upto < total
                  /\ total \in Nat
                BY <1>2, <3>2, ChunkFacts
            <4>2. x.from + x.got + x.wrote <= x.upto + 1
                BY <3>2
            <4> QED
                BY <3>1, <4>1, <4>2
        <3>4. Holds(part', plan[x.chunk][1], hi, tag)
            BY <1>4, <3>2, <3>3
        <3> QED
            BY <1>1, <1>9, <2>1, <3>4 DEF SegInv, FetchersOK, FetchOK
    <2>2. ASSUME NEW g \in Fetchers, g # f, fetch[g].st \notin Active PROVE FetchOK(g)'
        BY <1>9, <2>2 DEF FetchOK
    <2>3. pc = "boot_fetch" => /\ fetch'[0].chunk = 1
                               /\ fetch'[0].st \in Active \cup {"fallback", "fatal"}
        BY <1>2, <1>9, ThreadFacts DEF SegInv, FetchersOK
    <2> QED
        BY <1>1, <2>1, <2>2, <2>3 DEF FetchersOK
<1>12. OwnOK'
    <2> SUFFICES ASSUME pc = "chunks" PROVE OwnOK'
        BY <1>1 DEF OwnOK
    <2>1. f \in Workers /\ OwnOK
        BY <1>2 DEF Fetchers, SegInv
    <2>2. Trouble => Trouble'
        BY <1>1, <1>9, <2>1, ThreadFacts DEF Trouble, Active
    <2>3. ASSUME NEW c \in 1 .. Len(plan), c < claim PROVE c \in bits \/ Owned(c)' \/ Trouble'
        <3>1. CASE c \in bits \/ Trouble
            BY <2>2, <3>1
        <3>2. CASE Owned(c)
            <4>1. PICK w \in Workers : fetch[w].st \in Active /\ fetch[w].chunk = c
                BY <3>2 DEF Owned
            <4>2. CASE w # f
                BY <1>9, <4>1, <4>2, ThreadFacts DEF Owned
            <4>3. CASE w = f
                BY <1>9, <2>1, <4>1, <4>3, ThreadFacts DEF Owned, Trouble
            <4> QED
                BY <4>2, <4>3
        <3> QED
            BY <2>1, <2>3, <3>1, <3>2 DEF OwnOK
    <2>4. \A w \in Workers : fetch'[w].st = "exit" => Trouble' \/ claim > Len(plan)
        BY <1>9, <2>1, <2>2, ThreadFacts DEF OwnOK, Active
    <2>5. \A w \in Workers : fetch'[w].st \in Active =>
                fetch[w].st \in Active /\ fetch'[w].chunk = fetch[w].chunk
        BY <1>9, <2>1, ThreadFacts
    <2>6. \A w \in Workers : fetch'[w].st \in Active =>
                fetch'[w].chunk < claim /\ fetch'[w].chunk \notin bits
        BY <2>1, <2>5 DEF OwnOK
    <2>7. \A v, w \in Workers :
             fetch'[v].st \in Active /\ fetch'[w].st \in Active
             /\ fetch'[v].chunk = fetch'[w].chunk => v = w
        BY <2>1, <2>5 DEF OwnOK
    <2>8. fetch'[1].st # "off"
        BY <1>9, <2>1, ThreadFacts DEF OwnOK, Active
    <2> QED
        BY <1>1, <2>1, <2>3, <2>4, <2>6, <2>7, <2>8 DEF OwnOK
<1> QED
    BY <1>1, <1>2, <1>6, <1>7, <1>8, <1>10, <1>11, <1>12 DEF SegInv, BootBodyOK, PlanOK

\* A fetcher at work: its record, its chunk and the bytes it has written.
LEMMA ActiveFacts ==
    ASSUME SegInv, NEW f \in Fetchers, fetch[f].st \in Active, NEW x, x = fetch[f]
    PROVE  /\ pc \in {"boot_fetch", "chunks"} /\ x \in FetchRec /\ x.st \in Active
           /\ x.chunk \in 1 .. Len(plan) /\ x.upto = plan[x.chunk][2]
           /\ plan[x.chunk][1] \in Nat /\ plan[x.chunk][1] <= x.from
           /\ x.from \in Nat /\ x.got \in Nat /\ x.wrote \in Nat /\ x.upto \in Nat
           /\ x.upto < total /\ total \in Nat /\ tag \in Int
           /\ x.from + x.got + x.wrote <= x.upto + 1
           /\ Holds(part, plan[x.chunk][1], x.from + x.got + x.wrote - 1, tag)
           /\ x.st = "send" => x.wrote = 0
           /\ x.st = "pump" => x.reply.res = tag /\ x.reply.start = x.from + x.got
<1>1. pc \in {"boot_fetch", "chunks"}
    BY DEF SegInv, PhaseOK, Active, Fetchers, Workers
<1>2. x \in FetchRec
    BY <1>1, ChunkFacts
<1>3. x.from \in Nat /\ x.got \in Nat /\ x.wrote \in Nat
    BY <1>2 DEF FetchRec
<1>4. /\ x.chunk \in 1 .. Len(plan) /\ x.upto = plan[x.chunk][2]
      /\ plan[x.chunk][1] <= x.from
      /\ x.from + x.got + x.wrote <= x.upto + 1
      /\ Holds(part, plan[x.chunk][1], x.from + x.got + x.wrote - 1, tag)
      /\ x.st = "send" => x.wrote = 0
      /\ x.st = "pump" => x.reply.res = tag /\ x.reply.start = x.from + x.got
    BY DEF SegInv, FetchersOK, FetchOK
<1>5. plan[x.chunk][1] \in Nat /\ x.upto \in Nat /\ x.upto < total /\ total \in Nat /\ tag \in Int
    BY <1>1, <1>4, ChunkFacts
<1> QED
    BY <1>1, <1>2, <1>3, <1>4, <1>5

LEMMA AfterAdvanceFacts ==
    ASSUME NEW f, NEW slow \in BOOLEAN, fetch[f] \in FetchRec
    PROVE  LET y == AfterAdvance(f, slow)
           IN  /\ y \in FetchRec /\ y.st \in {"ok", "fatal", "send"}
               /\ y.chunk = fetch[f].chunk /\ y.from = fetch[f].from /\ y.upto = fetch[f].upto
               /\ y.got = fetch[f].got + fetch[f].wrote /\ y.wrote = 0
               /\ y.st = "ok" => y.got >= fetch[f].upto - fetch[f].from + 1
<1> DEFINE x == fetch[f]
           g == x.got + x.wrote
           b == IF x.wrote > 0 /\ ~slow THEN MaxRetries ELSE x.budget
           c == b - 1
           y == AfterAdvance(f, slow)
<1>1. x \in FetchRec /\ g \in Nat /\ c \in Int
    BY SingleAssumption DEF FetchRec
<1>2. NoReply \in ReplyRec
    BY DEF NoReply, Reply, ReplyRec, Unknown, Statuses
<1> HIDE DEF NoReply
<1>3. \/ y = [x EXCEPT !.st = "ok", !.got = g, !.wrote = 0] /\ g >= x.upto - x.from + 1
      \/ y = [x EXCEPT !.st = "fatal", !.got = g, !.wrote = 0]
      \/ y = [x EXCEPT !.st = "send", !.got = g, !.wrote = 0, !.budget = c, !.reply = NoReply]
    BY Zenon DEF AfterAdvance, Want
<1> SUFFICES /\ y \in FetchRec /\ y.st \in {"ok", "fatal", "send"}
             /\ y.chunk = x.chunk /\ y.from = x.from /\ y.upto = x.upto
             /\ y.got = g /\ y.wrote = 0
             /\ y.st = "ok" => g >= x.upto - x.from + 1
    OBVIOUS
<1> HIDE DEF x, g, b, c, y
<1>4. "ok" \in FetchStates /\ "fatal" \in FetchStates /\ "send" \in FetchStates
    BY DEF FetchStates
<1>5. CASE y = [x EXCEPT !.st = "ok", !.got = g, !.wrote = 0] /\ g >= x.upto - x.from + 1
    BY <1>1, <1>4, <1>5 DEF FetchRec
<1>6. CASE y = [x EXCEPT !.st = "fatal", !.got = g, !.wrote = 0]
    BY <1>1, <1>4, <1>6 DEF FetchRec
<1>7. CASE y = [x EXCEPT !.st = "send", !.got = g, !.wrote = 0, !.budget = c, !.reply = NoReply]
    BY <1>1, <1>2, <1>4, <1>7 DEF FetchRec
<1> QED
    BY <1>3, <1>5, <1>6, <1>7

LEMMA AdvanceInv ==
    ASSUME SegInv, NEW f \in Fetchers, fetch[f].st \in {"send", "pump"}, NEW slow \in BOOLEAN,
           fetch' = [fetch EXCEPT ![f] = AfterAdvance(f, slow)],
           UNCHANGED << part, meter, unchangedByFetch >>
    PROVE  SegInv'
<1> DEFINE x == fetch[f]
           y == AfterAdvance(f, slow)
<1>1. fetch[f].st \in Active
    BY DEF Active
<1>2. /\ pc \in {"boot_fetch", "chunks"} /\ x \in FetchRec
      /\ x.chunk \in 1 .. Len(plan) /\ x.upto = plan[x.chunk][2]
      /\ plan[x.chunk][1] <= x.from
      /\ x.from \in Nat /\ x.got \in Nat /\ x.wrote \in Nat /\ x.upto \in Nat
      /\ x.from + x.got + x.wrote <= x.upto + 1
      /\ Holds(part, plan[x.chunk][1], x.from + x.got + x.wrote - 1, tag)
    BY <1>1, ActiveFacts
<1>3. /\ y \in FetchRec /\ y.st \in {"ok", "fatal", "send"}
      /\ y.chunk = x.chunk /\ y.from = x.from /\ y.upto = x.upto
      /\ y.got = x.got + x.wrote /\ y.wrote = 0
      /\ y.st = "ok" => y.got >= x.upto - x.from + 1
    BY <1>2, AfterAdvanceFacts
<1>4. fetch'[f] = y /\ UNCHANGED << plan, tag >>
    BY <1>2, ChunkFacts DEF unchangedByFetch, sharedVars, localVars
<1>5. y.from + y.got + y.wrote = x.from + x.got + x.wrote
    BY <1>2, <1>3
<1> HIDE DEF x, y
<1>6. y.st = "ok" => y.from + y.got + y.wrote = y.upto + 1
    <2>1. /\ x.from \in Nat /\ x.got \in Nat /\ x.wrote \in Nat /\ x.upto \in Nat
          /\ x.from + x.got + x.wrote <= x.upto + 1
        BY <1>2
    <2>2. y.st = "ok" => x.got + x.wrote >= x.upto - x.from + 1
        BY <1>3
    <2>3. y.st = "ok" => x.from + x.got + x.wrote = x.upto + 1
        BY <2>1, <2>2
    <2> QED
        BY <1>3, <1>5, <2>3
<1>7. FetchOK(f)'
    <2>1. Holds(part', plan[y.chunk][1], y.from + y.got + y.wrote - 1, tag)
        <3>1. Holds(part', plan[y.chunk][1], x.from + x.got + x.wrote - 1, tag)
            BY <1>2, <1>3
        <3>2. y.from + y.got + y.wrote - 1 = x.from + x.got + x.wrote - 1
            <4>1. /\ x.from \in Nat /\ x.got \in Nat /\ x.wrote \in Nat
                  /\ y.from = x.from /\ y.got = x.got + x.wrote /\ y.wrote = 0
                BY <1>2, <1>3
            <4> QED
                BY <4>1
        <3> QED
            BY <3>1, <3>2
    <2> QED
        BY <1>2, <1>3, <1>4, <1>5, <1>6, <2>1 DEF FetchOK, Active
<1>8. FileOK(part)'
    BY DEF SegInv, SingleInv
<1>9. y.st \in Active \cup {"fallback", "fatal", "panic"} /\ y.st # "panic"
    BY <1>3 DEF Active
<1>10. fetch' = [fetch EXCEPT ![f] = y] /\ y.chunk = fetch[f].chunk
    BY <1>3 DEF x, y
<1> QED
    BY <1>1, <1>3, <1>7, <1>8, <1>9, <1>10, FetchStepInv

\* A fetcher gives up.
LEMMA GiveUpInv ==
    ASSUME SegInv, NEW f \in Fetchers, fetch[f].st \in Active,
           NEW st \in {"fallback", "fatal", "panic"}, Goto(f, st), st = "panic" => f \in Workers,
           UNCHANGED << part, meter, unchangedByFetch >>
    PROVE  SegInv'
<1> DEFINE y == [fetch[f] EXCEPT !.st = st]
<1>1. fetch[f] \in FetchRec /\ fetch \in [Fetchers -> FetchRec]
    BY DEF SegInv, PhaseOK
<1>2. y \in FetchRec /\ y.st = st /\ y.chunk = fetch[f].chunk
    BY <1>1 DEF FetchRec, FetchStates
<1>3. fetch' = [fetch EXCEPT ![f] = y]
    BY DEF Goto
<1> HIDE DEF y
<1>4. FetchOK(f)'
    BY <1>1, <1>2, <1>3 DEF FetchOK, Active
<1>5. FileOK(part)'
    BY DEF SegInv, SingleInv
<1> QED
    BY <1>2, <1>3, <1>4, <1>5, FetchStepInv

\* A ranged request under If-Range brings bytes of the version named, or none.
LEMMA ChunkReplyFacts ==
    ASSUME CurOK, url \in Urls, NEW t \in Seen, NEW from \in Nat, NEW upto \in Nat,
           NEW m \in RangedReplies(url, from, upto, t), m.st = "206"
    PROVE  m \in ReplyRec /\ m.res = t
<1>1. cur[url] \in Resources /\ cur[url] \in Int /\ SizeOf[cur[url]] \in Nat
    BY CurSeen, SeenFacts
<1>2. t # 0
    BY SeenFacts, OriginAssumption
<1>3. m \notin Errors
    BY ErrorFacts DEF IsError
<1>4. m \notin FullReplies(cur[url])
    BY <1>1, FullRepliesFacts DEF IsFull
<1>5. t = cur[url] /\ m \in RangeReplies(t, from, upto)
    BY <1>2, <1>3, <1>4 DEF RangedReplies
<1> DEFINE last == IF upto # Unknown /\ upto < SizeOf[t] THEN upto ELSE SizeOf[t] - 1
<1>6. SizeOf[t] \in Int /\ Unknown \in Int /\ SizeOf[t] - 1 \in Int /\ last \in Int /\ t \in Int
    BY <1>1, <1>5 DEF Unknown
<1>7. m \in ReplyRec
    <2>1. m.st = "206" /\ m.res = t /\ m.ranges = FALSE
        BY <1>5 DEF RangeReplies, Reply
    <2>2. m.start \in Int /\ m.end \in Int /\ m.total \in Int
        BY <1>5, <1>6 DEF RangeReplies, Reply
    <2>3. m = Reply(m.st, m.res, m.start, m.end, m.total, m.ranges)
        BY <1>5 DEF RangeReplies, Reply
    <2> QED
        BY <1>6, <2>1, <2>2, <2>3 DEF Reply, ReplyRec, Statuses
<1>8. m.res = t
    BY <1>1, <1>5 DEF RangeReplies, Reply, Unknown
<1> QED
    BY <1>7, <1>8

LEMMA FetchSendInv == ASSUME SegInv, NEW f \in Fetchers, FetchSend(f) PROVE SegInv'
<1> DEFINE x == fetch[f]
<1>1. /\ x.st = "send" /\ x.st \in Active /\ UNCHANGED << part, meter, unchangedByFetch >>
    BY DEF FetchSend, Active
<1>2. PICK m \in RangedReplies(url, At(f), fetch[f].upto, tag) :
          \/ fetch' = [fetch EXCEPT ![f] = AfterAdvance(f, FALSE)]
          \/ Goto(f, "fatal")
          \/ Goto(f, "fallback")
          \/ /\ m.st = "206" /\ AnswersChunk(f, m)
             /\ fetch' = [fetch EXCEPT ![f].st = "pump", ![f].reply = m]
    BY DEF FetchSend
<1>3. CASE fetch' = [fetch EXCEPT ![f] = AfterAdvance(f, FALSE)]
    BY <1>1, <1>3, AdvanceInv
<1>4. CASE Goto(f, "fatal") \/ Goto(f, "fallback")
    BY <1>1, <1>4, GiveUpInv
<1>5. CASE /\ m.st = "206" /\ AnswersChunk(f, m)
           /\ fetch' = [fetch EXCEPT ![f].st = "pump", ![f].reply = m]
    <2> DEFINE y == [x EXCEPT !.st = "pump", !.reply = m]
    <2>1. /\ pc \in {"boot_fetch", "chunks"} /\ x \in FetchRec
          /\ x.chunk \in 1 .. Len(plan) /\ x.upto = plan[x.chunk][2]
          /\ plan[x.chunk][1] <= x.from
          /\ x.from \in Nat /\ x.got \in Nat /\ x.wrote = 0 /\ x.upto \in Nat
          /\ x.from + x.got + x.wrote <= x.upto + 1
          /\ Holds(part, plan[x.chunk][1], x.from + x.got + x.wrote - 1, tag)
        BY <1>1, ActiveFacts
    <2>2. At(f) \in Nat /\ At(f) = x.from + x.got
        BY <2>1 DEF At
    <2>3. m \in ReplyRec /\ m.res = tag /\ m.start = x.from + x.got
        <3>1. CurOK /\ url \in Urls /\ tag \in Seen
            BY <2>1, ChunkFacts
        <3>2. x.upto \in Nat /\ m.st = "206" /\ m.start = At(f)
            BY <1>5, <2>1 DEF AnswersChunk
        <3> QED
            BY <2>2, <3>1, <3>2, ChunkReplyFacts
    <2>4. fetch' = [fetch EXCEPT ![f] = y]
        BY <1>5, Zenon
    <2>5. fetch \in [Fetchers -> FetchRec] /\ UNCHANGED << plan, tag >> /\ FileOK(part)'
        BY <1>1, <2>1, ChunkFacts DEF unchangedByFetch, sharedVars, localVars
    <2>6. "pump" \in FetchStates
        BY DEF FetchStates
    <2> HIDE DEF x
    <2>7. /\ y \in FetchRec /\ y.st = "pump" /\ y.chunk = x.chunk /\ y.from = x.from
          /\ y.upto = x.upto /\ y.got = x.got /\ y.wrote = x.wrote /\ y.reply = m
        BY <2>1, <2>3, <2>6 DEF FetchRec
    <2> HIDE DEF y
    <2>8. fetch'[f] = y
        BY <2>4, <2>5
    <2>9. FetchOK(f)'
        <3>1. Holds(part', plan[y.chunk][1], y.from + y.got + y.wrote - 1, tag)
            BY <1>1, <2>1, <2>7
        <3> QED
            BY <2>1, <2>3, <2>5, <2>7, <2>8, <3>1 DEF FetchOK, Active
    <2>10. y.st \in Active \cup {"fallback", "fatal", "panic"} /\ y.st # "panic"
           /\ y.chunk = fetch[f].chunk
        BY <2>7 DEF Active, x
    <2> QED
        BY <1>1, <2>4, <2>5, <2>7, <2>9, <2>10, FetchStepInv DEF x
<1> QED
    BY <1>2, <1>3, <1>4, <1>5

LEMMA FetchReadInv == ASSUME SegInv, NEW f \in Fetchers, FetchRead(f) PROVE SegInv'
<1> DEFINE x == fetch[f]
           n == x.wrote + 1
           y == [x EXCEPT !.wrote = n]
           at == x.from + x.got + x.wrote
<1>1. /\ x.st = "pump" /\ x.st \in Active /\ UNCHANGED unchangedByFetch
      /\ UNCHANGED << plan, tag >>
    BY DEF FetchRead, Active, unchangedByFetch, sharedVars, localVars
<1>2. /\ pc \in {"boot_fetch", "chunks"} /\ x \in FetchRec
      /\ x.chunk \in 1 .. Len(plan) /\ x.upto = plan[x.chunk][2]
      /\ plan[x.chunk][1] \in Nat /\ plan[x.chunk][1] <= x.from
      /\ x.from \in Nat /\ x.got \in Nat /\ x.wrote \in Nat /\ x.upto \in Nat
      /\ x.upto < total /\ total \in Nat /\ tag \in Int
      /\ Holds(part, plan[x.chunk][1], x.from + x.got + x.wrote - 1, tag)
      /\ x.reply.res = tag /\ x.reply.start = x.from + x.got
    BY <1>1, ActiveFacts
<1>3. at \in Nat /\ at <= x.upto
    <2>1. x.got + x.wrote < x.upto - x.from + 1
        BY DEF FetchRead, PumpMore, Want
    <2>2. x.from \in Nat /\ x.got \in Nat /\ x.wrote \in Nat /\ x.upto \in Nat
        BY <1>2
    <2> QED
        BY <2>1, <2>2
<1>4. at \in Pos
    BY <1>2, <1>3, ChunkFacts
<1>5. part' = WriteAt(part, at, Byte(tag, at))
    BY <1>2 DEF FetchRead, At, PumpByte
<1>6. Byte(tag, at) \in Cell
    BY <1>2, <1>3 DEF Byte, Cell
<1>7. /\ FileOK(part)' /\ part'.cells[at] = Byte(tag, at)
      /\ \A q \in Pos : q # at => part'.cells[q] = part.cells[q]
      /\ at < part.state.real => part'.state = part.state
      /\ at >= part.state.real => part'.state = NoState
    <2>1. FileOK(part)
        BY <1>2, ChunkFacts
    <2> HIDE DEF at
    <2> QED
        BY <1>4, <1>5, <1>6, <2>1, WriteAtFacts
<1>8. part'.state = part.state \/ (part.state.kind = "none" /\ part'.state.kind = "none")
    <2>1. part.state.kind # "none" => part.state.real = total
        BY <1>2 DEF SegInv, ChunkOK
    <2>2. part.state.real \in Nat
        BY <1>2, ChunkFacts DEF FileOK
    <2> QED
        BY <1>2, <1>3, <1>7, <2>1, <2>2 DEF NoState
<1>9. fetch' = [fetch EXCEPT ![f] = y] /\ fetch \in [Fetchers -> FetchRec]
    BY <1>2, ChunkFacts DEF FetchRead
<1>10. Holds(part', plan[x.chunk][1], at, tag)
    <2>1. \A p \in plan[x.chunk][1] .. at : p \in Pos
        BY <1>2, <1>3, ChunkFacts
    <2>2. \A p \in plan[x.chunk][1] .. at : p # at => p \in plan[x.chunk][1] .. (at - 1)
        BY <1>2, <1>3
    <2>3. Holds(part, plan[x.chunk][1], at - 1, tag)
        <3>1. x.from \in Nat /\ x.got \in Nat /\ x.wrote \in Nat
            BY <1>2
        <3>2. x.from + x.got + x.wrote - 1 = at - 1
            BY <3>1
        <3> QED
            BY <1>2, <3>2
    <2> HIDE DEF at, x
    <2>4. \A p \in plan[x.chunk][1] .. (at - 1) : part.cells[p] = Byte(tag, p)
        BY <2>3 DEF Holds
    <2> QED
        BY <1>7, <2>1, <2>2, <2>4 DEF Holds
<1> HIDE DEF x
<1>11. /\ y \in FetchRec /\ y.st = "pump" /\ y.chunk = x.chunk /\ y.from = x.from
       /\ y.upto = x.upto /\ y.got = x.got /\ y.wrote = n /\ y.reply = x.reply
    <2>1. n \in Nat
        BY <1>2
    <2> HIDE DEF n
    <2> QED
        BY <1>1, <1>2, <2>1 DEF FetchRec
<1> HIDE DEF y
<1>12. fetch'[f] = y
    BY <1>9
<1>13. y.from + y.got + y.wrote = at + 1 /\ y.from + y.got + y.wrote - 1 = at
    BY <1>2, <1>11
<1>14. FetchOK(f)'
    <2>1. Holds(part', plan[y.chunk][1], y.from + y.got + y.wrote - 1, tag)
        BY <1>10, <1>11, <1>13
    <2>2. y.from + y.got + y.wrote <= y.upto + 1
        BY <1>2, <1>3, <1>11, <1>13
    <2> QED
        BY <1>1, <1>2, <1>11, <1>12, <2>1, <2>2 DEF FetchOK, Active
<1>15. \A p \in Pos : part'.cells[p] = part.cells[p] \/ part'.cells[p] = Byte(tag, p)
    BY <1>7
<1>16. y.st \in Active \cup {"fallback", "fatal", "panic"} /\ y.st # "panic"
       /\ y.chunk = fetch[f].chunk /\ fetch[f].st \in Active
    BY <1>1, <1>11 DEF Active, x
<1> QED
    BY <1>1, <1>7, <1>8, <1>9, <1>11, <1>14, <1>15, <1>16, FetchStepInv

LEMMA FetchInv == ASSUME SegInv, NEW f \in Fetchers, Fetch(f) PROVE SegInv'
<1>1. CASE FetchEnd(f)
    <2>1. fetch[f].st = "pump" /\ UNCHANGED << part, meter, unchangedByFetch >>
        BY <1>1 DEF FetchEnd
    <2>2. PICK slow \in BOOLEAN : fetch' = [fetch EXCEPT ![f] = AfterAdvance(f, slow)]
        BY <1>1 DEF FetchEnd
    <2> QED
        BY <2>1, <2>2, AdvanceInv
<1>2. CASE FetchStoreFails(f)
    BY <1>2, GiveUpInv DEF FetchStoreFails, Active
<1> QED
    BY <1>1, <1>2, FetchSendInv, FetchReadInv DEF Fetch

LEMMA WorkerPanicInv == ASSUME SegInv, NEW w \in Workers, WorkerPanic(w) PROVE SegInv'
BY ThreadFacts, GiveUpInv DEF WorkerPanic, Active

-----------------------------------------------------------------------------
(* run_chunks. *)

LEMMA WorkerFacts ==
    ASSUME SegInv, NEW w \in Workers, fetch[w].st \notin {"off", "exit"}
    PROVE  pc = "chunks" /\ w \in Fetchers /\ w # 0 /\ OwnOK
BY ThreadFacts DEF SegInv, PhaseOK

\* A worker between two chunks changes its own record only.
LEMMA WorkerMoveInv ==
    ASSUME SegInv, NEW w \in Workers, fetch[w].st \notin {"off", "exit"},
           fetch[w].st \notin Active, NEW y \in FetchRec, fetch' = [fetch EXCEPT ![w] = y],
           y.st \notin {"off", "send", "pump", "ok"}, OwnOK',
           UNCHANGED << cur, final, part, pc, url, tag, total, nseg, plan, bits >>
    PROVE  SegInv'
<1>1. pc = "chunks" /\ w \in Fetchers /\ w # 0
    BY WorkerFacts
<1>2. CurOK' /\ FinalOK' /\ FileOK(part)' /\ StreamOK' /\ RangedOK' /\ Urls' = Urls
    BY SameDisk DEF SegInv
<1>3. SingleInv'
    BY <1>1, <1>2, SegSingleInv
<1>4. /\ fetch' \in [Fetchers -> FetchRec] /\ fetch'[w] = y
      /\ \A g \in Fetchers : g # w => fetch'[g] = fetch[g]
    BY <1>1 DEF SegInv, PhaseOK
<1>5. PhaseOK'
    BY <1>1, <1>2, <1>4, ThreadFacts DEF SegInv, PhaseOK, BootPhase
<1>6. ChunkOK'
    BY <1>1, SameSeen DEF SegInv, ChunkOK, Holds
<1>7. FetchersOK'
    <2>1. \A g \in Fetchers : g # w => FetchOK(g)'
        BY <1>4 DEF SegInv, FetchersOK, FetchOK, Holds
    <2>2. FetchOK(w)'
        BY <1>4 DEF FetchOK, Active
    <2> QED
        BY <1>1, <2>1, <2>2 DEF FetchersOK
<1> QED
    BY <1>1, <1>2, <1>3, <1>5, <1>6, <1>7 DEF SegInv, BootBodyOK, PlanOK

LEMMA GotoFacts ==
    ASSUME fetch \in [Fetchers -> FetchRec], NEW f \in Fetchers, NEW st \in FetchStates,
           Goto(f, st), NEW y, y = [fetch[f] EXCEPT !.st = st]
    PROVE  /\ fetch' = [fetch EXCEPT ![f] = y]
           /\ y \in FetchRec /\ y.st = st /\ y.chunk = fetch[f].chunk
<1>1. fetch[f] \in FetchRec
    OBVIOUS
<1>2. fetch' = [fetch EXCEPT ![f] = [fetch[f] EXCEPT !.st = st]]
    BY DEF Goto
<1> QED
    BY <1>1, <1>2 DEF FetchRec

LEMMA WorkerTopInv == ASSUME SegInv, NEW w \in Workers, WorkerTop(w) PROVE SegInv'
<1> DEFINE st == IF failed \/ fallback THEN "exit" ELSE "claim"
           y == [fetch[w] EXCEPT !.st = st]
<1>1. /\ fetch[w].st = "top" /\ Goto(w, st)
      /\ UNCHANGED << cur, final, part, pc, url, tag, total, nseg, plan, bits, claim, failed,
                      fallback >>
    BY DEF WorkerTop, unchangedByFetch, localVars, streamVars, sharedVars
<1>2. pc = "chunks" /\ w \in Fetchers /\ w # 0 /\ OwnOK
    BY <1>1, WorkerFacts
<1>3. st \in {"exit", "claim"} /\ st \in FetchStates /\ (st = "exit" => failed \/ fallback)
    BY DEF FetchStates
<1> HIDE DEF st
<1>4. /\ fetch' = [fetch EXCEPT ![w] = y] /\ y \in FetchRec /\ y.st = st
      /\ fetch \in [Fetchers -> FetchRec]
    BY <1>1, <1>2, <1>3, GotoFacts DEF SegInv, PhaseOK
<1> HIDE DEF y
<1>5. fetch'[w] = y /\ \A g \in Workers : g # w => fetch'[g] = fetch[g]
    BY <1>2, <1>4, ThreadFacts
<1>6. OwnOK'
    <2>1. Trouble => Trouble'
        BY <1>1, <1>5 DEF Trouble
    <2>2. \A c : Owned(c) => Owned(c)'
        BY <1>1, <1>5 DEF Owned, Active
    <2>3. \A g \in Workers : fetch'[g].st \in Active => fetch'[g] = fetch[g]
        BY <1>3, <1>4, <1>5 DEF Active
    <2>4. \A g \in Workers : fetch'[g].st = "exit" => Trouble' \/ claim > Len(plan)
        BY <1>1, <1>2, <1>3, <1>4, <1>5, <2>1 DEF OwnOK, Trouble
    <2>5. fetch'[1].st # "off"
        BY <1>2, <1>3, <1>4, <1>5, ThreadFacts DEF OwnOK
    <2> QED
        BY <1>1, <1>2, <2>1, <2>2, <2>3, <2>4, <2>5 DEF OwnOK
<1> QED
    BY <1>1, <1>3, <1>4, <1>6, WorkerMoveInv DEF Active

LEMMA WorkerStopInv == ASSUME SegInv, NEW w \in Workers, WorkerStop(w) PROVE SegInv'
<1> DEFINE y == [fetch[w] EXCEPT !.st = "top"]
<1>1. /\ fetch[w].st \in {"fallback", "fatal"} /\ Goto(w, "top")
      /\ fallback' = (fallback \/ fetch[w].st = "fallback")
      /\ failed' = (failed \/ fetch[w].st = "fatal")
      /\ UNCHANGED << cur, final, part, pc, url, tag, total, nseg, plan, bits, claim >>
    BY DEF WorkerStop, diskVars, localVars, streamVars
<1>2. pc = "chunks" /\ w \in Fetchers /\ w # 0 /\ OwnOK
    BY <1>1, WorkerFacts
<1>3. /\ fetch' = [fetch EXCEPT ![w] = y] /\ y \in FetchRec /\ y.st = "top"
      /\ fetch \in [Fetchers -> FetchRec]
    BY <1>1, <1>2, GotoFacts DEF SegInv, PhaseOK, FetchStates
<1> HIDE DEF y
<1>4. fetch'[w] = y /\ \A g \in Workers : g # w => fetch'[g] = fetch[g]
    BY <1>2, <1>3, ThreadFacts
<1>5. OwnOK'
    <2>1. Trouble'
        BY <1>1 DEF Trouble
    <2>2. \A g \in Workers : fetch'[g].st \in Active => fetch'[g] = fetch[g]
        BY <1>3, <1>4 DEF Active
    <2>3. fetch'[1].st # "off"
        BY <1>2, <1>3, <1>4, ThreadFacts DEF OwnOK
    <2> QED
        BY <1>1, <1>2, <2>1, <2>2, <2>3 DEF OwnOK
<1> QED
    BY <1>1, <1>3, <1>5, WorkerMoveInv DEF Active

LEMMA WorkerClaimInv == ASSUME SegInv, NEW w \in Workers, WorkerClaim(w) PROVE SegInv'
<1>1. /\ fetch[w].st = "claim" /\ claim' = claim + 1
      /\ UNCHANGED << cur, final, part, pc, url, tag, total, nseg, plan, bits, failed, fallback >>
    BY DEF WorkerClaim, diskVars, localVars, streamVars
<1>2. pc = "chunks" /\ w \in Fetchers /\ w # 0 /\ OwnOK
    BY <1>1, WorkerFacts
<1>3. /\ claim \in Nat \ {0} /\ Len(plan) \in Nat \ {0} /\ bits \subseteq 1 .. Len(plan)
      /\ fetch \in [Fetchers -> FetchRec]
    BY <1>2, ChunkFacts DEF OwnOK
<1>4. fetch[w].st \notin Active /\ fetch[w].st \notin {"exit", "fallback", "fatal", "panic"}
    BY <1>1 DEF Active
<1>5. ASSUME NEW y \in FetchRec, fetch' = [fetch EXCEPT ![w] = y], y.st \in {"exit", "top"},
             y.st = "exit" => claim > Len(plan), claim \in bits \/ claim > Len(plan)
      PROVE  SegInv'
    <2>1. fetch'[w] = y /\ \A g \in Workers : g # w => fetch'[g] = fetch[g]
        BY <1>2, <1>3, <1>5, ThreadFacts
    <2>2. OwnOK'
        <3>1. Trouble => Trouble'
            BY <1>1, <1>4, <2>1 DEF Trouble
        <3>2. \A c : Owned(c) => Owned(c)'
            BY <1>4, <2>1 DEF Owned
        <3>3. \A g \in Workers : fetch'[g].st \in Active => fetch'[g] = fetch[g]
            BY <1>5, <2>1 DEF Active
        <3>4. \A g \in Workers : fetch'[g].st = "exit" => Trouble' \/ claim' > Len(plan)
            BY <1>1, <1>2, <1>3, <1>5, <2>1, <3>1 DEF OwnOK
        <3>5. fetch'[1].st # "off"
            BY <1>2, <1>5, <2>1, ThreadFacts DEF OwnOK
        <3>6. \A c \in 1 .. Len(plan) : c < claim' => c \in bits \/ Owned(c)' \/ Trouble'
            <4>1. \A c \in 1 .. Len(plan) : c < claim' => c < claim \/ c = claim
                BY <1>1, <1>3
            <4> QED
                BY <1>2, <1>3, <1>5, <3>1, <3>2, <4>1 DEF OwnOK
        <3>7. \A g \in Workers : fetch'[g].st \in Active =>
                    fetch'[g].chunk < claim' /\ fetch'[g].chunk \notin bits
            <4>1. \A g \in Workers : fetch[g].chunk \in Nat
                BY <1>3, ThreadFacts DEF FetchRec
            <4> QED
                BY <1>1, <1>2, <1>3, <3>3, <4>1 DEF OwnOK
        <3> QED
            BY <1>1, <1>2, <1>3, <3>3, <3>4, <3>5, <3>6, <3>7 DEF OwnOK
    <2> QED
        BY <1>1, <1>4, <1>5, <2>2, WorkerMoveInv
<1>6. CASE claim > Len(plan)
    <2> DEFINE y == Fetcher("exit", 0, 0, 0, 0)
    <2>1. fetch' = [fetch EXCEPT ![w] = y]
        BY <1>6 DEF WorkerClaim
    <2>2. y \in FetchRec /\ y.st = "exit"
        BY BareRec DEF FetchStates
    <2> HIDE DEF y
    <2> QED
        BY <1>5, <1>6, <2>1, <2>2
<1>7. CASE ~(claim > Len(plan)) /\ claim \in bits
    <2> DEFINE y == Fetcher("top", 0, 0, 0, 0)
    <2>1. fetch' = [fetch EXCEPT ![w] = y]
        BY <1>7 DEF WorkerClaim
    <2>2. y \in FetchRec /\ y.st = "top"
        BY BareRec DEF FetchStates
    <2> HIDE DEF y
    <2> QED
        BY <1>5, <1>7, <2>1, <2>2
<1>8. CASE ~(claim > Len(plan)) /\ claim \notin bits
    <2> DEFINE y == Fetcher("send", claim, plan[claim][1], plan[claim][2], MaxRetries)
    <2>1. fetch' = [fetch EXCEPT ![w] = y]
        BY <1>8 DEF WorkerClaim
    <2>2. claim \in 1 .. Len(plan)
        BY <1>3, <1>8
    <2>3. plan[claim][1] \in Nat /\ plan[claim][2] \in Nat /\ plan[claim][1] <= plan[claim][2]
        BY <1>2, <2>2, ChunkFacts
    <2>4. /\ y \in FetchRec /\ y.st = "send" /\ y.chunk = claim /\ y.from = plan[claim][1]
          /\ y.upto = plan[claim][2] /\ y.got = 0 /\ y.wrote = 0
        <3> DEFINE lo == plan[claim][1]
                   hi == plan[claim][2]
        <3>1. claim \in Nat /\ lo \in Nat /\ hi \in Int /\ MaxRetries \in Int
            BY <1>3, <2>3, SingleAssumption
        <3>2. "send" \in FetchStates
            BY DEF FetchStates
        <3>3. y = Fetcher("send", claim, lo, hi, MaxRetries)
            OBVIOUS
        <3> HIDE DEF lo, hi, y
        <3>4. /\ y \in FetchRec /\ y.st = "send" /\ y.chunk = claim /\ y.from = lo
              /\ y.upto = hi /\ y.got = 0 /\ y.wrote = 0
            BY <3>1, <3>2, <3>3, FetcherRec
        <3> QED
            BY <3>4 DEF lo, hi
    <2> HIDE DEF y
    <2>5. /\ fetch' \in [Fetchers -> FetchRec] /\ fetch'[w] = y
          /\ \A g \in Fetchers : g # w => fetch'[g] = fetch[g]
        BY <1>2, <1>3, <2>1, <2>4
    <2>6. CurOK' /\ FinalOK' /\ FileOK(part)' /\ StreamOK' /\ RangedOK' /\ Urls' = Urls
        BY <1>1, SameDisk DEF SegInv
    <2>7. SingleInv'
        BY <1>1, <1>2, <2>6, SegSingleInv
    <2>8. PhaseOK'
        BY <1>1, <1>2, <2>5, <2>6, ThreadFacts DEF SegInv, PhaseOK, BootPhase
    <2>9. ChunkOK'
        BY <1>1, <1>2, SameSeen DEF SegInv, ChunkOK, Holds
    <2>10. FetchersOK'
        <3>1. \A g \in Fetchers : g # w => FetchOK(g)'
            BY <1>1, <2>5 DEF SegInv, FetchersOK, FetchOK, Holds
        <3>2. FetchOK(w)'
            <4>1. y.from + y.got + y.wrote - 1 < plan[claim][1]
                BY <2>3, <2>4
            <4>2. Holds(part', plan[claim][1], y.from + y.got + y.wrote - 1, tag)
                BY <2>3, <2>4, <4>1 DEF Holds
            <4>3. y.from + y.got + y.wrote <= y.upto + 1
                BY <2>3, <2>4
            <4> QED
                BY <1>1, <2>2, <2>3, <2>4, <2>5, <4>2, <4>3 DEF FetchOK, Active
        <3> QED
            BY <1>1, <1>2, <3>1, <3>2 DEF FetchersOK
    <2>11. OwnOK'
        <3>0. \A g \in Workers : g # w => fetch'[g] = fetch[g]
            BY <2>5, ThreadFacts
        <3>1. Trouble => Trouble'
            BY <1>1, <1>4, <3>0 DEF Trouble
        <3>2. \A c : Owned(c) => Owned(c)'
            BY <1>4, <3>0 DEF Owned
        <3>3. \A c : c = claim => Owned(c)'
            BY <2>4, <2>5 DEF Owned, Active
        <3>4. \A g \in Workers : fetch'[g].st = "exit" => Trouble' \/ claim' > Len(plan)
            BY <1>1, <1>2, <1>3, <2>4, <2>5, <3>0, <3>1 DEF OwnOK
        <3>5. fetch'[1].st # "off"
            BY <1>2, <2>4, <2>5, <3>0, ThreadFacts DEF OwnOK
        <3>6. \A c \in 1 .. Len(plan) : c < claim' => c \in bits \/ Owned(c)' \/ Trouble'
            <4>1. \A c \in 1 .. Len(plan) : c < claim' => c < claim \/ c = claim
                BY <1>1, <1>3
            <4> QED
                BY <1>2, <3>1, <3>2, <3>3, <4>1 DEF OwnOK
        <3>7. \A g \in Workers : g # w /\ fetch[g].st \in Active =>
                    fetch[g].chunk < claim /\ fetch[g].chunk # claim
            <4>1. \A g \in Workers : fetch[g].chunk \in Nat
                BY <1>3, ThreadFacts DEF FetchRec
            <4> QED
                BY <1>2, <1>3, <4>1 DEF OwnOK
        <3>8. \A g \in Workers : fetch'[g].st \in Active =>
                    fetch'[g].chunk < claim' /\ fetch'[g].chunk \notin bits
            <4>1. \A g \in Workers : fetch[g].chunk \in Nat
                BY <1>3, ThreadFacts DEF FetchRec
            <4>2. ASSUME NEW g \in Workers, g # w, fetch'[g].st \in Active
                  PROVE  fetch'[g].chunk < claim' /\ fetch'[g].chunk \notin bits
                BY <1>1, <1>2, <1>3, <3>0, <3>7, <4>1, <4>2 DEF OwnOK
            <4>3. fetch'[w].chunk < claim' /\ fetch'[w].chunk \notin bits
                BY <1>1, <1>3, <1>8, <2>4, <2>5
            <4> QED
                BY <4>2, <4>3
        <3>9. \A u, v \in Workers :
                 fetch'[u].st \in Active /\ fetch'[v].st \in Active
                 /\ fetch'[u].chunk = fetch'[v].chunk => u = v
            BY <1>2, <2>4, <2>5, <3>0, <3>7 DEF OwnOK
        <3> QED
            BY <1>1, <1>3, <3>4, <3>5, <3>6, <3>8, <3>9 DEF OwnOK
    <2> QED
        BY <1>1, <1>2, <2>6, <2>7, <2>8, <2>9, <2>10, <2>11 DEF SegInv, BootBodyOK, PlanOK
<1> QED
    BY <1>6, <1>7, <1>8

LEMMA WorkerOkInv == ASSUME SegInv, NEW w \in Workers, WorkerOk(w) PROVE SegInv'
<1> DEFINE x == fetch[w]
           b == bits \cup {x.chunk}
           y == Fetcher("top", 0, 0, 0, 0)
<1>1. /\ x.st = "ok" /\ x.st \in Active /\ bits' = b
      /\ part' = WriteState(part, RangedState(b)) /\ fetch' = [fetch EXCEPT ![w] = y]
      /\ UNCHANGED << cur, final, pc, url, tag, total, nseg, plan, claim, failed, fallback >>
    BY DEF WorkerOk, localVars, streamVars, Active
<1>2. pc = "chunks" /\ w \in Fetchers /\ w # 0 /\ OwnOK
    BY <1>1, WorkerFacts
<1>3. y \in FetchRec /\ y.st = "top"
    BY BareRec DEF FetchStates
<1>4. x.chunk \in 1 .. Len(plan) /\ Holds(part, plan[x.chunk][1], plan[x.chunk][2], tag)
    <2>1. /\ x.chunk \in 1 .. Len(plan) /\ x.upto = plan[x.chunk][2]
          /\ x.from \in Nat /\ x.got \in Nat /\ x.wrote \in Nat /\ x.upto \in Nat
          /\ Holds(part, plan[x.chunk][1], x.from + x.got + x.wrote - 1, tag)
        BY <1>1, <1>2, ActiveFacts
    <2>2. x.from + x.got + x.wrote = x.upto + 1
        BY <1>1, <1>2 DEF SegInv, FetchersOK, FetchOK, Active
    <2>3. x.from + x.got + x.wrote - 1 = x.upto
        <3>1. x.from \in Nat /\ x.got \in Nat /\ x.wrote \in Nat /\ x.upto \in Nat
            BY <2>1
        <3>2. PICK i \in Nat : i = x.from + x.got + x.wrote
            BY <3>1
        <3>3. i - 1 = x.upto /\ x.from + x.got + x.wrote - 1 = i - 1
            <4>1. i = x.upto + 1
                BY <2>2, <3>2
            <4>2. i - 1 = x.upto
                BY <3>1, <4>1
            <4>3. x.from + x.got + x.wrote - 1 = i - 1
                BY <3>1, <3>2
            <4> QED
                BY <4>2, <4>3
        <3> QED
            BY <3>3
    <2> QED
        BY <2>1, <2>3
<1>5. b \subseteq 1 .. Len(plan) /\ \A c \in b : Holds(part, plan[c][1], plan[c][2], tag)
    BY <1>2, <1>4, ChunkFacts
<1> HIDE DEF b, y
<1>6. /\ FileOK(part)' /\ StreamOK' /\ RangedOK'
      /\ part'.state.kind = "ranged" /\ part'.state.real = total
      /\ part'.state.tag = tag /\ part'.state.url = url
      /\ part'.state.plan = plan /\ part'.state.bits = b
      /\ \A q \in Pos : q < total => part'.cells[q] = part.cells[q]
      /\ \A c \in b : Holds(part', plan[c][1], plan[c][2], tag)
    BY <1>1, <1>2, <1>5, PersistRanged
<1>7. CurOK' /\ FinalOK' /\ Urls' = Urls /\ Seen' = Seen
    BY <1>1, SameOutside DEF SegInv
<1>8. SingleInv'
    BY <1>1, <1>2, <1>6, <1>7, SegSingleInv
<1>9. /\ fetch \in [Fetchers -> FetchRec] /\ fetch' \in [Fetchers -> FetchRec] /\ fetch'[w] = y
      /\ \A g \in Fetchers : g # w => fetch'[g] = fetch[g]
    BY <1>1, <1>2, <1>3 DEF SegInv, PhaseOK
<1>10. PhaseOK'
    BY <1>1, <1>2, <1>3, <1>7, <1>9, ThreadFacts DEF SegInv, PhaseOK, BootPhase
<1>11. ChunkOK'
    <2>1. GoodPlan(plan, total) /\ tag \in Seen /\ UrlOf[tag] = url /\ total = SizeOf[tag]
        BY <1>2 DEF SegInv, ChunkOK
    <2> QED
        BY <1>1, <1>2, <1>5, <1>6, <1>7, <2>1 DEF ChunkOK
<1>12. FetchersOK'
    <2>1. ASSUME NEW g \in Fetchers, g # w, fetch[g].st \in Active PROVE FetchOK(g)'
        <3> DEFINE z == fetch[g]
                   hi == z.from + z.got + z.wrote - 1
        <3>1. /\ z.chunk \in 1 .. Len(plan) /\ plan[z.chunk][1] \in Nat
              /\ z.from \in Nat /\ z.got \in Nat /\ z.wrote \in Nat /\ z.upto \in Nat
              /\ z.upto < total /\ total \in Nat
              /\ z.from + z.got + z.wrote <= z.upto + 1
              /\ Holds(part, plan[z.chunk][1], hi, tag)
            BY <2>1, ActiveFacts
        <3>2. hi \in Int /\ hi < total
            <4>1. /\ z.from \in Nat /\ z.got \in Nat /\ z.wrote \in Nat /\ z.upto \in Nat
                  /\ z.upto < total /\ total \in Nat
                  /\ z.from + z.got + z.wrote <= z.upto + 1
                BY <3>1
            <4> QED
                BY <4>1
        <3>3. Holds(part', plan[z.chunk][1], hi, tag)
            <4> DEFINE lo == plan[z.chunk][1]
            <4>1. lo \in Nat /\ Holds(part, lo, hi, tag)
                BY <3>1
            <4> HIDE DEF lo, hi
            <4>2. \A p \in lo .. hi : p \in Pos /\ p < total
                BY <1>2, <3>2, <4>1, ChunkFacts
            <4>3. Holds(part', lo, hi, tag)
                BY <1>6, <4>1, <4>2 DEF Holds
            <4> QED
                BY <4>3 DEF lo
        <3> QED
            BY <1>1, <1>9, <2>1, <3>3 DEF SegInv, FetchersOK, FetchOK
    <2>2. ASSUME NEW g \in Fetchers, g # w, fetch[g].st \notin Active PROVE FetchOK(g)'
        BY <1>9, <2>2 DEF FetchOK
    <2>3. FetchOK(w)'
        BY <1>3, <1>9 DEF FetchOK, Active
    <2> QED
        BY <1>1, <1>2, <2>1, <2>2, <2>3 DEF FetchersOK
<1>13. OwnOK'
    <2>0. \A g \in Workers : g # w => fetch'[g] = fetch[g]
        BY <1>9, ThreadFacts
    <2>1. Trouble => Trouble'
        BY <1>1, <2>0 DEF Trouble
    <2>2. \A c : Owned(c) => Owned(c)' \/ c \in b
        BY <2>0 DEF Owned, b
    <2>3. \A g \in Workers : fetch'[g].st \in Active => g # w /\ fetch'[g] = fetch[g]
        BY <1>3, <1>9, <2>0 DEF Active
    <2>4. \A g \in Workers : fetch'[g].st \in Active =>
                fetch'[g].chunk < claim /\ fetch'[g].chunk \notin b
        BY <1>1, <1>2, <2>3 DEF OwnOK, b
    <2>5. \A g \in Workers : fetch'[g].st = "exit" => Trouble' \/ claim > Len(plan)
        BY <1>2, <1>3, <1>9, <2>0, <2>1 DEF OwnOK
    <2>6. fetch'[1].st # "off"
        BY <1>2, <1>3, <1>9, <2>0, ThreadFacts DEF OwnOK
    <2>7. \A c \in 1 .. Len(plan) : c < claim => c \in b \/ Owned(c)' \/ Trouble'
        BY <1>2, <2>1, <2>2 DEF OwnOK, b
    <2>8. \A u, v \in Workers :
             fetch'[u].st \in Active /\ fetch'[v].st \in Active
             /\ fetch'[u].chunk = fetch'[v].chunk => u = v
        BY <1>2, <2>3 DEF OwnOK
    <2> QED
        BY <1>1, <1>2, <2>4, <2>5, <2>6, <2>7, <2>8 DEF OwnOK
<1> QED
    BY <1>1, <1>2, <1>6, <1>8, <1>10, <1>11, <1>12, <1>13 DEF SegInv, BootBodyOK, PlanOK

\* When every thread has left without an error the counter has passed all chunks,
\* none is in anybody's hands, so all are done.
LEMMA AllDone ==
    ASSUME SegInv, pc = "chunks", AllJoined, ~Panicked, ~failed, ~fallback
    PROVE  bits = 1 .. Len(plan) /\ \A f \in Fetchers : fetch[f].st \in {"off", "exit"}
<1>1. \A w \in Workers : fetch[w].st \in {"off", "exit"}
    BY DEF AllJoined, Panicked
<1>2. ~Trouble
    BY <1>1 DEF Trouble
<1>3. OwnOK /\ bits \subseteq 1 .. Len(plan) /\ Len(plan) \in Nat /\ fetch[0].st = "off"
    BY ChunkFacts DEF SegInv, PhaseOK
<1>4. claim > Len(plan) /\ claim \in Nat
    BY <1>1, <1>2, <1>3, ThreadFacts DEF OwnOK
<1>5. \A c : ~Owned(c)
    BY <1>1 DEF Owned, Active
<1>6. \A c \in 1 .. Len(plan) : c < claim
    BY <1>3, <1>4
<1>7. \A c \in 1 .. Len(plan) : c \in bits
    BY <1>2, <1>3, <1>5, <1>6 DEF OwnOK
<1> QED
    BY <1>1, <1>3, <1>7 DEF Fetchers

LEMMA JoinWorkersInv == ASSUME SegInv, JoinWorkers PROVE SegInv'
<1>1. pc = "chunks" /\ AllJoined /\ UNCHANGED << cur, part, final >>
    BY DEF JoinWorkers, diskVars
<1>2. /\ tag \in Seen /\ UrlOf[tag] = url /\ total = SizeOf[tag] /\ total \in Nat
      /\ url \in Urls /\ fetch[0].st = "off"
      /\ \A c \in bits : Holds(part, plan[c][1], plan[c][2], tag)
    BY <1>1, ChunkFacts DEF SegInv, PhaseOK
<1>3. CASE FailSegmented
    BY <1>1, <1>3, FailSegmentedInv
<1>4. CASE FallBackToSingle
    BY <1>1, <1>2, <1>4, FallBackInv
<1>5. CASE /\ ~Panicked /\ ~failed /\ ~fallback /\ pc' = "verify" /\ written' = total
           /\ UNCHANGED << url, total, segVars >>
    <2>1. bits = 1 .. Len(plan) /\ \A f \in Fetchers : fetch[f].st \in {"off", "exit"}
        BY <1>1, <1>5, AllDone
    <2>2. GoodPlan(plan, total)
        BY <1>1 DEF SegInv, ChunkOK
    <2>3. HoldsAll(part', written', tag)
        <3>1. ASSUME NEW k \in 0 .. total - 1 PROVE part.cells[k] = Byte(tag, k)
            <4>1. PICK i \in 1 .. Len(plan) : plan[i][1] <= k /\ k <= plan[i][2]
                BY <2>2 DEF GoodPlan
            <4>2. plan[i][1] \in Nat /\ plan[i][2] \in Nat
                BY <2>2 DEF GoodPlan
            <4>3. k \in plan[i][1] .. plan[i][2]
                BY <1>2, <4>1, <4>2
            <4> QED
                BY <1>2, <2>1, <4>3 DEF Holds
        <3> QED
            BY <1>1, <1>2, <1>5, <3>1 DEF HoldsAll
    <2>4. FileOK(part)' /\ StreamOK' /\ RangedOK'
        BY <1>1, SameDisk DEF SegInv
    <2>5. Tiles(plan, total')
        BY <1>5, <2>2 DEF GoodPlan
    <2> QED
        BY <1>1, <1>2, <1>5, <2>1, <2>3, <2>4, <2>5, ToVerifyInv
<1> QED
    BY <1>3, <1>4, <1>5 DEF JoinWorkers

LEMMA CrashInRangedSaveInv == ASSUME SegInv, CrashInRangedSave PROVE SegInv'
<1>1. pc \in {"boot_save", "chunks"}
    BY WorkerFacts DEF CrashInRangedSave
<1>2. PICK b : part' = TornState(part, RangedState(b))
    BY DEF CrashInRangedSave
<1> DEFINE s == RangedState(b)
<1>3. s.real = total /\ s.done = 0
    BY DEF RangedState, NoState
<1>4. s.real \in Nat /\ s.done \in Nat /\ FileOK(part)
    BY <1>1, <1>3, ChunkFacts
<1>5. part' = TornState(part, s)
    BY <1>2
<1> HIDE DEF s
<1>6. FileOK(part') /\ part'.state = NoState
    BY <1>4, <1>5, WriteStateFacts
<1>7. CurOK' /\ FinalOK'
    BY SameOutside DEF SegInv, CrashInRangedSave
<1>8. part'.state.kind = "none"
    BY <1>6 DEF NoState
<1>9. SingleInv' /\ RangedOK'
    BY <1>6, <1>7, <1>8, DownInv, NoStreamState, NotRanged DEF CrashInRangedSave, Forget
<1> QED
    BY <1>9, IdleInv DEF CrashInRangedSave, Forget

-----------------------------------------------------------------------------
(* The steps both modes share. *)

LEMMA SingleShape ==
    ASSUME SingleSteps
    PROVE  /\ pc \in {"attempt", "body", "verify", "rename"} /\ UNCHANGED cur
           /\ pc' \in {"down", "attempt", "body", "verify", "rename"}
           /\ pc \in {"verify", "rename"} /\ pc' # "down" => pc' = "rename" /\ total' = total
           /\ final' = final \/ Rename
<1>1. CASE AttemptNoBody
    BY <1>1 DEF AttemptNoBody, TransientOrFail, Transient, Fail, Forget, diskVars
<1>2. CASE Attempt416
    BY <1>2 DEF Attempt416, RestartOrFail, Transient, Fail, Forget
<1>3. CASE Attempt206
    BY <1>3 DEF Attempt206, OpenBody, RestartOrFail, Transient, Fail, Forget
<1>4. CASE Attempt200
    BY <1>4 DEF Attempt200, OpenBody, Fail, Forget
<1>5. CASE ReadBody \/ PeriodicSave \/ EndBody
    BY <1>5 DEF ReadBody, PeriodicSave, EndBody, Fail, Forget, diskVars
<1>6. CASE BreakBody
    BY <1>6 DEF BreakBody, TransientOrFail, Transient, Fail, Forget
<1>7. CASE Verify
    BY <1>7 DEF Verify, Fail, Forget, localVars, streamVars
<1>8. CASE Rename
    BY <1>8 DEF Rename, Forget
<1> QED
    BY <1>1, <1>2, <1>3, <1>4, <1>5, <1>6, <1>7, <1>8 DEF SingleSteps

\* The single stream keeps a ranged state as it is, or drops it.
LEMMA RangedKept ==
    ASSUME TrailersApart, SegInv, SingleSteps, SingleInv'
    PROVE  RangedOK'
<1>1. UNCHANGED cur
    BY SingleShape
<1>2. ASSUME part' = part PROVE RangedOK'
    BY <1>1, <1>2, SameSeen DEF SegInv, RangedOK, Holds
<1>3. ASSUME part' = NoFile PROVE RangedOK'
    BY <1>3, NoFileOK, NotRanged
<1>4. ASSUME pc' = "body" PROVE RangedOK'
    BY <1>4, NotRanged DEF SingleInv, BodyOK
<1>5. CASE AttemptNoBody
    BY <1>2, <1>5 DEF AttemptNoBody, diskVars
<1>6. CASE Attempt416
    BY <1>2, <1>3, <1>6 DEF Attempt416
<1>7. CASE Attempt206
    BY <1>2, <1>3, <1>4, <1>7 DEF Attempt206, OpenBody
<1>8. CASE Attempt200
    BY <1>2, <1>4, <1>8 DEF Attempt200, OpenBody
<1>9. CASE ReadBody
    BY <1>2, <1>4, <1>9 DEF ReadBody
<1>10. CASE PeriodicSave
    BY <1>4, <1>10 DEF PeriodicSave
<1>11. CASE BreakBody
    <2>1. part'.state.kind # "ranged"
        BY <1>11, PersistInv DEF BreakBody, SegInv
    <2> QED
        BY <2>1, NotRanged
<1>12. CASE EndBody
    BY <1>2, <1>12 DEF EndBody, diskVars
<1>13. CASE Verify
    <2>1. CASE part' = SetLen(part, written)
        <3>1. PICK r \in Seen : HoldsAll(part, written, r)
            BY <1>13 DEF Verify, SegInv, SingleInv, DoneOK
        <3>2. r \in Resources /\ written = SizeOf[r]
            BY <3>1, SeenFacts DEF HoldsAll
        <3>3. part'.state.kind = "none"
            BY <2>1, <3>2, SizeRegion DEF SegInv, SingleInv
        <3> QED
            BY <3>3, NotRanged
    <2> QED
        BY <1>3, <1>13, <2>1 DEF Verify
<1>14. CASE Rename
    BY <1>3, <1>14 DEF Rename
<1> QED
    BY <1>5, <1>6, <1>7, <1>8, <1>9, <1>10, <1>11, <1>12, <1>13, <1>14 DEF SingleSteps

LEMMA SingleStepsSegInv ==
    ASSUME Honest, SegInv, SharedStep(SingleSteps) PROVE SegInv'
<1>1. /\ SingleSteps /\ pc \in {"attempt", "body", "verify", "rename"}
      /\ pc' \in {"down", "attempt", "body", "verify", "rename"}
      /\ pc \in {"verify", "rename"} /\ pc' # "down" => pc' = "rename" /\ total' = total
    BY SingleShape DEF SharedStep
<1>2. SingleInv'
    BY <1>1, SingleStepsInv DEF Honest, SegInv
<1>3. RangedOK'
    BY <1>1, <1>2, RangedKept DEF Honest
<1>4. CASE pc' = "down"
    BY <1>2, <1>3, <1>4, IdleInv DEF SharedStep
<1>5. CASE pc' # "down"
    <2>1. UNCHANGED << fetch, plan, claim, failed, fallback, bits, nseg >>
        BY <1>5 DEF SharedStep, segVars, sharedVars
    <2>2. PhaseOK'
        BY <1>1, <1>5, <2>1 DEF SegInv, PhaseOK, BootPhase
    <2>3. FetchersOK'
        BY <1>1, <2>1 DEF SegInv, PhaseOK, FetchersOK, FetchOK, Active, Fetchers
    <2>4. PlanOK'
        BY <1>1, <1>5, <2>1 DEF SegInv, PhaseOK, PlanOK
    <2>5. BootBodyOK' /\ ChunkOK' /\ OwnOK'
        BY <1>1 DEF BootBodyOK, ChunkOK, OwnOK
    <2> QED
        BY <1>2, <1>3, <2>2, <2>3, <2>4, <2>5 DEF SegInv
<1> QED
    BY <1>4, <1>5

LEMMA StartSingleSegInv ==
    ASSUME SegInv, NEW u \in Urls, NEW c \in CheckSums, SharedStep(StartSingle(u, c))
    PROVE  SegInv'
<1>1. /\ StartSingle(u, c) /\ pc = "down" /\ pc' = "attempt"
      /\ UNCHANGED << cur, part, final >> /\ UNCHANGED segVars
    BY DEF SharedStep, StartSingle, diskVars
<1>2. SingleInv' /\ RangedOK'
    BY <1>1, StartSingleInv, SameDisk DEF SegInv
<1>3. UNCHANGED << fetch, plan, claim, failed, fallback, bits, nseg >>
    BY <1>1 DEF segVars, sharedVars
<1>4. PhaseOK'
    BY <1>1, <1>3 DEF SegInv, PhaseOK, BootPhase
<1>5. FetchersOK'
    BY <1>1, <1>3 DEF SegInv, PhaseOK, FetchersOK, FetchOK, Active, Fetchers
<1> QED
    BY <1>1, <1>2, <1>4, <1>5 DEF SegInv, BootBodyOK, ChunkOK, OwnOK, PlanOK

LEMMA CrashSegInv ==
    ASSUME SegInv, SharedStep(Crash) \/ SharedStep(CrashInSave) PROVE SegInv'
<1>1. pc' = "down" /\ ForgetSeg
    BY DEF SharedStep, Crash, CrashInSave, Forget
<1>2. CASE Crash
    BY <1>1, <1>2, CrashInv, SameDisk, IdleInv DEF SegInv, Crash, diskVars
<1>3. CASE CrashInSave
    <2> DEFINE s == StreamState
    <2>1. s.real \in Nat /\ s.done \in Nat /\ FileOK(part)
        BY <1>3, SeenFacts DEF CrashInSave, SegInv, SingleInv, BodyOK, StreamState, NoState
    <2>2. part' = TornState(part, s)
        BY <1>3 DEF CrashInSave
    <2> HIDE DEF s
    <2>3. part'.state = NoState
        BY <2>1, <2>2, WriteStateFacts
    <2>4. part'.state.kind = "none"
        BY <2>3 DEF NoState
    <2> QED
        BY <1>1, <1>3, <2>4, CrashInSaveInv, NotRanged, IdleInv DEF SegInv
<1> QED
    BY <1>2, <1>3 DEF SharedStep

\* A new version upstream takes nothing back: Seen only grows.
LEMMA OriginSegInv == ASSUME SegInv, SharedStep(OriginStep) PROVE SegInv'
<1>1. OriginStep /\ UNCHANGED << part, final, pc, url, tag, total, reply, written >>
    BY DEF SharedStep, OriginStep, diskVars, localVars, streamVars
<1>2. SingleInv' /\ Urls' = Urls /\ Seen \subseteq Seen'
    BY <1>1, OriginStepInv, OriginSeen DEF SegInv
<1>3. CASE pc = "down"
    <2>1. RangedOK'
        BY <1>1, <1>2 DEF SegInv, RangedOK, Holds
    <2> QED
        BY <1>1, <1>2, <1>3, <2>1, IdleInv DEF SharedStep
<1>4. CASE pc # "down"
    <2>1. UNCHANGED << fetch, plan, claim, failed, fallback, bits, nseg, boot >>
        BY <1>1, <1>4 DEF SharedStep, segVars, sharedVars
    <2>2. RangedOK' /\ PhaseOK' /\ PlanOK'
        BY <1>1, <1>2, <2>1 DEF SegInv, RangedOK, Holds, PhaseOK, PlanOK
    <2>3. BootBodyOK'
        BY <1>1, <1>2, <2>1 DEF SegInv, BootBodyOK, Prefix
    <2>4. ChunkOK'
        BY <1>1, <1>2, <2>1 DEF SegInv, ChunkOK, Holds
    <2>5. FetchersOK'
        BY <1>1, <2>1 DEF SegInv, FetchersOK, FetchOK, Holds
    <2>6. OwnOK'
        BY <1>1, <2>1 DEF SegInv, OwnOK, Owned, Trouble
    <2> QED
        BY <1>2, <2>2, <2>3, <2>4, <2>5, <2>6 DEF SegInv
<1> QED
    BY <1>3, <1>4

LEMMA StutterSegInv == ASSUME SegInv, UNCHANGED vars PROVE SegInv'
<1>1. UNCHANGED << cur, part, final, pc, url, tag, total, reply, written >> /\ UNCHANGED singleVars
    BY DEF vars, singleVars, diskVars, localVars, streamVars
<1>2. UNCHANGED << fetch, plan, claim, failed, fallback, bits, nseg, boot >>
    BY DEF vars, segVars, sharedVars
<1>3. SingleInv' /\ RangedOK' /\ Urls' = Urls /\ Seen' = Seen
    BY <1>1, StutterInv, SameDisk, SameSeen DEF SegInv
<1>4. PhaseOK' /\ PlanOK'
    BY <1>1, <1>2, <1>3 DEF SegInv, PhaseOK, PlanOK
<1>5. BootBodyOK'
    BY <1>1, <1>2, <1>3 DEF SegInv, BootBodyOK, Prefix
<1>6. ChunkOK'
    BY <1>1, <1>2, <1>3 DEF SegInv, ChunkOK, Holds
<1>7. FetchersOK'
    BY <1>1, <1>2 DEF SegInv, FetchersOK, FetchOK, Holds
<1>8. OwnOK'
    BY <1>1, <1>2 DEF SegInv, OwnOK, Owned, Trouble
<1> QED
    BY <1>3, <1>4, <1>5, <1>6, <1>7, <1>8 DEF SegInv

\* There is no process, so there is nothing of the segmented mode to forget.
LEMMA FinishedSegInv == ASSUME SegInv, SharedStep(Finished) PROVE SegInv'
<1>1. pc' = "down" /\ ForgetSeg /\ UNCHANGED << cur, part, final >> /\ UNCHANGED singleVars
    BY DEF SharedStep, Finished, singleVars, diskVars
<1> QED
    BY <1>1, StutterInv, SameDisk, IdleInv DEF SegInv

LEMMA SegNextInv ==
    ASSUME Honest
    PROVE  SegInv /\ [Next]_vars => SegInv'
<1> SUFFICES ASSUME SegInv, [Next]_vars PROVE SegInv'
    OBVIOUS
<1>1. ASSUME NEW u \in Urls, NEW c \in CheckSums,
             SharedStep(StartSingle(u, c)) \/ \E n \in Segments : StartSegmented(u, c, n)
      PROVE  SegInv'
    BY <1>1, StartSingleSegInv, StartSegmentedInv
<1>2. CASE BootSteps
    BY <1>2, BootNoBodyInv, Boot416Inv, Boot200Inv, Boot206Inv, BootReadInv, BootFullInv,
       BootBreakInv, BootChunk0ShortInv, BootChunk0DoneInv, BootChunk0LostInv, BootSaveInv
       DEF BootSteps
<1>3. CASE MainSteps
    BY <1>2, <1>3, SingleStepsSegInv, JoinWorkersInv DEF MainSteps
<1>4. ASSUME NEW f \in Fetchers, Fetch(f) PROVE SegInv'
    BY <1>4, FetchInv
<1>5. ASSUME NEW w \in Workers, Worker(w) \/ WorkerPanic(w) PROVE SegInv'
    BY <1>5, WorkerTopInv, WorkerClaimInv, WorkerOkInv, WorkerStopInv, WorkerPanicInv DEF Worker
<1>6. CASE SharedStep(Crash) \/ SharedStep(CrashInSave) \/ CrashInRangedSave
    BY <1>6, CrashSegInv, CrashInRangedSaveInv
<1>7. CASE SharedStep(OriginStep) \/ SharedStep(Finished)
    BY <1>7, OriginSegInv, FinishedSegInv
<1>8. CASE UNCHANGED vars
    BY <1>8, StutterSegInv
<1> QED
    BY <1>1, <1>3, <1>4, <1>5, <1>6, <1>7, <1>8 DEF Next

-----------------------------------------------------------------------------
(* What the invariant gives. *)

\* In both modes and across crashes and changes upstream the chunk bitmap on
\* disk claims only chunks whose bytes are all there, of the version its
\* validators name.
THEOREM BitmapClaimsWhatIsThere == Honest => (Spec => []RangedStateHonest)
<1> SUFFICES ASSUME Honest PROVE Spec => []RangedStateHonest
    OBVIOUS
<1>1. SegInv => RangedStateHonest
    <2> SUFFICES ASSUME SegInv PROVE RangedStateHonest
        OBVIOUS
    <2>1. FileOK(part) /\ RangedOK
        BY DEF SegInv, SingleInv
    <2> QED
        BY <2>1, SeenFacts DEF RangedStateHonest, ReadState, RangedOK, Holds, NoState
<1> QED
    BY <1>1, SegInitInv, SegNextInv, PTL DEF Spec

\* The same of the resume state of the single stream the segmented mode falls
\* back to and shares the part file with.
THEOREM FallBackClaimsWhatIsThere == Honest => (Spec => []StateHonest)
<1> SUFFICES ASSUME Honest PROVE Spec => []StateHonest
    OBVIOUS
<1>1. SegInv => StateHonest
    BY InvStateHonest DEF SegInv
<1> QED
    BY <1>1, SegInitInv, SegNextInv, PTL DEF Spec

\* The chunks tile the file, no two threads work on one chunk, none that is
\* done is fetched again, and when all threads have returned without an error
\* every chunk is done: for any number of threads and chunks.
THEOREM ChunksFetchedOnce == Honest => (Spec => []ChunksExact)
<1> SUFFICES ASSUME Honest PROVE Spec => []ChunksExact
    OBVIOUS
<1>1. SegInv => ChunksExact
    <2> SUFFICES ASSUME SegInv PROVE ChunksExact
        OBVIOUS
    <2>1. plan # NoPlan /\ total # Unknown => Tiles(plan, total)
        BY DEF SegInv, PhaseOK, BootPhase, BootBodyOK, ChunkOK, PlanOK, GoodPlan
    <2>2. ChunkOwnership
        <3> SUFFICES ASSUME pc = "chunks" PROVE ChunkOwnership
            BY DEF ChunkOwnership
        <3>1. AllJoined /\ ~Panicked /\ ~failed /\ ~fallback => bits = 1 .. Len(plan)
            BY AllDone
        <3> QED
            BY <3>1 DEF ChunkOwnership, SegInv, OwnOK, Active
    <2> QED
        BY <2>1, <2>2 DEF ChunksExact
<1> QED
    BY <1>1, SegInitInv, SegNextInv, PTL DEF Spec

-----------------------------------------------------------------------------
(* Refinement of Publish. *)

\* Only the rename touches the output path.
LEMMA OutsideShape ==
    ASSUME [Next]_vars PROVE UNCHANGED << cur, final >> \/ Rename \/ OriginStep
<1>1. ASSUME NEW u, NEW c, SharedStep(StartSingle(u, c)) \/ \E n \in Segments : StartSegmented(u, c, n)
      PROVE  UNCHANGED << cur, final >>
    BY <1>1 DEF SharedStep, StartSingle, StartSegmented, diskVars
<1>2. CASE SharedStep(SingleSteps)
    BY <1>2, SingleShape DEF SharedStep
<1>3. CASE BootSteps
    BY <1>3 DEF BootSteps, BootNoBody, Boot416, Boot200, Boot206, BootRead, BootFull, BootBreak,
       BootChunk0Short, BootChunk0Done, BootChunk0Lost, BootSave, diskVars
<1>4. CASE JoinWorkers
    BY <1>4 DEF JoinWorkers, diskVars
<1>5. ASSUME NEW f, Fetch(f) PROVE UNCHANGED << cur, final >>
    BY <1>5 DEF Fetch, FetchSend, FetchRead, FetchEnd, FetchStoreFails, unchangedByFetch
<1>6. ASSUME NEW w, Worker(w) \/ WorkerPanic(w) PROVE UNCHANGED << cur, final >>
    BY <1>6 DEF Worker, WorkerTop, WorkerClaim, WorkerOk, WorkerStop, WorkerPanic,
       unchangedByFetch, diskVars
<1>7. CASE SharedStep(Crash) \/ SharedStep(CrashInSave) \/ CrashInRangedSave
    BY <1>7 DEF SharedStep, Crash, CrashInSave, CrashInRangedSave, diskVars
<1>8. CASE SharedStep(OriginStep) \/ SharedStep(Finished)
    BY <1>8 DEF SharedStep, Finished, singleVars, diskVars
<1>9. CASE UNCHANGED vars
    BY <1>9 DEF vars, singleVars, diskVars
<1> QED
    BY <1>1, <1>2, <1>3, <1>4, <1>5, <1>6, <1>7, <1>8, <1>9 DEF Next, MainSteps

\* A whole version on disk is told from every other one by its bytes, unless
\* there are none.
LEMMA WholeIsOne ==
    ASSUME NEW f, NEW n, NEW r \in Resources, HoldsAll(f, n, r)
    PROVE  {q \in Resources : UrlOf[q] = UrlOf[r] /\ HoldsAll(f, n, q)} = Promise!SameBytes(r)
<1>1. n = SizeOf[r] /\ n \in Nat
    BY OriginAssumption DEF HoldsAll
<1>2. ASSUME NEW q \in Resources, HoldsAll(f, n, q), n > 0 PROVE q = r
    <2>1. 0 \in 0 .. n - 1
        BY <1>1, <1>2
    <2>2. Byte(q, 0) = Byte(r, 0)
        BY <1>2, <2>1 DEF HoldsAll
    <2> QED
        BY <2>2 DEF Byte
<1>3. ASSUME NEW q \in Resources, HoldsAll(f, n, q)
      PROVE  q = r \/ (SizeOf[q] = 0 /\ SizeOf[r] = 0)
    BY <1>1, <1>2, <1>3 DEF HoldsAll
<1>4. ASSUME NEW q \in Resources, SizeOf[q] = 0, SizeOf[r] = 0 PROVE HoldsAll(f, n, q)
    BY <1>1, <1>4 DEF HoldsAll
<1> QED
    BY <1>3, <1>4 DEF Promise!SameBytes

LEMMA RenamePublishes ==
    ASSUME SegInv, Rename PROVE Promise!PublishVersion
<1>1. final' = [file |-> part, url |-> url] /\ UNCHANGED cur
    BY DEF Rename
<1>2. PICK r \in Seen : UrlOf[r] = url /\ HoldsAll(part, written, r) /\ part.size = written
    BY DEF Rename, SegInv, SingleInv, DoneOK
<1>3. r \in Resources /\ r <= cur[UrlOf[r]] /\ url # 0
    BY <1>2, OriginAssumption DEF Seen
<1>4. final' # NoFinal /\ final'.url = url /\ final'.file = part
    BY <1>1, <1>3 DEF NoFinal
<1>5. PublishedVersions' = {q \in Resources : UrlOf[q] = url /\ HoldsAll(part, part.size, q)}
    BY <1>4 DEF PublishedVersions, HoldsAll
<1>6. PublishedVersions' = Promise!SameBytes(r)
    BY <1>2, <1>3, <1>5, WholeIsOne
<1> QED
    BY <1>1, <1>3, <1>6 DEF Promise!PublishVersion

\* Whatever the worker threads, crashes and later runs do, the output path goes
\* in one step from nothing, or one whole version, to a whole version its URL
\* names or has named.
THEOREM ImplementsPublish == Honest => (Spec => AtomicPublish)
<1> SUFFICES ASSUME Honest PROVE Spec => AtomicPublish
    OBVIOUS
<1>1. Init => Promise!PublishInit
    BY DEF Init, SingleInit, OriginInit, Promise!PublishInit, Promise!OriginInit, Promise!Nothing,
       PublishedVersions, Urls, Promise!Urls
<1>2. SegInv /\ [Next]_vars => [Promise!PublishNext]_<< cur, PublishedVersions >>
    <2> SUFFICES ASSUME SegInv, [Next]_vars
                 PROVE  [Promise!PublishNext]_<< cur, PublishedVersions >>
        OBVIOUS
    <2>1. CASE UNCHANGED << cur, final >>
        BY <2>1 DEF PublishedVersions
    <2>2. CASE Rename
        BY <2>2, RenamePublishes DEF Promise!PublishNext
    <2>3. CASE OriginStep
        BY <2>3 DEF OriginStep, OriginChange, Urls, Promise!PublishNext, Promise!OriginChange,
           Promise!Urls, PublishedVersions, diskVars
    <2> QED
        BY <2>1, <2>2, <2>3, OutsideShape
<1> QED
    BY <1>1, <1>2, SegInitInv, SegNextInv, PTL DEF Spec, AtomicPublish, Promise!PublishSpec

-----------------------------------------------------------------------------
(* The byte meter.  What it counts is a set of positions: the chunks that   *)
(* are done and what each worker has of its own.                            *)

ChunkAt(p, c) == p[c][1] .. p[c][2]
DoneOf(p, b) == UNION {ChunkAt(p, c) : c \in b}
Upto(x) == x.from + x.got + x.wrote
Mine(x) == x.from .. Upto(x) - 1
Metered == DoneOf(plan, bits) \cup UNION {Mine(fetch[w]) : w \in Workers}

\* A worker with a chunk in hand, or with bytes of one it has given up.
Blank(x) == x.got = 0 /\ x.wrote = 0
Holding(x) == x.st \in Active \/ ~Blank(x)

\* What a worker has is the beginning of a chunk that is not done and that no
\* other worker has; a worker that is about to claim has nothing.
HoldOK(x) ==
    /\ Holding(x) =>
          /\ x.chunk \in 1 .. Len(plan) /\ x.chunk \notin bits /\ x.chunk < claim
          /\ x.from = plan[x.chunk][1] /\ Upto(x) <= plan[x.chunk][2] + 1
    /\ x.st \in {"off", "claim"} => Blank(x)
    /\ x.st \in {"top", "exit"} => Blank(x) \/ failed \/ fallback

HoldersOK ==
    /\ \A w \in Workers : HoldOK(fetch[w])
    /\ \A v, w \in Workers :
          Holding(fetch[v]) /\ Holding(fetch[w]) /\ fetch[v].chunk = fetch[w].chunk => v = w

MeterOK ==
    /\ pc \in {"down", "attempt", "body"} => nseg = 0
    /\ pc \in {"down", "boot"} => meter = 0 /\ total = Unknown
    /\ pc = "boot_body" => meter = written /\ (boot = "chunk0" => written <= plan[1][2] + 1)
    /\ pc = "boot_fetch" => meter = Upto(fetch[0]) /\ meter <= plan[1][2] + 1
    /\ pc = "boot_save" => bits = {1} /\ meter = plan[1][2] + 1
    /\ pc = "chunks" => meter = Cardinality(Metered) /\ HoldersOK
    /\ pc \in {"verify", "rename"} /\ nseg # 0 =>
          meter = written /\ (total # Unknown => meter <= total)

\* A nonempty set of naturals has a least element.
LEMMA LeastNat ==
    ASSUME NEW S \in SUBSET Nat, S # {}
    PROVE  \E x \in S : \A y \in S : x <= y
<1>1. \E x \in S : \A y \in S : ~(<<y, x>> \in OpToRel(<, Nat))
    BY NatLessThanWellFounded, WFMin
<1>2. PICK x \in S : \A y \in S : ~(<<y, x>> \in OpToRel(<, Nat))
    BY <1>1
<1>3. \A y \in S : ~(y < x)
    BY <1>2 DEF OpToRel
<1> QED
    BY <1>3

\* The chunks of a tiling lie one behind the other.
LEMMA ChunksOrdered ==
    ASSUME NEW p, NEW t \in Nat, GoodPlan(p, t),
           NEW i \in 1 .. Len(p), NEW j \in 1 .. Len(p), i < j
    PROVE  p[i][2] < p[j][1]
<1> DEFINE Wrong == {k \in 1 .. Len(p) : i < k /\ ~(p[i][2] < p[k][1])}
<1>1. SUFFICES ASSUME Wrong # {} PROVE FALSE
    BY <1>1
<1>2. PICK k \in Wrong : \A y \in Wrong : k <= y
    <2>1. Wrong \in SUBSET Nat
        OBVIOUS
    <2> HIDE DEF Wrong
    <2> QED
        BY <1>1, <2>1, LeastNat
<1>3. /\ Len(p) \in Nat /\ k \in 1 .. Len(p) /\ i < k /\ k - 1 \in 1 .. Len(p) - 1
      /\ k - 1 \in 1 .. Len(p)
    BY <1>2 DEF GoodPlan
<1>4. \A c \in 1 .. Len(p) : p[c][1] \in Nat /\ p[c][2] \in Nat /\ p[c][1] <= p[c][2]
    BY DEF GoodPlan
<1>5. p[(k - 1) + 1][1] = p[k - 1][2] + 1 /\ (k - 1) + 1 = k
    BY <1>3 DEF GoodPlan, Tiles
<1>6. p[k][1] = p[k - 1][2] + 1
    BY <1>5
<1>7. CASE k - 1 = i
    BY <1>2, <1>3, <1>4, <1>6, <1>7
<1>8. CASE k - 1 # i
    <2>1. i < k - 1 /\ k - 1 \notin Wrong
        BY <1>2, <1>3, <1>8
    <2>2. p[i][2] < p[k - 1][1]
        BY <1>3, <2>1
    <2> QED
        BY <1>2, <1>3, <1>4, <1>6, <2>2
<1> QED
    BY <1>7, <1>8

\* No position is in two chunks.
LEMMA ChunksApart ==
    ASSUME NEW p, NEW t \in Nat, GoodPlan(p, t),
           NEW i \in 1 .. Len(p), NEW j \in 1 .. Len(p),
           NEW k \in Int, k \in ChunkAt(p, i), k \in ChunkAt(p, j)
    PROVE  i = j
<1>1. \A c \in 1 .. Len(p) : p[c][1] \in Nat /\ p[c][2] \in Nat
    BY DEF GoodPlan
<1>2. i < j => p[i][2] < p[j][1]
    BY ChunksOrdered
<1>3. j < i => p[j][2] < p[i][1]
    BY ChunksOrdered
<1>4. i \in Int /\ j \in Int
    BY DEF GoodPlan
<1> QED
    BY <1>1, <1>2, <1>3, <1>4 DEF ChunkAt

\* The positions of some chunks are finitely many and inside the resource; of all
\* chunks, the whole of it.
LEMMA DoneOfFacts ==
    ASSUME NEW p, NEW t \in Nat, GoodPlan(p, t), NEW b, b \subseteq 1 .. Len(p)
    PROVE  /\ DoneOf(p, b) \subseteq 0 .. t - 1 /\ IsFiniteSet(DoneOf(p, b))
           /\ b = 1 .. Len(p) => DoneOf(p, b) = 0 .. t - 1
<1>1. \A c \in 1 .. Len(p) : p[c][1] \in Nat /\ p[c][2] \in Nat /\ p[c][2] < t
    BY DEF GoodPlan
<1>2. DoneOf(p, b) \subseteq 0 .. t - 1
    BY <1>1 DEF DoneOf, ChunkAt
<1>3. IsFiniteSet(0 .. t - 1)
    BY FS_Interval
<1>4. IsFiniteSet(DoneOf(p, b))
    BY <1>2, <1>3, FS_Subset
<1>5. b = 1 .. Len(p) => 0 .. t - 1 \subseteq DoneOf(p, b)
    <2> SUFFICES ASSUME b = 1 .. Len(p), NEW k \in 0 .. t - 1 PROVE k \in DoneOf(p, b)
        OBVIOUS
    <2>1. PICK c \in 1 .. Len(p) : p[c][1] <= k /\ k <= p[c][2]
        BY DEF GoodPlan
    <2>2. k \in ChunkAt(p, c)
        BY <1>1, <2>1 DEF ChunkAt
    <2> QED
        BY <2>1, <2>2 DEF DoneOf
<1> QED
    BY <1>2, <1>4, <1>5

-----------------------------------------------------------------------------
(* plan_done_bytes. *)

LEMMA IntervalSize ==
    ASSUME NEW i \in Nat, NEW j \in Nat, i <= j
    PROVE  IsFiniteSet(i .. j) /\ Cardinality(i .. j) = j - i + 1 /\ j - i + 1 \in Nat
BY FS_Interval

LEMMA WholeSize ==
    ASSUME NEW t \in Nat
    PROVE  IsFiniteSet(0 .. t - 1) /\ Cardinality(0 .. t - 1) = t
<1> DEFINE e == t - 1
<1>1. e \in Int
    OBVIOUS
<1> HIDE DEF e
<1>2. IsFiniteSet(0 .. e) /\ Cardinality(0 .. e) = IF 0 > e THEN 0 ELSE e - 0 + 1
    BY <1>1, FS_Interval
<1> QED
    BY <1>2 DEF e

LEMMA DisjointSize ==
    ASSUME NEW S, IsFiniteSet(S), NEW T, IsFiniteSet(T), S \cap T = {}
    PROVE  Cardinality(S \cup T) = Cardinality(S) + Cardinality(T)
<1>1. Cardinality(S \cup T) = Cardinality(S) + Cardinality(T) - Cardinality(S \cap T)
    BY FS_Union
<1>2. Cardinality(S \cap T) = 0
    BY FS_EmptySet
<1>3. Cardinality(S) \in Nat /\ Cardinality(T) \in Nat
    BY FS_CardinalityType
<1> QED
    BY <1>1, <1>2, <1>3

IsSum(f, N, a) == f = [n \in 0 .. N |-> IF n = 0 THEN 0 ELSE f[n - 1] + a[n]]

\* A sum over 1 .. N exists.
LEMMA SumExists ==
    ASSUME NEW N \in Nat, NEW a
    PROVE  \E f : IsSum(f, N, a)
<1> DEFINE P(m) == \E f : f = [n \in 0 .. m |-> IF n = 0 THEN 0 ELSE f[n - 1] + a[n]]
           Wrong == {m \in 0 .. N : ~P(m)}
<1>1. SUFFICES ASSUME Wrong # {} PROVE FALSE
    BY DEF IsSum
<1>2. PICK m \in Wrong : \A y \in Wrong : m <= y
    <2>1. Wrong \in SUBSET Nat
        OBVIOUS
    <2> HIDE DEF Wrong
    <2> QED
        BY <1>1, <2>1, LeastNat
<1>3. CASE m = 0
    <2> DEFINE f == [n \in 0 .. 0 |-> 0]
    <2>1. f = [n \in 0 .. 0 |-> IF n = 0 THEN 0 ELSE f[n - 1] + a[n]]
        OBVIOUS
    <2> QED
        BY <1>2, <1>3, <2>1
<1>4. CASE m # 0
    <2>1. m - 1 \in 0 .. N /\ m - 1 \notin Wrong /\ m \in 1 .. N
        BY <1>2, <1>4
    <2>2. PICK f : f = [n \in 0 .. m - 1 |-> IF n = 0 THEN 0 ELSE f[n - 1] + a[n]]
        BY <2>1
    <2>3. \A n \in 0 .. m - 1 : f[n] = IF n = 0 THEN 0 ELSE f[n - 1] + a[n]
        BY <2>2
    <2> DEFINE g == [n \in 0 .. m |-> IF n = m THEN f[m - 1] + a[m] ELSE f[n]]
    <2>4. \A n \in 0 .. m : g[n] = IF n = m THEN f[m - 1] + a[m] ELSE f[n]
        OBVIOUS
    <2>5. g = [n \in 0 .. m |-> g[n]]
        OBVIOUS
    <2>6. ASSUME NEW n \in 0 .. m
          PROVE  g[n] = IF n = 0 THEN 0 ELSE g[n - 1] + a[n]
        <3> HIDE DEF g
        <3>1. CASE n = m
            <4>1. n # 0 /\ n - 1 \in 0 .. m /\ n - 1 # m
                BY <1>4, <2>1, <3>1
            <4>2. g[n - 1] = f[m - 1]
                BY <2>4, <3>1, <4>1
            <4> QED
                BY <2>4, <3>1, <4>1, <4>2
        <3>2. CASE n # m /\ n = 0
            BY <2>1, <2>3, <2>4, <3>2
        <3>3. CASE n # m /\ n # 0
            <4>1. n \in 0 .. m - 1 /\ n - 1 \in 0 .. m /\ n - 1 # m
                BY <2>1, <3>3
            <4>2. g[n] = f[n] /\ g[n - 1] = f[n - 1]
                BY <2>4, <3>3, <4>1
            <4> QED
                BY <2>3, <3>3, <4>1, <4>2
        <3> QED
            BY <3>1, <3>2, <3>3
    <2> HIDE DEF g
    <2>7. g = [n \in 0 .. m |-> IF n = 0 THEN 0 ELSE g[n - 1] + a[n]]
        BY <2>5, <2>6
    <2> QED
        BY <1>2, <2>7
<1> QED
    BY <1>3, <1>4

\* plan_done_bytes is the number of positions of the chunks whose bit is set.
LEMMA DoneBytes ==
    ASSUME NEW p, NEW t \in Nat, GoodPlan(p, t), NEW b, b \subseteq 1 .. Len(p)
    PROVE  PlanDoneBytes(p, b) = Cardinality(DoneOf(p, b))
<1> DEFINE N == Len(p)
           a == [n \in 1 .. N |-> IF n \in b THEN ChunkLen(p, n) ELSE 0]
           sum == CHOOSE f : f = [n \in 0 .. N |-> IF n = 0 THEN 0
                                    ELSE f[n - 1] + (IF n \in b THEN ChunkLen(p, n) ELSE 0)]
           upto(n) == DoneOf(p, b \cap (1 .. n))
<1>1. N \in Nat
    BY DEF GoodPlan
<1>2. PlanDoneBytes(p, b) = sum[N]
    BY DEF PlanDoneBytes
<1>3. PICK f : IsSum(f, N, a)
    BY <1>1, SumExists
<1>4. sum = [n \in 0 .. N |-> IF n = 0 THEN 0
                                ELSE sum[n - 1] + (IF n \in b THEN ChunkLen(p, n) ELSE 0)]
    <2>1. f = [n \in 0 .. N |-> IF n = 0 THEN 0
                                ELSE f[n - 1] + (IF n \in b THEN ChunkLen(p, n) ELSE 0)]
        <3>1. f = [n \in 0 .. N |-> IF n = 0 THEN 0 ELSE f[n - 1] + a[n]]
            BY <1>3 DEF IsSum
        <3>2. ASSUME NEW n \in 0 .. N, n # 0
              PROVE  a[n] = IF n \in b THEN ChunkLen(p, n) ELSE 0
            BY <1>1, <3>2
        <3> HIDE DEF a
        <3> QED
            BY <3>1, <3>2
    <2> QED
        BY <2>1
<1> HIDE DEF sum
<1>5. /\ 0 \in 0 .. N => sum[0] = 0
      /\ \A n \in 1 .. N : sum[n] = sum[n - 1] + (IF n \in b THEN ChunkLen(p, n) ELSE 0)
    BY <1>1, <1>4
<1> DEFINE Wrong == {n \in 0 .. N : sum[n] # Cardinality(upto(n))}
<1>6. ASSUME Wrong # {} PROVE FALSE
    <2>1. PICK m \in Wrong : \A y \in Wrong : m <= y
        <3>1. Wrong \in SUBSET Nat
            OBVIOUS
        <3> HIDE DEF Wrong
        <3> QED
            BY <1>6, <3>1, LeastNat
    <2>2. CASE m = 0
        <3>1. upto(0) = {}
            BY DEF DoneOf
        <3> QED
            BY <1>1, <1>5, <2>1, <2>2, <3>1, FS_EmptySet
    <2>3. CASE m # 0
        <3>1. m \in 1 .. N /\ m - 1 \in 0 .. N /\ m - 1 \notin Wrong
            BY <2>1, <2>3
        <3>2. sum[m - 1] = Cardinality(upto(m - 1))
            BY <3>1
        <3>3. IsFiniteSet(upto(m - 1)) /\ Cardinality(upto(m - 1)) \in Nat
            <4>1. b \cap (1 .. (m - 1)) \subseteq 1 .. Len(p)
                OBVIOUS
            <4> QED
                BY <4>1, DoneOfFacts, FS_CardinalityType
        <3>4. CASE m \notin b
            <4>1. b \cap (1 .. m) = b \cap (1 .. (m - 1))
                BY <1>1, <3>1, <3>4
            <4> QED
                BY <1>5, <2>1, <3>1, <3>2, <3>3, <3>4, <4>1
        <3>5. CASE m \in b
            <4>1. b \cap (1 .. m) = (b \cap (1 .. (m - 1))) \cup {m}
                BY <1>1, <3>1, <3>5
            <4>2. upto(m) = upto(m - 1) \cup ChunkAt(p, m)
                BY <4>1 DEF DoneOf
            <4>3. p[m][1] \in Nat /\ p[m][2] \in Nat /\ p[m][1] <= p[m][2]
                BY <3>1 DEF GoodPlan
            <4>4. /\ IsFiniteSet(ChunkAt(p, m))
                  /\ Cardinality(ChunkAt(p, m)) = ChunkLen(p, m) /\ ChunkLen(p, m) \in Nat
                BY <4>3, IntervalSize DEF ChunkAt, ChunkLen
            <4>5. upto(m - 1) \cap ChunkAt(p, m) = {}
                <5> SUFFICES ASSUME NEW k \in upto(m - 1), k \in ChunkAt(p, m) PROVE FALSE
                    OBVIOUS
                <5>1. PICK c \in b \cap (1 .. (m - 1)) : k \in ChunkAt(p, c)
                    BY DEF DoneOf
                <5>2. c \in 1 .. Len(p) /\ c # m /\ k \in Int
                    BY <1>1, <3>1, <4>3, <5>1 DEF ChunkAt
                <5> QED
                    BY <3>1, <5>1, <5>2, ChunksApart
            <4>6. Cardinality(upto(m)) = Cardinality(upto(m - 1)) + ChunkLen(p, m)
                <5> HIDE DEF upto
                <5> QED
                    BY <3>3, <4>2, <4>4, <4>5, DisjointSize
            <4> QED
                BY <1>5, <2>1, <3>1, <3>2, <3>5, <4>6
        <3> QED
            BY <3>4, <3>5
    <2> QED
        BY <2>2, <2>3
<1>7. sum[N] = Cardinality(upto(N))
    <2>1. N \in 0 .. N
        BY <1>1
    <2>2. Wrong = {}
        <3> HIDE DEF Wrong
        <3> QED
            BY <1>6
    <2> QED
        BY <2>1, <2>2
<1>8. b \cap (1 .. N) = b
    OBVIOUS
<1> QED
    BY <1>2, <1>7, <1>8
-----------------------------------------------------------------------------
(* What is metered at each control point. *)

LEMMA MeterInit == Init => MeterOK
BY DEF Init, SingleInit, MeterOK

\* Nothing of a segmented run is left.
LEMMA MeterIdle ==
    ASSUME ForgetSeg, pc' \in {"down", "attempt"}, pc' = "down" => total' = Unknown
    PROVE  MeterOK'
BY DEF ForgetSeg, MeterOK

LEMMA MeterFail == ASSUME FailSegmented PROVE MeterOK'
BY MeterIdle DEF FailSegmented, Fail, Forget, NoStream

LEMMA MeterFallBack == ASSUME FallBackToSingle PROVE MeterOK'
BY MeterIdle DEF FallBackToSingle

\* The workers start with nothing in hand.
LEMMA MeterStart ==
    ASSUME pc' = "chunks", NEW p, plan' = p, Len(p) \in Nat \ {0}, fetch' = StartWorkers(p),
           meter' = Cardinality(DoneOf(plan', bits'))
    PROVE  MeterOK'
<1> DEFINE top == Fetcher("top", 0, 0, 0, 0)
           k == MinOf(Parallelism, Len(p))
<1>1. /\ top.st = "top" /\ top.from = 0 /\ top.got = 0 /\ top.wrote = 0
      /\ Off.st = "off" /\ Off.from = 0 /\ Off.got = 0 /\ Off.wrote = 0
    BY DEF Fetcher, Off
<1>2. fetch' = [f \in Fetchers |-> IF f \in 1 .. k THEN top ELSE Off]
    BY DEF StartWorkers
<1> HIDE DEF top, k
<1>3. \A w \in Workers : fetch'[w] = top \/ fetch'[w] = Off
    BY <1>2, ThreadFacts
<1>4. \A w \in Workers : /\ fetch'[w].st \in {"top", "off"} /\ Blank(fetch'[w])
                         /\ ~Holding(fetch'[w]) /\ Mine(fetch'[w]) = {}
    <2>1. Blank(top) /\ Blank(Off) /\ ~Holding(top) /\ ~Holding(Off)
        BY <1>1 DEF Blank, Holding, Active
    <2>2. Mine(top) = {} /\ Mine(Off) = {}
        BY <1>1 DEF Mine, Upto
    <2> QED
        BY <1>1, <1>3, <2>1, <2>2
<1>5. Metered' = DoneOf(plan', bits')
    <2>1. Metered' = DoneOf(plan', bits') \cup UNION {Mine(fetch'[w]) : w \in Workers}
        BY DEF Metered, DoneOf, ChunkAt, Mine, Upto
    <2> QED
        BY <1>4, <2>1
<1>6. HoldersOK'
    <2>1. \A w \in Workers : HoldOK(fetch[w])'
        BY <1>4 DEF HoldOK, Holding, Blank
    <2>2. \A w \in Workers : ~Holding(fetch[w])'
        BY <1>4 DEF Holding, Blank
    <2> QED
        BY <2>1, <2>2 DEF HoldersOK
<1> QED
    BY <1>5, <1>6 DEF MeterOK

LEMMA MeterStartSegmented ==
    ASSUME SegInv, SegInv', MeterOK, NEW u \in Urls, NEW c \in CheckSums, NEW n \in Segments,
           StartSegmented(u, c, n)
    PROVE  MeterOK'
<1>1. pc = "down"
    BY DEF StartSegmented
<1>2. CASE ResumesRanged(u, n)
    <2>1. /\ pc' = "chunks" /\ total' = part.state.real
          /\ plan' = BySegments(total', n) /\ plan' = part.state.plan
          /\ bits' = part.state.bits /\ fetch' = StartWorkers(plan')
          /\ meter' = PlanDoneBytes(plan', bits')
        BY <1>2 DEF StartSegmented, ResumesRanged, ReadState, NoState
    <2>2. /\ tag' \in Seen' /\ total' = SizeOf[tag'] /\ GoodPlan(plan', total')
          /\ bits' \subseteq 1 .. Len(plan')
        BY <2>1 DEF SegInv, ChunkOK
    <2>3. total' \in Nat
        <3>1. UNCHANGED cur
            BY DEF StartSegmented
        <3> QED
            BY <2>2, <3>1, SameSeen, SeenFacts
    <2>4. meter' = Cardinality(DoneOf(plan', bits'))
        BY <2>1, <2>2, <2>3, DoneBytes
    <2>5. Len(plan') \in Nat \ {0}
        BY <2>2 DEF GoodPlan
    <2> QED
        BY <2>1, <2>4, <2>5, MeterStart
<1>3. CASE ~ResumesRanged(u, n)
    <2>1. pc' = "boot" /\ UNCHANGED << total, meter >>
        BY <1>3 DEF StartSegmented
    <2> QED
        BY <1>1, <2>1 DEF MeterOK
<1> QED
    BY <1>2, <1>3

-----------------------------------------------------------------------------
(* The bootstrap. *)

\* What a failed attempt had counted is taken back.
LEMMA MeterRetry ==
    ASSUME NEW n \in Nat, meter = n, BootRetryOrFail(n) PROVE MeterOK'
<1>1. CASE FailSegmented
    BY <1>1, MeterFail
<1>2. CASE pc' = "boot" /\ meter' = meter - n /\ NoStream
    BY <1>2 DEF NoStream, MeterOK
<1> QED
    BY <1>1, <1>2 DEF BootRetryOrFail

LEMMA MeterBoot ==
    ASSUME SegInv, SegInv', MeterOK, BootSteps, pc \in {"boot", "boot_body"}
    PROVE  MeterOK'
<1>1. CASE BootNoBody
    <2>1. meter = 0
        BY <1>1 DEF BootNoBody, MeterOK
    <2> QED
        BY <1>1, <2>1, MeterRetry, MeterFail DEF BootNoBody
<1>2. CASE Boot416
    BY <1>2 DEF Boot416, MeterOK, segVars
<1>3. ASSUME NEW m, NEW kind, NEW t, pc = "boot", BootOpen(m, kind, t) PROVE MeterOK'
    <2>1. pc' = "boot_body" /\ written' = 0 /\ meter' = meter /\ meter = 0
        BY <1>3 DEF BootOpen, MeterOK
    <2>2. boot' = "chunk0" => plan'[1][2] \in Nat
        BY <2>1 DEF SegInv, BootBodyOK, GoodPlan
    <2> QED
        BY <2>1, <2>2 DEF MeterOK
<1>4. CASE Boot200
    <2>1. FailSegmented \/ \E m : BootOpen(m, "full", m.total)
        BY <1>4 DEF Boot200
    <2> QED
        BY <1>3, <1>4, <2>1, MeterFail DEF Boot200
<1>5. CASE Boot206
    <2>1. \/ FailSegmented \/ FallBackToSingle
          \/ \E m, kind : BootOpen(m, kind, m.total)
        BY <1>5 DEF Boot206
    <2> QED
        BY <1>3, <1>5, <2>1, MeterFail, MeterFallBack DEF Boot206
<1>6. CASE BootRead
    <2>1. /\ pc = "boot_body" /\ pc' = "boot_body" /\ written' = written + 1
          /\ meter' = meter + 1 /\ UNCHANGED << plan, boot >> /\ BootMore
        BY <1>6 DEF BootRead, sharedVars
    <2>2. meter = written /\ written \in Nat
        BY <2>1, BootBodyFacts DEF MeterOK
    <2>3. boot = "chunk0" => written < plan[1][2] + 1 /\ plan[1][2] \in Nat
        <3>1. boot = "chunk0" => plan[1][2] \in Nat
            BY <2>1, BootBodyFacts
        <3> QED
            BY <2>1, <3>1 DEF BootMore, BootWant, Unknown
    <2> QED
        BY <2>1, <2>2, <2>3 DEF MeterOK
<1>7. CASE BootFull
    <2>1. pc = "boot_body" /\ pc' = "verify" /\ UNCHANGED << written, total, meter >>
        BY <1>7 DEF BootFull, localVars, streamVars, segVars
    <2> QED
        BY <2>1, BootBodyFacts DEF MeterOK
<1>8. CASE BootBreak
    <2>1. meter = written /\ written \in Nat
        BY <1>8, BootBodyFacts DEF BootBreak, MeterOK
    <2> QED
        BY <1>8, <2>1, MeterRetry DEF BootBreak
<1>9. CASE BootChunk0Short
    <2> DEFINE x == Fetcher("send", 1, written, plan[1][2], MaxRetries)
    <2>1. /\ pc = "boot_body" /\ pc' = "boot_fetch" /\ boot = "chunk0"
          /\ written < plan[1][2] + 1 /\ fetch' = [fetch EXCEPT ![0] = x]
          /\ UNCHANGED << plan, meter >>
        BY <1>9 DEF BootChunk0Short, BootWant, sharedVars
    <2>2. x.from = written /\ x.got = 0 /\ x.wrote = 0
        BY DEF Fetcher
    <2>3. fetch'[0] = x
        BY <2>1, ThreadFacts DEF SegInv, PhaseOK
    <2>4. written \in Nat /\ meter = written /\ plan[1][2] \in Nat
        BY <2>1, BootBodyFacts DEF MeterOK
    <2> HIDE DEF x
    <2>5. Upto(fetch'[0]) = written
        BY <2>2, <2>3, <2>4 DEF Upto
    <2> QED
        BY <2>1, <2>4, <2>5 DEF MeterOK, Upto
<1>10. CASE BootChunk0Done
    <2>1. /\ pc = "boot_body" /\ boot = "chunk0" /\ written >= plan[1][2] + 1
          /\ pc' = "boot_save" /\ bits' = {1} /\ UNCHANGED << plan, meter >>
        BY <1>10 DEF BootChunk0Done, BootWant
    <2>2. /\ meter = written /\ written <= plan[1][2] + 1
          /\ written \in Nat /\ plan[1][2] \in Nat
        BY <2>1, BootBodyFacts DEF MeterOK
    <2> QED
        BY <2>1, <2>2 DEF MeterOK
<1>11. ~BootChunk0Lost /\ ~BootSave
    BY DEF BootChunk0Lost, BootSave
<1> QED
    BY <1>1, <1>2, <1>4, <1>5, <1>6, <1>7, <1>8, <1>9, <1>10, <1>11 DEF BootSteps

LEMMA MeterChunk0 ==
    ASSUME SegInv, MeterOK, BootSteps, pc \notin {"boot", "boot_body"}
    PROVE  MeterOK'
<1>1. CASE BootChunk0Done
    <2> DEFINE x == fetch[0]
    <2>1. /\ pc = "boot_fetch" /\ x.st = "ok" /\ x.st \in Active
          /\ pc' = "boot_save" /\ bits' = {1} /\ UNCHANGED << plan, meter >>
        BY <1>1 DEF BootChunk0Done, Active
    <2>2. x.chunk = 1 /\ x.upto = plan[x.chunk][2] /\ x.from + x.got + x.wrote = x.upto + 1
        BY <2>1, ThreadFacts DEF SegInv, FetchersOK, FetchOK
    <2>3. meter = x.from + x.got + x.wrote
        BY <2>1 DEF MeterOK, Upto
    <2>4. meter' = plan'[1][2] + 1
        BY <2>1, <2>2, <2>3
    <2> QED
        BY <2>1, <2>4 DEF MeterOK
<1>2. CASE BootChunk0Lost
    BY <1>2, MeterFail, MeterFallBack DEF BootChunk0Lost
<1>3. CASE BootSave
    <2>1. /\ pc = "boot_save" /\ pc' = "chunks" /\ fetch' = StartWorkers(plan)
          /\ UNCHANGED << plan, bits, meter >>
        BY <1>3 DEF BootSave, sharedVars
    <2>2. GoodPlan(plan, total) /\ Len(plan) \in Nat \ {0}
        BY <2>1 DEF SegInv, ChunkOK, GoodPlan
    <2>3. plan[1][1] = 0 /\ plan[1][2] \in Nat
        BY <2>2 DEF GoodPlan, Tiles
    <2>4. DoneOf(plan, {1}) = 0 .. plan[1][2]
        BY <2>3 DEF DoneOf, ChunkAt
    <2>5. Cardinality(0 .. plan[1][2]) = plan[1][2] + 1
        BY <2>3, FS_Interval
    <2>6. bits = {1} /\ meter = plan[1][2] + 1
        BY <2>1 DEF MeterOK
    <2> QED
        BY <2>1, <2>2, <2>4, <2>5, <2>6, MeterStart
<1>4. /\ ~BootNoBody /\ ~Boot416 /\ ~Boot200 /\ ~Boot206 /\ ~BootRead /\ ~BootFull
      /\ ~BootBreak /\ ~BootChunk0Short
    BY DEF BootNoBody, Boot416, Boot200, Boot206, BootRead, BootFull, BootBreak, BootChunk0Short
<1> QED
    BY <1>1, <1>2, <1>3, <1>4 DEF BootSteps

-----------------------------------------------------------------------------
(* The workers. *)

\* Where a worker's bytes are, and that all that is metered is in the resource.
LEMMA HandFacts ==
    ASSUME SegInv, MeterOK, pc = "chunks"
    PROVE  /\ HoldersOK /\ meter = Cardinality(Metered)
           /\ GoodPlan(plan, total) /\ total \in Nat /\ bits \subseteq 1 .. Len(plan)
           /\ \A w \in Workers :
                 /\ fetch[w] \in FetchRec /\ fetch[w].from \in Nat
                 /\ fetch[w].got \in Nat /\ fetch[w].wrote \in Nat
                 /\ Upto(fetch[w]) \in Nat
                 /\ Holding(fetch[w]) => Mine(fetch[w]) \subseteq ChunkAt(plan, fetch[w].chunk)
                 /\ Blank(fetch[w]) => Mine(fetch[w]) = {}
           /\ Metered \subseteq 0 .. total - 1 /\ IsFiniteSet(Metered)
           /\ meter \in Nat /\ meter <= total
<1>1. HoldersOK /\ meter = Cardinality(Metered)
    BY DEF MeterOK
<1>2. GoodPlan(plan, total) /\ total \in Nat /\ bits \subseteq 1 .. Len(plan)
    BY ChunkFacts DEF SegInv, ChunkOK
<1>3. ASSUME NEW w \in Workers
      PROVE  /\ fetch[w] \in FetchRec /\ fetch[w].from \in Nat
             /\ fetch[w].got \in Nat /\ fetch[w].wrote \in Nat
             /\ Upto(fetch[w]) \in Nat
             /\ Holding(fetch[w]) => Mine(fetch[w]) \subseteq ChunkAt(plan, fetch[w].chunk)
             /\ Blank(fetch[w]) => Mine(fetch[w]) = {}
    <2> DEFINE x == fetch[w]
    <2>1. x \in FetchRec
        BY ChunkFacts, ThreadFacts
    <2>2. x.from \in Nat /\ x.got \in Nat /\ x.wrote \in Nat /\ Upto(x) \in Nat
        BY <2>1 DEF FetchRec, Upto
    <2>3. HoldOK(x)
        BY <1>1 DEF HoldersOK
    <2> HIDE DEF x
    <2>4. ASSUME Holding(x) PROVE Mine(x) \subseteq ChunkAt(plan, x.chunk)
        <3>1. /\ x.chunk \in 1 .. Len(plan) /\ x.from = plan[x.chunk][1]
              /\ Upto(x) <= plan[x.chunk][2] + 1
            BY <2>3, <2>4 DEF HoldOK
        <3>2. plan[x.chunk][2] \in Nat
            BY <1>2, <3>1 DEF GoodPlan
        <3> QED
            BY <2>2, <3>1, <3>2 DEF Mine, ChunkAt
    <2>5. Blank(x) => Mine(x) = {}
        BY <2>2 DEF Blank, Mine, Upto
    <2> QED
        BY <2>1, <2>2, <2>4, <2>5 DEF x
<1>4. Metered \subseteq 0 .. total - 1
    <2> SUFFICES ASSUME NEW k \in Metered PROVE k \in 0 .. total - 1
        OBVIOUS
    <2>1. CASE k \in DoneOf(plan, bits)
        BY <1>2, <2>1, DoneOfFacts
    <2>2. ASSUME NEW w \in Workers, k \in Mine(fetch[w]) PROVE k \in 0 .. total - 1
        <3>1. Holding(fetch[w])
            BY <1>3, <2>2 DEF Holding
        <3>2. fetch[w].chunk \in 1 .. Len(plan) /\ k \in ChunkAt(plan, fetch[w].chunk)
            BY <1>1, <1>3, <2>2, <3>1 DEF HoldersOK, HoldOK
        <3>3. k \in DoneOf(plan, 1 .. Len(plan))
            BY <3>2 DEF DoneOf
        <3> QED
            BY <1>2, <3>3, DoneOfFacts
    <2> QED
        BY <2>1, <2>2 DEF Metered
<1>5. IsFiniteSet(0 .. total - 1) /\ Cardinality(0 .. total - 1) = total
    BY <1>2, WholeSize
<1>6. IsFiniteSet(Metered) /\ Cardinality(Metered) <= total
    BY <1>4, <1>5, FS_Subset
<1>7. Cardinality(Metered) \in Nat
    BY <1>6, FS_CardinalityType
<1> QED
    BY <1>1, <1>2, <1>3, <1>4, <1>6, <1>7

\* A fetcher that is at work stays on its chunk; a byte it writes is counted, and
\* was not counted before.
LEMMA MeterFetcher ==
    ASSUME SegInv, MeterOK, NEW f \in Fetchers, fetch[f].st \in Active,
           NEW y \in FetchRec, fetch' = [fetch EXCEPT ![f] = y],
           UNCHANGED << pc, plan, bits, claim, failed, fallback, nseg, total, written >>,
           y.chunk = fetch[f].chunk, y.from = fetch[f].from,
           y.st \in Active \cup {"fallback", "fatal", "panic"},
           NEW d \in {0, 1}, Upto(y) = Upto(fetch[f]) + d, meter' = meter + d,
           d = 1 => Upto(fetch[f]) <= fetch[f].upto
    PROVE  MeterOK'
<1> DEFINE x == fetch[f]
<1>1. /\ x.chunk \in 1 .. Len(plan) /\ x.upto = plan[x.chunk][2] /\ x.upto \in Nat
      /\ Upto(x) \in Nat /\ Upto(x) <= x.upto + 1 /\ pc \in {"boot_fetch", "chunks"}
    <2>1. /\ x.chunk \in 1 .. Len(plan) /\ x.upto = plan[x.chunk][2] /\ x.upto \in Nat
          /\ x.from \in Nat /\ x.got \in Nat /\ x.wrote \in Nat
          /\ x.from + x.got + x.wrote <= x.upto + 1 /\ pc \in {"boot_fetch", "chunks"}
        BY ActiveFacts
    <2> QED
        BY <2>1 DEF Upto
<1>2. /\ fetch \in [Fetchers -> FetchRec] /\ fetch'[f] = y
      /\ \A g \in Fetchers : g # f => fetch'[g] = fetch[g]
    BY DEF SegInv, PhaseOK
<1>3. Upto(y) <= plan[x.chunk][2] + 1
    BY <1>1
<1>4. CASE pc = "boot_fetch"
    <2>1. f = 0 /\ x.chunk = 1
        BY <1>4, ThreadFacts DEF SegInv, PhaseOK, FetchersOK, Active, Fetchers
    <2>2. meter = Upto(x)
        BY <1>4, <2>1 DEF MeterOK
    <2>3. meter' = Upto(fetch'[0]) /\ meter' <= plan'[1][2] + 1
        BY <1>2, <1>3, <2>1, <2>2
    <2> QED
        BY <1>4, <2>3 DEF MeterOK, Upto
<1>5. CASE pc = "chunks"
    <2>1. f \in Workers
        BY <1>5, ThreadFacts DEF SegInv, PhaseOK, Active, Fetchers
    <2>2. \A w \in Workers : w # f => fetch'[w] = fetch[w]
        BY <1>2, ThreadFacts
    <2>4. Holding(x)
        BY DEF Holding
    <2>5. HoldOK(y)'
        <3>1. HoldOK(x)
            BY <1>5, <2>1, HandFacts DEF HoldersOK
        <3>2. /\ x.chunk \in 1 .. Len(plan) /\ x.chunk \notin bits /\ x.chunk < claim
              /\ x.from = plan[x.chunk][1]
            BY <2>4, <3>1 DEF HoldOK
        <3> QED
            BY <1>3, <3>2 DEF HoldOK, Holding, Blank, Active, Upto
    <2>6. \A w \in Workers : HoldOK(fetch[w])'
        <3>1. ASSUME NEW w \in Workers, w # f PROVE HoldOK(fetch[w])'
            <4>1. HoldOK(fetch[w]) /\ fetch'[w] = fetch[w]
                BY <1>5, <2>2, <3>1, HandFacts DEF HoldersOK
            <4> QED
                BY <4>1 DEF HoldOK, Holding, Blank, Upto
        <3>2. HoldOK(fetch[f])'
            BY <1>2, <2>5 DEF HoldOK, Holding, Blank, Upto
        <3> QED
            BY <3>1, <3>2
    <2>7. ASSUME NEW v \in Workers, NEW w \in Workers, Holding(fetch'[v]), Holding(fetch'[w]),
                 fetch'[v].chunk = fetch'[w].chunk
          PROVE  v = w
        <3>1. Holding(fetch[v]) /\ Holding(fetch[w]) /\ fetch[v].chunk = fetch[w].chunk
            BY <1>2, <2>2, <2>4, <2>7
        <3> QED
            BY <1>5, <3>1, HandFacts DEF HoldersOK
    <2>8. HoldersOK'
        BY <2>6, <2>7 DEF HoldersOK, Holding, Blank
    <2>9. Metered' = DoneOf(plan, bits) \cup UNION {Mine(fetch'[w]) : w \in Workers}
        BY DEF Metered, DoneOf, ChunkAt, Mine, Upto
    <2>10. x.from \in Nat
        BY <1>5, <2>1, HandFacts
    <2>11. CASE d = 0
        <3>1. Mine(y) = Mine(x)
            BY <1>1, <2>11 DEF Mine
        <3>2. \A w \in Workers : Mine(fetch'[w]) = Mine(fetch[w])
            BY <1>2, <2>2, <3>1
        <3>3. Metered' = Metered
            BY <2>9, <3>2 DEF Metered
        <3> QED
            BY <1>5, <2>8, <2>11, <3>3, HandFacts DEF MeterOK
    <2>12. CASE d = 1
        <3> DEFINE k == Upto(x)
        <3>1. k \in ChunkAt(plan, x.chunk) /\ k \in Nat
            <4>1. x.from = plan[x.chunk][1]
                BY <1>5, <2>1, <2>4, HandFacts DEF HoldersOK, HoldOK
            <4>2. x.from <= Upto(x)
                <5>1. x.got \in Nat /\ x.wrote \in Nat
                    BY <1>5, <2>1, HandFacts
                <5> QED
                    BY <2>10, <5>1 DEF Upto
            <4> QED
                BY <1>1, <2>10, <2>12, <4>1, <4>2 DEF ChunkAt
        <3>2. Mine(y) = Mine(x) \cup {k}
            <4>1. x.from <= Upto(x)
                <5>1. x.got \in Nat /\ x.wrote \in Nat
                    BY <1>5, <2>1, HandFacts
                <5> QED
                    BY <2>10, <5>1 DEF Upto
            <4> QED
                BY <1>1, <2>10, <2>12, <4>1 DEF Mine
        <3>3. Metered' = Metered \cup {k}
            <4>1. \A i : (\E w \in Workers : i \in Mine(fetch'[w]))
                            <=> i = k \/ \E w \in Workers : i \in Mine(fetch[w])
                BY <1>2, <2>1, <2>2, <3>2
            <4> HIDE DEF k
            <4> QED
                BY <2>9, <4>1 DEF Metered
        <3>4. k \notin Metered
            <4>1. k \notin DoneOf(plan, bits)
                <5> SUFFICES ASSUME NEW c \in bits, k \in ChunkAt(plan, c) PROVE FALSE
                    BY DEF DoneOf
                <5>1. c = x.chunk
                    BY <1>1, <1>5, <3>1, HandFacts, ChunksApart
                <5>2. x.chunk \notin bits
                    BY <1>5, <2>1, <2>4, HandFacts DEF HoldersOK, HoldOK
                <5> QED
                    BY <5>1, <5>2
            <4>2. ASSUME NEW w \in Workers, k \in Mine(fetch[w]) PROVE FALSE
                <5>1. CASE w = f
                    BY <1>1, <4>2, <5>1 DEF Mine
                <5>2. CASE w # f
                    <6>1. Holding(fetch[w])
                        BY <1>5, <4>2, HandFacts DEF Holding
                    <6>2. /\ fetch[w].chunk \in 1 .. Len(plan)
                          /\ k \in ChunkAt(plan, fetch[w].chunk)
                        BY <1>5, <4>2, <6>1, HandFacts DEF HoldersOK, HoldOK
                    <6>3. fetch[w].chunk = x.chunk
                        <7>1. GoodPlan(plan, total) /\ total \in Nat /\ k \in Int
                            BY <1>5, <3>1, HandFacts
                        <7> HIDE DEF k, x
                        <7> QED
                            BY <1>1, <3>1, <6>2, <7>1, ChunksApart
                    <6> QED
                        BY <1>5, <2>1, <2>4, <5>2, <6>1, <6>3, HandFacts DEF HoldersOK
                <5> QED
                    BY <5>1, <5>2
            <4> QED
                BY <4>1, <4>2 DEF Metered
        <3>5. Cardinality(Metered') = Cardinality(Metered) + 1
            <4> HIDE DEF k
            <4> QED
                BY <1>5, <3>3, <3>4, HandFacts, FS_AddElement
        <3> QED
            BY <1>5, <2>8, <2>12, <3>5, HandFacts DEF MeterOK
    <2> QED
        BY <2>11, <2>12
<1> QED
    BY <1>1, <1>4, <1>5

LEMMA MeterInt ==
    ASSUME SegInv, MeterOK, NEW f \in Fetchers, fetch[f].st \in Active PROVE meter \in Int
<1> DEFINE x == fetch[f]
<1>1. /\ pc \in {"boot_fetch", "chunks"}
      /\ x.from \in Nat /\ x.got \in Nat /\ x.wrote \in Nat
    BY ActiveFacts
<1>2. CASE pc = "boot_fetch"
    <2>1. f = 0
        BY <1>2, ThreadFacts DEF SegInv, PhaseOK, Active, Fetchers
    <2> QED
        BY <1>1, <1>2, <2>1 DEF MeterOK, Upto
<1>3. CASE pc = "chunks"
    BY <1>3, HandFacts
<1> QED
    BY <1>1, <1>2, <1>3

LEMMA MeterAdvance ==
    ASSUME SegInv, MeterOK, NEW f \in Fetchers, fetch[f].st \in Active, NEW slow \in BOOLEAN,
           fetch' = [fetch EXCEPT ![f] = AfterAdvance(f, slow)],
           UNCHANGED << part, meter, unchangedByFetch >>
    PROVE  MeterOK'
<1> DEFINE x == fetch[f]
           y == AfterAdvance(f, slow)
<1>1. x \in FetchRec /\ x.from \in Nat /\ x.got \in Nat /\ x.wrote \in Nat
    BY ActiveFacts
<1>2. /\ y \in FetchRec /\ y.st \in {"ok", "fatal", "send"}
      /\ y.chunk = x.chunk /\ y.from = x.from
      /\ y.got = x.got + x.wrote /\ y.wrote = 0
    BY <1>1, AfterAdvanceFacts
<1> HIDE DEF y
<1>3. Upto(y) = Upto(x) + 0
    BY <1>1, <1>2 DEF Upto
<1>4. y.st \in Active \cup {"fallback", "fatal", "panic"}
    BY <1>2 DEF Active
<1>5. /\ UNCHANGED << pc, plan, bits, claim, failed, fallback, nseg, total, written >>
      /\ fetch' = [fetch EXCEPT ![f] = y]
    BY DEF unchangedByFetch, sharedVars, localVars, streamVars, y
<1>6. meter' = meter + 0
    <2>1. meter \in Int
        BY MeterInt
    <2> QED
        BY <2>1
<1> DEFINE d == 0
<1>7. d \in {0, 1} /\ d # 1 /\ Upto(y) = Upto(x) + d /\ meter' = meter + d
    BY <1>3, <1>6
<1> HIDE DEF d
<1> QED
    BY <1>2, <1>4, <1>5, <1>7, MeterFetcher

LEMMA MeterGiveUp ==
    ASSUME SegInv, MeterOK, NEW f \in Fetchers, fetch[f].st \in Active,
           NEW st \in Active \cup {"fallback", "fatal", "panic"}, NEW m \in ReplyRec,
           fetch' = [fetch EXCEPT ![f] = [fetch[f] EXCEPT !.st = st, !.reply = m]],
           UNCHANGED << part, meter, unchangedByFetch >>
    PROVE  MeterOK'
<1> DEFINE x == fetch[f]
           y == [x EXCEPT !.st = st, !.reply = m]
<1>1. x \in FetchRec /\ x.from \in Nat /\ x.got \in Nat /\ x.wrote \in Nat
    BY ActiveFacts
<1>2. st \in FetchStates
    BY DEF Active, FetchStates
<1>3. fetch' = [fetch EXCEPT ![f] = y]
    OBVIOUS
<1> HIDE DEF x
<1>4. /\ y \in FetchRec /\ y.st = st /\ y.chunk = x.chunk /\ y.from = x.from
      /\ y.got = x.got /\ y.wrote = x.wrote
    BY <1>1, <1>2 DEF FetchRec
<1> HIDE DEF y
<1>5. Upto(y) = Upto(x) + 0
    BY <1>1, <1>4 DEF Upto
<1>6. UNCHANGED << pc, plan, bits, claim, failed, fallback, nseg, total, written >>
    BY DEF unchangedByFetch, sharedVars, localVars, streamVars
<1>7. meter' = meter + 0
    <2>1. meter \in Int
        BY MeterInt
    <2> QED
        BY <2>1
<1> DEFINE d == 0
<1>8. d \in {0, 1} /\ d # 1 /\ Upto(y) = Upto(x) + d /\ meter' = meter + d
    BY <1>5, <1>7
<1>9. y.st \in Active \cup {"fallback", "fatal", "panic"}
    BY <1>4
<1> HIDE DEF d
<1> QED
    BY <1>3, <1>4, <1>6, <1>8, <1>9, MeterFetcher DEF x

LEMMA MeterGoto ==
    ASSUME SegInv, MeterOK, NEW f \in Fetchers, fetch[f].st \in Active,
           NEW st \in {"fallback", "fatal", "panic"}, Goto(f, st),
           UNCHANGED << part, meter, unchangedByFetch >>
    PROVE  MeterOK'
<1> DEFINE m == fetch[f].reply
<1>1. fetch[f] \in FetchRec
    BY ActiveFacts
<1>2. m \in ReplyRec /\ [fetch[f] EXCEPT !.st = st, !.reply = m] = [fetch[f] EXCEPT !.st = st]
    BY <1>1 DEF FetchRec
<1>3. fetch' = [fetch EXCEPT ![f] = [fetch[f] EXCEPT !.st = st]]
    BY DEF Goto
<1> HIDE DEF m
<1>4. fetch' = [fetch EXCEPT ![f] = [fetch[f] EXCEPT !.st = st, !.reply = m]]
    BY <1>2, <1>3
<1> QED
    BY <1>2, <1>4, MeterGiveUp

LEMMA MeterFetch == ASSUME SegInv, MeterOK, NEW f \in Fetchers, Fetch(f) PROVE MeterOK'
<1> DEFINE x == fetch[f]
<1>1. CASE FetchSend(f)
    <2>1. x.st \in Active /\ UNCHANGED << part, meter, unchangedByFetch >>
        BY <1>1 DEF FetchSend, Active
    <2>2. PICK m \in RangedReplies(url, At(f), x.upto, tag) :
              \/ fetch' = [fetch EXCEPT ![f] = AfterAdvance(f, FALSE)]
              \/ Goto(f, "fatal")
              \/ Goto(f, "fallback")
              \/ m.st = "206" /\ fetch' = [fetch EXCEPT ![f].st = "pump", ![f].reply = m]
        BY <1>1 DEF FetchSend
    <2>3. CASE m.st = "206" /\ fetch' = [fetch EXCEPT ![f].st = "pump", ![f].reply = m]
        <3>1. x.from \in Nat /\ x.got \in Nat /\ x.wrote \in Nat /\ x.upto \in Nat
              /\ pc \in {"boot_fetch", "chunks"}
            BY <2>1, ActiveFacts
        <3>2. At(f) \in Nat /\ CurOK /\ url \in Urls /\ tag \in Seen
            BY <3>1, ChunkFacts DEF At
        <3>3. m \in ReplyRec
            BY <2>3, <3>1, <3>2, ChunkReplyFacts
        <3>4. fetch' = [fetch EXCEPT ![f] = [fetch[f] EXCEPT !.st = "pump", !.reply = m]]
            BY <2>3, Zenon
        <3>5. "pump" \in Active \cup {"fallback", "fatal", "panic"}
            BY DEF Active
        <3> QED
            BY <2>1, <3>3, <3>4, <3>5, MeterGiveUp
    <2> QED
        BY <2>1, <2>2, <2>3, MeterAdvance, MeterGoto
<1>2. CASE FetchRead(f)
    <2> DEFINE n == x.wrote + 1
               y == [x EXCEPT !.wrote = n]
    <2>1. /\ x.st = "pump" /\ x.st \in Active /\ meter' = meter + 1
          /\ UNCHANGED << pc, plan, bits, claim, failed, fallback, nseg, total, written >>
          /\ fetch' = [fetch EXCEPT ![f] = y]
          /\ x.got + x.wrote < x.upto - x.from + 1
        BY <1>2 DEF FetchRead, Active, PumpMore, Want, unchangedByFetch, sharedVars, localVars,
                    streamVars
    <2>2. /\ x \in FetchRec /\ x.from \in Nat /\ x.got \in Nat /\ x.wrote \in Nat
          /\ x.upto \in Nat /\ n \in Nat
        <3>1. /\ x \in FetchRec /\ x.from \in Nat /\ x.got \in Nat /\ x.wrote \in Nat
              /\ x.upto \in Nat
            BY <2>1, ActiveFacts
        <3> QED
            BY <3>1
    <2>3. Upto(x) <= x.upto
        BY <2>1, <2>2 DEF Upto
    <2> HIDE DEF x
    <2>4. /\ y \in FetchRec /\ y.st = "pump" /\ y.chunk = x.chunk /\ y.from = x.from
          /\ y.got = x.got /\ y.wrote = n
        <3> HIDE DEF n
        <3> QED
            BY <2>1, <2>2 DEF FetchRec
    <2> HIDE DEF y
    <2>5. Upto(y) = Upto(x) + 1
        BY <2>2, <2>4 DEF Upto
    <2>6. y.st \in Active \cup {"fallback", "fatal", "panic"}
        BY <2>4 DEF Active
    <2> DEFINE d == 1
    <2>7. d \in {0, 1} /\ Upto(y) = Upto(x) + d /\ meter' = meter + d
        BY <2>1, <2>5
    <2> HIDE DEF d
    <2> QED
        BY <2>1, <2>3, <2>4, <2>6, <2>7, MeterFetcher DEF x
<1>3. CASE FetchEnd(f)
    <2>1. x.st \in Active /\ UNCHANGED << part, meter, unchangedByFetch >>
        BY <1>3 DEF FetchEnd, Active
    <2>2. PICK slow \in BOOLEAN : fetch' = [fetch EXCEPT ![f] = AfterAdvance(f, slow)]
        BY <1>3 DEF FetchEnd
    <2> QED
        BY <2>1, <2>2, MeterAdvance
<1>4. CASE FetchStoreFails(f)
    BY <1>4, MeterGoto DEF FetchStoreFails, Active
<1> QED
    BY <1>1, <1>2, <1>3, <1>4 DEF Fetch

-----------------------------------------------------------------------------
(* run_chunks: between two chunks a worker has nothing, or the run is in trouble. *)

\* A step of a worker that leaves every other thread's record alone.
LEMMA MeterWorker ==
    ASSUME SegInv, MeterOK, pc = "chunks", NEW w \in Workers,
           NEW y, fetch' = [fetch EXCEPT ![w] = y],
           UNCHANGED << pc, plan, meter >>, claim \in Nat, claim' \in Nat, claim <= claim',
           failed => failed', fallback => fallback',
           \A v \in Workers : v # w /\ Holding(fetch[v]) => fetch[v].chunk \notin bits',
           HoldOK(y)',
           Holding(y) => \A v \in Workers :
                            v # w /\ Holding(fetch[v]) => fetch[v].chunk # y.chunk,
           DoneOf(plan, bits') \cup Mine(y) = DoneOf(plan, bits) \cup Mine(fetch[w])
    PROVE  MeterOK'
<1>1. fetch'[w] = y /\ \A v \in Workers : v # w => fetch'[v] = fetch[v]
    BY ThreadFacts DEF SegInv, PhaseOK
<1>2. ASSUME NEW v \in Workers PROVE HoldOK(fetch[v])'
    <2>1. CASE v = w
        BY <1>1, <2>1 DEF HoldOK, Holding, Blank, Upto
    <2>2. CASE v # w
        <3>1. HoldOK(fetch[v]) /\ fetch'[v] = fetch[v] /\ fetch[v].chunk \in Nat
            BY <1>1, <2>2, HandFacts DEF HoldersOK, FetchRec
        <3> QED
            BY <2>2, <3>1 DEF HoldOK, Holding, Blank, Upto
    <2> QED
        BY <2>1, <2>2
<1>3. ASSUME NEW u \in Workers, NEW v \in Workers, Holding(fetch'[u]), Holding(fetch'[v]),
             fetch'[u].chunk = fetch'[v].chunk
      PROVE  u = v
    <2>1. CASE u # w /\ v # w
        BY <1>1, <1>3, <2>1, HandFacts DEF HoldersOK
    <2>2. CASE u = w \/ v = w
        BY <1>1, <1>3, <2>2
    <2> QED
        BY <2>1, <2>2
<1>4. HoldersOK'
    BY <1>2, <1>3 DEF HoldersOK, Holding, Blank
<1>5. Metered' = Metered
    <2>1. Metered' = DoneOf(plan, bits') \cup UNION {Mine(fetch'[v]) : v \in Workers}
        BY DEF Metered, DoneOf, ChunkAt, Mine, Upto
    <2>2. ASSUME NEW k PROVE k \in Metered' <=> k \in Metered
        <3>1. k \in Metered' <=> \/ k \in DoneOf(plan, bits') \cup Mine(y)
                                \/ \E v \in Workers : v # w /\ k \in Mine(fetch[v])
            BY <1>1, <2>1
        <3>2. k \in Metered <=> \/ k \in DoneOf(plan, bits) \cup Mine(fetch[w])
                               \/ \E v \in Workers : v # w /\ k \in Mine(fetch[v])
            BY DEF Metered
        <3> QED
            BY <3>1, <3>2
    <2> QED
        BY <2>2
<1>6. meter' = Cardinality(Metered')
    BY <1>5, HandFacts
<1> QED
    BY <1>4, <1>6 DEF MeterOK

LEMMA MeterWorkerTop == ASSUME SegInv, MeterOK, NEW w \in Workers, WorkerTop(w) PROVE MeterOK'
<1> DEFINE x == fetch[w]
           st == IF failed \/ fallback THEN "exit" ELSE "claim"
<1>0. PICK y : y = [x EXCEPT !.st = st]
    OBVIOUS
<1>1. /\ x.st = "top" /\ fetch' = [fetch EXCEPT ![w] = y]
      /\ UNCHANGED << pc, plan, bits, claim, failed, fallback, meter >>
    BY <1>0 DEF WorkerTop, Goto, unchangedByFetch, sharedVars
<1>2. pc = "chunks" /\ OwnOK
    BY <1>1, WorkerFacts
<1>3. x \in FetchRec /\ HoldOK(x) /\ claim \in Nat
    BY <1>2, HandFacts DEF HoldersOK, OwnOK
<1>4. st \in {"exit", "claim"} /\ (st = "claim" => ~failed /\ ~fallback)
                              /\ (st = "exit" => failed \/ fallback)
    OBVIOUS
<1> HIDE DEF st, x
<1>5. /\ y.st = st /\ y.chunk = x.chunk /\ y.from = x.from /\ y.got = x.got
      /\ y.wrote = x.wrote
    BY <1>0, <1>3 DEF FetchRec
<1>6. /\ Blank(y) <=> Blank(x)
      /\ Holding(y) <=> Holding(x)
      /\ Upto(y) = Upto(x) /\ Mine(y) = Mine(x)
    BY <1>1, <1>4, <1>5 DEF Blank, Holding, Active, Upto, Mine
<1>7. /\ Holding(x) => /\ y.chunk \in 1 .. Len(plan) /\ y.chunk \notin bits
                        /\ y.chunk < claim /\ y.from = plan[y.chunk][1]
                        /\ Upto(y) <= plan[y.chunk][2] + 1
      /\ st = "claim" => Blank(x)
    BY <1>1, <1>3, <1>4, <1>5, <1>6 DEF HoldOK
<1>8. HoldOK(y)'
    BY <1>1, <1>4, <1>5, <1>6, <1>7 DEF HoldOK, Holding, Blank, Upto
<1>9. \A v \in Workers : Holding(fetch[v]) =>
            fetch[v].chunk \notin bits /\ (Holding(x) /\ fetch[v].chunk = x.chunk => v = w)
    BY <1>2, HandFacts DEF HoldersOK, HoldOK, x
<1>10. claim <= claim'
    BY <1>1, <1>3
<1>11. /\ claim' \in Nat /\ (failed => failed') /\ (fallback => fallback')
       /\ DoneOf(plan, bits') \cup Mine(y) = DoneOf(plan, bits) \cup Mine(x)
    BY <1>1, <1>3, <1>6
<1>12. /\ \A v \in Workers : v # w /\ Holding(fetch[v]) => fetch[v].chunk \notin bits'
       /\ Holding(y) => \A v \in Workers :
                            v # w /\ Holding(fetch[v]) => fetch[v].chunk # y.chunk
    BY <1>1, <1>5, <1>6, <1>9
<1> QED
    BY <1>1, <1>2, <1>3, <1>8, <1>10, <1>11, <1>12, MeterWorker DEF x

LEMMA MeterWorkerStop == ASSUME SegInv, MeterOK, NEW w \in Workers, WorkerStop(w) PROVE MeterOK'
<1> DEFINE x == fetch[w]
<1>0. PICK y : y = [x EXCEPT !.st = "top"]
    OBVIOUS
<1>1. /\ x.st \in {"fallback", "fatal"} /\ fetch' = [fetch EXCEPT ![w] = y]
      /\ fallback' = (fallback \/ x.st = "fallback")
      /\ failed' = (failed \/ x.st = "fatal")
      /\ UNCHANGED << pc, plan, bits, claim, meter >>
    BY <1>0 DEF WorkerStop, Goto
<1>2. pc = "chunks" /\ OwnOK
    BY <1>1, WorkerFacts
<1>3. x \in FetchRec /\ HoldOK(x) /\ claim \in Nat
    BY <1>2, HandFacts DEF HoldersOK, OwnOK
<1>4. failed' \/ fallback'
    BY <1>1
<1>5. (failed => failed') /\ (fallback => fallback')
    BY <1>1
<1> HIDE DEF x
<1>6. /\ y.st = "top" /\ y.chunk = x.chunk /\ y.from = x.from /\ y.got = x.got
      /\ y.wrote = x.wrote
    BY <1>0, <1>3 DEF FetchRec
<1>7. /\ Blank(y) <=> Blank(x)
      /\ Holding(y) <=> Holding(x)
      /\ Upto(y) = Upto(x) /\ Mine(y) = Mine(x)
    BY <1>1, <1>6 DEF Blank, Holding, Active, Upto, Mine
<1>8. HoldOK(y)'
    <2>1. Holding(x) => /\ y.chunk \in 1 .. Len(plan) /\ y.chunk \notin bits
                        /\ y.chunk < claim /\ y.from = plan[y.chunk][1]
                        /\ Upto(y) <= plan[y.chunk][2] + 1
        BY <1>3, <1>6, <1>7 DEF HoldOK
    <2> QED
        BY <1>1, <1>4, <1>6, <1>7, <2>1 DEF HoldOK, Holding, Blank, Upto
<1>9. \A v \in Workers : Holding(fetch[v]) =>
            fetch[v].chunk \notin bits /\ (Holding(x) /\ fetch[v].chunk = x.chunk => v = w)
    BY <1>2, HandFacts DEF HoldersOK, HoldOK, x
<1>10. claim <= claim'
    BY <1>1, <1>3
<1> QED
    BY <1>1, <1>2, <1>3, <1>5, <1>6, <1>7, <1>8, <1>9, <1>10, MeterWorker DEF x

LEMMA MeterWorkerClaim == ASSUME SegInv, MeterOK, NEW w \in Workers, WorkerClaim(w) PROVE MeterOK'
<1> DEFINE x == fetch[w]
<1>0. PICK y : y = IF claim > Len(plan) THEN Fetcher("exit", 0, 0, 0, 0)
                   ELSE IF claim \in bits THEN Fetcher("top", 0, 0, 0, 0)
                   ELSE Fetcher("send", claim, plan[claim][1], plan[claim][2], MaxRetries)
    OBVIOUS
<1>1. /\ x.st = "claim" /\ fetch' = [fetch EXCEPT ![w] = y] /\ claim' = claim + 1
      /\ UNCHANGED << pc, plan, bits, failed, fallback, meter >>
    BY <1>0 DEF WorkerClaim
<1>2. pc = "chunks" /\ OwnOK
    BY <1>1, WorkerFacts
<1>3. /\ x \in FetchRec /\ HoldOK(x) /\ claim \in Nat \ {0} /\ Len(plan) \in Nat
      /\ GoodPlan(plan, total) /\ claim' \in Nat /\ claim <= claim'
    BY <1>1, <1>2, HandFacts DEF HoldersOK, OwnOK, GoodPlan
<1>4. Mine(x) = {}
    <2>1. Blank(x)
        BY <1>1, <1>3 DEF HoldOK
    <2> QED
        BY <1>2, <2>1, HandFacts
<1>5. \/ y.st \in {"exit", "top"} /\ y.from = 0
      \/ /\ y.st = "send" /\ claim \in 1 .. Len(plan) /\ claim \notin bits
         /\ y.chunk = claim /\ y.from = plan[claim][1]
    BY <1>0, <1>3 DEF Fetcher
<1>6. y.got = 0 /\ y.wrote = 0
    BY <1>0 DEF Fetcher
<1> HIDE DEF x
<1>7. y.from \in Nat /\ (y.st = "send" => plan[claim][2] \in Nat /\ y.from <= plan[claim][2])
    BY <1>3, <1>5 DEF GoodPlan
<1>8. Blank(y) /\ Upto(y) = y.from /\ Mine(y) = {} /\ (Holding(y) => y.st = "send")
    BY <1>5, <1>6, <1>7 DEF Blank, Upto, Mine, Holding, Active
<1>9. HoldOK(y)'
    <2>1. Holding(y) => /\ y.chunk \in 1 .. Len(plan) /\ y.chunk \notin bits
                        /\ y.chunk < claim' /\ y.from = plan[y.chunk][1]
                        /\ Upto(y) <= plan[y.chunk][2] + 1
        BY <1>1, <1>3, <1>5, <1>7, <1>8
    <2> QED
        BY <1>1, <1>8, <2>1 DEF HoldOK, Holding, Blank, Upto
<1>10. \A v \in Workers : Holding(fetch[v]) => fetch[v].chunk \notin bits /\ fetch[v].chunk < claim
    BY <1>2, HandFacts DEF HoldersOK, HoldOK
<1>11. Holding(y) => \A v \in Workers : Holding(fetch[v]) => fetch[v].chunk # y.chunk
    BY <1>3, <1>5, <1>8, <1>10
<1>12. DoneOf(plan, bits') \cup Mine(y) = DoneOf(plan, bits) \cup Mine(x)
    BY <1>1, <1>4, <1>8
<1>13. claim \in Nat /\ (failed => failed') /\ (fallback => fallback')
       /\ \A v \in Workers : Holding(fetch[v]) => fetch[v].chunk \notin bits'
    BY <1>1, <1>3, <1>10
<1> QED
    BY <1>1, <1>2, <1>3, <1>9, <1>11, <1>12, <1>13, MeterWorker DEF x

\* The bytes of the chunk pass from the worker's hands to the bitmap.
LEMMA MeterWorkerOk == ASSUME SegInv, MeterOK, NEW w \in Workers, WorkerOk(w) PROVE MeterOK'
<1> DEFINE x == fetch[w]
<1>0. PICK y : y = Fetcher("top", 0, 0, 0, 0)
    OBVIOUS
<1>1. /\ x.st = "ok" /\ x.st \in Active /\ fetch' = [fetch EXCEPT ![w] = y]
      /\ bits' = bits \cup {x.chunk}
      /\ UNCHANGED << pc, plan, claim, failed, fallback, meter >>
    BY <1>0 DEF WorkerOk, Active
<1>2. pc = "chunks" /\ OwnOK /\ w \in Fetchers
    BY <1>1, WorkerFacts
<1>3. x \in FetchRec /\ HoldOK(x) /\ Holding(x) /\ claim \in Nat /\ claim <= claim'
    BY <1>1, <1>2, HandFacts DEF HoldersOK, OwnOK, Holding
<1>4. Mine(x) = ChunkAt(plan, x.chunk)
    <2>1. x.from = plan[x.chunk][1] /\ x.chunk \in 1 .. Len(plan)
        BY <1>3 DEF HoldOK
    <2>2. Upto(x) = x.upto + 1 /\ x.upto = plan[x.chunk][2]
        BY <1>1, <1>2 DEF SegInv, FetchersOK, FetchOK, Upto
    <2>3. plan[x.chunk][2] \in Nat
        BY <1>2, <2>1, HandFacts DEF GoodPlan
    <2> HIDE DEF x
    <2>4. Upto(x) - 1 = plan[x.chunk][2]
        BY <2>2, <2>3
    <2> QED
        BY <2>1, <2>4 DEF Mine, ChunkAt
<1>5. y.st = "top" /\ y.from = 0 /\ y.got = 0 /\ y.wrote = 0
    BY <1>0 DEF Fetcher
<1> HIDE DEF x
<1>6. Blank(y) /\ ~Holding(y) /\ Mine(y) = {}
    BY <1>5 DEF Blank, Holding, Active, Mine, Upto
<1>7. HoldOK(y)'
    BY <1>5, <1>6 DEF HoldOK, Holding, Blank
<1>8. DoneOf(plan, bits') \cup Mine(y) = DoneOf(plan, bits) \cup Mine(x)
    BY <1>1, <1>4, <1>6 DEF DoneOf
<1>9. \A v \in Workers : v # w /\ Holding(fetch[v]) => fetch[v].chunk \notin bits'
    BY <1>1, <1>2, <1>3, HandFacts DEF HoldersOK, HoldOK, x
<1>10. claim' \in Nat /\ (failed => failed') /\ (fallback => fallback')
    BY <1>1, <1>3
<1> QED
    BY <1>1, <1>2, <1>3, <1>6, <1>7, <1>8, <1>9, <1>10, MeterWorker DEF x

LEMMA MeterJoin == ASSUME SegInv, MeterOK, JoinWorkers PROVE MeterOK'
<1>1. pc = "chunks" /\ AllJoined
    BY DEF JoinWorkers
<1>2. CASE FailSegmented \/ FallBackToSingle
    BY <1>2, MeterFail, MeterFallBack
<1>3. CASE /\ ~Panicked /\ ~failed /\ ~fallback /\ pc' = "verify" /\ written' = total
           /\ UNCHANGED << total, meter >>
    <2>1. bits = 1 .. Len(plan) /\ \A f \in Fetchers : fetch[f].st \in {"off", "exit"}
        BY <1>1, <1>3, AllDone
    <2>2. \A w \in Workers : Mine(fetch[w]) = {}
        <3>1. \A w \in Workers : HoldOK(fetch[w]) /\ fetch[w].st \in {"off", "exit"}
            BY <1>1, <2>1, HandFacts, ThreadFacts DEF HoldersOK
        <3>2. \A w \in Workers : Blank(fetch[w])
            BY <1>3, <3>1 DEF HoldOK
        <3> QED
            BY <1>1, <3>2, HandFacts
    <2>3. Metered = DoneOf(plan, bits)
        BY <2>2 DEF Metered
    <2>4. DoneOf(plan, bits) = 0 .. total - 1 /\ total \in Nat
        BY <1>1, <2>1, HandFacts, DoneOfFacts
    <2>5. meter = total
        BY <1>1, <2>3, <2>4, HandFacts, WholeSize
    <2> QED
        BY <1>3, <2>4, <2>5 DEF MeterOK
<1> QED
    BY <1>2, <1>3 DEF JoinWorkers, segVars

LEMMA MeterPanic == ASSUME SegInv, MeterOK, NEW w \in Workers, WorkerPanic(w) PROVE MeterOK'
BY ThreadFacts, MeterGoto DEF WorkerPanic, Active

-----------------------------------------------------------------------------
(* The steps both modes share. *)

LEMMA MeterSame ==
    ASSUME MeterOK, UNCHANGED << pc, nseg, plan, bits, claim, failed, fallback, boot, fetch, meter,
                                 written, total >>
    PROVE  MeterOK'
<1>1. Metered' = Metered
    BY DEF Metered, DoneOf, ChunkAt, Mine, Upto
<1>2. HoldersOK => HoldersOK'
    BY DEF HoldersOK, HoldOK, Holding, Blank, Upto
<1> QED
    BY <1>1, <1>2 DEF MeterOK, Upto

LEMMA MeterSingle ==
    ASSUME SegInv, MeterOK, SharedStep(SingleSteps) PROVE MeterOK'
<1>1. /\ SingleSteps /\ pc \in {"attempt", "body", "verify", "rename"}
      /\ pc' \in {"down", "attempt", "body", "verify", "rename"}
      /\ pc \in {"verify", "rename"} /\ pc' # "down" => pc' = "rename" /\ total' = total
    BY SingleShape DEF SharedStep
<1>2. CASE pc' = "down"
    <2>1. total' = Unknown
        BY <1>1, <1>2 DEF SingleSteps, AttemptNoBody, Attempt416, Attempt206, Attempt200, OpenBody,
           RestartOrFail, TransientOrFail, Transient, ReadBody, PeriodicSave, BreakBody, EndBody,
           Verify, Rename, Fail, Forget, NoStream
    <2> QED
        BY <1>2, <2>1, MeterIdle DEF SharedStep
<1>3. CASE pc' # "down" /\ pc \in {"attempt", "body"}
    <2>1. nseg = 0 /\ nseg' = nseg
        BY <1>3 DEF MeterOK, SharedStep, segVars
    <2> QED
        BY <1>1, <1>3, <2>1 DEF MeterOK
<1>4. CASE pc' # "down" /\ pc \in {"verify", "rename"}
    <2>1. Verify
        BY <1>1, <1>4 DEF SingleSteps, AttemptNoBody, Attempt416, Attempt206, Attempt200, ReadBody,
           PeriodicSave, BreakBody, EndBody, Rename, Forget
    <2>2. UNCHANGED << written, total, nseg, meter >>
        BY <1>4, <2>1 DEF Verify, Fail, Forget, SharedStep, segVars, localVars, streamVars
    <2> QED
        BY <1>1, <1>4, <2>2 DEF MeterOK
<1> QED
    BY <1>1, <1>2, <1>3, <1>4

LEMMA MeterShared ==
    ASSUME MeterOK,
           \/ \E u \in Urls, c \in CheckSums : SharedStep(StartSingle(u, c))
           \/ SharedStep(Crash) \/ SharedStep(CrashInSave) \/ CrashInRangedSave
           \/ SharedStep(OriginStep) \/ SharedStep(Finished)
           \/ UNCHANGED vars
    PROVE  MeterOK'
<1>1. ASSUME NEW u, NEW c, SharedStep(StartSingle(u, c)) PROVE MeterOK'
    <2>1. pc = "down" /\ pc' = "attempt" /\ UNCHANGED nseg
        BY <1>1 DEF SharedStep, StartSingle, segVars
    <2> QED
        BY <2>1 DEF MeterOK
<1>2. CASE SharedStep(Crash) \/ SharedStep(CrashInSave) \/ CrashInRangedSave
    BY <1>2, MeterIdle DEF SharedStep, Crash, CrashInSave, CrashInRangedSave, Forget, NoStream
<1>3. CASE SharedStep(OriginStep)
    <2>1. UNCHANGED << pc, written, total >>
        BY <1>3 DEF SharedStep, OriginStep, localVars, streamVars
    <2>2. CASE pc = "down"
        <3>1. total' = Unknown /\ ForgetSeg
            BY <1>3, <2>1, <2>2 DEF SharedStep, MeterOK
        <3> QED
            BY <2>1, <2>2, <3>1, MeterIdle
    <2>3. CASE pc # "down"
        BY <1>3, <2>1, <2>3, MeterSame DEF SharedStep, segVars, sharedVars
    <2> QED
        BY <2>2, <2>3
<1>4. CASE SharedStep(Finished)
    <2>1. pc = "down" /\ pc' = "down" /\ ForgetSeg /\ UNCHANGED total
        BY <1>4 DEF SharedStep, Finished, singleVars, localVars, streamVars
    <2> QED
        BY <2>1, MeterIdle DEF MeterOK
<1>5. CASE UNCHANGED vars
    BY <1>5, MeterSame DEF vars, singleVars, localVars, streamVars, segVars, sharedVars
<1> QED
    BY <1>1, <1>2, <1>3, <1>4, <1>5

LEMMA MeterNext ==
    ASSUME SegInv, SegInv', MeterOK, [Next]_vars PROVE MeterOK'
<1>1. ASSUME NEW u \in Urls, NEW c \in CheckSums, NEW n \in Segments, StartSegmented(u, c, n)
      PROVE  MeterOK'
    BY <1>1, MeterStartSegmented
<1>2. CASE MainSteps
    BY <1>2, MeterSingle, MeterBoot, MeterChunk0, MeterJoin DEF MainSteps
<1>3. ASSUME NEW f \in Fetchers, Fetch(f) PROVE MeterOK'
    BY <1>3, MeterFetch
<1>4. ASSUME NEW w \in Workers, Worker(w) \/ WorkerPanic(w) PROVE MeterOK'
    BY <1>4, MeterWorkerTop, MeterWorkerClaim, MeterWorkerOk, MeterWorkerStop, MeterPanic DEF Worker
<1> QED
    BY <1>1, <1>2, <1>3, <1>4, MeterShared DEF Next

\* The progress a caller sees counts every byte once: it never exceeds the size of
\* the file and is the whole file when the transfer is done, with any number of
\* threads, retries, resumes and breaks (ByteMeter, plan_done_bytes).
THEOREM ProgressCounts == Honest => (Spec => []ProgressExact)
<1> SUFFICES ASSUME Honest PROVE Spec => []ProgressExact
    OBVIOUS
<1>1. Init => SegInv /\ MeterOK
    BY SegInitInv, MeterInit
<1>2. (SegInv /\ MeterOK) /\ [Next]_vars => (SegInv /\ MeterOK)'
    BY SegNextInv, MeterNext
<1>3. SegInv /\ MeterOK => ProgressExact
    <2> SUFFICES ASSUME SegInv, MeterOK, nseg # 0 PROVE ProgressExact
        BY DEF ProgressExact
    <2>1. pc \in {"verify", "rename"} => meter = written
        BY DEF MeterOK
    <2>2. ASSUME total # Unknown PROVE meter <= total
        <3>1. CASE pc = "boot_body"
            BY <3>1, BootBodyFacts DEF MeterOK
        <3>2. CASE pc = "boot_fetch" \/ pc = "boot_save"
            <4>1. plan[1][2] \in Nat /\ plan[1][2] < total /\ total \in Nat
                BY <3>2, ChunkFacts
            <4>2. meter <= plan[1][2] + 1 /\ meter \in Int
                <5>1. CASE pc = "boot_fetch"
                    <6>1. fetch[0] \in FetchRec
                        BY <5>1, ChunkFacts, ThreadFacts
                    <6>2. Upto(fetch[0]) \in Int
                        BY <6>1 DEF FetchRec, Upto
                    <6> QED
                        BY <5>1, <6>2 DEF MeterOK
                <5>2. CASE pc = "boot_save"
                    BY <4>1, <5>2 DEF MeterOK
                <5> QED
                    BY <3>2, <5>1, <5>2
            <4> QED
                BY <4>1, <4>2
        <3>3. CASE pc = "chunks"
            BY <3>3, HandFacts
        <3>4. CASE pc \in {"verify", "rename"}
            BY <2>2, <3>4 DEF MeterOK
        <3>5. pc \notin {"down", "attempt", "body", "boot"}
            BY <2>2 DEF MeterOK
        <3> QED
            BY <3>1, <3>2, <3>3, <3>4, <3>5 DEF SegInv, PhaseOK, BootPhase
    <2> QED
        BY <2>1, <2>2 DEF ProgressExact
<1> QED
    BY <1>1, <1>2, <1>3, PTL DEF Spec
=============================================================================
