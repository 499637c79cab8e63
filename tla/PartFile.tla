------------------------------ MODULE PartFile ------------------------------
(***************************************************************************)
(* The `.rsurlpart` container of src/resume.rs: a data region, followed by *)
(* the resume metadata and a trailer at the very end of the file.          *)
(*                                                                         *)
(* A file is a record: whether it exists, its length, what each position   *)
(* holds, and the resume state read_state would return.  A position holds  *)
(* byte k of resource r, zeros (a hole) or metadata bytes (junk to a       *)
(* reader of the data).  Metadata and trailer take TrailerLen positions.   *)
(* The CRC makes a damaged trailer unreadable, so any write into it, and   *)
(* any change of the file's length, loses the resume state.                *)
(***************************************************************************)
EXTENDS Integers

CONSTANTS Capacity,     \* positions a file may have
          TrailerLen    \* positions taken by metadata and trailer

ASSUME PartFileAssumption ==
    Capacity \in Nat /\ TrailerLen \in Nat \ {0} /\ TrailerLen <= Capacity

Pos == 0 .. Capacity - 1

Byte(r, k) == [res |-> r, at |-> k]
Hole == Byte(0, 0)
Junk == Byte(0, 1)

\* Resume state: the kind, the size of the data region, what is done (a prefix
\* length for a stream, a set of chunks for a ranged download), the chunk
\* layout, and the validators: URL and entity tag (0 for none).
NoState == [kind |-> "none", real |-> 0, done |-> 0, bits |-> {}, plan |-> << >>,
            url |-> 0, tag |-> 0]

NoFile == [exists |-> FALSE, size |-> 0, cells |-> [p \in Pos |-> Hole],
           state |-> NoState]

\* write_at through the lazily created handle.
WriteAt(f, p, b) ==
    [exists |-> TRUE,
     size   |-> IF p < f.size THEN f.size ELSE p + 1,
     cells  |-> [f.cells EXCEPT ![p] = b],
     state  |-> IF p < f.state.real THEN f.state ELSE NoState]

\* File::set_len: truncate, or extend with zeros.
SetLen(f, n) ==
    [exists |-> TRUE,
     size   |-> n,
     cells  |-> [p \in Pos |-> IF p < n THEN f.cells[p] ELSE Hole],
     state  |-> IF n = f.size THEN f.state ELSE NoState]

\* write_state: metadata and trailer after the data region, then set_len.
WriteState(f, s) ==
    [exists |-> TRUE,
     size   |-> s.real + TrailerLen,
     cells  |-> [p \in Pos |-> IF p < s.real THEN f.cells[p]
                               ELSE IF p < s.real + TrailerLen THEN Junk
                               ELSE Hole],
     state  |-> s]

\* A write_state cut short by a crash: the metadata no longer matches its CRC.
TornState(f, s) ==
    [WriteState(f, s) EXCEPT !.state = NoState]

\* read_state.
ReadState(f) == IF f.exists THEN f.state ELSE NoState

=============================================================================
