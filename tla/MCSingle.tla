------------------------------ MODULE MCSingle ------------------------------
(* Two URLs into one output path.  URL 1 goes through three versions: the    *)
(* second has the size of the first, the third is shorter.  URL 2 grows past  *)
(* max_size.                                                                 *)
EXTENDS DownloadSingle

MCUrlOf  == << 1, 1, 1, 2, 2 >>
MCSizeOf == << 3, 3, 2, 3, 4 >>

(* Two URLs into one output path, the second resource exactly as long as the *)
(* first one's data with metadata and trailer.                               *)
OverlapUrlOf  == << 1, 2 >>
OverlapSizeOf == << 2, 4 >>

=============================================================================
