------------------------------- MODULE Publish -------------------------------
(***************************************************************************)
(* What a resumable download promises, and nothing about how: the output   *)
(* path holds nothing or one whole version of a resource, and changes in   *)
(* one step, to a version its URL names or has named.                      *)
(***************************************************************************)
EXTENDS Origin

VARIABLE output     \* the versions with the bytes at the output path

Nothing == {0}      \* there is no file

\* Versions of one URL with the same bytes: empty ones cannot be told apart.
SameBytes(r) ==
    {q \in Resources : /\ UrlOf[q] = UrlOf[r]
                       /\ q = r \/ (SizeOf[q] = 0 /\ SizeOf[r] = 0)}

PublishInit == OriginInit /\ output = Nothing

PublishVersion ==
    /\ \E r \in Resources : r <= cur[UrlOf[r]] /\ output' = SameBytes(r)
    /\ UNCHANGED cur

PublishNext ==
    \/ PublishVersion
    \/ (\E u \in Urls : OriginChange(u)) /\ UNCHANGED output

PublishSpec == PublishInit /\ [][PublishNext]_<< cur, output >>

=============================================================================
