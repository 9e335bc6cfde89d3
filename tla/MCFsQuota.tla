----------------------------- MODULE MCFsQuota -----------------------------
(* Small instances of FsQuota for TLC. *)
EXTENDS FsQuota, TLC

CONSTANTS f1, f2, c1, c2

CallSymmetry == Permutations(Calls)

\* Past this nothing is claimed of the count.
StillClaimed == blur <= OverCounted

=============================================================================
