------------------------ MODULE MCDatabaseSyncLease -------------------------
(* Three overlapping runs for one user. *)
EXTENDS DatabaseSyncLease, TLC

CONSTANTS r1, r2, r3

ThreeRuns == {r1, r2, r3}
RunSymmetry == Permutations(ThreeRuns)
=============================================================================
