----------------------- MODULE MCAttendanceSyncLease ------------------------
(* Three overlapping runs for one user. *)
EXTENDS AttendanceSyncLease

CONSTANTS r1, r2, r3

ThreeRuns == {r1, r2, r3}
=============================================================================
