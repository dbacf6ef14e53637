----------------------------- MODULE SyncLease ------------------------------
(* What a synchronization lease promises: at any time at most one run holds  *)
(* it; it is taken only when nobody holds it and ends when its holder        *)
(* releases it or when it expires.                                           *)
CONSTANTS Runs, Nobody

VARIABLE holder

Init == holder = Nobody

Take(r) == holder = Nobody /\ holder' = r

End == holder' = Nobody  \* released, or expired

Next == End \/ \E r \in Runs : Take(r)

Spec == Init /\ [][Next]_holder
=============================================================================
