----------------------- MODULE MCConsequentialActions -----------------------
(* Instances of ConsequentialActions for TLC.                              *)
EXTENDS ConsequentialActions, TLC

CONSTANTS t1, t2, t3, a1, a2, p1, p2, assignment, v1, v2

MCThreads == {t1, t2}
OneThread == {t1}
ThreeThreads == {t1, t2, t3}
MCActions == {a1, a2}
MCPlans == {p1, p2}
OnePlan == {p1}
OneAction == {a1}
MCVersions == {v1, v2}
OneVersion == {v1}
MCTargets == {assignment}

\* Both plans prepare the same assignment.
MCTargetOf == [p \in Plans |-> assignment]

\* Threads, actions and versions are interchangeable in every safety property.
Symmetry == Permutations(Threads) \cup Permutations(Actions) \cup Permutations(Versions)
            \cup Permutations(Plans)
=============================================================================
