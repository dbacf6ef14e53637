------------------------- MODULE SingleUseAuthority -------------------------
(***************************************************************************)
(* What the approval machinery of agent/consequential.py promises about    *)
(* each consequential action, with no threads, tables or clock: authority  *)
(* to act is issued at most once, spent at most once and never returned,   *)
(* and the effect takes place at most once, under spent authority.         *)
(***************************************************************************)
EXTENDS Naturals

CONSTANT Actions

VARIABLES
    authority,  \* "none", then "issued", then "spent"
    effects     \* how many times the action took effect

Init ==
    /\ authority = [a \in Actions |-> "none"]
    /\ effects = [a \in Actions |-> 0]

Issue(a) ==
    /\ authority[a] = "none"
    /\ authority' = [authority EXCEPT ![a] = "issued"]
    /\ UNCHANGED effects

Spend(a) ==
    /\ authority[a] = "issued"
    /\ authority' = [authority EXCEPT ![a] = "spent"]
    /\ UNCHANGED effects

TakeEffect(a) ==
    /\ authority[a] = "spent"
    /\ effects[a] = 0
    /\ effects' = [effects EXCEPT ![a] = 1]
    /\ UNCHANGED authority

Next == \E a \in Actions : Issue(a) \/ Spend(a) \/ TakeEffect(a)

Spec == Init /\ [][Next]_<<authority, effects>>
=============================================================================
