----------------------------- MODULE MCUpesAuth -----------------------------
(* Two or three calls of one or two users.  With Slack 1 and Margin 2 a token *)
(* of lifetime 3 is comfortable when new, usable one unit later and neither  *)
(* after two; one of lifetime 2 is due for renewal from the start.           *)
EXTENDS UpesAuth, TLC

CONSTANTS c1, c2, c3, u1, u2

TwoCalls == {c1, c2}
ThreeCalls == {c1, c2, c3}
OneUser == {u1}
TwoUsers == {u1, u2}
NoUser == {}
MCLifetimes == {3}
ShortLifetime == {2}
CallSymmetry == Permutations(Calls)
=============================================================================
