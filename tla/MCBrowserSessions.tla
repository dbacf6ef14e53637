------------------------- MODULE MCBrowserSessions --------------------------
(* Two or three sessions; one inode more than there are lock objects, so     *)
(* that a new lock file is always a new inode.                               *)
EXTENDS BrowserSessions, TLC

CONSTANTS s1, s2, s3, i1, i2, i3, i4

TwoSessions == {s1, s2}
ThreeInodes == {i1, i2, i3}
ThreeSessions == {s1, s2, s3}
FourInodes == {i1, i2, i3, i4}
Symmetry3 == Permutations(ThreeSessions) \cup Permutations(FourInodes)
Symmetry2 == Permutations(TwoSessions) \cup Permutations(ThreeInodes)
InodeSymmetry == Permutations(ThreeInodes)
=============================================================================
