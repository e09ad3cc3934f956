------------------------------- MODULE MCN2H -------------------------------
(* Two descriptors shared by up to three connections, so that descriptors  *)
(* are used again.                                                         *)
EXTENDS N2H, TLC

CONSTANTS c1, c2, c3, d1, d2

TwoConns == {c1, c2}
ThreeConns == {c1, c2, c3}
MCFds == {d1, d2}
OneFd == {d1}

\* What the runs allow the application.
KeepsAndEnds == {"keep", "end"}
LateEnds == {"end", "fail"}
LateEnd == {"end"}

ConnSymmetry == Permutations(Conns) \cup Permutations(Fds)
=============================================================================
