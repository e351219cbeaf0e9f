---------------------------- MODULE MCStreamPool ----------------------------
(* StreamPool with three or four callers and pools of up to three streams, *)
(* so that callers queue behind each other, streams sit idle and close     *)
(* idle, and a slot is freed while others wait for one.                    *)
EXTENDS StreamPool, TLC

CONSTANTS c1, c2, c3, c4, s1, s2, s3

ThreeCallers == {c1, c2, c3}
FourCallers == {c1, c2, c3, c4}
TwoStreams == {s1, s2}
ThreeStreams == {s1, s2, s3}
Symmetry == Permutations(FourCallers) \cup Permutations(ThreeStreams)

NoFailures == {}
AllFailures == {"open", "session"}
SessionFailure == {"session"}
=============================================================================
