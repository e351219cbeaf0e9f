------------------------------ MODULE MCFraming -----------------------------
(* Framing with three calls on two streams, messages in two pieces.        *)
EXTENDS Framing, TLC

CONSTANTS c1, c2, c3, s1, s2

MCCalls == {c1, c2, c3}
MCStreams == {s1, s2}
=============================================================================
