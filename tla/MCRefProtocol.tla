---------------------------- MODULE MCRefProtocol ---------------------------
(* RefProtocol with three calls on up to two connections: enough for two   *)
(* proxies of one object on different connections and a call on one of     *)
(* them while it is collected, or for an object that is freed and returned *)
(* again while a late cursor still has its old id.                         *)
EXTENDS RefProtocol

CONSTANTS c1, c2, c3, k1, k2, o1, o2

TwoCalls == {c1, c2}
ThreeCalls == {c1, c2, c3}
OneConnection == {k1}
TwoConnections == {k1, k2}
TwoObjects == {o1, o2}
=============================================================================
