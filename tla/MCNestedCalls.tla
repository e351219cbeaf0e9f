---------------------------- MODULE MCNestedCalls ---------------------------
(* NestedCalls with four calls, started on both sides and nested up to     *)
(* three deep, on pools of one or two streams: calls queue on both sides   *)
(* while others are nested in them, and get knotted in both ways.          *)
EXTENDS NestedCalls

CONSTANTS c1, c2, c3, c4

FourCalls == {c1, c2, c3, c4}
BothSides == {"importer", "exporter"}
=============================================================================
