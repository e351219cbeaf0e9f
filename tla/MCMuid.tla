------------------------------- MODULE MCMuid -------------------------------
(* Muid with two shards, a counter of two bits and a word of ten bits,     *)
(* five of them for the timestamp and eight in the low half.               *)
EXTENDS MuidWords, Bitwise

(* The clock stands still, moves on and steps back; bursts within one      *)
(* reading overflow the counter.  The epoch is at 250, so the clock has a  *)
(* high half, the subtraction borrows from it, and ids lie on both sides   *)
(* of HalfWord.                                                            *)
AfterEpoch == {257, 258, 260}

(* "k3": with twelve bits of significand its hash needs rounding. *)
Hostname == <<107, 51>>

(* MuidWords' bitwise operators are those of the library. *)
ASSUME \A a, b \in 0..70 : BitOr(a, b) = a | b /\ BitAnd(a, b) = a & b
ASSUME \A n \in 0..WordBits : Pow2[n] = 2^n
=============================================================================
