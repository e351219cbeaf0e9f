--------------------------- MODULE MCCallbackRefs ---------------------------
(* Two cursors with arguments, two executions of them and two calls: a     *)
(* cursor that is awaited twice, one callback handed over twice, a stub    *)
(* that is released while a call on it is under way, an id drawn after     *)
(* another was freed.                                                      *)
EXTENDS CallbackRefs

CONSTANTS f, g, o, h1, h2, c1, c2, s1, s2, k1, k2, a1

MCObjects == {f, g, o, h1, h2}

(* o.m is the function g, g.m the object o, f.m is missing. *)
MCProperty == [x \in {f, g, o} |-> IF x = o THEN g ELSE IF x = g THEN o ELSE Plain]

(* f returns a string, g the object. *)
MCResults == [x \in {f, g} |-> IF x = f THEN {Plain} ELSE {o}]
=============================================================================
