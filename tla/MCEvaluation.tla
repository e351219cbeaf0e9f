---------------------------- MODULE MCEvaluation ----------------------------
(* Two requests with chains of up to three traps.  The root is a function  *)
(* with a property, which may be a method, an object, a string, null or    *)
(* missing; the object has a method.  The program may replace the first.  *)
EXTENDS Evaluation

CONSTANTS obj, f, g, h1, h2, h3, text, upper, r1, r2, m

MCObjects == {obj, f, g, upper, h1, h2, h3}

Get == [kind |-> "get", key |-> m]
Apply == [kind |-> "apply", key |-> None]
New == [kind |-> "construct", key |-> None]

(* await p; await p.m; p.m(); p.m.m(); p().m(); p.m().m; (new p).m *)
MCChains == {<<>>, <<Get>>, <<Get, Apply>>, <<Get, Get, Apply>>, <<Apply, Get, Apply>>,
             <<Get, Apply, Get>>, <<New, Get>>}

MCPrimitiveMethods == [k \in Keys |-> upper]

(* The root returns an object, or nothing; the others a string. *)
MCResults == [x \in Methods |-> IF x = f THEN {obj, Undefined} ELSE {text}]

WithProperty(v) == [x \in Bindable |-> [k \in Keys |->
    IF x = f THEN v ELSE IF x = obj THEN g ELSE Undefined]]
MCInitially == {WithProperty(v) : v \in {g, obj, text, Null, Undefined}}

MCAssignments == {<<f, m, upper>>}
=============================================================================
