--------------------------- MODULE MCEngineBoot ---------------------------
(* Instances of EngineBoot with three names; every configuration is what a *)
(* designated initialiser in an FB's source can say.                       *)
EXTENDS EngineBoot

CONSTANTS a, b, c

Cfgs(n, phases, deps) == [name : {n}, phase : phases, deps : deps]

(* Dependency graphs: in, across and against the phases, self-references,  *)
(* two names that depend on each other, and a phase that is not declared.  *)
GraphConfigs ==
    Cfgs(a, {1, 2}, {<<>>, <<b>>, <<c, b>>, <<a>>})
    \cup Cfgs(b, {2}, {<<>>, <<a>>, <<c>>, <<c, a>>})
    \cup Cfgs(c, {0, 2, 4}, {<<>>, <<a>>, <<b>>})

(* The FBs named a have sub-functions of two orders.                       *)
OneComposite == [n \in Name |-> IF n = a THEN [order : {1, 2}, subs : {{"m"}}] ELSE {}]
=============================================================================
