----------------------------- MODULE MCContexts -----------------------------
EXTENDS Contexts

CONSTANTS w, a, b, s, app, top, sub, declaredId

(* A workspace w; in it, each below a directory of its own, a and b; s is in a. *)
MCAtOrAbove == [d \in Dirs |-> {d, w} \cup (IF d = s THEN {a} ELSE {})]

(* a and b have the same basename. *)
MCName == [d \in Dirs |-> CASE d = w -> top [] d = s -> sub [] OTHER -> app]

=============================================================================
