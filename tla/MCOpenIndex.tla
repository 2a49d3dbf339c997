----------------------------- MODULE MCOpenIndex -----------------------------
EXTENDS OpenIndex

CONSTANTS p1, p2, p3

(* Two commands of one release and one of an older one. *)
MCRelease == [p \in Procs |-> IF p = p3 THEN 2 ELSE 3]

=============================================================================
