------------------------------ MODULE MCSchema ------------------------------
EXTENDS CentralSchema, TLC

CONSTANTS m1, m2, r1, r2, j1, j2, c1

(* This release, one whose second and third migration were edited, a newer one. *)
MCPackages == {<<1, 1, 1>>, <<1, 2, 2>>, <<1, 1, 1, 1>>}

MCSymmetry == Permutations(Jobs) \cup Permutations({r1, r2})

=============================================================================
