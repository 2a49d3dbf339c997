------------------------------ MODULE MCRebuild ------------------------------
EXTENDS QuietRebuilds, TLC

CONSTANTS a1, a2, a3, RacedRebuilds

Opt(days, replace, allow, dry) ==
  [days |-> days, replace |-> replace, allow |-> allow, dry |-> dry]

(* The whole directory, with and without each flag, and a single shard. *)
MCOptions ==
  {Opt(Days, r, a, d) : r \in BOOLEAN, a \in BOOLEAN, d \in {FALSE}}
    \cup {Opt({1}, TRUE, a, FALSE) : a \in BOOLEAN}
    \cup {Opt(Days, TRUE, FALSE, TRUE)}

(* The whole directory into a new index, nothing given up. *)
MCReplace == {Opt(Days, TRUE, FALSE, FALSE)}

(***************************************************************************)
(* RacedRebuilds bounds the rebuilds where processes meet or die,          *)
(* MaxRebuilds those of a quiet directory.                                 *)
(***************************************************************************)
MCNext == QuietNext /\ (quiet' \/ begun' <= RacedRebuilds)

MCSpec == QuietInit /\ [][MCNext]_<<vars, quiet>>

MCSymmetry == Permutations(Procs)

=============================================================================
