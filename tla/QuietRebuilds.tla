---------------------------- MODULE QuietRebuilds ----------------------------
(***************************************************************************)
(* Adds and rebuilds one after the other: Rebuild with a history of        *)
(* whether they have been.                                                 *)
(***************************************************************************)
EXTENDS Rebuild

VARIABLE
  quiet   \* history: no two processes ran at once, and none was killed

QuietInit == Init /\ quiet = TRUE

QuietNext ==
  /\ Next
  /\ quiet' = (quiet /\ Running' <= 1 /\ result' # "killed" /\ \A p \in Procs : pc'[p] # "dead")

QuietSpec == QuietInit /\ [][QuietNext]_<<vars, quiet>>

-----------------------------------------------------------------------------

(***************************************************************************)
(* One process at a time, however often shards are lost and the index is   *)
(* rebuilt: no row is replaced away unnoticed, and no sequence is lost or  *)
(* given out again but on request.                                         *)
(***************************************************************************)
QuietNothingDropped == quiet => NothingDropped
QuietOriginsKept == quiet => OriginsKept

=============================================================================
