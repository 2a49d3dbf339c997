------------------------------ MODULE Restarts ------------------------------
(***************************************************************************)
(* Ledger with a history: whether all that has happened so far is          *)
(* invocations one after the other that failed or were killed, but left no *)
(* line cut short, and no power failure.  While that is so, a restart puts *)
(* right what the invocation before it left.                               *)
(***************************************************************************)
EXTENDS Ledger

VARIABLE
  serial   \* history: no two invocations alive at once, no line cut short, no power loss

RestartsInit == Init /\ serial = TRUE

RestartsNext ==
  \/ /\ \E p \in Procs : Start(p) \/ Step(p) \/ Crash(p)
     /\ serial' = (serial /\ Cardinality(Live') <= 1 /\ \A d \in Days : Parsable(shards'[d]))
  \/ PowerLoss /\ serial' = FALSE

RestartsSpec == RestartsInit /\ [][RestartsNext]_<<vars, serial>>

(* With the fairness of Ledger's FairSpec. *)
RestartsFairSpec == RestartsSpec /\ \A p \in Procs : WF_vars(Step(p))

(***************************************************************************)
(* Invocations one after the other, each killed or failing at any point    *)
(* but with whole lines, never make the shards contradict the index: the   *)
(* next one can reconcile, so that no restart reuses an origin.  Nor is    *)
(* any of them answered with an event that no shard carries.               *)
(***************************************************************************)
RestartsReconcile ==
  serial => /\ Reconcilable
            /\ \A p \in Procs : pc[p] \in {"added", "replayed"} => answer[p] \in Readable
=============================================================================
