-------------------------- MODULE CentralRefinement --------------------------
(***************************************************************************)
(* The central ledger implements CentralLog.  A call that is refused is    *)
(* judged when it rolls back, one that is admitted when it commits.        *)
(***************************************************************************)
EXTENDS CentralIngest

(* The admitted records of a stream, by sequence. *)
StreamLog(s) ==
  [n \in 1 .. highest[s] |->
     (CHOOSE a \in admitted : a.rec.stream = s /\ a.rec.seq = n).rec]

(* What the producers have heard, or would have if the answer were not lost. *)
Verdicts == [p \in Calls |-> IF pc[p] \in Ended THEN pc[p] ELSE NoCall]

Log == INSTANCE CentralLog WITH
  Open <- NoCall,
  log <- [s \in Streams |-> StreamLog(s)],
  request <- req,
  verdict <- Verdicts

(***************************************************************************)
(* Every verdict - admitted, conflict, gap - is right at the instant it is *)
(* given, and nothing but an admission changes what is in the ledger.      *)
(***************************************************************************)
ImplementsLog == Log!Spec

=============================================================================
