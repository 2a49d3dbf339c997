---------------------------- MODULE HelperProofs -----------------------------
(***************************************************************************)
(* What holds of a call to the attribution helper, for every budget, pipe  *)
(* size and amount of output.                                              *)
(*                                                                         *)
(* The argument is about which facts are final.  A pipe that is empty and  *)
(* without writers stays so, since a process gets its end of it only from  *)
(* one that has it: so what the caller knows when it has read the end      *)
(* still holds when it answers, whatever the group does in between.  And a *)
(* group without running members stays so, since only the helper starts    *)
(* processes: so what killpg leaves is what the failed call leaves.  The   *)
(* one case to set apart is a deadline that passes between the select and  *)
(* the read it allowed: IndInv says that such a read finds bytes, not the  *)
(* end, unless the pipe had ended before.                                  *)
(***************************************************************************)
EXTENDS AttributionHelper, TLAPS

Types ==
  /\ pc \in Calling \cup {"idle", "answered", "failed"}
  /\ group \in [Members -> {"none", "running", "zombie", "reaped", "gone"}]
  /\ writers \subseteq Members
  /\ exit \in {"none", "zero", "nonzero", "signal"}
  /\ pipe \in Nat /\ written \in Nat /\ spool \in Nat
  /\ valid \in BOOLEAN /\ late \in BOOLEAN /\ openLate \in BOOLEAN

(* Only running processes write; before the call there are none. *)
GroupInv ==
  /\ \A m \in writers : group[m] = "running"
  /\ pc = "idle" => \A m \in Members : group[m] = "none"

(* Every chunk written is in the pipe or read. *)
FlowInv == pipe + spool = written

(* The end of the output, once read, is final. *)
EndInv ==
  /\ pc = "read" => pipe > 0 \/ EndOfFile
  /\ pc \in {"wait", "parse", "answered"} => EndOfFile

(* A pipe still open at the deadline is never read to its end. *)
DeadlineInv ==
  /\ openLate => late
  /\ openLate /\ pc = "read" => pipe > 0
  /\ pc \in {"wait", "parse", "answered"} => ~ openLate

(* What was read and kept is within the byte limit, unless the call is failing. *)
BudgetInv == pc \notin {"kill", "reap", "failed"} => spool <= ByteLimit

(* How the helper ended, and that nothing of its group runs after killpg. *)
ExitInv ==
  /\ pc \in {"parse", "answered"} => group["helper"] = "reaped" /\ exit = "zero"
  /\ pc \in {"reap", "failed"} => \A m \in Members : group[m] # "running"
  /\ pc = "failed" => group["helper"] = "reaped"

IndInv ==
  Types /\ GroupInv /\ FlowInv /\ EndInv /\ DeadlineInv /\ BudgetInv /\ ExitInv

-----------------------------------------------------------------------------

(* Before the call all of it holds. *)
LEMMA InitInv == Init => IndInv
<1> SUFFICES ASSUME Init
             PROVE  IndInv
  OBVIOUS
<1>1. group \in [Members -> {"none", "running", "zombie", "reaped", "gone"}]
  BY DEF Init
<1>2. Types
  BY <1>1, Zenon DEF Init, Types
<1>3. FlowInv /\ BudgetInv
  BY BoundsAssumption DEF Init, FlowInv, BudgetInv
<1>4. GroupInv /\ EndInv /\ DeadlineInv /\ ExitInv
  BY DEF Init, GroupInv, EndInv, DeadlineInv, ExitInv
<1> QED
  BY <1>2, <1>3, <1>4 DEF IndInv

(* The steps of the caller: it leaves the pipe's writers alone until it kills them. *)
LEMMA CallerInv == IndInv /\ (Invoke \/ Caller) => IndInv'
<1> SUFFICES ASSUME IndInv, Invoke \/ Caller
             PROVE  IndInv'
  OBVIOUS
<1> USE BoundsAssumption
<1> USE DEF IndInv, Types, GroupInv, FlowInv, EndInv, DeadlineInv, BudgetInv, ExitInv,
          Calling, Members, EndOfFile, helper, clock, Goto
<1>1. CASE Invoke
  <2>1. Types' /\ FlowInv'
    BY <1>1 DEF Invoke
  <2>2. GroupInv' /\ EndInv' /\ DeadlineInv' /\ ExitInv'
    BY <1>1 DEF Invoke
  <2>3. BudgetInv'
    BY <1>1 DEF Invoke
  <2> QED
    BY <2>1, <2>2, <2>3
<1>2. CASE Select
  BY <1>2 DEF Select
<1>3. CASE SelectTimesOut
  BY <1>3 DEF SelectTimesOut
<1>4. CASE ReadEnd
  BY <1>4 DEF ReadEnd
<1>5. CASE Wait
  BY <1>5 DEF Wait, Reaped
<1>6. CASE WaitTimesOut
  BY <1>6 DEF WaitTimesOut
<1>7. CASE Parse
  BY <1>7 DEF Parse
<1>8. CASE KillGroup
  BY <1>8 DEF KillGroup
<1>9. CASE Reap
  BY <1>9 DEF Reap, Reaped
<1>10. CASE \E k \in 1 .. PipeSize : ReadChunk(k)
  BY <1>10 DEF ReadChunk
<1>11. CASE SpoolFails
  BY <1>11 DEF SpoolFails
<1> QED
  BY <1>1, <1>2, <1>3, <1>4, <1>5, <1>6, <1>7, <1>8, <1>9, <1>10, <1>11 DEF Caller

(* The steps of the group and of the clock. *)
LEMMA GroupSteps ==
  IndInv /\ (Deadline \/ (\E m \in Members : Write(m) \/ Close(m)) \/ Fork \/ HelperExits \/ ChildExits)
    => IndInv'
<1> SUFFICES ASSUME IndInv,
                    Deadline \/ (\E m \in Members : Write(m) \/ Close(m)) \/ Fork \/ HelperExits \/ ChildExits
             PROVE  IndInv'
  OBVIOUS
<1> USE BoundsAssumption
<1> USE DEF IndInv, Types, GroupInv, FlowInv, EndInv, DeadlineInv, BudgetInv, ExitInv,
          Calling, Members, EndOfFile, helper, clock
<1>1. CASE Deadline
  BY <1>1 DEF Deadline
<1>2. CASE \E m \in Members : Write(m)
  BY <1>2 DEF Write
<1>3. CASE \E m \in Members : Close(m)
  BY <1>3 DEF Close
<1>4. CASE Fork
  BY <1>4 DEF Fork
<1>5. CASE HelperExits
  BY <1>5 DEF HelperExits
<1>6. CASE ChildExits
  BY <1>6 DEF ChildExits
<1> QED
  BY <1>1, <1>2, <1>3, <1>4, <1>5, <1>6

(* The inductive invariant, of every reachable state. *)
THEOREM Invariance == Spec => []IndInv
<1>1. IndInv /\ [Next]_vars => IndInv'
  <2> SUFFICES ASSUME IndInv, [Next]_vars
               PROVE  IndInv'
    OBVIOUS
  <2>1. CASE Next
    BY <2>1, CallerInv, GroupSteps DEF Next
  <2>2. CASE UNCHANGED vars
    BY <2>2 DEF vars, IndInv, Types, GroupInv, FlowInv, EndInv, DeadlineInv, BudgetInv,
      ExitInv, EndOfFile
  <2> QED
    BY <2>1, <2>2
<1> QED
  BY <1>1, InitInv, PTL DEF Spec

(***************************************************************************)
(* Whatever the helper does, a call that has ended leaves no zombie and, if *)
(* it failed, no process of the helper's group.                            *)
(***************************************************************************)
THEOREM NothingIsLeft == Spec => []NothingLeft
<1>1. IndInv => NothingLeft
  BY DEF IndInv, ExitInv, Types, NothingLeft, Members
<1> QED
  BY <1>1, Invariance, PTL

(***************************************************************************)
(* Whatever the helper does, an answer is all of what a successful helper  *)
(* and its child wrote, within the budget and ended by the deadline.       *)
(***************************************************************************)
THEOREM AnswersAreWhole == Spec => []AnswerWhole
<1>1. IndInv => AnswerWhole
  BY BoundsAssumption DEF IndInv, Types, FlowInv, EndInv, DeadlineInv, BudgetInv, ExitInv, EndOfFile,
    AnswerWhole
<1> QED
  BY <1>1, Invariance, PTL

=============================================================================
