-------------------------- MODULE AttributionHelper --------------------------
(***************************************************************************)
(* How `auditctl list` in snapshot mode gets its report: it starts a       *)
(* helper in a session of its own, reads its output from a pipe under a    *)
(* deadline and a byte budget, waits for its exit and parses what it read. *)
(* On every other way out it kills the helper's process group and reaps    *)
(* the helper.                                                             *)
(*                                                                         *)
(* The helper is trusted to stay in its group and nothing else: it may     *)
(* hang, exit with or without output, write too much, close its output     *)
(* and stay, and leave a child of its own behind that holds the pipe.      *)
(***************************************************************************)
EXTENDS Naturals

CONSTANTS
  ByteLimit,  \* the budget, in chunks
  PipeSize,   \* the chunks a pipe holds before its writers block
  MaxOutput   \* bound on the chunks the helper's group writes

ASSUME BoundsAssumption ==
  ByteLimit \in Nat /\ PipeSize \in Nat \ {0} /\ MaxOutput \in Nat

VARIABLES
  pc,        \* where the caller stands
  group,     \* the helper and its child: their states
  writers,   \* which of them have the pipe open for writing
  exit,      \* the helper's exit status, "none" while it runs
  pipe,      \* chunks in the pipe
  written,   \* chunks the group has written
  spool,     \* chunks the caller has read
  valid,     \* whether what the helper writes is a report
  late,      \* the deadline has passed
  openLate   \* history: the pipe had writers when it passed

vars == <<pc, group, writers, exit, pipe, written, spool, valid, late, openLate>>

helper == <<group, writers, exit, written, valid>>
clock == <<late, openLate>>

Members == {"helper", "child"}
Calling == {"select", "read", "wait", "parse", "kill", "reap"}

Init ==
  /\ pc = "idle"
  /\ group = [m \in Members |-> "none"]
  /\ writers = {}
  /\ exit = "none"
  /\ pipe = 0
  /\ written = 0
  /\ spool = 0
  /\ valid \in BOOLEAN
  /\ late = FALSE
  /\ openLate = FALSE

-----------------------------------------------------------------------------
(* The caller. *)

Goto(l) == pc' = l

(* Popen with start_new_session; the deadline is counted from just before it. *)
Invoke ==
  /\ pc = "idle"
  /\ group' = [group EXCEPT !["helper"] = "running"]
  /\ writers' = {"helper"}
  /\ Goto("select")
  /\ UNCHANGED <<exit, pipe, written, spool, valid, clock>>

EndOfFile == pipe = 0 /\ writers = {}

(* Mutant: the deadline is looked at only when there is nothing to read. *)
SelectPatiently ==
  /\ pc = "select"
  /\ pipe > 0 \/ EndOfFile
  /\ Goto("read")
  /\ UNCHANGED <<helper, pipe, spool, clock>>

(* Time remains, and the pipe has something or its end to read. *)
Select ==
  /\ pc = "select"
  /\ ~ late
  /\ pipe > 0 \/ EndOfFile
  /\ Goto("read")
  /\ UNCHANGED <<helper, pipe, spool, clock>>

SelectTimesOut ==
  /\ pc = "select"
  /\ late
  /\ Goto("kill")
  /\ UNCHANGED <<helper, pipe, spool, clock>>

(* Mutant: what is beyond the budget is left out. *)
ReadTruncated(n) ==
  /\ pc = "read"
  /\ n \in 1 .. pipe
  /\ pipe' = pipe - n
  /\ spool' = IF spool + n > ByteLimit THEN spool ELSE spool + n
  /\ Goto("select")
  /\ UNCHANGED <<helper, clock>>

(* read1 returns what there is, or part of it, for the spool; over the budget the call fails. *)
ReadChunk(n) ==
  /\ pc = "read"
  /\ n \in 1 .. pipe
  /\ pipe' = pipe - n
  /\ spool' = spool + n
  /\ Goto(IF spool + n > ByteLimit THEN "kill" ELSE "select")
  /\ UNCHANGED <<helper, clock>>

(* The disk is full, or fails: the spool takes no chunk, or does not give them back. *)
SpoolFails ==
  /\ \/ /\ pc = "read"
        /\ \E n \in 1 .. pipe : pipe' = pipe - n /\ spool' = spool + n
     \/ /\ pc = "parse"
        /\ UNCHANGED <<pipe, spool>>
  /\ Goto("kill")
  /\ UNCHANGED <<helper, clock>>

ReadEnd ==
  /\ pc = "read"
  /\ EndOfFile
  /\ Goto("wait")
  /\ UNCHANGED <<helper, pipe, spool, clock>>

Reaped == group' = [group EXCEPT !["helper"] = "reaped"]

(* The helper has exited, if need be just at the deadline, and is reaped. *)
Wait ==
  /\ pc = "wait"
  /\ group["helper"] = "zombie"
  /\ Reaped
  /\ Goto(IF exit = "zero" THEN "parse" ELSE "kill")
  /\ UNCHANGED <<writers, exit, pipe, written, spool, valid, clock>>

(* Mutant: once the output has ended, only an open pipe is timed out. *)
WaitTimesOutIfOpen ==
  /\ pc = "wait"
  /\ late
  /\ group["helper"] = "running" /\ writers # {}
  /\ Goto("kill")
  /\ UNCHANGED <<helper, pipe, spool, clock>>

WaitTimesOut ==
  /\ pc = "wait"
  /\ late
  /\ group["helper"] = "running"
  /\ Goto("kill")
  /\ UNCHANGED <<helper, pipe, spool, clock>>

Parse ==
  /\ pc = "parse"
  /\ Goto(IF valid THEN "answered" ELSE "kill")
  /\ UNCHANGED <<helper, pipe, spool, clock>>

(* Mutant: only the helper itself is killed. *)
KillHelper ==
  /\ pc = "kill"
  /\ group' = [group EXCEPT !["helper"] = IF @ = "running" THEN "zombie" ELSE @]
  /\ exit' = IF group["helper"] = "running" THEN "signal" ELSE exit
  /\ writers' = writers \ {"helper"}
  /\ Goto("reap")
  /\ UNCHANGED <<pipe, written, spool, valid, clock>>

(***************************************************************************)
(* killpg: every running member of the group dies.  A group without        *)
(* members is no error; the helper may be a zombie or reaped by now.       *)
(***************************************************************************)
KillGroup ==
  /\ pc = "kill"
  /\ group' = [m \in Members |->
                 IF group[m] # "running" THEN group[m]
                 ELSE IF m = "helper" THEN "zombie" ELSE "gone"]
  /\ exit' = IF group["helper"] = "running" THEN "signal" ELSE exit
  /\ writers' = {}
  /\ Goto("reap")
  /\ UNCHANGED <<pipe, written, spool, valid, clock>>

(* The wait of the finally clause has no timeout. *)
Reap ==
  /\ pc = "reap"
  /\ group["helper"] # "running"
  /\ Reaped
  /\ Goto("failed")
  /\ UNCHANGED <<writers, exit, pipe, written, spool, valid, clock>>

-----------------------------------------------------------------------------
(* The helper's group, and the clock. *)

Write(m) ==
  /\ m \in writers
  /\ pipe < PipeSize /\ written < MaxOutput
  /\ pipe' = pipe + 1
  /\ written' = written + 1
  /\ UNCHANGED <<pc, group, writers, exit, spool, valid, clock>>

Close(m) ==
  /\ m \in writers
  /\ writers' = writers \ {m}
  /\ UNCHANGED <<pc, group, exit, pipe, written, spool, valid, clock>>

(* The helper starts a process, which inherits what it has open. *)
Fork ==
  /\ group["helper"] = "running"
  /\ group["child"] = "none"
  /\ group' = [group EXCEPT !["child"] = "running"]
  /\ writers' = IF "helper" \in writers THEN writers \cup {"child"} ELSE writers
  /\ UNCHANGED <<pc, exit, pipe, written, spool, valid, clock>>

HelperExits ==
  /\ group["helper"] = "running"
  /\ group' = [group EXCEPT !["helper"] = "zombie"]
  /\ exit' \in {"zero", "nonzero"}
  /\ writers' = writers \ {"helper"}
  /\ UNCHANGED <<pc, pipe, written, spool, valid, clock>>

ChildExits ==
  /\ group["child"] = "running"
  /\ group' = [group EXCEPT !["child"] = "gone"]
  /\ writers' = writers \ {"child"}
  /\ UNCHANGED <<pc, exit, pipe, written, spool, valid, clock>>

Deadline ==
  /\ pc \in Calling
  /\ ~ late
  /\ late' = TRUE
  /\ openLate' = (writers # {})
  /\ UNCHANGED <<pc, helper, pipe, spool>>

-----------------------------------------------------------------------------

Caller ==
  \/ Select \/ SelectTimesOut \/ ReadEnd \/ Wait \/ WaitTimesOut \/ Parse
  \/ SpoolFails \/ KillGroup \/ Reap
  \/ \E n \in 1 .. PipeSize : ReadChunk(n)

Next ==
  \/ Invoke \/ Caller \/ Deadline
  \/ \E m \in Members : Write(m) \/ Close(m)
  \/ Fork \/ HelperExits \/ ChildExits

(* The caller runs and time passes; of the helper nothing is assumed. *)
Spec == Init /\ [][Next]_vars /\ WF_vars(Caller) /\ WF_vars(Deadline)

-----------------------------------------------------------------------------
(* Properties. *)

(***************************************************************************)
(* A call that fails leaves nothing of the helper's group running and no   *)
(* zombie, at whatever moment it failed: before the first byte, over the   *)
(* budget, with the pipe closed and the helper still there, after it was   *)
(* reaped, with a child that outlived it.  No call leaves a zombie.        *)
(***************************************************************************)
NothingLeft ==
  /\ pc \in {"answered", "failed"} => group["helper"] = "reaped"
  /\ pc = "failed" => group["child"] # "running"

(***************************************************************************)
(* An answer is all that the helper and its child ever wrote, of a helper  *)
(* that exited with zero, within the budget; and its last writer had       *)
(* closed the pipe before the deadline.                                    *)
(***************************************************************************)
AnswerWhole ==
  pc = "answered" =>
    /\ spool = written
    /\ spool <= ByteLimit
    /\ exit = "zero"
    /\ writers = {}
    /\ ~ openLate

(* Whatever the helper does or fails to do, the call ends. *)
CallEnds == pc = "select" ~> pc \in {"answered", "failed"}

=============================================================================
