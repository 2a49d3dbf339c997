------------------------------ MODULE AuditLog ------------------------------
(***************************************************************************)
(* What the local ledger promises its callers: one log that only grows by  *)
(* one event at a time at its end, in which an event, and an analysis      *)
(* intent, occurs at most once, and in which a superseding generation      *)
(* comes after what it supersedes; and one final reply per caller, about   *)
(* an event of the log.  An event may enter the log without its caller     *)
(* having a reply: the caller that failed or died may be recovered.        *)
(***************************************************************************)
EXTENDS Naturals, Sequences

CONSTANTS
  Callers,    \* the callers; an event has the name of the caller it is of
  NoReply,    \* a caller that has heard nothing, or only a failure
  NoSem,      \* the semantic part of an ordinary event
  Requests    \* what callers ask to record

VARIABLES
  log,        \* the recorded events, oldest first
  reply       \* what each caller was told

Entries == [id : Callers, req : Requests]
Recorded == {log[n] : n \in DOMAIN log}

Init == log = <<>> /\ reply = [c \in Callers |-> NoReply]

(* e answers an intent that the log already has an answer to. *)
Repeats(e) ==
  \E f \in Recorded :
    /\ e.req.sem # NoSem /\ f.req.sem # NoSem
    /\ f.req.sem.case = e.req.sem.case
    /\ f.req.sem.gen = e.req.sem.gen

(* What e supersedes, if anything, is recorded, of its case and older. *)
Grounded(e) ==
  (e.req.sem # NoSem /\ e.req.sem.gen > 1) =>
    \E f \in Recorded : /\ f.id = e.req.sem.prior
                        /\ f.req.sem # NoSem
                        /\ f.req.sem.case = e.req.sem.case
                        /\ f.req.sem.gen < e.req.sem.gen

Tell(c, e) == reply[c] = NoReply /\ reply' = [reply EXCEPT ![c] = e]

(* A new event is recorded; its caller hears of it then, or never. *)
Record(e) ==
  /\ \A f \in Recorded : f.id # e.id
  /\ ~ Repeats(e)
  /\ Grounded(e)
  /\ log' = Append(log, e)
  /\ reply' = reply \/ Tell(e.id, e)

(* A caller is given an event that is already recorded and is what it asked for. *)
Recall(c, e) ==
  /\ e \in Recorded
  /\ e.req.sem # NoSem
  /\ Tell(c, e)
  /\ UNCHANGED log

Next ==
  \E e \in Entries : Record(e) \/ \E c \in Callers : Recall(c, e)

Spec == Init /\ [][Next]_<<log, reply>>
=============================================================================
