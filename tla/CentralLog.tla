----------------------------- MODULE CentralLog -----------------------------
(***************************************************************************)
(* What the central ledger promises its producers: each submission is      *)
(* judged at one instant against everything admitted before, and all that  *)
(* a submission can do is to append its record to its stream.              *)
(***************************************************************************)
EXTENDS Naturals, Sequences

CONSTANTS Calls, Streams, Records, Open

VARIABLES log,      \* stream -> the records admitted, in order
          request,  \* call -> its record, Open before it made one
          verdict   \* call -> its outcome, Open while there is none

vars == <<log, request, verdict>>

Admitted == UNION {{log[s][i] : i \in DOMAIN log[s]} : s \in Streams}

Init ==
  /\ log = [s \in Streams |-> <<>>]
  /\ request = [p \in Calls |-> Open]
  /\ verdict = [p \in Calls |-> Open]

Ask(p) ==
  /\ request[p] = Open
  /\ \E r \in Records : request' = [request EXCEPT ![p] = r]
  /\ UNCHANGED <<log, verdict>>

Answer(p, v) ==
  /\ request[p] # Open
  /\ verdict[p] = Open
  /\ verdict' = [verdict EXCEPT ![p] = v]
  /\ UNCHANGED request

Taken(r) ==
  \E a \in Admitted : a.event = r.event \/ (a.stream = r.stream /\ a.seq = r.seq)

(* The record is in the log already, or is appended; the answer may be lost. *)
Admit(p) ==
  LET r == request[p] IN
  /\ \E v \in {"received", "lost"} : Answer(p, v)
  /\ \/ r \in Admitted /\ UNCHANGED log
     \/ /\ ~ Taken(r)
        /\ r.seq = Len(log[r.stream]) + 1
        /\ log' = [log EXCEPT ![r.stream] = Append(@, r)]

(* Another record has the tuple or the event id. *)
Conflict(p) ==
  /\ Answer(p, "conflict")
  /\ request[p] \notin Admitted
  /\ Taken(request[p])
  /\ UNCHANGED log

Gap(p) ==
  LET r == request[p] IN
  /\ Answer(p, "gap")
  /\ ~ Taken(r)
  /\ r.seq # Len(log[r.stream]) + 1
  /\ UNCHANGED log

Fail(p) == Answer(p, "failed") /\ UNCHANGED log

Next == \E p \in Calls : Ask(p) \/ Admit(p) \/ Conflict(p) \/ Gap(p) \/ Fail(p)

Spec == Init /\ [][Next]_vars

=============================================================================
