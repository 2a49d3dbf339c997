------------------------------- MODULE Ledger -------------------------------
(***************************************************************************)
(* The local write path of auditctl: every `auditctl add` and              *)
(* `auditctl semantic-replay` is one short-lived process that runs         *)
(* cli._record_event against one SQLite index and one directory of daily   *)
(* NDJSON shards.                                                          *)
(*                                                                         *)
(* A process first reconciles the shards into the index in one SQLite      *)
(* transaction, and then, in a second one, allocates the next origin       *)
(* sequence, inserts the row, appends and fsyncs the shard line and        *)
(* commits.  SQLite's writer lock (BEGIN IMMEDIATE) is free between the    *)
(* two.  A process may be killed anywhere, a write may stop half way, and  *)
(* the machine may lose power.                                             *)
(***************************************************************************)
EXTENDS Naturals, Sequences, FiniteSets

CONSTANTS
  Procs,      \* invocations; the event an invocation makes carries its name
  NoProc,     \* no invocation: a free lock, no stream, no superseded event
  Days,       \* the days an event can be stamped with, one shard file each
  NoSem,      \* the semantic part of an ordinary event
  Requests,   \* what an invocation may be asked to record
  Faults,     \* the failures the environment may inflict, a subset of AllFaults
  MaxLive     \* bound on the invocations alive at one moment

(***************************************************************************)
(* append: append_event raises having written nothing (too long a line,    *)
(* open or write refused).  torn: a proper prefix reaches the file.        *)
(* unended: all but the newline does.  fsync, commit, reconcile: that call *)
(* raises.  crash: a process is killed.  power: the machine stops and what *)
(* was not fsynced may be gone or torn.                                    *)
(***************************************************************************)
AllFaults ==
  {"append", "torn", "unended", "fsync", "commit", "reconcile", "crash", "power"}

(***************************************************************************)
(* A semantic request names its analysis intent (case and generation; the  *)
(* interpretation key is the digest of the intent, so the intent stands    *)
(* for it) and the event it supersedes: none exactly in generation 1.      *)
(***************************************************************************)
IsSem(s) ==
  /\ DOMAIN s = {"case", "gen", "prior"}
  /\ s.gen \in Nat \ {0}
  /\ s.prior \in Procs \cup {NoProc}
  /\ s.gen = 1 <=> s.prior = NoProc

ASSUME ProcsAssumption == NoProc \notin Procs
ASSUME FaultsAssumption == Faults \subseteq AllFaults
ASSUME RequestsAssumption ==
  \A r \in Requests :
    /\ DOMAIN r = {"day", "body", "sem"}
    /\ r.day \in Days
    /\ r.sem # NoSem => IsSem(r.sem)

VARIABLES
  pc,      \* where each invocation stands
  req,     \* what each invocation was asked to record
  answer,  \* the event an invocation is writing, or has returned
  lock,    \* the holder of SQLite's writer lock
  rows,    \* committed rows of audit_event
  origin,  \* committed producer_stream row: stream and next sequence
  shards,  \* day -> the writes the day's file is made of
  synced   \* day -> how many of those writes are known to be on disk

vars == <<pc, req, answer, lock, rows, origin, shards, synced>>

Waiting == {"open", "between"}
Holding == {"reconcile", "check", "append", "fsync", "commit"}
Writing == {"append", "fsync", "commit"}
Ended   == {"added", "replayed", "failed", "dead"}

Events == [id : Procs, stream : Procs, seq : Nat \ {0}, req : Requests]
Blank == [id |-> NoProc]
Parts == {"whole", "unended", "torn"}
Writes == [event : Events, part : Parts]

-----------------------------------------------------------------------------
(* What a file holds. *)

(***************************************************************************)
(* read_events accepts a file when every line is one event.  A write that  *)
(* lacks its newline runs into the next one, so it can only come last; a   *)
(* torn one is never JSON.                                                 *)
(***************************************************************************)
Parsable(file) ==
  \A i \in DOMAIN file :
    \/ file[i].part = "whole"
    \/ file[i].part = "unended" /\ i = Len(file)

(* The i-th write of the file is a line of its own that read_events accepts. *)
ReadableAt(file, i) ==
  /\ file[i].part # "torn"
  /\ i = 1 \/ file[i-1].part = "whole"
  /\ file[i].part = "whole" \/ i = Len(file)

(* Every event some bytes of which are in a shard. *)
Written == UNION {{shards[d][i].event : i \in DOMAIN shards[d]} : d \in Days}

(* The lines that a reader of the shards gets back. *)
Readable ==
  UNION {{shards[d][i].event : i \in {j \in DOMAIN shards[d] : ReadableAt(shards[d], j)}}
           : d \in Days}

SameOrigin(e, f) == e.stream = f.stream /\ e.seq = f.seq

(***************************************************************************)
(* Reconciliation imports the lines whose ids the index lacks.  It fails   *)
(* as a whole when a shard does not parse, when a line carries a stream    *)
(* other than the ledger's (observe_origin) and when an import meets the   *)
(* unique index on the origin (insert_event_ignore ignores only an equal   *)
(* id).                                                                    *)
(***************************************************************************)
Reconcilable ==
  /\ \A d \in Days : Parsable(shards[d])
  /\ \A e \in Written : origin.stream \in {NoProc, e.stream}
  /\ \A e, f \in Written : e.stream = f.stream
  /\ \A e \in Written \ rows, f \in Written \cup rows : SameOrigin(e, f) => e = f

(* Mutant: an import that does not move the cursor. *)
Unobserved == origin

(* The cursor after observe_origin has seen every line. *)
Observed ==
  LET seqs == {e.seq + 1 : e \in Written} \cup {origin.next}
  IN  [stream |-> IF Written = {} THEN origin.stream
                  ELSE (CHOOSE e \in Written : TRUE).stream,
       next   |-> CHOOSE n \in seqs : \A m \in seqs : m <= n]

-----------------------------------------------------------------------------
(* One invocation. *)

Goto(p, l) == pc' = [pc EXCEPT ![p] = l]

Acquire(p) == lock = NoProc /\ lock' = p
Release(p) == lock' = IF lock = p THEN NoProc ELSE lock

Init ==
  /\ pc = [p \in Procs |-> "idle"]
  /\ req = [p \in Procs |-> NoProc]
  /\ answer = [p \in Procs |-> Blank]
  /\ lock = NoProc
  /\ rows = {}
  /\ origin = [stream |-> NoProc, next |-> 1]
  /\ shards = [d \in Days |-> <<>>]
  /\ synced = [d \in Days |-> 0]

Live == {p \in Procs : pc[p] \in Waiting \cup Holding}

(* An invocation starts: its context resolves, its input is valid, the index is open. *)
Start(p) ==
  /\ pc[p] = "idle"
  /\ Cardinality(Live) < MaxLive
  /\ \E r \in Requests : req' = [req EXCEPT ![p] = r]
  /\ Goto(p, "open")
  /\ UNCHANGED <<answer, lock, rows, origin, shards, synced>>

(* Mutant: the exception is handled with the transaction left open. *)
FailLocked(p) ==
  /\ Goto(p, "failed")
  /\ UNCHANGED <<req, answer, lock, rows, origin, synced>>

(* An exception ends the invocation; closing its connection rolls back. *)
Fail(p) ==
  /\ Goto(p, "failed")
  /\ Release(p)
  /\ UNCHANGED <<req, answer, rows, origin, synced>>

(***************************************************************************)
(* BEGIN IMMEDIATE of either transaction raises: the lock stays with       *)
(* another invocation past SQLite's busy timeout.                          *)
(***************************************************************************)
Busy(p) ==
  /\ pc[p] \in Waiting
  /\ lock # NoProc
  /\ Fail(p)
  /\ UNCHANGED shards

BeginReconcile(p) ==
  /\ pc[p] = "open"
  /\ Acquire(p)
  /\ Goto(p, "reconcile")
  /\ UNCHANGED <<req, answer, rows, origin, shards, synced>>

Reconcile(p) ==
  /\ pc[p] = "reconcile"
  /\ Reconcilable
  /\ rows' = rows \cup Written
  /\ origin' = Observed
  /\ Release(p)
  /\ Goto(p, "between")
  /\ UNCHANGED <<req, answer, shards, synced>>

(* A shard is corrupt or contradicts the index, or the transaction's commit raises. *)
ReconcileFails(p) ==
  /\ pc[p] = "reconcile"
  /\ ~ Reconcilable \/ "reconcile" \in Faults
  /\ Fail(p)
  /\ UNCHANGED shards

BeginRecord(p) ==
  /\ pc[p] = "between"
  /\ Acquire(p)
  /\ Goto(p, "check")
  /\ UNCHANGED <<req, answer, rows, origin, shards, synced>>

(* The row a semantic request supersedes: same case, an earlier generation. *)
PriorAdmissible(s) ==
  s.prior # NoProc =>
    \E r \in rows : /\ r.id = s.prior
                    /\ r.req.sem # NoSem
                    /\ r.req.sem.case = s.case
                    /\ r.req.sem.gen < s.gen

(* The interpretation key: which intent an event answers, whatever it supersedes. *)
SameKey(s, t) ==
  /\ s # NoSem /\ t # NoSem
  /\ s.case = t.case /\ s.gen = t.gen

Matches(s) == {r \in rows : SameKey(r.req.sem, s)}

(* Mutants: the lookup of the prior, or of the key, is left out. *)
AnyPrior(s) == s # NoSem => Matches(s) = {}
AnyKey(s) == s # NoSem => PriorAdmissible(s)

(* What is to be recorded contradicts no row. *)
Unclaimed(s) == s # NoSem => PriorAdmissible(s) /\ Matches(s) = {}

(* Mutant of the next: whatever the content. *)
KeyAlone(p, r) == Matches(req[p].sem) = {r}

(* The row that answers p's request: the only one with its key, and of its content. *)
Original(p, r) == Matches(req[p].sem) = {r} /\ r.req = req[p]

(* A semantic request is refused: no such prior, or its key has other content. *)
Conflict(p) ==
  /\ pc[p] = "check"
  /\ req[p].sem # NoSem
  /\ \/ ~ PriorAdmissible(req[p].sem)
     \/ /\ Matches(req[p].sem) # {}
        /\ ~ \E r \in rows : Original(p, r)
  /\ Fail(p)
  /\ UNCHANGED shards

(* The key is already recorded with this content: return the original event. *)
Replay(p) ==
  /\ pc[p] = "check"
  /\ req[p].sem # NoSem
  /\ PriorAdmissible(req[p].sem)
  /\ \E r \in rows : /\ Original(p, r)
                     /\ answer' = [answer EXCEPT ![p] = r]
  /\ Goto(p, "replayed")
  /\ Release(p)
  /\ UNCHANGED <<req, rows, origin, shards, synced>>

(* Mutants: a sequence behind the cursor; one beyond it. *)
StaleEvent(p) ==
  [id |-> p, stream |-> IF origin.stream = NoProc THEN p ELSE origin.stream,
   seq |-> origin.next - 1, req |-> req[p]]
SkippingEvent(p) ==
  [id |-> p, stream |-> IF origin.stream = NoProc THEN p ELSE origin.stream,
   seq |-> origin.next + 1, req |-> req[p]]

(***************************************************************************)
(* allocate_origin: the event takes the cursor's sequence and, in a ledger *)
(* that has no stream yet, mints one.                                      *)
(***************************************************************************)
NewEvent(p) ==
  [id     |-> p,
   stream |-> IF origin.stream = NoProc THEN p ELSE origin.stream,
   seq    |-> origin.next,
   req    |-> req[p]]

(***************************************************************************)
(* Allocation and insert_event, inside the transaction: nothing is visible *)
(* to others before the commit.                                            *)
(***************************************************************************)
Allocate(p) ==
  /\ pc[p] = "check"
  /\ Unclaimed(req[p].sem)
  /\ answer' = [answer EXCEPT ![p] = NewEvent(p)]
  /\ Goto(p, "append")
  /\ UNCHANGED <<req, lock, rows, origin, shards, synced>>

(* The bytes of p's line, up to `part`, go to the end of its day's shard. *)
WriteLine(p, part) ==
  shards' = [shards EXCEPT ![req[p].day] =
               Append(@, [event |-> answer[p], part |-> part])]

AppendLine(p) ==
  /\ pc[p] = "append"
  /\ WriteLine(p, "whole")
  /\ Goto(p, "fsync")
  /\ UNCHANGED <<req, answer, lock, rows, origin, synced>>

(* Mutant: no rollback after a failed append. *)
AppendFailsKept(p) ==
  /\ pc[p] = "append"
  /\ "append" \in Faults
  /\ UNCHANGED shards
  /\ rows' = rows \cup {answer[p]}
  /\ origin' = [stream |-> answer[p].stream, next |-> answer[p].seq + 1]
  /\ Goto(p, "failed")
  /\ Release(p)
  /\ UNCHANGED <<req, answer, synced>>

(* The write loop leaves part of the line, or nothing, behind. *)
CutShort(p) ==
  \/ UNCHANGED shards
  \/ \E part \in {"torn", "unended"} \cap Faults : WriteLine(p, part)

AppendFails(p) ==
  /\ pc[p] = "append"
  /\ "append" \in Faults
  /\ CutShort(p)
  /\ Fail(p)

(* Mutant: the append returns without fsync. *)
FsyncSkipped(p) ==
  /\ pc[p] = "fsync"
  /\ Goto(p, "commit")
  /\ UNCHANGED <<req, answer, lock, rows, origin, shards, synced>>

(* fsync forces the whole file, earlier writes included. *)
Fsync(p) ==
  /\ pc[p] = "fsync"
  /\ synced' = [synced EXCEPT ![req[p].day] = Len(shards[req[p].day])]
  /\ Goto(p, "commit")
  /\ UNCHANGED <<req, answer, lock, rows, origin, shards>>

FsyncFails(p) ==
  /\ pc[p] = "fsync"
  /\ "fsync" \in Faults
  /\ Fail(p)
  /\ UNCHANGED shards

Commit(p) ==
  /\ pc[p] = "commit"
  /\ rows' = rows \cup {answer[p]}
  /\ origin' = [stream |-> answer[p].stream, next |-> answer[p].seq + 1]
  /\ Release(p)
  /\ Goto(p, "added")
  /\ UNCHANGED <<req, answer, shards, synced>>

CommitFails(p) ==
  /\ pc[p] = "commit"
  /\ "commit" \in Faults
  /\ Fail(p)
  /\ UNCHANGED shards

-----------------------------------------------------------------------------
(* The environment. *)

(* The process is killed; SQLite drops its lock and its uncommitted transaction. *)
Crash(p) ==
  /\ "crash" \in Faults
  /\ p \in Live
  /\ IF pc[p] = "append" THEN CutShort(p) ELSE UNCHANGED shards
  /\ Goto(p, "dead")
  /\ Release(p)
  /\ UNCHANGED <<req, answer, rows, origin, synced>>

(* The first n writes of a file, the last of them only in part. *)
CutAt(file, n, part) ==
  Append(SubSeq(file, 1, n - 1), [event |-> file[n].event, part |-> part])

(* What of a file may be left after the machine stopped. *)
Surviving(d) ==
  {SubSeq(shards[d], 1, n) : n \in synced[d] .. Len(shards[d])}
    \cup UNION {{CutAt(shards[d], n, part) : n \in (synced[d] + 1) .. Len(shards[d])} :
                  part \in {"torn"} \cup ({"unended"} \cap Faults)}

(***************************************************************************)
(* Every process dies.  Committed SQLite transactions are durable; of a    *)
(* shard only the fsynced part certainly is.                               *)
(***************************************************************************)
PowerLoss ==
  /\ "power" \in Faults
  /\ \E left \in [Days -> UNION {Surviving(d) : d \in Days}] :
       /\ \A d \in Days : left[d] \in Surviving(d)
       /\ shards' = left
       /\ synced' = [d \in Days |-> Len(left[d])]
  /\ pc' = [p \in Procs |-> IF p \in Live THEN "dead" ELSE pc[p]]
  /\ lock' = NoProc
  /\ UNCHANGED <<req, answer, rows, origin>>

-----------------------------------------------------------------------------

(* What p does by itself once it was started, whether it goes well or not. *)
Step(p) ==
  \/ Busy(p) \/ BeginReconcile(p) \/ Reconcile(p) \/ ReconcileFails(p)
  \/ BeginRecord(p) \/ Conflict(p) \/ Replay(p) \/ Allocate(p)
  \/ AppendLine(p) \/ AppendFails(p) \/ Fsync(p) \/ FsyncFails(p)
  \/ Commit(p) \/ CommitFails(p)

Next ==
  \/ \E p \in Procs : Start(p) \/ Step(p) \/ Crash(p)
  \/ PowerLoss

Spec == Init /\ [][Next]_vars

(* The operating system keeps scheduling an invocation that can take a step. *)
FairSpec == Spec /\ \A p \in Procs : WF_vars(Step(p))

-----------------------------------------------------------------------------
(* Properties. *)

TypeOK ==
  /\ pc \in [Procs -> {"idle"} \cup Waiting \cup Holding \cup Ended]
  /\ req \in [Procs -> Requests \cup {NoProc}]
  /\ answer \in [Procs -> Events \cup {Blank}]
  /\ lock \in Procs \cup {NoProc}
  /\ rows \subseteq Events
  /\ origin \in [stream : Procs \cup {NoProc}, next : Nat \ {0}]
  /\ shards \in [Days -> Seq(Writes)]
  /\ synced \in [Days -> Nat]
  /\ \A d \in Days : synced[d] <= Len(shards[d])

(***************************************************************************)
(* The index numbers its rows 1, 2, 3, ... in one stream, with no gap and  *)
(* no sequence used twice, and the cursor stands just after the last one:  *)
(* whatever crashed or failed, and although reconciliation and allocation  *)
(* are two transactions.                                                   *)
(***************************************************************************)
IndexGapFree ==
  /\ \A r \in rows : r.stream = origin.stream /\ r.seq < origin.next
  /\ \A n \in 1 .. (origin.next - 1) : \E r \in rows : r.seq = n
  /\ \A r, s \in rows : r.seq = s.seq => r = s

(***************************************************************************)
(* At most one row answers one interpretation key, although the key is     *)
(* looked up in the index only and a line that is not there yet may carry  *)
(* the same key.                                                           *)
(***************************************************************************)
OneRowPerKey ==
  \A r, s \in rows : SameKey(r.req.sem, s.req.sem) => r = s

(***************************************************************************)
(* Every recorded generation names a recorded, earlier generation of the   *)
(* same case, also when its row came from a line that its writer left      *)
(* uncommitted.                                                            *)
(***************************************************************************)
LineageGrounded ==
  \A r \in rows : r.req.sem # NoSem => PriorAdmissible(r.req.sem)

(***************************************************************************)
(* A success means both copies: the event of an invocation that added, or  *)
(* that returned an earlier event, is a row of the index ...               *)
(***************************************************************************)
AckIndexed ==
  \A p \in Procs : pc[p] \in {"added", "replayed"} =>
    answer[p] \in rows /\ answer[p].req = req[p]

(* The line of e follows a write that lacks its newline: they are one line. *)
Overrun(e) ==
  \E d \in Days : \E i \in DOMAIN shards[d] :
    i > 1 /\ shards[d][i].event = e /\ shards[d][i-1].part # "whole"

(***************************************************************************)
(* ... and the event of one that added is a line that read_events returns, *)
(* through crashes, failed fsyncs of others and power failures: only the   *)
(* piece of a line that a failed writer left before it can spoil it.       *)
(***************************************************************************)
AddedReadable ==
  \A p \in Procs : pc[p] = "added" => answer[p] \in Readable \/ Overrun(answer[p])

(***************************************************************************)
(* What makes the race between reconciling and allocating harmless to the  *)
(* index.  A line that the index lacks either can be imported as its next  *)
(* row - its sequence is the cursor's, its key is unused, its prior is     *)
(* there - or can never be imported, since a row has its origin or the     *)
(* ledger another stream.                                                  *)
(***************************************************************************)
AtHead(e) ==
  /\ e.seq = origin.next
  /\ origin.stream \in {NoProc, e.stream}
  /\ Unclaimed(e.req.sem)

Refuted(e) ==
  \/ origin.stream \notin {NoProc, e.stream}
  \/ \E r \in rows : SameOrigin(r, e) /\ r # e

UnindexedHarmless == \A e \in Written \ rows : AtHead(e) \/ Refuted(e)

(* An event is its id, wherever a copy of it is: no id is ever used for two. *)
IdsIdentify == \A e, f \in Written \cup rows : e.id = f.id => e = f

(* Two events of the shards never have one origin: the same stream, the same sequence. *)
ShardOriginsUnique == \A e, f \in Written : SameOrigin(e, f) => e = f

(***************************************************************************)
(* Every invocation ends: none waits for the writer lock for ever, and it  *)
(* is free again whichever way its holder left, without a restart of the   *)
(* machine.                                                                *)
(***************************************************************************)
InvocationsEnd == []<>(Live = {} /\ lock = NoProc)

-----------------------------------------------------------------------------
(* What the proofs strengthen the invariants with. *)

(* Between BEGIN IMMEDIATE and the end of its transaction p holds the lock. *)
Exclusive ==
  \A p \in Procs : /\ pc[p] \in Holding => lock = p
                   /\ pc[p] # "idle" => req[p] \in Requests

(* The event a transaction is writing is the index's next row. *)
Drafted ==
  \A p \in Procs : pc[p] \in Writing =>
    /\ answer[p] \in Events
    /\ answer[p].id = p
    /\ answer[p].req = req[p]
    /\ AtHead(answer[p])

(* Nothing bears the name of an invocation before it wrote its line. *)
IdsFresh ==
  \A p \in Procs : \A e \in Written \cup rows :
    e.id = p => pc[p] \in {"fsync", "commit"} \cup Ended
                /\ (pc[p] \in {"fsync", "commit"} => e = answer[p])

IndInv ==
  /\ TypeOK /\ Exclusive /\ Drafted
  /\ IndexGapFree /\ OneRowPerKey /\ LineageGrounded /\ AckIndexed
  /\ UnindexedHarmless /\ IdsIdentify /\ IdsFresh

=============================================================================
