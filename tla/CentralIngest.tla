---------------------------- MODULE CentralIngest ----------------------------
(***************************************************************************)
(* The central observation ledger: calls of central.ingest_observation on  *)
(* one PostgreSQL schema, and readers that page through one stream or all. *)
(*                                                                         *)
(* A call is one transaction of several statements at READ COMMITTED.      *)
(* What other transactions see of it before it commits are its two locks,  *)
(* the advisory lock of its event id and the row of its stream, and the    *)
(* offset it takes from a sequence that no rollback gives back.  A         *)
(* producer that got no answer calls again with the same record: that is   *)
(* another call.                                                           *)
(***************************************************************************)
EXTENDS Naturals, FiniteSets

CONSTANTS
  Calls,      \* calls of ingest_observation
  NoCall,     \* no call: a free lock
  Streams,    \* origin streams
  EventIds,   \* event ids
  Records,    \* the records a call may submit; equal records have equal hashes
  AllStreams, \* a reader that filters by no stream
  Readers,    \* the readers there are: the streams they filter by, or AllStreams
  Limit,      \* the rows a page of a reader may have
  Faults      \* subset of {"abort", "lost"}

ASSUME NoCallAssumption == NoCall \notin Calls \cup Records
ASSUME ReadersAssumption == AllStreams \notin Streams /\ Readers \subseteq Streams \cup {AllStreams}
ASSUME LimitAssumption == Limit \in Nat \ {0}
ASSUME RecordsAssumption ==
  \A r \in Records : /\ {"stream", "seq", "event"} \subseteq DOMAIN r
                     /\ r.stream \in Streams
                     /\ r.seq \in Nat \ {0}
                     /\ r.event \in EventIds

VARIABLES
  pc,          \* where each call stands
  req,         \* the record it submits
  read,        \* the cursor it read from its stream's row
  receipt,     \* the receipt it is about to return, or has returned
  eventLock,   \* event id -> holder of its advisory lock
  streamLock,  \* stream -> the transaction that locks or inserts its row
  registered,  \* streams with a committed ingest_stream row
  highest,     \* their highest_contiguous_seq, 0 for the others
  admitted,    \* committed ingest_observation rows, each with its receipt
  dups,        \* the receipts' duplicate_count
  lastOffset,  \* the last value the ingest_offset sequence gave out
  mark,        \* the watermark each reader continues from
  got,         \* the observations it was given
  overtaken    \* history: the offsets below it that were taken but not yet committed

call == <<pc, req, read, receipt>>
locks == <<eventLock, streamLock>>
tables == <<registered, highest, admitted, dups>>
reader == <<mark, got, overtaken>>
vars == <<call, locks, tables, lastOffset, reader>>

Running == {"begin", "register", "stream", "receipt", "event", "insert", "commit"}
Ended == {"received", "lost", "conflict", "gap", "failed"}
Observations == [rec : Records, offset : Nat \ {0}]
Receipts == [offset : Nat \ {0}, dups : Nat]
Blank == [offset |-> 0]

-----------------------------------------------------------------------------

Init ==
  /\ pc = [p \in Calls |-> "idle"]
  /\ req = [p \in Calls |-> NoCall]
  /\ read = [p \in Calls |-> 0]
  /\ receipt = [p \in Calls |-> Blank]
  /\ eventLock = [e \in EventIds |-> NoCall]
  /\ streamLock = [s \in Streams |-> NoCall]
  /\ registered = {}
  /\ highest = [s \in Streams |-> 0]
  /\ admitted = {}
  /\ dups = [r \in Records |-> 0]
  /\ lastOffset = 0
  /\ mark = [r \in Readers |-> 0]
  /\ got = [r \in Readers |-> {}]
  /\ overtaken = [r \in Readers |-> {}]

Goto(p, l) == pc' = [pc EXCEPT ![p] = l]

(* The end of a transaction, either way, gives up its locks. *)
Unlock(p) ==
  /\ eventLock' = [e \in EventIds |-> IF eventLock[e] = p THEN NoCall ELSE eventLock[e]]
  /\ streamLock' = [s \in Streams |-> IF streamLock[s] = p THEN NoCall ELSE streamLock[s]]

(* Mutant: the exception is caught inside the transaction, which stays open. *)
RollbackLocked(p, verdict) ==
  /\ Goto(p, verdict)
  /\ UNCHANGED <<req, read, receipt, locks, tables, lastOffset, reader>>

(* An exception leaves the transaction block, which rolls it back. *)
Rollback(p, verdict) ==
  /\ Goto(p, verdict)
  /\ Unlock(p)
  /\ UNCHANGED <<req, read, receipt, tables, lastOffset, reader>>

(* A call with a record that prepare_observation accepts begins its transaction. *)
Submit(p) ==
  /\ pc[p] = "idle"
  /\ \E r \in Records : req' = [req EXCEPT ![p] = r]
  /\ Goto(p, "begin")
  /\ UNCHANGED <<read, receipt, locks, tables, lastOffset, reader>>

(* Mutant: without the advisory lock. *)
EventUnlocked(p) ==
  /\ pc[p] = "begin"
  /\ Goto(p, "register")
  /\ UNCHANGED <<req, read, receipt, locks, tables, lastOffset, reader>>

(* The schema is compatible; the event id's advisory lock is free or is waited for. *)
LockEvent(p) ==
  /\ pc[p] = "begin"
  /\ eventLock[req[p].event] = NoCall
  /\ eventLock' = [eventLock EXCEPT ![req[p].event] = p]
  /\ Goto(p, "register")
  /\ UNCHANGED <<req, read, receipt, streamLock, tables, lastOffset, reader>>

(* Mutant: the stream's row is committed on its own. *)
RegisterAtOnce(p) ==
  /\ pc[p] = "register"
  /\ registered' = registered \cup {req[p].stream}
  /\ Goto(p, "stream")
  /\ UNCHANGED <<req, read, receipt, locks, highest, admitted, dups, lastOffset, reader>>

(***************************************************************************)
(* INSERT ... ON CONFLICT DO NOTHING of the stream's row.  A committed row *)
(* is left alone, another transaction's uncommitted one is waited for, and *)
(* otherwise the row is this transaction's until it ends.                  *)
(***************************************************************************)
Register(p) ==
  LET s == req[p].stream IN
  /\ pc[p] = "register"
  /\ \/ s \in registered /\ UNCHANGED streamLock
     \/ /\ s \notin registered
        /\ streamLock[s] = NoCall
        /\ streamLock' = [streamLock EXCEPT ![s] = p]
  /\ Goto(p, "stream")
  /\ UNCHANGED <<req, read, receipt, eventLock, tables, lastOffset, reader>>

(* Mutant: SELECT without FOR UPDATE. *)
ReadStream(p) ==
  LET s == req[p].stream IN
  /\ pc[p] = "stream"
  /\ read' = [read EXCEPT ![p] = highest[s]]
  /\ Goto(p, "receipt")
  /\ UNCHANGED <<req, receipt, locks, tables, lastOffset, reader>>

(* SELECT ... FOR UPDATE of the stream's row: what it reads is committed and locked. *)
LockStream(p) ==
  LET s == req[p].stream IN
  /\ pc[p] = "stream"
  /\ streamLock[s] \in {NoCall, p}
  /\ streamLock' = [streamLock EXCEPT ![s] = p]
  /\ read' = [read EXCEPT ![p] = highest[s]]
  /\ Goto(p, "receipt")
  /\ UNCHANGED <<req, receipt, eventLock, tables, lastOffset, reader>>

(* The committed rows with p's origin tuple, and with its event id. *)
AtOrigin(p) ==
  {a \in admitted : a.rec.stream = req[p].stream /\ a.rec.seq = req[p].seq}
SameEvent(p) == {a \in admitted : a.rec.event = req[p].event}

(* Mutant: a retry that is not counted. *)
DuplicateUncounted(p) ==
  /\ pc[p] = "receipt"
  /\ \E a \in AtOrigin(p) :
       /\ a.rec = req[p]
       /\ receipt' = [receipt EXCEPT ![p] = [offset |-> a.offset, dups |-> dups[a.rec]]]
  /\ Goto(p, "commit")
  /\ UNCHANGED <<req, read, locks, tables, lastOffset, reader>>

(* The tuple is taken by the very same record: its receipt counts one more duplicate. *)
Duplicate(p) ==
  /\ pc[p] = "receipt"
  /\ \E a \in AtOrigin(p) :
       /\ a.rec = req[p]
       /\ receipt' = [receipt EXCEPT ![p] = [offset |-> a.offset, dups |-> dups[a.rec] + 1]]
  /\ Goto(p, "commit")
  /\ UNCHANGED <<req, read, locks, tables, lastOffset, reader>>

(* The tuple is taken by other content. *)
TupleConflict(p) ==
  /\ pc[p] = "receipt"
  /\ \E a \in AtOrigin(p) : a.rec # req[p]
  /\ Rollback(p, "conflict")

TupleFree(p) ==
  /\ pc[p] = "receipt"
  /\ AtOrigin(p) = {}
  /\ Goto(p, "event")
  /\ UNCHANGED <<req, read, receipt, locks, tables, lastOffset, reader>>

(* The event id is taken by a record with another tuple. *)
EventConflict(p) ==
  /\ pc[p] = "event"
  /\ SameEvent(p) # {}
  /\ Rollback(p, "conflict")

(* The sequence is not the next one of its stream. *)
Gap(p) ==
  /\ pc[p] = "event"
  /\ SameEvent(p) = {}
  /\ req[p].seq # read[p] + 1
  /\ Rollback(p, "gap")

(* Mutant: any sequence above the cursor. *)
AboveCursor(p) ==
  /\ pc[p] = "event"
  /\ SameEvent(p) = {}
  /\ req[p].seq > read[p]
  /\ Goto(p, "insert")
  /\ UNCHANGED <<req, read, receipt, locks, tables, lastOffset, reader>>

Contiguous(p) ==
  /\ pc[p] = "event"
  /\ SameEvent(p) = {}
  /\ req[p].seq = read[p] + 1
  /\ Goto(p, "insert")
  /\ UNCHANGED <<req, read, receipt, locks, tables, lastOffset, reader>>

(* Mutant: the offset before the one taken. *)
OffsetBefore(p) ==
  /\ pc[p] = "insert"
  /\ lastOffset' = lastOffset + 1
  /\ receipt' = [receipt EXCEPT ![p] = [offset |-> lastOffset, dups |-> 0]]
  /\ Goto(p, "commit")
  /\ UNCHANGED <<req, read, locks, tables, reader>>

(***************************************************************************)
(* The observation takes its offset when it is inserted; its receipt and   *)
(* the new cursor follow in the same transaction.                          *)
(***************************************************************************)
Insert(p) ==
  /\ pc[p] = "insert"
  /\ lastOffset' = lastOffset + 1
  /\ receipt' = [receipt EXCEPT ![p] = [offset |-> lastOffset + 1, dups |-> 0]]
  /\ Goto(p, "commit")
  /\ UNCHANGED <<req, read, locks, tables, reader>>

(* Mutant: the cursor update forgotten. *)
CursorKept(p) ==
  /\ admitted' = admitted \cup {[rec |-> req[p], offset |-> receipt[p].offset]}
  /\ registered' = registered \cup {req[p].stream}
  /\ dups' = [dups EXCEPT ![req[p]] = receipt[p].dups]
  /\ UNCHANGED highest

(* What p's transaction wrote: a new observation, or one more duplicate of an old one. *)
Write(p) ==
  /\ dups' = [dups EXCEPT ![req[p]] = receipt[p].dups]
  /\ IF receipt[p].dups = 0
     THEN /\ admitted' = admitted \cup {[rec |-> req[p], offset |-> receipt[p].offset]}
          /\ registered' = registered \cup {req[p].stream}
          /\ highest' = [highest EXCEPT ![req[p].stream] = req[p].seq]
     ELSE UNCHANGED <<admitted, registered, highest>>

(* The commit, whose answer may be lost on the way to the producer. *)
Commit(p) ==
  /\ pc[p] = "commit"
  /\ Write(p)
  /\ \E l \in {"received"} \cup ({"lost"} \cap Faults) : Goto(p, l)
  /\ Unlock(p)
  /\ UNCHANGED <<req, read, receipt, lastOffset, reader>>

(* A statement or the commit raises, or the connection or the service is gone. *)
Abort(p) ==
  /\ "abort" \in Faults
  /\ pc[p] \in Running
  /\ Rollback(p, "failed")

-----------------------------------------------------------------------------
(* Readers. *)

(* The committed rows that r's filter passes. *)
Visible(r) == {a \in admitted : r \in {AllStreams, a.rec.stream}}

(* Those beyond the watermark, and the first Limit of them. *)
Beyond(r) == {a \in Visible(r) : a.offset > mark[r]}
Page(r) ==
  {a \in Beyond(r) : Cardinality({b \in Beyond(r) : b.offset <= a.offset}) <= Limit}

(* Mutant: the watermark of the newest row there is. *)
MarkNewest(r, m) == m = lastOffset

(* The watermark returned with a page is the offset of its last row. *)
Watermark(r, m) ==
  /\ \E a \in Page(r) : a.offset = m
  /\ \A a \in Page(r) : a.offset <= m

(* The offsets that transactions have taken and may still commit. *)
InFlight == {receipt[p].offset : p \in {q \in Calls : pc[q] = "commit" /\ receipt[q].dups = 0}}

(* One list_observations, continued from the last one's watermark. *)
ReadPage(r) ==
  /\ Page(r) # {}
  /\ got' = [got EXCEPT ![r] = @ \cup Page(r)]
  /\ \E m \in 1 .. lastOffset :
       /\ Watermark(r, m)
       /\ mark' = [mark EXCEPT ![r] = m]
       /\ overtaken' = [overtaken EXCEPT ![r] = @ \cup {n \in InFlight : n < m}]
  /\ UNCHANGED <<call, locks, tables, lastOffset>>

-----------------------------------------------------------------------------

Step(p) ==
  \/ LockEvent(p) \/ Register(p) \/ LockStream(p)
  \/ Duplicate(p) \/ TupleConflict(p) \/ TupleFree(p)
  \/ EventConflict(p) \/ Gap(p) \/ Contiguous(p)
  \/ Insert(p) \/ Commit(p)

Next ==
  \/ \E p \in Calls : Submit(p) \/ Step(p) \/ Abort(p)
  \/ \E r \in Readers : ReadPage(r)

Spec == Init /\ [][Next]_vars

(* The database keeps executing the statements of a call that need not wait. *)
FairSpec == Spec /\ \A p \in Calls : WF_vars(Step(p))

-----------------------------------------------------------------------------
(* Properties. *)

TypeOK ==
  /\ pc \in [Calls -> {"idle"} \cup Running \cup Ended]
  /\ req \in [Calls -> Records \cup {NoCall}]
  /\ read \in [Calls -> Nat]
  /\ receipt \in [Calls -> Receipts \cup {Blank}]
  /\ eventLock \in [EventIds -> Calls \cup {NoCall}]
  /\ streamLock \in [Streams -> Calls \cup {NoCall}]
  /\ registered \subseteq Streams
  /\ highest \in [Streams -> Nat]
  /\ admitted \subseteq Observations
  /\ dups \in [Records -> Nat]
  /\ lastOffset \in Nat
  /\ mark \in [Readers -> Nat]
  /\ got \in [Readers -> SUBSET Observations]
  /\ overtaken \in [Readers -> SUBSET Nat]

(***************************************************************************)
(* The cursor is what it is named: a stream's admitted sequences are 1 up  *)
(* to its highest_contiguous_seq, each admitted once, however calls        *)
(* interleave and abort.  And a refused or broken call leaves no trace: a  *)
(* stream has a row, which is inserted before anything is checked, only if *)
(* it has an observation.                                                  *)
(***************************************************************************)
StreamsContiguous ==
  \A s \in Streams :
    LET own == {a \in admitted : a.rec.stream = s} IN
    /\ \A a \in own : a.rec.seq <= highest[s]
    /\ \A n \in 1 .. highest[s] : \E a \in own : a.rec.seq = n
    /\ \A a, b \in own : a.rec.seq = b.rec.seq => a = b
    /\ s \in registered => own # {}

(***************************************************************************)
(* What a call found under its locks still holds when it writes: no other  *)
(* call took its tuple, its event id or its place in the stream since.     *)
(* The translation of a unique violation is never needed, nor can the      *)
(* receipt's constraints be hit.                                           *)
(***************************************************************************)
PrechecksHold ==
  \A p \in Calls :
    pc[p] \in {"insert", "commit"} =>
      \/ [rec |-> req[p], offset |-> receipt[p].offset] \in admitted
      \/ AtOrigin(p) = {} /\ SameEvent(p) = {} /\ req[p].seq = highest[req[p].stream] + 1

(***************************************************************************)
(* A returned receipt names the admitted record it answers, and its        *)
(* offset, and every retry is counted once: of the calls answered for one  *)
(* record no two have the same duplicate count, so that just one is told   *)
(* that its record was new.                                                *)
(***************************************************************************)
ReceiptsRight ==
  \A p \in Calls : pc[p] = "received" =>
    /\ [rec |-> req[p], offset |-> receipt[p].offset] \in admitted
    /\ \A q \in Calls \ {p} :
         pc[q] = "received" /\ req[q] = req[p] => receipt[q].dups # receipt[p].dups

(***************************************************************************)
(* A reader that pages by watermark through one stream misses nothing:     *)
(* although offsets are taken before the commit, no row of its stream can  *)
(* turn up below a watermark it was given.  A reader of all streams can    *)
(* miss a row, but only one whose transaction had its offset and had not   *)
(* committed when a page went past it.                                     *)
(***************************************************************************)
ReadersComplete ==
  \A r \in Readers : \A a \in Visible(r) :
    a.offset <= mark[r] =>
      a \in got[r] \/ (r = AllStreams /\ a.offset \in overtaken[r])

(* No two calls wait for each other, nor for a lock that was kept: every call ends. *)
CallsEnd == []<>(\A p \in Calls : pc[p] \notin Running)

=============================================================================
