---------------------------- MODULE CentralProofs ----------------------------
(***************************************************************************)
(* The central ledger, for any number of calls, streams, records and       *)
(* readers and under every fault: IndInv is inductive, and with it every   *)
(* step of the detailed specification is a step of CentralLog or none.     *)
(*                                                                         *)
(* A call that has found something has it under a lock it still holds, so  *)
(* it is still so when the call writes: that is CallInv.  An offset, once  *)
(* taken, stays in flight until its transaction ends, and the lock on its  *)
(* stream keeps all others of the stream in front of or behind it: that is *)
(* OffsetInv, and why a reader of one stream passes over nothing.          *)
(***************************************************************************)
EXTENDS CentralRefinement, TLAPS, FiniteSetTheorems, SequenceTheorems

(* Where a transaction holds the lock of its event id, and of its stream's row. *)
EventLocked == Running \ {"begin"}
StreamLocked == {"receipt", "event", "insert", "commit"}

(* It inserted an observation that is not committed. *)
Inserted(p) == pc[p] = "commit" /\ receipt[p].dups = 0

(* Nothing admitted has its tuple or its event id, and it is the stream's next. *)
Fresh(p) ==
  /\ AtOrigin(p) = {}
  /\ SameEvent(p) = {}
  /\ req[p].seq = highest[req[p].stream] + 1

(***************************************************************************)
(* What the properties rest on: the locks are held, so what a call read    *)
(* under them is still there.                                              *)
(***************************************************************************)
HeldBy(p) ==
  /\ pc[p] = "idle" <=> req[p] = NoCall
  /\ pc[p] \in EventLocked => eventLock[req[p].event] = p
  /\ pc[p] \in StreamLocked =>
       streamLock[req[p].stream] = p /\ read[p] = highest[req[p].stream]

FoundBy(p) ==
  /\ pc[p] = "event" => AtOrigin(p) = {}
  /\ pc[p] = "insert" => Fresh(p)
  /\ pc[p] = "commit" =>
       /\ receipt[p] \in Receipts
       /\ receipt[p].dups = 0 => Fresh(p)
       /\ receipt[p].dups # 0 =>
            /\ [rec |-> req[p], offset |-> receipt[p].offset] \in admitted
            /\ receipt[p].dups = dups[req[p]] + 1

CallInv == \A p \in Calls : HeldBy(p) /\ FoundBy(p)

(* A returned receipt's duplicate count is at most the record's, so the next differs. *)
ReceiptInv ==
  \A p \in Calls : pc[p] = "received" =>
    receipt[p] \in Receipts /\ receipt[p].dups <= dups[req[p]]

(***************************************************************************)
(* The offset an uncommitted observation holds is nobody else's and behind *)
(* every admitted one of its stream; a reader either has not come to it,   *)
(* or is one of all streams that went past it knowingly.                   *)
(***************************************************************************)
OffsetInv ==
  /\ IsFiniteSet(admitted)
  /\ \A a \in admitted : a.offset <= lastOffset
  /\ \A r \in Readers : mark[r] <= lastOffset
  /\ \A p \in Calls : Inserted(p) =>
       /\ receipt[p].offset <= lastOffset
       /\ \A a \in admitted :
            /\ a.offset # receipt[p].offset
            /\ a.rec.stream = req[p].stream => a.offset < receipt[p].offset
       /\ \A q \in Calls \ {p} : Inserted(q) => receipt[q].offset # receipt[p].offset
       /\ \A r \in Readers :
            r \in {AllStreams, req[p].stream} /\ receipt[p].offset <= mark[r] =>
              r = AllStreams /\ receipt[p].offset \in overtaken[r]

IndInv ==
  /\ TypeOK /\ CallInv /\ ReceiptInv /\ OffsetInv
  /\ StreamsContiguous /\ ReceiptsRight /\ ReadersComplete

-----------------------------------------------------------------------------

(* The fields of a record, as RecordAssumption gives them. *)
LEMMA RecordTypes ==
  ASSUME NEW r \in Records
  PROVE  r.stream \in Streams /\ r.seq \in Nat \ {0} /\ r.event \in EventIds
BY RecordsAssumption

(* A call past its submission has a record. *)
LEMMA Submitted ==
  ASSUME TypeOK, CallInv, NEW p \in Calls, pc[p] # "idle"
  PROVE  req[p] \in Records
BY NoCallAssumption DEF TypeOK, CallInv, HeldBy

(* The empty ledger satisfies the invariant. *)
LEMMA InitInv == Init => IndInv
<1> SUFFICES ASSUME Init
             PROVE  IndInv
  OBVIOUS
<1> USE DEF Init
<1>1. TypeOK
  BY DEF TypeOK, Blank
<1>2. CallInv
  BY DEF CallInv, HeldBy, FoundBy, EventLocked, StreamLocked, Running
<1>3. ReceiptInv /\ ReceiptsRight
  BY DEF ReceiptInv, ReceiptsRight
<1>4. OffsetInv
  BY FS_EmptySet DEF OffsetInv, Inserted
<1>5. StreamsContiguous
  BY DEF StreamsContiguous
<1>6. ReadersComplete
  BY DEF ReadersComplete, Visible
<1> QED
  BY <1>1, <1>2, <1>3, <1>4, <1>5, <1>6 DEF IndInv

-----------------------------------------------------------------------------
(* Types. *)

(* A rollback keeps the types: offsets it took stay taken. *)
LEMMA RollbackType ==
  ASSUME TypeOK, NEW p \in Calls, NEW v \in Ended, Rollback(p, v)
  PROVE  TypeOK'
BY DEF TypeOK, Rollback, Goto, Unlock, locks, tables, reader, Observations

(* So does a commit, which publishes its draft. *)
LEMMA CommitType ==
  ASSUME TypeOK, CallInv, NEW p \in Calls, Commit(p)
  PROVE  TypeOK'
<1>1. req[p] \in Records /\ req[p].stream \in Streams /\ req[p].seq \in Nat
  BY Submitted, RecordTypes DEF Commit
<1>2. receipt[p] \in Receipts
  BY DEF Commit, CallInv, FoundBy
<1>3. [rec |-> req[p], offset |-> receipt[p].offset] \in Observations
  BY <1>1, <1>2 DEF Observations, Receipts
<1>4. /\ admitted' \subseteq Observations /\ registered' \subseteq Streams
      /\ highest' \in [Streams -> Nat] /\ dups' \in [Records -> Nat]
  BY <1>1, <1>2, <1>3 DEF TypeOK, Commit, Write, Receipts
<1> QED
  BY <1>4 DEF TypeOK, Commit, Goto, Unlock, reader, Ended

(* Every step keeps the types. *)
LEMMA TypeStep == TypeOK /\ CallInv /\ [Next]_vars => TypeOK'
<1> SUFFICES ASSUME TypeOK, CallInv, [Next]_vars
             PROVE  TypeOK'
  OBVIOUS
<1>1. CASE UNCHANGED vars
  BY <1>1 DEF TypeOK, vars, call, locks, tables, reader
<1>2. ASSUME NEW r \in Readers, ReadPage(r)
      PROVE  TypeOK'
  <2>1. Page(r) \subseteq Observations
    BY DEF Page, Beyond, Visible, TypeOK
  <2>2. InFlight \subseteq Nat
    <3>1. \A p \in Calls : pc[p] = "commit" => receipt[p] \in Receipts
      BY DEF CallInv, FoundBy
    <3> QED
      BY <3>1 DEF InFlight, Receipts
  <2>3. PICK m \in 1 .. lastOffset :
          /\ mark' = [mark EXCEPT ![r] = m]
          /\ overtaken' = [overtaken EXCEPT ![r] = @ \cup {n \in InFlight : n < m}]
    BY <1>2 DEF ReadPage
  <2>4. mark' \in [Readers -> Nat] /\ overtaken' \in [Readers -> SUBSET Nat]
    <3>1. m \in Nat /\ {n \in InFlight : n < m} \subseteq Nat
      <4>1. lastOffset \in Nat
        BY DEF TypeOK
      <4>2. m \in Nat
        BY <4>1
      <4>3. {n \in InFlight : n < m} \subseteq Nat
        BY <2>2, Zenon
      <4> QED
        BY <4>2, <4>3
    <3>2. \A S \in SUBSET Nat : [overtaken EXCEPT ![r] = @ \cup S] \in [Readers -> SUBSET Nat]
      BY DEF TypeOK
    <3> QED
      BY <2>3, <3>1, <3>2 DEF TypeOK
  <2>5. got' \in [Readers -> SUBSET Observations]
    BY <1>2, <2>1 DEF TypeOK, ReadPage
  <2> QED
    BY <1>2, <2>4, <2>5 DEF TypeOK, ReadPage, call, locks, tables
<1>3. ASSUME NEW p \in Calls, Submit(p) \/ Step(p) \/ Abort(p)
      PROVE  TypeOK'
  <2>1. CASE Submit(p)
    BY <2>1 DEF TypeOK, Submit, Goto, locks, tables, reader, Running
  <2>2. CASE Abort(p)
    BY <2>2, RollbackType DEF Abort, Ended
  <2>3. CASE TupleConflict(p) \/ EventConflict(p) \/ Gap(p)
    BY <2>3, RollbackType DEF TupleConflict, EventConflict, Gap, Ended
  <2>4. CASE Commit(p)
    BY <2>4, CommitType
  <2>5. ASSUME pc[p] # "idle"
        PROVE  /\ req[p] \in Records
               /\ req[p].stream \in Streams
               /\ req[p].event \in EventIds
    BY <2>5, Submitted, RecordTypes
  <2>6. CASE LockEvent(p)
    BY <2>5, <2>6 DEF TypeOK, LockEvent, Goto, tables, reader, Running
  <2>7. CASE Register(p)
    BY <2>5, <2>7 DEF TypeOK, Register, Goto, tables, reader, Running
  <2>8. CASE LockStream(p)
    BY <2>5, <2>8 DEF TypeOK, LockStream, Goto, tables, reader, Running
  <2>9. CASE Duplicate(p)
    <3>1. PICK a \in AtOrigin(p) :
            /\ a.rec = req[p]
            /\ receipt' = [receipt EXCEPT ![p] = [offset |-> a.offset, dups |-> dups[a.rec] + 1]]
      BY <2>9 DEF Duplicate
    <3>2. a \in Observations
      BY DEF AtOrigin, TypeOK
    <3>3. [offset |-> a.offset, dups |-> dups[a.rec] + 1] \in Receipts
      BY <3>2 DEF TypeOK, Observations, Receipts
    <3> QED
      BY <2>9, <3>1, <3>3 DEF TypeOK, Duplicate, Goto, locks, tables, reader, Running
  <2>10. CASE TupleFree(p) \/ Contiguous(p)
    BY <2>10 DEF TypeOK, TupleFree, Contiguous, Goto, locks, tables, reader, Running
  <2>11. CASE Insert(p)
    BY <2>11 DEF TypeOK, Insert, Goto, locks, tables, reader, Running, Receipts
  <2> QED
    BY <1>3, <2>1, <2>2, <2>3, <2>4, <2>6, <2>7, <2>8, <2>9, <2>10, <2>11 DEF Step
<1> QED
  BY <1>1, <1>2, <1>3 DEF Next

-----------------------------------------------------------------------------
(* The calls. *)

(* What a call holds and found survives a step of another that leaves it so. *)
LEMMA OthersKeep ==
  ASSUME TypeOK, CallInv, NEW q \in Calls,
         pc'[q] = pc[q], req'[q] = req[q], read'[q] = read[q], receipt'[q] = receipt[q],
         \A e \in EventIds : eventLock[e] = q => eventLock'[e] = q,
         \A s \in Streams : streamLock[s] = q => streamLock'[s] = q,
         UNCHANGED tables
  PROVE  HeldBy(q)' /\ FoundBy(q)'
<1>1. pc[q] # "idle" =>
        /\ req[q] \in Records
        /\ req[q].stream \in Streams
        /\ req[q].event \in EventIds
  BY Submitted, RecordTypes
<1>2. pc[q] \in EventLocked \cup StreamLocked => pc[q] # "idle"
  BY DEF EventLocked, StreamLocked, Running
<1>3. HeldBy(q)'
  BY <1>1, <1>2 DEF CallInv, HeldBy, tables
<1>4. AtOrigin(q)' = AtOrigin(q) /\ SameEvent(q)' = SameEvent(q)
  BY DEF AtOrigin, SameEvent, tables
<1>5. FoundBy(q)'
  BY <1>4 DEF CallInv, FoundBy, Fresh, tables
<1> QED
  BY <1>3, <1>5

(* A rollback frees the call's own locks and leaves the others' findings. *)
LEMMA RollbackCall ==
  ASSUME TypeOK, CallInv, NEW p \in Calls, NEW v \in Ended, Rollback(p, v), pc[p] # "idle"
  PROVE  CallInv'
<1>1. ASSUME NEW q \in Calls \ {p}
      PROVE  HeldBy(q)' /\ FoundBy(q)'
  BY OthersKeep DEF TypeOK, Rollback, Goto, Unlock, tables
<1>2. HeldBy(p)' /\ FoundBy(p)'
  <2>1. pc'[p] = v /\ req'[p] = req[p] /\ req[p] # NoCall
    BY DEF TypeOK, CallInv, HeldBy, Rollback, Goto
  <2>2. v \notin {"idle"} \cup EventLocked \cup StreamLocked
    BY DEF Ended, EventLocked, StreamLocked, Running
  <2> QED
    BY <2>1, <2>2 DEF HeldBy, FoundBy, StreamLocked
<1> QED
  BY <1>1, <1>2 DEF CallInv

(***************************************************************************)
(* Another call's commit is to other rows than those a call found missing, *)
(* and moves neither its stream's cursor nor its record's duplicates: the  *)
(* locks keep them apart.                                                  *)
(***************************************************************************)
LEMMA CommitElsewhere ==
  ASSUME TypeOK, CallInv, NEW p \in Calls, Commit(p), NEW q \in Calls \ {p}
  PROVE  /\ pc[q] \in StreamLocked => /\ req[q].stream # req[p].stream
                                     /\ highest'[req[q].stream] = highest[req[q].stream]
                                     /\ AtOrigin(q)' = AtOrigin(q)
         /\ pc[q] \in EventLocked => /\ req[q].event # req[p].event
                                    /\ dups'[req[q]] = dups[req[q]]
                                    /\ SameEvent(q)' = SameEvent(q)
         /\ admitted \subseteq admitted'
<1>1. pc[p] = "commit" /\ req'[q] = req[q] /\ Write(p)
  BY DEF Commit
<1>2. /\ pc[p] \in StreamLocked \cap EventLocked
      /\ req[p] \in Records
      /\ streamLock[req[p].stream] = p
      /\ eventLock[req[p].event] = p
  BY <1>1, Submitted DEF CallInv, HeldBy, EventLocked, StreamLocked, Running
<1>3. /\ admitted \subseteq admitted'
      /\ \A a \in admitted' \ admitted : a.rec = req[p]
  BY <1>1 DEF Write
<1>4. ASSUME pc[q] \in StreamLocked
      PROVE  /\ req[q].stream # req[p].stream
             /\ highest'[req[q].stream] = highest[req[q].stream]
             /\ AtOrigin(q)' = AtOrigin(q)
  <2>1. req[q] \in Records /\ req[q].stream \in Streams
    BY <1>4, Submitted, RecordTypes DEF StreamLocked
  <2>2. req[q].stream # req[p].stream
    BY <1>2, <1>4 DEF CallInv, HeldBy
  <2> QED
    BY <1>1, <1>3, <2>1, <2>2 DEF TypeOK, Write, AtOrigin
<1>5. ASSUME pc[q] \in EventLocked
      PROVE  /\ req[q].event # req[p].event
             /\ dups'[req[q]] = dups[req[q]]
             /\ SameEvent(q)' = SameEvent(q)
  <2>1. req[q] \in Records
    BY <1>5, Submitted DEF EventLocked, Running
  <2>2. req[q].event # req[p].event
    BY <1>2, <1>5 DEF CallInv, HeldBy
  <2> QED
    BY <1>1, <1>3, <2>1, <2>2 DEF TypeOK, Write, SameEvent
<1> QED
  BY <1>3, <1>4, <1>5

(* What a commit adds is under locks that no other running call holds. *)
LEMMA CommitCall ==
  ASSUME TypeOK, CallInv, NEW p \in Calls, Commit(p)
  PROVE  CallInv'
<1>1. ASSUME NEW q \in Calls \ {p}
      PROVE  HeldBy(q)' /\ FoundBy(q)'
  <2>1. /\ pc'[q] = pc[q] /\ req'[q] = req[q]
        /\ read'[q] = read[q] /\ receipt'[q] = receipt[q]
    BY DEF TypeOK, Commit, Goto
  <2>2. /\ \A e \in EventIds : eventLock[e] = q => eventLock'[e] = q
        /\ \A s \in Streams : streamLock[s] = q => streamLock'[s] = q
    BY DEF TypeOK, Commit, Unlock
  <2>3. pc[q] # "idle" =>
          /\ req[q] \in Records
          /\ req[q].stream \in Streams
          /\ req[q].event \in EventIds
    BY Submitted, RecordTypes
  <2>4. HeldBy(q)'
    BY <2>1, <2>2, <2>3, CommitElsewhere
       DEF CallInv, HeldBy, EventLocked, StreamLocked, Running
  <2>5. /\ pc[q] \in {"event", "insert", "commit"} => pc[q] \in StreamLocked \cap EventLocked
        /\ Fresh(q) /\ pc[q] \in StreamLocked \cap EventLocked => Fresh(q)'
    BY <2>1, CommitElsewhere DEF EventLocked, StreamLocked, Running, Fresh
  <2>6. FoundBy(q)'
    BY <2>1, <2>5, CommitElsewhere DEF CallInv, FoundBy
  <2> QED
    BY <2>4, <2>6
<1>2. HeldBy(p)' /\ FoundBy(p)'
  <2>1. pc'[p] \in {"received", "lost"} /\ req'[p] = req[p] /\ pc[p] = "commit"
    BY DEF TypeOK, Commit, Goto
  <2> QED
    BY <2>1 DEF CallInv, HeldBy, FoundBy, EventLocked, StreamLocked, Running
<1> QED
  BY <1>1, <1>2 DEF CallInv

(* The steps of one call keep what every call holds and found. *)
LEMMA StepCall ==
  ASSUME TypeOK, CallInv, NEW p \in Calls, Submit(p) \/ Step(p) \/ Abort(p)
  PROVE  CallInv'
<1> USE DEF EventLocked, StreamLocked, Running
<1>1. CASE Commit(p)
  BY <1>1, CommitCall
<1>2. CASE Abort(p) \/ TupleConflict(p) \/ EventConflict(p) \/ Gap(p)
  BY <1>2, RollbackCall DEF Abort, TupleConflict, EventConflict, Gap, Ended
<1>3. ASSUME HeldBy(p)' /\ FoundBy(p)',
             \/ Submit(p) \/ LockEvent(p) \/ Register(p) \/ LockStream(p) \/ Duplicate(p)
             \/ TupleFree(p) \/ Contiguous(p) \/ Insert(p)
      PROVE  CallInv'
  <2>1. ASSUME NEW q \in Calls \ {p}
        PROVE  HeldBy(q)' /\ FoundBy(q)'
    <3>1. /\ pc'[q] = pc[q] /\ req'[q] = req[q]
          /\ read'[q] = read[q] /\ receipt'[q] = receipt[q]
      BY <1>3 DEF TypeOK, Submit, LockEvent, Register, LockStream, Duplicate,
                  TupleFree, Contiguous, Insert, Goto
    <3>2. \A e \in EventIds : eventLock[e] = q => eventLock'[e] = q
      BY <1>3, NoCallAssumption DEF TypeOK, Submit, LockEvent, Register, LockStream,
                  Duplicate, TupleFree, Contiguous, Insert, locks
    <3>3. \A s \in Streams : streamLock[s] = q => streamLock'[s] = q
      BY <1>3, NoCallAssumption DEF TypeOK, Submit, LockEvent, Register, LockStream,
                  Duplicate, TupleFree, Contiguous, Insert, locks
    <3>4. UNCHANGED tables
      BY <1>3 DEF Submit, LockEvent, Register, LockStream, Duplicate,
                  TupleFree, Contiguous, Insert, tables
    <3> QED
      BY <3>1, <3>2, <3>3, <3>4, OthersKeep
  <2> QED
    BY <1>3, <2>1 DEF CallInv
<1>4. ASSUME pc[p] # "idle"
      PROVE  /\ req[p] \in Records /\ req[p] # NoCall
             /\ req[p].stream \in Streams
             /\ req[p].event \in EventIds
  BY <1>4, Submitted, RecordTypes, NoCallAssumption
<1>5. UNCHANGED <<req, tables>> => AtOrigin(p)' = AtOrigin(p) /\ SameEvent(p)' = SameEvent(p)
  BY DEF AtOrigin, SameEvent, tables
<1>6. CASE Submit(p)
  <2>1. pc'[p] = "begin" /\ req'[p] # NoCall
    BY <1>6, NoCallAssumption DEF TypeOK, Submit, Goto
  <2> QED
    BY <1>3, <1>6, <2>1 DEF HeldBy, FoundBy
<1>7. CASE LockEvent(p)
  <2>1. pc'[p] = "register" /\ req'[p] # NoCall /\ eventLock'[req'[p].event] = p
    BY <1>4, <1>7 DEF TypeOK, LockEvent, Goto
  <2> QED
    BY <1>3, <1>7, <2>1 DEF HeldBy, FoundBy
<1>8. CASE Register(p)
  <2>1. pc'[p] = "stream" /\ req'[p] # NoCall /\ eventLock'[req'[p].event] = p
    BY <1>4, <1>8 DEF TypeOK, Register, Goto, CallInv, HeldBy
  <2> QED
    BY <1>3, <1>8, <2>1 DEF HeldBy, FoundBy
<1>9. CASE LockStream(p)
  <2>1. /\ pc'[p] = "receipt" /\ req'[p] # NoCall /\ eventLock'[req'[p].event] = p
        /\ streamLock'[req'[p].stream] = p /\ read'[p] = highest'[req'[p].stream]
    BY <1>4, <1>9 DEF TypeOK, LockStream, Goto, tables, CallInv, HeldBy
  <2> QED
    BY <1>3, <1>9, <2>1 DEF HeldBy, FoundBy
<1>10. ASSUME pc[p] \in {"receipt", "event", "insert"},
              pc'[p] \in StreamLocked, UNCHANGED <<req, read, locks, tables>>
       PROVE  HeldBy(p)'
  BY <1>4, <1>10 DEF CallInv, HeldBy, locks, tables
<1>11. CASE Duplicate(p)
  <2>1. PICK a \in AtOrigin(p) :
          /\ a.rec = req[p]
          /\ receipt' = [receipt EXCEPT ![p] = [offset |-> a.offset, dups |-> dups[a.rec] + 1]]
    BY <1>11 DEF Duplicate
  <2>2. a \in Observations /\ a \in admitted /\ pc'[p] = "commit"
    BY <1>11 DEF TypeOK, AtOrigin, Duplicate, Goto
  <2>3. /\ receipt'[p] = [offset |-> a.offset, dups |-> dups[req[p]] + 1]
        /\ receipt'[p] \in Receipts
        /\ receipt'[p].dups # 0
    BY <1>4, <1>11, <2>1, <2>2 DEF TypeOK, Duplicate, Observations, Receipts
  <2>4. a = [rec |-> req[p], offset |-> receipt'[p].offset]
    BY <2>1, <2>2, <2>3 DEF Observations
  <2>5. FoundBy(p)'
    BY <1>11, <2>2, <2>3, <2>4 DEF Duplicate, FoundBy, tables
  <2> QED
    BY <1>3, <1>10, <1>11, <2>2, <2>5 DEF Duplicate
<1>12. CASE TupleFree(p)
  <2>1. pc'[p] = "event" /\ FoundBy(p)'
    BY <1>5, <1>12 DEF TypeOK, TupleFree, Goto, FoundBy
  <2> QED
    BY <1>3, <1>10, <1>12, <2>1 DEF TupleFree
<1>13. CASE Contiguous(p)
  <2>1. Fresh(p)
    BY <1>13 DEF Contiguous, Fresh, CallInv, FoundBy, HeldBy
  <2>2. pc'[p] = "insert" /\ FoundBy(p)'
    BY <1>5, <1>13, <2>1 DEF TypeOK, Contiguous, Goto, FoundBy, Fresh, tables
  <2> QED
    BY <1>3, <1>10, <1>13, <2>2 DEF Contiguous
<1>14. CASE Insert(p)
  <2>1. /\ pc'[p] = "commit" /\ receipt'[p] \in Receipts /\ receipt'[p].dups = 0
        /\ Fresh(p)
    <3>1. lastOffset \in Nat /\ receipt'[p] = [offset |-> lastOffset + 1, dups |-> 0]
      BY <1>14 DEF TypeOK, Insert
    <3>2. receipt'[p] \in Receipts /\ receipt'[p].dups = 0
      BY <3>1 DEF Receipts
    <3>3. pc'[p] = "commit" /\ Fresh(p)
      BY <1>14 DEF TypeOK, Insert, Goto, CallInv, FoundBy
    <3> QED
      BY <3>2, <3>3
  <2>2. FoundBy(p)'
    BY <1>5, <1>14, <2>1 DEF Insert, FoundBy, Fresh, tables
  <2> QED
    BY <1>3, <1>10, <1>14, <2>1, <2>2 DEF Insert
<1> QED
  BY <1>1, <1>2, <1>6, <1>7, <1>8, <1>9, <1>11, <1>12, <1>13, <1>14 DEF Step

-----------------------------------------------------------------------------
(* Tables, receipts, offsets and readers. *)

TablesInv ==
  /\ ReceiptInv /\ OffsetInv /\ StreamsContiguous /\ ReceiptsRight /\ ReadersComplete

(* Most steps write no table, and add neither an answer nor an uncommitted observation. *)
LEMMA QuietTables ==
  ASSUME TablesInv, UNCHANGED <<tables, lastOffset, reader>>,
         \A q \in Calls :
           /\ Inserted(q)' \/ pc'[q] = "received" => UNCHANGED <<pc[q], req[q], receipt[q]>>
  PROVE  TablesInv'
<1>1. UNCHANGED <<registered, highest, admitted, dups, lastOffset, mark, got, overtaken>>
  BY DEF tables, reader
<1>2. \A q \in Calls : Inserted(q)' => Inserted(q) /\ UNCHANGED <<req[q], receipt[q]>>
  BY DEF Inserted
<1>3. ReceiptInv' /\ ReceiptsRight'
  BY <1>1 DEF TablesInv, ReceiptInv, ReceiptsRight
<1>4. OffsetInv'
  BY <1>1, <1>2 DEF TablesInv, OffsetInv
<1>5. StreamsContiguous' /\ ReadersComplete'
  BY <1>1 DEF TablesInv, StreamsContiguous, ReadersComplete, Visible
<1> QED
  BY <1>3, <1>4, <1>5 DEF TablesInv

(* The offset an insertion takes is above all that were taken before. *)
LEMMA InsertTables ==
  ASSUME TypeOK, CallInv, TablesInv, NEW p \in Calls, Insert(p)
  PROVE  TablesInv'
<1>1. UNCHANGED <<req, registered, highest, admitted, dups, mark, got, overtaken>>
  BY DEF Insert, tables, reader
<1>2. /\ lastOffset \in Nat /\ lastOffset' = lastOffset + 1
      /\ pc'[p] = "commit" /\ receipt'[p].offset = lastOffset + 1
      /\ \A q \in Calls \ {p} : UNCHANGED <<pc[q], receipt[q]>>
  BY DEF TypeOK, Insert, Goto
<1>3. ReceiptInv' /\ ReceiptsRight'
  BY <1>1, <1>2 DEF TablesInv, ReceiptInv, ReceiptsRight
<1>4. OffsetInv'
  <2>1. /\ \A a \in admitted : a.offset \in Nat /\ a.offset <= lastOffset
        /\ \A r \in Readers : mark[r] \in Nat /\ mark[r] <= lastOffset
    BY DEF TypeOK, Observations, TablesInv, OffsetInv
  <2>2. \A q \in Calls \ {p} : Inserted(q)' => /\ Inserted(q)
                                             /\ receipt[q] \in Receipts
    BY <1>2 DEF Inserted, CallInv, FoundBy
  <2> QED
    BY <1>1, <1>2, <2>1, <2>2 DEF TablesInv, OffsetInv, Receipts
<1>5. StreamsContiguous' /\ ReadersComplete'
  BY <1>1 DEF TablesInv, StreamsContiguous, ReadersComplete, Visible
<1> QED
  BY <1>3, <1>4, <1>5 DEF TablesInv

(* The commit of one more duplicate. *)
LEMMA DuplicateTables ==
  ASSUME TypeOK, CallInv, TablesInv, NEW p \in Calls, Commit(p), receipt[p].dups # 0
  PROVE  TablesInv'
<1>1. /\ UNCHANGED <<req, receipt, registered, highest, admitted, lastOffset, mark, got, overtaken>>
      /\ dups' = [dups EXCEPT ![req[p]] = receipt[p].dups]
  BY DEF Commit, Write, reader
<1>2. /\ req[p] \in Records
      /\ receipt[p] \in Receipts
      /\ [rec |-> req[p], offset |-> receipt[p].offset] \in admitted
      /\ dups[req[p]] \in Nat
      /\ receipt[p].dups = dups[req[p]] + 1
  BY Submitted DEF TypeOK, Commit, CallInv, FoundBy
<1>3. \A q \in Calls \ {p} : pc'[q] = pc[q]
  BY DEF TypeOK, Commit, Goto
<1>4. pc'[p] # "commit"
  BY DEF TypeOK, Commit, Goto
<1>5. /\ dups'[req[p]] = receipt[p].dups
      /\ \A r \in Records \ {req[p]} : dups'[r] = dups[r]
  BY <1>1, <1>2 DEF TypeOK
<1>6. \A q \in Calls \ {p} : pc[q] = "received" =>
        /\ req[q] \in Records
        /\ receipt[q] \in Receipts /\ receipt[q].dups \in Nat
        /\ receipt[q].dups <= dups[req[q]] /\ dups[req[q]] \in Nat
  BY Submitted DEF TypeOK, TablesInv, ReceiptInv, Receipts
<1>7. ReceiptInv'
  BY <1>1, <1>2, <1>3, <1>5, <1>6 DEF ReceiptInv, Receipts
<1>8. ReceiptsRight'
  <2>1. \A q \in Calls \ {p} : pc[q] = "received" /\ req[q] = req[p] =>
          receipt[q].dups # receipt[p].dups
    BY <1>2, <1>6
  <2> QED
    BY <1>1, <1>2, <1>3, <2>1 DEF TablesInv, ReceiptsRight
<1>9. OffsetInv'
  BY <1>1, <1>3, <1>4 DEF TablesInv, OffsetInv, Inserted
<1>10. StreamsContiguous' /\ ReadersComplete'
  BY <1>1 DEF TablesInv, StreamsContiguous, ReadersComplete, Visible
<1> QED
  BY <1>7, <1>8, <1>9, <1>10 DEF TablesInv

(* The commit of a new observation. *)
LEMMA AdmissionTables ==
  ASSUME TypeOK, CallInv, TablesInv, NEW p \in Calls, Commit(p), receipt[p].dups = 0
  PROVE  TablesInv'
<1> DEFINE new == [rec |-> req[p], offset |-> receipt[p].offset]
           s == req[p].stream
<1>1. /\ UNCHANGED <<req, receipt, lastOffset, mark, got, overtaken>>
      /\ dups' = [dups EXCEPT ![req[p]] = 0]
      /\ admitted' = admitted \cup {new}
      /\ registered' = registered \cup {s}
      /\ highest' = [highest EXCEPT ![s] = req[p].seq]
  BY DEF Commit, Write, reader
<1>2. /\ req[p] \in Records /\ s \in Streams /\ req[p].seq \in Nat \ {0}
      /\ receipt[p] \in Receipts
      /\ Inserted(p) /\ Fresh(p)
      /\ req[p].seq = highest[s] + 1
      /\ highest[s] \in Nat
  BY Submitted, RecordTypes DEF TypeOK, Commit, CallInv, FoundBy, Inserted, Fresh
<1>3. /\ \A q \in Calls \ {p} : pc'[q] = pc[q]
      /\ pc'[p] # "commit"
  BY DEF TypeOK, Commit, Goto
<1>4. /\ dups'[req[p]] = 0
      /\ \A r \in Records \ {req[p]} : dups'[r] = dups[r]
      /\ highest'[s] = highest[s] + 1
      /\ \A t \in Streams \ {s} : highest'[t] = highest[t]
  BY <1>1, <1>2 DEF TypeOK
<1>5. \A q \in Calls \ {p} : pc[q] = "received" => req[q] \in Records /\ req[q] # req[p]
  <2>1. \A a \in admitted : a.rec # req[p]
    BY <1>2 DEF Fresh, AtOrigin
  <2> QED
    BY <2>1, Submitted DEF TablesInv, ReceiptsRight
<1>6. ReceiptInv'
  BY <1>1, <1>2, <1>3, <1>4, <1>5 DEF TablesInv, ReceiptInv, Receipts
<1>7. ReceiptsRight'
  BY <1>1, <1>3, <1>5 DEF TablesInv, ReceiptsRight
<1>8. StreamsContiguous'
  <2> SUFFICES ASSUME NEW t \in Streams
               PROVE  LET own == {a \in admitted' : a.rec.stream = t} IN
                      /\ \A a \in own : a.rec.seq <= highest'[t]
                      /\ \A n \in 1 .. highest'[t] : \E a \in own : a.rec.seq = n
                      /\ \A a, b \in own : a.rec.seq = b.rec.seq => a = b
                      /\ t \in registered' => own # {}
    BY DEF StreamsContiguous
  <2>1. CASE t # s
    <3>1. {a \in admitted' : a.rec.stream = t} = {a \in admitted : a.rec.stream = t}
      BY <1>1, <2>1
    <3> QED
      BY <1>1, <1>4, <2>1, <3>1 DEF TablesInv, StreamsContiguous
  <2>2. CASE t = s
    <3>1. {a \in admitted' : a.rec.stream = t} = {a \in admitted : a.rec.stream = t} \cup {new}
      BY <1>1, <2>2
    <3>2. \A a \in {x \in admitted : x.rec.stream = t} :
            /\ a.rec.seq \in Nat /\ a.rec.seq <= highest[t]
      BY RecordTypes DEF TypeOK, Observations, TablesInv, StreamsContiguous
    <3>3. highest'[t] = highest[t] + 1 /\ new.rec.seq = highest[t] + 1 /\ highest[t] \in Nat
      BY <1>2, <1>4, <2>2
    <3>4. \A n \in 1 .. highest'[t] : n \in 1 .. highest[t] \/ n = new.rec.seq
      BY <3>3
    <3> DEFINE own == {a \in admitted : a.rec.stream = t}
    <3>5. /\ \A n \in 1 .. highest[t] : \E a \in own : a.rec.seq = n
          /\ \A a, b \in own : a.rec.seq = b.rec.seq => a = b
      BY DEF TablesInv, StreamsContiguous
    <3>6. \A a \in own \cup {new} : a.rec.seq <= highest'[t]
      BY <3>2, <3>3
    <3>7. \A n \in 1 .. highest'[t] : \E a \in own \cup {new} : a.rec.seq = n
      BY <3>4, <3>5
    <3>8. \A a, b \in own \cup {new} : a.rec.seq = b.rec.seq => a = b
      BY <3>2, <3>3, <3>5
    <3> QED
      BY <3>1, <3>6, <3>7, <3>8
  <2> QED
    BY <2>1, <2>2
<1>9. ReadersComplete'
  <2>1. \A r \in Readers : r \in {AllStreams, s} /\ new.offset <= mark[r] =>
          r = AllStreams /\ new.offset \in overtaken[r]
    BY <1>2 DEF TablesInv, OffsetInv
  <2> QED
    BY <1>1, <2>1 DEF TablesInv, ReadersComplete, Visible
<1>10. OffsetInv'
  <2>1. IsFiniteSet(admitted')
    BY <1>1, FS_AddElement DEF TablesInv, OffsetInv
  <2>2. \A q \in Calls : Inserted(q)' => q # p /\ Inserted(q) /\ req[q].stream # s
    <3>1. \A q \in Calls \ {p} : Inserted(q) => pc[q] \in StreamLocked
      BY DEF Inserted, StreamLocked
    <3> QED
      BY <1>1, <1>3, <3>1, CommitElsewhere DEF Inserted
  <2>3. \A q \in Calls : Inserted(q)' => new.offset # receipt[q].offset
    BY <1>2, <2>2 DEF TablesInv, OffsetInv
  <2>4. new.offset <= lastOffset
    BY <1>2 DEF TablesInv, OffsetInv
  <2> QED
    BY <1>1, <2>1, <2>2, <2>3, <2>4 DEF TablesInv, OffsetInv
<1> QED
  BY <1>6, <1>7, <1>8, <1>9, <1>10 DEF TablesInv

(* A page is all there is beyond the old watermark, up to the new one. *)
LEMMA PageComplete ==
  ASSUME TypeOK, TablesInv, NEW r \in Readers, NEW m, Watermark(r, m),
         NEW a \in Beyond(r), a.offset <= m
  PROVE  a \in Page(r)
<1>1. PICK z \in Page(r) : z.offset = m
  BY DEF Watermark
<1> DEFINE upto(n) == {b \in Beyond(r) : b.offset <= n}
<1>2. z \in Beyond(r) /\ Cardinality(upto(z.offset)) <= Limit
  BY DEF Page
<1>3. \A b \in Beyond(r) : b.offset \in Nat
  BY DEF Beyond, Visible, TypeOK, Observations
<1>4. upto(a.offset) \subseteq upto(z.offset)
  BY <1>1, <1>2, <1>3
<1>5. IsFiniteSet(upto(z.offset))
  <2>1. upto(z.offset) \subseteq admitted
    BY DEF Beyond, Visible
  <2> QED
    BY <2>1, FS_Subset DEF TablesInv, OffsetInv
<1>6. /\ Cardinality(upto(a.offset)) <= Cardinality(upto(z.offset))
      /\ Cardinality(upto(a.offset)) \in Nat
      /\ Cardinality(upto(z.offset)) \in Nat
  BY <1>4, <1>5, FS_Subset, FS_CardinalityType
<1>7. Cardinality(upto(a.offset)) <= Limit
  BY <1>2, <1>6, LimitAssumption
<1> QED
  BY <1>7 DEF Page

(* A page moves the watermark past nothing of the reader's stream but what it returns. *)
LEMMA PageTables ==
  ASSUME TypeOK, CallInv, TablesInv, NEW r \in Readers, ReadPage(r)
  PROVE  TablesInv'
<1>1. UNCHANGED <<pc, req, receipt, registered, highest, admitted, dups, lastOffset>>
  BY DEF ReadPage, call, tables
<1>2. PICK m \in 1 .. lastOffset :
        /\ Watermark(r, m)
        /\ mark' = [mark EXCEPT ![r] = m]
        /\ overtaken' = [overtaken EXCEPT ![r] = @ \cup {n \in InFlight : n < m}]
  BY DEF ReadPage
<1>3. /\ mark'[r] = m
      /\ got'[r] = got[r] \cup Page(r)
      /\ overtaken[r] \subseteq overtaken'[r]
      /\ \A n \in InFlight : n < m => n \in overtaken'[r]
      /\ \A t \in Readers \ {r} : UNCHANGED <<mark[t], got[t], overtaken[t]>>
  BY <1>2 DEF TypeOK, ReadPage
<1>4. lastOffset \in Nat /\ m \in Nat /\ m <= lastOffset /\ mark[r] \in Nat
  BY <1>2 DEF TypeOK
<1>5. ReceiptInv' /\ ReceiptsRight' /\ StreamsContiguous'
  BY <1>1 DEF TablesInv, ReceiptInv, ReceiptsRight, StreamsContiguous
<1>6. ReadersComplete'
  <2> SUFFICES ASSUME NEW t \in Readers, NEW a \in Visible(t)', a.offset <= mark'[t]
               PROVE  a \in got'[t] \/ (t = AllStreams /\ a.offset \in overtaken'[t])
    BY DEF ReadersComplete
  <2>1. a \in Visible(t) /\ a.offset \in Nat
    BY <1>1 DEF TypeOK, Observations, Visible
  <2>2. CASE t # r
    BY <1>3, <2>1, <2>2 DEF TablesInv, ReadersComplete
  <2>3. CASE t = r /\ a.offset <= mark[r]
    BY <1>3, <2>1, <2>3 DEF TablesInv, ReadersComplete
  <2>4. CASE t = r /\ ~ (a.offset <= mark[r])
    <3>1. a \in Beyond(r)
      BY <1>4, <2>1, <2>4 DEF Beyond
    <3> QED
      BY <1>2, <1>3, <2>4, <3>1, PageComplete
  <2> QED
    BY <2>2, <2>3, <2>4
<1>7. OffsetInv'
  <2>1. PICK z \in admitted : z.offset = m /\ r \in {AllStreams, z.rec.stream}
    BY <1>2 DEF Watermark, Page, Beyond, Visible
  <2>2. ASSUME NEW p \in Calls, Inserted(p), NEW t \in Readers,
               t \in {AllStreams, req[p].stream}, receipt[p].offset <= mark'[t]
        PROVE  t = AllStreams /\ receipt[p].offset \in overtaken'[t]
    <3>1. /\ req[p].stream \in Streams
          /\ receipt[p] \in Receipts /\ receipt[p].offset \in Nat
          /\ receipt[p].offset \in InFlight
      BY <2>2, Submitted, RecordTypes DEF Inserted, CallInv, FoundBy, InFlight, Receipts
    <3>2. CASE t # r
      BY <1>3, <2>2, <3>2 DEF TablesInv, OffsetInv
    <3>3. CASE t = r
      <4>1. /\ m # receipt[p].offset
            /\ z.rec.stream = req[p].stream => m < receipt[p].offset
        BY <2>1, <2>2 DEF TablesInv, OffsetInv
      <4>2. receipt[p].offset < m
        BY <1>3, <1>4, <2>2, <3>1, <3>3, <4>1
      <4>3. r = AllStreams
        BY <1>4, <2>1, <2>2, <3>1, <3>3, <4>1, <4>2
      <4> QED
        BY <1>3, <3>1, <3>3, <4>2, <4>3
    <3> QED
      BY <3>2, <3>3
  <2>3. \A t \in Readers : mark'[t] <= lastOffset
    BY <1>3, <1>4 DEF TablesInv, OffsetInv
  <2> QED
    BY <1>1, <2>2, <2>3 DEF TablesInv, OffsetInv, Inserted
<1> QED
  BY <1>5, <1>6, <1>7 DEF TablesInv

(* Every step keeps the receipts, the offsets and the readers. *)
LEMMA TablesStep ==
  ASSUME TypeOK, CallInv, TablesInv, [Next]_vars
  PROVE  TablesInv'
<1>1. CASE UNCHANGED vars
  BY <1>1, QuietTables DEF vars, call
<1>2. ASSUME NEW p \in Calls, Submit(p) \/ Step(p) \/ Abort(p)
      PROVE  TablesInv'
  <2>1. CASE Commit(p)
    BY <2>1, DuplicateTables, AdmissionTables
  <2>2. CASE Insert(p)
    BY <2>2, InsertTables
  <2>3. CASE Duplicate(p)
    <3>1. ~ Inserted(p)' /\ pc'[p] = "commit"
      <4>1. \A a \in AtOrigin(p) : a.rec = req[p] => dups[a.rec] \in Nat
        BY <2>3, Submitted DEF TypeOK, Duplicate
      <4> QED
        BY <2>3, <4>1 DEF TypeOK, Duplicate, Inserted, Goto
    <3>2. \A q \in Calls \ {p} : UNCHANGED <<pc[q], req[q], receipt[q]>>
      BY <2>3 DEF TypeOK, Duplicate, Goto
    <3> QED
      BY <2>3, <3>1, <3>2, QuietTables DEF Duplicate
  <2>4. CASE Submit(p) \/ LockEvent(p) \/ Register(p) \/ LockStream(p)
               \/ TupleFree(p) \/ Contiguous(p)
    <3>1. pc'[p] \notin {"commit", "received"}
      BY <2>4 DEF TypeOK, Submit, LockEvent, Register, LockStream, TupleFree, Contiguous, Goto
    <3>2. /\ \A q \in Calls \ {p} : UNCHANGED <<pc[q], req[q], receipt[q]>>
          /\ UNCHANGED <<tables, lastOffset, reader>>
      BY <2>4 DEF TypeOK, Submit, LockEvent, Register, LockStream, TupleFree, Contiguous, Goto
    <3> QED
      BY <3>1, <3>2, QuietTables DEF Inserted
  <2>5. ASSUME NEW v \in {"conflict", "gap", "failed"}, Rollback(p, v)
        PROVE  TablesInv'
    <3>1. pc'[p] \notin {"commit", "received"}
      BY <2>5 DEF TypeOK, Rollback, Goto
    <3>2. /\ \A q \in Calls \ {p} : UNCHANGED <<pc[q], req[q], receipt[q]>>
          /\ UNCHANGED <<tables, lastOffset, reader>>
      BY <2>5 DEF TypeOK, Rollback, Goto
    <3> QED
      BY <3>1, <3>2, QuietTables DEF Inserted
  <2> QED
    BY <1>2, <2>1, <2>2, <2>3, <2>4, <2>5
       DEF Step, Abort, TupleConflict, EventConflict, Gap
<1> QED
  BY <1>1, <1>2, PageTables DEF Next

-----------------------------------------------------------------------------

(* The inductive invariant holds: locks, findings, receipts and offsets agree. *)
THEOREM Invariance == Spec => []IndInv
<1>1. Init => IndInv
  BY InitInv
<1>2. IndInv /\ [Next]_vars => IndInv'
  <2> SUFFICES ASSUME IndInv, [Next]_vars
               PROVE  IndInv'
    OBVIOUS
  <2>1. TypeOK /\ CallInv /\ TablesInv
    BY DEF IndInv, TablesInv
  <2>2. TypeOK'
    BY <2>1, TypeStep
  <2>3. CallInv'
    <3>1. CASE UNCHANGED <<call, locks, tables>>
      BY <2>1, <3>1 DEF call, locks, tables, CallInv, HeldBy, FoundBy, Fresh, AtOrigin, SameEvent
    <3> QED
      BY <2>1, <3>1, StepCall DEF Next, vars, ReadPage
  <2>4. TablesInv'
    BY <2>1, TablesStep
  <2> QED
    BY <2>2, <2>3, <2>4 DEF IndInv, TablesInv
<1> QED
  BY <1>1, <1>2, PTL DEF Spec

(* Every variable keeps to its type: the columns of central.py and the calls' own state. *)
THEOREM TypeCorrect == Spec => []TypeOK
BY Invariance, PTL DEF IndInv

(***************************************************************************)
(* A stream's admitted sequences are 1 up to its highest_contiguous_seq,   *)
(* each once, and no row of a stream is left by a call that was refused.   *)
(***************************************************************************)
THEOREM Contiguity == Spec => []StreamsContiguous
BY Invariance, PTL DEF IndInv

(***************************************************************************)
(* A returned receipt names an admitted record, and no two calls answered  *)
(* for one record have the same duplicate count.                           *)
(***************************************************************************)
THEOREM ReceiptsHold == Spec => []ReceiptsRight
BY Invariance, PTL DEF IndInv

(***************************************************************************)
(* Paging by watermark through a stream misses nothing; paging through all *)
(* only what was uncommitted when a page went past it.                     *)
(***************************************************************************)
THEOREM ReadersMissNothing == Spec => []ReadersComplete
BY Invariance, PTL DEF IndInv

(***************************************************************************)
(* When a call writes, its tuple and its event id are still free and its   *)
(* sequence is still the next: no unique violation can be raised.          *)
(***************************************************************************)
THEOREM PrechecksStillHold == Spec => []PrechecksHold
<1>1. IndInv => PrechecksHold
  BY DEF IndInv, CallInv, FoundBy, Fresh, PrechecksHold
<1> QED
  BY <1>1, Invariance, PTL

-----------------------------------------------------------------------------
(* The refinement. *)

(* The record a stream's log has at a place is the one admitted with that sequence. *)
LEMMA EntryOfRow ==
  ASSUME TypeOK, StreamsContiguous, NEW s \in Streams
  PROVE  /\ DOMAIN StreamLog(s) = 1 .. highest[s]
         /\ \A a \in admitted : a.rec.stream = s =>
              a.rec.seq \in 1 .. highest[s] /\ StreamLog(s)[a.rec.seq] = a.rec
         /\ \A n \in 1 .. highest[s] :
              \E a \in admitted : a.rec.stream = s /\ a.rec.seq = n /\ StreamLog(s)[n] = a.rec
<1> DEFINE At(n) == {a \in admitted : a.rec.stream = s /\ a.rec.seq = n}
<1>1. highest[s] \in Nat
  BY DEF TypeOK
<1>2. \A a \in admitted : a.rec.stream = s => a.rec.seq \in 1 .. highest[s]
  BY <1>1, RecordTypes DEF TypeOK, Observations, StreamsContiguous
<1>3. ASSUME NEW a \in admitted, a.rec.stream = s
      PROVE  (CHOOSE b \in admitted : b.rec.stream = s /\ b.rec.seq = a.rec.seq) = a
  BY <1>3 DEF StreamsContiguous
<1>4. \A n \in 1 .. highest[s] : \E a \in admitted : a.rec.stream = s /\ a.rec.seq = n
  BY DEF StreamsContiguous
<1> QED
  BY <1>2, <1>3, <1>4 DEF StreamLog

(* What the abstract log has admitted is what the table has. *)
LEMMA AdmittedIsAdmitted ==
  ASSUME TypeOK, StreamsContiguous
  PROVE  Log!Admitted = {a.rec : a \in admitted}
<1> DEFINE entries(s) == {StreamLog(s)[i] : i \in DOMAIN StreamLog(s)}
<1>1. Log!Admitted = UNION {entries(s) : s \in Streams}
  BY DEF Log!Admitted
<1> HIDE DEF entries
<1>2. \A r : r \in Log!Admitted <=> \E s \in Streams : r \in entries(s)
  BY <1>1
<1>3. ASSUME NEW a \in admitted
      PROVE  a.rec \in Log!Admitted
  <2>1. a.rec \in Records /\ a.rec.stream \in Streams
    BY RecordTypes DEF TypeOK, Observations
  <2>2. a.rec \in entries(a.rec.stream)
    BY <2>1, EntryOfRow DEF entries
  <2> QED
    BY <1>2, <2>1, <2>2
<1>4. ASSUME NEW r \in Log!Admitted
      PROVE  \E a \in admitted : a.rec = r
  <2>1. PICK s \in Streams : r \in entries(s)
    BY <1>2
  <2>2. PICK i \in DOMAIN StreamLog(s) : r = StreamLog(s)[i]
    BY <2>1, Zenon DEF entries
  <2>3. i \in 1 .. highest[s]
    BY <2>1, <2>2, EntryOfRow
  <2>4. PICK a \in admitted : StreamLog(s)[i] = a.rec
    BY <2>1, <2>3, EntryOfRow
  <2> QED
    BY <2>2, <2>4, Zenon
<1> QED
  BY <1>3, <1>4

(* Whether a record is taken can be read off the tables. *)
LEMMA TakenIsFound ==
  ASSUME TypeOK, CallInv, StreamsContiguous, NEW p \in Calls, pc[p] # "idle"
  PROVE  Log!Taken(req[p]) <=> AtOrigin(p) # {} \/ SameEvent(p) # {}
<1>1. \A x : x \in Log!Admitted <=> \E a \in admitted : x = a.rec
  BY AdmittedIsAdmitted
<1> QED
  BY <1>1 DEF Log!Taken, AtOrigin, SameEvent

(* As a sequence, a stream's log is as long as its cursor says. *)
LEMMA LogLength ==
  ASSUME TypeOK, StreamsContiguous, NEW s \in Streams
  PROVE  StreamLog(s) \in Seq(Records) /\ Len(StreamLog(s)) = highest[s]
<1>1. highest[s] \in Nat /\ DOMAIN StreamLog(s) = 1 .. highest[s]
  BY EntryOfRow DEF TypeOK
<1>2. StreamLog(s) = [n \in 1 .. highest[s] |-> StreamLog(s)[n]]
  BY DEF StreamLog
<1>3. \A n \in 1 .. highest[s] : StreamLog(s)[n] \in Records
  BY EntryOfRow DEF TypeOK, Observations
<1>4. StreamLog(s) \in [1 .. highest[s] -> Records]
  BY <1>2, <1>3, Zenon
<1> QED
  BY <1>1, <1>4

(* A verdict is a call's end. *)
LEMMA VerdictOf ==
  ASSUME NEW p \in Calls, TypeOK, pc[p] \in Running, NEW v \in Ended, Goto(p, v)
  PROVE  Verdicts[p] = NoCall /\ Verdicts' = [Verdicts EXCEPT ![p] = v]
BY DEF TypeOK, Goto, Running, Ended, Verdicts

(* A refused or failed call answers its producer and changes nothing else. *)
LEMMA RefusalAnswers ==
  ASSUME TypeOK, CallInv, NEW p \in Calls, pc[p] \in Running, NEW v \in Ended, Rollback(p, v)
  PROVE  /\ Log!Answer(p, v)
         /\ UNCHANGED [s \in Streams |-> StreamLog(s)]
<1>1. req[p] # NoCall /\ UNCHANGED req
  BY Submitted, NoCallAssumption DEF Running, Rollback
<1>2. UNCHANGED [s \in Streams |-> StreamLog(s)]
  BY DEF Rollback, tables, StreamLog
<1>3. Goto(p, v)
  BY DEF Rollback
<1> QED
  BY <1>1, <1>2, <1>3, VerdictOf DEF Log!Answer

(* What a stream's log has stays at its place while rows are only added. *)
LEMMA EntryStays ==
  ASSUME TypeOK, TypeOK', StreamsContiguous, StreamsContiguous', admitted \subseteq admitted',
         NEW s \in Streams, NEW n \in 1 .. highest[s], n \in 1 .. highest'[s]
  PROVE  StreamLog(s)'[n] = StreamLog(s)[n]
<1>1. PICK a \in admitted : a.rec.stream = s /\ a.rec.seq = n /\ StreamLog(s)[n] = a.rec
  BY EntryOfRow
<1>2. (CHOOSE b \in admitted' : b.rec.stream = s /\ b.rec.seq = n) = a
  BY <1>1 DEF StreamsContiguous
<1> QED
  BY <1>1, <1>2 DEF StreamLog

(* The commit of a new observation appends it to its stream. *)
LEMMA AdmissionAppends ==
  ASSUME IndInv, IndInv', NEW p \in Calls, Commit(p), receipt[p].dups = 0
  PROVE  [s \in Streams |-> StreamLog(s)]' =
           [[s \in Streams |-> StreamLog(s)] EXCEPT ![req[p].stream] = Append(@, req[p])]
<1>0. PICK s, new : s = req[p].stream /\ new = [rec |-> req[p], offset |-> receipt[p].offset]
  OBVIOUS
<1>1. /\ TypeOK /\ TypeOK' /\ StreamsContiguous /\ StreamsContiguous' /\ CallInv
      /\ req' = req /\ receipt' = receipt
      /\ admitted' = admitted \cup {new}
      /\ highest' = [highest EXCEPT ![s] = req[p].seq]
  BY <1>0 DEF IndInv, Commit, Write
<1>2. /\ req[p] \in Records /\ s \in Streams
      /\ req[p].seq = highest[s] + 1 /\ highest[s] \in Nat
  BY <1>0, <1>1, Submitted, RecordTypes DEF TypeOK, Commit, CallInv, FoundBy, Fresh
<1>3. highest'[s] = highest[s] + 1 /\ \A t \in Streams \ {s} : highest'[t] = highest[t]
  BY <1>1, <1>2 DEF TypeOK
<1>4. \A t \in Streams : StreamLog(t)' = [n \in 1 .. highest'[t] |-> StreamLog(t)'[n]]
  BY DEF StreamLog
<1>5. \A t \in Streams \ {s} : StreamLog(t)' = StreamLog(t)
  <2> SUFFICES ASSUME NEW t \in Streams \ {s}
               PROVE  StreamLog(t)' = StreamLog(t)
    OBVIOUS
  <2>1. \A n \in 1 .. highest[t] : StreamLog(t)'[n] = StreamLog(t)[n]
    BY <1>1, <1>3, EntryStays
  <2>2. StreamLog(t) = [n \in 1 .. highest[t] |-> StreamLog(t)[n]]
    BY DEF StreamLog
  <2> QED
    BY <1>3, <1>4, <2>1, <2>2
<1>6. StreamLog(s)' = Append(StreamLog(s), req[p])
  <2>1. \A n \in 1 .. highest[s] : StreamLog(s)'[n] = StreamLog(s)[n]
    BY <1>1, <1>2, <1>3, EntryStays
  <2>2. StreamLog(s)'[highest[s] + 1] = req[p]
    <3>1. PICK n \in 1 .. highest'[s] : n = highest[s] + 1
      BY <1>2, <1>3
    <3>2. new \in admitted' /\ new.rec.stream = s /\ new.rec.seq = n /\ new.rec = req[p]
      BY <1>0, <1>1, <1>2, <3>1
    <3>3. (CHOOSE b \in admitted' : b.rec.stream = s /\ b.rec.seq = n) = new
      BY <1>1, <1>2, <3>2 DEF StreamsContiguous
    <3>4. StreamLog(s)'[n] = new.rec
      BY <3>1, <3>3 DEF StreamLog
    <3> QED
      BY <3>1, <3>2, <3>4
  <2>3. StreamLog(s) \in Seq(Records) /\ Len(StreamLog(s)) = highest[s]
    BY <1>1, <1>2, LogLength
  <2>4. StreamLog(s)' = [n \in 1 .. (highest[s] + 1) |-> StreamLog(s)'[n]]
    BY <1>2, <1>3, <1>4
  <2> DEFINE longer == Append(StreamLog(s), req[p])
  <2>5. /\ longer \in Seq(Records) /\ Len(longer) = highest[s] + 1
        /\ \A n \in 1 .. highest[s] : longer[n] = StreamLog(s)[n]
        /\ longer[highest[s] + 1] = req[p]
    BY <1>2, <2>3, AppendProperties
  <2>6. longer = [n \in 1 .. (highest[s] + 1) |-> longer[n]]
    BY <2>5, LenProperties
  <2>7. \A n \in 1 .. (highest[s] + 1) : longer[n] = StreamLog(s)'[n]
    BY <1>2, <2>1, <2>2, <2>5
  <2> QED
    BY <2>4, <2>6, <2>7
<1> QED
  BY <1>0, <1>2, <1>5, <1>6

(* The empty ledger is the empty log. *)
LEMMA InitRefines == Init => Log!Init
<1> SUFFICES ASSUME Init
             PROVE  Log!Init
  OBVIOUS
<1>1. TypeOK /\ StreamsContiguous
  BY InitInv DEF IndInv
<1>2. \A s \in Streams : StreamLog(s) = <<>>
  BY <1>1, LogLength, EmptySeq DEF Init
<1>3. Verdicts = [p \in Calls |-> NoCall]
  BY DEF Init, Ended, Verdicts
<1> QED
  BY <1>2, <1>3 DEF Log!Init, Init

(* A step that neither admits nor ends nor begins a call is invisible. *)
LEMMA Invisible ==
  ASSUME TypeOK, UNCHANGED <<req, highest, admitted>>,
         \A q \in Calls : pc'[q] # pc[q] => {pc[q], pc'[q]} \cap Ended = {}
  PROVE  UNCHANGED Log!vars
<1>1. UNCHANGED [s \in Streams |-> StreamLog(s)]
  BY DEF StreamLog
<1>2. UNCHANGED Verdicts
  BY DEF Verdicts
<1> QED
  BY <1>1, <1>2 DEF Log!vars

(* A commit admits its record to the log, or answers a retry. *)
LEMMA CommitRefines ==
  ASSUME IndInv, IndInv', NEW p \in Calls, Commit(p)
  PROVE  Log!Admit(p)
<1>1. TypeOK /\ CallInv /\ StreamsContiguous /\ pc[p] = "commit"
  BY DEF IndInv, Commit
<1>2. req[p] \in Records /\ req[p].stream \in Streams /\ req[p] # NoCall /\ UNCHANGED req
  BY <1>1, Submitted, RecordTypes, NoCallAssumption DEF Commit
<1>3. PICK v \in {"received", "lost"} : Goto(p, v)
  BY DEF Commit
<1>4. Log!Answer(p, v)
  <2>1. pc[p] \in Running /\ v \in Ended
    BY <1>1, <1>3 DEF Running, Ended
  <2>2. Verdicts[p] = NoCall /\ Verdicts' = [Verdicts EXCEPT ![p] = v]
    BY <1>1, <1>3, <2>1, VerdictOf
  <2> QED
    BY <1>2, <2>2 DEF Log!Answer
<1>5. CASE receipt[p].dups = 0
  <2>1. Fresh(p)
    BY <1>1, <1>5 DEF CallInv, FoundBy
  <2>2. ~ Log!Taken(req[p])
    BY <1>1, <2>1, TakenIsFound DEF Fresh
  <2>3. req[p].seq = Len([s \in Streams |-> StreamLog(s)][req[p].stream]) + 1
    BY <1>1, <1>2, <2>1, LogLength DEF Fresh
  <2> QED
    BY <1>3, <1>4, <1>5, <2>2, <2>3, AdmissionAppends DEF Log!Admit
<1>6. CASE receipt[p].dups # 0
  <2>1. [rec |-> req[p], offset |-> receipt[p].offset] \in admitted
    BY <1>1, <1>6 DEF CallInv, FoundBy
  <2>2. req[p] \in Log!Admitted
    BY <1>1, <2>1, AdmittedIsAdmitted
  <2>3. UNCHANGED [s \in Streams |-> StreamLog(s)]
    BY <1>6 DEF Commit, Write, StreamLog
  <2> QED
    BY <1>3, <1>4, <2>2, <2>3 DEF Log!Admit
<1> QED
  BY <1>5, <1>6

(* Refused and broken off calls leave the log as it was. *)
LEMMA RefusalRefines ==
  ASSUME IndInv, NEW p \in Calls,
         TupleConflict(p) \/ EventConflict(p) \/ Gap(p) \/ Abort(p)
  PROVE  Log!Conflict(p) \/ Log!Gap(p) \/ Log!Fail(p)
<1> USE DEF Running, Ended
<1>1. TypeOK /\ CallInv /\ StreamsContiguous /\ pc[p] # "idle"
  BY DEF IndInv, TupleConflict, EventConflict, Gap, Abort
<1>2. req[p] \in Records /\ req[p].stream \in Streams
  BY <1>1, Submitted, RecordTypes
<1>3. \A x : x \in Log!Admitted <=> \E a \in admitted : x = a.rec
  BY <1>1, AdmittedIsAdmitted
<1>4. Log!Taken(req[p]) <=> AtOrigin(p) # {} \/ SameEvent(p) # {}
  BY <1>1, TakenIsFound
<1>5. CASE TupleConflict(p)
  <2>1. PICK a \in AtOrigin(p) : a.rec # req[p]
    BY <1>5 DEF TupleConflict
  <2>2. req[p] \notin Log!Admitted
    BY <1>1, <1>2, <1>3, <2>1 DEF AtOrigin, StreamsContiguous
  <2> QED
    BY <1>1, <1>4, <1>5, <2>1, <2>2, RefusalAnswers DEF TupleConflict, Log!Conflict
<1>6. CASE EventConflict(p)
  <2>1. AtOrigin(p) = {}
    BY <1>1, <1>6 DEF EventConflict, CallInv, FoundBy
  <2>2. req[p] \notin Log!Admitted
    BY <1>3, <2>1 DEF AtOrigin
  <2> QED
    BY <1>1, <1>4, <1>6, <2>2, RefusalAnswers DEF EventConflict, Log!Conflict
<1>7. CASE Gap(p)
  <2>1. AtOrigin(p) = {} /\ read[p] = highest[req[p].stream]
    BY <1>1, <1>7 DEF Gap, CallInv, FoundBy, HeldBy, StreamLocked
  <2>2. req[p].seq # Len([s \in Streams |-> StreamLog(s)][req[p].stream]) + 1
    BY <1>1, <1>2, <1>7, <2>1, LogLength DEF Gap
  <2> QED
    BY <1>1, <1>4, <1>7, <2>1, <2>2, RefusalAnswers DEF Gap, Log!Gap
<1>8. CASE Abort(p)
  BY <1>1, <1>8, RefusalAnswers DEF Abort, Log!Fail
<1> QED
  BY <1>5, <1>6, <1>7, <1>8

(* Every step is a step of the log or none. *)
LEMMA StepRefines ==
  ASSUME IndInv, IndInv', [Next]_vars
  PROVE  [Log!Next]_(Log!vars)
<1>1. TypeOK
  BY DEF IndInv
<1>2. CASE UNCHANGED vars
  BY <1>1, <1>2, Invisible DEF vars, call, tables
<1>3. ASSUME NEW r \in Readers, ReadPage(r)
      PROVE  UNCHANGED Log!vars
  BY <1>1, <1>3, Invisible DEF ReadPage, call, tables
<1>4. ASSUME NEW p \in Calls, Submit(p) \/ Step(p) \/ Abort(p)
      PROVE  [Log!Next]_(Log!vars)
  <2>1. CASE Submit(p)
    <3>1. UNCHANGED [s \in Streams |-> StreamLog(s)]
      BY <2>1 DEF Submit, tables, StreamLog
    <3>2. UNCHANGED Verdicts
      BY <1>1, <2>1 DEF Submit, Goto, TypeOK, Verdicts, Ended
    <3>3. req[p] = NoCall
      BY <2>1 DEF Submit, IndInv, CallInv, HeldBy
    <3>4. Log!Ask(p)
      BY <2>1, <3>1, <3>2, <3>3 DEF Submit, Log!Ask
    <3> QED
      BY <3>4 DEF Log!Next
  <2>2. CASE Commit(p)
    BY <2>2, CommitRefines DEF Log!Next
  <2>3. CASE TupleConflict(p) \/ EventConflict(p) \/ Gap(p) \/ Abort(p)
    BY <2>3, RefusalRefines DEF Log!Next
  <2>4. CASE LockEvent(p) \/ Register(p) \/ LockStream(p) \/ Duplicate(p) \/ TupleFree(p)
               \/ Contiguous(p) \/ Insert(p)
    <3>1. UNCHANGED <<req, highest, admitted>>
      BY <2>4 DEF LockEvent, Register, LockStream, Duplicate, TupleFree, Contiguous, Insert, tables
    <3>2. /\ \A q \in Calls \ {p} : pc'[q] = pc[q]
          /\ {pc[p], pc'[p]} \cap Ended = {}
      BY <1>1, <2>4 DEF TypeOK, LockEvent, Register, LockStream, Duplicate, TupleFree,
                        Contiguous, Insert, Goto, Ended
    <3> QED
      BY <1>1, <3>1, <3>2, Invisible
  <2> QED
    BY <1>4, <2>1, <2>2, <2>3, <2>4 DEF Step
<1> QED
  BY <1>2, <1>3, <1>4 DEF Next

(***************************************************************************)
(* Every verdict of ingest_observation is right at one instant: the        *)
(* transactions, their locks and their aborts implement CentralLog.        *)
(***************************************************************************)
THEOREM Refinement == Spec => ImplementsLog
<1>1. Init => Log!Init
  BY InitRefines
<1>2. IndInv /\ IndInv' /\ [Next]_vars => [Log!Next]_(Log!vars)
  BY StepRefines
<1> QED
  BY <1>1, <1>2, Invariance, PTL DEF Spec, ImplementsLog, Log!Spec

=============================================================================
