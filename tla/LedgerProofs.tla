---------------------------- MODULE LedgerProofs ----------------------------
(***************************************************************************)
(* The index stays gap-free, free of repeated keys and grounded, for any   *)
(* number of invocations, days and requests and under every fault: IndInv  *)
(* is inductive.                                                           *)
(*                                                                         *)
(* A step touches the two stores in one of three ways, each a lemma below: *)
(* the rows stay and the shards lose writes or nothing (QuietStep), the    *)
(* rows stay and the shards gain the event at the cursor (LineStep), or    *)
(* the rows gain it (RowStep).  That a reconciliation is one of these, and *)
(* never imports two lines, is AtMostOneImported.                          *)
(*                                                                         *)
(* The write path implements AuditLog.  The rows are read as a sequence,   *)
(* which IndexGapFree makes it; a row is then an entry appended            *)
(* (RowAppends), and that it may be appended is what IndInv says of the    *)
(* event at the cursor.                                                    *)
(*                                                                         *)
(* And invocations one after the other keep the shards and the index       *)
(* reconcilable: SerialInv says that the index then lacks one line at      *)
(* most, that of the invocation at work or of the last one that failed,    *)
(* and that whoever comes to write a line has imported it before.          *)
(***************************************************************************)
EXTENDS LedgerLog, Restarts, TLAPS, SequenceTheorems, FiniteSetTheorems

(* The parts of IndInv that speak of the two stores alone. *)
StoresInv ==
  /\ IndexGapFree /\ OneRowPerKey /\ LineageGrounded
  /\ UnindexedHarmless

(* No rows before there is a stream, so the first sequence is 1. *)
LEMMA NoStreamNoRows ==
  ASSUME TypeOK, IndexGapFree, origin.stream = NoProc
  PROVE  rows = {} /\ origin.next = 1
<1>1. rows = {}
  <2>1. \A r \in rows : r.stream \in Procs
    BY DEF TypeOK, Events
  <2> QED
    BY <2>1, ProcsAssumption DEF IndexGapFree
<1>2. origin.next \in Nat \ {0}
  BY DEF TypeOK
<1>3. 1 .. (origin.next - 1) = {}
  BY <1>1 DEF IndexGapFree
<1>4. ~ (origin.next > 1)
  BY <1>2, <1>3
<1> QED
  BY <1>1, <1>2, <1>4

(* A step that leaves the rows alone and adds no write keeps what is true of the stores. *)
LEMMA QuietStep ==
  ASSUME StoresInv, rows' = rows, origin' = origin, Written' \subseteq Written
  PROVE  StoresInv'
BY DEF StoresInv, IndexGapFree, OneRowPerKey, LineageGrounded, UnindexedHarmless,
       PriorAdmissible, AtHead, Refuted, Unclaimed, Matches

(* So does one that writes a line for the event at the cursor. *)
LEMMA LineStep ==
  ASSUME StoresInv, NEW e, AtHead(e),
         rows' = rows, origin' = origin, Written' \subseteq Written \cup {e}
  PROVE  StoresInv'
BY DEF StoresInv, IndexGapFree, OneRowPerKey, LineageGrounded, UnindexedHarmless,
       PriorAdmissible, AtHead, Refuted, Unclaimed, Matches

(* And one that makes that event a row and moves the cursor behind it. *)
LEMMA RowStep ==
  ASSUME TypeOK, StoresInv, NEW e \in Events, AtHead(e),
         rows' = rows \cup {e},
         origin' = [stream |-> e.stream, next |-> e.seq + 1],
         Written' = Written
  PROVE  StoresInv'
<1>1. /\ origin.next \in Nat \ {0}
      /\ \A r \in rows : r.seq \in Nat \ {0} /\ r.stream \in Procs
      /\ e.seq = origin.next /\ e.stream \in Procs
      /\ origin.stream \in {NoProc, e.stream}
      /\ origin'.stream = e.stream /\ origin'.next = origin.next + 1
  BY DEF TypeOK, Events, AtHead
<1>2. \A r \in rows : r.stream = e.stream /\ r.seq < origin.next
  BY <1>1, ProcsAssumption DEF StoresInv, IndexGapFree
<1>3. IndexGapFree'
  <2>1. \A r \in rows' : r.stream = origin'.stream /\ r.seq < origin'.next
    BY <1>1, <1>2
  <2>2. ASSUME NEW n \in 1 .. (origin'.next - 1)
        PROVE  \E r \in rows' : r.seq = n
    <3>1. n = origin.next \/ n \in 1 .. (origin.next - 1)
      BY <1>1
    <3> QED
      BY <3>1, <1>1 DEF StoresInv, IndexGapFree
  <2>3. \A r, s \in rows' : r.seq = s.seq => r = s
    BY <1>1, <1>2 DEF StoresInv, IndexGapFree
  <2> QED
    BY <2>1, <2>2, <2>3 DEF IndexGapFree
<1>4. OneRowPerKey'
  BY DEF StoresInv, OneRowPerKey, AtHead, Unclaimed, Matches, SameKey
<1>5. LineageGrounded'
  BY DEF StoresInv, LineageGrounded, AtHead, Unclaimed, PriorAdmissible
<1>6. UnindexedHarmless'
  <2> SUFFICES ASSUME NEW f \in Written' \ rows'
               PROVE  Refuted(f)'
    BY DEF UnindexedHarmless
  <2>1. f \in Written \ rows /\ f # e
    OBVIOUS
  <2>2. CASE AtHead(f)
    BY <2>1, <2>2, <1>1, ProcsAssumption DEF AtHead, Refuted, SameOrigin
  <2>3. CASE Refuted(f)
    BY <2>1, <2>3, <1>1 DEF Refuted
  <2> QED
    BY <2>1, <2>2, <2>3 DEF StoresInv, UnindexedHarmless
<1> QED
  BY <1>3, <1>4, <1>5, <1>6 DEF StoresInv

(***************************************************************************)
(* Reconciliation imports nothing, or the one event at the cursor: two     *)
(* lines the index lacks would both have its sequence.                     *)
(***************************************************************************)
LEMMA AtMostOneImported ==
  ASSUME TypeOK, StoresInv, Reconcilable, Written \subseteq Events
  PROVE  \/ rows \cup Written = rows /\ Observed = origin
         \/ \E e \in Written :
              /\ AtHead(e)
              /\ rows \cup Written = rows \cup {e}
              /\ Observed = [stream |-> e.stream, next |-> e.seq + 1]
<1> DEFINE seqs == {e.seq + 1 : e \in Written} \cup {origin.next}
           stream == IF Written = {} THEN origin.stream ELSE (CHOOSE e \in Written : TRUE).stream
           next == CHOOSE n \in seqs : \A m \in seqs : m <= n
<1>0. Observed = [stream |-> stream, next |-> next]
  BY DEF Observed
<1>1. /\ origin \in [stream : Procs \cup {NoProc}, next : Nat \ {0}]
      /\ origin = [stream |-> origin.stream, next |-> origin.next]
      /\ origin.next \in Nat \ {0}
      /\ \A e \in Written \cup rows : e.seq \in Nat \ {0} /\ e.stream \in Procs
  BY DEF TypeOK, Events
<1>2. \A r \in rows : r.stream = origin.stream /\ r.seq < origin.next
  BY DEF StoresInv, IndexGapFree
<1>3. \A e \in Written : stream = e.stream
  BY DEF Reconcilable
<1>4. \A e \in Written \ rows : AtHead(e)
  BY DEF Reconcilable, StoresInv, UnindexedHarmless, Refuted, SameOrigin
<1>5. ASSUME NEW n \in Nat, n \in seqs, \A m \in seqs : m <= n
      PROVE  next = n
  <2>1. \A m \in seqs : m \in Nat
    BY <1>1
  <2>2. next \in seqs /\ \A m \in seqs : m <= next
    BY <1>5
  <2> QED
    BY <1>5, <2>1, <2>2
<1>6. CASE Written \subseteq rows
  <2>1. next = origin.next
    BY <1>1, <1>2, <1>5, <1>6
  <2>2. stream = origin.stream
    BY <1>2, <1>6
  <2> QED
    BY <1>0, <1>1, <1>6, <2>1, <2>2
<1>7. CASE ~ (Written \subseteq rows)
  <2>1. PICK e \in Written : e \notin rows
    BY <1>7
  <2>2. AtHead(e) /\ e.seq = origin.next
    BY <2>1, <1>4 DEF AtHead
  <2>3. ASSUME NEW f \in Written, f \notin rows
        PROVE  f = e
    <3>1. f.seq = origin.next
      BY <2>3, <1>4 DEF AtHead
    <3>2. SameOrigin(f, e)
      BY <3>1, <2>2, <1>3 DEF SameOrigin
    <3> QED
      BY <3>2, <2>3 DEF Reconcilable
  <2>4. next = e.seq + 1
    <3>1. e.seq + 1 \in seqs
      OBVIOUS
    <3>2. \A f \in Written : f.seq + 1 <= e.seq + 1
      BY <1>1, <1>2, <2>2, <2>3
    <3>3. \A m \in seqs : m <= e.seq + 1
      BY <3>2, <1>1, <2>2
    <3> QED
      BY <3>1, <3>3, <1>1, <1>5
  <2> QED
    BY <1>0, <1>3, <2>1, <2>2, <2>3, <2>4
<1> QED
  BY <1>6, <1>7

-----------------------------------------------------------------------------
(* What the steps do to the shards. *)

(* What the shards hold whole are events. *)
LEMMA WrittenEvents ==
  ASSUME TypeOK
  PROVE  Written \subseteq Events
<1>1. \A d \in Days : \A i \in DOMAIN shards[d] : shards[d][i] \in Writes
  BY DEF TypeOK
<1> QED
  BY <1>1 DEF Written, Writes

(* Writing a line adds the writer's event, in an otherwise untouched file. *)
LEMMA LineWritten ==
  ASSUME TypeOK, NEW p \in Procs, req[p].day \in Days, answer[p] \in Events,
         NEW part \in Parts, WriteLine(p, part)
  PROVE  /\ shards' \in [Days -> Seq(Writes)]
         /\ \A d \in Days : Len(shards'[d]) >= Len(shards[d])
         /\ Written' \subseteq Written \cup {answer[p]}
<1> DEFINE w == [event |-> answer[p], part |-> part]
<1>1. shards \in [Days -> Seq(Writes)] /\ w \in Writes
  BY DEF TypeOK, Writes
<1>2. shards' = [shards EXCEPT ![req[p].day] = Append(shards[req[p].day], w)]
  BY DEF WriteLine
<1>3. ASSUME NEW d \in Days
      PROVE  /\ shards'[d] \in Seq(Writes)
             /\ Len(shards'[d]) >= Len(shards[d])
             /\ \A i \in DOMAIN shards'[d] :
                  \/ i \in DOMAIN shards[d] /\ shards'[d][i] = shards[d][i]
                  \/ shards'[d][i] = w
  <2>1. CASE d = req[p].day
    <3>1. shards'[d] = Append(shards[d], w) /\ shards[d] \in Seq(Writes)
      BY <1>1, <1>2, <2>1
    <3> QED
      BY <3>1, <1>1
  <2>2. CASE d # req[p].day
    <3>1. shards'[d] = shards[d] /\ shards[d] \in Seq(Writes)
      BY <1>1, <1>2, <2>2
    <3> QED
      BY <3>1
  <2> QED
    BY <2>1, <2>2
<1>4. shards' \in [Days -> Seq(Writes)]
  BY <1>1, <1>2, <1>3
<1>5. \A d \in Days : \A i \in DOMAIN shards'[d] : shards'[d][i].event \in Written \cup {answer[p]}
  BY <1>3 DEF Written
<1>6. Written' \subseteq Written \cup {answer[p]}
  BY <1>5 DEF Written
<1> QED
  BY <1>3, <1>4, <1>6

(* What a power failure leaves of a shard is a prefix of it with its last writes cut. *)
LEMMA SurvivingFiles ==
  ASSUME TypeOK, NEW d \in Days, NEW file \in Surviving(d)
  PROVE  /\ file \in Seq(Writes)
         /\ \A i \in DOMAIN file : i \in DOMAIN shards[d] /\ file[i].event = shards[d][i].event
<1>1. shards[d] \in Seq(Writes) /\ synced[d] \in Nat /\ synced[d] <= Len(shards[d])
  BY DEF TypeOK
<1>2. ASSUME NEW n \in synced[d] .. Len(shards[d])
      PROVE  /\ SubSeq(shards[d], 1, n) \in Seq(Writes)
             /\ Len(SubSeq(shards[d], 1, n)) = n
             /\ \A i \in 1 .. n : SubSeq(shards[d], 1, n)[i] = shards[d][i]
  BY <1>1
<1>3. CASE \E n \in synced[d] .. Len(shards[d]) : file = SubSeq(shards[d], 1, n)
  BY <1>1, <1>2, <1>3
<1>4. ASSUME NEW n \in (synced[d] + 1) .. Len(shards[d]), NEW part \in Parts,
             file = CutAt(shards[d], n, part)
      PROVE  /\ file \in Seq(Writes)
             /\ \A i \in DOMAIN file : i \in DOMAIN shards[d] /\ file[i].event = shards[d][i].event
  <2> DEFINE s == SubSeq(shards[d], 1, n - 1)
             w == [event |-> shards[d][n].event, part |-> part]
  <2>1. /\ s \in Seq(Writes) /\ Len(s) = n - 1 /\ n \in 1 .. Len(shards[d])
        /\ \A i \in 1 .. (n - 1) : s[i] = shards[d][i]
    BY <1>1
  <2>2. w \in Writes
    <3>1. shards[d][n] \in Writes
      BY <1>1, <2>1
    <3>2. shards[d][n].event \in Events
      BY <3>1 DEF Writes
    <3> QED
      BY <3>2 DEF Writes
  <2>3. file = Append(s, w)
    BY <1>4 DEF CutAt
  <2> HIDE DEF s, w
  <2>4. file \in Seq(Writes) /\ Len(file) = n
    BY <2>1, <2>2, <2>3
  <2>5. \A i \in 1 .. n : file[i] = IF i = n THEN w ELSE s[i]
    BY <2>1, <2>2, <2>3
  <2>6. \A i \in 1 .. n : file[i].event = shards[d][i].event
    BY <2>1, <2>5 DEF w
  <2> QED
    BY <1>1, <2>1, <2>4, <2>6
<1>5. {"torn"} \cup ({"unended"} \cap Faults) \subseteq Parts
  BY DEF Parts
<1>6. \/ \E n \in synced[d] .. Len(shards[d]) : file = SubSeq(shards[d], 1, n)
      \/ \E n \in (synced[d] + 1) .. Len(shards[d]), part \in Parts : file = CutAt(shards[d], n, part)
  BY <1>5 DEF Surviving
<1> QED
  BY <1>3, <1>4, <1>6

(* A power failure leaves of each file a beginning of it. *)
LEMMA PowerLossShrinks ==
  ASSUME TypeOK, PowerLoss
  PROVE  /\ shards' \in [Days -> Seq(Writes)]
         /\ synced' \in [Days -> Nat]
         /\ \A d \in Days : synced'[d] <= Len(shards'[d])
         /\ Written' \subseteq Written
<1>1. /\ shards' \in [Days -> UNION {Surviving(d) : d \in Days}]
      /\ \A d \in Days : shards'[d] \in Surviving(d)
      /\ synced' = [d \in Days |-> Len(shards'[d])]
  BY DEF PowerLoss
<1>2. \A d \in Days : shards'[d] \in Seq(Writes)
  BY <1>1, SurvivingFiles
<1>3. ASSUME NEW d \in Days, NEW i \in DOMAIN shards'[d]
      PROVE  shards'[d][i].event \in Written
  <2>1. i \in DOMAIN shards[d] /\ shards'[d][i].event = shards[d][i].event
    BY <1>1, SurvivingFiles
  <2> QED
    BY <2>1 DEF Written
<1>4. Written' \subseteq Written
  BY <1>3 DEF Written
<1> QED
  BY <1>1, <1>2, <1>4

-----------------------------------------------------------------------------
(* The effect of one step of one invocation on the two stores. *)

Act(p) == Start(p) \/ Step(p) \/ Crash(p)

(* An invocation that is writing has a day to write to and an event to write. *)
LEMMA DraftReady ==
  ASSUME IndInv, NEW p \in Procs, pc[p] \in Writing
  PROVE  /\ lock = p /\ req[p] \in Requests /\ req[p].day \in Days
         /\ answer[p] \in Events /\ answer[p].id = p /\ answer[p].req = req[p]
         /\ AtHead(answer[p])
<1>1. pc[p] \in Holding /\ pc[p] # "idle"
  BY DEF Writing, Holding
<1>2. lock = p /\ req[p] \in Requests
  BY <1>1 DEF IndInv, Exclusive
<1>3. req[p].day \in Days
  BY <1>2, RequestsAssumption
<1> QED
  BY <1>2, <1>3 DEF IndInv, Drafted

(* An append keeps every other shard, and the types of its own. *)
LEMMA LineCut ==
  ASSUME IndInv, NEW p \in Procs, pc[p] = "append",
         WriteLine(p, "whole") \/ CutShort(p)
  PROVE  /\ shards' \in [Days -> Seq(Writes)]
         /\ \A d \in Days : synced[d] <= Len(shards'[d])
         /\ Written' \subseteq Written \cup {answer[p]}
<1>1. TypeOK /\ req[p].day \in Days /\ answer[p] \in Events
  BY DraftReady DEF Writing, IndInv
<1>2. shards \in [Days -> Seq(Writes)] /\ \A d \in Days : synced[d] \in Nat /\ synced[d] <= Len(shards[d])
  BY <1>1 DEF TypeOK
<1>3. CASE shards' = shards
  BY <1>2, <1>3 DEF Written
<1>4. CASE \E part \in Parts : WriteLine(p, part)
  <2>1. /\ shards' \in [Days -> Seq(Writes)]
        /\ \A d \in Days : Len(shards'[d]) >= Len(shards[d])
        /\ Written' \subseteq Written \cup {answer[p]}
    BY <1>1, <1>4, LineWritten
  <2>2. \A d \in Days : Len(shards'[d]) \in Nat /\ Len(shards[d]) \in Nat
    BY <1>2, <2>1
  <2>3. \A d \in Days : synced[d] <= Len(shards'[d])
    BY <1>2, <2>1, <2>2
  <2> QED
    BY <2>1, <2>3
<1> QED
  BY <1>3, <1>4 DEF CutShort, Parts

(* Every step of an invocation is quiet, writes its line, imports or commits. *)
LEMMA Effects ==
  ASSUME IndInv, NEW p \in Procs, Act(p)
  PROVE  \/ shards' = shards /\ rows' = rows /\ origin' = origin
         \/ /\ pc[p] = "append" /\ rows' = rows /\ origin' = origin
            /\ synced' = synced /\ pc'[p] \in {"fsync", "failed", "dead"}
            /\ WriteLine(p, "whole") \/ CutShort(p)
         \/ Reconcile(p)
         \/ Commit(p)
<1>0. pc \in [Procs -> {"idle"} \cup Waiting \cup Holding \cup Ended]
  BY DEF IndInv, TypeOK
<1>1. CASE Start(p)
  BY <1>1 DEF Start
<1>2. CASE Busy(p) \/ ReconcileFails(p) \/ Conflict(p) \/ FsyncFails(p) \/ CommitFails(p)
  BY <1>2 DEF Busy, ReconcileFails, Conflict, FsyncFails, CommitFails, Fail
<1>3. CASE BeginReconcile(p) \/ BeginRecord(p) \/ Replay(p) \/ Allocate(p) \/ Fsync(p)
  BY <1>3 DEF BeginReconcile, BeginRecord, Replay, Allocate, Fsync
<1>4. CASE AppendLine(p)
  BY <1>0, <1>4 DEF AppendLine, Goto
<1>5. CASE AppendFails(p)
  BY <1>0, <1>5 DEF AppendFails, Fail, Goto
<1>6. CASE Crash(p)
  BY <1>0, <1>6 DEF Crash, Goto
<1> QED
  BY <1>1, <1>2, <1>3, <1>4, <1>5, <1>6 DEF Act, Step

(* What the stores are after an invocation's step. *)
LEMMA ImportStep ==
  ASSUME IndInv, NEW p \in Procs, Reconcile(p)
  PROVE  StoresInv' /\ rows' \subseteq Events /\ origin' \in [stream : Procs \cup {NoProc}, next : Nat \ {0}]
<1>1. /\ TypeOK /\ StoresInv /\ Reconcilable /\ Written \subseteq Events /\ rows \subseteq Events
      /\ rows' = rows \cup Written /\ origin' = Observed /\ Written' = Written
  BY WrittenEvents DEF IndInv, StoresInv, TypeOK, Reconcile, Written
<1>2. CASE rows \cup Written = rows /\ Observed = origin
  BY <1>1, <1>2, QuietStep DEF TypeOK
<1>3. CASE \E e \in Written :
             /\ AtHead(e)
             /\ rows \cup Written = rows \cup {e}
             /\ Observed = [stream |-> e.stream, next |-> e.seq + 1]
  <2>1. PICK e \in Written :
             /\ AtHead(e)
             /\ rows \cup Written = rows \cup {e}
             /\ Observed = [stream |-> e.stream, next |-> e.seq + 1]
    BY <1>3
  <2>2. e \in Events /\ e.seq \in Nat /\ e.stream \in Procs
    BY <1>1 DEF Events
  <2>3. StoresInv'
    BY <1>1, <2>1, <2>2, RowStep
  <2> QED
    BY <1>1, <2>1, <2>2, <2>3
<1> QED
  BY <1>1, <1>2, <1>3, AtMostOneImported

(* A commit writes the row at the head of the index and nothing else. *)
LEMMA CommitStep ==
  ASSUME IndInv, NEW p \in Procs, Commit(p)
  PROVE  StoresInv' /\ rows' \subseteq Events /\ origin' \in [stream : Procs \cup {NoProc}, next : Nat \ {0}]
<1>1. answer[p] \in Events /\ AtHead(answer[p])
  BY DraftReady DEF Commit, Writing
<1>2. /\ TypeOK /\ StoresInv /\ rows \subseteq Events
      /\ rows' = rows \cup {answer[p]} /\ Written' = Written
      /\ origin' = [stream |-> answer[p].stream, next |-> answer[p].seq + 1]
  BY DEF IndInv, StoresInv, TypeOK, Commit, Written
<1>3. StoresInv'
  BY <1>1, <1>2, RowStep
<1>4. answer[p].seq \in Nat /\ answer[p].stream \in Procs
  BY <1>1 DEF Events
<1> QED
  BY <1>1, <1>2, <1>3, <1>4

(* Every step keeps the two stores consistent. *)
LEMMA StoresStep ==
  ASSUME IndInv, [Next]_vars
  PROVE  StoresInv'
<1>0. StoresInv
  BY DEF IndInv, StoresInv
<1>1. ASSUME NEW p \in Procs, Act(p)
      PROVE  StoresInv'
  <2>1. CASE shards' = shards /\ rows' = rows /\ origin' = origin
    BY <1>0, <2>1, QuietStep DEF Written
  <2>2. CASE pc[p] = "append" /\ rows' = rows /\ origin' = origin /\ (WriteLine(p, "whole") \/ CutShort(p))
    BY <1>0, <2>2, LineCut, DraftReady, LineStep DEF Writing
  <2>3. CASE Reconcile(p)
    BY <2>3, ImportStep
  <2>4. CASE Commit(p)
    BY <2>4, CommitStep
  <2> QED
    BY <1>1, <2>1, <2>2, <2>3, <2>4, Effects
<1>2. CASE PowerLoss
  BY <1>0, <1>2, PowerLossShrinks, QuietStep DEF IndInv, PowerLoss
<1>3. CASE UNCHANGED vars
  BY <1>0, <1>3, QuietStep DEF vars, Written
<1> QED
  BY <1>1, <1>2, <1>3 DEF Next, Act

-----------------------------------------------------------------------------
(* Types. *)

Labels == {"idle"} \cup Waiting \cup Holding \cup Ended

(* The variables of the invocations. *)
ControlOK ==
  /\ pc \in [Procs -> Labels]
  /\ req \in [Procs -> Requests \cup {NoProc}]
  /\ answer \in [Procs -> Events \cup {Blank}]
  /\ lock \in Procs \cup {NoProc}

(* A step of an invocation keeps the types of its control state. *)
LEMMA ControlStep ==
  ASSUME IndInv, NEW p \in Procs, Act(p)
  PROVE  ControlOK'
<1>0. /\ ControlOK /\ rows \subseteq Events /\ origin \in [stream : Procs \cup {NoProc}, next : Nat \ {0}]
      /\ pc[p] = "check" => req[p] \in Requests
  BY DEF IndInv, TypeOK, ControlOK, Labels, Exclusive, Holding
<1> USE DEF ControlOK, Labels, Goto, Acquire, Release
<1>1. CASE Start(p)
  BY <1>0, <1>1 DEF Start, Waiting
<1>2. CASE Busy(p) \/ ReconcileFails(p) \/ Conflict(p) \/ AppendFails(p) \/ FsyncFails(p) \/ CommitFails(p)
  <2>1. Fail(p)
    BY <1>2 DEF Busy, ReconcileFails, Conflict, AppendFails, FsyncFails, CommitFails
  <2> QED
    BY <1>0, <2>1 DEF Fail, Ended
<1>3. CASE BeginReconcile(p) \/ BeginRecord(p)
  BY <1>0, <1>3 DEF BeginReconcile, BeginRecord, Holding
<1>4. CASE Reconcile(p)
  BY <1>0, <1>4 DEF Reconcile, Waiting
<1>5. CASE Replay(p)
  BY <1>0, <1>5 DEF Replay, Ended
<1>6. CASE Allocate(p)
  <2>1. NewEvent(p) \in Events
    BY <1>0, <1>6 DEF Allocate, NewEvent, Events
  <2> QED
    BY <1>0, <1>6, <2>1 DEF Allocate, Holding
<1>7. CASE AppendLine(p) \/ Fsync(p)
  BY <1>0, <1>7 DEF AppendLine, Fsync, Holding
<1>8. CASE Commit(p)
  BY <1>0, <1>8 DEF Commit, Ended
<1>9. CASE Crash(p)
  BY <1>0, <1>9 DEF Crash, Ended
<1> QED
  BY <1>1, <1>2, <1>3, <1>4, <1>5, <1>6, <1>7, <1>8, <1>9 DEF Act, Step

(* The shards, and how much of them was fsynced. *)
FilesOK ==
  /\ shards \in [Days -> Seq(Writes)]
  /\ synced \in [Days -> Nat]
  /\ \A d \in Days : synced[d] <= Len(shards[d])

(* A step of an invocation keeps the types of the files. *)
LEMMA FilesStep ==
  ASSUME IndInv, NEW p \in Procs, Act(p)
  PROVE  FilesOK'
<1>0. FilesOK
  BY DEF IndInv, TypeOK, FilesOK
<1>1. CASE pc[p] = "append" /\ (WriteLine(p, "whole") \/ CutShort(p)) /\ synced' = synced
  BY <1>0, <1>1, LineCut DEF FilesOK
<1>2. CASE Fsync(p)
  <2>1. /\ shards' = shards
        /\ synced' = [synced EXCEPT ![req[p].day] = Len(shards[req[p].day])]
        /\ \A d \in Days : Len(shards[d]) \in Nat
    BY <1>0, <1>2 DEF Fsync, FilesOK
  <2>2. req[p].day \in Days
    BY <1>2, DraftReady DEF Fsync, Writing
  <2> QED
    BY <1>0, <2>1, <2>2 DEF FilesOK
<1>3. CASE Start(p) \/ BeginReconcile(p) \/ Reconcile(p) \/ BeginRecord(p) \/ Replay(p) \/ Allocate(p) \/ Commit(p)
  BY <1>0, <1>3 DEF FilesOK, Start, BeginReconcile, Reconcile, BeginRecord, Replay, Allocate, Commit
<1>4. CASE Busy(p) \/ ReconcileFails(p) \/ Conflict(p) \/ FsyncFails(p) \/ CommitFails(p)
  BY <1>0, <1>4 DEF FilesOK, Busy, ReconcileFails, Conflict, FsyncFails, CommitFails, Fail
<1>5. CASE AppendLine(p) \/ AppendFails(p)
  BY <1>1, <1>5 DEF AppendLine, AppendFails, Fail
<1>6. CASE Crash(p)
  BY <1>0, <1>1, <1>6 DEF Crash, FilesOK
<1> QED
  BY <1>2, <1>3, <1>4, <1>5, <1>6 DEF Act, Step

(* Every step keeps the types. *)
LEMMA TypeStep ==
  ASSUME IndInv, [Next]_vars
  PROVE  TypeOK'
<1>0. TypeOK
  BY DEF IndInv
<1>1. ASSUME NEW p \in Procs, Act(p)
      PROVE  TypeOK'
  <2>1. rows' \subseteq Events /\ origin' \in [stream : Procs \cup {NoProc}, next : Nat \ {0}]
    BY <1>0, <1>1, Effects, ImportStep, CommitStep DEF TypeOK
  <2> QED
    BY <1>1, <2>1, ControlStep, FilesStep DEF TypeOK, ControlOK, FilesOK, Labels
<1>2. CASE PowerLoss
  <2>1. pc' \in [Procs -> {"idle"} \cup Waiting \cup Holding \cup Ended]
    BY <1>0, <1>2 DEF PowerLoss, TypeOK, Ended
  <2> QED
    BY <1>0, <1>2, <2>1, PowerLossShrinks DEF PowerLoss, TypeOK
<1>3. CASE UNCHANGED vars
  BY <1>0, <1>3 DEF vars, TypeOK
<1> QED
  BY <1>1, <1>2, <1>3 DEF Next, Act

-----------------------------------------------------------------------------
(* The lock and the transactions. *)

(* Every step keeps the lock exclusive. *)
LEMMA ExclusiveStep ==
  ASSUME IndInv, [Next]_vars
  PROVE  Exclusive'
<1>0. Exclusive /\ pc \in [Procs -> Labels] /\ req \in [Procs -> Requests \cup {NoProc}]
  BY DEF IndInv, TypeOK, Labels
<1> USE DEF Exclusive, Goto, Acquire, Release, Holding, Waiting, Ended, Labels
<1>1. ASSUME NEW p \in Procs, Act(p)
      PROVE  Exclusive'
  <2>1. CASE Start(p)
    BY <1>0, <2>1 DEF Start
  <2>2. CASE Busy(p) \/ ReconcileFails(p) \/ Conflict(p) \/ AppendFails(p) \/ FsyncFails(p) \/ CommitFails(p)
    <3>1. Fail(p) /\ pc[p] # "idle"
      BY <2>2 DEF Busy, ReconcileFails, Conflict, AppendFails, FsyncFails, CommitFails
    <3> QED
      BY <1>0, <3>1 DEF Fail
  <2>3. CASE BeginReconcile(p) \/ BeginRecord(p)
    BY <1>0, <2>3, ProcsAssumption DEF BeginReconcile, BeginRecord
  <2>4. CASE Reconcile(p) \/ Replay(p) \/ Commit(p)
    BY <1>0, <2>4 DEF Reconcile, Replay, Commit
  <2>5. CASE Allocate(p) \/ AppendLine(p) \/ Fsync(p)
    BY <1>0, <2>5 DEF Allocate, AppendLine, Fsync
  <2>6. CASE Crash(p)
    BY <1>0, <2>6 DEF Crash, Live
  <2> QED
    BY <1>1, <2>1, <2>2, <2>3, <2>4, <2>5, <2>6 DEF Act, Step
<1>2. CASE PowerLoss
  BY <1>0, <1>2 DEF PowerLoss, Live
<1>3. CASE UNCHANGED vars
  BY <1>0, <1>3 DEF vars
<1> QED
  BY <1>1, <1>2, <1>3 DEF Next, Act

(* Only the invocation that holds the lock changes the rows or the shards. *)
LEMMA OthersWait ==
  ASSUME IndInv, NEW p \in Procs, NEW q \in Procs, p # q, Act(p), pc[q] \in Holding
  PROVE  /\ rows' = rows /\ origin' = origin /\ shards' = shards
         /\ pc'[q] = pc[q] /\ req'[q] = req[q] /\ answer'[q] = answer[q]
<1>1. lock = q /\ pc[p] \notin Holding
  BY DEF IndInv, Exclusive
<1>2. /\ pc \in [Procs -> Labels] /\ req \in [Procs -> Requests \cup {NoProc}]
      /\ answer \in [Procs -> Events \cup {Blank}]
  BY DEF IndInv, TypeOK, Labels
<1>3. Start(p) \/ Busy(p) \/ Crash(p) \/ BeginReconcile(p) \/ BeginRecord(p)
  BY <1>1 DEF Act, Step, Reconcile, ReconcileFails, Conflict, Replay, Allocate, AppendLine,
              AppendFails, Fsync, FsyncFails, Commit, CommitFails, Holding
<1>4. CASE Start(p)
  BY <1>2, <1>4 DEF Start, Goto
<1>5. CASE Busy(p)
  BY <1>2, <1>5 DEF Busy, Fail, Goto
<1>6. CASE Crash(p)
  BY <1>1, <1>2, <1>6 DEF Crash, Goto, Holding
<1>7. CASE BeginReconcile(p) \/ BeginRecord(p)
  BY <1>1, <1>7, ProcsAssumption DEF BeginReconcile, BeginRecord, Acquire
<1> QED
  BY <1>3, <1>4, <1>5, <1>6, <1>7

(* Nor does a step of the others change what is true of a draft. *)
LEMMA DraftedStep ==
  ASSUME IndInv, [Next]_vars
  PROVE  Drafted'
<1>0. /\ Drafted /\ TypeOK'
      /\ pc \in [Procs -> Labels] /\ answer \in [Procs -> Events \cup {Blank}]
      /\ pc' \in [Procs -> Labels] /\ answer' \in [Procs -> Events \cup {Blank}]
      /\ rows \subseteq Events /\ origin \in [stream : Procs \cup {NoProc}, next : Nat \ {0}]
  BY TypeStep DEF IndInv, TypeOK, Labels
<1>1. ASSUME NEW p \in Procs, Act(p), NEW q \in Procs, pc'[q] \in Writing
      PROVE  answer'[q] \in Events /\ answer'[q].id = q /\ answer'[q].req = req'[q] /\ AtHead(answer[q])'
  <2>1. CASE p # q
    <3>1. pc'[q] = pc[q]
      BY <1>0, <1>1, <2>1 DEF Act, Step, Start, Busy, BeginReconcile, Reconcile, ReconcileFails,
         BeginRecord, Conflict, Replay, Allocate, AppendLine, AppendFails, Fsync, FsyncFails,
         Commit, CommitFails, Crash, Fail, Goto
    <3>2. pc[q] \in Writing /\ pc[q] \in Holding
      BY <1>1, <3>1 DEF Writing, Holding
    <3>3. rows' = rows /\ origin' = origin /\ req'[q] = req[q] /\ answer'[q] = answer[q]
      BY <1>1, <2>1, <3>2, OthersWait
    <3>4. answer[q] \in Events /\ answer[q].id = q /\ answer[q].req = req[q] /\ AtHead(answer[q])
      BY <3>2, DraftReady
    <3> QED
      BY <3>3, <3>4 DEF AtHead, Unclaimed, PriorAdmissible, Matches
  <2>2. CASE p = q
    <3>1. Allocate(p) \/ AppendLine(p) \/ Fsync(p)
      BY <1>0, <1>1, <2>2 DEF Act, Step, Start, Busy, BeginReconcile, Reconcile, ReconcileFails,
         BeginRecord, Conflict, Replay, AppendFails, FsyncFails, Commit, CommitFails, Crash,
         Fail, Goto, Writing
    <3>2. CASE Allocate(p)
      <4>1. /\ answer'[p] = NewEvent(p)
            /\ req' = req /\ rows' = rows /\ origin' = origin
            /\ Unclaimed(req[p].sem)
            /\ pc[p] = "check"
        BY <1>0, <3>2 DEF Allocate
      <4>2. answer'[p] \in Events
        <5>1. req[p] \in Requests
          BY <4>1 DEF IndInv, Exclusive
        <5> QED
          BY <1>0, <4>1, <5>1 DEF Events, NewEvent
      <4>3. AtHead(answer[p])'
        BY <4>1 DEF NewEvent, AtHead, Unclaimed, PriorAdmissible, Matches
      <4> QED
        BY <2>2, <4>1, <4>2, <4>3 DEF NewEvent
    <3>3. CASE AppendLine(p) \/ Fsync(p)
      <4>1. /\ pc[p] \in Writing /\ req' = req /\ answer' = answer
            /\ rows' = rows /\ origin' = origin
        BY <3>3 DEF AppendLine, Fsync, Writing
      <4>2. answer[p] \in Events /\ answer[p].id = p /\ answer[p].req = req[p] /\ AtHead(answer[p])
        BY <4>1, DraftReady
      <4> QED
        BY <2>2, <4>1, <4>2 DEF AtHead, Unclaimed, PriorAdmissible, Matches
    <3> QED
      BY <3>1, <3>2, <3>3
  <2> QED
    BY <2>1, <2>2
<1>2. ASSUME PowerLoss, NEW q \in Procs
      PROVE  pc'[q] \notin Writing
  BY <1>0, <1>2 DEF PowerLoss, Live, Writing, Holding, Labels
<1>3. CASE UNCHANGED vars
  BY <1>0, <1>3 DEF vars, Drafted, AtHead, Unclaimed, PriorAdmissible, Matches
<1> QED
  BY <1>1, <1>2, <1>3 DEF Next, Act, Drafted

-----------------------------------------------------------------------------
(* Answers and ids. *)

(* Rows are never removed, and an invocation that ended stays as it is. *)
LEMMA RowsStay ==
  ASSUME IndInv, [Next]_vars
  PROVE  rows \subseteq rows'
<1>1. ASSUME NEW p \in Procs, Act(p)
      PROVE  rows \subseteq rows'
  BY <1>1, Effects DEF Reconcile, Commit
<1> QED
  BY <1>1 DEF Next, Act, PowerLoss, vars

(* An invocation that has ended keeps its answer. *)
LEMMA EndedStay ==
  ASSUME IndInv, [Next]_vars, NEW q \in Procs, pc[q] \in Ended
  PROVE  pc'[q] = pc[q] /\ answer'[q] = answer[q] /\ req'[q] = req[q]
<1>0. /\ pc \in [Procs -> Labels] /\ req \in [Procs -> Requests \cup {NoProc}]
      /\ answer \in [Procs -> Events \cup {Blank}]
  BY DEF IndInv, TypeOK, Labels
<1> USE DEF Ended, Waiting, Holding, Goto
<1>1. ASSUME NEW p \in Procs, Act(p)
      PROVE  pc'[q] = pc[q] /\ answer'[q] = answer[q] /\ req'[q] = req[q]
  <2>1. CASE Start(p)
    BY <1>0, <2>1 DEF Start
  <2>2. CASE Busy(p) \/ ReconcileFails(p) \/ Conflict(p) \/ AppendFails(p) \/ FsyncFails(p) \/ CommitFails(p)
    <3>1. Fail(p) /\ pc[p] \notin Ended
      BY <2>2 DEF Busy, ReconcileFails, Conflict, AppendFails, FsyncFails, CommitFails
    <3> QED
      BY <1>0, <3>1 DEF Fail
  <2>3. CASE BeginReconcile(p) \/ BeginRecord(p) \/ Reconcile(p) \/ Replay(p) \/ Commit(p)
    BY <1>0, <2>3 DEF BeginReconcile, BeginRecord, Reconcile, Replay, Commit
  <2>4. CASE Allocate(p) \/ AppendLine(p) \/ Fsync(p)
    BY <1>0, <2>4 DEF Allocate, AppendLine, Fsync
  <2>5. CASE Crash(p)
    BY <1>0, <2>5 DEF Crash, Live
  <2> QED
    BY <1>1, <2>1, <2>2, <2>3, <2>4, <2>5 DEF Act, Step
<1>2. CASE PowerLoss
  BY <1>0, <1>2 DEF PowerLoss, Live
<1>3. CASE UNCHANGED vars
  BY <1>3 DEF vars
<1> QED
  BY <1>1, <1>2, <1>3 DEF Next, Act

(* An invocation ends with an answer only by committing it or finding it. *)
LEMMA AckStep ==
  ASSUME IndInv, [Next]_vars
  PROVE  AckIndexed'
<1> SUFFICES ASSUME NEW q \in Procs, pc'[q] \in {"added", "replayed"}
             PROVE  answer'[q] \in rows' /\ answer'[q].req = req'[q]
  BY DEF AckIndexed
<1>0. /\ pc \in [Procs -> Labels] /\ answer \in [Procs -> Events \cup {Blank}]
  BY DEF IndInv, TypeOK, Labels
<1>1. CASE pc[q] \in {"added", "replayed"}
  <2>1. answer[q] \in rows /\ answer[q].req = req[q]
    BY <1>1 DEF IndInv, AckIndexed
  <2>2. pc[q] \in Ended
    BY <1>1 DEF Ended
  <2> QED
    BY <2>1, <2>2, RowsStay, EndedStay
<1>2. CASE pc[q] \notin {"added", "replayed"}
  <2>1. Commit(q) \/ Replay(q)
    <3>1. ASSUME NEW p \in Procs, Act(p)
          PROVE  p = q /\ (Commit(q) \/ Replay(q))
      BY <1>0, <1>2, <3>1 DEF Act, Step, Start, Busy, BeginReconcile, Reconcile, ReconcileFails,
         BeginRecord, Conflict, Allocate, AppendLine, AppendFails, Fsync, FsyncFails,
         CommitFails, Crash, Fail, Goto, Commit, Replay
    <3>2. ~ PowerLoss
      BY <1>0, <1>2 DEF PowerLoss
    <3>3. ~ UNCHANGED vars
      BY <1>2 DEF vars
    <3> QED
      BY <3>1, <3>2, <3>3 DEF Next, Act
  <2>2. CASE Commit(q)
    BY <2>2, DraftReady DEF Commit, Writing
  <2>3. CASE Replay(q)
    BY <1>0, <2>3 DEF Replay, Original
  <2> QED
    BY <2>1, <2>2, <2>3
<1> QED
  BY <1>1, <1>2

(* Every step keeps ids identifying, and those of invocations to come fresh. *)
LEMMA IdsStep ==
  ASSUME IndInv, [Next]_vars
  PROVE  IdsIdentify' /\ IdsFresh'
<1>0. /\ IdsIdentify /\ IdsFresh
      /\ pc \in [Procs -> Labels] /\ answer \in [Procs -> Events \cup {Blank}]
  BY DEF IndInv, TypeOK, Labels
<1>1. ASSUME NEW p \in Procs, Act(p)
      PROVE  IdsIdentify' /\ IdsFresh'
  <2>1. CASE /\ pc[p] = "append" /\ rows' = rows /\ pc'[p] \in {"fsync", "failed", "dead"}
             /\ WriteLine(p, "whole") \/ CutShort(p)
    <3>1. /\ Written' \subseteq Written \cup {answer[p]}
          /\ answer[p].id = p
          /\ \A e \in Written \cup rows : e.id # p
      BY <1>0, <2>1, LineCut, DraftReady DEF Writing, IdsFresh, Ended
    <3>2. answer' = answer /\ \A q \in Procs : q # p => pc'[q] = pc[q]
      BY <1>0, <1>1, <2>1 DEF Act, Step, Start, Busy, BeginReconcile, Reconcile, ReconcileFails,
         BeginRecord, Conflict, Allocate, AppendLine, AppendFails, Fsync, FsyncFails,
         CommitFails, Crash, Fail, Goto, Commit, Replay, Waiting
    <3>3. IdsIdentify'
      BY <1>0, <2>1, <3>1 DEF IdsIdentify
    <3>4. IdsFresh'
      BY <1>0, <2>1, <3>1, <3>2 DEF IdsFresh, Ended
    <3> QED
      BY <3>3, <3>4
  <2>2. CASE Written' = Written /\ rows' \subseteq rows \cup Written \cup {answer[p]}
             /\ (pc[p] = "commit" \/ rows' \subseteq rows \cup Written)
    <3>1. \A e \in rows' : e \in rows \cup Written \/ (pc[p] = "commit" /\ e = answer[p])
      BY <2>2
    <3>2. pc[p] = "commit" => /\ answer[p].id = p
                              /\ \A e \in Written \cup rows : e.id = p => e = answer[p]
      BY <1>0, DraftReady DEF Writing, IdsFresh
    <3>3. IdsIdentify'
      BY <1>0, <2>2, <3>1, <3>2 DEF IdsIdentify
    <3>4. \A q \in Procs : q # p =>
            pc'[q] = pc[q] /\ answer'[q] = answer[q]
      BY <1>0, <1>1 DEF Act, Step, Start, Busy, BeginReconcile, Reconcile, ReconcileFails,
         BeginRecord, Conflict, Allocate, AppendLine, AppendFails, Fsync, FsyncFails,
         CommitFails, Crash, Fail, Goto, Commit, Replay
    <3>5. \/ pc[p] \notin {"fsync", "commit"} \cup Ended /\ pc'[p] \notin {"fsync", "commit"}
          \/ pc[p] = "append" /\ AppendLine(p)
          \/ pc[p] = "fsync" /\ pc'[p] = "commit" /\ answer' = answer
          \/ pc[p] \in {"fsync", "commit"} /\ pc'[p] \in Ended
      BY <1>0, <1>1 DEF Act, Step, Start, Busy, BeginReconcile, Reconcile, ReconcileFails,
         BeginRecord, Conflict, Allocate, AppendLine, AppendFails, Fsync, FsyncFails,
         CommitFails, Crash, Fail, Goto, Commit, Replay, Live, Ended, Waiting, Holding, Labels
    <3>6. CASE AppendLine(p)
      BY <1>0, <2>1, <3>6 DEF AppendLine, Goto, Labels
    <3>7. ASSUME ~ AppendLine(p), NEW q \in Procs, NEW e \in Written' \cup rows', e.id = q
          PROVE  /\ pc'[q] \in {"fsync", "commit"} \cup Ended
                 /\ pc'[q] \in {"fsync", "commit"} => e = answer'[q]
      <4>1. CASE q # p
        <5>1. e \in Written \cup rows
          BY <2>2, <3>1, <3>2, <3>7, <4>1
        <5> QED
          BY <1>0, <3>4, <3>7, <4>1, <5>1 DEF IdsFresh
      <4>2. CASE q = p
        <5>1. (pc[p] = "commit" /\ e = answer[p]) \/ e \in Written \cup rows
          BY <2>2, <3>1, <3>7
        <5>2. /\ pc[p] \in {"fsync", "commit"} \cup Ended
              /\ pc[p] \in {"fsync", "commit"} => e = answer[p]
          BY <1>0, <3>7, <4>2, <5>1 DEF IdsFresh
        <5>3. \/ pc[p] = "fsync" /\ pc'[p] = "commit" /\ answer' = answer
              \/ pc[p] \in {"fsync", "commit"} /\ pc'[p] \in Ended
          BY <3>5, <3>7, <5>2 DEF Ended
        <5> QED
          BY <4>2, <5>2, <5>3 DEF Ended
      <4> QED
        BY <4>1, <4>2
    <3>8. CASE ~ AppendLine(p)
      BY <3>3, <3>7, <3>8 DEF IdsFresh
    <3> QED
      BY <3>6, <3>8
  <2>3. CASE Reconcile(p)
    BY <2>2, <2>3 DEF Reconcile, Written
  <2>4. CASE Commit(p)
    BY <2>2, <2>4 DEF Commit, Written
  <2>5. CASE shards' = shards /\ rows' = rows
    BY <2>2, <2>5 DEF Written
  <2> QED
    BY <1>1, <2>1, <2>3, <2>4, <2>5, Effects
<1>2. CASE PowerLoss
  <2>1. /\ Written' \subseteq Written /\ rows' = rows /\ answer' = answer
        /\ \A q \in Procs :
             (pc'[q] = pc[q] /\ pc[q] \notin Waiting \cup Holding) \/ pc'[q] = "dead"
    BY <1>0, <1>2, PowerLossShrinks DEF PowerLoss, IndInv, Live
  <2> QED
    BY <1>0, <2>1 DEF IdsIdentify, IdsFresh, Ended, Holding
<1>3. CASE UNCHANGED vars
  BY <1>0, <1>3 DEF vars, IdsIdentify, IdsFresh, Written
<1> QED
  BY <1>1, <1>2, <1>3 DEF Next, Act

-----------------------------------------------------------------------------
(* The theorems. *)

(* An empty directory satisfies the invariant. *)
LEMMA InitIndInv == Init => IndInv
<1> SUFFICES ASSUME Init PROVE IndInv
  OBVIOUS
<1>1. /\ rows = {} /\ Written = {} /\ origin = [stream |-> NoProc, next |-> 1]
      /\ \A p \in Procs : pc[p] = "idle"
  BY DEF Init, Written
<1>2. TypeOK
  BY DEF Init, TypeOK
<1>3. Exclusive /\ Drafted /\ AckIndexed
  BY <1>1 DEF Exclusive, Drafted, AckIndexed, Holding, Writing
<1>4. IndexGapFree
  BY <1>1 DEF IndexGapFree
<1>5. OneRowPerKey /\ LineageGrounded /\ UnindexedHarmless /\ IdsIdentify /\ IdsFresh
  BY <1>1 DEF OneRowPerKey, LineageGrounded, UnindexedHarmless, IdsIdentify, IdsFresh
<1> QED
  BY <1>2, <1>3, <1>4, <1>5 DEF IndInv

(* Every step keeps the invariant. *)
LEMMA NextIndInv == IndInv /\ [Next]_vars => IndInv'
BY TypeStep, ExclusiveStep, DraftedStep, AckStep, StoresStep, IdsStep
   DEF IndInv, StoresInv

(* IndInv is an invariant of the write path. *)
THEOREM Invariance == Spec => []IndInv
BY InitIndInv, NextIndInv, PTL DEF Spec

(* Every variable keeps its type. *)
THEOREM TypeCorrect == Spec => []TypeOK
<1>1. IndInv => TypeOK
  BY DEF IndInv
<1> QED
  BY <1>1, Invariance, PTL

(***************************************************************************)
(* Whatever fails, the index numbers its rows 1, 2, 3, ... in one stream.  *)
(***************************************************************************)
THEOREM GapFree == Spec => []IndexGapFree
<1>1. IndInv => IndexGapFree
  BY DEF IndInv
<1> QED
  BY <1>1, Invariance, PTL

(* No interpretation key is ever recorded twice in the index. *)
THEOREM KeysUnique == Spec => []OneRowPerKey
<1>1. IndInv => OneRowPerKey
  BY DEF IndInv
<1> QED
  BY <1>1, Invariance, PTL

(* A recorded generation always has its recorded predecessor. *)
THEOREM LineageHolds == Spec => []LineageGrounded
<1>1. IndInv => LineageGrounded
  BY DEF IndInv
<1> QED
  BY <1>1, Invariance, PTL

(* A reported success names a committed row with the content asked for. *)
THEOREM AcksHold == Spec => []AckIndexed
<1>1. IndInv => AckIndexed
  BY DEF IndInv
<1> QED
  BY <1>1, Invariance, PTL

(* A line the index lacks is its next row, or none it will ever have. *)
THEOREM UnindexedStayHarmless == Spec => []UnindexedHarmless
<1>1. IndInv => UnindexedHarmless
  BY DEF IndInv
<1> QED
  BY <1>1, Invariance, PTL

-----------------------------------------------------------------------------
(***************************************************************************)
(* What an added event's line rests on.  It is in the file as a whole      *)
(* write when its transaction goes on to fsync and among the fsynced ones  *)
(* when it goes on to commit; a file's writes stay where they are, but for *)
(* a power failure, which leaves the fsynced ones there.                   *)
(***************************************************************************)
LineOf(p) == [event |-> answer[p], part |-> "whole"]

LineWhole(p) == \E i \in DOMAIN shards[req[p].day] : shards[req[p].day][i] = LineOf(p)

LineSynced(p) ==
  \E i \in DOMAIN shards[req[p].day] :
    i <= synced[req[p].day] /\ shards[req[p].day][i] = LineOf(p)

LineDurable(p) ==
  /\ pc[p] = "fsync" => LineWhole(p)
  /\ pc[p] \in {"commit", "added"} => LineSynced(p)

Durable == \A p \in Procs : LineDurable(p)

(* No write is changed by one that is appended. *)
LEMMA WritesStay ==
  ASSUME TypeOK, NEW p \in Procs, req[p].day \in Days, answer[p] \in Events,
         NEW part \in Parts, WriteLine(p, part)
  PROVE  /\ \A d \in Days : \A i \in DOMAIN shards[d] :
              i \in DOMAIN shards'[d] /\ shards'[d][i] = shards[d][i]
         /\ \E i \in DOMAIN shards'[req[p].day] :
              shards'[req[p].day][i] = [event |-> answer[p], part |-> part]
<1>1. PICK w \in Writes : w = [event |-> answer[p], part |-> part]
  BY DEF Writes
<1>2. PICK day \in Days : day = req[p].day
  OBVIOUS
<1>3. /\ shards \in [Days -> Seq(Writes)]
      /\ shards' = [shards EXCEPT ![day] = Append(shards[day], w)]
  BY <1>1, <1>2 DEF TypeOK, WriteLine
<1>4. /\ shards'[day] = Append(shards[day], w) /\ shards[day] \in Seq(Writes)
      /\ \A d \in Days \ {day} : shards'[d] = shards[d]
  BY <1>3
<1>5. /\ \A i \in DOMAIN shards[day] : i \in DOMAIN shards'[day] /\ shards'[day][i] = shards[day][i]
      /\ Len(shards[day]) + 1 \in DOMAIN shards'[day]
      /\ shards'[day][Len(shards[day]) + 1] = w
  BY <1>4
<1> QED
  BY <1>1, <1>2, <1>4, <1>5

(* Of a file, the power failure leaves what was fsynced. *)
LEMMA SyncedSurvive ==
  ASSUME TypeOK, NEW d \in Days, NEW file \in Surviving(d)
  PROVE  \A i \in DOMAIN shards[d] : i <= synced[d] =>
           i \in DOMAIN file /\ i <= Len(file) /\ file[i] = shards[d][i]
<1>1. shards[d] \in Seq(Writes) /\ synced[d] \in Nat /\ synced[d] <= Len(shards[d])
  BY DEF TypeOK
<1>2. CASE \E n \in synced[d] .. Len(shards[d]) : file = SubSeq(shards[d], 1, n)
  BY <1>1, <1>2
<1>3. CASE \E n \in (synced[d] + 1) .. Len(shards[d]) : \E part \in Parts : file = CutAt(shards[d], n, part)
  <2>1. PICK n \in (synced[d] + 1) .. Len(shards[d]), part \in Parts : file = CutAt(shards[d], n, part)
    BY <1>3
  <2>2. PICK s, w : s = SubSeq(shards[d], 1, n - 1) /\ w = [event |-> shards[d][n].event, part |-> part]
    OBVIOUS
  <2>3. /\ s \in Seq(Writes) /\ Len(s) = n - 1 /\ n \in 1 .. Len(shards[d])
        /\ \A i \in 1 .. (n - 1) : s[i] = shards[d][i]
    BY <1>1, <2>1, <2>2
  <2>4. file = Append(s, w)
    BY <2>1, <2>2 DEF CutAt
  <2>5. Len(file) = n /\ DOMAIN file = 1 .. n /\ \A i \in 1 .. (n - 1) : file[i] = shards[d][i]
    BY <2>3, <2>4
  <2> QED
    BY <1>1, <2>1, <2>5
<1> QED
  BY <1>2, <1>3 DEF Surviving, Parts

(* What a step of an invocation leaves of the files. *)
LEMMA FilesGrow ==
  ASSUME IndInv, NEW p \in Procs, Act(p)
  PROVE  \A d \in Days : /\ \A i \in DOMAIN shards[d] :
                             i \in DOMAIN shards'[d] /\ shards'[d][i] = shards[d][i]
                        /\ synced[d] \in Nat /\ synced'[d] \in Nat /\ synced[d] <= synced'[d]
<1>1. TypeOK /\ TypeOK'
  BY NextIndInv DEF IndInv, Next, Act
<1>2. \A d \in Days : \A i \in DOMAIN shards[d] :
        i \in DOMAIN shards'[d] /\ shards'[d][i] = shards[d][i]
  <2>1. CASE shards' = shards
    BY <2>1
  <2>2. CASE pc[p] = "append" /\ \E part \in Parts : WriteLine(p, part)
    BY <1>1, <2>2, WritesStay, DraftReady DEF Writing
  <2> QED
    BY <2>1, <2>2, Effects DEF Reconcile, Commit, CutShort, Parts
<1>3. \A d \in Days : synced'[d] \in Nat /\ synced[d] \in Nat
  BY <1>1 DEF TypeOK
<1>4. CASE Fsync(p)
  <2>1. /\ synced' = [synced EXCEPT ![req[p].day] = Len(shards[req[p].day])]
        /\ \A d \in Days : synced[d] <= Len(shards[d])
    BY <1>1, <1>4 DEF Fsync, TypeOK
  <2>2. \A d \in Days : synced[d] <= synced'[d]
    BY <1>1, <1>3, <2>1 DEF TypeOK
  <2> QED
    BY <1>2, <1>3, <2>2
<1>5. CASE ~ Fsync(p)
  <2>1. synced' = synced
    BY <1>5 DEF Act, Step, Start, Busy, BeginReconcile, Reconcile, ReconcileFails,
       BeginRecord, Conflict, Replay, Allocate, AppendLine, AppendFails, FsyncFails,
       Commit, CommitFails, Crash, Fail
  <2> QED
    BY <1>2, <1>3, <2>1
<1> QED
  BY <1>4, <1>5

(* Every step keeps acknowledged lines readable. *)
LEMMA DurableStep ==
  ASSUME IndInv, Durable, [Next]_vars
  PROVE  Durable'
<1>0. TypeOK /\ \A p \in Procs : pc[p] # "idle" => req[p] \in Requests /\ req[p].day \in Days
  BY RequestsAssumption DEF IndInv, Exclusive
<1>1. ASSUME NEW p \in Procs, Act(p), NEW q \in Procs
      PROVE  LineDurable(q)'
  <2>1. CASE \/ pc'[q] = pc[q] /\ req'[q] = req[q] /\ answer'[q] = answer[q]
             \/ pc[q] = "commit" /\ pc'[q] = "added" /\ req'[q] = req[q] /\ answer'[q] = answer[q]
    <3>1. CASE pc[q] \in {"fsync", "commit", "added"}
      <4>1. req[q].day \in Days /\ LineOf(q)' = LineOf(q) /\ req'[q] = req[q]
        BY <1>0, <2>1, <3>1 DEF LineOf
      <4>2. LineWhole(q) => LineWhole(q)'
        BY <1>1, <4>1, FilesGrow DEF LineWhole
      <4>3. LineSynced(q) => LineSynced(q)'
        <5>1. \A i \in DOMAIN shards[req[q].day] : i \in Nat
          BY <1>0, <4>1 DEF TypeOK
        <5> QED
          BY <1>1, <4>1, <5>1, FilesGrow DEF LineSynced
      <4> QED
        BY <2>1, <4>2, <4>3 DEF Durable, LineDurable
    <3>2. CASE pc[q] \notin {"fsync", "commit", "added"}
      BY <2>1, <3>2 DEF LineDurable
    <3> QED
      BY <3>1, <3>2
  <2>2. CASE p # q
    BY <1>0, <1>1, <2>1, <2>2 DEF TypeOK, Act, Step, Start, Busy, BeginReconcile, Reconcile,
       ReconcileFails, BeginRecord, Conflict, Replay, Allocate, AppendLine, AppendFails, Fsync,
       FsyncFails, Commit, CommitFails, Crash, Fail, Goto
  <2>3. CASE p = q /\ AppendLine(p)
    <3>1. /\ pc'[p] = "fsync" /\ req' = req /\ answer' = answer /\ pc[p] \in Writing
          /\ WriteLine(p, "whole")
      BY <1>0, <2>3 DEF TypeOK, AppendLine, Goto, Writing
    <3>2. LineWhole(p)'
      BY <1>0, <3>1, DraftReady, WritesStay DEF LineWhole, LineOf, Parts
    <3> QED
      BY <2>3, <3>1, <3>2 DEF LineDurable
  <2>4. CASE p = q /\ Fsync(p)
    <3>1. /\ pc'[p] = "commit" /\ req' = req /\ answer' = answer /\ shards' = shards
          /\ pc[p] = "fsync" /\ req[p].day \in Days
          /\ synced'[req[p].day] = Len(shards[req[p].day])
      BY <1>0, <2>4 DEF TypeOK, Fsync, Goto
    <3>2. LineWhole(p)
      BY <3>1 DEF Durable, LineDurable
    <3>3. LineSynced(p)'
      <4>1. \A i \in DOMAIN shards[req[p].day] : i <= Len(shards[req[p].day])
        BY <1>0, <3>1 DEF TypeOK
      <4> QED
        BY <3>1, <3>2, <4>1 DEF LineWhole, LineSynced, LineOf
    <3> QED
      BY <2>4, <3>1, <3>3 DEF LineDurable
  <2>5. CASE p = q /\ Commit(p)
    BY <1>0, <2>1, <2>5 DEF TypeOK, Commit, Goto
  <2>6. CASE p = q /\ ~ AppendLine(p) /\ ~ Fsync(p) /\ ~ Commit(p)
    <3>1. pc'[p] \notin {"fsync", "commit", "added"}
      BY <1>0, <1>1, <2>6 DEF TypeOK, Act, Step, Start, Busy, BeginReconcile, Reconcile,
         ReconcileFails, BeginRecord, Conflict, Replay, Allocate, AppendFails, FsyncFails,
         CommitFails, Crash, Fail, Goto
    <3> QED
      BY <2>6, <3>1 DEF LineDurable
  <2> QED
    BY <2>2, <2>3, <2>4, <2>5, <2>6
<1>2. ASSUME PowerLoss, NEW q \in Procs
      PROVE  LineDurable(q)'
  <2>1. /\ req' = req /\ answer' = answer
        /\ pc'[q] \in {"fsync", "commit", "added"} => pc[q] = "added" /\ pc'[q] = "added"
    BY <1>0, <1>2 DEF PowerLoss, TypeOK, Live, Holding
  <2>2. CASE pc[q] = "added"
    <3>1. LineSynced(q) /\ req[q].day \in Days
      BY <1>0, <2>2 DEF Durable, LineDurable
    <3>2. PICK i \in DOMAIN shards[req[q].day] :
            i <= synced[req[q].day] /\ shards[req[q].day][i] = LineOf(q)
      BY <3>1 DEF LineSynced
    <3>3. /\ shards'[req[q].day] \in Surviving(req[q].day)
          /\ synced'[req[q].day] = Len(shards'[req[q].day])
      BY <1>2, <3>1 DEF PowerLoss
    <3>4. LineSynced(q)'
      BY <1>0, <2>1, <3>1, <3>2, <3>3, SyncedSurvive DEF LineSynced, LineOf
    <3> QED
      BY <2>1, <2>2, <3>4 DEF LineDurable
  <2>3. CASE pc[q] # "added"
    BY <2>1, <2>3 DEF LineDurable
  <2> QED
    BY <2>2, <2>3
<1>3. CASE UNCHANGED vars
  BY <1>3 DEF vars, Durable, LineDurable, LineWhole, LineSynced, LineOf
<1> QED
  BY <1>1, <1>2, <1>3 DEF Next, Act, Durable

(***************************************************************************)
(* The event of an invocation that added is a line that read_events gives  *)
(* back, or one that a failed writer's piece runs into.                    *)
(***************************************************************************)
THEOREM AddedStayReadable == Spec => []AddedReadable
<1>1. Init => Durable
  BY DEF Init, Durable, LineDurable
<1>2. IndInv /\ Durable => AddedReadable
  <2> SUFFICES ASSUME IndInv, Durable, NEW p \in Procs, pc[p] = "added", ~ Overrun(answer[p])
               PROVE  answer[p] \in Readable
    BY DEF AddedReadable
  <2>1. req[p].day \in Days /\ shards[req[p].day] \in Seq(Writes)
    BY RequestsAssumption DEF IndInv, Exclusive, TypeOK
  <2>2. PICK i \in DOMAIN shards[req[p].day] : shards[req[p].day][i] = LineOf(p)
    BY DEF Durable, LineDurable, LineSynced
  <2>3. i \in Nat \ {0}
    BY <2>1
  <2>4. i = 1 \/ shards[req[p].day][i-1].part = "whole"
    BY <2>1, <2>2, <2>3 DEF Overrun, LineOf
  <2>5. ReadableAt(shards[req[p].day], i)
    BY <2>2, <2>4 DEF ReadableAt, LineOf
  <2> QED
    BY <2>1, <2>2, <2>5 DEF Readable, LineOf
<1> QED
  BY <1>1, <1>2, DurableStep, Invariance, PTL DEF Spec

-----------------------------------------------------------------------------
(* The log that callers see. *)

Entries == [id : Procs, req : Requests]

(* The n-th entry of the log is the one of the row with sequence n. *)
LEMMA EntryOfRow ==
  ASSUME TypeOK, IndexGapFree
  PROVE  /\ LogOfRows \in Seq(Entries) /\ Len(LogOfRows) = origin.next - 1
         /\ \A r \in rows :
              r.seq \in 1 .. (origin.next - 1) /\ LogOfRows[r.seq] = Entry(r)
         /\ \A n \in 1 .. (origin.next - 1) :
              \E r \in rows : r.seq = n /\ LogOfRows[n] = Entry(r)
<1>1. /\ origin.next \in Nat \ {0} /\ origin.next - 1 \in Nat
      /\ \A r \in rows : r.seq \in Nat \ {0} /\ Entry(r) \in Entries
  BY DEF TypeOK, Events, Entry, Entries
<1>2. \A r \in rows : r.seq \in 1 .. (origin.next - 1)
  BY <1>1 DEF IndexGapFree
<1>3. ASSUME NEW r \in rows
      PROVE  (CHOOSE s \in rows : s.seq = r.seq) = r
  BY DEF IndexGapFree
<1>4. \A r \in rows : LogOfRows[r.seq] = Entry(r)
  BY <1>2, <1>3 DEF LogOfRows
<1>5. \A n \in 1 .. (origin.next - 1) :
        \E r \in rows : r.seq = n /\ LogOfRows[n] = Entry(r)
  BY <1>4 DEF IndexGapFree
<1>6. LogOfRows \in [1 .. (origin.next - 1) -> Entries]
  <2>1. LogOfRows = [n \in 1 .. (origin.next - 1) |-> LogOfRows[n]]
    BY DEF LogOfRows
  <2>2. \A n \in 1 .. (origin.next - 1) : LogOfRows[n] \in Entries
    BY <1>1, <1>5
  <2> QED
    BY <2>1, <2>2, Zenon
<1>7. LogOfRows \in Seq(Entries) /\ Len(LogOfRows) = origin.next - 1
  BY <1>1, <1>6
<1> QED
  BY <1>2, <1>4, <1>5, <1>7

(* What the log has recorded is what the rows are of. *)
LEMMA RecordedRows ==
  ASSUME TypeOK, IndexGapFree
  PROVE  \A f : f \in Promise!Recorded <=> \E r \in rows : f = Entry(r)
<1>1. DOMAIN LogOfRows = 1 .. (origin.next - 1)
  BY DEF LogOfRows
<1>2. \A f : f \in Promise!Recorded <=> \E n \in 1 .. (origin.next - 1) : f = LogOfRows[n]
  BY <1>1 DEF Promise!Recorded
<1> QED
  BY <1>2, EntryOfRow

(* A row at the cursor is an entry at the end. *)
LEMMA RowAppends ==
  ASSUME TypeOK, TypeOK', IndexGapFree, IndexGapFree', NEW e \in Events, e.seq = origin.next,
         rows' = rows \cup {e}, origin' = [stream |-> e.stream, next |-> e.seq + 1]
  PROVE  LogOfRows' = Append(LogOfRows, Entry(e))
<1>1. /\ origin.next \in Nat \ {0} /\ origin'.next = origin.next + 1
      /\ origin'.next - 1 = origin.next
      /\ Entry(e) \in Entries
  BY DEF TypeOK, Events, Entry, Entries
<1>2. LogOfRows' = [n \in 1 .. origin.next |-> LogOfRows'[n]]
  BY <1>1 DEF LogOfRows
<1>3. ASSUME NEW r \in rows', NEW n \in 1 .. origin.next, r.seq = n
      PROVE  LogOfRows'[n] = Entry(r)
  <2>1. (CHOOSE s \in rows' : s.seq = n) = r
    BY <1>3 DEF IndexGapFree
  <2> QED
    BY <1>1, <2>1 DEF LogOfRows, Entry
<1> DEFINE longer == Append(LogOfRows, Entry(e))
<1>4. LogOfRows \in Seq(Entries) /\ Len(LogOfRows) = origin.next - 1
  BY EntryOfRow
<1>5. /\ longer \in Seq(Entries) /\ Len(longer) = origin.next
      /\ \A n \in 1 .. (origin.next - 1) : longer[n] = LogOfRows[n]
      /\ longer[origin.next] = Entry(e)
  <2>1. Len(LogOfRows) + 1 = origin.next
    BY <1>1, <1>4
  <2> QED
    BY <1>1, <1>4, <2>1, AppendProperties
<1>6. longer = [n \in 1 .. origin.next |-> longer[n]]
  BY <1>5, LenProperties
<1>7. \A n \in 1 .. (origin.next - 1) : LogOfRows'[n] = LogOfRows[n]
  <2> SUFFICES ASSUME NEW n \in 1 .. (origin.next - 1)
               PROVE  LogOfRows'[n] = LogOfRows[n]
    OBVIOUS
  <2>1. PICK r \in rows : r.seq = n /\ LogOfRows[n] = Entry(r)
    BY EntryOfRow
  <2>2. n \in 1 .. origin.next
    BY <1>1
  <2> QED
    BY <1>3, <2>1, <2>2
<1>8. LogOfRows'[origin.next] = Entry(e)
  BY <1>1, <1>3
<1>9. \A n \in 1 .. origin.next : longer[n] = LogOfRows'[n]
  BY <1>1, <1>5, <1>7, <1>8
<1> QED
  BY <1>2, <1>6, <1>9

(***************************************************************************)
(* An event at the cursor is one that the audit log may record: its id is  *)
(* new there, its intent unanswered, and what it supersedes is recorded.   *)
(***************************************************************************)
LEMMA HeadRecordable ==
  ASSUME TypeOK, IndexGapFree, NEW e \in Events, AtHead(e), \A r \in rows : r.id # e.id
  PROVE  /\ Entry(e) \in Promise!Entries
         /\ \A f \in Promise!Recorded : f.id # Entry(e).id
         /\ ~ Promise!Repeats(Entry(e))
         /\ Promise!Grounded(Entry(e))
<1>1. /\ e.id \in Procs /\ e.req \in Requests
      /\ Entry(e).id = e.id /\ Entry(e).req = e.req
  BY DEF Events, Entry
<1>2. Entry(e) \in Promise!Entries
  BY <1>1 DEF Entry, Promise!Entries
<1>3. \A f : f \in Promise!Recorded <=> \E r \in rows : f = Entry(r)
  BY RecordedRows
<1>4. \A r \in rows : Entry(r).id = r.id /\ Entry(r).req = r.req
  BY DEF Entry
<1>5. ~ Promise!Repeats(Entry(e))
  <2>1. \A r \in rows : ~ SameKey(r.req.sem, e.req.sem)
    BY DEF AtHead, Unclaimed, Matches, SameKey
  <2> QED
    BY <1>1, <1>3, <1>4, <2>1 DEF Promise!Repeats, SameKey
<1>6. Promise!Grounded(Entry(e))
  <2>1. CASE e.req.sem # NoSem /\ e.req.sem.gen > 1
    <3>1. e.req.sem.prior # NoProc
      BY <1>1, <2>1, RequestsAssumption DEF IsSem
    <3>2. PICK r \in rows : /\ r.id = e.req.sem.prior
                            /\ r.req.sem # NoSem
                            /\ r.req.sem.case = e.req.sem.case
                            /\ r.req.sem.gen < e.req.sem.gen
      BY <2>1, <3>1 DEF AtHead, Unclaimed, PriorAdmissible
    <3> QED
      BY <1>1, <1>3, <1>4, <3>2 DEF Promise!Grounded
  <2>2. CASE ~ (e.req.sem # NoSem /\ e.req.sem.gen > 1)
    BY <1>1, <2>2 DEF Promise!Grounded
  <2> QED
    BY <2>1, <2>2
<1> QED
  BY <1>1, <1>2, <1>3, <1>4, <1>5, <1>6

-----------------------------------------------------------------------------
(* The steps. *)

(* A row that was the event at the cursor is an entry recorded, whoever hears of it. *)
LEMMA RowRecords ==
  ASSUME IndInv, IndInv', NEW e \in Events, AtHead(e), \A r \in rows : r.id # e.id,
         rows' = rows \cup {e}, origin' = [stream |-> e.stream, next |-> e.seq + 1],
         Replies' = Replies \/ Promise!Tell(e.id, Entry(e))
  PROVE  Promise!Next
<1>1. TypeOK /\ TypeOK' /\ IndexGapFree /\ IndexGapFree'
  BY DEF IndInv
<1>2. LogOfRows' = Append(LogOfRows, Entry(e))
  BY <1>1, RowAppends DEF AtHead
<1>3. Promise!Record(Entry(e))
  BY <1>1, <1>2, HeadRecordable DEF Promise!Record, Entry
<1>4. Entry(e) \in Promise!Entries
  BY <1>1, HeadRecordable
<1> QED
  BY <1>3, <1>4 DEF Promise!Next

(* Reconciliation imports nothing, or records what its writer left uncommitted. *)
LEMMA ReconcileRefines ==
  ASSUME IndInv, IndInv', NEW p \in Procs, Reconcile(p)
  PROVE  [Promise!Next]_<<LogOfRows, Replies>>
<1>1. /\ TypeOK /\ StoresInv /\ IdsIdentify /\ Reconcilable /\ Written \subseteq Events
      /\ rows' = rows \cup Written /\ origin' = Observed
  BY WrittenEvents DEF IndInv, StoresInv, Reconcile
<1>2. Replies' = Replies
  BY DEF IndInv, TypeOK, Reconcile, Goto, Replies, Entry
<1>3. CASE rows \cup Written = rows /\ Observed = origin
  BY <1>1, <1>2, <1>3 DEF LogOfRows, Entry
<1>4. ASSUME NEW e \in Written, AtHead(e), rows \cup Written = rows \cup {e},
             Observed = [stream |-> e.stream, next |-> e.seq + 1]
      PROVE  Promise!Next
  <2>1. e \in Events /\ e \notin rows
    BY <1>1, <1>4 DEF AtHead, StoresInv, IndexGapFree, TypeOK, Events
  <2>2. \A r \in rows : r.id # e.id
    BY <1>1, <1>4, <2>1 DEF IdsIdentify
  <2> QED
    BY <1>1, <1>2, <1>4, <2>1, <2>2, RowRecords
<1> QED
  BY <1>1, <1>3, <1>4, AtMostOneImported

(* A commit records the draft, and tells its caller. *)
LEMMA CommitRefines ==
  ASSUME IndInv, IndInv', NEW p \in Procs, Commit(p)
  PROVE  Promise!Next
<1>1. /\ pc[p] = "commit" /\ answer[p] \in Events /\ answer[p].id = p /\ AtHead(answer[p])
      /\ rows' = rows \cup {answer[p]} /\ UNCHANGED answer
      /\ origin' = [stream |-> answer[p].stream, next |-> answer[p].seq + 1]
  BY DraftReady DEF Commit, Writing
<1>2. answer[p] \notin rows
  BY <1>1 DEF AtHead, IndInv, IndexGapFree, TypeOK, Events
<1>3. \A r \in rows : r.id # p
  BY <1>1, <1>2 DEF IndInv, IdsFresh
<1>4. Replies[p] = NoProc /\ Replies' = [Replies EXCEPT ![p] = Entry(answer[p])]
  BY <1>1 DEF IndInv, TypeOK, Commit, Goto, Replies, Entry
<1>5. Promise!Tell(answer[p].id, Entry(answer[p]))
  BY <1>1, <1>4 DEF Promise!Tell
<1> QED
  BY <1>1, <1>3, <1>5, RowRecords

(* A replay tells its caller of the entry that answers its intent already. *)
LEMMA ReplayRefines ==
  ASSUME IndInv, NEW p \in Procs, Replay(p)
  PROVE  Promise!Next
<1>1. PICK r \in rows : Original(p, r) /\ answer' = [answer EXCEPT ![p] = r]
  BY DEF Replay
<1>2. /\ r \in Events /\ r.req.sem # NoSem
      /\ Entry(r).req = r.req
      /\ Entry(r) \in Promise!Entries
  BY <1>1 DEF IndInv, TypeOK, Events, Replay, Original, Entry, Promise!Entries
<1>3. Entry(r) \in Promise!Recorded
  BY <1>1, RecordedRows DEF IndInv
<1>4. pc[p] = "check" /\ Replies[p] = NoProc /\ Replies' = [Replies EXCEPT ![p] = Entry(r)]
  BY <1>1 DEF IndInv, TypeOK, Replay, Goto, Replies, Entry
<1>5. UNCHANGED LogOfRows
  BY DEF Replay, LogOfRows, Entry
<1>6. Promise!Recall(p, Entry(r))
  BY <1>2, <1>3, <1>4, <1>5 DEF Promise!Recall, Promise!Tell
<1> QED
  BY <1>2, <1>6 DEF Promise!Next

(* Nothing else is seen of a step: no rows, no replies. *)
LEMMA OtherStepsInvisible ==
  ASSUME IndInv, NEW p \in Procs, Act(p), ~ Reconcile(p), ~ Commit(p), ~ Replay(p)
  PROVE  UNCHANGED <<LogOfRows, Replies>>
<1>1. rows' = rows /\ origin' = origin
  BY Effects
<1>2. \A q \in Procs \ {p} : pc'[q] = pc[q] /\ answer'[q] = answer[q]
  BY DEF IndInv, TypeOK, Act, Step, Start, Busy, BeginReconcile, ReconcileFails, BeginRecord,
         Conflict, Allocate, AppendLine, AppendFails, Fsync, FsyncFails, CommitFails, Crash,
         Fail, Goto
<1>3. {pc[p], pc'[p]} \cap {"added", "replayed"} = {}
  BY DEF IndInv, TypeOK, Act, Step, Start, Busy, BeginReconcile, ReconcileFails, BeginRecord,
         Conflict, Allocate, AppendLine, AppendFails, Fsync, FsyncFails, CommitFails, Crash,
         Fail, Goto, Live, Waiting, Holding
<1>4. UNCHANGED Replies
  BY <1>2, <1>3 DEF Replies, Entry
<1> QED
  BY <1>1, <1>4 DEF LogOfRows, Entry

(* Every step of the ledger is a step of the log that its callers see, or none. *)
LEMMA StepRefines ==
  ASSUME IndInv, IndInv', [Next]_vars
  PROVE  [Promise!Next]_<<LogOfRows, Replies>>
<1>1. ASSUME NEW p \in Procs, Act(p)
      PROVE  [Promise!Next]_<<LogOfRows, Replies>>
  BY <1>1, ReconcileRefines, CommitRefines, ReplayRefines, OtherStepsInvisible
<1>2. CASE PowerLoss
  BY <1>2 DEF IndInv, TypeOK, PowerLoss, Live, Waiting, Holding, LogOfRows, Replies, Entry
<1>3. CASE UNCHANGED vars
  BY <1>3 DEF vars, LogOfRows, Replies, Entry
<1> QED
  BY <1>1, <1>2, <1>3 DEF Next, Act

(* An empty directory is an empty log. *)
LEMMA InitRefines == Init => Promise!Init
<1> SUFFICES ASSUME Init
             PROVE  Promise!Init
  OBVIOUS
<1>1. TypeOK /\ IndexGapFree /\ origin.next = 1
  BY InitIndInv DEF IndInv, Init
<1>2. LogOfRows = <<>>
  BY <1>1, EntryOfRow, EmptySeq
<1>3. Replies = [p \in Procs |-> NoProc]
  BY DEF Init, Replies
<1> QED
  BY <1>2, <1>3 DEF Promise!Init

(***************************************************************************)
(* Every behaviour of cli._record_event's processes, with their crashes    *)
(* and power failures, is a behaviour of the audit log.                    *)
(***************************************************************************)
THEOREM Refinement == Spec => ImplementsLog
<1>1. Init => Promise!Init
  BY InitRefines
<1>2. IndInv /\ IndInv' /\ [Next]_vars => [Promise!Next]_<<LogOfRows, Replies>>
  BY StepRefines
<1> QED
  BY <1>1, <1>2, Invariance, PTL DEF Spec, ImplementsLog, Promise!Spec

-----------------------------------------------------------------------------
(* Restarts. *)

OneLive == \A p, q \in Live : p = q

(* The index has no row without a line, and lacks the line of one event at most. *)
OneLineBehind ==
  /\ rows \subseteq Written
  /\ \A e \in Written \ rows : AtHead(e)
  /\ \A e, f \in Written \ rows : e = f

(* Once it has reconciled, an invocation knows every line but the one it writes. *)
LinesOf(p) ==
  /\ pc[p] \in {"between", "check", "append"} => Written \subseteq rows
  /\ pc[p] \in {"fsync", "commit"} =>
       answer[p] \in Written /\ Written \ rows \subseteq {answer[p]}

SerialInv ==
  /\ OneLive
  /\ \A d \in Days : Parsable(shards[d])
  /\ OneLineBehind
  /\ \A p \in Procs : LinesOf(p)

RestartsInv == IndInv /\ IsFiniteSet(Live) /\ (serial => SerialInv)

(* A step of an invocation takes no line away. *)
LEMMA LinesKept ==
  ASSUME IndInv, NEW p \in Procs, Act(p)
  PROVE  Written \subseteq Written'
<1>1. \A d \in Days : \A i \in DOMAIN shards[d] :
        i \in DOMAIN shards'[d] /\ shards'[d][i] = shards[d][i]
  BY FilesGrow
<1> QED
  BY <1>1 DEF Written

(* After its append an invocation's event is in the shards. *)
LEMMA LineAdded ==
  ASSUME IndInv, NEW p \in Procs, AppendLine(p)
  PROVE  answer[p] \in Written'
<1>1. TypeOK /\ pc[p] \in Writing /\ WriteLine(p, "whole")
  BY DEF IndInv, AppendLine, Writing
<1>2. PICK i \in DOMAIN shards'[req[p].day] :
        shards'[req[p].day][i] = [event |-> answer[p], part |-> "whole"]
  BY <1>1, DraftReady, WritesStay DEF Parts
<1>3. req[p].day \in Days
  BY <1>1, DraftReady
<1> QED
  BY <1>2, <1>3 DEF Written

(* A step is of one invocation: the others stand where they stood. *)
LEMMA OthersStand ==
  ASSUME IndInv, NEW p \in Procs, Act(p), NEW q \in Procs, q # p
  PROVE  pc'[q] = pc[q] /\ answer'[q] = answer[q]
BY DEF IndInv, TypeOK, Act, Step, Start, Busy, BeginReconcile, Reconcile, ReconcileFails, BeginRecord,
       Conflict, Replay, Allocate, AppendLine, AppendFails, Fsync, FsyncFails, Commit, CommitFails,
       Crash, Fail, Goto

(* An invocation comes to where LinesOf says something of it in this order only. *)
LEMMA LabelOrder ==
  ASSUME IndInv, NEW p \in Procs, Act(p)
  PROVE  /\ pc'[p] = "between" => Reconcile(p)
         /\ pc'[p] = "check" => pc[p] = "between"
         /\ pc'[p] = "append" => pc[p] = "check"
         /\ pc'[p] = "fsync" => AppendLine(p)
         /\ pc'[p] = "commit" => Fsync(p)
BY DEF IndInv, TypeOK, Act, Step, Start, Busy, BeginReconcile, Reconcile, ReconcileFails, BeginRecord,
       Conflict, Replay, Allocate, AppendLine, AppendFails, Fsync, FsyncFails, Commit, CommitFails,
       Crash, Fail, Goto, Waiting, Holding, Live

(* At most one invocation at a time is started. *)
LEMMA LiveStep ==
  ASSUME IndInv, IsFiniteSet(Live), NEW p \in Procs, Act(p)
  PROVE  IsFiniteSet(Live') /\ (Cardinality(Live') <= 1 => OneLive')
<1>1. IsFiniteSet(Live')
  <2>1. Live' \subseteq Live \cup {p}
    BY OthersStand DEF Live
  <2> QED
    BY <2>1, FS_AddElement, FS_Subset
<1>2. ASSUME Cardinality(Live') <= 1, NEW q \in Live', NEW r \in Live', q # r
      PROVE  FALSE
  <2>1. IsFiniteSet({q}) /\ Cardinality({q}) = 1
    BY FS_Singleton
  <2>2. Cardinality({q} \cup {r}) = 2
    <3>1. r \notin {q}
      BY <1>2
    <3>2. Cardinality({q} \cup {r}) = IF r \in {q} THEN 1 ELSE 1 + 1
      BY <2>1, FS_AddElement
    <3> QED
      BY <3>1, <3>2
  <2>3. Cardinality({q} \cup {r}) <= Cardinality(Live')
    BY <1>1, <1>2, FS_Subset
  <2>4. Cardinality(Live') \in Nat
    BY <1>1, FS_CardinalityType
  <2> QED
    BY <1>2, <2>2, <2>3, <2>4
<1> QED
  BY <1>1, <1>2 DEF OneLive

(* While invocations follow each other, each step keeps the index a line behind at most. *)
LEMMA SerialStep ==
  ASSUME IndInv, SerialInv, NEW p \in Procs, Act(p), OneLive', \A d \in Days : Parsable(shards'[d])
  PROVE  SerialInv'
<1>1. ASSUME pc[p] \in Waiting \cup Holding, NEW q \in Procs, q # p
      PROVE  pc'[q] = pc[q] /\ pc[q] \notin Waiting \cup Holding
  BY <1>1, OthersStand DEF SerialInv, OneLive, Live
<1>2. OneLineBehind /\ LinesOf(p)
  BY DEF SerialInv
<1>3. CASE shards' = shards /\ rows' = rows /\ origin' = origin
  <2>1. Written' = Written
    BY <1>3 DEF Written
  <2>2. OneLineBehind'
    BY <1>2, <1>3, <2>1 DEF OneLineBehind, AtHead, Unclaimed, PriorAdmissible, Matches
  <2>3. ASSUME NEW q \in Procs, q # p
        PROVE  LinesOf(q)'
    BY <1>3, <2>1, <2>3, OthersStand DEF SerialInv, LinesOf
  <2>4. pc'[p] # "between" \/ Written \subseteq rows
    BY <1>3, <2>1, LabelOrder DEF Reconcile
  <2>5. ASSUME pc'[p] = "fsync"
        PROVE  answer'[p] \in Written' /\ Written \ rows \subseteq {answer'[p]}
    <3>1. AppendLine(p)
      BY <2>5, LabelOrder
    <3> QED
      BY <1>2, <3>1, LineAdded DEF LinesOf, AppendLine
  <2>6. ASSUME pc'[p] = "commit"
        PROVE  answer'[p] \in Written' /\ Written \ rows \subseteq {answer'[p]}
    <3>1. Fsync(p)
      BY <2>6, LabelOrder
    <3> QED
      BY <1>2, <2>1, <3>1 DEF LinesOf, Fsync
  <2>7. LinesOf(p)'
    BY <1>2, <1>3, <2>1, <2>4, <2>5, <2>6, LabelOrder DEF LinesOf
  <2> QED
    BY <2>2, <2>3, <2>7 DEF SerialInv
<1>4. CASE /\ pc[p] = "append" /\ rows' = rows /\ origin' = origin
           /\ pc'[p] \in {"fsync", "failed", "dead"}
           /\ WriteLine(p, "whole") \/ CutShort(p)
  <2>1. Written \subseteq rows /\ AtHead(answer[p])
    BY <1>2, <1>4, DraftReady DEF LinesOf, Writing
  <2>2. Written \subseteq Written' /\ Written' \subseteq Written \cup {answer[p]}
    BY <1>4, LinesKept, LineCut
  <2>3. \A e : AtHead(e) => AtHead(e)'
    BY <1>4 DEF AtHead, Unclaimed, PriorAdmissible, Matches
  <2>4. OneLineBehind'
    BY <1>2, <1>4, <2>1, <2>2, <2>3 DEF OneLineBehind
  <2>5. \A q \in Procs : q # p => LinesOf(q)'
    BY <1>1, <1>4 DEF LinesOf, Waiting, Holding
  <2>6. pc'[p] = "fsync" => answer'[p] = answer[p] /\ answer[p] \in Written'
    BY LabelOrder, LineAdded DEF AppendLine
  <2>7. LinesOf(p)'
    BY <1>4, <2>1, <2>2, <2>6 DEF LinesOf
  <2> QED
    BY <2>4, <2>5, <2>7 DEF SerialInv
<1>5. CASE Reconcile(p)
  <2>1. rows' = rows \cup Written /\ Written' = Written /\ pc'[p] = "between"
    BY <1>5 DEF Reconcile, Written, Goto, IndInv, TypeOK
  <2>2. Written' \subseteq rows'
    BY <2>1
  <2>3. OneLineBehind'
    BY <1>2, <2>1, <2>2 DEF OneLineBehind
  <2>4. \A q \in Procs : q # p => LinesOf(q)'
    BY <1>1, <1>5 DEF LinesOf, Reconcile, Waiting, Holding
  <2> QED
    BY <2>1, <2>2, <2>3, <2>4 DEF SerialInv, LinesOf
<1>6. CASE Commit(p)
  <2>1. /\ rows' = rows \cup {answer[p]} /\ Written' = Written
        /\ pc[p] = "commit" /\ pc'[p] = "added"
    BY <1>6 DEF Commit, Written, Goto, IndInv, TypeOK
  <2>2. Written' \subseteq rows' /\ rows' \subseteq Written'
    BY <1>2, <2>1 DEF LinesOf, OneLineBehind
  <2>3. OneLineBehind'
    BY <2>2 DEF OneLineBehind
  <2>4. \A q \in Procs : q # p => LinesOf(q)'
    BY <1>1, <2>1 DEF LinesOf, Waiting, Holding
  <2> QED
    BY <2>1, <2>3, <2>4 DEF SerialInv, LinesOf
<1> QED
  BY <1>3, <1>4, <1>5, <1>6, Effects

(* Files that parse give back every event that was written. *)
LEMMA ParsableReadable ==
  ASSUME TypeOK, \A d \in Days : Parsable(shards[d])
  PROVE  Written \subseteq Readable
<1>1. ASSUME NEW d \in Days, NEW i \in DOMAIN shards[d]
      PROVE  ReadableAt(shards[d], i)
  <2>1. shards[d] \in Seq(Writes)
    BY DEF TypeOK
  <2>2. i \in 1 .. Len(shards[d]) /\ (i # 1 => i - 1 \in DOMAIN shards[d] /\ i - 1 # Len(shards[d]))
    BY <2>1
  <2> QED
    BY <2>2 DEF Parsable, ReadableAt
<1> QED
  BY <1>1 DEF Written, Readable

(***************************************************************************)
(* For any number of invocations one after the other, each failing or      *)
(* killed where it may be: the next one can reconcile, and every answer is *)
(* carried by a shard.                                                     *)
(***************************************************************************)
THEOREM RestartsAreReconciled == RestartsSpec => []RestartsReconcile
<1>1. RestartsInit => RestartsInv
  <2> SUFFICES ASSUME RestartsInit
               PROVE  RestartsInv
    OBVIOUS
  <2>1. IndInv /\ Init
    BY InitIndInv DEF RestartsInit
  <2>2. Live = {} /\ Written = {} /\ rows = {} /\ \A d \in Days : Parsable(shards[d])
    BY <2>1 DEF Init, Live, Written, Waiting, Holding, Parsable
  <2>3. \A p \in Procs : LinesOf(p)
    BY <2>1 DEF Init, LinesOf
  <2> QED
    BY <2>1, <2>2, <2>3, FS_EmptySet DEF RestartsInv, SerialInv, OneLive, OneLineBehind
<1>2. RestartsInv /\ [RestartsNext]_<<vars, serial>> => RestartsInv'
  <2> SUFFICES ASSUME RestartsInv, [RestartsNext]_<<vars, serial>>
               PROVE  RestartsInv'
    OBVIOUS
  <2>1. IndInv'
    BY NextIndInv DEF RestartsInv, RestartsNext, Next
  <2>2. ASSUME NEW p \in Procs, Act(p),
               serial' = (serial /\ Cardinality(Live') <= 1 /\ \A d \in Days : Parsable(shards'[d]))
        PROVE  IsFiniteSet(Live') /\ (serial' => SerialInv')
    BY <2>2, LiveStep, SerialStep DEF RestartsInv
  <2>3. CASE PowerLoss /\ serial' = FALSE
    <3>1. Live' \subseteq Live
      BY <2>3 DEF PowerLoss, Live, RestartsInv, IndInv, TypeOK, Waiting, Holding
    <3> QED
      BY <2>1, <2>3, <3>1, FS_Subset DEF RestartsInv
  <2>4. CASE UNCHANGED <<vars, serial>>
    BY <2>1, <2>4 DEF vars, RestartsInv, SerialInv, OneLive, Live, OneLineBehind, Written, LinesOf,
      AtHead, Unclaimed, PriorAdmissible, Matches
  <2> QED
    BY <2>1, <2>2, <2>3, <2>4 DEF RestartsNext, Act, RestartsInv
<1>3. RestartsInv => RestartsReconcile
  <2> SUFFICES ASSUME RestartsInv, serial
               PROVE  /\ Reconcilable
                      /\ \A p \in Procs : pc[p] \in {"added", "replayed"} => answer[p] \in Readable
    BY DEF RestartsReconcile
  <2>1. SerialInv /\ TypeOK /\ IndexGapFree
    BY DEF RestartsInv, IndInv
  <2>2. \A e \in Written : e \in rows \/ AtHead(e)
    BY <2>1 DEF SerialInv, OneLineBehind
  <2>3. \A e \in Written : origin.stream \in {NoProc, e.stream}
    BY <2>1, <2>2 DEF IndexGapFree, AtHead
  <2>4. \A e, f \in Written : e.stream = f.stream
    <3>1. CASE origin.stream = NoProc
      BY <2>1, <2>2, <3>1, NoStreamNoRows DEF SerialInv, OneLineBehind
    <3>2. CASE origin.stream # NoProc
      BY <2>3, <3>2
    <3> QED
      BY <3>1, <3>2
  <2>5. ASSUME NEW e \in Written \ rows, NEW f \in Written \cup rows, SameOrigin(e, f)
        PROVE  e = f
    <3>1. e.seq = origin.next /\ origin.next \in Nat
      BY <2>1, <2>2 DEF AtHead, TypeOK
    <3>2. f \notin rows
      <4>1. ASSUME f \in rows
            PROVE  f.seq < origin.next /\ f.seq = e.seq
        BY <2>1, <2>5, <4>1 DEF IndexGapFree, SameOrigin
      <4> QED
        BY <3>1, <4>1
    <3> QED
      BY <2>1, <3>2 DEF SerialInv, OneLineBehind
  <2>6. Reconcilable
    BY <2>1, <2>3, <2>4, <2>5 DEF Reconcilable, SerialInv
  <2>7. \A p \in Procs : pc[p] \in {"added", "replayed"} => answer[p] \in Readable
    BY <2>1, ParsableReadable DEF RestartsInv, IndInv, AckIndexed, SerialInv, OneLineBehind
  <2> QED
    BY <2>6, <2>7
<1> QED
  BY <1>1, <1>2, <1>3, PTL DEF RestartsSpec

=============================================================================
