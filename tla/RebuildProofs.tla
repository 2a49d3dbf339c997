---------------------------- MODULE RebuildProofs ----------------------------
(***************************************************************************)
(* Rebuilds beside adds, for any adds, days, options and losses.           *)
(*                                                                         *)
(* Files stay consistent (RebuildInv).  A file changes by the commit of    *)
(* the add that holds its lock, or when no add holds it, and then by a     *)
(* batch: one that its validation accepted, or one that a reconciliation   *)
(* compared with the rows.  Wherever an event is, it is the draft of the   *)
(* add that it is named for, so two with one id are one event.  A rebuild  *)
(* makes one file at most, and files are counted, so there is always one   *)
(* to make.                                                                *)
(*                                                                         *)
(* Shards in order are not refused (ConvergeInv).  While every line is     *)
(* kept and no origin is given to two, the lines of a stream have all      *)
(* sequences before their own, and so has each file's cursor.  A writer    *)
(* whose sequence is behind a line of its shard would repeat an origin;    *)
(* so shards are ascending, the batch that is read from them day by day is *)
(* ascending, and an ascending batch without gap passes: the least place   *)
(* where the loop could refuse it has its predecessor admitted             *)
(* (AscendingAdmitted).                                                    *)
(*                                                                         *)
(* One process after another, nothing is dropped and no origin repeated    *)
(* but on request (QuietInv): then nothing changes between the comparison  *)
(* of index and batch and the import, so every event that was ever         *)
(* appended is a row, in the batch, or given up.                           *)
(***************************************************************************)
EXTENDS QuietRebuilds, ImportProofs, FiniteSetTheorems

Producers == Procs \cup {NoStream}

AddTypes ==
  /\ pc \in [Procs -> {"idle", "open", "between", "commit", "added", "failed", "dead"}]
  /\ day \in [Procs -> Days \cup {0}]
  /\ handle \in [Procs -> FileIds \cup {NoFile}]
  /\ draft \in [Procs -> EventRecords \cup {NoStream}]

StoreTypes ==
  /\ files \in [FileIds -> Tables(EventRecords, Producers)]
  /\ main \in [FileIds -> Tables(EventRecords, Producers)]
  /\ path \in 0 .. made
  /\ made \in 0 .. (MaxRebuilds + 1)
  /\ lock \in [FileIds -> Producers]
  /\ shards \in [Days -> Seq(EventRecords)]

RebuildTypes ==
  /\ phase \in {"idle", "reading", "covered", "checked", "moved"}
  /\ opts \in Options \cup {NoStream}
  /\ todo \subseteq Days
  /\ batch \in Seq(EventRecords)
  /\ only \subseteq EventRecords
  /\ begun \in 0 .. MaxRebuilds

HistoryTypes ==
  /\ gone \subseteq EventRecords
  /\ waived \subseteq Nat

Types == AddTypes /\ StoreTypes /\ RebuildTypes /\ HistoryTypes

(* An open add has a day and a file with tables, and no add has a draft before its append. *)
Opened ==
  /\ \A p \in Procs : handle[p] <= made
  /\ \A p \in Open : day[p] \in Days /\ handle[p] \in FileIds /\ files[handle[p]].next >= 1
  /\ \A p \in Procs : pc[p] \in {"idle", "open", "between"} => draft[p] = NoStream

(* From the append to the commit the file is locked, and the draft is its next row. *)
Locked ==
  \A p \in Procs : pc[p] = "commit" =>
    /\ lock[handle[p]] = p
    /\ draft[p] \in EventRecords
    /\ draft[p].seq = files[handle[p]].next
    /\ files[handle[p]].stream \in {NoStream, draft[p].stream}

(* Every event there is anywhere is the draft of the add that it is named for. *)
Known(events) == \A e \in events : e.id \in Procs /\ e = draft[e.id]

Identified ==
  /\ \A f \in FileIds : Known(files[f].rows)
  /\ Known(Lines)
  /\ Known(ToSet(batch))
  /\ \A p \in Procs : draft[p] # NoStream => draft[p].id = p

Consistent(table) ==
  \A r, s \in table.rows :
    /\ r.id = s.id \/ r.seq = s.seq => r = s
    /\ r.stream = table.stream
    /\ r.seq < table.next

Stored ==
  /\ \A f \in FileIds : /\ Consistent(files[f]) /\ Consistent(main[f])
                        /\ main[f].rows \subseteq files[f].rows
                        /\ f > made => main[f] = NoTables
  /\ path # NoFile => files[path].next >= 1

(* The lines are finitely many. *)
Bounded == \E b \in Nat : \A e \in Lines : e.seq <= b

(* A rebuild makes one file at most. *)
Counted ==
  made + (IF path = NoFile THEN 1 ELSE 0)
       + (IF phase \in {"reading", "covered", "checked"} THEN 1 ELSE 0) <= begun + 1

RebuildInv ==
  Types /\ Opened /\ Locked /\ Identified /\ Stored /\ Bounded /\ Counted

-----------------------------------------------------------------------------
(* Tables. *)

(* The records that adds make are events as the lemmas of ImportProofs take them. *)
LEMMA RecordsAreEvents ==
  /\ IsEventSet(EventRecords, Producers)
  /\ \A e \in EventRecords : /\ e.seq \in Nat /\ e.seq >= 1 /\ e.stream \in Procs
                             /\ e.stream # NoStream /\ e.id \in Procs /\ e.day \in Days
BY NoStreamAssumption DEF IsEventSet, EventRecords, Producers

(* Finitely many events of the table's stream that share no id or origin with a row. *)
Joinable(table, new) ==
  /\ \E b \in Nat : \A e \in new : e.seq <= b
  /\ \A e, f \in new : e.stream = f.stream
  /\ \A e \in new : table.stream \in {NoStream, e.stream}
  /\ \A e \in new \ table.rows, f \in new \cup table.rows :
       e.id = f.id \/ e.seq = f.seq => e = f

Join(table, new) == [Observe(table, new) EXCEPT !.rows = table.rows \cup new]

(* They join the table, and the cursor stays above all rows. *)
LEMMA Joined ==
  ASSUME NEW table \in Tables(EventRecords, Producers), Consistent(table),
         NEW new \in SUBSET EventRecords,
         Joinable(table, new), NEW joined, joined = Join(table, new)
  PROVE  /\ joined \in Tables(EventRecords, Producers) /\ Consistent(joined)
         /\ joined.rows = table.rows \cup new
         /\ table.next <= joined.next
         /\ joined.next = table.next \/ \E e \in new : joined.next = e.seq + 1
         /\ IF new = {} THEN joined.stream = table.stream
            ELSE \E e \in new : joined.stream = e.stream
<1> DEFINE T == {e.seq + 1 : e \in new} \cup {table.next}
<1>1. /\ table.next \in Nat /\ table.stream \in Producers /\ table.rows \in SUBSET EventRecords
      /\ \A e \in new : e.seq \in Nat /\ e.stream # NoStream
  BY RecordsAreEvents DEF Tables
<1>2. PICK top \in T : \A m \in T : m <= top
  <2>1. T \subseteq Nat /\ T # {}
    BY <1>1
  <2>3. PICK b \in Nat : \A e \in new : e.seq <= b
    BY DEF Joinable
  <2>2. table.next + b + 1 \in Nat /\ \A m \in T : m <= table.next + b + 1
    BY <1>1, <2>3
  <2> HIDE DEF T
  <2> QED
    BY <2>1, <2>2, GreatestNumber
<1>3. /\ top \in Nat /\ table.next <= top
      /\ \A e \in new : e.seq < top
      /\ top = table.next \/ \E e \in new : top = e.seq + 1
  <2>1. top = table.next \/ \E e \in new : top = e.seq + 1
    OBVIOUS
  <2>2. top \in Nat
    BY <1>1, <2>1
  <2>3. table.next \in T /\ \A e \in new : e.seq + 1 \in T
    OBVIOUS
  <2>4. table.next <= top /\ \A e \in new : e.seq + 1 <= top
    BY <1>2, <2>3
  <2> QED
    BY <1>1, <2>1, <2>2, <2>4
<1> HIDE DEF T
<1>4. {e \in new : e.stream # NoStream} = new
  BY <1>1
<1>5. /\ Observe(table, new).rows = table.rows
      /\ Observe(table, new) \in Tables(EventRecords, Producers)
      /\ Observe(table, new).next = top
      /\ IF new = {} THEN Observe(table, new).stream = table.stream
         ELSE \E e \in new : Observe(table, new).stream = e.stream
  <2>1. /\ \A e \in new : e.stream # NoStream => e.seq < top
        /\ top = table.next \/ \E e \in new : e.stream # NoStream /\ top = e.seq + 1
    BY <1>1, <1>3
  <2>2. LET enveloped == {e \in new : e.stream # NoStream} IN
        IF enveloped = {} THEN Observe(table, new).stream = table.stream
        ELSE \E e \in enveloped : Observe(table, new).stream = e.stream
    BY <1>3, <2>1, RecordsAreEvents, Observed
  <2>3. /\ Observe(table, new).rows = table.rows
        /\ Observe(table, new) \in Tables(EventRecords, Producers)
        /\ Observe(table, new).next = top
    BY <1>3, <2>1, RecordsAreEvents, Observed
  <2> QED
    BY <1>4, <2>2, <2>3
<1>6. /\ joined \in Tables(EventRecords, Producers)
      /\ joined.rows = table.rows \cup new /\ joined.next = top
      /\ joined.stream = Observe(table, new).stream
  <2> DEFINE o == Observe(table, new)
  <2>1. o \in [rows : SUBSET EventRecords, stream : Producers, next : Nat] /\ o.next = top
    BY <1>5 DEF Tables
  <2>2. joined = [o EXCEPT !.rows = table.rows \cup new]
    BY DEF Join
  <2>3. table.rows \cup new \in SUBSET EventRecords
    BY <1>1
  <2> HIDE DEF o
  <2>4. /\ joined \in [rows : SUBSET EventRecords, stream : Producers, next : Nat]
        /\ joined.rows = table.rows \cup new /\ joined.next = o.next /\ joined.stream = o.stream
    BY <2>1, <2>2, <2>3
  <2> QED
    BY <2>1, <2>4 DEF Tables, o
<1>7. IF new = {} THEN joined.stream = table.stream
      ELSE \E e \in new : joined.stream = e.stream
  BY <1>5, <1>6
<1>8. Consistent(joined)
  <2> SUFFICES ASSUME NEW r \in table.rows \cup new, NEW s \in table.rows \cup new
               PROVE  /\ r.id = s.id \/ r.seq = s.seq => r = s
                      /\ r.stream = joined.stream
                      /\ r.seq < joined.next
    BY <1>6 DEF Consistent
  <2>1. r.id = s.id \/ r.seq = s.seq => r = s
    <3>1. CASE r \in table.rows /\ s \in table.rows
      BY <3>1 DEF Consistent
    <3>2. CASE r \in new \ table.rows
      BY <3>2 DEF Joinable
    <3>3. CASE s \in new \ table.rows
      BY <3>3 DEF Joinable
    <3> QED
      BY <3>1, <3>2, <3>3
  <2>2. r.stream = joined.stream
    <3>1. CASE new = {}
      BY <1>7, <3>1 DEF Consistent
    <3>2. CASE new # {} /\ r \in new
      BY <1>7, <3>2 DEF Joinable
    <3>3. CASE new # {} /\ r \in table.rows
      <4>1. r.stream = table.stream /\ r.stream # NoStream
        BY <1>1, <3>3, RecordsAreEvents DEF Consistent
      <4> QED
        BY <1>7, <3>3, <4>1 DEF Joinable
    <3> QED
      BY <3>1, <3>2, <3>3
  <2>3. r.seq < joined.next
    <3>1. CASE r \in new
      BY <1>3, <1>6, <3>1
    <3>2. CASE r \in table.rows
      <4>1. r.seq < table.next /\ r.seq \in Nat
        BY <1>1, <3>2, RecordsAreEvents DEF Consistent
      <4> QED
        BY <1>1, <1>3, <1>6, <4>1
    <3> QED
      BY <3>1, <3>2
  <2> QED
    BY <2>1, <2>2, <2>3
<1> QED
  BY <1>3, <1>6, <1>7, <1>8

(* A valid batch joins a table. *)
LEMMA ImportJoins ==
  ASSUME NEW table \in Tables(EventRecords, Producers), Consistent(table),
         NEW events \in Seq(EventRecords), NEW lost,
         Verdict(events, table, lost) = "valid",
         NEW joined, joined = Imported(events, table),
         NEW new, new = ToSet(events) \ table.rows
  PROVE  /\ joined \in Tables(EventRecords, Producers) /\ Consistent(joined)
         /\ joined.rows = table.rows \cup ToSet(events)
         /\ Filled(joined, new, table, lost)
         /\ table.next <= joined.next
<1>1. ToSet(events) \subseteq EventRecords
  BY DEF ToSet
<1>2. new = {e \in ToSet(events) \ table.rows : e.stream # NoStream}
  BY <1>1, RecordsAreEvents
<1>3. /\ \A e, f \in ToSet(events) \cup table.rows :
           e.id = f.id /\ e \in ToSet(events) => e = f
      /\ joined \in Tables(EventRecords, Producers)
      /\ joined.rows = table.rows \cup ToSet(events)
      /\ Filled(joined, new, table, lost)
  BY <1>2, RecordsAreEvents, ValidImport
<1>4. /\ table.next \in Nat /\ joined.next \in Nat /\ table.next <= joined.next
      /\ table.rows \subseteq EventRecords
  BY <1>3 DEF Tables, Filled
<1>5. Consistent(joined)
  <2> SUFFICES ASSUME NEW r \in table.rows \cup new, NEW s \in table.rows \cup new
               PROVE  /\ r.id = s.id \/ r.seq = s.seq => r = s
                      /\ r.stream = joined.stream
                      /\ r.seq < joined.next
    BY <1>3 DEF Consistent
  <2>1. /\ \A e \in table.rows : e.seq < table.next /\ e.seq \in Nat /\ e.stream = table.stream
                                   /\ e.stream # NoStream
        /\ \A e \in new : e.seq \in Nat /\ table.next <= e.seq /\ e.seq < joined.next
                          /\ e.stream = joined.stream
    BY <1>1, <1>3, <1>4, RecordsAreEvents DEF Consistent, Filled
  <2>2. r.id = s.id => r = s
    BY <1>3 DEF Consistent
  <2>3. r.seq = s.seq => r = s
    <3>1. CASE r \in table.rows /\ s \in table.rows
      BY <3>1 DEF Consistent
    <3>2. CASE r \in new /\ s \in new
      BY <1>3, <3>2 DEF Filled
    <3>3. CASE r \in table.rows /\ s \in new
      BY <1>4, <2>1, <3>3
    <3>4. CASE s \in table.rows /\ r \in new
      BY <1>4, <2>1, <3>4
    <3> QED
      BY <3>1, <3>2, <3>3, <3>4
  <2>4. r.stream = joined.stream
    BY <1>3, <2>1 DEF Filled
  <2>5. r.seq < joined.next
    BY <1>4, <2>1
  <2> QED
    BY <2>2, <2>3, <2>4, <2>5
<1> QED
  BY <1>3, <1>4, <1>5

-----------------------------------------------------------------------------
(* Shards and files. *)

(* An appended event is one more. *)
LEMMA AppendedSet ==
  ASSUME NEW E, NEW events \in Seq(E), NEW e \in E
  PROVE  /\ Append(events, e) \in Seq(E)
         /\ ToSet(Append(events, e)) = ToSet(events) \cup {e}
<1>1. /\ Append(events, e) \in Seq(E) /\ Len(Append(events, e)) = Len(events) + 1
      /\ \A i \in 1 .. Len(events) : Append(events, e)[i] = events[i]
      /\ Append(events, e)[Len(events) + 1] = e
      /\ Len(events) \in Nat
  OBVIOUS
<1>2. 1 .. (Len(events) + 1) = (1 .. Len(events)) \cup {Len(events) + 1}
  BY <1>1
<1>3. /\ DOMAIN events = 1 .. Len(events)
      /\ DOMAIN Append(events, e) = 1 .. (Len(events) + 1)
  BY <1>1
<1> QED
  BY <1>1, <1>2, <1>3 DEF ToSet

(* A batch and a shard are the events of both. *)
LEMMA JoinedSet ==
  ASSUME NEW E, NEW events \in Seq(E), NEW more \in Seq(E)
  PROVE  /\ events \o more \in Seq(E)
         /\ ToSet(events \o more) = ToSet(events) \cup ToSet(more)
<1>1. /\ events \o more \in Seq(E) /\ Len(events \o more) = Len(events) + Len(more)
      /\ \A i \in 1 .. (Len(events) + Len(more)) :
           (events \o more)[i] = IF i <= Len(events) THEN events[i] ELSE more[i - Len(events)]
      /\ Len(events) \in Nat /\ Len(more) \in Nat
  OBVIOUS
<1>2. /\ DOMAIN events = 1 .. Len(events) /\ DOMAIN more = 1 .. Len(more)
      /\ DOMAIN (events \o more) = 1 .. (Len(events) + Len(more))
  BY <1>1
<1>3. \A i \in DOMAIN (events \o more) : (events \o more)[i] \in ToSet(events) \cup ToSet(more)
  <2> SUFFICES ASSUME NEW i \in 1 .. (Len(events) + Len(more))
               PROVE  (events \o more)[i] \in ToSet(events) \cup ToSet(more)
    BY <1>2
  <2>1. CASE i <= Len(events)
    BY <1>1, <1>2, <2>1 DEF ToSet
  <2>2. CASE ~ (i <= Len(events))
    <3>1. i - Len(events) \in 1 .. Len(more)
      BY <1>1, <2>2
    <3> QED
      BY <1>1, <1>2, <2>2, <3>1 DEF ToSet
  <2> QED
    BY <2>1, <2>2
<1>4. ToSet(events) \subseteq ToSet(events \o more)
  <2> SUFFICES ASSUME NEW i \in 1 .. Len(events)
               PROVE  events[i] \in ToSet(events \o more)
    BY <1>2 DEF ToSet
  <2>1. i \in 1 .. (Len(events) + Len(more)) /\ (events \o more)[i] = events[i]
    BY <1>1
  <2> QED
    BY <1>2, <2>1 DEF ToSet
<1>5. ToSet(more) \subseteq ToSet(events \o more)
  <2> SUFFICES ASSUME NEW i \in 1 .. Len(more)
               PROVE  more[i] \in ToSet(events \o more)
    BY <1>2 DEF ToSet
  <2> DEFINE k == Len(events) + i
  <2>1. k \in 1 .. (Len(events) + Len(more)) /\ ~ (k <= Len(events)) /\ k - Len(events) = i
    BY <1>1
  <2> HIDE DEF k
  <2>2. (events \o more)[k] = more[i]
    BY <1>1, <2>1
  <2> QED
    BY <1>2, <2>1, <2>2 DEF ToSet
<1> QED
  BY <1>1, <1>3, <1>4, <1>5 DEF ToSet

(* The lines after an append, and after a loss. *)
LEMMA LinesStep ==
  ASSUME shards \in [Days -> Seq(EventRecords)], NEW d \in Days
  PROVE  /\ Lines \subseteq EventRecords
         /\ ToSet(shards[d]) \subseteq Lines
         /\ \A e \in EventRecords : shards' = [shards EXCEPT ![d] = Append(@, e)]
              => shards' \in [Days -> Seq(EventRecords)] /\ Lines' = Lines \cup {e}
         /\ shards' = [shards EXCEPT ![d] = <<>>]
              => shards' \in [Days -> Seq(EventRecords)] /\ Lines' \subseteq Lines
<1>1. Lines \subseteq EventRecords
  BY DEF Lines, ToSet
<1>2. ToSet(shards[d]) \subseteq Lines
  BY DEF Lines
<1>3. ASSUME NEW e \in EventRecords, shards' = [shards EXCEPT ![d] = Append(@, e)]
      PROVE  shards' \in [Days -> Seq(EventRecords)] /\ Lines' = Lines \cup {e}
  <2>1. /\ Append(shards[d], e) \in Seq(EventRecords)
        /\ ToSet(Append(shards[d], e)) = ToSet(shards[d]) \cup {e}
    BY AppendedSet
  <2>2. /\ \A x \in Days : shards'[x] = IF x = d THEN Append(shards[d], e) ELSE shards[x]
        /\ shards' \in [Days -> Seq(EventRecords)]
    BY <1>3, <2>1
  <2>3. \A x \in Days : ToSet(shards'[x]) = ToSet(shards[x]) \cup (IF x = d THEN {e} ELSE {})
    BY <2>1, <2>2
  <2> QED
    BY <2>2, <2>3 DEF Lines
<1>4. ASSUME shards' = [shards EXCEPT ![d] = <<>>]
      PROVE  shards' \in [Days -> Seq(EventRecords)] /\ Lines' \subseteq Lines
  <2>1. /\ \A x \in Days : shards'[x] = IF x = d THEN <<>> ELSE shards[x]
        /\ shards' \in [Days -> Seq(EventRecords)]
    BY <1>4
  <2>2. \A x \in Days : ToSet(shards'[x]) \subseteq ToSet(shards[x])
    BY <2>1 DEF ToSet
  <2> QED
    BY <2>1, <2>2 DEF Lines
<1> QED
  BY <1>1, <1>2, <1>3, <1>4

(* The file that the next connection has is one of those there may be. *)
LEMMA PathFile ==
  ASSUME RebuildInv
  PROVE  /\ AtPath \in FileIds /\ made \in Nat
         /\ path # NoFile => AtPath = path /\ path \in FileIds /\ path <= made
         /\ path = NoFile => AtPath = made + 1
<1>1. /\ path \in 0 .. made /\ made \in Nat /\ begun \in Nat /\ begun <= MaxRebuilds
      /\ MaxRebuilds \in Nat /\ made <= MaxRebuilds + 1
  BY BoundAssumption DEF RebuildInv, Types, StoreTypes, RebuildTypes
<1>2. CASE path = NoFile
  <2>1. AtPath = made + 1
    BY <1>2 DEF AtPath
  <2>2. made + 1 <= begun + 1
    BY <1>1, <1>2 DEF RebuildInv, Counted
  <2> QED
    BY <1>1, <1>2, <2>1, <2>2 DEF FileIds, NoFile
<1>3. CASE path # NoFile
  BY <1>1, <1>3 DEF AtPath, FileIds, NoFile
<1> QED
  BY <1>2, <1>3

(* What an add that has the index open can rely on. *)
LEMMA OpenFacts ==
  ASSUME RebuildInv, NEW p \in Open
  PROVE  /\ p \in Procs /\ day[p] \in Days
         /\ handle[p] \in FileIds /\ handle[p] <= made
         /\ files[handle[p]] \in Tables(EventRecords, Producers)
         /\ Consistent(files[handle[p]]) /\ files[handle[p]].next >= 1
         /\ files[handle[p]].rows \subseteq EventRecords
         /\ main[handle[p]].rows \subseteq files[handle[p]].rows
BY DEF RebuildInv, Types, StoreTypes, Opened, Stored, Open, Tables

(* The content of one file changes to a consistent one, in its main file too or not. *)
LEMMA FileStep ==
  ASSUME RebuildInv, NEW f \in FileIds, NEW t \in Tables(EventRecords, Producers),
         Consistent(t), files' = [files EXCEPT ![f] = t],
         \/ main' = main /\ main[f].rows \subseteq t.rows
         \/ main' = [main EXCEPT ![f] = t]
  PROVE  /\ files' \in [FileIds -> Tables(EventRecords, Producers)]
         /\ main' \in [FileIds -> Tables(EventRecords, Producers)]
         /\ files'[f] = t /\ \A g \in FileIds \ {f} : files'[g] = files[g] /\ main'[g] = main[g]
         /\ \A g \in FileIds : /\ Consistent(files'[g]) /\ Consistent(main'[g])
                               /\ main'[g].rows \subseteq files'[g].rows
<1>1. /\ files \in [FileIds -> Tables(EventRecords, Producers)]
      /\ main \in [FileIds -> Tables(EventRecords, Producers)]
      /\ \A g \in FileIds : /\ Consistent(files[g]) /\ Consistent(main[g])
                            /\ main[g].rows \subseteq files[g].rows
  BY DEF RebuildInv, Types, StoreTypes, Stored
<1>2. /\ files' \in [FileIds -> Tables(EventRecords, Producers)]
      /\ main' \in [FileIds -> Tables(EventRecords, Producers)]
      /\ files'[f] = t /\ \A g \in FileIds \ {f} : files'[g] = files[g] /\ main'[g] = main[g]
  BY <1>1
<1>3. /\ Consistent(main'[f])
      /\ main'[f].rows \subseteq t.rows
  <2>1. CASE main' = main /\ main[f].rows \subseteq t.rows
    BY <1>1, <2>1
  <2>2. CASE main' = [main EXCEPT ![f] = t]
    <3>1. main'[f] = t
      BY <1>1, <2>2
    <3> QED
      BY <3>1
  <2> QED
    BY <2>1, <2>2
<1>4. \A g \in FileIds : /\ Consistent(files'[g]) /\ Consistent(main'[g])
                         /\ main'[g].rows \subseteq files'[g].rows
  BY <1>1, <1>2, <1>3
<1> QED
  BY <1>2, <1>4

(* An add comes to another label, and is open there or not. *)
LEMMA LabelStep ==
  ASSUME RebuildInv, NEW p \in Procs,
         NEW l \in {"open", "between", "commit", "added", "failed", "dead"}, Goto(p, l)
  PROVE  /\ pc' \in [Procs -> {"idle", "open", "between", "commit", "added", "failed", "dead"}]
         /\ pc'[p] = l /\ \A q \in Procs \ {p} : pc'[q] = pc[q]
         /\ Open' = IF l \in {"open", "between", "commit"} THEN Open \cup {p} ELSE Open \ {p}
<1>1. /\ pc \in [Procs -> {"idle", "open", "between", "commit", "added", "failed", "dead"}]
      /\ pc' = [pc EXCEPT ![p] = l]
  BY DEF RebuildInv, Types, AddTypes, Goto
<1>2. /\ pc' \in [Procs -> {"idle", "open", "between", "commit", "added", "failed", "dead"}]
      /\ pc'[p] = l /\ \A q \in Procs \ {p} : pc'[q] = pc[q]
  BY <1>1
<1> QED
  BY <1>2 DEF Open

-----------------------------------------------------------------------------
(* The steps of the adds. *)

(* The index is opened, and created where there is none. *)
LEMMA OpenIndexKeeps ==
  ASSUME RebuildInv, NEW p \in Procs, OpenIndex(p)
  PROVE  RebuildInv'
<1> DEFINE f == AtPath
<1>1. /\ f \in FileIds /\ made \in Nat
      /\ path # NoFile => f = path /\ path \in FileIds /\ path <= made
      /\ path = NoFile => f = made + 1
  BY PathFile
<1>2. /\ pc[p] = "idle" /\ handle' = [handle EXCEPT ![p] = f] /\ path' = f
      /\ IF path = NoFile THEN made' = made + 1 /\ files' = [files EXCEPT ![f] = Fresh]
         ELSE made' = made /\ files' = files
      /\ Goto(p, "open")
      /\ UNCHANGED <<draft, main, lock, shards, rebuild, history>>
  BY DEF OpenIndex, Connected
<1>3. PICK d \in Days : day' = [day EXCEPT ![p] = d]
  BY DEF OpenIndex
<1> HIDE DEF f
<1>4. /\ pc' \in [Procs -> {"idle", "open", "between", "commit", "added", "failed", "dead"}]
      /\ pc'[p] = "open" /\ \A q \in Procs \ {p} : pc'[q] = pc[q]
      /\ Open' = Open \cup {p}
  BY <1>2, LabelStep
<1>5. made' \in Nat /\ made <= made' /\ f <= made' /\ f \in Nat
  BY <1>1, <1>2 DEF FileIds
<1>6. Counted'
  <2>1. path' # NoFile /\ phase' = phase /\ begun' = begun
    BY <1>1, <1>2 DEF FileIds, NoFile, rebuild
  <2> QED
    BY <1>1, <1>2, <2>1 DEF RebuildInv, Counted
<1>7. /\ files' \in [FileIds -> Tables(EventRecords, Producers)]
      /\ \A g \in FileIds : g <= made => files'[g] = files[g]
      /\ files'[f].next >= 1
      /\ path = NoFile => files'[f].rows = {} /\ f > made
      /\ path # NoFile => files' = files
  <2>1. CASE path = NoFile
    <3>1. Fresh \in Tables(EventRecords, Producers) /\ Fresh.next = 1 /\ Fresh.rows = {}
      BY DEF Fresh, Tables, Producers
    <3>2. files \in [FileIds -> Tables(EventRecords, Producers)]
      BY DEF RebuildInv, Types, StoreTypes
    <3>3. files' = [files EXCEPT ![f] = Fresh] /\ f = made + 1
      BY <1>1, <1>2, <2>1
    <3>4. \A g \in FileIds : g <= made => g # f
      BY <1>1, <3>3
    <3> QED
      BY <1>1, <2>1, <3>1, <3>2, <3>3, <3>4
  <2>2. CASE path # NoFile
    BY <1>1, <1>2, <2>2 DEF RebuildInv, Types, StoreTypes, Stored
  <2> QED
    BY <2>1, <2>2
<1>8. Types'
  <2>1. AddTypes'
    BY <1>1, <1>2, <1>3, <1>4 DEF RebuildInv, Types, AddTypes
  <2>2. StoreTypes'
    <3>1. begun' = begun /\ begun \in Nat /\ begun <= MaxRebuilds /\ MaxRebuilds \in Nat
      BY <1>2, BoundAssumption DEF rebuild, RebuildInv, Types, RebuildTypes
    <3>2. made' \in 0 .. (MaxRebuilds + 1) /\ path' \in 0 .. made'
      BY <1>1, <1>2, <1>5, <1>6, <3>1 DEF Counted, FileIds, NoFile, rebuild, RebuildInv, Types, StoreTypes
    <3> QED
      BY <1>2, <1>7, <3>2 DEF RebuildInv, Types, StoreTypes
  <2>3. RebuildTypes' /\ HistoryTypes'
    BY <1>2 DEF RebuildInv, Types, RebuildTypes, HistoryTypes, rebuild, history
  <2> QED
    BY <2>1, <2>2, <2>3 DEF Types
<1>9. Opened'
  <2>1. handle'[p] = f /\ \A q \in Procs \ {p} : handle'[q] = handle[q] /\ day'[q] = day[q]
    BY <1>2, <1>3 DEF RebuildInv, Types, AddTypes
  <2>2. day'[p] \in Days
    BY <1>3 DEF RebuildInv, Types, AddTypes
  <2>3. \A q \in Procs : handle'[q] <= made'
    <3>1. \A q \in Procs : handle[q] <= made /\ handle[q] \in Nat
      BY DEF RebuildInv, Opened, Types, AddTypes, FileIds, NoFile
    <3> QED
      BY <1>1, <1>5, <2>1, <3>1
  <2>4. \A q \in Open' : day'[q] \in Days /\ handle'[q] \in FileIds /\ files'[handle'[q]].next >= 1
    <3> SUFFICES ASSUME NEW q \in Open, q # p
                 PROVE  day'[q] \in Days /\ handle'[q] \in FileIds /\ files'[handle'[q]].next >= 1
      BY <1>1, <1>4, <1>7, <2>1, <2>2
    <3> QED
      BY <1>7, <2>1, OpenFacts
  <2>5. \A q \in Procs : pc'[q] \in {"idle", "open", "between"} => draft'[q] = NoStream
    BY <1>2, <1>4 DEF RebuildInv, Opened
  <2> QED
    BY <2>3, <2>4, <2>5 DEF Opened
<1>10. Locked'
  <2> SUFFICES ASSUME NEW q \in Procs, pc'[q] = "commit"
               PROVE  /\ lock'[handle'[q]] = q
                      /\ draft'[q] \in EventRecords
                      /\ draft'[q].seq = files'[handle'[q]].next
                      /\ files'[handle'[q]].stream \in {NoStream, draft'[q].stream}
    BY DEF Locked
  <2>1. q # p /\ pc[q] = "commit" /\ q \in Open
    BY <1>4 DEF Open
  <2>2. handle'[q] = handle[q] /\ lock' = lock /\ draft' = draft
    BY <1>2, <2>1 DEF RebuildInv, Types, AddTypes
  <2>3. files'[handle[q]] = files[handle[q]]
    BY <1>7, <2>1, OpenFacts
  <2> QED
    BY <2>1, <2>2, <2>3 DEF RebuildInv, Locked
<1>11. Identified'
  <2>1. \A g \in FileIds : Known(files'[g].rows)
    <3>1. \A g \in FileIds : files'[g].rows = {} \/ files'[g] = files[g]
      BY <1>1, <1>2, <1>7 DEF RebuildInv, Types, StoreTypes
    <3> QED
      BY <1>2, <3>1 DEF RebuildInv, Identified, Known
  <2>2. Lines' = Lines /\ batch' = batch /\ draft' = draft
    BY <1>2 DEF Lines, rebuild
  <2> QED
    BY <2>1, <2>2 DEF RebuildInv, Identified, Known
<1>12. Stored'
  <2>1. \A g \in FileIds : /\ Consistent(files'[g]) /\ Consistent(main'[g])
                           /\ main'[g].rows \subseteq files'[g].rows
    <3>1. CASE path # NoFile
      BY <1>2, <1>7, <3>1 DEF RebuildInv, Stored
    <3>2. CASE path = NoFile
      <4>1. main[f] = NoTables
        BY <1>1, <1>7, <3>2 DEF RebuildInv, Stored
      <4>2. \A g \in FileIds \ {f} : files'[g] = files[g]
        BY <1>2, <3>2 DEF RebuildInv, Types, StoreTypes
      <4>3. Consistent(files'[f]) /\ main[f].rows = {}
        BY <1>7, <3>2, <4>1 DEF Consistent, NoTables
      <4> QED
        BY <1>2, <1>7, <3>2, <4>2, <4>3 DEF RebuildInv, Stored
    <3> QED
      BY <3>1, <3>2
  <2>2. \A g \in FileIds : g > made' => main'[g] = NoTables
    <3>1. \A g \in FileIds : g > made' => g > made
      BY <1>1, <1>5 DEF FileIds
    <3> QED
      BY <1>2, <3>1 DEF RebuildInv, Stored
  <2> QED
    BY <1>2, <1>7, <2>1, <2>2 DEF Stored
<1>13. Bounded'
  BY <1>2 DEF RebuildInv, Bounded, Lines
<1> QED
  BY <1>6, <1>8, <1>9, <1>10, <1>11, <1>12, <1>13 DEF RebuildInv

(***************************************************************************)
(* A step of p by which the content of its own file changes, no other      *)
(* add's, and p does not come to hold a lock.                              *)
(***************************************************************************)
LEMMA OwnFileKeeps ==
  ASSUME RebuildInv, NEW p \in Open, NEW t \in Tables(EventRecords, Producers),
         Consistent(t), files[handle[p]].next <= t.next, Known(t.rows),
         files[handle[p]].rows \subseteq t.rows,
         files' = [files EXCEPT ![handle[p]] = t],
         main' \in {main, [main EXCEPT ![handle[p]] = t]},
         NEW l \in {"between", "added", "failed", "dead"}, Goto(p, l),
         l = "between" => pc[p] = "open",
         lock' \in [FileIds -> Producers],
         \A f \in FileIds : lock[f] # p => lock'[f] = lock[f],
         \A q \in Procs \ {p} : pc[q] = "commit" /\ handle[q] = handle[p] => t = files[handle[p]],
         UNCHANGED <<day, handle, draft, path, made, shards, rebuild, history>>
  PROVE  RebuildInv'
<1> DEFINE f == handle[p]
<1>1. /\ p \in Procs /\ f \in FileIds /\ f <= made /\ made \in Nat
      /\ files[f].next \in Nat /\ files[f].next >= 1 /\ t.next \in Nat
      /\ main[f].rows \subseteq files[f].rows
  BY OpenFacts, PathFile DEF Tables
<1>2. /\ files' \in [FileIds -> Tables(EventRecords, Producers)]
      /\ main' \in [FileIds -> Tables(EventRecords, Producers)]
      /\ files'[f] = t /\ \A g \in FileIds \ {f} : files'[g] = files[g] /\ main'[g] = main[g]
      /\ \A g \in FileIds : /\ Consistent(files'[g]) /\ Consistent(main'[g])
                            /\ main'[g].rows \subseteq files'[g].rows
  BY <1>1, FileStep
<1>3. /\ pc' \in [Procs -> {"idle", "open", "between", "commit", "added", "failed", "dead"}]
      /\ pc'[p] = l /\ \A q \in Procs \ {p} : pc'[q] = pc[q]
      /\ Open' \subseteq Open
  BY <1>1, LabelStep
<1>4. \A g \in FileIds : files'[g].next >= files[g].next /\ files'[g].next \in Nat
                           /\ files[g].next \in Nat
  BY <1>1, <1>2 DEF RebuildInv, Types, StoreTypes, Tables
<1>5. Types'
  <2>1. AddTypes'
    BY <1>3 DEF RebuildInv, Types, AddTypes
  <2>2. StoreTypes'
    BY <1>2 DEF RebuildInv, Types, StoreTypes
  <2>3. RebuildTypes' /\ HistoryTypes'
    BY DEF RebuildInv, Types, RebuildTypes, HistoryTypes, rebuild, history
  <2> QED
    BY <2>1, <2>2, <2>3 DEF Types
<1>6. Opened'
  <2>1. \A q \in Open' : day'[q] \in Days /\ handle'[q] \in FileIds /\ files'[handle'[q]].next >= 1
    <3> SUFFICES ASSUME NEW q \in Open
                 PROVE  day[q] \in Days /\ handle[q] \in FileIds /\ files'[handle[q]].next >= 1
      BY <1>3
    <3> QED
      BY <1>4, OpenFacts
  <2>2. \A q \in Procs : pc'[q] \in {"idle", "open", "between"} => draft'[q] = NoStream
    BY <1>3 DEF RebuildInv, Opened
  <2> QED
    BY <2>1, <2>2 DEF RebuildInv, Opened
<1>7. Locked'
  <2> SUFFICES ASSUME NEW q \in Procs, pc'[q] = "commit"
               PROVE  /\ lock'[handle'[q]] = q
                      /\ draft'[q] \in EventRecords
                      /\ draft'[q].seq = files'[handle'[q]].next
                      /\ files'[handle'[q]].stream \in {NoStream, draft'[q].stream}
    BY DEF Locked
  <2>1. q # p /\ pc[q] = "commit" /\ q \in Open /\ handle[q] \in FileIds
    BY <1>3, OpenFacts DEF Open
  <2>2. files'[handle[q]] = files[handle[q]]
    BY <1>2, <2>1
  <2>3. lock'[handle[q]] = lock[handle[q]] /\ lock[handle[q]] = q
    BY <2>1 DEF RebuildInv, Locked
  <2> QED
    BY <2>1, <2>2, <2>3 DEF RebuildInv, Locked
<1>8. Identified'
  <2>1. \A g \in FileIds : Known(files'[g].rows)
    BY <1>1, <1>2 DEF RebuildInv, Identified
  <2> QED
    BY <2>1 DEF RebuildInv, Identified, Known, Lines, rebuild
<1>9. Stored'
  <2>1. \A g \in FileIds : g > made' => main'[g] = NoTables
    <3>1. \A g \in FileIds : g > made => g # f
      BY <1>1 DEF FileIds
    <3> QED
      BY <1>2, <3>1 DEF RebuildInv, Stored
  <2>2. path' # NoFile => files'[path'].next >= 1
    BY <1>4, PathFile DEF RebuildInv, Stored
  <2> QED
    BY <1>2, <2>1, <2>2 DEF Stored
<1>10. Bounded' /\ Counted'
  BY DEF RebuildInv, Bounded, Lines, Counted, rebuild
<1> QED
  BY <1>5, <1>6, <1>7, <1>8, <1>9, <1>10 DEF RebuildInv

(* The lines of the shards join the rows of an index that they can be reconciled with. *)
LEMMA LinesJoin ==
  ASSUME RebuildInv, NEW p \in Open, Reconcilable(files[handle[p]]),
         NEW table, table = files[handle[p]],
         NEW joined, joined = Join(table, Lines)
  PROVE  /\ joined \in Tables(EventRecords, Producers) /\ Consistent(joined)
         /\ joined.rows = table.rows \cup Lines
         /\ table.next <= joined.next
         /\ joined.next = table.next \/ \E e \in Lines : joined.next = e.seq + 1
         /\ IF Lines = {} THEN joined.stream = table.stream
            ELSE \E e \in Lines : joined.stream = e.stream
<1>1. /\ table \in Tables(EventRecords, Producers) /\ Consistent(table)
      /\ Known(table.rows)
  BY OpenFacts DEF RebuildInv, Identified
<1>2. Lines \in SUBSET EventRecords /\ Known(Lines)
  BY DEF RebuildInv, Identified, Types, StoreTypes, Lines, ToSet
<1>3. Joinable(table, Lines)
  BY <1>1, <1>2 DEF Reconcilable, Known, Joinable, RebuildInv, Bounded
<1> QED
  BY <1>1, <1>2, <1>3, Joined

(* The event at the cursor joins the rows. *)
LEMMA NextJoins ==
  ASSUME NEW table \in Tables(EventRecords, Producers), Consistent(table),
         NEW d \in EventRecords, d.seq = table.next,
         table.stream \in {NoStream, d.stream},
         \A r \in table.rows : r.id = d.id => r = d
  PROVE  /\ Join(table, {d}) \in Tables(EventRecords, Producers)
         /\ Consistent(Join(table, {d}))
         /\ Join(table, {d}).rows = table.rows \cup {d}
         /\ Join(table, {d}).next = d.seq + 1
         /\ Join(table, {d}).stream = d.stream
<1> DEFINE new == {d}
           joined == Join(table, new)
<1>1. /\ table.rows \subseteq EventRecords /\ table.next \in Nat /\ d.seq \in Nat
  BY RecordsAreEvents DEF Tables
<1>2. \A r \in table.rows : r.seq # d.seq
  BY <1>1, RecordsAreEvents DEF Consistent
<1>3. Joinable(table, new) /\ new \in SUBSET EventRecords
  BY <1>1, <1>2 DEF Joinable
<1>4. \A e \in new : e = d
  OBVIOUS
<1> HIDE DEF new
<1>5. /\ joined \in Tables(EventRecords, Producers) /\ Consistent(joined)
      /\ joined.rows = table.rows \cup new
      /\ table.next <= joined.next
      /\ joined.next = table.next \/ \E e \in new : joined.next = e.seq + 1
      /\ IF new = {} THEN joined.stream = table.stream
         ELSE \E e \in new : joined.stream = e.stream
  BY <1>3, Joined
<1>6. joined.stream = d.stream /\ d \in joined.rows
  BY <1>4, <1>5 DEF new
<1> HIDE DEF joined
<1>7. joined.next = d.seq + 1
  BY <1>1, <1>4, <1>5, <1>6 DEF Consistent
<1> QED
  BY <1>5, <1>6, <1>7 DEF joined, new

(* The draft of the holder of the lock is the event at the cursor. *)
LEMMA DraftJoins ==
  ASSUME RebuildInv, NEW p \in Procs, pc[p] = "commit",
         NEW table, table = files[handle[p]],
         NEW joined, joined = Join(table, {draft[p]})
  PROVE  /\ joined \in Tables(EventRecords, Producers) /\ Consistent(joined)
         /\ joined.rows = table.rows \cup {draft[p]}
         /\ table.next <= joined.next
         /\ joined.next = draft[p].seq + 1
         /\ joined.stream = draft[p].stream
<1>1. p \in Open
  BY DEF Open
<1>2. /\ table \in Tables(EventRecords, Producers) /\ Consistent(table)
      /\ table.next \in Nat
  BY <1>1, OpenFacts DEF Tables
<1>3. /\ draft[p] \in EventRecords /\ draft[p].seq = table.next
      /\ table.stream \in {NoStream, draft[p].stream}
  BY DEF RebuildInv, Locked
<1>4. \A r \in table.rows : r.id = draft[p].id => r = draft[p]
  BY <1>1, <1>3, OpenFacts, NoStreamAssumption DEF RebuildInv, Identified, Known
<1>5. /\ joined \in Tables(EventRecords, Producers) /\ Consistent(joined)
      /\ joined.rows = table.rows \cup {draft[p]}
      /\ joined.next = draft[p].seq + 1
      /\ joined.stream = draft[p].stream
  BY <1>2, <1>3, <1>4, NextJoins
<1>6. table.next <= joined.next
  <2>1. joined.next = table.next + 1
    BY <1>3, <1>5
  <2> QED
    BY <1>2, <2>1
<1> QED
  BY <1>5, <1>6

(* Reconciliation makes rows of the lines. *)
LEMMA ReconcileKeeps ==
  ASSUME RebuildInv, NEW p \in Procs, Reconcile(p)
  PROVE  RebuildInv'
<1> DEFINE table == files[handle[p]]
           joined == Join(table, Lines)
<1>1. /\ pc[p] = "open" /\ lock[handle[p]] = NoStream /\ Reconcilable(table)
      /\ files' = [files EXCEPT ![handle[p]] = joined]
      /\ Goto(p, "between")
      /\ UNCHANGED <<day, handle, draft, main, path, made, lock, shards, rebuild, history>>
  BY DEF Reconcile, Join
<1>2. p \in Open
  BY <1>1 DEF Open
<1>3. /\ joined \in Tables(EventRecords, Producers) /\ Consistent(joined)
      /\ joined.rows = table.rows \cup Lines
      /\ table.next <= joined.next
  BY <1>1, <1>2, LinesJoin
<1> HIDE DEF joined
<1>4. Known(joined.rows)
  BY <1>2, <1>3, OpenFacts DEF RebuildInv, Identified, Known
<1>5. \A q \in Procs \ {p} : pc[q] = "commit" /\ handle[q] = handle[p] => joined = table
  BY <1>1, NoStreamAssumption DEF RebuildInv, Locked
<1>6. /\ lock' \in [FileIds -> Producers]
      /\ \A f \in FileIds : lock[f] # p => lock'[f] = lock[f]
  BY <1>1 DEF RebuildInv, Types, StoreTypes
<1> HIDE DEF table
<1>7. table.rows \subseteq joined.rows /\ main' \in {main, [main EXCEPT ![handle[p]] = joined]}
  BY <1>1, <1>3
<1> QED
  BY <1>1, <1>2, <1>3, <1>4, <1>5, <1>6, <1>7, OwnFileKeeps DEF table

(* Closing merges the file's content, or leaves its main file alone. *)
LEMMA MergedMain ==
  ASSUME NEW p \in Procs, NEW t, main' = Merged(p, t)
  PROVE  main' \in {main, [main EXCEPT ![handle[p]] = t]}
BY DEF Merged

(* A reconciliation that fails closes the file. *)
LEMMA ReconcileFailsKeeps ==
  ASSUME RebuildInv, NEW p \in Procs, ReconcileFails(p)
  PROVE  RebuildInv'
<1> DEFINE t == files[handle[p]]
<1>1. /\ pc[p] = "open" /\ main' = Merged(p, t)
      /\ Goto(p, "failed")
      /\ UNCHANGED <<day, handle, draft, files, path, made, lock, shards, rebuild, history>>
  BY DEF ReconcileFails
<1>2. p \in Open
  BY <1>1 DEF Open
<1>3. /\ t \in Tables(EventRecords, Producers) /\ Consistent(t) /\ Known(t.rows)
      /\ files[handle[p]].next <= t.next
  BY <1>2, OpenFacts DEF RebuildInv, Identified, Tables
<1>4. files' = [files EXCEPT ![handle[p]] = t]
  BY <1>1, <1>2, OpenFacts DEF RebuildInv, Types, StoreTypes
<1>5. main' \in {main, [main EXCEPT ![handle[p]] = t]}
  BY <1>1, MergedMain
<1>6. /\ lock' \in [FileIds -> Producers]
      /\ \A f \in FileIds : lock[f] # p => lock'[f] = lock[f]
  BY <1>1 DEF RebuildInv, Types, StoreTypes
<1>7. /\ files[handle[p]].rows \subseteq t.rows
      /\ \A q \in Procs \ {p} : pc[q] = "commit" /\ handle[q] = handle[p] => t = files[handle[p]]
  OBVIOUS
<1> HIDE DEF t
<1> QED
  BY <1>1, <1>2, <1>3, <1>4, <1>5, <1>6, <1>7, OwnFileKeeps

(* The commit makes a row of the draft and frees the lock. *)
LEMMA CommitKeeps ==
  ASSUME RebuildInv, NEW p \in Procs, Commit(p)
  PROVE  RebuildInv'
<1> DEFINE table == files[handle[p]]
           joined == Join(table, {draft[p]})
<1>1. /\ pc[p] = "commit"
      /\ files' = [files EXCEPT ![handle[p]] = joined]
      /\ main' = Merged(p, joined)
      /\ lock' = [lock EXCEPT ![handle[p]] = NoStream]
      /\ Goto(p, "added")
      /\ UNCHANGED <<day, handle, draft, path, made, shards, rebuild, history>>
  BY DEF Commit, Join
<1>2. p \in Open
  BY <1>1 DEF Open
<1>3. /\ joined \in Tables(EventRecords, Producers) /\ Consistent(joined)
      /\ joined.rows = table.rows \cup {draft[p]}
      /\ table.next <= joined.next
  BY <1>1, DraftJoins
<1> HIDE DEF joined
<1>4. Known(joined.rows)
  BY <1>1, <1>2, <1>3, OpenFacts, NoStreamAssumption DEF RebuildInv, Identified, Known, Locked
<1>5. \A q \in Procs \ {p} : pc[q] = "commit" /\ handle[q] = handle[p] => joined = table
  BY <1>1 DEF RebuildInv, Locked
<1>6. /\ lock' \in [FileIds -> Producers]
      /\ \A f \in FileIds : lock[f] # p => lock'[f] = lock[f]
  BY <1>1 DEF RebuildInv, Types, StoreTypes, Locked, Producers
<1>7. main' \in {main, [main EXCEPT ![handle[p]] = joined]}
  BY <1>1, MergedMain
<1>8. table.rows \subseteq joined.rows
  BY <1>3
<1>9. /\ files' = [files EXCEPT ![handle[p]] = joined]
      /\ Goto(p, "added")
      /\ UNCHANGED <<day, handle, draft, path, made, shards, rebuild, history>>
  BY <1>1
<1> QED
  BY <1>2, <1>3, <1>4, <1>5, <1>6, <1>7, <1>8, <1>9, OwnFileKeeps

(* A kill frees what the add has locked, after its commit or before. *)
LEMMA KillKeeps ==
  ASSUME RebuildInv, NEW p \in Procs, Kill(p)
  PROVE  RebuildInv'
<1> DEFINE table == files[handle[p]]
           joined == Join(table, {draft[p]})
<1>1. /\ p \in Open
      /\ \/ files' = files
         \/ pc[p] = "commit" /\ files' = [files EXCEPT ![handle[p]] = joined]
      /\ lock' = [f \in FileIds |-> IF lock[f] = p THEN NoStream ELSE lock[f]]
      /\ Goto(p, "dead")
      /\ UNCHANGED <<day, handle, draft, main, path, made, shards, rebuild, history>>
  BY DEF Kill, Join
<1>2. /\ lock' \in [FileIds -> Producers]
      /\ \A f \in FileIds : lock[f] # p => lock'[f] = lock[f]
  BY <1>1 DEF RebuildInv, Types, StoreTypes, Producers
<1>3. PICK t \in {table, joined} : /\ files' = [files EXCEPT ![handle[p]] = t]
                                   /\ t = joined => pc[p] = "commit" \/ joined = table
  BY <1>1, OpenFacts DEF RebuildInv, Types, StoreTypes
<1>4. /\ t \in Tables(EventRecords, Producers) /\ Consistent(t) /\ Known(t.rows)
      /\ table.rows \subseteq t.rows
      /\ table.next <= t.next
  <2>1. CASE t = table
    BY <1>1, <2>1, OpenFacts DEF RebuildInv, Identified, Tables
  <2>2. CASE pc[p] = "commit" /\ t = joined
    <3>1. /\ joined \in Tables(EventRecords, Producers) /\ Consistent(joined)
          /\ joined.rows = table.rows \cup {draft[p]}
          /\ table.next <= joined.next
      BY <2>2, DraftJoins
    <3> HIDE DEF joined
    <3>2. Known(joined.rows)
      BY <1>1, <2>2, <3>1, OpenFacts, NoStreamAssumption DEF RebuildInv, Identified, Known, Locked
    <3> HIDE DEF table
    <3> QED
      BY <2>2, <3>1, <3>2
  <2> QED
    BY <1>3, <2>1, <2>2
<1>5. \A q \in Procs \ {p} : pc[q] = "commit" /\ handle[q] = handle[p] => t = table
  BY <1>3 DEF RebuildInv, Locked
<1> HIDE DEF table, joined
<1>6. main' \in {main, [main EXCEPT ![handle[p]] = t]}
  BY <1>1
<1> QED
  BY <1>1, <1>2, <1>3, <1>4, <1>5, <1>6, OwnFileKeeps DEF table

(* The append takes the lock and drafts the event at the cursor. *)
LEMMA AppendEventKeeps ==
  ASSUME RebuildInv, NEW p \in Procs, AppendEvent(p)
  PROVE  RebuildInv'
<1> DEFINE table == files[handle[p]]
           event == [id |-> p, day |-> day[p], seq |-> table.next,
                     stream |-> IF table.stream = NoStream THEN p ELSE table.stream]
<1>1. /\ pc[p] = "between" /\ lock[handle[p]] = NoStream
      /\ lock' = [lock EXCEPT ![handle[p]] = p]
      /\ draft' = [draft EXCEPT ![p] = event]
      /\ shards' = [shards EXCEPT ![day[p]] = Append(@, event)]
      /\ Goto(p, "commit")
      /\ UNCHANGED <<day, handle, files, main, path, made, rebuild, history>>
  BY DEF AppendEvent
<1>2. p \in Open /\ draft[p] = NoStream
  BY <1>1 DEF Open, RebuildInv, Opened
<1>3. /\ day[p] \in Days /\ handle[p] \in FileIds
      /\ table.next \in Nat /\ table.next >= 1 /\ table.stream \in Producers
  BY <1>2, OpenFacts DEF Tables
<1>4. event \in EventRecords /\ event # NoStream
  BY <1>3, NoStreamAssumption DEF EventRecords, Producers
<1>5. event.id = p /\ event.seq = table.next /\ table.stream \in {NoStream, event.stream}
  OBVIOUS
<1> HIDE DEF event
<1>6. /\ pc' \in [Procs -> {"idle", "open", "between", "commit", "added", "failed", "dead"}]
      /\ pc'[p] = "commit" /\ \A q \in Procs \ {p} : pc'[q] = pc[q]
      /\ Open' = Open
  <2>1. Goto(p, "commit")
    BY <1>1
  <2>2. /\ pc' \in [Procs -> {"idle", "open", "between", "commit", "added", "failed", "dead"}]
        /\ pc'[p] = "commit" /\ \A q \in Procs \ {p} : pc'[q] = pc[q]
        /\ Open' = Open \cup {p}
    BY <2>1, LabelStep
  <2> QED
    BY <1>2, <2>2
<1>7. /\ shards' \in [Days -> Seq(EventRecords)] /\ Lines' = Lines \cup {event}
  BY <1>1, <1>3, <1>4, LinesStep DEF RebuildInv, Types, StoreTypes
<1>8. /\ draft' \in [Procs -> EventRecords \cup {NoStream}]
      /\ draft'[p] = event /\ \A q \in Procs \ {p} : draft'[q] = draft[q]
  BY <1>1, <1>4 DEF RebuildInv, Types, AddTypes
<1>9. /\ lock' \in [FileIds -> Producers] /\ lock'[handle[p]] = p
      /\ \A f \in FileIds \ {handle[p]} : lock'[f] = lock[f]
  BY <1>1, <1>3 DEF RebuildInv, Types, StoreTypes, Producers
<1>10. Types'
  BY <1>1, <1>6, <1>7, <1>8, <1>9
     DEF RebuildInv, Types, AddTypes, StoreTypes, RebuildTypes, HistoryTypes, rebuild, history
<1>11. Opened'
  BY <1>1, <1>6, <1>8 DEF RebuildInv, Opened
<1>12. Locked'
  <2> SUFFICES ASSUME NEW q \in Procs, pc'[q] = "commit"
               PROVE  /\ lock'[handle'[q]] = q
                      /\ draft'[q] \in EventRecords
                      /\ draft'[q].seq = files'[handle'[q]].next
                      /\ files'[handle'[q]].stream \in {NoStream, draft'[q].stream}
    BY DEF Locked
  <2>1. CASE q = p
    BY <1>1, <1>4, <1>5, <1>8, <1>9, <2>1
  <2>2. CASE q # p
    <3>1. pc[q] = "commit" /\ q \in Open
      BY <1>6, <2>2 DEF Open
    <3>2. lock[handle[q]] = q /\ handle[q] \in FileIds
      BY <3>1, OpenFacts DEF RebuildInv, Locked
    <3>3. handle[q] # handle[p]
      BY <1>1, <3>2, NoStreamAssumption
    <3>4. lock'[handle[q]] = q
      BY <1>9, <3>2, <3>3
    <3> QED
      BY <1>1, <1>8, <2>2, <3>1, <3>4 DEF RebuildInv, Locked
  <2> QED
    BY <2>1, <2>2
<1>13. Identified'
  <2>1. ASSUME NEW events, events \subseteq EventRecords,
               \A e \in events : e.id \in Procs /\ e = draft[e.id]
        PROVE  \A e \in events : e.id \in Procs /\ e = draft'[e.id]
    BY <1>2, <1>8, <2>1, NoStreamAssumption
  <2>2. \A f \in FileIds : Known(files[f].rows) /\ files[f].rows \subseteq EventRecords
    BY DEF RebuildInv, Identified, Types, StoreTypes, Tables
  <2>3. Known(Lines) /\ Lines \subseteq EventRecords
    BY LinesStep, <1>3 DEF RebuildInv, Identified, Types, StoreTypes
  <2>4. Known(ToSet(batch)) /\ ToSet(batch) \subseteq EventRecords /\ batch' = batch
    BY <1>1 DEF RebuildInv, Identified, Types, RebuildTypes, ToSet, rebuild
  <2>5. Known(Lines)' /\ Known(ToSet(batch))'
    BY <1>5, <1>7, <1>8, <2>1, <2>3, <2>4 DEF Known
  <2>6. \A f \in FileIds : \A e \in files'[f].rows : e.id \in Procs /\ e = draft'[e.id]
    BY <1>1, <2>1, <2>2 DEF Known
  <2>7. \A q \in Procs : draft'[q] # NoStream => draft'[q].id = q
    BY <1>5, <1>8 DEF RebuildInv, Identified
  <2> QED
    BY <2>5, <2>6, <2>7 DEF Identified, Known
<1>14. Stored' /\ Counted'
  BY <1>1 DEF RebuildInv, Stored, Counted, rebuild
<1>15. Bounded'
  <2>1. PICK b \in Nat : \A e \in Lines : e.seq <= b
    BY DEF RebuildInv, Bounded
  <2>2. \A e \in Lines : e.seq \in Nat
    BY LinesStep, <1>3, RecordsAreEvents DEF RebuildInv, Types, StoreTypes
  <2>3. b + event.seq \in Nat /\ \A e \in Lines' : e.seq <= b + event.seq
    BY <1>3, <1>5, <1>7, <2>1, <2>2
  <2> QED
    BY <2>3 DEF Bounded
<1> QED
  BY <1>10, <1>11, <1>12, <1>13, <1>14, <1>15 DEF RebuildInv

-----------------------------------------------------------------------------
(* The steps of the rebuild. *)

(* A step that only changes what the rebuild knows. *)
LEMMA ReadingKeeps ==
  ASSUME RebuildInv, UNCHANGED <<adds, store, shards, history>>, RebuildTypes',
         ToSet(batch') \subseteq ToSet(batch) \cup Lines, Counted'
  PROVE  RebuildInv'
<1>1. UNCHANGED <<pc, day, handle, draft, files, main, path, made, lock, shards, gone, waived>>
  BY DEF adds, store, history
<1>2. Types'
  BY <1>1 DEF RebuildInv, Types, AddTypes, StoreTypes, HistoryTypes
<1>3. Opened' /\ Locked' /\ Stored' /\ Bounded'
  BY <1>1 DEF RebuildInv, Opened, Locked, Stored, Bounded, Open, Lines
<1>4. Identified'
  BY <1>1 DEF RebuildInv, Identified, Known, Lines
<1> QED
  BY <1>2, <1>3, <1>4 DEF RebuildInv

(* The first of the shards that are left. *)
LEMMA EarliestDay ==
  ASSUME todo \subseteq Days, todo # {}
  PROVE  Earliest \in todo /\ \A d \in todo : Earliest <= d
<1>1. \E d \in todo : \A e \in todo : d <= e
  BY DaysAssumption, LeastNumber
<1> QED
  BY <1>1 DEF Earliest

(* The numbers of the count. *)
LEMMA CountTypes ==
  ASSUME RebuildInv
  PROVE  made \in Nat /\ begun \in Nat /\ MaxRebuilds \in Nat /\ begun <= MaxRebuilds
BY BoundAssumption DEF RebuildInv, Types, StoreTypes, RebuildTypes

(* The rebuild starts, or ends without a change. *)
LEMMA StartKeeps ==
  ASSUME RebuildInv, Start
  PROVE  RebuildInv'
<1>1. PICK o \in Options : opts' = o /\ todo' = {d \in o.days : shards[d] # <<>>}
  BY DEF Start
<1>2. /\ phase = "idle" /\ phase' = "reading" /\ batch' = <<>> /\ only' = {}
      /\ begun < MaxRebuilds /\ begun' = begun + 1
      /\ UNCHANGED <<adds, store, shards, history>>
  BY DEF Start
<1>3. RebuildTypes'
  <2>1. begun' \in 0 .. MaxRebuilds
    BY <1>2, CountTypes
  <2>2. todo' \subseteq Days
    BY <1>1, OptionsAssumption
  <2> QED
    BY <1>1, <1>2, <2>1, <2>2 DEF RebuildTypes
<1>4. Counted'
  <2>1. made' = made /\ path' = path
    BY <1>2 DEF store
  <2> QED
    BY <1>2, <2>1, CountTypes DEF RebuildInv, Counted
<1>5. ToSet(batch') = {}
  BY <1>2 DEF ToSet
<1> QED
  BY <1>2, <1>3, <1>4, <1>5, ReadingKeeps

(* The rebuild ends and leaves the index alone. *)
LEMMA StopKeeps ==
  ASSUME RebuildInv, NEW outcome, Stop(outcome)
  PROVE  RebuildInv'
<1>1. /\ phase' = "idle"
      /\ UNCHANGED <<adds, store, shards, opts, todo, batch, only, begun, history>>
  BY DEF Stop
<1>2. RebuildTypes'
  BY <1>1 DEF RebuildInv, Types, RebuildTypes
<1>3. Counted'
  <2>1. made' = made /\ path' = path
    BY <1>1 DEF store
  <2> QED
    BY <1>1, <2>1, CountTypes DEF RebuildInv, Counted
<1> QED
  BY <1>1, <1>2, <1>3, ReadingKeeps

(* One more shard is read. *)
LEMMA ReadShardKeeps ==
  ASSUME RebuildInv, ReadShard
  PROVE  RebuildInv'
<1>1. /\ phase = "reading" /\ todo # {}
      /\ batch' = batch \o shards[Earliest]
      /\ todo' = todo \ {Earliest}
      /\ UNCHANGED <<adds, store, shards, phase, opts, only, begun, history>>
  BY DEF ReadShard
<1>2. Earliest \in Days
  BY <1>1, EarliestDay DEF RebuildInv, Types, RebuildTypes
<1>3. /\ shards[Earliest] \in Seq(EventRecords) /\ batch \in Seq(EventRecords)
      /\ ToSet(shards[Earliest]) \subseteq Lines
  BY <1>2 DEF RebuildInv, Types, StoreTypes, RebuildTypes, Lines
<1>4. /\ batch' \in Seq(EventRecords)
      /\ ToSet(batch') = ToSet(batch) \cup ToSet(shards[Earliest])
  BY <1>1, <1>3, JoinedSet
<1>5. RebuildTypes'
  BY <1>1, <1>4 DEF RebuildInv, Types, RebuildTypes
<1>6. Counted'
  BY <1>1 DEF RebuildInv, Counted, store
<1> QED
  BY <1>1, <1>3, <1>4, <1>5, <1>6, ReadingKeeps

(* What the preflight finds changes no more. *)
LEMMA PreflightKeeps ==
  ASSUME RebuildInv, Coverage \/ Validated
  PROVE  RebuildInv'
<1>1. /\ phase \in {"reading", "covered"} /\ phase' \in {"covered", "checked"}
      /\ UNCHANGED <<adds, store, shards, opts, todo, batch, begun, history>>
      /\ only' \subseteq EventRecords
  <2>1. CASE Coverage
    <3>1. path # NoFile => main[path].rows \subseteq EventRecords
      BY PathFile DEF RebuildInv, Types, StoreTypes, Tables
    <3> QED
      BY <2>1, <3>1 DEF Coverage
  <2>2. CASE Validated
    BY <2>2 DEF Validated, RebuildInv, Types, RebuildTypes
  <2> QED
    BY <2>1, <2>2
<1>2. RebuildTypes'
  BY <1>1 DEF RebuildInv, Types, RebuildTypes
<1>3. Counted'
  <2>1. made' = made /\ path' = path
    BY <1>1 DEF store
  <2> QED
    BY <1>1, <2>1 DEF RebuildInv, Counted
<1> QED
  BY <1>1, <1>2, <1>3, ReadingKeeps

(* A file's content changes that no open add would commit to. *)
LEMMA UnlockedStaysLocked ==
  ASSUME RebuildInv, NEW f \in FileIds,
         \A p \in Procs : pc[p] = "commit" => handle[p] # f,
         \A g \in FileIds \ {f} : files'[g] = files[g],
         UNCHANGED <<adds, lock>>
  PROVE  Locked'
<1>1. UNCHANGED <<pc, handle, draft, lock>>
  BY DEF adds
<1> SUFFICES ASSUME NEW p \in Procs, pc[p] = "commit"
             PROVE  /\ lock'[handle'[p]] = p
                    /\ draft'[p] \in EventRecords
                    /\ draft'[p].seq = files'[handle'[p]].next
                    /\ files'[handle'[p]].stream \in {NoStream, draft'[p].stream}
  BY <1>1 DEF Locked
<1>2. p \in Open /\ handle[p] \in FileIds \ {f}
  BY OpenFacts DEF Open
<1> QED
  BY <1>1, <1>2 DEF RebuildInv, Locked

(* The index is renamed away; what is left of it may be its main file alone. *)
LEMMA MoveKeeps ==
  ASSUME RebuildInv, Move
  PROVE  RebuildInv'
<1>1. /\ phase = "checked" /\ phase' = "moved" /\ path # NoFile /\ path' = NoFile
      /\ files' = IF \E p \in Open : handle[p] = path THEN files
                  ELSE [files EXCEPT ![path] = main[path]]
      /\ UNCHANGED <<adds, main, made, lock, shards, opts, todo, batch, only, result, begun>>
      /\ gone' = gone \cup
           {r \in files[path].rows \ (Lines \cup ToSet(batch)) : ~ (opts.allow /\ r \in only)}
      /\ waived' = waived \cup Accepted
  BY DEF Move
<1>2. path \in FileIds /\ made \in Nat
  BY <1>1, PathFile
<1>3. UNCHANGED <<pc, day, handle, draft, Open, Lines>>
  BY <1>1 DEF adds, Open, Lines
<1>4. /\ files' \in [FileIds -> Tables(EventRecords, Producers)]
      /\ \A g \in FileIds \ {path} : files'[g] = files[g]
      /\ \A p \in Open : files'[handle[p]] = files[handle[p]]
      /\ \A g \in FileIds : /\ Consistent(files'[g]) /\ Consistent(main'[g])
                            /\ main'[g].rows \subseteq files'[g].rows
                            /\ files'[g].rows \subseteq files[g].rows
  <2>1. CASE \E p \in Open : handle[p] = path
    BY <1>1, <2>1 DEF RebuildInv, Types, StoreTypes, Stored
  <2>2. CASE \A p \in Open : handle[p] # path
    <3> DEFINE t == main[path]
    <3>1. /\ t \in Tables(EventRecords, Producers) /\ Consistent(t)
          /\ t.rows \subseteq files[path].rows /\ main[path].rows \subseteq t.rows
      BY <1>2 DEF RebuildInv, Types, StoreTypes, Stored
    <3>2. files' = [files EXCEPT ![path] = t] /\ main' = main
      BY <1>1, <2>2
    <3> HIDE DEF t
    <3>3. /\ files' \in [FileIds -> Tables(EventRecords, Producers)]
          /\ files'[path] = t
          /\ \A g \in FileIds \ {path} : files'[g] = files[g] /\ main'[g] = main[g]
          /\ \A g \in FileIds : /\ Consistent(files'[g]) /\ Consistent(main'[g])
                                /\ main'[g].rows \subseteq files'[g].rows
      <4>1. main' = main /\ main[path].rows \subseteq t.rows
        BY <3>1, <3>2 DEF t
      <4> QED
        BY <1>2, <3>1, <3>2, <4>1, FileStep
    <3>4. \A p \in Open : files'[handle[p]] = files[handle[p]]
      BY <2>2, <3>3, OpenFacts
    <3>5. \A g \in FileIds : files'[g].rows \subseteq files[g].rows
      BY <3>1, <3>3
    <3> QED
      BY <3>3, <3>4, <3>5
  <2> QED
    BY <2>1, <2>2
<1>5. Types'
  <2>1. waived' \subseteq Nat
    <3>1. Accepted \subseteq Nat
      BY RecordsAreEvents DEF Accepted, RebuildInv, Types, RebuildTypes
    <3> QED
      BY <1>1, <3>1 DEF RebuildInv, Types, HistoryTypes
  <2>2. gone' \subseteq EventRecords
    <3>1. files[path].rows \subseteq EventRecords
      BY <1>2 DEF RebuildInv, Types, StoreTypes, Tables
    <3> QED
      BY <1>1, <3>1 DEF RebuildInv, Types, HistoryTypes
  <2>3. AddTypes' /\ RebuildTypes'
    BY <1>1, <1>3 DEF RebuildInv, Types, AddTypes, RebuildTypes
  <2>4. StoreTypes'
    BY <1>1, <1>2, <1>4 DEF RebuildInv, Types, StoreTypes, NoFile
  <2> QED
    BY <2>1, <2>2, <2>3, <2>4 DEF Types, HistoryTypes
<1>6. Opened'
  <2>1. \A p \in Open : day[p] \in Days /\ handle[p] \in FileIds /\ files'[handle[p]].next >= 1
    BY <1>4, OpenFacts
  <2> QED
    BY <1>1, <1>3, <2>1 DEF RebuildInv, Opened
<1>7. Locked'
  BY <1>1, <1>3, <1>4 DEF RebuildInv, Locked, Open
<1>8. Identified'
  BY <1>1, <1>3, <1>4 DEF RebuildInv, Identified, Known
<1>9. Stored' /\ Bounded'
  BY <1>1, <1>3, <1>4 DEF RebuildInv, Stored, Bounded
<1>10. Counted'
  BY <1>1, CountTypes DEF RebuildInv, Counted
<1> QED
  BY <1>5, <1>6, <1>7, <1>8, <1>9, <1>10 DEF RebuildInv

(* What the import works on: the index, or a new one. *)
LEMMA TargetTable ==
  ASSUME RebuildInv
  PROVE  /\ Target \in Tables(EventRecords, Producers) /\ Consistent(Target)
         /\ Target.next >= 1 /\ Known(Target.rows)
         /\ main[AtPath].rows \subseteq Target.rows
<1>1. CASE path = NoFile
  <2>1. Target = [rows |-> {}, stream |-> NoStream, next |-> 1]
    BY <1>1 DEF Target, Fresh
  <2>2. main[AtPath] = NoTables
    BY <1>1, PathFile DEF RebuildInv, Stored, FileIds
  <2> QED
    BY <2>1, <2>2 DEF Tables, Consistent, Known, Producers, NoTables
<1>2. CASE path # NoFile
  BY <1>2, PathFile DEF Target, RebuildInv, Types, StoreTypes, Stored, Identified
<1> QED
  BY <1>1, <1>2

(* The rebuild's connection leaves the index, or a new one, as it was or with the batch. *)
Leaves(content) ==
  /\ Importing /\ lock[AtPath] = NoStream
  /\ \/ content = Target
     \/ Verdict(batch, Target, Accepted) = "valid" /\ content = Imported(batch, Target)
  /\ path' = AtPath /\ made' = (IF path = NoFile THEN made + 1 ELSE made)
  /\ files' = [files EXCEPT ![AtPath] = content]
  /\ main' \in {main, [main EXCEPT ![AtPath] = content]}
  /\ phase' = "idle" /\ result' # "origin_discontinuity"
  /\ waived' \in {waived, waived \cup Accepted}
  /\ UNCHANGED <<adds, lock, shards, opts, todo, batch, only, begun, gone>>

(* All that came to connecting do so. *)
LEMMA ImportLeaves ==
  ASSUME Import \/ ImportRefused \/ KillImport
  PROVE  \E content : Leaves(content)
<1>1. CASE Import
  <2>1. Leaves(Imported(batch, Target))
    BY <1>1 DEF Import, EndWith, Close, Leaves
  <2> QED
    BY <2>1
<1>2. CASE ImportRefused
  <2>1. Leaves(Target)
    BY <1>2 DEF ImportRefused, EndWith, Close, Leaves
  <2> QED
    BY <2>1
<1>3. CASE KillImport
  <2>1. Leaves(Target) \/ Leaves(Imported(batch, Target))
    BY <1>3 DEF KillImport, EndWith, Leaves
  <2> QED
    BY <2>1
<1> QED
  BY <1>1, <1>2, <1>3

(* An import: valid under the lock, into the index or a new one, or given up there. *)
LEMMA ImportKeepsRebuild ==
  ASSUME RebuildInv, NEW t, Leaves(t)
  PROVE  RebuildInv'
<1> DEFINE f == AtPath
<1>1. /\ Importing /\ lock[f] = NoStream
      /\ path' = f /\ made' = (IF path = NoFile THEN made + 1 ELSE made)
      /\ files' = [files EXCEPT ![f] = t]
      /\ main' \in {main, [main EXCEPT ![f] = t]}
      /\ phase' = "idle" /\ waived' \in {waived, waived \cup Accepted}
      /\ UNCHANGED <<adds, lock, shards, opts, todo, batch, only, begun, gone>>
  BY DEF Leaves
<1>2. /\ f \in FileIds /\ made \in Nat
      /\ path # NoFile => f = path /\ path \in FileIds /\ path <= made
      /\ path = NoFile => f = made + 1
  BY PathFile
<1>3. batch \in Seq(EventRecords)
  BY DEF RebuildInv, Types, RebuildTypes
<1>4. /\ t \in Tables(EventRecords, Producers) /\ Consistent(t)
      /\ Target.rows \subseteq t.rows /\ t.rows \subseteq Target.rows \cup ToSet(batch)
      /\ Target.next <= t.next /\ Target.next \in Nat /\ Target.next >= 1 /\ t.next \in Nat
  <2>1. Target \in Tables(EventRecords, Producers) /\ Consistent(Target) /\ Target.next >= 1
    BY TargetTable
  <2>2. CASE t = Target
    BY <2>1, <2>2 DEF Tables
  <2>3. CASE Verdict(batch, Target, Accepted) = "valid" /\ t = Imported(batch, Target)
    <3>1. /\ t \in Tables(EventRecords, Producers) /\ Consistent(t)
          /\ t.rows = Target.rows \cup ToSet(batch)
          /\ Target.next <= t.next
      BY <1>3, <2>1, <2>3, ImportJoins
    <3> QED
      BY <2>1, <3>1 DEF Tables
  <2> QED
    BY <2>2, <2>3 DEF Leaves
<1> HIDE DEF f
<1>5. main[f].rows \subseteq t.rows /\ Known(t.rows)
  BY <1>4, TargetTable DEF f, RebuildInv, Identified, Known
<1>6. /\ files' \in [FileIds -> Tables(EventRecords, Producers)]
      /\ main' \in [FileIds -> Tables(EventRecords, Producers)]
      /\ files'[f] = t /\ \A g \in FileIds \ {f} : files'[g] = files[g] /\ main'[g] = main[g]
      /\ \A g \in FileIds : /\ Consistent(files'[g]) /\ Consistent(main'[g])
                            /\ main'[g].rows \subseteq files'[g].rows
  <2>1. \/ main' = main /\ main[f].rows \subseteq t.rows
        \/ main' = [main EXCEPT ![f] = t]
    BY <1>1, <1>5
  <2> QED
    BY <1>1, <1>2, <1>4, <2>1, FileStep
<1>7. UNCHANGED <<pc, day, handle, draft, Open, Lines>>
  BY <1>1 DEF adds, Open, Lines
<1>8. Counted'
  <2>1. path' # NoFile
    BY <1>1, <1>2 DEF FileIds, NoFile
  <2> QED
    BY <1>1, <1>2, <2>1, CountTypes DEF RebuildInv, Counted
<1>9. made <= made' /\ f <= made' /\ made' \in Nat /\ made' <= MaxRebuilds + 1
  <2>1. f \in Nat
    BY <1>2 DEF FileIds
  <2>2. made' <= begun' + 1 /\ begun' = begun
    <3>1. path' # NoFile
      BY <1>1, <1>2 DEF FileIds, NoFile
    <3> QED
      BY <1>1, <1>2, <1>8, <3>1, CountTypes DEF Counted
  <2> QED
    BY <1>1, <1>2, <2>1, <2>2, CountTypes
<1>10. Types'
  <2>1. waived' \subseteq Nat
    <3>1. Accepted \subseteq Nat
      BY RecordsAreEvents DEF Accepted, RebuildInv, Types, RebuildTypes
    <3> QED
      BY <1>1, <3>1 DEF RebuildInv, Types, HistoryTypes
  <2>2. AddTypes' /\ RebuildTypes'
    BY <1>1, <1>7 DEF RebuildInv, Types, AddTypes, RebuildTypes
  <2>3. StoreTypes'
    <3>1. path' \in 0 .. made' /\ made' \in 0 .. (MaxRebuilds + 1)
      BY <1>1, <1>2, <1>9 DEF FileIds
    <3> QED
      BY <1>1, <1>6, <3>1 DEF RebuildInv, Types, StoreTypes
  <2> QED
    BY <1>1, <2>1, <2>2, <2>3 DEF RebuildInv, Types, HistoryTypes
<1>11. Opened'
  <2>1. \A p \in Procs : handle[p] <= made' /\ handle[p] \in Nat
    <3>1. \A p \in Procs : handle[p] <= made /\ handle[p] \in Nat
      BY DEF RebuildInv, Opened, Types, AddTypes, FileIds, NoFile
    <3> QED
      BY <1>2, <1>9, <3>1
  <2>2. \A p \in Open : day[p] \in Days /\ handle[p] \in FileIds /\ files'[handle[p]].next >= 1
    <3> SUFFICES ASSUME NEW p \in Open
                 PROVE  files'[handle[p]].next >= 1
      BY OpenFacts
    <3>1. handle[p] \in FileIds /\ files[handle[p]].next >= 1
      BY OpenFacts
    <3>2. CASE handle[p] = f
      BY <1>4, <1>6, <3>2
    <3>3. CASE handle[p] # f
      BY <1>6, <3>1, <3>3
    <3> QED
      BY <3>2, <3>3
  <2> QED
    BY <1>7, <2>1, <2>2 DEF RebuildInv, Opened
<1>12. Locked'
  <2>1. \A p \in Procs : pc[p] = "commit" => handle[p] # f
    BY <1>1, NoStreamAssumption DEF RebuildInv, Locked
  <2>2. UNCHANGED <<adds, lock>>
    BY <1>1
  <2> QED
    BY <1>2, <1>6, <2>1, <2>2, UnlockedStaysLocked
<1>13. Identified'
  <2>1. \A g \in FileIds : Known(files'[g].rows)
    BY <1>5, <1>6 DEF RebuildInv, Identified
  <2> QED
    BY <1>1, <1>7, <2>1 DEF RebuildInv, Identified, Known
<1>14. Stored'
  <2>1. \A g \in FileIds : g > made' => main'[g] = NoTables
    <3>1. \A g \in FileIds : g > made' => g > made /\ g # f
      BY <1>2, <1>9 DEF FileIds
    <3> QED
      BY <1>6, <3>1 DEF RebuildInv, Stored
  <2>2. files'[path'].next >= 1
    BY <1>1, <1>4, <1>6
  <2> QED
    BY <1>6, <2>1, <2>2 DEF Stored
<1>15. Bounded'
  BY <1>7 DEF RebuildInv, Bounded
<1> QED
  BY <1>8, <1>10, <1>11, <1>12, <1>13, <1>14, <1>15 DEF RebuildInv

(* A lost shard leaves fewer lines. *)
LEMMA LoseShardKeeps ==
  ASSUME RebuildInv, NEW d \in Days, LoseShard(d)
  PROVE  RebuildInv'
<1>1. /\ shards' = [shards EXCEPT ![d] = <<>>]
      /\ UNCHANGED <<adds, store, rebuild, history>>
  BY DEF LoseShard
<1>2. UNCHANGED <<pc, day, handle, draft, files, main, path, made, lock,
                  phase, opts, todo, batch, only, begun, gone, waived, Open>>
  BY <1>1 DEF adds, store, rebuild, history, Open
<1>3. shards' \in [Days -> Seq(EventRecords)] /\ Lines' \subseteq Lines
  BY <1>1, LinesStep DEF RebuildInv, Types, StoreTypes
<1>4. Types'
  BY <1>2, <1>3 DEF RebuildInv, Types, AddTypes, StoreTypes, RebuildTypes, HistoryTypes
<1>5. Opened' /\ Locked' /\ Stored' /\ Counted'
  BY <1>2 DEF RebuildInv, Opened, Locked, Stored, Counted
<1>6. Identified' /\ Bounded'
  BY <1>2, <1>3 DEF RebuildInv, Identified, Known, Bounded
<1> QED
  BY <1>4, <1>5, <1>6 DEF RebuildInv

-----------------------------------------------------------------------------

(* At first there is nothing. *)
LEMMA InitRebuildInv == Init => RebuildInv
<1> SUFFICES ASSUME Init
             PROVE  RebuildInv
  OBVIOUS
<1>1. /\ NoTables \in Tables(EventRecords, Producers) /\ Consistent(NoTables)
      /\ NoTables.rows = {}
  BY DEF NoTables, Tables, Producers, Consistent
<1>2. Lines = {} /\ ToSet(batch) = {} /\ Open = {}
  BY DEF Init, Lines, ToSet, Open
<1>3. Types
  <2>1. MaxRebuilds \in Nat /\ 0 \in 0 .. (MaxRebuilds + 1) /\ 0 \in 0 .. MaxRebuilds
    BY BoundAssumption
  <2>2. AddTypes
    BY DEF Init, AddTypes, NoFile
  <2>3. shards \in [Days -> Seq(EventRecords)] /\ batch \in Seq(EventRecords)
    BY DEF Init
  <2>4. StoreTypes
    <3>1. /\ files \in [FileIds -> Tables(EventRecords, Producers)]
          /\ main \in [FileIds -> Tables(EventRecords, Producers)]
      BY <1>1 DEF Init
    <3>2. path \in 0 .. made /\ made \in 0 .. (MaxRebuilds + 1)
      BY <2>1 DEF Init, NoFile
    <3>3. lock \in [FileIds -> Producers]
      BY DEF Init, Producers
    <3> QED
      BY <2>3, <3>1, <3>2, <3>3 DEF StoreTypes
  <2>5. RebuildTypes /\ HistoryTypes
    BY <2>1, <2>3 DEF Init, RebuildTypes, HistoryTypes
  <2> QED
    BY <2>2, <2>4, <2>5 DEF Types
<1>4. Opened /\ Locked
  BY <1>2 DEF Init, Opened, Locked, NoFile
<1>5. Identified /\ Bounded
  BY <1>1, <1>2 DEF Init, Identified, Bounded, Known
<1>6. Stored /\ Counted
  BY <1>1 DEF Init, Stored, Counted, NoFile
<1> QED
  BY <1>3, <1>4, <1>5, <1>6 DEF RebuildInv

(* The steps by which a rebuild ends without a change. *)
Stops ==
  \/ ShardMissing \/ Unreadable \/ Refuse \/ RefuseIndexOnly \/ DryRun
  \/ ImportBusy \/ KillRebuild

(* They all stop. *)
LEMMA StopsStop == Stops => \E outcome : Stop(outcome)
BY DEF Stops, ShardMissing, Unreadable, Refuse, RefuseIndexOnly, DryRun, ImportBusy, KillRebuild

(* Every step keeps the invariant. *)
LEMMA NextRebuildInv == RebuildInv /\ [Next]_vars => RebuildInv'
<1> SUFFICES ASSUME RebuildInv, [Next]_vars
             PROVE  RebuildInv'
  OBVIOUS
<1>1. ASSUME NEW p \in Procs, OpenIndex(p)
      PROVE  RebuildInv'
  BY <1>1, OpenIndexKeeps
<1>2. ASSUME NEW p \in Procs, Reconcile(p)
      PROVE  RebuildInv'
  BY <1>2, ReconcileKeeps
<1>3. ASSUME NEW p \in Procs, ReconcileFails(p)
      PROVE  RebuildInv'
  BY <1>3, ReconcileFailsKeeps
<1>4. ASSUME NEW p \in Procs, AppendEvent(p)
      PROVE  RebuildInv'
  BY <1>4, AppendEventKeeps
<1>5. ASSUME NEW p \in Procs, Commit(p)
      PROVE  RebuildInv'
  BY <1>5, CommitKeeps
<1>6. ASSUME NEW p \in Procs, Kill(p)
      PROVE  RebuildInv'
  BY <1>6, KillKeeps
<1>7. CASE Start
  BY <1>7, StartKeeps
<1>8. CASE ReadShard
  BY <1>8, ReadShardKeeps
<1>9. CASE Coverage \/ Validated
  BY <1>9, PreflightKeeps
<1>10. CASE Stops
  BY <1>10, StopsStop, StopKeeps
<1>11. CASE Move
  BY <1>11, MoveKeeps
<1>12. CASE Import \/ ImportRefused \/ KillImport
  BY <1>12, ImportLeaves, ImportKeepsRebuild
<1>13. ASSUME NEW d \in Days, LoseShard(d)
       PROVE  RebuildInv'
  BY <1>13, LoseShardKeeps
<1>14. CASE UNCHANGED vars
  <2>1. /\ UNCHANGED <<adds, store, shards, history>> /\ batch' = batch
        /\ RebuildTypes' /\ Counted'
    BY <1>14 DEF vars, rebuild, store, RebuildInv, Types, RebuildTypes, Counted
  <2> QED
    BY <2>1, ReadingKeeps
<1> QED
  BY <1>1, <1>2, <1>3, <1>4, <1>5, <1>6, <1>7, <1>8, <1>9, <1>10, <1>11, <1>12, <1>13, <1>14
     DEF Next, RebuildStep, Stops

(* The inductive invariant of adds and rebuilds. *)
THEOREM RebuildInvariance == Spec => []RebuildInv
BY InitRebuildInv, NextRebuildInv, PTL DEF Spec

(* The type invariant of adds and rebuilds. *)
THEOREM RebuildTypeCorrect == Spec => []TypeOK
<1>1. RebuildInv => TypeOK
  <2> SUFFICES ASSUME RebuildInv
               PROVE  TypeOK
    OBVIOUS
  <2>1. /\ pc \in [Procs -> {"idle", "open", "between", "commit", "added", "failed", "dead"}]
        /\ day \in [Procs -> Days \cup {0}]
        /\ handle \in [Procs -> FileIds \cup {NoFile}]
        /\ draft \in [Procs -> EventRecords \cup {NoStream}]
    BY DEF RebuildInv, Types, AddTypes
  <2>2. \A f \in FileIds :
          /\ files[f].rows \subseteq EventRecords /\ files[f].next \in Nat
          /\ main[f].rows \subseteq files[f].rows
          /\ lock[f] \in Procs \cup {NoStream}
    BY DEF RebuildInv, Types, StoreTypes, Stored, Tables, Producers
  <2>3. path \in 0 .. made /\ made \in {0} \cup FileIds
    BY CountTypes DEF RebuildInv, Types, StoreTypes, FileIds
  <2>4. \A d \in Days : ToSet(shards[d]) \subseteq EventRecords
    BY LinesStep DEF RebuildInv, Types, StoreTypes
  <2>5. /\ phase \in {"idle", "reading", "covered", "checked", "moved"}
        /\ opts \in Options \cup {NoStream}
        /\ todo \subseteq Days
        /\ ToSet(batch) \subseteq EventRecords
        /\ only \cup gone \subseteq EventRecords
        /\ waived \subseteq Nat
    BY DEF RebuildInv, Types, RebuildTypes, HistoryTypes, ToSet
  <2> QED
    BY <2>1, <2>2, <2>3, <2>4, <2>5 DEF TypeOK
<1> QED
  BY <1>1, RebuildInvariance, PTL

(***************************************************************************)
(* However adds, rebuilds, kills and losses interleave, no file that ever  *)
(* was the index has two rows of one origin, a row of another stream, or   *)
(* a cursor that stands at a row.                                          *)
(***************************************************************************)
THEOREM FilesStayConsistent == Spec => []FilesConsistent
<1>1. RebuildInv => FilesConsistent
  BY DEF RebuildInv, Stored, Consistent, FilesConsistent
<1> QED
  BY <1>1, RebuildInvariance, PTL

-----------------------------------------------------------------------------
(***************************************************************************)
(* Shards converge.  As long as every event is still a line and no two     *)
(* lines have one origin, the lines of each stream are numbered without a  *)
(* gap, whoever wrote them, and so no cursor is ahead of them.  An append  *)
(* behind a line of a later sequence would then repeat an origin.          *)
(***************************************************************************)
Whole == \A p \in Procs : draft[p] \in Lines \cup {NoStream}
OnceEach == \A e, f \in Lines : e.stream = f.stream /\ e.seq = f.seq => e = f
Clean == Whole /\ OnceEach

(* The stream has a line for every sequence below n. *)
Numbered(stream, n) == \A k \in 1 .. (n - 1) : \E l \in Lines : l.stream = stream /\ l.seq = k

CleanTable(table) ==
  /\ table.stream = NoStream => table.next <= 1
  /\ Numbered(table.stream, table.next)

Earlier(e, f) ==
  \/ e.day < f.day
  \/ e.day = f.day /\ (e.stream = f.stream => e.seq < f.seq)

InOrder(events) == \A i, j \in DOMAIN events : i < j => Earlier(events[i], events[j])

CleanLines == \A l \in Lines : Numbered(l.stream, l.seq)
CleanFiles == \A f \in FileIds : CleanTable(files[f]) /\ CleanTable(main[f])
CleanShards == \A d \in Days : InOrder(shards[d])
CleanBatch ==
  /\ ToSet(batch) \subseteq Lines
  /\ InOrder(batch)
  /\ phase = "reading" => \A e \in ToSet(batch), d \in todo : e.day < d

OwnDays == \A d \in Days : \A e \in ToSet(shards[d]) : e.day = d

RefusedInv == Discontinuous => Verdict(batch, Fresh, Accepted) = "origin_discontinuity"

ConvergeInv ==
  /\ RebuildInv /\ OwnDays /\ RefusedInv
  /\ Clean => CleanLines /\ CleanFiles /\ CleanShards /\ CleanBatch

(* What is whole after a step was whole before it, and no line is lost. *)
LEMMA WholeBefore ==
  ASSUME RebuildInv, Whole', \A p \in Procs : draft[p] # NoStream => draft'[p] = draft[p],
         \A e \in Lines' \ Lines : e.id \in Procs /\ draft[e.id] = NoStream
  PROVE  Whole /\ Lines \subseteq Lines'
<1>1. Lines \subseteq Lines'
  <2> SUFFICES ASSUME NEW e \in Lines
               PROVE  e \in Lines'
    OBVIOUS
  <2>1. e \in EventRecords /\ e.id \in Procs /\ e = draft[e.id] /\ e # NoStream
    BY NoStreamAssumption DEF RebuildInv, Identified, Known, Types, StoreTypes, Lines, ToSet
  <2> QED
    BY <2>1 DEF Whole
<1>2. Whole
  <2> SUFFICES ASSUME NEW p \in Procs, draft[p] # NoStream
               PROVE  draft[p] \in Lines
    BY DEF Whole
  <2>1. draft[p] \in Lines' /\ draft[p].id = p
    BY DEF Whole, RebuildInv, Identified
  <2> QED
    BY <2>1
<1> QED
  BY <1>1, <1>2

(* As many lines and more. *)
LEMMA NumberedGrows ==
  ASSUME Lines \subseteq Lines', NEW stream, NEW n, Numbered(stream, n)
  PROVE  \A k \in 1 .. (n - 1) : \E l \in Lines' : l.stream = stream /\ l.seq = k
BY DEF Numbered

(* A table whose cursor is above a line of its stream is clean. *)
LEMMA CleanAbove ==
  ASSUME RebuildInv, CleanLines, NEW e \in Lines, NEW table,
         table.stream = e.stream, table.next = e.seq + 1
  PROVE  CleanTable(table)
<1>1. e.seq \in Nat /\ e.stream # NoStream
  BY RecordsAreEvents DEF RebuildInv, Types, StoreTypes, Lines, ToSet
<1>2. ASSUME NEW k \in 1 .. (table.next - 1)
      PROVE  \E l \in Lines : l.stream = table.stream /\ l.seq = k
  <2>1. CASE k = e.seq
    BY <2>1
  <2>2. CASE k # e.seq
    <3>1. k \in 1 .. (e.seq - 1)
      BY <1>1, <2>2
    <3> QED
      BY <3>1 DEF CleanLines, Numbered
  <2> QED
    BY <2>1, <2>2
<1> QED
  BY <1>1, <1>2 DEF CleanTable, Numbered

(* A clean table takes a file's place. *)
LEMMA CleanFilesStep ==
  ASSUME RebuildInv, CleanFiles, NEW f \in FileIds, NEW t, CleanTable(t),
         files' \in {files, [files EXCEPT ![f] = t]},
         main' \in {main, [main EXCEPT ![f] = t]},
         Lines' = Lines
  PROVE  CleanFiles'
<1>1. \A g \in FileIds : /\ files'[g] \in {files[g], t}
                         /\ main'[g] \in {main[g], t}
  BY DEF RebuildInv, Types, StoreTypes
<1>2. \A g \in FileIds : CleanTable(files'[g]) /\ CleanTable(main'[g])
  BY <1>1 DEF CleanFiles
<1> QED
  BY <1>2 DEF CleanFiles, CleanTable, Numbered

(* A step that neither drafts an event nor touches a shard. *)
LEMMA SameLinesConverge ==
  ASSUME ConvergeInv, RebuildInv', RefusedInv', UNCHANGED <<draft, shards>>,
         Clean /\ CleanLines /\ CleanFiles /\ CleanShards /\ CleanBatch
           => CleanFiles' /\ CleanBatch'
  PROVE  ConvergeInv'
<1>1. Lines' = Lines
  BY DEF Lines
<1>2. OwnDays'
  BY DEF ConvergeInv, OwnDays
<1>3. Clean' = Clean /\ CleanLines' = CleanLines /\ CleanShards' = CleanShards
  BY <1>1 DEF Clean, Whole, OnceEach, CleanLines, Numbered, CleanShards
<1> QED
  BY <1>1, <1>2, <1>3 DEF ConvergeInv

(* The adds' steps leave the rebuild as it is. *)
LEMMA BatchStays ==
  ASSUME UNCHANGED rebuild
  PROVE  /\ RefusedInv => RefusedInv'
         /\ CleanBatch /\ Lines \subseteq Lines' => CleanBatch'
<1>1. UNCHANGED <<phase, opts, todo, batch, only, result>>
  BY DEF rebuild
<1>2. RefusedInv => RefusedInv'
  BY <1>1 DEF RefusedInv, Discontinuous, Accepted
<1>3. CleanBatch /\ Lines \subseteq Lines' => CleanBatch'
  BY <1>1 DEF CleanBatch
<1> QED
  BY <1>2, <1>3

(* The append: behind a line of a later sequence it would repeat an origin. *)
LEMMA AppendConverges ==
  ASSUME ConvergeInv, NEW p \in Procs, AppendEvent(p), RebuildInv'
  PROVE  ConvergeInv'
<1> DEFINE table == files[handle[p]]
           event == [id |-> p, day |-> day[p], seq |-> table.next,
                     stream |-> IF table.stream = NoStream THEN p ELSE table.stream]
           d == day[p]
<1>0. RebuildInv
  BY DEF ConvergeInv
<1>1. /\ pc[p] = "between"
      /\ draft' = [draft EXCEPT ![p] = event]
      /\ shards' = [shards EXCEPT ![d] = Append(@, event)]
      /\ UNCHANGED <<files, main, rebuild>>
  BY DEF AppendEvent
<1>2. p \in Open /\ draft[p] = NoStream
  BY <1>0, <1>1 DEF Open, RebuildInv, Opened
<1>3. /\ d \in Days /\ handle[p] \in FileIds
      /\ table.next \in Nat /\ table.next >= 1 /\ table.stream \in Producers
  BY <1>0, <1>2, OpenFacts DEF Tables
<1>4. event \in EventRecords /\ event # NoStream
  BY <1>3, NoStreamAssumption DEF EventRecords, Producers
<1>5. /\ event.id = p /\ event.seq = table.next /\ event.day = d
      /\ event.stream = IF table.stream = NoStream THEN p ELSE table.stream
  OBVIOUS
<1> HIDE DEF event, table, d
<1>6. /\ shards \in [Days -> Seq(EventRecords)]
      /\ Lines' = Lines \cup {event}
      /\ Lines \subseteq EventRecords
  BY <1>0, <1>1, <1>3, <1>4, LinesStep DEF RebuildInv, Types, StoreTypes
<1>7. draft'[p] = event /\ \A q \in Procs \ {p} : draft'[q] = draft[q]
  BY <1>0, <1>1 DEF RebuildInv, Types, AddTypes
<1>8. \A l \in Lines : l # event
  BY <1>0, <1>2, <1>5, <1>6, NoStreamAssumption DEF RebuildInv, Identified, Known
<1>9. /\ Append(shards[d], event) \in Seq(EventRecords)
      /\ ToSet(Append(shards[d], event)) = ToSet(shards[d]) \cup {event}
      /\ shards'[d] = Append(shards[d], event)
      /\ \A x \in Days \ {d} : shards'[x] = shards[x]
      /\ ToSet(shards[d]) \subseteq Lines
  BY <1>1, <1>3, <1>4, <1>6, AppendedSet DEF Lines
<1>10. OwnDays'
  BY <1>5, <1>9 DEF ConvergeInv, OwnDays
<1>11. RefusedInv' /\ (CleanBatch => CleanBatch')
  BY <1>1, <1>6, BatchStays DEF ConvergeInv
<1>12. ASSUME Clean'
       PROVE  CleanLines' /\ CleanFiles' /\ CleanShards' /\ CleanBatch'
  <2>1. Clean
    <3>1. Whole
      BY <1>0, <1>2, <1>5, <1>6, <1>7, <1>12, WholeBefore DEF Clean
    <3>2. OnceEach
      BY <1>6, <1>12 DEF Clean, OnceEach
    <3> QED
      BY <3>1, <3>2 DEF Clean
  <2>2. CleanLines /\ CleanFiles /\ CleanShards /\ CleanBatch
    BY <2>1 DEF ConvergeInv
  <2>3. Numbered(event.stream, event.seq)
    <3>1. CleanTable(table)
      BY <1>3, <2>2 DEF CleanFiles, table
    <3>2. CASE table.stream = NoStream
      <4>1. event.seq - 1 <= 0
        BY <1>3, <1>5, <3>1, <3>2 DEF CleanTable
      <4> QED
        BY <1>3, <1>5, <4>1 DEF Numbered
    <3>3. CASE table.stream # NoStream
      BY <1>5, <3>1, <3>3 DEF CleanTable
    <3> QED
      BY <3>2, <3>3
  <2>4. CleanLines'
    <3>1. \A l \in Lines' : Numbered(l.stream, l.seq)
      BY <1>6, <2>2, <2>3 DEF CleanLines
    <3> QED
      BY <1>6, <3>1 DEF CleanLines, Numbered
  <2>5. CleanFiles'
    BY <1>1, <1>6, <2>2 DEF CleanFiles, CleanTable, Numbered
  <2>6. ASSUME NEW l \in Lines, l.stream = event.stream
        PROVE  l.seq < event.seq
    <3> SUFFICES ASSUME ~ (l.seq < event.seq)
                 PROVE  FALSE
      OBVIOUS
    <3>1. l.seq \in Nat /\ event.seq \in Nat /\ event.seq >= 1
      BY <1>3, <1>5, <1>6, RecordsAreEvents
    <3>2. PICK m \in Lines : m.stream = event.stream /\ m.seq = event.seq
      <4>1. CASE l.seq = event.seq
        BY <2>6, <4>1
      <4>2. CASE l.seq # event.seq
        <5>1. event.seq \in 1 .. (l.seq - 1)
          BY <3>1, <4>2
        <5> QED
          BY <2>2, <2>6, <5>1 DEF CleanLines, Numbered
      <4> QED
        BY <4>1, <4>2
    <3>3. m \in Lines' /\ event \in Lines'
      BY <1>6
    <3> QED
      BY <1>8, <1>12, <3>2, <3>3 DEF Clean, OnceEach
  <2>7. InOrder(Append(shards[d], event))
    <3> DEFINE s == shards[d]
               t == Append(s, event)
    <3>1. /\ Len(s) \in Nat /\ DOMAIN s = 1 .. Len(s)
          /\ DOMAIN t = 1 .. (Len(s) + 1)
          /\ \A i \in 1 .. Len(s) : t[i] = s[i]
          /\ t[Len(s) + 1] = event
      BY <1>3, <1>4, <1>6
    <3>2. InOrder(s) /\ \A i \in 1 .. Len(s) : s[i] \in Lines /\ s[i].day = d
      BY <1>3, <1>9, <2>2, <3>1 DEF CleanShards, ConvergeInv, OwnDays, ToSet
    <3> HIDE DEF s, t
    <3> SUFFICES ASSUME NEW i \in DOMAIN t, NEW j \in DOMAIN t, i < j
                 PROVE  Earlier(t[i], t[j])
      BY DEF InOrder, t, s
    <3>3. i \in 1 .. Len(s) /\ (j \in 1 .. Len(s) \/ j = Len(s) + 1)
      BY <3>1
    <3>4. CASE j \in 1 .. Len(s)
      BY <3>1, <3>2, <3>3, <3>4 DEF InOrder
    <3>5. CASE j = Len(s) + 1
      BY <1>5, <2>6, <3>1, <3>2, <3>3, <3>5 DEF Earlier
    <3> QED
      BY <3>3, <3>4, <3>5
  <2>8. CleanShards'
    BY <1>9, <2>2, <2>7 DEF CleanShards
  <2> QED
    BY <1>11, <2>2, <2>4, <2>5, <2>8
<1> QED
  BY <1>10, <1>11, <1>12 DEF ConvergeInv

(* The other steps of the adds. *)
LEMMA AddConverges ==
  ASSUME ConvergeInv, NEW p \in Procs, RebuildInv',
         OpenIndex(p) \/ Reconcile(p) \/ ReconcileFails(p) \/ Commit(p) \/ Kill(p)
  PROVE  ConvergeInv'
<1>0. RebuildInv
  BY DEF ConvergeInv
<1>1. UNCHANGED <<draft, shards, rebuild>>
  BY DEF OpenIndex, Reconcile, ReconcileFails, Commit, Kill
<1>2. Lines' = Lines
  BY <1>1 DEF Lines
<1>3. RefusedInv' /\ (CleanBatch => CleanBatch')
  BY <1>1, <1>2, BatchStays DEF ConvergeInv
<1>4. ASSUME Clean, CleanLines, CleanFiles
      PROVE  CleanFiles'
  <2>1. ASSUME OpenIndex(p)
        PROVE  CleanFiles'
    <3>1. CleanTable(Fresh)
      BY DEF CleanTable, Numbered, Fresh
    <3>2. files' \in {files, [files EXCEPT ![AtPath] = Fresh]} /\ main' = main
      BY <2>1 DEF OpenIndex, Connected
    <3> QED
      BY <1>0, <1>2, <1>4, <3>1, <3>2, PathFile, CleanFilesStep
  <2>2. ASSUME p \in Open
        PROVE  handle[p] \in FileIds /\ CleanTable(files[handle[p]])
    BY <1>0, <1>4, <2>2, OpenFacts DEF CleanFiles
  <2>3. ASSUME Reconcile(p)
        PROVE  CleanFiles'
    <3> DEFINE table == files[handle[p]]
               joined == Join(table, Lines)
    <3>1. /\ Reconcilable(table) /\ p \in Open /\ main' = main
          /\ files' = [files EXCEPT ![handle[p]] = joined]
      BY <2>3 DEF Reconcile, Join, Open
    <3>2. /\ joined.next = table.next \/ \E e \in Lines : joined.next = e.seq + 1
          /\ IF Lines = {} THEN joined.stream = table.stream
             ELSE \E e \in Lines : joined.stream = e.stream
      BY <1>0, <3>1, LinesJoin
    <3>3. CleanTable(table)
      BY <2>2, <3>1
    <3>4. /\ \A e, f \in Lines : e.stream = f.stream
          /\ \A e \in Lines : table.stream \in {NoStream, e.stream} /\ e.stream # NoStream
      <4>1. Lines \subseteq EventRecords
        BY <1>0 DEF RebuildInv, Types, StoreTypes, Lines, ToSet
      <4>2. /\ \A e, f \in Lines : e.stream = f.stream
            /\ \A e \in Lines : table.stream \in {NoStream, e.stream}
        BY <3>1 DEF Reconcilable
      <4> QED
        BY <4>1, <4>2, RecordsAreEvents
    <3>5. table.next \in Nat
      BY <1>0, <3>1, OpenFacts DEF Tables
    <3> HIDE DEF table, joined
    <3>6. CleanTable(joined)
      <4>1. CASE \E e \in Lines : joined.next = e.seq + 1
        <5>1. PICK e \in Lines : joined.next = e.seq + 1
          BY <4>1
        <5>2. joined.stream = e.stream
          BY <3>2, <3>4
        <5> QED
          BY <1>0, <1>4, <5>1, <5>2, CleanAbove
      <4>2. CASE joined.next = table.next /\ joined.stream = table.stream
        BY <3>3, <4>2 DEF CleanTable
      <4>3. CASE joined.next = table.next /\ joined.stream # table.stream
        <5>1. table.stream = NoStream
          BY <3>2, <3>4, <4>3
        <5>2. joined.next <= 1 /\ joined.next \in Nat
          BY <3>3, <3>5, <4>3, <5>1 DEF CleanTable
        <5> QED
          BY <5>2 DEF CleanTable, Numbered
      <4> QED
        BY <3>2, <4>1, <4>2, <4>3
    <3>7. handle[p] \in FileIds
      BY <2>2, <3>1
    <3> QED
      BY <1>0, <1>2, <1>4, <3>1, <3>6, <3>7, CleanFilesStep
  <2>4. ASSUME ReconcileFails(p)
        PROVE  CleanFiles'
    <3>1. p \in Open /\ files' = files /\ main' = Merged(p, files[handle[p]])
      BY <2>4 DEF ReconcileFails, Open
    <3> QED
      BY <1>0, <1>2, <1>4, <2>2, <3>1, MergedMain, CleanFilesStep
  <2>5. ASSUME Commit(p) \/ Kill(p)
        PROVE  CleanFiles'
    <3> DEFINE joined == Join(files[handle[p]], {draft[p]})
    <3>1. CASE files' = files /\ main' = main
      BY <1>2, <1>4, <3>1 DEF CleanFiles, CleanTable, Numbered
    <3>2. CASE pc[p] = "commit"
      <4>1. joined.next = draft[p].seq + 1 /\ joined.stream = draft[p].stream
        BY <1>0, <3>2, DraftJoins
      <4>2. p \in Open
        BY <3>2 DEF Open
      <4>3. files' \in {files, [files EXCEPT ![handle[p]] = joined]}
        BY <2>5 DEF Commit, Kill, Join
      <4>4. main' \in {main, [main EXCEPT ![handle[p]] = joined]}
        BY <2>5, MergedMain DEF Commit, Kill, Join
      <4>5. draft[p] \in Lines
        BY <1>0, <1>4, <3>2, NoStreamAssumption DEF Clean, Whole, RebuildInv, Locked
      <4> HIDE DEF joined
      <4>6. CleanTable(joined)
        BY <1>0, <1>4, <4>1, <4>5, CleanAbove
      <4> QED
        BY <1>0, <1>2, <1>4, <2>2, <4>2, <4>3, <4>4, <4>6, CleanFilesStep
    <3> QED
      BY <2>5, <3>1, <3>2 DEF Commit, Kill
  <2> QED
    BY <2>1, <2>3, <2>4, <2>5
<1> QED
  BY <1>1, <1>3, <1>4, SameLinesConverge

(* A shard of lines is lost, and what was whole is not. *)
LEMMA LoseShardConverges ==
  ASSUME ConvergeInv, NEW d \in Days, LoseShard(d), RebuildInv'
  PROVE  ConvergeInv'
<1>0. RebuildInv
  BY DEF ConvergeInv
<1>1. /\ shards' = [shards EXCEPT ![d] = <<>>] /\ shards[d] # <<>>
      /\ UNCHANGED <<draft, files, main, rebuild>>
  BY DEF LoseShard, adds, store
<1>2. /\ shards \in [Days -> Seq(EventRecords)]
      /\ Lines' \subseteq Lines /\ ToSet(shards[d]) \subseteq Lines
  BY <1>0, <1>1, LinesStep DEF RebuildInv, Types, StoreTypes
<1>3. shards'[d] = <<>> /\ \A x \in Days \ {d} : shards'[x] = shards[x]
  BY <1>1, <1>2
<1>4. OwnDays'
  BY <1>3 DEF ConvergeInv, OwnDays, ToSet
<1>5. RefusedInv'
  BY <1>1, BatchStays DEF ConvergeInv
<1>6. ~ Whole'
  <2>1. PICK e \in ToSet(shards[d]) : TRUE
    BY <1>1, <1>2 DEF ToSet
  <2>2. e \in Lines /\ e.day = d /\ e.id \in Procs /\ draft[e.id] = e /\ e # NoStream
    BY <1>0, <1>2, NoStreamAssumption
       DEF ConvergeInv, OwnDays, RebuildInv, Identified, Known, Types, StoreTypes, Lines, ToSet
  <2>3. e \notin Lines'
    <3>1. ASSUME NEW x \in Days, e \in ToSet(shards'[x])
          PROVE  FALSE
      <4>1. CASE x = d
        BY <1>3, <3>1, <4>1 DEF ToSet
      <4>2. CASE x # d
        BY <1>3, <2>2, <3>1, <4>2 DEF ConvergeInv, OwnDays
      <4> QED
        BY <4>1, <4>2
    <3> QED
      BY <3>1 DEF Lines
  <2> QED
    BY <1>1, <2>2, <2>3 DEF Whole
<1> QED
  BY <1>4, <1>5, <1>6 DEF ConvergeInv, Clean

(***************************************************************************)
(* The rebuild only reads, or imports lines; the shards that it reads in   *)
(* the order of their days are in order, and what it has read stays lines. *)
(***************************************************************************)
LEMMA ReadShardConverges ==
  ASSUME ConvergeInv, ReadShard, RebuildInv'
  PROVE  ConvergeInv'
<1>0. RebuildInv
  BY DEF ConvergeInv
<1> DEFINE more == shards[Earliest]
<1>1. /\ phase = "reading" /\ phase' = "reading" /\ todo # {}
      /\ batch' = batch \o more
      /\ todo' = todo \ {Earliest}
      /\ UNCHANGED <<draft, files, main, shards, opts, only, result>>
  BY DEF ReadShard, adds, store
<1>2. Earliest \in Days /\ Earliest \in todo /\ \A d \in todo : Earliest <= d /\ d \in Nat
  BY <1>0, <1>1, EarliestDay, DaysAssumption DEF RebuildInv, Types, RebuildTypes
<1>3. /\ more \in Seq(EventRecords) /\ batch \in Seq(EventRecords)
      /\ ToSet(more) \subseteq Lines
      /\ \A e \in ToSet(more) : e.day = Earliest
  BY <1>0, <1>2 DEF RebuildInv, Types, StoreTypes, RebuildTypes, Lines, ConvergeInv, OwnDays
<1> HIDE DEF more
<1>4. ToSet(batch') = ToSet(batch) \cup ToSet(more)
  BY <1>1, <1>3, JoinedSet
<1>5. RefusedInv'
  BY <1>1 DEF RefusedInv, Discontinuous
<1>6. Lines' = Lines
  BY <1>1 DEF Lines
<1>7. ASSUME CleanFiles
      PROVE  CleanFiles'
  BY <1>1, <1>6, <1>7 DEF CleanFiles, CleanTable, Numbered
<1>8. ASSUME CleanShards, CleanBatch
      PROVE  CleanBatch'
  <2>1. ToSet(batch') \subseteq Lines'
    BY <1>3, <1>4, <1>6, <1>8 DEF CleanBatch
  <2>2. \A e \in ToSet(batch'), d \in todo' : e.day < d
    <3>1. \A e \in ToSet(batch), d \in todo : e.day < d
      BY <1>1, <1>8 DEF CleanBatch
    <3>2. \A d \in todo' : d \in todo /\ Earliest < d
      BY <1>1, <1>2
    <3> QED
      BY <1>3, <1>4, <3>1, <3>2
  <2>3. InOrder(batch')
    <3>1. /\ Len(batch) \in Nat /\ Len(more) \in Nat
          /\ DOMAIN batch = 1 .. Len(batch) /\ DOMAIN more = 1 .. Len(more)
          /\ DOMAIN batch' = 1 .. (Len(batch) + Len(more))
          /\ \A i \in 1 .. (Len(batch) + Len(more)) :
               batch'[i] = IF i <= Len(batch) THEN batch[i] ELSE more[i - Len(batch)]
      BY <1>1, <1>3
    <3> SUFFICES ASSUME NEW i \in 1 .. (Len(batch) + Len(more)),
                        NEW j \in 1 .. (Len(batch) + Len(more)), i < j
                 PROVE  Earlier(batch'[i], batch'[j])
      BY <3>1 DEF InOrder
    <3>2. CASE j <= Len(batch)
      <4>1. i \in DOMAIN batch /\ j \in DOMAIN batch /\ i <= Len(batch)
        BY <3>1, <3>2
      <4> QED
        BY <1>8, <3>1, <3>2, <4>1 DEF CleanBatch, InOrder
    <3>3. CASE i <= Len(batch) /\ ~ (j <= Len(batch))
      <4>1. i \in DOMAIN batch /\ j - Len(batch) \in DOMAIN more
        BY <3>1, <3>3
      <4>2. batch'[i] \in ToSet(batch) /\ batch'[j] \in ToSet(more)
        BY <3>1, <3>3, <4>1 DEF ToSet
      <4>3. batch'[i].day < Earliest /\ batch'[j].day = Earliest
        BY <1>1, <1>2, <1>3, <1>8, <4>2 DEF CleanBatch
      <4> QED
        BY <4>3 DEF Earlier
    <3>4. CASE ~ (i <= Len(batch))
      <4>1. /\ i - Len(batch) \in DOMAIN more /\ j - Len(batch) \in DOMAIN more
            /\ i - Len(batch) < j - Len(batch) /\ ~ (j <= Len(batch))
        BY <3>1, <3>4
      <4>2. InOrder(more)
        BY <1>2, <1>8 DEF CleanShards, more
      <4>3. Earlier(more[i - Len(batch)], more[j - Len(batch)])
        BY <4>1, <4>2 DEF InOrder
      <4> QED
        BY <3>1, <3>4, <4>1, <4>3
    <3> QED
      BY <3>2, <3>3, <3>4
  <2> QED
    BY <1>1, <2>1, <2>2, <2>3 DEF CleanBatch
<1> QED
  BY <1>1, <1>5, <1>7, <1>8, SameLinesConverge

(* The other steps of the rebuild that leave the index alone. *)
LEMMA ReadingConverges ==
  ASSUME ConvergeInv, RebuildInv', Start \/ Coverage \/ Validated \/ Stops
  PROVE  ConvergeInv'
<1>1. /\ UNCHANGED <<draft, files, main, shards>>
      /\ \/ phase' = "reading" /\ batch' = <<>>
         \/ phase' # "reading" /\ batch' = batch
  BY StopsStop DEF Start, Coverage, Validated, Stop, adds, store
<1>2. Lines' = Lines
  BY <1>1 DEF Lines
<1>3. CleanFiles => CleanFiles'
  BY <1>1, <1>2 DEF CleanFiles, CleanTable, Numbered
<1>4. CleanBatch => CleanBatch'
  BY <1>1, <1>2 DEF CleanBatch, InOrder, ToSet
<1>5. RefusedInv'
  <2>1. CASE Start \/ Coverage \/ Validated
    BY <2>1 DEF Start, Coverage, Validated, RefusedInv, Discontinuous
  <2>2. CASE Stops /\ ~ Refuse
    BY <2>2 DEF Stops, ShardMissing, Unreadable, RefuseIndexOnly, DryRun, ImportBusy,
                KillRebuild, Stop, RefusedInv, Discontinuous
  <2>3. CASE Refuse
    BY <2>3 DEF Refuse, Stop, RefusedInv, Discontinuous, Destination, Accepted
  <2> QED
    BY <2>1, <2>2, <2>3
<1> QED
  BY <1>1, <1>3, <1>4, <1>5, SameLinesConverge

(* The rename may leave of the index what its main file has. *)
LEMMA MoveConverges ==
  ASSUME ConvergeInv, RebuildInv', Move
  PROVE  ConvergeInv'
<1>0. RebuildInv
  BY DEF ConvergeInv
<1>1. /\ path # NoFile /\ phase' = "moved" /\ main' = main
      /\ files' \in {files, [files EXCEPT ![path] = main[path]]}
      /\ UNCHANGED <<draft, shards, batch, todo>>
  BY DEF Move, adds
<1>2. path \in FileIds
  BY <1>0, <1>1, PathFile
<1>3. Lines' = Lines
  BY <1>1 DEF Lines
<1>4. ASSUME CleanFiles
      PROVE  CleanFiles'
  <2>1. CleanTable(main[path])
    BY <1>2, <1>4 DEF CleanFiles
  <2>2. main' \in {main, [main EXCEPT ![path] = main[path]]}
    BY <1>1
  <2> QED
    BY <1>0, <1>1, <1>2, <1>3, <1>4, <2>1, <2>2, CleanFilesStep
<1>5. CleanBatch => CleanBatch'
  BY <1>1, <1>3 DEF CleanBatch
<1>6. RefusedInv'
  BY <1>1 DEF RefusedInv, Discontinuous
<1> QED
  BY <1>1, <1>4, <1>5, <1>6, SameLinesConverge

(* The import moves the cursor above one of the lines that it imports, if at all. *)
LEMMA ImportConverges ==
  ASSUME ConvergeInv, RebuildInv', NEW t, Leaves(t)
  PROVE  ConvergeInv'
<1>0. RebuildInv
  BY DEF ConvergeInv
<1> DEFINE f == AtPath
           new == ToSet(batch) \ Target.rows
<1>1. /\ files' \in {files, [files EXCEPT ![f] = t]}
      /\ main' \in {main, [main EXCEPT ![f] = t]}
      /\ phase' = "idle" /\ result' # "origin_discontinuity"
      /\ UNCHANGED <<draft, shards, batch, todo>>
  BY DEF Leaves, adds
<1>2. Lines' = Lines
  BY <1>1 DEF Lines
<1>3. f \in FileIds /\ batch \in Seq(EventRecords)
  BY <1>0, PathFile DEF RebuildInv, Types, RebuildTypes
<1>4. t = Target \/ Filled(t, new, Target, Accepted)
  <2>1. Target \in Tables(EventRecords, Producers) /\ Consistent(Target)
    BY <1>0, TargetTable
  <2>2. CASE Verdict(batch, Target, Accepted) = "valid" /\ t = Imported(batch, Target)
    BY <1>3, <2>1, <2>2, ImportJoins
  <2> QED
    BY <2>2 DEF Leaves
<1>5. ASSUME CleanLines, CleanFiles, CleanBatch
      PROVE  CleanFiles'
  <2>1. CleanTable(Target)
    <3>1. CASE path = NoFile
      BY <3>1 DEF Target, Fresh, CleanTable, Numbered
    <3>2. CASE path # NoFile
      BY <1>0, <1>5, <3>2, PathFile DEF Target, CleanFiles
    <3> QED
      BY <3>1, <3>2
  <2>2. CleanTable(t)
    <3>1. CASE t = Target \/ new = {}
      BY <1>4, <2>1, <3>1 DEF Filled, CleanTable
    <3>2. CASE t # Target /\ new # {}
      <4>1. PICK e \in new : t.next = e.seq + 1
        BY <1>4, <3>2 DEF Filled
      <4>2. t.stream = e.stream /\ e \in Lines
        BY <1>4, <1>5, <3>2 DEF Filled, CleanBatch
      <4> QED
        BY <1>0, <1>5, <4>1, <4>2, CleanAbove
    <3> QED
      BY <3>1, <3>2
  <2> QED
    BY <1>0, <1>1, <1>2, <1>3, <1>5, <2>2, CleanFilesStep
<1>6. CleanBatch => CleanBatch'
  BY <1>1, <1>2 DEF CleanBatch
<1>7. RefusedInv'
  BY <1>1 DEF RefusedInv, Discontinuous
<1> QED
  BY <1>1, <1>5, <1>6, <1>7, SameLinesConverge

(***************************************************************************)
(* An ascending batch of one stream without a gap is admitted to an empty  *)
(* index, whatever losses are accepted.                                    *)
(***************************************************************************)
LEMMA AscendingAdmitted ==
  ASSUME NEW events \in Seq(EventRecords), NEW lost,
         \A i, j \in DOMAIN events : i < j => events[i].seq < events[j].seq,
         GapFree(ToSet(events))
  PROVE  Continuous(events, Fresh, lost)
<1> DEFINE s == Seen(events, Fresh, lost)
           Wrong == {n \in 0 .. Len(events) : s[n].refused}
<1>1. /\ Len(events) \in Nat /\ DOMAIN events = 1 .. Len(events)
      /\ ToSet(events) = {events[i] : i \in 1 .. Len(events)}
      /\ \A i \in 1 .. Len(events) : events[i] \in EventRecords
  BY DEF ToSet
<1>2. /\ s[0] = Unread(Fresh)
      /\ \A m \in 1 .. Len(events) : s[m] = Admit(s[m-1], events[m], Fresh, lost)
  BY <1>1, SeenIterates
<1>3. Fresh \in Tables(EventRecords, Producers) /\ Fresh.rows = {} /\ Fresh.next = 1
      /\ Fresh.stream = NoStream
  BY DEF Fresh, Tables, Producers
<1>4. \A n \in 0 .. Len(events) :
        /\ s[n] \in SeenTypes(EventRecords, Producers)
        /\ Passed(s[n], events, n, Fresh, lost)
  BY <1>3, RecordsAreEvents, BatchPassed
<1> HIDE DEF s
<1>5. ASSUME NEW n \in 1 .. Len(events), ~ s[n-1].refused
      PROVE  ~ s[n].refused
  <2> DEFINE t == s[n-1]
             e == events[n]
             met == Met(events, n-1)
  <2>1. n - 1 \in 0 .. Len(events) /\ n \in Nat /\ n - 1 \in Nat
    BY <1>1
  <2>2. t.events = met /\ Filled(t, met \ Fresh.rows, Fresh, lost) /\ t.next \in Nat
    BY <1>4, <1>5, <2>1 DEF Passed, SeenTypes
  <2>3. met = {events[i] : i \in 1 .. (n - 1)}
    BY <1>1, <2>1, RecordsAreEvents DEF Met
  <2>4. /\ e \in EventRecords /\ e.seq \in Nat /\ e.seq >= 1 /\ e.stream # NoStream
        /\ e \in ToSet(events)
    BY <1>1, RecordsAreEvents
  <2>5. \A f \in met : f.seq < e.seq /\ f.stream = e.stream /\ f.seq \in Nat
    <3> SUFFICES ASSUME NEW i \in 1 .. (n - 1)
                 PROVE  /\ events[i].seq < e.seq /\ events[i].stream = e.stream
                        /\ events[i].seq \in Nat
      BY <2>3
    <3>1. i \in 1 .. Len(events) /\ i < n
      BY <1>1, <2>1
    <3>2. events[i] \in ToSet(events) /\ events[i].seq \in Nat
      BY <1>1, <3>1, RecordsAreEvents
    <3> QED
      BY <1>1, <2>4, <3>1, <3>2 DEF GapFree
  <2>6. \A f \in ToSet(events) : f.seq < e.seq => f \in met
    <3> SUFFICES ASSUME NEW j \in 1 .. Len(events), events[j].seq < e.seq
                 PROVE  events[j] \in met
      BY <1>1
    <3>1. ~ (n < j) /\ j # n
      <4>1. events[j].seq \in Nat
        BY <1>1, RecordsAreEvents
      <4> QED
        BY <1>1, <2>4, <4>1
    <3>2. j \in 1 .. (n - 1)
      BY <1>1, <2>1, <3>1
    <3> QED
      BY <2>3, <3>2
  <2> HIDE DEF t, e, met
  <2>7. met \ Fresh.rows = met
    BY <1>3
  <2>8. t.next = e.seq
    <3>1. t.next <= e.seq /\ t.next >= 1
      <4>1. CASE met = {}
        BY <1>3, <2>2, <2>4, <2>7, <4>1 DEF Filled
      <4>2. CASE met # {}
        <5>1. PICK f \in met : t.next = f.seq + 1
          BY <2>2, <2>7, <4>2 DEF Filled
        <5> QED
          BY <2>4, <2>5, <5>1
      <4> QED
        BY <4>1, <4>2
    <3>2. ASSUME t.next < e.seq
          PROVE  FALSE
      <4>1. t.next \in 1 .. e.seq
        BY <2>2, <2>4, <3>1, <3>2
      <4>2. PICK f \in ToSet(events) : f.seq = t.next
        BY <2>4, <4>1 DEF GapFree
      <4>3. f \in met
        BY <2>6, <3>2, <4>2
      <4>4. f.seq < t.next
        BY <2>2, <2>7, <4>3 DEF Filled
      <4> QED
        BY <2>2, <4>2, <4>4
    <3> QED
      BY <2>2, <2>4, <3>1, <3>2
  <2>9. t.stream \in {NoStream, e.stream}
    <3>1. CASE met = {}
      BY <1>3, <2>2, <2>7, <3>1 DEF Filled
    <3>2. CASE met # {}
      BY <2>2, <2>5, <2>7, <3>2 DEF Filled
    <3> QED
      BY <3>1, <3>2
  <2>10. Follows(t.next, e.seq, lost)
    BY <2>4, <2>8 DEF Follows
  <2>11. e \notin t.events
    BY <2>2, <2>4, <2>5
  <2>12. s[n] = Admit(t, e, Fresh, lost) /\ ~ t.refused
    BY <1>2, <1>5 DEF t, e
  <2>13. s[n] = [refused |-> FALSE, stream |-> e.stream, next |-> e.seq + 1,
                 events |-> t.events \cup {e}]
    BY <1>3, <2>4, <2>9, <2>10, <2>11, <2>12 DEF Admit
  <2> QED
    BY <2>13
<1>6. Wrong = {}
  <2> SUFFICES ASSUME Wrong # {}
               PROVE  FALSE
    OBVIOUS
  <2>1. Wrong \subseteq Nat
    BY <1>1
  <2>2. PICK m \in Wrong : \A k \in Wrong : m <= k
    BY <2>1, LeastNumber
  <2>3. m # 0 /\ m \in 1 .. Len(events)
    BY <1>1, <1>2, <2>2 DEF Unread
  <2>4. m - 1 \in 0 .. Len(events) /\ m - 1 < m
    BY <2>3, <1>1
  <2>5. ~ s[m-1].refused
    BY <2>1, <2>2, <2>3, <2>4
  <2> QED
    BY <1>5, <2>2, <2>3, <2>5
<1>7. Len(events) \in 0 .. Len(events)
  BY <1>1
<1> QED
  BY <1>6, <1>7 DEF Continuous, s

(* The invariant of what shards converge to. *)
LEMMA NextConverges == ConvergeInv /\ [Next]_vars => ConvergeInv'
<1> SUFFICES ASSUME ConvergeInv, [Next]_vars
             PROVE  ConvergeInv'
  OBVIOUS
<1>1. RebuildInv'
  BY NextRebuildInv DEF ConvergeInv
<1>2. ASSUME NEW p \in Procs,
             OpenIndex(p) \/ Reconcile(p) \/ ReconcileFails(p) \/ Commit(p) \/ Kill(p)
      PROVE  ConvergeInv'
  BY <1>1, <1>2, AddConverges
<1>3. ASSUME NEW p \in Procs, AppendEvent(p)
      PROVE  ConvergeInv'
  BY <1>1, <1>3, AppendConverges
<1>4. CASE Start \/ Coverage \/ Validated \/ Stops
  BY <1>1, <1>4, ReadingConverges
<1>5. CASE ReadShard
  BY <1>1, <1>5, ReadShardConverges
<1>6. CASE Move
  BY <1>1, <1>6, MoveConverges
<1>7. CASE Import \/ ImportRefused \/ KillImport
  BY <1>1, <1>7, ImportLeaves, ImportConverges
<1>8. ASSUME NEW d \in Days, LoseShard(d)
      PROVE  ConvergeInv'
  BY <1>1, <1>8, LoseShardConverges
<1>9. CASE UNCHANGED vars
  <2>1. UNCHANGED <<draft, shards, files, main, rebuild>>
    BY <1>9 DEF vars, adds, store
  <2>2. Lines' = Lines
    BY <2>1 DEF Lines
  <2>3. CleanFiles => CleanFiles'
    BY <2>1, <2>2 DEF CleanFiles, CleanTable, Numbered
  <2>4. RefusedInv' /\ (CleanBatch => CleanBatch')
    BY <2>1, <2>2, BatchStays DEF ConvergeInv
  <2> QED
    BY <1>1, <2>1, <2>3, <2>4, SameLinesConverge
<1> QED
  BY <1>2, <1>3, <1>4, <1>5, <1>6, <1>7, <1>8, <1>9 DEF Next, RebuildStep, Stops

(* At first there are no lines. *)
LEMMA InitConverges == Init => ConvergeInv
<1> SUFFICES ASSUME Init
             PROVE  ConvergeInv
  OBVIOUS
<1>1. RebuildInv
  BY InitRebuildInv
<1>2. Lines = {} /\ ToSet(batch) = {}
  BY DEF Init, Lines, ToSet
<1>3. OwnDays /\ RefusedInv
  BY DEF Init, OwnDays, RefusedInv, Discontinuous, ToSet
<1>4. CleanLines /\ CleanShards /\ CleanBatch
  BY <1>2 DEF Init, CleanLines, CleanShards, CleanBatch, InOrder
<1>5. CleanTable(NoTables)
  BY DEF CleanTable, Numbered, NoTables
<1>6. CleanFiles
  BY <1>5 DEF Init, CleanFiles
<1> QED
  BY <1>1, <1>3, <1>4, <1>6 DEF ConvergeInv

(***************************************************************************)
(* Shards that hold a gap-free history in the order of their days are not  *)
(* refused, though their lines come from writers that race, that go on     *)
(* with a renamed index and that are killed, unless a line is lost or an   *)
(* origin was given to two.                                                *)
(***************************************************************************)
THEOREM ShardsInOrderConverge == Spec => []OrderedShardsConverge
<1>1. ConvergeInv => OrderedShardsConverge
  <2> SUFFICES ASSUME ConvergeInv, Discontinuous, GapFree(ToSet(batch)),
                      ~ \E e, f \in ToSet(batch) : e.seq < f.seq /\ f.day < e.day,
                      ~ \E p \in Procs : draft[p] \notin Lines \cup {NoStream},
                      ~ \E e, f \in Lines : e.stream = f.stream /\ e.seq = f.seq /\ e # f
               PROVE  FALSE
    BY DEF OrderedShardsConverge
  <2>1. InOrder(batch) /\ batch \in Seq(EventRecords)
    BY DEF ConvergeInv, Clean, Whole, OnceEach, CleanBatch, RebuildInv, Types, RebuildTypes
  <2>2. \A i, j \in DOMAIN batch : i < j => batch[i].seq < batch[j].seq
    <3> SUFFICES ASSUME NEW i \in DOMAIN batch, NEW j \in DOMAIN batch, i < j
                 PROVE  batch[i].seq < batch[j].seq
      OBVIOUS
    <3>1. /\ batch[i] \in ToSet(batch) /\ batch[j] \in ToSet(batch)
          /\ batch[i] \in EventRecords /\ batch[j] \in EventRecords
      BY <2>1 DEF ToSet
    <3>2. /\ batch[i].seq \in Nat /\ batch[j].seq \in Nat
          /\ batch[i].day \in Nat /\ batch[j].day \in Nat
      BY <3>1, RecordsAreEvents, DaysAssumption
    <3>3. batch[i].stream = batch[j].stream
      BY <3>1 DEF GapFree
    <3>4. Earlier(batch[i], batch[j])
      BY <2>1 DEF InOrder
    <3>5. CASE batch[i].day < batch[j].day
      <4>1. ~ (batch[j].seq < batch[i].seq)
        BY <3>1, <3>5
      <4>2. batch[i].seq # batch[j].seq
        BY <3>1, <3>2, <3>5 DEF GapFree
      <4> QED
        BY <3>2, <4>1, <4>2
    <3>6. CASE ~ (batch[i].day < batch[j].day)
      BY <3>3, <3>4, <3>6 DEF Earlier
    <3> QED
      BY <3>5, <3>6
  <2>3. Continuous(batch, Fresh, Accepted)
    BY <2>1, <2>2, AscendingAdmitted
  <2>4. Verdict(batch, Fresh, Accepted) # "origin_discontinuity"
    BY <2>3 DEF Verdict
  <2> QED
    BY <2>4 DEF ConvergeInv, RefusedInv
<1>2. Spec => []ConvergeInv
  BY InitConverges, NextConverges, PTL DEF Spec
<1> QED
  BY <1>1, <1>2, PTL

-----------------------------------------------------------------------------
(***************************************************************************)
(* One process after another.  An add then works on the file at the path,  *)
(* and nothing changes between a rebuild's comparison and its import; so   *)
(* what was ever appended is a row there, is in the batch that makes the   *)
(* new index, or was given up on request, and every sequence below one     *)
(* that was appended was appended too or given up.                         *)
(***************************************************************************)
Drafts == {draft[p] : p \in Procs} \ {NoStream}

OneAtMost ==
  /\ \A p, q \in Open : p = q
  /\ phase # "idle" => Open = {}

(* An add has the file at the path open, and a file that none has open is its main file. *)
Settled ==
  /\ \A p \in Open : handle[p] = path
  /\ Open = {} /\ path # NoFile => main[path] = files[path]

(* What the batch lacks of the index was found, and is moved away on request only. *)
Compared ==
  /\ phase \in {"covered", "checked"} /\ path # NoFile =>
       only = {r \in main[path].rows : \A e \in ToSet(batch) : e.id # r.id}
  /\ phase = "checked" /\ only # {} => opts.allow
  /\ phase = "moved" => path = NoFile /\ \A e \in Drafts : e \in ToSet(batch) \/ e.seq \in waived
  /\ NothingDropped

(* Every event is a row of the index or about to be one. *)
Indexed ==
  /\ path # NoFile =>
       \A p \in Procs : \/ draft[p] \in files[path].rows \cup {NoStream}
                        \/ draft[p].seq \in waived
                        \/ pc[p] = "commit"
  /\ path = NoFile /\ phase # "moved" => Drafts = {}

DraftsFill ==
  \A e \in Drafts : \A n \in 1 .. (e.seq - 1) : n \in waived \/ \E d \in Drafts : d.seq = n

(* OriginsKept, of the index and of the events. *)
RowsKept ==
  path # NoFile =>
    \A n \in 1 .. (files[path].next - 1) :
      n \in waived \/ \E r \in files[path].rows : r.seq = n

DraftsApart ==
  \A e, f \in Drafts : e.stream = f.stream /\ e.seq = f.seq => e = f \/ e.seq \in waived

Quiet == OneAtMost /\ Settled /\ Compared /\ Indexed /\ DraftsFill /\ RowsKept /\ DraftsApart

(* Only a commit has a lock, and a rebuild replaces an index by a batch that stands alone. *)
LockedByCommit ==
  \A f \in FileIds : lock[f] # NoStream => pc[lock[f]] = "commit" /\ handle[lock[f]] = f

Replacing ==
  /\ phase \in {"checked", "moved"} /\ opts.replace => Verdict(batch, Fresh, Accepted) = "valid"
  /\ phase = "moved" => opts.replace

QuietInv ==
  /\ RebuildInv /\ LockedByCommit /\ Replacing /\ IsFiniteSet(Open)
  /\ quiet => Quiet

(* At most one runs after the step. *)
LEMMA OneRuns ==
  ASSUME IsFiniteSet(Open'), Running' <= 1
  PROVE  OneAtMost'
<1>1. Cardinality(Open') \in Nat
  BY FS_CardinalityType
<1>2. ASSUME NEW p \in Open', NEW q \in Open', p # q
      PROVE  FALSE
  <2>1. IsFiniteSet({p}) /\ Cardinality({p}) = 1
    BY FS_Singleton
  <2>2. Cardinality({p} \cup {q}) = 2
    <3>1. q \notin {p}
      BY <1>2
    <3>2. Cardinality({p} \cup {q}) = IF q \in {p} THEN 1 ELSE 1 + 1
      BY <2>1, FS_AddElement
    <3> QED
      BY <3>1, <3>2
  <2>3. Cardinality({p} \cup {q}) <= Cardinality(Open')
    <3>1. {p} \cup {q} \subseteq Open'
      BY <1>2
    <3> QED
      BY <3>1, FS_Subset
  <2> QED
    BY <1>1, <2>2, <2>3 DEF Running
<1>3. phase' # "idle" => Open' = {}
  <2> SUFFICES ASSUME phase' # "idle"
               PROVE  Open' = {}
    OBVIOUS
  <2>1. Cardinality(Open') = 0
    BY <1>1 DEF Running
  <2> QED
    BY <2>1, FS_EmptySet
<1> QED
  BY <1>2, <1>3 DEF OneAtMost

(* The open adds stay finitely many, and only a commit has a lock. *)
LEMMA LocksStep ==
  ASSUME RebuildInv, LockedByCommit, IsFiniteSet(Open), [Next]_vars
  PROVE  LockedByCommit' /\ IsFiniteSet(Open')
<1> USE DEF RebuildInv, Types, AddTypes, StoreTypes
<1>1. /\ pc \in [Procs -> {"idle", "open", "between", "commit", "added", "failed", "dead"}]
      /\ lock \in [FileIds -> Procs \cup {NoStream}]
      /\ handle \in [Procs -> FileIds \cup {NoFile}]
  BY DEF Producers
<1> HIDE DEF RebuildInv, Types, AddTypes, StoreTypes
<1>2. ASSUME NEW p \in Procs, NEW l \in {"open", "between", "failed"}, Goto(p, l), lock' = lock,
             pc[p] # "commit", \A q \in Procs \ {p} : handle'[q] = handle[q]
      PROVE  LockedByCommit' /\ IsFiniteSet(Open')
  <2>1. Open' \subseteq Open \cup {p}
    BY <1>2, LabelStep
  <2>2. ASSUME NEW f \in FileIds, lock[f] # NoStream
        PROVE  pc'[lock[f]] = "commit" /\ handle'[lock[f]] = f
    <3>1. pc[lock[f]] = "commit" /\ handle[lock[f]] = f /\ lock[f] \in Procs
      BY <1>1, <2>2 DEF LockedByCommit
    <3> QED
      BY <1>2, <3>1, LabelStep
  <2> QED
    BY <1>2, <2>1, <2>2, FS_AddElement, FS_Subset DEF LockedByCommit
<1>3. ASSUME NEW p \in Procs, AppendEvent(p)
      PROVE  LockedByCommit' /\ IsFiniteSet(Open')
  <2>1. /\ pc[p] = "between" /\ handle' = handle /\ Goto(p, "commit")
        /\ lock' = [lock EXCEPT ![handle[p]] = p]
    BY <1>3 DEF AppendEvent
  <2>2. Open' \subseteq Open \cup {p} /\ pc'[p] = "commit" /\ \A q \in Procs \ {p} : pc'[q] = pc[q]
    BY <2>1, LabelStep
  <2>3. ASSUME NEW f \in FileIds, lock'[f] # NoStream
        PROVE  pc'[lock'[f]] = "commit" /\ handle'[lock'[f]] = f
    <3>1. CASE f = handle[p]
      BY <1>1, <2>1, <2>2, <3>1
    <3>2. CASE f # handle[p]
      BY <1>1, <2>1, <2>2, <2>3, <3>2 DEF LockedByCommit
    <3> QED
      BY <3>1, <3>2
  <2> QED
    BY <2>2, <2>3, FS_AddElement, FS_Subset DEF LockedByCommit
<1>4. ASSUME NEW p \in Procs, Commit(p) \/ Kill(p)
      PROVE  LockedByCommit' /\ IsFiniteSet(Open')
  <2>1. PICK l \in {"added", "dead"} : Goto(p, l)
    BY <1>4 DEF Commit, Kill
  <2>2. Open' \subseteq Open /\ \A q \in Procs \ {p} : pc'[q] = pc[q]
    BY <2>1, LabelStep
  <2>3. ASSUME NEW f \in FileIds, lock'[f] # NoStream
        PROVE  lock[f] = lock'[f] /\ lock[f] \in Procs \ {p}
    <3>1. CASE Commit(p)
      <4>1. lock' = [lock EXCEPT ![handle[p]] = NoStream]
        BY <3>1 DEF Commit
      <4>2. f # handle[p] /\ lock'[f] = lock[f]
        BY <1>1, <2>3, <4>1
      <4> QED
        BY <1>1, <2>3, <4>2 DEF LockedByCommit
    <3>2. CASE Kill(p)
      BY <1>1, <2>3, <3>2 DEF Kill
    <3> QED
      BY <1>4, <3>1, <3>2
  <2>4. handle' = handle
    BY <1>4 DEF Commit, Kill
  <2> QED
    BY <2>2, <2>3, <2>4, FS_Subset DEF LockedByCommit
<1>5. CASE UNCHANGED <<adds, lock>>
  BY <1>5 DEF adds, LockedByCommit, Open
<1>6. ASSUME NEW p \in Procs, OpenIndex(p) \/ Reconcile(p) \/ ReconcileFails(p)
      PROVE  LockedByCommit' /\ IsFiniteSet(Open')
  <2>1. \E l \in {"open", "between", "failed"} : Goto(p, l)
    BY <1>6 DEF OpenIndex, Reconcile, ReconcileFails
  <2>2. lock' = lock /\ pc[p] # "commit" /\ \A q \in Procs \ {p} : handle'[q] = handle[q]
    BY <1>1, <1>6 DEF OpenIndex, Reconcile, ReconcileFails
  <2> QED
    BY <1>2, <2>1, <2>2
<1>7. CASE RebuildStep \/ (\E d \in Days : LoseShard(d)) \/ UNCHANGED vars
  <2>1. UNCHANGED <<adds, lock>>
    BY <1>7 DEF RebuildStep, LoseShard, vars, store, Start, ReadShard, ShardMissing, Coverage,
      Unreadable, Refuse, RefuseIndexOnly, DryRun, Validated, Move, Import, ImportRefused,
      ImportBusy, KillRebuild, KillImport, EndWith, Stop
  <2> QED
    BY <1>5, <2>1
<1> QED
  BY <1>3, <1>4, <1>6, <1>7 DEF Next

(* What is moved away is replaced by a batch that was found to stand alone. *)
LEMMA ReplacingStep ==
  ASSUME Replacing, [Next]_vars
  PROVE  Replacing'
<1>1. CASE UNCHANGED rebuild
  BY <1>1 DEF rebuild, Replacing, Accepted
<1>2. CASE phase' \in {"idle", "reading", "covered"}
  BY <1>2 DEF Replacing
<1>3. CASE Validated
  <2>1. /\ phase' = "checked" /\ Verdict(batch, Destination, Accepted) = "valid"
        /\ UNCHANGED <<opts, batch, only>>
    BY <1>3 DEF Validated
  <2> QED
    BY <2>1 DEF Replacing, Destination, Accepted
<1>4. CASE Move
  <2>1. phase = "checked" /\ opts.replace /\ UNCHANGED <<opts, batch, only>>
    BY <1>4 DEF Move
  <2> QED
    BY <2>1 DEF Replacing, Accepted
<1>5. CASE Start \/ ReadShard \/ Coverage \/ Stops \/ Import \/ ImportRefused \/ KillImport
  <2>1. phase' \in {"idle", "reading", "covered"}
    BY <1>5, StopsStop DEF Start, ReadShard, Coverage, Stop, Import, ImportRefused, KillImport,
      EndWith
  <2> QED
    BY <1>2, <2>1
<1>6. ASSUME NEW p \in Procs, \/ OpenIndex(p) \/ Reconcile(p) \/ ReconcileFails(p)
                              \/ AppendEvent(p) \/ Commit(p) \/ Kill(p)
      PROVE  Replacing'
  <2>1. UNCHANGED rebuild
    BY <1>6 DEF OpenIndex, Reconcile, ReconcileFails, AppendEvent, Commit, Kill
  <2> QED
    BY <1>1, <2>1
<1>7. CASE (\E d \in Days : LoseShard(d)) \/ UNCHANGED vars
  <2>1. UNCHANGED rebuild
    BY <1>7 DEF LoseShard, vars
  <2> QED
    BY <1>1, <2>1
<1> QED
  BY <1>3, <1>4, <1>5, <1>6, <1>7 DEF Next, RebuildStep, Stops

(* All events that are anywhere are drafts. *)
LEMMA AllDrafts ==
  ASSUME RebuildInv
  PROVE  /\ Lines \subseteq Drafts
         /\ \A f \in FileIds : files[f].rows \subseteq Drafts
         /\ ToSet(batch) \subseteq Drafts
         /\ Drafts \subseteq EventRecords
         /\ \A e \in Drafts : e.seq \in Nat /\ e.seq >= 1
<1>1. \A e \in EventRecords : e # NoStream
  BY NoStreamAssumption
<1>2. /\ Lines \subseteq EventRecords /\ ToSet(batch) \subseteq EventRecords
      /\ \A f \in FileIds : files[f].rows \subseteq EventRecords
      /\ \A p \in Procs : draft[p] \in EventRecords \cup {NoStream}
  <2>1. Lines \subseteq EventRecords
    BY DEF RebuildInv, Types, StoreTypes, Lines, ToSet
  <2>2. ToSet(batch) \subseteq EventRecords
    BY DEF RebuildInv, Types, RebuildTypes, ToSet
  <2>3. \A f \in FileIds : files[f].rows \subseteq EventRecords
    BY DEF RebuildInv, Types, StoreTypes, Tables
  <2>4. \A p \in Procs : draft[p] \in EventRecords \cup {NoStream}
    BY DEF RebuildInv, Types, AddTypes
  <2> QED
    BY <2>1, <2>2, <2>3, <2>4
<1>3. ASSUME NEW events \in SUBSET EventRecords, Known(events)
      PROVE  events \subseteq Drafts
  BY <1>1, <1>3 DEF Known, Drafts
<1>4. /\ Lines \subseteq Drafts /\ ToSet(batch) \subseteq Drafts
      /\ \A f \in FileIds : files[f].rows \subseteq Drafts
  BY <1>2, <1>3 DEF RebuildInv, Identified
<1>5. Drafts \subseteq EventRecords
  BY <1>2 DEF Drafts
<1> QED
  BY <1>4, <1>5, RecordsAreEvents

(* The one add that runs. *)
LEMMA OnePath ==
  ASSUME RebuildInv, Quiet, NEW p \in Open
  PROVE  /\ p \in Procs /\ Open = {p} /\ phase = "idle"
         /\ handle[p] = path /\ path \in FileIds /\ path # NoFile
  <1>1. handle[p] \in FileIds /\ p \in Procs
    BY OpenFacts
  <1>2. \A f \in FileIds : f # NoFile
    BY DEF FileIds, NoFile
  <1> QED
    BY <1>1, <1>2 DEF Quiet, OneAtMost, Settled

(* The events stay, and no sequence that was given up is taken back. *)
LEMMA DraftsStay ==
  ASSUME Quiet, draft' = draft, waived \subseteq waived'
  PROVE  Drafts' = Drafts /\ DraftsFill' /\ DraftsApart'
<1>1. Drafts' = Drafts
  BY DEF Drafts
<1> QED
  BY <1>1 DEF Quiet, DraftsFill, DraftsApart

(* The rebuild does not run. *)
LEMMA IdleCompared ==
  ASSUME Quiet, phase = "idle", UNCHANGED <<rebuild, history>>
  PROVE  Compared'
BY DEF Quiet, Compared, NothingDropped, rebuild, history

(* An add opens the index, or makes it. *)
LEMMA OpenIndexQuiet ==
  ASSUME RebuildInv, Quiet, OneAtMost', NEW p \in Procs, OpenIndex(p)
  PROVE  Quiet'
<1>1. /\ pc[p] = "idle" /\ Goto(p, "open")
      /\ handle' = [handle EXCEPT ![p] = AtPath] /\ Connected(AtPath)
      /\ UNCHANGED <<draft, main, lock, shards, rebuild, history>>
  BY DEF OpenIndex
<1>2. /\ pc'[p] = "open" /\ \A q \in Procs \ {p} : pc'[q] = pc[q]
      /\ Open' = Open \cup {p}
  BY <1>1, LabelStep
<1>3. phase = "idle" /\ Open' = {p} /\ phase' = phase /\ waived' = waived
  BY <1>1, <1>2 DEF OneAtMost, rebuild, history
<1>4. Settled'
  <2>1. handle'[p] = AtPath /\ path' = AtPath
    BY <1>1 DEF Connected, RebuildInv, Types, AddTypes
  <2> QED
    BY <1>3, <2>1 DEF Settled
<1>5. Drafts' = Drafts /\ DraftsFill' /\ DraftsApart'
  BY <1>1, <1>3, DraftsStay
<1>6. CASE path # NoFile
  <2>1. path' = path /\ files' = files
    BY <1>1, <1>6, PathFile DEF Connected
  <2>2. Indexed' /\ RowsKept'
    BY <1>1, <1>2, <1>3, <1>6, <2>1 DEF Quiet, Indexed, RowsKept
  <2> QED
    BY <1>1, <1>3, <1>4, <1>5, <2>2, IdleCompared DEF Quiet
<1>7. CASE path = NoFile
  <2>1. /\ path' = AtPath /\ files'[AtPath] = Fresh /\ AtPath # NoFile
    <3>1. AtPath \in FileIds /\ AtPath # NoFile
      BY PathFile DEF FileIds, NoFile
    <3>2. files \in [FileIds -> Tables(EventRecords, Producers)]
      BY DEF RebuildInv, Types, StoreTypes
    <3> QED
      BY <1>1, <1>7, <3>1, <3>2 DEF Connected
  <2>2. \A q \in Procs : draft'[q] = NoStream
    BY <1>1, <1>3, <1>7 DEF Quiet, Indexed, Drafts
  <2>3. Indexed'
    BY <2>1, <2>2 DEF Indexed
  <2>4. RowsKept'
    BY <2>1 DEF RowsKept, Fresh
  <2> QED
    BY <1>1, <1>3, <1>4, <1>5, <2>3, <2>4, IdleCompared DEF Quiet
<1> QED
  BY <1>6, <1>7

(***************************************************************************)
(* An add's step that leaves the events as they are, and its file with no  *)
(* fewer rows and a cursor to which they are numbered.                     *)
(***************************************************************************)
LEMMA FileQuiet ==
  ASSUME RebuildInv, Quiet, OneAtMost', NEW p \in Open,
         NEW l \in {"between", "added", "failed"}, Goto(p, l),
         UNCHANGED <<handle, draft, path, rebuild, history>>,
         files[path].rows \subseteq files'[path].rows,
         pc[p] = "commit" => draft[p] \in files'[path].rows,
         l # "between" => main'[path] = files'[path],
         \A n \in 1 .. (files'[path].next - 1) :
           n \in waived \/ \E r \in files'[path].rows : r.seq = n
  PROVE  Quiet'
<1>1. /\ p \in Procs /\ Open = {p} /\ phase = "idle"
      /\ handle[p] = path /\ path \in FileIds /\ path # NoFile
  BY OnePath
<1>2. /\ pc'[p] = l /\ \A q \in Procs \ {p} : pc'[q] = pc[q]
      /\ Open' = IF l = "between" THEN {p} ELSE {}
  BY <1>1, LabelStep
<1>3. Settled'
  BY <1>1, <1>2 DEF Settled
<1>4. waived' = waived
  BY DEF history
<1>5. Indexed'
  <2> SUFFICES ASSUME NEW q \in Procs
               PROVE  \/ draft[q] \in files'[path].rows \cup {NoStream}
                      \/ draft[q].seq \in waived
                      \/ pc'[q] = "commit"
    BY <1>1, <1>4 DEF Indexed
  <2>1. \/ draft[q] \in files[path].rows \cup {NoStream}
        \/ draft[q].seq \in waived
        \/ pc[q] = "commit"
    BY <1>1 DEF Quiet, Indexed
  <2> QED
    BY <1>2, <2>1
<1>6. RowsKept'
  BY <1>4 DEF RowsKept
<1> QED
  BY <1>1, <1>3, <1>4, <1>5, <1>6, DraftsStay, IdleCompared DEF Quiet

(* Without other adds, the file that is closed is its main file. *)
LEMMA MergedAlone ==
  ASSUME RebuildInv, Quiet, NEW p \in Open, NEW t, main' = Merged(p, t)
  PROVE  main'[path] = t
<1>1. Open = {p} /\ handle[p] = path /\ path \in FileIds
  BY OnePath
<1>2. main \in [FileIds -> Tables(EventRecords, Producers)]
  BY DEF RebuildInv, Types, StoreTypes
<1> QED
  BY <1>1, <1>2 DEF Merged

(* The lines that become rows are events, so all below them are events, and rows, too. *)
LEMMA ReconcileQuiet ==
  ASSUME RebuildInv, Quiet, OneAtMost', NEW p \in Procs, Reconcile(p)
  PROVE  Quiet'
<1> DEFINE table == files[path]
           joined == Join(table, Lines)
<1>1. /\ pc[p] = "open" /\ p \in Open /\ Reconcilable(files[handle[p]]) /\ Goto(p, "between")
      /\ files' = [files EXCEPT ![handle[p]] = Join(files[handle[p]], Lines)]
      /\ UNCHANGED <<handle, draft, path, rebuild, history>>
  BY DEF Reconcile, Open, Join
<1>2. handle[p] = path /\ path \in FileIds /\ path # NoFile /\ Open = {p}
  BY <1>1, OnePath
<1>3. files'[path] = joined
  BY <1>1, <1>2 DEF RebuildInv, Types, StoreTypes
<1>4. table = files[handle[p]] /\ Reconcilable(table)
  BY <1>1, <1>2
<1>5. table \in Tables(EventRecords, Producers)
  BY <1>2 DEF RebuildInv, Types, StoreTypes
<1> HIDE DEF table, joined
<1>6. joined = Join(table, Lines)
  BY DEF joined, table
<1>7. /\ joined.rows = table.rows \cup Lines
      /\ joined.next = table.next \/ \E e \in Lines : joined.next = e.seq + 1
  BY <1>1, <1>4, <1>6, LinesJoin
<1>8. ASSUME NEW n \in 1 .. (joined.next - 1)
      PROVE  n \in waived \/ \E r \in joined.rows : r.seq = n
  <2>1. CASE joined.next = table.next
    BY <1>2, <1>7, <1>8, <2>1 DEF Quiet, RowsKept, table
  <2>2. ASSUME NEW e \in Lines, joined.next = e.seq + 1, e.seq # n, n \notin waived
        PROVE  \E r \in joined.rows : r.seq = n
    <3>1. e \in Drafts /\ e.seq \in Nat
      BY AllDrafts
    <3>2. n \in 1 .. (e.seq - 1)
      BY <1>8, <2>2, <3>1
    <3>3. PICK d \in Drafts : d.seq = n
      BY <2>2, <3>1, <3>2 DEF Quiet, DraftsFill
    <3>4. PICK q \in Procs : d = draft[q] /\ d # NoStream
      BY <3>3 DEF Drafts
    <3>5. pc[q] # "commit"
      BY <1>1, <1>2, <3>4 DEF Open
    <3>6. d \in table.rows
      BY <1>2, <2>2, <3>3, <3>4, <3>5 DEF Quiet, Indexed, table
    <3> QED
      BY <1>7, <3>3, <3>6
  <2> QED
    BY <1>7, <2>1, <2>2
<1>9. files[path].rows \subseteq files'[path].rows
  BY <1>3, <1>7 DEF table
<1> QED
  BY <1>1, <1>3, <1>8, <1>9, FileQuiet

(* Nothing happens but that the file is closed. *)
LEMMA ReconcileFailsQuiet ==
  ASSUME RebuildInv, Quiet, OneAtMost', NEW p \in Procs, ReconcileFails(p)
  PROVE  Quiet'
<1>1. /\ pc[p] = "open" /\ p \in Open /\ Goto(p, "failed")
      /\ main' = Merged(p, files[handle[p]]) /\ files' = files
      /\ UNCHANGED <<handle, draft, path, rebuild, history>>
  BY DEF ReconcileFails, Open
<1>2. handle[p] = path /\ path \in FileIds /\ path # NoFile
  BY <1>1, OnePath
<1>3. main'[path] = files'[path]
  BY <1>1, <1>2, MergedAlone
<1>4. \A n \in 1 .. (files'[path].next - 1) :
           n \in waived \/ \E r \in files'[path].rows : r.seq = n
  BY <1>1, <1>2 DEF Quiet, RowsKept
<1> QED
  BY <1>1, <1>3, <1>4, FileQuiet

(* The draft becomes the row at the cursor. *)
LEMMA CommitQuiet ==
  ASSUME RebuildInv, Quiet, OneAtMost', NEW p \in Procs, Commit(p)
  PROVE  Quiet'
<1> DEFINE table == files[path]
           joined == Join(files[handle[p]], {draft[p]})
<1>1. /\ pc[p] = "commit" /\ p \in Open /\ Goto(p, "added")
      /\ files' = [files EXCEPT ![handle[p]] = joined]
      /\ main' = Merged(p, joined)
      /\ UNCHANGED <<handle, draft, path, rebuild, history>>
  BY DEF Commit, Open, Join
<1>2. handle[p] = path /\ path \in FileIds /\ path # NoFile
  BY <1>1, OnePath
<1>3. /\ joined.rows = table.rows \cup {draft[p]} /\ joined.next = draft[p].seq + 1
  BY <1>1, <1>2, DraftJoins
<1>4. draft[p].seq = table.next /\ table.next \in Nat
  BY <1>1, <1>2 DEF RebuildInv, Locked, Types, StoreTypes, Tables
<1>5. files'[path] = joined
  BY <1>1, <1>2 DEF RebuildInv, Types, StoreTypes
<1>6. main'[path] = joined
  BY <1>1, MergedAlone
<1>7. ASSUME NEW n \in 1 .. (joined.next - 1)
      PROVE  n \in waived \/ \E r \in joined.rows : r.seq = n
  <2>1. CASE n = table.next
    BY <1>3, <1>4, <2>1
  <2>2. CASE n # table.next
    <3>1. n \in 1 .. (table.next - 1)
      BY <1>3, <1>4, <1>7, <2>2
    <3> QED
      BY <1>2, <1>3, <3>1 DEF Quiet, RowsKept
  <2> QED
    BY <2>1, <2>2
<1> HIDE DEF joined
<1>8. /\ files[path].rows \subseteq files'[path].rows /\ draft[p] \in files'[path].rows
      /\ main'[path] = files'[path]
  BY <1>3, <1>5, <1>6
<1> QED
  BY <1>1, <1>5, <1>7, <1>8, FileQuiet

(* The event at the cursor: below it are rows, and at it nothing that was not given up. *)
LEMMA AppendEventQuiet ==
  ASSUME RebuildInv, Quiet, OneAtMost', NEW p \in Procs, AppendEvent(p)
  PROVE  Quiet'
<1> DEFINE table == files[path]
           event == [id |-> p, day |-> day[p], seq |-> table.next,
                     stream |-> IF table.stream = NoStream THEN p ELSE table.stream]
<1>1. pc[p] = "between" /\ p \in Open /\ Goto(p, "commit")
  BY DEF AppendEvent, Open
<1>2. /\ p \in Procs /\ Open = {p} /\ phase = "idle"
      /\ handle[p] = path /\ path \in FileIds /\ path # NoFile
  BY <1>1, OnePath
<1>3. /\ draft' = [draft EXCEPT ![p] = event]
      /\ UNCHANGED <<handle, path, files, main, rebuild, history>>
  BY <1>2 DEF AppendEvent
<1>4. /\ table \in Tables(EventRecords, Producers) /\ Consistent(table) /\ table.next >= 1
      /\ day[p] \in Days
  BY <1>1, <1>2, OpenFacts
<1>5. event \in EventRecords /\ event # NoStream
  <2>1. table.next \in Nat /\ table.stream \in Producers
    BY <1>4 DEF Tables
  <2> QED
    BY <1>4, <2>1, NoStreamAssumption DEF EventRecords, Producers
<1>6. event.seq = table.next
  OBVIOUS
<1> HIDE DEF event, table
<1>7. /\ draft'[p] = event /\ \A q \in Procs \ {p} : draft'[q] = draft[q]
      /\ draft[p] = NoStream
  BY <1>1, <1>3 DEF RebuildInv, Types, AddTypes, Opened
<1>8. Drafts' = Drafts \cup {event}
  BY <1>5, <1>7 DEF Drafts
<1>9. waived' = waived /\ phase' = phase
  BY <1>3 DEF history, rebuild
<1>10. /\ pc'[p] = "commit" /\ \A q \in Procs \ {p} : pc'[q] = pc[q]
       /\ Open' = {p}
  BY <1>1, <1>2, LabelStep
<1>11. Settled' /\ RowsKept'
  BY <1>2, <1>3, <1>9, <1>10 DEF Quiet, Settled, RowsKept
<1>12. Indexed'
  <2> SUFFICES ASSUME NEW q \in Procs
               PROVE  \/ draft'[q] \in files[path].rows \cup {NoStream}
                      \/ draft'[q].seq \in waived
                      \/ pc'[q] = "commit"
    BY <1>2, <1>3, <1>9 DEF Indexed
  <2>1. CASE q = p
    BY <1>10, <2>1
  <2>2. CASE q # p
    BY <1>2, <1>7, <1>10, <2>2 DEF Quiet, Indexed
  <2> QED
    BY <2>1, <2>2
<1>13. ASSUME NEW n \in 1 .. (event.seq - 1), n \notin waived
       PROVE  \E d \in Drafts : d.seq = n
  <2>1. \E r \in table.rows : r.seq = n
    BY <1>2, <1>6, <1>13 DEF Quiet, RowsKept, table
  <2> QED
    BY <1>2, <2>1, AllDrafts DEF table
<1>14. DraftsFill'
  BY <1>8, <1>9, <1>13 DEF Quiet, DraftsFill
<1>15. ASSUME NEW f \in Drafts, f.seq = event.seq
       PROVE  f.seq \in waived
  <2>1. PICK q \in Procs : f = draft[q] /\ f # NoStream
    BY DEF Drafts
  <2>2. pc[q] # "commit"
    BY <1>1, <1>2, <2>1 DEF Open
  <2>3. f \notin table.rows
    <3>1. ASSUME f \in table.rows
          PROVE  FALSE
      <4>1. f.seq < table.next /\ table.next \in Nat
        BY <1>4, <3>1 DEF Consistent, Tables
      <4> QED
        BY <1>6, <1>15, <4>1
    <3> QED
      BY <3>1
  <2> QED
    BY <1>2, <2>1, <2>2, <2>3 DEF Quiet, Indexed, table
<1>16. DraftsApart'
  BY <1>8, <1>9, <1>15 DEF Quiet, DraftsApart
<1>17. Compared'
  BY <1>2, <1>3, IdleCompared
<1> QED
  BY <1>11, <1>12, <1>14, <1>16, <1>17 DEF Quiet

(***************************************************************************)
(* A step of the rebuild that leaves the files, and what was given up      *)
(* before, as they are.                                                    *)
(***************************************************************************)
LEMMA ReadingQuiet ==
  ASSUME Quiet, OneAtMost', UNCHANGED <<adds, store, waived>>, Compared',
         phase = "moved" => phase' = "moved"
  PROVE  Quiet'
<1>1. UNCHANGED <<pc, handle, draft, files, main, path, Open>>
  BY DEF adds, store, Open
<1>2. Settled'
  BY <1>1 DEF Quiet, Settled
<1>3. Indexed' /\ RowsKept'
  <2>1. Drafts' = Drafts
    BY <1>1 DEF Drafts
  <2> QED
    BY <1>1, <2>1 DEF Quiet, Indexed, RowsKept
<1> QED
  BY <1>1, <1>2, <1>3, DraftsStay DEF Quiet

(* No file is locked while the rebuild is alone. *)
LEMMA Unlocked ==
  ASSUME RebuildInv, LockedByCommit, Open = {}
  PROVE  lock[AtPath] = NoStream
<1>1. AtPath \in FileIds
  BY PathFile
<1>2. lock[AtPath] \in Procs \cup {NoStream}
  BY <1>1 DEF RebuildInv, Types, StoreTypes, Producers
<1> QED
  BY <1>1, <1>2 DEF LockedByCommit, Open

(* It does not stop between the renaming and the import. *)
LEMMA StopQuiet ==
  ASSUME RebuildInv, LockedByCommit, Replacing, Quiet, OneAtMost', Stops, result' # "killed"
  PROVE  Quiet'
<1>1. PICK outcome : Stop(outcome)
  BY StopsStop
<1>2. phase # "moved"
  <2>1. ~ KillRebuild
    BY DEF KillRebuild, Stop
  <2>2. ASSUME ImportBusy, phase = "moved"
        PROVE  FALSE
    <3>1. lock[AtPath] = NoStream
      BY <2>2, Unlocked DEF Quiet, OneAtMost
    <3> QED
      BY <2>2, <3>1 DEF ImportBusy
  <2>3. ASSUME Stops, ~ KillRebuild, ~ ImportBusy
        PROVE  phase \in {"reading", "covered"}
    BY <2>3 DEF Stops, ShardMissing, Unreadable, Refuse, RefuseIndexOnly, DryRun
  <2> QED
    BY <2>1, <2>2, <2>3
<1>3. Compared'
  BY <1>1 DEF Stop, Quiet, Compared, NothingDropped, history
<1>4. UNCHANGED <<adds, store, waived>>
  BY <1>1 DEF Stop, history
<1> QED
  BY <1>2, <1>3, <1>4, ReadingQuiet

(* Up to the decision it reads and compares. *)
LEMMA PreflightQuiet ==
  ASSUME Quiet, OneAtMost', Start \/ ReadShard \/ Coverage \/ Validated
  PROVE  Quiet'
<1>1. UNCHANGED <<adds, store, gone, waived>> /\ phase # "moved"
  BY DEF Start, ReadShard, Coverage, Validated, history
<1>2. UNCHANGED <<main, path>>
  BY <1>1 DEF store
<1>3. NothingDropped'
  BY <1>1 DEF Quiet, Compared, NothingDropped
<1>4. CASE Start \/ ReadShard
  <2>1. phase' = "reading"
    BY <1>4 DEF Start, ReadShard
  <2> QED
    BY <1>1, <1>3, <2>1, ReadingQuiet DEF Compared
<1>5. CASE Coverage
  <2>1. /\ phase' = "covered" /\ batch' = batch
        /\ path # NoFile => only' = {r \in main[path].rows : \A e \in ToSet(batch) : e.id # r.id}
    BY <1>5 DEF Coverage
  <2>2. Compared'
    BY <1>2, <1>3, <2>1 DEF Compared
  <2> QED
    BY <1>1, <2>2, ReadingQuiet
<1>6. CASE Validated
  <2>1. /\ phase = "covered" /\ phase' = "checked" /\ UNCHANGED <<opts, batch, only>>
        /\ only # {} => opts.allow
    BY <1>6 DEF Validated
  <2>2. Compared'
    BY <1>2, <1>3, <2>1 DEF Quiet, Compared
  <2> QED
    BY <1>1, <2>2, ReadingQuiet
<1> QED
  BY <1>4, <1>5, <1>6

(* What the index has and the batch has not, the comparison has found. *)
LEMMA MoveQuiet ==
  ASSUME RebuildInv, Quiet, Move
  PROVE  Quiet'
<1>1. /\ phase = "checked" /\ phase' = "moved" /\ path # NoFile /\ path' = NoFile
      /\ UNCHANGED <<adds, main, opts, batch, only>>
      /\ gone' = gone \cup
           {r \in files[path].rows \ (Lines \cup ToSet(batch)) : ~ (opts.allow /\ r \in only)}
      /\ waived' = waived \cup Accepted
  BY DEF Move
<1>2. /\ Open = {} /\ path \in FileIds /\ main[path] = files[path]
      /\ only = {r \in main[path].rows : \A e \in ToSet(batch) : e.id # r.id}
      /\ only # {} => opts.allow
      /\ gone = {}
  BY <1>1, PathFile DEF Quiet, OneAtMost, Settled, Compared, NothingDropped
<1>3. Open' = Open /\ draft' = draft
  BY <1>1 DEF adds, Open
<1>4. ASSUME NEW r \in files[path].rows
      PROVE  r \in ToSet(batch) \/ (opts.allow /\ r \in only /\ r.seq \in waived')
  <2>1. ASSUME NEW e \in ToSet(batch), e.id = r.id
        PROVE  r \in ToSet(batch)
    BY <1>2, <2>1 DEF RebuildInv, Identified, Known
  <2>2. ASSUME r \notin ToSet(batch)
        PROVE  opts.allow /\ r \in only /\ r.seq \in waived'
    <3>1. r \in only
      BY <1>2, <2>1, <2>2
    <3> QED
      BY <1>1, <1>2, <3>1 DEF Accepted
  <2> QED
    BY <2>2
<1>5. gone' = {}
  BY <1>1, <1>2, <1>4
<1>6. Drafts' = Drafts /\ DraftsFill' /\ DraftsApart'
  BY <1>1, <1>3, DraftsStay
<1>7. ASSUME NEW e \in Drafts
      PROVE  e \in ToSet(batch) \/ e.seq \in waived'
  <2>1. PICK p \in Procs : e = draft[p] /\ e # NoStream
    BY DEF Drafts
  <2>2. pc[p] # "commit"
    BY <1>2 DEF Open
  <2> QED
    BY <1>1, <1>4, <2>1, <2>2 DEF Quiet, Indexed
<1>8. Compared'
  BY <1>1, <1>5, <1>6, <1>7 DEF Compared, NothingDropped
<1>9. OneAtMost' /\ Settled' /\ Indexed' /\ RowsKept'
  BY <1>1, <1>2, <1>3 DEF OneAtMost, Settled, Indexed, RowsKept
<1> QED
  BY <1>6, <1>8, <1>9 DEF Quiet

(* The batch makes the new index, or is added to the one there is. *)
LEMMA ImportQuiet ==
  ASSUME RebuildInv, Quiet, Import
  PROVE  Quiet'
<1> DEFINE f == AtPath
           target == Target
           joined == Imported(batch, target)
           new == ToSet(batch) \ target.rows
<1>1. /\ Importing /\ Verdict(batch, target, Accepted) = "valid"
      /\ path' = f /\ files' = [files EXCEPT ![f] = joined]
      /\ main' = IF \E p \in Open : handle[p] = f THEN main ELSE [main EXCEPT ![f] = joined]
      /\ phase' = "idle" /\ waived' = waived \cup Accepted /\ gone' = gone /\ adds' = adds
  BY DEF Import, EndWith, Close
<1>2. /\ f \in FileIds /\ f # NoFile
      /\ path # NoFile => f = path
  BY PathFile DEF FileIds, NoFile
<1>3. Open = {} /\ Open' = Open /\ draft' = draft
  BY <1>1 DEF Importing, Quiet, OneAtMost, adds, Open
<1>4. files'[f] = joined /\ main'[f] = joined
  BY <1>1, <1>2, <1>3 DEF RebuildInv, Types, StoreTypes
<1>5. target \in Tables(EventRecords, Producers) /\ Consistent(target)
  BY TargetTable
<1>6. batch \in Seq(EventRecords)
  BY DEF RebuildInv, Types, RebuildTypes
<1>7. IF path = NoFile THEN target.rows = {} /\ target.next = 1 ELSE target = files[path]
  BY DEF Target, Fresh
<1> HIDE DEF f, target, joined
<1>8. joined = Imported(batch, target)
  BY DEF joined
<1>9. /\ joined.rows = target.rows \cup ToSet(batch)
      /\ Filled(joined, new, target, Accepted)
  BY <1>1, <1>5, <1>6, <1>8, ImportJoins
<1>10. joined.next \in Nat /\ target.next \in Nat
  <2>1. joined \in Tables(EventRecords, Producers)
    BY <1>1, <1>5, <1>6, <1>8, ImportJoins
  <2> QED
    BY <1>5, <2>1 DEF Tables
<1>11. RowsKept'
  <2> SUFFICES ASSUME NEW n \in 1 .. (joined.next - 1), n \notin waived'
               PROVE  \E r \in joined.rows : r.seq = n
    BY <1>1, <1>4 DEF RowsKept
  <2>1. CASE n < target.next
    <3>1. path # NoFile /\ n \in 1 .. (files[path].next - 1)
      BY <1>7, <1>10, <2>1
    <3> QED
      BY <1>1, <1>7, <1>9, <3>1 DEF Quiet, RowsKept
  <2>2. CASE ~ (n < target.next)
    <3>1. n \in target.next .. (joined.next - 1) /\ n \notin Accepted
      BY <1>1, <1>10, <2>2
    <3>2. \E e \in new : e.seq = n
      BY <1>9, <3>1 DEF Filled
    <3> QED
      BY <1>9, <3>2
  <2> QED
    BY <2>1, <2>2
<1>12. Drafts' = Drafts /\ DraftsFill' /\ DraftsApart'
  BY <1>1, <1>3, DraftsStay
<1>13. Indexed'
  <2> SUFFICES ASSUME NEW p \in Procs, draft[p] # NoStream, draft[p].seq \notin waived'
               PROVE  draft[p] \in joined.rows
    BY <1>1, <1>2, <1>3, <1>4 DEF Indexed
  <2>1. draft[p] \in Drafts
    BY DEF Drafts
  <2>2. CASE path # NoFile
    <3>1. pc[p] # "commit"
      BY <1>3 DEF Open
    <3> QED
      BY <1>1, <1>7, <1>9, <2>2, <3>1 DEF Quiet, Indexed
  <2>3. CASE path = NoFile
    <3>1. phase = "moved"
      BY <2>1, <2>3 DEF Quiet, Indexed
    <3> QED
      BY <1>1, <1>9, <2>1, <3>1 DEF Quiet, Compared
  <2> QED
    BY <2>2, <2>3
<1>14. OneAtMost' /\ Settled' /\ Compared'
  BY <1>1, <1>3, <1>4 DEF OneAtMost, Settled, Quiet, Compared, NothingDropped
<1> QED
  BY <1>11, <1>12, <1>13, <1>14 DEF Quiet

(* An import that is refused leaves an index that there is as it was, or an empty one. *)
LEMMA RefusedQuiet ==
  ASSUME RebuildInv, Replacing, Quiet, ImportRefused
  PROVE  Quiet'
<1> DEFINE f == AtPath
           target == Target
<1>1. /\ Importing /\ Verdict(batch, target, Accepted) # "valid"
      /\ path' = f /\ files' = [files EXCEPT ![f] = target]
      /\ main' = IF \E p \in Open : handle[p] = f THEN main ELSE [main EXCEPT ![f] = target]
      /\ phase' = "idle" /\ waived' = waived /\ gone' = gone /\ adds' = adds
  BY DEF ImportRefused, EndWith, Close
<1>2. /\ f \in FileIds /\ f # NoFile
      /\ path # NoFile => f = path
  BY PathFile DEF FileIds, NoFile
<1>3. Open = {} /\ Open' = Open /\ draft' = draft
  BY <1>1 DEF Importing, Quiet, OneAtMost, adds, Open
<1>4. files'[f] = target /\ main'[f] = target
  BY <1>1, <1>2, <1>3 DEF RebuildInv, Types, StoreTypes
<1>5. IF path = NoFile THEN target.next = 1 ELSE target = files[path]
  BY DEF Target, Fresh
<1>6. path = NoFile => Drafts = {}
  <2>1. path = NoFile /\ phase = "moved" => Verdict(batch, target, Accepted) = "valid"
    BY DEF Target, Replacing
  <2> QED
    BY <1>1, <2>1 DEF Quiet, Indexed
<1> HIDE DEF f, target
<1>7. RowsKept'
  <2>1. CASE path = NoFile
    BY <1>1, <1>4, <1>5, <2>1 DEF RowsKept
  <2>2. CASE path # NoFile
    BY <1>1, <1>2, <1>4, <1>5, <2>2 DEF Quiet, RowsKept
  <2> QED
    BY <2>1, <2>2
<1>8. Drafts' = Drafts /\ DraftsFill' /\ DraftsApart'
  BY <1>1, <1>3, DraftsStay
<1>9. Indexed'
  <2> SUFFICES ASSUME NEW p \in Procs, draft[p] # NoStream, draft[p].seq \notin waived
               PROVE  draft[p] \in target.rows
    BY <1>1, <1>2, <1>3, <1>4 DEF Indexed
  <2>1. draft[p] \in Drafts
    BY DEF Drafts
  <2>2. pc[p] # "commit"
    BY <1>3 DEF Open
  <2> QED
    BY <1>5, <1>6, <2>1, <2>2 DEF Quiet, Indexed
<1>10. OneAtMost' /\ Settled' /\ Compared'
  BY <1>1, <1>3, <1>4 DEF OneAtMost, Settled, Quiet, Compared, NothingDropped
<1> QED
  BY <1>7, <1>8, <1>9, <1>10 DEF Quiet

(* A step that neither an add nor the rebuild takes. *)
LEMMA AsideQuiet ==
  ASSUME Quiet, UNCHANGED <<adds, store, rebuild, history>>
  PROVE  Quiet'
<1>1. UNCHANGED <<pc, handle, draft, files, main, path, phase, opts, batch, only, gone, waived, Open>>
  BY DEF adds, store, rebuild, history, Open
<1>2. Compared' /\ OneAtMost'
  BY <1>1 DEF Quiet, Compared, OneAtMost, NothingDropped, Drafts
<1> QED
  BY <1>1, <1>2, ReadingQuiet

(* One process after another, each step keeps what the events need. *)
LEMMA QuietStep ==
  ASSUME RebuildInv, LockedByCommit, Replacing, Quiet, OneAtMost', [Next]_vars,
         result' # "killed", \A p \in Procs : pc'[p] # "dead"
  PROVE  Quiet'
<1>1. ASSUME NEW p \in Procs, OpenIndex(p) \/ Reconcile(p) \/ ReconcileFails(p)
      PROVE  Quiet'
  BY <1>1, OpenIndexQuiet, ReconcileQuiet, ReconcileFailsQuiet
<1>2. ASSUME NEW p \in Procs, AppendEvent(p) \/ Commit(p)
      PROVE  Quiet'
  BY <1>2, AppendEventQuiet, CommitQuiet
<1>3. ASSUME NEW p \in Procs, Kill(p)
      PROVE  Quiet'
  BY <1>3, LabelStep DEF Kill
<1>4. CASE Stops
  BY <1>4, StopQuiet
<1>5. CASE Start \/ ReadShard \/ Coverage \/ Validated
  BY <1>5, PreflightQuiet
<1>6. CASE Move \/ Import \/ ImportRefused
  BY <1>6, MoveQuiet, ImportQuiet, RefusedQuiet
<1>7. CASE (\E d \in Days : LoseShard(d)) \/ UNCHANGED vars
  <2>1. UNCHANGED <<adds, store, rebuild, history>>
    BY <1>7 DEF LoseShard, vars
  <2> QED
    BY <2>1, AsideQuiet
<1>8. CASE KillImport
  BY <1>8 DEF KillImport, EndWith
<1> QED
  BY <1>1, <1>2, <1>3, <1>4, <1>5, <1>6, <1>7, <1>8 DEF Next, RebuildStep, Stops

(* Before the first process, there is nothing. *)
LEMMA InitQuiet == QuietInit => QuietInv
<1> SUFFICES ASSUME QuietInit
             PROVE  QuietInv
  OBVIOUS
<1>1. RebuildInv
  BY InitRebuildInv DEF QuietInit
<1>2. /\ \A p \in Procs : pc[p] = "idle" /\ draft[p] = NoStream
      /\ path = NoFile /\ phase = "idle" /\ gone = {}
      /\ \A f \in FileIds : lock[f] = NoStream
  BY DEF QuietInit, Init
<1>3. Open = {} /\ Drafts = {}
  BY <1>2 DEF Open, Drafts
<1>4. LockedByCommit /\ Replacing /\ IsFiniteSet(Open)
  BY <1>2, <1>3, FS_EmptySet DEF LockedByCommit, Replacing
<1>5. OneAtMost /\ Settled /\ Compared
  BY <1>2, <1>3 DEF OneAtMost, Settled, Compared, NothingDropped
<1>6. Indexed /\ DraftsFill /\ RowsKept /\ DraftsApart
  BY <1>2, <1>3 DEF Indexed, DraftsFill, RowsKept, DraftsApart
<1> QED
  BY <1>1, <1>4, <1>5, <1>6 DEF QuietInv, Quiet

(* Every step keeps it. *)
LEMMA NextQuiet == QuietInv /\ [QuietNext]_<<vars, quiet>> => QuietInv'
<1> SUFFICES ASSUME QuietInv, [QuietNext]_<<vars, quiet>>
             PROVE  QuietInv'
  OBVIOUS
<1>1. [Next]_vars
  BY DEF QuietNext
<1>2. RebuildInv' /\ LockedByCommit' /\ Replacing' /\ IsFiniteSet(Open')
  BY <1>1, NextRebuildInv, LocksStep, ReplacingStep DEF QuietInv
<1>3. ASSUME quiet'
      PROVE  Quiet'
  <2>1. CASE QuietNext
    <3>1. quiet /\ Running' <= 1 /\ result' # "killed" /\ \A p \in Procs : pc'[p] # "dead"
      BY <1>3, <2>1 DEF QuietNext
    <3>2. OneAtMost'
      BY <1>2, <3>1, OneRuns
    <3> QED
      BY <1>1, <3>1, <3>2, QuietStep DEF QuietInv
  <2>2. CASE UNCHANGED <<vars, quiet>>
    <3>1. Quiet /\ UNCHANGED <<adds, store, rebuild, history>>
      BY <1>3, <2>2 DEF QuietInv, vars
    <3> QED
      BY <3>1, AsideQuiet
  <2> QED
    BY <2>1, <2>2
<1> QED
  BY <1>2, <1>3 DEF QuietInv

(* The inductive invariant of processes one after another. *)
LEMMA QuietInvariance == QuietSpec => []QuietInv
BY InitQuiet, NextQuiet, PTL DEF QuietSpec

(***************************************************************************)
(* One process after another, however often shards are lost in between,    *)
(* no rebuild replaces an index with a row that its batch lacks, but on    *)
(* request.                                                                *)
(***************************************************************************)
THEOREM NothingIsDropped == QuietSpec => []QuietNothingDropped
<1>1. QuietInv => QuietNothingDropped
  BY DEF QuietInv, Quiet, Compared, QuietNothingDropped
<1> QED
  BY <1>1, QuietInvariance, PTL

(***************************************************************************)
(* One process after another, the index at the path has a row for every    *)
(* sequence below its cursor, and no two adds ever write one origin, but   *)
(* for the sequences that a rebuild was told to give up.                   *)
(***************************************************************************)
THEOREM OriginsStay == QuietSpec => []QuietOriginsKept
<1>1. QuietInv => QuietOriginsKept
  BY DEF QuietInv, Quiet, RowsKept, DraftsApart, Drafts, OriginsKept, QuietOriginsKept
<1> QED
  BY <1>1, QuietInvariance, PTL

=============================================================================
