---------------------------- MODULE ImportProofs -----------------------------
(***************************************************************************)
(* Proofs about the import of batches: what the loop of the validation     *)
(* decides, for every batch and every index, and what a valid batch does   *)
(* to the index.                                                           *)
(*                                                                         *)
(* The loop is a recursive function over the positions of the batch.       *)
(* There is no induction to cite, so a fact about every position is proved *)
(* by the least position that would refute it (LeastNumber, from the       *)
(* well-foundedness of < on Nat): SeenIterates says what one turn of the   *)
(* loop does, MetStep, FilledStep and PassedStep that a turn keeps what    *)
(* the loop has seen, BatchPassed that it holds after the whole batch.     *)
(* ValidImport then says what an index is after a valid batch.             *)
(*                                                                         *)
(* The preflight of a source set is such a loop over places, a line of a   *)
(* source each: after a turn its tables are images of the places read so   *)
(* far and its counts their cardinalities, or two of the places disagree   *)
(* (Tallied, kept by TallyStep; FileTallied after a whole source).  What   *)
(* qualifies has neighbours that are consecutive, which is to have no gap  *)
(* (GappedIs), and then an empty index takes it (QualifiedIsValid).        *)
(*                                                                         *)
(* Two valid batches, one after the other, are one valid batch with the    *)
(* same effect (JoinedImports), and any cut of a valid batch is such a     *)
(* pair (PartsImport): where an event is first met in the two, it is in    *)
(* the first, or behind all of it.                                         *)
(***************************************************************************)
EXTENDS SourceImports, TLAPS, SequenceTheorems, WellFoundedInduction, FiniteSetTheorems

-----------------------------------------------------------------------------
(* Numbers. *)

(* Some number in a set of numbers is the least. *)
LEMMA LeastNumber ==
  ASSUME NEW T, T \subseteq Nat, T # {}
  PROVE  \E n \in T : \A m \in T : n <= m
<1> DEFINE R == OpToRel(<, Nat)
<1>1. IsWellFoundedOn(R, Nat)
  BY NatLessThanWellFounded
<1>2. R = {ss \in Nat \X Nat : ss[1] < ss[2]}
  BY DEF OpToRel
<1> HIDE DEF R
<1>3. \E n \in T : \A m \in T : <<m, n>> \notin R
  BY <1>1, WFMin
<1>4. PICK n \in T : \A m \in T : <<m, n>> \notin R
  BY <1>3
<1>5. \A m \in T : n <= m
  <2> SUFFICES ASSUME NEW m \in T
               PROVE  ~ (m < n)
    BY <1>4
  <2>1. <<m, n>> \in Nat \X Nat /\ <<m, n>>[1] = m /\ <<m, n>>[2] = n
    BY <1>4
  <2> QED
    BY <1>2, <1>4, <2>1
<1> QED
  BY <1>5

(* Some number in a bounded set of numbers is the greatest. *)
LEMMA GreatestNumber ==
  ASSUME NEW T, T \subseteq Nat, T # {}, NEW b \in Nat, \A m \in T : m <= b
  PROVE  \E n \in T : \A m \in T : m <= n
<1> DEFINE Bounds == {n \in Nat : \A m \in T : m <= n}
<1>1. PICK n \in Bounds : \A m \in Bounds : n <= m
  BY LeastNumber, b \in Bounds
<1>2. CASE n \in T
  BY <1>1, <1>2
<1>3. CASE n \notin T
  <2>1. PICK m \in T : TRUE
    OBVIOUS
  <2>2. n - 1 \in Nat /\ \A k \in T : k <= n - 1
    BY <1>1, <1>3, <2>1
  <2> QED
    BY <1>1, <2>2
<1> QED
  BY <1>2, <1>3

-----------------------------------------------------------------------------
(* The validation of a batch. *)

Unread(table) ==
  [refused |-> FALSE, stream |-> table.stream, next |-> table.next, events |-> {}]

(* Validation is the iteration of Admit. *)
LEMMA SeenIterates ==
  ASSUME NEW events, Len(events) \in Nat, NEW table, NEW lost
  PROVE  /\ Seen(events, table, lost)[0] = Unread(table)
         /\ \A n \in 1 .. Len(events) :
              Seen(events, table, lost)[n] =
                Admit(Seen(events, table, lost)[n-1], events[n], table, lost)
<1> DEFINE After(s, n) == Admit(s, events[n], table, lost)
           IsTrace(n, f) ==
             f = [i \in 0 .. n |-> IF i = 0 THEN Unread(table) ELSE After(f[i-1], i)]
           Without == {n \in Nat : ~ \E f : IsTrace(n, f)}
<1>1. Without = {}
  <2> SUFFICES ASSUME Without # {}
               PROVE  FALSE
    OBVIOUS
  <2>1. PICK n \in Without : \A m \in Without : n <= m
    BY LeastNumber
  <2>2. \A m \in Nat : m < n => \E f : IsTrace(m, f)
    <3> HIDE DEF IsTrace
    <3>1. n \in Nat
      OBVIOUS
    <3>2. SUFFICES ASSUME NEW m \in Nat, m < n, m \in Without
                   PROVE  FALSE
      OBVIOUS
    <3> HIDE DEF Without
    <3> QED
      BY <2>1, <3>1, <3>2
  <2>3. CASE n = 0
    <3> DEFINE f == [i \in 0 .. 0 |-> Unread(table)]
    <3>1. \A i \in 0 .. 0 : i = 0
      OBVIOUS
    <3> HIDE DEF After
    <3>2. f = [i \in 0 .. 0 |-> IF i = 0 THEN Unread(table) ELSE After(f[i-1], i)]
      BY <3>1
    <3> QED
      BY <3>2, <2>1, <2>3
  <2>4. CASE n # 0
    <3>1. n \in Nat /\ n - 1 \in Nat /\ n - 1 < n
      BY <2>1, <2>4
    <3>2. PICK f : IsTrace(n - 1, f)
      BY <2>2, <3>1
    <3> DEFINE g == [i \in 0 .. n |-> IF i = n THEN After(f[n-1], n) ELSE f[i]]
    <3>3. \A i \in 0 .. n : g[i] = IF i = 0 THEN Unread(table) ELSE After(g[i-1], i)
      <4> SUFFICES ASSUME NEW i \in 0 .. n
                   PROVE  g[i] = IF i = 0 THEN Unread(table) ELSE After(g[i-1], i)
        OBVIOUS
      <4> HIDE DEF After
      <4>1. CASE i = n
        BY <3>1, <4>1, <2>4
      <4>2. CASE i # n
        <5>1. i \in 0 .. (n - 1) /\ (i # 0 => i - 1 \in 0 .. n /\ i - 1 # n)
          BY <3>1, <4>2
        <5>2. f[i] = IF i = 0 THEN Unread(table) ELSE After(f[i-1], i)
          BY <3>2, <5>1
        <5> QED
          BY <5>1, <5>2, <4>2
      <4> QED
        BY <4>1, <4>2
    <3>4. IsTrace(n, g)
      <4> HIDE DEF After
      <4>1. g = [i \in 0 .. n |-> g[i]]
        OBVIOUS
      <4> QED
        BY <4>1, <3>3
    <3> QED
      BY <3>4, <2>1
  <2> QED
    BY <2>3, <2>4
<1>2. \E f : IsTrace(Len(events), f)
  BY <1>1
<1>3. Seen(events, table, lost) = CHOOSE f : IsTrace(Len(events), f)
  BY DEF Seen, Unread
<1>4. IsTrace(Len(events), Seen(events, table, lost))
  BY <1>2, <1>3
<1> HIDE DEF After
<1>5. \A n \in 0 .. Len(events) : Seen(events, table, lost)[n] =
         IF n = 0 THEN Unread(table) ELSE After(Seen(events, table, lost)[n-1], n)
  BY <1>4
<1> QED
  BY <1>5 DEF After

(* The events with an envelope among the first n. *)
Met(events, n) == {events[i] : i \in {j \in 1 .. n : events[j].stream # NoStream}}

(* The n-th event is not a copy of an earlier one. *)
FirstMet(events, n) == \A k \in 1 .. (n - 1) : events[k] # events[n]

(***************************************************************************)
(* What holds of the new events of a batch that is not refused so far:     *)
(* they are of the stream and between the table's cursor and the one       *)
(* reached, no two with one sequence, and only lost ones between them.     *)
(***************************************************************************)
Filled(t, new, table, lost) ==
  /\ \A e \in new : e.stream = t.stream /\ table.next <= e.seq /\ e.seq < t.next
  /\ \A e, f \in new : e.seq = f.seq => e = f
  /\ \A m \in table.next .. (t.next - 1) : m \in lost \/ \E e \in new : e.seq = m
  /\ table.next <= t.next
  /\ new = {} => t.next = table.next /\ t.stream = table.stream
  /\ new # {} => \E e \in new : t.next = e.seq + 1
  /\ table.stream # NoStream => t.stream = table.stream

(* ... and they are first met by ascending sequence. *)
Ascending(events, n, table) ==
  \A i, j \in 1 .. n :
    /\ i < j /\ FirstMet(events, j)
    /\ {events[i], events[j]} \subseteq Met(events, n) \ table.rows
    => events[i].seq < events[j].seq

Passed(t, events, n, table, lost) ==
  ~ t.refused =>
    /\ t.events = Met(events, n)
    /\ Filled(t, Met(events, n) \ table.rows, table, lost)
    /\ Ascending(events, n, table)

Tables(E, S) == [rows : SUBSET E, stream : S, next : Nat]
SeenTypes(E, S) == [refused : BOOLEAN, stream : S, next : Nat, events : SUBSET E]
IsEventSet(E, S) == NoStream \in S /\ \A e \in E : e.seq \in Nat /\ e.stream \in S

(* One more event: what has been met of the batch. *)
LEMMA MetStep ==
  ASSUME NEW E, NEW events \in Seq(E), NEW n \in 1 .. Len(events)
  PROVE  /\ Met(events, n) = Met(events, n-1) \cup
              (IF events[n].stream # NoStream THEN {events[n]} ELSE {})
         /\ n - 1 \in Nat /\ Len(events) \in Nat
         /\ events[n] \in E
         /\ \A e \in Met(events, n) : e \in E /\ e.stream # NoStream
<1>1. n \in Nat /\ n >= 1 /\ n - 1 \in Nat /\ Len(events) \in Nat /\ n <= Len(events)
  OBVIOUS
<1>2. 1 .. n = (1 .. (n - 1)) \cup {n}
  BY <1>1
<1>3. \A i \in 1 .. n : events[i] \in E
  BY <1>1
<1>4. Met(events, n) = Met(events, n-1) \cup
              (IF events[n].stream # NoStream THEN {events[n]} ELSE {})
  BY <1>2 DEF Met
<1>5. \A e \in Met(events, n) : e \in E /\ e.stream # NoStream
  BY <1>3 DEF Met
<1> QED
  BY <1>1, <1>3, <1>4, <1>5

(* A new event that follows fills the stream up to itself. *)
LEMMA FilledStep ==
  ASSUME NEW E, NEW S, IsEventSet(E, S), NEW table \in Tables(E, S), NEW lost,
         NEW t \in SeenTypes(E, S), NEW new \in SUBSET E, NEW e \in E,
         Filled(t, new, table, lost), e.stream # NoStream,
         t.stream \in {NoStream, e.stream}, Follows(t.next, e.seq, lost),
         \A f \in new : f.stream # NoStream,
         NEW u, u.stream = e.stream, u.next = e.seq + 1
  PROVE  /\ Filled(u, new \cup {e}, table, lost)
         /\ \A f \in new : f.seq < e.seq
<1>1. /\ e.seq \in Nat /\ e.stream \in S /\ table.next \in Nat /\ t.next \in Nat
      /\ \A f \in new : f.seq \in Nat
  BY DEF IsEventSet, Tables, SeenTypes
<1>2. t.next <= e.seq /\ t.next .. (e.seq - 1) \subseteq lost
  BY DEF Follows
<1>3. \A f \in new : f.seq < e.seq /\ f.stream = e.stream
  BY <1>1, <1>2 DEF Filled
<1>4. \A m \in table.next .. (u.next - 1) : m \in lost \/ \E f \in new \cup {e} : f.seq = m
  <2> SUFFICES ASSUME NEW m \in table.next .. e.seq
               PROVE  m \in lost \/ \E f \in new \cup {e} : f.seq = m
    BY <1>1
  <2>1. CASE m < t.next
    <3>1. m \in table.next .. (t.next - 1)
      BY <1>1, <2>1
    <3> QED
      BY <3>1 DEF Filled
  <2>2. CASE t.next <= m /\ m < e.seq
    <3>1. m \in t.next .. (e.seq - 1)
      BY <1>1, <2>2
    <3> QED
      BY <3>1, <1>2
  <2>3. CASE m = e.seq
    BY <2>3
  <2> QED
    BY <1>1, <2>1, <2>2, <2>3
<1>5. \A f \in new \cup {e} : f.stream = u.stream /\ table.next <= f.seq /\ f.seq < u.next
  BY <1>1, <1>2, <1>3 DEF Filled
<1>6. \A f, g \in new \cup {e} : f.seq = g.seq => f = g
  BY <1>1, <1>3 DEF Filled
<1>7. table.next <= u.next /\ (table.stream # NoStream => u.stream = table.stream)
  BY <1>1, <1>2 DEF Filled
<1> QED
  BY <1>3, <1>4, <1>5, <1>6, <1>7 DEF Filled

(* What validation keeps from one event to the next. *)
LEMMA PassedStep ==
  ASSUME NEW E, NEW S, IsEventSet(E, S), NEW table \in Tables(E, S), NEW lost,
         NEW events \in Seq(E), NEW n \in 1 .. Len(events),
         NEW t \in SeenTypes(E, S), Passed(t, events, n-1, table, lost),
         NEW u, u = Admit(t, events[n], table, lost)
  PROVE  u \in SeenTypes(E, S) /\ Passed(u, events, n, table, lost)
<1> DEFINE e == events[n]
           new == Met(events, n-1) \ table.rows
<1>1. /\ e \in E /\ e.seq \in Nat /\ e.stream \in S
      /\ n \in Nat /\ n - 1 \in Nat /\ Len(events) \in Nat
  BY MetStep DEF IsEventSet
<1>2. /\ Met(events, n) = Met(events, n-1) \cup (IF e.stream # NoStream THEN {e} ELSE {})
      /\ \A f \in Met(events, n) : f \in E /\ f.stream # NoStream
  BY MetStep
<1> HIDE DEF e, new
<1>3. u = Admit(t, e, table, lost)
  BY DEF e
<1>4. ASSUME e.stream = NoStream \/ e \in Met(events, n-1) \/ e \in table.rows,
             Ascending(events, n-1, table)
      PROVE  Ascending(events, n, table)
  <2> SUFFICES ASSUME NEW i \in 1 .. n, NEW j \in 1 .. n, i < j, FirstMet(events, j),
                      {events[i], events[j]} \subseteq Met(events, n) \ table.rows
               PROVE  events[i].seq < events[j].seq
    BY DEF Ascending
  <2>1. j # n
    <3> SUFFICES ASSUME j = n
                 PROVE  FALSE
      OBVIOUS
    <3>1. e \in Met(events, n-1)
      BY <1>2, <1>4 DEF e
    <3>2. PICK k \in 1 .. (n - 1) : e = events[k]
      BY <3>1 DEF Met
    <3> QED
      BY <3>2 DEF FirstMet, e
  <2>2. i \in 1 .. (n - 1) /\ j \in 1 .. (n - 1)
    BY <1>1, <2>1
  <2>3. {events[i], events[j]} \subseteq Met(events, n-1) \ table.rows
    BY <2>2, <1>2 DEF Met
  <2> QED
    BY <1>4, <2>2, <2>3 DEF Ascending
<1>5. CASE t.refused \/ e.stream = NoStream \/ e \in t.events
  <2>1. u = t
    BY <1>3, <1>5 DEF Admit
  <2>2. CASE t.refused
    BY <2>1, <2>2 DEF Passed
  <2>3. CASE ~ t.refused
    <3>1. Met(events, n) = Met(events, n-1)
      BY <1>2, <1>5, <2>3 DEF Passed
    <3>2. Ascending(events, n, table)
      BY <1>4, <1>5, <2>3 DEF Passed
    <3> QED
      BY <2>1, <3>1, <3>2, <2>3 DEF Passed
  <2> QED
    BY <2>2, <2>3
<1>6. CASE /\ ~ (t.refused \/ e.stream = NoStream \/ e \in t.events)
           /\ \/ t.stream \notin {NoStream, e.stream}
              \/ e \notin table.rows /\ ~ Follows(t.next, e.seq, lost)
  <2>1. u = [t EXCEPT !.refused = TRUE]
    BY <1>3, <1>6 DEF Admit
  <2>2. u \in SeenTypes(E, S) /\ u.refused
    BY <2>1 DEF SeenTypes
  <2> QED
    BY <2>2 DEF Passed
<1>7. CASE /\ ~ (t.refused \/ e.stream = NoStream \/ e \in t.events)
           /\ ~ (\/ t.stream \notin {NoStream, e.stream}
                 \/ e \notin table.rows /\ ~ Follows(t.next, e.seq, lost))
           /\ e \in table.rows
  <2>1. u = [t EXCEPT !.events = @ \cup {e}]
    BY <1>3, <1>7 DEF Admit
  <2>2. /\ u \in SeenTypes(E, S)
        /\ u.stream = t.stream /\ u.next = t.next /\ u.events = t.events \cup {e}
    BY <2>1, <1>1 DEF SeenTypes
  <2>3. t.events = Met(events, n-1) /\ Filled(t, new, table, lost)
        /\ Ascending(events, n-1, table)
    BY <1>7 DEF Passed, new
  <2>4. u.events = Met(events, n) /\ Met(events, n) \ table.rows = new
    BY <1>2, <1>7, <2>2, <2>3 DEF new
  <2>5. Filled(u, new, table, lost)
    BY <2>2, <2>3 DEF Filled
  <2>6. Ascending(events, n, table)
    BY <1>4, <1>7, <2>3
  <2> QED
    BY <2>2, <2>4, <2>5, <2>6 DEF Passed
<1>8. CASE /\ ~ (t.refused \/ e.stream = NoStream \/ e \in t.events)
           /\ ~ (\/ t.stream \notin {NoStream, e.stream}
                 \/ e \notin table.rows /\ ~ Follows(t.next, e.seq, lost))
           /\ e \notin table.rows
  <2>1. u = [refused |-> FALSE, stream |-> e.stream, next |-> e.seq + 1,
             events |-> t.events \cup {e}]
    BY <1>3, <1>8 DEF Admit
  <2>2. /\ u \in SeenTypes(E, S)
        /\ u.stream = e.stream /\ u.next = e.seq + 1 /\ u.events = t.events \cup {e}
    BY <2>1, <1>1 DEF SeenTypes
  <2>3. t.events = Met(events, n-1) /\ Filled(t, new, table, lost)
        /\ Ascending(events, n-1, table)
    BY <1>8 DEF Passed, new
  <2>4. u.events = Met(events, n) /\ Met(events, n) \ table.rows = new \cup {e}
    BY <1>2, <1>8, <2>2, <2>3 DEF new
  <2>5. new \in SUBSET E /\ \A f \in new : f.stream # NoStream
    BY <1>2 DEF new
  <2>6. Filled(u, new \cup {e}, table, lost) /\ \A f \in new : f.seq < e.seq
    <3>1. t.stream \in {NoStream, e.stream} /\ Follows(t.next, e.seq, lost)
          /\ e.stream # NoStream
      BY <1>8
    <3> QED
      BY <1>1, <2>2, <2>3, <2>5, <3>1, FilledStep
  <2>7. Ascending(events, n, table)
    <3> SUFFICES ASSUME NEW i \in 1 .. n, NEW j \in 1 .. n, i < j, FirstMet(events, j),
                        {events[i], events[j]} \subseteq Met(events, n) \ table.rows
                 PROVE  events[i].seq < events[j].seq
      BY DEF Ascending
    <3>1. i \in 1 .. (n - 1) /\ events[i] \in new
      <4>1. i \in 1 .. (n - 1) /\ i \in 1 .. n
        BY <1>1
      <4>2. events[i].stream # NoStream /\ events[i] \notin table.rows
        BY <1>2
      <4> QED
        BY <4>1, <4>2 DEF Met, new
    <3>2. CASE j = n
      BY <2>6, <3>1, <3>2 DEF e
    <3>3. CASE j # n
      <4>1. j \in 1 .. (n - 1)
        BY <1>1, <3>3
      <4>2. events[j].stream # NoStream /\ events[j] \notin table.rows
        BY <1>2
      <4>3. events[j] \in new
        BY <4>1, <4>2 DEF Met, new
      <4> QED
        BY <2>3, <3>1, <4>1, <4>3 DEF Ascending, new
    <3> QED
      BY <3>2, <3>3
  <2> QED
    BY <2>2, <2>4, <2>6, <2>7 DEF Passed
<1> QED
  BY <1>5, <1>6, <1>7, <1>8

(* At every event of a batch, what has been seen is as Passed says. *)
LEMMA BatchPassed ==
  ASSUME NEW E, NEW S, IsEventSet(E, S), NEW table \in Tables(E, S), NEW lost,
         NEW events \in Seq(E), NEW n \in 0 .. Len(events)
  PROVE  /\ Seen(events, table, lost)[n] \in SeenTypes(E, S)
         /\ Passed(Seen(events, table, lost)[n], events, n, table, lost)
<1> DEFINE s == Seen(events, table, lost)
           Fine(m) == s[m] \in SeenTypes(E, S) /\ Passed(s[m], events, m, table, lost)
           Wrong == {m \in 0 .. Len(events) : ~ Fine(m)}
<1>0. Len(events) \in Nat
  OBVIOUS
<1>1. s[0] = Unread(table) /\ \A m \in 1 .. Len(events) : s[m] = Admit(s[m-1], events[m], table, lost)
  BY <1>0, SeenIterates
<1> HIDE DEF s
<1>2. Fine(0)
  <2>1. s[0] \in SeenTypes(E, S)
    BY <1>1 DEF Unread, SeenTypes, Tables
  <2>2. Met(events, 0) = {} /\ s[0].events = {}
    BY <1>1 DEF Met, Unread
  <2>3. Filled(s[0], {}, table, lost)
    BY <1>1 DEF Filled, Unread, Tables
  <2>4. Ascending(events, 0, table)
    BY DEF Ascending
  <2> QED
    BY <2>1, <2>2, <2>3, <2>4 DEF Passed
<1>3. ASSUME NEW m \in 1 .. Len(events), Fine(m - 1)
      PROVE  Fine(m)
  BY <1>1, <1>3, PassedStep
<1> HIDE DEF Fine
<1>4. Wrong = {}
  <2> SUFFICES ASSUME Wrong # {}
               PROVE  FALSE
    OBVIOUS
  <2>1. Wrong \subseteq Nat
    BY <1>0
  <2>2. PICK m \in Wrong : \A k \in Wrong : m <= k
    BY <2>1, LeastNumber
  <2>3. m # 0 /\ m \in 1 .. Len(events)
    BY <1>2, <1>0, <2>2
  <2>4. m - 1 \in 0 .. Len(events) /\ m - 1 < m
    BY <2>3, <1>0
  <2>5. Fine(m - 1)
    BY <2>1, <2>2, <2>3, <2>4
  <2> QED
    BY <1>3, <2>2, <2>3, <2>5
<1> QED
  BY <1>4 DEF Fine, s

(* The cursor ends at the top of what Observe is given, and the stream is one of theirs. *)
LEMMA Observed ==
  ASSUME NEW E, NEW S, IsEventSet(E, S), NEW table \in Tables(E, S), NEW new \in SUBSET E,
         NEW top \in Nat, table.next <= top,
         \A e \in new : e.stream # NoStream => e.seq < top,
         top = table.next \/ \E e \in new : e.stream # NoStream /\ top = e.seq + 1
  PROVE  /\ Observe(table, new).rows = table.rows
         /\ Observe(table, new) \in Tables(E, S)
         /\ Observe(table, new).next = top
         /\ LET enveloped == {e \in new : e.stream # NoStream} IN
            IF enveloped = {} THEN Observe(table, new).stream = table.stream
            ELSE \E e \in enveloped : Observe(table, new).stream = e.stream
<1> DEFINE enveloped == {e \in new : e.stream # NoStream}
           above == {e.seq + 1 : e \in enveloped} \cup {table.next}
<1>1. /\ table.next \in Nat /\ table.stream \in S
      /\ \A e \in new : e.seq \in Nat /\ e.stream \in S
  BY DEF IsEventSet, Tables
<1>2. CASE enveloped = {}
  <2>1. Observe(table, new) = table
    BY <1>2 DEF Observe
  <2>2. top = table.next
    BY <1>2
  <2> QED
    BY <1>2, <2>1, <2>2
<1>3. CASE enveloped # {}
  <2>1. top \in above /\ \A m \in above : m <= top /\ m \in Nat
    BY <1>1
  <2> DEFINE greatest == CHOOSE n \in above : \A m \in above : m <= n
             chosen == CHOOSE e \in enveloped : TRUE
  <2> HIDE DEF above
  <2>2. greatest = top
    <3>1. greatest \in above /\ \A m \in above : m <= greatest
      BY <2>1
    <3> HIDE DEF greatest
    <3> QED
      BY <2>1, <3>1
  <2>3. chosen \in enveloped
    BY <1>3
  <2>4. Observe(table, new) = [table EXCEPT !.stream = chosen.stream, !.next = greatest]
    BY <1>3 DEF Observe, above
  <2> HIDE DEF greatest, chosen
  <2>5. /\ Observe(table, new).rows = table.rows
        /\ Observe(table, new).next = top
        /\ Observe(table, new).stream = chosen.stream
        /\ Observe(table, new) \in Tables(E, S)
    BY <2>2, <2>3, <2>4, <1>1 DEF Tables
  <2> QED
    BY <1>3, <2>3, <2>5
<1> QED
  BY <1>2, <1>3

(***************************************************************************)
(* A valid batch, and the index after its import: no id has two records,   *)
(* the stream is one, and the new events fill it from the cursor on.       *)
(***************************************************************************)
LEMMA ValidImport ==
  ASSUME NEW E, NEW S, IsEventSet(E, S), NEW table \in Tables(E, S), NEW lost,
         NEW events \in Seq(E), Verdict(events, table, lost) = "valid",
         NEW new, new = {e \in ToSet(events) \ table.rows : e.stream # NoStream}
  PROVE  /\ \A e, f \in ToSet(events) \cup table.rows :
              e.id = f.id /\ e \in ToSet(events) => e = f
         /\ ToSet(events) \subseteq E
         /\ Imported(events, table) \in Tables(E, S)
         /\ Imported(events, table).rows = table.rows \cup ToSet(events)
         /\ Filled(Imported(events, table), new, table, lost)
<1> DEFINE s == Seen(events, table, lost)[Len(events)]
           after == Imported(events, table)
           fresh == ToSet(events) \ table.rows
<1>0. /\ Len(events) \in Nat /\ DOMAIN events = 1 .. Len(events)
      /\ ToSet(events) = {events[i] : i \in 1 .. Len(events)}
      /\ \A i \in 1 .. Len(events) : events[i] \in E
  BY DEF ToSet
<1>1. ToSet(events) \subseteq E
  BY <1>0
<1>2. /\ ~ s.refused
      /\ ~ Collide(ToSet(events) \cup
                     {r \in table.rows : \E e \in ToSet(events) : e.id = r.id})
  BY DEF Verdict, Continuous
<1>3. \A e, f \in ToSet(events) \cup table.rows :
              e.id = f.id /\ e \in ToSet(events) => e = f
  BY <1>2 DEF Collide
<1>4. Met(events, Len(events)) \ table.rows = new
  BY <1>0 DEF Met
<1>5. Filled(s, new, table, lost) /\ s \in SeenTypes(E, S)
  <2>1. Len(events) \in 0 .. Len(events)
    BY <1>0
  <2>2. s \in SeenTypes(E, S) /\ Passed(s, events, Len(events), table, lost)
    BY <2>1, BatchPassed
  <2> QED
    BY <1>2, <1>4, <2>2 DEF Passed
<1> HIDE DEF s
<1>6. /\ table.next \in Nat /\ s.next \in Nat /\ table.rows \subseteq E
      /\ \A e \in E : e.seq \in Nat
  BY <1>5 DEF Tables, SeenTypes, IsEventSet
<1>7. new = {e \in fresh : e.stream # NoStream} /\ fresh \in SUBSET E
  BY <1>1
<1>8. /\ Observe(table, fresh) \in Tables(E, S)
      /\ Observe(table, fresh).next = s.next
      /\ IF new = {} THEN Observe(table, fresh).stream = table.stream
         ELSE \E e \in new : Observe(table, fresh).stream = e.stream
  <2> HIDE DEF fresh
  <2>1. table.next <= s.next
    BY <1>5 DEF Filled
  <2>2. \A e \in fresh : e.stream # NoStream => e.seq < s.next
    BY <1>5, <1>7 DEF Filled
  <2>3. s.next = table.next \/ \E e \in fresh : e.stream # NoStream /\ s.next = e.seq + 1
    BY <1>5, <1>7 DEF Filled
  <2> QED
    BY <1>6, <1>7, <2>1, <2>2, <2>3, Observed
<1>9. after = [Observe(table, fresh) EXCEPT !.rows = table.rows \cup fresh]
  BY DEF Imported
<1>10. /\ after \in Tables(E, S)
       /\ after.rows = table.rows \cup ToSet(events)
       /\ after.next = s.next /\ after.stream = Observe(table, fresh).stream
  <2>1. table.rows \cup fresh = table.rows \cup ToSet(events)
    OBVIOUS
  <2>2. table.rows \cup fresh \in SUBSET E
    BY <1>6, <1>7
  <2> HIDE DEF fresh, after
  <2> QED
    BY <1>8, <1>9, <2>1, <2>2 DEF Tables
<1> HIDE DEF after
<1>11. Filled(after, new, table, lost)
  <2>1. after.stream = s.stream
    BY <1>5, <1>8, <1>10 DEF Filled
  <2> QED
    BY <1>5, <1>10, <2>1 DEF Filled
<1> QED
  BY <1>1, <1>3, <1>10, <1>11 DEF after

-----------------------------------------------------------------------------
(* Any sequence of imports. *)

Streams(E) == {NoStream} \cup {e.stream : e \in E}
IsNumbered(E) == \A e \in E : e.seq \in Nat

(* IsNumbered events are events as the lemmas above take them. *)
LEMMA NumberedAreEvents ==
  ASSUME NEW E, IsNumbered(E)
  PROVE  IsEventSet(E, Streams(E))
BY DEF IsEventSet, IsNumbered, Streams

(* The invariant of an index whose rows are among the events E. *)
IndexInv(E) ==
  index \in Tables(E, Streams(E)) /\ RowsIdentified /\ HolesWaived

ImportsInv == IndexInv(Candidates)

(* The candidates are numbered, and so is what a batch is made of. *)
LEMMA CandidatesAreNumbered == IsNumbered(Candidates)
BY CandidatesAssumption DEF IsNumbered

(* The batches are sequences of them. *)
LEMMA BatchesAreSequences == Batches \subseteq Seq(Candidates)
BY CandidatesAssumption DEF Batches, BoundedSeq, SeqOf

(***************************************************************************)
(* An import keeps rows identified and holes accepted: what it adds lies   *)
(* above the cursor that there was.                                        *)
(***************************************************************************)
LEMMA ImportKeeps ==
  ASSUME NEW E, IsNumbered(E), IndexInv(E), NEW events \in Seq(E), NEW lost,
         ImportEvents(events, lost)
  PROVE  IndexInv(E)'
<1> DEFINE new == {e \in ToSet(events) \ index.rows : e.stream # NoStream}
<1>1. /\ index \in Tables(E, Streams(E)) /\ RowsIdentified /\ HolesWaived
      /\ events \in Seq(E) /\ IsEventSet(E, Streams(E))
      /\ Verdict(events, index, lost) = "valid"
      /\ index' = Imported(events, index) /\ accepted' = accepted \cup lost
  BY NumberedAreEvents DEF IndexInv, ImportEvents
<1>2. /\ \A e, f \in ToSet(events) \cup index.rows :
           e.id = f.id /\ e \in ToSet(events) => e = f
      /\ ToSet(events) \subseteq E
      /\ index' \in Tables(E, Streams(E))
      /\ index'.rows = index.rows \cup ToSet(events)
      /\ Filled(index', new, index, lost)
  BY <1>1, ValidImport
<1>3. /\ index.next \in Nat /\ index'.next \in Nat /\ index.rows \subseteq E
      /\ \A e \in E : e.seq \in Nat
  BY <1>1, <1>2 DEF Tables, IsEventSet
<1>4. Enveloped' = Enveloped \cup new
  BY <1>2 DEF Enveloped
<1> HIDE DEF new
<1>5. /\ \A e \in new : e.stream = index'.stream /\ index.next <= e.seq /\ e.seq < index'.next
      /\ \A e, f \in new : e.seq = f.seq => e = f
      /\ \A m \in index.next .. (index'.next - 1) : m \in lost \/ \E e \in new : e.seq = m
      /\ index.next <= index'.next
      /\ index.stream # NoStream => index'.stream = index.stream
  BY <1>2 DEF Filled
<1>6. /\ \A r \in Enveloped : r.stream = index.stream /\ r.seq < index.next /\ r.seq \in Nat
                                /\ index.stream # NoStream
      /\ \A r, s \in Enveloped : r.seq = s.seq => r = s
      /\ \A r \in new : r.seq \in Nat
  BY <1>1, <1>2, <1>3 DEF RowsIdentified, Enveloped, new
<1>7. RowsIdentified'
  <2>1. \A r, s \in index'.rows : r.id = s.id => r = s
    BY <1>1, <1>2 DEF RowsIdentified
  <2>2. \A r, s \in Enveloped' : r.seq = s.seq => r = s
    BY <1>3, <1>4, <1>5, <1>6
  <2>3. \A r \in Enveloped' : r.stream = index'.stream /\ r.seq < index'.next
    BY <1>3, <1>4, <1>5, <1>6
  <2> QED
    BY <2>1, <2>2, <2>3 DEF RowsIdentified
<1>8. HolesWaived'
  <2> SUFFICES ASSUME NEW n \in 1 .. (index'.next - 1)
               PROVE  n \in accepted' \/ \E r \in Enveloped' : r.seq = n
    BY DEF HolesWaived
  <2>1. CASE n < index.next
    <3>1. n \in 1 .. (index.next - 1)
      BY <1>3, <2>1
    <3> QED
      BY <1>1, <1>4, <3>1 DEF HolesWaived
  <2>2. CASE ~ (n < index.next)
    <3>1. n \in index.next .. (index'.next - 1)
      BY <1>3, <2>2
    <3> QED
      BY <1>1, <1>4, <1>5, <3>1
  <2> QED
    BY <2>1, <2>2
<1> QED
  BY <1>2, <1>7, <1>8 DEF IndexInv

(* It holds of the empty index, whatever the events are. *)
LEMMA IndexBegins ==
  ASSUME NEW E, ImportsInit
  PROVE  IndexInv(E)
<1>1. index = [rows |-> {}, stream |-> NoStream, next |-> 1]
  BY DEF ImportsInit, Fresh
<1> QED
  BY <1>1 DEF IndexInv, Tables, Streams, RowsIdentified, HolesWaived, Enveloped

(* It is about the index and the accepted losses only. *)
LEMMA IndexStutters ==
  ASSUME NEW E, IndexInv(E), UNCHANGED importsVars
  PROVE  IndexInv(E)'
BY DEF importsVars, IndexInv, RowsIdentified, HolesWaived, Enveloped

(* The invariant of an index that only imports change. *)
THEOREM ImportsInvariance == ImportsSpec => []ImportsInv
<1>1. ImportsInit => ImportsInv
  BY IndexBegins DEF ImportsInv
<1>2. ImportsInv /\ [ImportsNext]_importsVars => ImportsInv'
  <2> SUFFICES ASSUME ImportsInv, [ImportsNext]_importsVars
               PROVE  ImportsInv'
    OBVIOUS
  <2>1. CASE ImportsNext
    <3>1. PICK events \in Batches, lost \in SUBSET Losses : ImportEvents(events, lost)
      BY <2>1 DEF ImportsNext
    <3>2. events \in Seq(Candidates) /\ IsNumbered(Candidates)
      BY BatchesAreSequences, CandidatesAreNumbered
    <3> QED
      BY <3>1, <3>2, ImportKeeps DEF ImportsInv
  <2>2. CASE UNCHANGED importsVars
    BY <2>2, IndexStutters DEF ImportsInv
  <2> QED
    BY <2>1, <2>2
<1> QED
  BY <1>1, <1>2, PTL DEF ImportsSpec

(***************************************************************************)
(* However often and with whatever losses batches are imported, ids and    *)
(* origins identify the rows, which are of one stream and below the cursor. *)
(***************************************************************************)
THEOREM RowsStayIdentified == ImportsSpec => []RowsIdentified
<1>1. ImportsInv => RowsIdentified
  BY DEF ImportsInv, IndexInv
<1> QED
  BY <1>1, ImportsInvariance, PTL

(* Every sequence below the cursor has a row or was accepted as lost. *)
THEOREM HolesAreAccepted == ImportsSpec => []HolesWaived
<1>1. ImportsInv => HolesWaived
  BY DEF ImportsInv, IndexInv
<1> QED
  BY <1>1, ImportsInvariance, PTL

(* The first place of an event of a batch. *)
First(events, e) ==
  CHOOSE i \in DOMAIN events : events[i] = e /\ \A j \in 1 .. (i - 1) : events[j] # e

(* There is one. *)
LEMMA FirstPlace ==
  ASSUME NEW E, NEW events \in Seq(E), NEW e \in ToSet(events)
  PROVE  /\ First(events, e) \in 1 .. Len(events)
         /\ events[First(events, e)] = e
         /\ FirstMet(events, First(events, e))
<1>1. /\ Len(events) \in Nat /\ DOMAIN events = 1 .. Len(events)
      /\ \E i \in 1 .. Len(events) : events[i] = e
  BY DEF ToSet
<1> DEFINE Where == {i \in DOMAIN events : events[i] = e}
<1>2. Where # {} /\ Where \subseteq Nat
  BY <1>1
<1>3. PICK i \in Where : \A j \in Where : i <= j
  BY <1>2, LeastNumber
<1>4. events[i] = e /\ i \in DOMAIN events /\ \A j \in 1 .. (i - 1) : events[j] # e
  BY <1>1, <1>3
<1>5. /\ First(events, e) \in DOMAIN events
      /\ events[First(events, e)] = e
      /\ \A j \in 1 .. (First(events, e) - 1) : events[j] # e
  BY <1>4 DEF First
<1> QED
  BY <1>1, <1>5 DEF FirstMet

(* The rows of a table that have an origin are of the table's stream. *)
OneStream(table) ==
  \A r \in table.rows : r.stream # NoStream => r.stream = table.stream

(* A valid batch is acceptable. *)
LEMMA ValidIsAcceptable ==
  ASSUME NEW E, NEW S, IsEventSet(E, S), NEW table \in Tables(E, S), OneStream(table),
         NEW events \in Seq(E), NEW lost,
         Verdict(events, table, lost) = "valid"
  PROVE  Acceptable(events, table, lost)
<1> DEFINE enveloped == {e \in ToSet(events) : e.stream # NoStream}
           new == {e \in ToSet(events) \ table.rows : e.stream # NoStream}
           after == Imported(events, table)
<1>0. /\ table \in Tables(E, S) /\ IsEventSet(E, S)
      /\ Len(events) \in Nat /\ DOMAIN events = 1 .. Len(events)
      /\ ToSet(events) = {events[i] : i \in 1 .. Len(events)}
  BY DEF ToSet
<1>1. new = enveloped \ table.rows
  OBVIOUS
<1>2. /\ \A e, f \in ToSet(events) \cup table.rows :
           e.id = f.id /\ e \in ToSet(events) => e = f
      /\ Filled(after, new, table, lost)
      /\ ToSet(events) \subseteq E
      /\ after \in Tables(E, S)
  <2>1. new = {e \in ToSet(events) \ table.rows : e.stream # NoStream}
    OBVIOUS
  <2>2. /\ table \in Tables(E, S) /\ IsEventSet(E, S)
        /\ events \in Seq(E) /\ Verdict(events, table, lost) = "valid"
    BY <1>0
  <2> HIDE DEF new, enveloped
  <2> QED
    BY <2>1, <2>2, ValidImport
<1> HIDE DEF new, after, enveloped
<1>3. /\ \A e \in new : e.stream = after.stream /\ table.next <= e.seq /\ e.seq < after.next
      /\ \A m \in table.next .. (after.next - 1) : m \in lost \/ \E e \in new : e.seq = m
      /\ table.stream # NoStream => after.stream = table.stream
  BY <1>2 DEF Filled
<1>4. /\ \A e \in ToSet(events) : e.seq \in Nat
      /\ table.next \in Nat /\ after.next \in Nat
  BY <1>0, <1>2 DEF Tables, IsEventSet
<1>5. \A e \in enveloped \cap table.rows : e.stream = table.stream
  BY DEF OneStream, enveloped
<1>6. \A e \in enveloped : e.stream = after.stream /\ table.stream \in {NoStream, e.stream}
  BY <1>1, <1>3, <1>5 DEF enveloped
<1>7. ASSUME NEW e \in new, NEW f \in new, First(events, e) < First(events, f)
      PROVE  e.seq < f.seq
  <2> DEFINE i == First(events, e)
             j == First(events, f)
  <2>1. e \in ToSet(events) /\ f \in ToSet(events)
    BY DEF new
  <2>2. /\ i \in 1 .. Len(events) /\ events[i] = e
        /\ j \in 1 .. Len(events) /\ events[j] = f /\ FirstMet(events, j)
    BY <2>1, FirstPlace
  <2>3. i < j
    BY <1>7
  <2> HIDE DEF i, j
  <2>4. {events[i], events[j]} \subseteq Met(events, Len(events)) \ table.rows
    BY <2>2 DEF Met, new
  <2>5. Ascending(events, Len(events), table)
    <3>1. Len(events) \in 0 .. Len(events)
      BY <1>0
    <3>2. ~ Seen(events, table, lost)[Len(events)].refused
      BY DEF Verdict, Continuous
    <3> QED
      BY <1>0, <3>1, <3>2, BatchPassed DEF Passed
  <2> QED
    BY <2>2, <2>3, <2>4, <2>5 DEF Ascending
<1>8. ASSUME NEW e \in new
      PROVE  /\ e.seq >= table.next
             /\ \A n \in table.next .. (e.seq - 1) : n \in lost \/ \E f \in new : f.seq = n
  <2>1. e.seq < after.next /\ e.seq \in Nat /\ table.next <= e.seq
    BY <1>3, <1>4 DEF new
  <2>2. table.next .. (e.seq - 1) \subseteq table.next .. (after.next - 1)
    BY <2>1, <1>4
  <2> QED
    BY <2>1, <2>2, <1>3
<1>9. \A e, f \in enveloped : e.stream = f.stream
  BY <1>6
<1>10. \A e, f \in new : First(events, e) < First(events, f) => e.seq < f.seq
  BY <1>7
<1> QED
  BY <1>1, <1>2, <1>6, <1>8, <1>9, <1>10 DEF Acceptable, First, enveloped

(* An acceptable batch is refused at none of its events. *)
LEMMA AcceptableIsAdmitted ==
  ASSUME NEW E, NEW S, IsEventSet(E, S), NEW table \in Tables(E, S), OneStream(table),
         NEW events \in Seq(E), NEW lost, Acceptable(events, table, lost),
         NEW n \in 1 .. Len(events),
         ~ Seen(events, table, lost)[n-1].refused
  PROVE  ~ Seen(events, table, lost)[n].refused
<1> DEFINE t == Seen(events, table, lost)[n-1]
           e == events[n]
           enveloped == {f \in ToSet(events) : f.stream # NoStream}
           new == enveloped \ table.rows
           sofar == Met(events, n-1) \ table.rows
<1>0. /\ table \in Tables(E, S) /\ IsEventSet(E, S)
      /\ Len(events) \in Nat /\ n - 1 \in 0 .. Len(events) /\ n \in Nat
      /\ e \in E /\ e \in ToSet(events)
      /\ \A i \in 1 .. Len(events) : events[i] \in ToSet(events)
  BY DEF ToSet
<1>1. /\ \A f, g \in enveloped : f.stream = g.stream
      /\ \A f \in enveloped : table.stream \in {NoStream, f.stream}
      /\ \A f, g \in new : First(events, f) < First(events, g) => f.seq < g.seq
      /\ \A f \in new : /\ f.seq >= table.next
                        /\ \A m \in table.next .. (f.seq - 1) :
                             m \in lost \/ \E g \in new : g.seq = m
  BY DEF Acceptable, First
<1>2. /\ t \in SeenTypes(E, S)
      /\ t.events = Met(events, n-1) /\ Filled(t, sofar, table, lost)
  <2>1. /\ t \in SeenTypes(E, S)
        /\ Passed(t, events, n-1, table, lost)
    BY <1>0, BatchPassed
  <2>2. ~ t.refused
    OBVIOUS
  <2> HIDE DEF t
  <2> QED
    BY <2>1, <2>2 DEF Passed
<1>3. Seen(events, table, lost)[n] = Admit(t, e, table, lost)
  BY <1>0, SeenIterates
<1>4. sofar \subseteq new
  BY <1>0 DEF Met
<1>5. \A f \in new : f \in ToSet(events) /\ f.seq \in Nat /\ f.stream # NoStream
  BY <1>0 DEF IsEventSet, ToSet
<1>6. /\ \A f \in sofar : f.stream = t.stream /\ f.seq < t.next
      /\ sofar = {} => t.next = table.next /\ t.stream = table.stream
      /\ sofar # {} => \E f \in sofar : t.next = f.seq + 1
      /\ table.next \in Nat /\ t.next \in Nat /\ table.next <= t.next
  BY <1>0, <1>2 DEF Filled, Tables, SeenTypes
<1>7. CASE e.stream = NoStream \/ e \in Met(events, n-1)
  <2>1. Admit(t, e, table, lost) = t
    BY <1>2, <1>7 DEF Admit
  <2> QED
    BY <1>3, <2>1
<1>8. CASE e.stream # NoStream /\ e \notin Met(events, n-1)
  <2>1. e \in enveloped
    BY <1>0, <1>8
  <2>2. t.stream \in {NoStream, e.stream}
    BY <1>1, <1>4, <1>6, <2>1
  <2>3. ASSUME e \notin table.rows
        PROVE  Follows(t.next, e.seq, lost)
    <3>1. e \in new /\ e.seq \in Nat
      BY <1>5, <2>1, <2>3
    <3>2. ASSUME NEW f \in new
          PROVE  /\ First(events, f) \in 1 .. Len(events) /\ events[First(events, f)] = f
                 /\ \A k \in 1 .. (First(events, f) - 1) : events[k] # f
      BY <1>5, FirstPlace DEF FirstMet
    <3>3. First(events, e) = n
      <4>1. \A k \in 1 .. (n - 1) : events[k] # e
        BY <1>8 DEF Met
      <4>2. /\ First(events, e) \in 1 .. Len(events) /\ events[First(events, e)] = e
            /\ \A k \in 1 .. (First(events, e) - 1) : events[k] # e
        BY <3>1, <3>2
      <4>3. First(events, e) \notin 1 .. (n - 1)
        BY <4>1, <4>2
      <4>4. n \notin 1 .. (First(events, e) - 1)
        BY <4>2
      <4> QED
        BY <1>0, <4>2, <4>3, <4>4
    <3>4. \A f \in sofar : f.seq < e.seq
      <4> SUFFICES ASSUME NEW f \in sofar
                   PROVE  f.seq < e.seq
        OBVIOUS
      <4>1. PICK i \in 1 .. (n - 1) : events[i] = f
        BY DEF Met
      <4>2. /\ First(events, f) \in 1 .. Len(events)
            /\ \A k \in 1 .. (First(events, f) - 1) : events[k] # f
        BY <1>4, <3>2
      <4>3. First(events, f) < n
        BY <1>0, <4>1, <4>2
      <4> QED
        BY <1>1, <1>4, <3>1, <3>3, <4>3
    <3>5. t.next <= e.seq
      BY <1>1, <1>4, <1>5, <1>6, <3>1, <3>4
    <3>6. ASSUME NEW m \in t.next .. (e.seq - 1)
          PROVE  m \in lost
      <4>1. m \in table.next .. (e.seq - 1) /\ t.next <= m /\ m < e.seq
        BY <1>6, <3>1
      <4>2. SUFFICES ASSUME NEW f \in new, f.seq = m
                     PROVE  FALSE
        BY <1>1, <3>1, <4>1
      <4>3. /\ First(events, f) \in 1 .. Len(events) /\ events[First(events, f)] = f
        BY <3>2
      <4>4. CASE First(events, f) < n
        <5>1. First(events, f) \in 1 .. (n - 1)
          BY <1>0, <4>3, <4>4
        <5>2. f \in sofar
          BY <4>3, <5>1 DEF Met
        <5> QED
          BY <1>5, <1>6, <4>1, <4>2, <5>2
      <4>5. CASE n < First(events, f)
        BY <1>1, <1>5, <3>1, <3>3, <4>1, <4>2, <4>5
      <4>6. CASE n = First(events, f)
        BY <4>1, <4>2, <4>3, <4>6
      <4> QED
        BY <1>0, <4>3, <4>4, <4>5, <4>6
    <3> QED
      BY <3>5, <3>6 DEF Follows
  <2> HIDE DEF t, e
  <2>4. ~ Admit(t, e, table, lost).refused
    <3>1. ~ t.refused
      BY DEF t
    <3>2. ~ (\/ t.stream \notin {NoStream, e.stream}
             \/ e \notin table.rows /\ ~ Follows(t.next, e.seq, lost))
      BY <2>2, <2>3
    <3>3. CASE e \in table.rows
      <4>1. Admit(t, e, table, lost) = [t EXCEPT !.events = @ \cup {e}]
        BY <1>2, <1>8, <3>1, <3>2, <3>3 DEF Admit
      <4> QED
        BY <1>2, <3>1, <4>1 DEF SeenTypes
    <3>4. CASE e \notin table.rows
      BY <1>2, <1>8, <3>1, <3>2, <3>4 DEF Admit
    <3> QED
      BY <3>3, <3>4
  <2> QED
    BY <1>3, <2>4
<1> QED
  BY <1>7, <1>8

(* An acceptable batch is valid. *)
LEMMA AcceptableIsValid ==
  ASSUME NEW E, NEW S, IsEventSet(E, S), NEW table \in Tables(E, S), OneStream(table),
         NEW events \in Seq(E), NEW lost, Acceptable(events, table, lost)
  PROVE  Verdict(events, table, lost) = "valid"
<1> DEFINE s == Seen(events, table, lost)
           Wrong == {n \in 0 .. Len(events) : s[n].refused}
<1>0. Len(events) \in Nat
  OBVIOUS
<1>1. ~ s[0].refused
  <2>1. s[0] = Unread(table)
    BY <1>0, SeenIterates
  <2> HIDE DEF s
  <2> QED
    BY <2>1 DEF Unread
<1>2. \A n \in 1 .. Len(events) : ~ s[n-1].refused => ~ s[n].refused
  BY AcceptableIsAdmitted
<1> HIDE DEF s
<1>3. Wrong = {}
  <2> SUFFICES ASSUME Wrong # {}
               PROVE  FALSE
    OBVIOUS
  <2>1. PICK n \in Wrong : \A k \in Wrong : n <= k
    <3>1. Wrong \subseteq Nat
      BY <1>0
    <3> QED
      BY <3>1, LeastNumber
  <2>2. n \in 1 .. Len(events) /\ n - 1 \in 0 .. Len(events) /\ n - 1 < n
    BY <1>0, <1>1, <2>1
  <2> QED
    BY <1>2, <2>1, <2>2
<1>4. Continuous(events, table, lost)
  <2>1. Len(events) \in 0 .. Len(events)
    BY <1>0
  <2> QED
    BY <1>3, <2>1 DEF Continuous, s
<1>5. ~ Collide(ToSet(events) \cup
                  {r \in table.rows : \E e \in ToSet(events) : e.id = r.id})
  <2>1. \A e, f \in ToSet(events) \cup table.rows : e.id = f.id /\ e \in ToSet(events) => e = f
    BY DEF Acceptable
  <2> QED
    BY <2>1 DEF Collide
<1> QED
  BY <1>4, <1>5 DEF Verdict

(* So the validation decides exactly what Acceptable says. *)
LEMMA VerdictOfTable ==
  ASSUME NEW E, NEW S, IsEventSet(E, S), NEW table \in Tables(E, S), OneStream(table),
         NEW events \in Seq(E), NEW lost
  PROVE  Verdict(events, table, lost) = "valid" <=> Acceptable(events, table, lost)
BY ValidIsAcceptable, AcceptableIsValid

(* ... and for the index, whatever events its rows and the batch are among. *)
LEMMA IndexVerdicts ==
  ASSUME NEW E, IsNumbered(E), IndexInv(E), Candidates \subseteq E
  PROVE  VerdictsRight
<1>1. index \in Tables(E, Streams(E)) /\ IsEventSet(E, Streams(E)) /\ OneStream(index)
  BY NumberedAreEvents DEF IndexInv, RowsIdentified, Enveloped, OneStream
<1>2. Batches \subseteq Seq(E)
  BY BatchesAreSequences
<1> QED
  BY <1>1, <1>2, VerdictOfTable DEF VerdictsRight

(***************************************************************************)
(* The validation's loop decides exactly what Acceptable says without one, *)
(* for every batch and whatever was imported before.                       *)
(***************************************************************************)
THEOREM VerdictsAreRight == ImportsSpec => []VerdictsRight
<1>1. ImportsInv => VerdictsRight
  BY IndexVerdicts, CandidatesAreNumbered DEF ImportsInv
<1> QED
  BY <1>1, ImportsInvariance, PTL

-----------------------------------------------------------------------------
(* The preflight: the lines of its sources. *)

(* The manifest is one that may be, and what is done of it. *)
Progress ==
  /\ manifest \in Manifests \cup {<<>>}
  /\ done \in 0 .. Len(manifest)

(* A place is a number of a source and a number of a line of it. *)
LEMMA PlacesAre ==
  ASSUME manifest \in Manifests \cup {<<>>}
  PROVE  /\ Len(manifest) \in Nat
         /\ DOMAIN manifest = 1 .. Len(manifest)
         /\ \A i \in 1 .. Len(manifest) :
              /\ Len(manifest[i].lines) \in Nat
              /\ DOMAIN manifest[i].lines = 1 .. Len(manifest[i].lines)
         /\ \A i \in 1 .. Len(manifest) : \A n \in 1 .. Len(manifest[i].lines) :
              <<i, n>> \in Places /\ LineAt(<<i, n>>) = manifest[i].lines[n]
         /\ \A p \in Places :
              /\ p[1] \in 1 .. Len(manifest) /\ p[2] \in 1 .. Len(manifest[p[1]].lines)
              /\ p = <<p[1], p[2]>>
              /\ LineAt(p).event.seq \in Nat
              /\ LineAt(p).valid /\ HasOrigin(LineAt(p)) => LineAt(p).event.seq >= 1
<1>1. manifest \in Seq(ToSet(manifest))
  <2>1. CASE manifest = <<>>
    BY <2>1
  <2>2. CASE manifest \in Manifests
    BY <2>2, ManifestsAssumption
  <2> QED
    BY <2>1, <2>2
<1>2. Len(manifest) \in Nat /\ DOMAIN manifest = 1 .. Len(manifest)
  BY <1>1
<1>3. ASSUME NEW i \in 1 .. Len(manifest)
      PROVE  /\ manifest[i].lines \in Seq(ToSet(manifest[i].lines))
             /\ \A l \in ToSet(manifest[i].lines) :
                  /\ l.event.seq \in Nat
                  /\ l.valid /\ HasOrigin(l) => l.event.seq >= 1
  <2>1. manifest \in Manifests
    <3> SUFFICES ASSUME manifest = <<>>
                 PROVE  FALSE
      OBVIOUS
    <3>1. Len(manifest) = 0
      OBVIOUS
    <3> QED
      BY <3>1
  <2>2. manifest[i] \in ToSet(manifest)
    BY <1>2 DEF ToSet
  <2> QED
    BY <2>1, <2>2, ManifestsAssumption DEF HasOrigin
<1>4. \A i \in 1 .. Len(manifest) :
        /\ Len(manifest[i].lines) \in Nat
        /\ DOMAIN manifest[i].lines = 1 .. Len(manifest[i].lines)
  BY <1>3
<1>5. \A i \in 1 .. Len(manifest) : \A n \in 1 .. Len(manifest[i].lines) :
        <<i, n>> \in Places /\ LineAt(<<i, n>>) = manifest[i].lines[n]
  BY <1>2, <1>4 DEF Places, LineAt
<1>6. ASSUME NEW p \in Places
      PROVE  /\ p[1] \in 1 .. Len(manifest) /\ p[2] \in 1 .. Len(manifest[p[1]].lines)
             /\ p = <<p[1], p[2]>>
             /\ LineAt(p).event.seq \in Nat
             /\ LineAt(p).valid /\ HasOrigin(LineAt(p)) => LineAt(p).event.seq >= 1
  <2>1. PICK i \in 1 .. Len(manifest) : \E n \in 1 .. Len(manifest[i].lines) : p = <<i, n>>
    BY <1>2, <1>4 DEF Places
  <2>2. PICK n \in 1 .. Len(manifest[i].lines) : p = <<i, n>>
    BY <2>1
  <2>3. LineAt(p) \in ToSet(manifest[i].lines)
    BY <1>4, <1>5, <2>2 DEF ToSet
  <2>4. p[1] = i /\ p[2] = n
    BY <2>2
  <2> QED
    BY <1>3, <2>2, <2>3, <2>4
<1> QED
  BY <1>2, <1>4, <1>5, <1>6

(* The places before the i-th source, and of its first n lines. *)
ReadUpTo(i, n) == {p \in Places : p[1] < i \/ (p[1] = i /\ p[2] <= n)}

(* A source begins where the one before it ends, and goes on by a line at a time. *)
LEMMA ReadOn ==
  ASSUME manifest \in Manifests \cup {<<>>}
  PROVE  /\ ReadUpTo(1, 0) = {}
         /\ ReadUpTo(Len(manifest) + 1, 0) = Places
         /\ \A i \in 1 .. Len(manifest) :
              /\ ReadUpTo(i, Len(manifest[i].lines)) = ReadUpTo(i + 1, 0)
              /\ \A n \in 1 .. Len(manifest[i].lines) :
                   /\ ReadUpTo(i, n) = ReadUpTo(i, n-1) \cup {<<i, n>>}
                   /\ <<i, n>> \notin ReadUpTo(i, n-1)
<1>1. /\ Len(manifest) \in Nat
      /\ \A i \in 1 .. Len(manifest) : Len(manifest[i].lines) \in Nat
      /\ \A i \in 1 .. Len(manifest) : \A n \in 1 .. Len(manifest[i].lines) : <<i, n>> \in Places
      /\ \A p \in Places :
           /\ p[1] \in 1 .. Len(manifest) /\ p[2] \in 1 .. Len(manifest[p[1]].lines)
           /\ p = <<p[1], p[2]>>
  BY PlacesAre
<1>2. ReadUpTo(1, 0) = {} /\ ReadUpTo(Len(manifest) + 1, 0) = Places
  BY <1>1 DEF ReadUpTo
<1>3. ASSUME NEW i \in 1 .. Len(manifest)
      PROVE  ReadUpTo(i, Len(manifest[i].lines)) = ReadUpTo(i + 1, 0)
  BY <1>1 DEF ReadUpTo
<1>4. ASSUME NEW i \in 1 .. Len(manifest), NEW n \in 1 .. Len(manifest[i].lines)
      PROVE  /\ ReadUpTo(i, n) = ReadUpTo(i, n-1) \cup {<<i, n>>}
             /\ <<i, n>> \notin ReadUpTo(i, n-1)
  <2>1. <<i, n>> \in Places /\ <<i, n>>[1] = i /\ <<i, n>>[2] = n
    BY <1>1
  <2>2. n \in Nat /\ i \in Nat
    BY <1>1
  <2>3. <<i, n>> \notin ReadUpTo(i, n-1)
    BY <2>1, <2>2 DEF ReadUpTo
  <2>4. <<i, n>> \in ReadUpTo(i, n) /\ ReadUpTo(i, n-1) \subseteq ReadUpTo(i, n)
    BY <1>1, <2>1, <2>2 DEF ReadUpTo
  <2>5. ASSUME NEW p \in ReadUpTo(i, n), p \notin ReadUpTo(i, n-1)
        PROVE  p = <<i, n>>
    <3>1. p[1] = i /\ p[2] = n
      BY <1>1, <2>2, <2>5 DEF ReadUpTo
    <3> QED
      BY <1>1, <3>1 DEF ReadUpTo
  <2> QED
    BY <2>3, <2>4, <2>5
<1> QED
  BY <1>2, <1>3, <1>4

-----------------------------------------------------------------------------
(* The preflight: what a set of places comes to. *)

(* The line at a place is an event, and its digest is not known to be wrong. *)
Sound(p) ==
  /\ LineAt(p).valid
  /\ manifest[p[1]].domain = "central" /\ HasOrigin(LineAt(p)) => LineAt(p).digest # "wrong"

(* Two places that share an id, an origin or a key have one line. *)
Compatible(p, q) ==
  LET l == LineAt(p)
      m == LineAt(q)
  IN  /\ l.event.id = m.event.id => l = m /\ manifest[p[1]].repo = manifest[q[1]].repo
      /\ HasOrigin(l) /\ Origin(l) = Origin(m) => l = m
      /\ l.key # NoKey /\ l.key = m.key => l = m

Agree(S) == (\A p \in S : Sound(p)) /\ \A p, q \in S : Compatible(p, q)

EntryAt(p) == [line |-> LineAt(p), repo |-> manifest[p[1]].repo]
DigestRight(p) ==
  manifest[p[1]].domain = "central" /\ HasOrigin(LineAt(p)) /\ LineAt(p).digest = "right"
Ids(S) == {LineAt(p).event.id : p \in S}

CountsOf(t, S) ==
  /\ IsFiniteSet(S) /\ IsFiniteSet(Ids(S)) /\ IsFiniteSet(t.ids)
  /\ Cardinality(t.ids) = Cardinality(Ids(S))
  /\ t.copies = Cardinality(S) - Cardinality(Ids(S))
  /\ t.lines = Cardinality(S)
  /\ t.verified = Cardinality({p \in S : DigestRight(p)})

(* The tables are those of the places: refused if they disagree, else images and counts. *)
Tallied(t, S) ==
  /\ "refused" \in DOMAIN t
  /\ t.refused => ~ Agree(S)
  /\ ~ t.refused =>
       /\ Agree(S)
       /\ t.ids = {EntryAt(p) : p \in S}
       /\ t.origins = {LineAt(p) : p \in {q \in S : HasOrigin(LineAt(q))}}
       /\ t.keys = {LineAt(p) : p \in {q \in S : LineAt(q).key # NoKey}}
       /\ CountsOf(t, S)

(* Nothing is tallied of no place. *)
LEMMA UnseenTallied == Tallied(Unseen, {})
<1>1. /\ "refused" \in DOMAIN Unseen
      /\ Unseen.refused = FALSE /\ Unseen.ids = {} /\ Unseen.origins = {} /\ Unseen.keys = {}
      /\ Unseen.copies = 0 /\ Unseen.lines = 0 /\ Unseen.verified = 0
  BY DEF Unseen
<1>2. Ids({}) = {} /\ {p \in {} : DigestRight(p)} = {}
  BY DEF Ids
<1>3. CountsOf(Unseen, {})
  BY <1>1, <1>2, FS_EmptySet DEF CountsOf
<1>4. Agree({})
  BY DEF Agree
<1> QED
  BY <1>1, <1>3, <1>4 DEF Tallied

(* Of places that agree, one more agrees with them if the tables admit its line. *)
LEMMA AdmissibleAgrees ==
  ASSUME NEW t, NEW S, Tallied(t, S), ~ t.refused, NEW p
  PROVE  Admissible(t, LineAt(p), manifest[p[1]]) <=> Agree(S \cup {p})
<1>1. /\ Agree(S)
      /\ t.ids = {EntryAt(q) : q \in S}
      /\ t.origins = {LineAt(q) : q \in {r \in S : HasOrigin(LineAt(r))}}
      /\ t.keys = {LineAt(q) : q \in {r \in S : LineAt(r).key # NoKey}}
  BY DEF Tallied
<1>2. (\A entry \in t.ids : IsCopy(entry, LineAt(p), manifest[p[1]]))
      <=> \A q \in S : LineAt(q).event.id = LineAt(p).event.id =>
                         LineAt(q) = LineAt(p) /\ manifest[q[1]].repo = manifest[p[1]].repo
  <2>1. \A q \in S : EntryAt(q).line = LineAt(q) /\ EntryAt(q).repo = manifest[q[1]].repo
    BY DEF EntryAt
  <2>2. \A entry \in t.ids : \E q \in S : entry = EntryAt(q)
    BY <1>1
  <2>3. \A q \in S : EntryAt(q) \in t.ids
    BY <1>1
  <2> QED
    BY <2>1, <2>2, <2>3 DEF IsCopy
<1>3. ASSUME HasOrigin(LineAt(p))
      PROVE  (\A l \in t.origins : l.event.stream = LineAt(p).event.stream
                                   /\ l.event.seq = LineAt(p).event.seq => l = LineAt(p))
             <=> \A q \in S : Origin(LineAt(q)) = Origin(LineAt(p)) => LineAt(q) = LineAt(p)
  BY <1>1, <1>3 DEF Origin, HasOrigin
<1>4. ASSUME LineAt(p).key # NoKey
      PROVE  (\A l \in t.keys : l.key = LineAt(p).key => l = LineAt(p))
             <=> \A q \in S : LineAt(q).key = LineAt(p).key => LineAt(q) = LineAt(p)
  BY <1>1, <1>4
<1>5. ASSUME Admissible(t, LineAt(p), manifest[p[1]])
      PROVE  Agree(S \cup {p})
  <2>1. Sound(p)
    BY <1>5 DEF Admissible, Sound
  <2>2. ASSUME NEW q \in S
        PROVE  Compatible(p, q) /\ Compatible(q, p)
    <3>1. LineAt(q).event.id = LineAt(p).event.id =>
            LineAt(q) = LineAt(p) /\ manifest[q[1]].repo = manifest[p[1]].repo
      BY <1>2, <1>5 DEF Admissible
    <3>2. HasOrigin(LineAt(p)) /\ Origin(LineAt(q)) = Origin(LineAt(p)) => LineAt(q) = LineAt(p)
      BY <1>3, <1>5 DEF Admissible
    <3>3. LineAt(p).key # NoKey /\ LineAt(q).key = LineAt(p).key => LineAt(q) = LineAt(p)
      BY <1>4, <1>5 DEF Admissible
    <3>4. Origin(LineAt(q)) = Origin(LineAt(p)) => (HasOrigin(LineAt(q)) <=> HasOrigin(LineAt(p)))
      BY DEF Origin, HasOrigin
    <3> QED
      BY <3>1, <3>2, <3>3, <3>4 DEF Compatible
  <2>3. Compatible(p, p)
    BY DEF Compatible
  <2> QED
    BY <1>1, <2>1, <2>2, <2>3 DEF Agree
<1>6. ASSUME Agree(S \cup {p})
      PROVE  Admissible(t, LineAt(p), manifest[p[1]])
  <2>1. Sound(p) /\ \A q \in S : Compatible(q, p) /\ Compatible(p, q)
    BY <1>6 DEF Agree
  <2>2. \A entry \in t.ids : IsCopy(entry, LineAt(p), manifest[p[1]])
    BY <1>2, <2>1 DEF Compatible
  <2>3. HasOrigin(LineAt(p)) =>
          \A l \in t.origins : l.event.stream = LineAt(p).event.stream
                               /\ l.event.seq = LineAt(p).event.seq => l = LineAt(p)
    BY <1>3, <2>1 DEF Compatible
  <2>4. LineAt(p).key # NoKey => \A l \in t.keys : l.key = LineAt(p).key => l = LineAt(p)
    BY <1>4, <2>1 DEF Compatible
  <2> QED
    BY <2>1, <2>2, <2>3, <2>4 DEF Sound, Admissible
<1> QED
  BY <1>5, <1>6

(* One element more, counted. *)
LEMMA OneMore ==
  ASSUME NEW T, IsFiniteSet(T), NEW x, NEW U, U = T \cup {x}
  PROVE  /\ IsFiniteSet(U) /\ Cardinality(T) \in Nat
         /\ Cardinality(U) = Cardinality(T) + (IF x \in T THEN 0 ELSE 1)
BY FS_AddElement, FS_CardinalityType

(* What agrees does so in part. *)
LEMMA AgreesInPart ==
  ASSUME NEW T, NEW S \in SUBSET T, Agree(T)
  PROVE  Agree(S)
BY DEF Agree

(* The counts of the loop's tables, when a line is folded that agrees with them. *)
LEMMA CountStep ==
  ASSUME NEW t, NEW S, CountsOf(t, S), t.ids = {EntryAt(q) : q \in S},
         NEW p, p \notin S, Agree(S \cup {p}),
         NEW u,
         u.ids = t.ids \cup {EntryAt(p)},
         u.copies = t.copies + (IF \E q \in S : LineAt(q).event.id = LineAt(p).event.id
                                THEN 1 ELSE 0),
         u.lines = t.lines + 1,
         u.verified = t.verified + (IF DigestRight(p) THEN 1 ELSE 0)
  PROVE  CountsOf(u, S \cup {p})
<1> DEFINE id == LineAt(p).event.id
           T == {q \in S : DigestRight(q)}
<1>1. /\ IsFiniteSet(S) /\ IsFiniteSet(Ids(S)) /\ IsFiniteSet(t.ids)
      /\ Cardinality(t.ids) = Cardinality(Ids(S))
      /\ t.copies = Cardinality(S) - Cardinality(Ids(S))
      /\ t.lines = Cardinality(S) /\ t.verified = Cardinality(T)
  BY DEF CountsOf
<1>2. IsFiniteSet(T)
  <2>1. T \in SUBSET S
    OBVIOUS
  <2> HIDE DEF T
  <2> QED
    BY <1>1, <2>1, FS_Subset
<1>3. /\ IsFiniteSet(S \cup {p}) /\ Cardinality(S \cup {p}) = Cardinality(S) + 1
      /\ Cardinality(S) \in Nat /\ Cardinality(Ids(S)) \in Nat /\ Cardinality(T) \in Nat
  BY <1>1, <1>2, FS_AddElement, FS_CardinalityType
<1>4. Ids(S \cup {p}) = Ids(S) \cup {id}
  BY DEF Ids
<1>5. /\ IsFiniteSet(Ids(S \cup {p}))
      /\ Cardinality(Ids(S \cup {p})) = Cardinality(Ids(S)) + (IF id \in Ids(S) THEN 0 ELSE 1)
  <2> HIDE DEF id, T
  <2>1. IsFiniteSet(Ids(S))
    BY <1>1
  <2> QED
    BY ONLY <1>4, <2>1, OneMore
<1>6. id \in Ids(S) <=> \E q \in S : LineAt(q).event.id = LineAt(p).event.id
  BY DEF Ids
<1>7. id \in Ids(S) <=> EntryAt(p) \in t.ids
  <2>1. ASSUME NEW q \in S, LineAt(q).event.id = id
        PROVE  EntryAt(p) = EntryAt(q)
    <3>1. Compatible(p, q)
      BY DEF Agree
    <3> QED
      BY <2>1, <3>1 DEF Compatible, EntryAt
  <2>2. ASSUME NEW q \in S, EntryAt(p) = EntryAt(q)
        PROVE  LineAt(q).event.id = id
    <3>1. EntryAt(p).line = LineAt(p) /\ EntryAt(q).line = LineAt(q)
      BY DEF EntryAt
    <3> QED
      BY <2>2, <3>1
  <2> HIDE DEF id
  <2> QED
    BY <2>1, <2>2 DEF Ids
<1>8. /\ IsFiniteSet(u.ids)
      /\ Cardinality(u.ids) = Cardinality(t.ids) + (IF EntryAt(p) \in t.ids THEN 0 ELSE 1)
  <2>1. IsFiniteSet(t.ids) /\ u.ids = t.ids \cup {EntryAt(p)}
    BY <1>1
  <2> QED
    BY ONLY <2>1, OneMore
<1>9. {q \in S \cup {p} : DigestRight(q)} = T \cup (IF DigestRight(p) THEN {p} ELSE {})
  OBVIOUS
<1>10. Cardinality({q \in S \cup {p} : DigestRight(q)})
         = Cardinality(T) + (IF DigestRight(p) THEN 1 ELSE 0)
  <2>1. p \notin T
    OBVIOUS
  <2> HIDE DEF T
  <2>2. CASE DigestRight(p)
    <3>1. {q \in S \cup {p} : DigestRight(q)} = T \cup {p}
      BY <1>9, <2>2
    <3>2. Cardinality(T \cup {p}) = Cardinality(T) + 1
      BY ONLY <1>2, <2>1, FS_AddElement
    <3> QED
      BY ONLY <2>2, <3>1, <3>2
  <2>3. CASE ~ DigestRight(p)
    <3>1. {q \in S \cup {p} : DigestRight(q)} = T
      BY <1>9, <2>3
    <3>2. Cardinality(T) \in Nat
      BY <1>3
    <3>3. Cardinality(T) = Cardinality(T) + 0
      BY ONLY <3>2
    <3> QED
      BY ONLY <2>3, <3>1, <3>3
  <2> QED
    BY <2>2, <2>3
<1> HIDE DEF T, id
<1>11. u.copies = Cardinality(S \cup {p}) - Cardinality(Ids(S \cup {p}))
  BY <1>1, <1>3, <1>5, <1>6
<1>12. Cardinality(u.ids) = Cardinality(Ids(S \cup {p}))
  BY <1>1, <1>3, <1>5, <1>7, <1>8
<1> QED
  BY <1>1, <1>3, <1>5, <1>8, <1>10, <1>11, <1>12 DEF CountsOf

(* One turn of the loop. *)
LEMMA TallyStep ==
  ASSUME NEW t, NEW S, Tallied(t, S), NEW p, p \notin S,
         NEW u, u = FoldLine(t, LineAt(p), manifest[p[1]])
  PROVE  Tallied(u, S \cup {p})
<1> DEFINE line == LineAt(p)
           source == manifest[p[1]]
<1>1. CASE t.refused
  <2>1. u = [t EXCEPT !.refused = TRUE]
    BY <1>1 DEF FoldLine
  <2>2. u.refused /\ "refused" \in DOMAIN u
    BY <2>1 DEF Tallied
  <2>3. ~ Agree(S \cup {p})
    BY <1>1, AgreesInPart DEF Tallied
  <2> QED
    BY <2>2, <2>3 DEF Tallied
<1>2. CASE ~ t.refused /\ ~ Admissible(t, line, source)
  <2>1. u = [t EXCEPT !.refused = TRUE]
    BY <1>2 DEF FoldLine
  <2>2. u.refused /\ "refused" \in DOMAIN u
    BY <2>1 DEF Tallied
  <2>3. ~ Agree(S \cup {p})
    BY <1>2, AdmissibleAgrees
  <2> QED
    BY <2>2, <2>3 DEF Tallied
<1>3. CASE ~ t.refused /\ Admissible(t, line, source)
  <2>1. Agree(S \cup {p})
    BY <1>3, AdmissibleAgrees
  <2>2. /\ t.ids = {EntryAt(q) : q \in S}
        /\ t.origins = {LineAt(q) : q \in {r \in S : HasOrigin(LineAt(r))}}
        /\ t.keys = {LineAt(q) : q \in {r \in S : LineAt(r).key # NoKey}}
        /\ CountsOf(t, S)
    BY <1>3 DEF Tallied
  <2> DEFINE copy == \E entry \in t.ids : entry.line.event.id = line.event.id
             verified == HasOrigin(line) /\ source.domain = "central" /\ line.digest = "right"
  <2>3. u = [refused |-> FALSE,
             ids |-> t.ids \cup {[line |-> line, repo |-> source.repo]},
             origins |-> t.origins \cup (IF HasOrigin(line) THEN {line} ELSE {}),
             keys |-> t.keys \cup (IF line.key # NoKey THEN {line} ELSE {}),
             copies |-> t.copies + (IF copy THEN 1 ELSE 0),
             lines |-> t.lines + 1,
             verified |-> t.verified + (IF verified THEN 1 ELSE 0)]
    BY <1>3 DEF FoldLine
  <2> HIDE DEF copy, verified
  <2>4. /\ ~ u.refused /\ "refused" \in DOMAIN u
        /\ u.ids = t.ids \cup {[line |-> line, repo |-> source.repo]}
        /\ u.origins = t.origins \cup (IF HasOrigin(line) THEN {line} ELSE {})
        /\ u.keys = t.keys \cup (IF line.key # NoKey THEN {line} ELSE {})
        /\ u.copies = t.copies + (IF copy THEN 1 ELSE 0)
        /\ u.lines = t.lines + 1
        /\ u.verified = t.verified + (IF verified THEN 1 ELSE 0)
    BY <2>3
  <2>5. copy <=> \E q \in S : LineAt(q).event.id = line.event.id
    <3>1. \A q \in S : EntryAt(q).line = LineAt(q)
      BY DEF EntryAt
    <3> QED
      BY <2>2, <3>1 DEF copy
  <2>6. verified <=> DigestRight(p)
    BY DEF verified, DigestRight
  <2>7. u.ids = t.ids \cup {EntryAt(p)}
    BY <2>4 DEF EntryAt
  <2>8. CountsOf(u, S \cup {p})
    BY <2>1, <2>2, <2>4, <2>5, <2>6, <2>7, CountStep
  <2>9. u.ids = {EntryAt(q) : q \in S \cup {p}}
    BY <2>2, <2>7
  <2>10. u.origins = {LineAt(q) : q \in {r \in S \cup {p} : HasOrigin(LineAt(r))}}
    BY <2>2, <2>4
  <2>11. u.keys = {LineAt(q) : q \in {r \in S \cup {p} : LineAt(r).key # NoKey}}
    BY <2>2, <2>4
  <2> QED
    BY <2>1, <2>4, <2>8, <2>9, <2>10, <2>11 DEF Tallied
<1> QED
  BY <1>1, <1>2, <1>3

(* A file is folded by the iteration of FoldLine. *)
LEMMA TalliesIterate ==
  ASSUME NEW tables, NEW source, NEW lines, Len(lines) \in Nat
  PROVE  /\ Tallies(tables, source, lines)[0] = tables
         /\ \A n \in 1 .. Len(lines) :
              Tallies(tables, source, lines)[n] =
                FoldLine(Tallies(tables, source, lines)[n-1], lines[n], source)
<1> DEFINE After(s, n) == FoldLine(s, lines[n], source)
           IsTrace(n, f) ==
             f = [i \in 0 .. n |-> IF i = 0 THEN tables ELSE After(f[i-1], i)]
           Without == {n \in Nat : ~ \E f : IsTrace(n, f)}
<1>1. Without = {}
  <2> SUFFICES ASSUME Without # {}
               PROVE  FALSE
    OBVIOUS
  <2>1. PICK n \in Without : \A m \in Without : n <= m
    BY LeastNumber
  <2>2. \A m \in Nat : m < n => \E f : IsTrace(m, f)
    <3> HIDE DEF IsTrace
    <3>1. n \in Nat
      OBVIOUS
    <3>2. SUFFICES ASSUME NEW m \in Nat, m < n, m \in Without
                   PROVE  FALSE
      OBVIOUS
    <3> HIDE DEF Without
    <3> QED
      BY <2>1, <3>1, <3>2
  <2>3. CASE n = 0
    <3> DEFINE f == [i \in 0 .. 0 |-> tables]
    <3>1. \A i \in 0 .. 0 : i = 0
      OBVIOUS
    <3> HIDE DEF After
    <3>2. f = [i \in 0 .. 0 |-> IF i = 0 THEN tables ELSE After(f[i-1], i)]
      BY <3>1
    <3> QED
      BY <3>2, <2>1, <2>3
  <2>4. CASE n # 0
    <3>1. n \in Nat /\ n - 1 \in Nat /\ n - 1 < n
      BY <2>1, <2>4
    <3>2. PICK f : IsTrace(n - 1, f)
      BY <2>2, <3>1
    <3> DEFINE g == [i \in 0 .. n |-> IF i = n THEN After(f[n-1], n) ELSE f[i]]
    <3>3. \A i \in 0 .. n : g[i] = IF i = 0 THEN tables ELSE After(g[i-1], i)
      <4> SUFFICES ASSUME NEW i \in 0 .. n
                   PROVE  g[i] = IF i = 0 THEN tables ELSE After(g[i-1], i)
        OBVIOUS
      <4> HIDE DEF After
      <4>1. CASE i = n
        BY <3>1, <4>1, <2>4
      <4>2. CASE i # n
        <5>1. i \in 0 .. (n - 1) /\ (i # 0 => i - 1 \in 0 .. n /\ i - 1 # n)
          BY <3>1, <4>2
        <5>2. f[i] = IF i = 0 THEN tables ELSE After(f[i-1], i)
          BY <3>2, <5>1
        <5> QED
          BY <5>1, <5>2, <4>2
      <4> QED
        BY <4>1, <4>2
    <3>4. IsTrace(n, g)
      <4> HIDE DEF After
      <4>1. g = [i \in 0 .. n |-> g[i]]
        OBVIOUS
      <4> QED
        BY <4>1, <3>3
    <3> QED
      BY <3>4, <2>1
  <2> QED
    BY <2>3, <2>4
<1>2. \E f : IsTrace(Len(lines), f)
  BY <1>1
<1>3. Tallies(tables, source, lines) = CHOOSE f : IsTrace(Len(lines), f)
  BY DEF Tallies
<1>4. IsTrace(Len(lines), Tallies(tables, source, lines))
  BY <1>2, <1>3
<1> HIDE DEF After
<1>5. \A n \in 0 .. Len(lines) : Tallies(tables, source, lines)[n] =
         IF n = 0 THEN tables ELSE After(Tallies(tables, source, lines)[n-1], n)
  BY <1>4
<1> QED
  BY <1>5 DEF After

(* The tables after a file, if they were right before it. *)
LEMMA FileTallied ==
  ASSUME manifest \in Manifests \cup {<<>>}, NEW i \in 1 .. Len(manifest),
         NEW t, Tallied(t, ReadUpTo(i, 0)),
         NEW lines, lines = manifest[i].lines
  PROVE  Tallied(Folded(t, manifest[i], lines), ReadUpTo(i + 1, 0))
<1> DEFINE f == Tallies(t, manifest[i], lines)
           Wrong == {n \in 0 .. Len(lines) : ~ Tallied(f[n], ReadUpTo(i, n))}
<1>1. /\ Len(lines) \in Nat
      /\ \A n \in 1 .. Len(lines) : LineAt(<<i, n>>) = lines[n]
  BY PlacesAre
<1>2. f[0] = t /\ \A n \in 1 .. Len(lines) : f[n] = FoldLine(f[n-1], lines[n], manifest[i])
  BY <1>1, TalliesIterate
<1>3. /\ ReadUpTo(i, Len(lines)) = ReadUpTo(i + 1, 0)
      /\ \A n \in 1 .. Len(lines) :
           /\ ReadUpTo(i, n) = ReadUpTo(i, n-1) \cup {<<i, n>>}
           /\ <<i, n>> \notin ReadUpTo(i, n-1)
  BY ReadOn
<1> HIDE DEF f
<1>4. ASSUME NEW n \in 1 .. Len(lines), Tallied(f[n-1], ReadUpTo(i, n-1))
      PROVE  Tallied(f[n], ReadUpTo(i, n))
  <2>1. f[n] = FoldLine(f[n-1], LineAt(<<i, n>>), manifest[<<i, n>>[1]])
    BY <1>1, <1>2
  <2>2. <<i, n>> \notin ReadUpTo(i, n-1) /\ ReadUpTo(i, n) = ReadUpTo(i, n-1) \cup {<<i, n>>}
    BY <1>3
  <2>3. Tallied(f[n], ReadUpTo(i, n-1) \cup {<<i, n>>})
    BY ONLY <1>4, <2>1, <2>2, TallyStep
  <2> QED
    BY <2>2, <2>3
<1>5. Wrong = {}
  <2> SUFFICES ASSUME Wrong # {}
               PROVE  FALSE
    OBVIOUS
  <2>1. PICK n \in Wrong : \A k \in Wrong : n <= k
    <3>1. Wrong \subseteq Nat
      BY <1>1
    <3> QED
      BY <3>1, LeastNumber
  <2>2. n \in 1 .. Len(lines) /\ n - 1 \in 0 .. Len(lines) /\ n - 1 < n
    BY <1>1, <1>2, <2>1
  <2>3. Tallied(f[n-1], ReadUpTo(i, n-1))
    BY <2>1, <2>2
  <2> QED
    BY <1>4, <2>1, <2>2, <2>3
<1>6. Tallied(f[Len(lines)], ReadUpTo(i, Len(lines)))
  <2>1. Len(lines) \in 0 .. Len(lines)
    BY <1>1
  <2> QED
    BY <1>5, <2>1
<1> QED
  BY <1>3, <1>6 DEF Folded, f

(* What a source set must have besides agreement: all origins below its own. *)
NoGaps ==
  \A p \in Places : \A n \in 1 .. LineAt(p).event.seq - 1 :
    HasOrigin(LineAt(p)) =>
      \E q \in Places : Origin(LineAt(q)) = <<LineAt(p).event.stream, n>>

(* To qualify is to agree and to have no gap. *)
LEMMA QualifiesIs == Qualifies <=> Agree(Places) /\ NoGaps
BY DEF Qualifies, Agree, Sound, Compatible, NoGaps

(* Two neighbours that are not consecutive are there exactly if a number is missing. *)
LEMMA GappedIs ==
  ASSUME manifest \in Manifests \cup {<<>>}, Agree(Places),
         NEW lines, lines = {LineAt(p) : p \in {q \in Places : HasOrigin(LineAt(q))}}
  PROVE  Gapped(lines) <=> ~ NoGaps
<1> DEFINE Of(stream) == {m.event.seq : m \in {k \in lines : k.event.stream = stream}}
<1>1. /\ \A l \in lines : \E p \in Places : l = LineAt(p) /\ HasOrigin(l)
      /\ \A p \in Places : HasOrigin(LineAt(p)) => LineAt(p) \in lines
  OBVIOUS
<1>2. \A p \in Places :
        /\ LineAt(p).event.seq \in Nat
        /\ HasOrigin(LineAt(p)) => LineAt(p).event.seq >= 1
  BY PlacesAre DEF Agree, Sound
<1>3. ASSUME NEW stream, stream # NoStream, NEW n
      PROVE  n \in Of(stream) <=> \E q \in Places : Origin(LineAt(q)) = <<stream, n>>
  BY <1>1, <1>3 DEF Origin, HasOrigin
<1>4. ASSUME NEW stream
      PROVE  Of(stream) \subseteq Nat
  BY <1>1, <1>2
<1>5. Gapped(lines) <=>
        \E l \in lines : \E before, after \in {0} \cup Of(l.event.stream) :
          /\ before < after /\ after # before + 1
          /\ \A n \in {0} \cup Of(l.event.stream) : n <= before \/ after <= n
  BY DEF Gapped
<1> HIDE DEF Of
<1>6. ASSUME Gapped(lines)
      PROVE  ~ NoGaps
  <2>1. PICK l \in lines : \E before, after \in {0} \cup Of(l.event.stream) :
          /\ before < after /\ after # before + 1
          /\ \A n \in {0} \cup Of(l.event.stream) : n <= before \/ after <= n
    BY <1>5, <1>6
  <2>2. PICK before \in {0} \cup Of(l.event.stream), after \in {0} \cup Of(l.event.stream) :
          /\ before < after /\ after # before + 1
          /\ \A n \in {0} \cup Of(l.event.stream) : n <= before \/ after <= n
    BY <2>1
  <2>3. before \in Nat /\ after \in Nat /\ after # 0 /\ l.event.stream # NoStream
    BY <1>1, <1>4, <2>2 DEF HasOrigin
  <2>4. after \in Of(l.event.stream)
    BY <2>3
  <2>5. PICK p \in Places : Origin(LineAt(p)) = <<l.event.stream, after>>
    BY <1>3, <2>3, <2>4
  <2>6. HasOrigin(LineAt(p)) /\ LineAt(p).event.stream = l.event.stream /\ LineAt(p).event.seq = after
    BY <2>3, <2>5 DEF Origin, HasOrigin
  <2>7. before + 1 \in 1 .. LineAt(p).event.seq - 1
    BY <2>2, <2>3, <2>6
  <2>8. before + 1 \notin Of(l.event.stream)
    BY <2>2, <2>3
  <2>9. ~ \E q \in Places : Origin(LineAt(q)) = <<LineAt(p).event.stream, before + 1>>
    BY <1>3, <2>3, <2>6, <2>8
  <2> QED
    BY <2>6, <2>7, <2>9 DEF NoGaps
<1>7. ASSUME ~ NoGaps
      PROVE  Gapped(lines)
  <2>1. PICK p \in Places : \E n \in 1 .. LineAt(p).event.seq - 1 :
          /\ HasOrigin(LineAt(p))
          /\ ~ \E q \in Places : Origin(LineAt(q)) = <<LineAt(p).event.stream, n>>
    BY <1>7 DEF NoGaps
  <2>2. PICK n \in 1 .. LineAt(p).event.seq - 1 :
          /\ HasOrigin(LineAt(p))
          /\ ~ \E q \in Places : Origin(LineAt(q)) = <<LineAt(p).event.stream, n>>
    BY <2>1
  <2> DEFINE stream == LineAt(p).event.stream
             seqs == {0} \cup Of(stream)
             Below == {k \in seqs : k < n}
             Above == {k \in seqs : k > n}
  <2>3. /\ stream # NoStream /\ LineAt(p) \in lines /\ LineAt(p).event.seq \in Nat
        /\ n \in Nat /\ n >= 1 /\ n < LineAt(p).event.seq
    BY <1>1, <1>2, <2>2 DEF HasOrigin
  <2>4. seqs \subseteq Nat /\ n \notin seqs /\ LineAt(p).event.seq \in seqs
    <3>1. n \notin Of(stream)
      BY <1>3, <2>2, <2>3
    <3>2. LineAt(p).event.seq \in Of(stream)
      BY <1>3, <2>3 DEF Origin
    <3> QED
      BY <1>4, <2>3, <3>1, <3>2
  <2>5. 0 \in Below /\ LineAt(p).event.seq \in Above
    BY <2>3, <2>4
  <2> HIDE DEF seqs, stream
  <2>6. PICK before \in Below : \A k \in Below : k <= before
    <3>1. Below \subseteq Nat /\ Below # {} /\ \A k \in Below : k <= n
      BY <2>3, <2>4, <2>5
    <3> QED
      BY <2>3, <3>1, GreatestNumber
  <2>7. PICK after \in Above : \A k \in Above : after <= k
    <3>1. Above \subseteq Nat /\ Above # {}
      BY <2>4, <2>5
    <3> QED
      BY <3>1, LeastNumber
  <2>8. /\ before \in seqs /\ after \in seqs /\ before < after /\ after # before + 1
        /\ \A k \in seqs : k <= before \/ after <= k
    <3>1. before \in Nat /\ after \in Nat /\ before < n /\ n < after
      BY <2>4
    <3>2. ASSUME NEW k \in seqs
          PROVE  k <= before \/ after <= k
      <4>1. k < n \/ k > n
        BY <2>3, <2>4
      <4> QED
        BY <2>6, <2>7, <4>1
    <3> QED
      BY <2>3, <3>1, <3>2
  <2> QED
    BY <1>5, <2>3, <2>8 DEF seqs, stream
<1> QED
  BY <1>6, <1>7

-----------------------------------------------------------------------------
(* The preflight: its report. *)

(* The files that are read were what the manifest froze, and the tables are of all their lines. *)
PreflightInv ==
  /\ Progress
  /\ manifest = <<>> => report = NoReport /\ seen = Unseen
  /\ ~ seen.refused /\ Tallied(seen, ReadUpTo(done + 1, 0))
  /\ PreflightRight

(* Before the first file nothing is read, whatever the manifest. *)
LEMMA NothingRead ==
  manifest \in Manifests \cup {<<>>} =>
    Unseen.refused = FALSE /\ Tallied(Unseen, ReadUpTo(1, 0))
BY UnseenTallied, ReadOn DEF Unseen

(* What is tallied stays so while the manifest does. *)
LEMMA TallyStays ==
  ASSUME manifest' = manifest,
         Tallied(seen', ReadUpTo(done' + 1, 0))
  PROVE  Tallied(seen, ReadUpTo(done + 1, 0))'
<1>1. \A p : LineAt(p)' = LineAt(p)
  BY DEF LineAt
<1>2. Places' = Places
  BY DEF Places
<1>3. ReadUpTo(done + 1, 0)' = ReadUpTo(done' + 1, 0)
  BY <1>2 DEF ReadUpTo
<1>4. \A p : /\ Sound(p)' <=> Sound(p)
             /\ DigestRight(p)' <=> DigestRight(p)
             /\ EntryAt(p)' = EntryAt(p)
  BY <1>1 DEF Sound, DigestRight, EntryAt
<1>5. \A p, q : Compatible(p, q)' <=> Compatible(p, q)
  BY <1>1 DEF Compatible
<1>6. \A T : (Agree(T)' <=> Agree(T)) /\ Ids(T)' = Ids(T)
  BY <1>1, <1>4, <1>5 DEF Agree, Ids
<1>7. ASSUME NEW t, NEW T, Tallied(t, T)
      PROVE  Tallied(t, T)'
  BY <1>1, <1>4, <1>6, <1>7 DEF Tallied, CountsOf
<1> QED
  BY <1>3, <1>7

(* The report stays right while manifest and files do. *)
LEMMA RightStays ==
  ASSUME PreflightRight, UNCHANGED <<manifest, disk, report>>
  PROVE  PreflightRight'
<1>1. (Qualifies' <=> Qualifies) /\ Places' = Places /\ \A p : LineAt(p)' = LineAt(p)
  BY DEF Qualifies, Places, LineAt
<1>2. {LineAt(p).event.id : p \in Places}' = {LineAt(p).event.id : p \in Places}
  BY <1>1
<1> QED
  BY <1>1, <1>2 DEF PreflightRight

(***************************************************************************)
(* The answer when all is read: what the tables say is so of the frozen    *)
(* lines.                                                                  *)
(***************************************************************************)
LEMMA AnswerRight ==
  ASSUME PreflightInv, done = Len(manifest)
  PROVE  /\ Gapped(seen.origins) <=> ~ Qualifies
         /\ Cardinality(seen.ids) = Cardinality({LineAt(p).event.id : p \in Places})
         /\ seen.copies = Cardinality(Places) - Cardinality(seen.ids)
         /\ seen.verified = seen.lines <=> \A p \in Places : DigestRight(p)
<1>1. manifest \in Manifests \cup {<<>>} /\ Tallied(seen, Places) /\ ~ seen.refused
  BY ReadOn DEF PreflightInv, Progress
<1>2. /\ Agree(Places) /\ CountsOf(seen, Places)
      /\ seen.origins = {LineAt(p) : p \in {q \in Places : HasOrigin(LineAt(q))}}
  BY <1>1 DEF Tallied
<1>3. Gapped(seen.origins) <=> ~ Qualifies
  BY <1>1, <1>2, GappedIs, QualifiesIs
<1>4. seen.verified = seen.lines <=> \A p \in Places : DigestRight(p)
  <2> DEFINE T == {p \in Places : DigestRight(p)}
  <2>1. seen.verified = Cardinality(T) /\ seen.lines = Cardinality(Places) /\ IsFiniteSet(Places)
    BY <1>2 DEF CountsOf
  <2>2. T \in SUBSET Places /\ (T = Places <=> \A p \in Places : DigestRight(p))
    OBVIOUS
  <2> HIDE DEF T
  <2>3. Cardinality(Places) = Cardinality(T) => Places = T
    BY <2>1, <2>2, FS_Subset
  <2> QED
    BY <2>1, <2>2, <2>3
<1> QED
  BY <1>2, <1>3, <1>4 DEF CountsOf, Ids

(* A source is refused for what is in it only if the set does not qualify. *)
LEMMA RefusalRight ==
  ASSUME PreflightInv, NEW i, i = done + 1, i <= Len(manifest),
         ~ Unchanged(i) \/ Folded(seen, manifest[i], disk[i]).refused
  PROVE  ~ Qualifies \/ \E j \in DOMAIN manifest : disk[j] # manifest[j].lines
<1>1. /\ manifest \in Manifests \cup {<<>>} /\ Tallied(seen, ReadUpTo(i, 0))
      /\ i \in 1 .. Len(manifest) /\ DOMAIN manifest = 1 .. Len(manifest)
  BY PlacesAre DEF PreflightInv, Progress
<1>2. CASE ~ Unchanged(i)
  BY <1>1, <1>2 DEF Unchanged
<1>3. CASE Unchanged(i)
  <2>1. Tallied(Folded(seen, manifest[i], disk[i]), ReadUpTo(i + 1, 0))
    BY <1>1, <1>3, FileTallied DEF Unchanged
  <2>2. ~ Agree(ReadUpTo(i + 1, 0))
    BY <1>3, <2>1 DEF Tallied
  <2>3. ReadUpTo(i + 1, 0) \in SUBSET Places
    BY DEF ReadUpTo
  <2> QED
    BY <2>2, <2>3, AgreesInPart, QualifiesIs
<1> QED
  BY <1>2, <1>3

(* Every step of the preflight keeps its invariant. *)
LEMMA ReportKeeps ==
  ASSUME PreflightInv, PreflightNext
  PROVE  PreflightInv'
<1>0. /\ manifest \in Manifests \cup {<<>>} /\ done \in 0 .. Len(manifest)
      /\ Len(manifest) \in Nat /\ DOMAIN manifest = 1 .. Len(manifest)
      /\ ~ seen.refused /\ Tallied(seen, ReadUpTo(done + 1, 0))
      /\ manifest = <<>> => report = NoReport /\ seen = Unseen
  BY PlacesAre DEF PreflightInv, Progress
<1>1. ASSUME report' = NoReport
      PROVE  PreflightRight'
  BY <1>1 DEF PreflightRight, NoReport
<1>2. ASSUME Begin
      PROVE  PreflightInv'
  <2>1. /\ manifest = <<>> /\ manifest' \in Manifests
        /\ done' = 0 /\ seen' = Unseen /\ report' = NoReport
    <3>1. Len(<<>>) = 0
      OBVIOUS
    <3> QED
      BY <1>0, <1>2, <3>1 DEF Begin
  <2>2. (Unseen.refused = FALSE /\ Tallied(Unseen, ReadUpTo(1, 0)))'
    <3>1. (manifest \in Manifests \cup {<<>>})'
      BY <2>1
    <3> QED
      BY <3>1, NothingRead, PTL
  <2>3. Progress'
    BY <2>1, ManifestsAssumption DEF Progress
  <2>4. ~ seen'.refused /\ Tallied(seen, ReadUpTo(done + 1, 0))'
    BY <2>1, <2>2
  <2> QED
    BY <1>1, <2>1, <2>3, <2>4 DEF PreflightInv
<1>3. ASSUME NEW i \in DOMAIN manifest, Rewrite(i)
      PROVE  PreflightInv'
  <2>1. /\ manifest # <<>> /\ report = NoReport
        /\ UNCHANGED <<manifest, done, seen, report>>
    BY <1>3 DEF Rewrite, Reading
  <2>2. Tallied(seen, ReadUpTo(done + 1, 0))'
    BY <1>0, <2>1, TallyStays
  <2> QED
    BY <1>0, <1>1, <2>1, <2>2 DEF PreflightInv, Progress
<1>4. ASSUME ReadSource
      PROVE  PreflightInv'
  <2> DEFINE i == done + 1
             tables == Folded(seen, manifest[i], disk[i])
  <2>1. /\ manifest # <<>> /\ report = NoReport /\ i <= Len(manifest)
        /\ disk[i] = manifest[i].lines /\ ~ tables.refused
        /\ seen' = tables /\ done' = i /\ UNCHANGED <<manifest, disk, report>>
    BY <1>4 DEF ReadSource, Reading, Unchanged
  <2>2. i \in 1 .. Len(manifest)
    BY <1>0, <2>1
  <2>3. Tallied(tables, ReadUpTo(i + 1, 0))
    BY <1>0, <2>1, <2>2, FileTallied
  <2> HIDE DEF tables
  <2>4. Tallied(seen, ReadUpTo(done + 1, 0))'
    BY <2>1, <2>3, TallyStays
  <2>5. Progress'
    BY <1>0, <2>1, <2>2 DEF Progress
  <2> QED
    BY <1>1, <2>1, <2>4, <2>5 DEF PreflightInv
<1>5. ASSUME RefuseSource
      PROVE  PreflightInv'
  <2>1. /\ manifest # <<>> /\ report' = Refused /\ UNCHANGED <<manifest, disk, done, seen>>
        /\ done + 1 <= Len(manifest)
        /\ ~ Unchanged(done + 1) \/ Folded(seen, manifest[done + 1], disk[done + 1]).refused
    BY <1>5 DEF RefuseSource, Reading
  <2>2. ~ Qualifies \/ \E j \in DOMAIN manifest : disk[j] # manifest[j].lines
    BY <2>1, RefusalRight
  <2>3. Qualifies' <=> Qualifies
    BY <2>1 DEF Qualifies, Places, LineAt
  <2>4. PreflightRight'
    BY <2>1, <2>2, <2>3 DEF PreflightRight, Refused
  <2>5. Tallied(seen, ReadUpTo(done + 1, 0))'
    BY <1>0, <2>1, TallyStays
  <2> QED
    BY <1>0, <2>1, <2>4, <2>5 DEF PreflightInv, Progress
<1>6. ASSUME Answer
      PROVE  PreflightInv'
  <2>1. /\ manifest # <<>> /\ UNCHANGED <<manifest, disk, done, seen>> /\ done = Len(manifest)
        /\ report' = IF Gapped(seen.origins) THEN Refused
                     ELSE [verdict |-> "qualified",
                           distinct |-> Cardinality(seen.ids),
                           copies |-> seen.copies,
                           complete |-> seen.verified = seen.lines]
    BY <1>6 DEF Answer, Reading
  <2>2. /\ Gapped(seen.origins) <=> ~ Qualifies
        /\ Cardinality(seen.ids) = Cardinality({LineAt(p).event.id : p \in Places})
        /\ seen.copies = Cardinality(Places) - Cardinality(seen.ids)
        /\ seen.verified = seen.lines <=> \A p \in Places : DigestRight(p)
    BY <2>1, AnswerRight
  <2>3. (Qualifies' <=> Qualifies) /\ Places' = Places /\ \A p : LineAt(p)' = LineAt(p)
    BY <2>1 DEF Qualifies, Places, LineAt
  <2>4. ASSUME Gapped(seen.origins)
        PROVE  PreflightRight'
    <3>1. report'.verdict = "refused"
      BY <2>1, <2>4 DEF Refused
    <3>2. ~ Qualifies'
      BY <2>2, <2>3, <2>4
    <3> QED
      BY <3>1, <3>2 DEF PreflightRight
  <2>5. ASSUME ~ Gapped(seen.origins)
        PROVE  PreflightRight'
    <3>1. /\ report'.verdict = "qualified"
          /\ report'.distinct = Cardinality(seen.ids)
          /\ report'.copies = seen.copies
          /\ report'.complete <=> (seen.verified = seen.lines)
      BY <2>1, <2>5
    <3>2. Qualifies'
      BY <2>2, <2>3, <2>5
    <3>3. report'.distinct = Cardinality({LineAt(p).event.id : p \in Places}')
      BY <2>2, <2>3, <3>1
    <3>4. report'.copies = Cardinality(Places') - report'.distinct
      BY <2>2, <2>3, <3>1
    <3>5. (report.complete <=> \A p \in Places :
            manifest[p[1]].domain = "central" /\ HasOrigin(LineAt(p))
              /\ LineAt(p).digest = "right")'
      BY <2>1, <2>2, <2>3, <3>1 DEF DigestRight
    <3> QED
      BY ONLY <3>1, <3>2, <3>3, <3>4, <3>5 DEF PreflightRight
  <2>6. Tallied(seen, ReadUpTo(done + 1, 0))'
    BY <1>0, <2>1, TallyStays
  <2> QED
    BY <1>0, <2>1, <2>4, <2>5, <2>6 DEF PreflightInv, Progress
<1> QED
  BY <1>2, <1>3, <1>4, <1>5, <1>6 DEF PreflightNext

(* The invariant of a preflight. *)
LEMMA PreflightBegins ==
  ASSUME PreflightInit
  PROVE  PreflightInv
<1>1. /\ manifest = <<>> /\ done = 0 /\ seen = Unseen /\ report = NoReport
  BY DEF PreflightInit
<1>2. Len(<<>>) = 0
  OBVIOUS
<1>3. Progress
  BY <1>1, <1>2 DEF Progress
<1>4. ~ seen.refused /\ Tallied(seen, ReadUpTo(done + 1, 0))
  BY <1>1, NothingRead
<1>5. PreflightRight
  BY <1>1 DEF PreflightRight, NoReport
<1> QED
  BY <1>1, <1>3, <1>4, <1>5 DEF PreflightInv

(* It is about the preflight's variables only. *)
LEMMA PreflightStutters ==
  ASSUME PreflightInv, UNCHANGED preflightVars
  PROVE  PreflightInv'
<1>1. UNCHANGED <<manifest, disk, done, seen, report>>
  BY DEF preflightVars
<1>2. Tallied(seen, ReadUpTo(done + 1, 0))'
  BY <1>1, TallyStays DEF PreflightInv
<1>3. PreflightRight'
  BY <1>1, RightStays DEF PreflightInv
<1> QED
  BY <1>1, <1>2, <1>3 DEF PreflightInv, Progress

(* What a preflight has read is in its tables, at every step of the loop over the sources. *)
THEOREM PreflightInvariance == PreflightSpec => []PreflightInv
<1>1. PreflightInv /\ [PreflightNext]_preflightVars => PreflightInv'
  BY ReportKeeps, PreflightStutters
<1> QED
  BY <1>1, PreflightBegins, PTL DEF PreflightSpec

(***************************************************************************)
(* Whatever manifests freeze and others write meanwhile: a qualified       *)
(* report is right about the union of the frozen lines, and only a set     *)
(* that does not qualify, or was changed, is refused.                      *)
(***************************************************************************)
THEOREM ReportsAreRight == PreflightSpec => []PreflightRight
<1>1. PreflightInv => PreflightRight
  BY DEF PreflightInv
<1> QED
  BY <1>1, PreflightInvariance, PTL

-----------------------------------------------------------------------------
(* The batch of a qualified source set. *)

EventsOf(i) == [n \in DOMAIN manifest[i].lines |-> manifest[i].lines[n].event]

(* The batch is read file by file. *)
LEMMA BatchIterates ==
  ASSUME Len(manifest) \in Nat
  PROVE  /\ EventsUpTo[0] = <<>>
         /\ \A n \in 1 .. Len(manifest) :
              EventsUpTo[n] =
                EventsUpTo[n-1] \o EventsOf(n)
<1> DEFINE After(s, n) == s \o EventsOf(n)
           IsTrace(n, f) ==
             f = [i \in 0 .. n |-> IF i = 0 THEN <<>> ELSE After(f[i-1], i)]
           Without == {n \in Nat : ~ \E f : IsTrace(n, f)}
<1>1. Without = {}
  <2> SUFFICES ASSUME Without # {}
               PROVE  FALSE
    OBVIOUS
  <2>1. PICK n \in Without : \A m \in Without : n <= m
    BY LeastNumber
  <2>2. \A m \in Nat : m < n => \E f : IsTrace(m, f)
    <3> HIDE DEF IsTrace
    <3>1. n \in Nat
      OBVIOUS
    <3>2. SUFFICES ASSUME NEW m \in Nat, m < n, m \in Without
                   PROVE  FALSE
      OBVIOUS
    <3> HIDE DEF Without
    <3> QED
      BY <2>1, <3>1, <3>2
  <2>3. CASE n = 0
    <3> DEFINE f == [i \in 0 .. 0 |-> <<>>]
    <3>1. \A i \in 0 .. 0 : i = 0
      OBVIOUS
    <3> HIDE DEF After
    <3>2. f = [i \in 0 .. 0 |-> IF i = 0 THEN <<>> ELSE After(f[i-1], i)]
      BY <3>1
    <3> QED
      BY <3>2, <2>1, <2>3
  <2>4. CASE n # 0
    <3>1. n \in Nat /\ n - 1 \in Nat /\ n - 1 < n
      BY <2>1, <2>4
    <3>2. PICK f : IsTrace(n - 1, f)
      BY <2>2, <3>1
    <3> DEFINE g == [i \in 0 .. n |-> IF i = n THEN After(f[n-1], n) ELSE f[i]]
    <3>3. \A i \in 0 .. n : g[i] = IF i = 0 THEN <<>> ELSE After(g[i-1], i)
      <4> SUFFICES ASSUME NEW i \in 0 .. n
                   PROVE  g[i] = IF i = 0 THEN <<>> ELSE After(g[i-1], i)
        OBVIOUS
      <4> HIDE DEF After
      <4>1. CASE i = n
        BY <3>1, <4>1, <2>4
      <4>2. CASE i # n
        <5>1. i \in 0 .. (n - 1) /\ (i # 0 => i - 1 \in 0 .. n /\ i - 1 # n)
          BY <3>1, <4>2
        <5>2. f[i] = IF i = 0 THEN <<>> ELSE After(f[i-1], i)
          BY <3>2, <5>1
        <5> QED
          BY <5>1, <5>2, <4>2
      <4> QED
        BY <4>1, <4>2
    <3>4. IsTrace(n, g)
      <4> HIDE DEF After
      <4>1. g = [i \in 0 .. n |-> g[i]]
        OBVIOUS
      <4> QED
        BY <4>1, <3>3
    <3> QED
      BY <3>4, <2>1
  <2> QED
    BY <2>3, <2>4
<1>2. \E f : IsTrace(Len(manifest), f)
  BY <1>1
<1>3. EventsUpTo = CHOOSE f : IsTrace(Len(manifest), f)
  BY DEF EventsUpTo, EventsOf
<1>4. IsTrace(Len(manifest), EventsUpTo)
  BY <1>2, <1>3
<1> HIDE DEF After
<1>5. \A n \in 0 .. Len(manifest) : EventsUpTo[n] =
         IF n = 0 THEN <<>> ELSE After(EventsUpTo[n-1], n)
  BY <1>4
<1>6. /\ EventsUpTo[0] = <<>>
      /\ \A n \in 1 .. Len(manifest) : EventsUpTo[n] = After(EventsUpTo[n-1], n)
  BY <1>5
<1> QED
  BY ONLY <1>6 DEF After

(* All that may be in a source. *)
SourceLines ==
  UNION {UNION {ToSet(source.lines) : source \in ToSet(sources)} : sources \in Manifests}
SourceEvents == {l.event : l \in SourceLines}

(* They are numbered. *)
LEMMA SourceEventsAreNumbered == IsNumbered(SourceEvents)
BY ManifestsAssumption DEF IsNumbered, SourceEvents, SourceLines

(* What is in two sequences, one after the other. *)
LEMMA InBoth ==
  ASSUME NEW E, NEW x \in Seq(E), NEW y \in Seq(E)
  PROVE  x \o y \in Seq(E) /\ ToSet(x \o y) = ToSet(x) \cup ToSet(y)
<1>1. /\ x \o y \in Seq(E) /\ Len(x) \in Nat /\ Len(y) \in Nat
      /\ Len(x \o y) = Len(x) + Len(y)
      /\ \A i \in 1 .. Len(x) + Len(y) :
           (x \o y)[i] = IF i <= Len(x) THEN x[i] ELSE y[i - Len(x)]
      /\ DOMAIN x = 1 .. Len(x) /\ DOMAIN y = 1 .. Len(y)
      /\ DOMAIN (x \o y) = 1 .. Len(x) + Len(y)
  BY ConcatProperties
<1> DEFINE z == x \o y
<1> HIDE DEF z
<1>2. ToSet(z) \subseteq ToSet(x) \cup ToSet(y)
  <2> SUFFICES ASSUME NEW i \in 1 .. Len(x) + Len(y)
               PROVE  z[i] \in ToSet(x) \cup ToSet(y)
    BY <1>1 DEF ToSet, z
  <2>1. CASE i <= Len(x)
    BY <1>1, <2>1 DEF ToSet, z
  <2>2. CASE ~ (i <= Len(x))
    <3>1. i - Len(x) \in 1 .. Len(y) /\ z[i] = y[i - Len(x)]
      BY <1>1, <2>2 DEF z
    <3> QED
      BY <1>1, <3>1 DEF ToSet
  <2> QED
    BY <2>1, <2>2
<1>3. ToSet(x) \subseteq ToSet(z)
  <2> SUFFICES ASSUME NEW i \in 1 .. Len(x)
               PROVE  x[i] \in ToSet(z)
    BY <1>1 DEF ToSet
  <2>1. i \in 1 .. Len(x) + Len(y) /\ z[i] = x[i]
    BY <1>1 DEF z
  <2> QED
    BY <1>1, <2>1 DEF ToSet, z
<1>4. ToSet(y) \subseteq ToSet(z)
  <2> SUFFICES ASSUME NEW i \in 1 .. Len(y)
               PROVE  y[i] \in ToSet(z)
    BY <1>1 DEF ToSet
  <2>1. i + Len(x) \in 1 .. Len(x) + Len(y) /\ z[i + Len(x)] = y[i]
    BY <1>1 DEF z
  <2> QED
    BY <1>1, <2>1 DEF ToSet, z
<1> QED
  BY <1>1, <1>2, <1>3, <1>4 DEF z

(* The batch is of the events of all places, and of nothing else. *)
LEMMA BatchIs ==
  ASSUME manifest \in Manifests \cup {<<>>}
  PROVE  /\ Batch \in Seq(SourceEvents)
         /\ ToSet(Batch) = {LineAt(p).event : p \in Places}
<1> DEFINE f == EventsUpTo
           Read(i) == {LineAt(p).event : p \in ReadUpTo(i, 0)}
           Fine(i) == f[i] \in Seq(SourceEvents) /\ ToSet(f[i]) = Read(i + 1)
           Wrong == {i \in 0 .. Len(manifest) : ~ Fine(i)}
<1>1. /\ Len(manifest) \in Nat /\ DOMAIN manifest = 1 .. Len(manifest)
      /\ \A i \in 1 .. Len(manifest) :
           /\ Len(manifest[i].lines) \in Nat
           /\ DOMAIN manifest[i].lines = 1 .. Len(manifest[i].lines)
           /\ \A n \in 1 .. Len(manifest[i].lines) :
                <<i, n>> \in Places /\ LineAt(<<i, n>>) = manifest[i].lines[n]
      /\ \A p \in Places : /\ p[1] \in 1 .. Len(manifest)
                           /\ p[2] \in 1 .. Len(manifest[p[1]].lines)
                           /\ p = <<p[1], p[2]>>
  BY PlacesAre
<1>2. f[0] = <<>> /\ \A i \in 1 .. Len(manifest) : f[i] = f[i-1] \o EventsOf(i)
  BY <1>1, BatchIterates
<1> HIDE DEF f
<1>3. Fine(0)
  <2>1. ReadUpTo(1, 0) = {}
    BY ReadOn
  <2>2. ToSet(<<>>) = {} /\ <<>> \in Seq(SourceEvents)
    BY DEF ToSet
  <2> QED
    BY <1>2, <2>1, <2>2
<1>4. ASSUME NEW i \in 1 .. Len(manifest), Fine(i-1)
      PROVE  Fine(i)
  <2>1. manifest \in Manifests
    <3> SUFFICES ASSUME manifest = <<>>
                 PROVE  FALSE
      OBVIOUS
    <3>1. Len(manifest) = 0
      OBVIOUS
    <3> QED
      BY <3>1
  <2>2. /\ DOMAIN EventsOf(i) = 1 .. Len(manifest[i].lines)
        /\ \A n \in 1 .. Len(manifest[i].lines) :
             EventsOf(i)[n] = LineAt(<<i, n>>).event /\ EventsOf(i)[n] = manifest[i].lines[n].event
    BY <1>1 DEF EventsOf
  <2>3. ASSUME NEW n \in 1 .. Len(manifest[i].lines)
        PROVE  EventsOf(i)[n] \in SourceEvents
    <3>1. manifest[i] \in ToSet(manifest) /\ manifest[i].lines[n] \in ToSet(manifest[i].lines)
      BY <1>1 DEF ToSet
    <3>2. manifest[i].lines[n] \in SourceLines
      BY <2>1, <3>1 DEF SourceLines
    <3> QED
      BY <2>2, <3>2 DEF SourceEvents
  <2>4. EventsOf(i) \in Seq(SourceEvents)
    <3>1. EventsOf(i) = [n \in 1 .. Len(manifest[i].lines) |-> EventsOf(i)[n]]
      BY <1>1 DEF EventsOf
    <3>2. EventsOf(i) \in [1 .. Len(manifest[i].lines) -> SourceEvents]
      BY <2>3, <3>1
    <3> QED
      BY <1>1, <3>2
  <2>5. f[i] \in Seq(SourceEvents) /\ ToSet(f[i]) = Read(i) \cup ToSet(EventsOf(i))
    <3>1. i - 1 + 1 = i /\ f[i] = f[i-1] \o EventsOf(i)
      BY <1>1, <1>2
    <3>2. f[i-1] \in Seq(SourceEvents) /\ ToSet(f[i-1]) = Read(i)
      BY <1>4, <3>1
    <3> HIDE DEF Read
    <3> QED
      BY <2>4, <3>1, <3>2, InBoth
  <2>6. ToSet(EventsOf(i)) = {LineAt(<<i, n>>).event : n \in 1 .. Len(manifest[i].lines)}
    BY <2>2 DEF ToSet
  <2>7. ReadUpTo(i + 1, 0) = ReadUpTo(i, 0) \cup {<<i, n>> : n \in 1 .. Len(manifest[i].lines)}
    BY <1>1 DEF ReadUpTo
  <2>8. Read(i + 1) = Read(i) \cup {LineAt(<<i, n>>).event : n \in 1 .. Len(manifest[i].lines)}
    BY <2>7
  <2> QED
    BY <2>5, <2>6, <2>8
<1> HIDE DEF Fine
<1>5. Wrong = {}
  <2> SUFFICES ASSUME Wrong # {}
               PROVE  FALSE
    OBVIOUS
  <2>1. PICK i \in Wrong : \A k \in Wrong : i <= k
    <3>1. Wrong \subseteq Nat
      BY <1>1
    <3> QED
      BY <3>1, LeastNumber
  <2>2. i \in 1 .. Len(manifest) /\ i - 1 \in 0 .. Len(manifest) /\ i - 1 < i
    BY <1>1, <1>3, <2>1
  <2> QED
    BY <1>4, <2>1, <2>2
<1>6. Fine(Len(manifest))
  <2>1. Len(manifest) \in 0 .. Len(manifest)
    BY <1>1
  <2> QED
    BY <1>5, <2>1
<1> QED
  BY <1>6, ReadOn DEF Fine, Batch, f

(* What is qualified and in the order of one stream is acceptable to an empty index. *)
LEMMA QualifiedIsAcceptable ==
  ASSUME manifest \in Manifests \cup {<<>>}, Qualifies, OneStreamInOrder
  PROVE  Acceptable(Batch, Fresh, {})
<1> DEFINE events == ToSet(Batch)
           enveloped == {e \in events : e.stream # NoStream}
<1>1. /\ Batch \in Seq(SourceEvents) /\ Len(Batch) \in Nat
      /\ DOMAIN Batch = 1 .. Len(Batch)
      /\ \A i \in 1 .. Len(Batch) : Batch[i] \in events
      /\ events = {LineAt(p).event : p \in Places}
  <2>1. Batch \in Seq(SourceEvents) /\ events = {LineAt(p).event : p \in Places}
    BY BatchIs
  <2>2. Len(Batch) \in Nat /\ DOMAIN Batch = 1 .. Len(Batch)
    BY ONLY <2>1
  <2>3. \A i \in 1 .. Len(Batch) : Batch[i] \in events
    BY ONLY <2>2 DEF events, ToSet
  <2> QED
    BY <2>1, <2>2, <2>3
<1>2. Fresh.rows = {} /\ Fresh.stream = NoStream /\ Fresh.next = 1
  BY DEF Fresh
<1>3. Agree(Places) /\ NoGaps
  BY QualifiesIs
<1>4. \A p \in Places : /\ LineAt(p).event.seq \in Nat
                        /\ HasOrigin(LineAt(p)) => LineAt(p).event.seq >= 1
  BY <1>3, PlacesAre DEF Agree, Sound
<1>5. ASSUME NEW e \in enveloped
      PROVE  /\ \E p \in Places : e = LineAt(p).event /\ HasOrigin(LineAt(p))
             /\ e.seq \in Nat /\ e.seq >= 1
             /\ First(Batch, e) \in 1 .. Len(Batch) /\ Batch[First(Batch, e)] = e
             /\ \A k \in 1 .. First(Batch, e) - 1 : Batch[k] # e
  <2>1. e \in ToSet(Batch) /\ e.stream # NoStream
    OBVIOUS
  <2>2. \E p \in Places : e = LineAt(p).event /\ HasOrigin(LineAt(p))
    BY <1>1, <2>1 DEF HasOrigin
  <2> QED
    BY <1>1, <1>4, <2>1, <2>2, FirstPlace DEF FirstMet
<1>6. \A e, f \in events : e.id = f.id => e = f
  BY <1>1, <1>3 DEF Agree, Compatible
<1>7. \A e, f \in enveloped : e.stream = f.stream /\ (e.seq = f.seq => e = f)
  <2> SUFFICES ASSUME NEW e \in enveloped, NEW f \in enveloped
               PROVE  e.stream = f.stream /\ (e.seq = f.seq => e = f)
    OBVIOUS
  <2>1. PICK p \in Places : e = LineAt(p).event /\ HasOrigin(LineAt(p))
    BY <1>5
  <2>2. PICK q \in Places : f = LineAt(q).event /\ HasOrigin(LineAt(q))
    BY <1>5
  <2>3. e.stream = f.stream
    <3>1. e.stream # NoStream /\ f.stream # NoStream
      OBVIOUS
    <3> HIDE DEF enveloped
    <3> QED
      BY <1>1, <1>5, <3>1 DEF OneStreamInOrder
  <2>4. ASSUME e.seq = f.seq
        PROVE  e = f
    <3>1. Compatible(p, q) /\ Origin(LineAt(p)) = Origin(LineAt(q))
      BY <1>3, <2>1, <2>2, <2>3, <2>4 DEF Agree, Origin
    <3> QED
      BY <2>1, <2>2, <3>1 DEF Compatible
  <2> QED
    BY <2>3, <2>4
<1>8. ASSUME NEW e \in enveloped, NEW f \in enveloped, First(Batch, e) < First(Batch, f)
      PROVE  e.seq < f.seq
  <2> DEFINE i == First(Batch, e)
             j == First(Batch, f)
  <2>1. /\ i \in DOMAIN Batch /\ j \in DOMAIN Batch /\ i \in Nat /\ j \in Nat
        /\ i < j /\ Batch[i] = e /\ Batch[j] = f
        /\ \A k \in 1 .. j - 1 : Batch[k] # f
        /\ Batch[i].stream # NoStream /\ Batch[j].stream # NoStream
        /\ e.seq \in Nat /\ f.seq \in Nat
    BY <1>1, <1>5, <1>8
  <2> HIDE DEF i, j
  <2>2. ~ \E k \in 1 .. i - 1 : Batch[k] = Batch[j]
    BY <2>1
  <2>3. ~ (Batch[i].seq > Batch[j].seq)
    BY <2>1, <2>2 DEF OneStreamInOrder
  <2>4. e # f
    <3>1. i \in 1 .. j - 1
      BY <1>1, <2>1
    <3> QED
      BY <2>1, <3>1
  <2> QED
    BY <1>7, <2>1, <2>3, <2>4
<1>9. ASSUME NEW e \in enveloped, NEW n \in 1 .. (e.seq - 1)
      PROVE  \E f \in enveloped : f.seq = n
  <2>1. PICK p \in Places : e = LineAt(p).event /\ HasOrigin(LineAt(p))
    BY <1>5
  <2>2. PICK q \in Places : Origin(LineAt(q)) = <<e.stream, n>>
    BY <1>3, <2>1 DEF NoGaps
  <2>3. LineAt(q).event.stream = e.stream /\ LineAt(q).event.seq = n
    BY <2>2 DEF Origin
  <2> QED
    BY <1>1, <2>3
<1> HIDE DEF enveloped, events
<1>10. enveloped \ Fresh.rows = enveloped /\ events \cup Fresh.rows = events
  BY <1>2
<1>11. \A e, f \in enveloped : First(Batch, e) < First(Batch, f) => e.seq < f.seq
  BY <1>8
<1>12. \A e \in enveloped :
         /\ e.seq >= Fresh.next
         /\ \A n \in Fresh.next .. (e.seq - 1) : n \in {} \/ \E f \in enveloped : f.seq = n
  BY <1>2, <1>5, <1>9
<1> QED
  BY <1>2, <1>6, <1>7, <1>10, <1>11, <1>12 DEF Acceptable, First, events, enveloped

(* So an empty index takes it. *)
LEMMA QualifiedIsValid ==
  ASSUME PreflightInv
  PROVE  QualifiedImports
<1> SUFFICES ASSUME report.verdict = "qualified", OneStreamInOrder
             PROVE  Verdict(Batch, Fresh, {}) = "valid"
  BY DEF QualifiedImports
<1>1. manifest \in Manifests \cup {<<>>} /\ Qualifies
  BY DEF PreflightInv, Progress, PreflightRight
<1>2. Acceptable(Batch, Fresh, {}) /\ Batch \in Seq(SourceEvents)
  BY <1>1, QualifiedIsAcceptable, BatchIs
<1>3. /\ IsEventSet(SourceEvents, Streams(SourceEvents))
      /\ Fresh \in Tables(SourceEvents, Streams(SourceEvents))
      /\ OneStream(Fresh)
  BY SourceEventsAreNumbered, NumberedAreEvents DEF Fresh, Tables, Streams, OneStream
<1> QED
  BY <1>2, <1>3, VerdictOfTable

(***************************************************************************)
(* What the preflight qualifies in the order of one stream, an empty index *)
(* takes: the two validations agree, for any sources of any length.        *)
(***************************************************************************)
THEOREM QualifiedSetsImport == PreflightSpec => []QualifiedImports
<1>1. PreflightInv => QualifiedImports
  BY QualifiedIsValid
<1> QED
  BY <1>1, PreflightInvariance, PTL

-----------------------------------------------------------------------------
(* Imports and preflights together. *)

(* The rows come from batches and from qualified sources. *)
SourceInv == IndexInv(Candidates \cup SourceEvents) /\ PreflightInv

(* Both invariants hold when qualified sources are imported. *)
THEOREM SourceInvariance == SourceSpec => []SourceInv
<1> DEFINE E == Candidates \cup SourceEvents
<1>1. SourceInit => SourceInv
  BY IndexBegins, PreflightBegins DEF SourceInit, SourceInv
<1>2. SourceInv /\ [SourceNext]_sourceVars => SourceInv'
  <2> SUFFICES ASSUME SourceInv, [SourceNext]_sourceVars
               PROVE  SourceInv'
    OBVIOUS
  <2>1. IsNumbered(E)
    BY CandidatesAreNumbered, SourceEventsAreNumbered DEF IsNumbered
  <2>2. IndexInv(E) /\ PreflightInv /\ manifest \in Manifests \cup {<<>>}
    BY DEF SourceInv, PreflightInv, Progress
  <2>3. ASSUME NEW events \in Seq(E), NEW lost, ImportEvents(events, lost)
        PROVE  IndexInv(E)'
    <3> HIDE DEF E
    <3> QED
      BY <2>1, <2>2, <2>3, ImportKeeps
  <2>4. CASE ImportAny
    <3>1. PICK events \in Batches, lost \in SUBSET Losses : ImportEvents(events, lost)
      BY <2>4 DEF ImportAny, ImportsNext
    <3>2. events \in Seq(E)
      BY BatchesAreSequences
    <3>3. IndexInv(E)'
      BY <2>3, <3>1, <3>2
    <3>4. PreflightInv'
      BY <2>2, <2>4, PreflightStutters DEF ImportAny
    <3> QED
      BY <3>3, <3>4 DEF SourceInv
  <2>5. CASE Preflight
    <3>1. IndexInv(E)'
      BY <2>2, <2>5, IndexStutters DEF Preflight
    <3>2. PreflightInv'
      BY <2>2, <2>5, ReportKeeps DEF Preflight
    <3> QED
      BY <3>1, <3>2 DEF SourceInv
  <2>6. CASE ImportQualified
    <3>1. Batch \in Seq(E) /\ ImportEvents(Batch, {}) /\ UNCHANGED preflightVars
      BY <2>2, <2>6, BatchIs DEF ImportQualified
    <3>2. IndexInv(E)'
      BY <2>3, <3>1
    <3>3. PreflightInv'
      BY <2>2, <3>1, PreflightStutters
    <3> QED
      BY <3>2, <3>3 DEF SourceInv
  <2>7. CASE UNCHANGED sourceVars
    <3>1. UNCHANGED importsVars /\ UNCHANGED preflightVars
      BY <2>7 DEF sourceVars
    <3>2. IndexInv(E)' /\ PreflightInv'
      BY <2>2, <3>1, IndexStutters, PreflightStutters
    <3> QED
      BY <3>2 DEF SourceInv
  <2> QED
    BY <2>4, <2>5, <2>6, <2>7 DEF SourceNext
<1> QED
  BY <1>1, <1>2, PTL DEF SourceSpec

(***************************************************************************)
(* Rows stay identified and holes accepted, verdicts and reports right,    *)
(* where an index is filled from batches, and where it is filled from the  *)
(* sources that a preflight qualified.                                     *)
(***************************************************************************)
THEOREM SourceImportsAreRight ==
  SourceSpec => [](/\ RowsIdentified /\ HolesWaived /\ ImportVerdictsRight
                   /\ PreflightRight /\ QualifiedImports)
<1>1. SourceInv => /\ RowsIdentified /\ HolesWaived /\ ImportVerdictsRight
                   /\ PreflightRight /\ QualifiedImports
  <2> SUFFICES ASSUME SourceInv
               PROVE  /\ RowsIdentified /\ HolesWaived /\ ImportVerdictsRight
                      /\ PreflightRight /\ QualifiedImports
    OBVIOUS
  <2> DEFINE E == Candidates \cup SourceEvents
  <2>1. IndexInv(E) /\ PreflightInv
    BY DEF SourceInv
  <2>2. IsNumbered(E) /\ Candidates \subseteq E
    BY CandidatesAreNumbered, SourceEventsAreNumbered DEF IsNumbered
  <2> HIDE DEF E
  <2>3. VerdictsRight
    BY <2>1, <2>2, IndexVerdicts
  <2> QED
    BY <2>1, <2>3, QualifiedIsValid DEF IndexInv, PreflightInv, ImportVerdictsRight
<1> QED
  BY <1>1, SourceInvariance, PTL

-----------------------------------------------------------------------------
(* One import after another. *)

NewIn(events, table) == {e \in ToSet(events) \ table.rows : e.stream # NoStream}

(* The table after a valid batch. *)
LEMMA AfterImport ==
  ASSUME NEW E, NEW S, IsEventSet(E, S), NEW table \in Tables(E, S), OneStream(table),
         NEW lost, NEW events \in Seq(E), Verdict(events, table, lost) = "valid",
         NEW after, after = Imported(events, table)
  PROVE  /\ after \in Tables(E, S) /\ OneStream(after)
         /\ after.rows = table.rows \cup ToSet(events) /\ ToSet(events) \subseteq E
         /\ Filled(after, NewIn(events, table), table, lost)
         /\ \A e \in ToSet(events) : e.stream # NoStream => e.stream = after.stream
<1>1. /\ ToSet(events) \subseteq E
      /\ after \in Tables(E, S)
      /\ after.rows = table.rows \cup ToSet(events)
      /\ Filled(after, NewIn(events, table), table, lost)
  <2>1. NewIn(events, table) = {e \in ToSet(events) \ table.rows : e.stream # NoStream}
    BY DEF NewIn
  <2> QED
    BY <2>1, ValidImport
<1>2. /\ \A e \in NewIn(events, table) : e.stream = after.stream
      /\ table.stream # NoStream => after.stream = table.stream
  BY <1>1 DEF Filled
<1>3. \A r \in table.rows : r.stream # NoStream => r.stream = after.stream
  BY <1>2 DEF OneStream
<1>4. \A e \in ToSet(events) : e.stream # NoStream => e.stream = after.stream
  BY <1>2, <1>3 DEF NewIn
<1>5. OneStream(after)
  BY <1>1, <1>3, <1>4 DEF OneStream
<1> QED
  BY <1>1, <1>4, <1>5

(* The cursor is one above the new events: what is filled says where it is. *)
LEMMA FilledOnce ==
  ASSUME NEW E, NEW S, IsEventSet(E, S), NEW new \in SUBSET E, NEW table, NEW lost,
         NEW t \in Tables(E, S), Filled(t, new, table, lost),
         NEW u \in Tables(E, S), Filled(u, new, table, lost), t.rows = u.rows
  PROVE  t = u
<1>1. t.next \in Nat /\ u.next \in Nat /\ \A e \in new : e.seq \in Nat
  BY DEF IsEventSet, Tables
<1>2. t.next = u.next /\ t.stream = u.stream
  <2>1. CASE new = {}
    BY <2>1 DEF Filled
  <2>2. CASE new # {}
    <3>1. PICK e \in new : t.next = e.seq + 1
      BY <2>2 DEF Filled
    <3>2. PICK f \in new : u.next = f.seq + 1
      BY <2>2 DEF Filled
    <3>3. f.seq < t.next /\ e.seq < u.next /\ e.stream = t.stream /\ e.stream = u.stream
      BY DEF Filled
    <3> QED
      BY <1>1, <3>1, <3>2, <3>3
  <2> QED
    BY <2>1, <2>2
<1> QED
  BY <1>2 DEF Tables

(* Numbers that are filled up to a cursor, and from it on. *)
LEMMA FilledFurther ==
  ASSUME NEW E, NEW S, IsEventSet(E, S), NEW lost,
         NEW table \in Tables(E, S), NEW t \in Tables(E, S), NEW u \in Tables(E, S),
         NEW new \in SUBSET E, Filled(t, new, table, lost),
         NEW more \in SUBSET E, Filled(u, more, t, lost),
         \A e \in new : e.stream # NoStream
  PROVE  Filled(u, new \cup more, table, lost)
<1>1. /\ table.next \in Nat /\ t.next \in Nat /\ u.next \in Nat
      /\ \A e \in new \cup more : e.seq \in Nat
  BY DEF IsEventSet, Tables
<1>2. /\ \A e \in new : e.stream = t.stream /\ table.next <= e.seq /\ e.seq < t.next
      /\ \A e, f \in new : e.seq = f.seq => e = f
      /\ \A m \in table.next .. (t.next - 1) : m \in lost \/ \E e \in new : e.seq = m
      /\ table.next <= t.next
      /\ new = {} => t.next = table.next /\ t.stream = table.stream
      /\ new # {} => \E e \in new : t.next = e.seq + 1
      /\ table.stream # NoStream => t.stream = table.stream
  BY DEF Filled
<1>3. /\ \A e \in more : e.stream = u.stream /\ t.next <= e.seq /\ e.seq < u.next
      /\ \A e, f \in more : e.seq = f.seq => e = f
      /\ \A m \in t.next .. (u.next - 1) : m \in lost \/ \E e \in more : e.seq = m
      /\ t.next <= u.next
      /\ more = {} => u.next = t.next /\ u.stream = t.stream
      /\ more # {} => \E e \in more : u.next = e.seq + 1
      /\ t.stream # NoStream => u.stream = t.stream
  BY DEF Filled
<1>4. \A e \in new \cup more : e.stream = u.stream /\ table.next <= e.seq /\ e.seq < u.next
  BY <1>1, <1>2, <1>3
<1>5. \A e, f \in new \cup more : e.seq = f.seq => e = f
  BY <1>1, <1>2, <1>3
<1>6. ASSUME NEW m \in table.next .. (u.next - 1)
      PROVE  m \in lost \/ \E e \in new \cup more : e.seq = m
  <2>1. m \in table.next .. (t.next - 1) \/ m \in t.next .. (u.next - 1)
    BY <1>1
  <2> QED
    BY <1>2, <1>3, <2>1
<1>7. new \cup more # {} => \E e \in new \cup more : u.next = e.seq + 1
  BY <1>2, <1>3
<1>8. /\ new \cup more = {} => u.next = table.next /\ u.stream = table.stream
      /\ table.next <= u.next
      /\ table.stream # NoStream => u.stream = table.stream
  BY <1>1, <1>2, <1>3
<1> QED
  BY <1>4, <1>5, <1>6, <1>7, <1>8 DEF Filled

(* The first place of an event is the only one without a copy before it. *)
LEMMA FirstIs ==
  ASSUME NEW E, NEW events \in Seq(E), NEW n \in 1 .. Len(events), FirstMet(events, n)
  PROVE  First(events, events[n]) = n
<1> DEFINE e == events[n]
           i == First(events, e)
<1>1. Len(events) \in Nat /\ DOMAIN events = 1 .. Len(events) /\ e \in ToSet(events)
  BY DEF ToSet
<1>2. i \in 1 .. Len(events) /\ events[i] = e /\ FirstMet(events, i)
  BY <1>1, FirstPlace
<1> HIDE DEF i
<1>3. i \notin 1 .. (n - 1) /\ n \notin 1 .. (i - 1)
  BY <1>2 DEF FirstMet
<1> QED
  BY <1>1, <1>2, <1>3 DEF i

(* Where events are first met in one batch after another. *)
JoinOf(z, x, y) ==
  /\ ToSet(z) = ToSet(x) \cup ToSet(y)
  /\ Len(x) \in Nat
  /\ \A e \in ToSet(x) : First(z, e) = First(x, e) /\ First(x, e) \in 1 .. Len(x)
  /\ \A e \in ToSet(y) \ ToSet(x) :
       /\ First(z, e) = Len(x) + First(y, e)
       /\ First(y, e) \in Nat /\ First(y, e) >= 1

(* The two batches, joined, are such a batch. *)
LEMMA JoinIs ==
  ASSUME NEW E, NEW x \in Seq(E), NEW y \in Seq(E), NEW z, z = x \o y
  PROVE  z \in Seq(E) /\ JoinOf(z, x, y)
<1>1. /\ z \in Seq(E) /\ Len(x) \in Nat /\ Len(y) \in Nat
      /\ Len(z) = Len(x) + Len(y)
      /\ \A i \in 1 .. Len(x) + Len(y) : z[i] = IF i <= Len(x) THEN x[i] ELSE y[i - Len(x)]
      /\ DOMAIN x = 1 .. Len(x) /\ DOMAIN y = 1 .. Len(y)
  BY ConcatProperties
<1>2. ToSet(z) = ToSet(x) \cup ToSet(y)
  BY InBoth
<1>3. ASSUME NEW e \in ToSet(x)
      PROVE  First(z, e) = First(x, e) /\ First(x, e) \in 1 .. Len(x)
  <2> DEFINE n == First(x, e)
  <2>1. n \in 1 .. Len(x) /\ x[n] = e /\ \A k \in 1 .. (n - 1) : x[k] # e
    BY FirstPlace DEF FirstMet
  <2> HIDE DEF n
  <2>2. n \in 1 .. Len(z) /\ z[n] = e
    BY <1>1, <2>1
  <2>3. \A k \in 1 .. (n - 1) : z[k] # z[n]
    BY <1>1, <2>1, <2>2
  <2>4. First(z, z[n]) = n
    BY <1>1, <2>2, <2>3, FirstIs DEF FirstMet
  <2> QED
    BY <2>1, <2>2, <2>4 DEF n
<1>4. ASSUME NEW e \in ToSet(y) \ ToSet(x)
      PROVE  /\ First(z, e) = Len(x) + First(y, e)
             /\ First(y, e) \in Nat /\ First(y, e) >= 1
  <2> DEFINE n == First(y, e)
             m == Len(x) + n
  <2>1. n \in 1 .. Len(y) /\ y[n] = e /\ \A k \in 1 .. (n - 1) : y[k] # e
    BY FirstPlace DEF FirstMet
  <2>2. \A k \in 1 .. Len(x) : x[k] # e
    BY <1>1 DEF ToSet
  <2> HIDE DEF n
  <2>3. m \in 1 .. Len(z) /\ ~ (m <= Len(x)) /\ m - Len(x) = n /\ m \in Nat
    BY <1>1, <2>1
  <2>4. z[m] = e
    BY <1>1, <2>1, <2>3
  <2>5. ASSUME NEW k \in 1 .. (m - 1)
        PROVE  z[k] # e
    <3>1. CASE k <= Len(x)
      BY <1>1, <2>2, <2>3, <3>1
    <3>2. CASE ~ (k <= Len(x))
      <4>1. k - Len(x) \in 1 .. (n - 1) /\ k \in 1 .. Len(x) + Len(y)
        BY <1>1, <2>1, <2>3, <3>2
      <4> QED
        BY <1>1, <2>1, <3>2, <4>1
    <3> QED
      BY <3>1, <3>2
  <2> HIDE DEF m
  <2>6. First(z, z[m]) = m
    BY <1>1, <2>3, <2>4, <2>5, FirstIs DEF FirstMet
  <2> QED
    BY <1>1, <2>1, <2>4, <2>6 DEF n, m
<1> QED
  BY <1>1, <1>2, <1>3, <1>4 DEF JoinOf

(* Acceptable, about the new events that the lemmas above name. *)
LEMMA AcceptableIs ==
  ASSUME NEW events, NEW table, NEW lost
  PROVE  Acceptable(events, table, lost) <=>
           /\ \A e, f \in ToSet(events) \cup table.rows : e.id = f.id /\ e \in ToSet(events) => e = f
           /\ \A e, f \in ToSet(events) :
                e.stream # NoStream /\ f.stream # NoStream => e.stream = f.stream
           /\ \A e \in ToSet(events) : e.stream # NoStream => table.stream \in {NoStream, e.stream}
           /\ \A e, f \in NewIn(events, table) : First(events, e) < First(events, f) => e.seq < f.seq
           /\ \A e \in NewIn(events, table) :
                /\ e.seq >= table.next
                /\ \A n \in table.next .. (e.seq - 1) :
                     n \in lost \/ \E f \in NewIn(events, table) : f.seq = n
<1> DEFINE enveloped == {e \in ToSet(events) : e.stream # NoStream}
<1>1. enveloped \ table.rows = NewIn(events, table)
  BY DEF NewIn
<1>2. Acceptable(events, table, lost) <=>
           /\ \A e, f \in ToSet(events) \cup table.rows : e.id = f.id /\ e \in ToSet(events) => e = f
           /\ \A e, f \in enveloped : e.stream = f.stream
           /\ \A e \in enveloped : table.stream \in {NoStream, e.stream}
           /\ \A e, f \in enveloped \ table.rows :
                First(events, e) < First(events, f) => e.seq < f.seq
           /\ \A e \in enveloped \ table.rows :
                /\ e.seq >= table.next
                /\ \A n \in table.next .. (e.seq - 1) :
                     n \in lost \/ \E f \in enveloped \ table.rows : f.seq = n
  BY DEF Acceptable, First
<1> QED
  BY <1>1, <1>2

(* A valid batch, and one that is valid after it. *)
Succeed(E, S, table, lost, x, y) ==
  /\ IsEventSet(E, S) /\ table \in Tables(E, S) /\ OneStream(table)
  /\ x \in Seq(E) /\ Verdict(x, table, lost) = "valid"
  /\ y \in Seq(E) /\ Verdict(y, Imported(x, table), lost) = "valid"

(* The two, joined, are one valid batch, and have the effect of the one after the other. *)
LEMMA JoinedImports ==
  ASSUME NEW E, NEW S, NEW table, NEW lost, NEW x, NEW y, Succeed(E, S, table, lost, x, y)
  PROVE  /\ x \o y \in Seq(E)
         /\ Verdict(x \o y, table, lost) = "valid"
         /\ Imported(x \o y, table) = Imported(y, Imported(x, table))
<1> SUFFICES ASSUME IsEventSet(E, S), table \in Tables(E, S), OneStream(table),
                    x \in Seq(E), y \in Seq(E), NEW z, z = x \o y,
                    NEW after, after = Imported(x, table),
                    Verdict(x, table, lost) = "valid", Verdict(y, after, lost) = "valid"
             PROVE  /\ z \in Seq(E)
                    /\ Verdict(z, table, lost) = "valid"
                    /\ Imported(z, table) = Imported(y, after)
  BY DEF Succeed
<1> DEFINE last == Imported(y, after)
           newx == NewIn(x, table)
           newy == NewIn(y, after)
<1>1. /\ after \in Tables(E, S) /\ OneStream(after)
      /\ after.rows = table.rows \cup ToSet(x) /\ ToSet(x) \subseteq E
      /\ Filled(after, newx, table, lost)
      /\ \A e \in ToSet(x) : e.stream # NoStream => e.stream = after.stream
  BY AfterImport
<1>2. /\ last \in Tables(E, S)
      /\ last.rows = after.rows \cup ToSet(y) /\ ToSet(y) \subseteq E
      /\ Filled(last, newy, after, lost)
      /\ \A e \in ToSet(y) : e.stream # NoStream => e.stream = last.stream
  BY <1>1, AfterImport
<1>3. /\ z \in Seq(E) /\ ToSet(z) = ToSet(x) \cup ToSet(y)
      /\ Len(x) \in Nat
      /\ \A e \in ToSet(x) : First(z, e) = First(x, e) /\ First(x, e) \in 1 .. Len(x)
      /\ \A e \in ToSet(y) \ ToSet(x) :
              /\ First(z, e) = Len(x) + First(y, e)
              /\ First(y, e) \in Nat /\ First(y, e) >= 1
  <2>1. x \in Seq(E) /\ y \in Seq(E) /\ z = x \o y
    OBVIOUS
  <2>2. z \in Seq(E) /\ JoinOf(z, x, y)
    BY ONLY <2>1, JoinIs
  <2> QED
    BY <2>2 DEF JoinOf
<1>4. NewIn(z, table) = newx \cup newy
  BY <1>1, <1>3 DEF NewIn
<1>5. /\ \A e \in newx : e \in ToSet(x) /\ e \in E /\ e.stream # NoStream /\ e.seq \in Nat
      /\ \A e \in newy : /\ e \in ToSet(y) \ ToSet(x) /\ e \in E
                         /\ e.stream # NoStream /\ e.seq \in Nat
      /\ after.next \in Nat /\ table.next \in Nat
  BY <1>1, <1>2 DEF NewIn, IsEventSet, Tables
<1>6. /\ \A e, f \in ToSet(x) \cup table.rows : e.id = f.id /\ e \in ToSet(x) => e = f
      /\ \A e, f \in newx : First(x, e) < First(x, f) => e.seq < f.seq
  <2>1. Acceptable(x, table, lost)
    BY ValidIsAcceptable
  <2> QED
    BY <2>1, AcceptableIs
<1>7. /\ \A e, f \in ToSet(y) \cup after.rows : e.id = f.id /\ e \in ToSet(y) => e = f
      /\ \A e, f \in newy : First(y, e) < First(y, f) => e.seq < f.seq
  <2>1. Acceptable(y, after, lost)
    BY <1>1, ValidIsAcceptable
  <2> QED
    BY <2>1, AcceptableIs
<1>8. Filled(last, newx \cup newy, table, lost)
  <2>1. newx \in SUBSET E /\ newy \in SUBSET E /\ \A e \in newx : e.stream # NoStream
    BY <1>5
  <2> HIDE DEF newx, newy, last
  <2> QED
    BY <1>1, <1>2, <2>1, FilledFurther
<1>9. /\ \A e \in newx : e.seq < after.next
      /\ \A e \in newy : after.next <= e.seq
      /\ after.next >= table.next
      /\ table.stream # NoStream => last.stream = table.stream
      /\ after.stream # NoStream => last.stream = after.stream
      /\ \A m \in table.next .. (last.next - 1) : m \in lost \/ \E e \in newx \cup newy : e.seq = m
      /\ \A e \in newx \cup newy : table.next <= e.seq /\ e.seq < last.next
      /\ last.next \in Nat
  BY <1>1, <1>2, <1>8 DEF Filled, Tables
<1> HIDE DEF newx, newy, last
<1>10. \A e, f \in ToSet(z) \cup table.rows : e.id = f.id /\ e \in ToSet(z) => e = f
  BY <1>1, <1>3, <1>6, <1>7
<1>11. \A e \in ToSet(z) : e.stream # NoStream => e.stream = last.stream
  BY <1>1, <1>2, <1>3, <1>9
<1>12. \A e, f \in newx \cup newy : First(z, e) < First(z, f) => e.seq < f.seq
  <2> SUFFICES ASSUME NEW e \in newx \cup newy, NEW f \in newx \cup newy,
                      First(z, e) < First(z, f)
               PROVE  e.seq < f.seq
    OBVIOUS
  <2>1. CASE e \in newx /\ f \in newx
    BY <1>3, <1>5, <1>6, <2>1
  <2>2. CASE e \in newx /\ f \in newy
    BY <1>5, <1>9, <2>2
  <2>3. CASE e \in newy /\ f \in newx
    BY <1>3, <1>5, <2>3
  <2>4. CASE e \in newy /\ f \in newy
    BY <1>3, <1>5, <1>7, <2>4
  <2> QED
    BY <2>1, <2>2, <2>3, <2>4
<1>13. ASSUME NEW e \in newx \cup newy
       PROVE  /\ e.seq >= table.next
              /\ \A n \in table.next .. (e.seq - 1) :
                   n \in lost \/ \E f \in newx \cup newy : f.seq = n
  <2>1. e.seq \in Nat /\ table.next <= e.seq /\ e.seq < last.next
    BY <1>5, <1>9
  <2>2. \A n \in table.next .. (e.seq - 1) : n \in table.next .. (last.next - 1)
    BY <1>5, <1>9, <2>1
  <2> QED
    BY <1>5, <1>9, <2>1, <2>2
<1>14. Acceptable(z, table, lost)
  BY <1>4, <1>9, <1>10, <1>11, <1>12, <1>13, AcceptableIs
<1>15. Verdict(z, table, lost) = "valid"
  BY <1>3, <1>14, AcceptableIsValid
<1>16. Imported(z, table) = last
  <2> DEFINE whole == Imported(z, table)
             new == newx \cup newy
  <2>1. /\ whole \in Tables(E, S) /\ whole.rows = table.rows \cup ToSet(z)
        /\ Filled(whole, new, table, lost)
    <3>1. z \in Seq(E) /\ new = NewIn(z, table)
      BY <1>3, <1>4
    <3>2. whole = Imported(z, table)
      OBVIOUS
    <3>3. IsEventSet(E, S) /\ table \in Tables(E, S) /\ OneStream(table)
      OBVIOUS
    <3> HIDE DEF new, whole
    <3>4. /\ whole \in Tables(E, S) /\ whole.rows = table.rows \cup ToSet(z)
          /\ Filled(whole, NewIn(z, table), table, lost)
      BY ONLY <1>15, <3>1, <3>2, <3>3, AfterImport
    <3> QED
      BY <3>1, <3>4
  <2>2. whole.rows = last.rows /\ new \in SUBSET E
    BY <1>1, <1>2, <1>3, <1>5, <2>1
  <2> HIDE DEF whole, new
  <2>3. Filled(last, new, table, lost)
    BY <1>8 DEF new
  <2>4. whole = last
    BY <1>2, <2>1, <2>2, <2>3, FilledOnce
  <2> QED
    BY <2>4 DEF whole
<1> QED
  BY <1>3, <1>15, <1>16 DEF last

(* What is acceptable stays so if more is accepted as lost. *)
LEMMA MoreLosses ==
  ASSUME NEW E, NEW S, IsEventSet(E, S), NEW table \in Tables(E, S), OneStream(table),
         NEW events \in Seq(E), NEW lost, Verdict(events, table, lost) = "valid",
         NEW more, lost \subseteq more
  PROVE  Verdict(events, table, more) = "valid"
<1>1. Acceptable(events, table, lost)
  BY ValidIsAcceptable
<1>2. Acceptable(events, table, more)
  BY <1>1, AcceptableIs
<1> QED
  BY <1>2, AcceptableIsValid

(* Some one batch makes the index of an empty one. *)
OneBatch ==
  \E batch \in Seq(Candidates) :
    Verdict(batch, Fresh, accepted) = "valid" /\ index = Imported(batch, Fresh)

(* The empty table is one. *)
LEMMA FreshIsTable ==
  ASSUME NEW E, NEW S, IsEventSet(E, S)
  PROVE  Fresh \in Tables(E, S) /\ OneStream(Fresh)
BY DEF Fresh, Tables, OneStream, IsEventSet

(* Nothing makes an empty index of an empty one. *)
LEMMA NothingImported ==
  ASSUME NEW E, NEW S, IsEventSet(E, S), NEW lost
  PROVE  Verdict(<<>>, Fresh, lost) = "valid" /\ Imported(<<>>, Fresh) = Fresh
<1>1. ToSet(<<>>) = {} /\ <<>> \in Seq(E)
  BY DEF ToSet
<1>2. NewIn(<<>>, Fresh) = {} /\ Fresh.rows = {}
  BY <1>1 DEF NewIn, Fresh
<1>3. Acceptable(<<>>, Fresh, lost)
  BY <1>1, <1>2, AcceptableIs
<1>4. Verdict(<<>>, Fresh, lost) = "valid"
  BY <1>1, <1>3, FreshIsTable, AcceptableIsValid
<1>5. Observe(Fresh, {}) = Fresh
  BY DEF Observe
<1>6. Imported(<<>>, Fresh) = [Fresh EXCEPT !.rows = {}]
  BY <1>1, <1>2, <1>5 DEF Imported
<1> QED
  BY <1>4, <1>6 DEF Fresh

(* One more import is one more part of the batch. *)
LEMMA OneBatchKeeps ==
  ASSUME OneBatch, NEW events \in Seq(Candidates), NEW lost, ImportEvents(events, lost)
  PROVE  OneBatch'
<1> DEFINE E == Candidates
           S == Streams(Candidates)
           all == accepted \cup lost
<1>1. IsEventSet(E, S)
  BY CandidatesAreNumbered, NumberedAreEvents
<1>2. PICK batch \in Seq(E) :
        Verdict(batch, Fresh, accepted) = "valid" /\ index = Imported(batch, Fresh)
  BY DEF OneBatch
<1>3. /\ Verdict(events, index, lost) = "valid"
      /\ index' = Imported(events, index) /\ accepted' = all
  BY DEF ImportEvents
<1> HIDE DEF E, S, all
<1>4. Fresh \in Tables(E, S) /\ OneStream(Fresh)
  BY <1>1, FreshIsTable
<1>5. index \in Tables(E, S) /\ OneStream(index)
  BY <1>1, <1>2, <1>4, AfterImport
<1>6. events \in Seq(E) /\ accepted \subseteq all /\ lost \subseteq all
  BY DEF E, all
<1>7. Verdict(batch, Fresh, all) = "valid"
  BY <1>1, <1>2, <1>4, <1>6, MoreLosses
<1>8. Verdict(events, index, all) = "valid"
  BY <1>1, <1>3, <1>5, <1>6, MoreLosses
<1>9. Succeed(E, S, Fresh, all, batch, events)
  BY <1>1, <1>2, <1>4, <1>6, <1>7, <1>8 DEF Succeed
<1>10. /\ batch \o events \in Seq(E)
       /\ Verdict(batch \o events, Fresh, all) = "valid"
       /\ Imported(batch \o events, Fresh) = Imported(events, index)
  BY ONLY <1>2, <1>9, JoinedImports
<1> QED
  BY <1>3, <1>10 DEF OneBatch, E

(***************************************************************************)
(* However an index was filled, import after import: import_events on an   *)
(* empty one, given all the batches, one after the other and with the      *)
(* losses that were accepted, would make the same index.                   *)
(***************************************************************************)
THEOREM ImportsAreOne == ImportsSpec => []OneBatch
<1>1. ImportsInit => OneBatch
  <2> SUFFICES ASSUME ImportsInit
               PROVE  OneBatch
    OBVIOUS
  <2>1. index = Fresh /\ <<>> \in Seq(Candidates)
    BY DEF ImportsInit
  <2>2. IsEventSet(Candidates, Streams(Candidates))
    BY CandidatesAreNumbered, NumberedAreEvents
  <2> QED
    BY <2>1, <2>2, NothingImported DEF OneBatch
<1>2. OneBatch /\ [ImportsNext]_importsVars => OneBatch'
  <2> SUFFICES ASSUME OneBatch, [ImportsNext]_importsVars
               PROVE  OneBatch'
    OBVIOUS
  <2>1. CASE ImportsNext
    BY <2>1, BatchesAreSequences, OneBatchKeeps DEF ImportsNext
  <2>2. CASE UNCHANGED importsVars
    BY <2>2 DEF importsVars, OneBatch
  <2> QED
    BY <2>1, <2>2
<1> QED
  BY <1>1, <1>2, PTL DEF ImportsSpec

(* A batch that was imported is valid again, without losses, and changes nothing. *)
LEMMA ImportedAgain ==
  ASSUME NEW E, NEW S, IsEventSet(E, S), NEW table \in Tables(E, S), OneStream(table),
         NEW lost, NEW events \in Seq(E), Verdict(events, table, lost) = "valid",
         NEW after, after = Imported(events, table)
  PROVE  Verdict(events, after, {}) = "valid" /\ Imported(events, after) = after
<1>1. /\ after \in Tables(E, S) /\ OneStream(after)
      /\ after.rows = table.rows \cup ToSet(events)
      /\ \A e \in ToSet(events) : e.stream # NoStream => e.stream = after.stream
  BY AfterImport
<1>2. \A e, f \in ToSet(events) \cup table.rows : e.id = f.id /\ e \in ToSet(events) => e = f
  BY ValidIsAcceptable, AcceptableIs
<1>3. NewIn(events, after) = {} /\ ToSet(events) \ after.rows = {}
  BY <1>1 DEF NewIn
<1>4. \A e, f \in ToSet(events) \cup after.rows : e.id = f.id /\ e \in ToSet(events) => e = f
  BY <1>1, <1>2
<1>5. Acceptable(events, after, {})
  BY <1>1, <1>3, <1>4, AcceptableIs
<1>6. Verdict(events, after, {}) = "valid"
  BY <1>1, <1>5, AcceptableIsValid
<1>7. Observe(after, {}) = after
  BY DEF Observe
<1>8. Imported(events, after) = [after EXCEPT !.rows = after.rows]
  <2>1. after.rows \cup (ToSet(events) \ after.rows) = after.rows
    BY <1>3
  <2> QED
    BY <1>3, <1>7, <2>1 DEF Imported
<1>9. [after EXCEPT !.rows = after.rows] = after
  BY <1>1 DEF Tables
<1> QED
  BY <1>6, <1>8, <1>9

(* What a step has imported can be imported again, and does nothing. *)
AgainUnchanged ==
  \A batch \in Batches, lost \in SUBSET Losses :
    ImportEvents(batch, lost) =>
      Verdict(batch, index', {}) = "valid" /\ Imported(batch, index') = index'

(***************************************************************************)
(* An import that is run twice does what it does once, and the second time *)
(* needs no loss accepted: existing ids are skipped, holes stay behind.    *)
(***************************************************************************)
THEOREM ImportsRepeat == ImportsSpec => [][AgainUnchanged]_importsVars
<1>1. ImportsInv => AgainUnchanged
  <2> SUFFICES ASSUME ImportsInv, NEW batch \in Batches, NEW lost,
                      ImportEvents(batch, lost)
               PROVE  Verdict(batch, index', {}) = "valid" /\ Imported(batch, index') = index'
    BY DEF AgainUnchanged
  <2>1. /\ index \in Tables(Candidates, Streams(Candidates)) /\ OneStream(index)
        /\ IsEventSet(Candidates, Streams(Candidates))
    BY CandidatesAreNumbered, NumberedAreEvents
       DEF ImportsInv, IndexInv, RowsIdentified, Enveloped, OneStream
  <2>2. /\ batch \in Seq(Candidates) /\ Verdict(batch, index, lost) = "valid"
        /\ index' = Imported(batch, index)
    BY BatchesAreSequences DEF ImportEvents
  <2> QED
    BY <2>1, <2>2, ImportedAgain
<1> QED
  BY <1>1, ImportsInvariance, PTL DEF ImportsSpec

(* And a valid batch, cut in two, is a valid batch and one that is valid after it. *)
LEMMA PartsImport ==
  ASSUME NEW E, NEW S, NEW table, NEW lost, NEW x \in Seq(E), NEW y \in Seq(E),
         IsEventSet(E, S), table \in Tables(E, S), OneStream(table),
         Verdict(x \o y, table, lost) = "valid"
  PROVE  Succeed(E, S, table, lost, x, y)
<1>1. PICK after, z : after = Imported(x, table) /\ z = x \o y
  OBVIOUS
<1> DEFINE newx == NewIn(x, table)
           newy == NewIn(y, after)
           newz == NewIn(z, table)
<1>2. z \in Seq(E) /\ JoinOf(z, x, y)
  BY <1>1, JoinIs
<1>3. Acceptable(z, table, lost)
  BY <1>1, <1>2, ValidIsAcceptable
<1>4. /\ \A e, f \in ToSet(z) \cup table.rows : e.id = f.id /\ e \in ToSet(z) => e = f
      /\ \A e, f \in ToSet(z) :
           e.stream # NoStream /\ f.stream # NoStream => e.stream = f.stream
      /\ \A e \in ToSet(z) : e.stream # NoStream => table.stream \in {NoStream, e.stream}
      /\ \A e, f \in newz : First(z, e) < First(z, f) => e.seq < f.seq
      /\ \A e \in newz :
           /\ e.seq >= table.next
           /\ \A n \in table.next .. (e.seq - 1) : n \in lost \/ \E f \in newz : f.seq = n
  BY <1>3, AcceptableIs
<1>5. /\ ToSet(z) = ToSet(x) \cup ToSet(y)
      /\ newx \subseteq newz /\ newx \subseteq ToSet(x)
      /\ newz \ newx \subseteq ToSet(y) \ ToSet(x)
      /\ \A e \in newx : First(z, e) = First(x, e)
      /\ \A e \in newz \ newx : First(z, e) = Len(x) + First(y, e)
  BY <1>2 DEF JoinOf, NewIn
<1>6. \A e \in newx, f \in newz \ newx : e.seq < f.seq
  <2> SUFFICES ASSUME NEW e \in newx, NEW f \in newz \ newx
               PROVE  e.seq < f.seq
    OBVIOUS
  <2>1. First(z, e) < First(z, f)
    <3>1. First(z, e) \in 1 .. Len(x) /\ Len(x) \in Nat
      BY <1>2, <1>5 DEF JoinOf
    <3>2. First(z, f) = Len(x) + First(y, f) /\ First(y, f) \in Nat /\ First(y, f) >= 1
      BY <1>2, <1>5 DEF JoinOf
    <3> QED
      BY <3>1, <3>2
  <2>2. e \in newz /\ f \in newz
    BY <1>5
  <2> QED
    BY <1>4, <2>1, <2>2
<1>7. table.next \in Nat /\ \A e \in newz : e.seq \in Nat
  <2>1. ToSet(z) \subseteq E
    BY <1>2 DEF ToSet
  <2> QED
    BY <2>1 DEF NewIn, IsEventSet, Tables
<1> HIDE DEF newx, newy, newz
<1>8. Verdict(x, table, lost) = "valid"
  <2>1. ASSUME NEW e \in newx
        PROVE  /\ e.seq >= table.next
               /\ \A n \in table.next .. (e.seq - 1) : n \in lost \/ \E f \in newx : f.seq = n
    <3> SUFFICES ASSUME NEW n \in table.next .. (e.seq - 1), n \notin lost
                 PROVE  \E f \in newx : f.seq = n
      BY <1>4, <1>5
    <3>1. PICK f \in newz : f.seq = n
      BY <1>4, <1>5
    <3>2. n < e.seq /\ n \in Int /\ e.seq \in Nat
      BY <1>5, <1>7
    <3>3. ~ (e.seq < f.seq)
      BY <3>1, <3>2
    <3> QED
      BY <1>6, <3>1, <3>3
  <2>2. \A e, f \in newx : First(x, e) < First(x, f) => e.seq < f.seq
    BY <1>4, <1>5
  <2>3. Acceptable(x, table, lost)
    BY <1>4, <1>5, <2>1, <2>2, AcceptableIs DEF newx
  <2> QED
    BY <2>3, AcceptableIsValid
<1>9. /\ after \in Tables(E, S) /\ OneStream(after)
      /\ after.rows = table.rows \cup ToSet(x)
      /\ Filled(after, newx, table, lost)
  <2>1. Verdict(x, table, lost) = "valid" /\ after = Imported(x, table)
    BY <1>1, <1>8
  <2> QED
    BY ONLY <2>1, IsEventSet(E, S), table \in Tables(E, S), OneStream(table), x \in Seq(E),
            AfterImport DEF newx
<1>10. newy = newz \ newx
  BY <1>5, <1>9 DEF newx, newy, newz, NewIn
<1>11. /\ newx = {} => after.next = table.next /\ after.stream = table.stream
       /\ newx # {} => \E e \in newx : after.next = e.seq + 1
       /\ \A e \in newx : e.stream = after.stream /\ e.seq < after.next
       /\ table.next <= after.next /\ after.next \in Nat
  BY <1>9 DEF Filled, Tables
<1>12. ASSUME NEW e \in newy
       PROVE  /\ e.seq >= after.next
              /\ \A n \in after.next .. (e.seq - 1) : n \in lost \/ \E f \in newy : f.seq = n
  <2>1. e \in newz \ newx /\ e.seq \in Nat
    BY <1>7, <1>10
  <2>2. e.seq >= after.next
    <3>1. CASE newx = {}
      BY <1>4, <1>11, <2>1, <3>1
    <3>2. CASE newx # {}
      <4>1. PICK f \in newx : after.next = f.seq + 1
        BY <1>11, <3>2
      <4>2. f.seq \in Nat /\ f.seq < e.seq
        BY <1>5, <1>6, <1>7, <2>1
      <4> QED
        BY <2>1, <4>1, <4>2
    <3> QED
      BY <3>1, <3>2
  <2>3. ASSUME NEW n \in after.next .. (e.seq - 1), n \notin lost
        PROVE  \E f \in newy : f.seq = n
    <3>1. n \in table.next .. (e.seq - 1) /\ after.next <= n /\ n \in Int
      BY <1>7, <1>11, <2>1
    <3>2. PICK f \in newz : f.seq = n
      BY <1>4, <2>1, <2>3, <3>1
    <3>3. f \notin newx
      BY <1>7, <1>11, <3>1, <3>2
    <3> QED
      BY <1>10, <3>2, <3>3
  <2> QED
    BY <2>2, <2>3
<1>13. \A e, f \in newy : First(y, e) < First(y, f) => e.seq < f.seq
  <2> SUFFICES ASSUME NEW e \in newy, NEW f \in newy, First(y, e) < First(y, f)
               PROVE  e.seq < f.seq
    OBVIOUS
  <2>1. /\ Len(x) \in Nat /\ First(y, e) \in Nat /\ First(y, f) \in Nat
        /\ First(z, e) = Len(x) + First(y, e) /\ First(z, f) = Len(x) + First(y, f)
    BY <1>2, <1>5, <1>10 DEF JoinOf
  <2>2. First(z, e) < First(z, f)
    BY <2>1
  <2> QED
    BY <1>4, <1>10, <2>2
<1>14. \A e \in ToSet(y) : e.stream # NoStream => after.stream \in {NoStream, e.stream}
  <2> SUFFICES ASSUME NEW e \in ToSet(y), e.stream # NoStream, after.stream # NoStream
               PROVE  after.stream = e.stream
    OBVIOUS
  <2>1. CASE newx = {}
    BY <1>4, <1>5, <1>11, <2>1
  <2>2. CASE newx # {}
    <3>1. PICK f \in newx : f.stream = after.stream
      BY <1>11, <2>2
    <3> QED
      BY <1>4, <1>5, <3>1
  <2> QED
    BY <2>1, <2>2
<1>15. \A e, f \in ToSet(y) \cup after.rows : e.id = f.id /\ e \in ToSet(y) => e = f
  BY <1>4, <1>5, <1>9
<1>16. Acceptable(y, after, lost)
  BY <1>4, <1>5, <1>12, <1>13, <1>14, <1>15, AcceptableIs DEF newy
<1>17. Verdict(y, after, lost) = "valid"
  BY <1>9, <1>16, AcceptableIsValid
<1> QED
  BY <1>1, <1>8, <1>17 DEF Succeed

(* A batch and its parts: wherever it is cut, they are valid together or not at all. *)
CutsAlike ==
  \A x, y \in Seq(Candidates), lost \in SUBSET Losses :
    /\ Verdict(x \o y, index, lost) = "valid" <=>
         Verdict(x, index, lost) = "valid" /\ Verdict(y, Imported(x, index), lost) = "valid"
    /\ Verdict(x \o y, index, lost) = "valid" =>
         Imported(x \o y, index) = Imported(y, Imported(x, index))

(***************************************************************************)
(* One import of all shards and an import of each in their order take the  *)
(* same shards, and make the same index of them: events of earlier parts   *)
(* and rows of the index are the same to the validation.                   *)
(***************************************************************************)
THEOREM ImportsInParts == ImportsSpec => []CutsAlike
<1>1. ImportsInv => CutsAlike
  <2> SUFFICES ASSUME ImportsInv, NEW x \in Seq(Candidates), NEW y \in Seq(Candidates), NEW lost
               PROVE  /\ Verdict(x \o y, index, lost) = "valid" <=>
                           /\ Verdict(x, index, lost) = "valid"
                           /\ Verdict(y, Imported(x, index), lost) = "valid"
                      /\ Verdict(x \o y, index, lost) = "valid" =>
                           Imported(x \o y, index) = Imported(y, Imported(x, index))
    BY DEF CutsAlike
  <2> DEFINE S == Streams(Candidates)
  <2>1. IsEventSet(Candidates, S) /\ index \in Tables(Candidates, S) /\ OneStream(index)
    BY CandidatesAreNumbered, NumberedAreEvents
       DEF ImportsInv, IndexInv, RowsIdentified, Enveloped, OneStream
  <2> HIDE DEF S
  <2>2. /\ Verdict(x, index, lost) = "valid"
        /\ Verdict(y, Imported(x, index), lost) = "valid"
        <=> Succeed(Candidates, S, index, lost, x, y)
    BY <2>1 DEF Succeed
  <2>3. Verdict(x \o y, index, lost) = "valid" => Succeed(Candidates, S, index, lost, x, y)
    BY <2>1, PartsImport
  <2>4. Succeed(Candidates, S, index, lost, x, y) =>
          /\ Verdict(x \o y, index, lost) = "valid"
          /\ Imported(x \o y, index) = Imported(y, Imported(x, index))
    BY ONLY JoinedImports
  <2> QED
    BY <2>2, <2>3, <2>4
<1> QED
  BY <1>1, ImportsInvariance, PTL

=============================================================================
