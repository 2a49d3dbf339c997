----------------------------- MODULE ImportBatch -----------------------------
(***************************************************************************)
(* The import of a batch of NDJSON events into an index, as `auditctl      *)
(* rebuild` does it: what db._validate_import_batch accepts, and what      *)
(* db.import_events then makes of the index.                               *)
(*                                                                         *)
(* An event is a record with at least an id, a stream and a sequence; a    *)
(* legacy event, written before there were envelopes, has NoStream.  Equal *)
(* events have equal canonical records.  An index is its rows and the      *)
(* cursor of its producer stream.                                          *)
(***************************************************************************)
EXTENDS Naturals, SequencesExt

CONSTANT NoStream

Fresh == [rows |-> {}, stream |-> NoStream, next |-> 1]

(* One id with two canonical records. *)
Collide(events) == \E e, f \in events : e.id = f.id /\ e # f

(* Mutant: an accepted loss excuses any gap. *)
Beyond(n, seq, waived) == n <= seq /\ (waived # {} \/ n = seq)

(* The sequence is the expected one, or only accepted losses lie between. *)
Follows(n, seq, waived) == n <= seq /\ n .. (seq - 1) \subseteq waived

(* Mutant: a repeated copy counts as the next event. *)
AdmitCopies(seen, e, index, waived) ==
  IF seen.refused \/ e.stream = NoStream \/ e \in index.rows THEN seen
  ELSE [refused |-> seen.stream \notin {NoStream, e.stream} \/ ~ Follows(seen.next, e.seq, waived),
        stream |-> e.stream, next |-> e.seq + 1, events |-> seen.events \cup {e}]

(***************************************************************************)
(* One event of the batch against what precedes it.  Legacy events and     *)
(* repeated copies are passed over; an event that is a row already does    *)
(* not move the cursor, but must be of the ledger's stream.                *)
(***************************************************************************)
Admit(seen, e, index, waived) ==
  IF seen.refused \/ e.stream = NoStream \/ e \in seen.events THEN seen
  ELSE IF \/ seen.stream \notin {NoStream, e.stream}
          \/ e \notin index.rows /\ ~ Follows(seen.next, e.seq, waived)
  THEN [seen EXCEPT !.refused = TRUE]
  ELSE IF e \in index.rows THEN [seen EXCEPT !.events = @ \cup {e}]
  ELSE [refused |-> FALSE, stream |-> e.stream, next |-> e.seq + 1,
        events |-> seen.events \cup {e}]

(* What has been seen after each event of the batch, and before the first. *)
Seen(batch, index, waived) ==
  LET seen[n \in 0 .. Len(batch)] ==
        IF n = 0
        THEN [refused |-> FALSE, stream |-> index.stream, next |-> index.next, events |-> {}]
        ELSE Admit(seen[n-1], batch[n], index, waived)
  IN  seen

Continuous(batch, index, waived) == ~ Seen(batch, index, waived)[Len(batch)].refused

(* What the validation answers; nothing is written before it has answered. *)
Verdict(batch, index, waived) ==
  IF Collide(ToSet(batch) \cup {r \in index.rows : \E e \in ToSet(batch) : e.id = r.id})
  THEN "incompatible_duplicate_identity"
  ELSE IF ~ Continuous(batch, index, waived) THEN "origin_discontinuity"
  ELSE "valid"

(* Mutant: the stream is recorded and the cursor left behind. *)
Unmoved(index, new) ==
  LET enveloped == {e \in new : e.stream # NoStream} IN
  IF enveloped = {} THEN index
  ELSE [index EXCEPT !.stream = (CHOOSE e \in enveloped : TRUE).stream]

(* Mutant: the cursor is moved by the allocation and again by the insertion. *)
MovedTwice(index, new) ==
  LET enveloped == {e \in new : e.stream # NoStream}
      above == {e.seq + 2 : e \in enveloped} \cup {index.next}
  IN  IF enveloped = {} THEN index
      ELSE [index EXCEPT !.stream = (CHOOSE e \in enveloped : TRUE).stream,
                         !.next = CHOOSE n \in above : \A m \in above : m <= n]

(* observe_origin of every new row: the cursor ends above all of them. *)
Observe(index, new) ==
  LET enveloped == {e \in new : e.stream # NoStream}
      above == {e.seq + 1 : e \in enveloped} \cup {index.next}
  IN  IF enveloped = {} THEN index
      ELSE [index EXCEPT !.stream = (CHOOSE e \in enveloped : TRUE).stream,
                         !.next = CHOOSE n \in above : \A m \in above : m <= n]

(* Mutant: the rows that there were are dropped. *)
Overwritten(batch, index) ==
  LET new == ToSet(batch) \ index.rows IN [Observe(index, new) EXCEPT !.rows = new]

(* The index after a valid batch: the events it lacked, and the cursor above them. *)
Imported(batch, index) ==
  LET new == ToSet(batch) \ index.rows IN
  [Observe(index, new) EXCEPT !.rows = index.rows \cup new]

=============================================================================
