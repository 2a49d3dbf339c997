------------------------------- MODULE Imports -------------------------------
(***************************************************************************)
(* One index that is fed by import_events only: any batches, in any order, *)
(* with any accepted losses, valid or not.                                 *)
(***************************************************************************)
EXTENDS ImportBatch

CONSTANTS
  Candidates,  \* the events that may be in a batch
  MaxBatch,    \* bound on the length of a batch
  Losses       \* the sequences that may be accepted as lost

(* The event's sequence is a number, as validation has made sure. *)
ASSUME CandidatesAssumption ==
  MaxBatch \in Nat /\ \A e \in Candidates : e.seq \in Nat

VARIABLES
  index,     \* the rows and the cursor
  accepted   \* history: the sequences whose loss was accepted

importsVars == <<index, accepted>>

Batches == BoundedSeq(Candidates, MaxBatch)

ImportsInit == index = Fresh /\ accepted = {}

(* import_events in its own transaction: the batch is valid, or nothing happens. *)
ImportEvents(batch, lost) ==
  /\ Verdict(batch, index, lost) = "valid"
  /\ index' = Imported(batch, index)
  /\ accepted' = accepted \cup lost

ImportsNext == \E batch \in Batches, lost \in SUBSET Losses : ImportEvents(batch, lost)

ImportsSpec == ImportsInit /\ [][ImportsNext]_importsVars

-----------------------------------------------------------------------------

Enveloped == {r \in index.rows : r.stream # NoStream}

(***************************************************************************)
(* A valid batch never meets a constraint of the table: afterwards ids and *)
(* origins identify the rows, all of the ledger's one stream, below the    *)
(* cursor.  The assertion that no identity race was lost holds.            *)
(***************************************************************************)
RowsIdentified ==
  /\ \A r, s \in index.rows : r.id = s.id => r = s
  /\ \A r, s \in Enveloped : r.seq = s.seq => r = s
  /\ \A r \in Enveloped : r.stream = index.stream /\ r.seq < index.next

(* A sequence without a row was accepted as lost, after however many imports. *)
HolesWaived ==
  \A n \in 1 .. (index.next - 1) : n \in accepted \/ \E r \in Enveloped : r.seq = n

(***************************************************************************)
(* What a batch must be for a table to take it, said without an order of   *)
(* checking: one record per id, one stream, and the sequences of its new   *)
(* events, each first met in ascending order, fill the numbers from the    *)
(* cursor on but for accepted losses.                                      *)
(***************************************************************************)
Acceptable(batch, table, lost) ==
  LET events == ToSet(batch)
      enveloped == {e \in events : e.stream # NoStream}
      new == enveloped \ table.rows
      first(e) == CHOOSE i \in DOMAIN batch :
                    batch[i] = e /\ \A j \in 1 .. (i - 1) : batch[j] # e
  IN  /\ \A e, f \in events \cup table.rows : e.id = f.id /\ e \in events => e = f
      /\ \A e, f \in enveloped : e.stream = f.stream
      /\ \A e \in enveloped : table.stream \in {NoStream, e.stream}
      /\ \A e, f \in new : first(e) < first(f) => e.seq < f.seq
      /\ \A e \in new : /\ e.seq >= table.next
                        /\ \A n \in table.next .. (e.seq - 1) :
                             n \in lost \/ \E f \in new : f.seq = n

(* The validation, an event at a time, decides exactly that. *)
VerdictsRight ==
  \A batch \in Batches, lost \in SUBSET Losses :
    Verdict(batch, index, lost) = "valid" <=> Acceptable(batch, index, lost)

=============================================================================
