----------------------------- MODULE LedgerLog ------------------------------
(***************************************************************************)
(* The write path implements the audit log its callers see: the n-th entry *)
(* of the log is the row with sequence n.                                  *)
(***************************************************************************)
EXTENDS Ledger

Entry(e) == [id |-> e.id, req |-> e.req]

LogOfRows ==
  [n \in 1 .. (origin.next - 1) |-> Entry(CHOOSE r \in rows : r.seq = n)]

Replies ==
  [p \in Procs |-> IF pc[p] \in {"added", "replayed"} THEN Entry(answer[p]) ELSE NoProc]

Promise == INSTANCE AuditLog WITH
  Callers <- Procs, NoReply <- NoProc, log <- LogOfRows, reply <- Replies

(***************************************************************************)
(* Every behaviour of the write path is one of the audit log: a commit and *)
(* a reconciliation each add at most one entry, and neither a crash nor a  *)
(* power failure takes one back.                                           *)
(***************************************************************************)
ImplementsLog == Promise!Spec
=============================================================================
