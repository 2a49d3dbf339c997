------------------------------ MODULE MCLedger ------------------------------
(* Instances of Ledger for TLC, with its history and what it implements; each .cfg *)
(* picks its faults, requests and MaxLive.                                         *)
EXTENDS LedgerLog, Restarts, TLC

CONSTANTS d1, d2, p1, p2, p3

Plain(d)    == [day |-> d, body |-> "b", sem |-> NoSem]
First(d, b) == [day |-> d, body |-> b, sem |-> [case |-> "c", gen |-> 1, prior |-> NoProc]]
Later(d, p) == [day |-> d, body |-> "b", sem |-> [case |-> "c", gen |-> 2, prior |-> p]]

MCPlain == {Plain(d1)}

(* A first generation, its rival with other content on another day, and a second. *)
MCSemantic == {First(d1, "b"), First(d2, "c"), Later(d1, p1)}

MCKilled == {"crash"}

=============================================================================
