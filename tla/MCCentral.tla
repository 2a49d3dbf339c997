------------------------------ MODULE MCCentral ------------------------------
EXTENDS CentralRefinement

CONSTANTS c1, c2, c3, s1, s2, e1, e2, e3, e4

Rec(s, n, e, b) == [stream |-> s, seq |-> n, event |-> e, body |-> b]

(***************************************************************************)
(* A stream of two, a changed copy of its first, a rival of its second,    *)
(* its first's event id in another stream.                                 *)
(***************************************************************************)
MCRecords ==
  {Rec(s1, 1, e1, 0), Rec(s1, 1, e1, 1), Rec(s1, 2, e2, 0), Rec(s1, 2, e3, 0),
   Rec(s2, 1, e1, 0)}

(* The same with a second record of the other stream, for the readers. *)
MCPaged == MCRecords \cup {Rec(s2, 2, e4, 0)}

(* A reader of the stream with rivals, and one of all. *)
MCReaders == {s1, AllStreams}

=============================================================================
