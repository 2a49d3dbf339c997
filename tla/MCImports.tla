------------------------------ MODULE MCImports ------------------------------
(***************************************************************************)
(* SourceImports for TLC.                                                  *)
(***************************************************************************)
EXTENDS SourceImports

CONSTANTS a, b, c, d, legacy, s, t, k, r1, r2

Ev(i, st, n, body) == [id |-> i, stream |-> st, seq |-> n, body |-> body]

(***************************************************************************)
(* Three consecutive events, a changed copy of the first, another event    *)
(* with the second's origin, an event of another stream, a legacy event.   *)
(***************************************************************************)
MCCandidates ==
  {Ev(a, s, 1, 0), Ev(a, s, 1, 1), Ev(b, s, 2, 0), Ev(c, s, 3, 0), Ev(d, s, 2, 0),
   Ev(d, t, 1, 0), Ev(legacy, NoStream, 0, 0)}

Line(e, spelling, key, digest) ==
  [event |-> e, spelling |-> spelling, key |-> key, digest |-> digest, valid |-> TRUE]

(***************************************************************************)
(* Lines of those events, one spelt twice, one with a key that another     *)
(* shares, one whose digest is wrong, one that is no event.                *)
(***************************************************************************)
MCLines ==
  {Line(Ev(a, s, 1, 0), 0, NoKey, "right"), Line(Ev(a, s, 1, 0), 1, NoKey, "right"),
   Line(Ev(b, s, 2, 0), 0, k, "right"), Line(Ev(c, s, 3, 0), 0, k, "wrong"),
   Line(Ev(c, s, 3, 0), 0, NoKey, "right"), Line(Ev(d, s, 2, 0), 0, NoKey, "absent"),
   Line(Ev(legacy, NoStream, 0, 0), 0, NoKey, "absent")}

Broken == [Line(Ev(legacy, NoStream, 0, 0), 0, NoKey, "absent") EXCEPT !.valid = FALSE]

Source(repo, domain, lines) == [repo |-> repo, domain |-> domain, lines |-> lines]

Contents == BoundedSeq(MCLines, 2) \ {<<>>}

(* Two sources of up to two lines, or one of a line. *)
MCManifests ==
  {<<Source(r1, "central", x), Source(r, dom, y)>> :
     x \in Contents, r \in {r1, r2}, dom \in {"central", "unknown"}, y \in Contents}
    \cup {<<Source(r1, "unknown", <<x>>)>> : x \in MCLines \cup {Broken}}

MCRewrites == {<<Line(Ev(a, s, 1, 1), 0, NoKey, "right")>>}

=============================================================================
