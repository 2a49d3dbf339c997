---------------------------- MODULE SourceImports ----------------------------
(***************************************************************************)
(* Imports, and the preflight of a source set that is then imported.  The  *)
(* preflight neither reads nor writes an index, so one that runs beside    *)
(* an empty index is enough.                                               *)
(***************************************************************************)
EXTENDS Imports, SourcePreflight

sourceVars == <<importsVars, preflightVars>>

SourceInit == ImportsInit /\ PreflightInit

(* Any batches, until a preflight has begun. *)
ImportAny == manifest = <<>> /\ ImportsNext /\ UNCHANGED preflightVars

Preflight == index = Fresh /\ PreflightNext /\ UNCHANGED importsVars

(* The qualified events are imported, as often as one likes. *)
ImportQualified ==
  /\ report.verdict = "qualified"
  /\ ImportEvents(Batch, {})
  /\ UNCHANGED preflightVars

SourceNext == ImportAny \/ Preflight \/ ImportQualified

SourceSpec == SourceInit /\ [][SourceNext]_sourceVars

(***************************************************************************)
(* The verdict on every batch is right (VerdictsRight), wherever no        *)
(* preflight has begun: one leaves the index as it is.                     *)
(***************************************************************************)
ImportVerdictsRight == manifest = <<>> => VerdictsRight

=============================================================================
