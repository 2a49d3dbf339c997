--------------------------- MODULE SourcePreflight ---------------------------
(***************************************************************************)
(* `auditctl source-preflight`: whether a manifest of frozen NDJSON files  *)
(* may be reviewed for an import.  The files are read one after the other, *)
(* each against the digest that the manifest froze, while others may       *)
(* append to them or overwrite them; their lines are folded into tables by *)
(* id, origin and idempotency key, and gaps are looked for at the end.     *)
(*                                                                         *)
(* A line is the record of all that its bytes say, so equal lines have     *)
(* equal hashes: its event as ImportBatch has it, how the event is spelt,  *)
(* its idempotency key, and how its record digest compares with the one    *)
(* derived.  A digest of a file is its content.                            *)
(***************************************************************************)
EXTENDS ImportBatch, FiniteSets

CONSTANTS
  Manifests,  \* sequences of sources: repository, digest domain, frozen lines
  Rewrites,   \* what a file may be overwritten with
  NoKey       \* a line without an idempotency key

(* Validation makes sure that a sequence is a number, and an origin's a positive one. *)
ASSUME ManifestsAssumption ==
  \A sources \in Manifests :
    /\ sources \in Seq(ToSet(sources))
    /\ \A source \in ToSet(sources) :
         /\ source.lines \in Seq(ToSet(source.lines))
         /\ \A l \in ToSet(source.lines) :
              /\ l.event.seq \in Nat
              /\ l.valid /\ l.event.stream # NoStream => l.event.seq >= 1

VARIABLES
  manifest,   \* the sources, in the manifest's order; <<>> before the command
  disk,       \* what the files hold now
  done,       \* how many of them have been read
  seen,       \* the tables of what their lines said
  report      \* the answer, NoReport while there is none

preflightVars == <<manifest, disk, done, seen, report>>

NoReport == [verdict |-> "none"]
Refused == [verdict |-> "refused"]

Unseen == [refused |-> FALSE, ids |-> {}, origins |-> {}, keys |-> {},
           copies |-> 0, lines |-> 0, verified |-> 0]

PreflightInit ==
  /\ manifest = <<>>
  /\ disk = <<>>
  /\ done = 0
  /\ seen = Unseen
  /\ report = NoReport

Begin ==
  /\ manifest = <<>>
  /\ manifest' \in Manifests
  /\ disk' = [i \in DOMAIN manifest' |-> manifest'[i].lines]
  /\ UNCHANGED <<done, seen, report>>

Reading == manifest # <<>> /\ report = NoReport

(* Somebody else writes a file that has not been read yet. *)
Rewrite(i) ==
  /\ Reading
  /\ i \in done + 1 .. Len(manifest)
  /\ \E lines \in Rewrites : disk' = [disk EXCEPT ![i] = lines]
  /\ UNCHANGED <<manifest, done, seen, report>>

HasOrigin(line) == line.event.stream # NoStream

(* A line with the id of an earlier one is its copy, byte for byte and of one repository. *)
IsCopy(entry, line, source) ==
  entry.line.event.id = line.event.id => entry.line = line /\ entry.repo = source.repo

(* The line contradicts nothing that was seen, and its digest is not known to be wrong. *)
Admissible(tables, line, source) ==
  /\ line.valid
  /\ \A entry \in tables.ids : IsCopy(entry, line, source)
  /\ HasOrigin(line) =>
       /\ \A l \in tables.origins :
            l.event.stream = line.event.stream /\ l.event.seq = line.event.seq => l = line
       /\ source.domain = "central" => line.digest # "wrong"
  /\ line.key # NoKey => \A l \in tables.keys : l.key = line.key => l = line

(* One pass of the loop over a file's lines. *)
FoldLine(tables, line, source) ==
  LET copy == \E entry \in tables.ids : entry.line.event.id = line.event.id
      verified == HasOrigin(line) /\ source.domain = "central" /\ line.digest = "right"
  IN  IF tables.refused \/ ~ Admissible(tables, line, source)
      THEN [tables EXCEPT !.refused = TRUE]
      ELSE [refused |-> FALSE,
            ids |-> tables.ids \cup {[line |-> line, repo |-> source.repo]},
            origins |-> tables.origins \cup (IF HasOrigin(line) THEN {line} ELSE {}),
            keys |-> tables.keys \cup (IF line.key # NoKey THEN {line} ELSE {}),
            copies |-> tables.copies + (IF copy THEN 1 ELSE 0),
            lines |-> tables.lines + 1,
            verified |-> tables.verified + (IF verified THEN 1 ELSE 0)]

(* The tables after each line of a file, and before the first. *)
Tallies(tables, source, lines) ==
  LET tally[n \in 0 .. Len(lines)] ==
        IF n = 0 THEN tables ELSE FoldLine(tally[n-1], lines[n], source)
  IN  tally

Folded(tables, source, lines) == Tallies(tables, source, lines)[Len(lines)]

(* Mutant: a file is known by its size. *)
SizeUnchanged(i) == Len(disk[i]) = Len(manifest[i].lines)

(* Byte count, digest and framing of a file are what the manifest froze. *)
Unchanged(i) == disk[i] = manifest[i].lines

(* One file is read whole, verified, and only then parsed. *)
ReadSource ==
  LET i == done + 1
      tables == Folded(seen, manifest[i], disk[i])
  IN  /\ Reading
      /\ i <= Len(manifest)
      /\ Unchanged(i) /\ ~ tables.refused
      /\ seen' = tables
      /\ done' = i
      /\ UNCHANGED <<manifest, disk, report>>

RefuseSource ==
  LET i == done + 1 IN
  /\ Reading
  /\ i <= Len(manifest)
  /\ ~ Unchanged(i) \/ Folded(seen, manifest[i], disk[i]).refused
  /\ report' = Refused
  /\ UNCHANGED <<manifest, disk, done, seen>>

(* Mutant: a stream may begin anywhere. *)
GapInside(lines) ==
  \E l, m \in lines : /\ l.event.stream = m.event.stream
                      /\ l.event.seq < m.event.seq - 1
                      /\ ~ \E k \in lines : /\ k.event.stream = l.event.stream
                                            /\ k.event.seq \in l.event.seq + 1 .. m.event.seq - 1

(* Neighbours among a stream's sequences, 0 before them, are not consecutive. *)
Gapped(lines) ==
  \E l \in lines :
    LET seqs == {0} \cup {m.event.seq : m \in {k \in lines : k.event.stream = l.event.stream}}
    IN  \E before, after \in seqs :
          /\ before < after /\ after # before + 1
          /\ \A n \in seqs : n <= before \/ after <= n

Answer ==
  /\ Reading
  /\ done = Len(manifest)
  /\ report' =
       IF Gapped(seen.origins) THEN Refused
       ELSE [verdict |-> "qualified",
             distinct |-> Cardinality(seen.ids),
             copies |-> seen.copies,
             complete |-> seen.verified = seen.lines]
  /\ UNCHANGED <<manifest, disk, done, seen>>

PreflightNext ==
  \/ Begin \/ ReadSource \/ RefuseSource \/ Answer
  \/ \E i \in DOMAIN manifest : Rewrite(i)

PreflightSpec == PreflightInit /\ [][PreflightNext]_preflightVars

-----------------------------------------------------------------------------
(* What a source set must be, said of all its lines at once. *)

Places == UNION {{<<i, n>> : n \in DOMAIN manifest[i].lines} : i \in DOMAIN manifest}
LineAt(p) == manifest[p[1]].lines[p[2]]
Origin(l) == <<l.event.stream, l.event.seq>>

Qualifies ==
  /\ \A p \in Places : LineAt(p).valid
  /\ \A p, q \in Places :
       LET l == LineAt(p)
           m == LineAt(q)
       IN  /\ l.event.id = m.event.id =>
                l = m /\ manifest[p[1]].repo = manifest[q[1]].repo
           /\ HasOrigin(l) /\ Origin(l) = Origin(m) => l = m
           /\ l.key # NoKey /\ l.key = m.key => l = m
  /\ \A p \in Places : \A n \in 1 .. LineAt(p).event.seq - 1 :
       HasOrigin(LineAt(p)) =>
         \E q \in Places : Origin(LineAt(q)) = <<LineAt(p).event.stream, n>>
  /\ \A p \in Places :
       manifest[p[1]].domain = "central" /\ HasOrigin(LineAt(p)) => LineAt(p).digest # "wrong"

(***************************************************************************)
(* A qualified report is about exactly what the manifest froze, whoever    *)
(* writes to the files between two reads, and it is right about the union  *)
(* of the sources: an overlap hides no gap and no collision, the copies    *)
(* are those lines that repeat another, and digests are complete only if   *)
(* every line had one that was compared.  A set that nobody changed is     *)
(* refused only if it does not qualify.                                    *)
(***************************************************************************)
PreflightRight ==
  /\ report.verdict = "qualified" =>
       /\ Qualifies
       /\ report.distinct = Cardinality({LineAt(p).event.id : p \in Places})
       /\ report.copies = Cardinality(Places) - report.distinct
       /\ report.complete <=> \A p \in Places :
            manifest[p[1]].domain = "central" /\ HasOrigin(LineAt(p))
              /\ LineAt(p).digest = "right"
  /\ report.verdict = "refused" =>
       ~ Qualifies \/ \E i \in DOMAIN manifest : disk[i] # manifest[i].lines

(* The events of the first files, in order: of none, of one, ... *)
EventsUpTo ==
  LET upTo[i \in 0 .. Len(manifest)] ==
        IF i = 0 THEN <<>>
        ELSE upTo[i-1] \o [n \in DOMAIN manifest[i].lines |-> manifest[i].lines[n].event]
  IN  upTo

(* The batch that `rebuild` would read from the files. *)
Batch == EventsUpTo[Len(manifest)]

(* The batch is of one stream, whose events first appear by ascending sequence. *)
OneStreamInOrder ==
  \A i, j \in DOMAIN Batch :
    Batch[i].stream # NoStream /\ Batch[j].stream # NoStream =>
      /\ Batch[i].stream = Batch[j].stream
      /\ i < j /\ Batch[i].seq > Batch[j].seq => \E k \in 1 .. i - 1 : Batch[k] = Batch[j]

(***************************************************************************)
(* What the preflight qualifies an empty index takes, if it is one stream  *)
(* in order: the two validations, which share no code, do not disagree on  *)
(* copies, collisions or gaps.                                             *)
(***************************************************************************)
QualifiedImports ==
  report.verdict = "qualified" /\ OneStreamInOrder => Verdict(Batch, Fresh, {}) = "valid"

=============================================================================
