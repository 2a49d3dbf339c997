# auditctl: a verification development

auditctl keeps an audit ledger beside a repository.  An event is written
twice: as a row of a SQLite index and as a line of a daily NDJSON shard, and
the shards are the authority.  A central service admits the same events into
PostgreSQL, one gap-free stream per producer.  This directory models the parts
that keep state, checks them with TLC and proves with TLAPS that their safety
properties hold for every value of the constants.  All line numbers refer to `src/auditctl/`.

## Inventory

| component | code | state | operations |
|---|---|---|---|
| local write path | `cli.py` 41-191, `db.py`, `ndjson.py` | `audit_event` rows, `producer_stream` (stream, next sequence), shard files, SQLite's writer lock | `add`, `semantic-replay`: reconcile, allocate, append, fsync, commit |
| rebuild and import | `cli.py` 432-501, `db.py` 323-605 | the same, the backup, the write-ahead log | preflight, coverage, rename, import |
| index connection | `db.py` 21-146 | journal mode, `schema_version` | connect with retry, migrate |
| central ingest | `central.py`, `vuoro_adapter.py` | `ingest_stream`, `ingest_observation`, `ingest_receipt` | submit; page through observations; look up receipts and streams |
| central schema | `central_schema.py`, `central_migrations/` | `schema_migration`, `schema_principal`, grants | migrate, check compatibility |
| validation, ids, render | `validation.py`, `ids.py`, `render.py` | none | pure functions of one event |
| semantic results | `semantic.py` | none | interpretation key, field checks |
| list, query | `cli.py` 336-411, `db.py` 507-568 | none | read one snapshot |
| paths, context | `paths.py` | none | resolve locations from environment and tree |
| source preflight | `source_preflight.py` | none | verify frozen sources, find gaps and copies |
| attribution listing | `attribution_listing.py` | a child process | run a helper under a deadline, kill and reap it |
| hooks | `hooks/` | none | name an index and a pool, call `add` |
| adapter, verification | `vuoro_adapter.py`, `verification/` | none | translate errors; check repository metadata |

Components interact through files and database rows only.  Every local
command is a short-lived process.  Two of them meet at SQLite's writer lock
(`BEGIN IMMEDIATE`) and at the shard files, which nobody locks while reading.
A submission and a migration meet at PostgreSQL's advisory locks, row locks and
privileges.

What is hard here:

* two stores and no common transaction: a crash between fsync and commit
  leaves a line without its row (`cli.py` 167-185);
* reconciliation and allocation are two transactions, so what one writer
  reconciled is stale when it allocates (`cli.py` 114-115);
* `--replace` renames an index that other processes have open, after a
  preflight that sees the main file and not its log (`cli.py` 487-495,
  `db.py` 490);
* a submission takes an event-id lock, then a stream row, and must refuse
  without a trace; its answer may be lost and it is retried (`central.py`
  219-367);
* offsets are taken before the commit and read by pagers (`central.py` 293,
  `vuoro_adapter.py` 413);
* a compatibility check is several statements, and roles rotate between them
  (`central_schema.py` 378-490);
* an index is opened by several commands and releases at once, and by strangers
  that keep it locked (`db.py` 104-146);
* the attribution helper may hang, fork, close its output or answer at its
  deadline (`attribution_listing.py` 171-198);
* frozen sources are read one after the other while others may write them
  (`source_preflight.py` 183-228);
* a write leaves an index, which is a marker for later resolutions (`paths.py`
  185-233).

What makes each component correct: the index is gap-free and unique and an
acknowledged event is in both stores; a rebuild drops nothing unnoticed and
repeats no origin; an admitted stream is contiguous, a retry returns the first
receipt, no reader misses a row of its stream; one release's migrations are
applied and only the recorded role is served; an opened index has the schema its
version says; a helper's answer is whole or nothing of the helper is left; a
qualified source set can be imported; a directory's evidence goes to one place.

## Modules

| module | what it is |
|---|---|
| `Ledger` | the local write path, one action per statement of consequence, with its faults |
| `AuditLog`, `LedgerLog` | the log that callers of `add` see, and the mapping that shows `Ledger` implements it |
| `Restarts` | `Ledger` with a history that tells invocations one after the other from those that meet |
| `CentralIngest` | submissions as READ COMMITTED transactions, and the paging readers |
| `CentralLog`, `CentralRefinement` | the ledger that producers see, and the mapping that shows `CentralIngest` implements it |
| `ImportBatch` | what `_validate_import_batch` accepts and `import_events` does, as operators |
| `Imports` | every sequence of imports of batches |
| `SourcePreflight` | the preflight of frozen sources; extends `ImportBatch` |
| `SourceImports` | both: what the preflight qualified is imported |
| `Rebuild` | `rebuild` step by step beside adds, kills and lost shards; extends `ImportBatch` |
| `QuietRebuilds` | `Rebuild` with a history that tells processes one after the other from those that meet or die |
| `CentralSchema` | migration jobs, role rotation and the compatibility check |
| `OpenIndex` | `connect` and `init_db`, by commands of several releases at once |
| `AttributionHelper` | the call of the attribution helper under its deadline |
| `Contexts` | where a write goes, in a tree that writes and git change |
| `LedgerProofs`, `CentralProofs`, `RebuildProofs`, `ImportProofs`, `SchemaProofs`, `OpenIndexProofs`, `HelperProofs`, `ContextsProofs` | the inductive invariant of each component and its theorems |
| `MC*` | the instances that TLC checks |

### Ledger

`pc` says where an invocation stands.  "open" is before the first
`BEGIN IMMEDIATE`, "reconcile" holds its lock, "between" is after its commit,
"check" follows the second `BEGIN IMMEDIATE`; then come "append", "fsync" and
"commit".  `rows` and `origin` are what is committed; a transaction's own
insertion is in `answer` until `Commit`.  A shard is a sequence of writes, each
whole, without its newline ("unended") or torn; a write that lacks its newline
swallows the next one, as in the file.  `synced` counts the writes that fsync
has forced.  Reconciliation is one step under the lock: it reads all shards,
imports the lines the index lacks and moves the cursor, or fails and changes
nothing.  `Busy` is the busy timeout.  `Crash` kills an invocation anywhere;
SQLite then releases its lock, and an uncertain commit may or may not have
happened.  `PowerLoss` stops all and may cut what was not synced.

An event's id is the name of its invocation (`new_event_id` does not repeat).
The interpretation key is the case and generation it digests.  The flock of
`append_event` is subsumed by SQLite's lock, which every appender to the
directory holds.

### CentralIngest

`eventLock` is the advisory lock of an event id, `streamLock` the row of a
stream, held from `INSERT ... ON CONFLICT` or `SELECT ... FOR UPDATE` to the
end of the transaction.  `read` is the cursor as the call read it.  `Insert`
takes an offset from the sequence; a rollback does not give it back.  `Commit`
may lose its answer; a retry is a further call with the same record.  `Abort`
breaks a call off anywhere.  A reader, of one stream or of all, keeps the
watermark that `read_observations` returned to it.  `overtaken` is a history: the
offsets that were taken and not yet committed when a reader's watermark passed
them.

### ImportBatch, Imports, SourcePreflight, Rebuild

`Admit` follows the loop of `_validate_import_batch`, legacy events and copies
included; `Seen` is what it has seen after each event.  `Imports` imports batch
after batch and compares the verdict with a definition that has no loop; its
`accepted` are the losses that were accepted so far.

`SourcePreflight` reads the sources of a manifest one per step; between the
steps, `Rewrite` is somebody else writing a file that is still to be read.  A
line stands for all that its bytes say.  Its tables are the code's
dictionaries, and gaps are looked for when all is read.  `PreflightRight`
compares the report with definitions over the frozen lines that know no order.
`SourceImports` imports what was qualified: no one command does both, they are
two that are given the same files.  The
preflight reads no index, so it runs beside an empty one there.

In `Rebuild`, a file is its committed content (`files`) and what its main file
holds (`main`); the last connection to close merges the log, a killed process
does not.  So a rebuild that is refused at its import merges the log others left
(`ImportRefused`), and one that is killed there may leave a new empty index, or a
committed batch in the log (`KillImport`).  `path` is the file at the index path: renaming it leaves it to
those who have it open.  Here adds are coarser than in `Ledger` (appends are
whole, fsync and commit do not fail), since the faults of a single add are
`Ledger`'s subject.  Reconciliation reads all shards in one step; the code reads
file after file, but under the writer lock that every appender holds.

### CentralSchema

A job holds the advisory lock from `Bootstrap` to its end and works on its
transaction's copy of the schema; `CommitJob` publishes it.  A migration is
the digest of its SQL.  A client is one served operation: three statements of
`check_compatibility`, each on what is committed when it runs, and then the
operation's own in two groups, those on the stream (`OpenStream`) and those on
observations and receipts (`Serve`), each of which PostgreSQL refuses without
privileges; a rotation may be committed between any two.  Roles are not
superusers and a schema keeps its owner.

### OpenIndex

`wal`, `table` and `store` are the file: its journal mode, whether
`schema_version` exists, and what is committed.  `draft` is a transaction's
copy.  A migration is a count of how often it took effect, as the additions it
makes would raise the second time.  A busy switch to WAL raises at once, without
the busy timeout, and is tried again with a new connection; `InitBusy` is the
timeout.  `Other` is a connection that follows none of this.  `Stop` stands for
any statement that raises and for a kill, which leave the same file.

### AttributionHelper

Output is counted in chunks, and the pipe blocks its writers when full.  `Fork`
gives the helper a child that inherits the pipe and the process group.  The
deadline is a step that may come at any time; the caller's guards read it where
the code computes the remaining time, so an answer that is read just before the
deadline is still parsed.  `SpoolFails` is an error of the spool's write or read.  The group's leader is a zombie until it is reaped,
and the kill of an empty group is no error.  After an answer, a child of the
helper that has closed its output may live on; the code does not look for it.

### Contexts

`git` says of a directory that it has its own repository, is a linked worktree
of another, or neither; `index` where `.auditctl/auditctl.db` stands; `declared`
what `.auditctl-id` says.  `Home` is `resolve_paths` without AUDITCTL_DB,
`HomeOfDb` with it, `Resolves` and `Context` are `resolve_audit_context`.  A
write creates the index.  `PostCommit` is what both hooks export.  Directories
that carry no marker are left out of the tree, so two of one name may have one
parent in it.

## Runs

| run | instance and states | what it shows |
|---|---|---|
| `ledger` | 3 invocations, 2 days, a first generation, its rival and a second, all faults, fairness; 206k | the index is gap-free, unique and grounded; a success is a row, and a line unless it ran into another writer's fragment; a line without a row is the next row or can never be imported; invocations one after the other never leave shards that contradict the index; `AuditLog` is implemented; every invocation ends and frees the lock |
| `ledger_origin_reused` | 3 invocations, at most 2 at once, kills | violation: one origin for two lines |
| `central_ingest` | 3 calls, 6 records of 2 streams, pages of one row, 2 readers, fairness; 295k | contiguity, receipts and retries, no residue, readers; what a call found under its locks still holds when it writes; `CentralLog` is implemented; every call ends |
| `import_batches` | every sequence of batches of up to three events; two frozen sources of up to two lines each, rewritten at any time; 486k | verdicts are right, imports keep the index consistent, the preflight's report is about what was frozen, and what it qualifies imports |
| `rebuild` | 3 adds, 2 days, kills and losses beside one rebuild, or two rebuilds in a quiet directory; 803k | no file is ever inconsistent; shards in order rebuild; in a quiet directory nothing is dropped unnoticed and no sequence lost or reused but on request |
| `rebuild_order` | 2 adds, 2 days | violation: a valid history is refused |
| `rebuild_log_missed` | a killed add and a lost shard | violation: a committed row is replaced away |
| `schema_jobs` | 2 jobs, 3 releases, 3 roles, 1 client; 731k | one history, rotation, each statement only for the recorded role |
| `open_index` | 2 commands of one release, 1 of an older, 2 retries, a foreign lock, fairness; 281k | the schema is the one its version says; no release sets it back; every open ends |
| `attribution_helper` | a helper and its child, budget 3, pipe 2, output 5 chunks, fairness; 4k | a failed call leaves nothing; an answer is whole and in time; every call ends |
| `contexts` | a workspace, two repositories of one name, a directory below one, an id; 9k | shards lie with their index, checkouts go to one place, no write by default moves another directory's writes |
| `contexts_pooled` | the same | violation: two repositories of a pool share their shards |

**Bounds.**  Two writers are needed for each race between reconciling and
allocating, a third to come after them and see the damage, or before them and give
the index its stream; two days show shard
boundaries.  Three calls allow a record, its retry or rival and the next sequence,
or a reader between two writers.  Batches of three have a gap, a copy and a
reversed pair; two sources overlap, and a stream begins late or skips.  Two
rebuilds show what the second finds after the first: `RacedRebuilds` bounds the
rebuilds where processes meet or die, `MaxRebuilds` those of a quiet directory.
Two jobs are a rotation; the third release is newer than the checked runtime.  Two
retries are one that helps and one that does not; the code has four.  A budget
of three and an output of five chunks are reached exactly, stayed under and
exceeded, with a pipe smaller than both.  Four directories hold a nearer and a
farther marker, a worktree beside its main repository, inside it and inside
another.  `MaxLive` bounds the processes alive at one moment, `MaxOther` the
foreign locks, `Limit` a page.  Deadlock is not checked: the processes of an
instance all end.

`serial` (in `Restarts`) and `quiet` (in `QuietRebuilds`) are histories: they say that so
far no two processes ran at once and, the former, that no line was cut short,
the latter, that none was killed.  The properties that need it are stated over
them, so one run explores both.

**Fairness.**  `WF` of each invocation's steps: the operating system schedules a
process that can run, and a call of the database that need not wait proceeds.
Starting, crashing and power failure are not fair, nor is anything that the
attribution helper or a foreign connection does; that the deadline comes is the
clock's fairness.  A writer that waits for the
lock may also give up (`Busy`), as SQLite's timeout makes it, so no strong
fairness is assumed.

**What the violations show.**  `ledger_origin_reused`: the index has
its stream, from a first invocation; writer A reconciles; writer B allocates
sequence n, appends and dies; A allocates n again, in the same stream.  The index
stays right (`UnindexedHarmless`), the shards do not, and from then on every
reconciliation fails at the unique origin index.  (In an empty ledger the same race
gives each line a stream of its own, and the next reconciliation stops at
`observe_origin`'s check for a different stream.)  `rebuild_order`: an event with
an earlier `--ts` lies in an earlier shard than its predecessor, and the rebuild
reads files by name and demands ascending sequences.  `OrderedShardsConverge` is
what does hold: with days in order, a gap-free history is refused only if a line
was lost or two lines have one origin.  Those exceptions are needed even where
the batch itself has neither: after a `--replace`, an add that still has the
renamed index open and one that has the new index number their lines apart and
append to one shard, which then has a later line before an earlier one (the
attempt to prove it without them found this).  `rebuild_log_missed`: the coverage check opens the index with
`immutable=1` and does not see a row in the log of a killed writer.
`contexts_pooled`: two repositories of one basename, each below a directory of its
own in the pool, export the pool as artifacts root and declare no id; their
shards are one directory, and each index will meet the other's lines.

More disagreements with the documents were met while modelling and have
no run of their own:

* an add whose fsync fails reports failure, and the next add commits its line
  ("Reported NDJSON append failure does not leave a committed SQLite row",
  `docs/protocols/audit-write-and-rebuild.md` 95); in `Ledger`, `FsyncFails`
  leaves the line and `Reconcile` imports it;
* an add that had reconciled appends behind a torn line and reports success
  without a readable line ("A successful response promises both copies", 47);
  `AddedReadable` names this exception;
* a shard that is gone as a whole is passed over by the next add ("Corrupt or
  missing shards stop reconciliation visibly", 65-67); in `Rebuild`, `Reconcile`
  has no guard on the rows;
* a role configured at schema version 1 keeps its grants when another is
  configured later (`docs/operations/central-schema-migrations.md` 33): version
  1 has no table to record it in, so `RotationRevokes` speaks of recorded roles;
* a repository nested in a linked worktree, a submodule for instance, is
  attributed to the worktree's main repository, past its own `.git` ("it can
  never be climbed past by accident", `paths.py` 213): the worktree walk comes
  first.  The same submodule in the main checkout is attributed to itself.
  `EvidenceTogether` names this exception;
* the hooks export the index of the worktree they run in, so a commit made in a
  linked worktree is recorded in that worktree and under its name ("A linked
  worktree belongs to its main repository, whatever indexes sit above it",
  `paths.py` 185): `PostCommit` is a write with AUDITCTL_DB;
* `add` resolves an artifacts root of its own when none is exported
  ("`auditctl add` requires `AUDITCTL_ARTIFACTS_ROOT`", `README.md` 49).

## Proofs

Each `*Proofs` module proves its component for all constants: any number of
processes, days, records, releases, roles, directories or batches, and with every
fault.  The bounds above are TLC's.

| module | what is proved | its invariant |
|---|---|---|
| `LedgerProofs` | all safety properties of `Ledger`; `Refinement` to `AuditLog`; `RestartsReconcile` | `IndInv`, `RestartsInv` |
| `CentralProofs` | all safety properties of `CentralIngest`; `Refinement` to `CentralLog` | `IndInv` |
| `RebuildProofs` | all properties of `Rebuild` and `QuietRebuilds` that hold | `RebuildInv`, `ConvergeInv`, `QuietInv` |
| `ImportProofs` | all properties of `Imports`, `SourcePreflight` and `SourceImports`, for batches and sources of any length; imports in parts, all at once, and again have one effect | `ImportsInv`, `PreflightInv`, `SourceInv` |
| `SchemaProofs` | all properties of `CentralSchema` | `IndInv` |
| `OpenIndexProofs` | `SchemaAtVersion`, `OpenedUsable` | `IndInv` |
| `HelperProofs` | `NothingLeft`, `AnswerWhole` | `IndInv` |
| `ContextsProofs` | `HomesStay`, `EvidenceTogether`, for every tree | `IndInv` |

**Assumptions.**  Those the modules name: a placeholder (`NoProc`, `NoCall`,
`NoStream`, `None`) is no value of the set it stands beside; requests, records and
options have their fields; sequences are positive, in a preflight those of lines
that validation accepts; sources are finite sequences of lines; a directory is below finitely
many others, each above the next; bounds are numbers.  No set of processes, days or
records is assumed to be finite.

**The local write path.**  `IndexGapFree` is not inductive: a reconciliation could
import anything.  What carries it is `UnindexedHarmless`: a line that the index
lacks either is exactly its next row, with a key that is unclaimed and a prior
that is there, or can never be imported.  Two unindexed lines may both be at
the head, and then reconciliation refuses them, so a reconciliation adds at most
one row (`AtMostOneImported`).  A commit is its own case: `Exclusive` and
`Drafted` say that the holder of the lock writes the event at the head, and
`IdsFresh` and `IdsIdentify` that its id is new, so a line is never taken for
another event.  Every other line at the head becomes refuted by the row that
takes its origin.  A power failure only shrinks the files (`PowerLossShrinks`);
what an acknowledged event needs of them was synced.  For the refinement the rows
are read as the sequence that `IndexGapFree` makes them, and a new row is an entry
appended.  Invocations one after the other leave the index one line behind
at most, and whoever writes has imported it before (`SerialInv`).

**Central ingest.**  What a call has found, it found under a lock that it still
holds, so it holds when the call writes.  An offset stays in flight from the
sequence to the end of its transaction, and the lock on its stream's row keeps
all others of the stream in front of it or behind it: so a reader of one stream
passes over none.  A commit is then one step of `CentralLog`, all else none.

**Imports.**  The loop is a recursive function over the positions of the batch.
There is no induction to cite, so a claim about all positions is proved by the
least one that would refute it.  What the loop has met, and that the new events
fill the numbers from the cursor on, is kept by one turn of it (`PassedStep`).
Hence the loop accepts exactly what `Acceptable` says without order of checking,
and three facts about imports follow from that description, for any index that
imports made: a valid batch cut anywhere is two valid ones, and two are one, with
the same index (`ImportsInParts`); so some single batch makes every index that
any number of imports made (`ImportsAreOne`); and a batch that was imported is
valid again, with no loss accepted, and changes nothing (`ImportsRepeat`).  These are
about `import_events`; the coverage check before it, which would stop a rebuild
from a part of the shards, is `Rebuild`'s.

**The preflight.**  It is a loop in a loop, over sources and their lines.  While
no line was refused the tables are the images of all places read so far, the
counts are cardinalities, and any two places agree; a refusal comes of two that do
not (`Tallied`).  One turn keeps this, because the id of a line is in the tables exactly if
its whole line is.  What the code looks for at the end, two neighbours among a
stream's sequences that are not consecutive, exists exactly if a sequence below
one of them is missing (`GappedIs`: the neighbours of the hole are the greatest
below it and the least above).  A file that was rewritten is refused, so the
frozen lines are those that were read.  Then the two validations meet:
a set that qualifies, in the order of one stream, satisfies `Acceptable` for
the empty index, so the import's loop accepts it (`QualifiedSetsImport`).

**Rebuild.**  A file changes by the commit of the add that holds its lock, or
while no add holds it, by a batch that was compared with it under the lock
(`FilesStayConsistent`).  Wherever an event is, it is the draft of the add it is
named for, so two with one id are one.  Shards converge because, while no line
is lost and no origin given to two, every stream's lines have all sequences
below their own: an append behind a later line would repeat an origin, so shards
ascend, and of an ascending batch the least place where it could be refused has
its predecessor admitted (`AscendingAdmitted`).  One process after another,
nothing changes between the comparison and the rename, so every event ever
appended is a row, in the batch or given up on request, and all below it
likewise; this carries `QuietNothingDropped` and `QuietOriginsKept`.

**The others.**  `SchemaProofs`: the lock holder's transaction extends what is
committed, and the record and the privileges agree in both; a rotation takes all
privileges of the role it replaces and gives none but to the one it records, so
who passed the check and may still execute a statement is on record.  `OpenIndexProofs`: who writes holds the file's
lock, and commits only where rows, version and migrations agree.
`HelperProofs`: an ended pipe stays ended and a killed group stays dead, so what
the caller knew when it decided is so when it answers.  `ContextsProofs`: a walk
upwards finds the nearest of what it seeks, and depends only on what is at or
above its start; a worktree's repository stays one (`MainStays`).

**Only model-checked.**  Liveness (`InvocationsEnd`, `CallsEnd`, `OpensEnd`,
`CallEnds`): fairness and ENABLED are out of the prover's reach.

## Assumptions and what is not modelled

* A SQLite commit is durable and PostgreSQL's transactions are atomic; directory
  entries survive a power failure.
* Digests do not collide and event ids do not repeat.
* Repairing a torn shard is the operator's; legacy lines appear in `ImportBatch`
  only.
* A shard is not lost while a rebuild that has compared it goes on to rename.
* Two concurrent rebuilds, the name of the backup (one-second resolution) and
  the log files of an index that is renamed while open are left out.
* A reader of all streams can miss a row whose offset was taken earlier and
  committed later; no document promises otherwise, and `ReadersComplete` says that
  it misses no other.
* In `Contexts`, repositories are not removed, an id that is refused for its form
  is left out, and AUDITCTL_DB names a standard index or a file outside
  `.auditctl`; whoever names a second file there gets two indexes for one shard
  directory, as asked.
* The process id of a helper that has been reaped is not given to another
  process before the group is killed.
* `validation.py`, `ids.py` and `render.py` are pure functions of one event, and
  so are the field checks of `semantic.py` and of the attribution report: the
  models take what passed them.  `list` and `query` read one snapshot.  The rest of
  the adapter translates errors.  The release checks read the repository's own
  metadata.

## Plan

All modules of the plan are written and their safety properties proved.  What is
left to model: two concurrent rebuilds, and the files that `--replace` leaves (the
name of the backup, a log whose index was renamed).
