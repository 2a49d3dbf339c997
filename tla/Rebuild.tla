------------------------------- MODULE Rebuild -------------------------------
(***************************************************************************)
(* `auditctl rebuild --from-ndjson` beside running `auditctl add`s.        *)
(*                                                                         *)
(* --replace renames the index away and imports the shards into the file   *)
(* that the next connection creates in its place, while an add that opened *)
(* the index earlier goes on with the renamed file: the writer lock is per *)
(* file, the shards are shared.  The preflight reads the index with        *)
(* immutable=1, which sees the main file and not its write-ahead log; the  *)
(* log is merged into the main file when its last connection closes, not   *)
(* when a process is killed.                                               *)
(*                                                                         *)
(* Appends are whole here and fsync does not fail: Ledger has what a torn  *)
(* write, a failed fsync or commit and a power failure do.                 *)
(***************************************************************************)
EXTENDS ImportBatch, FiniteSets

CONSTANTS
  Procs,        \* the adds; the event an add makes carries its name
  Days,         \* a set of numbers: one shard file each, in file name order
  Options,      \* what a rebuild may be asked for
  MaxRebuilds,  \* bound on the rebuilds started
  MaxLive,      \* bound on those that run at one moment
  Faults        \* subset of {"kill", "lose"}

ASSUME DaysAssumption == Days \subseteq Nat
ASSUME BoundAssumption == MaxRebuilds \in Nat
ASSUME OptionsAssumption ==
  \A o \in Options : /\ DOMAIN o = {"days", "replace", "allow", "dry"}
                     /\ o.days \subseteq Days
                     /\ {o.replace, o.allow, o.dry} \subseteq BOOLEAN

VARIABLES
  pc,       \* where each add stands
  day,      \* the day its event is stamped with
  handle,   \* the database file it has open
  draft,    \* the event it has appended
  files,    \* file -> its committed content, write-ahead log included
  main,     \* file -> the content of its main file
  path,     \* the file at the index path, NoFile if there is none
  made,     \* the number of files there have been at the path
  lock,     \* file -> the holder of its writer lock
  shards,   \* day -> the events in its shard, <<>> if there is no such file
  phase,    \* where the rebuild stands
  opts,     \* what it was asked for
  todo,     \* the shards it has yet to read
  batch,    \* the events it has read
  only,     \* the rows that it found no shard to carry
  result,   \* the outcome of the last rebuild
  begun,    \* the number of rebuilds started
  gone,     \* history: rows that were replaced away unnoticed
  waived    \* history: sequences that a rebuild was told to give up

adds == <<pc, day, handle, draft>>
store == <<files, main, path, made, lock>>
rebuild == <<phase, opts, todo, batch, only, result, begun>>
history == <<gone, waived>>
vars == <<adds, store, shards, rebuild, history>>

NoFile == 0
EventRecords == [id : Procs, day : Days, seq : Nat \ {0}, stream : Procs]

ASSUME NoStreamAssumption == NoStream \notin Procs \cup EventRecords

FileIds == 1 .. (MaxRebuilds + 1)
NoTables == [rows |-> {}, stream |-> NoStream, next |-> 0]

-----------------------------------------------------------------------------

Init ==
  /\ pc = [p \in Procs |-> "idle"]
  /\ day = [p \in Procs |-> 0]
  /\ handle = [p \in Procs |-> NoFile]
  /\ draft = [p \in Procs |-> NoStream]
  /\ files = [f \in FileIds |-> NoTables]
  /\ main = [f \in FileIds |-> NoTables]
  /\ path = NoFile
  /\ made = 0
  /\ lock = [f \in FileIds |-> NoStream]
  /\ shards = [d \in Days |-> <<>>]
  /\ phase = "idle"
  /\ opts = NoStream
  /\ todo = {}
  /\ batch = <<>>
  /\ only = {}
  /\ result = "none"
  /\ begun = 0
  /\ gone = {}
  /\ waived = {}

Open == {p \in Procs : pc[p] \in {"open", "between", "commit"}}
Running == Cardinality(Open) + (IF phase = "idle" THEN 0 ELSE 1)

(* The events that the shards carry, whoever reads them all. *)
Lines == UNION {ToSet(shards[d]) : d \in Days}

-----------------------------------------------------------------------------
(* The adds. *)

Goto(p, l) == pc' = [pc EXCEPT ![p] = l]

(* Connecting creates the file that is missing at the path, with its tables. *)
Connected(f) ==
  /\ path' = f
  /\ IF path = NoFile
     THEN /\ made' = made + 1
          /\ files' = [files EXCEPT ![f] = Fresh]
     ELSE UNCHANGED <<made, files>>

AtPath == IF path = NoFile THEN made + 1 ELSE path

OpenIndex(p) ==
  /\ pc[p] = "idle"
  /\ Running < MaxLive
  /\ lock[AtPath] = NoStream
  /\ \E d \in Days : day' = [day EXCEPT ![p] = d]
  /\ handle' = [handle EXCEPT ![p] = AtPath]
  /\ Connected(AtPath)
  /\ Goto(p, "open")
  /\ UNCHANGED <<draft, main, lock, shards, rebuild, history>>

(* The content to which p's file closes: its last connection merges the log. *)
Merged(p, content) ==
  IF \E q \in Open \ {p} : handle[q] = handle[p] THEN main
  ELSE [main EXCEPT ![handle[p]] = content]

(* Lines of one stream, the index's, and no two events with one origin. *)
Reconcilable(index) ==
  /\ \A e, f \in Lines : e.stream = f.stream
  /\ \A e \in Lines : index.stream \in {NoStream, e.stream}
  /\ \A e \in Lines \ index.rows, f \in Lines \cup index.rows : e.seq = f.seq => e = f

(* Every line that is not a row becomes one, without regard to continuity. *)
Reconcile(p) ==
  LET index == files[handle[p]] IN
  /\ pc[p] = "open"
  /\ lock[handle[p]] = NoStream
  /\ Reconcilable(index)
  /\ files' = [files EXCEPT ![handle[p]] =
                 [Observe(index, Lines) EXCEPT !.rows = index.rows \cup Lines]]
  /\ Goto(p, "between")
  /\ UNCHANGED <<day, handle, draft, main, path, made, lock, shards, rebuild, history>>

ReconcileFails(p) ==
  /\ pc[p] = "open"
  /\ lock[handle[p]] = NoStream
  /\ ~ Reconcilable(files[handle[p]])
  /\ main' = Merged(p, files[handle[p]])
  /\ Goto(p, "failed")
  /\ UNCHANGED <<day, handle, draft, files, path, made, lock, shards, rebuild, history>>

(* The event takes the next origin of p's file and is appended to its shard. *)
AppendEvent(p) ==
  LET index == files[handle[p]]
      event == [id |-> p, day |-> day[p], seq |-> index.next,
                stream |-> IF index.stream = NoStream THEN p ELSE index.stream]
  IN  /\ pc[p] = "between"
      /\ lock[handle[p]] = NoStream
      /\ lock' = [lock EXCEPT ![handle[p]] = p]
      /\ draft' = [draft EXCEPT ![p] = event]
      /\ shards' = [shards EXCEPT ![day[p]] = Append(@, event)]
      /\ Goto(p, "commit")
      /\ UNCHANGED <<day, handle, files, main, path, made, rebuild, history>>

(* The commit, and the close of the connection. *)
Commit(p) ==
  LET index == files[handle[p]]
      next == [Observe(index, {draft[p]}) EXCEPT !.rows = index.rows \cup {draft[p]}]
  IN  /\ pc[p] = "commit"
      /\ files' = [files EXCEPT ![handle[p]] = next]
      /\ main' = Merged(p, next)
      /\ lock' = [lock EXCEPT ![handle[p]] = NoStream]
      /\ Goto(p, "added")
      /\ UNCHANGED <<day, handle, draft, path, made, shards, rebuild, history>>

(* Killed before or after its commit: the lock goes, the log stays. *)
Kill(p) ==
  /\ "kill" \in Faults
  /\ p \in Open
  /\ \/ UNCHANGED files
     \/ /\ pc[p] = "commit"
        /\ files' = [files EXCEPT ![handle[p]] =
             [Observe(@, {draft[p]}) EXCEPT !.rows = files[handle[p]].rows \cup {draft[p]}]]
  /\ lock' = [f \in FileIds |-> IF lock[f] = p THEN NoStream ELSE lock[f]]
  /\ Goto(p, "dead")
  /\ UNCHANGED <<day, handle, draft, main, path, made, shards, rebuild, history>>

-----------------------------------------------------------------------------
(* The rebuild. *)

(* The rebuild ends with this outcome and leaves the index alone. *)
Stop(outcome) ==
  /\ phase' = "idle"
  /\ result' = outcome
  /\ UNCHANGED <<adds, store, shards, opts, todo, batch, only, begun, history>>

(* The matching shards there are. *)
Start ==
  /\ phase = "idle"
  /\ begun < MaxRebuilds
  /\ Running < MaxLive
  /\ begun' = begun + 1
  /\ \E o \in Options :
       LET present == {d \in o.days : shards[d] # <<>>} IN
       /\ present # {}
       /\ opts' = o
       /\ todo' = present
  /\ phase' = "reading"
  /\ batch' = <<>>
  /\ only' = {}
  /\ UNCHANGED <<adds, store, shards, result, history>>

(* The next in file name order. *)
Earliest == CHOOSE d \in todo : \A e \in todo : d <= e

(* Mutant: the lines of a shard last to first. *)
ReadBackwards ==
  /\ phase = "reading"
  /\ todo # {}
  /\ shards[Earliest] # <<>>
  /\ batch' = batch \o Reverse(shards[Earliest])
  /\ todo' = todo \ {Earliest}
  /\ UNCHANGED <<adds, store, shards, phase, opts, only, result, begun, history>>

(* One shard at a time, while adds may append. *)
ReadShard ==
  /\ phase = "reading"
  /\ todo # {}
  /\ shards[Earliest] # <<>>
  /\ batch' = batch \o shards[Earliest]
  /\ todo' = todo \ {Earliest}
  /\ UNCHANGED <<adds, store, shards, phase, opts, only, result, begun, history>>

ShardMissing ==
  /\ phase = "reading"
  /\ todo # {}
  /\ shards[Earliest] = <<>>
  /\ Stop("missing_shard")

(* Mutant: the coverage of an index that is to be kept only. *)
CoverageUnlessReplaced ==
  /\ phase = "reading"
  /\ todo = {}
  /\ path # NoFile => main[path] # NoTables
  /\ only' = IF path = NoFile \/ opts.replace THEN {} ELSE main[path].rows \ ToSet(batch)
  /\ phase' = "covered"
  /\ UNCHANGED <<adds, store, shards, opts, todo, batch, result, begun, history>>

(* index_only_events: the rows in the main file whose ids the batch lacks. *)
Coverage ==
  /\ phase = "reading"
  /\ todo = {}
  /\ path # NoFile => main[path] # NoTables
  /\ only' = IF path = NoFile THEN {}
             ELSE {r \in main[path].rows : \A e \in ToSet(batch) : e.id # r.id}
  /\ phase' = "covered"
  /\ UNCHANGED <<adds, store, shards, opts, todo, batch, result, begun, history>>

Unreadable ==
  /\ \/ phase = "reading" /\ todo = {}
     \/ phase = "covered" /\ ~ opts.replace
  /\ path # NoFile
  /\ main[path] = NoTables
  /\ Stop("destination_unreadable")

(* The sequences whose loss --allow-index-only accepts. *)
Accepted == IF opts.allow THEN {r.seq : r \in only} ELSE {}

(* What the preflight validates against: nothing, if the index is to be replaced. *)
Destination == IF opts.replace \/ path = NoFile THEN Fresh ELSE main[path]

Refuse ==
  /\ phase = "covered"
  /\ Destination # NoTables
  /\ Verdict(batch, Destination, Accepted) # "valid"
  /\ Stop(Verdict(batch, Destination, Accepted))

RefuseIndexOnly ==
  /\ phase = "covered"
  /\ Destination # NoTables
  /\ Verdict(batch, Destination, Accepted) = "valid"
  /\ only # {} /\ ~ opts.allow
  /\ Stop("index_only_events")

DryRun ==
  /\ phase = "covered"
  /\ Destination # NoTables
  /\ Verdict(batch, Destination, Accepted) = "valid"
  /\ only # {} => opts.allow
  /\ opts.dry
  /\ Stop("validated")

Validated ==
  /\ phase = "covered"
  /\ Destination # NoTables
  /\ Verdict(batch, Destination, Accepted) = "valid"
  /\ only # {} => opts.allow
  /\ ~ opts.dry
  /\ phase' = "checked"
  /\ UNCHANGED <<adds, store, shards, opts, todo, batch, only, result, begun, history>>

(***************************************************************************)
(* The index is renamed to its backup.  A log that nobody has open any     *)
(* more stays behind and is deleted by the next connection, so that the    *)
(* backup is the main file alone.                                          *)
(***************************************************************************)
Move ==
  /\ phase = "checked"
  /\ opts.replace
  /\ path # NoFile
  /\ path' = NoFile
  /\ files' = IF \E p \in Open : handle[p] = path THEN files
              ELSE [files EXCEPT ![path] = main[path]]
  /\ phase' = "moved"
  /\ gone' = gone \cup
       {r \in files[path].rows \ (Lines \cup ToSet(batch)) : ~ (opts.allow /\ r \in only)}
  /\ waived' = waived \cup Accepted
  /\ UNCHANGED <<adds, main, made, lock, shards, opts, todo, batch, only, result, begun>>

Importing ==
  \/ phase = "moved"
  \/ phase = "checked" /\ (opts.replace => path = NoFile)

Target == IF path = NoFile THEN Fresh ELSE files[path]

(* The rebuild ends and has left this content in the file at the path, or in a new one. *)
EndWith(content, outcome) ==
  /\ path' = AtPath
  /\ made' = IF path = NoFile THEN made + 1 ELSE made
  /\ files' = [files EXCEPT ![AtPath] = content]
  /\ phase' = "idle"
  /\ result' = outcome
  /\ UNCHANGED <<adds, lock, shards, opts, todo, batch, only, begun, gone>>

(* It has closed its connection, which merges the log if no add has the file open. *)
Close(content) ==
  main' = IF \E p \in Open : handle[p] = AtPath THEN main
          ELSE [main EXCEPT ![AtPath] = content]

(* Mutant: the batch is not validated again under the lock. *)
ImportUnchecked ==
  /\ Importing
  /\ lock[AtPath] = NoStream
  /\ EndWith(Imported(batch, Target), "rebuilt")
  /\ Close(Imported(batch, Target))
  /\ waived' = waived \cup Accepted

(* Connect, and import_events: validated again under the writer lock. *)
Import ==
  /\ Importing
  /\ lock[AtPath] = NoStream
  /\ Verdict(batch, Target, Accepted) = "valid"
  /\ EndWith(Imported(batch, Target), "rebuilt")
  /\ Close(Imported(batch, Target))
  /\ waived' = waived \cup Accepted

(* The index has changed meanwhile: the transaction is rolled back. *)
ImportRefused ==
  /\ Importing
  /\ lock[AtPath] = NoStream
  /\ Verdict(batch, Target, Accepted) # "valid"
  /\ EndWith(Target, "failed")
  /\ Close(Target)
  /\ UNCHANGED waived

(* The lock is held past the busy timeout, by an add that has the file open. *)
ImportBusy ==
  /\ Importing
  /\ lock[AtPath] # NoStream
  /\ Stop("failed")

KillRebuild ==
  /\ "kill" \in Faults
  /\ phase # "idle"
  /\ Stop("killed")

(* Killed with the file open, before or after its commit: the log stays. *)
KillImport ==
  /\ "kill" \in Faults
  /\ Importing
  /\ lock[AtPath] = NoStream
  /\ \/ EndWith(Target, "killed") /\ UNCHANGED waived
     \/ /\ Verdict(batch, Target, Accepted) = "valid"
        /\ EndWith(Imported(batch, Target), "killed")
        /\ waived' = waived \cup Accepted
  /\ UNCHANGED main

-----------------------------------------------------------------------------

(***************************************************************************)
(* A shard file is gone from the directory: moved, or lost with its disk,  *)
(* though not while a rebuild that has compared the index with what it     *)
(* read goes on to replace it.                                             *)
(***************************************************************************)
LoseShard(d) ==
  /\ "lose" \in Faults
  /\ Running < MaxLive
  /\ phase \in {"idle", "reading"}
  /\ shards[d] # <<>>
  /\ shards' = [shards EXCEPT ![d] = <<>>]
  /\ UNCHANGED <<adds, store, rebuild, history>>

RebuildStep ==
  \/ Start \/ ReadShard \/ ShardMissing \/ Coverage \/ Unreadable \/ Refuse
  \/ RefuseIndexOnly \/ DryRun \/ Validated \/ Move \/ Import \/ ImportRefused
  \/ ImportBusy \/ KillRebuild \/ KillImport

Next ==
  \/ \E p \in Procs : \/ OpenIndex(p) \/ Reconcile(p) \/ ReconcileFails(p)
                      \/ AppendEvent(p) \/ Commit(p) \/ Kill(p)
  \/ RebuildStep
  \/ \E d \in Days : LoseShard(d)

Spec == Init /\ [][Next]_vars

-----------------------------------------------------------------------------
(* Properties. *)

TypeOK ==
  /\ pc \in [Procs -> {"idle", "open", "between", "commit", "added", "failed", "dead"}]
  /\ day \in [Procs -> Days \cup {0}]
  /\ handle \in [Procs -> FileIds \cup {NoFile}]
  /\ draft \in [Procs -> EventRecords \cup {NoStream}]
  /\ \A f \in FileIds :
       /\ files[f].rows \subseteq EventRecords /\ files[f].next \in Nat
       /\ main[f].rows \subseteq files[f].rows
       /\ lock[f] \in Procs \cup {NoStream}
  /\ path \in 0 .. made /\ made \in {0} \cup FileIds
  /\ \A d \in Days : ToSet(shards[d]) \subseteq EventRecords
  /\ phase \in {"idle", "reading", "covered", "checked", "moved"}
  /\ opts \in Options \cup {NoStream}
  /\ todo \subseteq Days
  /\ ToSet(batch) \subseteq EventRecords
  /\ only \cup gone \subseteq EventRecords
  /\ waived \subseteq Nat

(***************************************************************************)
(* Whatever adds and rebuilds interleave, are killed, or lose shards: in   *)
(* no file that ever was the index do two rows share an origin, is a row   *)
(* of another stream than the file's, or stands the cursor at a row.       *)
(***************************************************************************)
FilesConsistent ==
  \A f \in FileIds : \A r, s \in files[f].rows :
    /\ r.id = s.id \/ r.seq = s.seq => r = s
    /\ r.stream = files[f].stream
    /\ r.seq < files[f].next

(***************************************************************************)
(* A rebuild replaces no index that has a row which neither a shard nor    *)
(* the batch it read carries, unless it was told to accept that loss.      *)
(***************************************************************************)
NothingDropped == gone = {}

(***************************************************************************)
(* What a sequence once named it names for good, but for those given up on *)
(* request: the index at the path has a row for every other sequence below *)
(* its cursor, and no two adds ever wrote events with one origin, whatever *)
(* rebuilds and losses lay between them.                                   *)
(***************************************************************************)
OriginsKept ==
  /\ path # NoFile =>
       \A n \in 1 .. (files[path].next - 1) :
         n \in waived \/ \E r \in files[path].rows : r.seq = n
  /\ \A e, f \in {draft[p] : p \in Procs} \ {NoStream} :
       e.stream = f.stream /\ e.seq = f.seq => e = f \/ e.seq \in waived

(* Events numbered 1, 2, 3, ... in one stream. *)
GapFree(events) ==
  /\ \A e, f \in events : e.stream = f.stream /\ (e.seq = f.seq => e = f)
  /\ \A e \in events : \A n \in 1 .. e.seq : \E f \in events : f.seq = n

Discontinuous == result = "origin_discontinuity" /\ opts.replace /\ phase = "idle"

(***************************************************************************)
(* Shards that hold a gap-free history suffice to rebuild the index from   *)
(* nothing: such a batch is never refused as discontinuous ...             *)
(***************************************************************************)
ShardsConverge == Discontinuous => ~ GapFree(ToSet(batch))

(***************************************************************************)
(* ... at least as long as the days of its events follow their sequences,  *)
(* although the lines of one day come from writers that race, that go on   *)
(* with a renamed index, and that die - unless a shard was lost, or those  *)
(* writers gave one origin to two lines.                                   *)
(***************************************************************************)
OrderedShardsConverge ==
  Discontinuous =>
    \/ ~ GapFree(ToSet(batch))
    \/ \E e, f \in ToSet(batch) : e.seq < f.seq /\ f.day < e.day
    \/ \E p \in Procs : draft[p] \notin Lines \cup {NoStream}
    \/ \E e, f \in Lines : e.stream = f.stream /\ e.seq = f.seq /\ e # f

=============================================================================
