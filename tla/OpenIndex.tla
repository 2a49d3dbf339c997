------------------------------ MODULE OpenIndex ------------------------------
(***************************************************************************)
(* How every local command opens the SQLite index: db.connect switches the *)
(* file to write-ahead logging, and tries again when somebody else has it; *)
(* db.init_db then creates the version table and, in one transaction,      *)
(* applies the migrations that the file lacks.                             *)
(*                                                                         *)
(* Commands of several releases open one new file at once, are killed, and *)
(* meet connections that are not auditctl's, such as a shell or a backup,  *)
(* which keep the file locked as long as they like.                        *)
(***************************************************************************)
EXTENDS Naturals, FiniteSets

CONSTANTS
  Procs,     \* the commands that open the index
  Other,     \* a connection that is not auditctl's
  NoProc,    \* nobody
  Release,   \* command -> the number of migrations its release knows
  Retries,   \* the number of delays in _WAL_BUSY_RETRY_DELAYS_SECONDS
  MaxOther   \* bound on the times the other connection takes the lock

ASSUME NamesAssumption == NoProc \notin Procs /\ Other \notin Procs /\ Other # NoProc
ASSUME ReleaseAssumption == Release \in [Procs -> Nat \ {0}]
ASSUME BoundsAssumption == Retries \in Nat /\ MaxOther \in Nat

VARIABLES
  pc,       \* where each command stands
  tries,    \* how many connections it has had to give up
  current,  \* the version its loop has reached
  draft,    \* what its transaction would commit
  lock,     \* the holder of the file's write lock
  wal,      \* the file is in WAL mode
  table,    \* schema_version exists
  store,    \* committed: the rows of schema_version, and what each migration made
  others    \* how often the other connection took the lock

vars == <<pc, tries, current, draft, lock, wal, table, store, others>>
file == <<wal, table, store>>

(* Those that some release knows. *)
Migrations == UNION {1 .. Release[p] : p \in Procs}

(* rows: the rows of schema_version; made: migration -> how many times it took effect. *)
Empty == [rows |-> 0, version |-> 0, made |-> [m \in Migrations |-> 0]]

Opening == {"connect", "switch", "create", "begin", "read", "migrate", "stamp"}
Ended == {"opened", "busy", "stopped"}

Init ==
  /\ pc = [p \in Procs |-> "idle"]
  /\ tries = [p \in Procs |-> 0]
  /\ current = [p \in Procs |-> 0]
  /\ draft = [p \in Procs |-> Empty]
  /\ lock = NoProc
  /\ wal = FALSE
  /\ table = FALSE
  /\ store = Empty
  /\ others = 0

Goto(p, l) == pc' = [pc EXCEPT ![p] = l]
Free(p) == lock' = IF lock = p THEN NoProc ELSE lock

(* The command gives up; closing its connection, or its end, rolls back. *)
GiveUp(p, why) ==
  /\ Goto(p, why)
  /\ Free(p)
  /\ UNCHANGED <<tries, current, draft, file, others>>

-----------------------------------------------------------------------------
(* db.connect *)

Start(p) ==
  /\ pc[p] = "idle"
  /\ Goto(p, "connect")
  /\ UNCHANGED <<tries, current, draft, lock, file, others>>

(* The pragma of a file that is in WAL mode changes nothing. *)
AlreadyWal(p) ==
  /\ pc[p] = "connect"
  /\ wal
  /\ Goto(p, "create")
  /\ UNCHANGED <<tries, current, draft, lock, file, others>>

(* The switch needs the file for itself. *)
TakeFile(p) ==
  /\ pc[p] = "connect"
  /\ ~ wal
  /\ lock = NoProc
  /\ lock' = p
  /\ Goto(p, "switch")
  /\ UNCHANGED <<tries, current, draft, file, others>>

Switch(p) ==
  /\ pc[p] = "switch"
  /\ wal' = TRUE
  /\ lock' = NoProc
  /\ Goto(p, "create")
  /\ UNCHANGED <<tries, current, draft, table, store, others>>

(* SQLITE_BUSY comes at once; the connection is closed, and another made after a delay. *)
Retry(p) ==
  /\ pc[p] = "connect"
  /\ ~ wal /\ lock # NoProc
  /\ tries[p] < Retries
  /\ tries' = [tries EXCEPT ![p] = @ + 1]
  /\ UNCHANGED <<pc, current, draft, lock, file, others>>

(* Mutant: it tries for ever. *)
NeverBusy(p) ==
  /\ pc[p] = "connect"
  /\ ~ wal /\ lock # NoProc
  /\ tries[p] > Retries
  /\ GiveUp(p, "busy")

ConnectBusy(p) ==
  /\ pc[p] = "connect"
  /\ ~ wal /\ lock # NoProc
  /\ tries[p] = Retries
  /\ GiveUp(p, "busy")

-----------------------------------------------------------------------------
(* db.init_db *)

(* CREATE TABLE IF NOT EXISTS, a transaction of its own. *)
CreateTable(p) ==
  /\ pc[p] = "create"
  /\ table \/ lock = NoProc
  /\ table' = TRUE
  /\ Goto(p, "begin")
  /\ UNCHANGED <<tries, current, draft, lock, wal, store, others>>

(* BEGIN IMMEDIATE; from here on what is read is what is committed. *)
Begin(p) ==
  /\ pc[p] = "begin"
  /\ lock = NoProc
  /\ lock' = p
  /\ draft' = [draft EXCEPT ![p] = store]
  /\ Goto(p, "read")
  /\ UNCHANGED <<tries, current, file, others>>

(* SQLite's busy timeout, of the table's creation or the transaction's begin. *)
InitBusy(p) ==
  /\ \/ pc[p] = "begin"
     \/ pc[p] = "create" /\ ~ table
  /\ lock # NoProc
  /\ GiveUp(p, "busy")

(* The row, inserted with version 0 if there is none. *)
ReadVersion(p) ==
  /\ pc[p] = "read"
  /\ draft' = [draft EXCEPT ![p].rows = IF @ = 0 THEN 1 ELSE @]
  /\ current' = [current EXCEPT ![p] = draft[p].version]
  /\ Goto(p, "migrate")
  /\ UNCHANGED <<tries, lock, file, others>>

Pending(p) == current[p] < Release[p]

(* Applied to what is there already, it would raise; here it counts. *)
Migrate(p) ==
  /\ pc[p] = "migrate"
  /\ Pending(p)
  /\ draft' = [draft EXCEPT ![p].made[current[p] + 1] = @ + 1]
  /\ Goto(p, "stamp")
  /\ UNCHANGED <<tries, current, lock, file, others>>

(* Mutant: the migration is committed before its version is. *)
StampLate(p) ==
  /\ pc[p] = "stamp"
  /\ store' = draft[p]
  /\ draft' = [draft EXCEPT ![p].version = current[p] + 1]
  /\ current' = [current EXCEPT ![p] = @ + 1]
  /\ Goto(p, "migrate")
  /\ UNCHANGED <<tries, lock, wal, table, others>>

(* UPDATE schema_version, whatever rows it has. *)
Stamp(p) ==
  /\ pc[p] = "stamp"
  /\ draft' = [draft EXCEPT ![p].version = current[p] + 1]
  /\ current' = [current EXCEPT ![p] = @ + 1]
  /\ Goto(p, "migrate")
  /\ UNCHANGED <<tries, lock, file, others>>

(* Mutant: a file of a newer release is stamped with this one's version. *)
StampAlways(p) ==
  /\ pc[p] = "migrate"
  /\ ~ Pending(p)
  /\ store' = [draft[p] EXCEPT !.version = Release[p]]
  /\ lock' = NoProc
  /\ Goto(p, "opened")
  /\ UNCHANGED <<tries, current, draft, wal, table, others>>

(* Nothing is left to apply: a file of a newer release is taken as it is. *)
Commit(p) ==
  /\ pc[p] = "migrate"
  /\ ~ Pending(p)
  /\ store' = draft[p]
  /\ lock' = NoProc
  /\ Goto(p, "opened")
  /\ UNCHANGED <<tries, current, draft, wal, table, others>>

(***************************************************************************)
(* Any statement raises, the commit included, or the process is killed:    *)
(* either way the transaction is rolled back, by rollback() or by SQLite   *)
(* when the next connection finds it.                                      *)
(***************************************************************************)
Stop(p) ==
  /\ pc[p] \in Opening
  /\ GiveUp(p, "stopped")

-----------------------------------------------------------------------------
(* The other connection. *)

OtherLocks ==
  /\ lock = NoProc
  /\ others < MaxOther
  /\ lock' = Other
  /\ others' = others + 1
  /\ UNCHANGED <<pc, tries, current, draft, file>>

OtherUnlocks ==
  /\ lock = Other
  /\ lock' = NoProc
  /\ UNCHANGED <<pc, tries, current, draft, file, others>>

-----------------------------------------------------------------------------

Step(p) ==
  \/ AlreadyWal(p) \/ TakeFile(p) \/ Switch(p) \/ Retry(p) \/ ConnectBusy(p)
  \/ CreateTable(p) \/ Begin(p) \/ InitBusy(p) \/ ReadVersion(p)
  \/ Migrate(p) \/ Stamp(p) \/ Commit(p)

Next ==
  \/ \E p \in Procs : Start(p) \/ Step(p) \/ Stop(p)
  \/ OtherLocks \/ OtherUnlocks

(* Commands run; the other connection may keep its lock for ever. *)
Spec == Init /\ [][Next]_vars /\ \A p \in Procs : WF_vars(Step(p))

-----------------------------------------------------------------------------
(* Properties. *)

(***************************************************************************)
(* What is committed is at every moment one release's schema: there is at  *)
(* most one version row, and the migrations that took effect are those up  *)
(* to its version, each once (a second time it would raise, and no command *)
(* could open the file again) - whoever initialises it at the same time,   *)
(* and wherever a command was killed or a statement raised.                *)
(***************************************************************************)
SchemaAtVersion ==
  /\ store.rows \in {0, 1}
  /\ store.version > 0 => store.rows = 1
  /\ \A m \in Migrations : store.made[m] = IF m <= store.version THEN 1 ELSE 0

(***************************************************************************)
(* A command that has opened the index can use it, then and later: it has  *)
(* the columns of the command's release, and no older release that opens   *)
(* it afterwards sets the version back.                                    *)
(***************************************************************************)
OpenedUsable ==
  \A p \in Procs : pc[p] = "opened" => wal /\ store.version >= Release[p]

(***************************************************************************)
(* Every open ends, with the index or with an error, also when another     *)
(* connection never lets go of the file.                                   *)
(***************************************************************************)
OpensEnd == []<>(\A p \in Procs : pc[p] \notin Opening)

=============================================================================
