---------------------------- MODULE CentralSchema ----------------------------
(***************************************************************************)
(* The schema of the central ledger: the migration jobs, and the           *)
(* compatibility check that every served operation makes.                  *)
(*                                                                         *)
(* A job is one transaction under the schema's advisory lock.  It creates  *)
(* the migration ledger, verifies it against the package's assets, applies *)
(* the versions that are missing up to its target, and moves the runtime   *)
(* privileges to the runtime role it was given.  A client is a served      *)
(* operation: the check is three statements, each of which sees what is    *)
(* committed when it runs, and then the operation's own statements, in two *)
(* groups: each needs the privileges it needs when it runs.                *)
(***************************************************************************)
EXTENDS Naturals, SequencesExt

CONSTANTS
  Jobs,      \* migration jobs
  Clients,   \* served operations
  Roles,     \* database roles
  Packages,  \* releases: the digests of their migrations, version 1 first
  Targets,   \* target versions a job may be given
  None

ASSUME PackagesAssumption == \A p \in Packages : p \in Seq(Nat) /\ p # <<>>
ASSUME TargetsAssumption == Targets \subseteq Nat
ASSUME NoneAssumption == None \notin Roles \cup Jobs

MinRuntimeVersion == 2
MaxRuntimeVersion == 3

Privileges == {"usage", "ingest", "receipts"}

VARIABLES
  db,       \* what is committed
  lock,     \* the job that holds the advisory lock
  jpc,      \* where each job stands
  args,     \* what it was given
  work,     \* the database as its transaction sees it
  cpc,      \* where each client stands
  role      \* the role it connected as

jobs == <<lock, jpc, args, work>>
clients == <<cpc, role>>
vars == <<db, jobs, clients>>

(* No schema: nobody owns it, nothing is applied, recorded or granted. *)
Absent == [owner |-> None, ledger |-> <<>>, migration |-> None, runtime |-> None,
           grants |-> {}]

Init ==
  /\ db = Absent
  /\ lock = None
  /\ jpc = [j \in Jobs |-> "idle"]
  /\ args = [j \in Jobs |-> None]
  /\ work = [j \in Jobs |-> Absent]
  /\ cpc = [c \in Clients |-> "idle"]
  /\ role = [c \in Clients |-> None]

Installed(state) == Len(state.ledger)

-----------------------------------------------------------------------------
(* The migration job. *)

(* Runtime and migration role differ, the package has the target, the connection the role. *)
StartJob(j) ==
  /\ jpc[j] = "idle"
  /\ \E p \in Packages, m \in Roles, r \in Roles, t \in Targets :
       /\ m # r
       /\ t \in 1 .. Len(p)
       /\ args' = [args EXCEPT ![j] = [package |-> p, migration |-> m, runtime |-> r, target |-> t]]
  /\ jpc' = [jpc EXCEPT ![j] = "begun"]
  /\ UNCHANGED <<db, lock, work, clients>>

(* Mutant: the advisory lock is not taken. *)
Unlocked(j) ==
  /\ jpc[j] = "begun"
  /\ lock' = j
  /\ IF db.owner \in {None, args[j].migration}
     THEN /\ work' = [work EXCEPT ![j] = [db EXCEPT !.owner = args[j].migration]]
          /\ jpc' = [jpc EXCEPT ![j] = "bootstrapped"]
     ELSE /\ jpc' = [jpc EXCEPT ![j] = "rollback"]
          /\ UNCHANGED work
  /\ UNCHANGED <<db, args, clients>>

(* The advisory lock, then the schema and the ledger unless they are there: *)
(* only their owner may go on.                                              *)
Bootstrap(j) ==
  /\ jpc[j] = "begun"
  /\ lock = None
  /\ lock' = j
  /\ IF db.owner \in {None, args[j].migration}
     THEN /\ work' = [work EXCEPT ![j] = [db EXCEPT !.owner = args[j].migration]]
          /\ jpc' = [jpc EXCEPT ![j] = "bootstrapped"]
     ELSE /\ jpc' = [jpc EXCEPT ![j] = "rollback"]
          /\ UNCHANGED work
  /\ UNCHANGED <<db, args, clients>>

(* Mutant: only the number of the installed versions is compared. *)
VerifiedByCount(ledger, package) == Len(ledger) <= Len(package)

(* Every applied version is in the package, with the digest it was applied with. *)
Verified(ledger, package) ==
  /\ Len(ledger) <= Len(package)
  /\ \A v \in DOMAIN ledger : ledger[v] = package[v]

Verify(j) ==
  /\ jpc[j] = "bootstrapped"
  /\ jpc' = [jpc EXCEPT ![j] =
               IF Verified(work[j].ledger, args[j].package) THEN "verified" ELSE "rollback"]
  /\ UNCHANGED <<db, lock, args, work, clients>>

(* The next version up to the target that the ledger lacks. *)
Apply(j) ==
  LET next == Installed(work[j]) + 1 IN
  /\ jpc[j] = "verified"
  /\ next <= args[j].target
  /\ work' = [work EXCEPT ![j].ledger = Append(@, args[j].package[next])]
  /\ UNCHANGED <<db, lock, jpc, args, clients>>

Needed(state, r) ==
  {<<r, "usage">>, <<r, "ingest">>}
    \cup (IF Installed(state) >= 2 THEN {<<r, "receipts">>} ELSE {})

(* Mutant: nothing is revoked. *)
GrantsKept(state, r) == state.grants \cup Needed(state, r)

(* Mutant: the recorded role is revoked last, and although it stays the same. *)
RevokedLast(state, r) ==
  {g \in state.grants \cup Needed(state, r) : Installed(state) < 2 \/ g[1] # state.runtime}

(* The grants once r is the runtime role: another one on record loses its own. *)
Granted(state, r) ==
  {g \in state.grants : Installed(state) >= 2 => g[1] = r \/ g[1] # state.runtime}
    \cup Needed(state, r)

(* The principals are recorded from version 2 on, which has the table for them. *)
Recorded(state, m, r) ==
  IF Installed(state) >= 2 THEN [state EXCEPT !.migration = m, !.runtime = r] ELSE state

(* Nothing is missing: the principals and the privileges, and the job may commit. *)
Configure(j) ==
  LET state == work[j]
      r == args[j].runtime
  IN  /\ jpc[j] = "verified"
      /\ Installed(state) >= args[j].target
      /\ work' = [work EXCEPT ![j] =
                    [Recorded(state, args[j].migration, r) EXCEPT !.grants = Granted(state, r)]]
      /\ jpc' = [jpc EXCEPT ![j] = "configured"]
      /\ UNCHANGED <<db, lock, args, clients>>

(* Mutant: the lock outlives the transaction. *)
CommitLocked(j) ==
  /\ jpc[j] = "configured"
  /\ db' = work[j]
  /\ jpc' = [jpc EXCEPT ![j] = "migrated"]
  /\ UNCHANGED <<lock, args, work, clients>>

CommitJob(j) ==
  /\ jpc[j] = "configured"
  /\ db' = work[j]
  /\ lock' = None
  /\ jpc' = [jpc EXCEPT ![j] = "migrated"]
  /\ UNCHANGED <<args, work, clients>>

(* A refusal, a failing statement or a lost connection ends the transaction. *)
AbortJob(j) ==
  /\ jpc[j] \in {"rollback", "bootstrapped", "verified", "configured"}
  /\ lock' = None
  /\ jpc' = [jpc EXCEPT ![j] = "failed"]
  /\ UNCHANGED <<db, args, work, clients>>

-----------------------------------------------------------------------------
(* The served operation. *)

May(r, p) == r = db.owner \/ <<r, p>> \in db.grants

Answer(c, verdict) ==
  /\ cpc' = [cpc EXCEPT ![c] = verdict]
  /\ UNCHANGED <<db, jobs, role>>

Connect(c) ==
  /\ cpc[c] = "idle"
  /\ \E r \in Roles : role' = [role EXCEPT ![c] = r]
  /\ cpc' = [cpc EXCEPT ![c] = "connected"]
  /\ UNCHANGED <<db, jobs>>

(* Usage of the schema, if there is one. *)
CheckAccess(c) ==
  /\ cpc[c] = "connected"
  /\ Answer(c, CASE db.owner = None -> "schema_not_initialized"
                 [] db.owner # None /\ ~ May(role[c], "usage") -> "schema_access_denied"
                 [] OTHER -> "accessible")

CheckVersion(c) ==
  /\ cpc[c] = "accessible"
  /\ Answer(c, CASE ~ May(role[c], "usage") -> "error"
                 [] May(role[c], "usage") /\ Installed(db) < MinRuntimeVersion -> "schema_too_old"
                 [] May(role[c], "usage") /\ Installed(db) > MaxRuntimeVersion -> "schema_too_new"
                 [] OTHER -> "supported")

(* Mutant: any role with access to the principals will do. *)
CheckRoleAny(c) ==
  /\ cpc[c] = "supported"
  /\ Answer(c, IF May(role[c], "receipts") THEN "compatible" ELSE "error")

(* The role is the runtime role on record. *)
CheckRole(c) ==
  /\ cpc[c] = "supported"
  /\ Answer(c, CASE ~ May(role[c], "receipts") -> "error"
                 [] May(role[c], "receipts") /\ db.runtime = None -> "role_not_configured"
                 [] May(role[c], "receipts") /\ db.runtime \notin {None, role[c]} -> "role_kind_mismatch"
                 [] OTHER -> "compatible")

(* The operation's first statements, on the stream. *)
OpenStream(c) ==
  /\ cpc[c] = "compatible"
  /\ Answer(c, IF May(role[c], "ingest") THEN "stream_open" ELSE "error")

(* The rest of them, on the observations and their receipts. *)
Serve(c) ==
  /\ cpc[c] = "stream_open"
  /\ Answer(c, IF May(role[c], "ingest") /\ May(role[c], "receipts") THEN "served" ELSE "error")

JobStep(j) ==
  StartJob(j) \/ Bootstrap(j) \/ Verify(j) \/ Apply(j) \/ Configure(j) \/ CommitJob(j)
    \/ AbortJob(j)

ClientStep(c) ==
  Connect(c) \/ CheckAccess(c) \/ CheckVersion(c) \/ CheckRole(c) \/ OpenStream(c) \/ Serve(c)

Next == (\E j \in Jobs : JobStep(j)) \/ (\E c \in Clients : ClientStep(c))

Spec == Init /\ [][Next]_vars

-----------------------------------------------------------------------------
(* Properties. *)

Databases ==
  [owner : Roles \cup {None}, ledger : Seq(Nat), migration : Roles \cup {None},
   runtime : Roles \cup {None}, grants : SUBSET (Roles \X Privileges)]

JobArgs == [package : Packages, migration : Roles, runtime : Roles, target : Targets]

TypeOK ==
  /\ db \in Databases
  /\ lock \in Jobs \cup {None}
  /\ \A j \in Jobs :
       lock = j <=> jpc[j] \in {"bootstrapped", "verified", "configured", "rollback"}
  /\ jpc \in [Jobs -> {"idle", "begun", "bootstrapped", "verified", "configured",
                       "rollback", "migrated", "failed"}]
  /\ args \in [Jobs -> JobArgs \cup {None}]
  /\ work \in [Jobs -> Databases]
  /\ cpc \in [Clients -> {"idle", "connected", "accessible", "supported", "compatible",
                          "stream_open", "served", "error", "schema_not_initialized",
                          "schema_access_denied", "schema_too_old", "schema_too_new",
                          "role_not_configured", "role_kind_mismatch"}]
  /\ role \in [Clients -> Roles \cup {None}]

(***************************************************************************)
(* Whichever releases migrate, in any order and at once: each step leaves  *)
(* what one of the releases would apply, never a mixture, and neither      *)
(* takes a version away nor changes its digest.                            *)
(***************************************************************************)
IsHistory(l) == \E p \in Packages : IsPrefix(l, p)

OneHistory ==
  [][IsHistory(db'.ledger) /\ IsPrefix(db.ledger, db'.ledger)]_db

(***************************************************************************)
(* The recorded runtime role has every privilege that serving needs, so a  *)
(* compatible client is never left without them by the job that recorded   *)
(* its role.                                                               *)
(***************************************************************************)
ConfiguredCanServe ==
  db.runtime # None => \A p \in Privileges : <<db.runtime, p>> \in db.grants

(***************************************************************************)
(* Every statement of an operation is executed only for the role that is   *)
(* on record when it runs, although the check read the record earlier and  *)
(* rotations may have been committed since, before the first statement or  *)
(* between two of them.                                                    *)
(***************************************************************************)
Executed(c) == cpc'[c] # cpc[c] /\ cpc'[c] \in {"stream_open", "served"}

ServedWhileConfigured ==
  [][\A c \in Clients : Executed(c) => role[c] = db.runtime]_vars

(***************************************************************************)
(* A rotation takes every privilege from the role that was on record, with *)
(* the step that makes the new record visible.                             *)
(***************************************************************************)
RotationRevokes ==
  [][db.runtime \notin {None, db'.runtime} => \A g \in db'.grants : g[1] # db.runtime]_db

=============================================================================
