---------------------------- MODULE SchemaProofs -----------------------------
(***************************************************************************)
(* What the migration jobs and the compatibility check guarantee, for any  *)
(* jobs, releases, roles and served operations.                            *)
(*                                                                         *)
(* The lock holder alone writes the schema, so its transaction extends     *)
(* what is committed.  The record of the principals and the privileges go  *)
(* together: whoever is on record has them all, and the one privilege that *)
(* exists only since there is a record, that on the receipts, nobody else  *)
(* has.  A role that passed the check was on record; the job that replaces *)
(* it takes all its privileges, and none gives any to a role that it does  *)
(* not record.  So an operation that still may execute a statement is the  *)
(* recorded role's - or the owner's, which the check has told apart, for a *)
(* job never records its own role and the owner never changes.             *)
(***************************************************************************)
EXTENDS CentralSchema, TLAPS, SequenceTheorems

Holding == {"bootstrapped", "verified", "configured"}

(* The record and the privileges of a database agree. *)
Sound(state) ==
  /\ state.runtime # None =>
       /\ Installed(state) >= 2
       /\ state.owner \notin {None, state.runtime}
       /\ \A p \in Privileges : <<state.runtime, p>> \in state.grants
  /\ \A g \in state.grants : g[2] = "receipts" => g[1] = state.runtime

(* A job has been given a target that its release has, and two roles. *)
Started(j) ==
  /\ args[j] \in JobArgs
  /\ args[j].migration # args[j].runtime
  /\ args[j].target \in 1 .. Len(args[j].package)

(* Who gains a privilege between two databases is on record in the later one. *)
GrantsOnly(old, new) ==
  /\ new.runtime # None
  /\ \A g \in new.grants : g \in old.grants \/ g[1] = new.runtime

(* The transaction of a lock holder extends what is committed. *)
Extends(j) ==
  /\ Sound(work[j])
  /\ work[j].owner = args[j].migration
  /\ db.owner \in {None, work[j].owner}
  /\ IsPrefix(db.ledger, work[j].ledger)
  /\ jpc[j] # "bootstrapped" => IsPrefix(work[j].ledger, args[j].package)
  /\ jpc[j] # "configured" => work[j].runtime = db.runtime
  /\ db.runtime \notin {None, work[j].runtime} => \A g \in work[j].grants : g[1] # db.runtime
  /\ db.runtime # None => GrantsOnly(db, work[j])

JobInv(j) ==
  /\ jpc[j] # "idle" => Started(j)
  /\ jpc[j] \in Holding => Extends(j)

(* An operation that passed the check is not the owner's, and its role has *)
(* no privilege unless it is on record: the rotation that replaced it took *)
(* them all, and none gives any to a role that it does not record.         *)
ClientInv(c) ==
  cpc[c] \in {"compatible", "stream_open"} =>
    /\ db.runtime # None
    /\ db.owner \notin {None, role[c]}
    /\ \A g \in db.grants : g[1] = role[c] => role[c] = db.runtime

IndInv ==
  /\ TypeOK
  /\ Sound(db)
  /\ \A j \in Jobs : JobInv(j)
  /\ \A c \in Clients : ClientInv(c)

-----------------------------------------------------------------------------
(* Prefixes. *)

(* A prefix has no more elements and the same ones. *)
LEMMA PrefixElements ==
  ASSUME NEW s \in Seq(Nat), NEW t \in Seq(Nat)
  PROVE  IsPrefix(s, t) <=> Len(s) <= Len(t) /\ \A i \in 1 .. Len(s) : s[i] = t[i]
<1>1. SubSeq(s, 1, Len(s)) = s
  BY SubSeqFull
<1>2. CASE ~ (Len(s) <= Len(t))
  BY <1>2 DEF IsPrefix
<1>3. CASE Len(s) <= Len(t)
  <2> DEFINE u == SubSeq(t, 1, Len(s))
  <2>1. \A i \in 1 .. Len(s) : t[i] \in Nat
    BY <1>3
  <2>2. u \in Seq(Nat) /\ Len(u) = Len(s) /\ \A i \in 1 .. Len(s) : u[i] = t[i]
    <3>1. Len(s) \in Nat
      OBVIOUS
    <3> QED
      BY <2>1, <3>1, SubSeqProperties
  <2> HIDE DEF u
  <2>3. s = u <=> \A i \in 1 .. Len(s) : s[i] = u[i]
    BY <2>2, SeqEqual
  <2>4. IsPrefix(s, t) <=> s = u
    BY <1>1, <1>3 DEF IsPrefix, u
  <2> QED
    BY <1>3, <2>2, <2>3, <2>4
<1> QED
  BY <1>2, <1>3

(* A verified ledger is what the release would have applied. *)
LEMMA VerifiedIsPrefix ==
  ASSUME NEW s \in Seq(Nat), NEW p \in Packages, Verified(s, p)
  PROVE  IsPrefix(s, p)
BY PrefixElements, PackagesAssumption DEF Verified

(* One more version is applied. *)
LEMMA PrefixGrows ==
  ASSUME NEW s \in Seq(Nat), NEW t \in Seq(Nat), IsPrefix(s, t)
  PROVE  /\ \A x \in Nat : IsPrefix(s, Append(t, x))
         /\ Len(s) < Len(t) => IsPrefix(Append(s, t[Len(s) + 1]), t)
<1>1. Len(s) <= Len(t) /\ \A i \in 1 .. Len(s) : s[i] = t[i]
  BY PrefixElements
<1>2. ASSUME NEW x \in Nat
      PROVE  IsPrefix(s, Append(t, x))
  <2> DEFINE u == Append(t, x)
  <2>1. u \in Seq(Nat) /\ Len(u) = Len(t) + 1 /\ \A i \in 1 .. Len(t) : u[i] = t[i]
    BY AppendProperties
  <2> HIDE DEF u
  <2>2. Len(s) <= Len(u) /\ \A i \in 1 .. Len(s) : s[i] = u[i]
    BY <1>1, <2>1
  <2>3. IsPrefix(s, u)
    BY <2>1, <2>2, PrefixElements
  <2> QED
    BY <2>3 DEF u
<1>3. ASSUME Len(s) < Len(t)
      PROVE  IsPrefix(Append(s, t[Len(s) + 1]), t)
  <2> DEFINE u == Append(s, t[Len(s) + 1])
  <2>1. t[Len(s) + 1] \in Nat
    BY <1>3
  <2>2. /\ u \in Seq(Nat) /\ Len(u) = Len(s) + 1
        /\ \A i \in 1 .. Len(s) : u[i] = s[i]
        /\ u[Len(s) + 1] = t[Len(s) + 1]
    BY <2>1, AppendProperties
  <2> HIDE DEF u
  <2>3. Len(u) <= Len(t) /\ \A i \in 1 .. Len(u) : u[i] = t[i]
    <3>1. Len(s) \in Nat /\ Len(t) \in Nat
      OBVIOUS
    <3>2. ASSUME NEW i \in 1 .. Len(u)
          PROVE  u[i] = t[i]
      <4>1. CASE i \in 1 .. Len(s)
        BY <1>1, <2>2, <4>1
      <4>2. CASE i = Len(s) + 1
        BY <2>2, <4>2
      <4> QED
        BY <2>2, <3>1, <4>1, <4>2
    <3>3. Len(u) <= Len(t)
      BY <1>3, <2>2, <3>1
    <3> QED
      BY <3>2, <3>3
  <2>4. IsPrefix(u, t)
    BY <2>2, <2>3, PrefixElements
  <2> QED
    BY <2>4 DEF u
<1> QED
  BY <1>2, <1>3

-----------------------------------------------------------------------------
(* Types. *)

(* An absent schema is a database that grants nothing. *)
LEMMA InitInv == Init => IndInv
<1> SUFFICES ASSUME Init
             PROVE  IndInv
  OBVIOUS
<1>1. Absent \in Databases /\ Sound(Absent)
  <2>1. <<>> \in Seq(Nat)
    BY EmptySeq
  <2> QED
    BY <2>1 DEF Absent, Databases, Sound
<1>2. TypeOK
  BY <1>1, NoneAssumption DEF Init, TypeOK
<1>3. \A j \in Jobs : JobInv(j)
  BY DEF Init, JobInv, Holding
<1>4. \A c \in Clients : ClientInv(c)
  BY DEF Init, ClientInv
<1> QED
  BY <1>1, <1>2, <1>3, <1>4 DEF IndInv, Init

(* The grants of a configured database are privileges of roles. *)
LEMMA GrantedType ==
  ASSUME NEW state \in Databases, NEW r \in Roles
  PROVE  Granted(state, r) \in SUBSET (Roles \X Privileges)
BY DEF Granted, Needed, Databases, Privileges

(* What a job applies and configures stays a database. *)
LEMMA WorkType ==
  ASSUME IndInv, NEW j \in Jobs, Bootstrap(j) \/ Apply(j) \/ Configure(j)
  PROVE  work'[j] \in Databases /\ work' \in [Jobs -> Databases]
<1> DEFINE w == work[j]
<1>1. w \in Databases /\ work \in [Jobs -> Databases] /\ db \in Databases
  BY DEF IndInv, TypeOK
<1>2. jpc[j] # "idle" => Started(j)
  BY DEF IndInv, JobInv
<1>3. CASE Bootstrap(j)
  <2>1. Started(j)
    BY <1>2, <1>3 DEF Bootstrap
  <2>2. [db EXCEPT !.owner = args[j].migration] \in Databases
    BY <1>1, <2>1 DEF Started, JobArgs, Databases
  <2> QED
    BY <1>1, <1>3, <2>2 DEF Bootstrap
<1>4. CASE Apply(j)
  <2> DEFINE next == Installed(w) + 1
  <2>1. Started(j) /\ next <= args[j].target
    BY <1>2, <1>4 DEF Apply
  <2>2. args[j].package \in Seq(Nat) /\ w.ledger \in Seq(Nat) /\ Installed(w) \in Nat
    BY <1>1, <2>1, PackagesAssumption DEF Started, JobArgs, Databases, Installed
  <2>3. args[j].package[next] \in Nat
    BY <2>1, <2>2 DEF Started
  <2>4. Append(w.ledger, args[j].package[next]) \in Seq(Nat)
    BY <2>2, <2>3, AppendProperties
  <2>5. work' = [work EXCEPT ![j].ledger = Append(@, args[j].package[next])]
    BY <1>4 DEF Apply
  <2>6. [w EXCEPT !.ledger = Append(w.ledger, args[j].package[next])] \in Databases
    BY <1>1, <2>4 DEF Databases
  <2> QED
    BY <1>1, <2>5, <2>6
<1>5. CASE Configure(j)
  <2>1. Started(j)
    BY <1>2, <1>5 DEF Configure
  <2>2. Granted(w, args[j].runtime) \in SUBSET (Roles \X Privileges)
    BY <1>1, <2>1, GrantedType DEF Started, JobArgs
  <2>3. Recorded(w, args[j].migration, args[j].runtime) \in Databases
    BY <1>1, <2>1 DEF Started, JobArgs, Recorded, Databases
  <2>4. work'[j] \in Databases
    <3>1. work'[j] = [Recorded(w, args[j].migration, args[j].runtime)
                        EXCEPT !.grants = Granted(w, args[j].runtime)]
      BY <1>1, <1>5 DEF Configure
    <3> HIDE DEF w
    <3> QED
      BY <2>2, <2>3, <3>1 DEF Databases
  <2>5. work' = [work EXCEPT ![j] = work'[j]]
    BY <1>1, <1>5 DEF Configure
  <2> QED
    BY <1>1, <2>4, <2>5
<1> QED
  BY <1>3, <1>4, <1>5

(* A served operation writes only its own place and role. *)
LEMMA ClientType ==
  ASSUME TypeOK, NEW c \in Clients, ClientStep(c)
  PROVE  TypeOK' /\ UNCHANGED <<db, jobs>>
<1> USE DEF TypeOK, Answer, jobs
<1>1. CASE Connect(c)
  BY <1>1 DEF Connect
<1>2. CASE CheckAccess(c)
  BY <1>2 DEF CheckAccess
<1>3. CASE CheckVersion(c)
  BY <1>3 DEF CheckVersion
<1>4. CASE CheckRole(c)
  BY <1>4 DEF CheckRole
<1>5. CASE OpenStream(c)
  BY <1>5 DEF OpenStream
<1>6. CASE Serve(c)
  BY <1>6 DEF Serve
<1> QED
  BY <1>1, <1>2, <1>3, <1>4, <1>5, <1>6 DEF ClientStep

(* One job at a time is between taking the lock and the end of its transaction. *)
LEMMA JobType ==
  ASSUME IndInv, NEW j \in Jobs, JobStep(j)
  PROVE  TypeOK' /\ UNCHANGED clients
<1> DEFINE HasLock(k) == jpc[k] \in {"bootstrapped", "verified", "configured", "rollback"}
           Places == {"idle", "begun", "bootstrapped", "verified", "configured", "rollback",
                      "migrated", "failed"}
<1>1. /\ db \in Databases /\ lock \in Jobs \cup {None}
      /\ \A k \in Jobs : lock = k <=> HasLock(k)
      /\ jpc \in [Jobs -> Places] /\ args \in [Jobs -> JobArgs \cup {None}]
      /\ work \in [Jobs -> Databases]
  BY DEF IndInv, TypeOK
<1>2. UNCHANGED clients => cpc' = cpc /\ role' = role
  BY DEF clients
<1>3. ASSUME /\ db' \in Databases /\ lock' \in Jobs \cup {None}
             /\ \A k \in Jobs : lock' = k <=> HasLock(k)'
             /\ jpc' \in [Jobs -> Places] /\ args' \in [Jobs -> JobArgs \cup {None}]
             /\ work' \in [Jobs -> Databases]
             /\ UNCHANGED clients
      PROVE  TypeOK' /\ UNCHANGED clients
  BY <1>2, <1>3 DEF IndInv, TypeOK
<1>4. CASE StartJob(j)
  <2>1. args' \in [Jobs -> JobArgs \cup {None}]
    <3>1. PICK p \in Packages, m \in Roles, r \in Roles, t \in Targets :
            args' = [args EXCEPT ![j] = [package |-> p, migration |-> m, runtime |-> r, target |-> t]]
      BY <1>4 DEF StartJob
    <3>2. [package |-> p, migration |-> m, runtime |-> r, target |-> t] \in JobArgs
      BY <3>1 DEF JobArgs
    <3> QED
      BY <1>1, <3>1, <3>2
  <2>2. /\ UNCHANGED <<db, lock, work, clients>>
        /\ jpc[j] = "idle" /\ jpc' = [jpc EXCEPT ![j] = "begun"]
    BY <1>4 DEF StartJob
  <2> QED
    BY <1>1, <1>3, <2>1, <2>2
<1>5. CASE Bootstrap(j)
  <2>1. work' \in [Jobs -> Databases]
    BY <1>5, WorkType
  <2> QED
    BY <1>1, <1>3, <1>5, <2>1, NoneAssumption DEF Bootstrap
<1>6. CASE Verify(j)
  BY <1>1, <1>3, <1>6 DEF Verify
<1>7. CASE Apply(j)
  <2>1. work' \in [Jobs -> Databases]
    BY <1>7, WorkType
  <2> QED
    BY <1>1, <1>3, <1>7, <2>1 DEF Apply
<1>8. CASE Configure(j)
  <2>1. work' \in [Jobs -> Databases]
    BY <1>8, WorkType
  <2> QED
    BY <1>1, <1>3, <1>8, <2>1 DEF Configure
<1>9. CASE CommitJob(j)
  BY <1>1, <1>3, <1>9, NoneAssumption DEF CommitJob
<1>10. CASE AbortJob(j)
  BY <1>1, <1>3, <1>10, NoneAssumption DEF AbortJob
<1> QED
  BY <1>4, <1>5, <1>6, <1>7, <1>8, <1>9, <1>10 DEF JobStep

-----------------------------------------------------------------------------
(* The record and the privileges. *)

(* Recording a runtime role gives it every privilege and takes those of the one before. *)
LEMMA ConfiguredSound ==
  ASSUME NEW state \in Databases, Sound(state), NEW m \in Roles, NEW r \in Roles, m # r,
         state.owner = m
  PROVE  LET new == [Recorded(state, m, r) EXCEPT !.grants = Granted(state, r)]
         IN  /\ Sound(new)
             /\ new.owner = state.owner /\ new.ledger = state.ledger
             /\ state.runtime \notin {None, new.runtime} =>
                  \A g \in new.grants : g[1] # state.runtime
             /\ state.runtime # None => GrantsOnly(state, new)
<1> DEFINE new == [Recorded(state, m, r) EXCEPT !.grants = Granted(state, r)]
<1>1. /\ new.owner = state.owner /\ new.ledger = state.ledger
      /\ new.grants = Granted(state, r)
      /\ new.runtime = IF Installed(state) >= 2 THEN r ELSE state.runtime
  BY DEF Recorded, Databases
<1>2. Installed(new) = Installed(state) /\ Installed(state) \in Nat
  BY <1>1 DEF Installed, Databases
<1>3. CASE Installed(state) >= 2
  <2>1. new.grants = {g \in state.grants : g[1] = r \/ g[1] # state.runtime}
                       \cup {<<r, "usage">>, <<r, "ingest">>, <<r, "receipts">>}
    BY <1>1, <1>3 DEF Granted, Needed
  <2>2. new.runtime = r
    BY <1>1, <1>3
  <2> HIDE DEF new
  <2>3. \A p \in Privileges : <<r, p>> \in new.grants
    BY <2>1 DEF Privileges
  <2>4. \A g \in new.grants : g[2] = "receipts" => g[1] = r
    BY <2>1 DEF Sound
  <2>5. r # None
    BY NoneAssumption
  <2>6. \A g \in new.grants : g[1] = r \/ g[1] # state.runtime
    BY <2>1
  <2>7. Sound(new)
    BY <1>1, <1>2, <1>3, <2>2, <2>3, <2>4, NoneAssumption DEF Sound
  <2>8. \A g \in new.grants : g \in state.grants \/ g[1] = r
    BY <2>1
  <2>9. GrantsOnly(state, new)
    BY <2>2, <2>5, <2>8 DEF GrantsOnly
  <2> QED
    BY <1>1, <2>2, <2>6, <2>7, <2>9 DEF new
<1>4. CASE ~ (Installed(state) >= 2)
  <2>1. state.runtime = None /\ new.runtime = None
    BY <1>1, <1>4 DEF Sound
  <2>2. new.grants = state.grants \cup {<<r, "usage">>, <<r, "ingest">>}
    BY <1>1, <1>4 DEF Granted, Needed
  <2>3. Sound(new)
    BY <2>1, <2>2 DEF Sound
  <2> QED
    BY <1>1, <2>1, <2>3
<1> QED
  BY <1>3, <1>4

(* What the lock holder writes extends what is committed. *)
LEMMA OwnJob ==
  ASSUME IndInv, NEW j \in Jobs, JobStep(j), db' = db
  PROVE  JobInv(j)'
<1> DEFINE w == work[j]
           a == args[j]
<1>1. /\ w \in Databases /\ db \in Databases
      /\ jpc \in [Jobs -> {"idle", "begun", "bootstrapped", "verified", "configured", "rollback",
                           "migrated", "failed"}]
      /\ args \in [Jobs -> JobArgs \cup {None}] /\ work \in [Jobs -> Databases]
  BY DEF IndInv, TypeOK
<1>2. Sound(db) /\ JobInv(j)
  BY DEF IndInv
<1>3. ASSUME Started(j), args'[j] = args[j]
      PROVE  Started(j)'
  BY <1>3 DEF Started
<1>4. CASE StartJob(j)
  <2>1. PICK p \in Packages, m \in Roles, r \in Roles, t \in Targets :
          /\ m # r /\ t \in 1 .. Len(p)
          /\ args' = [args EXCEPT ![j] = [package |-> p, migration |-> m, runtime |-> r, target |-> t]]
    BY <1>4 DEF StartJob
  <2>2. args'[j] = [package |-> p, migration |-> m, runtime |-> r, target |-> t]
    BY <1>1, <2>1
  <2>3. Started(j)'
    BY <2>1, <2>2 DEF Started, JobArgs
  <2>4. jpc'[j] = "begun"
    BY <1>1, <1>4 DEF StartJob
  <2> QED
    BY <2>3, <2>4 DEF JobInv, Holding
<1>5. CASE Bootstrap(j)
  <2>1. Started(j) /\ args'[j] = args[j]
    BY <1>2, <1>5 DEF Bootstrap, JobInv
  <2>2. CASE jpc'[j] \in Holding
    <3>1. /\ work'[j] = [db EXCEPT !.owner = a.migration]
          /\ db.owner \in {None, a.migration}
          /\ jpc'[j] = "bootstrapped"
      BY <1>1, <1>5, <2>2 DEF Bootstrap, Holding
    <3>2. /\ work'[j].owner = a.migration /\ work'[j].ledger = db.ledger
          /\ work'[j].runtime = db.runtime /\ work'[j].grants = db.grants
      BY <1>1, <3>1 DEF Databases
    <3>3. Sound(work'[j])
      BY <1>2, <3>1, <3>2 DEF Sound, Installed
    <3>4. db.ledger \in Seq(Nat)
      BY <1>1 DEF Databases
    <3>5. IsPrefix(db.ledger, db.ledger)
      BY <3>4, PrefixElements
    <3>6. db.runtime # None => GrantsOnly(db, work'[j])
      BY <3>2 DEF GrantsOnly
    <3> QED
      BY <1>3, <2>1, <3>1, <3>2, <3>3, <3>5, <3>6 DEF JobInv, Extends
  <2>3. CASE jpc'[j] \notin Holding
    BY <1>3, <2>1, <2>3 DEF JobInv
  <2> QED
    BY <2>2, <2>3
<1>6. CASE Verify(j)
  <2>1. Started(j) /\ Extends(j) /\ jpc[j] = "bootstrapped"
    BY <1>2, <1>6 DEF Verify, JobInv, Holding
  <2>2. args' = args /\ work' = work /\ jpc'[j] \in {"verified", "rollback"}
        /\ (jpc'[j] = "verified" => Verified(w.ledger, a.package))
    BY <1>1, <1>6 DEF Verify
  <2>3. jpc'[j] = "verified" => IsPrefix(w.ledger, a.package)
    BY <1>1, <2>1, <2>2, VerifiedIsPrefix DEF Started, JobArgs, Databases
  <2> QED
    BY <1>3, <2>1, <2>2, <2>3 DEF JobInv, Extends, Holding
<1>7. CASE Apply(j)
  <2> DEFINE next == Installed(w) + 1
  <2>1. Started(j) /\ Extends(j) /\ jpc[j] = "verified" /\ next <= a.target
    BY <1>2, <1>7 DEF Apply, JobInv, Holding
  <2>2. args' = args /\ jpc' = jpc /\ work' = [work EXCEPT ![j].ledger = Append(@, a.package[next])]
    BY <1>7 DEF Apply
  <2>3. work'[j] = [w EXCEPT !.ledger = Append(w.ledger, a.package[next])]
    BY <1>1, <2>2
  <2>4. /\ a.package \in Seq(Nat) /\ w.ledger \in Seq(Nat) /\ db.ledger \in Seq(Nat)
        /\ Installed(w) = Len(w.ledger) /\ Len(w.ledger) < Len(a.package)
    BY <1>1, <2>1, PackagesAssumption DEF Started, JobArgs, Databases, Installed
  <2>5. a.package[next] \in Nat
    <3>1. next \in 1 .. Len(a.package)
      BY <2>4
    <3> HIDE DEF next, a
    <3> QED
      BY <2>4, <3>1, ElementOfSeq
  <2>6. IsPrefix(db.ledger, work'[j].ledger)
    BY <1>1, <2>1, <2>3, <2>4, <2>5, PrefixGrows DEF Extends, Databases
  <2>7. IsPrefix(work'[j].ledger, a.package)
    BY <1>1, <2>1, <2>3, <2>4, PrefixGrows DEF Extends, Databases
  <2>8. /\ work'[j].owner = w.owner /\ work'[j].runtime = w.runtime /\ work'[j].grants = w.grants
        /\ Installed(work'[j]) = Installed(w) + 1 /\ Installed(w) \in Nat
    BY <1>1, <2>3, <2>4, <2>5, AppendProperties DEF Databases, Installed
  <2>9. Sound(work'[j])
    BY <2>1, <2>8 DEF Sound, Extends
  <2>10. db.runtime # None => GrantsOnly(db, work'[j])
    BY <2>1, <2>8 DEF Extends, GrantsOnly
  <2> QED
    BY <1>3, <2>1, <2>2, <2>6, <2>7, <2>8, <2>9, <2>10 DEF JobInv, Extends
<1>8. CASE Configure(j)
  <2>1. Started(j) /\ Extends(j) /\ jpc[j] = "verified"
    BY <1>2, <1>8 DEF Configure, JobInv, Holding
  <2>2. args' = args /\ jpc'[j] = "configured"
    BY <1>1, <1>8 DEF Configure
  <2>3. work'[j] = [Recorded(w, a.migration, a.runtime) EXCEPT !.grants = Granted(w, a.runtime)]
    BY <1>1, <1>8 DEF Configure
  <2>4. /\ a.migration \in Roles /\ a.runtime \in Roles /\ a.migration # a.runtime
        /\ w.owner = a.migration /\ Sound(w)
    BY <2>1 DEF Started, JobArgs, Extends
  <2>5. /\ Sound(work'[j]) /\ work'[j].owner = w.owner /\ work'[j].ledger = w.ledger
        /\ w.runtime \notin {None, work'[j].runtime} => \A g \in work'[j].grants : g[1] # w.runtime
        /\ w.runtime # None => GrantsOnly(w, work'[j])
    BY <1>1, <2>3, <2>4, ConfiguredSound
  <2>6. w.runtime = db.runtime
    BY <2>1 DEF Extends
  <2>7. db.runtime # None => GrantsOnly(db, work'[j])
    <3>1. db.runtime # None => GrantsOnly(db, w)
      BY <2>1 DEF Extends
    <3> QED
      BY <2>5, <2>6, <3>1 DEF GrantsOnly
  <2> QED
    BY <1>3, <2>1, <2>2, <2>5, <2>6, <2>7 DEF JobInv, Extends
<1>9. CASE CommitJob(j)
  BY <1>1, <1>2, <1>3, <1>9 DEF CommitJob, JobInv, Holding
<1>10. CASE AbortJob(j)
  BY <1>1, <1>2, <1>3, <1>10 DEF AbortJob, JobInv, Holding
<1> QED
  BY <1>4, <1>5, <1>6, <1>7, <1>8, <1>9, <1>10 DEF JobStep

(* Steps of jobs: the other jobs are no lock holders when one of them commits. *)
LEMMA JobsInv ==
  ASSUME IndInv, NEW j \in Jobs, JobStep(j)
  PROVE  IndInv'
<1>1. TypeOK' /\ cpc' = cpc /\ role' = role
  BY JobType DEF clients
<1>2. ASSUME NEW k \in Jobs, k # j
      PROVE  jpc'[k] = jpc[k] /\ args'[k] = args[k] /\ work'[k] = work[k]
  BY <1>2 DEF IndInv, TypeOK, JobStep, StartJob, Bootstrap, Verify, Apply, Configure, CommitJob,
    AbortJob
<1>3. CASE db' = db
  <2>1. JobInv(j)'
    BY <1>3, OwnJob
  <2>2. ASSUME NEW k \in Jobs, k # j
        PROVE  JobInv(k)'
    BY <1>2, <1>3, <2>2 DEF IndInv, JobInv, Started, Extends
  <2>3. Sound(db)' /\ \A c \in Clients : ClientInv(c)'
    BY <1>1, <1>3 DEF IndInv, ClientInv
  <2> QED
    BY <1>1, <2>1, <2>2, <2>3 DEF IndInv
<1>4. CASE CommitJob(j)
  <2>1. /\ jpc[j] = "configured" /\ db' = work[j] /\ args' = args
        /\ jpc'[j] = "migrated"
    BY <1>4 DEF CommitJob, IndInv, TypeOK
  <2>2. Started(j) /\ Extends(j)
    BY <2>1 DEF IndInv, JobInv, Holding
  <2>3. ASSUME NEW k \in Jobs
        PROVE  JobInv(k)'
    <3>1. CASE k = j
      BY <2>1, <2>2, <3>1 DEF JobInv, Started, Holding
    <3>2. CASE k # j
      <4>1. jpc[k] \notin Holding
        BY <2>1, <3>2 DEF IndInv, TypeOK, Holding
      <4> QED
        BY <1>2, <3>2, <4>1 DEF IndInv, JobInv, Started
    <3> QED
      BY <3>1, <3>2
  <2>4. db.owner \notin {None} => db'.owner = db.owner
    BY <2>1, <2>2 DEF Extends
  <2>5. Sound(db)'
    BY <2>1, <2>2 DEF Extends
  <2>6. ASSUME NEW c \in Clients, cpc'[c] \in {"compatible", "stream_open"}
        PROVE  /\ db'.runtime # None
               /\ db'.owner \notin {None, role'[c]}
               /\ \A g \in db'.grants : g[1] = role'[c] => role'[c] = db'.runtime
    <3>1. /\ db.runtime # None /\ db.owner \notin {None, role[c]}
          /\ \A g \in db.grants : g[1] = role[c] => role[c] = db.runtime
      BY <1>1, <2>6 DEF IndInv, ClientInv
    <3>2. /\ GrantsOnly(db, db')
          /\ db.runtime # db'.runtime => \A g \in db'.grants : g[1] # db.runtime
      BY <2>1, <2>2, <3>1 DEF Extends
    <3> QED
      BY <1>1, <2>4, <3>1, <3>2 DEF GrantsOnly
  <2>7. \A c \in Clients : ClientInv(c)'
    BY <2>6 DEF ClientInv
  <2> QED
    BY <1>1, <2>3, <2>5, <2>7 DEF IndInv
<1> QED
  BY <1>3, <1>4 DEF JobStep, StartJob, Bootstrap, Verify, Apply, Configure, AbortJob

(* Steps of served operations: the role that the check passes is on record, so not the owner's. *)
LEMMA ClientsInv ==
  ASSUME IndInv, NEW c \in Clients, ClientStep(c)
  PROVE  IndInv'
<1>1. TypeOK' /\ UNCHANGED <<db, jobs>>
  BY ClientType DEF IndInv
<1>2. db' = db /\ jpc' = jpc /\ args' = args /\ work' = work
  BY <1>1 DEF jobs
<1>3. \A j \in Jobs : JobInv(j)'
  BY <1>2 DEF IndInv, JobInv, Started, Extends
<1>4. ASSUME NEW d \in Clients, cpc'[d] \in {"compatible", "stream_open"}
      PROVE  /\ db.runtime # None
             /\ db.owner \notin {None, role'[d]}
             /\ \A g \in db.grants : g[1] = role'[d] => role'[d] = db.runtime
  <2>1. CASE cpc[d] \in {"compatible", "stream_open"} /\ role'[d] = role[d]
    BY <2>1 DEF IndInv, ClientInv
  <2>2. CASE d = c /\ CheckRole(c) /\ cpc[c] = "supported"
    <3>1. db.runtime # None /\ db.runtime = role[c] /\ role' = role
      BY <1>4, <2>2 DEF IndInv, TypeOK, CheckRole, Answer
    <3> QED
      BY <2>2, <3>1 DEF IndInv, Sound
  <2> QED
    BY <1>4, <2>1, <2>2 DEF IndInv, TypeOK, ClientStep, Connect, CheckAccess, CheckVersion, CheckRole,
      OpenStream, Serve, Answer
<1> QED
  BY <1>1, <1>2, <1>3, <1>4 DEF IndInv, ClientInv

(* The inductive invariant, of every reachable state. *)
THEOREM Invariance == Spec => []IndInv
<1>1. IndInv /\ [Next]_vars => IndInv'
  <2> SUFFICES ASSUME IndInv, [Next]_vars
               PROVE  IndInv'
    OBVIOUS
  <2>1. CASE Next
    BY <2>1, JobsInv, ClientsInv DEF Next
  <2>2. CASE UNCHANGED vars
    BY <2>2 DEF vars, jobs, clients, IndInv, TypeOK, JobInv, Started, Extends, ClientInv
  <2> QED
    BY <2>1, <2>2
<1> QED
  BY <1>1, InitInv, PTL DEF Spec

-----------------------------------------------------------------------------
(* Theorems. *)

(***************************************************************************)
(* Everything keeps its type, and the lock is held by the job that is      *)
(* between taking it and the end of its transaction.                       *)
(***************************************************************************)
THEOREM TypeCorrect == Spec => []TypeOK
<1>1. IndInv => TypeOK
  BY DEF IndInv
<1> QED
  BY <1>1, Invariance, PTL

(***************************************************************************)
(* Whichever releases migrate, in whatever order and at once: the recorded *)
(* runtime role has every privilege that serving needs.                    *)
(***************************************************************************)
THEOREM RecordedCanServe == Spec => []ConfiguredCanServe
<1>1. IndInv => ConfiguredCanServe
  BY DEF IndInv, Sound, ConfiguredCanServe
<1> QED
  BY <1>1, Invariance, PTL

(* Only a commit changes the database, to what the committing job extends. *)
LEMMA DbChanges ==
  ASSUME IndInv, [Next]_vars, db' # db
  PROVE  \E j \in Jobs : /\ db' = work[j]
                        /\ jpc[j] = "configured" /\ Started(j) /\ Extends(j)
<1>1. ASSUME NEW j \in Jobs, JobStep(j)
      PROVE  CommitJob(j)
  BY <1>1 DEF JobStep, StartJob, Bootstrap, Verify, Apply, Configure, AbortJob
<1>2. ASSUME NEW c \in Clients, ClientStep(c)
      PROVE  FALSE
  BY <1>2, ClientType DEF IndInv
<1>3. PICK j \in Jobs : CommitJob(j)
  BY <1>1, <1>2 DEF Next, vars
<1>4. db' = work[j] /\ jpc[j] = "configured"
  BY <1>3 DEF CommitJob
<1>5. Started(j) /\ Extends(j)
  BY <1>4 DEF IndInv, JobInv, Holding
<1> QED
  BY <1>4, <1>5

(***************************************************************************)
(* Every step leaves what one of the releases would apply, and keeps every *)
(* version and digest that was applied before.                             *)
(***************************************************************************)
THEOREM HistoryStays == Spec => OneHistory
<1>1. IndInv /\ [Next]_vars =>
        [IsHistory(db'.ledger) /\ IsPrefix(db.ledger, db'.ledger)]_db
  BY DbChanges DEF IsHistory, Started, JobArgs, Extends
<1> QED
  BY <1>1, Invariance, PTL DEF Spec, OneHistory

(***************************************************************************)
(* The step that makes a new runtime role visible leaves the role that was *)
(* on record without a privilege.                                          *)
(***************************************************************************)
THEOREM RotationTakesAll == Spec => RotationRevokes
<1>1. IndInv /\ [Next]_vars =>
        [db.runtime \notin {None, db'.runtime} => \A g \in db'.grants : g[1] # db.runtime]_db
  BY DbChanges DEF Extends
<1> QED
  BY <1>1, Invariance, PTL DEF Spec, RotationRevokes

(***************************************************************************)
(* Whatever was committed between an operation's check and its statements, *)
(* or between two of those, each is executed only for the role on record   *)
(* when it runs.                                                           *)
(***************************************************************************)
THEOREM ServedToRecorded == Spec => ServedWhileConfigured
<1>1. ASSUME IndInv, [Next]_vars, NEW c \in Clients, Executed(c)
      PROVE  role[c] = db.runtime
  <2>1. cpc[c] \in {"compatible", "stream_open"} /\ May(role[c], "ingest")
    <3>1. ASSUME NEW j \in Jobs, JobStep(j)
          PROVE  FALSE
      BY <1>1, <3>1, JobType DEF clients, Executed
    <3>2. PICK d \in Clients : ClientStep(d)
      BY <1>1, <3>1 DEF Next, vars, clients, Executed
    <3> QED
      BY <1>1, <3>2 DEF IndInv, TypeOK, ClientStep, Connect, CheckAccess, CheckVersion, CheckRole,
        OpenStream, Serve, Answer, Executed
  <2>2. role[c] # db.owner /\ \A g \in db.grants : g[1] = role[c] => role[c] = db.runtime
    BY <1>1, <2>1 DEF IndInv, ClientInv
  <2>3. <<role[c], "ingest">> \in db.grants
    BY <2>1, <2>2 DEF May
  <2> QED
    BY <2>2, <2>3
<1>2. IndInv /\ [Next]_vars => [\A c \in Clients : Executed(c) => role[c] = db.runtime]_vars
  BY <1>1
<1> QED
  BY <1>2, Invariance, PTL DEF Spec, ServedWhileConfigured

=============================================================================
