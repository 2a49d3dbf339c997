--------------------------- MODULE OpenIndexProofs ---------------------------
(***************************************************************************)
(* The index is one release's schema, for any number of commands, releases *)
(* and foreign locks.  Whoever writes holds the file's lock, so a draft is *)
(* the store with the migrations its command applied; it is only ever      *)
(* committed where rows, version and migrations agree.                     *)
(***************************************************************************)
EXTENDS OpenIndex, TLAPS

Labels == {"idle"} \cup Opening \cup Ended
Schemas == [rows : Nat, version : Nat, made : [Migrations -> Nat]]

TypeOK ==
  /\ pc \in [Procs -> Labels]
  /\ current \in [Procs -> Nat]
  /\ draft \in [Procs -> Schemas]
  /\ store \in Schemas

(* The migrations up to n took effect, each once. *)
MadeUpTo(s, n) == \A m \in Migrations : s.made[m] = IF m <= n THEN 1 ELSE 0

AtVersion(s) ==
  /\ s.rows \in {0, 1}
  /\ s.version > 0 => s.rows = 1
  /\ MadeUpTo(s, s.version)

(* Where a command has a transaction, and where it is behind the switch to WAL. *)
Writing == {"read", "migrate", "stamp"}
Switched == {"create", "begin", "opened"} \cup Writing

(* Between its statements, a transaction's draft is ahead of the store and sound but
   for the migration that is not yet stamped. *)
DraftOf(p) ==
  /\ pc[p] \in Writing => draft[p].version >= store.version
  /\ pc[p] = "read" => AtVersion(draft[p])
  /\ pc[p] \in {"migrate", "stamp"} => draft[p].rows = 1 /\ current[p] = draft[p].version
  /\ pc[p] = "migrate" => MadeUpTo(draft[p], current[p])
  /\ pc[p] = "stamp" => current[p] < Release[p] /\ MadeUpTo(draft[p], current[p] + 1)

CommandInv(p) ==
  /\ pc[p] \in Writing \cup {"switch"} => lock = p
  /\ pc[p] \in Switched => wal
  /\ pc[p] = "opened" => store.version >= Release[p]
  /\ DraftOf(p)

IndInv == TypeOK /\ SchemaAtVersion /\ \A p \in Procs : CommandInv(p)

-----------------------------------------------------------------------------

(* A missing file satisfies the invariant. *)
LEMMA InitInv == Init => IndInv
<1> SUFFICES ASSUME Init
             PROVE  IndInv
  OBVIOUS
<1>1. \A m \in Migrations : m \in Nat \ {0}
  BY ReleaseAssumption DEF Migrations
<1>2. TypeOK
  BY DEF Init, TypeOK, Labels, Schemas, Empty
<1>3. SchemaAtVersion
  BY <1>1 DEF Init, SchemaAtVersion, Empty
<1>4. \A p \in Procs : CommandInv(p)
  BY DEF Init, CommandInv, DraftOf, Writing, Switched
<1> QED
  BY <1>2, <1>3, <1>4 DEF IndInv

(* A migration that a command applies is one there is. *)
LEMMA NextMigration ==
  ASSUME TypeOK, NEW p \in Procs, Pending(p)
  PROVE  current[p] + 1 \in Migrations
<1>1. current[p] \in Nat /\ Release[p] \in Nat /\ current[p] < Release[p]
  BY ReleaseAssumption DEF TypeOK, Pending
<1>2. current[p] + 1 \in 1 .. Release[p]
  BY <1>1
<1> QED
  BY <1>2 DEF Migrations

(* What applying the next migration, or stamping it, makes of a draft. *)
LEMMA Migrated ==
  ASSUME TypeOK, NEW p \in Procs, Migrate(p), MadeUpTo(draft[p], current[p])
  PROVE  /\ draft'[p] \in Schemas
         /\ draft'[p].rows = draft[p].rows /\ draft'[p].version = draft[p].version
         /\ MadeUpTo(draft'[p], current[p] + 1)
         /\ draft' = [draft EXCEPT ![p] = draft'[p]]
<1> DEFINE n == current[p] + 1
           made == [draft[p].made EXCEPT ![n] = @ + 1]
<1>1. n \in Migrations /\ current[p] \in Nat /\ draft \in [Procs -> Schemas] /\ draft[p] \in Schemas
  BY NextMigration DEF Migrate, TypeOK
<1>2. draft' = [draft EXCEPT ![p] = [draft[p] EXCEPT !.made = made]]
  BY DEF Migrate
<1>3. draft[p].made \in [Migrations -> Nat] /\ \A m \in Migrations : m \in Nat
  BY <1>1, ReleaseAssumption DEF Schemas, Migrations
<1>4. /\ made \in [Migrations -> Nat]
      /\ \A m \in Migrations : made[m] = IF m <= n THEN 1 ELSE 0
  BY <1>1, <1>3 DEF MadeUpTo
<1> HIDE DEF made
<1>5. /\ draft'[p] = [draft[p] EXCEPT !.made = made]
      /\ draft' = [draft EXCEPT ![p] = draft'[p]]
  BY <1>1, <1>2
<1>6. /\ draft'[p] \in Schemas /\ draft'[p].made = made
      /\ draft'[p].rows = draft[p].rows /\ draft'[p].version = draft[p].version
  BY <1>1, <1>4, <1>5 DEF Schemas
<1> QED
  BY <1>4, <1>5, <1>6 DEF MadeUpTo

-----------------------------------------------------------------------------

Act(p) == Start(p) \/ Step(p) \/ Stop(p)

(* A step of p is seen by the others in the lock it takes when free, and gives up, in
   the switch, and in the store, which changes only when p commits. *)
LEMMA StepEffects ==
  ASSUME IndInv, NEW p \in Procs, Act(p)
  PROVE  /\ \A q \in Procs \ {p} : UNCHANGED <<pc[q], current[q], draft[q]>>
         /\ \A q \in Procs \ {p} : lock = q => lock' = q
         /\ wal => wal'
         /\ Commit(p) \/ store' = store
<1>1. pc \in [Procs -> Labels] /\ current \in [Procs -> Nat] /\ draft \in [Procs -> Schemas]
  BY DEF IndInv, TypeOK
<1>2. \A q \in Procs \ {p} : UNCHANGED <<pc[q], current[q], draft[q]>>
  BY <1>1 DEF Act, Start, Step, Stop, AlreadyWal, TakeFile, Switch, Retry, ConnectBusy,
     CreateTable, Begin, InitBusy, ReadVersion, Migrate, Stamp, Commit, GiveUp, Goto
<1>3. \A q \in Procs \ {p} : lock = q => lock' = q
  <2>1. pc[p] \in Writing \cup {"switch"} => lock = p
    BY DEF IndInv, CommandInv
  <2> QED
    BY <2>1, NamesAssumption DEF Act, Start, Step, Stop, AlreadyWal, TakeFile, Switch, Retry,
       ConnectBusy, CreateTable, Begin, InitBusy, ReadVersion, Migrate, Stamp, Commit, GiveUp,
       Free, Writing
<1>4. (wal => wal') /\ (Commit(p) \/ store' = store)
  BY DEF Act, Start, Step, Stop, AlreadyWal, TakeFile, Switch, Retry, ConnectBusy,
     CreateTable, Begin, InitBusy, ReadVersion, Migrate, Stamp, GiveUp, file, Commit
<1> QED
  BY <1>2, <1>3, <1>4

(* The store at a commit: its version rises, and is the migrations that were made. *)
LEMMA CommitStore ==
  ASSUME IndInv, NEW p \in Procs, Commit(p)
  PROVE  /\ store' = draft[p] /\ store' \in Schemas /\ lock = p /\ pc'[p] = "opened"
         /\ store'.version >= store.version /\ store'.version >= Release[p]
         /\ AtVersion(store')
<1>1. /\ pc[p] = "migrate" /\ ~ Pending(p) /\ store' = draft[p]
      /\ TypeOK /\ CommandInv(p) /\ DraftOf(p)
  BY DEF IndInv, CommandInv, Commit
<1>2. /\ draft[p] \in Schemas /\ current[p] \in Nat /\ Release[p] \in Nat
      /\ pc'[p] = "opened"
  BY <1>1, ReleaseAssumption DEF TypeOK, Commit, Goto
<1>3. /\ draft[p].version >= store.version /\ draft[p].rows = 1
      /\ current[p] = draft[p].version /\ MadeUpTo(draft[p], current[p])
      /\ lock = p
  BY <1>1 DEF DraftOf, CommandInv, Writing
<1> QED
  BY <1>1, <1>2, <1>3 DEF AtVersion, Pending

(* A command's step leaves true what is known of every other command. *)
LEMMA OthersKeep ==
  ASSUME IndInv, NEW p \in Procs, Act(p), NEW q \in Procs \ {p}
  PROVE  CommandInv(q)'
<1>1. /\ CommandInv(q) /\ UNCHANGED <<pc[q], current[q], draft[q]>>
      /\ lock = q => lock' = q
      /\ wal => wal'
  BY StepEffects DEF IndInv
<1>2. CASE store' = store
  BY <1>1, <1>2 DEF CommandInv, DraftOf, MadeUpTo, AtVersion
<1>3. CASE Commit(p)
  <2>1. /\ lock = p /\ store'.version \in Nat /\ store.version \in Nat /\ Release[q] \in Nat
        /\ store'.version >= store.version
    BY <1>3, CommitStore, ReleaseAssumption DEF IndInv, TypeOK, Schemas
  <2>2. pc[q] \notin Writing \cup {"switch"}
    BY <1>1, <2>1 DEF CommandInv
  <2> QED
    BY <1>1, <2>1, <2>2 DEF CommandInv, DraftOf, Writing
<1> QED
  BY <1>2, <1>3, StepEffects

(* A command's step keeps the invariant. *)
LEMMA ActInv ==
  ASSUME IndInv, NEW p \in Procs, Act(p)
  PROVE  IndInv'
<1>1. TypeOK /\ SchemaAtVersion /\ CommandInv(p) /\ DraftOf(p)
  BY DEF IndInv, CommandInv
<1>2. /\ pc \in [Procs -> Labels] /\ current \in [Procs -> Nat] /\ draft \in [Procs -> Schemas]
      /\ store \in Schemas /\ draft[p] \in Schemas /\ current[p] \in Nat /\ Release[p] \in Nat
  BY <1>1, ReleaseAssumption DEF TypeOK
<1> USE DEF Writing, Switched
<1>3. ASSUME TypeOK', CommandInv(p)'
      PROVE  IndInv'
  <2>1. SchemaAtVersion'
    BY <1>1, StepEffects, CommitStore DEF SchemaAtVersion, AtVersion, MadeUpTo
  <2> QED
    BY <1>3, <2>1, OthersKeep DEF IndInv
<1>4. CASE Start(p) \/ AlreadyWal(p) \/ TakeFile(p) \/ Switch(p) \/ Retry(p) \/ CreateTable(p)
  <2>1. /\ UNCHANGED <<current, draft, store>>
        /\ pc'[p] \in {"connect", "create", "switch", "begin"}
        /\ pc'[p] = "switch" => lock' = p
        /\ pc'[p] \in Switched => wal'
        /\ pc' \in [Procs -> Labels]
    BY <1>1, <1>2, <1>4 DEF Start, AlreadyWal, TakeFile, Switch, Retry, CreateTable, Goto, file,
       CommandInv, Labels, Opening
  <2>2. TypeOK'
    BY <1>2, <2>1 DEF TypeOK
  <2> QED
    BY <1>3, <2>1, <2>2 DEF CommandInv, DraftOf
<1>5. CASE ConnectBusy(p) \/ InitBusy(p) \/ Stop(p)
  <2>1. /\ UNCHANGED <<current, draft, store>> /\ pc'[p] \in {"busy", "stopped"}
        /\ pc' \in [Procs -> Labels]
    BY <1>2, <1>5 DEF ConnectBusy, InitBusy, Stop, GiveUp, Goto, file, Labels, Ended
  <2>2. TypeOK'
    BY <1>2, <2>1 DEF TypeOK
  <2> QED
    BY <1>3, <2>1, <2>2 DEF CommandInv, DraftOf
<1>6. CASE Begin(p)
  <2>1. /\ UNCHANGED <<current, store, wal>> /\ pc'[p] = "read" /\ lock' = p /\ wal
        /\ pc' \in [Procs -> Labels] /\ draft' = [draft EXCEPT ![p] = store]
    BY <1>1, <1>2, <1>6 DEF Begin, Goto, file, CommandInv, Labels, Opening
  <2>2. TypeOK' /\ draft'[p] = store
    BY <1>2, <2>1 DEF TypeOK
  <2>3. AtVersion(store) /\ store.version \in Nat
    BY <1>1, <1>2 DEF SchemaAtVersion, AtVersion, MadeUpTo, Schemas
  <2> QED
    BY <1>3, <2>1, <2>2, <2>3 DEF CommandInv, DraftOf, AtVersion, MadeUpTo
<1>7. CASE ReadVersion(p)
  <2> DEFINE stamped == [draft[p] EXCEPT !.rows = IF @ = 0 THEN 1 ELSE @]
  <2>1. /\ UNCHANGED <<store, wal, lock>> /\ pc'[p] = "migrate" /\ lock = p /\ wal
        /\ pc' \in [Procs -> Labels] /\ pc[p] = "read"
        /\ draft' = [draft EXCEPT ![p] = stamped]
        /\ current' = [current EXCEPT ![p] = draft[p].version]
    BY <1>1, <1>2, <1>7 DEF ReadVersion, Goto, file, CommandInv, Labels, Opening
  <2>2. AtVersion(draft[p]) /\ draft[p].version >= store.version
    BY <1>1, <2>1 DEF DraftOf
  <2>3. /\ stamped \in Schemas /\ stamped.rows = 1 /\ stamped.version = draft[p].version
        /\ stamped.made = draft[p].made /\ draft[p].version \in Nat
    BY <1>2, <2>2 DEF AtVersion, Schemas
  <2> HIDE DEF stamped
  <2>4. TypeOK' /\ draft'[p] = stamped /\ current'[p] = draft[p].version
    BY <1>2, <2>1, <2>3 DEF TypeOK
  <2> QED
    BY <1>3, <2>1, <2>2, <2>3, <2>4 DEF CommandInv, DraftOf, AtVersion, MadeUpTo
<1>8. CASE Migrate(p)
  <2>1. /\ UNCHANGED <<store, wal, lock, current>> /\ pc'[p] = "stamp" /\ lock = p /\ wal
        /\ pc' \in [Procs -> Labels] /\ pc[p] = "migrate" /\ current[p] < Release[p]
    BY <1>1, <1>2, <1>8 DEF Migrate, Pending, Goto, file, CommandInv, Labels, Opening
  <2>2. /\ draft[p].rows = 1 /\ current[p] = draft[p].version /\ MadeUpTo(draft[p], current[p])
        /\ draft[p].version >= store.version
    BY <1>1, <2>1 DEF DraftOf
  <2>3. /\ draft'[p] \in Schemas
        /\ draft'[p].rows = 1 /\ draft'[p].version = draft[p].version
        /\ MadeUpTo(draft'[p], current[p] + 1)
        /\ draft' = [draft EXCEPT ![p] = draft'[p]]
    BY <1>1, <1>8, <2>2, Migrated
  <2>4. TypeOK'
    BY <1>2, <2>1, <2>3 DEF TypeOK
  <2> QED
    BY <1>3, <2>1, <2>2, <2>3, <2>4 DEF CommandInv, DraftOf, MadeUpTo
<1>9. CASE Stamp(p)
  <2> DEFINE stamped == [draft[p] EXCEPT !.version = current[p] + 1]
  <2>1. /\ UNCHANGED <<store, wal, lock>> /\ pc'[p] = "migrate" /\ lock = p /\ wal
        /\ pc' \in [Procs -> Labels] /\ pc[p] = "stamp"
        /\ draft' = [draft EXCEPT ![p] = stamped]
        /\ current' = [current EXCEPT ![p] = @ + 1]
    BY <1>1, <1>2, <1>9 DEF Stamp, Goto, file, CommandInv, Labels, Opening
  <2>2. /\ draft[p].rows = 1 /\ current[p] = draft[p].version /\ MadeUpTo(draft[p], current[p] + 1)
        /\ draft[p].version >= store.version
    BY <1>1, <2>1 DEF DraftOf
  <2>3. /\ stamped \in Schemas /\ stamped.rows = draft[p].rows /\ stamped.version = current[p] + 1
        /\ stamped.made = draft[p].made
    BY <1>2 DEF Schemas
  <2> HIDE DEF stamped
  <2>4. TypeOK' /\ draft'[p] = stamped /\ current'[p] = current[p] + 1
    BY <1>2, <2>1, <2>3 DEF TypeOK
  <2>5. store.version \in Nat
    BY <1>2 DEF Schemas
  <2> QED
    BY <1>2, <1>3, <2>1, <2>2, <2>3, <2>4, <2>5 DEF CommandInv, DraftOf, MadeUpTo
<1>10. CASE Commit(p)
  <2>1. TypeOK'
    BY <1>2, <1>10, CommitStore DEF TypeOK, Commit, Goto, Labels, Ended
  <2>2. wal' /\ pc'[p] = "opened" /\ store'.version >= Release[p]
    BY <1>1, <1>10, CommitStore DEF Commit, CommandInv
  <2> QED
    BY <1>3, <2>1, <2>2 DEF CommandInv, DraftOf
<1> QED
  BY <1>4, <1>5, <1>6, <1>7, <1>8, <1>9, <1>10 DEF Act, Step

(***************************************************************************)
(* The inductive invariant, of a specification that also says which steps  *)
(* are fair.                                                               *)
(***************************************************************************)
THEOREM Invariance == Spec => []IndInv
<1>1. IndInv /\ [Next]_vars => IndInv'
  <2> SUFFICES ASSUME IndInv, [Next]_vars
               PROVE  IndInv'
    OBVIOUS
  <2>1. CASE OtherLocks \/ OtherUnlocks
    <3>1. UNCHANGED <<pc, current, draft, wal, store>>
      BY <2>1 DEF OtherLocks, OtherUnlocks, file
    <3>2. \A p \in Procs : lock = p => lock' = p
      BY <2>1, NamesAssumption DEF OtherLocks, OtherUnlocks
    <3> QED
      BY <3>1, <3>2 DEF IndInv, TypeOK, SchemaAtVersion, CommandInv, DraftOf, AtVersion, MadeUpTo
  <2>2. CASE UNCHANGED vars
    BY <2>2 DEF vars, IndInv, TypeOK, SchemaAtVersion, CommandInv, DraftOf, AtVersion, MadeUpTo
  <2> QED
    BY <2>1, <2>2, ActInv DEF Next, Act
<1> QED
  BY <1>1, InitInv, PTL DEF Spec

(***************************************************************************)
(* What is committed is one release's schema: one version row, and the     *)
(* migrations up to it, each once.                                         *)
(***************************************************************************)
THEOREM SchemaHolds == Spec => []SchemaAtVersion
<1>1. IndInv => SchemaAtVersion
  BY DEF IndInv
<1> QED
  BY <1>1, Invariance, PTL

(* A command that opened the index has its release's schema, then and later. *)
THEOREM OpenedStayUsable == Spec => []OpenedUsable
<1>1. IndInv => OpenedUsable
  BY DEF IndInv, CommandInv, OpenedUsable, Switched
<1> QED
  BY <1>1, Invariance, PTL

=============================================================================
