------------------------------ MODULE Contexts ------------------------------
(***************************************************************************)
(* Where a write goes: the index, the artifacts root and the repository id *)
(* that auditctl resolves from the directory it is started in, from what   *)
(* stands in the directories above it, and from AUDITCTL_DB and            *)
(* AUDITCTL_ARTIFACTS_ROOT.                                                *)
(*                                                                         *)
(* The answer is a function of the tree, but writes and git change the     *)
(* tree: the first write to a repository leaves an index in it, which is a *)
(* marker for later resolutions.  A write that is refused changes nothing  *)
(* and is no step.                                                         *)
(***************************************************************************)
EXTENDS FiniteSets

CONSTANTS
  Dirs,       \* directories
  AtOrAbove,  \* directory -> itself and the directories above it
  Name,       \* directory -> its basename
  Ids,        \* ids a repository may declare
  Pool,       \* the artifacts root that the git hooks export
  None

ASSUME TreeAssumption ==
  /\ AtOrAbove \in [Dirs -> SUBSET Dirs]
  /\ \A d \in Dirs : d \in AtOrAbove[d] /\ IsFiniteSet(AtOrAbove[d])
  /\ \A d \in Dirs : \A e \in AtOrAbove[d] : AtOrAbove[e] \subseteq AtOrAbove[d]
  /\ \A d \in Dirs : \A e, f \in AtOrAbove[d] :
       /\ e \in AtOrAbove[f] \/ f \in AtOrAbove[e]
       /\ e \in AtOrAbove[f] /\ f \in AtOrAbove[e] => e = f
ASSUME NoneAssumption == None \notin Dirs \cup Ids
ASSUME PoolAssumption == Pool \in Dirs

VARIABLES
  git,       \* directory -> None, itself if it has its own repository, or the
             \* main repository of the linked worktree it is
  index,     \* the directories that have .auditctl/auditctl.db
  declared   \* directory -> the id in its .auditctl-id

vars == <<git, index, declared>>

Linked == {d \in Dirs : git[d] \notin {None, d}}
Repositories == {d \in Dirs : git[d] # None}
Marked == index \cup Repositories

Init ==
  /\ git = [d \in Dirs |-> None]
  /\ index = {}
  /\ declared = [d \in Dirs |-> None]

-----------------------------------------------------------------------------
(* Resolution. *)

(* The nearest of the directories in marked. *)
FindUpward(start, marked) ==
  LET found == AtOrAbove[start] \cap marked IN
  IF found = {} THEN None ELSE CHOOSE d \in found : found \subseteq AtOrAbove[d]

(* Mutant: an index, however far, before a repository, however near. *)
HomeByIndex(cwd) ==
  LET worktree == FindUpward(cwd, Linked)
      indexed == FindUpward(cwd, index)
  IN IF worktree # None THEN git[worktree]
     ELSE IF indexed # None THEN indexed
     ELSE FindUpward(cwd, Repositories)

(* Mutant: a linked worktree is a repository like any other. *)
HomeByMarker(cwd) == FindUpward(cwd, Marked)

(***************************************************************************)
(* The repository of a directory when AUDITCTL_DB is not set: the main     *)
(* repository of the nearest linked worktree at or above it or, if there   *)
(* is none, the nearest directory with an index or a repository.           *)
(***************************************************************************)
Home(cwd) ==
  LET worktree == FindUpward(cwd, Linked) IN
  IF worktree # None THEN git[worktree] ELSE FindUpward(cwd, Marked)

(* AUDITCTL_DB: the index of a directory, or another file in it. *)
ExplicitDbs == [dir : Dirs, standard : BOOLEAN]

HomeOfDb(db) == IF db.standard THEN db.dir ELSE FindUpward(db.dir, Marked)

RepoId(root) == IF declared[root] # None THEN declared[root] ELSE Name[root]

(* Mutant: the artifacts root is taken as it is given. *)
AgreesAlways(artifacts, root) == TRUE

(* AUDITCTL_ARTIFACTS_ROOT may be the repository or stand above it. *)
Agrees(artifacts, root) == artifacts \in AtOrAbove[root]

(* The repository of a call, with db as AUDITCTL_DB gives it or None. *)
Root(cwd, db) == IF db = None THEN Home(cwd) ELSE HomeOfDb(db)

(* The call is not refused. *)
Resolves(cwd, db, artifacts) ==
  /\ Root(cwd, db) # None
  /\ artifacts # None => Agrees(artifacts, Root(cwd, db))

(* The index, and the directory of the shards: an artifacts root and an id below it. *)
Context(cwd, db, artifacts) ==
  LET root == Root(cwd, db) IN
  [file |-> IF db = None THEN [dir |-> root, standard |-> TRUE] ELSE db,
   root |-> IF artifacts = None THEN root ELSE artifacts,
   id |-> RepoId(root)]

(* A write creates the index if it is not there. *)
Write(cwd, db, artifacts) ==
  LET file == Context(cwd, db, artifacts).file IN
  /\ Resolves(cwd, db, artifacts)
  /\ index' = IF file.standard THEN index \cup {file.dir} ELSE index
  /\ UNCHANGED <<git, declared>>

-----------------------------------------------------------------------------
(* What else happens in the tree. *)

(* The hooks name the index of the worktree they run in, and the pool. *)
PostCommit(cwd) ==
  LET toplevel == FindUpward(cwd, Repositories) IN
  /\ toplevel # None
  /\ Write(cwd, [dir |-> toplevel, standard |-> TRUE], Pool)

(* A repository of its own: git init, git clone or a submodule. *)
GitInit(d) ==
  /\ git[d] = None
  /\ git' = [git EXCEPT ![d] = d]
  /\ UNCHANGED <<index, declared>>

(* git worktree add, in a directory that is empty; tracked files are checked out. *)
AddWorktree(d, main) ==
  /\ git[main] = main
  /\ \A e \in Dirs : d \in AtOrAbove[e] => e \notin Marked /\ declared[e] = None
  /\ git' = [git EXCEPT ![d] = main]
  /\ declared' = [declared EXCEPT ![d] = declared[main]]
  /\ UNCHANGED index

Declare(d, id) ==
  /\ git[d] # None
  /\ declared[d] # id
  /\ declared' = [declared EXCEPT ![d] = id]
  /\ UNCHANGED <<git, index>>

-----------------------------------------------------------------------------

Next ==
  \/ \E cwd \in Dirs :
       \/ \E db \in ExplicitDbs \cup {None}, artifacts \in Dirs \cup {None} :
            Write(cwd, db, artifacts)
       \/ PostCommit(cwd)
  \/ \E d \in Dirs :
       \/ GitInit(d)
       \/ \E main \in Dirs : AddWorktree(d, main)
       \/ \E id \in Ids : Declare(d, id)

Spec == Init /\ [][Next]_vars

-----------------------------------------------------------------------------
(* Properties. *)

(***************************************************************************)
(* What a directory's writes are attributed to changes only when something *)
(* at or above it that was nothing becomes a repository, a worktree or,    *)
(* by AUDITCTL_DB, the place of an index.  No write by default, wherever   *)
(* it is made, moves the writes of another directory - a repository's      *)
(* first one, which leaves the index, included.                            *)
(***************************************************************************)
HomesStay ==
  [][\A d \in Dirs :
       Home(d)' = Home(d) \/ \E e \in AtOrAbove[d] : e \in Marked' \ Marked]_vars

(***************************************************************************)
(* Evidence stays together.  Whatever call is accepted, its shards are in  *)
(* a tree that holds its index, also when AUDITCTL_DB names a file that is *)
(* no standard index.  And the checkouts of one repository are attributed  *)
(* to one place, whatever indexes stand above or in them; except for a     *)
(* repository that itself lies in a linked worktree of another.            *)
(***************************************************************************)
EvidenceTogether ==
  /\ \A cwd \in Dirs, db \in ExplicitDbs \cup {None}, artifacts \in Dirs \cup {None} :
       Resolves(cwd, db, artifacts) =>
         LET c == Context(cwd, db, artifacts) IN c.root \in AtOrAbove[c.file.dir]
  /\ \A d \in Dirs :
       d \in Linked /\ AtOrAbove[git[d]] \cap Linked = {} => Home(d) = Home(git[d])

(***************************************************************************)
(* paths.py:269: "Pooling is safe because `repo_id` namespaces the shard   *)
(* directory beneath the shared root, so the pairing stays unambiguous":   *)
(* calls with one artifacts root and one id have one index.                *)
(***************************************************************************)
PoolsApart ==
  \A artifacts \in Dirs, x, y \in Dirs :
    /\ Resolves(x, None, artifacts) /\ Resolves(y, None, artifacts)
    /\ RepoId(Home(x)) = RepoId(Home(y))
    => Context(x, None, artifacts).file = Context(y, None, artifacts).file

=============================================================================
