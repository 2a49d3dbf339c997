--------------------------- MODULE ContextsProofs ----------------------------
(***************************************************************************)
(* Where writes go, for every tree of directories.                         *)
(*                                                                         *)
(* A directory is below finitely many others, each above the next: so a    *)
(* walk upwards that has something to find finds the nearest of it, and    *)
(* what it finds depends on what is at or above its start and on nothing   *)
(* else.  What a step leaves alone there it leaves alone in the answer.    *)
(* The invariant is that a linked worktree's repository stays one.         *)
(***************************************************************************)
EXTENDS Contexts, TLAPS, FiniteSetTheorems, WellFoundedInduction

Types ==
  /\ git \in [Dirs -> Dirs \cup {None}]
  /\ index \subseteq Dirs
  /\ declared \in [Dirs -> Ids \cup {None}]

(* The repository of a worktree, and that of a repository, is a repository of its own. *)
MainStays == \A d \in Dirs : git[d] # None => git[git[d]] = git[d]

IndInv == Types /\ MainStays

-----------------------------------------------------------------------------
(* Walking upwards. *)

(* Of some directories at or above one, the nearest is below all of them. *)
LEMMA Nearest ==
  ASSUME NEW d \in Dirs, NEW S \in SUBSET AtOrAbove[d], S # {}
  PROVE  \E e \in S : S \subseteq AtOrAbove[e]
<1> DEFINE A == AtOrAbove[d]
           Between(e) == A \ AtOrAbove[e]
           T == {Between(e) : e \in S}
<1>1. A \in SUBSET Dirs /\ IsFiniteSet(A)
  BY TreeAssumption
<1>2. IsWellFoundedOn(StrictSubsetOrdering(A), FiniteSubsetsOf(A))
  BY FS_StrictSubsetOrderingWellFounded
<1>3. T \subseteq FiniteSubsetsOf(A) /\ T # {}
  <2>1. \A e \in S : Between(e) \in SUBSET A /\ IsFiniteSet(Between(e))
    BY <1>1, FS_Subset
  <2> QED
    BY <2>1 DEF FiniteSubsetsOf
<1> HIDE DEF T
<1>4. PICK x \in T : \A y \in T : ~ (<<y, x>> \in StrictSubsetOrdering(A))
  BY <1>2, <1>3, WFMin
<1>5. PICK e \in S : x = Between(e)
  BY <1>4 DEF T
<1>6. ASSUME NEW f \in S, f \notin AtOrAbove[e]
      PROVE  FALSE
  <2>1. e \in AtOrAbove[f]
    BY <1>6, TreeAssumption
  <2>2. AtOrAbove[e] \subseteq AtOrAbove[f]
    BY <2>1, <1>1, TreeAssumption
  <2>3. f \in AtOrAbove[f]
    BY <1>1, TreeAssumption
  <2>4. Between(f) \subseteq Between(e) /\ Between(f) # Between(e)
    BY <2>2, <2>3, <1>6
  <2>5. Between(f) \in SUBSET A /\ Between(e) \in SUBSET A
    OBVIOUS
  <2>6. <<Between(f), Between(e)>> \in StrictSubsetOrdering(A)
    BY <2>4, <2>5 DEF StrictSubsetOrdering
  <2>7. Between(f) \in T
    BY DEF T
  <2> QED
    BY <2>6, <2>7, <1>4, <1>5
<1> QED
  BY <1>6

(* What a walk finds is the nearest, and it finds nothing only if there is nothing. *)
LEMMA Found ==
  ASSUME NEW start \in Dirs, NEW marked
  PROVE  LET found == AtOrAbove[start] \cap marked
             d == FindUpward(start, marked)
         IN  IF found = {} THEN d = None
             ELSE d \in found /\ found \subseteq AtOrAbove[d] /\ d \in Dirs /\ d # None
<1> DEFINE found == AtOrAbove[start] \cap marked
<1>1. CASE found = {}
  BY <1>1 DEF FindUpward
<1>2. CASE found # {}
  <2>1. \E e \in found : found \subseteq AtOrAbove[e]
    <3>1. found \in SUBSET AtOrAbove[start]
      OBVIOUS
    <3> HIDE DEF found
    <3> QED
      BY <1>2, <3>1, Nearest
  <2>2. FindUpward(start, marked) = CHOOSE e \in found : found \subseteq AtOrAbove[e]
    BY <1>2 DEF FindUpward
  <2>3. found \subseteq Dirs
    BY TreeAssumption
  <2> QED
    BY <1>2, <2>1, <2>2, <2>3, NoneAssumption
<1> QED
  BY <1>1, <1>2

(* A walk that starts at something to find ends there. *)
LEMMA FoundAtStart ==
  ASSUME NEW start \in Dirs, NEW marked, start \in marked
  PROVE  FindUpward(start, marked) = start
<1>1. start \in AtOrAbove[start]
  BY TreeAssumption
<1>2. PICK d \in Dirs : /\ d = FindUpward(start, marked)
                        /\ d \in AtOrAbove[start] /\ start \in AtOrAbove[d]
  BY <1>1, Found
<1> QED
  BY <1>1, <1>2, TreeAssumption

(* Two walks from one place differ only where what they look for does. *)
LEMMA SameWalk ==
  ASSUME NEW start, NEW m, NEW n, AtOrAbove[start] \cap m = AtOrAbove[start] \cap n
  PROVE  FindUpward(start, m) = FindUpward(start, n)
<1> DEFINE NearestOf(S) == IF S = {} THEN None ELSE CHOOSE d \in S : S \subseteq AtOrAbove[d]
<1>1. /\ FindUpward(start, m) = NearestOf(AtOrAbove[start] \cap m)
      /\ FindUpward(start, n) = NearestOf(AtOrAbove[start] \cap n)
  BY DEF FindUpward
<1> HIDE DEF NearestOf
<1> QED
  BY <1>1

-----------------------------------------------------------------------------
(* The invariant. *)

(* The home of a directory is a repository or has an index. *)
LEMMA HomeType ==
  ASSUME IndInv, NEW cwd \in Dirs, Home(cwd) # None
  PROVE  Home(cwd) \in Dirs /\ Home(cwd) \in Marked
<1> DEFINE worktree == FindUpward(cwd, Linked)
<1>1. CASE worktree # None
  <2>1. worktree \in Linked /\ Home(cwd) = git[worktree]
    BY <1>1, Found DEF Home
  <2>2. Home(cwd) \in Dirs /\ git[Home(cwd)] = Home(cwd)
    BY <2>1, NoneAssumption DEF IndInv, Types, MainStays, Linked
  <2> QED
    BY <2>2, NoneAssumption DEF Marked, Repositories
<1>2. CASE worktree = None
  <2>1. Home(cwd) = FindUpward(cwd, Marked)
    BY <1>2 DEF Home
  <2> QED
    BY <2>1, Found
<1> QED
  BY <1>1, <1>2

(* A write creates at most one index, of its home or the one it names. *)
LEMMA WriteIndex ==
  ASSUME IndInv, NEW cwd \in Dirs, NEW db \in ExplicitDbs \cup {None},
         NEW artifacts \in Dirs \cup {None}, Write(cwd, db, artifacts)
  PROVE  /\ \E d \in Dirs : index' = index \/ index' = index \cup {d}
         /\ git' = git /\ declared' = declared
<1>1. CASE db = None
  <2>1. Context(cwd, db, artifacts).file = [dir |-> Home(cwd), standard |-> TRUE]
    BY <1>1 DEF Context, Root
  <2>2. Home(cwd) # None
    BY <1>1 DEF Write, Resolves, Root
  <2>3. index' = index \cup {Home(cwd)}
    BY <2>1 DEF Write
  <2> QED
    BY <2>2, <2>3, HomeType DEF Write
<1>2. CASE db # None
  <2>1. Context(cwd, db, artifacts).file = db /\ db.dir \in Dirs
    BY <1>2 DEF Context, ExplicitDbs
  <2>2. index' = index \/ index' = index \cup {db.dir}
    BY <2>1 DEF Write
  <2> QED
    BY <1>2, <2>1, <2>2 DEF Write
<1> QED
  BY <1>1, <1>2

(* An empty tree has no worktrees. *)
LEMMA InitInv == Init => IndInv
BY NoneAssumption DEF Init, IndInv, Types, MainStays

(* A hook's write is one that names the index of the checkout it runs in. *)
LEMMA HookWrites ==
  ASSUME NEW cwd \in Dirs, PostCommit(cwd)
  PROVE  \E db \in ExplicitDbs, artifacts \in Dirs : Write(cwd, db, artifacts)
<1> DEFINE toplevel == FindUpward(cwd, Repositories)
<1>1. toplevel \in Dirs
  BY Found DEF PostCommit
<1>2. [dir |-> toplevel, standard |-> TRUE] \in ExplicitDbs
  BY <1>1 DEF ExplicitDbs
<1> QED
  BY <1>2, PoolAssumption DEF PostCommit

(* Only git init and git worktree add change what a directory is, where it was nothing. *)
LEMMA StepInv == IndInv /\ [Next]_vars => IndInv'
<1> SUFFICES ASSUME IndInv, [Next]_vars
             PROVE  IndInv'
  OBVIOUS
<1>1. ASSUME NEW cwd \in Dirs, NEW db \in ExplicitDbs \cup {None},
             NEW artifacts \in Dirs \cup {None}, Write(cwd, db, artifacts)
      PROVE  IndInv'
  <2>1. PICK d \in Dirs : index' = index \/ index' = index \cup {d}
    BY <1>1, WriteIndex
  <2>2. git' = git /\ declared' = declared
    BY <1>1, WriteIndex
  <2> QED
    BY <2>1, <2>2 DEF IndInv, Types, MainStays
<1>2. ASSUME NEW cwd \in Dirs, PostCommit(cwd)
      PROVE  IndInv'
  BY <1>1, <1>2, HookWrites
<1> USE DEF IndInv, Types, MainStays
<1>3. ASSUME NEW d \in Dirs, GitInit(d)
      PROVE  IndInv'
  <2>1. Types'
    BY <1>3 DEF GitInit
  <2>2. MainStays'
    BY <1>3, NoneAssumption DEF GitInit
  <2> QED
    BY <2>1, <2>2
<1>4. ASSUME NEW d \in Dirs, NEW main \in Dirs, AddWorktree(d, main)
      PROVE  IndInv'
  <2>1. git[d] = None
    BY <1>4, TreeAssumption DEF AddWorktree, Marked, Repositories
  <2>2. Types'
    BY <1>4 DEF AddWorktree
  <2>3. git' = [git EXCEPT ![d] = main] /\ git[main] = main
    BY <1>4 DEF AddWorktree
  <2>4. MainStays'
    BY <2>1, <2>3, NoneAssumption
  <2> QED
    BY <2>2, <2>4
<1>5. ASSUME NEW d \in Dirs, NEW id \in Ids, Declare(d, id)
      PROVE  IndInv'
  BY <1>5 DEF Declare
<1>6. CASE UNCHANGED vars
  BY <1>6 DEF vars
<1> QED
  BY <1>1, <1>2, <1>3, <1>4, <1>5, <1>6 DEF Next

(* The inductive invariant, of every reachable state. *)
THEOREM Invariance == Spec => []IndInv
BY InitInv, StepInv, PTL DEF Spec

-----------------------------------------------------------------------------
(* Homes stay. *)

(* Where nothing at or above a directory is newly marked, nothing there changes. *)
LEMMA NothingNew ==
  ASSUME IndInv, [Next]_vars, NEW d \in Dirs,
         \A e \in AtOrAbove[d] : e \notin Marked' \ Marked
  PROVE  /\ AtOrAbove[d] \cap Marked' = AtOrAbove[d] \cap Marked
         /\ AtOrAbove[d] \cap Linked' = AtOrAbove[d] \cap Linked
         /\ \A e \in AtOrAbove[d] \cap Linked : git'[e] = git[e]
<1> DEFINE A == AtOrAbove[d]
<1>1. A \subseteq Dirs
  BY TreeAssumption
<1>2. ASSUME NEW cwd \in Dirs, NEW db \in ExplicitDbs \cup {None},
             NEW artifacts \in Dirs \cup {None}, Write(cwd, db, artifacts)
      PROVE  index \subseteq index' /\ git' = git
  <2>1. PICK x \in Dirs : index' = index \/ index' = index \cup {x}
    BY <1>2, WriteIndex
  <2>2. git' = git
    BY <1>2, WriteIndex
  <2> QED
    BY <2>1, <2>2
<1>3. ASSUME NEW cwd \in Dirs, PostCommit(cwd)
      PROVE  index \subseteq index' /\ git' = git
  BY <1>2, <1>3, HookWrites
<1> USE DEF Linked, Marked, Repositories
<1>4. CASE index \subseteq index' /\ git' = git
  BY <1>1, <1>4
<1>5. ASSUME NEW x \in Dirs, GitInit(x)
      PROVE  /\ index' = index
             /\ git[x] = None
             /\ git' = [git EXCEPT ![x] = x]
  BY <1>5 DEF GitInit
<1>6. ASSUME NEW x \in Dirs, git[x] = None, index' = index, git' = [git EXCEPT ![x] = x]
      PROVE  /\ A \cap Marked' = A \cap Marked
             /\ A \cap Linked' = A \cap Linked
             /\ \A e \in A \cap Linked : git'[e] = git[e]
  <2>1. git' \in [Dirs -> Dirs \cup {None}] /\ \A e \in Dirs : git'[e] = IF e = x THEN x ELSE git[e]
    BY <1>6 DEF IndInv, Types
  <2>2. Marked \subseteq Marked' /\ Linked' = Linked
    BY <1>6, <2>1, NoneAssumption
  <2> QED
    BY <1>6, <2>1, <2>2, NoneAssumption
<1>7. ASSUME NEW x \in Dirs, NEW main \in Dirs, AddWorktree(x, main)
      PROVE  /\ A \cap Marked' = A \cap Marked
             /\ A \cap Linked' = A \cap Linked
             /\ \A e \in A \cap Linked : git'[e] = git[e]
  <2>1. x \notin Marked /\ git[main] = main /\ index' = index /\ git' = [git EXCEPT ![x] = main]
    BY <1>7, TreeAssumption DEF AddWorktree
  <2>2. \A e \in Dirs : git'[e] = IF e = x THEN main ELSE git[e]
    BY <2>1 DEF IndInv, Types
  <2>3. x \in Marked'
    BY <2>1, <2>2, NoneAssumption
  <2>4. x \notin A
    BY <2>1, <2>3
  <2> QED
    BY <1>1, <2>1, <2>2, <2>4
<1>8. ASSUME NEW x \in Dirs, NEW id \in Ids, Declare(x, id)
      PROVE  index \subseteq index' /\ git' = git
  BY <1>8 DEF Declare
<1>9. CASE UNCHANGED vars
  BY <1>4, <1>9 DEF vars
<1> QED
  BY <1>2, <1>3, <1>4, <1>5, <1>6, <1>7, <1>8, <1>9 DEF Next

(***************************************************************************)
(* In every tree, a directory's writes move only when something at or      *)
(* above it, that was nothing, becomes a repository, a worktree or the     *)
(* place of an index that AUDITCTL_DB names.                               *)
(***************************************************************************)
THEOREM HomesStayPut == Spec => HomesStay
<1>1. ASSUME IndInv, [Next]_vars, NEW d \in Dirs,
             \A e \in AtOrAbove[d] : e \notin Marked' \ Marked
      PROVE  Home(d)' = Home(d)
  <2>1. FindUpward(d, Linked') = FindUpward(d, Linked)
    BY <1>1, NothingNew, SameWalk
  <2>2. FindUpward(d, Marked') = FindUpward(d, Marked)
    BY <1>1, NothingNew, SameWalk
  <2>3. FindUpward(d, Linked) # None => git'[FindUpward(d, Linked)] = git[FindUpward(d, Linked)]
    BY <1>1, NothingNew, Found
  <2> QED
    BY <2>1, <2>2, <2>3 DEF Home
<1>2. IndInv /\ [Next]_vars =>
        [\A d \in Dirs :
           Home(d)' = Home(d) \/ \E e \in AtOrAbove[d] : e \in Marked' \ Marked]_vars
  BY <1>1
<1> QED
  BY <1>2, Invariance, PTL DEF Spec, HomesStay

-----------------------------------------------------------------------------
(* Evidence stays together. *)

(***************************************************************************)
(* In every tree, an accepted call's shards are at or above the directory  *)
(* of its index, and a linked worktree shares the home of its repository,  *)
(* unless that one lies in a worktree itself.                              *)
(***************************************************************************)
THEOREM EvidenceStaysTogether == Spec => []EvidenceTogether
<1>1. ASSUME IndInv, NEW cwd \in Dirs, NEW db \in ExplicitDbs \cup {None},
             NEW artifacts \in Dirs \cup {None}, Resolves(cwd, db, artifacts)
      PROVE  LET c == Context(cwd, db, artifacts) IN c.root \in AtOrAbove[c.file.dir]
  <2> DEFINE root == Root(cwd, db)
             file == Context(cwd, db, artifacts).file
  <2>1. file.dir \in Dirs /\ root \in AtOrAbove[file.dir]
    <3>1. CASE db = None
      <4>1. root = Home(cwd) /\ file.dir = Home(cwd) /\ Home(cwd) # None
        BY <1>1, <3>1 DEF Root, Context, Resolves
      <4> QED
        BY <1>1, <4>1, HomeType, TreeAssumption
    <3>2. CASE db # None
      <4>1. file = db /\ db.dir \in Dirs /\ root = HomeOfDb(db) /\ root # None
        BY <1>1, <3>2 DEF Root, Context, Resolves, ExplicitDbs
      <4>2. root = db.dir \/ root = FindUpward(db.dir, Marked)
        BY <4>1 DEF HomeOfDb
      <4> QED
        BY <4>1, <4>2, Found, TreeAssumption
    <3> QED
      BY <3>1, <3>2
  <2>2. CASE artifacts = None
    BY <2>1, <2>2 DEF Context
  <2>3. CASE artifacts # None
    <3>1. artifacts \in AtOrAbove[root] /\ Context(cwd, db, artifacts).root = artifacts
      BY <1>1, <2>3 DEF Resolves, Agrees, Context
    <3> QED
      BY <2>1, <3>1, TreeAssumption
  <2> QED
    BY <2>2, <2>3
<1>2. ASSUME IndInv, NEW d \in Linked, AtOrAbove[git[d]] \cap Linked = {}
      PROVE  Home(d) = Home(git[d])
  <2>1. d \in Dirs /\ git[d] \in Dirs /\ git[git[d]] = git[d]
    BY <1>2 DEF IndInv, Types, MainStays, Linked
  <2>2. Home(d) = git[d]
    BY <2>1, FoundAtStart, NoneAssumption DEF Home
  <2>3. FindUpward(git[d], Linked) = None
    BY <1>2, <2>1, Found
  <2>4. FindUpward(git[d], Marked) = git[d]
    <3>1. git[d] \in Marked
      BY <2>1, NoneAssumption DEF Marked, Repositories
    <3> QED
      BY <2>1, <3>1, FoundAtStart
  <2> QED
    BY <2>2, <2>3, <2>4 DEF Home
<1>3. IndInv => EvidenceTogether
  BY <1>1, <1>2 DEF EvidenceTogether
<1> QED
  BY <1>3, Invariance, PTL

=============================================================================
