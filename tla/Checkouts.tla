------------------------------ MODULE Checkouts ------------------------------
(***************************************************************************)
(* The person's repositories and the work items' checkouts of them:         *)
(* internal/repos/repos.go over the tables of internal/kernel/repos.go.      *)
(* What lies on disk moves under hidane's feet; the tables say what it was   *)
(* told.  Attach, Archive and repair hold Service.mu; registering,           *)
(* forgetting, checks, setup scripts and the person do not.                  *)
(***************************************************************************)
EXTENDS Integers, FiniteSets, SequencesExt

CONSTANTS
  Repo,       \* ids of repos rows
  Place,      \* directories of the person
  Clone,      \* git repositories, wherever they lie
  RemoteOf,   \* RemoteOf[c]: the remote of c, or None
  Item,       \* work items
  Caller,     \* handlers and turns, one call at a time each
  None,
  MaxDirs,    \* bound: directories an item can have of one repository
  MaxCalls, MaxMoves, MaxFaults, MaxCrashes  \* bounds

\* A worktree's directory: the n-th in the item's workspace named after the repository.
Dir == Item \X Repo \X (1..MaxDirs)

Worktree == [clone : Clone, home : Place, unsaved : {"no", "yes", "late"}]

ASSUME CheckoutsAssumption ==
  /\ {MaxDirs, MaxCalls, MaxMoves, MaxFaults, MaxCrashes} \subseteq Nat
  /\ None \notin Repo \cup Place \cup Clone \cup Dir \cup Item \cup Caller \cup Worktree
  /\ Place \cap Dir = {}

VARIABLES
  disk,       \* disk[p]: the clone at p, or None
  tree,       \* tree[d]: the worktree in d, or None: clone, home (where its link leads), unsaved
  git,        \* git[c]: branches (items that have hidane/<item>), trees (directories it lists)
  repos,      \* repos[r]: its row, or None
  checkouts,  \* the rows, oldest first
  lock,       \* who holds Service.mu
  call,       \* call[c]: what caller c is at
  work,       \* work[i]: the setup a worker of item i is at
  stray,      \* directories of attaches cut short by a crash, or whose repository went away under them
  used        \* calls, moves, faults and crashes so far

vars == <<disk, tree, git, repos, checkouts, lock, call, work, stray, used>>
onDisk == <<disk, tree, git>>
tables == <<repos, checkouts>>

Idle == [at |-> "idle", co |-> 0]
\* A call: its operation, what it was asked and what it has found out.
NoCall == [at |-> "idle", op |-> "none", repo |-> None, item |-> None, inPlace |-> FALSE, path |-> None,
           remote |-> None, seen |-> FALSE, dir |-> None, co |-> 0, force |-> FALSE, kept |-> FALSE, todo |-> {}]
Spend(what) == used' = [used EXCEPT ![what] = @ + 1]
At(c, at) == call[c].at = at
Goes(c, to) == call' = [call EXCEPT ![c] = to]
Returns(c) == Goes(c, NoCall)
Begins(c, to) == At(c, "idle") /\ used.calls < MaxCalls /\ Spend("calls") /\ Goes(c, to)
With(c, at) == [call[c] EXCEPT !.at = at]

Present(p) == IF p \in Place THEN disk[p] # None ELSE tree[p] # None
Active(k) == k \in DOMAIN checkouts /\ checkouts[k].status = "active"
ActiveOf(r) == {k \in DOMAIN checkouts : Active(k) /\ checkouts[k].repo = r}
Lease(r) == {k \in ActiveOf(r) : checkouts[k].mode = "in_place"}
Row(c) == repos[call[c].repo]

-----------------------------------------------------------------------------
(* git *)

\* The worktree's link leads to the repository it belongs to.
Linked(d) == disk[tree[d].home] = tree[d].clone
Pruned(g) == [g EXCEPT !.trees = {d \in @ : tree[d] # None}]
Prune(p) == IF disk[p] = None THEN git ELSE [git EXCEPT ![disk[p]] = Pruned(@)]
\* git refuses a branch that another worktree has checked out.
CanAdd(p, i) == disk[p] # None /\ \A d \in Pruned(git[disk[p]]).trees : d[1] # i
Add(p, d) ==
  /\ tree' = [tree EXCEPT ![d] = [clone |-> disk[p], home |-> p, unsaved |-> "no"]]
  /\ git' = [git EXCEPT ![disk[p]] = [branches |-> @.branches \cup {d[1]}, trees |-> Pruned(@).trees \cup {d}]]
CanRemove(p, d) == disk[p] # None /\ tree[d] # None /\ disk[p] = tree[d].clone /\ d \in git[disk[p]].trees
Unlisted(g, d) == [g EXCEPT !.trees = {e \in @ : e # d /\ tree[e] # None}]

-----------------------------------------------------------------------------
(* Attach *)

\* Resolve: which repository is meant, and is it there?  Check does the same for itself.
Asks(c, want) ==
  /\ repos[want.repo] # None
  /\ Begins(c, [want EXCEPT !.at = "status", !.path = repos[want.repo].path,
                            !.seen = Present(repos[want.repo].path)])
  /\ UNCHANGED <<onDisk, tables, lock, work, stray>>

SetRepoStatus(r, seen) == repos' = [repos EXCEPT ![r].status = IF seen THEN "present" ELSE "missing"]

\* A request goes on if the repository is there, and not lent if its directory is wanted.
Settles(c) ==
  /\ At(c, "status")
  /\ IF Row(c) = None THEN Returns(c) /\ UNCHANGED repos
     ELSE /\ SetRepoStatus(call[c].repo, call[c].seen)
          /\ IF call[c].op = "attach" /\ call[c].seen /\ ~(call[c].inPlace /\ Lease(call[c].repo) # {})
             THEN Goes(c, With(c, "attach")) ELSE Returns(c)
  /\ UNCHANGED <<onDisk, checkouts, lock, work, stray, used>>

Wanted(r, i, inPlace) == [NoCall EXCEPT !.op = "attach", !.repo = r, !.item = i, !.inPlace = inPlace]

\* Inherit: a part is given what its parent has, as worktrees.
Inherits(c, k, i) ==
  /\ Active(k) /\ checkouts[k].item # i /\ repos[checkouts[k].repo] # None
  /\ Begins(c, [Wanted(checkouts[k].repo, i, FALSE) EXCEPT
                  !.at = "attach", !.path = repos[checkouts[k].repo].path])
  /\ UNCHANGED <<onDisk, tables, lock, work, stray>>

FreeDir(i, r) == {d \in Dir : d[1] = i /\ d[2] = r /\ tree[d] = None
                              /\ \A n \in 1..(d[3] - 1) : tree[<<i, r, n>>] # None}
Held(c) == \E k \in ActiveOf(call[c].repo) : checkouts[k].item = call[c].item

Recording(c, d) == [With(c, "record") EXCEPT !.dir = d]
\* Mutant: without taking the lock.
AttachBeginUnlocked(c) ==
  /\ At(c, "attach")
  /\ IF Held(c) \/ ~Present(call[c].path) THEN Returns(c) /\ UNCHANGED <<tree, git>>
     ELSE IF call[c].inPlace
     THEN Goes(c, Recording(c, call[c].path)) /\ UNCHANGED <<tree, git>>
     ELSE IF CanAdd(call[c].path, call[c].item)
     THEN \E d \in FreeDir(call[c].item, call[c].repo) :
            Add(call[c].path, d) /\ Goes(c, Recording(c, d))
     ELSE Returns(c) /\ git' = Prune(call[c].path) /\ UNCHANGED tree
  /\ UNCHANGED <<disk, tables, lock, work, stray, used>>
\* The item has it already, or the repository is where it was and the worktree is added:
\* on the item's branch if it worked here before, on a new one if not.
AttachBegin(c) ==
  /\ At(c, "attach") /\ lock = None
  /\ IF Held(c) \/ ~Present(call[c].path)
     THEN Returns(c) /\ UNCHANGED <<tree, git, lock>>
     ELSE IF call[c].inPlace
     THEN Goes(c, Recording(c, call[c].path)) /\ lock' = c /\ UNCHANGED <<tree, git>>
     ELSE IF CanAdd(call[c].path, call[c].item)
     THEN /\ \E d \in FreeDir(call[c].item, call[c].repo) :
               Add(call[c].path, d) /\ Goes(c, Recording(c, d))
          /\ lock' = c
     ELSE Returns(c) /\ git' = Prune(call[c].path) /\ UNCHANGED <<tree, lock>>
  /\ UNCHANGED <<disk, tables, work, stray, used>>

Recorded(c) ==
  [item |-> call[c].item, repo |-> call[c].repo, path |-> call[c].dir, status |-> "active", kept |-> FALSE,
   mode |-> IF call[c].inPlace THEN "in_place" ELSE "worktree",
   setup |-> IF call[c].inPlace THEN "none" ELSE "pending"]

\* CreateCheckout
AttachRecords(c) ==
  /\ At(c, "record") /\ call[c].op = "attach"
  /\ ~(call[c].inPlace /\ Lease(call[c].repo) # {})
  /\ checkouts' = Append(checkouts, Recorded(c))
  /\ Returns(c) /\ lock' = None
  /\ UNCHANGED <<onDisk, repos, work, stray, used>>

\* Mutant: the worktree stays when its row was not written.
AttachUndoesNothing(c) ==
  /\ At(c, "record") /\ call[c].op = "attach"
  /\ IF call[c].inPlace /\ Lease(call[c].repo) # {} THEN UNCHANGED used
     ELSE used.faults < MaxFaults /\ Spend("faults")
  /\ Returns(c) /\ lock' = None
  /\ UNCHANGED <<onDisk, tables, work, stray>>
\* It failed: the directory is lent already, or the row could not be written, and then the
\* worktree is removed again if git finds it where the repository was.
AttachUndoes(c) ==
  LET d == call[c].dir  p == call[c].path IN
  /\ At(c, "record") /\ call[c].op = "attach"
  /\ IF call[c].inPlace /\ Lease(call[c].repo) # {} THEN UNCHANGED used
     ELSE used.faults < MaxFaults /\ Spend("faults")
  /\ IF call[c].inPlace THEN UNCHANGED <<tree, git, stray>>
     ELSE IF CanRemove(p, d)
     THEN /\ tree' = [tree EXCEPT ![d] = None]
          /\ git' = [git EXCEPT ![disk[p]].trees = @ \ {d}]
          /\ UNCHANGED stray
     ELSE stray' = stray \cup {d} /\ UNCHANGED <<tree, git>>
  /\ Returns(c) /\ lock' = None
  /\ UNCHANGED <<disk, tables, work>>

-----------------------------------------------------------------------------
(* Archive *)

\* archiveCheckout: not while a worker of the item runs.
AsksArchive(c, k, force) ==
  /\ Active(k) /\ work[checkouts[k].item] = Idle
  /\ Begins(c, [NoCall EXCEPT !.op = "archive", !.at = "archive", !.co = k, !.force = force])
  /\ UNCHANGED <<onDisk, tables, lock, work, stray>>

\* git can say what is unsaved: the repository is at p, and the worktree's link leads there.
Readable(d, p) == p # None /\ Present(p) /\ Linked(d)

Dirty(d, p) == Readable(d, p) /\ tree[d].unsaved # "no"
\* Mutant: an answer git could not give is taken for a clean one.
KeepsNothing(d, p) == p = None
Keeps(d, p) == ~Readable(d, p)

ArchiveLook(c) ==
  LET row == checkouts[call[c].co]
      d == row.path
      p == IF repos[row.repo] = None THEN None ELSE repos[row.repo].path
      gone == row.mode = "worktree" /\ tree[d] = None
      next(at, kept) == Goes(c, [With(c, at) EXCEPT !.kept = kept, !.path = p]) /\ lock' = c
  IN  /\ At(c, "archive") /\ lock = None
      /\ git' = IF gone /\ p # None THEN Prune(p) ELSE git
      /\ IF row.status = "archived" THEN Returns(c) /\ UNCHANGED lock
         ELSE IF row.mode = "in_place" \/ gone THEN next("archived", FALSE)
         ELSE IF Dirty(d, p) /\ ~call[c].force THEN Returns(c) /\ UNCHANGED lock
         ELSE IF Keeps(d, p) THEN next("archived", TRUE)
         ELSE next("remove", FALSE)
      /\ UNCHANGED <<disk, tree, tables, work, stray, used>>

\* After the teardown script git removes the directory, and what git does not is deleted.
ArchiveRemoves(c) ==
  LET d == checkouts[call[c].co].path  p == call[c].path IN
  /\ At(c, "remove")
  /\ tree' = [tree EXCEPT ![d] = None]
  /\ git' = IF disk[p] = None THEN git ELSE [git EXCEPT ![disk[p]] = Unlisted(@, d)]
  /\ Goes(c, With(c, "archived"))
  /\ UNCHANGED <<disk, tables, lock, work, stray, used>>

Archived(k, kept) == checkouts' = [checkouts EXCEPT ![k].status = "archived", ![k].kept = kept]

\* ArchiveCheckout, or an error: the row stays active and its directory is gone.
ArchiveRecords(c) ==
  /\ At(c, "archived")
  /\ \/ Archived(call[c].co, call[c].kept) /\ UNCHANGED used
     \/ used.faults < MaxFaults /\ Spend("faults") /\ UNCHANGED checkouts
  /\ Returns(c) /\ lock' = None
  /\ UNCHANGED <<onDisk, repos, work, stray>>

-----------------------------------------------------------------------------
(* Forget *)

ForgetLook(c, r) ==
  /\ repos[r] # None
  /\ Begins(c, [NoCall EXCEPT !.op = "forget", !.at = "forget", !.repo = r,
                              !.todo = IF Present(repos[r].path) THEN {} ELSE ActiveOf(r)])
  /\ UNCHANGED <<onDisk, tables, lock, work, stray>>

\* A repository that is gone: its checkouts are recorded as archived, and stay on disk.
ForgetArchives(c) ==
  /\ At(c, "forget") /\ call[c].todo # {}
  /\ LET k == CHOOSE k \in call[c].todo : \A j \in call[c].todo : k <= j
         row == checkouts[k]
     IN  /\ IF Active(k) THEN Archived(k, row.mode = "worktree" /\ tree[row.path] # None) ELSE UNCHANGED checkouts
         /\ Goes(c, [call[c] EXCEPT !.todo = @ \ {k}])
  /\ UNCHANGED <<onDisk, repos, lock, work, stray, used>>

ForgetCheck(c) ==
  /\ At(c, "forget") /\ call[c].todo = {}
  /\ IF Row(c) = None \/ ActiveOf(call[c].repo) # {} THEN Returns(c) ELSE Goes(c, With(c, "drop"))
  /\ UNCHANGED <<onDisk, tables, lock, work, stray, used>>

ForgetDrops(c) ==
  /\ At(c, "drop")
  /\ repos' = [repos EXCEPT ![call[c].repo] = None]
  /\ Returns(c)
  /\ UNCHANGED <<onDisk, checkouts, lock, work, stray, used>>

-----------------------------------------------------------------------------
(* Register, Relocate and repair *)

\* Inspect reads what is at the path.
Inspects(c, p, r) ==
  /\ disk[p] # None
  /\ Begins(c, [NoCall EXCEPT !.op = "place", !.at = "place", !.path = p, !.remote = RemoteOf[disk[p]],
                              !.repo = r])
  /\ UNCHANGED <<onDisk, tables, lock, work, stray>>

Placed(c) == [path |-> call[c].path, remote |-> call[c].remote, status |-> "present"]
Taken(p) == {r \in Repo : repos[r] # None /\ repos[r].path = p}

\* RegisterRepo, one transaction: the same path is the same repository, one missing with
\* the same remote has moved here, any other is new.
RegisterRow(c) ==
  LET same == Taken(call[c].path)
      moved == {r \in Repo : repos[r] # None /\ repos[r].status = "missing" /\ repos[r].remote = call[c].remote}
      fresh == {r \in Repo : repos[r] = None /\ \A k \in DOMAIN checkouts : checkouts[k].repo # r}
  IN  /\ At(c, "place") /\ call[c].repo = None
      /\ \E r \in IF same # {} THEN same ELSE IF call[c].remote # None /\ moved # {} THEN moved ELSE fresh :
           repos' = [repos EXCEPT ![r] = Placed(c)] /\ Goes(c, [With(c, "repair") EXCEPT !.repo = r])
      /\ UNCHANGED <<onDisk, checkouts, lock, work, stray, used>>

\* RelocateRepo: refused if another repository has the path.
RelocateRow(c) ==
  /\ At(c, "place") /\ call[c].repo # None
  /\ IF Row(c) = None \/ Taken(call[c].path) \ {call[c].repo} # {} THEN Returns(c) /\ UNCHANGED repos
     ELSE repos' = [repos EXCEPT ![call[c].repo] = Placed(c)] /\ Goes(c, With(c, "repair"))
  /\ UNCHANGED <<onDisk, checkouts, lock, work, stray, used>>

\* repair: the worktrees of the repository are linked to where it is now.
Repairs(c) ==
  LET p == call[c].path
      mine == {d \in Dir : tree[d] # None /\ tree[d].clone = disk[p]
                           /\ \E k \in ActiveOf(call[c].repo) : checkouts[k].path = d}
  IN  /\ At(c, "repair") /\ lock = None
      /\ tree' = [d \in Dir |-> IF d \in mine THEN [tree[d] EXCEPT !.home = p] ELSE tree[d]]
      /\ Returns(c)
      /\ UNCHANGED <<disk, git, tables, lock, work, stray, used>>

-----------------------------------------------------------------------------
(* Setup, by the item's worker *)

\* checkoutsOf, before the worker starts.
WorkerHolds(i, k) ==
  /\ work[i] = Idle /\ Active(k) /\ checkouts[k].item = i /\ checkouts[k].setup = "pending"
  /\ work' = [work EXCEPT ![i] = [at |-> "held", co |-> k]]
  /\ UNCHANGED <<onDisk, tables, lock, call, stray, used>>

\* RunSetup: nothing for a repository that was forgotten, and no script if the repository
\* has none any more.
SetupBegins(i) ==
  /\ work[i].at = "held"
  /\ IF repos[checkouts[work[i].co].repo] = None
     THEN work' = [work EXCEPT ![i] = Idle] /\ UNCHANGED checkouts
     ELSE \E at \in {"idle", "setup"} :
            /\ work' = [work EXCEPT ![i] = IF at = "idle" THEN Idle ELSE [@ EXCEPT !.at = at]]
            /\ checkouts' = [checkouts EXCEPT ![work[i].co].setup = IF at = "idle" THEN "none" ELSE "running"]
  /\ UNCHANGED <<onDisk, repos, lock, call, stray, used>>

SetupEnds(i) ==
  /\ work[i].at = "setup"
  /\ \E state \in {"done", "failed"} : checkouts' = [checkouts EXCEPT ![work[i].co].setup = state]
  /\ work' = [work EXCEPT ![i] = Idle]
  /\ UNCHANGED <<onDisk, repos, lock, call, stray, used>>

-----------------------------------------------------------------------------
(* The person, the agents, and crashes *)

\* Work in a worktree that is being archived may come too late to be seen.
Writes(d) ==
  /\ tree[d] # None /\ tree[d].unsaved = "no" /\ \A c \in Caller : At(c, "record") => call[c].dir # d
  /\ tree' = [tree EXCEPT ![d].unsaved =
       IF \E c \in Caller : At(c, "remove") /\ checkouts[call[c].co].path = d THEN "late" ELSE "yes"]
  /\ UNCHANGED <<disk, git, tables, lock, call, work, stray, used>>

TakesAway(p) ==
  /\ disk[p] # None /\ used.moves < MaxMoves /\ Spend("moves")
  /\ disk' = [disk EXCEPT ![p] = None]
  /\ UNCHANGED <<tree, git, tables, lock, call, work, stray>>
Puts(c, p) ==
  /\ disk[p] = None /\ (\A q \in Place : disk[q] # c) /\ used.moves < MaxMoves /\ Spend("moves")
  /\ disk' = [disk EXCEPT ![p] = c]
  /\ UNCHANGED <<tree, git, tables, lock, call, work, stray>>
DeletesTree(d) ==
  /\ tree[d] # None /\ used.moves < MaxMoves /\ Spend("moves")
  /\ tree' = [tree EXCEPT ![d] = None]
  /\ UNCHANGED <<disk, git, tables, lock, call, work, stray>>

\* Mutant: the setups that were running stay so.
Resumed == [k \in DOMAIN checkouts |-> checkouts[k]]
\* ResumeInterruptedSetups
ResumeInterruptedSetups ==
  [k \in DOMAIN checkouts |->
     IF Active(k) /\ checkouts[k].setup = "running" THEN [checkouts[k] EXCEPT !.setup = "pending"] ELSE checkouts[k]]

Restart ==
  /\ used.crashes < MaxCrashes /\ Spend("crashes")
  /\ checkouts' = ResumeInterruptedSetups
  /\ stray' = stray \cup {d \in Dir : \E c \in Caller : At(c, "record") /\ call[c].dir = d}
  /\ lock' = None /\ call' = [c \in Caller |-> NoCall] /\ work' = [i \in Item |-> Idle]
  /\ UNCHANGED <<onDisk, repos>>

-----------------------------------------------------------------------------
Init ==
  /\ \E p \in Place, c \in Clone : disk = [q \in Place |-> IF q = p THEN c ELSE None]
  /\ tree = [d \in Dir |-> None]
  /\ git = [c \in Clone |-> [branches |-> {}, trees |-> {}]]
  /\ repos = [r \in Repo |-> None] /\ checkouts = <<>>
  /\ lock = None /\ call = [c \in Caller |-> NoCall] /\ work = [i \in Item |-> Idle]
  /\ stray = {} /\ used = [calls |-> 0, moves |-> 0, faults |-> 0, crashes |-> 0]

Serve(c) ==
  \/ \E r \in Repo :
       \/ \E i \in Item, inPlace \in BOOLEAN : Asks(c, Wanted(r, i, inPlace))
       \/ Asks(c, [NoCall EXCEPT !.op = "check", !.repo = r])
       \/ ForgetLook(c, r)
  \/ \E p \in Place, r \in Repo \cup {None} : Inspects(c, p, r)
  \/ \E k \in DOMAIN checkouts :
       (\E force \in BOOLEAN : AsksArchive(c, k, force)) \/ \E i \in Item : Inherits(c, k, i)
  \/ Settles(c) \/ AttachBegin(c) \/ AttachRecords(c) \/ AttachUndoes(c)
  \/ ArchiveLook(c) \/ ArchiveRemoves(c) \/ ArchiveRecords(c)
  \/ ForgetArchives(c) \/ ForgetCheck(c) \/ ForgetDrops(c)
  \/ RegisterRow(c) \/ RelocateRow(c) \/ Repairs(c)

Next ==
  \/ \E c \in Caller : Serve(c)
  \/ \E i \in Item : (\E k \in DOMAIN checkouts : WorkerHolds(i, k)) \/ SetupBegins(i) \/ SetupEnds(i)
  \/ \E d \in Dir : Writes(d) \/ DeletesTree(d)
  \/ \E p \in Place : TakesAway(p) \/ \E c \in Clone : Puts(c, p)
  \/ Restart

Spec == Init /\ [][Next]_vars

-----------------------------------------------------------------------------
\* The tables keep what their unique indexes ask for before any of them is needed: one
\* repository per path, one active checkout of a repository per item, and one item at
\* most in the original directory.
RegistryTypeOK ==
  /\ disk \in [Place -> Clone \cup {None}] /\ lock \in Caller \cup {None}
  /\ \A r \in Repo : repos[r] # None => Taken(repos[r].path) = {r}
  /\ \A r \in Repo : Cardinality(Lease(r)) <= 1
  /\ \A j, k \in DOMAIN checkouts :
       Active(j) /\ Active(k) /\ checkouts[j].item = checkouts[k].item /\ checkouts[j].repo = checkouts[k].repo => j = k

\* A worktree on disk is somebody's: an active checkout's, one kept when its checkout was
\* archived, or an attach's in progress, unless a crash or the repository's going away cut
\* its attach short (repos.go:455-463).
NoTreeUnrecorded ==
  \A d \in Dir : tree[d] # None =>
    \/ \E k \in DOMAIN checkouts : checkouts[k].path = d /\ (Active(k) \/ checkouts[k].kept)
    \/ \E c \in Caller : At(c, "record") /\ call[c].dir = d
    \/ \E c \in Caller : At(c, "archived") /\ call[c].kept /\ checkouts[call[c].co].path = d
    \/ d \in stray

\* Unsaved work goes only by the person's hand or with force, whatever moved meanwhile,
\* except for what was written after Archive looked (repos.go:592-655).
UnsavedKept ==
  [][\A d \in Dir : tree[d] # None /\ tree'[d] = None /\ tree[d].unsaved = "yes" =>
       \/ used'.moves # used.moves
       \/ \E c \in Caller : At(c, "remove") /\ call[c].force]_vars

\* No checkout waits for a setup that nobody runs (repos.go:381-391 of the kernel).
SetupNotStuck ==
  \A k \in DOMAIN checkouts : Active(k) /\ checkouts[k].setup = "running" =>
    \E i \in Item : work[i] = [at |-> "setup", co |-> k]

-----------------------------------------------------------------------------
(* The inductive invariant of the proofs *)

Remote == {RemoteOf[c] : c \in Clone} \cup {None}
RepoRow == [path : Place, remote : Remote, status : {"present", "missing"}]
CheckoutRow ==
  [item : Item, repo : Repo, path : Place \cup Dir, status : {"active", "archived"}, kept : BOOLEAN,
   mode : {"in_place", "worktree"}, setup : {"none", "pending", "running", "done", "failed"}]
CallRecord ==
  [at : {"idle", "status", "attach", "record", "archive", "remove", "archived", "forget", "drop", "place", "repair"},
   op : {"none", "attach", "check", "archive", "forget", "place"}, repo : Repo \cup {None},
   item : Item \cup {None}, inPlace : BOOLEAN, path : Place \cup {None}, remote : Remote, seen : BOOLEAN,
   dir : Place \cup Dir \cup {None}, co : Nat, force : BOOLEAN, kept : BOOLEAN, todo : SUBSET Nat]

ShapeInv ==
  /\ disk \in [Place -> Clone \cup {None}] /\ tree \in [Dir -> Worktree \cup {None}]
  /\ repos \in [Repo -> RepoRow \cup {None}] /\ checkouts \in Seq(CheckoutRow)
  /\ lock \in Caller \cup {None} /\ call \in [Caller -> CallRecord]
  /\ work \in [Item -> [at : {"idle", "held", "setup"}, co : Nat]]
  /\ used \in [calls : Nat, moves : Nat, faults : Nat, crashes : Nat]

\* The unique indexes of the tables.
TablesInv ==
  /\ \A k \in DOMAIN checkouts : checkouts[k].mode = "worktree" <=> checkouts[k].path \in Dir
  /\ \A r, q \in Repo : repos[r] # None /\ repos[q] # None /\ repos[r].path = repos[q].path => r = q
  /\ \A j, k \in DOMAIN checkouts : Active(j) /\ Active(k) /\ checkouts[j].repo = checkouts[k].repo =>
       \/ j = k
       \/ checkouts[j].item # checkouts[k].item /\ "worktree" \in {checkouts[j].mode, checkouts[k].mode}

\* What a call that holds Service.mu relies on: nobody else adds a checkout or a worktree,
\* and what was written in a worktree since it was looked at is known to be late.
LockInv ==
  \A c \in Caller :
    /\ call[c].at \in {"record", "remove", "archived"} => lock = c
    /\ At(c, "record") =>
         /\ ~Held(c)
         /\ call[c].dir \in IF call[c].inPlace THEN Place ELSE Dir
         /\ call[c].dir \in Dir /\ tree[call[c].dir] # None => tree[call[c].dir].unsaved = "no"
    /\ At(c, "remove") =>
         LET row == checkouts[call[c].co] IN
           /\ row.mode = "worktree"
           /\ call[c].force \/ tree[row.path] = None \/ tree[row.path].unsaved # "yes"
    /\ At(c, "archived") =>
         LET row == checkouts[call[c].co] IN row.mode = "in_place" \/ call[c].kept \/ tree[row.path] = None

\* What a call was asked about exists.
AskedInv ==
  \A c \in Caller :
    /\ call[c].at \in {"status", "attach", "record", "forget", "drop", "repair"} => call[c].repo \in Repo
    /\ call[c].at \in {"status", "attach", "record", "place", "repair"} => call[c].path \in Place
    /\ call[c].at \in {"attach", "record"} \/ (At(c, "status") /\ call[c].op = "attach") =>
         call[c].op = "attach" /\ call[c].item \in Item
    /\ call[c].at \in {"archive", "remove", "archived"} => call[c].co \in DOMAIN checkouts

\* A worker runs the setup of a checkout there is.
WorkInv ==
  \A i \in Item : work[i] = Idle \/ \E k \in DOMAIN checkouts, at \in {"held", "setup"} : work[i] = [at |-> at, co |-> k]

\* Why no worktree is forgotten: its row comes while the lock is held, and a row that is
\* archived without it says so.
TreesInv ==
  \A d \in Dir : tree[d] # None =>
    \/ \E k \in DOMAIN checkouts : checkouts[k].path = d /\ (Active(k) \/ checkouts[k].kept)
    \/ \E c \in Caller : At(c, "record") /\ call[c].dir = d
    \/ d \in stray

CheckoutsInv == ShapeInv /\ TablesInv /\ LockInv /\ AskedInv /\ WorkInv /\ SetupNotStuck /\ TreesInv
=============================================================================
