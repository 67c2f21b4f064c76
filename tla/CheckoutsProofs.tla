--------------------------- MODULE CheckoutsProofs ---------------------------
(***************************************************************************)
(* The tables of repositories and checkouts agree with what lies on disk,   *)
(* whatever the person moves, whoever calls and whenever the program stops: *)
(* unique indexes, no worktree without a record, no setup that hangs and no *)
(* unsaved work lost.                                                       *)
(***************************************************************************)
EXTENDS Checkouts, FiniteSetTheorems, TLAPS

-----------------------------------------------------------------------------
(* What each step can disturb *)

\* A step is of one call, of a worker, of the person, or the end of the program.
LEMMA CallFrame ==
  ASSUME [Next]_vars
  PROVE  \/ UNCHANGED call
         \/ \E c \in Caller : Serve(c)
         \/ Restart
  BY DEF Next, vars, WorkerHolds, SetupBegins, SetupEnds, Writes, DeletesTree, TakesAway, Puts

\* Who changes the worktrees.
LEMMA TreeFrame ==
  ASSUME [Next]_vars
  PROVE  \/ UNCHANGED tree
         \/ \E c \in Caller : AttachBegin(c) \/ AttachUndoes(c) \/ ArchiveRemoves(c) \/ Repairs(c)
         \/ \E d \in Dir : Writes(d) \/ DeletesTree(d)
<1>1. ASSUME NEW c \in Caller, Serve(c)
      PROVE  UNCHANGED tree \/ AttachBegin(c) \/ AttachUndoes(c) \/ ArchiveRemoves(c) \/ Repairs(c)
  BY <1>1 DEF Serve, onDisk, Asks, ForgetLook, Inspects, AsksArchive, Inherits, Settles, AttachRecords,
      ArchiveLook, ArchiveRecords, ForgetArchives, ForgetCheck, ForgetDrops, RegisterRow, RelocateRow
<1> QED
  BY <1>1 DEF Next, vars, onDisk, WorkerHolds, SetupBegins, SetupEnds, TakesAway, Puts, Restart

\* Who writes the table of checkouts.
LEMMA RowsFrame ==
  ASSUME [Next]_vars
  PROVE  \/ UNCHANGED checkouts
         \/ \E c \in Caller : AttachRecords(c) \/ ArchiveRecords(c) \/ ForgetArchives(c)
         \/ \E i \in Item : SetupBegins(i) \/ SetupEnds(i)
         \/ Restart
<1>1. ASSUME NEW c \in Caller, Serve(c)
      PROVE  UNCHANGED checkouts \/ AttachRecords(c) \/ ArchiveRecords(c) \/ ForgetArchives(c)
  BY <1>1 DEF Serve, tables, Asks, ForgetLook, Inspects, AsksArchive, Inherits, Settles, AttachBegin, AttachUndoes,
      ArchiveLook, ArchiveRemoves, ForgetCheck, ForgetDrops, RegisterRow, RelocateRow, Repairs
<1> QED
  BY <1>1 DEF Next, vars, tables, WorkerHolds, TakesAway, Puts, Writes, DeletesTree

\* Who writes the table of repositories.
LEMMA ReposFrame ==
  ASSUME [Next]_vars
  PROVE  \/ UNCHANGED repos
         \/ \E c \in Caller : Settles(c) \/ ForgetDrops(c) \/ RegisterRow(c) \/ RelocateRow(c)
<1>1. ASSUME NEW c \in Caller, Serve(c)
      PROVE  UNCHANGED repos \/ Settles(c) \/ ForgetDrops(c) \/ RegisterRow(c) \/ RelocateRow(c)
  BY <1>1 DEF Serve, tables, Asks, ForgetLook, Inspects, AsksArchive, Inherits, AttachBegin, AttachRecords,
      AttachUndoes, ArchiveLook, ArchiveRemoves, ArchiveRecords, ForgetArchives, ForgetCheck, Repairs
<1> QED
  BY <1>1 DEF Next, vars, tables, WorkerHolds, SetupBegins, SetupEnds, TakesAway, Puts, Writes, DeletesTree, Restart

\* Who takes and leaves Service.mu.
LEMMA LockFrame ==
  ASSUME [Next]_vars
  PROVE  \/ UNCHANGED lock
         \/ \E c \in Caller : AttachBegin(c) \/ ArchiveLook(c) \/ AttachRecords(c) \/ AttachUndoes(c) \/ ArchiveRecords(c)
         \/ Restart
<1>1. ASSUME NEW c \in Caller, Serve(c)
      PROVE  \/ UNCHANGED lock
             \/ AttachBegin(c) \/ ArchiveLook(c) \/ AttachRecords(c) \/ AttachUndoes(c) \/ ArchiveRecords(c)
  BY <1>1 DEF Serve, Asks, ForgetLook, Inspects, AsksArchive, Inherits, Settles, ArchiveRemoves, ForgetArchives,
      ForgetCheck, ForgetDrops, RegisterRow, RelocateRow, Repairs
<1> QED
  BY <1>1 DEF Next, vars, WorkerHolds, SetupBegins, SetupEnds, TakesAway, Puts, Writes, DeletesTree

\* Whose worker is at what.
LEMMA WorkFrame ==
  ASSUME [Next]_vars
  PROVE  \/ UNCHANGED work
         \/ \E i \in Item : (\E k \in DOMAIN checkouts : WorkerHolds(i, k)) \/ SetupBegins(i) \/ SetupEnds(i)
         \/ Restart
<1>1. ASSUME NEW c \in Caller, Serve(c)
      PROVE  UNCHANGED work
  BY <1>1 DEF Serve, Asks, ForgetLook, Inspects, AsksArchive, Inherits, Settles, AttachBegin, AttachRecords,
      AttachUndoes, ArchiveLook, ArchiveRemoves, ArchiveRecords, ForgetArchives, ForgetCheck, ForgetDrops,
      RegisterRow, RelocateRow, Repairs
<1> QED
  BY <1>1 DEF Next, vars, TakesAway, Puts, Writes, DeletesTree

-----------------------------------------------------------------------------
(* What a call is at *)

\* What a call was asked about exists.
AskedOK(r) ==
  /\ r.at \in {"status", "attach", "record", "forget", "drop", "repair"} => r.repo \in Repo
  /\ r.at \in {"status", "attach", "record", "place", "repair"} => r.path \in Place
  /\ r.at \in {"attach", "record"} \/ (r.at = "status" /\ r.op = "attach") => r.op = "attach" /\ r.item \in Item
  /\ r.at \in {"archive", "remove", "archived"} => r.co \in DOMAIN checkouts

\* Where a call goes, and what it keeps.
Follows(r, q) ==
  /\ q.at = "record" => /\ r.at = "attach" /\ q.inPlace = r.inPlace /\ q.item = r.item /\ q.repo = r.repo
                        /\ q.path = r.path
  /\ q.at = "remove" => r.at = "archive" /\ q.co = r.co /\ q.force = r.force
  /\ q.at = "archived" => r.at \in {"archive", "remove"} /\ q.co = r.co /\ (r.at = "remove" => q.kept = r.kept)
  /\ q.at \in {"place", "archive", "forget", "status"} => r.at \in {"idle", q.at}

\* A step of a call is of no other, and leaves it with what it needs.
LEMMA ServeCall ==
  ASSUME ShapeInv, TablesInv, AskedInv, NEW c \in Caller, Serve(c)
  PROVE  \E q \in CallRecord : call' = [call EXCEPT ![c] = q] /\ AskedOK(q) /\ Follows(call[c], q)
<1> DEFINE Goal == \E q \in CallRecord : call' = [call EXCEPT ![c] = q] /\ AskedOK(q) /\ Follows(call[c], q)
<1>1. /\ call[c] \in CallRecord /\ AskedOK(call[c])
      /\ repos \in [Repo -> RepoRow \cup {None}] /\ checkouts \in Seq(CheckoutRow)
      /\ disk \in [Place -> Clone \cup {None}]
      /\ DOMAIN checkouts \subseteq Nat
  BY DEF ShapeInv, AskedInv, AskedOK, At
<1>2. NoCall \in CallRecord /\ NoCall.at = "idle"
  BY DEF NoCall, CallRecord, Remote
<1>3. ASSUME Returns(c)
      PROVE  Goal
  <2>1. call' = [call EXCEPT ![c] = NoCall]
    BY <1>3 DEF Returns, Goes
  <2> HIDE DEF NoCall
  <2> QED
    BY <1>2, <2>1 DEF AskedOK, Follows
<1>4. ASSUME NEW a \in {"attach", "remove", "archived", "drop", "repair"}
      PROVE  /\ With(c, a) \in CallRecord /\ With(c, a).at = a
             /\ \A x \in {"op", "repo", "item", "inPlace", "path", "remote", "seen", "dir", "co", "force", "kept", "todo"} :
                  With(c, a)[x] = call[c][x]
  <2>1. With(c, a) \in CallRecord
    BY <1>1 DEF With, CallRecord
  <2>2. DOMAIN call[c] = {"at", "op", "repo", "item", "inPlace", "path", "remote", "seen", "dir", "co", "force", "kept", "todo"}
    BY <1>1 DEF CallRecord
  <2>3. With(c, a).at = a /\ \A x \in DOMAIN call[c] \ {"at"} : With(c, a)[x] = call[c][x]
    BY <2>2 DEF With
  <2> QED
    BY <2>1, <2>2, <2>3
<1>5. ASSUME NEW r \in Repo, NEW w \in CallRecord, w.repo = r, w.at = "idle",
             w.op = "attach" => w.item \in Item, Asks(c, w)
      PROVE  Goal
  <2> DEFINE q == [w EXCEPT !.at = "status", !.path = repos[w.repo].path, !.seen = Present(repos[w.repo].path)]
  <2>1. call' = [call EXCEPT ![c] = q] /\ call[c].at = "idle" /\ repos[r] \in RepoRow
    BY <1>1, <1>5 DEF Asks, Begins, Goes, At
  <2>2. Present(repos[r].path) \in BOOLEAN
    BY DEF Present
  <2>3. q \in CallRecord /\ q.at = "status" /\ q.repo = r /\ q.path \in Place /\ q.op = w.op /\ q.item = w.item
    BY <1>5, <2>1, <2>2 DEF CallRecord, RepoRow
  <2> HIDE DEF q
  <2> QED
    BY <1>5, <2>1, <2>3 DEF AskedOK, Follows
<1>6. ASSUME NEW a \in {"attach", "remove", "archived", "drop", "repair"}, Goes(c, With(c, a)),
             AskedOK(With(c, a)), Follows(call[c], With(c, a))
      PROVE  Goal
  BY <1>4, <1>6 DEF Goes
<1>7. ASSUME Settles(c)
      PROVE  Goal
  <2>1. CASE Goes(c, With(c, "attach")) /\ call[c].op = "attach"
    <3>1. call[c].at = "status"
      BY <1>7 DEF Settles, At
    <3>2. AskedOK(With(c, "attach")) /\ Follows(call[c], With(c, "attach"))
      BY <1>1, <1>4, <2>1, <3>1 DEF AskedOK, Follows
    <3> QED
      BY <1>6, <2>1, <3>2
  <2> QED
    BY <1>3, <1>7, <2>1 DEF Settles
<1>8. ASSUME NEW k \in DOMAIN checkouts, NEW i \in Item, Inherits(c, k, i)
      PROVE  Goal
  <2> DEFINE r == checkouts[k].repo
             q == [Wanted(r, i, FALSE) EXCEPT !.at = "attach", !.path = repos[r].path]
  <2>0. checkouts[k] \in CheckoutRow
    BY <1>1
  <2>1. call' = [call EXCEPT ![c] = q] /\ call[c].at = "idle" /\ r \in Repo /\ repos[r] \in RepoRow
    <3>1. call' = [call EXCEPT ![c] = q] /\ call[c].at = "idle" /\ repos[r] # None
      BY <1>8 DEF Inherits, Begins, Goes, At
    <3>2. r \in Repo
      BY <2>0 DEF CheckoutRow
    <3> QED
      BY <1>1, <3>1, <3>2
  <2>2. repos[r].path \in Place
    BY <2>1 DEF RepoRow
  <2>3. q \in CallRecord /\ q.at = "attach" /\ q.repo = r /\ q.path \in Place /\ q.op = "attach" /\ q.item = i
    BY <1>2, <2>1, <2>2 DEF Wanted, CallRecord
  <2> HIDE DEF q
  <2> QED
    BY <2>1, <2>3 DEF AskedOK, Follows
<1>9. ASSUME NEW d \in Place \cup Dir, Goes(c, Recording(c, d)), At(c, "attach")
      PROVE  Goal
  <2> DEFINE q == Recording(c, d)
  <2>1. /\ q \in CallRecord /\ q.at = "record" /\ q.repo = call[c].repo /\ q.path = call[c].path
        /\ q.op = call[c].op /\ q.item = call[c].item /\ q.inPlace = call[c].inPlace
    BY <1>1 DEF Recording, With, CallRecord
  <2>2. call' = [call EXCEPT ![c] = q]
    BY <1>9 DEF Goes
  <2> HIDE DEF q
  <2> QED
    BY <1>1, <1>9, <2>1, <2>2 DEF AskedOK, Follows, At
<1>10. ASSUME AttachBegin(c)
       PROVE  Goal
  <2>1. At(c, "attach") /\ call[c].path \in Place
    BY <1>1, <1>10 DEF AttachBegin, AskedOK, At
  <2>2. \/ Returns(c)
        \/ Goes(c, Recording(c, call[c].path))
        \/ \E d \in Dir : Goes(c, Recording(c, d))
    BY <1>10 DEF AttachBegin, FreeDir
  <2> QED
    BY <1>3, <1>9, <2>1, <2>2
<1>11. ASSUME NEW k \in DOMAIN checkouts, NEW force \in BOOLEAN, AsksArchive(c, k, force)
       PROVE  Goal
  <2> DEFINE q == [NoCall EXCEPT !.op = "archive", !.at = "archive", !.co = k, !.force = force]
  <2>1. call' = [call EXCEPT ![c] = q] /\ call[c].at = "idle" /\ k \in Nat
    BY <1>1, <1>11 DEF AsksArchive, Begins, Goes, At
  <2>2. q \in CallRecord /\ q.at = "archive" /\ q.co = k
    BY <1>2, <2>1 DEF CallRecord
  <2> HIDE DEF q
  <2> QED
    BY <2>1, <2>2 DEF AskedOK, Follows
<1>12. ASSUME ArchiveLook(c)
       PROVE  Goal
  <2> DEFINE row == checkouts[call[c].co]
             p == IF repos[row.repo] = None THEN None ELSE repos[row.repo].path
             to(a, kept) == [With(c, a) EXCEPT !.kept = kept, !.path = p]
  <2>1. At(c, "archive") /\ row \in CheckoutRow
    BY <1>1, <1>12 DEF ArchiveLook, AskedOK, At
  <2>2. p \in Place \cup {None}
    BY <1>1, <2>1 DEF CheckoutRow, RepoRow
  <2>3. ASSUME NEW a \in {"remove", "archived"}, NEW kept \in BOOLEAN, Goes(c, to(a, kept))
        PROVE  Goal
    <3> DEFINE q == to(a, kept)
    <3> HIDE DEF p
    <3>1. q \in CallRecord /\ q.at = a /\ q.co = call[c].co /\ q.force = call[c].force
      <4>1. PICK w \in CallRecord : w = With(c, a) /\ w.at = a /\ w.co = call[c].co /\ w.force = call[c].force
        BY <1>4
      <4>2. q = [w EXCEPT !.kept = kept, !.path = p]
        BY <4>1
      <4> HIDE DEF q
      <4> QED
        BY <2>2, <4>1, <4>2 DEF CallRecord
    <3>2. call' = [call EXCEPT ![c] = q]
      BY <2>3 DEF Goes
    <3> HIDE DEF q
    <3> QED
      BY <1>1, <2>1, <3>1, <3>2 DEF AskedOK, Follows, At
  <2>4. Returns(c) \/ (\E a \in {"remove", "archived"}, kept \in BOOLEAN : Goes(c, to(a, kept)))
    <3> HIDE DEF row
    <3> QED
      BY <1>12 DEF ArchiveLook, row
  <2> QED
    BY <1>3, <2>3, <2>4
<1>13. ASSUME ArchiveRemoves(c)
       PROVE  Goal
  <2>1. call[c].at = "remove" /\ Goes(c, With(c, "archived"))
    BY <1>13 DEF ArchiveRemoves, At
  <2>2. AskedOK(With(c, "archived")) /\ Follows(call[c], With(c, "archived"))
    BY <1>1, <1>4, <2>1 DEF AskedOK, Follows
  <2> QED
    BY <1>6, <2>1, <2>2
<1>14. ASSUME NEW r \in Repo, ForgetLook(c, r)
       PROVE  Goal
  <2> DEFINE ks == IF Present(repos[r].path) THEN {} ELSE ActiveOf(r)
             q == [NoCall EXCEPT !.op = "forget", !.at = "forget", !.repo = r, !.todo = ks]
  <2>1. call' = [call EXCEPT ![c] = q] /\ call[c].at = "idle" /\ ks \subseteq Nat
    BY <1>1, <1>14 DEF ForgetLook, Begins, Goes, At, ActiveOf
  <2> HIDE DEF ks
  <2>2. q \in CallRecord /\ q.at = "forget" /\ q.repo = r
    BY <1>2, <2>1 DEF CallRecord
  <2> HIDE DEF q
  <2> QED
    BY <2>1, <2>2 DEF AskedOK, Follows
<1>15. ASSUME ForgetArchives(c)
       PROVE  Goal
  <2>1. PICK k : At(c, "forget") /\ Goes(c, [call[c] EXCEPT !.todo = @ \ {k}])
    BY <1>15 DEF ForgetArchives
  <2> DEFINE q == [call[c] EXCEPT !.todo = @ \ {k}]
  <2>2. q \in CallRecord /\ q.at = "forget" /\ q.repo = call[c].repo
    BY <1>1, <2>1 DEF CallRecord, At
  <2>3. call' = [call EXCEPT ![c] = q]
    BY <2>1 DEF Goes
  <2> HIDE DEF q
  <2> QED
    BY <1>1, <2>1, <2>2, <2>3 DEF AskedOK, Follows, At
<1>16. ASSUME ForgetCheck(c)
       PROVE  Goal
  <2>1. CASE Goes(c, With(c, "drop"))
    <3>1. AskedOK(With(c, "drop")) /\ Follows(call[c], With(c, "drop"))
      BY <1>1, <1>4, <1>16 DEF AskedOK, Follows, ForgetCheck, At
    <3> QED
      BY <1>6, <2>1, <3>1
  <2> QED
    BY <1>3, <1>16, <2>1 DEF ForgetCheck
<1>17. ASSUME NEW p \in Place, NEW r \in Repo \cup {None}, Inspects(c, p, r)
       PROVE  Goal
  <2> DEFINE q == [NoCall EXCEPT !.op = "place", !.at = "place", !.path = p, !.remote = RemoteOf[disk[p]], !.repo = r]
  <2>1. call' = [call EXCEPT ![c] = q] /\ call[c].at = "idle" /\ RemoteOf[disk[p]] \in Remote
    BY <1>1, <1>17 DEF Inspects, Begins, Goes, At, Remote
  <2>2. q \in CallRecord /\ q.at = "place" /\ q.path = p
    BY <1>2, <2>1 DEF CallRecord
  <2> HIDE DEF q
  <2> QED
    BY <2>1, <2>2 DEF AskedOK, Follows
<1>18. ASSUME RegisterRow(c)
       PROVE  Goal
  <2>1. PICK r \in Repo : Goes(c, [With(c, "repair") EXCEPT !.repo = r])
    BY <1>18 DEF RegisterRow, Taken
  <2> DEFINE q == [With(c, "repair") EXCEPT !.repo = r]
  <2>2. q \in CallRecord /\ q.at = "repair" /\ q.repo = r /\ q.path = call[c].path
    BY <1>1 DEF With, CallRecord
  <2>3. call' = [call EXCEPT ![c] = q] /\ call[c].at = "place"
    BY <1>18, <2>1 DEF Goes, RegisterRow, At
  <2> HIDE DEF q
  <2> QED
    BY <1>1, <2>2, <2>3 DEF AskedOK, Follows
<1>19. ASSUME RelocateRow(c)
       PROVE  Goal
  <2>1. CASE Goes(c, With(c, "repair"))
    <3>1. AskedOK(With(c, "repair")) /\ Follows(call[c], With(c, "repair"))
      BY <1>1, <1>4, <1>19 DEF AskedOK, Follows, RelocateRow, At, CallRecord
    <3> QED
      BY <1>6, <2>1, <3>1
  <2> QED
    BY <1>3, <1>19, <2>1 DEF RelocateRow
<1>20. ASSUME NEW r \in Repo, \/ \E i \in Item, inPlace \in BOOLEAN : Asks(c, Wanted(r, i, inPlace))
                             \/ Asks(c, [NoCall EXCEPT !.op = "check", !.repo = r])
       PROVE  Goal
  <2>1. ASSUME NEW i \in Item, NEW inPlace \in BOOLEAN, Asks(c, Wanted(r, i, inPlace))
        PROVE  Goal
    <3> DEFINE w == Wanted(r, i, inPlace)
    <3>1. w \in CallRecord /\ w.repo = r /\ w.at = "idle" /\ w.item = i
      BY <1>2 DEF Wanted, CallRecord
    <3>2. Asks(c, w)
      BY <2>1
    <3> HIDE DEF w
    <3> QED
      BY <1>5, <3>1, <3>2
  <2>2. ASSUME Asks(c, [NoCall EXCEPT !.op = "check", !.repo = r])
        PROVE  Goal
    <3> DEFINE w == [NoCall EXCEPT !.op = "check", !.repo = r]
    <3>1. w \in CallRecord /\ w.repo = r /\ w.at = "idle" /\ w.op = "check"
      BY <1>2 DEF CallRecord
    <3>2. Asks(c, w)
      BY <2>2
    <3> HIDE DEF w
    <3> QED
      BY <1>5, <3>1, <3>2
  <2> QED
    BY <1>20, <2>1, <2>2
<1>21. ASSUME AttachRecords(c) \/ AttachUndoes(c) \/ ArchiveRecords(c) \/ ForgetDrops(c) \/ Repairs(c)
       PROVE  Goal
  <2>1. Returns(c)
    BY <1>21 DEF AttachRecords, AttachUndoes, ArchiveRecords, ForgetDrops, Repairs
  <2> QED
    BY <1>3, <2>1
<1> HIDE DEF Goal
<1>22. Goal
  BY <1>7, <1>8, <1>10, <1>11, <1>12, <1>13, <1>14, <1>15, <1>16, <1>17, <1>18, <1>19, <1>20, <1>21 DEF Serve
<1> QED
  BY <1>22 DEF Goal

-----------------------------------------------------------------------------
(* The rows of the checkouts *)

\* What a step may do to a row: a row that is archived is kept, or nothing is left of its tree.
RowStep(r, q) ==
  /\ q.item = r.item /\ q.repo = r.repo /\ q.path = r.path /\ q.mode = r.mode
  /\ \/ q.status = r.status /\ q.kept = r.kept
     \/ q.status = "archived" /\ (q.kept \/ r.mode = "in_place" \/ tree[r.path] = None)

\* One row is written.
LEMMA RowWritten ==
  ASSUME checkouts \in Seq(CheckoutRow), NEW k \in DOMAIN checkouts, NEW q \in CheckoutRow,
         checkouts' = [checkouts EXCEPT ![k] = q], RowStep(checkouts[k], q)
  PROVE  /\ checkouts' \in Seq(CheckoutRow) /\ DOMAIN checkouts' = DOMAIN checkouts
         /\ \A j \in DOMAIN checkouts : RowStep(checkouts[j], checkouts'[j])
         /\ \A j \in DOMAIN checkouts : j # k => checkouts'[j] = checkouts[j]
<1>1. checkouts' \in Seq(CheckoutRow) /\ DOMAIN checkouts' = DOMAIN checkouts
  OBVIOUS
<1>2. \A j \in DOMAIN checkouts : checkouts'[j] = IF j = k THEN q ELSE checkouts[j]
  OBVIOUS
<1> QED
  BY <1>1, <1>2 DEF RowStep

\* A row that is archived.
LEMMA RowArchived ==
  ASSUME checkouts \in Seq(CheckoutRow), NEW k \in DOMAIN checkouts, NEW kept \in BOOLEAN, Archived(k, kept),
         kept \/ checkouts[k].mode = "in_place" \/ tree[checkouts[k].path] = None
  PROVE  /\ checkouts' \in Seq(CheckoutRow) /\ DOMAIN checkouts' = DOMAIN checkouts
         /\ \A j \in DOMAIN checkouts : RowStep(checkouts[j], checkouts'[j]) /\ checkouts'[j].setup = checkouts[j].setup
<1> DEFINE q == [checkouts[k] EXCEPT !.status = "archived", !.kept = kept]
<1>1. checkouts[k] \in CheckoutRow
  OBVIOUS
<1>2. checkouts' = [checkouts EXCEPT ![k] = q]
  BY DEF Archived
<1>3. /\ q \in CheckoutRow /\ q.status = "archived" /\ q.kept = kept /\ q.setup = checkouts[k].setup
      /\ q.item = checkouts[k].item /\ q.repo = checkouts[k].repo /\ q.path = checkouts[k].path
      /\ q.mode = checkouts[k].mode
  BY <1>1 DEF CheckoutRow
<1> HIDE DEF q
<1>4. RowStep(checkouts[k], q)
  BY <1>3 DEF RowStep
<1>5. checkouts'[k] = q
  BY <1>2
<1> QED
  BY <1>2, <1>3, <1>4, <1>5, RowWritten

\* A row whose setup is written.
LEMMA RowSetUp ==
  ASSUME checkouts \in Seq(CheckoutRow), NEW k \in DOMAIN checkouts,
         NEW s \in {"none", "pending", "running", "done", "failed"}, checkouts' = [checkouts EXCEPT ![k].setup = s]
  PROVE  /\ checkouts' \in Seq(CheckoutRow) /\ DOMAIN checkouts' = DOMAIN checkouts
         /\ \A j \in DOMAIN checkouts : RowStep(checkouts[j], checkouts'[j])
         /\ checkouts'[k].setup = s /\ \A j \in DOMAIN checkouts : j # k => checkouts'[j] = checkouts[j]
<1> DEFINE q == [checkouts[k] EXCEPT !.setup = s]
<1>1. checkouts[k] \in CheckoutRow
  OBVIOUS
<1>2. checkouts' = [checkouts EXCEPT ![k] = q]
  OBVIOUS
<1>3. /\ q \in CheckoutRow /\ q.status = checkouts[k].status /\ q.kept = checkouts[k].kept /\ q.setup = s
      /\ q.item = checkouts[k].item /\ q.repo = checkouts[k].repo /\ q.path = checkouts[k].path
      /\ q.mode = checkouts[k].mode
  BY <1>1 DEF CheckoutRow
<1> HIDE DEF q
<1>4. RowStep(checkouts[k], q)
  BY <1>3 DEF RowStep
<1>5. checkouts'[k] = q
  BY <1>2
<1> QED
  BY <1>2, <1>3, <1>4, <1>5, RowWritten

\* The row an attach writes.
LEMMA RecordedRow ==
  ASSUME CheckoutsInv, NEW c \in Caller, At(c, "record")
  PROVE  Recorded(c) \in CheckoutRow /\ Recorded(c).status = "active" /\ Recorded(c).setup # "running"
<1>1. /\ call[c].item \in Item /\ call[c].repo \in Repo /\ call[c].dir \in Place \cup Dir
      /\ call[c].inPlace \in BOOLEAN
  BY DEF CheckoutsInv, AskedInv, LockInv, ShapeInv, CallRecord, At
<1> QED
  BY <1>1 DEF Recorded, CheckoutRow

\* What a step does to the rows.
LEMMA RowsStep ==
  ASSUME CheckoutsInv, [Next]_vars
  PROVE  /\ checkouts' \in Seq(CheckoutRow) /\ DOMAIN checkouts \subseteq DOMAIN checkouts'
         /\ \A k \in DOMAIN checkouts : RowStep(checkouts[k], checkouts'[k])
         /\ \/ DOMAIN checkouts' = DOMAIN checkouts
            \/ \E c \in Caller : AttachRecords(c)
         /\ \/ \A k \in DOMAIN checkouts : checkouts'[k].setup = checkouts[k].setup
            \/ \E i \in Item : SetupBegins(i) \/ SetupEnds(i)
            \/ Restart
<1> DEFINE Types == checkouts' \in Seq(CheckoutRow) /\ DOMAIN checkouts \subseteq DOMAIN checkouts'
           Steps == \A k \in DOMAIN checkouts : RowStep(checkouts[k], checkouts'[k])
           Same  == DOMAIN checkouts' = DOMAIN checkouts
           Setup == \A k \in DOMAIN checkouts : checkouts'[k].setup = checkouts[k].setup
<1>1. checkouts \in Seq(CheckoutRow)
  BY DEF CheckoutsInv, ShapeInv
<1>2. \A k \in DOMAIN checkouts : checkouts[k] \in CheckoutRow
  BY <1>1
<1>3. ASSUME UNCHANGED checkouts
      PROVE  Types /\ Steps /\ Same /\ Setup
  BY <1>1, <1>3 DEF RowStep
<1>4. ASSUME NEW c \in Caller, AttachRecords(c)
      PROVE  Types /\ Steps /\ Setup
  <2>1. checkouts' = Append(checkouts, Recorded(c)) /\ At(c, "record")
    BY <1>4 DEF AttachRecords
  <2>2. Recorded(c) \in CheckoutRow
    BY <2>1, RecordedRow
  <2>3. Types /\ \A k \in DOMAIN checkouts : checkouts'[k] = checkouts[k]
    BY <1>1, <2>1, <2>2
  <2> QED
    BY <2>3 DEF RowStep
<1>5. ASSUME NEW c \in Caller, ArchiveRecords(c)
      PROVE  Types /\ Steps /\ Same /\ Setup
  <2>1. CASE UNCHANGED checkouts
    BY <1>3, <2>1
  <2>2. CASE Archived(call[c].co, call[c].kept)
    <3>1. At(c, "archived") /\ call[c].co \in DOMAIN checkouts /\ call[c].kept \in BOOLEAN
      BY <1>5 DEF CheckoutsInv, AskedInv, ArchiveRecords, At, ShapeInv, CallRecord
    <3>2. \/ checkouts[call[c].co].mode = "in_place" \/ call[c].kept
          \/ tree[checkouts[call[c].co].path] = None
      BY <3>1 DEF CheckoutsInv, LockInv
    <3> QED
      BY <1>1, <2>2, <3>1, <3>2, RowArchived
  <2> QED
    BY <1>5, <2>1, <2>2 DEF ArchiveRecords
<1>6. ASSUME NEW c \in Caller, ForgetArchives(c)
      PROVE  Types /\ Steps /\ Same /\ Setup
  <2> DEFINE keeps(k) == checkouts[k].mode = "worktree" /\ tree[checkouts[k].path] # None
  <2>1. UNCHANGED checkouts \/ \E k \in DOMAIN checkouts : Archived(k, keeps(k))
    BY <1>6 DEF ForgetArchives, Active
  <2>2. ASSUME NEW k \in DOMAIN checkouts, Archived(k, keeps(k))
        PROVE  Types /\ Steps /\ Same /\ Setup
    <3>1. keeps(k) \in BOOLEAN /\ (keeps(k) \/ checkouts[k].mode = "in_place" \/ tree[checkouts[k].path] = None)
      BY <1>2 DEF CheckoutRow
    <3> HIDE DEF keeps
    <3> QED
      BY <1>1, <2>2, <3>1, RowArchived
  <2> QED
    BY <1>3, <2>1, <2>2
<1>7. ASSUME NEW i \in Item, SetupBegins(i) \/ SetupEnds(i)
      PROVE  Types /\ Steps /\ Same
  <2> DEFINE k == work[i].co
  <2>1. k \in DOMAIN checkouts
    <3>1. work[i].at \in {"held", "setup"}
      BY <1>7 DEF SetupBegins, SetupEnds
    <3>2. work[i] # Idle
      BY <3>1 DEF Idle
    <3>3. PICK j \in DOMAIN checkouts, at \in {"held", "setup"} : work[i] = [at |-> at, co |-> j]
      BY <3>2 DEF CheckoutsInv, WorkInv
    <3>4. k = j
      BY <3>3
    <3> QED
      BY <3>4
  <2>2. \/ UNCHANGED checkouts
        \/ \E s \in {"none", "running", "done", "failed"} : checkouts' = [checkouts EXCEPT ![k].setup = s]
    BY <1>7 DEF SetupBegins, SetupEnds
  <2> HIDE DEF k
  <2> QED
    BY <1>1, <1>3, <2>1, <2>2, RowSetUp
<1>8. ASSUME Restart
      PROVE  Types /\ Steps /\ Same
  <2> DEFINE again(k) == [checkouts[k] EXCEPT !.setup = "pending"]
  <2>1. \A k \in DOMAIN checkouts : again(k) \in CheckoutRow /\ RowStep(checkouts[k], again(k))
    BY <1>2 DEF CheckoutRow, RowStep
  <2>2. /\ checkouts' = [k \in DOMAIN checkouts |->
                           IF Active(k) /\ checkouts[k].setup = "running" THEN again(k) ELSE checkouts[k]]
    BY <1>8 DEF Restart, ResumeInterruptedSetups
  <2> HIDE DEF again
  <2>3. DOMAIN checkouts' = 1..Len(checkouts) /\ Len(checkouts) \in Nat /\ Same
    BY <1>1, <2>2
  <2>4. \A k \in DOMAIN checkouts : checkouts'[k] \in CheckoutRow /\ RowStep(checkouts[k], checkouts'[k])
    BY <1>2, <2>1, <2>2 DEF RowStep
  <2>5. checkouts' \in [1..Len(checkouts) -> CheckoutRow]
    BY <2>2, <2>3, <2>4
  <2> QED
    BY <2>3, <2>4, <2>5
<1> HIDE DEF Types, Steps, Same, Setup
<1>9. /\ Types /\ Steps
      /\ Same \/ \E c \in Caller : AttachRecords(c)
      /\ Setup \/ (\E i \in Item : SetupBegins(i) \/ SetupEnds(i)) \/ Restart
  BY <1>3, <1>4, <1>5, <1>6, <1>7, <1>8, RowsFrame
<1> QED
  BY <1>9 DEF Types, Steps, Same, Setup

-----------------------------------------------------------------------------
(* The shape of the state *)

LEMMA ServeTyped ==
  ASSUME CheckoutsInv, [Next]_vars
  PROVE  call' \in [Caller -> CallRecord]
<1>1. call \in [Caller -> CallRecord] /\ NoCall \in CallRecord
  BY DEF CheckoutsInv, ShapeInv, NoCall, CallRecord, Remote
<1>2. ASSUME NEW c \in Caller, Serve(c)
      PROVE  call' \in [Caller -> CallRecord]
  BY <1>1, <1>2, ServeCall DEF CheckoutsInv
<1>3. CASE Restart
  BY <1>1, <1>3 DEF Restart
<1> QED
  BY <1>1, <1>2, <1>3, CallFrame

LEMMA TreesTyped ==
  ASSUME CheckoutsInv, [Next]_vars
  PROVE  tree' \in [Dir -> Worktree \cup {None}]
<1> DEFINE Goal == tree' \in [Dir -> Worktree \cup {None}]
<1>1. tree \in [Dir -> Worktree \cup {None}] /\ disk \in [Place -> Clone \cup {None}]
  BY DEF CheckoutsInv, ShapeInv
<1>2. ASSUME NEW d, NEW t \in Worktree \cup {None}, tree' = [tree EXCEPT ![d] = t]
      PROVE  Goal
  BY <1>1, <1>2
<1>3. ASSUME NEW c \in Caller, AttachBegin(c)
      PROVE  Goal
  <2>1. call[c].path \in Place
    BY <1>3 DEF CheckoutsInv, AskedInv, AttachBegin, At
  <2>2. UNCHANGED tree \/ \E d \in Dir : Add(call[c].path, d) /\ CanAdd(call[c].path, call[c].item)
    BY <1>3 DEF AttachBegin, FreeDir
  <2>3. ASSUME NEW d \in Dir, Add(call[c].path, d), CanAdd(call[c].path, call[c].item)
        PROVE  Goal
    <3> DEFINE t == [clone |-> disk[call[c].path], home |-> call[c].path, unsaved |-> "no"]
    <3>1. t \in Worktree /\ tree' = [tree EXCEPT ![d] = t]
      BY <1>1, <2>1, <2>3 DEF Add, CanAdd, Worktree
    <3> QED
      BY <1>2, <3>1
  <2> QED
    BY <1>1, <2>2, <2>3
<1>4. ASSUME NEW c \in Caller, AttachUndoes(c) \/ ArchiveRemoves(c)
      PROVE  Goal
  <2>1. UNCHANGED tree \/ \E d : tree' = [tree EXCEPT ![d] = None]
    BY <1>4 DEF AttachUndoes, ArchiveRemoves
  <2> QED
    BY <1>1, <1>2, <2>1
<1>5. ASSUME NEW c \in Caller, Repairs(c)
      PROVE  Goal
  <2> DEFINE p == call[c].path
  <2>1. p \in Place
    BY <1>5 DEF CheckoutsInv, AskedInv, Repairs, At
  <2>2. \A d \in Dir : tree[d] # None => [tree[d] EXCEPT !.home = p] \in Worktree
    BY <1>1, <2>1 DEF Worktree
  <2> DEFINE mine == {d \in Dir : tree[d] # None /\ tree[d].clone = disk[p]
                                   /\ \E k \in ActiveOf(call[c].repo) : checkouts[k].path = d}
  <2>3. tree' = [d \in Dir |-> IF d \in mine THEN [tree[d] EXCEPT !.home = p] ELSE tree[d]]
    BY <1>5 DEF Repairs
  <2>4. \A d \in Dir : (IF d \in mine THEN [tree[d] EXCEPT !.home = p] ELSE tree[d]) \in Worktree \cup {None}
    BY <1>1, <2>2, <2>3
  <2> QED
    BY <2>3, <2>4
<1>6. ASSUME NEW d \in Dir, Writes(d)
      PROVE  Goal
  <2>1. tree[d] \in Worktree
    BY <1>1, <1>6 DEF Writes
  <2>2. \E u \in {"yes", "late"} : tree' = [tree EXCEPT ![d] = [tree[d] EXCEPT !.unsaved = u]]
    BY <1>6 DEF Writes
  <2>3. \A u \in {"yes", "late"} : [tree[d] EXCEPT !.unsaved = u] \in Worktree
    BY <2>1 DEF Worktree
  <2> QED
    BY <1>2, <2>2, <2>3
<1>7. ASSUME NEW d \in Dir, DeletesTree(d)
      PROVE  Goal
  BY <1>2, <1>7 DEF DeletesTree
<1>8. ASSUME UNCHANGED tree
      PROVE  Goal
  BY <1>1, <1>8
<1> HIDE DEF Goal
<1>9. Goal
  BY <1>3, <1>4, <1>5, <1>6, <1>7, <1>8, TreeFrame DEF Goal
<1> QED
  BY <1>9 DEF Goal

LEMMA ReposTyped ==
  ASSUME CheckoutsInv, [Next]_vars
  PROVE  repos' \in [Repo -> RepoRow \cup {None}]
<1> DEFINE Goal == repos' \in [Repo -> RepoRow \cup {None}]
<1>1. repos \in [Repo -> RepoRow \cup {None}]
  BY DEF CheckoutsInv, ShapeInv
<1>2. ASSUME NEW r, NEW q \in RepoRow \cup {None}, repos' = [repos EXCEPT ![r] = q]
      PROVE  Goal
  BY <1>1, <1>2
<1>3. ASSUME NEW c \in Caller, Settles(c)
      PROVE  Goal
  <2>1. CASE SetRepoStatus(call[c].repo, call[c].seen) /\ Row(c) # None
    <3> DEFINE r == call[c].repo
               s == IF call[c].seen THEN "present" ELSE "missing"
    <3>1. r \in Repo /\ repos[r] \in RepoRow
      BY <1>1, <1>3, <2>1 DEF CheckoutsInv, AskedInv, Settles, At, Row
    <3>2. [repos[r] EXCEPT !.status = s] \in RepoRow /\ repos' = [repos EXCEPT ![r] = [repos[r] EXCEPT !.status = s]]
      BY <2>1, <3>1 DEF SetRepoStatus, RepoRow
    <3> QED
      BY <1>2, <3>2
  <2> QED
    BY <1>1, <1>3, <2>1 DEF Settles
<1>4. ASSUME NEW c \in Caller, At(c, "place")
      PROVE  Placed(c) \in RepoRow
  <2>1. call[c].path \in Place /\ call[c].remote \in Remote
    BY <1>4 DEF CheckoutsInv, AskedInv, ShapeInv, CallRecord, At
  <2> QED
    BY <2>1 DEF Placed, RepoRow
<1>5. ASSUME NEW c \in Caller, RegisterRow(c) \/ RelocateRow(c)
      PROVE  Goal
  <2>1. UNCHANGED repos \/ (At(c, "place") /\ \E r : repos' = [repos EXCEPT ![r] = Placed(c)])
    BY <1>5 DEF RegisterRow, RelocateRow
  <2> QED
    BY <1>1, <1>2, <1>4, <2>1
<1>6. ASSUME NEW c \in Caller, ForgetDrops(c)
      PROVE  Goal
  BY <1>2, <1>6 DEF ForgetDrops
<1>7. ASSUME UNCHANGED repos
      PROVE  Goal
  BY <1>1, <1>7
<1> HIDE DEF Goal
<1>8. Goal
  BY <1>3, <1>5, <1>6, <1>7, ReposFrame
<1> QED
  BY <1>8 DEF Goal

LEMMA UsedTyped ==
  ASSUME CheckoutsInv, [Next]_vars
  PROVE  used' \in [calls : Nat, moves : Nat, faults : Nat, crashes : Nat]
<1>1. used \in [calls : Nat, moves : Nat, faults : Nat, crashes : Nat]
  BY DEF CheckoutsInv, ShapeInv
<1>2. ASSUME NEW c \in Caller, Serve(c)
      PROVE  UNCHANGED used \/ \E what \in {"calls", "faults"} : Spend(what)
  BY <1>2 DEF Serve, Asks, ForgetLook, Inspects, AsksArchive, Inherits, Settles, AttachBegin, AttachRecords, Begins,
      AttachUndoes, ArchiveLook, ArchiveRemoves, ArchiveRecords, ForgetArchives, ForgetCheck, ForgetDrops,
      RegisterRow, RelocateRow, Repairs
<1>3. UNCHANGED used \/ \E what \in {"calls", "moves", "faults", "crashes"} : Spend(what)
  BY <1>2 DEF Next, vars, WorkerHolds, SetupBegins, SetupEnds, Writes, DeletesTree, TakesAway, Puts, Restart
<1>4. ASSUME NEW what \in {"calls", "moves", "faults", "crashes"}, Spend(what)
      PROVE  used' \in [calls : Nat, moves : Nat, faults : Nat, crashes : Nat]
  BY <1>1, <1>4 DEF Spend
<1> QED
  BY <1>1, <1>3, <1>4

LEMMA WorkTyped ==
  ASSUME CheckoutsInv, [Next]_vars
  PROVE  work' \in [Item -> [at : {"idle", "held", "setup"}, co : Nat]]
<1> DEFINE At0 == [at : {"idle", "held", "setup"}, co : Nat]
<1>1. work \in [Item -> At0] /\ Idle \in At0 /\ DOMAIN checkouts \subseteq Nat
  BY DEF CheckoutsInv, ShapeInv, Idle
<1>2. ASSUME NEW i \in Item, NEW k \in DOMAIN checkouts, WorkerHolds(i, k)
      PROVE  work' \in [Item -> At0]
  BY <1>1, <1>2 DEF WorkerHolds
<1>3. ASSUME NEW i \in Item, SetupBegins(i)
      PROVE  work' \in [Item -> At0]
  <2>1. work[i] \in At0 /\ [work[i] EXCEPT !.at = "setup"] \in At0
    BY <1>1
  <2>2. work' = [work EXCEPT ![i] = Idle] \/ work' = [work EXCEPT ![i] = [work[i] EXCEPT !.at = "setup"]]
    BY <1>3 DEF SetupBegins
  <2> QED
    BY <1>1, <2>1, <2>2
<1>4. ASSUME NEW i \in Item, SetupEnds(i)
      PROVE  work' \in [Item -> At0]
  BY <1>1, <1>4 DEF SetupEnds
<1>5. CASE Restart
  BY <1>1, <1>5 DEF Restart
<1> QED
  BY <1>1, <1>2, <1>3, <1>4, <1>5, WorkFrame

LEMMA ShapeStep ==
  ASSUME CheckoutsInv, [Next]_vars
  PROVE  ShapeInv'
<1>1. disk' \in [Place -> Clone \cup {None}]
  <2>1. disk \in [Place -> Clone \cup {None}]
    BY DEF CheckoutsInv, ShapeInv
  <2>2. ASSUME NEW c \in Caller, Serve(c)
        PROVE  UNCHANGED disk
    BY <2>2 DEF Serve, onDisk, Asks, ForgetLook, Inspects, AsksArchive, Inherits, Settles, AttachBegin, AttachRecords,
        AttachUndoes, ArchiveLook, ArchiveRemoves, ArchiveRecords, ForgetArchives, ForgetCheck, ForgetDrops,
        RegisterRow, RelocateRow, Repairs
  <2>3. \/ UNCHANGED disk
        \/ \E p \in Place : TakesAway(p) \/ \E c \in Clone : Puts(c, p)
    BY <2>2 DEF Next, vars, onDisk, WorkerHolds, SetupBegins, SetupEnds, Writes, DeletesTree, Restart
  <2> QED
    BY <2>1, <2>3 DEF TakesAway, Puts
<1>2. lock' \in Caller \cup {None}
  BY LockFrame DEF CheckoutsInv, ShapeInv, AttachBegin, ArchiveLook, AttachRecords, AttachUndoes, ArchiveRecords, Restart
<1> QED
  BY <1>1, <1>2, ServeTyped, TreesTyped, ReposTyped, UsedTyped, WorkTyped, RowsStep DEF ShapeInv

-----------------------------------------------------------------------------
(* The unique indexes *)

\* The row of an attach comes last.
LEMMA RowAdded ==
  ASSUME CheckoutsInv, NEW c \in Caller, AttachRecords(c)
  PROVE  \E n \in Nat : /\ n \notin DOMAIN checkouts /\ DOMAIN checkouts' = DOMAIN checkouts \cup {n}
                        /\ checkouts'[n] = Recorded(c)
                        /\ \A k \in DOMAIN checkouts : checkouts'[k] = checkouts[k]
<1>1. checkouts \in Seq(CheckoutRow) /\ checkouts' = Append(checkouts, Recorded(c))
  BY DEF CheckoutsInv, ShapeInv, AttachRecords
<1>2. Len(checkouts) + 1 \in Nat /\ DOMAIN checkouts' = 1..(Len(checkouts) + 1) /\ DOMAIN checkouts = 1..Len(checkouts)
  BY <1>1
<1>3. checkouts'[Len(checkouts) + 1] = Recorded(c) /\ \A k \in DOMAIN checkouts : checkouts'[k] = checkouts[k]
  BY <1>1
<1>4. Len(checkouts) + 1 \notin DOMAIN checkouts /\ DOMAIN checkouts' = DOMAIN checkouts \cup {Len(checkouts) + 1}
  BY <1>1, <1>2
<1> QED
  BY <1>2, <1>3, <1>4

\* A row is in a directory of hidane's if and only if it is of a worktree.
LEMMA PlacesStep ==
  ASSUME CheckoutsInv, [Next]_vars
  PROVE  \A k \in DOMAIN checkouts' : checkouts'[k].mode = "worktree" <=> checkouts'[k].path \in Dir
<1>1. \A k \in DOMAIN checkouts : checkouts'[k].mode = "worktree" <=> checkouts'[k].path \in Dir
  BY RowsStep DEF RowStep, CheckoutsInv, TablesInv
<1>2. ASSUME NEW c \in Caller, AttachRecords(c)
      PROVE  \A k \in DOMAIN checkouts' : checkouts'[k].mode = "worktree" <=> checkouts'[k].path \in Dir
  <2>1. PICK n \in Nat : DOMAIN checkouts' = DOMAIN checkouts \cup {n} /\ checkouts'[n] = Recorded(c)
    BY <1>2, RowAdded
  <2>2. call[c].dir \in IF call[c].inPlace THEN Place ELSE Dir
    BY <1>2 DEF CheckoutsInv, LockInv, AttachRecords
  <2>3. Recorded(c).mode = "worktree" <=> Recorded(c).path \in Dir
    BY <2>2, CheckoutsAssumption DEF Recorded
  <2> QED
    BY <1>1, <2>1, <2>3
<1> QED
  BY <1>1, <1>2, RowsStep

\* No two repositories have one path.
LEMMA PathsStep ==
  ASSUME CheckoutsInv, [Next]_vars
  PROVE  \A r, q \in Repo : repos'[r] # None /\ repos'[q] # None /\ repos'[r].path = repos'[q].path => r = q
<1> DEFINE Goal == \A r, q \in Repo : repos'[r] # None /\ repos'[q] # None /\ repos'[r].path = repos'[q].path => r = q
<1>1. /\ \A r, q \in Repo : repos[r] # None /\ repos[q] # None /\ repos[r].path = repos[q].path => r = q
      /\ repos \in [Repo -> RepoRow \cup {None}]
  BY DEF CheckoutsInv, ShapeInv, TablesInv
<1>2. ASSUME UNCHANGED repos
      PROVE  Goal
  BY <1>1, <1>2
<1>3. ASSUME NEW c \in Caller, Settles(c)
      PROVE  Goal
  <2>1. ASSUME SetRepoStatus(call[c].repo, call[c].seen), Row(c) # None
        PROVE  Goal
    <3>1. call[c].repo \in Repo /\ repos[call[c].repo] \in RepoRow
      BY <1>1, <1>3, <2>1 DEF CheckoutsInv, AskedInv, Settles, At, Row
    <3>2. \A r \in Repo : (repos'[r] # None => repos[r] # None) /\ repos'[r].path = repos[r].path
      BY <1>1, <2>1, <3>1 DEF SetRepoStatus, RepoRow, Row
    <3> QED
      BY <1>1, <3>2
  <2> HIDE DEF Goal
  <2> QED
    BY <1>2, <1>3, <2>1 DEF Settles
<1>4. ASSUME NEW c \in Caller, NEW r \in Repo, repos' = [repos EXCEPT ![r] = Placed(c)],
             Taken(call[c].path) \subseteq {r}
      PROVE  Goal
  <2>1. repos'[r].path = call[c].path /\ \A q \in Repo : q # r => repos'[q] = repos[q]
    BY <1>1, <1>4 DEF Placed
  <2>2. \A q \in Repo : repos[q] # None /\ repos[q].path = call[c].path => q = r
    BY <1>4 DEF Taken
  <2> QED
    BY <1>1, <2>1, <2>2
<1>5. ASSUME NEW c \in Caller, RegisterRow(c)
      PROVE  Goal
  <2>1. PICK r \in Repo : /\ repos' = [repos EXCEPT ![r] = Placed(c)]
                          /\ Taken(call[c].path) # {} => r \in Taken(call[c].path)
    BY <1>5 DEF RegisterRow, Taken
  <2>2. Taken(call[c].path) \subseteq {r}
    BY <1>1, <2>1 DEF Taken
  <2> HIDE DEF Goal
  <2> QED
    BY <1>4, <2>1, <2>2
<1>6. ASSUME NEW c \in Caller, RelocateRow(c)
      PROVE  Goal
  <2>1. \/ UNCHANGED repos
        \/ /\ repos' = [repos EXCEPT ![call[c].repo] = Placed(c)]
           /\ Taken(call[c].path) \subseteq {call[c].repo}
    BY <1>6 DEF RelocateRow
  <2>2. call[c].repo \in Repo
    BY <1>6 DEF CheckoutsInv, ShapeInv, CallRecord, RelocateRow
  <2> HIDE DEF Goal
  <2> QED
    BY <1>2, <1>4, <2>1, <2>2
<1>7. ASSUME NEW c \in Caller, ForgetDrops(c)
      PROVE  Goal
  <2>1. \A r \in Repo : repos'[r] # None => repos'[r] = repos[r]
    BY <1>1, <1>7 DEF ForgetDrops
  <2> QED
    BY <1>1, <2>1
<1> HIDE DEF Goal
<1>8. Goal
  BY <1>2, <1>3, <1>5, <1>6, <1>7, ReposFrame
<1> QED
  BY <1>8 DEF Goal

\* An item has one active checkout of a repository, and one item at most is in the original.
LEMMA LeasesStep ==
  ASSUME CheckoutsInv, [Next]_vars
  PROVE  \A j, k \in DOMAIN checkouts' :
           Active(j)' /\ Active(k)' /\ checkouts'[j].repo = checkouts'[k].repo =>
             \/ j = k
             \/ /\ checkouts'[j].item # checkouts'[k].item
                /\ "worktree" \in {checkouts'[j].mode, checkouts'[k].mode}
<1> DEFINE Apart(j, k) == \/ j = k
                          \/ /\ checkouts'[j].item # checkouts'[k].item
                             /\ "worktree" \in {checkouts'[j].mode, checkouts'[k].mode}
           Near(j, k) == checkouts'[j].status = "active" /\ checkouts'[k].status = "active"
                         /\ checkouts'[j].repo = checkouts'[k].repo
<1>1. \A k \in DOMAIN checkouts : checkouts'[k].status = "active" => Active(k)
  BY RowsStep DEF RowStep, Active
<1>2. \A j, k \in DOMAIN checkouts : Near(j, k) => Apart(j, k)
  BY <1>1, RowsStep DEF RowStep, CheckoutsInv, TablesInv
<1>3. ASSUME NEW c \in Caller, AttachRecords(c), NEW n \in Nat, NEW k \in DOMAIN checkouts,
             checkouts'[n] = Recorded(c), Near(n, k)
      PROVE  Apart(n, k) /\ Apart(k, n)
  <2>1. /\ Recorded(c).repo = call[c].repo /\ Recorded(c).item = call[c].item
        /\ Recorded(c).mode = IF call[c].inPlace THEN "in_place" ELSE "worktree"
    BY DEF Recorded
  <2>2. Active(k) /\ checkouts'[k].repo = checkouts[k].repo /\ checkouts'[k].item = checkouts[k].item
        /\ checkouts'[k].mode = checkouts[k].mode /\ checkouts[k].repo = call[c].repo
    BY <1>1, <1>3, <2>1, RowsStep DEF RowStep
  <2>3. ~Held(c) /\ ~(call[c].inPlace /\ Lease(call[c].repo) # {})
    BY <1>3 DEF CheckoutsInv, LockInv, AttachRecords
  <2>4. checkouts[k].item # call[c].item
    BY <2>2, <2>3 DEF Held, ActiveOf
  <2>5. call[c].inPlace => checkouts[k].mode # "in_place"
    BY <2>2, <2>3 DEF Lease, ActiveOf
  <2>6. checkouts[k].mode \in {"in_place", "worktree"}
    <3>1. checkouts[k] \in CheckoutRow
      BY DEF CheckoutsInv, ShapeInv
    <3> QED
      BY <3>1 DEF CheckoutRow
  <2> QED
    BY <1>3, <2>1, <2>2, <2>4, <2>5, <2>6
<1>4. ASSUME NEW c \in Caller, AttachRecords(c)
      PROVE  \A j, k \in DOMAIN checkouts' : Near(j, k) => Apart(j, k)
  <2>1. PICK n \in Nat : DOMAIN checkouts' = DOMAIN checkouts \cup {n} /\ checkouts'[n] = Recorded(c)
    BY <1>4, RowAdded
  <2>2. \A k \in DOMAIN checkouts : (Near(n, k) \/ Near(k, n)) => Apart(n, k) /\ Apart(k, n)
    BY <1>3, <1>4, <2>1
  <2> QED
    BY <1>2, <2>1, <2>2
<1>5. \A j, k \in DOMAIN checkouts' : Near(j, k) => Apart(j, k)
  BY <1>2, <1>4, RowsStep
<1> QED
  BY <1>5 DEF Active

LEMMA TablesStep ==
  ASSUME CheckoutsInv, [Next]_vars
  PROVE  TablesInv'
  BY PlacesStep, PathsStep, LeasesStep DEF TablesInv

-----------------------------------------------------------------------------
(* What holding the lock is worth *)

\* What LockInv says of one call.
LockOK(c) ==
  /\ call[c].at \in {"record", "remove", "archived"} => lock = c
  /\ At(c, "record") =>
       /\ ~Held(c)
       /\ call[c].dir \in IF call[c].inPlace THEN Place ELSE Dir
       /\ call[c].dir \in Dir /\ tree[call[c].dir] # None => tree[call[c].dir].unsaved = "no"
  /\ At(c, "remove") =>
       LET row == checkouts[call[c].co] IN
         /\ row.mode = "worktree"
         /\ call[c].force \/ tree[row.path] = None \/ tree[row.path].unsaved # "yes"
  /\ At(c, "archived") =>
       LET row == checkouts[call[c].co] IN row.mode = "in_place" \/ call[c].kept \/ tree[row.path] = None

\* A call's step is of no other.
LEMMA ServesOne ==
  ASSUME CheckoutsInv, NEW a \in Caller, Serve(a)
  PROVE  /\ \E q \in CallRecord : call' = [call EXCEPT ![a] = q] /\ call'[a] = q /\ AskedOK(q) /\ Follows(call[a], q)
         /\ \A c \in Caller : c # a => call'[c] = call[c]
<1>1. call \in [Caller -> CallRecord]
  BY DEF CheckoutsInv, ShapeInv
<1>2. PICK q \in CallRecord : call' = [call EXCEPT ![a] = q] /\ AskedOK(q) /\ Follows(call[a], q)
  BY ServeCall DEF CheckoutsInv
<1> QED
  BY <1>1, <1>2

\* While a call holds the lock the others add no checkout and touch no worktree.
LEMMA OthersWait ==
  ASSUME CheckoutsInv, [Next]_vars, ~Restart, NEW c \in Caller, ~Serve(c),
         call[c].at \in {"record", "remove", "archived"}
  PROVE  /\ call'[c] = call[c] /\ lock = c /\ lock' = c /\ DOMAIN checkouts' = DOMAIN checkouts
         /\ UNCHANGED tree \/ \E d \in Dir : Writes(d) \/ DeletesTree(d)
<1>1. lock = c /\ c # None /\ \A a \in Caller : a # c => call[a].at \notin {"record", "remove", "archived"}
  BY CheckoutsAssumption DEF CheckoutsInv, LockInv
<1>2. call'[c] = call[c]
  BY CallFrame, ServesOne
<1>3. \A a \in Caller : AttachBegin(a) \/ ArchiveLook(a) \/ AttachRecords(a) \/ AttachUndoes(a) \/ ArchiveRecords(a)
                        \/ ArchiveRemoves(a) \/ Repairs(a) => a = c
  BY <1>1 DEF AttachBegin, ArchiveLook, AttachRecords, AttachUndoes, ArchiveRecords, ArchiveRemoves, Repairs, At
<1>4. \A a \in Caller : AttachBegin(a) \/ ArchiveLook(a) \/ AttachRecords(a) \/ AttachUndoes(a) \/ ArchiveRecords(a)
                        \/ ArchiveRemoves(a) \/ Repairs(a) => FALSE
  BY <1>3 DEF Serve
<1>5. lock' = c
  BY <1>1, <1>4, LockFrame
<1>6. DOMAIN checkouts' = DOMAIN checkouts
  BY <1>4, RowsStep
<1>7. UNCHANGED tree \/ \E d \in Dir : Writes(d) \/ DeletesTree(d)
  BY <1>4, TreeFrame
<1> QED
  BY <1>1, <1>2, <1>5, <1>6, <1>7

\* What a write or the person's hand does to a tree.
LEMMA HandOnTree ==
  ASSUME CheckoutsInv, NEW d \in Dir, NEW e \in Dir, Writes(e) \/ DeletesTree(e)
  PROVE  \/ tree'[d] = tree[d]
         \/ d = e /\ tree'[d] = None
         \/ d = e /\ Writes(e) /\ tree[d] # None /\ tree'[d] \in Worktree /\ tree'[d].unsaved \in {"yes", "late"}
            /\ (tree'[d].unsaved = "yes" => ~\E c \in Caller : At(c, "remove") /\ checkouts[call[c].co].path = d)
<1>1. tree \in [Dir -> Worktree \cup {None}]
  BY DEF CheckoutsInv, ShapeInv
<1>2. CASE DeletesTree(e)
  BY <1>1, <1>2 DEF DeletesTree
<1>3. CASE Writes(e)
  <2> DEFINE u == IF \E c \in Caller : At(c, "remove") /\ checkouts[call[c].co].path = e THEN "late" ELSE "yes"
  <2>1. tree[e] \in Worktree
    BY <1>1, <1>3 DEF Writes
  <2>2. tree' = [tree EXCEPT ![e] = [tree[e] EXCEPT !.unsaved = u]]
    BY <1>3 DEF Writes
  <2>3. u \in {"yes", "late"} /\ (u = "yes" => ~\E c \in Caller : At(c, "remove") /\ checkouts[call[c].co].path = e)
    OBVIOUS
  <2> HIDE DEF u
  <2>4. [tree[e] EXCEPT !.unsaved = u] \in Worktree /\ [tree[e] EXCEPT !.unsaved = u].unsaved = u
    BY <2>1, <2>3 DEF Worktree
  <2> QED
    BY <1>1, <1>3, <2>1, <2>2, <2>3, <2>4, CheckoutsAssumption
<1> QED
  BY <1>2, <1>3

\* A call that waits keeps what it relies on.
LEMMA LockWaits ==
  ASSUME CheckoutsInv, [Next]_vars, ~Restart, NEW c \in Caller, ~Serve(c)
  PROVE  LockOK(c)'
<1>1. ASSUME call[c].at \notin {"record", "remove", "archived"}
      PROVE  LockOK(c)'
  <2>1. call'[c] = call[c]
    BY CallFrame, ServesOne
  <2> QED
    BY <1>1, <2>1 DEF LockOK, At
<1>2. ASSUME call[c].at \in {"record", "remove", "archived"}
      PROVE  LockOK(c)'
  <2>1. call'[c] = call[c] /\ lock' = c /\ DOMAIN checkouts' = DOMAIN checkouts
    BY <1>2, OthersWait
  <2>2. UNCHANGED tree \/ \E e \in Dir : Writes(e) \/ DeletesTree(e)
    BY <1>2, OthersWait
  <2>3. \A k \in DOMAIN checkouts : RowStep(checkouts[k], checkouts'[k])
    BY RowsStep
  <2>4. ASSUME call[c].at = "record"
        PROVE  /\ ~Held(c)'
               /\ call'[c].dir \in IF call'[c].inPlace THEN Place ELSE Dir
               /\ call'[c].dir \in Dir /\ tree'[call'[c].dir] # None => tree'[call'[c].dir].unsaved = "no"
    <3>1. /\ ~Held(c) /\ call[c].dir \in IF call[c].inPlace THEN Place ELSE Dir
          /\ call[c].dir \in Dir /\ tree[call[c].dir] # None => tree[call[c].dir].unsaved = "no"
      BY <2>4 DEF CheckoutsInv, LockInv, At
    <3>2. ~Held(c)'
      BY <2>1, <2>3, <3>1 DEF Held, ActiveOf, Active, RowStep
    <3>3. \A e \in Dir : Writes(e) => call[c].dir # e
      BY <2>4 DEF Writes, At
    <3>4. call[c].dir \in Dir /\ tree'[call[c].dir] # None => tree'[call[c].dir].unsaved = "no"
      BY <2>2, <3>1, <3>3, HandOnTree
    <3> QED
      BY <2>1, <3>1, <3>2, <3>4
  <2>5. ASSUME call[c].at \in {"remove", "archived"}
        PROVE  /\ call[c].co \in DOMAIN checkouts /\ checkouts[call[c].co] \in CheckoutRow
               /\ RowStep(checkouts[call[c].co], checkouts'[call[c].co])
               /\ checkouts[call[c].co].mode = "worktree" => checkouts[call[c].co].path \in Dir
    <3>1. call[c].co \in DOMAIN checkouts
      BY <2>5 DEF CheckoutsInv, AskedInv
    <3> QED
      BY <2>3, <3>1 DEF CheckoutsInv, ShapeInv, TablesInv
  <2>6. ASSUME call[c].at = "remove"
        PROVE  /\ checkouts'[call'[c].co].mode = "worktree"
               /\ \/ call'[c].force \/ tree'[checkouts'[call'[c].co].path] = None
                  \/ tree'[checkouts'[call'[c].co].path].unsaved # "yes"
    <3> DEFINE d == checkouts[call[c].co].path
    <3>1. checkouts[call[c].co].mode = "worktree" /\ (call[c].force \/ tree[d] = None \/ tree[d].unsaved # "yes")
      BY <2>6 DEF CheckoutsInv, LockInv, At
    <3>2. d \in Dir /\ checkouts'[call[c].co].mode = "worktree" /\ checkouts'[call[c].co].path = d
      BY <2>5, <2>6, <3>1 DEF RowStep
    <3>3. At(c, "remove") /\ checkouts[call[c].co].path = d
      BY <2>6 DEF At
    <3> HIDE DEF d
    <3>4. \/ tree'[d] = tree[d] \/ tree'[d] = None \/ tree'[d].unsaved # "yes"
      BY <2>2, <3>2, <3>3, HandOnTree
    <3> QED
      BY <2>1, <3>1, <3>2, <3>4
  <2>7. ASSUME call[c].at = "archived"
        PROVE  \/ checkouts'[call'[c].co].mode = "in_place" \/ call'[c].kept
               \/ tree'[checkouts'[call'[c].co].path] = None
    <3> DEFINE d == checkouts[call[c].co].path
    <3>1. checkouts[call[c].co].mode = "in_place" \/ call[c].kept \/ tree[d] = None
      BY <2>7 DEF CheckoutsInv, LockInv, At
    <3>2. /\ checkouts'[call[c].co].mode = checkouts[call[c].co].mode /\ checkouts'[call[c].co].path = d
          /\ checkouts[call[c].co].mode \in {"in_place", "worktree"}
          /\ checkouts[call[c].co].mode = "worktree" => d \in Dir
      BY <2>5, <2>7 DEF RowStep, CheckoutRow
    <3> HIDE DEF d
    <3>3. d \in Dir /\ tree[d] = None => tree'[d] = None
      BY <2>2, HandOnTree
    <3> QED
      BY <2>1, <3>1, <3>2, <3>3
  <2> QED
    BY <2>1, <2>4, <2>6, <2>7 DEF LockOK, At
<1> QED
  BY <1>1, <1>2

\* What AttachBegin leaves.
LEMMA LockTaken ==
  ASSUME CheckoutsInv, NEW c \in Caller, AttachBegin(c), At(c, "record")'
  PROVE  LockOK(c)'
<1>1. /\ call[c] \in CallRecord /\ NoCall.at = "idle" /\ call \in [Caller -> CallRecord]
      /\ tree \in [Dir -> Worktree \cup {None}] /\ call[c].path \in Place /\ UNCHANGED checkouts
  BY DEF CheckoutsInv, ShapeInv, NoCall, AskedInv, AttachBegin, At, tables
<1>2. PICK d \in Place \cup Dir :
        /\ call'[c] = Recording(c, d) /\ lock' = c /\ ~Held(c)
        /\ \/ call[c].inPlace /\ d = call[c].path
           \/ ~call[c].inPlace /\ d \in Dir /\ Add(call[c].path, d)
  <2>1. ~Returns(c)
    BY <1>1 DEF Returns, Goes, At
  <2> QED
    BY <1>1, <2>1 DEF AttachBegin, Goes, FreeDir
<1>3. LET q == Recording(c, d)
      IN  q.at = "record" /\ q.inPlace = call[c].inPlace /\ q.item = call[c].item /\ q.repo = call[c].repo /\ q.dir = d
  BY <1>1 DEF Recording, With, CallRecord
<1>4. /\ call'[c].at = "record" /\ call'[c].inPlace = call[c].inPlace /\ call'[c].item = call[c].item
      /\ call'[c].repo = call[c].repo /\ call'[c].dir = d
  BY <1>2, <1>3
<1>5. ~Held(c)'
  BY <1>1, <1>2, <1>4 DEF Held, ActiveOf, Active
<1>6. d \in Dir => tree'[d].unsaved = "no"
  BY <1>1, <1>2, CheckoutsAssumption DEF Add
<1> QED
  BY <1>1, <1>2, <1>4, <1>5, <1>6 DEF LockOK, At

\* What Archive leaves when it has looked.
LEMMA LockLooked ==
  ASSUME CheckoutsInv, NEW c \in Caller, ArchiveLook(c)
  PROVE  LockOK(c)'
<1> DEFINE row == checkouts[call[c].co]
           d == row.path
           p == IF repos[row.repo] = None THEN None ELSE repos[row.repo].path
           gone == row.mode = "worktree" /\ tree[d] = None
           to(a, kept) == [With(c, a) EXCEPT !.kept = kept, !.path = p]
<1>1. /\ call[c] \in CallRecord /\ call \in [Caller -> CallRecord] /\ NoCall.at = "idle"
      /\ tree \in [Dir -> Worktree \cup {None}] /\ UNCHANGED <<tree, checkouts>> /\ row \in CheckoutRow
  BY DEF CheckoutsInv, ShapeInv, AskedInv, ArchiveLook, At, tables, NoCall
<1>2. \/ Returns(c)
      \/ Goes(c, to("archived", FALSE)) /\ lock' = c /\ (row.mode = "in_place" \/ gone)
      \/ Goes(c, to("archived", TRUE)) /\ lock' = c
      \/ Goes(c, to("remove", FALSE)) /\ lock' = c /\ ~(row.mode = "in_place" \/ gone)
         /\ (call[c].force \/ ~Dirty(d, p)) /\ ~Keeps(d, p)
  <2> HIDE DEF row
  <2> QED
    BY DEF ArchiveLook, row
<1>3. ASSUME NEW a \in {"remove", "archived"}, NEW kept \in BOOLEAN
      PROVE  /\ to(a, kept).at = a /\ to(a, kept).kept = kept
             /\ to(a, kept).co = call[c].co /\ to(a, kept).force = call[c].force
  <2> HIDE DEF p
  <2> QED
    BY <1>1 DEF With, CallRecord
<1>4. row.mode \in {"in_place", "worktree"}
  BY <1>1 DEF CheckoutRow
<1> HIDE DEF to, p
<1>5. ASSUME Returns(c)
      PROVE  LockOK(c)'
  BY <1>1, <1>5 DEF Returns, Goes, LockOK, At
<1>6. ASSUME NEW kept \in BOOLEAN, Goes(c, to("archived", kept)), lock' = c, kept \/ row.mode = "in_place" \/ gone
      PROVE  LockOK(c)'
  <2>1. call'[c].at = "archived" /\ call'[c].kept = kept /\ call'[c].co = call[c].co
    BY <1>1, <1>3, <1>6 DEF Goes
  <2> QED
    BY <1>1, <1>6, <2>1 DEF LockOK, At
<1>7. ASSUME Goes(c, to("remove", FALSE)), lock' = c, row.mode # "in_place", call[c].force \/ ~Dirty(d, p), ~Keeps(d, p)
      PROVE  LockOK(c)'
  <2>1. call'[c].at = "remove" /\ call'[c].co = call[c].co /\ call'[c].force = call[c].force
    BY <1>1, <1>3, <1>7 DEF Goes
  <2>2. call[c].force \/ tree[d].unsaved = "no"
    BY <1>7 DEF Dirty, Keeps
  <2> QED
    BY <1>1, <1>4, <1>7, <2>1, <2>2 DEF LockOK, At
<1> HIDE DEF row, gone
<1> QED
  BY <1>2, <1>5, <1>6, <1>7

\* What Archive leaves when the directory is removed.
LEMMA LockRemoved ==
  ASSUME CheckoutsInv, NEW c \in Caller, ArchiveRemoves(c)
  PROVE  LockOK(c)'
<1> DEFINE d == checkouts[call[c].co].path
<1>1. /\ call[c] \in CallRecord /\ call \in [Caller -> CallRecord]
      /\ tree \in [Dir -> Worktree \cup {None}] /\ At(c, "remove")
      /\ call[c].co \in DOMAIN checkouts /\ lock = c
      /\ UNCHANGED <<lock, checkouts>> /\ checkouts[call[c].co].mode = "worktree"
  BY DEF CheckoutsInv, ShapeInv, AskedInv, LockInv, ArchiveRemoves, At, tables
<1>2. d \in Dir
  BY <1>1 DEF CheckoutsInv, TablesInv
<1>3. tree'[d] = None
  BY <1>1, <1>2 DEF ArchiveRemoves
<1>4. call'[c].at = "archived" /\ call'[c].co = call[c].co
  BY <1>1 DEF ArchiveRemoves, Goes, With, CallRecord
<1> QED
  BY <1>1, <1>3, <1>4 DEF LockOK, At

LEMMA LockStep ==
  ASSUME CheckoutsInv, [Next]_vars
  PROVE  LockInv'
<1>1. ASSUME NEW c \in Caller
      PROVE  LockOK(c)'
  <2>1. CASE Restart
    <3>1. call'[c].at = "idle"
      BY <2>1 DEF Restart, NoCall
    <3> QED
      BY <3>1 DEF LockOK, At
  <2>2. CASE Serve(c)
    <3>1. call'[c].at = "record" => call[c].at = "attach"
      BY <2>2, ServesOne DEF Follows
    <3>2. call'[c].at = "remove" => call[c].at = "archive"
      BY <2>2, ServesOne DEF Follows
    <3>3. call'[c].at = "archived" => call[c].at \in {"archive", "remove"}
      BY <2>2, ServesOne DEF Follows
    <3>4. call[c].at = "attach" => AttachBegin(c)
      BY <2>2 DEF Serve, Asks, ForgetLook, Inspects, AsksArchive, Inherits, Begins, Settles, AttachRecords, AttachUndoes,
          ArchiveLook, ArchiveRemoves, ArchiveRecords, ForgetArchives, ForgetCheck, ForgetDrops, RegisterRow,
          RelocateRow, Repairs, At
    <3>5. call[c].at = "archive" => ArchiveLook(c)
      BY <2>2 DEF Serve, Asks, ForgetLook, Inspects, AsksArchive, Inherits, Begins, Settles, AttachBegin, AttachRecords,
          AttachUndoes, ArchiveRemoves, ArchiveRecords, ForgetArchives, ForgetCheck, ForgetDrops, RegisterRow,
          RelocateRow, Repairs, At
    <3>6. call[c].at = "remove" => ArchiveRemoves(c)
      BY <2>2 DEF Serve, Asks, ForgetLook, Inspects, AsksArchive, Inherits, Begins, Settles, AttachBegin, AttachRecords,
          AttachUndoes, ArchiveLook, ArchiveRecords, ForgetArchives, ForgetCheck, ForgetDrops, RegisterRow,
          RelocateRow, Repairs, At
    <3>7. CASE call'[c].at \notin {"record", "remove", "archived"}
      BY <3>7 DEF LockOK, At
    <3> QED
      BY <3>1, <3>2, <3>3, <3>4, <3>5, <3>6, <3>7, LockTaken, LockLooked, LockRemoved DEF At
  <2> QED
    BY <2>1, <2>2, LockWaits
<1> HIDE DEF LockOK
<1>2. \A c \in Caller : LockOK(c)'
  BY <1>1
<1> QED
  BY <1>2 DEF LockInv, LockOK

-----------------------------------------------------------------------------
(* What was asked about, and the setups *)

LEMMA AskedStep ==
  ASSUME CheckoutsInv, [Next]_vars
  PROVE  AskedInv'
<1>1. DOMAIN checkouts \subseteq DOMAIN checkouts'
  BY RowsStep
<1>2. ASSUME NEW c \in Caller, NEW r, call'[c] = r, AskedOK(r)
      PROVE  AskedOK(call[c])'
  BY <1>1, <1>2 DEF AskedOK
<1>3. \A c \in Caller : AskedOK(call[c])
  BY DEF CheckoutsInv, AskedInv, AskedOK, At
<1>4. ASSUME NEW c \in Caller
      PROVE  \E r : call'[c] = r /\ AskedOK(r)
  <2>1. CASE Restart
    BY <2>1 DEF Restart, NoCall, AskedOK
  <2>2. CASE UNCHANGED call
    BY <1>3, <2>2
  <2>3. CASE \E a \in Caller : Serve(a)
    BY <1>3, <2>3, ServesOne
  <2> QED
    BY <2>1, <2>2, <2>3, CallFrame
<1>5. \A c \in Caller : AskedOK(call[c])'
  BY <1>2, <1>4
<1> QED
  BY <1>5 DEF AskedInv, AskedOK, At

\* What a step makes of a worker's setup.
LEMMA WorkMoves ==
  ASSUME CheckoutsInv, [Next]_vars, NEW i \in Item
  PROVE  \/ work'[i] = work[i]
         \/ work'[i] = Idle
         \/ \E k \in DOMAIN checkouts, at \in {"held", "setup"} : work'[i] = [at |-> at, co |-> k]
<1>1. work \in [Item -> [at : {"idle", "held", "setup"}, co : Nat]]
  BY DEF CheckoutsInv, ShapeInv
<1>2. ASSUME NEW j \in Item, NEW k \in DOMAIN checkouts, WorkerHolds(j, k)
      PROVE  work'[i] = work[i] \/ work'[i] = [at |-> "held", co |-> k]
  BY <1>1, <1>2 DEF WorkerHolds
<1>3. ASSUME NEW j \in Item, SetupBegins(j)
      PROVE  work'[i] = work[i] \/ work'[i] = Idle \/ \E k \in DOMAIN checkouts : work'[i] = [at |-> "setup", co |-> k]
  <2>1. work[j].at = "held" /\ work[j] # Idle
    BY <1>3 DEF SetupBegins, Idle
  <2>2. PICK k \in DOMAIN checkouts, at \in {"held", "setup"} : work[j] = [at |-> at, co |-> k]
    BY <2>1 DEF CheckoutsInv, WorkInv
  <2>3. work' = [work EXCEPT ![j] = Idle] \/ work' = [work EXCEPT ![j] = [work[j] EXCEPT !.at = "setup"]]
    BY <1>3 DEF SetupBegins
  <2>4. [work[j] EXCEPT !.at = "setup"] = [at |-> "setup", co |-> k]
    BY <2>2
  <2> QED
    BY <1>1, <2>3, <2>4
<1>4. ASSUME NEW j \in Item, SetupEnds(j)
      PROVE  work'[i] = work[i] \/ work'[i] = Idle
  BY <1>1, <1>4 DEF SetupEnds
<1>5. ASSUME Restart
      PROVE  work'[i] = Idle
  BY <1>5 DEF Restart
<1>6. ASSUME UNCHANGED work
      PROVE  work'[i] = work[i]
  BY <1>6
<1> QED
  BY <1>2, <1>3, <1>4, <1>5, <1>6, WorkFrame

LEMMA WorkStep ==
  ASSUME CheckoutsInv, [Next]_vars
  PROVE  WorkInv'
<1>1. DOMAIN checkouts \subseteq DOMAIN checkouts'
  BY RowsStep
<1>2. ASSUME NEW i \in Item
      PROVE  work'[i] = Idle \/ \E k \in DOMAIN checkouts', at \in {"held", "setup"} : work'[i] = [at |-> at, co |-> k]
  BY <1>1, WorkMoves DEF CheckoutsInv, WorkInv
<1> QED
  BY <1>2 DEF WorkInv, Idle

\* A setup is written by the worker that is at it.
LEMMA SetupStep ==
  ASSUME CheckoutsInv, [Next]_vars
  PROVE  SetupNotStuck'
<1> DEFINE Runs(k) == \E i \in Item : work'[i] = [at |-> "setup", co |-> k]
           Goal == \A k \in DOMAIN checkouts' : checkouts'[k].status = "active" /\ checkouts'[k].setup = "running" => Runs(k)
<1>1. /\ work \in [Item -> [at : {"idle", "held", "setup"}, co : Nat]]
      /\ checkouts \in Seq(CheckoutRow)
      /\ \A k \in DOMAIN checkouts : checkouts[k].status = "active" /\ checkouts[k].setup = "running" =>
           \E i \in Item : work[i] = [at |-> "setup", co |-> k]
  BY DEF CheckoutsInv, ShapeInv, SetupNotStuck, Active
<1>2. \A k \in DOMAIN checkouts : checkouts'[k].status = "active" => checkouts[k].status = "active"
  BY RowsStep DEF RowStep
<1>3. ASSUME NEW c \in Caller, AttachRecords(c)
      PROVE  Goal
  <2>1. PICK n \in Nat : /\ DOMAIN checkouts' = DOMAIN checkouts \cup {n} /\ checkouts'[n] = Recorded(c)
                         /\ \A k \in DOMAIN checkouts : checkouts'[k] = checkouts[k]
    BY <1>3, RowAdded
  <2>2. Recorded(c).setup # "running" /\ UNCHANGED work
    BY <1>3, RecordedRow DEF AttachRecords
  <2> QED
    BY <1>1, <2>1, <2>2
<1>4. ASSUME NEW i \in Item, SetupBegins(i) \/ SetupEnds(i)
      PROVE  /\ work[i].co \in DOMAIN checkouts /\ work[i] = [at |-> work[i].at, co |-> work[i].co]
             /\ work[i].at \in {"held", "setup"} /\ DOMAIN checkouts' = DOMAIN checkouts
  <2>1. work[i].at \in {"held", "setup"} /\ work[i] # Idle
    BY <1>4 DEF SetupBegins, SetupEnds, Idle
  <2>2. PICK k \in DOMAIN checkouts, at \in {"held", "setup"} : work[i] = [at |-> at, co |-> k]
    BY <2>1 DEF CheckoutsInv, WorkInv
  <2>3. DOMAIN checkouts' = DOMAIN checkouts
    BY <1>4 DEF SetupBegins, SetupEnds
  <2> QED
    BY <2>1, <2>2, <2>3
<1>5. ASSUME NEW i \in Item, SetupBegins(i)
      PROVE  Goal
  <2> DEFINE k == work[i].co
  <2>1. work[i].at = "held" /\ \A j \in Item : work[j] = [at |-> "setup", co |-> k] => j # i
    BY <1>5 DEF SetupBegins
  <2>2. ASSUME work' = [work EXCEPT ![i] = Idle], UNCHANGED checkouts
        PROVE  Goal
    BY <1>1, <2>1, <2>2
  <2>3. ASSUME work' = [work EXCEPT ![i] = Idle], checkouts' = [checkouts EXCEPT ![k].setup = "none"]
        PROVE  Goal
    <3>1. /\ DOMAIN checkouts' = DOMAIN checkouts /\ checkouts'[k].setup = "none"
          /\ \A j \in DOMAIN checkouts : j # k => checkouts'[j] = checkouts[j]
      BY <1>1, <1>4, <1>5, <2>3, RowSetUp
    <3> QED
      BY <1>1, <2>1, <2>3, <3>1
  <2>4. ASSUME work' = [work EXCEPT ![i] = [work[i] EXCEPT !.at = "setup"]],
               checkouts' = [checkouts EXCEPT ![k].setup = "running"]
        PROVE  Goal
    <3>1. DOMAIN checkouts' = DOMAIN checkouts /\ \A j \in DOMAIN checkouts : j # k => checkouts'[j] = checkouts[j]
      BY <1>1, <1>4, <1>5, <2>4, RowSetUp
    <3>2. work'[i] = [at |-> "setup", co |-> k]
      BY <1>1, <2>4
    <3>3. \A j \in Item : j # i => work'[j] = work[j]
      BY <1>1, <2>4
    <3> HIDE DEF k
    <3> QED
      BY <1>1, <2>1, <3>1, <3>2, <3>3
  <2> HIDE DEF Goal
  <2> QED
    BY <1>5, <2>2, <2>3, <2>4 DEF SetupBegins
<1>6. ASSUME NEW i \in Item, SetupEnds(i)
      PROVE  Goal
  <2> DEFINE k == work[i].co
  <2>1. PICK s \in {"done", "failed"} : checkouts' = [checkouts EXCEPT ![k].setup = s]
    BY <1>6 DEF SetupEnds
  <2>2. work' = [work EXCEPT ![i] = Idle]
    BY <1>6 DEF SetupEnds
  <2>3. /\ DOMAIN checkouts' = DOMAIN checkouts /\ checkouts'[k].setup = s
        /\ \A j \in DOMAIN checkouts : j # k => checkouts'[j] = checkouts[j]
    BY <1>1, <1>4, <1>6, <2>1, RowSetUp
  <2>4. \A j \in Item : work'[j] = IF j = i THEN Idle ELSE work[j]
    BY <1>1, <2>2
  <2>5. \A q \in DOMAIN checkouts : work[i] = [at |-> "setup", co |-> q] => q = k
    OBVIOUS
  <2> HIDE DEF k
  <2>6. ASSUME NEW j \in DOMAIN checkouts, checkouts'[j].status = "active", checkouts'[j].setup = "running"
        PROVE  Runs(j)
    <3>1. j # k /\ checkouts'[j] = checkouts[j]
      BY <2>1, <2>3, <2>6
    <3>2. PICK q \in Item : work[q] = [at |-> "setup", co |-> j]
      BY <1>1, <2>6, <3>1
    <3>3. q # i
      BY <2>5, <3>1, <3>2
    <3> QED
      BY <2>4, <3>2, <3>3
  <2> HIDE DEF Runs
  <2> QED
    BY <2>3, <2>6
<1>7. ASSUME Restart
      PROVE  Goal
  <2>1. \A k \in DOMAIN checkouts : checkouts[k].status = "active" /\ checkouts[k].setup = "running" =>
          [checkouts[k] EXCEPT !.setup = "pending"].setup = "pending"
    <3>1. \A k \in DOMAIN checkouts : checkouts[k] \in CheckoutRow
      BY <1>1
    <3> QED
      BY <3>1 DEF CheckoutRow
  <2> QED
    BY <1>7, <2>1 DEF Restart, ResumeInterruptedSetups, Active
<1>8. ASSUME DOMAIN checkouts' = DOMAIN checkouts, \A k \in DOMAIN checkouts : checkouts'[k].setup = checkouts[k].setup,
             ~Restart, \A i \in Item : ~SetupBegins(i) /\ ~SetupEnds(i)
      PROVE  Goal
  <2>1. UNCHANGED work \/ \E i \in Item, k \in DOMAIN checkouts : WorkerHolds(i, k)
    BY <1>8, WorkFrame
  <2>2. \A i \in Item : work[i].at = "setup" => work'[i] = work[i]
    BY <1>1, <2>1 DEF WorkerHolds, Idle
  <2> QED
    BY <1>1, <1>2, <1>8, <2>2
<1> HIDE DEF Goal
<1>9. Goal
  BY <1>3, <1>5, <1>6, <1>7, <1>8, RowsStep
<1> QED
  BY <1>9 DEF Goal, SetupNotStuck, Active

-----------------------------------------------------------------------------
(* No worktree is forgotten *)

\* What TreesInv says of a directory.
Accounted(d) ==
  \/ \E k \in DOMAIN checkouts : checkouts[k].path = d /\ (Active(k) \/ checkouts[k].kept)
  \/ \E c \in Caller : At(c, "record") /\ call[c].dir = d
  \/ d \in stray

\* Nothing takes a directory from stray.
LEMMA StrayGrows ==
  ASSUME [Next]_vars
  PROVE  stray \subseteq stray'
<1>1. ASSUME NEW c \in Caller, Serve(c)
      PROVE  stray \subseteq stray'
  BY <1>1 DEF Serve, Asks, ForgetLook, Inspects, AsksArchive, Inherits, Settles, AttachBegin, AttachRecords,
      AttachUndoes, ArchiveLook, ArchiveRemoves, ArchiveRecords, ForgetArchives, ForgetCheck, ForgetDrops,
      RegisterRow, RelocateRow, Repairs
<1> QED
  BY <1>1 DEF Next, vars, WorkerHolds, SetupBegins, SetupEnds, Writes, DeletesTree, TakesAway, Puts, Restart

\* A worktree comes with the attach that is about to record it.
LEMMA TreeAdded ==
  ASSUME CheckoutsInv, [Next]_vars, NEW d \in Dir, tree[d] = None, tree'[d] # None
  PROVE  Accounted(d)'
<1>1. tree \in [Dir -> Worktree \cup {None}] /\ call \in [Caller -> CallRecord]
  BY DEF CheckoutsInv, ShapeInv
<1>2. ~\E e \in Dir : Writes(e) \/ DeletesTree(e)
  BY HandOnTree
<1>3. ASSUME NEW c \in Caller, AttachUndoes(c) \/ ArchiveRemoves(c) \/ Repairs(c)
      PROVE  FALSE
  <2>1. UNCHANGED tree \/ (\E e : tree' = [tree EXCEPT ![e] = None]) \/ Repairs(c)
    BY <1>3 DEF AttachUndoes, ArchiveRemoves
  <2>2. ~Repairs(c)
    <3> DEFINE p == call[c].path
               mine == {e \in Dir : tree[e] # None /\ tree[e].clone = disk[p]
                                    /\ \E k \in ActiveOf(call[c].repo) : checkouts[k].path = e}
    <3>1. ASSUME Repairs(c)
          PROVE  FALSE
      <4>1. tree' = [e \in Dir |-> IF e \in mine THEN [tree[e] EXCEPT !.home = p] ELSE tree[e]]
        BY <3>1 DEF Repairs
      <4>2. d \notin mine
        OBVIOUS
      <4> HIDE DEF mine
      <4> QED
        BY <4>1, <4>2
    <3> QED
      BY <3>1
  <2> QED
    BY <1>1, <2>1, <2>2
<1>4. PICK c \in Caller : AttachBegin(c)
  BY <1>2, <1>3, TreeFrame
<1>5. Goes(c, Recording(c, d))
  <2>1. PICK e \in Dir : Add(call[c].path, e) /\ Goes(c, Recording(c, e))
    BY <1>4 DEF AttachBegin, FreeDir
  <2>2. e = d
    BY <1>1, <2>1 DEF Add
  <2> QED
    BY <2>1, <2>2
<1>6. Recording(c, d).at = "record" /\ Recording(c, d).dir = d
  BY <1>1 DEF Recording, With, CallRecord
<1>7. call'[c] = Recording(c, d)
  BY <1>1, <1>5 DEF Goes
<1> QED
  BY <1>6, <1>7 DEF Accounted, At

\* A worktree that stays keeps a record.
LEMMA TreeStays ==
  ASSUME CheckoutsInv, [Next]_vars, NEW d \in Dir, tree[d] # None, tree'[d] # None
  PROVE  Accounted(d)'
<1>1. Accounted(d)
  BY DEF CheckoutsInv, TreesInv, Accounted
<1>2. ASSUME NEW k \in DOMAIN checkouts, checkouts[k].path = d, Active(k) \/ checkouts[k].kept
      PROVE  Accounted(d)'
  <2>1. RowStep(checkouts[k], checkouts'[k]) /\ k \in DOMAIN checkouts'
    BY RowsStep
  <2>2. checkouts[k].mode = "worktree"
    BY <1>2 DEF CheckoutsInv, TablesInv
  <2>3. checkouts'[k].path = d /\ (checkouts'[k].status = "active" \/ checkouts'[k].kept)
    BY <1>2, <2>1, <2>2 DEF RowStep, Active
  <2> QED
    BY <2>1, <2>3 DEF Accounted, Active
<1>3. ASSUME NEW c \in Caller, At(c, "record"), call[c].dir = d
      PROVE  Accounted(d)'
  <2>1. CASE Restart
    BY <1>3, <2>1 DEF Restart, Accounted
  <2>2. CASE ~Restart /\ ~Serve(c)
    <3>1. call'[c] = call[c]
      BY <2>2, CallFrame, ServesOne
    <3> QED
      BY <1>3, <3>1 DEF Accounted, At
  <2>3. CASE Serve(c)
    <3>1. AttachRecords(c) \/ AttachUndoes(c)
      BY <1>3, <2>3 DEF Serve, Asks, ForgetLook, Inspects, AsksArchive, Inherits, Begins, Settles, AttachBegin,
          ArchiveLook, ArchiveRemoves, ArchiveRecords, ForgetArchives, ForgetCheck, ForgetDrops, RegisterRow,
          RelocateRow, Repairs, At
    <3>2. CASE AttachRecords(c)
      <4>1. PICK n \in Nat : DOMAIN checkouts' = DOMAIN checkouts \cup {n} /\ checkouts'[n] = Recorded(c)
        BY <3>2, RowAdded
      <4>2. Recorded(c).path = d /\ Recorded(c).status = "active"
        BY <1>3 DEF Recorded
      <4> QED
        BY <4>1, <4>2 DEF Accounted, Active
    <3>3. CASE AttachUndoes(c)
      <4>1. ~call[c].inPlace
        BY <1>3, CheckoutsAssumption DEF CheckoutsInv, LockInv
      <4>2. tree' = [tree EXCEPT ![d] = None] \/ d \in stray'
        BY <1>3, <3>3, <4>1 DEF AttachUndoes
      <4>3. tree \in [Dir -> Worktree \cup {None}]
        BY DEF CheckoutsInv, ShapeInv
      <4> QED
        BY <4>2, <4>3 DEF Accounted
    <3> QED
      BY <3>1, <3>2, <3>3
  <2> QED
    BY <2>1, <2>2, <2>3
<1>4. ASSUME d \in stray
      PROVE  Accounted(d)'
  BY <1>4, StrayGrows DEF Accounted
<1> QED
  BY <1>1, <1>2, <1>3, <1>4 DEF Accounted

LEMMA TreesStep ==
  ASSUME CheckoutsInv, [Next]_vars
  PROVE  TreesInv'
<1>1. ASSUME NEW d \in Dir, tree'[d] # None
      PROVE  Accounted(d)'
  BY <1>1, TreeAdded, TreeStays
<1> QED
  BY <1>1 DEF TreesInv, Accounted

-----------------------------------------------------------------------------
(* The theorems *)

LEMMA CheckoutsStart ==
  ASSUME Init
  PROVE  CheckoutsInv
<1>1. ShapeInv
  <2>1. disk \in [Place -> Clone \cup {None}]
    BY DEF Init
  <2>2. tree \in [Dir -> Worktree \cup {None}] /\ repos \in [Repo -> RepoRow \cup {None}]
    BY DEF Init
  <2>3. checkouts \in Seq(CheckoutRow)
    BY DEF Init
  <2>4. NoCall \in CallRecord
    BY DEF NoCall, CallRecord, Remote
  <2>5. call \in [Caller -> CallRecord]
    BY <2>4 DEF Init
  <2>6. work \in [Item -> [at : {"idle", "held", "setup"}, co : Nat]] /\ lock \in Caller \cup {None}
    BY DEF Init, Idle
  <2>7. used \in [calls : Nat, moves : Nat, faults : Nat, crashes : Nat]
    BY DEF Init
  <2> QED
    BY <2>1, <2>2, <2>3, <2>5, <2>6, <2>7 DEF ShapeInv
<1>2. DOMAIN checkouts = {} /\ (\A c \in Caller : call[c].at = "idle") /\ \A r \in Repo : repos[r] = None
  <2>1. DOMAIN checkouts = {}
    BY DEF Init
  <2> QED
    BY <2>1 DEF Init, NoCall
<1>3. TablesInv /\ LockInv /\ AskedInv
  BY <1>2 DEF TablesInv, LockInv, AskedInv, At
<1>4. WorkInv /\ SetupNotStuck /\ TreesInv
  BY <1>2 DEF Init, WorkInv, SetupNotStuck, TreesInv
<1> QED
  BY <1>1, <1>3, <1>4 DEF CheckoutsInv

LEMMA CheckoutsHold == Spec => []CheckoutsInv
<1>1. Init => CheckoutsInv
  BY CheckoutsStart
<1>2. CheckoutsInv /\ [Next]_vars => CheckoutsInv'
  BY ShapeStep, TablesStep, LockStep, AskedStep, WorkStep, SetupStep, TreesStep DEF CheckoutsInv
<1> QED
  BY <1>1, <1>2, PTL DEF Spec

\* The unique indexes of the two tables are never in the way: one repository per path, one
\* active checkout of a repository per item, one item at most in the person's directory
\* (internal/kernel/repos.go), whoever registers, moves, forgets and attaches meanwhile.
THEOREM TablesKept == Spec => []RegistryTypeOK
<1>1. ASSUME CheckoutsInv
      PROVE  RegistryTypeOK
  <2>1. disk \in [Place -> Clone \cup {None}] /\ lock \in Caller \cup {None}
    BY <1>1 DEF CheckoutsInv, ShapeInv
  <2>2. \A r \in Repo : repos[r] # None => Taken(repos[r].path) = {r}
    BY <1>1 DEF CheckoutsInv, TablesInv, Taken
  <2>3. ASSUME NEW r \in Repo
        PROVE  Cardinality(Lease(r)) <= 1
    <3>1. \A j, k \in Lease(r) : j = k
      BY <1>1 DEF CheckoutsInv, TablesInv, Lease, ActiveOf
    <3>2. CASE Lease(r) = {}
      BY <3>2, FS_EmptySet
    <3>3. CASE \E j : Lease(r) = {j}
      <4>1. PICK j : Lease(r) = {j}
        BY <3>3
      <4>2. Cardinality({j}) = 1
        BY FS_Singleton
      <4> QED
        BY <4>1, <4>2
    <3> QED
      BY <3>1, <3>2, <3>3
  <2>4. \A j, k \in DOMAIN checkouts : Active(j) /\ Active(k) /\ checkouts[j].item = checkouts[k].item
          /\ checkouts[j].repo = checkouts[k].repo => j = k
    BY <1>1 DEF CheckoutsInv, TablesInv
  <2> QED
    BY <2>1, <2>2, <2>3, <2>4 DEF RegistryTypeOK
<1> QED
  BY <1>1, CheckoutsHold, PTL

\* No worktree of hidane's is on disk that no row, and no attach under way, accounts for,
\* unless a crash or the repository's going away cut its attach short (repos.go:455-463).
THEOREM TreesRecorded == Spec => []NoTreeUnrecorded
<1>1. CheckoutsInv => NoTreeUnrecorded
  BY DEF CheckoutsInv, TreesInv, NoTreeUnrecorded
<1> QED
  BY <1>1, CheckoutsHold, PTL

\* A setup that is recorded as running has a worker that runs it: a restart puts the ones
\* it cut short back to pending (ResumeInterruptedSetups).
THEOREM SetupsRun == Spec => []SetupNotStuck
<1>1. CheckoutsInv => SetupNotStuck
  BY DEF CheckoutsInv
<1> QED
  BY <1>1, CheckoutsHold, PTL

\* Whatever the person moves and whoever calls, a step that takes a worktree with unsaved
\* work is the person's own or an archive that was forced (repos.go:592-655).
THEOREM WorkKept == Spec => UnsavedKept
<1> DEFINE Kept == \A d \in Dir : tree[d] # None /\ tree'[d] = None /\ tree[d].unsaved = "yes" =>
                     \/ used'.moves # used.moves
                     \/ \E c \in Caller : At(c, "remove") /\ call[c].force
<1>1. ASSUME CheckoutsInv, [Next]_vars
      PROVE  Kept
  <2>1. SUFFICES ASSUME NEW d \in Dir, tree[d] # None, tree'[d] = None, tree[d].unsaved = "yes"
                 PROVE  used'.moves # used.moves \/ \E c \in Caller : At(c, "remove") /\ call[c].force
    OBVIOUS
  <2>2. tree \in [Dir -> Worktree \cup {None}] /\ used \in [calls : Nat, moves : Nat, faults : Nat, crashes : Nat]
    BY <1>1 DEF CheckoutsInv, ShapeInv
  <2>3. ASSUME NEW c \in Caller, AttachBegin(c)
        PROVE  FALSE
    <3>1. UNCHANGED tree \/ \E e \in Dir, t \in [clone : Clone \cup {None}, home : Place, unsaved : {"no"}] :
                              tree' = [tree EXCEPT ![e] = t] /\ t # None
      <4>1. call[c].path \in Place /\ disk \in [Place -> Clone \cup {None}]
        BY <1>1, <2>3 DEF CheckoutsInv, ShapeInv, AskedInv, AttachBegin, At
      <4>2. UNCHANGED tree \/ \E e \in Dir : Add(call[c].path, e) /\ CanAdd(call[c].path, call[c].item)
        BY <2>3 DEF AttachBegin, FreeDir
      <4>3. ASSUME disk[call[c].path] # None
            PROVE  [clone |-> disk[call[c].path], home |-> call[c].path, unsaved |-> "no"] \in Worktree
        BY <4>1, <4>3 DEF Worktree
      <4> QED
        BY <4>1, <4>2, <4>3, CheckoutsAssumption DEF Add, CanAdd
    <3> QED
      BY <2>1, <2>2, <3>1
  <2>4. ASSUME NEW c \in Caller, AttachUndoes(c)
        PROVE  FALSE
    <3>1. tree' = [tree EXCEPT ![call[c].dir] = None] /\ At(c, "record")
      BY <2>1, <2>4 DEF AttachUndoes
    <3>2. call[c].dir = d
      BY <2>1, <2>2, <3>1
    <3> QED
      BY <1>1, <2>1, <3>1, <3>2 DEF CheckoutsInv, LockInv
  <2>5. ASSUME NEW c \in Caller, ArchiveRemoves(c)
        PROVE  At(c, "remove") /\ call[c].force
    <3>1. checkouts[call[c].co].path = d /\ At(c, "remove")
      BY <2>1, <2>2, <2>5 DEF ArchiveRemoves
    <3> QED
      BY <1>1, <2>1, <3>1 DEF CheckoutsInv, LockInv
  <2>6. ASSUME NEW c \in Caller, Repairs(c)
        PROVE  FALSE
    <3>1. tree'[d] = tree[d] \/ tree'[d] = [tree[d] EXCEPT !.home = call[c].path]
      BY <2>6 DEF Repairs
    <3>2. call[c].path \in Place
      BY <1>1, <2>6 DEF CheckoutsInv, AskedInv, Repairs, At
    <3>3. [tree[d] EXCEPT !.home = call[c].path] \in Worktree
      BY <2>1, <2>2, <3>2 DEF Worktree
    <3> QED
      BY <2>1, <3>1, <3>3, CheckoutsAssumption
  <2>7. ASSUME NEW e \in Dir, Writes(e)
        PROVE  FALSE
    <3>1. tree' = [tree EXCEPT ![e] = [tree[e] EXCEPT !.unsaved =
            IF \E c \in Caller : At(c, "remove") /\ checkouts[call[c].co].path = e THEN "late" ELSE "yes"]]
          /\ tree[e].unsaved = "no"
      BY <2>7 DEF Writes
    <3> QED
      BY <2>1, <2>2, <3>1
  <2>8. ASSUME NEW e \in Dir, DeletesTree(e)
        PROVE  used'.moves # used.moves
    BY <2>2, <2>8 DEF DeletesTree, Spend
  <2> QED
    BY <1>1, <2>1, <2>3, <2>4, <2>5, <2>6, <2>7, <2>8, TreeFrame
<1> HIDE DEF Kept
<1>2. CheckoutsInv /\ [Next]_vars => [Kept]_vars
  BY <1>1
<1>3. Spec => [][Kept]_vars
  BY <1>2, CheckoutsHold, PTL DEF Spec
<1> QED
  BY <1>3 DEF UnsavedKept, Kept
=============================================================================
