------------------------ MODULE WorkerPoolProperties ------------------------
(***************************************************************************)
(* What WorkerPool is expected to guarantee: one writer per workspace, the  *)
(* fate of the person's words, and that every execution ends once, in a way *)
(* its owner hears of.  The last section states what comments and docs of   *)
(* the code say and the code does not do.                                   *)
(***************************************************************************)
EXTENDS WorkerPool

WorkerPcs == {"none", "check", "mark", "amend", "setup", "script", "arm", "start", "hold",
              "wait", "report", "post", "remove", "pump"}
TurnPcs == {"idle", "append", "enqueue", "pump", "route", "hand", "words"}
CancelPcs == {"new", "look", "ask", "lock", "flag", "report", "post", "over", "failed"}
Statuses == {"none", "queued", "running"} \cup Outcomes

RowTypeOK ==
  /\ born \in [Exec -> Nat] /\ status \in [Exec -> Statuses]
  /\ posted \in [Exec -> Seq(Outcomes)] /\ asked \subseteq Exec
  /\ \A e \in Exec : born[e] = 0 <=> status[e] = "none"

JobTypeOK ==
  /\ order \in Seq(Exec) /\ running \subseteq Jobs
  /\ job \in [Exec -> [amend : SUBSET Word, told : SUBSET Word, buffer : SUBSET Word,
                       taken : SUBSET Word, cancelled : BOOLEAN, held : BOOLEAN,
                       cut : BOOLEAN]]
  /\ wk \in [Exec -> [pc : WorkerPcs, out : Outcomes \cup {"none"}]]
  /\ \A e \in Exec : e \in running <=> wk[e].pc \notin {"none", "pump"}

CallTypeOK ==
  /\ turn \in [Item -> [pc : TurnPcs, exec : Exec \cup {None}, to : Exec \cup {None},
                        word : Word \cup {None}]]
  /\ cancel \in [Canceller -> [pc : CancelPcs, left : Seq(Item), exec : Exec \cup {None},
                               saw : SUBSET Exec]]
  /\ fix \in [left : SUBSET Exec, exec : Exec \cup {None}]

\* The state has the shape of the tables and of the Go structs, the jobs with a
\* goroutine are those in running, and only jobs of the queue run.
PoolTypeOK ==
  /\ RowTypeOK /\ JobTypeOK /\ CallTypeOK
  /\ phase \in {"down", "recover", "serving", "stopping", "ending"}
  /\ cli \in [Exec -> {"none", "live", "over"}]
  /\ word \in [Word -> [how : {"none", "late", "amended", "steered", "rode"},
                        job : Exec \cup {None}, exec : Exec \cup {None}]]
  /\ heard \in [Exec -> Nat]
  /\ {stops, crashes, faults} \subseteq Nat

\* Executions whose script or agent is at work in the workspace of their item, among
\* those this process started.
Writing(e) ==
  \/ wk[e].pc = "script"
  \/ cli[e] = "live" /\ (wk[e].pc = "hold" \/ job[e].held)

\* One workspace, one writer (workerpool.go:24-26): no two agents, and no agent and
\* setup script, work on an item at once, whoever cancels, dispatches or pumps.
OneWriter ==
  \A e, f \in Exec : Writing(e) /\ Writing(f) /\ ItemOf[e] = ItemOf[f] => e = f

\* At most MaxWorkers at once (workerpool.go:25), though four callers pump.
WorkersWithinLimit == Cardinality({e \in Exec : Writing(e)}) <= MaxWorkers

\* Words added to a job that has not started are in the instructions of its agent
\* (workerpool.go:121, 250-254): the snapshot comes after every amendment.
AmendmentsReachAgent ==
  \A w \in Word :
    word[w].how = "amended" /\ job[word[w].job].held => w \in job[word[w].job].told

\* A cancelled run is told to stop, whichever of the cancel and the registration of
\* the run comes first (workerpool.go:336-344, 522-531).
CancelReachesRun ==
  \A e \in Exec :
    job[e].cancelled /\ wk[e].pc = "wait" /\ cli[e] = "live" => job[e].cut

\* Someone has an active row in hand.
InHand(e) ==
  \/ e \in Jobs
  \/ \E i \in Item : turn[i].exec = e /\ turn[i].pc \in {"append", "enqueue"}
  \/ \E c \in Canceller : cancel[c].exec = e /\ cancel[c].pc = "report"

\* While the runtime serves and the database answers, no row stays queued or running
\* with nobody to end it: what a restart lost has been recovered, and the pool, a
\* dispatch or a cancel holds the rest.
NoOrphanRow ==
  phase = "serving" /\ faults = 0 => \A e \in Exec : status[e] \in {"queued", "running"} => InHand(e)

\* Without a cancel, an execution is reported once at most, over any number of
\* shutdowns, crashes and recoveries.
ReportedOnce == asked = {} => \A e \in Exec : Len(posted[e]) <= 1

\* An execution that was created is reported to its owner (workerpool.go: reportOutcome,
\* "the one way an execution ends"), whatever is cancelled, as long as the process and
\* the database last; the pump timer is not needed.
EveryExecutionReported ==
  \A e \in Exec : born[e] > 0 ~> posted[e] # <<>>

\* Someone will still report e, or the report waits in the mailbox of its owner.
ReportComes(e) ==
  \/ heard[e] < Len(posted[e])
  \/ InHand(e)
  \/ wk[e].pc \in {"report", "post"}
  \/ \E c \in Canceller : cancel[c].exec = e /\ cancel[c].pc = "post"

\* Words that came too late for a run are not left behind: the outcome they ride with
\* is still to be read by a turn (workerpool.go:118-130, manager.go:527-528), unless
\* a shutdown, a crash or a database error came between.
LateWordsRide ==
  stops + crashes + faults = 0 =>
    \A w \in Word : word[w].how = "late" => ReportComes(word[w].exec)

-----------------------------------------------------------------------------
(* The inductive invariants of the proofs *)

\* Why words and cancels find executions that exist: a call in progress holds one of
\* its own item, a goroutine that ends has an outcome, and nothing is held while the
\* process is down.
CallInv ==
  /\ \A i \in Item :
       /\ turn[i].pc # "idle" => turn[i].exec \in OfItem(i) /\ born[turn[i].exec] > 0
       /\ turn[i].pc \in {"route", "hand"} => turn[i].word \in Word
       /\ turn[i].pc = "hand" => turn[i].to \in Exec
  /\ \A c \in Canceller :
       /\ cancel[c].pc \in {"look", "ask", "lock", "flag", "report", "post"} =>
            cancel[c].left # <<>>
       /\ cancel[c].pc \in {"ask", "lock", "flag", "report", "post"} =>
            cancel[c].exec \in Exec /\ born[cancel[c].exec] > 0
  /\ \A e \in Exec : wk[e].pc \in {"report", "post"} => wk[e].out \in Outcomes
  /\ \A e \in Exec : e \in fix.left \/ e = fix.exec => born[e] > 0
  /\ phase # "recover" => fix = NoFix
  /\ phase \in {"down", "recover"} =>
       /\ order = <<>> /\ running = {}
       /\ \A e \in Exec : wk[e].pc = "none"
       /\ \A i \in Item : turn[i].pc = "idle"
       /\ \A c \in Canceller : cancel[c].pc \in {"new", "over", "failed"}

\* Executions on their way into the pool, or not created yet.
Entering(e) ==
  \/ born[e] = 0
  \/ turn[ItemOf[e]].exec = e /\ turn[ItemOf[e]].pc \in {"append", "enqueue"}

\* Why an item has one job at work: an execution enters the queue once, and Pump skips
\* the items at work.
QueueInv ==
  /\ \A m, n \in DOMAIN order : order[m] = order[n] => m = n
  /\ \A e \in Exec : Entering(e) => e \notin Jobs /\ wk[e].pc = "none" /\ ~job[e].held
  /\ \A e \in Exec : wk[e].pc = "pump" => e \notin Jobs
  /\ \A e, f \in running : ItemOf[e] = ItemOf[f] => e = f
  /\ Cardinality(running) <= MaxWorkers

Before == {"check", "mark", "amend", "setup", "script", "arm", "start", "hold"}

\* Why an agent at work is one of running, and knows it was cancelled: the run is
\* registered once, by the goroutine that waits for it.
HoldInv ==
  \A e \in Exec :
    /\ e \in Jobs \ running \/ wk[e].pc \in Before => ~job[e].held
    /\ wk[e].pc = "wait" => job[e].held
    /\ job[e].held /\ cli[e] = "live" => wk[e].pc = "wait"
    /\ job[e].held /\ job[e].cancelled => job[e].cut

\* Why the instructions hold every amendment: amendments stop before they are copied.
AmendInv ==
  \A w \in Word, e \in Exec \cup {None} : word[w].how = "amended" /\ word[w].job = e =>
    /\ e \in Exec /\ ~Entering(e)
    /\ e \in Jobs => w \in job[e].amend
    /\ wk[e].pc \in Before \ {"check", "mark", "amend"} \/ job[e].held => w \in job[e].told

\* Why nothing is reported twice without a cancel: what was reported has a final status,
\* no goroutine that has yet to report, and is not on its way into the pool.
OnceInv ==
  asked = {} =>
    /\ \A c \in Canceller : cancel[c].pc \notin {"lock", "flag", "report", "post"}
    /\ \A e \in fix.left : status[e] \in {"queued", "running"}
    /\ \A e \in Exec : wk[e].pc = "post" \/ fix.exec = e => status[e] \in Outcomes
    /\ \A e \in Exec : posted[e] # <<>> =>
         /\ Len(posted[e]) = 1 /\ status[e] \in Outcomes /\ ~Entering(e)
         /\ wk[e].pc \in {"none", "remove", "pump"} /\ e \notin Jobs \ running
         /\ fix.exec # e

\* Why every active row is in someone's hands: a job leaves the pool when its row is
\* final, and a start looks for the rest.
RowInv ==
  faults = 0 =>
    /\ NoOrphanRow
    /\ \A e \in Exec :
         /\ wk[e].pc \in {"post", "remove"} => status[e] \in Outcomes
         /\ Entering(e) \/ e \in Jobs \ running \/ wk[e].pc = "check" => status[e] # "running"
    /\ phase = "recover" => \A e \in Exec : status[e] \in {"queued", "running"} => e \in fix.left

\* Why late words ride: the outcome of their execution is to come, or waits to be read
\* by a turn of its item.
OutcomeComes(e) ==
  \/ heard[e] < Len(posted[e])
  \/ status[e] \in {"queued", "running"}
  \/ wk[e].pc = "post"
  \/ \E c \in Canceller : cancel[c].exec = e /\ cancel[c].pc = "post"

LateInv ==
  /\ \A e \in Exec : heard[e] <= Len(posted[e])
  /\ stops + crashes + faults = 0 =>
       /\ phase # "stopping" /\ phase # "ending"
       /\ phase # "serving" => \A e \in Exec : born[e] = 0
       /\ \A i \in Item : turn[i].pc \in {"route", "hand", "words"} => OutcomeComes(turn[i].exec)
       /\ \A w \in Word : word[w].how = "late" =>
            word[w].exec \in Exec /\ OutcomeComes(word[w].exec)

-----------------------------------------------------------------------------
(* What is said of the code, and what the code does otherwise *)

\* workerpool.go:239: "Cancelled between dispatch and start; CancelTree already reported
\* it."  A cancel that saw the row before the job was there reports it, and the worker
\* that saw the row before the cancel wrote it runs it all the same.
ReportedIsOver ==
  \A e \in Exec : posted[e] # <<>> => ~Writing(e)

\* docs/wails-migration.md:63: the outcome of every execution must reach its owner.  A
\* row that is final, and that nobody is about to report, was reported.
FinalIsReported ==
  \A e \in Exec : status[e] \in Outcomes =>
    \/ posted[e] # <<>> \/ wk[e].pc = "post" \/ fix.exec = e
    \/ \E c \in Canceller : cancel[c].pc = "post" /\ cancel[c].exec = e
=============================================================================
