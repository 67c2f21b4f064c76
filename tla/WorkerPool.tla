------------------------------ MODULE WorkerPool ------------------------------
(***************************************************************************)
(* The worker pool of internal/agents/workerpool.go over the executions     *)
(* table of internal/kernel/executions.go.                                  *)
(*                                                                         *)
(* Several goroutines work on an execution: the Manager turn that           *)
(* dispatches it and delivers the person's words to it (turn), the          *)
(* goroutine that runs it (wk), those that cancel its tree (cancel), and    *)
(* the start-up that reports what a restart lost (fix).  A step is one      *)
(* critical section of WorkerPool.mu or job.mu, or one database statement.  *)
(* The hop budget, which Dispatch checks first, is in module Runtime.  The  *)
(* delegated parts CancelTree closes at the end (lines 553 to 559) belong   *)
(* to the tree of work items and are left out.                              *)
(***************************************************************************)
EXTENDS Integers, FiniteSets, SequencesExt

CONSTANTS
  Item,         \* work items; the Manager of an item owns its executions
  Exec,         \* executions
  ItemOf,       \* the work item of each execution
  Canceller,    \* calls of CancelTree
  Trees,        \* what Subtree may return: sequences of items, parents first
  Word,         \* messages of the person to an item whose execution is active
  None,
  MaxWorkers,   \* Cfg.MaxWorkers
  (* Bounds on the environment; the code has no such limits. *)
  MaxStops,     \* shutdowns
  MaxCrashes,
  MaxFaults     \* database errors met and Shutdown waits that time out

ASSUME WorkerPoolAssumption ==
  /\ ItemOf \in [Exec -> Item] /\ None \notin Exec \cup Item \cup Word
  /\ Trees \subseteq Seq(Item) \ {<<>>}
  /\ IsFiniteSet(Exec)
  /\ MaxWorkers \in Nat \ {0} /\ {MaxStops, MaxCrashes, MaxFaults} \subseteq Nat

VARIABLES
  \* the database
  born,       \* born[e]: position of the row of e in order of creation, 0 without a row
  status,     \* status[e]: what the row says, "none" without a row
  posted,     \* posted[e]: the execution.finished events of e
  asked,      \* executions with an execution.cancelled event
  \* the process
  phase,      \* "down", "recover", "serving", "stopping" (Shutdown), "ending" (Runtime.Stop)
  order,      \* WorkerPool.order; its members are the keys of WorkerPool.jobs
  running,    \* the keys of WorkerPool.running
  job,        \* job[e]: what the goroutines share about a job
  wk,         \* wk[e]: where runJob is, and the outcome it has in hand
  turn,       \* turn[i]: where the Manager turn of i is in Dispatch or Deliver
  cancel,     \* cancel[c]: where a CancelTree is
  fix,        \* where Recover is
  \* the operating system
  cli,        \* cli[e]: the agent process started for e; it can survive a crash
  \* history
  word,       \* word[w]: where a message of the person went
  heard,      \* heard[e]: how many of posted[e] the owner has read
  stops, crashes, faults

dbVars   == <<born, status, posted, asked>>
poolVars == <<order, running>>
histVars == <<stops, crashes, faults>>
vars == <<dbVars, phase, poolVars, job, wk, turn, cancel, fix, cli, word, heard, histVars>>

\* Mutant: a lost execution stays active.
ActiveOrLost(S) == {e \in S : status[e] \in {"queued", "running", "lost"}}
Active(S) == {e \in S : status[e] \in {"queued", "running"}}
OfItem(i) == {e \in Exec : ItemOf[e] = i}
\* ORDER BY created_at, rowid
OldestOf(S) == CHOOSE e \in S : \A f \in S : born[e] <= born[f]

Fault == faults < MaxFaults /\ faults' = faults + 1

Jobs == ToSet(order)
Position(e) == CHOOSE n \in DOMAIN order : order[n] = e
\* dequeueLocked
Dequeued(e) == RemoveFirst(order, e)
\* The first job of the item in p.order.
FirstJob(i) ==
  LET S == Jobs \cap OfItem(i)
  IN  IF S = {} THEN None ELSE CHOOSE e \in S : \A f \in S : Position(e) <= Position(f)

NoJob  == [amend |-> {}, told |-> {}, buffer |-> {}, taken |-> {},
           cancelled |-> FALSE, held |-> FALSE, cut |-> FALSE]
NoWork == [pc |-> "none", out |-> "none"]
Idle   == [pc |-> "idle", exec |-> None, to |-> None, word |-> None]
NoCall == [pc |-> "new", left |-> <<>>, exec |-> None, saw |-> {}]
NoFix  == [left |-> {}, exec |-> None]
Nowhere == [how |-> "none", job |-> None, exec |-> None]

Outcomes == {"done", "failed", "cancelled", "lost"}

-----------------------------------------------------------------------------
(* Pump *)

\* Mutant: an item with a running job may get another.
CandidatesAnyItem == Jobs \ running
\* Jobs that wait and whose item no other job, running or before them, occupies.
Candidates ==
  {e \in Jobs \ running :
     \A f \in Jobs \ {e} : ItemOf[f] = ItemOf[e] => f \notin running /\ Position(e) < Position(f)}

\* Mutant: the limit is checked with > instead of >=.
PumpedOneMore(S) ==
  /\ Cardinality(running) + Cardinality(S) <= MaxWorkers + 1
  /\ \A e \in S : \A f \in Candidates \ S : Position(e) < Position(f)
  /\ S # Candidates => Cardinality(running) + Cardinality(S) = MaxWorkers + 1
\* S are the jobs the loop of Pump reaches before it breaks.
Pumped(S) ==
  /\ Cardinality(running) + Cardinality(S) <= MaxWorkers
  /\ \A e \in S : \A f \in Candidates \ S : Position(e) < Position(f)
  /\ S # Candidates => Cardinality(running) + Cardinality(S) = MaxWorkers

\* Pump, called where the goroutines are at w.
Pump(w) ==
  \E S \in SUBSET Candidates :
    /\ Pumped(S)
    /\ running' = running \cup S
    /\ wk' = [e \in Exec |-> IF e \in S THEN [pc |-> "check", out |-> "none"] ELSE w[e]]

\* The worker-pump timer of the runtime.
PumpTimer ==
  /\ phase \in {"serving", "stopping"}
  /\ Pump(wk)
  /\ UNCHANGED <<dbVars, phase, order, job, turn, cancel, fix, cli, word, heard, histVars>>

-----------------------------------------------------------------------------
(* Dispatch, in a turn of the item's Manager *)

TurnGoto(i, pc) == turn' = [turn EXCEPT ![i].pc = pc]

\* CreateExecution
DispatchRow(i, e) ==
  /\ phase \in {"serving", "stopping"} /\ turn[i].pc = "idle"
  /\ born[e] = 0 /\ ItemOf[e] = i
  /\ born' = [born EXCEPT ![e] = 1 + Cardinality({f \in Exec : born[f] > 0})]
  /\ status' = [status EXCEPT ![e] = "queued"]
  /\ turn' = [turn EXCEPT ![i].pc = "append", ![i].exec = e]
  /\ UNCHANGED <<posted, asked, phase, poolVars, job, wk, cancel, fix, cli, word, heard,
                 histVars>>

\* The execution.started event.
DispatchAppend(i) ==
  /\ turn[i].pc = "append" /\ phase # "ending"
  /\ TurnGoto(i, "enqueue")
  /\ UNCHANGED <<dbVars, phase, poolVars, job, wk, cancel, fix, cli, word, heard, histVars>>

\* The event cannot be appended (always so once Runtime.Stop cancelled the turn): the
\* row stays behind, with no job.
DispatchFails(i) ==
  /\ turn[i].pc = "append"
  /\ \/ phase = "ending" /\ UNCHANGED faults
     \/ Fault
  /\ turn' = [turn EXCEPT ![i] = Idle]
  /\ UNCHANGED <<dbVars, phase, poolVars, job, wk, cancel, fix, cli, word, heard, stops,
                 crashes>>

DispatchEnqueue(i) ==
  /\ turn[i].pc = "enqueue"
  /\ order' = Append(order, turn[i].exec)
  /\ TurnGoto(i, "pump")
  /\ UNCHANGED <<dbVars, phase, running, job, wk, cancel, fix, cli, word, heard, histVars>>

DispatchPump(i) ==
  /\ turn[i].pc = "pump"
  /\ Pump(wk)
  /\ turn' = [turn EXCEPT ![i] = Idle]
  /\ UNCHANGED <<dbVars, phase, order, job, cancel, fix, cli, word, heard, histVars>>

-----------------------------------------------------------------------------
(* Deliver, in a turn that found an active execution.  What it returns goes into the
   log as execution.steered, before the turn ends: the two are one step here. *)

\* ManagerTurn reads the active execution, once, and then delivers each word.
WordArrives(i, w) ==
  /\ phase \in {"serving", "stopping"} /\ word[w].how = "none"
  /\ \/ /\ turn[i].pc = "words"
        /\ turn' = [turn EXCEPT ![i].pc = "route", ![i].word = w]
     \/ /\ turn[i].pc = "idle" /\ Active(OfItem(i)) # {}
        /\ turn' = [turn EXCEPT ![i] =
             [Idle EXCEPT !.pc = "route", !.word = w, !.exec = OldestOf(Active(OfItem(i)))]]
  /\ UNCHANGED <<dbVars, phase, poolVars, job, wk, cancel, fix, cli, word, heard, histVars>>

Recorded(i, how, e) ==
  /\ word' = [word EXCEPT ![turn[i].word] = [how |-> how, job |-> e, exec |-> turn[i].exec]]
  /\ turn' = [turn EXCEPT ![i] = [@ EXCEPT !.pc = "words", !.to = None, !.word = None]]

Missed(i) == Recorded(i, "late", None) /\ UNCHANGED job

Amended(i, e) ==
  /\ job' = [job EXCEPT ![e].amend = @ \cup {turn[i].word}]
  /\ Recorded(i, "amended", e)

ToRun(i, e) ==
  /\ turn' = [turn EXCEPT ![i].pc = "hand", ![i].to = e]
  /\ UNCHANGED <<job, word>>

\* Mutant: the words are added to any job whose agent is not there yet.
DeliverRouteByRun(i) ==
  /\ turn[i].pc = "route"
  /\ LET e == FirstJob(i) IN
       \/ e = None /\ Missed(i)
       \/ e # None /\ ~job[e].held /\ Amended(i, e)
       \/ e # None /\ job[e].held /\ ToRun(i, e)
  /\ UNCHANGED <<dbVars, phase, poolVars, wk, cancel, fix, cli, heard, histVars>>
\* Under p.mu.
DeliverRoute(i) ==
  /\ turn[i].pc = "route"
  /\ LET e == FirstJob(i) IN
       \/ e = None /\ Missed(i)
       \/ e # None /\ e \notin running /\ Amended(i, e)
       \/ e \in running /\ ToRun(i, e)
  /\ UNCHANGED <<dbVars, phase, poolVars, wk, cancel, fix, cli, heard, histVars>>

\* Under j.mu.  A run that is over, or finishing, refuses the words.
DeliverHand(i) ==
  /\ turn[i].pc = "hand"
  /\ LET e == turn[i].to IN
       \/ (job[e].cancelled \/ job[e].held) /\ Missed(i)
       \/ /\ ~job[e].cancelled /\ ~job[e].held
          /\ job' = [job EXCEPT ![e].buffer = @ \cup {turn[i].word}]
          /\ Recorded(i, "steered", e)
       \/ /\ ~job[e].cancelled /\ job[e].held /\ cli[e] = "live"
          /\ job' = [job EXCEPT ![e].taken = @ \cup {turn[i].word}]
          /\ Recorded(i, "steered", e)
  /\ UNCHANGED <<dbVars, phase, poolVars, wk, cancel, fix, cli, heard, histVars>>

WordsEnd(i) ==
  /\ turn[i].pc = "words"
  /\ turn' = [turn EXCEPT ![i] = Idle]
  /\ UNCHANGED <<dbVars, phase, poolVars, job, wk, cancel, fix, cli, word, heard, histVars>>

\* Mutant: a turn that finds only cancelled executions looks for no words.
ReadOutcomesKeen(i) ==
  LET unread == {e \in OfItem(i) : heard[e] < Len(posted[e])} IN
  /\ phase \in {"serving", "stopping"} /\ turn[i].pc = "idle" /\ unread # {}
  /\ heard' = [e \in Exec |-> IF e \in unread THEN Len(posted[e]) ELSE heard[e]]
  /\ word' = [w \in Word |->
       IF word[w].how = "late" /\ word[w].exec \in {e \in unread : Last(posted[e]) # "cancelled"}
       THEN [word[w] EXCEPT !.how = "rode"] ELSE word[w]]
  /\ UNCHANGED <<dbVars, phase, poolVars, job, wk, turn, cancel, fix, cli, histVars>>
\* A turn reads the outcomes in its mailbox, and with each the words recorded as late
\* for it (steeredWords).
ReadOutcomes(i) ==
  LET unread == {e \in OfItem(i) : heard[e] < Len(posted[e])} IN
  /\ phase \in {"serving", "stopping"} /\ turn[i].pc = "idle" /\ unread # {}
  /\ heard' = [e \in Exec |-> IF e \in unread THEN Len(posted[e]) ELSE heard[e]]
  /\ word' = [w \in Word |->
       IF word[w].how = "late" /\ word[w].exec \in unread
       THEN [word[w] EXCEPT !.how = "rode"] ELSE word[w]]
  /\ UNCHANGED <<dbVars, phase, poolVars, job, wk, turn, cancel, fix, cli, histVars>>

-----------------------------------------------------------------------------
(* runJob *)

At(e, pc) == wk[e].pc = pc
Goto(e, pc) == wk' = [wk EXCEPT ![e].pc = pc]
Ends(e, out) == wk' = [wk EXCEPT ![e] = [pc |-> "report", out |-> out]]

OnlyWorker == UNCHANGED <<phase, poolVars, turn, cancel, fix, word, heard, stops, crashes>>

\* A row that is no longer queued is skipped: nothing is reported.  So is one that
\* cannot be read.
WorkerCheck(e) ==
  /\ At(e, "check")
  /\ \/ status[e] = "queued" /\ Goto(e, "mark") /\ UNCHANGED faults
     \/ status[e] # "queued" /\ Goto(e, "remove") /\ UNCHANGED faults
     \/ Fault /\ Goto(e, "remove")
  /\ OnlyWorker /\ UNCHANGED <<dbVars, job, cli>>

WorkerMark(e) ==
  /\ At(e, "mark")
  /\ status' = [status EXCEPT ![e] = "running"]
  /\ Goto(e, "amend")
  /\ OnlyWorker /\ UNCHANGED <<born, posted, asked, job, cli, faults>>

\* The amendments are copied into the instructions, under p.mu.
WorkerAmend(e) ==
  /\ At(e, "amend")
  /\ job' = [job EXCEPT ![e].told = job[e].amend]
  /\ Goto(e, "setup")
  /\ OnlyWorker /\ UNCHANGED <<dbVars, cli, faults>>

\* A fresh worktree may have a setup script to run, which a cancel stops.
WorkerSetup(e) ==
  /\ At(e, "setup")
  /\ \/ Goto(e, "arm")
     \/ ~job[e].cancelled /\ Goto(e, "script")
  /\ OnlyWorker /\ UNCHANGED <<dbVars, job, cli, faults>>

WorkerScriptEnds(e) ==
  /\ At(e, "script")
  /\ Goto(e, "arm")
  /\ OnlyWorker /\ UNCHANGED <<dbVars, job, cli, faults>>

WorkerArm(e) ==
  /\ At(e, "arm")
  /\ IF job[e].cancelled THEN Ends(e, "cancelled") ELSE Goto(e, "start")
  /\ OnlyWorker /\ UNCHANGED <<dbVars, job, cli, faults>>

\* The agent is started even when the pool's context is cancelled: it is then killed.
WorkerStart(e) ==
  /\ At(e, "start")
  /\ cli' = [cli EXCEPT ![e] = "live"]
  /\ Goto(e, "hold")
  /\ OnlyWorker /\ UNCHANGED <<dbVars, job, faults>>

\* The work item, its checkouts or the agent cannot be had.
WorkerFails(e) ==
  /\ \/ wk[e].pc \in {"check", "mark", "setup"} /\ Fault
     \/ At(e, "start") /\ UNCHANGED faults
  /\ Ends(e, "failed")
  /\ OnlyWorker /\ UNCHANGED <<dbVars, job, cli>>

\* Mutant: a cancel that came before the run was there is forgotten.
WorkerHoldDeaf(e) ==
  /\ At(e, "hold")
  /\ \E accepted \in SUBSET job[e].buffer :
       job' = [job EXCEPT ![e].held = TRUE, ![e].buffer = {}, ![e].taken = @ \cup accepted]
  /\ Goto(e, "wait")
  /\ OnlyWorker /\ UNCHANGED <<dbVars, cli, faults>>
\* The words buffered meanwhile go to the run; one it refuses is dropped.
WorkerHold(e) ==
  /\ At(e, "hold")
  /\ \E accepted \in SUBSET job[e].buffer :
       /\ job[e].cancelled \/ cli[e] = "over" => accepted = {}
       /\ job' = [job EXCEPT ![e].held = TRUE, ![e].cut = job[e].cancelled,
                             ![e].buffer = {}, ![e].taken = @ \cup accepted]
  /\ Goto(e, "wait")
  /\ OnlyWorker /\ UNCHANGED <<dbVars, cli, faults>>

\* The agent process ends: by itself, at its timeout, or killed.
CliEnds(e) ==
  /\ cli[e] = "live"
  /\ cli' = [cli EXCEPT ![e] = "over"]
  /\ UNCHANGED <<dbVars, phase, poolVars, job, wk, turn, cancel, fix, word, heard, histVars>>

\* Wait returned; the outcome is settled under j.mu.
WorkerVerdict(e) ==
  /\ At(e, "wait") /\ cli[e] = "over"
  /\ \/ job[e].cancelled /\ Ends(e, "cancelled")
     \/ ~job[e].cancelled /\ phase # "serving" /\ Ends(e, "lost")
     \/ ~job[e].cancelled /\ phase = "serving" /\ \E out \in {"done", "failed"} : Ends(e, out)
  /\ OnlyWorker /\ UNCHANGED <<dbVars, job, cli, faults>>

\* reportOutcome: the row, then the message to the owner.
WorkerReport(e) ==
  /\ At(e, "report")
  /\ status' = [status EXCEPT ![e] = wk[e].out]
  /\ Goto(e, "post")
  /\ OnlyWorker /\ UNCHANGED <<born, posted, asked, job, cli, faults>>

WorkerPost(e) ==
  /\ At(e, "post")
  /\ posted' = [posted EXCEPT ![e] = Append(@, wk[e].out)]
  /\ Goto(e, "remove")
  /\ OnlyWorker /\ UNCHANGED <<born, status, asked, job, cli, faults>>

WorkerReportFails(e) ==
  /\ wk[e].pc \in {"report", "post"} /\ Fault
  /\ Goto(e, "remove")
  /\ OnlyWorker /\ UNCHANGED <<dbVars, job, cli>>

\* Mutant: the job leaves the queue only.
WorkerRemoveQueued(e) ==
  /\ At(e, "remove")
  /\ order' = Dequeued(e)
  /\ Goto(e, "pump")
  /\ UNCHANGED <<dbVars, phase, running, job, turn, cancel, fix, cli, word, heard, histVars>>
WorkerRemove(e) ==
  /\ At(e, "remove")
  /\ running' = running \ {e}
  /\ order' = Dequeued(e)
  /\ Goto(e, "pump")
  /\ UNCHANGED <<dbVars, phase, job, turn, cancel, fix, cli, word, heard, histVars>>

\* Mutant: the goroutine ends without a Pump.
WorkerPumpNever(e) ==
  /\ At(e, "pump")
  /\ wk' = [wk EXCEPT ![e] = NoWork]
  /\ OnlyWorker /\ UNCHANGED <<dbVars, job, cli, faults>>
WorkerPump(e) ==
  /\ At(e, "pump")
  /\ Pump([wk EXCEPT ![e] = NoWork])
  /\ UNCHANGED <<dbVars, phase, order, job, turn, cancel, fix, cli, word, heard, histVars>>

-----------------------------------------------------------------------------
(* CancelTree *)

CancelAt(c, pc) == cancel[c].pc = pc
CancelGoto(c, pc) == cancel' = [cancel EXCEPT ![c].pc = pc]

OnlyCancel == UNCHANGED <<phase, running, wk, turn, fix, cli, word, heard, stops, crashes>>

\* Subtree
CancelBegin(c, tree) ==
  /\ phase \in {"serving", "stopping", "ending"} /\ CancelAt(c, "new")
  /\ cancel' = [cancel EXCEPT ![c] =
       [pc |-> "look", left |-> tree, exec |-> None,
        saw |-> Active({e \in Exec : ItemOf[e] \in ToSet(tree)})]]
  /\ OnlyCancel /\ UNCHANGED <<dbVars, order, job, faults>>

\* The loop goes on with the next node.
CancelNext(c) ==
  cancel' = [cancel EXCEPT ![c].left = Tail(@), ![c].exec = None,
                           ![c].pc = IF Len(cancel[c].left) = 1 THEN "over" ELSE "look"]

\* ActiveExecutionFor the node.
CancelLook(c) ==
  /\ CancelAt(c, "look")
  /\ LET S == Active(OfItem(Head(cancel[c].left))) IN
       \/ S = {} /\ CancelNext(c)
       \/ S # {} /\ cancel' = [cancel EXCEPT ![c].pc = "ask", ![c].exec = OldestOf(S)]
  /\ OnlyCancel /\ UNCHANGED <<dbVars, order, job, faults>>

CancelAsk(c) ==
  /\ CancelAt(c, "ask")
  /\ asked' = asked \cup {cancel[c].exec}
  /\ CancelGoto(c, "lock")
  /\ OnlyCancel /\ UNCHANGED <<born, status, posted, order, job, faults>>

\* Under p.mu: a job that waits leaves the queue.
CancelLock(c) ==
  /\ CancelAt(c, "lock")
  /\ LET e == cancel[c].exec IN
       IF e \in running
       THEN CancelGoto(c, "flag") /\ UNCHANGED order
       ELSE CancelGoto(c, "report") /\ order' = Dequeued(e)
  /\ OnlyCancel /\ UNCHANGED <<dbVars, job, faults>>

\* Under j.mu, with the Cancel of the run that follows.
CancelFlag(c) ==
  /\ CancelAt(c, "flag")
  /\ LET e == cancel[c].exec IN
       job' = [job EXCEPT ![e].cancelled = TRUE, ![e].cut = job[e].held]
  /\ CancelNext(c)
  /\ OnlyCancel /\ UNCHANGED <<dbVars, order, faults>>

CancelReport(c) ==
  /\ CancelAt(c, "report")
  /\ status' = [status EXCEPT ![cancel[c].exec] = "cancelled"]
  /\ CancelGoto(c, "post")
  /\ OnlyCancel /\ UNCHANGED <<born, posted, asked, order, job, faults>>

CancelPost(c) ==
  /\ CancelAt(c, "post")
  /\ posted' = [posted EXCEPT ![cancel[c].exec] = Append(@, "cancelled")]
  /\ CancelNext(c)
  /\ OnlyCancel /\ UNCHANGED <<born, status, asked, order, job, faults>>

\* A database error, or the context of the request or of the Primary's turn is gone.
CancelFails(c) ==
  /\ cancel[c].pc \in {"look", "ask", "report", "post"}
  /\ \/ phase = "ending" /\ UNCHANGED faults
     \/ Fault
  /\ cancel' = [cancel EXCEPT ![c].pc = "failed", ![c].exec = None]
  /\ OnlyCancel /\ UNCHANGED <<dbVars, order, job>>

-----------------------------------------------------------------------------
(* App.Start, App.Stop and crashes *)

FreshMemory ==
  /\ order' = <<>> /\ running' = {}
  /\ job' = [e \in Exec |-> NoJob] /\ wk' = [e \in Exec |-> NoWork]
  /\ turn' = [i \in Item |-> Idle]
  /\ cancel' = [c \in Canceller |->
       IF cancel[c].pc \in {"new", "over", "failed"} THEN cancel[c]
       ELSE [cancel[c] EXCEPT !.pc = "failed", !.exec = None]]
  /\ fix' = NoFix

\* Mutant: only the executions that were running are looked for.
StartRunning ==
  /\ phase = "down"
  /\ phase' = "recover"
  /\ fix' = [left |-> {e \in Exec : status[e] = "running"}, exec |-> None]
  /\ UNCHANGED <<dbVars, poolVars, job, wk, turn, cancel, cli, word, heard, histVars>>
Start ==
  /\ phase = "down"
  /\ phase' = "recover"
  /\ fix' = [left |-> Active(Exec), exec |-> None]
  /\ UNCHANGED <<dbVars, poolVars, job, wk, turn, cancel, cli, word, heard, histVars>>

\* Recover takes the active rows in order; no job is held yet.
RecoverReport ==
  /\ phase = "recover" /\ fix.exec = None /\ fix.left \ Jobs # {}
  /\ LET e == OldestOf(fix.left \ Jobs) IN
       /\ status' = [status EXCEPT ![e] = "lost"]
       /\ fix' = [left |-> fix.left \ {e}, exec |-> e]
  /\ UNCHANGED <<born, posted, asked, phase, poolVars, job, wk, turn, cancel, cli, word,
                 heard, histVars>>

RecoverPost ==
  /\ fix.exec # None
  /\ posted' = [posted EXCEPT ![fix.exec] = Append(@, "lost")]
  /\ fix' = [fix EXCEPT !.exec = None]
  /\ UNCHANGED <<born, status, asked, phase, poolVars, job, wk, turn, cancel, cli, word,
                 heard, histVars>>

\* The start is given up.
RecoverFails ==
  /\ phase = "recover" /\ Fault
  /\ phase' = "down" /\ fix' = NoFix
  /\ UNCHANGED <<dbVars, poolVars, job, wk, turn, cancel, cli, word, heard, stops, crashes>>

Serve ==
  /\ phase = "recover" /\ fix.exec = None /\ fix.left \ Jobs = {}
  /\ phase' = "serving" /\ fix' = NoFix
  /\ UNCHANGED <<dbVars, poolVars, job, wk, turn, cancel, cli, word, heard, histVars>>

\* Shutdown cancels the pool's context.
Stop ==
  /\ phase = "serving" /\ stops < MaxStops
  /\ stops' = stops + 1
  /\ phase' = "stopping"
  /\ UNCHANGED <<dbVars, poolVars, job, wk, turn, cancel, fix, cli, word, heard, crashes,
                 faults>>

\* Shutdown returns when the pool has no goroutine, or when its time is up; then
\* Runtime.Stop cancels the turns.
ShutdownReturns ==
  /\ phase = "stopping"
  /\ \/ (\A e \in Exec : wk[e].pc = "none") /\ UNCHANGED faults
     \/ Fault
  /\ phase' = "ending"
  /\ UNCHANGED <<dbVars, poolVars, job, wk, turn, cancel, fix, cli, word, heard, stops,
                 crashes>>

\* Runtime.Stop waits for the turns only; then the process exits.
Exit ==
  /\ phase = "ending" /\ \A i \in Item : turn[i].pc = "idle"
  /\ phase' = "down" /\ FreshMemory
  /\ UNCHANGED <<dbVars, cli, word, heard, histVars>>

\* The agents run in process groups of their own and survive.
Crash ==
  /\ phase # "down" /\ crashes < MaxCrashes
  /\ crashes' = crashes + 1
  /\ phase' = "down" /\ FreshMemory
  /\ UNCHANGED <<dbVars, cli, word, heard, stops, faults>>

-----------------------------------------------------------------------------
Init ==
  /\ born = [e \in Exec |-> 0] /\ status = [e \in Exec |-> "none"]
  /\ posted = [e \in Exec |-> <<>>] /\ asked = {}
  /\ phase = "down" /\ order = <<>> /\ running = {}
  /\ job = [e \in Exec |-> NoJob] /\ wk = [e \in Exec |-> NoWork]
  /\ turn = [i \in Item |-> Idle]
  /\ cancel = [c \in Canceller |-> NoCall] /\ fix = NoFix
  /\ cli = [e \in Exec |-> "none"]
  /\ word = [w \in Word |-> Nowhere] /\ heard = [e \in Exec |-> 0]
  /\ stops = 0 /\ crashes = 0 /\ faults = 0

Dispatching(i) == DispatchAppend(i) \/ DispatchFails(i) \/ DispatchEnqueue(i) \/ DispatchPump(i)
Delivering(i) == DeliverRoute(i) \/ DeliverHand(i) \/ WordsEnd(i)

Turn(i) ==
  \/ \E e \in Exec : DispatchRow(i, e)
  \/ \E w \in Word : WordArrives(i, w)
  \/ Dispatching(i) \/ Delivering(i) \/ ReadOutcomes(i)

Worker(e) ==
  \/ WorkerCheck(e) \/ WorkerMark(e) \/ WorkerAmend(e) \/ WorkerSetup(e)
  \/ WorkerScriptEnds(e) \/ WorkerArm(e) \/ WorkerStart(e) \/ WorkerFails(e)
  \/ WorkerHold(e) \/ WorkerVerdict(e) \/ WorkerReport(e) \/ WorkerPost(e)
  \/ WorkerReportFails(e) \/ WorkerRemove(e) \/ WorkerPump(e)

Cancelling(c) ==
  \/ CancelLook(c) \/ CancelAsk(c) \/ CancelLock(c) \/ CancelFlag(c)
  \/ CancelReport(c) \/ CancelPost(c) \/ CancelFails(c)

Life ==
  \/ Start \/ RecoverReport \/ RecoverPost \/ RecoverFails \/ Serve
  \/ Stop \/ ShutdownReturns \/ Exit \/ Crash

Next ==
  \/ \E i \in Item : Turn(i)
  \/ \E e \in Exec : Worker(e) \/ CliEnds(e)
  \/ \E c \in Canceller : Cancelling(c) \/ \E tree \in Trees : CancelBegin(c, tree)
  \/ PumpTimer \/ Life

Spec == Init /\ [][Next]_vars

\* Goroutines run, agents end (WorkerTimeout kills one that does not), outcomes are
\* read and a process that went down is started again.  The pump timer is not assumed
\* to fire.
Progress ==
  /\ \A i \in Item : /\ WF_vars(Dispatching(i)) /\ WF_vars(Delivering(i))
                     /\ WF_vars(ReadOutcomes(i))
  /\ \A e \in Exec : WF_vars(Worker(e)) /\ WF_vars(CliEnds(e))
  /\ \A c \in Canceller : WF_vars(Cancelling(c))
  /\ WF_vars(Start) /\ WF_vars(RecoverReport \/ RecoverPost \/ Serve)
  /\ WF_vars(ShutdownReturns) /\ WF_vars(Exit)

FairSpec == Spec /\ Progress
=============================================================================
