------------------------- MODULE WorkerPoolRunProofs -------------------------
(***************************************************************************)
(* What the pool promises about the runs: one writer per workspace, the     *)
(* limit on workers, cancels and amendments that reach the agent, one       *)
(* report per execution, no row left behind, and late words that ride with  *)
(* an outcome.                                                              *)
(***************************************************************************)
EXTENDS WorkerPoolProofs

(* The path of runJob *)

Path ==
  {<<"check", "mark">>, <<"check", "remove">>, <<"check", "report">>, <<"mark", "amend">>,
   <<"mark", "report">>, <<"amend", "setup">>, <<"setup", "arm">>, <<"setup", "script">>,
   <<"setup", "report">>, <<"script", "arm">>, <<"arm", "report">>, <<"arm", "start">>,
   <<"start", "hold">>, <<"start", "report">>, <<"hold", "wait">>, <<"wait", "report">>,
   <<"report", "post">>, <<"report", "remove">>, <<"post", "remove">>, <<"remove", "pump">>}

\* Where a goroutine goes, and the steps that matter to others.
LEMMA OnPath ==
  ASSUME Core, NEW e \in Exec, Worker(e)
  PROVE  \/ WorkerPump(e)
         \/ /\ <<wk[e].pc, wk'[e].pc>> \in Path
            /\ wk[e].pc = "mark" /\ wk'[e].pc = "amend" => WorkerMark(e)
            /\ wk[e].pc = "amend" => WorkerAmend(e)
            /\ wk[e].pc = "start" /\ wk'[e].pc = "hold" => WorkerStart(e)
            /\ wk[e].pc = "hold" => WorkerHold(e)
            /\ wk[e].pc = "wait" => WorkerVerdict(e)
            /\ wk[e].pc = "report" /\ wk'[e].pc = "post" => WorkerReport(e)
            /\ wk[e].pc = "remove" => WorkerRemove(e)
<1>1. wk \in [Exec -> WkType] /\ wk[e] \in WkType
  BY DEF Core, PoolTypeOK, JobTypeOK, WkType
<1>2. ASSUME NEW p, Goto(e, p)
      PROVE  wk'[e].pc = p
  BY <1>1, <1>2 DEF Goto, WkType
<1>3. ASSUME NEW o, Ends(e, o)
      PROVE  wk'[e].pc = "report"
  BY <1>1, <1>3 DEF Ends
<1> DEFINE Goal == /\ <<wk[e].pc, wk'[e].pc>> \in Path
                   /\ wk[e].pc = "mark" /\ wk'[e].pc = "amend" => WorkerMark(e)
                   /\ wk[e].pc = "amend" => WorkerAmend(e)
                   /\ wk[e].pc = "start" /\ wk'[e].pc = "hold" => WorkerStart(e)
                   /\ wk[e].pc = "hold" => WorkerHold(e)
                   /\ wk[e].pc = "wait" => WorkerVerdict(e)
                   /\ wk[e].pc = "report" /\ wk'[e].pc = "post" => WorkerReport(e)
                   /\ wk[e].pc = "remove" => WorkerRemove(e)
<1> USE DEF At, Path
<1>4. ASSUME WorkerCheck(e)
      PROVE  Goal
  <2>1. wk[e].pc = "check" /\ wk'[e].pc \in {"mark", "remove"}
    BY <1>2, <1>4 DEF WorkerCheck
  <2> QED
    BY <2>1
<1>5. ASSUME WorkerMark(e)
      PROVE  Goal
  <2>1. wk[e].pc = "mark" /\ wk'[e].pc = "amend"
    BY <1>2, <1>5 DEF WorkerMark
  <2> QED
    BY <1>5, <2>1
<1>6. ASSUME WorkerAmend(e)
      PROVE  Goal
  <2>1. wk[e].pc = "amend" /\ wk'[e].pc = "setup"
    BY <1>2, <1>6 DEF WorkerAmend
  <2> QED
    BY <1>6, <2>1
<1>7. ASSUME WorkerSetup(e) \/ WorkerScriptEnds(e)
      PROVE  Goal
  <2>1. \/ wk[e].pc = "setup" /\ wk'[e].pc \in {"arm", "script"}
        \/ wk[e].pc = "script" /\ wk'[e].pc = "arm"
    BY <1>2, <1>7 DEF WorkerSetup, WorkerScriptEnds
  <2> QED
    BY <2>1
<1>8. ASSUME WorkerArm(e)
      PROVE  Goal
  <2>1. wk[e].pc = "arm" /\ wk'[e].pc \in {"report", "start"}
    BY <1>2, <1>3, <1>8 DEF WorkerArm
  <2> QED
    BY <2>1
<1>9. ASSUME WorkerStart(e)
      PROVE  Goal
  <2>1. wk[e].pc = "start" /\ wk'[e].pc = "hold"
    BY <1>2, <1>9 DEF WorkerStart
  <2> QED
    BY <1>9, <2>1
<1>10. ASSUME WorkerFails(e)
       PROVE  Goal
  <2>1. wk[e].pc \in {"check", "mark", "setup", "start"} /\ wk'[e].pc = "report"
    BY <1>3, <1>10 DEF WorkerFails
  <2> QED
    BY <2>1
<1>11. ASSUME WorkerHold(e)
       PROVE  Goal
  <2>1. wk[e].pc = "hold" /\ wk'[e].pc = "wait"
    BY <1>2, <1>11 DEF WorkerHold
  <2> QED
    BY <1>11, <2>1
<1>12. ASSUME WorkerVerdict(e)
       PROVE  Goal
  <2>1. wk[e].pc = "wait" /\ wk'[e].pc = "report"
    BY <1>3, <1>12 DEF WorkerVerdict
  <2> QED
    BY <1>12, <2>1
<1>13. ASSUME WorkerReport(e)
       PROVE  Goal
  <2>1. wk[e].pc = "report" /\ wk'[e].pc = "post"
    BY <1>2, <1>13 DEF WorkerReport
  <2> QED
    BY <1>13, <2>1
<1>14. ASSUME WorkerPost(e) \/ WorkerReportFails(e)
       PROVE  Goal
  <2>1. wk[e].pc \in {"report", "post"} /\ wk'[e].pc = "remove"
    BY <1>2, <1>14 DEF WorkerPost, WorkerReportFails
  <2> QED
    BY <2>1
<1>15. ASSUME WorkerRemove(e)
       PROVE  Goal
  <2>1. wk[e].pc = "remove" /\ wk'[e].pc = "pump"
    BY <1>2, <1>15 DEF WorkerRemove
  <2> QED
    BY <1>15, <2>1
<1> HIDE DEF Goal
<1>16. Goal \/ WorkerPump(e)
  BY <1>4, <1>5, <1>6, <1>7, <1>8, <1>9, <1>10, <1>11, <1>12, <1>13, <1>14, <1>15 DEF Worker
<1> QED
  BY <1>16 DEF Goal

\* Where a goroutine is, by its own step or by a Pump.
LEMMA PlaceMoves ==
  ASSUME Core, [Next]_vars, NEW e \in Exec
  PROVE  \/ wk'[e].pc = wk[e].pc
         \/ Worker(e) /\ e \in running /\ <<wk[e].pc, wk'[e].pc>> \in Path
         \/ e \in Jobs \ running /\ wk'[e].pc = "check"
         \/ wk'[e].pc = "none"
<1>1. WorkerPump(e) => wk[e].pc = "pump" /\ e \notin running
  BY QueueNow DEF WorkerPump, At, QueueOK
<1> QED
  BY <1>1, WkMoves, OnPath, NothingKept DEF NoWork

\* A job waits in the queue, without a goroutine, because a dispatch put it there or it
\* waited before.
LEMMA Waiting ==
  ASSUME Core, [Next]_vars, NEW e \in Exec, e \in Jobs' \ running'
  PROVE  e \in Jobs \ running \/ Entering(e)
<1>1. CASE e \in running
  <2>1. wk[e].pc \notin {"none", "pump"} /\ wk'[e].pc \in {"none", "pump"} /\ ~FreshMemory
    BY <1>1, QueueNow, QueueStep, NothingKept DEF QueueOK
  <2>2. Worker(e) /\ ~WorkerPump(e)
    BY <1>1, <2>1, WkMoves DEF WorkerPump, At
  <2>3. wk'[e].pc = "pump"
    BY <2>1, <2>2, OnPath DEF Path
  <2> QED
    BY <2>3, QueueStep DEF QueueOK
<1>2. CASE e \in Jobs /\ e \notin running
  BY <1>2
<1>3. ASSUME NEW i \in Item, DispatchEnqueue(i), turn[i].exec = e
      PROVE  Entering(e)
  BY <1>3 DEF DispatchEnqueue, Entering, Core, CallInv, OfItem
<1> QED
  BY <1>1, <1>2, <1>3, JobsGrow

-----------------------------------------------------------------------------
(* The run a goroutine holds *)

\* A run is registered by its goroutine, at its start, and agents are started by theirs.
LEMMA HoldStep ==
  ASSUME Core, HoldInv, [Next]_vars
  PROVE  HoldInv'
<1> SUFFICES ASSUME NEW e \in Exec
             PROVE  /\ e \in Jobs' \ running' \/ wk'[e].pc \in Before => ~job'[e].held
                    /\ wk'[e].pc = "wait" => job'[e].held
                    /\ job'[e].held /\ cli'[e] = "live" => wk'[e].pc = "wait"
                    /\ job'[e].held /\ job'[e].cancelled => job'[e].cut
  BY DEF HoldInv
<1>1. /\ e \in Jobs \ running \/ wk[e].pc \in Before => ~job[e].held
      /\ wk[e].pc = "wait" => job[e].held
      /\ job[e].held /\ cli[e] = "live" => wk[e].pc = "wait"
      /\ job[e].held /\ job[e].cancelled => job[e].cut
  BY DEF HoldInv
<1>2. CASE FreshMemory
  BY <1>2, NothingKept DEF NoJob, Before
<1>3. CASE ~FreshMemory
  <2>1. \/ cli'[e] = cli[e]
        \/ WorkerStart(e)
        \/ CliEnds(e) /\ cli'[e] = "over"
    <3>1. cli \in [Exec -> {"none", "live", "over"}]
      BY DEF Core, PoolTypeOK
    <3> QED
      BY <3>1, Counters DEF CliEnds
  <2>2. \/ job'[e].held = job[e].held
        \/ WorkerHold(e) /\ job'[e].held
    BY <1>3, JobMoves
  <2>0. ASSUME WorkerHold(e)
        PROVE  job'[e].held
    <3>1. job \in [Exec -> JobType]
      BY DEF Core, PoolTypeOK, JobTypeOK, JobType
    <3>2. PICK accepted :
            job' = [job EXCEPT ![e].held = TRUE, ![e].cut = job[e].cancelled,
                               ![e].buffer = {}, ![e].taken = @ \cup accepted]
      BY <2>0 DEF WorkerHold
    <3> QED
      BY <3>1, <3>2 DEF JobType
  <2>3. \/ wk'[e].pc = wk[e].pc
        \/ Worker(e) /\ e \in running /\ <<wk[e].pc, wk'[e].pc>> \in Path
        \/ wk[e].pc = "pump" /\ wk'[e].pc = "none"
        \/ e \in Jobs \ running /\ wk'[e].pc = "check" /\ wk[e].pc = "none" /\ UNCHANGED <<job, cli>>
    <3>1. WorkerPump(e) => wk[e].pc = "pump" /\ e \notin running
      BY QueueNow DEF WorkerPump, At, QueueOK
    <3> QED
      BY <1>3, <3>1, WkMoves, OnPath DEF NoWork
  <2>4. e \in Jobs' \ running' => ~job[e].held
    BY <1>1, Waiting DEF Core, QueueInv
  <2>5. WorkerHold(e) => wk[e].pc = "hold" /\ wk'[e].pc = "wait" /\ UNCHANGED cli
    <3>1. WorkerHold(e) => wk[e].pc = "hold" /\ Worker(e)
      BY DEF WorkerHold, At, Worker
    <3>2. WorkerHold(e) => wk[e].pc = "hold" /\ <<wk[e].pc, wk'[e].pc>> \in Path
      BY <3>1, OnPath DEF WorkerPump, At
    <3> QED
      BY <3>2 DEF WorkerHold, Path
  <2>6. wk'[e].pc = "wait" /\ wk[e].pc # "wait" => WorkerHold(e)
    BY <2>3, OnPath DEF Path, WorkerPump, At
  <2>7. wk[e].pc = "wait" /\ wk'[e].pc # "wait" => cli'[e] # "live"
    <3>1. wk[e].pc = "wait" /\ wk'[e].pc # "wait" => WorkerVerdict(e)
      BY <2>3, OnPath DEF WorkerPump, At
    <3> QED
      BY <3>1 DEF WorkerVerdict
  <2>8. wk'[e].pc \in Before => wk[e].pc \in Before \/ e \in Jobs \ running
    BY <2>3 DEF Before, Path
  <2>9. WorkerStart(e) => wk[e].pc = "start"
    BY DEF WorkerStart, At
  <2>10. e \in Jobs' \ running' \/ wk'[e].pc \in Before => ~job'[e].held
    <3>1. WorkerHold(e) => wk'[e].pc \notin Before \cup {"none", "pump"}
      BY <2>5 DEF Before
    <3>2. e \in Jobs' \ running' => wk'[e].pc \in {"none", "pump"}
      BY QueueStep DEF QueueOK
    <3> QED
      BY <1>1, <2>2, <2>4, <2>8, <3>1, <3>2
  <2>11. wk'[e].pc = "wait" => job'[e].held
    BY <1>1, <2>0, <2>2, <2>6
  <2>12. job'[e].held /\ cli'[e] = "live" => wk'[e].pc = "wait"
    BY <1>1, <2>1, <2>2, <2>5, <2>7, <2>9 DEF Before
  <2>13. job'[e].held /\ job'[e].cancelled => job'[e].cut
    BY <1>1, <1>3, JobMoves
  <2> QED
    BY <2>10, <2>11, <2>12, <2>13
<1> QED
  BY <1>2, <1>3

LEMMA HoldHolds == Spec => [](Core /\ HoldInv)
<1>1. Init => Core /\ HoldInv
  BY CoreInit DEF Init, HoldInv, NoJob, NoWork, Jobs, ToSet, Before
<1>2. Core /\ HoldInv /\ [Next]_vars => (Core /\ HoldInv)'
  BY CoreStep, HoldStep
<1> QED
  BY <1>1, <1>2, PTL DEF Spec

\* Who is at work in a workspace holds a place in running.
LEMMA WritersRun ==
  ASSUME Core, HoldInv, NEW e \in Exec, Writing(e)
  PROVE  e \in running
<1>1. wk[e].pc \in {"script", "hold", "wait"}
  BY DEF Writing, HoldInv
<1> QED
  BY <1>1, QueueNow DEF QueueOK

\* One workspace, one writer (workerpool.go:24-26): whoever cancels, dispatches or pumps,
\* no two agents, and no agent and setup script, work on an item at once.
THEOREM WritesAlone == Spec => []OneWriter
<1>1. Core /\ HoldInv => OneWriter
  BY WritersRun, QueueNow DEF QueueOK, OneWriter
<1> QED
  BY <1>1, HoldHolds, PTL

\* At most MaxWorkers at once (workerpool.go:25), though four callers pump.
THEOREM LimitKept == Spec => []WorkersWithinLimit
<1>1. ASSUME Core, HoldInv
      PROVE  WorkersWithinLimit
  <2> DEFINE S == {e \in Exec : Writing(e)}
  <2>1. S \subseteq running
    BY <1>1, WritersRun
  <2>2. IsFiniteSet(running) /\ Cardinality(running) <= MaxWorkers
    BY <1>1, QueueNow, WorkerPoolAssumption, FS_Subset DEF QueueOK, Jobs, ToSet
  <2>3. /\ Cardinality(S) <= Cardinality(running)
        /\ Cardinality(S) \in Nat /\ Cardinality(running) \in Nat
    BY <2>1, <2>2, FS_Subset, FS_CardinalityType
  <2> QED
    BY <2>2, <2>3, WorkerPoolAssumption DEF WorkersWithinLimit
<1> QED
  BY <1>1, HoldHolds, PTL

\* A cancelled run is told to stop, whichever of the cancel and the registration of the
\* run comes first (workerpool.go:336-344, 522-531).
THEOREM CancelsArrive == Spec => []CancelReachesRun
<1>1. Core /\ HoldInv => CancelReachesRun
  BY DEF HoldInv, CancelReachesRun
<1> QED
  BY <1>1, HoldHolds, PTL

-----------------------------------------------------------------------------
(* The person's words *)

\* What becomes of a word: Deliver records it, or it rides with an outcome.
LEMMA WordMoves ==
  ASSUME Core, [Next]_vars, NEW w \in Word
  PROVE  \/ word'[w] = word[w]
         \/ \E i \in Item, f \in Exec :
              /\ DeliverRoute(i) /\ turn[i].word = w
              /\ word'[w] = [how |-> "amended", job |-> f, exec |-> turn[i].exec]
              /\ f \in Jobs \ running
              /\ w \in job'[f].amend /\ UNCHANGED wk /\ job'[f].held = job[f].held
         \/ \E i \in Item :
              /\ DeliverRoute(i) \/ DeliverHand(i)
              /\ turn[i].word = w /\ turn[i].pc \in {"route", "hand"}
              /\ word'[w].how \in {"late", "steered"} /\ word'[w].exec = turn[i].exec
         \/ \E i \in Item :
              /\ ReadOutcomes(i) /\ word[w].how = "late" /\ word'[w].how = "rode"
<1>1. word \in [Word -> WordType]
  BY DEF Core, PoolTypeOK, WordType
<1>2. ASSUME NEW i \in Item, NEW how, NEW e, Recorded(i, how, e)
      PROVE  \/ word'[w] = word[w]
             \/ turn[i].word = w /\ word'[w] = [how |-> how, job |-> e, exec |-> turn[i].exec]
  BY <1>1, <1>2 DEF Recorded
<1>3. ASSUME NEW i \in Item, DeliverRoute(i), word'[w] # word[w]
      PROVE  \/ \E f \in Exec :
                /\ turn[i].word = w
                /\ word'[w] = [how |-> "amended", job |-> f, exec |-> turn[i].exec]
                /\ f \in Jobs \ running
                /\ w \in job'[f].amend /\ UNCHANGED wk /\ job'[f].held = job[f].held
             \/ /\ turn[i].word = w /\ turn[i].pc \in {"route", "hand"}
                /\ word'[w].how \in {"late", "steered"} /\ word'[w].exec = turn[i].exec
  <2>1. turn[i].pc = "route" /\ UNCHANGED wk
    BY <1>3 DEF DeliverRoute
  <2>2. CASE Missed(i)
    <3>1. Recorded(i, "late", None)
      BY <2>2 DEF Missed
    <3>2. turn[i].word = w /\ word'[w] = [how |-> "late", job |-> None, exec |-> turn[i].exec]
      BY <1>2, <1>3, <3>1
    <3> QED
      BY <2>1, <3>2
  <2>3. ASSUME NEW f, f = FirstJob(i), f # None, f \notin running, Amended(i, f)
        PROVE  /\ f \in Exec /\ turn[i].word = w
               /\ word'[w] = [how |-> "amended", job |-> f, exec |-> turn[i].exec]
               /\ f \in Jobs \ running
               /\ w \in job'[f].amend /\ job'[f].held = job[f].held
    <3>1. f \in Jobs \cap Exec
      BY <2>1, <2>3, WordInHand
    <3>2. job' = [job EXCEPT ![f].amend = @ \cup {turn[i].word}] /\ Recorded(i, "amended", f)
      BY <2>3 DEF Amended
    <3>3. turn[i].word = w /\ word'[w] = [how |-> "amended", job |-> f, exec |-> turn[i].exec]
      BY <1>2, <1>3, <3>2
    <3>4. job \in [Exec -> JobType]
      BY DEF Core, PoolTypeOK, JobTypeOK, JobType
    <3>5. w \in job'[f].amend /\ job'[f].held = job[f].held
      BY <3>1, <3>2, <3>3, <3>4 DEF JobType
    <3> QED
      BY <2>3, <3>1, <3>3, <3>5
  <2>4. \/ Missed(i) \/ UNCHANGED word
        \/ FirstJob(i) # None /\ FirstJob(i) \notin running /\ Amended(i, FirstJob(i))
    BY <1>3 DEF DeliverRoute, ToRun
  <2> QED
    BY <1>3, <2>1, <2>2, <2>3, <2>4
<1>4. ASSUME NEW i \in Item, DeliverHand(i), word'[w] # word[w]
      PROVE  /\ turn[i].word = w /\ turn[i].pc \in {"route", "hand"}
             /\ word'[w].how \in {"late", "steered"} /\ word'[w].exec = turn[i].exec
  <2>1. turn[i].pc = "hand"
    BY <1>4 DEF DeliverHand
  <2>2. ASSUME Recorded(i, "late", None)
        PROVE  turn[i].word = w /\ word'[w] = [how |-> "late", job |-> None, exec |-> turn[i].exec]
    BY <1>2, <1>4, <2>2
  <2>3. ASSUME Recorded(i, "steered", turn[i].to)
        PROVE  turn[i].word = w
               /\ word'[w] = [how |-> "steered", job |-> turn[i].to, exec |-> turn[i].exec]
    BY <1>2, <1>4, <2>3
  <2>4. Recorded(i, "late", None) \/ Recorded(i, "steered", turn[i].to)
    BY <1>4 DEF DeliverHand, Missed
  <2> QED
    BY <2>1, <2>2, <2>3, <2>4
<1>5. ASSUME NEW i \in Item, ReadOutcomes(i), word'[w] # word[w]
      PROVE  word[w].how = "late" /\ word'[w].how = "rode"
  <2>1. word[w].how = "late" /\ word'[w] = [word[w] EXCEPT !.how = "rode"]
    BY <1>1, <1>5 DEF ReadOutcomes
  <2>2. word[w] \in WordType
    BY <1>1
  <2> QED
    BY <2>1, <2>2 DEF WordType
<1>6. \/ UNCHANGED word
      \/ \E i \in Item : DeliverRoute(i) \/ DeliverHand(i) \/ ReadOutcomes(i)
  BY TurnFrame DEF TurnAction, DispatchRow, WordArrives, DispatchAppend, DispatchFails, DispatchEnqueue,
      DispatchPump, WordsEnd
<1> QED
  BY <1>3, <1>4, <1>5, <1>6

\* Later than the copy of the amendments.
Later == Before \ {"check", "mark", "amend"}

\* Amendments stop before they are copied, and an execution enters the queue once.
LEMMA AmendStep ==
  ASSUME Core, HoldInv, AmendInv, [Next]_vars
  PROVE  AmendInv'
<1> SUFFICES ASSUME NEW w \in Word, NEW e \in Exec \cup {None},
                    word'[w].how = "amended", word'[w].job = e
             PROVE  /\ e \in Exec /\ ~Entering(e)' /\ (e \in Jobs' => w \in job'[e].amend)
                    /\ wk'[e].pc \in Later \/ job'[e].held => w \in job'[e].told
  BY DEF AmendInv, Later
<1>1. ASSUME e \in Jobs \cap Exec
      PROVE  ~Entering(e)
  BY <1>1 DEF Core, QueueInv
<1>2. ASSUME e \in Jobs \ running, e \in Exec,
             w \in job'[e].amend, UNCHANGED wk, job'[e].held = job[e].held
      PROVE  /\ e \in Exec /\ ~Entering(e)' /\ (e \in Jobs' => w \in job'[e].amend)
             /\ wk'[e].pc \in Later \/ job'[e].held => w \in job'[e].told
  <2>1. ~Entering(e)'
    BY <1>1, <1>2, EntersOnce
  <2>2. wk'[e].pc \notin Later
    BY <1>2, QueueNow DEF QueueOK, Later, Before
  <2>3. ~job'[e].held
    BY <1>2 DEF HoldInv
  <2> QED
    BY <1>2, <2>1, <2>2, <2>3
<1>3. CASE word'[w] = word[w]
  <2>1. /\ e \in Exec /\ ~Entering(e) /\ (e \in Jobs => w \in job[e].amend)
        /\ wk[e].pc \in Later \/ job[e].held => w \in job[e].told
    BY <1>3 DEF AmendInv, Later
  <2>3. ~Entering(e)'
    BY <2>1, EntersOnce
  <2>4. CASE FreshMemory
    BY <2>1, <2>3, <2>4, NothingKept DEF NoJob, Later, Before
  <2>5. CASE ~FreshMemory
    <3>1. e \in Jobs' => e \in Jobs
      BY <2>1, JobsGrow DEF DispatchEnqueue, Entering, Core, CallInv, OfItem
    <3>2. w \in job[e].amend => w \in job'[e].amend
      BY <2>1, <2>5, JobMoves
    <3>3. WorkerAmend(e) => e \in Jobs /\ wk[e].pc = "amend" /\ ~job[e].held
      BY <2>1, QueueNow DEF WorkerAmend, At, QueueOK, HoldInv, Before
    <3>4. \/ job'[e].told = job[e].told
          \/ WorkerAmend(e) /\ job'[e].told = job[e].amend
      BY <2>1, <2>5, JobMoves
    <3>5. w \in job[e].told => w \in job'[e].told
      BY <2>1, <3>3, <3>4
    <3>6. ASSUME wk'[e].pc \in Later, wk[e].pc \notin Later
          PROVE  w \in job'[e].told
      <4>1. Worker(e) /\ ~WorkerPump(e)
        <5>1. WorkerPump(e) => wk[e].pc = "pump" /\ e \notin running
          BY <2>1, QueueNow DEF WorkerPump, At, QueueOK
        <5>2. wk'[e] # NoWork /\ wk'[e] # [pc |-> "check", out |-> "none"] /\ wk'[e] # wk[e]
          BY <3>6 DEF NoWork, Later, Before
        <5> QED
          BY <2>1, <2>5, <5>1, <5>2, WkMoves
      <4>2. WorkerAmend(e)
        BY <2>1, <3>6, <4>1, OnPath DEF Path, Later, Before
      <4>3. job'[e].told = job[e].amend
        <5>1. job \in [Exec -> JobType]
          BY DEF Core, PoolTypeOK, JobTypeOK, JobType
        <5> QED
          BY <2>1, <4>2, <5>1 DEF WorkerAmend, JobType
      <4> QED
        BY <2>1, <3>3, <4>2, <4>3
    <3>7. ASSUME job'[e].held, ~job[e].held
          PROVE  w \in job'[e].told
      <4>1. WorkerHold(e)
        BY <2>1, <2>5, <3>7, JobMoves
      <4> QED
        BY <2>1, <3>5, <4>1 DEF WorkerHold, At, Later, Before
    <3> QED
      BY <2>1, <2>3, <3>1, <3>2, <3>5, <3>6, <3>7
  <2> QED
    BY <2>4, <2>5
<1>4. ASSUME NEW i \in Item, NEW f \in Exec,
             word'[w] = [how |-> "amended", job |-> f, exec |-> turn[i].exec]
      PROVE  f = e
  BY <1>4
<1> QED
  BY <1>2, <1>3, <1>4, WordMoves

\* Words added to a job that has not started are in the instructions of its agent
\* (workerpool.go:121, 250-254): the snapshot comes after every amendment.
THEOREM AmendmentsArrive == Spec => []AmendmentsReachAgent
<1>1. Init => AmendInv
  BY DEF Init, AmendInv, Nowhere
<1>2. Core /\ HoldInv /\ AmendInv /\ [Next]_vars => AmendInv'
  BY AmendStep
<1>3. Core /\ AmendInv => AmendmentsReachAgent
  BY DEF Core, PoolTypeOK, AmendInv, AmendmentsReachAgent
<1> QED
  BY <1>1, <1>2, <1>3, HoldHolds, PTL DEF Spec

-----------------------------------------------------------------------------
(* Rows and outcomes *)

\* Who writes the status of a row, and what.
LEMMA StatusMoves ==
  ASSUME Core, [Next]_vars, NEW e \in Exec
  PROVE  \/ status'[e] = status[e]
         \/ \E i \in Item :
              /\ DispatchRow(i, e) /\ status'[e] = "queued" /\ turn'[i].pc = "append"
              /\ turn'[i].exec = e
         \/ WorkerMark(e) /\ status'[e] = "running" /\ UNCHANGED order
         \/ WorkerReport(e) /\ status'[e] \in Outcomes
         \/ \E c \in Canceller : CancelReport(c) /\ cancel[c].exec = e /\ status'[e] = "cancelled"
         \/ RecoverReport /\ e \in fix.left /\ status'[e] = "lost"
<1> DEFINE Goal ==
         \/ status'[e] = status[e]
         \/ \E i \in Item :
              /\ DispatchRow(i, e) /\ status'[e] = "queued" /\ turn'[i].pc = "append"
              /\ turn'[i].exec = e
         \/ WorkerMark(e) /\ status'[e] = "running" /\ UNCHANGED order
         \/ WorkerReport(e) /\ status'[e] \in Outcomes
         \/ \E c \in Canceller : CancelReport(c) /\ cancel[c].exec = e /\ status'[e] = "cancelled"
         \/ RecoverReport /\ e \in fix.left /\ status'[e] = "lost"
<1>1. status \in [Exec -> Statuses] /\ turn \in [Item -> TurnType]
  BY DEF Core, PoolTypeOK, RowTypeOK, CallTypeOK, TurnType
<1>2. ASSUME NEW i \in Item, NEW f \in Exec, DispatchRow(i, f)
      PROVE  Goal
  <2>1. status' = [status EXCEPT ![f] = "queued"]
    BY <1>2 DEF DispatchRow
  <2>2. turn'[i].pc = "append" /\ turn'[i].exec = f
    BY <1>1, <1>2 DEF DispatchRow, TurnType
  <2> QED
    BY <1>1, <1>2, <2>1, <2>2
<1>3. ASSUME NEW f \in Exec, WorkerMark(f)
      PROVE  Goal
  <2>1. status' = [status EXCEPT ![f] = "running"] /\ UNCHANGED order
    BY <1>3 DEF WorkerMark, OnlyWorker, poolVars
  <2> QED
    BY <1>1, <1>3, <2>1
<1>4. ASSUME NEW f \in Exec, WorkerReport(f)
      PROVE  Goal
  <2>1. status' = [status EXCEPT ![f] = wk[f].out] /\ wk[f].out \in Outcomes
    BY <1>4 DEF WorkerReport, At, Core, CallInv
  <2> QED
    BY <1>1, <1>4, <2>1
<1>5. ASSUME NEW c \in Canceller, CancelReport(c)
      PROVE  Goal
  <2>1. status' = [status EXCEPT ![cancel[c].exec] = "cancelled"]
    BY <1>5 DEF CancelReport
  <2> QED
    BY <1>1, <1>5, <2>1
<1>6. ASSUME RecoverReport
      PROVE  Goal
  <2>1. PICK f \in fix.left : status' = [status EXCEPT ![f] = "lost"]
    BY <1>6, RecoverTakes
  <2> QED
    BY <1>1, <1>6, <2>1
<1>7. Goal \/ UNCHANGED status
  <2> HIDE DEF Goal
  <2> QED
    BY <1>2, <1>3, <1>4, <1>5, <1>6, DbFrame DEF dbVars, WorkerPost, CancelAsk, CancelPost, RecoverPost
<1> QED
  BY <1>7

\* Who reports an outcome.
LEMMA PostMoves ==
  ASSUME Core, [Next]_vars, NEW e \in Exec
  PROVE  \/ posted'[e] = posted[e]
         \/ /\ Len(posted'[e]) = Len(posted[e]) + 1
            /\ \/ WorkerPost(e)
               \/ \E c \in Canceller : CancelPost(c) /\ cancel[c].exec = e
               \/ RecoverPost /\ fix.exec = e
<1> DEFINE Goal ==
         \/ posted'[e] = posted[e]
         \/ /\ Len(posted'[e]) = Len(posted[e]) + 1
            /\ \/ WorkerPost(e)
               \/ \E c \in Canceller : CancelPost(c) /\ cancel[c].exec = e
               \/ RecoverPost /\ fix.exec = e
<1>1. posted \in [Exec -> Seq(Outcomes)]
  BY DEF Core, PoolTypeOK, RowTypeOK
<1>2. ASSUME NEW f, NEW o \in Outcomes, posted' = [posted EXCEPT ![f] = Append(@, o)]
      PROVE  posted'[e] = posted[e] \/ (f = e /\ Len(posted'[e]) = Len(posted[e]) + 1)
  <2>1. CASE f = e
    <3>1. posted'[e] = Append(posted[e], o) /\ posted[e] \in Seq(Outcomes)
      BY <1>1, <1>2, <2>1
    <3> QED
      BY <2>1, <3>1
  <2>2. CASE f # e
    BY <1>1, <1>2, <2>2
  <2> QED
    BY <2>1, <2>2
<1>3. ASSUME NEW f \in Exec, WorkerPost(f)
      PROVE  Goal
  <2>1. posted' = [posted EXCEPT ![f] = Append(@, wk[f].out)] /\ wk[f].out \in Outcomes
    BY <1>3 DEF WorkerPost, At, Core, CallInv
  <2> QED
    BY <1>2, <1>3, <2>1
<1>4. ASSUME NEW c \in Canceller, CancelPost(c)
      PROVE  Goal
  <2>1. posted' = [posted EXCEPT ![cancel[c].exec] = Append(@, "cancelled")] /\ "cancelled" \in Outcomes
    BY <1>4 DEF CancelPost, Outcomes
  <2> QED
    BY <1>2, <1>4, <2>1
<1>5. ASSUME RecoverPost
      PROVE  Goal
  <2>1. posted' = [posted EXCEPT ![fix.exec] = Append(@, "lost")] /\ "lost" \in Outcomes
    BY <1>5 DEF RecoverPost, Outcomes
  <2> QED
    BY <1>2, <1>5, <2>1
<1>6. Goal \/ UNCHANGED posted
  <2> HIDE DEF Goal
  <2> QED
    BY <1>3, <1>4, <1>5, DbFrame DEF dbVars, DispatchRow, WorkerMark, WorkerReport, CancelAsk,
        CancelReport, RecoverReport
<1> QED
  BY <1>6

\* Where a cancel goes.
CancelPath ==
  {<<"new", "look">>, <<"look", "look">>, <<"look", "over">>, <<"look", "ask">>,
   <<"look", "failed">>, <<"ask", "lock">>, <<"ask", "failed">>, <<"lock", "flag">>,
   <<"lock", "report">>, <<"flag", "look">>, <<"flag", "over">>, <<"report", "post">>,
   <<"report", "failed">>, <<"post", "look">>, <<"post", "over">>, <<"post", "failed">>}

LEMMA CancelOnPath ==
  ASSUME Core, NEW c \in Canceller, Cancelling(c) \/ \E tree \in Trees : CancelBegin(c, tree)
  PROVE  /\ <<cancel[c].pc, cancel'[c].pc>> \in CancelPath
         /\ cancel[c].pc = "ask" /\ cancel'[c].pc = "lock" => CancelAsk(c)
         /\ cancel[c].pc = "lock" => CancelLock(c)
         /\ cancel[c].pc = "report" => CancelReport(c) \/ CancelFails(c)
         /\ cancel[c].pc = "post" => CancelPost(c) \/ CancelFails(c)
         /\ cancel'[c].pc \in {"lock", "flag", "report", "post"} => cancel'[c].exec = cancel[c].exec
<1> DEFINE Goal ==
         /\ <<cancel[c].pc, cancel'[c].pc>> \in CancelPath
         /\ cancel[c].pc = "ask" /\ cancel'[c].pc = "lock" => CancelAsk(c)
         /\ cancel[c].pc = "lock" => CancelLock(c)
         /\ cancel[c].pc = "report" => CancelReport(c) \/ CancelFails(c)
         /\ cancel[c].pc = "post" => CancelPost(c) \/ CancelFails(c)
         /\ cancel'[c].pc \in {"lock", "flag", "report", "post"} => cancel'[c].exec = cancel[c].exec
<1>1. cancel \in [Canceller -> CancelType] /\ CallOK(cancel[c]) /\ cancel[c] \in CancelType
  BY DEF Core, PoolTypeOK, CallTypeOK, CallInv, CallOK, CancelType
<1>2. ASSUME NEW p, CancelGoto(c, p)
      PROVE  cancel'[c].pc = p /\ cancel'[c].exec = cancel[c].exec
  BY <1>1, <1>2 DEF CancelGoto, CancelType
<1>3. ASSUME CancelNext(c), cancel[c].pc \in {"look", "flag", "post"}
      PROVE  cancel'[c].pc \in {"over", "look"}
  BY <1>1, <1>3, NextNode DEF CallOK
<1> USE DEF CancelAt, CancelPath
<1>4. ASSUME NEW tree \in Trees, CancelBegin(c, tree)
      PROVE  Goal
  <2>1. cancel[c].pc = "new" /\ cancel'[c].pc = "look"
    BY <1>1, <1>4 DEF CancelBegin
  <2> QED
    BY <2>1
<1>5. ASSUME CancelLook(c)
      PROVE  Goal
  <2>1. cancel[c].pc = "look" /\ cancel'[c].pc \in {"look", "over", "ask"}
    BY <1>1, <1>3, <1>5 DEF CancelLook, CancelType
  <2> QED
    BY <2>1
<1>6. ASSUME CancelAsk(c)
      PROVE  Goal
  <2>1. cancel[c].pc = "ask" /\ cancel'[c].pc = "lock" /\ cancel'[c].exec = cancel[c].exec
    BY <1>2, <1>6 DEF CancelAsk
  <2> QED
    BY <1>6, <2>1
<1>7. ASSUME CancelLock(c)
      PROVE  Goal
  <2>1. cancel[c].pc = "lock" /\ cancel'[c].pc \in {"flag", "report"} /\ cancel'[c].exec = cancel[c].exec
    BY <1>2, <1>7 DEF CancelLock
  <2> QED
    BY <1>7, <2>1
<1>8. ASSUME CancelFlag(c)
      PROVE  Goal
  <2>1. cancel[c].pc = "flag" /\ cancel'[c].pc \in {"over", "look"}
    BY <1>3, <1>8 DEF CancelFlag
  <2> QED
    BY <2>1
<1>9. ASSUME CancelReport(c)
      PROVE  Goal
  <2>1. cancel[c].pc = "report" /\ cancel'[c].pc = "post" /\ cancel'[c].exec = cancel[c].exec
    BY <1>2, <1>9 DEF CancelReport
  <2> QED
    BY <1>9, <2>1
<1>10. ASSUME CancelPost(c)
       PROVE  Goal
  <2>1. cancel[c].pc = "post" /\ cancel'[c].pc \in {"over", "look"}
    BY <1>3, <1>10 DEF CancelPost
  <2> QED
    BY <1>10, <2>1
<1>11. ASSUME CancelFails(c)
       PROVE  Goal
  <2>1. cancel[c].pc \in {"look", "ask", "report", "post"} /\ cancel'[c].pc = "failed"
    BY <1>1, <1>11 DEF CancelFails, CancelType
  <2> QED
    BY <1>11, <2>1
<1> HIDE DEF Goal
<1>12. Goal
  BY <1>4, <1>5, <1>6, <1>7, <1>8, <1>9, <1>10, <1>11 DEF Cancelling
<1> QED
  BY <1>12 DEF Goal

\* Whose cancel moves.
LEMMA CancelMoves ==
  ASSUME Core, [Next]_vars, NEW c \in Canceller
  PROVE  \/ cancel'[c] = cancel[c]
         \/ Cancelling(c) \/ \E tree \in Trees : CancelBegin(c, tree)
         \/ FreshMemory /\ phase' = "down" /\ cancel'[c].pc \in {"new", "over", "failed"}
<1>1. cancel \in [Canceller -> CancelType] /\ cancel[c] \in CancelType
  BY DEF Core, PoolTypeOK, CallTypeOK, CancelType
<1>2. CASE UNCHANGED cancel
  BY <1>2
<1>3. CASE CancelAction
  <2>1. PICK d \in Canceller : Cancelling(d) \/ \E tree \in Trees : CancelBegin(d, tree)
    BY <1>3 DEF CancelAction
  <2>2. c # d => cancel'[c] = cancel[c]
    BY <2>1, CancelStep
  <2> QED
    BY <2>1, <2>2
<1>4. CASE FreshMemory /\ phase' = "down"
  <2>1. cancel'[c] = IF cancel[c].pc \in {"new", "over", "failed"} THEN cancel[c]
                     ELSE [cancel[c] EXCEPT !.pc = "failed", !.exec = None]
    BY <1>4 DEF FreshMemory
  <2> QED
    BY <1>1, <1>4, <2>1 DEF CancelType
<1> QED
  BY <1>2, <1>3, <1>4, CallFrame DEF Start, RecoverReport, RecoverPost, RecoverFails, Serve

\* How an execution leaves the pool.
LEMMA JobsLeave ==
  ASSUME Core, [Next]_vars, NEW e \in Jobs, e \notin Jobs'
  PROVE  \/ WorkerRemove(e)
         \/ \E c \in Canceller :
              CancelLock(c) /\ cancel[c].exec = e /\ cancel'[c].pc = "report" /\ cancel'[c].exec = e
         \/ FreshMemory /\ phase' = "down"
<1>1. order \in Seq(Exec) /\ Distinct(order) /\ e \in Exec
  BY QueueNow, PositionIn DEF QueueOK, Core, PoolTypeOK, JobTypeOK
<1>2. ASSUME NEW f, order' = Dequeued(f)
      PROVE  f = e
  <2>1. ToSet(RemoveFirst(order, f)) = ToSet(order) \ {f}
    BY <1>1, DequeuedKeeps
  <2> QED
    BY <1>2, <2>1 DEF Dequeued, Jobs
<1>3. order' # order
  BY DEF Jobs
<1>4. ASSUME NEW f \in Exec, Worker(f)
      PROVE  WorkerRemove(e)
  <2>1. WorkerRemove(f)
    BY <1>3, <1>4, WorkerQueue DEF WorkerPump
  <2> QED
    BY <1>2, <2>1 DEF WorkerRemove
<1>5. ASSUME NEW c \in Canceller, CancelLock(c)
      PROVE  cancel[c].exec = e /\ cancel'[c].pc = "report" /\ cancel'[c].exec = e
  <2>1. CancelGoto(c, "report") /\ order' = Dequeued(cancel[c].exec)
    BY <1>3, <1>5 DEF CancelLock
  <2>2. cancel \in [Canceller -> CancelType]
    BY DEF Core, PoolTypeOK, CallTypeOK, CancelType
  <2> QED
    BY <1>2, <2>1, <2>2 DEF CancelGoto, CancelType
<1>6. ASSUME NEW i \in Item, DispatchEnqueue(i)
      PROVE  FALSE
  <2>1. order' = Append(order, turn[i].exec) /\ turn[i].exec \in Exec
    BY <1>6 DEF DispatchEnqueue, Core, CallInv, OfItem
  <2> QED
    BY <1>1, <2>1, AppendedTo DEF Jobs
<1> QED
  BY <1>3, <1>4, <1>5, <1>6, QueueFrame DEF DispatchPump, PumpTimer

\* Without a cancel, who reports an execution is its goroutine or the recovery.
LEMMA OnceStep ==
  ASSUME Core, OnceInv, [Next]_vars
  PROVE  OnceInv'
<1> SUFFICES ASSUME asked' = {}
             PROVE  /\ \A c \in Canceller : cancel'[c].pc \notin {"lock", "flag", "report", "post"}
                    /\ \A e \in fix'.left : status'[e] \in {"queued", "running"}
                    /\ \A e \in Exec : wk'[e].pc = "post" \/ fix'.exec = e => status'[e] \in Outcomes
                    /\ \A e \in Exec : posted'[e] # <<>> =>
                         /\ Len(posted'[e]) = 1 /\ status'[e] \in Outcomes /\ ~Entering(e)'
                         /\ wk'[e].pc \in {"none", "remove", "pump"} /\ e \notin Jobs' \ running'
                         /\ fix'.exec # e
  BY DEF OnceInv
<1>1. asked = {} /\ \A c \in Canceller : ~CancelAsk(c)
  BY DbFrame DEF dbVars, DispatchRow, WorkerMark, WorkerReport, WorkerPost, CancelAsk, CancelReport,
      CancelPost, RecoverReport, RecoverPost
<1>2. /\ \A c \in Canceller : cancel[c].pc \notin {"lock", "flag", "report", "post"}
      /\ \A e \in fix.left : status[e] \in {"queued", "running"}
      /\ \A e \in Exec : wk[e].pc = "post" \/ fix.exec = e => status[e] \in Outcomes
      /\ \A e \in Exec : posted[e] # <<>> =>
           /\ Len(posted[e]) = 1 /\ status[e] \in Outcomes /\ ~Entering(e)
           /\ wk[e].pc \in {"none", "remove", "pump"} /\ e \notin Jobs \ running
           /\ fix.exec # e
  BY <1>1 DEF OnceInv
<1>3. \A c \in Canceller : ~CancelReport(c) /\ ~CancelPost(c)
  BY <1>2 DEF CancelReport, CancelPost, CancelAt
<1>4. ASSUME NEW c \in Canceller
      PROVE  cancel'[c].pc \notin {"lock", "flag", "report", "post"}
  <2>1. CASE Cancelling(c) \/ \E tree \in Trees : CancelBegin(c, tree)
    BY <1>1, <1>2, <2>1, CancelOnPath DEF CancelPath
  <2> QED
    BY <1>2, <2>1, CancelMoves
<1>5. RecoverReport => \E f \in fix.left :
        f \in Exec /\ status' = [status EXCEPT ![f] = "lost"] /\ fix' = [left |-> fix.left \ {f}, exec |-> f]
  BY RecoverTakes
<1>6. ASSUME NEW e \in fix'.left
      PROVE  status'[e] \in {"queued", "running"}
  <2>1. CASE Start
    <3>1. status' = status /\ e \in Active(Exec)
      BY <2>1 DEF Start, dbVars
    <3> QED
      BY <3>1 DEF Active
  <2>2. CASE RecoverReport
    <3>1. PICK f \in fix.left :
            f \in Exec /\ status' = [status EXCEPT ![f] = "lost"] /\ fix' = [left |-> fix.left \ {f}, exec |-> f]
      BY <1>5, <2>2
    <3>2. e \in fix.left /\ e # f
      BY <3>1
    <3> QED
      BY <1>2, <3>1, <3>2 DEF Core, PoolTypeOK, RowTypeOK
  <2>3. CASE ~Start /\ ~RecoverReport
    <3>1. e \in fix.left
      <4>1. fix' # NoFix
        BY DEF NoFix
      <4>2. RecoverPost => fix'.left = fix.left
        BY DEF RecoverPost, Core, PoolTypeOK, CallTypeOK
      <4> QED
        BY <2>3, <4>1, <4>2, CallFrame, NothingKept DEF RecoverFails, Serve
    <3>2. phase = "recover" /\ e \in Exec
      BY <3>1 DEF Core, CallInv, NoFix, PoolTypeOK, CallTypeOK
    <3>3. wk[e].pc = "none" /\ ~\E i \in Item : DispatchRow(i, e)
      BY <3>2 DEF Core, CallInv, DispatchRow
    <3>4. status'[e] = status[e]
      BY <1>3, <2>3, <3>2, <3>3, StatusMoves DEF WorkerMark, WorkerReport, At
    <3> QED
      BY <1>2, <3>1, <3>4
  <2> QED
    BY <2>1, <2>2, <2>3
<1>7. ASSUME NEW e \in Exec, status[e] \in Outcomes, wk[e].pc \notin {"mark", "report"}
      PROVE  status'[e] = status[e]
  <2>1. ~\E i \in Item : DispatchRow(i, e)
    BY <1>7 DEF DispatchRow, Core, PoolTypeOK, RowTypeOK, Outcomes
  <2>2. e \notin fix.left
    BY <1>2, <1>7 DEF Outcomes
  <2> QED
    BY <1>3, <1>7, <2>1, <2>2, StatusMoves DEF WorkerMark, WorkerReport, At
<1>8. ASSUME NEW e \in Exec
      PROVE  \/ wk'[e].pc = wk[e].pc
             \/ Worker(e) /\ e \in running /\ <<wk[e].pc, wk'[e].pc>> \in Path
             \/ e \in Jobs \ running /\ wk'[e].pc = "check"
             \/ wk'[e].pc = "none"
  BY PlaceMoves
<1>9. ASSUME NEW e \in Exec, fix'.exec = e, fix.exec # e
      PROVE  RecoverReport /\ e \in fix.left /\ status'[e] = "lost"
  <2>1. e # None
    BY WorkerPoolAssumption
  <2>2. RecoverReport
    BY <1>9, <2>1, CallFrame, NothingKept DEF Start, RecoverPost, RecoverFails, Serve, NoFix, Core,
        PoolTypeOK, CallTypeOK
  <2>3. PICK f \in fix.left :
          f \in Exec /\ status' = [status EXCEPT ![f] = "lost"] /\ fix' = [left |-> fix.left \ {f}, exec |-> f]
    BY <1>5, <2>2
  <2> QED
    BY <1>9, <2>2, <2>3 DEF Core, PoolTypeOK, RowTypeOK
<1>10. ASSUME NEW e \in Exec, wk'[e].pc = "post" \/ fix'.exec = e
       PROVE  status'[e] \in Outcomes
  <2>1. CASE fix'.exec = e /\ fix.exec # e
    BY <1>9, <2>1 DEF Outcomes
  <2>2. CASE fix.exec = e
    <3>1. phase = "recover"
      BY <2>2, WorkerPoolAssumption DEF Core, CallInv, NoFix
    <3>2. wk[e].pc = "none"
      BY <3>1 DEF Core, CallInv
    <3> QED
      BY <1>2, <1>7, <2>2, <3>2
  <2>3. CASE wk'[e].pc = "post" /\ wk[e].pc # "post"
    <3>1. WorkerReport(e)
      BY <1>8, <2>3, OnPath DEF Path, WorkerPump, At
    <3>2. status' = [status EXCEPT ![e] = wk[e].out] /\ wk[e].out \in Outcomes
      BY <3>1 DEF WorkerReport, At, Core, CallInv
    <3> QED
      BY <3>2 DEF Core, PoolTypeOK, RowTypeOK
  <2>4. CASE wk[e].pc = "post"
    BY <1>2, <1>7, <2>4
  <2> QED
    BY <1>10, <2>1, <2>2, <2>3, <2>4
<1>11. ASSUME NEW e \in Exec, posted[e] # <<>>
       PROVE  /\ status'[e] \in Outcomes /\ ~Entering(e)' /\ wk'[e].pc \in {"none", "remove", "pump"}
              /\ e \notin Jobs' \ running' /\ fix'.exec # e /\ posted'[e] = posted[e]
  <2>1. /\ Len(posted[e]) = 1 /\ status[e] \in Outcomes /\ ~Entering(e)
        /\ wk[e].pc \in {"none", "remove", "pump"} /\ e \notin Jobs \ running
        /\ fix.exec # e
    BY <1>2, <1>11
  <2>2. status'[e] \in Outcomes
    BY <1>7, <2>1
  <2>3. ~Entering(e)'
    BY <2>1, EntersOnce
  <2>4. wk'[e].pc \in {"none", "remove", "pump"}
    BY <1>8, <2>1 DEF Path
  <2>5. e \notin Jobs' \ running'
    BY <2>1, Waiting
  <2>6. fix'.exec # e
    BY <1>2, <1>9, <2>1 DEF Outcomes
  <2>7. posted'[e] = posted[e]
    BY <1>3, <2>1, PostMoves DEF WorkerPost, At
  <2> QED
    BY <2>2, <2>3, <2>4, <2>5, <2>6, <2>7
<1>12. ASSUME NEW e \in Exec, posted[e] = <<>>, posted'[e] # <<>>
       PROVE  /\ Len(posted'[e]) = 1 /\ status'[e] \in Outcomes /\ ~Entering(e)'
              /\ wk'[e].pc \in {"none", "remove", "pump"} /\ e \notin Jobs' \ running' /\ fix'.exec # e
  <2>1. Len(posted'[e]) = 1 /\ (WorkerPost(e) \/ (RecoverPost /\ fix.exec = e))
    <3>1. /\ Len(posted'[e]) = Len(posted[e]) + 1
          /\ WorkerPost(e) \/ (RecoverPost /\ fix.exec = e)
      BY <1>3, <1>12, PostMoves
    <3>2. Len(posted[e]) = 0
      BY <1>12
    <3> QED
      BY <3>1, <3>2
  <2>2. CASE WorkerPost(e)
    <3>1. wk[e].pc = "post" /\ UNCHANGED <<status, order, running, fix>> /\ Worker(e)
      BY <2>2 DEF WorkerPost, At, OnlyWorker, poolVars, Worker
    <3>2. wk'[e].pc = "remove"
      BY <3>1, OnPath DEF Path, WorkerPump, At
    <3>3. e \in running /\ phase # "recover"
      BY <3>1, QueueNow DEF QueueOK, Core, CallInv
    <3>4. status'[e] \in Outcomes /\ fix'.exec # e
      BY <1>2, <3>1, <3>3, WorkerPoolAssumption DEF Core, CallInv, NoFix
    <3>5. ~Entering(e)'
      BY <3>1, EntersOnce, WorkerHasRow
    <3> QED
      BY <2>1, <3>1, <3>2, <3>3, <3>4, <3>5
  <2>3. CASE RecoverPost /\ fix.exec = e
    <3>1. UNCHANGED <<status, order, running, wk>> /\ fix'.exec = None
      BY <2>3 DEF RecoverPost, poolVars, Core, PoolTypeOK, CallTypeOK
    <3>2. phase = "recover"
      BY <2>3, WorkerPoolAssumption DEF Core, CallInv, NoFix
    <3>3. /\ wk[e].pc = "none" /\ Jobs = {} /\ born[e] > 0
          /\ turn[ItemOf[e]].pc \notin {"append", "enqueue"}
      BY <2>3, <3>2, WorkerPoolAssumption DEF Core, CallInv, Jobs, ToSet
    <3>4. ~Entering(e)
      BY <3>3 DEF Entering, Core, PoolTypeOK, RowTypeOK
    <3>5. ~Entering(e)' /\ Jobs' = {}
      BY <3>1, <3>3, <3>4, EntersOnce DEF Jobs
    <3> QED
      BY <1>2, <2>1, <2>3, <3>1, <3>3, <3>5, WorkerPoolAssumption
  <2> QED
    BY <2>1, <2>2, <2>3
<1> QED
  BY <1>2, <1>4, <1>6, <1>10, <1>11, <1>12

\* Without a cancel, an execution is reported once at most, over any number of
\* shutdowns, crashes and recoveries.
THEOREM ReportsOnce == Spec => []ReportedOnce
<1>1. Init => OnceInv
  BY WorkerPoolAssumption DEF Init, OnceInv, NoFix, NoCall, NoWork
<1>2. Core /\ OnceInv /\ [Next]_vars => OnceInv'
  BY OnceStep
<1>3. ASSUME OnceInv
      PROVE  ReportedOnce
  <2>1. ASSUME asked = {}, NEW e \in Exec
        PROVE  Len(posted[e]) <= 1
    <3>1. CASE posted[e] = <<>>
      <4>1. Len(posted[e]) = 0
        BY <3>1
      <4> QED
        BY <4>1
    <3>2. CASE posted[e] # <<>>
      <4>1. Len(posted[e]) = 1
        BY <1>3, <2>1, <3>2 DEF OnceInv
      <4> QED
        BY <4>1
    <3> QED
      BY <3>1, <3>2
  <2> QED
    BY <2>1 DEF ReportedOnce
<1> QED
  BY <1>1, <1>2, <1>3, CoreHolds, PTL DEF Spec

-----------------------------------------------------------------------------
(* Rows are in someone's hands *)

\* While the database answers: no row is final before its goroutine is done, and none
\* runs before it has one.
LEMMA RowPlaces ==
  ASSUME Core, RowInv, [Next]_vars, faults' = 0, NEW e \in Exec
  PROVE  /\ wk'[e].pc \in {"post", "remove"} => status'[e] \in Outcomes
         /\ Entering(e)' \/ e \in Jobs' \ running' \/ wk'[e].pc = "check" => status'[e] # "running"
<1>1. faults = 0
  <2>1. faults \in Nat
    BY DEF Core, PoolTypeOK
  <2> QED
    BY <2>1, Counters
<1>2. /\ wk[e].pc \in {"post", "remove"} => status[e] \in Outcomes
      /\ Entering(e) \/ e \in Jobs \ running \/ wk[e].pc = "check" => status[e] # "running"
  BY <1>1 DEF RowInv
<1>3. ASSUME status[e] \in Outcomes, wk[e].pc \notin {"mark", "report"}
      PROVE  status'[e] \in Outcomes
  <2>1. ~\E i \in Item : DispatchRow(i, e)
    BY <1>3 DEF DispatchRow, Core, PoolTypeOK, RowTypeOK, Outcomes
  <2> QED
    BY <1>3, <2>1, StatusMoves DEF WorkerMark, WorkerReport, At, Outcomes
<1>4. ASSUME wk'[e].pc \in {"post", "remove"}
      PROVE  status'[e] \in Outcomes
  <2>1. CASE wk[e].pc \in {"post", "remove"}
    BY <1>2, <1>3, <2>1
  <2>2. CASE wk[e].pc \notin {"post", "remove"}
    <3>1. Worker(e) /\ e \in running /\ <<wk[e].pc, wk'[e].pc>> \in Path
      BY <1>4, <2>2, PlaceMoves
    <3>2. CASE wk[e].pc = "report" /\ wk'[e].pc = "post"
      <4>1. WorkerReport(e)
        BY <3>1, <3>2, OnPath DEF WorkerPump, At
      <4>2. status' = [status EXCEPT ![e] = wk[e].out] /\ wk[e].out \in Outcomes
        BY <4>1 DEF WorkerReport, At, Core, CallInv
      <4> QED
        BY <4>2 DEF Core, PoolTypeOK, RowTypeOK
    <3>3. CASE wk[e].pc = "report" /\ wk'[e].pc = "remove"
      <4>1. WorkerReportFails(e)
        <5>1. wk \in [Exec -> WkType]
          BY DEF Core, PoolTypeOK, JobTypeOK, WkType
        <5>2. WorkerReport(e) => wk'[e].pc = "post"
          BY <5>1 DEF WorkerReport, Goto, WkType
        <5> QED
          BY <3>1, <3>3, <5>2 DEF Worker, WorkerCheck, WorkerMark, WorkerAmend, WorkerSetup, WorkerScriptEnds,
              WorkerArm, WorkerStart, WorkerFails, WorkerHold, WorkerVerdict, WorkerPost, WorkerRemove,
              WorkerPump, At
      <4> QED
        BY <1>1, <4>1 DEF WorkerReportFails, Fault
    <3>4. CASE wk[e].pc = "check" /\ wk'[e].pc = "remove"
      <4>1. WorkerCheck(e)
        BY <3>1, <3>4 DEF Worker, WorkerCheck, WorkerMark, WorkerAmend, WorkerSetup, WorkerScriptEnds,
            WorkerArm, WorkerStart, WorkerFails, WorkerHold, WorkerVerdict, WorkerReport, WorkerPost,
            WorkerReportFails, WorkerRemove, WorkerPump, At, Ends, Core, PoolTypeOK, JobTypeOK
      <4>2. status[e] # "queued" /\ UNCHANGED status
        <5>1. wk \in [Exec -> WkType]
          BY DEF Core, PoolTypeOK, JobTypeOK, WkType
        <5>2. Goto(e, "mark") => wk'[e].pc = "mark"
          BY <5>1 DEF Goto, WkType
        <5> QED
          BY <1>1, <3>4, <4>1, <5>2 DEF WorkerCheck, Fault, dbVars
      <4>3. status[e] \notin {"running", "none"} /\ status[e] \in Statuses
        <5>1. born[e] > 0 /\ born[e] \in Nat
          BY <3>4, WorkerHasRow DEF Core, PoolTypeOK, RowTypeOK
        <5> QED
          BY <1>2, <3>4, <5>1 DEF Core, PoolTypeOK, RowTypeOK
      <4> QED
        BY <4>2, <4>3 DEF Statuses
    <3> QED
      BY <1>4, <2>2, <3>1, <3>2, <3>3, <3>4 DEF Path
  <2> QED
    BY <2>1, <2>2
<1>5. ASSUME Entering(e)' \/ e \in Jobs' \ running' \/ wk'[e].pc = "check"
      PROVE  status'[e] # "running"
  <2>1. Entering(e) \/ e \in Jobs \ running \/ wk[e].pc = "check"
    BY <1>5, EntersOnce, Waiting, PlaceMoves DEF Path
  <2>2. ~WorkerMark(e)
    BY <2>1, QueueNow DEF WorkerMark, At, QueueOK, Core, QueueInv
  <2> QED
    BY <1>2, <2>1, <2>2, StatusMoves DEF Outcomes
<1> QED
  BY <1>4, <1>5

\* A row in someone's hands is handed on, or becomes final.
LEMMA HandedOn ==
  ASSUME Core, RowInv, [Next]_vars, faults' = 0, phase = "serving", phase' = "serving",
         NEW e \in Exec, InHand(e), status'[e] = status[e], status[e] \in {"queued", "running"}
  PROVE  InHand(e)'
<1>1. faults = 0
  <2>1. faults \in Nat
    BY DEF Core, PoolTypeOK
  <2> QED
    BY <2>1, Counters
<1>2. ~Fault
  BY <1>1 DEF Fault
<1>3. CASE e \in Jobs
  <2>1. ~WorkerRemove(e)
    BY <1>1 DEF WorkerRemove, At, RowInv, Outcomes
  <2> QED
    BY <1>3, <2>1, JobsLeave DEF InHand
<1>4. ASSUME NEW i \in Item, turn[i].exec = e, turn[i].pc \in {"append", "enqueue"}
      PROVE  InHand(e)'
  <2>1. turn \in [Item -> TurnType]
    BY DEF Core, PoolTypeOK, CallTypeOK, TurnType
  <2>2. CASE turn'[i] = turn[i]
    BY <1>4, <2>2 DEF InHand
  <2>3. CASE DispatchAppend(i)
    <3>1. turn'[i].pc = "enqueue" /\ turn'[i].exec = e
      BY <1>4, <2>1, <2>3 DEF DispatchAppend, TurnGoto, TurnType
    <3> QED
      BY <3>1 DEF InHand
  <2>4. CASE DispatchEnqueue(i)
    <3>1. order \in Seq(Exec)
      BY DEF Core, PoolTypeOK, JobTypeOK
    <3>2. e \in Jobs'
      BY <1>4, <2>4, <3>1, AppendedTo DEF DispatchEnqueue, Jobs
    <3> QED
      BY <3>2 DEF InHand
  <2>5. CASE TurnAction
    <3>1. ~DispatchFails(i)
      BY <1>2 DEF DispatchFails
    <3>2. ASSUME NEW k \in Item,
                 \/ \E f \in Exec : DispatchRow(k, f)
                 \/ \E w \in Word : WordArrives(k, w)
                 \/ DispatchAppend(k) \/ DispatchFails(k) \/ DispatchEnqueue(k) \/ DispatchPump(k)
                 \/ DeliverRoute(k) \/ DeliverHand(k) \/ WordsEnd(k) \/ ReadOutcomes(k),
                 k # i
          PROVE  turn'[i] = turn[i]
      BY <2>1, <3>2 DEF DispatchRow, WordArrives, DispatchAppend, DispatchFails, DispatchEnqueue, DispatchPump,
          DeliverRoute, DeliverHand, WordsEnd, ReadOutcomes, TurnGoto, Missed, Amended, Recorded, ToRun
    <3>3. ASSUME \/ \E f \in Exec : DispatchRow(i, f)
                 \/ \E w \in Word : WordArrives(i, w)
                 \/ DispatchPump(i) \/ DeliverRoute(i) \/ DeliverHand(i) \/ WordsEnd(i) \/ ReadOutcomes(i)
          PROVE  FALSE
      BY <1>4, <3>3 DEF DispatchRow, WordArrives, DispatchPump, DeliverRoute, DeliverHand, WordsEnd, ReadOutcomes
    <3> QED
      BY <2>2, <2>3, <2>4, <2>5, <3>1, <3>2, <3>3 DEF TurnAction
  <2> QED
    BY <2>2, <2>5, TurnFrame
<1>5. ASSUME NEW c \in Canceller, cancel[c].exec = e, cancel[c].pc = "report"
      PROVE  InHand(e)'
  <2>1. ~CancelReport(c)
    BY <1>5 DEF CancelReport, Core, PoolTypeOK, RowTypeOK
  <2>2. ~CancelFails(c)
    BY <1>2 DEF CancelFails
  <2>3. cancel'[c] = cancel[c]
    BY <1>5, <2>1, <2>2, CancelMoves, CancelOnPath
  <2> QED
    BY <1>5, <2>3 DEF InHand
<1> QED
  BY <1>3, <1>4, <1>5 DEF InHand

\* A job leaves the pool when its row is final, and a start looks for the rest.
LEMMA RowStep ==
  ASSUME Core, RowInv, [Next]_vars
  PROVE  RowInv'
<1> SUFFICES ASSUME faults' = 0
             PROVE  /\ NoOrphanRow'
                    /\ phase' = "recover" =>
                         \A e \in Exec : status'[e] \in {"queued", "running"} => e \in fix'.left
  BY RowPlaces DEF RowInv
<1>1. faults = 0
  <2>1. faults \in Nat
    BY DEF Core, PoolTypeOK
  <2> QED
    BY <2>1, Counters
<1>2. phase = "recover" => \A e \in Exec : status[e] \in {"queued", "running"} => e \in fix.left
  BY <1>1 DEF RowInv
<1>4. ASSUME phase' = "recover", NEW e \in Exec, status'[e] \in {"queued", "running"}
      PROVE  e \in fix'.left
  <2>1. CASE Start
    BY <1>4, <2>1 DEF Start, Active, dbVars
  <2>2. CASE RecoverReport
    <3>1. PICK f \in fix.left :
            f \in Exec /\ status' = [status EXCEPT ![f] = "lost"] /\ fix' = [left |-> fix.left \ {f}, exec |-> f]
      BY <2>2, RecoverTakes
    <3>2. e # f /\ status'[e] = status[e]
      BY <1>4, <3>1 DEF Core, PoolTypeOK, RowTypeOK
    <3>3. phase = "recover"
      BY <2>2 DEF RecoverReport
    <3> QED
      BY <1>2, <1>4, <3>1, <3>2, <3>3
  <2>3. CASE ~Start /\ ~RecoverReport
    <3>1. phase = "recover" /\ fix'.left = fix.left
      <4>1. RecoverPost => fix'.left = fix.left /\ phase' = phase
        BY DEF RecoverPost, Core, PoolTypeOK, CallTypeOK
      <4> QED
        BY <1>4, <2>3, <4>1, CallFrame DEF RecoverFails, Serve, Stop, ShutdownReturns
    <3>2. wk[e].pc = "none" /\ ~\E i \in Item : DispatchRow(i, e)
      BY <3>1 DEF Core, CallInv, DispatchRow
    <3>3. status'[e] = status[e]
      BY <1>4, <2>3, <3>2, StatusMoves DEF WorkerMark, WorkerReport, At
    <3> QED
      BY <1>2, <1>4, <3>1, <3>3
  <2> QED
    BY <2>1, <2>2, <2>3
<1>5. ASSUME phase' = "serving", NEW e \in Exec, status'[e] \in {"queued", "running"}
      PROVE  InHand(e)'
  <2>1. CASE Serve
    <3>1. status' = status /\ fix.left \ Jobs = {} /\ phase = "recover"
      BY <2>1 DEF Serve, dbVars
    <3>2. Jobs = {}
      BY <3>1 DEF Core, CallInv, Jobs, ToSet
    <3> QED
      BY <1>2, <1>5, <3>1, <3>2
  <2>2. CASE ~Serve
    <3>1. phase = "serving"
      BY <1>5, <2>2, CallFrame DEF Start, RecoverReport, RecoverPost, RecoverFails, Stop, ShutdownReturns
    <3>2. CASE status'[e] = status[e]
      BY <1>1, <1>5, <3>1, <3>2, HandedOn DEF RowInv, NoOrphanRow
    <3>3. CASE \E i \in Item : turn'[i].pc = "append" /\ turn'[i].exec = e
      BY <3>3 DEF InHand
    <3>4. CASE WorkerMark(e) /\ UNCHANGED order
      <4>1. e \in Jobs
        BY <3>4, QueueNow DEF WorkerMark, At, QueueOK
      <4> QED
        BY <3>4, <4>1 DEF InHand, Jobs
    <3> QED
      BY <1>5, <3>2, <3>3, <3>4, StatusMoves DEF Outcomes
  <2> QED
    BY <2>1, <2>2
<1> QED
  BY <1>4, <1>5 DEF NoOrphanRow

LEMMA RowHolds == Spec => [](Core /\ RowInv)
<1>1. Init => RowInv
  BY DEF Init, RowInv, NoOrphanRow, NoWork
<1>2. Core /\ RowInv /\ [Next]_vars => (Core /\ RowInv)'
  BY CoreStep, RowStep
<1> QED
  BY <1>1, <1>2, CoreInit, PTL DEF Spec

\* While the runtime serves and the database answers, no row stays queued or running with
\* nobody to end it: what a restart lost has been recovered, and the pool, a dispatch or
\* a cancel holds the rest.
THEOREM RowsHeld == Spec => []NoOrphanRow
<1>1. ASSUME Core, RowInv
      PROVE  NoOrphanRow
  BY <1>1 DEF RowInv, NoOrphanRow
<1> QED
  BY <1>1, RowHolds, PTL

-----------------------------------------------------------------------------
(* Late words *)

\* No shutdown, no crash, no error yet.
Unbroken == stops + crashes + faults = 0

LEMMA UnbrokenBefore ==
  ASSUME Core, [Next]_vars, Unbroken'
  PROVE  Unbroken /\ ~Fault /\ ~Stop /\ ~Crash /\ ~RecoverFails
<1>1. stops \in Nat /\ crashes \in Nat /\ faults \in Nat
  BY DEF Core, PoolTypeOK
<1>2. stops = 0 /\ crashes = 0 /\ faults = 0 /\ stops' = 0 /\ crashes' = 0 /\ faults' = 0
  BY <1>1, Counters DEF Unbroken
<1> QED
  BY <1>2 DEF Unbroken, Fault, Stop, Crash, RecoverFails

\* What a first run of the process starts from.
LEMMA NoRestart ==
  ASSUME Core, LateInv, [Next]_vars, Unbroken', phase' = "down"
  PROVE  phase \in {"down", "recover"}
<1>1. Unbroken /\ ~Fault /\ ~Stop /\ ~Crash /\ ~RecoverFails
  BY UnbrokenBefore
<1>2. phase # "ending"
  BY <1>1 DEF LateInv, Unbroken
<1>3. CASE TurnAction
  <2>1. UNCHANGED phase
    BY <1>3, TurnFrame DEF FreshMemory, TurnAction, DispatchRow, WordArrives, DispatchAppend, DispatchFails,
        DispatchEnqueue, DispatchPump, DeliverRoute, DeliverHand, WordsEnd, ReadOutcomes
  <2> QED
    BY <2>1
<1>4. CASE CancelAction
  BY <1>4 DEF CancelAction, Cancelling, CancelBegin, CancelLook, CancelAsk, CancelLock, CancelFlag,
      CancelReport, CancelPost, CancelFails, OnlyCancel
<1>5. CASE \E e \in Exec : Worker(e)
  BY <1>5 DEF Worker, WorkerCheck, WorkerMark, WorkerAmend, WorkerSetup, WorkerScriptEnds, WorkerArm,
      WorkerStart, WorkerFails, WorkerHold, WorkerVerdict, WorkerReport, WorkerPost, WorkerReportFails,
      WorkerRemove, WorkerPump, OnlyWorker
<1>6. CASE Life
  BY <1>1, <1>2, <1>6 DEF Life, Start, RecoverReport, RecoverPost, Serve, ShutdownReturns, Exit
<1>7. CASE UNCHANGED vars \/ PumpTimer \/ \E e \in Exec : CliEnds(e)
  BY <1>7 DEF vars, PumpTimer, CliEnds
<1> QED
  BY <1>3, <1>4, <1>5, <1>6, <1>7, Actors

\* Outcomes are read by turns.
LEMMA HeardMoves ==
  ASSUME Core, [Next]_vars, NEW e \in Exec
  PROVE  \/ heard'[e] = heard[e]
         \/ \E i \in Item :
              /\ ReadOutcomes(i) /\ e \in OfItem(i) /\ heard[e] < Len(posted[e])
              /\ heard'[e] = Len(posted[e]) /\ posted' = posted
<1>1. heard \in [Exec -> Nat]
  BY DEF Core, PoolTypeOK
<1>2. ASSUME NEW i \in Item, ReadOutcomes(i)
      PROVE  \/ heard'[e] = heard[e]
             \/ /\ e \in OfItem(i) /\ heard[e] < Len(posted[e])
                /\ heard'[e] = Len(posted[e]) /\ posted' = posted
  <2> DEFINE U == {f \in OfItem(i) : heard[f] < Len(posted[f])}
  <2>1. heard' = [f \in Exec |-> IF f \in U THEN Len(posted[f]) ELSE heard[f]] /\ UNCHANGED dbVars
    BY <1>2 DEF ReadOutcomes
  <2> QED
    BY <2>1 DEF dbVars
<1>3. UNCHANGED heard \/ \E i \in Item : ReadOutcomes(i)
  BY TurnFrame DEF TurnAction, DispatchRow, WordArrives, DispatchAppend, DispatchFails, DispatchEnqueue,
      DispatchPump, DeliverRoute, DeliverHand, WordsEnd
<1> QED
  BY <1>2, <1>3

\* Unless it is read, an outcome that is to come still is.
LEMMA OutcomeStays ==
  ASSUME Core, LateInv, [Next]_vars, Unbroken', NEW e \in Exec, OutcomeComes(e)
  PROVE  \/ OutcomeComes(e)'
         \/ \E i \in Item : ReadOutcomes(i) /\ e \in OfItem(i) /\ heard[e] < Len(posted[e])
<1> SUFFICES ASSUME ~\E i \in Item : ReadOutcomes(i) /\ e \in OfItem(i) /\ heard[e] < Len(posted[e])
             PROVE  OutcomeComes(e)'
  OBVIOUS
<1>1. Unbroken /\ ~Fault
  BY UnbrokenBefore
<1>2. /\ heard'[e] = heard[e] /\ heard[e] \in Nat /\ heard[e] <= Len(posted[e])
      /\ Len(posted[e]) \in Nat
  BY HeardMoves DEF Core, PoolTypeOK, RowTypeOK, LateInv
<1>3. phase \in {"down", "recover"} => wk[e].pc = "none" /\ \A c \in Canceller : cancel[c].pc # "post"
  BY DEF Core, CallInv
<1>4. CASE heard[e] < Len(posted[e])
  BY <1>2, <1>4, PostMoves DEF OutcomeComes
<1>5. ASSUME Len(posted'[e]) = Len(posted[e]) + 1
      PROVE  OutcomeComes(e)'
  BY <1>2, <1>5 DEF OutcomeComes
<1>6. CASE status[e] \in {"queued", "running"}
  <2>1. ~RecoverReport
    <3>1. born[e] # 0
      BY <1>6 DEF Core, PoolTypeOK, RowTypeOK
    <3> QED
      BY <1>1, <3>1 DEF RecoverReport, LateInv, Unbroken
  <2>2. WorkerReport(e) => wk'[e].pc = "post"
    BY DEF WorkerReport, Goto, Core, PoolTypeOK, JobTypeOK
  <2>3. ASSUME NEW c \in Canceller, CancelReport(c), cancel[c].exec = e
        PROVE  cancel'[c].pc = "post" /\ cancel'[c].exec = e
    BY <2>3 DEF CancelReport, CancelGoto, Core, PoolTypeOK, CallTypeOK
  <2> QED
    BY <1>6, <2>1, <2>2, <2>3, StatusMoves DEF OutcomeComes
<1>7. CASE wk[e].pc = "post"
  <2>1. ~WorkerPump(e) /\ ~(FreshMemory /\ phase' = "down")
    BY <1>3, <1>7, NoRestart DEF WorkerPump, At
  <2>2. wk'[e].pc = "post" \/ Worker(e)
    BY <1>7, <2>1, WkMoves
  <2>3. Worker(e) => WorkerPost(e)
    BY <1>1, <1>7 DEF Worker, WorkerCheck, WorkerMark, WorkerAmend, WorkerSetup, WorkerScriptEnds,
        WorkerArm, WorkerStart, WorkerFails, WorkerHold, WorkerVerdict, WorkerReport, WorkerReportFails,
        WorkerRemove, WorkerPump, At
  <2>4. WorkerPost(e) => Len(posted'[e]) = Len(posted[e]) + 1
    <3>1. posted[e] \in Seq(Outcomes) /\ posted \in [Exec -> Seq(Outcomes)]
      BY DEF Core, PoolTypeOK, RowTypeOK
    <3>2. WorkerPost(e) => posted'[e] = Append(posted[e], wk[e].out)
      BY <3>1 DEF WorkerPost
    <3>3. Len(Append(posted[e], wk[e].out)) = Len(posted[e]) + 1
      BY <1>7, <3>1 DEF Core, CallInv
    <3> QED
      BY <3>2, <3>3
  <2> QED
    BY <1>5, <2>2, <2>3, <2>4 DEF OutcomeComes
<1>8. ASSUME NEW c \in Canceller, cancel[c].exec = e, cancel[c].pc = "post"
      PROVE  OutcomeComes(e)'
  <2>1. ~(FreshMemory /\ phase' = "down")
    BY <1>3, <1>8, NoRestart
  <2>2. ~CancelFails(c)
    BY <1>1 DEF CancelFails, LateInv, Unbroken
  <2>3. cancel'[c] = cancel[c] \/ CancelPost(c)
    BY <1>8, <2>1, <2>2, CancelMoves, CancelOnPath
  <2>4. CancelPost(c) => Len(posted'[e]) = Len(posted[e]) + 1
    <3>1. posted[e] \in Seq(Outcomes) /\ posted \in [Exec -> Seq(Outcomes)] /\ "cancelled" \in Outcomes
      BY DEF Core, PoolTypeOK, RowTypeOK, Outcomes
    <3>2. CancelPost(c) => posted'[e] = Append(posted[e], "cancelled")
      BY <1>8, <3>1 DEF CancelPost
    <3>3. Len(Append(posted[e], "cancelled")) = Len(posted[e]) + 1
      BY <3>1
    <3> QED
      BY <3>2, <3>3
  <2> QED
    BY <1>5, <1>8, <2>3, <2>4 DEF OutcomeComes
<1> QED
  BY <1>4, <1>6, <1>7, <1>8 DEF OutcomeComes

\* A turn that delivers words took up an execution whose outcome was to come.
LEMMA WordTurn ==
  ASSUME Core, [Next]_vars, NEW i \in Item, NEW e,
         turn'[i].pc \in {"route", "hand", "words"}, turn'[i].exec = e
  PROVE  \/ turn[i].pc \in {"route", "hand", "words"} /\ turn[i].exec = e
         \/ e \in Exec /\ status[e] \in {"queued", "running"} /\ UNCHANGED status
<1> DEFINE Goal ==
         \/ turn[i].pc \in {"route", "hand", "words"} /\ turn[i].exec = e
         \/ e \in Exec /\ status[e] \in {"queued", "running"} /\ UNCHANGED status
<1>1. turn \in [Item -> TurnType] /\ turn[i] \in TurnType
  BY DEF Core, PoolTypeOK, CallTypeOK, TurnType
<1>2. ASSUME turn'[i] = turn[i]
      PROVE  Goal
  BY <1>2
<1>3. ASSUME NEW k \in Item, k # i,
             \/ \E f \in Exec : DispatchRow(k, f)
             \/ \E w \in Word : WordArrives(k, w)
             \/ DispatchAppend(k) \/ DispatchFails(k) \/ DispatchEnqueue(k) \/ DispatchPump(k)
             \/ DeliverRoute(k) \/ DeliverHand(k) \/ WordsEnd(k) \/ ReadOutcomes(k)
      PROVE  turn'[i] = turn[i]
  BY <1>1, <1>3 DEF DispatchRow, WordArrives, DispatchAppend, DispatchFails, DispatchEnqueue, DispatchPump,
      DeliverRoute, DeliverHand, WordsEnd, ReadOutcomes, TurnGoto, Missed, Amended, Recorded, ToRun
<1>4. ASSUME NEW f \in Exec, DispatchRow(i, f)
      PROVE  FALSE
  <2>1. turn'[i].pc = "append"
    BY <1>1, <1>4 DEF DispatchRow, TurnType
  <2> QED
    BY <2>1
<1>5. ASSUME DispatchAppend(i) \/ DispatchEnqueue(i)
      PROVE  FALSE
  <2>1. turn'[i].pc \in {"enqueue", "pump"}
    BY <1>1, <1>5 DEF DispatchAppend, DispatchEnqueue, TurnGoto, TurnType
  <2> QED
    BY <2>1
<1>6. ASSUME DispatchFails(i) \/ DispatchPump(i) \/ WordsEnd(i)
      PROVE  FALSE
  <2>1. turn'[i].pc = "idle"
    BY <1>1, <1>6 DEF DispatchFails, DispatchPump, WordsEnd, Idle
  <2> QED
    BY <2>1
<1>7. ASSUME NEW w \in Word, WordArrives(i, w)
      PROVE  Goal
  <2>1. CASE turn[i].pc = "words" /\ turn' = [turn EXCEPT ![i].pc = "route", ![i].word = w]
    <3>1. turn'[i].exec = turn[i].exec
      BY <1>1, <2>1 DEF TurnType
    <3> QED
      BY <2>1, <3>1
  <2>2. CASE /\ turn[i].pc = "idle" /\ Active(OfItem(i)) # {}
             /\ turn' = [turn EXCEPT ![i] =
                  [Idle EXCEPT !.pc = "route", !.word = w, !.exec = OldestOf(Active(OfItem(i)))]]
    <3>1. turn'[i].exec = OldestOf(Active(OfItem(i)))
      BY <1>1, <2>2 DEF Idle
    <3>2. OfItem(i) \in SUBSET Exec
      BY DEF OfItem
    <3>3. UNCHANGED status
      BY <1>7 DEF WordArrives, dbVars
    <3> QED
      BY <2>2, <3>1, <3>2, <3>3, OldestActive DEF Core, PoolTypeOK
  <2> QED
    BY <1>7, <2>1, <2>2 DEF WordArrives
<1>8. ASSUME DeliverRoute(i) \/ DeliverHand(i)
      PROVE  Goal
  <2>1. turn[i].pc \in {"route", "hand"}
    BY <1>8 DEF DeliverRoute, DeliverHand
  <2>2. ASSUME NEW how, NEW f, Recorded(i, how, f)
        PROVE  turn'[i].exec = turn[i].exec
    BY <1>1, <2>2 DEF Recorded, TurnType
  <2>3. ASSUME NEW f, ToRun(i, f)
        PROVE  turn'[i].exec = turn[i].exec
    BY <1>1, <2>3 DEF ToRun, TurnType
  <2>4. turn'[i].exec = turn[i].exec
    <3>1. CASE DeliverRoute(i)
      <4>1. Missed(i) \/ Amended(i, FirstJob(i)) \/ ToRun(i, FirstJob(i))
        BY <3>1 DEF DeliverRoute
      <4>2. (\E how, f : Recorded(i, how, f)) \/ \E f : ToRun(i, f)
        BY <4>1 DEF Missed, Amended
      <4> QED
        BY <2>2, <2>3, <4>2
    <3>2. CASE DeliverHand(i)
      <4>1. Recorded(i, "late", None) \/ Recorded(i, "steered", turn[i].to)
        BY <3>2 DEF DeliverHand, Missed
      <4> QED
        BY <2>2, <4>1
    <3> QED
      BY <1>8, <3>1, <3>2
  <2> QED
    BY <2>1, <2>4
<1>9. ASSUME ReadOutcomes(i)
      PROVE  Goal
  BY <1>2, <1>9 DEF ReadOutcomes
<1>10. ASSUME FreshMemory
       PROVE  Goal
  BY <1>10, NothingKept
<1> HIDE DEF Goal
<1>11. ASSUME TurnAction
       PROVE  Goal
  BY <1>2, <1>3, <1>4, <1>5, <1>6, <1>7, <1>8, <1>9, <1>11 DEF TurnAction
<1>12. Goal
  BY <1>2, <1>10, <1>11, TurnFrame
<1> QED
  BY <1>12 DEF Goal

\* The outcome a late word rides with is to come, or waits to be read.
LEMMA LateStep ==
  ASSUME Core, LateInv, [Next]_vars
  PROVE  LateInv'
<1>1. ASSUME NEW e \in Exec
      PROVE  heard'[e] <= Len(posted'[e])
  <2>1. heard[e] \in Nat /\ Len(posted[e]) \in Nat /\ heard[e] <= Len(posted[e])
    BY DEF Core, PoolTypeOK, RowTypeOK, LateInv
  <2> QED
    BY <2>1, HeardMoves, PostMoves
<1>2. ASSUME Unbroken'
      PROVE  /\ Unbroken /\ ~Fault /\ ~Stop /\ ~Crash /\ ~RecoverFails
             /\ phase # "stopping" /\ phase # "ending"
             /\ phase # "serving" => \A e \in Exec : born[e] = 0
             /\ \A i \in Item : turn[i].pc \in {"route", "hand", "words"} => OutcomeComes(turn[i].exec)
             /\ \A w \in Word : word[w].how = "late" => word[w].exec \in Exec /\ OutcomeComes(word[w].exec)
  BY <1>2, UnbrokenBefore DEF LateInv, Unbroken
<1>3. ASSUME Unbroken'
      PROVE  /\ phase' # "stopping" /\ phase' # "ending"
             /\ phase' # "serving" => phase # "serving" /\ UNCHANGED born
  <2>1. phase' = phase \/ phase' = "serving" \/ phase' \in {"down", "recover"}
    BY <1>2, <1>3, CallFrame DEF Start, RecoverReport, RecoverPost, Serve, ShutdownReturns
  <2>2. phase' # "serving" => phase # "serving"
    BY <1>2, <1>3, <2>1, NoRestart, CallFrame DEF Start, RecoverReport, RecoverPost, Serve, ShutdownReturns
  <2>3. UNCHANGED born \/ phase' = "serving"
    BY <1>2, <1>3, RowsStay DEF DispatchRow
  <2> QED
    BY <1>2, <1>3, <2>1, <2>2, <2>3
<1>4. ASSUME Unbroken', NEW i \in Item, turn[i].pc \in {"route", "hand", "words"}, NEW e, turn[i].exec = e
      PROVE  e \in Exec /\ OutcomeComes(e)'
  <2>1. e \in Exec /\ ItemOf[e] = i /\ OutcomeComes(e)
    BY <1>2, <1>4 DEF Core, CallInv, OfItem
  <2>2. ASSUME NEW j \in Item, ReadOutcomes(j), e \in OfItem(j)
        PROVE  FALSE
    BY <1>4, <2>1, <2>2 DEF ReadOutcomes, OfItem
  <2> QED
    BY <1>4, <2>1, <2>2, OutcomeStays
<1>5. ASSUME Unbroken', NEW i \in Item, turn'[i].pc \in {"route", "hand", "words"}, NEW e, turn'[i].exec = e
      PROVE  OutcomeComes(e)'
  <2>1. CASE turn[i].pc \in {"route", "hand", "words"} /\ turn[i].exec = e
    BY <1>4, <1>5, <2>1
  <2>2. CASE e \in Exec /\ status[e] \in {"queued", "running"} /\ UNCHANGED status
    BY <2>2 DEF OutcomeComes
  <2> QED
    BY <1>5, <2>1, <2>2, WordTurn
<1>6. ASSUME Unbroken', NEW w \in Word, word'[w].how = "late", NEW e, word'[w].exec = e
      PROVE  e \in Exec /\ OutcomeComes(e)'
  <2>1. CASE word'[w] = word[w]
    <3>1. e \in Exec /\ OutcomeComes(e) /\ word[w].how = "late" /\ word[w].exec = e
      BY <1>2, <1>6, <2>1
    <3>2. ASSUME NEW i \in Item, ReadOutcomes(i), e \in OfItem(i), heard[e] < Len(posted[e])
          PROVE  FALSE
      <4>1. word'[w] = [word[w] EXCEPT !.how = "rode"]
        BY <3>1, <3>2 DEF ReadOutcomes
      <4>2. word[w] \in WordType
        BY DEF Core, PoolTypeOK, WordType
      <4> QED
        BY <1>6, <4>1, <4>2 DEF WordType
    <3> QED
      BY <1>6, <3>1, <3>2, OutcomeStays
  <2>2. ASSUME NEW i \in Item, turn[i].pc \in {"route", "hand"}, word'[w].exec = turn[i].exec
        PROVE  e \in Exec /\ OutcomeComes(e)'
    BY <1>4, <1>6, <2>2
  <2>3. ASSUME NEW i \in Item, NEW f \in Exec,
               word'[w] = [how |-> "amended", job |-> f, exec |-> turn[i].exec]
        PROVE  FALSE
    BY <1>6, <2>3
  <2>4. word[w].how # "late" \/ word'[w].how # "rode"
    BY <1>6
  <2> QED
    BY <1>6, <2>1, <2>2, <2>3, <2>4, WordMoves
<1>7. ASSUME Unbroken'
      PROVE  /\ \A i \in Item : turn'[i].pc \in {"route", "hand", "words"} => OutcomeComes(turn[i].exec)'
             /\ \A w \in Word : word'[w].how = "late" =>
                  word'[w].exec \in Exec /\ OutcomeComes(word[w].exec)'
  BY <1>5, <1>6, <1>7 DEF OutcomeComes
<1>8. ASSUME Unbroken'
      PROVE  /\ phase' # "stopping" /\ phase' # "ending"
             /\ phase' # "serving" => \A e \in Exec : born'[e] = 0
  BY <1>2, <1>3, <1>8
<1> QED
  BY <1>1, <1>7, <1>8 DEF LateInv, Unbroken

\* Words that came too late for a run are not left behind: the outcome they ride with is
\* still to be read by a turn (workerpool.go:118-130, manager.go:527-528), unless a
\* shutdown, a crash or a database error came between.
THEOREM LateWordsArrive == Spec => []LateWordsRide
<1>1. Init => LateInv
  BY DEF Init, LateInv, Idle, Nowhere
<1>2. Core /\ LateInv /\ [Next]_vars => LateInv'
  BY LateStep
<1>3. ASSUME Core, RowInv, LateInv
      PROVE  LateWordsRide
  <2>1. ASSUME stops + crashes + faults = 0, NEW w \in Word, word[w].how = "late", NEW e, word[w].exec = e
        PROVE  ReportComes(e)
    <3>1. e \in Exec /\ OutcomeComes(e) /\ faults = 0
      <4>1. stops \in Nat /\ crashes \in Nat /\ faults \in Nat
        BY <1>3 DEF Core, PoolTypeOK
      <4> QED
        BY <1>3, <2>1, <4>1 DEF LateInv
    <3>2. ASSUME status[e] \in {"queued", "running"}
          PROVE  InHand(e)
      <4>1. born[e] # 0
        BY <1>3, <3>1, <3>2 DEF Core, PoolTypeOK, RowTypeOK
      <4>2. phase = "serving"
        BY <1>3, <2>1, <3>1, <4>1 DEF LateInv
      <4> QED
        BY <1>3, <3>1, <3>2, <4>2 DEF RowInv, NoOrphanRow
    <3> QED
      BY <3>1, <3>2 DEF OutcomeComes, ReportComes
  <2> QED
    BY <2>1 DEF LateWordsRide
<1> QED
  BY <1>1, <1>2, <1>3, RowHolds, PTL DEF Spec
=============================================================================
