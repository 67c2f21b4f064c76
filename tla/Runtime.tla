------------------------------ MODULE Runtime ------------------------------
(***************************************************************************)
(* The event loop of internal/kernel/runtime.go over the mailboxes of       *)
(* internal/kernel/mailbox.go.                                              *)
(*                                                                         *)
(* The log is the SQLite event table: it and the cursors survive a restart; *)
(* every other variable is memory of the process.  A goroutine is a program *)
(* counter, and a step is what one goroutine does between two points where  *)
(* another one can get in: a database statement, or one critical section of *)
(* Runtime.mu.  Goroutines: the Start loop (loop), the one scheduling       *)
(* goroutine Kick may start (pass), one per open turn (run), those that     *)
(* have closed their turn and are about to Kick (kicks), and background     *)
(* tasks (tasks).                                                           *)
(***************************************************************************)
EXTENDS Integers, Sequences, FiniteSets

CONSTANTS
  Mailbox,      \* mailbox addresses
  None,         \* the mailbox of an event that is no message
  Handled,      \* those some registered prefix matches (handlerFor # nil)
  Gor,          \* identities for the goroutines that run turns
  Lanes,        \* {"interrupt", "normal"}, or a subset to explore
  Tasks,        \* background tasks registered: a subset of {"timer", "idle"}
  MaxTurns,     \* Runtime.maxTurns
  BatchSize,    \* messages a turn reads at most (100 in the code)
  MaxHops,      \* Cfg.MaxHops
  WakeCap,      \* capacity of a subscriber's channel (64 in the code)
  (* Bounds on what the environment does; the code has no such limits. *)
  MaxOutside,   \* messages posted from outside any turn
  MaxEffects,   \* messages and executions one turn may start
  MaxFails,     \* turns whose handler fails
  MaxStops,     \* shutdowns and crashes
  MaxFaults     \* database errors met by the scheduler

ASSUME RuntimeAssumption ==
  /\ Handled \subseteq Mailbox /\ None \notin Mailbox
  /\ IsFiniteSet(Gor)
  /\ MaxTurns \in Nat \ {0} /\ MaxTurns <= Cardinality(Gor)
  /\ BatchSize \in Nat \ {0}
  /\ MaxHops \in Nat /\ WakeCap \in Nat \ {0}
  /\ "normal" \in Lanes /\ Lanes \subseteq {"interrupt", "normal"}
  /\ Tasks \subseteq {"timer", "idle"}
  /\ {MaxOutside, MaxEffects, MaxFails, MaxStops, MaxFaults} \subseteq Nat

NoCursor == -1                          \* the mailbox has no cursors row

Kinds == {"message", "outcome", "started", "escalation", "error"}
Event == [kind : Kinds, mb : Mailbox \cup {None}, lane : Lanes, hop : Nat]

VARIABLES
  \* the database
  log,          \* events, by seq
  cursor,       \* cursor[m]: last consumed seq, or NoCursor
  owed,         \* executions started and not yet reported: <<seq of started, owner>>
  \* the process
  up,           \* the process runs and Start was called
  stopped, cancelled,     \* Runtime.stopped; ctx.Err() # nil
  active,       \* keys of Runtime.active
  ticking, again,         \* Runtime.ticking, Runtime.again
  pass,         \* the scheduling goroutine: where it is in Kick's loop
  snap,         \* what its MailboxesWithPending returned
  loop,         \* the Start loop: "off", "select" or "kick"
  wake,         \* wake-ups in the Start loop's channel
  unpublished,  \* appends committed whose Hub.Publish has not run yet
  run,          \* run[g]: the turn goroutine g runs
  kicks,        \* goroutines past delete(active), before Kick
  tasks,        \* background tasks running
  \* history
  given,        \* given[s]: how often an uninterrupted handler was given event s
  stops, faults \* shutdowns and crashes so far; database errors so far

dbVars    == <<log, cursor, owed>>
schedVars == <<active, ticking, again, pass, snap>>
procVars  == <<up, stopped, cancelled>>
hubVars   == <<wake, unpublished>>
histVars  == <<given, stops, faults>>
vars == <<dbVars, procVars, schedVars, loop, hubVars, run, kicks, tasks, histVars>>

-----------------------------------------------------------------------------
(* mailbox.go and events.go over the state *)

Seqs == 1 .. Len(log)
Mail(m) == {s \in Seqs : log[s].mb = m}
CursorOf(m) == IF cursor[m] = NoCursor THEN 0 ELSE cursor[m]
\* Mutant: the last message consumed is read again.
PendingFromCursor(m) == {s \in Mail(m) : s >= CursorOf(m)}
Pending(m) == {s \in Mail(m) : s > CursorOf(m)}

\* The query joins cursors with events: a mailbox with no cursor is not listed.
Listed == {m \in Mailbox : cursor[m] # NoCursor /\ Pending(m) # {}}

Oldest(S) == CHOOSE s \in S : \A t \in S : s <= t
Newest(S) == CHOOSE s \in S : \A t \in S : t <= s

PendingRow(m) ==
  [mb     |-> m,
   urgent |-> \E s \in Pending(m) : log[s].lane = "interrupt",
   oldest |-> Oldest(Pending(m))]

MailboxesWithPending == {PendingRow(m) : m \in Listed}

\* ORDER BY urgent DESC, oldest ASC
Before(p, q) ==
  \/ p.urgent /\ ~q.urgent
  \/ p.urgent = q.urgent /\ p.oldest < q.oldest

\* Mutant: newest first.
PendingMessagesNewest(m) ==
  {s \in Pending(m) : Cardinality({t \in Pending(m) : t > s}) < BatchSize}
\* PendingMessages: oldest first, at most BatchSize.
PendingMessages(m) ==
  {s \in Pending(m) : Cardinality({t \in Pending(m) : t < s}) < BatchSize}

\* appendTx, committed; the Publish that follows is a step of its own.
Append1(e) ==
  /\ log' = Append(log, e)
  /\ given' = Append(given, 0)
  /\ unpublished' = unpublished + 1

\* Mutant: the check allows one hop more.
OverBudgetLate(hop) == hop > MaxHops
OverBudget(hop) == hop + 1 > MaxHops

\* The hop of a Post or Append caused by event c; c = 0 when CausedBy is nil.
HopAfter(c) == IF c = 0 THEN 0 ELSE log[c].hop + 1

\* Mutant: every Post moves the cursor back below the oldest message.
DeliverReseeding(kind, m, lane, c) ==
  /\ Append1([kind |-> kind, mb |-> m, lane |-> lane, hop |-> HopAfter(c)])
  /\ cursor' = [cursor EXCEPT ![m] = Oldest(Mail(m) \cup {Len(log) + 1}) - 1]
\* Post seeds the mailbox's cursor, in the same transaction, below its oldest message.
Deliver(kind, m, lane, c) ==
  /\ Append1([kind |-> kind, mb |-> m, lane |-> lane, hop |-> HopAfter(c)])
  /\ cursor' = [cursor EXCEPT ![m] =
       IF @ = NoCursor THEN Oldest(Mail(m) \cup {Len(log) + 1}) - 1 ELSE @]

BudgetEscalation(c) ==
  /\ Append1([kind |-> "escalation", mb |-> None, lane |-> "normal",
              hop |-> HopAfter(c)])
  /\ UNCHANGED cursor

Post(kind, m, lane, c, alwaysDeliver) ==
  IF ~alwaysDeliver /\ c # 0 /\ OverBudget(log[c].hop)
  THEN BudgetEscalation(c)
  ELSE Deliver(kind, m, lane, c)

\* Mutant: a full channel does not drop the wake-up.
PublishUnbounded ==
  /\ unpublished > 0
  /\ unpublished' = unpublished - 1
  /\ wake' = IF loop # "off" THEN wake + 1 ELSE wake
  /\ UNCHANGED <<dbVars, procVars, schedVars, loop, run, kicks, tasks, histVars>>

\* Hub.Publish: a full channel drops the wake-up.
Publish ==
  /\ unpublished > 0
  /\ unpublished' = unpublished - 1
  /\ wake' = IF loop # "off" /\ wake < WakeCap THEN wake + 1 ELSE wake
  /\ UNCHANGED <<dbVars, procVars, schedVars, loop, run, kicks, tasks, histVars>>

-----------------------------------------------------------------------------
(* Messages from outside: a person, a connector, a schedule. *)

Outside == {s \in Seqs : log[s].kind = "message" /\ log[s].hop = 0}

OutsidePost(m, lane) ==
  /\ up
  /\ Cardinality(Outside) < MaxOutside
  /\ Post("message", m, lane, 0, FALSE)
  /\ UNCHANGED <<owed, procVars, schedVars, loop, wake, run, kicks, tasks,
                 stops, faults>>

\* The worker pool reports an execution to the loop that started it.
OutcomePost(o) ==
  /\ up
  /\ Post("outcome", o[2], "normal", o[1], TRUE)
  /\ owed' = owed \ {o}
  /\ UNCHANGED <<procVars, schedVars, loop, wake, run, kicks, tasks, stops, faults>>

-----------------------------------------------------------------------------
(* Start, Kick and tick *)

\* Mutant: a Kick during a pass is dropped.
KickDropped ==
  IF stopped \/ ticking
  THEN UNCHANGED <<ticking, again, pass>>
  ELSE ticking' = TRUE /\ pass' = "begin" /\ UNCHANGED again

\* The critical section of Kick.
Kick ==
  IF stopped
  THEN UNCHANGED <<ticking, again, pass>>
  ELSE IF ticking
       THEN again' = TRUE /\ UNCHANGED <<ticking, pass>>
       ELSE ticking' = TRUE /\ pass' = "begin" /\ UNCHANGED again

LoopKick ==
  /\ loop = "kick"
  /\ Kick
  /\ loop' = "select"
  /\ UNCHANGED <<dbVars, procVars, active, snap, hubVars, run, kicks, tasks, histVars>>

LoopWake ==
  /\ loop = "select" /\ wake > 0
  /\ wake' = wake - 1
  /\ loop' = "kick"
  /\ UNCHANGED <<dbVars, procVars, schedVars, unpublished, run, kicks, tasks, histVars>>

LoopTicker ==
  /\ loop = "select"
  /\ loop' = "kick"
  /\ UNCHANGED <<dbVars, procVars, schedVars, hubVars, run, kicks, tasks, histVars>>

\* stopLoop is closed; the deferred unsub discards the channel.
LoopStop ==
  /\ loop = "select" /\ stopped
  /\ loop' = "off"
  /\ wake' = 0
  /\ UNCHANGED <<dbVars, procVars, schedVars, unpublished, run, kicks, tasks, histVars>>

\* again = false, then the first critical section of tick: timers that are due.
PassBegin ==
  /\ pass = "begin"
  /\ again' = FALSE
  /\ tasks' \in {tasks, tasks \cup (Tasks \cap {"timer"})}
  /\ pass' = "query"
  /\ UNCHANGED <<dbVars, procVars, active, ticking, snap, loop, hubVars, run, kicks,
                 histVars>>

PassQuery ==
  /\ pass = "query" /\ ~cancelled
  /\ snap' = MailboxesWithPending
  /\ pass' = "schedule"
  /\ UNCHANGED <<dbVars, procVars, active, ticking, again, loop, hubVars, run, kicks,
                 tasks, histVars>>

\* The query fails, always so once the context is cancelled: tick returns.
PassQueryFails ==
  /\ pass = "query"
  /\ IF cancelled THEN UNCHANGED faults
                  ELSE faults < MaxFaults /\ faults' = faults + 1
  /\ pass' = "check"
  /\ UNCHANGED <<dbVars, procVars, active, ticking, again, snap, loop, hubVars, run,
                 kicks, tasks, given, stops>>

Free == {g \in Gor : run[g].pc = "free"}
\* Mutant: a mailbox with a turn in flight gets another.
StartableBusy == {p \in snap : p.mb \in Handled}
Startable == {p \in snap : p.mb \notin active /\ p.mb \in Handled}

\* Mutant: the limit is checked with > instead of >=.
ChosenOneMore(Started) ==
  /\ Cardinality(active) + Cardinality(Started) <= MaxTurns + 1
  /\ \A p \in Started : \A q \in Startable \ Started : Before(p, q)
  /\ Started # Startable => Cardinality(active) + Cardinality(Started) = MaxTurns + 1

\* Started holds the rows the loop of tick reaches before it breaks: in order,
\* until maxTurns turns are active.
Chosen(Started) ==
  /\ Cardinality(active) + Cardinality(Started) <= MaxTurns
  /\ \A p \in Started : \A q \in Startable \ Started : Before(p, q)
  /\ Started # Startable => Cardinality(active) + Cardinality(Started) = MaxTurns

\* An idle task starts when nothing is active and no handled mailbox was
\* pending, or when it is overdue.
IdleStarts(activeNow) ==
  \/ tasks' = tasks
  \/ \E overdue \in BOOLEAN :
       /\ \/ overdue
          \/ activeNow = {} /\ \A p \in snap : p.mb \notin Handled
       /\ tasks' = tasks \cup (Tasks \cap {"idle"})

PassSchedule ==
  /\ pass = "schedule"
  /\ \E Started \in SUBSET Startable :
       /\ Chosen(Started)
       /\ active' = active \cup {p.mb : p \in Started}
       /\ \E who \in [Started -> Free] :
            /\ \A p, q \in Started : who[p] = who[q] => p = q
            /\ run' = [g \in Gor |->
                 IF \E p \in Started : who[p] = g
                 THEN [pc |-> "read", batch |-> {}, effects |-> 0,
                       mb |-> (CHOOSE p \in Started : who[p] = g).mb]
                 ELSE run[g]]
  /\ IdleStarts(active')
  /\ pass' = "check"
  /\ UNCHANGED <<dbVars, procVars, ticking, again, snap, loop, hubVars, kicks, histVars>>

\* Mutant: the pass ends without asking whether a Kick came meanwhile.
PassCheckOnce ==
  /\ pass = "check"
  /\ snap' = {} /\ ticking' = FALSE /\ pass' = "off"
  /\ UNCHANGED <<dbVars, procVars, active, again, loop, hubVars, run, kicks, tasks,
                 histVars>>

PassCheck ==
  /\ pass = "check"
  /\ snap' = {}
  /\ IF ~again \/ stopped
     THEN ticking' = FALSE /\ pass' = "off"
     ELSE pass' = "begin" /\ UNCHANGED ticking
  /\ UNCHANGED <<dbVars, procVars, active, again, loop, hubVars, run, kicks, tasks,
                 histVars>>

TaskDone(t) ==
  /\ tasks' = tasks \ {t}
  /\ UNCHANGED <<dbVars, procVars, schedVars, loop, hubVars, run, kicks, histVars>>

-----------------------------------------------------------------------------
(* runTurn and the goroutine around it *)

NoTurn == [pc |-> "free", mb |-> None, batch |-> {}, effects |-> 0]

TurnAt(g, pc) == run[g].pc = pc

TurnGoto(g, pc) == run' = [run EXCEPT ![g].pc = pc]

\* PendingMessages: an empty mailbox ends the turn at once.
TurnRead(g) ==
  /\ TurnAt(g, "read") /\ ~cancelled
  /\ LET batch == PendingMessages(run[g].mb) IN
       run' = [run EXCEPT ![g].pc = IF batch = {} THEN "exit" ELSE "handle",
                          ![g].batch = batch]
  /\ UNCHANGED <<dbVars, procVars, schedVars, loop, hubVars, kicks, tasks, histVars>>

TurnReadFails(g) ==
  /\ TurnAt(g, "read")
  /\ IF cancelled THEN UNCHANGED faults
                  ELSE faults < MaxFaults /\ faults' = faults + 1
  /\ TurnGoto(g, "exit")
  /\ UNCHANGED <<dbVars, procVars, schedVars, loop, hubVars, kicks, tasks, given, stops>>

CanAct(g) == TurnAt(g, "handle") /\ run[g].effects < MaxEffects

\* The handler posts a message it decided on because of message c.
TurnPost(g, m, lane, c) ==
  /\ CanAct(g)
  /\ Post("message", m, lane, c, FALSE)
  /\ run' = [run EXCEPT ![g].effects = @ + 1]
  /\ UNCHANGED <<owed, procVars, schedVars, loop, wake, kicks, tasks, stops, faults>>

\* The handler dispatches an execution (WorkerPool.Dispatch): its outcome is owed
\* to this mailbox.
TurnDispatch(g, c) ==
  /\ CanAct(g)
  /\ IF OverBudget(log[c].hop)
     THEN BudgetEscalation(c) /\ UNCHANGED owed
     ELSE /\ Append1([kind |-> "started", mb |-> None, lane |-> "normal",
                      hop |-> HopAfter(c)])
          /\ owed' = owed \cup {<<Len(log) + 1, run[g].mb>>}
          /\ UNCHANGED cursor
  /\ run' = [run EXCEPT ![g].effects = @ + 1]
  /\ UNCHANGED <<procVars, schedVars, loop, wake, kicks, tasks, stops, faults>>

\* The handler returns (or panics); ctx.Err() decides whether it was interrupted.
TurnReturn(g, failed) ==
  /\ TurnAt(g, "handle")
  /\ failed => Cardinality({s \in Seqs : log[s].kind = "error"}) < MaxFails
  /\ TurnGoto(g, IF cancelled THEN "exit" ELSE IF failed THEN "error" ELSE "commit")
  /\ given' = [s \in DOMAIN given |->
       IF s \in run[g].batch /\ ~cancelled THEN given[s] + 1 ELSE given[s]]
  /\ UNCHANGED <<dbVars, procVars, schedVars, loop, hubVars, kicks, tasks, stops, faults>>

TurnError(g) ==
  /\ TurnAt(g, "error")
  /\ Append1([kind |-> "error", mb |-> None, lane |-> "normal", hop |-> 0])
  /\ TurnGoto(g, "commit")
  /\ UNCHANGED <<cursor, owed, procVars, schedVars, loop, wake, kicks, tasks, stops, faults>>

\* Mutant: the cursor moves to the newest message, read by the turn or not.
TurnCommitNewest(g) ==
  /\ TurnAt(g, "commit")
  /\ cursor' = [cursor EXCEPT ![run[g].mb] = Newest(Mail(run[g].mb))]
  /\ TurnGoto(g, "exit")
  /\ UNCHANGED <<log, owed, procVars, schedVars, loop, hubVars, kicks, tasks, histVars>>

TurnCommit(g) ==
  /\ TurnAt(g, "commit")
  /\ cursor' = [cursor EXCEPT ![run[g].mb] = Newest(run[g].batch)]
  /\ TurnGoto(g, "exit")
  /\ UNCHANGED <<log, owed, procVars, schedVars, loop, hubVars, kicks, tasks, histVars>>

TurnCommitFails(g) ==
  /\ TurnAt(g, "commit")
  /\ faults < MaxFaults /\ faults' = faults + 1
  /\ TurnGoto(g, "exit")
  /\ UNCHANGED <<dbVars, procVars, schedVars, loop, hubVars, kicks, tasks, given, stops>>

\* Mutant: the goroutine ends without a Kick.
TurnExitSilent(g) ==
  /\ TurnAt(g, "exit")
  /\ active' = active \ {run[g].mb}
  /\ run' = [run EXCEPT ![g] = NoTurn]
  /\ UNCHANGED <<dbVars, procVars, ticking, again, pass, snap, loop, hubVars, kicks, tasks,
                 histVars>>

\* delete(r.active, address); the Kick after it is KickAfterTurn.
TurnExit(g) ==
  /\ TurnAt(g, "exit")
  /\ active' = active \ {run[g].mb}
  /\ run' = [run EXCEPT ![g] = NoTurn]
  /\ kicks' = kicks + 1
  /\ UNCHANGED <<dbVars, procVars, ticking, again, pass, snap, loop, hubVars, tasks,
                 histVars>>

KickAfterTurn ==
  /\ kicks > 0
  /\ kicks' = kicks - 1
  /\ Kick
  /\ UNCHANGED <<dbVars, procVars, active, snap, loop, hubVars, run, tasks, histVars>>

-----------------------------------------------------------------------------
(* The life of the process *)

\* What the process keeps in memory is gone, or not there yet.
FreshMemory ==
  /\ cancelled' = FALSE
  /\ active' = {} /\ ticking' = FALSE /\ again' = FALSE /\ pass' = "off" /\ snap' = {}
  /\ wake' = 0 /\ unpublished' = 0
  /\ run' = [g \in Gor |-> NoTurn] /\ kicks' = 0 /\ tasks' = {}

Down == up' = FALSE /\ stopped' = TRUE /\ loop' = "off" /\ FreshMemory

Start ==
  /\ ~up
  /\ up' = TRUE /\ stopped' = FALSE /\ loop' = "kick" /\ FreshMemory
  /\ UNCHANGED <<dbVars, histVars>>

\* Stop, up to its unlock; the rest is Cancel and, at bg.Wait, Exit.
Stop ==
  /\ up /\ ~stopped
  /\ stops < MaxStops /\ stops' = stops + 1
  /\ stopped' = TRUE
  /\ UNCHANGED <<dbVars, up, cancelled, schedVars, loop, hubVars, run, kicks, tasks,
                 given, faults>>

Cancel ==
  /\ up /\ stopped /\ ~cancelled
  /\ cancelled' = TRUE
  /\ UNCHANGED <<dbVars, up, stopped, schedVars, loop, hubVars, run, kicks, tasks,
                 histVars>>

Exit ==
  /\ cancelled
  /\ loop = "off" /\ pass = "off" /\ kicks = 0 /\ tasks = {}
  /\ \A g \in Gor : run[g].pc = "free"
  /\ Down
  /\ UNCHANGED <<dbVars, histVars>>

Crash ==
  /\ up
  /\ stops < MaxStops /\ stops' = stops + 1
  /\ Down
  /\ UNCHANGED <<dbVars, given, faults>>

-----------------------------------------------------------------------------
Init ==
  /\ log = <<>> /\ given = <<>>
  /\ cursor = [m \in Mailbox |-> NoCursor]
  /\ owed = {}
  /\ up = FALSE /\ stopped = TRUE /\ cancelled = FALSE
  /\ active = {} /\ ticking = FALSE /\ again = FALSE /\ pass = "off" /\ snap = {}
  /\ loop = "off" /\ wake = 0 /\ unpublished = 0
  /\ run = [g \in Gor |-> NoTurn]
  /\ kicks = 0 /\ tasks = {} /\ stops = 0 /\ faults = 0

Scheduling ==
  \/ LoopKick \/ LoopWake \/ LoopTicker \/ LoopStop
  \/ PassBegin \/ PassQuery \/ PassQueryFails \/ PassSchedule \/ PassCheck
  \/ KickAfterTurn
  \/ \E t \in tasks : TaskDone(t)

Turn(g) ==
  \/ TurnRead(g) \/ TurnReadFails(g)
  \/ \E c \in run[g].batch :
       \/ \E m \in Mailbox, lane \in Lanes : TurnPost(g, m, lane, c)
       \/ TurnDispatch(g, c)
  \/ \E failed \in BOOLEAN : TurnReturn(g, failed)
  \/ TurnError(g) \/ TurnCommit(g) \/ TurnCommitFails(g) \/ TurnExit(g)

Environment ==
  \/ \E m \in Mailbox, lane \in Lanes : OutsidePost(m, lane)
  \/ \E o \in owed : OutcomePost(o)

Life == Start \/ Stop \/ Cancel \/ Exit \/ Crash

Next ==
  \/ Environment \/ Publish \/ Scheduling \/ Life
  \/ \E g \in Gor : Turn(g)

Spec == Init /\ [][Next]_vars

\* Goroutines run, handlers return, executions end and a process that went down
\* is started again.  The fallback poll is not assumed to fire.  LoopStop is strongly
\* fair: select chooses at random among the channels that are ready.
Progress ==
  /\ WF_vars(Publish) /\ WF_vars(LoopKick) /\ WF_vars(LoopWake) /\ SF_vars(LoopStop)
  /\ WF_vars(PassBegin) /\ WF_vars(PassQuery \/ PassQueryFails)
  /\ WF_vars(PassSchedule) /\ WF_vars(PassCheck) /\ WF_vars(KickAfterTurn)
  /\ WF_vars(\E t \in tasks : TaskDone(t))
  /\ \A g \in Gor : /\ WF_vars(TurnRead(g) \/ TurnReadFails(g))
                    /\ WF_vars(\E failed \in BOOLEAN : TurnReturn(g, failed))
                    /\ WF_vars(TurnError(g))
                    /\ WF_vars(TurnCommit(g) \/ TurnCommitFails(g))
                    /\ WF_vars(TurnExit(g))
  /\ WF_vars(\E o \in owed : OutcomePost(o))
  /\ WF_vars(Start) /\ WF_vars(Cancel) /\ WF_vars(Exit)

FairSpec == Spec /\ Progress
=============================================================================
