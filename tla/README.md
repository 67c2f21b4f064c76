# A TLA+ verification of Hidane's core

Hidane is a personal agent runtime: one Go process over one SQLite file.  Everything
that happens is appended to a log of events; agents (the *Primary*, and one *Manager*
per work item) are loops that read their mailbox in turns; long work runs in *executions*,
command-line agents started as child processes.  This directory models the parts where
concurrency, failure and ordering decide whether that works, checks them with TLC, and
proves with TLAPS every safety invariant of the runs that pass, of the event loop, the worker pool,
the agents' runs, the work items and the turns over them, the checkouts and the consumers of the log,
and that the event loop implements the delivery it promises and the agents' drivers what they promise of words.

Paths below are relative to `src/`; `runtime.go` and the like are in `internal/kernel/`,
`workerpool.go`, `manager.go`, `primary.go`, `ingress.go`, `distiller.go` in `internal/agents/`.

## 1. The system

| part | state | operations | what makes it correct |
|---|---|---|---|
| Event log (`events.go`, `kernel.go`) | events by sequence number; a cursor per consumer | Append, ListEvents, CommitCursor | positions only grow; a cursor passes nothing unseen |
| Mailboxes (`mailbox.go`) | cursors of the agent loops | Post, PendingMessages, MailboxesWithPending, OverBudget | every message is in sight of the scheduler; chains of causes end |
| Hub (`hub.go`) | subscribers with bounded channels | Publish, Consume | a dropped wake-up is never the only one |
| Event loop (`runtime.go`) | active turns, coalescing flags, background tasks | Start, Kick, tick, runTurn, Stop | one turn per mailbox, at most maxTurns, nothing skipped, nothing forgotten |
| Worker pool (`workerpool.go`, `executions.go`) | queue, running jobs, the executions table | Dispatch, Deliver, Pump, runJob, CancelTree, Recover, Shutdown | one writer per workspace, every execution reported, cancels stick |
| Agent processes (`agentcli/`) | one child process per execution, its pipes, its protocol | Start, Steer, Cancel, Wait | words are read or refused; the run ends |
| Work items (`workitems.go`, `ingress.go`) | a tree of items with a status; attributions | ChangeStatus, DeliverToWorkItem, Reattribute, Promote | a message has one owner; a parent hears once that its parts have settled |
| Turns (`manager.go`, `primary.go`) | none of their own | read, think, apply effects | effects against a tree that moved meanwhile; what is told is true and told once |
| Repositories (`internal/repos/`, `repos.go`) | repositories, checkouts, leases, setup state; disk and git | Attach, Inherit, Archive, Forget, Register, Relocate, Check, RunSetup | one checkout per item, one lease, no worktree nobody knows, unsaved work kept |
| Schedules (`schedules.go`, `connectors.go`) | next run, last run | CreateSchedule, UpdateSchedule, DeleteSchedule, MarkRun, FireSchedule | no due time fired twice, missed ones once |
| Feishu (`feishu.go`, `misc.go`) | ids seen, bindings, the outbox's cursor | HandleMessage, OutboxOnce | a message taken once, answers in order |
| Triage (`connectors.go`) | a cursor | TriageOnce, Heartbeat, the webhook handler | every captured event is decided |
| Memory (`distiller.go`, `files.go`) | memory files, a cursor | RunDistillation, AppendMemory, Forget, RedactMessage | nothing passed over, nothing twice, nothing hidden |
| Guard, settings, projections, desktop, front end | little or none | | pure functions and views |

How they interact: a connector, a person or an agent *posts* a message; the append is
published on the hub, which wakes the loop; the loop *kicks*, one scheduling pass at a
time lists the pending mailboxes and starts turns; a turn posts messages to other
mailboxes and dispatches executions; the pool runs those and posts their outcome back to
the mailbox of their owner.  The person's cancel goes straight to the pool, their words
go to the Manager's mailbox and from there to the pool, which steers them into the run of
an agent process.  Handlers of the HTTP API call the same operations on goroutines of
their own.  Triage, outbox and distiller read the log behind cursors of their own.

What is hard: passes that decide on old lists, coalesced kicks, dropped wake-ups; a
shutdown or a crash between a handler and its cursor, between a status and its message,
between a row and its job; cancels and words that race the start and the end of an agent;
a shutdown whose parts stop in order while the others still run.  `PROJECT.json` lists
the main hazards at their lines, with the property that watches each or the reason there is none.

## 2. Modules

| module | models | kind |
|---|---|---|
| `Delivery` | what the mailbox layer promises: in order, no gap, at least once, one open turn | abstract specification |
| `Runtime` | `runtime.go` and `mailbox.go`, with Append of `events.go` and Publish of `hub.go` | component |
| `RuntimeProperties` | type invariant, safety, liveness, inductive invariants, refinement of `Delivery` | properties |
| `RuntimeProofs`, `RuntimeDeliveryProofs` | types, turns and cursors; hops, wake-ups and the refinement of `Delivery` | proofs |
| `MCRuntime` | instances for TLC | model checking |
| `WorkerPool` | `workerpool.go` over `executions.go`, with the words of `manager.go` and Start and Stop of `app.go` | component |
| `WorkerPoolProperties` | type invariant, safety, liveness, and what the documentation promises | properties |
| `WorkerPoolProofs`, `WorkerPoolRunProofs` | the queue and the jobs; writers, cancels, words, outcomes and rows | proofs |
| `MCWorkerPool` | instances for TLC | model checking |
| `SteeredWords` | what Steer and Wait promise about words said during a run | abstract specification |
| `AgentRun` | `process.go`: a process, its pipes, the deadline and the kill | component |
| `ClaudeRun`, `CodexRun`, `PiRun` | `claude.go`, `codex.go`, `pi.go` over `AgentRun`, with the programs they talk to | components |
| `AgentRuns`, `MCAgentRuns` | a run of any of the three, its fairness, the refinement of `SteeredWords`; instances | composition, properties |
| `AgentRunsProofs` | theorems about them: types, and the refinement of `SteeredWords` | proofs |
| `WorkTree` | `workitems.go` and `ingress.go`: the tree, deliveries, attributions, notices | component |
| `Turns` | `manager.go` and `primary.go` over `WorkTree` | component |
| `TurnsProperties`, `MCTurns` | what the tree and the turns guarantee together; instances | properties |
| `TurnsProofs` | theorems about all of them | proofs |
| `Checkouts`, `MCCheckouts` | `internal/repos/repos.go` over the tables of `repos.go`, disk and git; instances | component |
| `CheckoutsProofs` | theorems about `Checkouts` | proofs |
| `EventLog` | the log, cursors and the life of the program, shared by the next four | component |
| `Schedules` | `schedules.go`, and the scheduler and FireSchedule of `connectors.go` | component |
| `Feishu` | `internal/feishu/feishu.go` over the bindings of `misc.go` | component |
| `Memories` | `distiller.go` and the memory files of `files.go` | component |
| `Consumers`, `MCConsumers` | TriageOnce, and `Schedules`, `Feishu` and `Memories` around one log; instances | composition |
| `ConsumersProofs` | theorems about the scheduler, Feishu's gate, triage, outbox and the distiller, over all of `Consumers` | proofs |

### Runtime

The log, the cursors and the outcomes that are owed are the database and survive a
restart; all else is memory.  A step is what one goroutine does between two points where
another can get in, that is, one database statement or one critical section of
`Runtime.mu`:

* the loop of `Start` (`LoopKick`, `LoopWake`, `LoopTicker`, `LoopStop`), whose `select`
  may take any channel that is ready;
* `Kick`, used by the loop and by every turn that ended (`KickAfterTurn`), which starts
  the single scheduling goroutine or sets `again`;
* that goroutine: `PassBegin` (clears `again`, starts timers that are due), `PassQuery`
  (MailboxesWithPending), `PassSchedule` (the second critical section of tick), `PassCheck`;
* the goroutines of turns: `TurnRead`, then any number of `TurnPost` and `TurnDispatch`
  (what a handler may do), `TurnReturn`, `TurnError`, `TurnCommit`, `TurnExit`;
* `Publish`, which runs after the commit of an append and drops the wake-up when the
  channel is full;
* `Stop`, `Cancel`, `Exit`, `Crash` and `Start`.

`Post` seeds a missing cursor in the transaction of the append, as the code does, and
refuses what is over the hop budget with an escalation, unless the message is always
delivered.  Database errors are steps of their own (`PassQueryFails`, `TurnReadFails`,
`TurnCommitFails`), limited by `MaxFaults`.  A handler is any sequence of posts and
dispatches caused by messages of its batch; what the agent thinks is left out.

### WorkerPool

The rows of the executions table, the outcome events and the cancel events survive; the
queue (`order`, `running`), the jobs and the program counters do not; an agent process
(`cli`) belongs to the operating system and survives a crash, since it runs in a process
group of its own.  Steps are again single statements and critical sections:

* a Manager turn dispatches (`DispatchRow`, `DispatchAppend`, `DispatchEnqueue`,
  `DispatchPump`; `DispatchFails`) or delivers the person's words (`WordArrives` reads the
  active execution, `DeliverRoute` is the section under `p.mu`, `DeliverHand` the one under
  `j.mu`).  What Deliver returns is recorded in the same step as the delivery; a crash
  between the two is not modelled, and no property depends on it;
* `runJob` goes through check, mark, amend, setup, script, arm, start, hold, wait, report,
  post, remove, pump.  The setup scripts of several checkouts are one script.  Whether the
  agent does well is a choice; `WorkerFails` covers every early return with an error;
* `CancelTree` walks the items of a subtree: look, ask (the event), lock (`p.mu`), then flag
  (`j.mu` and the Cancel of the run) or report and post.  The context of the call may be
  gone at any statement (`CancelFails`);
* `App.Start` runs Recover before the loop; `App.Stop` shuts the pool down before the loop
  and waits for the turns; `Exit` and `Crash` forget the memory.

Left out: the delegated parts CancelTree closes at its end, the trail of tool events, the
prompt, the pending-input file.

### AgentRuns

A run is a process with a pipe to it and a pipe from it.  A step is one line handled by
the program, one line handled by the reader goroutine (`readLines` calls `onLine` in
order), one critical section of the driver, or one call of Steer or Cancel.  What the three
programs do is read off the drivers and off `cmd/fakeagent`, which plays them in the tests:

* Claude replays what it read, merged or not, and answers each turn with a result; the
  driver counts what it sent, strikes off what is replayed (`Struck`, where one text may
  contain another) and closes stdin when nothing is owed;
* codex is asked by calls with answers: `turn/start`, `turn/steer`, `turn/interrupt`; words
  wait in a queue or are steered into the turn that runs, and a tool call the guard was
  not shown makes the run fail;
* pi takes steering lines while it streams and says when it has settled.

`SteeredWords` is the promise behind all three: Steer answers once, a refused word is not read
(unless the run is being stopped), a run that ends well has read what it accepted.  pi
does not keep the last part, nor does Claude when its program dies after a first result; the
refinement mapping lets those two end badly (section 3).

### WorkTree and Turns

The log is the events table; statuses, parents and the set of items at work are the other
tables.  Handlers of the person's calls (`Caller`), the Primary and the Managers are
processes; a step is one statement, and ChangeStatus holds `statusMu` (`mutex`) over several.
Deliveries, with the reopening of an item, the copy to its Manager and the words for the
execution, are in `WorkTree`; so are ChangeStatus with `notifyParentIfSettled` and the part of
CancelTree that closes children.  `Turns` adds ManagerTurn and PrimaryTurn: read, drop what was
moved away, think, then carry out effects in the phases of the code.  The model may
answer anything, so every effect is a choice at the moment it is carried out, while the
statuses it is judged by are those the turn read before it thought.

### Checkouts

Places of the person hold clones, directories in the items' workspaces hold worktrees, git
knows branches and listed worktrees, and the two tables say what hidane was told.  Attach,
Archive and repair run under `Service.mu` (`lock`) in several steps of disk, git and tables;
register, relocate, forget, check, the setup scripts and the person's own moves do not.  git's
answers are modelled as far as the code depends on them: a branch is in one worktree at a
time, a listed directory that is gone is pruned, a worktree belongs to a clone by its link.

### Consumers

`EventLog` holds what is durable and shared.  Each of the other modules has its own variables
and a `...Next`, and `Consumers` interleaves them, adds triage, the connectors and the agents'
answers, and lets the program crash and start at any time: then every goroutine's place
is lost and tables, files, the clock and the log remain.

* `Schedules`: the tick reads the due rows and fires them one by one (`Tick`, `TickTakes`, `Fires`,
  `Runs`, `MarkReads`, `MarkWrites`); the API creates, patches (read, then write), deletes and
  runs now.  A cron expression is a period of the clock; names, specs and time zones are data.
* `Feishu`: each delivery is a goroutine that looks, judges, records, acts, binds and submits; the
  outbox routes, opens a thread, binds it, sends in parts and commits.  The ring of remembered
  ids drops its oldest as the code does, with 2 and 1 for its 2000 and 1000.
* `Memories`: one distillation reads pages, reconciles, thinks, weighs each idea and writes the
  sure ones; adding and forgetting by hand read and write the same files without a lock.

Three assumptions are made here.  The unit of the clock is far longer than what separates
two statements of one operation.  No handler of Feishu lives through a thousand newer
messages (it has a deadline; an id is dropped after a thousand others).  A file is
written in one step, and a memory is one line, as the distiller's charter asks.

## 3. Runs

All counters of the environment are bounded by a constant that only guards it:
`MaxOutside`, `MaxEffects`, `MaxFails`, `MaxStops`, `MaxFaults`, `MaxCrashes`, and the sets
`Exec`, `Canceller` and `Word`.

| run | instance | shows |
|---|---|---|
| `RuntimeSafety` | 3 mailboxes, 2 turns at once, 3 messages, batches of 2, a timer and an idle task | turns do not overlap, at most 2, nothing is given twice, no wake-up is lost; type correctness |
| `RuntimeStops` | a shutdown or crash, a database error, both lanes, a mailbox without handler | nothing skipped, cursors never go back, `BatchInv`; `Runtime` implements `Delivery` |
| `RuntimeLive` | 2 mailboxes, 1 turn at once, turns that post, dispatch and fail, hops up to 1 | the hop budget; every message handled; the system comes to rest |
| `PoolRestart` | 2 executions of 2 items, 1 slot, a shutdown, a crash and a database error | the limit on workers, reported once at most; type correctness |
| `PoolCancels` | 1 execution of a part of an item, 2 messages, a cancel of the tree, a shutdown, a crash and a database error | amendments reach the agent, a cancel reaches the run, no orphan row, late words ride with the outcome |
| `PoolReports` | 2 executions of one item, 2 slots, a cancel | one writer; every execution is reported |
| `Steering` | a run of each agent, 2 words of which one contains the other, one cancel, timeout or death | `SteeredWords` is kept, a run with an unguarded tool call does not end well, every run ends |
| `TaskTurns` | a task with one part and an item to come, 1 message, 3 calls, an error, 4 things asked of the model among all kinds of effects | a message is worked on where it was moved last; a parent hears that its parts settled, once, after the result; nothing is told that was refused, nothing twice |
| `Checkouts` | 2 repositories, 2 places, 2 clones of one remote, 2 items, 2 callers; 4 calls, 2 moves by the person, an error, a restart | one checkout per item and one lease; no worktree nobody knows of; unsaved work is kept; no setup hangs |
| `Consumers` | thirteen mixes of schedules, messages, answers, captured events, distillations and calls by hand, with a crash, failed statements or both | a due time is fired once; a message is taken once; triage, outbox and distiller pass nothing over, in order, again only after an interruption |

Why the bounds are enough to be interesting: two mailboxes are what it takes for one turn
to wake another and for a pass to choose, and a third one makes a limit of two turns bite;
with `WakeCap` = 1 the channel of the hub is full as soon as two appends race; two
executions compete for the workspace of one item, or for the one slot; one crash is
enough to separate any two steps, and a shutdown with a crash gives two restarts.  Two words,
one inside the other, are what it takes for Claude's matching to go wrong; moving a
message there and back takes three calls; a lease is contended by two items, and a
repository that moved meanwhile by two places.  `Consumers` starts from *scenes* (`MCScenes`)
that say what may be spent on each kind of thing: all its parts write one log, but they meet in
twos (a schedule with the outbox, a webhook with a delivery), and each scene has enough for
the case it is named for.  Batches and pages are of 2 events, so that there is a second one.

Fairness.  A goroutine that can run eventually does; handlers and agents end (the code
limits both in time); an owed outcome is posted; a process that went down is started
again.  The loop's `select` is random among the ready channels, hence strong fairness
of `LoopStop`.  Neither the fallback poll of the loop nor the pump timer of the worker pool
is assumed: wake-ups alone carry every message, and an ending job starts the next.  After a
database error the loop does depend on its poll; liveness with faults is not checked.
In `Steering` the program, the reader and the driver go on, a killed program dies, what it
left is read, and a call to codex is given up after its ten seconds; nothing is assumed of the
person, of deadlines or of programs that die by themselves.  The other runs state safety only.

### Where the code does otherwise than it says

Two runs are expected to be violated; each states a sentence the repository says of itself.

| run | sentence | what happens |
|---|---|---|
| `CancelledRuns` | "CancelTree already reported it" (and the job is skipped), `workerpool.go:239` | a cancel between the row and the job reports it; the worker, which read the row before, runs it |
| `OutcomeLost` | the outcome of every execution reaches its owner, `docs/wails-migration.md:63` | a crash between the final status and the post: Recover sees no active row |

The models also reach states where the code gives less than one might expect.  No property
claims them, or a property says where it ends:

* a cancel accepted after the last look at the flag leaves the outcome done or failed; words buffered
  for a run whose start fails are dropped; of two active executions of one item a cancel stops
  the older only; a turn still open after `Shutdown` returned can dispatch an agent nobody waits for;
* pi loses words that cross its report that it settled; Claude's run is a success though its
  program died after a first result with words unread;
* an item closed while a message is on its way to it keeps the message and stays closed; the
  notice to a parent may be refused by the hop budget, and is then an escalation;
* ForgetRepo looks for active checkouts and deletes the row in two statements: an attach in between is
  left without a repository, and its directory can be lent again under a new one;
* a schedule that is disabled after the tick read it fires once more; one enabled between the two
  statements of MarkRun loses its next run until it is patched again; two private chats that
  write first at the same time are both heard;
* a memory file has no lock: a change can overwrite another (`clashed`); a memory of several lines
  is not recognised again; a work item's memory whose record failed stays unrecorded; an entry
  written with an editor has no id and is not recorded, whatever the comment says.

## 4. Proofs

The theorems hold for every value of the constants that satisfies the assumption of their
module.  Their inductive invariants are written beside the properties they are for, or at the head of
the proof that uses them.  A proof has one step per action that can disturb a conjunct, and the *frame*
lemmas before it say which actions those are.

**Event loop** (`RuntimeAssumption`: as many goroutine identities as `maxTurns`, finite in number; the
limits are naturals).

| theorem | states | rests on |
|---|---|---|
| `TypeCorrect` | `TypeOK` | |
| `OneTurnAtATime`, `WithinTurnLimit` | `OneTurnPerMailbox`, `TurnsWithinLimit` | `SlotInv` |
| `NothingSkipped`, `CursorsAdvance` | `NoMessageSkipped`, `CursorsOnlyAdvance` | `BatchInv`, `SlotInv` |
| `HopsBounded` | `HopsWithinBudget` | `HopInv` |
| `NothingRepeated` | `NoMessageRepeated` | `RepeatInv`, `LifeInv`, `BatchInv` |
| `WakeupsKept` | `NoLostWakeup` | `KickInv`, `SlotInv` |
| `DeliversInOrder` | `DeliverySpec` | all of them |

That two turns of a mailbox never overlap is not inductive: a pass starts turns by a list
read long before.  `SlotInv` adds why it may: a busy goroutine holds its mailbox in
`active` until its last step, `PassSchedule` starts no mailbox in `active`, and the rows of
one list are of distinct mailboxes.  That no message is skipped is not inductive either:
the commit moves the cursor to the last message *read*, and between the read and the commit
messages arrive.  `BatchInv` says the batch of a turn starts right after the cursor of its
mailbox and has no gap below its last message, which holds since no other turn of the
mailbox moves the cursor (`SlotInv`) and new messages come at the end of the log.  `CursorsAdvance`
follows: a commit overwrites the cursor with a message above it.

A message given once stays pending until the commit, so `RepeatInv` says who has it meanwhile
(`HeldUntilCommit`): the one turn that is about to move the cursor past it; hence a second turn
would have to be of the same mailbox.  `HopInv` bounds an outcome, which is exempt from the budget,
by the start it answers, which is not.  `NoLostWakeup` needs that `again` is only meaningful while
a pass runs (`KickInv`), that a pass which did not start a mailbox found it active or the slots
full (`PassFillsSlots`), and that a turn which ends has still to kick.

For the refinement, the open batch of a mailbox is what its goroutine has read and not
committed, and what is consumed is what lies at or below its cursor.  `TurnOpens` and `TurnCloses`
map the read and the commit; a post maps to a post although it also seeds the cursor
(`ConsumedIsCursor`: a seed stands below every message); all other steps stutter.

**Worker pool** (`WorkerPoolAssumption`: finitely many executions, each of an item; a subtree that is
cancelled is not empty; at least one slot).

| theorem | states | rests on |
|---|---|---|
| `PoolTyped` | `PoolTypeOK` | `CallInv`, `QueueInv` |
| `WritesAlone`, `LimitKept` | `OneWriter`, `WorkersWithinLimit` | `HoldInv` |
| `CancelsArrive` | `CancelReachesRun` | `HoldInv` |
| `AmendmentsArrive` | `AmendmentsReachAgent` | `AmendInv`, `HoldInv` |
| `ReportsOnce` | `ReportedOnce` | `OnceInv` |
| `RowsHeld` | `NoOrphanRow` | `RowInv` |
| `LateWordsArrive` | `LateWordsRide` | `LateInv` |

`Core`, the type invariant with `CallInv` and `QueueInv`, is proved first and every other proof uses it.
`QueueInv` says why `running` may be trusted: an execution enters the queue once, since a row that
is on its way in (`Entering`) is neither queued nor running nor at work, and Pump passes over the
items at work.  `HoldInv` then ties the agents to it: a job is `held` from the registration of its
run on, a held job whose agent lives has a goroutine that waits for it, and that goroutine
is of a job in `running`.  A cancel may come before or after the registration: `HoldInv` says that each of
the two orders leaves the run cut.  `AmendInv` says that an amendment is in the job until
the snapshot and in the instructions from then on, since Deliver amends only while the job has not been told.

That an execution is reported once is about what everybody who could report it knows: `OnceInv` has a
conjunct for the worker, the recovery, and the queue.  `RowInv` says that while no statement has failed an
active row is either in someone's hands or in the list of the recovery that goes on.  `LateInv` follows
a late word from the delivery to the turn that hears the outcome (`OutcomeComes`).

**Agents' runs** (`AgentRunAssumption`: the prompt is none of the words; which word is part of which is arbitrary).

| theorem | states | rests on |
|---|---|---|
| `RunsTyped`, `UnguardedRunsFail` | `RunsTypeOK`, `UnguardedFails` | `AgentInv` |
| `SteersTruly` | `SteeringKept`: `SteeredWords!Spec` under the mapping in `AgentRuns` | `AgentInv` |

`AgentInv` (`AgentRunsHold`) has a part for the process and one for each driver.  For Claude it counts: results told, results on
their way, the turn that runs and what waits for the program are together at most what was sent
(`ClaudeCounts`), so that when the driver has as many results as messages nothing is left to read; and what
it has accepted is read or in the pipe or the program's queue unless the run is being stopped or the program died.
`Struck`, the search for what a replay covers, leaves only words that were there, and no more of them, whatever
text is part of whatever other.  For codex the question is who answers for a word.  `CodexCalls` says a person has at most one
call for a word and the driver one at a time; `CodexCharge` that what a person's call is still asked about is not in the
driver's charge, and that what the driver has in its charge is not refused; `CodexStarts` that at most one turn is being asked for; and `CodexWords`
that, unless the run will not end well, what was accepted or may still be is read, queued, or being steered, and that
nothing of it is left when the driver finishes.  For the refinement every step but those of Steer, of a
line being read, of a cancel or of the end stutters; the step that ends a run well needs `CodexWords`, or for
Claude `ClaudeWords`, to have read all it accepted.  Fairness plays no part in it, as `SteeredWords` has none.

**Checkouts** (`CheckoutsAssumption`: `None` is no value of the other sets, the person's places are not
hidane's directories).

| theorem | states |
|---|---|
| `TablesKept` | `RegistryTypeOK` |
| `TreesRecorded` | `NoTreeUnrecorded` |
| `SetupsRun` | `SetupNotStuck` |
| `WorkKept` | `UnsavedKept` |

All four follow from `CheckoutsInv`.  Its heart is `LockInv`, what a call that holds `Service.mu` may rely on
across its steps: the item still has no checkout of the repository, the new worktree is still clean, what
was looked at before the removal is still clean or was written too late to be seen.  `OthersWait`
proves why: while one call is in the locked part, the others add no row and touch no worktree; only the
agents' writes and the person's hand remain, and ForgetRepo, which takes no lock, archives rows but changes
nothing else (`RowStep`).  `RowStep` also says that a row is archived only as kept, in place, or without its
tree, from which `TreesInv` follows; the lease is per repository row (`TablesInv`), not per directory.

**Work items and turns** (`WorkTreeAssumption`: finitely many items; items, callers, messages, the Primary
and `None` are apart; the tree at the start is one.  `TurnsAssumption`: the limits are naturals).

| theorem | states | rests on |
|---|---|---|
| `TurnsTyped` | `TurnsTypeOK` | `TypeInv` |
| `NoticeGiven`, `NoticeGivenOnce` | `SettledIsHeard`, `HeardOnce` | `HeardInv` |
| `ResultsFirst`, `RefusalsSilence`, `ConfirmationsOnce` | `ResultBeforeSettled`, `NoReplyAfterRefusal`, `ConfirmedOnce` | `SaidInv` |
| `MovesArrive` | `MovedOnce`, for `MaxHops > 0` | `MoveInv` |

Most steps add a few events to the log and leave the rest of it, so the proofs are about which kinds
a step adds (`Adds` and the lemmas named `...Adds`).  `TypeInv` adds to the types what makes
the code's look-ups safe: items a call or a turn refers to have a row, a call under way has something
to do, a turn's batch lies past its cursor.

`HeardOnce` is not inductive, since a notice is posted some statements after the part settled: `HolderOK` says the
call with the lock has recorded a settling that no notice follows yet.  `AnsweredOK` says that of each item
a part is open, or the last settling was told of, or the holder of the lock is about to see to it;
a message that reopens a part, outside the lock, makes the first true, and a cancel's closing counts as
an answer, as in `SettledIsHeard`.

`SaidInv` follows what was said to the end of the turn that said it: a closing that answers a batch, a
refused dispatch and a confirmation each mean that the turn is at its last phase, or its cursor is past one
of the messages (`Past`), which no later batch can hold.  `CallsSay` ties a call that closes an item for its
Manager to the turn that waits for it, `MarksSay` the marks of a turn to one another.

`MoveInv` says where each message is between two moves: the item it was given to last has its copy, or the one call
that gave it is about to bring it (`Brought`, `ToBring`), and the copies elsewhere were taken away later than
they were made (`Gone`).  Both are needed at the next move: its `prev` is the item the copies are at.  The
hypothesis `MaxHops > 0` is needed: the copy of a person's message is one hop deep, and with
`HIDANE_MAX_HOPS=0` every copy is refused.

**Consumers** (over every step of `Consumers`).

| theorem | states | rests on |
|---|---|---|
| `SchedulesFireOnce` | `FiresOncePerSlot` | `SchedInv` |
| `MessagesTakenOnce` | `TakenOnce` | `GateInv` |
| `ConsumersFollow` | `ConsumersKeepUp` | `KeepInv`, `GateInv` |
| `DistillerFollows` | `DistillerKeepsUp` | `MindInv`, `KeepInv`, `GateInv` |

The assumptions: `SchedulesAssumption` (times are naturals, definitions have the types the API lets through),
`FeishuAssumption` (every message has a chat; the ring drops no more than it holds), `MemoriesAssumption` (what the agent answers is a finite
sequence of ideas, each for a known layer; `DistillPage` and `DistillCap` are not 0) and `ConsumersAssumption`, about the
log there is at the start: what it holds of a message was handled to its end, nothing was decided or
forgotten yet, a reply comes after what it answers.

That the scheduler never fires a due time at or before its last
mark is not inductive: it fires by rows read long before, and the mark is written by one of several
firers in two steps.  `SchedInv` adds that no row of the table, no row the tick has read and nothing about to be
written has a next time at or before the mark of its schedule, and that the rows read are of distinct
schedules, none of them the one being fired.  The arithmetic of a late firing
(`AfterRunIsAhead`) rests on what integer division leaves (`QuotientBound`).

Feishu's gate is three looks at different times: the ring in memory, the log's
record of the message, the log's record of what became of it.  `GateInv` says why no two deliveries
pass: no two goroutines at work have the same message, so what one found in the log stays so until it acts
(`HandsInv`), and a message that is recorded and neither taken nor cut short is in the hands of one of them
(`LogInv`).  A restart empties the ring and the hands together.

For triage, `TriInv` adds to the property where a pass stands: its decision is recorded before the cursor
moves, so that the event just above the cursor may be decided already, and then either the pass is about
to commit or there was an interruption since (`TriOrder`).  For the outbox, `OutInv` says what a batch read before
is still worth: it holds every answer from the cursor up to its last, in order, and new answers come above it
(`BatchOK`); what was sent is of answers up to the one in hand, and of that one only parts below the next, unless an
interruption came between (`SentTo`).  Both rest on `Ranked`: `Ordered` lists a finite set of places once each, in order.

`MindInv` is for the distiller, whose pass reads the log, the memory files and its own answer at different times, while
the person hides messages and changes the same files.

* `ReadInv`: what it read is all that means something from its cursor up to where it read, and nothing of it was hidden by
  then.  What is hidden or said later has a greater seq, and a message that is hidden stays so; hence the commit of the
  place it read to, much later, passes over nothing (`ReadCommits`).  It commits nothing it has not answered but what
  is empty.
* `KnownInv`: an id it knows is in the log, or still in the list of those it is about to record.
* `FilesInv`: ids are given once; what a file or a change under way holds has one; a change adds the entry it records or removes
  the one it records.
* `CleanInv`, as long as no writer has written over another: an id being added is nowhere yet, no other change is about
  it, and it was never forgotten; an entry is in one file; what the distiller is about to add, the layer still
  does not hold from the distiller.  The last holds though the check and the write are three steps apart, since
  only the distiller adds entries of its own.  `clashed` is what the proof needs and the code cannot
  exclude: a writer that writes an old copy back brings a forgotten entry back.

Only model-checked:

* everything temporal under fairness, which is beyond the prover: `EveryMessageHandled`, `ComesToRest`,
  `EveryExecutionReported`, `RunEnds`;
* the two runs that show a violation.

## 5. Not modelled, and why

* The guard (`internal/guard`): pattern matching over shell text, without state but for the
  file of pending inputs.
* Settings: validated reads and writes of one JSON document.  Configuration and clipping: text.
* Projections: read models for the interface.  The HTTP API: its handlers appear where they
  change something (`Turns`, `Checkouts`, `Schedules`, `Memories`, `Consumers`); parsing, validation and
  reading are left out.
* Repository changes and `.hidane.yaml`: parsing of git's output and of a file.
* Charters, prompts, trails, session files: wording.  The archive sweep: an idle task of `Runtime`.
* Artifacts and the note of a repository: single statements.
* The command line's `distill` and `forget`, which run beside the server, the desktop shell and the front end.
