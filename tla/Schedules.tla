----------------------------- MODULE Schedules -----------------------------
(***************************************************************************)
(* Schedules: internal/kernel/schedules.go, and the scheduler that fires     *)
(* them, internal/connectors/connectors.go.  The scheduler's goroutine, the  *)
(* handlers of the HTTP API that change a schedule and those that run one    *)
(* now work on the table statement by statement; nothing locks it.           *)
(***************************************************************************)
EXTENDS EventLog

CONSTANTS
  Sched,       \* ids of schedules
  Caller,      \* handlers of the HTTP API, one call at a time each
  Ticker,      \* the scheduler's goroutine
  Definitions, \* what the person may create: action, cron, every, enabled
  Patches,     \* what they may change: some of those fields
  Gone,        \* the row of a deleted schedule
  CronPeriod   \* a cron expression fires at its multiples

Firer == Caller \cup {Ticker}

\* The fields given, and the others of what there was.
Over(fields, old) == [x \in DOMAIN fields \cup DOMAIN old |-> IF x \in DOMAIN fields THEN fields[x] ELSE old[x]]

\* A field of a definition holds what the API's types let through.
Fields == {"action", "cron", "every", "enabled"}
Typed(d) ==
  /\ "every" \in DOMAIN d => d.every \in Nat
  /\ \A x \in {"cron", "enabled"} \cap DOMAIN d : d[x] \in BOOLEAN

ASSUME SchedulesAssumption ==
  /\ CronPeriod \in Nat \ {0}
  /\ Ticker \notin Caller
  /\ None # Gone /\ None \notin Nat
  /\ \A d \in Definitions : DOMAIN d = Fields /\ Typed(d)
  /\ \A p \in Patches : DOMAIN p \subseteq Fields /\ Typed(p)

VARIABLES
  now,       \* the clock, which runs while the program does not
  rows,      \* rows[s]: the schedule's row, None if not created yet, Gone if deleted
  due,       \* the rows this tick has read and not fired yet
  job,       \* job[f]: what the firer is at
  marked     \* marked[s]: when the scheduler's last firing of s was marked, -1 before

schedVars == <<now, rows, due, job, marked>>

Idle == [at |-> "idle"]
Is(f, at) == up /\ job[f].at = at
Does(f, to) == job' = [job EXCEPT ![f] = to]
Then(f, at) == Does(f, [job[f] EXCEPT !.at = at])
Exists(s) == rows[s] \notin {None, Gone}

-----------------------------------------------------------------------------
(* Definitions and times *)

ComputeNextRun(d, t) == IF d.cron THEN (t \div CronPeriod + 1) * CronPeriod ELSE t + d.every

\* Exactly one of cron and intervalSec.
Valid(d) == d.cron # (d.every # 0)

\* Mutant: missed periods are replayed one by one.
NextAfterRunReplayed(row, t) ==
  IF row.cron THEN ComputeNextRun(row, t) ELSE (IF row.next = None THEN t ELSE row.next) + row.every

\* On the grid of the due times, periods missed are skipped.
NextAfterRun(row, t) ==
  LET anchor == IF row.next = None THEN t ELSE row.next
      periods == (t - anchor + row.every - 1) \div row.every
      skipped == anchor + periods * row.every
  IN IF row.cron THEN ComputeNextRun(row, t)
     ELSE IF anchor + row.every > t THEN anchor + row.every
     ELSE IF skipped > t THEN skipped ELSE skipped + row.every

\* The time MarkRun writes: one that is still to come stays.
NextRun(row, t) ==
  IF ~row.enabled THEN None
  ELSE IF row.next # None /\ row.next > t THEN row.next
  ELSE NextAfterRun(row, t)

DueSchedules == {s \in Sched : Exists(s) /\ rows[s].enabled /\ rows[s].next # None /\ rows[s].next <= now}

-----------------------------------------------------------------------------
(* FireSchedule *)

\* The scheduler's tick reads what is due.
Tick ==
  /\ Is(Ticker, "idle") /\ due = {} /\ DueSchedules # {}
  /\ due' = {[id |-> s, row |-> rows[s]] : s \in DueSchedules}
  /\ UNCHANGED <<shared, now, rows, job, marked>>

\* It fires them one after the other, by the rows it has read.
TickTakes(d) ==
  /\ Is(Ticker, "idle") /\ d \in due /\ \A e \in due : d.row.next <= e.row.next
  /\ due' = due \ {d}
  /\ Does(Ticker, [at |-> "fire", id |-> d.id, row |-> d.row])
  /\ UNCHANGED <<shared, now, rows, marked>>

RunNow(c, s) ==
  /\ Is(c, "idle") /\ Exists(s) /\ Spends("calls")
  /\ Does(c, [at |-> "fire", id |-> s, row |-> rows[s]])
  /\ UNCHANGED <<log, cursor, up, breaks, now, rows, due, marked>>

\* schedule.fired is recorded; if it cannot be nothing is done.
Fires(f) ==
  /\ Is(f, "fire")
  /\ \/ Then(f, "run") /\ UNCHANGED left
     \/ Fault /\ Does(f, Idle)
  /\ UNCHANGED <<log, cursor, up, breaks, now, rows, due, marked>>

\* The response is captured, or the prompt posted.  An error is only the status of the run.
Runs(f) ==
  /\ Is(f, "run") /\ Then(f, "mark")
  /\ \/ /\ Record(IF job[f].row.action = "prompt" THEN [kind |-> "prompt", of |-> job[f].id]
                  ELSE [kind |-> "http", of |-> job[f].id, wake |-> job[f].row.action = "wake"])
        /\ UNCHANGED left
     \/ Fault /\ UNCHANGED log
  /\ UNCHANGED <<cursor, up, breaks, now, rows, due, marked>>

\* MarkRun, its first statement.
MarkReads(f) ==
  /\ Is(f, "mark")
  /\ \/ Exists(job[f].id) /\ UNCHANGED left
        /\ Does(f, [at |-> "put", id |-> job[f].id, row |-> job[f].row, next |-> NextRun(rows[job[f].id], now)])
     \/ ~Exists(job[f].id) /\ UNCHANGED left /\ Does(f, Idle)
     \/ Fault /\ Does(f, Idle)
  /\ UNCHANGED <<log, cursor, up, breaks, now, rows, due, marked>>

\* MarkRun, its second.
MarkWrites(f) ==
  /\ Is(f, "put") /\ Does(f, Idle)
  /\ \/ /\ IF Exists(job[f].id) THEN rows' = [rows EXCEPT ![job[f].id].next = job[f].next] ELSE UNCHANGED rows
        /\ marked' = IF f = Ticker THEN [marked EXCEPT ![job[f].id] = now] ELSE marked
        /\ UNCHANGED left
     \/ Fault /\ UNCHANGED <<rows, marked>>
  /\ UNCHANGED <<log, cursor, up, breaks, now, due>>

-----------------------------------------------------------------------------
(* The HTTP API *)

\* Even a disabled schedule is given its next time.
CreateSchedule(c, s, d) ==
  /\ Is(c, "idle") /\ rows[s] = None /\ Valid(d) /\ Spends("calls")
  /\ rows' = [rows EXCEPT ![s] = Over([next |-> ComputeNextRun(d, now)], d)]
  /\ UNCHANGED <<log, cursor, up, breaks, now, due, job, marked>>

\* UpdateSchedule reads the row, merges the patch into it and checks what results ...
UpdateReads(c, s, patch) ==
  /\ Is(c, "idle") /\ Exists(s) /\ Valid(Over(patch, rows[s])) /\ Spends("calls")
  /\ LET d == Over(patch, rows[s])
     IN Does(c, [at |-> "save", id |-> s,
                 row |-> [d EXCEPT !.next = IF d.enabled THEN ComputeNextRun(d, now) ELSE None]])
  /\ UNCHANGED <<log, cursor, up, breaks, now, rows, due, marked>>

\* ... and writes all of it.
UpdateWrites(c) ==
  /\ Is(c, "save") /\ Does(c, Idle)
  /\ IF Exists(job[c].id) THEN rows' = [rows EXCEPT ![job[c].id] = job[c].row] ELSE UNCHANGED rows
  /\ UNCHANGED <<shared, now, due, marked>>

DeleteSchedule(c, s) ==
  /\ Is(c, "idle") /\ Exists(s) /\ Spends("calls")
  /\ rows' = [rows EXCEPT ![s] = Gone]
  /\ UNCHANGED <<log, cursor, up, breaks, now, due, job, marked>>

-----------------------------------------------------------------------------
\* The clock's unit is far longer than what separates two statements.
Passes ==
  /\ Spends("time") /\ \A f \in Firer : job[f].at \notin {"put", "save"}
  /\ now' = now + 1
  /\ UNCHANGED <<log, cursor, up, breaks, rows, due, job, marked>>

SchedInit(start) ==
  /\ now = 0
  /\ rows = [s \in Sched |-> IF s \in DOMAIN start THEN Over([next |-> ComputeNextRun(start[s], 0)], start[s]) ELSE None]
  /\ due = {} /\ job = [f \in Firer |-> Idle] /\ marked = [s \in Sched |-> -1]

\* What a crash takes.
SchedForgets == due' = {} /\ job' = [f \in Firer |-> Idle] /\ UNCHANGED <<now, rows, marked>>

SchedNext ==
  \/ Tick \/ \E d \in due : TickTakes(d)
  \/ \E f \in Firer : Fires(f) \/ Runs(f) \/ MarkReads(f) \/ MarkWrites(f)
  \/ \E c \in Caller, s \in Sched : RunNow(c, s) \/ DeleteSchedule(c, s)
                                    \/ (\E d \in Definitions : CreateSchedule(c, s, d))
                                    \/ (\E patch \in Patches : UpdateReads(c, s, patch))
  \/ \E c \in Caller : UpdateWrites(c)
  \/ Passes

-----------------------------------------------------------------------------
\* "A firing before the schedule was due leaves its clock alone", "downtime costs one firing,
\* not a storm" (schedules.go:323-363): whatever the scheduler fires was not yet due when its
\* last firing of that schedule was marked, across run-now, patches, crashes and missed periods.
FiresOncePerSlot == job[Ticker].at # "idle" => job[Ticker].row.next > marked[job[Ticker].id]
=============================================================================
